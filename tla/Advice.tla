-------------------------------- MODULE Advice --------------------------------
(***************************************************************************)
(* POST /v1/advice: where along the direction the passenger is, which part *)
(* of the way ahead the horizon selects, which side the sun is on there    *)
(* and the seat that follows. Distances are whole metres and angles whole  *)
(* degrees. Geometry and astronomy are inputs: a location is given by the  *)
(* point of every segment that is nearest to it, and the sun by what it is *)
(* at the midpoint of every segment. Divisions keep their rounding errors. *)
(***************************************************************************)
EXTENDS Integers, Sequences, SequencesExt, FiniteSets

CONSTANTS Cases,           \* requests with the route contexts they load
          WindowDistance,  \* what a bus covers in fifteen minutes
          OffRoute,        \* the distance from which a location is off the route
          None

\* A segment as it is loaded, with the sun at its midpoint.
Segments == [length : Nat, bearing : Int, azimuth : Int, elevation : Int]

ASSUME AdviceAssumption ==
    /\ WindowDistance \in Nat \ {0, None} /\ OffRoute \in Nat \ {0}
    /\ \A c \in Cases :
          /\ c.mode \in {"onboard", "preview"}
          /\ c.segments \in Seq(Segments)
          /\ c.location # None => \A k \in DOMAIN c.segments :
                c.location[k].off \in Nat /\ c.location[k].along \in 0..c.segments[k].length

VARIABLES asked,     \* the request and its context
          selected,  \* the part of the way the answer is about, or None
          answer

vars == <<asked, selected, answer>>

Sum(distances)  == FoldLeft(+, 0, distances)
Lengths(segments) == [k \in DOMAIN segments |-> segments[k].length]
\* cumulative_distance_meters of segment k
Cumulative(segments, k) == Sum(SubSeq(Lengths(segments), 1, k))

Directions == {"left", "right", "front", "back", "overhead", "none"}
\* The shares of an answer sum to 100.
Shares == {s \in [1..3 -> 0..100] : s[1] + s[2] + s[3] = 100}

Init == asked \in Cases /\ selected = None /\ answer = None

-----------------------------------------------------------------------------
(* The request and its route context *)

Refused(code) == [status |-> "error", code |-> code]
Withheld(mode, reason) == [status |-> "withheld", mode |-> mode, code |-> reason]

Invalid == asked.mode = "onboard" <=> asked.location = None
Errors  == {"routeNotFound", "routeVersionStale", "routeDirectionNotFound"}

Refuse ==
    /\ selected = None /\ answer = None
    /\ Invalid \/ asked.status \in Errors
    /\ answer' = Refused(IF Invalid THEN "validationFailed" ELSE asked.status)
    /\ UNCHANGED <<asked, selected>>

Loaded == selected = None /\ answer = None /\ ~Invalid /\ asked.status \notin Errors

-----------------------------------------------------------------------------
(* project_location_to_segments *)

\* The first of the segments that are nearest to the location.
Projection ==
    LET nearest == CHOOSE k \in DOMAIN asked.segments : \A l \in DOMAIN asked.segments :
                      \/ asked.location[k].off < asked.location[l].off
                      \/ asked.location[k].off = asked.location[l].off /\ k <= l
        before  == Cumulative(asked.segments, nearest) - asked.segments[nearest].length
    IN  [segment |-> nearest, off |-> asked.location[nearest].off,
         cumulative |-> before + asked.location[nearest].along]

-----------------------------------------------------------------------------
(* segments_after_projection and _segments_from_direction_start *)

Budget == IF asked.horizon = "upcoming" THEN WindowDistance ELSE None

Min2(a, b) == IF a < b THEN a ELSE b

\* Distances are taken one after the other while any budget is left.
Within(distances, budget) ==
    LET Before(k) == Sum(SubSeq(distances, 1, k - 1))
    IN  [k \in {l \in DOMAIN distances : budget # None => Before(l) < budget} |->
            IF budget = None THEN distances[k] ELSE Min2(distances[k], budget - Before(k))]

\* Mutant: the segment the passenger is on counts in full.
WholeSegment(p)  == asked.segments[p.segment].length
RestOfSegment(p) == Cumulative(asked.segments, p.segment) - p.cumulative

AfterProjection(p) ==
    LET later == SubSeq(Lengths(asked.segments), p.segment + 1, Len(asked.segments))
    IN  [mode |-> "onboard", at |-> p.cumulative, first |-> p.segment,
         distances |-> Within(<<RestOfSegment(p)>> \o later, Budget)]

FromStart ==
    [mode |-> "preview", at |-> 0, first |-> 1,
     distances |-> Within(Lengths(asked.segments), Budget)]

\* build_advice up to the selection: off the route it falls back to a preview if
\* the request allows that.
Select ==
    /\ Loaded
    /\ IF asked.segments = <<>>
       THEN answer' = Withheld(asked.mode, "missingRouteGeometry") /\ UNCHANGED selected
       ELSE IF asked.mode = "preview" \/ (Projection.off > OffRoute /\ asked.fallback)
       THEN selected' = FromStart /\ UNCHANGED answer
       ELSE IF Projection.off > OffRoute
       THEN answer' = Withheld("onboard", "locationOffRoute") /\ UNCHANGED selected
       ELSE selected' = AfterProjection(Projection) /\ UNCHANGED answer
    /\ UNCHANGED asked

-----------------------------------------------------------------------------
(* exposure.py *)

\* Mutant: the difference of the angles is not wrapped.
PlainDifference(azimuth, bearing) == azimuth - bearing
Difference(azimuth, bearing) == ((azimuth - bearing + 180) % 360) - 180

ExposureDirection(segment) ==
    LET delta == Difference(segment.azimuth, segment.bearing) IN
    CASE segment.elevation < 0   -> "none"
      [] segment.elevation >= 70 -> "overhead"
      [] segment.elevation \in 0..69 ->
            IF delta \in -20..20 THEN "front"
            ELSE IF delta \notin -159..159 THEN "back"
            ELSE IF delta > 0 THEN "right" ELSE "left"

SunCondition(elevation) ==
    CASE elevation < 0     -> "night"
      [] elevation \in 0..9 -> "lowSun"
      [] elevation \in 10..69 -> "daylight"
      [] elevation >= 70   -> "overhead"

Opposite == [left |-> "right", right |-> "left", front |-> "back", back |-> "front",
             overhead |-> "neutral", none |-> "neutral"]

\* recommended_seat_area_for_horizon. Mutant: whether the sides change is ignored.
DominantSeat(exposure, flip) == Opposite[exposure]
SeatArea(exposure, flip)     == IF flip THEN "neutral" ELSE Opposite[exposure]

\* A share of a hundred as floats give it: what is a whole number may come out a
\* little less, with a rest of nearly one.
Quotas(meters, total) ==
    LET whole == (100 * meters) \div total
        rest  == (100 * meters) % total
    IN  {[floor |-> whole, rest |-> rest]}
          \cup {[floor |-> whole - 1, rest |-> r] : r \in IF rest = 0 /\ meters \notin {0, total}
                                                          THEN {total} ELSE {}}

\* Every order of the three in which the rests decrease; equal ones may differ by
\* an error, unless the distances are the same.
Orders(meters, quota) ==
    {order \in {<<i, j, 6 - i - j>> : i, j \in 1..3} :
        /\ {order[1], order[2], order[3]} = 1..3
        /\ \A m, n \in 1..3 : m < n =>
              /\ quota[order[m]].rest >= quota[order[n]].rest
              /\ meters[order[m]] = meters[order[n]] => order[m] < order[n]}

\* The floors, and a point more for the largest rests.
Rounded(meters, quota) ==
    LET more == 100 - (quota[1].floor + quota[2].floor + quota[3].floor)
        Point(order, i) == IF \E m \in 1..more : order[m] = i THEN 1 ELSE 0
    IN  {[i \in 1..3 |-> quota[i].floor + Point(order, i)] : order \in Orders(meters, quota)}

\* _integer_percent_shares. Mutant: every share is rounded by itself.
RoundedShares(meters, total) ==
    {[i \in 1..3 |-> (200 * meters[i] + total) \div (2 * total)]}
PercentShares(meters, total) ==
    UNION {Rounded(meters, quota) :
              quota \in Quotas(meters[1], total) \X Quotas(meters[2], total)
                                                \X Quotas(meters[3], total)}

SegmentOf(segments, part, i) == segments[part.first + i - 1]
Facing(segments, part, i)    == ExposureDirection(SegmentOf(segments, part, i))

\* The breakdown of summarize_advice_horizon
MetersFacing(segments, part, direction) ==
    Sum([i \in DOMAIN part.distances |->
            IF Facing(segments, part, i) = direction THEN part.distances[i] ELSE 0])

\* The first direction with the greatest distance, and its longest segment
Dominant(segments, part) ==
    LET order     == <<"left", "right", "front", "back", "overhead", "none">>
        Meters(k) == MetersFacing(segments, part, order[k])
    IN  order[CHOOSE k \in 1..6 : \A l \in 1..6 :
                 Meters(k) > Meters(l) \/ (Meters(k) = Meters(l) /\ k <= l)]
Sample(segments, part, dominant) ==
    LET facing == {i \in DOMAIN part.distances : Facing(segments, part, i) = dominant}
    IN  CHOOSE i \in facing : \A j \in facing :
           \/ part.distances[i] > part.distances[j]
           \/ part.distances[i] = part.distances[j] /\ i <= j

\* summarize_advice_horizon and _build_advice_success
Summaries(segments, part) ==
    LET total    == Sum(part.distances)
        left     == MetersFacing(segments, part, "left")
        right    == MetersFacing(segments, part, "right")
        dominant == Dominant(segments, part)
        sun      == SegmentOf(segments, part, Sample(segments, part, dominant))
    IN  {[status |-> "advice", mode |-> part.mode, exposure |-> dominant,
          condition |-> SunCondition(sun.elevation), shares |-> shares,
          flip |-> shares[1] > 0 /\ shares[2] > 0,
          seat |-> SeatArea(dominant, shares[1] > 0 /\ shares[2] > 0)] :
            shares \in PercentShares(<<left, right, total - left - right>>, total)}

Advise ==
    /\ selected # None /\ answer = None
    /\ IF Sum(selected.distances) <= 0
       THEN answer' = Withheld(selected.mode, "noAdviceForSelectedHorizon")
       ELSE answer' \in Summaries(asked.segments, selected)
    /\ UNCHANGED <<asked, selected>>

Next == Refuse \/ Select \/ Advise
Spec == Init /\ [][Next]_vars

-----------------------------------------------------------------------------
(* Properties *)

\* Among them: the shares of every answer sum to 100.
AdviceTypeOK ==
    /\ asked.mode \in {"onboard", "preview"}
    /\ selected # None => selected.mode \in {"onboard", "preview"} /\
                          \A i \in DOMAIN selected.distances : selected.distances[i] \in Nat
    /\ answer # None => answer.status \in {"error", "withheld", "advice"}
    /\ answer # None /\ answer.status = "advice" =>
          /\ answer.exposure \in Directions
          /\ answer.condition \in {"night", "lowSun", "daylight", "overhead"}
          /\ answer.shares \in Shares
          /\ answer.seat \in {"left", "right", "front", "back", "neutral"}

Advised == answer # None /\ answer.status = "advice"

\* How much of segment k lies on the part of the way from one distance on, of a
\* length or to the end.
Overlap(k, from, length) ==
    LET end   == Cumulative(asked.segments, k)
        start == end - asked.segments[k].length
        upper == IF length = None THEN end ELSE Min2(end, from + length)
        lower == IF start < from THEN from ELSE start
    IN  IF upper > lower THEN upper - lower ELSE 0

\* A live location and a preview are about the same kind of stretch: the way from
\* the nearest point of the route, or from its start, as far as the bus gets in
\* fifteen minutes or to the end, each segment with its part of that.
WindowIsAhead ==
    selected # None =>
       LET Chosen(k) == k - selected.first + 1 \in DOMAIN selected.distances
           Taken(k)  == IF Chosen(k) THEN selected.distances[k - selected.first + 1] ELSE 0
       IN  /\ \A k \in DOMAIN asked.segments :
                 Taken(k) = Overlap(k, selected.at, Budget)
           /\ selected.mode = "preview" => selected.at = 0
           /\ selected.mode = "onboard" =>
                 \E k \in DOMAIN asked.segments :
                    /\ \A l \in DOMAIN asked.segments : asked.location[k].off <= asked.location[l].off
                    /\ asked.location[k].off <= OffRoute
                    /\ selected.at = Cumulative(asked.segments, k)
                                       - asked.segments[k].length + asked.location[k].along

\* The sun shines in on a side if it is between 20 and 160 degrees to that side of
\* the way the bus goes.
SunOn(side, s) ==
    /\ s.elevation \in 0..69
    /\ \E d \in 21..159 : IF side = "right" THEN (s.bearing + d) % 360 = s.azimuth % 360
                                            ELSE (s.azimuth + d) % 360 = s.bearing % 360

\* The shares of the sides are those of the way ahead to a point, and a side the
\* sun never shines in on has none, so that the advice does not see a change of
\* sides where there is none.
SharesFollowTheWay ==
    Advised =>
       LET segments  == asked.segments
           Ahead(k)  == Overlap(k, selected.at, Budget)
           Meters(side) == Sum([k \in DOMAIN segments |->
                                   IF SunOn(side, segments[k]) THEN Ahead(k) ELSE 0])
           total     == Sum([k \in DOMAIN segments |-> Ahead(k)])
           Near(share, meters) == share * total - 100 * meters \in (-total)..total
       IN  /\ Near(answer.shares[1], Meters("left"))
           /\ Near(answer.shares[2], Meters("right"))
           /\ Meters("left") = 0 => answer.shares[1] = 0
           /\ Meters("right") = 0 => answer.shares[2] = 0

\* A seat on a side is one the sun has no share in, and nowhere is there more of it
\* than on the other side; no side is given at night, under an overhead sun, or
\* where the sun changes sides; and what is said of the sun agrees with where it is
\* said to be.
SeatOutOfSun ==
    Advised =>
       LET Most(side) == \A direction \in Directions :
                            MetersFacing(asked.segments, selected, direction)
                              <= MetersFacing(asked.segments, selected, side)
       IN
       /\ answer.seat = "left"  => answer.shares[1] = 0 /\ answer.shares[2] > 0 /\ Most("right")
       /\ answer.seat = "right" => answer.shares[2] = 0 /\ answer.shares[1] > 0 /\ Most("left")
       /\ answer.condition = "night" <=> answer.exposure = "none"
       /\ answer.condition = "overhead" <=> answer.exposure = "overhead"
       /\ answer.condition \in {"night", "overhead"} => answer.seat = "neutral"

Swap(place) == IF place = "left" THEN "right" ELSE IF place = "right" THEN "left" ELSE place
Mirrored(segments) ==
    [k \in DOMAIN segments |->
        [segments[k] EXCEPT !.bearing = (2 * segments[k].azimuth - segments[k].bearing) % 360]]

\* The way mirrored at the sun gets the mirrored advice: neither side is favoured
\* at the borders of the sectors or by the rounding, but for a point of the shares
\* and the name of the side where both have sun.
MirrorSwapsSides ==
    Advised =>
       \E other \in Summaries(Mirrored(asked.segments), selected) :
          /\ other.seat = Swap(answer.seat)
          /\ other.flip = answer.flip
          /\ other.exposure = Swap(answer.exposure) \/ answer.flip
          /\ other.condition = answer.condition \/ answer.flip
          /\ other.shares[1] - answer.shares[2] \in -1..1
          /\ other.shares[2] - answer.shares[1] \in -1..1
=============================================================================
