------------------------------ MODULE RouteExport ------------------------------
(***************************************************************************)
(* From a route page and its map to the rows of an export: the service     *)
(* directions of the page, the directions of the map, the matches between  *)
(* the two, the names passengers see, and the segments. Text is abstracted *)
(* to what decides: which label or name it is, its normal form, whether it *)
(* names a terminal, and which of the words ida and volta occur in it.     *)
(* Distances between coordinates are natural numbers.                      *)
(***************************************************************************)
EXTENDS Naturals, Sequences, FiniteSets, SequencesExt

CONSTANTS Norm,       \* label -> its form without case and accents
          Terminals,  \* the normal forms that contain a terminal's name
          Words,      \* name of a placemark -> which of "ida" and "volta" it contains
          MaxLength,  \* the longest segment
          None        \* no label, no link, no kind, no coordinates

\* None is Python's: no number and no text, of the words for a kind either. The
\* longest segment has a length.
ASSUME ExportAssumption ==
    /\ None \notin Nat \cup {"ida", "volta"}
    /\ MaxLength \in Nat \ {0}

\* Positions, in their order.
Sorted(positions) ==
    LET Before(i) == {j \in positions : j < i}
    IN  [k \in 1..Cardinality(positions) |->
            CHOOSE i \in positions : Cardinality(Before(i)) = k - 1]

\* What a sequence has at some positions, in its order.
At(s, positions) == LET order == Sorted(positions) IN [k \in DOMAIN order |-> s[order[k]]]

\* What the first i of some lengths add up to, i = 0, 1, ...
RunningTotal(lengths) ==
    LET total[i \in 0..Len(lengths)] == IF i = 0 THEN 0 ELSE total[i - 1] + lengths[i]
    IN  total

Max2(a, b)    == IF a > b THEN a ELSE b
CeilDiv(a, b) == (a + b - 1) \div b

-----------------------------------------------------------------------------
(* parse_service_directions *)

\* A tab counts once it has a label and times. Those of one label are merged under
\* the sequence of the first.
Useful(tab) == tab.label # None /\ tab.times # {}

TabDirections(tabs) ==
    LET First(i) == Useful(tabs[i]) /\ \A j \in 1..(i - 1) : Useful(tabs[j]) => tabs[j].label # tabs[i].label
        order    == Sorted({i \in DOMAIN tabs : First(i)})
    IN  [k \in DOMAIN order |-> [sequence |-> order[k], label |-> tabs[order[k]].label]]

\* Columns of tables are numbered with the ones that have no times at all, which
\* are then left out.
ColumnDirections(columns) ==
    LET First(i) == \A j \in 1..(i - 1) : columns[j].label # columns[i].label
        order    == Sorted({i \in DOMAIN columns : First(i)})
        all      == [k \in DOMAIN order |-> [sequence |-> k, label |-> columns[order[k]].label]]
        Timed(s) == \E i \in DOMAIN columns : columns[i].label = s.label /\ columns[i].times # {}
    IN  At(all, {k \in DOMAIN all : Timed(all[k])})

ServiceDirections(page) ==
    IF \E tab \in ToSet(page.tabs) : Useful(tab)
    THEN TabDirections(page.tabs) ELSE ColumnDirections(page.columns)

-----------------------------------------------------------------------------
(* parse_kml_directions *)

\* classify_route_direction_pair: one name says ida, the other volta, neither both.
Kind(placed, i) ==
    LET words == [k \in DOMAIN placed |-> Words[placed[k].name]]
    IN  IF Len(placed) = 2 /\ {words[1], words[2]} = {{"ida"}, {"volta"}}
        THEN CHOOSE word \in words[i] : TRUE
        ELSE None

Placed(placemarks) == {i \in DOMAIN placemarks : placemarks[i].edges # None}

\* A placemark is a direction if it has coordinates, if only one.
MapDirections(placemarks) ==
    LET placed == At(placemarks, Placed(placemarks))
    IN  [i \in DOMAIN placed |->
            [name |-> placed[i].name, kind |-> Kind(placed, i), edges |-> placed[i].edges]]

-----------------------------------------------------------------------------
(* infer_service_direction_matches *)

Find(directions, kind) ==
    IF Len(directions) = 2 /\ \E i \in 1..2 : directions[i].kind = kind
    THEN CHOOSE i \in 1..2 : directions[i].kind = kind
    ELSE None

IsTerminal(label) == Norm[label] \in Terminals

Match(service, route, confidence) ==
    [service |-> service.sequence, route |-> route, confidence |-> confidence]

\* Mutant: the matches are taken by position of the map's directions.
MatchesByPosition(services, directions) ==
    [i \in DOMAIN services |->
        IF Len(services) = 2 /\ Find(directions, "ida") # None
        THEN Match(services[i], i, "medium") ELSE Match(services[i], None, "none")]

\* The terminal's departures are the way back, whichever group comes first; of two
\* terminals, and of two places, the first group's are the way there.
Matches(services, directions) ==
    LET ida      == Find(directions, "ida")
        volta    == Find(directions, "volta")
        first    == services[1].label
        second   == services[2].label
        Back(s)  == IF IsTerminal(s.label) THEN volta ELSE ida
        confidence == IF IsTerminal(first) /\ Norm[first] # Norm[second] THEN "medium" ELSE "low"
    IN  [i \in DOMAIN services |->
            IF ida = None \/ volta = None \/ Len(services) # 2
            THEN Match(services[i], None, "none")
            ELSE IF IsTerminal(first) # IsTerminal(second)
            THEN Match(services[i], Back(services[i]), "medium")
            ELSE Match(services[i], IF i = 1 THEN ida ELSE volta, confidence)]

\* What is kept of a page and its map.
RouteSnapshot(page, placemarks) ==
    LET services   == ServiceDirections(page)
        directions == MapDirections(placemarks)
    IN  [code |-> page.code, services |-> services, directions |-> directions,
         matches |-> Matches(services, directions)]

-----------------------------------------------------------------------------
(* passenger_facing_direction_names *)

Public == {"high", "medium"}

\* The label of the first service direction that is matched to direction i for
\* the public to see.
Origin(services, matches, i) ==
    LET seen == {k \in DOMAIN services : matches[k].route = i /\ matches[k].confidence \in Public}
    IN  IF seen = {} THEN None
        ELSE services[CHOOSE k \in seen : \A l \in seen : k <= l].label

\* <<from, to>>, <<from>>, the route's code with a kind, or the map's own name.
\* Mutant: both directions are named in the order of the map.
UnmirroredNames(services, directions, matches) ==
    LET origins == [i \in DOMAIN directions |-> Origin(services, matches, i)]
    IN  [i \in DOMAIN directions |->
            IF Len(origins) = 2 /\ None \notin {origins[1], origins[2]} THEN origins
            ELSE IF origins[i] # None THEN <<origins[i]>>
            ELSE IF directions[i].kind # None THEN <<"code", directions[i].kind>>
            ELSE <<"map", directions[i].name>>]

PassengerNames(services, directions, matches) ==
    LET origins == [i \in DOMAIN directions |-> Origin(services, matches, i)]
        pair    == /\ Len(origins) = 2
                   /\ None \notin {origins[1], origins[2]}
                   /\ origins[1] # origins[2]
    IN  [i \in DOMAIN directions |->
            IF pair THEN <<origins[i], origins[3 - i]>>
            ELSE IF origins[i] # None THEN <<origins[i]>>
            ELSE IF directions[i].kind # None THEN <<"code", directions[i].kind>>
            ELSE <<"map", directions[i].name>>]

-----------------------------------------------------------------------------
(* materialize_route_segments *)

\* Mutant: an edge is cut into as many segments as fit into it.
FlooredSplits(length) == Max2(1, length \div MaxLength)
Splits(length)        == Max2(1, CeilDiv(length, MaxLength))

\* Segment k of n of an edge: from and to are how far along the edge its
\* fractions k - 1 of n and k of n are, in whole units.
Parts(edges, e) ==
    LET n     == Splits(edges[e])
        To(k) == (k * edges[e]) \div n
    IN  [k \in 1..n |-> [edge |-> e, from |-> To(k - 1), to |-> To(k)]]

Segments(edges) ==
    LET parts   == FlattenSeq([e \in DOMAIN edges |-> Parts(edges, e)])
        lengths == [i \in DOMAIN parts |-> parts[i].to - parts[i].from]
    IN  [i \in DOMAIN parts |-> [sequence |-> i, part |-> parts[i], length |-> lengths[i],
                                 cumulative |-> RunningTotal(lengths)[i]]]

-----------------------------------------------------------------------------
(* snapshots_to_canonical_rows, for one route *)

Link(match, directions) == IF match.route \in DOMAIN directions THEN match.route ELSE None

Row(snapshot) ==
    LET directions == snapshot.directions
        matches    == snapshot.matches
        names      == PassengerNames(snapshot.services, directions, matches)
    IN  [code |-> snapshot.code,
         directions |-> [i \in DOMAIN directions |->
            [name |-> names[i], kind |-> directions[i].kind, segments |-> Segments(directions[i].edges)]],
         services |-> [k \in DOMAIN matches |->
            [label |-> snapshot.services[k].label, sequence |-> matches[k].service,
             link |-> Link(matches[k], directions), confidence |-> matches[k].confidence]]]
=============================================================================
