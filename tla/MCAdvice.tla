------------------------------- MODULE MCAdvice -------------------------------
(* An instance of Advice for TLC. *)
EXTENDS Advice

\* The sun is in the east unless a case says otherwise.
Segment(length, bearing, azimuth, elevation) ==
    [length |-> length, bearing |-> bearing, azimuth |-> azimuth, elevation |-> elevation]
ToLeft(length)  == Segment(length, 180, 90, 30)
ToRight(length) == Segment(length, 0, 90, 30)
Ahead(length)   == Segment(length, 90, 90, 30)
InDark(length)  == Segment(length, 0, 90, -1)

Preview(segments) ==
    [mode |-> "preview", horizon |-> "remainingRoute", location |-> None, fallback |-> FALSE,
     status |-> "ok", segments |-> segments]

\* Every difference of two angles, across north too, and every limit of elevation;
AngleCases ==
    {Preview(<<Segment(1, b, a, 30)>>) : b \in 0..359, a \in {0, 100, 350}}
      \cup {Preview(<<Segment(1, b, 90, e)>>) : b \in {0, 90, 180}, e \in {-1, 0, 9, 10, 69, 70}}
\* shares of the two sides and the rest, with ties, wholes and traces;
ShareCases ==
    {Preview(<<ToLeft(l), ToRight(r), Ahead(n)>>) :
        l, r \in 0..10 \cup {29, 497}, n \in {0, 1, 2, 3, 7, 42}}
      \cup {Preview(<<InDark(l), ToRight(r), ToLeft(n), ToRight(n), Segment(n, 0, 90, 70)>>) :
               l \in 0..3, r \in 0..3, n \in 0..3}
\* requests that go each way, at every place of short routes.
Lengths3 == {0, 4, 8} \X {0, 4, 8} \X {0, 4, 8}
Offs     == {<<1, 1, 1>>, <<9, 1, 1>>, <<9, 9, 1>>, <<9, 9, 9>>, <<1, 9, 1>>}
Point(off, length, halves) == [off |-> off, along |-> (length * halves) \div 2]
Places(l) ==
    {<<Point(off[1], l[1], h), Point(off[2], l[2], h), Point(off[3], l[3], h)>> :
        off \in Offs, h \in 0..2}
WayCases ==
    UNION {
        {[mode |-> mode, horizon |-> horizon, fallback |-> fallback, status |-> "ok",
          segments |-> segments, location |-> location] :
            mode \in {"onboard", "preview"}, horizon \in {"upcoming", "remainingRoute"},
            fallback \in BOOLEAN, location \in Places(l) \cup {None},
            segments \in {<<>>, <<ToLeft(l[1]), ToRight(l[2]), Ahead(l[3])>>}} :
        l \in Lengths3}
BadContexts ==
    {[Preview(<<>>) EXCEPT !.status = status] :
        status \in {"routeNotFound", "routeVersionStale", "routeDirectionNotFound"}}

MCCases == AngleCases \cup ShareCases \cup WayCases \cup BadContexts
=============================================================================
