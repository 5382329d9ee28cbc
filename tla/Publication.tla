----------------------------- MODULE Publication -----------------------------
(***************************************************************************)
(* What the Generation Store promises its passengers (ADR 0007): one       *)
(* complete dataset is visible at a time, it is replaced as a whole by one *)
(* atomic publication, the replaced one is kept as the previous            *)
(* generation, and nothing else a scraper or a publisher does can be seen. *)
(***************************************************************************)
EXTENDS FiniteSets

CONSTANTS Generations,  \* ids of dataset generations
          Routes,       \* ids of routes
          Versions,     \* ids of route versions
          Attributes,   \* passenger-visible attributes of a route (name, fare region, ...)
          None          \* no generation

VARIABLES current,      \* the generation passengers read, or None
          previous,     \* the generation kept for recovery, or None
          view          \* what passengers read: <<route, version, attributes>> triples

publicationVars == <<current, previous, view>>

Views == SUBSET (Routes \X Versions \X Attributes)

VersionsIn(shown) == {entry[2] : entry \in shown}

Init ==
    /\ current = None
    /\ previous = None
    /\ view = {}

\* A publication replaces the whole view at once by versions never shown with
\* the old one, and keeps the generation it replaces.
Publish(g) ==
    /\ g \notin {current, previous}
    /\ current' = g
    /\ previous' = current
    /\ view' \in Views \ {{}}
    /\ VersionsIn(view') \cap VersionsIn(view) = {}

Next == \E g \in Generations : Publish(g)

Spec == Init /\ [][Next]_publicationVars
=============================================================================
