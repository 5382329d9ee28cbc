------------------------ MODULE MCPublishTransactions ------------------------
(* Instances of PublishTransactions for TLC. *)
EXTENDS PublishTransactions, TLC

Symmetry == Permutations(Publications \ Disconnecting) \cup Permutations(Seeds)

\* Not everybody at once: three publications race before any recovery, or two of
\* them beside the recoveries, or the recoveries clean up after all three.
Crowd ==
    \/ \A r \in Recoveries : pc[r] = "select_orphans"
    \/ \E t \in Publications : pc[t] = "stage"
    \/ \A t \in Publications : pc[t] \in Ends
=============================================================================
