------------------------- MODULE PublishTransactions -------------------------
(***************************************************************************)
(* GenerationStore.publish and the orphan cleanup of claim_scrape_lease,   *)
(* statement by statement. Both run at Postgres's default READ COMMITTED:  *)
(* every statement sees what is committed when it runs, and a write waits  *)
(* for the row locks of other transactions until those end. publish takes  *)
(* no advisory lock and does not look at the lease, so an overtaken job's  *)
(* publication runs beside its successor's cleanup and publication.        *)
(*                                                                         *)
(* Statements that only touch rows no other transaction writes (counts,    *)
(* snapshots, memberships, versions) are part of the statement they follow.*)
(* All exports share a route, whose row every publication updates.         *)
(***************************************************************************)
EXTENDS Sequences, SequencesExt

CONSTANTS Publications,   \* publish transactions, each named by the generation it publishes
          Recoveries,     \* claims that take over an expired lease or are forced
          Disconnecting,  \* the transactions that may lose their connection
          Seeds,          \* generations that may be published from the start
          None

Transactions == Publications \cup Recoveries
Generations  == Publications \cup Seeds
Roles        == {"current", "previous"}
Kept         == "kept"  \* a pointer row the transaction has not written

ASSUME TransactionsAssumption ==
    /\ Publications \cap Recoveries = {} /\ Transactions \cap Seeds = {}
    /\ Disconnecting \subseteq Transactions
    /\ None \notin Transactions \cup Seeds /\ Kept \notin Generations \cup {None}

VARIABLES status,    \* committed dataset_generations: generation -> status
          pointers,  \* committed dataset_pointers: role -> generation
          pc,        \* the next statement of each transaction
          current,   \* publish: what its first pointer read returned
          previous,  \* publish: what its second pointer read returned
          doomed,    \* the generations it is about to delete, in order
          deleted,   \* uncommitted: the generation rows it has deleted
          written    \* uncommitted: its pointer rows, role -> generation, None or Kept

dbVars == <<status, pointers>>
vars   == <<dbVars, pc, current, previous, doomed, deleted, written>>

Ends       == {"committed", "failed", "lost"}
Statements == {"stage", "read_status", "read_current", "read_previous",
               "unpoint_superseded", "delete_superseded", "select_orphans", "unpoint_orphan",
               "delete_orphan", "apply_routes", "demote", "promote", "commit"} \cup Ends

TypeOK ==
    /\ status \in [Generations -> {"absent", "validated", "published"}]
    /\ pointers \in [Roles -> Generations \cup {None}]
    /\ pc \in [Transactions -> Statements]
    /\ current \in [Publications -> Generations \cup {None}]
    /\ previous \in [Publications -> Generations \cup {None}]
    /\ doomed \in [Transactions -> Seq(Generations)]
    /\ deleted \in [Transactions -> SUBSET Generations]
    /\ written \in [Transactions -> [Roles -> Generations \cup {None, Kept}]]

Untouched == [role \in Roles |-> Kept]

\* Up to two seeds are published, and a publication has not staged its export.
Init ==
    /\ pointers \in {p \in [Roles -> Seeds \cup {None}] :
          p["current"] = p["previous"] \/ p["current"] = None => p["previous"] = None}
    /\ status = [g \in Generations |->
          IF \E role \in Roles : pointers[role] = g THEN "published" ELSE "absent"]
    /\ pc = [t \in Transactions |-> IF t \in Publications THEN "stage" ELSE "select_orphans"]
    /\ current = [t \in Publications |-> None]
    /\ previous = [t \in Publications |-> None]
    /\ doomed = [t \in Transactions |-> <<>>]
    /\ deleted = [t \in Transactions |-> {}]
    /\ written = [t \in Transactions |-> Untouched]

-----------------------------------------------------------------------------
(* Rows and locks *)

\* What a statement of t reads: committed rows, and its own.
PointerSeen(t, role) == IF written[t][role] = Kept THEN pointers[role] ELSE written[t][role]

\* Mutant: dataset_pointers without its foreign key.
PointedUnchecked(t, g) == FALSE
Pointed(t, g)        == \E role \in Roles : PointerSeen(t, role) = g
StatusSeen(t, g)     == IF g \in deleted[t] THEN "absent" ELSE status[g]

\* Writing a pointer row locks it; inserting a pointer shares a lock on the key
\* of the generation it names; deleting a generation locks its row.
LocksPointer(u, role) == written[u][role] # Kept
LocksKey(u, g)        == \E role \in Roles : written[u][role] = g
LocksRoutes(u)        == u \in Publications /\ pc[u] \in {"demote", "promote"}

\* With no current to keep, publish deletes the pointer row of previous, if any.
DropsPrevious(t) ==
    current[t] = None /\ previous[t] # None /\ PointerSeen(t, "previous") # None

\* u holds a lock that t's next statement needs.
Blocks(u, t) ==
    CASE pc[t] \in {"unpoint_superseded", "unpoint_orphan"} ->
            \E role \in Roles : PointerSeen(t, role) = Head(doomed[t]) /\ LocksPointer(u, role)
      [] pc[t] \in {"delete_superseded", "delete_orphan"} ->
            Head(doomed[t]) \in deleted[u] \/ LocksKey(u, Head(doomed[t]))
      [] pc[t] = "apply_routes" -> LocksRoutes(u)
      [] pc[t] = "demote" ->
            \/ current[t] # None /\ (LocksPointer(u, "previous") \/ current[t] \in deleted[u])
            \/ DropsPrevious(t) /\ LocksPointer(u, "previous")
      [] pc[t] = "promote" -> LocksPointer(u, "current") \/ t \in deleted[u]
      [] OTHER -> FALSE

Blockers(t) == {u \in Transactions \ {t} : Blocks(u, t)}

\* Claims hold the lease's advisory lock until they end.
HoldsLeaseLock(u) == u \in Recoveries /\ pc[u] \notin {"select_orphans"} \cup Ends

-----------------------------------------------------------------------------
(* How a transaction goes on, and how it ends *)

Goto(t, statement) == pc' = [pc EXCEPT ![t] = statement]

\* Row locks and uncommitted rows go with the transaction.
End(t, end) ==
    /\ Goto(t, end)
    /\ doomed' = [doomed EXCEPT ![t] = <<>>]
    /\ deleted' = [deleted EXCEPT ![t] = {}]
    /\ written' = [written EXCEPT ![t] = Untouched]
    /\ UNCHANGED <<current, previous>>

StatusCommitted(t, published) ==
    [g \in Generations |-> CASE g \in published  -> "published"
                            [] g \in deleted[t] -> "absent"
                            [] OTHER            -> status[g]]

\* Mutant: the commit writes all pointer rows, the ones left alone included.
CommitAllRows(t, rows, published) ==
    /\ pointers' = rows
    /\ status' = StatusCommitted(t, published)
    /\ End(t, "committed")

\* The rows the transaction wrote become visible to all.
Commit(t, rows, published) ==
    /\ pointers' = [role \in Roles |-> IF rows[role] = Kept THEN pointers[role] ELSE rows[role]]
    /\ status' = StatusCommitted(t, published)
    /\ End(t, "committed")

\* Mutant: autocommit, what was written before the error stays.
KeepWritten(t, end) == Commit(t, written[t], {})

\* Row and connection errors: nothing of the transaction remains.
Rollback(t, end) == End(t, end) /\ UNCHANGED dbVars

-----------------------------------------------------------------------------
(* publish, up to the deletion of the superseded generation *)

\* The transactions of stage and validate, which end before publish begins.
StageAndValidate(t) ==
    /\ pc[t] = "stage"
    /\ status' = [status EXCEPT ![t] = "validated"]
    /\ Goto(t, "read_status")
    /\ UNCHANGED <<pointers, current, previous, doomed, deleted, written>>

ReadStatus(t) ==
    /\ pc[t] = "read_status"
    /\ Goto(t, IF status[t] = "validated" THEN "read_current" ELSE "failed")
    /\ UNCHANGED <<dbVars, current, previous, doomed, deleted, written>>

ReadCurrent(t) ==
    /\ pc[t] = "read_current"
    /\ current' = [current EXCEPT ![t] = pointers["current"]]
    /\ Goto(t, "read_previous")
    /\ UNCHANGED <<dbVars, previous, doomed, deleted, written>>

ReadPrevious(t) ==
    /\ pc[t] = "read_previous"
    /\ previous' = [previous EXCEPT ![t] = pointers["previous"]]
    /\ IF pointers["previous"] \in {None, current[t]}
       THEN Goto(t, "select_orphans") /\ UNCHANGED doomed
       ELSE Goto(t, "unpoint_superseded") /\ doomed' = [doomed EXCEPT ![t] = <<pointers["previous"]>>]
    /\ UNCHANGED <<dbVars, current, deleted, written>>

-----------------------------------------------------------------------------
(* delete_orphan_staging and delete_generation *)

AfterOrphans(t) == IF t \in Publications THEN "apply_routes" ELSE "commit"

\* Mutant: publish does not pass keep_generation_id.
OrphansWithOwn(t) ==
    {g \in Generations : StatusSeen(t, g) = "validated" /\ ~Pointed(t, g)}

\* The pointer reads and the status read are one step: what a pointer names is
\* published, so a newer status read protects all that an older pointer read does.
OrphansSeen(t) ==
    {g \in Generations \ {t} : StatusSeen(t, g) = "validated" /\ ~Pointed(t, g)}

SelectOrphans(t) ==
    /\ pc[t] = "select_orphans"
    /\ t \in Recoveries => \A u \in Recoveries : ~HoldsLeaseLock(u)
    /\ \E order \in SetToSeqs(OrphansSeen(t)) : doomed' = [doomed EXCEPT ![t] = order]
    /\ Goto(t, IF OrphansSeen(t) = {} THEN AfterOrphans(t) ELSE "unpoint_orphan")
    /\ UNCHANGED <<dbVars, current, previous, deleted, written>>

\* DELETE FROM dataset_pointers WHERE generation_id = ...: whatever it is by now.
UnpointDoomed(t) ==
    /\ pc[t] \in {"unpoint_superseded", "unpoint_orphan"}
    /\ Blockers(t) = {}
    /\ written' = [written EXCEPT ![t] = [role \in Roles |->
          IF PointerSeen(t, role) = Head(doomed[t]) THEN None ELSE @[role]]]
    /\ Goto(t, IF pc[t] = "unpoint_orphan" THEN "delete_orphan" ELSE "delete_superseded")
    /\ UNCHANGED <<dbVars, current, previous, doomed, deleted>>

\* DELETE FROM dataset_generations WHERE id = ...; a row another transaction has
\* deleted meanwhile is no error, and one pointed at meanwhile is.
DeleteDoomed(t) ==
    LET g == Head(doomed[t]) IN
    /\ pc[t] \in {"delete_superseded", "delete_orphan"}
    /\ Blockers(t) = {}
    /\ IF Pointed(t, g) THEN Rollback(t, "failed")
       ELSE /\ deleted' = [deleted EXCEPT ![t] = @ \cup {g}]
            /\ doomed' = [doomed EXCEPT ![t] = Tail(@)]
            /\ Goto(t, CASE pc[t] = "delete_superseded" -> "select_orphans"
                         [] Len(doomed[t]) > 1 -> "unpoint_orphan"
                         [] OTHER -> AfterOrphans(t))
            /\ UNCHANGED <<dbVars, current, previous, written>>

\* A claim ends with the lease row, of which this module says nothing.
CommitRecovery(t) ==
    /\ pc[t] = "commit"
    /\ Commit(t, written[t], {})

-----------------------------------------------------------------------------
(* publish, from the route rows to the end *)

ApplyRoutes(t) ==
    /\ pc[t] = "apply_routes"
    /\ Blockers(t) = {}
    /\ Goto(t, "demote")
    /\ UNCHANGED <<dbVars, current, previous, doomed, deleted, written>>

\* previous := the current that was read, whatever current is by now. The row
\* must still refer to a generation.
Demote(t) ==
    /\ pc[t] = "demote"
    /\ Blockers(t) = {}
    /\ IF current[t] # None /\ StatusSeen(t, current[t]) = "absent" THEN Rollback(t, "failed")
       ELSE /\ written' = CASE current[t] # None -> [written EXCEPT ![t]["previous"] = current[t]]
                            [] DropsPrevious(t)   -> [written EXCEPT ![t]["previous"] = None]
                            [] OTHER              -> written
            /\ Goto(t, "promote")
            /\ UNCHANGED <<dbVars, current, previous, doomed, deleted>>

\* current := the generation published, and the commit.
Promote(t) ==
    /\ pc[t] = "promote"
    /\ Blockers(t) = {}
    /\ IF StatusSeen(t, t) = "absent" THEN Rollback(t, "failed")
       ELSE Commit(t, [written[t] EXCEPT !["current"] = t], {t})

-----------------------------------------------------------------------------
(* Failures that are not of the program's making *)

\* Postgres ends one transaction of a set whose members all wait for each other.
DeadlockVictim(t) ==
    /\ \E waiting \in SUBSET Transactions :
          /\ t \in waiting
          /\ \A u \in waiting : /\ \E w \in waiting : w \in Blockers(u)
                               /\ \E w \in waiting : u \in Blockers(w)
    /\ Rollback(t, "failed")

Disconnect(t) ==
    /\ t \in Disconnecting
    /\ pc[t] \notin {"stage"} \cup Ends
    /\ Rollback(t, "lost")

Over == \A t \in Transactions : pc[t] \in Ends

Next ==
    \/ \E t \in Publications :
          \/ StageAndValidate(t) \/ ReadStatus(t) \/ ReadCurrent(t) \/ ReadPrevious(t)
          \/ ApplyRoutes(t) \/ Demote(t) \/ Promote(t)
    \/ \E t \in Transactions :
          \/ SelectOrphans(t) \/ UnpointDoomed(t) \/ DeleteDoomed(t)
          \/ DeadlockVictim(t) \/ Disconnect(t)
    \/ \E t \in Recoveries : CommitRecovery(t)
    \/ Over /\ UNCHANGED vars

Spec == Init /\ [][Next]_vars

-----------------------------------------------------------------------------
(* Properties *)

\* Every committed pointer names a published generation, however publications
\* delete each other's generations between one's reads and its writes.
PointersResolve == \A role \in Roles : pointers[role] # None => status[pointers[role]] = "published"

\* Once the store has a current generation it keeps having one: neither a
\* failed publication nor any cleanup takes passenger reads away.
CurrentNeverLost == [][pointers["current"] # None => pointers'["current"] # None]_pointers

\* Only the cleanup of a takeover ever does that. Publications keep a current
\* generation whatever they delete of each other and however they fail.
PublicationsKeepCurrent ==
    [][pointers["current"] # None /\ pointers'["current"] = None =>
          \E r \in Recoveries : pc[r] = "commit" /\ pc'[r] = "committed"]_vars

\* Publications that race delete each other's generations, deadlock and run
\* into foreign keys, but they do not all lose: without a cleanup beside them,
\* and unless a connection is lost, one fails only because another commits. So
\* whenever none of those that have begun goes on, one of them has committed.
SomePublicationWins ==
    LET begun == {t \in Publications : pc[t] # "stage"} IN
    /\ begun # {} /\ \A t \in begun : pc[t] \in {"committed", "failed"}
    /\ \A r \in Recoveries : pc[r] = "select_orphans"
    => \E t \in begun : pc[t] = "committed"

\* ADR 0007: no third long-lived generation. What is published is current or
\* previous, or else nothing will ever delete it.
NoThirdPublished ==
    \A g \in Generations : status[g] = "published" => \E role \in Roles : pointers[role] = g
=============================================================================
