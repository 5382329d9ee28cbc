----------------------- MODULE PublishTransactionsProofs -----------------------
(***************************************************************************)
(* What holds of publish and of the orphan cleanup, statement by           *)
(* statement, for any number of publications, recoveries, seeds and lost   *)
(* connections.                                                            *)
(***************************************************************************)
EXTENDS PublishTransactions, FiniteSetTheorems, SequenceTheorems, TLAPS

-----------------------------------------------------------------------------
(* Types *)

Deleting == {"unpoint_superseded", "delete_superseded", "unpoint_orphan", "delete_orphan"}

\* A transaction that is deleting generations has one left to delete.
DeletesSomething == \A t \in Transactions : pc[t] \in Deleting => doomed[t] # <<>>

\* The orphans a statement selects are finitely many, as only generations whose
\* publication has begun are validated.
ValidatedGenerations == {g \in Generations : status[g] = "validated"}
FinitelyValidated    == IsFiniteSet(ValidatedGenerations)

Typed == TypeOK /\ DeletesSomething /\ FinitelyValidated

\* An order of finitely many generations is a sequence of them, and not the
\* empty one if there are any.
LEMMA OrdersAreSequences ==
    ASSUME NEW S, S \subseteq Generations, IsFiniteSet(S), NEW order \in SetToSeqs(S)
    PROVE  /\ order \in Seq(Generations)
           /\ order \in Seq(S)
           /\ order = <<>> <=> S = {}
  <1>1. Cardinality(S) \in Nat /\ (Cardinality(S) = 0 <=> S = {})
    BY FS_CardinalityType, FS_EmptySet
  <1>2. order \in [1..Cardinality(S) -> S]
    BY DEF SetToSeqs
  <1>3. order \in Seq(S) /\ Len(order) = Cardinality(S)
    BY <1>1, <1>2
  <1>4. order \in Seq(Generations)
    BY <1>3, SeqMonotonic
  <1>5. order = <<>> <=> Len(order) = 0
    BY <1>3, EmptySeq
  <1> QED
    BY <1>1, <1>3, <1>4, <1>5

\* One of several taken off a sequence leaves others.
LEMMA RestIsNotEmpty ==
    ASSUME NEW S, NEW s \in Seq(S), s # <<>>, Len(s) > 1
    PROVE  Tail(s) # <<>>
  <1>1. Len(Tail(s)) = Len(s) - 1 /\ Len(s) \in Nat
    BY HeadTailProperties, LenProperties
  <1>2. Len(<<>>) = 0
    BY EmptySeq
  <1> DEFINE n == Len(s)
  <1> SUFFICES ASSUME Tail(s) = <<>> PROVE FALSE
    OBVIOUS
  <1>3. 0 = n - 1 /\ n \in Nat /\ n > 1
    BY <1>1, <1>2
  <1> HIDE DEF n
  <1> QED
    BY <1>3

\* What a commit makes of the committed rows has their types.
LEMMA CommitTypes ==
    ASSUME TypeOK, NEW t \in Transactions, NEW rows \in [Roles -> Generations \cup {None, Kept}],
           NEW published, Commit(t, rows, published)
    PROVE  TypeOK'
  <1>1. pointers' \in [Roles -> Generations \cup {None}]
    BY DEF Commit, TypeOK
  <1>2. status' \in [Generations -> {"absent", "validated", "published"}]
    BY DEF Commit, StatusCommitted, TypeOK
  <1>3. /\ pc' \in [Transactions -> Statements]
        /\ UNCHANGED <<current, previous>>
        /\ deleted' \in [Transactions -> SUBSET Generations]
        /\ written' \in [Transactions -> [Roles -> Generations \cup {None, Kept}]]
    BY DEF Commit, End, Goto, Untouched, TypeOK, Statements, Ends
  <1>4. doomed' \in [Transactions -> Seq(Generations)]
    BY EmptySeq DEF Commit, End, TypeOK
  <1> QED
    BY <1>1, <1>2, <1>3, <1>4 DEF TypeOK

\* A rollback leaves the transaction's own state as at its start.
LEMMA RollbackTypes ==
    ASSUME TypeOK, NEW t \in Transactions, NEW end \in Ends, Rollback(t, end)
    PROVE  TypeOK'
  <1>1. doomed' \in [Transactions -> Seq(Generations)]
    BY EmptySeq DEF Rollback, End, TypeOK
  <1> QED
    BY <1>1 DEF Rollback, End, Goto, dbVars, Untouched, TypeOK, Statements

\* Types are kept by every statement and by every end of a transaction.
LEMMA AlwaysTyped == Spec => []Typed
  <1>1. Init => Typed
    <2> SUFFICES ASSUME Init PROVE Typed
      OBVIOUS
    <2>1. pointers \in [Roles -> Generations \cup {None}]
      BY DEF Init, Generations
    <2>2. doomed \in [Transactions -> Seq(Generations)]
      BY EmptySeq DEF Init
    <2>3. TypeOK
      BY <2>1, <2>2 DEF Init, TypeOK, Statements, Untouched
    <2>4. DeletesSomething
      BY DEF Init, DeletesSomething, Deleting
    <2>5. ValidatedGenerations = {}
      BY DEF Init, ValidatedGenerations
    <2> QED
      BY <2>3, <2>4, <2>5, FS_EmptySet DEF Typed, FinitelyValidated
  <1>2. Typed /\ [Next]_vars => Typed'
    <2> SUFFICES ASSUME Typed, [Next]_vars PROVE Typed'
      OBVIOUS
    <2> USE DEF Typed
    <2>1. ASSUME NEW t \in Transactions, NEW end \in Ends, Rollback(t, end)
          PROVE  Typed'
      <3>1. DeletesSomething'
        BY <2>1 DEF Rollback, End, Goto, DeletesSomething, Deleting, Ends, TypeOK
      <3>2. FinitelyValidated'
        BY <2>1 DEF Rollback, dbVars, FinitelyValidated, ValidatedGenerations
      <3> QED
        BY <2>1, <3>1, <3>2, RollbackTypes
    <2>2. ASSUME NEW t \in Transactions, NEW published \in SUBSET Generations,
                 NEW rows \in [Roles -> Generations \cup {None, Kept}], Commit(t, rows, published)
          PROVE  Typed'
      <3>1. DeletesSomething'
        BY <2>2 DEF Commit, End, Goto, DeletesSomething, Deleting, TypeOK
      <3>2. ValidatedGenerations' \in SUBSET ValidatedGenerations
        BY <2>2 DEF Commit, StatusCommitted, ValidatedGenerations
      <3> QED
        BY <2>2, <3>1, <3>2, CommitTypes, FS_Subset DEF FinitelyValidated
    <2>3. ASSUME NEW t \in Publications, StageAndValidate(t)
          PROVE  Typed'
      <3>1. TypeOK'
        BY <2>3 DEF StageAndValidate, Goto, TypeOK, Statements, Transactions
      <3>2. DeletesSomething'
        BY <2>3 DEF StageAndValidate, Goto, DeletesSomething, Deleting, TypeOK
      <3>3. ValidatedGenerations' \in SUBSET (ValidatedGenerations \cup {t})
        BY <2>3 DEF StageAndValidate, ValidatedGenerations, TypeOK
      <3> QED
        BY <3>1, <3>2, <3>3, FS_AddElement, FS_Subset DEF FinitelyValidated
    <2>4. ASSUME NEW t \in Publications, ReadStatus(t) \/ ReadCurrent(t) \/ ApplyRoutes(t)
          PROVE  Typed'
      <3>1. TypeOK'
        BY <2>4 DEF ReadStatus, ReadCurrent, ApplyRoutes, Goto, dbVars, TypeOK, Statements, Ends,
                    Transactions, Roles
      <3>2. DeletesSomething'
        BY <2>4 DEF ReadStatus, ReadCurrent, ApplyRoutes, Goto, DeletesSomething, Deleting, TypeOK
      <3>3. UNCHANGED status
        BY <2>4 DEF ReadStatus, ReadCurrent, ApplyRoutes, dbVars
      <3> QED
        BY <3>1, <3>2, <3>3 DEF FinitelyValidated, ValidatedGenerations
    <2>5. ASSUME NEW t \in Publications, ReadPrevious(t)
          PROVE  Typed'
      <3>1. t \in Transactions /\ pointers["previous"] \in Generations \cup {None}
        BY DEF Transactions, TypeOK, Roles
      <3>2. pointers["previous"] # None =>
               <<pointers["previous"]>> \in Seq(Generations) /\ <<pointers["previous"]>> # <<>>
        BY <3>1
      <3>3. TypeOK'
        BY <2>5, <3>1, <3>2 DEF ReadPrevious, Goto, dbVars, TypeOK, Statements
      <3>4. DeletesSomething'
        BY <2>5, <3>1, <3>2 DEF ReadPrevious, Goto, DeletesSomething, Deleting, TypeOK
      <3> QED
        BY <2>5, <3>3, <3>4 DEF ReadPrevious, dbVars, FinitelyValidated, ValidatedGenerations
    <2>6. ASSUME NEW t \in Transactions, SelectOrphans(t)
          PROVE  Typed'
      <3>1. OrphansSeen(t) \in SUBSET ValidatedGenerations
        BY DEF OrphansSeen, StatusSeen, ValidatedGenerations
      <3>2. OrphansSeen(t) \subseteq Generations /\ IsFiniteSet(OrphansSeen(t))
        BY <3>1, FS_Subset DEF FinitelyValidated, ValidatedGenerations
      <3>3. PICK order \in SetToSeqs(OrphansSeen(t)) : doomed' = [doomed EXCEPT ![t] = order]
        BY <2>6 DEF SelectOrphans
      <3>4. order \in Seq(Generations) /\ (order = <<>> <=> OrphansSeen(t) = {})
        BY <3>2, OrdersAreSequences
      <3>5. TypeOK'
        BY <2>6, <3>3, <3>4 DEF SelectOrphans, Goto, AfterOrphans, dbVars, TypeOK, Statements
      <3>6. DeletesSomething'
        BY <2>6, <3>3, <3>4 DEF SelectOrphans, Goto, AfterOrphans, DeletesSomething, Deleting, TypeOK
      <3> QED
        BY <2>6, <3>5, <3>6 DEF SelectOrphans, dbVars, FinitelyValidated, ValidatedGenerations
    <2>7. ASSUME NEW t \in Transactions, UnpointDoomed(t)
          PROVE  Typed'
      <3>1. TypeOK'
        BY <2>7 DEF UnpointDoomed, Goto, dbVars, TypeOK, Statements
      <3>2. DeletesSomething'
        BY <2>7 DEF UnpointDoomed, Goto, DeletesSomething, Deleting, TypeOK
      <3> QED
        BY <2>7, <3>1, <3>2 DEF UnpointDoomed, dbVars, FinitelyValidated, ValidatedGenerations
    <2>8. ASSUME NEW t \in Transactions, DeleteDoomed(t), ~Pointed(t, Head(doomed[t]))
          PROVE  Typed'
      <3>1. doomed[t] \in Seq(Generations) /\ doomed[t] # <<>>
        BY <2>8 DEF DeleteDoomed, DeletesSomething, Deleting, TypeOK
      <3>2. /\ Head(doomed[t]) \in Generations /\ Tail(doomed[t]) \in Seq(Generations)
            /\ Len(doomed[t]) > 1 => Tail(doomed[t]) # <<>>
        BY <3>1, HeadTailProperties, RestIsNotEmpty
      <3>3. TypeOK'
        <4>1. pc' \in [Transactions -> Statements]
          BY <2>8 DEF DeleteDoomed, Goto, AfterOrphans, TypeOK, Statements
        <4>2. /\ doomed' = [doomed EXCEPT ![t] = Tail(@)]
              /\ deleted' = [deleted EXCEPT ![t] = @ \cup {Head(doomed[t])}]
              /\ UNCHANGED <<status, pointers, current, previous, written>>
          BY <2>8 DEF DeleteDoomed, dbVars
        <4> QED
          BY <3>2, <4>1, <4>2 DEF TypeOK
      <3>4. DeletesSomething'
        BY <2>8, <3>2 DEF DeleteDoomed, Goto, AfterOrphans, DeletesSomething, Deleting, TypeOK
      <3> QED
        BY <2>8, <3>3, <3>4 DEF DeleteDoomed, dbVars, FinitelyValidated, ValidatedGenerations
    <2>9. ASSUME NEW t \in Publications, Demote(t),
                 ~(current[t] # None /\ StatusSeen(t, current[t]) = "absent")
          PROVE  Typed'
      <3>1. \/ written' = written
            \/ \E g \in Generations \cup {None} :
                  written' = [written EXCEPT ![t] = [written[t] EXCEPT !["previous"] = g]]
        BY <2>9 DEF Demote, TypeOK
      <3>2. written' \in [Transactions -> [Roles -> Generations \cup {None, Kept}]]
        <4>1. \A g \in Generations \cup {None} :
                 [written[t] EXCEPT !["previous"] = g] \in [Roles -> Generations \cup {None, Kept}]
          BY DEF TypeOK, Transactions
        <4> QED
          BY <3>1, <4>1 DEF TypeOK
      <3>3. TypeOK'
        BY <2>9, <3>2 DEF Demote, Goto, dbVars, TypeOK, Statements, Transactions
      <3>4. DeletesSomething'
        BY <2>9 DEF Demote, Goto, DeletesSomething, Deleting, TypeOK
      <3> QED
        BY <2>9, <3>3, <3>4 DEF Demote, dbVars, FinitelyValidated, ValidatedGenerations
    <2>10. ASSUME NEW t \in Publications, Promote(t), StatusSeen(t, t) # "absent"
           PROVE  Typed'
      <3>1. [written[t] EXCEPT !["current"] = t] \in [Roles -> Generations \cup {None, Kept}]
        BY DEF TypeOK, Transactions, Generations
      <3> QED
        BY <2>2, <2>10, <3>1 DEF Promote, Transactions, Generations
    <2>11. ASSUME NEW t \in Recoveries, CommitRecovery(t)
           PROVE  Typed'
      BY <2>2, <2>11 DEF CommitRecovery, TypeOK, Transactions
    <2>12. CASE UNCHANGED vars
      BY <2>12 DEF vars, dbVars, TypeOK, DeletesSomething, FinitelyValidated, ValidatedGenerations
    <2>13. ASSUME NEW t \in Transactions, DeleteDoomed(t) \/ DeadlockVictim(t) \/ Disconnect(t)
           PROVE  Typed'
      BY <2>1, <2>8, <2>13 DEF DeleteDoomed, DeadlockVictim, Disconnect, Ends
    <2>14. ASSUME NEW t \in Publications, Demote(t) \/ Promote(t)
           PROVE  Typed'
      BY <2>1, <2>9, <2>10, <2>14 DEF Demote, Promote, Ends, Transactions
    <2> QED
      BY <2>3, <2>4, <2>5, <2>6, <2>7, <2>11, <2>12, <2>13, <2>14 DEF Next
  <1> QED
    BY <1>1, <1>2, PTL DEF Spec

\* The type invariant of publish and the cleanup (TypeOK), whatever the
\* interleaving of their statements.
THEOREM TypeCorrect == Spec => []TypeOK
  <1>1. Typed => TypeOK
    BY DEF Typed
  <1> QED
    BY <1>1, AlwaysTyped, PTL

-----------------------------------------------------------------------------
(* Pointers resolve *)

\* What no commit may make a pointer refer to: a generation a transaction has
\* deleted is named by no committed pointer it leaves alone, and by no pointer
\* row that it or another transaction has written.
DeletedUnpointed ==
    \A t \in Transactions : \A g \in deleted[t] : \A role \in Roles :
        /\ written[t][role] = Kept => pointers[role] # g
        /\ \A u \in Transactions : written[u][role] # g

\* A pointer row is written by one transaction at a time.
RowsLocked ==
    \A t, u \in Transactions : \A role \in Roles :
        t # u => written[t][role] = Kept \/ written[u][role] = Kept

\* A pointer row that is written names a published generation.
WrittenPublished ==
    \A t \in Transactions : \A role \in Roles :
        written[t][role] \in Generations => status[written[t][role]] = "published"

\* What a publication read as current was published, and is never staged again.
ReadWasPublished ==
    \A t \in Publications : current[t] # None =>
        /\ status[current[t]] \in {"published", "absent"}
        /\ current[t] \in Publications => pc[current[t]] # "stage"

\* A generation exists only once its publication has begun.
StagedFirst == \A t \in Publications : pc[t] = "stage" => status[t] = "absent"

PointersInv ==
    /\ DeletedUnpointed
    /\ RowsLocked
    /\ WrittenPublished
    /\ ReadWasPublished
    /\ StagedFirst
    /\ PointersResolve

\* Steps that neither write nor commit anything.
LEMMA ReadingKeepsPointersInv ==
    ASSUME PointersInv, UNCHANGED <<status, pointers, current, deleted, written>>,
           \A t \in Publications : pc'[t] = "stage" => pc[t] = "stage"
    PROVE  PointersInv'
  BY DEF PointersInv, DeletedUnpointed, RowsLocked, WrittenPublished, ReadWasPublished,
         StagedFirst, PointersResolve

\* A rollback gives up what the transaction has written and deleted.
LEMMA RollbackKeepsPointersInv ==
    ASSUME TypeOK, PointersInv, NEW t \in Transactions, NEW end \in Ends, Rollback(t, end)
    PROVE  PointersInv'
  <1> USE DEF PointersInv
  <1>1. /\ deleted' = [deleted EXCEPT ![t] = {}]
        /\ written' = [written EXCEPT ![t] = Untouched]
        /\ UNCHANGED <<status, pointers, current>>
        /\ \A p \in Publications : pc'[p] = "stage" => pc[p] = "stage"
    BY DEF Rollback, End, Goto, dbVars, TypeOK, Ends, Transactions
  <1>2. \A role \in Roles : Untouched[role] = Kept /\ Kept \notin Generations
    BY TransactionsAssumption DEF Untouched
  <1>3. DeletedUnpointed'
    BY <1>1, <1>2 DEF DeletedUnpointed, TypeOK
  <1>4. RowsLocked' /\ WrittenPublished'
    BY <1>1, <1>2 DEF RowsLocked, WrittenPublished, TypeOK
  <1>5. ReadWasPublished' /\ StagedFirst' /\ PointersResolve'
    BY <1>1 DEF ReadWasPublished, StagedFirst, PointersResolve
  <1> QED
    BY <1>3, <1>4, <1>5

\* A commit of the rows written, perhaps with the generation published.
LEMMA CommitKeepsPointersInv ==
    ASSUME TypeOK, PointersInv, NEW t \in Transactions, NEW published \in SUBSET {t},
           NEW rows \in [Roles -> Generations \cup {None, Kept}], Commit(t, rows, published),
           \A role \in Roles : rows[role] = written[t][role] \/ (rows[role] = t /\ t \in published),
           t \in published => t \in Generations /\ \A u \in Transactions : t \notin deleted[u]
    PROVE  PointersInv'
  <1> USE DEF PointersInv
  <1>1. /\ deleted' = [deleted EXCEPT ![t] = {}]
        /\ written' = [written EXCEPT ![t] = Untouched]
        /\ UNCHANGED current
        /\ \A p \in Publications : pc'[p] = "stage" => pc[p] = "stage" /\ p # t
    BY DEF Commit, End, Goto, TypeOK, Transactions
  <1>2. \A role \in Roles : Untouched[role] = Kept /\ Kept \notin Generations \cup {None}
    BY TransactionsAssumption DEF Untouched
  <1>3. \A role \in Roles : pointers'[role] = IF rows[role] = Kept THEN pointers[role] ELSE rows[role]
    BY DEF Commit
  <1>4. \A g \in Generations :
          status'[g] = IF g \in published THEN "published"
                       ELSE IF g \in deleted[t] THEN "absent" ELSE status[g]
    BY DEF Commit, StatusCommitted
  <1>5. DeletedUnpointed'
    BY <1>1, <1>2, <1>3 DEF DeletedUnpointed, TypeOK
  <1>6. RowsLocked'
    BY <1>1, <1>2 DEF RowsLocked, TypeOK
  <1>7. WrittenPublished'
    <2> SUFFICES ASSUME NEW u \in Transactions, NEW role \in Roles, written'[u][role] \in Generations
                 PROVE  status'[written'[u][role]] = "published"
      BY DEF WrittenPublished
    <2>1. u # t /\ written'[u][role] = written[u][role]
      BY <1>1, <1>2 DEF TypeOK
    <2>2. written[u][role] \notin deleted[t] /\ status[written[u][role]] = "published"
      BY <2>1 DEF DeletedUnpointed, WrittenPublished
    <2> QED
      BY <2>1, <2>2, <1>4
  <1>8. ReadWasPublished'
    <2> SUFFICES ASSUME NEW p \in Publications, current[p] # None
                 PROVE  /\ status'[current[p]] \in {"published", "absent"}
                        /\ current[p] \in Publications => pc'[current[p]] # "stage"
      BY <1>1 DEF ReadWasPublished
    <2>1. /\ current[p] \in Generations /\ status[current[p]] \in {"published", "absent"}
          /\ current[p] \in Publications => pc[current[p]] # "stage"
      BY DEF ReadWasPublished, TypeOK
    <2> QED
      BY <2>1, <1>1, <1>4
  <1>9. StagedFirst'
    BY <1>1, <1>4 DEF StagedFirst, Generations
  <1>10. PointersResolve'
    <2> SUFFICES ASSUME NEW role \in Roles, pointers'[role] # None
                 PROVE  status'[pointers'[role]] = "published"
      BY DEF PointersResolve
    <2>1. CASE rows[role] = t /\ t \in published
      BY <2>1, <1>2, <1>3, <1>4
    <2>2. CASE rows[role] = written[t][role] /\ rows[role] = Kept
      <3>1. pointers'[role] = pointers[role] /\ pointers[role] \in Generations
        BY <2>2, <1>3 DEF TypeOK
      <3>2. pointers[role] \notin deleted[t] /\ status[pointers[role]] = "published"
        BY <2>2, <3>1, TransactionsAssumption DEF DeletedUnpointed, PointersResolve, Generations
      <3> QED
        BY <3>1, <3>2, <1>4
    <2>3. CASE rows[role] = written[t][role] /\ rows[role] # Kept
      BY <2>3, <1>3, <1>4 DEF DeletedUnpointed, WrittenPublished, TypeOK
    <2> QED
      BY <2>1, <2>2, <2>3
  <1> QED
    BY <1>5, <1>6, <1>7, <1>8, <1>9, <1>10

\* Deleting a pointer row: the row was nobody else's.
LEMMA UnpointKeepsPointersInv ==
    ASSUME TypeOK, PointersInv, NEW t \in Transactions, UnpointDoomed(t)
    PROVE  PointersInv'
  <1> USE DEF PointersInv
  <1>1. /\ \A u \in Transactions, role \in Roles :
              \/ written'[u][role] = written[u][role]
              \/ u = t /\ written'[u][role] = None /\ PointerSeen(t, role) = Head(doomed[t])
        /\ UNCHANGED <<status, pointers, current, deleted>>
        /\ \A p \in Publications : pc'[p] = "stage" => pc[p] = "stage"
    BY DEF UnpointDoomed, Goto, dbVars, TypeOK, Transactions
  <1>2. \A u \in Transactions \ {t}, role \in Roles :
           PointerSeen(t, role) = Head(doomed[t]) => written[u][role] = Kept
    BY DEF UnpointDoomed, Blockers, Blocks, LocksPointer
  <1>3. None \notin Generations \cup {Kept}
    BY TransactionsAssumption DEF Generations, Transactions
  <1>4. RowsLocked'
    BY <1>1, <1>2 DEF RowsLocked
  <1>5. DeletedUnpointed'
    BY <1>1, <1>3 DEF DeletedUnpointed, TypeOK
  <1>6. WrittenPublished' /\ ReadWasPublished' /\ StagedFirst' /\ PointersResolve'
    BY <1>1, <1>3 DEF WrittenPublished, ReadWasPublished, StagedFirst, PointersResolve
  <1> QED
    BY <1>4, <1>5, <1>6

\* Deleting a generation: nothing points to it, and nobody is about to.
LEMMA DeleteKeepsPointersInv ==
    ASSUME Typed, PointersInv, NEW t \in Transactions, DeleteDoomed(t)
    PROVE  PointersInv'
  <1> USE DEF PointersInv, Typed
  <1> DEFINE g == Head(doomed[t])
  <1>1. CASE Pointed(t, g)
    BY <1>1, RollbackKeepsPointersInv DEF DeleteDoomed, Ends
  <1>2. CASE ~Pointed(t, g)
    <2>1. /\ deleted' = [deleted EXCEPT ![t] = @ \cup {g}]
          /\ UNCHANGED <<status, pointers, current, written>>
          /\ \A p \in Publications : pc'[p] = "stage" => pc[p] = "stage"
      BY <1>2 DEF DeleteDoomed, Goto, AfterOrphans, dbVars, TypeOK, Transactions
    <2>2. \A u \in Transactions \ {t}, role \in Roles : written[u][role] # g
      BY DEF DeleteDoomed, Blockers, Blocks, LocksKey
    <2>3. \A role \in Roles : /\ written[t][role] = Kept => pointers[role] # g
                              /\ written[t][role] # Kept => written[t][role] # g
      BY <1>2 DEF Pointed, PointerSeen
    <2>4. \A role \in Roles : written[t][role] # g
      <3>1. g \in Generations
        BY HeadTailProperties DEF DeleteDoomed, DeletesSomething, Deleting, TypeOK
      <3> QED
        BY <3>1, <2>3, TransactionsAssumption
    <2>5. DeletedUnpointed'
      <3>1. \A u \in Transactions : \A h \in deleted'[u] : h \in deleted[u] \/ (u = t /\ h = g)
        BY <2>1 DEF TypeOK
      <3>2. \A u \in Transactions, role \in Roles : written[u][role] # g
        BY <2>2, <2>4
      <3> QED
        BY <2>1, <2>3, <3>1, <3>2 DEF DeletedUnpointed
    <2> QED
      BY <2>1, <2>5 DEF RowsLocked, WrittenPublished, ReadWasPublished, StagedFirst, PointersResolve
  <1> QED
    BY <1>1, <1>2

\* Writing previous: its row is nobody else's, and the generation is there.
LEMMA DemoteKeepsPointersInv ==
    ASSUME TypeOK, PointersInv, NEW t \in Publications, Demote(t)
    PROVE  PointersInv'
  <1> USE DEF PointersInv
  <1> DEFINE Gone == current[t] # None /\ StatusSeen(t, current[t]) = "absent"
  <1>1. CASE Gone
    BY <1>1, RollbackKeepsPointersInv DEF Demote, Ends, Transactions
  <1>2. CASE ~Gone
    <2>1. /\ UNCHANGED <<status, pointers, current, deleted>>
          /\ \A p \in Publications : pc'[p] = "stage" => pc[p] = "stage"
      BY <1>2 DEF Demote, Goto, dbVars, TypeOK, Transactions
    <2>2. ReadWasPublished' /\ StagedFirst' /\ PointersResolve'
      BY <2>1 DEF ReadWasPublished, StagedFirst, PointersResolve
    <2>3. CASE UNCHANGED written
      BY <2>1, <2>2, <2>3 DEF DeletedUnpointed, RowsLocked, WrittenPublished
    <2>4. ASSUME NEW g \in Generations \cup {None}, written' = [written EXCEPT ![t]["previous"] = g],
                 \A u \in Transactions \ {t} : written[u]["previous"] = Kept,
                 g # None => /\ status[g] = "published"
                             /\ \A u \in Transactions : g \notin deleted[u]
          PROVE  PointersInv'
      <3>1. t \in Transactions /\ g # Kept
        BY TransactionsAssumption DEF Transactions
      <3>2. \A u \in Transactions, role \in Roles :
               written'[u][role] = IF u = t /\ role = "previous" THEN g ELSE written[u][role]
        BY <2>4, <3>1 DEF TypeOK
      <3>3. None \notin Generations
        BY TransactionsAssumption DEF Generations, Transactions
      <3>4. DeletedUnpointed'
        BY <2>1, <2>4, <3>1, <3>2, <3>3 DEF DeletedUnpointed, TypeOK
      <3>5. RowsLocked'
        BY <2>1, <2>4, <3>2 DEF RowsLocked
      <3>6. WrittenPublished'
        BY <2>1, <2>4, <3>2, <3>3 DEF WrittenPublished
      <3> QED
        BY <2>2, <3>4, <3>5, <3>6
    <2>5. CASE current[t] # None
      <3>1. written' = [written EXCEPT ![t]["previous"] = current[t]]
        <4>1. written' = CASE current[t] # None -> [written EXCEPT ![t]["previous"] = current[t]]
                           [] DropsPrevious(t)   -> [written EXCEPT ![t]["previous"] = None]
                           [] OTHER              -> written
          BY <1>2 DEF Demote
        <4> QED
          BY <2>5, <4>1 DEF DropsPrevious
      <3>2. \A u \in Transactions \ {t} :
               written[u]["previous"] = Kept /\ current[t] \notin deleted[u]
        BY <2>5 DEF Demote, Blockers, Blocks, LocksPointer
      <3>3. status[current[t]] = "published" /\ current[t] \notin deleted[t]
        BY <1>2, <2>5 DEF StatusSeen, ReadWasPublished
      <3> QED
        BY <2>4, <3>1, <3>2, <3>3 DEF TypeOK
    <2>6. CASE DropsPrevious(t)
      <3>1. written' = [written EXCEPT ![t]["previous"] = None]
        BY <1>2, <2>6 DEF Demote, DropsPrevious
      <3>2. \A u \in Transactions \ {t} : written[u]["previous"] = Kept
        BY <2>6 DEF Demote, Blockers, Blocks, LocksPointer
      <3> QED
        BY <2>4, <3>1, <3>2
    <2> QED
      BY <1>2, <2>3, <2>5, <2>6 DEF Demote
  <1> QED
    BY <1>1, <1>2

\* Every step of every transaction preserves the invariant.
LEMMA PointersInvStep == Typed /\ PointersInv /\ [Next]_vars => PointersInv'
  <1> SUFFICES ASSUME Typed, PointersInv, [Next]_vars PROVE PointersInv'
    OBVIOUS
  <1>1. TypeOK
    BY DEF Typed
  <1>2. ASSUME NEW t \in Publications, StageAndValidate(t)
        PROVE  PointersInv'
    <2> USE DEF PointersInv
    <2>1. /\ UNCHANGED <<pointers, current, deleted, written>>
          /\ \A p \in Publications : pc'[p] = "stage" => pc[p] = "stage" /\ p # t
          /\ \A g \in Generations : g # t => status'[g] = status[g]
          /\ status[t] = "absent"
      BY <1>1, <1>2 DEF StageAndValidate, Goto, StagedFirst, TypeOK, Transactions
    <2>2. DeletedUnpointed' /\ RowsLocked'
      BY <2>1 DEF DeletedUnpointed, RowsLocked
    <2>3. WrittenPublished' /\ PointersResolve'
      BY <1>1, <2>1 DEF WrittenPublished, PointersResolve, TypeOK
    <2>4. ReadWasPublished' /\ StagedFirst'
      <3>1. \A p \in Publications : current[p] # t
        BY <1>2, TransactionsAssumption DEF StageAndValidate, ReadWasPublished, Transactions
      <3> QED
        BY <1>1, <2>1, <3>1 DEF ReadWasPublished, StagedFirst, TypeOK, Generations
    <2> QED
      BY <2>2, <2>3, <2>4
  <1>3. ASSUME NEW t \in Publications, ReadCurrent(t)
        PROVE  PointersInv'
    <2> USE DEF PointersInv
    <2>1. /\ UNCHANGED <<status, pointers, deleted, written>>
          /\ current' = [current EXCEPT ![t] = pointers["current"]]
          /\ \A p \in Publications : pc'[p] = "stage" => pc[p] = "stage"
      BY <1>1, <1>3 DEF ReadCurrent, Goto, dbVars, TypeOK, Transactions
    <2>2. DeletedUnpointed' /\ RowsLocked' /\ WrittenPublished' /\ StagedFirst' /\ PointersResolve'
      BY <2>1 DEF DeletedUnpointed, RowsLocked, WrittenPublished, StagedFirst, PointersResolve
    <2>3. pointers["current"] # None =>
             /\ status[pointers["current"]] = "published"
             /\ pointers["current"] \in Publications => pc[pointers["current"]] # "stage"
      BY DEF PointersResolve, StagedFirst, Roles
    <2>4. ReadWasPublished'
      BY <1>1, <2>1, <2>3 DEF ReadWasPublished, TypeOK
    <2> QED
      BY <2>2, <2>4
  <1>4. ASSUME NEW t \in Publications, ReadStatus(t) \/ ReadPrevious(t) \/ ApplyRoutes(t)
        PROVE  PointersInv'
    BY <1>1, <1>4, ReadingKeepsPointersInv
    DEF ReadStatus, ReadPrevious, ApplyRoutes, Goto, dbVars, TypeOK, Transactions
  <1>5. ASSUME NEW t \in Transactions, SelectOrphans(t)
        PROVE  PointersInv'
    BY <1>1, <1>5, ReadingKeepsPointersInv
    DEF SelectOrphans, Goto, AfterOrphans, dbVars, TypeOK, Transactions
  <1>6. ASSUME NEW t \in Publications, Promote(t)
        PROVE  PointersInv'
    <2>1. CASE StatusSeen(t, t) = "absent"
      BY <1>1, <1>6, <2>1, RollbackKeepsPointersInv DEF Promote, Ends, Transactions
    <2>2. CASE StatusSeen(t, t) # "absent"
      <3> DEFINE rows == [written[t] EXCEPT !["current"] = t]
      <3>1. Commit(t, rows, {t})
        BY <1>6, <2>2 DEF Promote
      <3>2. rows \in [Roles -> Generations \cup {None, Kept}]
        BY <1>1 DEF TypeOK, Transactions, Generations
      <3>3. \A role \in Roles : rows[role] = written[t][role] \/ rows[role] = t
        BY <1>1 DEF TypeOK, Transactions
      <3>4. \A u \in Transactions : t \notin deleted[u]
        BY <1>6, <2>2 DEF Promote, Blockers, Blocks, StatusSeen
      <3> HIDE DEF rows
      <3> QED
        BY <1>1, <3>1, <3>2, <3>3, <3>4, CommitKeepsPointersInv DEF Transactions, Generations
    <2> QED
      BY <2>1, <2>2
  <1>7. ASSUME NEW t \in Recoveries, CommitRecovery(t)
        PROVE  PointersInv'
    <2>1. written[t] \in [Roles -> Generations \cup {None, Kept}] /\ Commit(t, written[t], {})
      BY <1>1, <1>7 DEF CommitRecovery, TypeOK, Transactions
    <2> DEFINE rows == written[t]
    <2>2. Commit(t, rows, {}) /\ rows = written[t]
      BY <2>1
    <2> HIDE DEF rows
    <2> QED
      BY <1>1, <2>1, <2>2, CommitKeepsPointersInv DEF Transactions
  <1>8. ASSUME NEW t \in Transactions, DeadlockVictim(t) \/ Disconnect(t)
        PROVE  PointersInv'
    BY <1>1, <1>8, RollbackKeepsPointersInv DEF DeadlockVictim, Disconnect, Ends
  <1>9. CASE UNCHANGED vars
    BY <1>9, ReadingKeepsPointersInv DEF vars, dbVars
  <1> QED
    BY <1>1, <1>2, <1>3, <1>4, <1>5, <1>6, <1>7, <1>8, <1>9, UnpointKeepsPointersInv,
       DeleteKeepsPointersInv, DemoteKeepsPointersInv DEF Next

\* PointersInv holds of every state that statements and commits lead to.
THEOREM PointersInvariance == Spec => []PointersInv
  <1>1. Init => PointersInv
    <2> SUFFICES ASSUME Init PROVE PointersInv
      OBVIOUS
    <2>1. DeletedUnpointed /\ RowsLocked
      BY DEF Init, DeletedUnpointed, RowsLocked, Untouched
    <2>2. WrittenPublished
      BY TransactionsAssumption DEF Init, WrittenPublished, Untouched
    <2>3. PointersResolve
      BY DEF Init, PointersResolve, Generations
    <2>4. ReadWasPublished
      BY DEF Init, ReadWasPublished
    <2>5. StagedFirst
      BY TransactionsAssumption DEF Init, StagedFirst, Generations, Transactions
    <2> QED
      BY <2>1, <2>2, <2>3, <2>4, <2>5 DEF PointersInv
  <1> QED
    BY <1>1, PointersInvStep, AlwaysTyped, PTL DEF Spec

\* Every committed pointer names a published generation (PointersResolve),
\* however publications and cleanups delete each other's generations between
\* one's reads and its writes.
THEOREM CommittedPointersResolve == Spec => []PointersResolve
  <1>1. PointersInv => PointersResolve
    BY DEF PointersInv
  <1> QED
    BY <1>1, PointersInvariance, PTL

\* Only the commit of a takeover's cleanup ever leaves passengers without a
\* current generation (PublicationsKeepCurrent).
THEOREM OnlyCleanupsLoseCurrent == Spec => PublicationsKeepCurrent
  <1> DEFINE NotLostByPublication == pointers["current"] # None /\ pointers'["current"] = None =>
                        \E r \in Recoveries : pc[r] = "commit" /\ pc'[r] = "committed"
  <1>1. TypeOK /\ [Next]_vars => [NotLostByPublication]_vars
    <2> SUFFICES ASSUME TypeOK, [Next]_vars, pointers["current"] # None, pointers'["current"] = None
                 PROVE  \E r \in Recoveries : pc[r] = "commit" /\ pc'[r] = "committed"
      OBVIOUS
    <2>1. ASSUME NEW t \in Publications, Promote(t)
          PROVE  FALSE
      <3>1. CASE StatusSeen(t, t) = "absent"
        BY <2>1, <3>1 DEF Promote, Rollback, dbVars
      <3>2. CASE StatusSeen(t, t) # "absent"
        <4>1. Commit(t, [written[t] EXCEPT !["current"] = t], {t})
          BY <2>1, <3>2 DEF Promote
        <4>2. [written[t] EXCEPT !["current"] = t]["current"] = t
          BY DEF TypeOK, Transactions, Roles
        <4>3. t \notin {None, Kept}
          BY TransactionsAssumption DEF Transactions, Generations
        <4>4. pointers'["current"] = t
          BY <4>1, <4>2, <4>3 DEF Commit, Roles
        <4> QED
          BY <4>3, <4>4
      <3> QED
        BY <3>1, <3>2
    <2>2. ASSUME NEW t \in Recoveries, CommitRecovery(t)
          PROVE  pc[t] = "commit" /\ pc'[t] = "committed"
      BY <2>2 DEF CommitRecovery, Commit, End, Goto, TypeOK, Transactions
    <2>3. pointers' # pointers
      OBVIOUS
    <2>4. \A t \in Publications :
             ~StageAndValidate(t) /\ ~ReadStatus(t) /\ ~ReadCurrent(t) /\ ~ReadPrevious(t)
             /\ ~ApplyRoutes(t) /\ ~Demote(t)
      BY <2>3 DEF StageAndValidate, ReadStatus, ReadCurrent, ReadPrevious, ApplyRoutes, Demote,
                  Rollback, dbVars
    <2>5. \A t \in Transactions :
             ~SelectOrphans(t) /\ ~UnpointDoomed(t) /\ ~DeleteDoomed(t)
             /\ ~DeadlockVictim(t) /\ ~Disconnect(t)
      BY <2>3 DEF SelectOrphans, UnpointDoomed, DeleteDoomed, DeadlockVictim, Disconnect,
                  Rollback, dbVars
    <2> QED
      BY <2>1, <2>2, <2>3, <2>4, <2>5 DEF Next, vars, dbVars
  <1> QED
    BY <1>1, TypeCorrect, PTL DEF Spec, PublicationsKeepCurrent
-----------------------------------------------------------------------------
(* Publications do not all lose *)

\* No cleanup has begun, and no publication has committed or lost its connection.
Racing ==
    /\ \A p \in Publications : pc[p] \notin {"committed", "lost"}
    /\ \A r \in Recoveries : pc[r] = "select_orphans"

\* A generation waits for publication only if it is one that is to be published.
ValidatedToPublish == \A g \in Generations : status[g] = "validated" => g \in Publications

\* Cleanups supersede nothing.
CleanupsSupersedeNothing ==
    \A r \in Recoveries : pc[r] \notin {"unpoint_superseded", "delete_superseded"}

\* How far a publication is while nobody has committed: what it has read still
\* is so, it deletes the superseded generation and the generations of others
\* only, and it has written no pointer to them.
OnCourse(p) ==
    /\ pc[p] # "stage" => status[p] = "validated"
    /\ pc[p] \notin {"stage", "read_status", "read_current"} => current[p] = pointers["current"]
    /\ pc[p] \in {"unpoint_superseded", "delete_superseded"} =>
          /\ doomed[p] = <<pointers["previous"]>>
          /\ pointers["previous"] \notin {None, pointers["current"]}
    /\ pc[p] = "delete_superseded" => written[p]["previous"] = None
    /\ pc[p] \in {"unpoint_orphan", "delete_orphan"} => doomed[p] \in Seq(Publications \ {p})
    /\ pc[p] # "promote" => \A role \in Roles : written[p][role] \in {Kept, None}
    /\ p \notin deleted[p] /\ pointers["current"] \notin deleted[p]

SomeGoesOn ==
    (\E p \in Publications : pc[p] # "stage") =>
        \E p \in Publications : pc[p] \notin {"stage"} \cup Ends

RaceInv ==
    /\ ValidatedToPublish
    /\ CleanupsSupersedeNothing
    /\ Racing => /\ \A role \in Roles : pointers[role] \notin Publications
                 /\ \A p \in Publications : OnCourse(p)
                 /\ SomeGoesOn

\* What a transaction waits with is one of its writes.
Writing == {"unpoint_superseded", "delete_superseded", "unpoint_orphan", "delete_orphan",
            "apply_routes", "demote", "promote"}

\* Only a transaction about to write waits.
LEMMA WaitersWrite == \A t, u : Blocks(u, t) => pc[t] \in Writing
  BY DEF Blocks, Writing

\* Ending a transaction of those that wait for each other leaves another of them.
LEMMA VictimLeavesAnother ==
    ASSUME NEW t \in Transactions, DeadlockVictim(t)
    PROVE  pc[t] \in Writing /\ \E w \in Transactions \ {t} : pc[w] \in Writing
  <1>1. PICK waiting \in SUBSET Transactions :
           t \in waiting /\ \A u \in waiting : \E w \in waiting : w \in Blockers(u)
    BY DEF DeadlockVictim
  <1>2. PICK w \in waiting : w \in Blockers(t)
    BY <1>1
  <1>3. PICK v \in waiting : v \in Blockers(w)
    BY <1>1
  <1> QED
    BY <1>1, <1>2, <1>3, WaitersWrite DEF Blockers

\* A step of one publication that stays on course leaves all of them on course.
LEMMA CourseKept ==
    ASSUME TypeOK, RaceInv, Racing, NEW t \in Publications, UNCHANGED pointers,
           \A p \in Publications \ {t} :
              /\ pc'[p] = pc[p] /\ status'[p] = status[p] /\ current'[p] = current[p]
              /\ doomed'[p] = doomed[p] /\ deleted'[p] = deleted[p] /\ written'[p] = written[p],
           OnCourse(t)', pc'[t] \notin {"stage"} \cup Ends,
           ValidatedToPublish', CleanupsSupersedeNothing'
    PROVE  RaceInv'
  <1>1. ASSUME NEW p \in Publications \ {t}
        PROVE  OnCourse(p)'
    <2>1. OnCourse(p)
      BY DEF RaceInv
    <2> QED BY <2>1 DEF OnCourse
  <1>2. SomeGoesOn'
    BY DEF SomeGoesOn
  <1> QED
    BY <1>1, <1>2 DEF RaceInv

\* The invariant says nothing once somebody has committed, been lost or begun to
\* clean up, which cannot be undone.
LEMMA RaceOver ==
    ASSUME ValidatedToPublish', CleanupsSupersedeNothing', ~Racing'
    PROVE  RaceInv'
  BY DEF RaceInv

\* Statements of publish that only read, while nobody has committed.
LEMMA ReadsStayOnCourse ==
    ASSUME Typed, RaceInv, Racing, NEW t \in Publications,
           ReadStatus(t) \/ ReadCurrent(t) \/ ReadPrevious(t) \/ ApplyRoutes(t)
    PROVE  RaceInv'
  <1> USE DEF Typed
  <1>1. t \in Transactions /\ OnCourse(t)
    BY DEF RaceInv, Transactions
  <1>2. /\ UNCHANGED <<pointers, status, deleted, written>>
        /\ \A u \in Transactions \ {t} : pc'[u] = pc[u] /\ doomed'[u] = doomed[u]
        /\ \A p \in Publications \ {t} : current'[p] = current[p]
    BY <1>1 DEF ReadStatus, ReadCurrent, ReadPrevious, ApplyRoutes, Goto, dbVars, TypeOK
  <1>3. ValidatedToPublish' /\ CleanupsSupersedeNothing'
    BY <1>2, TransactionsAssumption DEF RaceInv, ValidatedToPublish, CleanupsSupersedeNothing, Transactions
  <1>4. OnCourse(t)' /\ pc'[t] \notin {"stage"} \cup Ends
    <2>1. CASE ReadStatus(t)
      BY <1>1, <1>2, <2>1 DEF ReadStatus, Goto, OnCourse, TypeOK, Ends
    <2>2. CASE ReadCurrent(t)
      BY <1>1, <1>2, <2>2 DEF ReadCurrent, Goto, OnCourse, TypeOK, Ends
    <2>3. CASE ReadPrevious(t)
      BY <1>1, <1>2, <2>3 DEF ReadPrevious, Goto, OnCourse, TypeOK, Ends
    <2>4. CASE ApplyRoutes(t)
      BY <1>1, <1>2, <2>4 DEF ApplyRoutes, Goto, OnCourse, TypeOK, Ends
    <2> QED
      BY <2>1, <2>2, <2>3, <2>4
  <1>5. \A p \in Publications \ {t} : p \in Transactions \ {t}
    BY DEF Transactions
  <1> QED
    BY <1>2, <1>3, <1>4, <1>5, CourseKept

\* Staging makes a publication's generation validated, and no other.
LEMMA StagingStaysOnCourse ==
    ASSUME Typed, RaceInv, Racing, NEW t \in Publications, StageAndValidate(t)
    PROVE  RaceInv'
  <1> USE DEF Typed
  <1>1. t \in Transactions /\ t \in Generations /\ OnCourse(t)
    BY DEF RaceInv, Transactions, Generations
  <1>2. /\ UNCHANGED <<pointers, current, doomed, deleted, written>>
        /\ \A u \in Transactions \ {t} : pc'[u] = pc[u]
        /\ \A g \in Generations \ {t} : status'[g] = status[g]
        /\ status'[t] = "validated" /\ pc'[t] = "read_status" /\ pc[t] = "stage"
    BY <1>1 DEF StageAndValidate, Goto, TypeOK
  <1>3. ValidatedToPublish' /\ CleanupsSupersedeNothing'
    BY <1>2, TransactionsAssumption DEF RaceInv, ValidatedToPublish, CleanupsSupersedeNothing, Transactions
  <1>4. OnCourse(t)'
    BY <1>1, <1>2 DEF OnCourse
  <1>5. \A p \in Publications \ {t} : p \in Transactions \ {t} /\ p \in Generations \ {t}
    BY DEF Transactions, Generations
  <1>6. pc'[t] \notin {"stage"} \cup Ends
    BY <1>2 DEF Ends
  <1> QED
    BY <1>2, <1>3, <1>4, <1>5, <1>6, CourseKept

\* The orphans that a publication selects are generations of others.
LEMMA SelectingStaysOnCourse ==
    ASSUME Typed, RaceInv, Racing, NEW t \in Publications, SelectOrphans(t)
    PROVE  RaceInv'
  <1> USE DEF Typed
  <1>1. t \in Transactions /\ OnCourse(t)
    BY DEF RaceInv, Transactions
  <1>2. PICK order \in SetToSeqs(OrphansSeen(t)) : doomed' = [doomed EXCEPT ![t] = order]
    BY DEF SelectOrphans
  <1>3. /\ UNCHANGED <<pointers, status, current, deleted, written>>
        /\ \A u \in Transactions \ {t} : pc'[u] = pc[u] /\ doomed'[u] = doomed[u]
        /\ doomed'[t] = order /\ pc[t] = "select_orphans"
        /\ pc'[t] \in {"apply_routes", "unpoint_orphan"}
    BY <1>1, <1>2 DEF SelectOrphans, Goto, AfterOrphans, dbVars, TypeOK
  <1>4. order \in Seq(Publications \ {t})
    <2>1. OrphansSeen(t) \subseteq ValidatedGenerations /\ OrphansSeen(t) \subseteq Publications \ {t}
      BY DEF OrphansSeen, StatusSeen, ValidatedGenerations, RaceInv, ValidatedToPublish
    <2>2. OrphansSeen(t) \subseteq Generations /\ IsFiniteSet(OrphansSeen(t))
      BY <2>1, FS_Subset DEF FinitelyValidated, ValidatedGenerations
    <2>3. order \in Seq(OrphansSeen(t))
      BY <2>2, OrdersAreSequences
    <2> QED
      BY <2>1, <2>3, SeqMonotonic
  <1>5. ValidatedToPublish' /\ CleanupsSupersedeNothing'
    BY <1>3, TransactionsAssumption DEF RaceInv, ValidatedToPublish, CleanupsSupersedeNothing, Transactions
  <1>6. OnCourse(t)' /\ pc'[t] \notin {"stage"} \cup Ends
    BY <1>1, <1>3, <1>4 DEF OnCourse, Ends
  <1>7. \A p \in Publications \ {t} : p \in Transactions \ {t}
    BY DEF Transactions
  <1> QED
    BY <1>3, <1>5, <1>6, <1>7, CourseKept

\* A publication deletes pointer rows to what it is about to delete.
LEMMA UnpointStaysOnCourse ==
    ASSUME Typed, RaceInv, Racing, NEW t \in Publications, UnpointDoomed(t)
    PROVE  RaceInv'
  <1> USE DEF Typed
  <1>1. t \in Transactions /\ OnCourse(t)
    BY DEF RaceInv, Transactions
  <1>2. /\ UNCHANGED <<pointers, status, current, doomed, deleted>>
        /\ \A u \in Transactions \ {t} : pc'[u] = pc[u] /\ written'[u] = written[u]
        /\ \A role \in Roles : written'[t][role] =
              IF PointerSeen(t, role) = Head(doomed[t]) THEN None ELSE written[t][role]
    BY <1>1 DEF UnpointDoomed, Goto, dbVars, TypeOK
  <1>3. \/ pc[t] = "unpoint_orphan" /\ pc'[t] = "delete_orphan"
        \/ pc[t] = "unpoint_superseded" /\ pc'[t] = "delete_superseded"
    BY <1>1 DEF UnpointDoomed, Goto, TypeOK
  <1>4. ValidatedToPublish' /\ CleanupsSupersedeNothing'
    BY <1>2, TransactionsAssumption DEF RaceInv, ValidatedToPublish, CleanupsSupersedeNothing, Transactions
  <1>5. OnCourse(t)' /\ pc'[t] \notin {"stage"} \cup Ends
    <2>1. CASE pc[t] = "unpoint_orphan"
      BY <1>1, <1>2, <1>3, <2>1 DEF OnCourse, Ends
    <2>2. CASE pc[t] = "unpoint_superseded"
      <3>1. Head(doomed[t]) = pointers["previous"]
        BY <1>1, <2>2 DEF OnCourse
      <3>2. written[t]["previous"] \in {Kept, None}
        BY <1>1, <2>2 DEF OnCourse, Roles
      <3>3. written'[t]["previous"] = None
        BY <1>2, <3>1, <3>2 DEF PointerSeen, Roles
      <3> QED
        BY <1>1, <1>2, <1>3, <2>2, <3>3 DEF OnCourse, Ends
    <2> QED
      BY <1>3, <2>1, <2>2
  <1>6. \A p \in Publications \ {t} : p \in Transactions \ {t}
    BY DEF Transactions
  <1> QED
    BY <1>2, <1>4, <1>5, <1>6, CourseKept

\* What a publication is about to delete is pointed to no more: while nobody has
\* committed, it cannot run into the foreign key.
LEMMA DoomedIsUnpointed ==
    ASSUME TypeOK, RaceInv, Racing, NEW t \in Publications,
           pc[t] \in {"delete_superseded", "delete_orphan"}, doomed[t] # <<>>
    PROVE  /\ ~Pointed(t, Head(doomed[t]))
           /\ Head(doomed[t]) \notin {t, pointers["current"]}
           /\ pc[t] = "delete_orphan" => Tail(doomed[t]) \in Seq(Publications \ {t})
  <1>1. OnCourse(t)
    BY DEF RaceInv
  <1>2. \A role \in Roles : written[t][role] \in {Kept, None} /\ pointers[role] \notin Publications
    BY <1>1 DEF OnCourse, RaceInv
  <1>3. None \notin Publications
    BY TransactionsAssumption DEF Transactions
  <1>4. CASE pc[t] = "delete_orphan"
    <2>1. Head(doomed[t]) \in Publications \ {t} /\ Tail(doomed[t]) \in Seq(Publications \ {t})
      BY <1>1, <1>4, HeadTailProperties DEF OnCourse
    <2> QED
      BY <1>2, <1>3, <2>1 DEF Pointed, PointerSeen, Roles
  <1>5. CASE pc[t] = "delete_superseded"
    <2>1. /\ Head(doomed[t]) = pointers["previous"]
          /\ pointers["previous"] \notin {None, pointers["current"]}
          /\ written[t]["previous"] = None
      BY <1>1, <1>5 DEF OnCourse
    <2>2. \A role \in Roles : PointerSeen(t, role) # pointers["previous"]
      BY <1>2, <2>1, TransactionsAssumption DEF PointerSeen, Roles
    <2> QED
      BY <1>2, <1>5, <2>1, <2>2 DEF Pointed, Roles
  <1> QED
    BY <1>4, <1>5

\* A publication deletes the superseded generation and the generations of others.
LEMMA DeleteStaysOnCourse ==
    ASSUME Typed, RaceInv, Racing, NEW t \in Publications, DeleteDoomed(t)
    PROVE  RaceInv'
  <1> USE DEF Typed
  <1>1. t \in Transactions /\ OnCourse(t)
    BY DEF RaceInv, Transactions
  <1>2. pc[t] \in {"delete_superseded", "delete_orphan"} /\ doomed[t] # <<>>
    BY <1>1 DEF DeleteDoomed, DeletesSomething, Deleting
  <1> DEFINE g == Head(doomed[t])
  <1>3. /\ ~Pointed(t, g) /\ g # t /\ g # pointers["current"]
        /\ pc[t] = "delete_orphan" => Tail(doomed[t]) \in Seq(Publications \ {t})
    BY <1>2, DoomedIsUnpointed
  <1>4. /\ UNCHANGED <<pointers, status, current, written>>
        /\ \A u \in Transactions \ {t} :
              pc'[u] = pc[u] /\ doomed'[u] = doomed[u] /\ deleted'[u] = deleted[u]
        /\ deleted'[t] = deleted[t] \cup {g} /\ doomed'[t] = Tail(doomed[t])
    BY <1>1, <1>3 DEF DeleteDoomed, Goto, dbVars, TypeOK
  <1>6. \/ pc[t] = "delete_superseded" /\ pc'[t] = "select_orphans"
        \/ pc[t] = "delete_orphan" /\ pc'[t] \in {"unpoint_orphan", "apply_routes"}
    <2>1. \E statement : /\ pc' = [pc EXCEPT ![t] = statement]
                         /\ statement = CASE pc[t] = "delete_superseded" -> "select_orphans"
                                          [] Len(doomed[t]) > 1 -> "unpoint_orphan"
                                          [] OTHER -> "apply_routes"
      BY <1>3 DEF DeleteDoomed, Goto, AfterOrphans
    <2>2. CASE pc[t] = "delete_superseded"
      <3>1. Len(doomed[t]) = 1
        BY <1>1, <2>2 DEF OnCourse
      <3>2. pc' = [pc EXCEPT ![t] = "select_orphans"]
        BY <2>1, <2>2, <3>1
      <3> QED
        BY <1>1, <2>2, <3>2 DEF TypeOK
    <2>3. CASE pc[t] = "delete_orphan" /\ Len(doomed[t]) > 1
      BY <1>1, <2>1, <2>3 DEF TypeOK
    <2>4. CASE pc[t] = "delete_orphan" /\ ~(Len(doomed[t]) > 1)
      <3>1. pc' = [pc EXCEPT ![t] = "apply_routes"]
        BY <2>1, <2>4, Zenon
      <3> QED
        BY <1>1, <2>4, <3>1 DEF TypeOK
    <2> QED
      BY <1>2, <2>2, <2>3, <2>4
  <1> HIDE DEF g
  <1>7. ValidatedToPublish' /\ CleanupsSupersedeNothing'
    BY <1>4, TransactionsAssumption DEF RaceInv, ValidatedToPublish, CleanupsSupersedeNothing, Transactions
  <1>8. OnCourse(t)' /\ pc'[t] \notin {"stage"} \cup Ends
    BY <1>1, <1>3, <1>4, <1>6 DEF OnCourse, Ends
  <1>9. \A p \in Publications \ {t} : p \in Transactions \ {t}
    BY DEF Transactions
  <1> QED
    BY <1>4, <1>7, <1>8, <1>9, CourseKept

\* The current that a publication has read is still there to become previous.
LEMMA DemoteStaysOnCourse ==
    ASSUME Typed, PointersInv, RaceInv, Racing, NEW t \in Publications, Demote(t)
    PROVE  RaceInv'
  <1> USE DEF Typed
  <1>1. t \in Transactions /\ OnCourse(t)
    BY DEF RaceInv, Transactions
  <1>2. current[t] # None => StatusSeen(t, current[t]) = "published"
    <2>1. current[t] = pointers["current"]
      BY <1>1 DEF Demote, OnCourse
    <2> QED
      BY <1>1, <2>1 DEF OnCourse, StatusSeen, PointersInv, PointersResolve, Roles
  <1>3. /\ UNCHANGED <<pointers, status, current, doomed, deleted>>
        /\ pc' = [pc EXCEPT ![t] = "promote"] /\ pc[t] = "demote"
    BY <1>2 DEF Demote, Goto, dbVars
  <1>4. \/ written' = written
        \/ written' = [written EXCEPT ![t] = [written[t] EXCEPT !["previous"] = current[t]]]
        \/ written' = [written EXCEPT ![t] = [written[t] EXCEPT !["previous"] = None]]
    BY <1>2 DEF Demote
  <1>5. \A u \in Transactions \ {t} : pc'[u] = pc[u] /\ written'[u] = written[u]
    BY <1>3, <1>4 DEF TypeOK
  <1>6. ValidatedToPublish' /\ CleanupsSupersedeNothing'
    BY <1>3, <1>5, TransactionsAssumption
    DEF RaceInv, ValidatedToPublish, CleanupsSupersedeNothing, Transactions
  <1>7. OnCourse(t)' /\ pc'[t] \notin {"stage"} \cup Ends
    BY <1>1, <1>3 DEF OnCourse, Ends, TypeOK
  <1>8. \A p \in Publications \ {t} : p \in Transactions \ {t}
    BY DEF Transactions
  <1> QED
    BY <1>3, <1>5, <1>6, <1>7, <1>8, CourseKept

\* A publication that fails while nobody has committed leaves one that goes on:
\* its own statements cannot fail, and who waits for a lock waits for another.
LEMMA FailureLeavesAnother ==
    ASSUME Typed, RaceInv, Racing, NEW t \in Transactions, DeadlockVictim(t)
    PROVE  RaceInv'
  <1> USE DEF Typed
  <1>1. /\ UNCHANGED <<pointers, status, current>>
        /\ pc' = [pc EXCEPT ![t] = "failed"]
        /\ doomed' = [doomed EXCEPT ![t] = <<>>]
        /\ deleted' = [deleted EXCEPT ![t] = {}]
        /\ written' = [written EXCEPT ![t] = Untouched]
    BY DEF DeadlockVictim, Rollback, End, Goto, dbVars
  <1>2. /\ pc[t] \in Writing
        /\ \E w \in Transactions \ {t} : pc[w] \in Writing
    BY VictimLeavesAnother
  <1>3. PICK w \in Publications \ {t} : pc[w] \in Writing
    BY <1>2 DEF Racing, Writing, Transactions
  <1>4. t \in Publications
    BY <1>2 DEF Racing, Writing, Transactions
  <1>5. ValidatedToPublish' /\ CleanupsSupersedeNothing'
    BY <1>1, <1>4 DEF RaceInv, ValidatedToPublish, CleanupsSupersedeNothing, TypeOK
  <1>6. \A p \in Publications : OnCourse(p)'
    <2> TAKE p \in Publications
    <2>1. OnCourse(p) /\ OnCourse(t) /\ p \in Transactions
      BY <1>4 DEF RaceInv, Transactions
    <2>2. CASE p = t
      <3>1. /\ pc'[p] = "failed" /\ deleted'[p] = {}
            /\ \A role \in Roles : written'[p][role] = Kept
        BY <1>1, <2>1, <2>2 DEF TypeOK, Untouched
      <3>2. pc[p] \notin {"stage", "read_status", "read_current"}
        BY <1>2, <2>2 DEF Writing
      <3> QED
        BY <1>1, <2>1, <3>1, <3>2 DEF OnCourse
    <2>3. CASE p # t
      BY <1>1, <2>1, <2>3 DEF OnCourse, TypeOK
    <2> QED
      BY <2>2, <2>3
  <1>7. SomeGoesOn'
    BY <1>1, <1>3 DEF SomeGoesOn, TypeOK, Writing, Ends, Transactions
  <1> QED
    BY <1>1, <1>5, <1>6, <1>7 DEF RaceInv

\* Whoever takes a step had not ended, and a claim does not go back to selecting
\* orphans.
LEMMA Progress ==
    ASSUME TypeOK, ValidatedToPublish, CleanupsSupersedeNothing, Next, ~UNCHANGED vars
    PROVE  /\ ValidatedToPublish'
           /\ \E t \in Transactions, next \in Statements :
                 /\ pc' = [pc EXCEPT ![t] = next]
                 /\ pc[t] \notin Ends
                 /\ t \in Recoveries =>
                       next \notin {"select_orphans", "unpoint_superseded", "delete_superseded"}
  <1> DEFINE Moves(t, next) ==
               /\ pc' = [pc EXCEPT ![t] = next]
               /\ pc[t] \notin Ends
               /\ t \in Recoveries =>
                     next \notin {"select_orphans", "unpoint_superseded", "delete_superseded"}
  <1> SUFFICES ValidatedToPublish' /\ \E t \in Transactions, next \in Statements : Moves(t, next)
    OBVIOUS
  <1>1. \A t \in Publications : t \in Transactions /\ t \notin Recoveries
    BY TransactionsAssumption DEF Transactions
  <1>2. \A t \in Recoveries : t \in Transactions /\ t \notin Publications
    BY TransactionsAssumption DEF Transactions
  <1>3. ASSUME NEW t \in Publications, StageAndValidate(t)
        PROVE  ValidatedToPublish' /\ Moves(t, "read_status")
    BY <1>1, <1>3 DEF StageAndValidate, Goto, ValidatedToPublish, TypeOK, Ends
  <1>4. ASSUME NEW t \in Publications,
               ReadStatus(t) \/ ReadCurrent(t) \/ ReadPrevious(t) \/ ApplyRoutes(t)
        PROVE  ValidatedToPublish' /\ \E next \in Statements : Moves(t, next)
    <2>1. UNCHANGED status /\ pc[t] \notin Ends
      BY <1>4 DEF ReadStatus, ReadCurrent, ReadPrevious, ApplyRoutes, dbVars, Ends
    <2>2. \E next \in Statements : pc' = [pc EXCEPT ![t] = next]
      BY <1>4 DEF ReadStatus, ReadCurrent, ReadPrevious, ApplyRoutes, Goto, Statements, Ends
    <2> QED
      BY <1>1, <2>1, <2>2 DEF ValidatedToPublish
  <1>5. ASSUME NEW t \in Transactions, NEW end \in Ends, Rollback(t, end), pc[t] \notin Ends
        PROVE  ValidatedToPublish' /\ Moves(t, end)
    BY <1>5 DEF Rollback, End, Goto, dbVars, ValidatedToPublish, Ends
  <1>6. ASSUME NEW t \in Transactions, NEW rows, NEW published \in SUBSET {t},
               Commit(t, rows, published), pc[t] \notin Ends
        PROVE  ValidatedToPublish' /\ Moves(t, "committed")
    <2>1. \A g \in Generations : status'[g] = "validated" => status[g] = "validated"
      BY <1>6 DEF Commit, StatusCommitted
    <2> QED
      BY <1>6, <2>1 DEF Commit, End, Goto, ValidatedToPublish
  <1>7. ASSUME NEW t \in Publications, Demote(t)
        PROVE  ValidatedToPublish' /\ \E next \in Statements : Moves(t, next)
    <2>1. pc[t] \notin Ends
      BY <1>7 DEF Demote, Ends
    <2>2. CASE Rollback(t, "failed")
      BY <1>1, <1>5, <2>1, <2>2 DEF Ends, Statements
    <2>3. CASE Goto(t, "promote") /\ UNCHANGED dbVars
      BY <1>1, <2>1, <2>3 DEF Goto, dbVars, ValidatedToPublish, Statements
    <2> QED
      BY <1>7, <2>2, <2>3 DEF Demote
  <1>8. ASSUME NEW t \in Publications, Promote(t)
        PROVE  ValidatedToPublish' /\ \E next \in Statements : Moves(t, next)
    <2>1. pc[t] \notin Ends
      BY <1>8 DEF Promote, Ends
    <2> QED
      BY <1>1, <1>5, <1>6, <1>8, <2>1 DEF Promote, Ends, Statements
  <1>9. ASSUME NEW t \in Recoveries, CommitRecovery(t)
        PROVE  ValidatedToPublish' /\ \E next \in Statements : Moves(t, next)
    <2>1. pc[t] \notin Ends
      BY <1>9 DEF CommitRecovery, Ends
    <2> QED
      BY <1>2, <1>6, <1>9, <2>1 DEF CommitRecovery, Ends, Statements
  <1>10. ASSUME NEW t \in Transactions, SelectOrphans(t)
         PROVE  ValidatedToPublish' /\ \E next \in Statements : Moves(t, next)
    <2>1. UNCHANGED status /\ pc[t] \notin Ends
      BY <1>10 DEF SelectOrphans, dbVars, Ends
    <2>2. \E next \in {"unpoint_orphan", "apply_routes", "commit"} : pc' = [pc EXCEPT ![t] = next]
      BY <1>10 DEF SelectOrphans, Goto, AfterOrphans
    <2> QED
      BY <2>1, <2>2 DEF ValidatedToPublish, Statements
  <1>11. ASSUME NEW t \in Transactions, UnpointDoomed(t)
         PROVE  ValidatedToPublish' /\ \E next \in Statements : Moves(t, next)
    <2>1. UNCHANGED status /\ pc[t] \notin Ends
      BY <1>11 DEF UnpointDoomed, dbVars, Ends
    <2>2. \/ pc' = [pc EXCEPT ![t] = "delete_orphan"]
          \/ pc' = [pc EXCEPT ![t] = "delete_superseded"] /\ t \notin Recoveries
      BY <1>11 DEF UnpointDoomed, Goto, CleanupsSupersedeNothing
    <2> QED
      BY <2>1, <2>2 DEF ValidatedToPublish, Statements
  <1>12. ASSUME NEW t \in Transactions, DeleteDoomed(t)
         PROVE  ValidatedToPublish' /\ \E next \in Statements : Moves(t, next)
    <2>1. pc[t] \notin Ends
      BY <1>12 DEF DeleteDoomed, Ends
    <2>2. CASE Rollback(t, "failed")
      BY <1>5, <2>1, <2>2 DEF Ends, Statements
    <2>3. CASE ~Rollback(t, "failed")
      <3>1. UNCHANGED status
        BY <1>12, <2>3 DEF DeleteDoomed, dbVars
      <3>2. \E next : /\ pc' = [pc EXCEPT ![t] = next]
                      /\ next = CASE pc[t] = "delete_superseded" -> "select_orphans"
                                  [] Len(doomed[t]) > 1 -> "unpoint_orphan"
                                  [] OTHER -> AfterOrphans(t)
        BY <1>12, <2>3 DEF DeleteDoomed, Goto
      <3>3. CASE pc[t] = "delete_superseded"
        <4>1. t \notin Recoveries
          BY <3>3 DEF CleanupsSupersedeNothing
        <4>2. \E next \in Statements : pc' = [pc EXCEPT ![t] = next]
          BY <3>2 DEF AfterOrphans, Statements
        <4> QED
          BY <2>1, <3>1, <4>1, <4>2 DEF ValidatedToPublish
      <3>4. CASE pc[t] # "delete_superseded"
        <4>1. \E next \in {"unpoint_orphan", "apply_routes", "commit"} : pc' = [pc EXCEPT ![t] = next]
          BY <3>2, <3>4 DEF AfterOrphans
        <4> QED
          BY <2>1, <3>1, <4>1 DEF ValidatedToPublish, Statements
      <3> QED
        BY <3>3, <3>4
    <2> QED
      BY <2>2, <2>3
  <1>13. ASSUME NEW t \in Transactions, DeadlockVictim(t) \/ Disconnect(t)
         PROVE  ValidatedToPublish' /\ \E next \in Statements : Moves(t, next)
    <2>1. pc[t] \notin Ends
      BY <1>13, VictimLeavesAnother DEF Disconnect, Writing, Ends
    <2> QED
      BY <1>5, <1>13, <2>1 DEF DeadlockVictim, Disconnect, Ends, Statements
  <1>14. "read_status" \in Statements
    BY DEF Statements
  <1> HIDE DEF Moves
  <1> QED
    BY <1>1, <1>2, <1>3, <1>4, <1>7, <1>8, <1>9, <1>10, <1>11, <1>12, <1>13, <1>14 DEF Next

\* Nobody takes back a commit, a lost connection or a cleanup begun.
LEMMA RacingHasBeen ==
    ASSUME TypeOK, ValidatedToPublish, CleanupsSupersedeNothing, [Next]_vars
    PROVE  ValidatedToPublish' /\ CleanupsSupersedeNothing' /\ (Racing' => Racing)
  <1>1. CASE UNCHANGED vars
    BY <1>1 DEF vars, dbVars, ValidatedToPublish, CleanupsSupersedeNothing, Racing
  <1>2. CASE ~UNCHANGED vars
    <2>1. PICK t \in Transactions, next \in Statements :
                 /\ pc' = [pc EXCEPT ![t] = next]
                 /\ pc[t] \notin Ends
                 /\ t \in Recoveries =>
                       next \notin {"select_orphans", "unpoint_superseded", "delete_superseded"}
      BY <1>2, Progress
    <2>2. CleanupsSupersedeNothing'
      BY <2>1 DEF CleanupsSupersedeNothing, TypeOK, Transactions
    <2>3. Racing' => Racing
      <3> SUFFICES ASSUME Racing' PROVE Racing
        OBVIOUS
      <3>1. t \notin Recoveries
        BY <2>1 DEF Racing, TypeOK
      <3> QED
        BY <2>1, <3>1 DEF Racing, TypeOK, Transactions, Ends
    <2> QED
      BY <1>2, <2>2, <2>3, Progress
  <1> QED
    BY <1>1, <1>2

\* Every step preserves the invariant.
LEMMA RaceInvStep == Typed /\ PointersInv /\ RaceInv /\ [Next]_vars => RaceInv'
  <1> SUFFICES ASSUME Typed, PointersInv, RaceInv, [Next]_vars PROVE RaceInv'
    OBVIOUS
  <1>1. TypeOK /\ ValidatedToPublish /\ CleanupsSupersedeNothing
    BY DEF Typed, RaceInv
  <1>2. ValidatedToPublish' /\ CleanupsSupersedeNothing' /\ (Racing' => Racing)
    BY <1>1, RacingHasBeen
  <1>3. CASE ~Racing'
    BY <1>2, <1>3, RaceOver
  <1>4. CASE Racing' /\ UNCHANGED vars
    BY <1>2, <1>4 DEF RaceInv, vars, dbVars, OnCourse, SomeGoesOn
  <1>5. CASE Racing' /\ ~UNCHANGED vars
    <2>1. Racing
      BY <1>2, <1>5
    <2>2. \A r \in Recoveries : UNCHANGED pc[r]
      BY <1>5, <2>1 DEF Racing
    <2>3. \A u \in Recoveries : ~(SelectOrphans(u) \/ UnpointDoomed(u) \/ DeleteDoomed(u)
                                  \/ Disconnect(u) \/ CommitRecovery(u))
      <3> SUFFICES ASSUME NEW u \in Recoveries,
                          SelectOrphans(u) \/ UnpointDoomed(u) \/ DeleteDoomed(u)
                          \/ Disconnect(u) \/ CommitRecovery(u)
                   PROVE  FALSE
        OBVIOUS
      <3>1. pc[u] = "select_orphans" /\ pc'[u] = "select_orphans" /\ u \in Transactions /\ u \notin Publications
        BY <2>1, <2>2, TransactionsAssumption DEF Racing, Transactions
      <3>2. CASE SelectOrphans(u)
        BY <1>1, <3>1, <3>2 DEF SelectOrphans, Goto, AfterOrphans, TypeOK
      <3>3. CASE Disconnect(u)
        BY <1>1, <3>1, <3>3 DEF Disconnect, Rollback, End, Goto, TypeOK
      <3> QED
        BY <3>1, <3>2, <3>3 DEF UnpointDoomed, DeleteDoomed, CommitRecovery
    <2>4. \A p \in Publications : ~Disconnect(p)
      BY <1>1, <1>5 DEF Racing, Disconnect, Rollback, End, Goto, TypeOK, Transactions
    <2>5. ASSUME NEW p \in Publications, Promote(p) PROVE FALSE
      <3>1. status[p] = "validated" /\ p \notin deleted[p]
        BY <2>1, <2>5 DEF RaceInv, OnCourse, Promote
      <3>2. pc' = [pc EXCEPT ![p] = "committed"]
        BY <2>5, <3>1 DEF Promote, StatusSeen, Commit, End, Goto
      <3> QED
        BY <1>1, <1>5, <3>2 DEF Racing, TypeOK, Transactions
    <2>6. ASSUME NEW u \in Transactions,
                 SelectOrphans(u) \/ UnpointDoomed(u) \/ DeleteDoomed(u) \/ Disconnect(u)
          PROVE  u \in Publications
      BY <2>3, <2>6 DEF Transactions
    <2> QED
      BY <1>5, <2>1, <2>3, <2>4, <2>5, <2>6, StagingStaysOnCourse, ReadsStayOnCourse,
         SelectingStaysOnCourse, UnpointStaysOnCourse, DeleteStaysOnCourse, DemoteStaysOnCourse,
         FailureLeavesAnother DEF Next
  <1> QED
    BY <1>3, <1>4, <1>5

\* Publications that race do not all lose (SomePublicationWins): whatever they
\* delete of each other and however they wait for each other, once all that have
\* begun have ended, one of them has committed.
THEOREM NotAllPublicationsLose == Spec => []SomePublicationWins
  <1>1. Init => RaceInv
    <2> SUFFICES ASSUME Init PROVE RaceInv
      OBVIOUS
    <2>1. ValidatedToPublish
      BY DEF Init, ValidatedToPublish
    <2>2. CleanupsSupersedeNothing /\ SomeGoesOn
      BY TransactionsAssumption DEF Init, CleanupsSupersedeNothing, SomeGoesOn, Transactions
    <2>3. \A role \in Roles : pointers[role] \notin Publications
      BY TransactionsAssumption DEF Init, Transactions
    <2>4. \A p \in Publications : OnCourse(p)
      BY DEF Init, OnCourse, Untouched, Transactions
    <2> QED
      BY <2>1, <2>2, <2>3, <2>4 DEF RaceInv
  <1>2. RaceInv => SomePublicationWins
    BY DEF RaceInv, Racing, SomeGoesOn, SomePublicationWins, Ends
  <1> QED
    BY <1>1, <1>2, RaceInvStep, AlwaysTyped, PointersInvariance, PTL DEF Spec
=============================================================================
