------------------------ MODULE CatalogueCollectProofs ------------------------
(***************************************************************************)
(* What holds of a collection of any size, for any number of tasks inside  *)
(* the semaphore and of retries, in whatever order requests are answered.  *)
(***************************************************************************)
EXTENDS CatalogueCollect, FiniteSetTheorems, WellFoundedInduction, TLAPS

-----------------------------------------------------------------------------
(* Positions in the order of the index *)

ArePositions(S) == S \subseteq Nat /\ IsFiniteSet(S)

Upto(positions, i)   == {j \in positions : j <= i}
Before(positions, i) == {j \in positions : j < i}

\* One more position is up to i than before it, and there are none beyond all.
LEMMA PlacesOfPositions ==
    ASSUME NEW S, ArePositions(S), NEW i \in S
    PROVE  /\ Cardinality(S) \in Nat
           /\ Cardinality(Before(S, i)) \in Nat
           /\ Cardinality(Upto(S, i)) = Cardinality(Before(S, i)) + 1
           /\ Cardinality(Upto(S, i)) <= Cardinality(S)
  <1>1. Before(S, i) \in SUBSET S /\ Upto(S, i) \in SUBSET S /\ IsFiniteSet(S)
    BY DEF Before, Upto, ArePositions
  <1>2. IsFiniteSet(Before(S, i)) /\ IsFiniteSet(Upto(S, i))
    BY <1>1, FS_Subset
  <1>3. Upto(S, i) = Before(S, i) \cup {i} /\ i \notin Before(S, i)
    <2>1. \A j \in S : j <= i <=> j < i \/ j = i
      BY DEF ArePositions
    <2>2. ~(i < i)
      BY DEF ArePositions
    <2> QED BY <2>1, <2>2, Zenon DEF Before, Upto
  <1>4. Cardinality(Upto(S, i)) = Cardinality(Before(S, i)) + 1
    BY <1>2, <1>3, FS_AddElement
  <1>5. Cardinality(Upto(S, i)) <= Cardinality(S)
    BY <1>1, FS_Subset
  <1>6. Cardinality(S) \in Nat /\ Cardinality(Before(S, i)) \in Nat
    BY <1>1, <1>2, FS_CardinalityType
  <1> QED BY <1>4, <1>5, <1>6

\* A later position has more before it.
LEMMA PlacesGrow ==
    ASSUME NEW S, ArePositions(S), NEW i \in S, NEW j \in S, i < j
    PROVE  Cardinality(Before(S, i)) < Cardinality(Before(S, j))
  <1>1. /\ Cardinality(Upto(S, i)) = Cardinality(Before(S, i)) + 1
        /\ Cardinality(Before(S, i)) \in Nat /\ Cardinality(Before(S, j)) \in Nat
    BY PlacesOfPositions
  <1>2. IsFiniteSet(Before(S, j))
    <2>1. IsFiniteSet(S) /\ Before(S, j) \in SUBSET S
      BY DEF Before, ArePositions
    <2> QED BY <2>1, FS_Subset
  <1>3. Upto(S, i) \in SUBSET Before(S, j)
    <2>1. \A l \in S : l <= i => l < j
      BY DEF ArePositions
    <2> QED BY <2>1, Zenon DEF Upto, Before
  <1>4. Cardinality(Upto(S, i)) <= Cardinality(Before(S, j))
    BY <1>2, <1>3, FS_Subset
  <1>5. PICK u \in Int, b \in Nat, c \in Nat :
           /\ u = Cardinality(Upto(S, i)) /\ b = Cardinality(Before(S, i))
           /\ c = Cardinality(Before(S, j)) /\ u = b + 1 /\ u <= c
    BY <1>1, <1>4
  <1> QED BY <1>5

\* Each position has its place in their order.
LEMMA SortedPlaces ==
    ASSUME NEW S, ArePositions(S)
    PROVE  /\ DOMAIN Sorted(S) = 1..Cardinality(S)
           /\ \A i \in S : /\ Cardinality(Upto(S, i)) \in 1..Cardinality(S)
                           /\ Sorted(S)[Cardinality(Upto(S, i))] = i
  <1>1. Sorted(S) = [k \in 1..Cardinality(S) |->
                       CHOOSE i \in S : Cardinality(Before(S, i)) = k - 1]
    BY Zenon DEF Sorted, Before
  <1>2. ASSUME NEW i \in S
        PROVE  /\ Cardinality(Upto(S, i)) \in 1..Cardinality(S)
               /\ Sorted(S)[Cardinality(Upto(S, i))] = i
    <2>1. PICK k \in Int, b \in Nat, n \in Nat :
             /\ k = Cardinality(Upto(S, i)) /\ b = Cardinality(Before(S, i))
             /\ n = Cardinality(S) /\ k = b + 1 /\ k <= n
      BY PlacesOfPositions
    <2>2. k \in 1..Cardinality(S) /\ k - 1 = b
      BY <2>1
    <2>3. Sorted(S)[k] = CHOOSE j \in S : Cardinality(Before(S, j)) = b
      BY <1>1, <2>2, Zenon
    <2>4. PICK j \in S : j = Sorted(S)[k] /\ Cardinality(Before(S, j)) = Cardinality(Before(S, i))
      BY <2>1, <2>3, Zenon
    <2>5. Cardinality(Before(S, i)) \in Nat
      BY <2>1
    <2>6. ~(i < j)
      BY <2>4, <2>5, PlacesGrow
    <2>7. ~(j < i)
      BY <2>4, <2>5, PlacesGrow
    <2>8. i = j
      BY <2>6, <2>7 DEF ArePositions
    <2> QED BY <2>1, <2>2, <2>4, <2>8
  <1> QED BY <1>1, <1>2

\* The order of all positions leaves each in its place.
LEMMA AllSorted ==
    ASSUME NEW n \in Nat
    PROVE  /\ ArePositions(1..n)
           /\ DOMAIN Sorted(1..n) = 1..n
           /\ \A i \in 1..n : Sorted(1..n)[i] = i
  <1>1. Cardinality(1..n) = n /\ ArePositions(1..n)
    BY FS_Interval DEF ArePositions
  <1>2. ASSUME NEW i \in 1..n
        PROVE  Cardinality(Upto(1..n, i)) = i
    <2>1. Upto(1..n, i) = 1..i
      BY DEF Upto
    <2> QED BY <2>1, FS_Interval
  <1>3. PICK S : S = 1..n
    OBVIOUS
  <1> QED BY <1>1, <1>2, <1>3, SortedPlaces

\* Every place in the order of some positions is taken by one of them.
LEMMA PlacesTaken ==
    ASSUME NEW S, ArePositions(S), NEW k \in 1..Cardinality(S)
    PROVE  Sorted(S)[k] \in S /\ Cardinality(Upto(S, Sorted(S)[k])) = k
  <1> DEFINE n == Cardinality(S)
             place == [i \in S |-> Cardinality(Upto(S, i))]
  <1>1. \A i \in S : Cardinality(Upto(S, i)) \in 1..n /\ Sorted(S)[Cardinality(Upto(S, i))] = i
    BY SortedPlaces, Zenon
  <1>2. n \in Nat /\ IsFiniteSet(1..n) /\ Cardinality(1..n) = n
    <2>1. n \in Nat
      BY FS_CardinalityType DEF ArePositions
    <2> QED BY <2>1, FS_Interval
  <1>3. place \in Injection(S, 1..n)
    <2>1. place \in [S -> 1..n]
      BY <1>1
    <2>2. \A i, j \in S : place[i] = place[j] => i = j
      BY <1>1
    <2> QED BY <2>1, <2>2, Zenon DEF Injection, IsInjective
  <1>4. place \in Surjection(S, 1..n)
    <2> HIDE DEF place
    <2> QED BY <1>2, <1>3, FS_Injection, Zenon
  <1>5. PICK i \in S : place[i] = k
    <2> HIDE DEF place
    <2> QED BY <1>4 DEF Surjection
  <1> QED BY <1>1, <1>5

\* A function on one to a number is a sequence.
LEMMA NumberedIsSeq ==
    ASSUME NEW m \in Nat, NEW f, f = [k \in 1..m |-> f[k]]
    PROVE  IsSeq(f) /\ Len(f) = m
  <1>1. PICK T : T = ToSet(f)
    OBVIOUS
  <1>2. \A k \in 1..m : f[k] \in T
    BY <1>1 DEF ToSet
  <1>3. f \in [1..m -> T]
    BY <1>2
  <1>4. f \in Seq(T) /\ Len(f) = m
    BY <1>3
  <1> QED BY <1>1, <1>4 DEF IsSeq

\* The positions of a sequence at which something holds.
LEMMA SomePositions ==
    ASSUME NEW s, IsSeq(s), NEW S, S \subseteq DOMAIN s
    PROVE  ArePositions(S)
  <1>1. PICK m \in Nat : DOMAIN s = 1..m
    BY DEF IsSeq
  <1>2. IsFiniteSet(1..m) /\ S \in SUBSET (1..m)
    BY <1>1, FS_Interval
  <1>3. IsFiniteSet(S)
    BY <1>2, FS_Subset
  <1> QED BY <1>2, <1>3 DEF ArePositions

\* What is at some positions is a sequence, in their order.
LEMMA AtPositions ==
    ASSUME NEW s, NEW S, ArePositions(S)
    PROVE  /\ IsSeq(At(s, S)) /\ Cardinality(S) \in Nat /\ Len(At(s, S)) = Cardinality(S)
           /\ DOMAIN At(s, S) = 1..Cardinality(S)
           /\ \A k \in 1..Cardinality(S) : Sorted(S)[k] \in S /\ At(s, S)[k] = s[Sorted(S)[k]]
           /\ \A i \in S : /\ Cardinality(Upto(S, i)) \in 1..Cardinality(S)
                           /\ At(s, S)[Cardinality(Upto(S, i))] = s[i]
  <1>1. PICK n \in Nat : n = Cardinality(S)
    BY FS_CardinalityType DEF ArePositions
  <1>2. DOMAIN Sorted(S) = 1..n
    BY <1>1, SortedPlaces
  <1>3. At(s, S) = [k \in 1..n |-> s[Sorted(S)[k]]]
    BY <1>2, Zenon DEF At
  <1>4. IsSeq(At(s, S)) /\ Len(At(s, S)) = n
    BY <1>3, NumberedIsSeq
  <1>5. \A i \in S : Cardinality(Upto(S, i)) \in 1..n /\ Sorted(S)[Cardinality(Upto(S, i))] = i
    BY <1>1, SortedPlaces
  <1>6. \A k \in 1..n : Sorted(S)[k] \in S
    BY <1>1, PlacesTaken
  <1> QED BY <1>1, <1>3, <1>4, <1>5, <1>6

-----------------------------------------------------------------------------
(* Tasks *)

\* The tasks are numbered from one, and each has a page of the site.
LEMMA TasksListed ==
    ASSUME site \in Sites
    PROVE  \E n \in Nat : Tasks = 1..n /\ \A t \in 1..n : Listed[t] \in DOMAIN site.page
  <1> DEFINE urls   == site.listed
             firsts == {i \in DOMAIN urls : \A j \in 1..(i - 1) : urls[j] # urls[i]}
             order  == Sorted(firsts)
  <1>1. PICK m \in Nat : DOMAIN urls = 1..m /\ \A i \in 1..m : urls[i] \in DOMAIN site.page
    BY CollectAssumption
  <1>2. firsts \subseteq 1..m /\ ArePositions(firsts)
    <2>1. IsFiniteSet(1..m) /\ firsts \in SUBSET (1..m)
      BY <1>1, FS_Interval
    <2> HIDE DEF firsts
    <2>2. IsFiniteSet(firsts)
      BY <2>1, FS_Subset
    <2> QED BY <2>1, <2>2 DEF ArePositions
  <1>3. Listed = [k \in 1..Min({Limit, Cardinality(firsts)}) |-> urls[order[k]]]
    <2>1. Listed = ListedBy(urls)
      BY DEF Listed, Listings
    <2> QED BY <2>1, Zenon DEF ListedBy
  <1> HIDE DEF firsts, order
  <1>4. PICK limit \in Nat, number \in Nat : limit = Limit /\ number = Cardinality(firsts)
    BY <1>2, FS_CardinalityType, CollectAssumption DEF ArePositions
  <1>5. PICK least \in Nat : least = Min({limit, number}) /\ least <= number
    <2>1. \E x \in {limit, number} : \A y \in {limit, number} : x <= y
      <3>1. limit <= limit /\ number <= number /\ (limit <= number \/ number <= limit)
        OBVIOUS
      <3> QED BY <3>1
    <2>2. Min({limit, number}) \in {limit, number} /\ Min({limit, number}) <= number
      BY <2>1, Zenon DEF Min
    <2> QED BY <2>2
  <1>6. Listed = [k \in 1..least |-> urls[order[k]]]
    BY <1>3, <1>4, <1>5, Zenon
  <1>7. Tasks = 1..least
    BY <1>6, Zenon DEF Tasks
  <1>8. ASSUME NEW t \in 1..least
        PROVE  Listed[t] \in DOMAIN site.page
    <2>1. t \in 1..Cardinality(firsts)
      BY <1>4, <1>5
    <2>2. order[t] \in 1..m
      BY <1>2, <2>1, PlacesTaken DEF order
    <2> QED BY <1>1, <1>6, <2>2
  <1> QED BY <1>7, <1>8

\* In particular they are numbered.
LEMMA TasksNumbered ==
    ASSUME site \in Sites
    PROVE  \E n \in Nat : Tasks = 1..n
  BY TasksListed

\* So are those of them that went one way.
LEMMA SomeTasks ==
    ASSUME site \in Sites, NEW S \in SUBSET Tasks
    PROVE  ArePositions(S)
  <1>1. PICK n \in Nat : Tasks = 1..n
    BY TasksNumbered
  <1>2. IsFiniteSet(1..n) /\ S \in SUBSET (1..n)
    BY <1>1, FS_Interval
  <1>3. IsFiniteSet(S)
    BY <1>2, FS_Subset
  <1> QED BY <1>2, <1>3 DEF ArePositions

\* The site is the same all the time, and so is what is listed.
LEMMA SameSite ==
    ASSUME [Next]_vars
    PROVE  /\ site' = site /\ Listed' = Listed /\ Tasks' = Tasks /\ Fetches' = Fetches
           /\ \A t : Page(t)' = Page(t)
  <1>1. site' = site
    BY DEF Next, GetRobots, GetIndex, IndexFails, Raise, Proceed, Enter, Get, FetchFails, Close,
           Assemble, vars
  <1>2. Listed' = Listed
    BY <1>1 DEF Listed
  <1>3. Tasks' = Tasks
    BY <1>2 DEF Tasks
  <1> QED BY <1>1, <1>2, <1>3 DEF Fetches, Page

-----------------------------------------------------------------------------
(* Types *)

Places == {"waiting", "page", "map", "failed", "finished"}

\* What CollectTypeOK says, but for what None stands for.
Types ==
    /\ site \in Sites
    /\ fetcher = "open" <=> index \in {"robots", "index", "routes"}
    /\ asked \in [Fetches -> 0..(Retries + 1)] /\ got \subseteq Fetches
    /\ index \in {"robots", "index", "routes", "closed", "done", "raised"}
    /\ task \in [Tasks -> Places]
    /\ Cardinality(Running) <= Concurrency
    /\ DOMAIN snapshot = Tasks

\* Where a task goes from its page, or from its map.
GoesTo(t) == IF task[t] = "page" THEN AfterPage(t) ELSE AfterMap(t)

\* It goes on to the map or ends.
LEMMA GoesToPlaces ==
    ASSUME NEW t
    PROVE  GoesTo(t) \in {"map", "failed", "finished"}
  <1>1. AfterPage(t) \in {"map", "failed", "finished"}
    <2>1. CASE ~Page(t).parses
      BY <2>1 DEF AfterPage
    <2>2. CASE Page(t).parses /\ Page(t).map = None
      BY <2>2 DEF AfterPage
    <2>3. CASE Page(t).parses /\ Page(t).map # None
      BY <2>3 DEF AfterPage
    <2> QED BY <2>1, <2>2, <2>3
  <1>2. AfterMap(t) \in {"failed", "finished"}
    BY DEF AfterMap
  <1> QED BY <1>1, <1>2 DEF GoesTo

\* A request counts one attempt.
LEMMA AskFits ==
    ASSUME Types, NEW f \in Fetches, Ask(f)
    PROVE  fetcher = "open" /\ asked' \in [Fetches -> 0..(Retries + 1)]
  <1>1. asked[f] + 1 \in 0..(Retries + 1)
    BY CollectAssumption DEF Types, Ask
  <1> QED BY <1>1 DEF Types, Ask
\* No more tasks are inside when some leave, and one more when one enters.
LEMMA Entered ==
    ASSUME site \in Sites, Tasks' = Tasks, NEW t, Running' \subseteq Running \cup {t}
    PROVE  /\ Cardinality(Running) \in Nat /\ Cardinality(Running') \in Nat
           /\ Cardinality(Running') <= Cardinality(Running) + 1
           /\ Running' \subseteq Running => Cardinality(Running') <= Cardinality(Running)
  <1>1. IsFiniteSet(Running)
    BY SomeTasks DEF Running, ArePositions
  <1>2. /\ IsFiniteSet(Running \cup {t}) /\ Cardinality(Running) \in Nat
        /\ Cardinality(Running \cup {t}) \in {Cardinality(Running), Cardinality(Running) + 1}
    BY <1>1, FS_AddElement, FS_CardinalityType
  <1>3. IsFiniteSet(Running') /\ Cardinality(Running') <= Cardinality(Running \cup {t})
    BY <1>2, FS_Subset
  <1>4. Cardinality(Running') \in Nat
    BY <1>3, FS_CardinalityType
  <1>5. Running' \subseteq Running => Cardinality(Running') <= Cardinality(Running)
    BY <1>1, FS_Subset
  <1>6. Cardinality(Running \cup {t}) \in Nat
    BY <1>2
  <1> QED BY <1>2, <1>3, <1>4, <1>5, <1>6

\* A task that enters, goes on or ends.
LEMMA TaskMoves ==
    ASSUME Types, [Next]_vars, NEW t \in Tasks, NEW place \in Places \ {"waiting"}, Goto(t, place),
           UNCHANGED <<site, fetcher, index>>,
           asked' \in [Fetches -> 0..(Retries + 1)], got' \subseteq Fetches,
           t \in Running \/ Cardinality(Running) < Concurrency
    PROVE  Types'
  <1>1. Tasks' = Tasks /\ Fetches' = Fetches
    BY SameSite
  <1>2. /\ task' \in [Tasks -> Places] /\ DOMAIN snapshot' = Tasks
        /\ \A u \in Tasks : u # t => task'[u] = task[u]
    BY DEF Types, Goto
  <1>3. Running' \subseteq Running \cup {t} /\ (t \in Running => Running' \subseteq Running)
    BY <1>1, <1>2 DEF Running
  <1>4. Cardinality(Running') <= Concurrency
    <2>1. PICK r \in Nat, n \in Nat :
             /\ r = Cardinality(Running) /\ n = Cardinality(Running')
             /\ n <= r + 1 /\ (t \in Running => n <= r)
      BY <1>1, <1>3, Entered DEF Types
    <2>2. r <= Concurrency
      BY <2>1 DEF Types
    <2>3. CASE t \in Running
      BY <2>1, <2>2, <2>3, CollectAssumption
    <2>4. CASE Cardinality(Running) < Concurrency
      BY <2>1, <2>4, CollectAssumption
    <2> QED BY <2>3, <2>4
  <1> QED BY <1>1, <1>2, <1>4 DEF Types

\* A step of the collection itself moves no task.
LEMMA CollectionMoves ==
    ASSUME Types, [Next]_vars, UNCHANGED <<task, snapshot>>,
           asked' \in [Fetches -> 0..(Retries + 1)], got' \subseteq Fetches,
           index' \in {"robots", "index", "routes", "closed", "done", "raised"},
           fetcher' = "open" <=> index' \in {"robots", "index", "routes"}
    PROVE  Types'
  <1>1. site' = site /\ Tasks' = Tasks /\ Fetches' = Fetches
    BY SameSite
  <1>2. Running' = Running
    BY <1>1 DEF Running
  <1> QED BY <1>1, <1>2 DEF Types

\* Every step keeps them.
LEMMA TypesKept ==
    ASSUME Types, [Next]_vars
    PROVE  Types'
  <1>1. <<0, "robots">> \in Fetches /\ <<0, "index">> \in Fetches
    BY DEF Fetches
  <1>2. /\ asked \in [Fetches -> 0..(Retries + 1)] /\ got \subseteq Fetches
        /\ (fetcher = "open" <=> index \in {"robots", "index", "routes"})
    BY DEF Types
  <1>3. CASE GetRobots
    <2>1. asked' \in [Fetches -> 0..(Retries + 1)] /\ got' \subseteq Fetches
      BY <1>1, <1>2, <1>3, AskFits DEF GetRobots, Answers
    <2> QED BY <1>2, <1>3, <2>1, CollectionMoves DEF GetRobots, Raise, Proceed
  <1>4. CASE GetIndex
    <2>1. asked' \in [Fetches -> 0..(Retries + 1)] /\ got' \subseteq Fetches
      BY <1>1, <1>2, <1>4, AskFits DEF GetIndex, Answers
    <2> QED BY <1>2, <1>4, <2>1, CollectionMoves DEF GetIndex, Raise, Proceed
  <1>5. CASE IndexFails
    <2>1. asked' \in [Fetches -> 0..(Retries + 1)] /\ got' = got
      BY <1>1, <1>5, AskFits DEF IndexFails, Refuses
    <2> QED BY <1>2, <1>5, <2>1, CollectionMoves DEF IndexFails, Raise, Proceed
  <1>6. ASSUME NEW t \in Tasks, Enter(t)
        PROVE  Types'
    <2>1. PICK place \in {"page", "failed"} : Goto(t, place)
      BY <1>6 DEF Enter
    <2>2. place \in Places \ {"waiting"}
      BY <2>1 DEF Places
    <2> QED BY <1>2, <1>6, <2>1, <2>2, TaskMoves DEF Enter, Semaphore
  <1>7. ASSUME NEW t \in Tasks, Get(t)
        PROVE  Types'
    <2>1. t \in Running /\ <<t, task[t]>> \in Fetches
      BY <1>7 DEF Get, Running, Fetches
    <2>2. Goto(t, GoesTo(t)) /\ GoesTo(t) \in Places \ {"waiting"}
      BY <1>7, GoesToPlaces DEF Get, GoesTo, Places
    <2>3. asked' \in [Fetches -> 0..(Retries + 1)] /\ got' \subseteq Fetches
      BY <1>2, <1>7, <2>1, AskFits DEF Get, Answers
    <2> QED BY <1>7, <2>1, <2>2, <2>3, TaskMoves DEF Get
  <1>8. ASSUME NEW t \in Tasks, FetchFails(t)
        PROVE  Types'
    <2>1. t \in Running /\ <<t, task[t]>> \in Fetches
      BY <1>8 DEF FetchFails, Running, Fetches
    <2>2. PICK place \in Places \ {"waiting"} : Goto(t, place)
      BY <1>8, <2>1 DEF FetchFails, AfterLast, Running, Places
    <2>3. asked' \in [Fetches -> 0..(Retries + 1)] /\ got' \subseteq Fetches
      BY <1>2, <1>8, <2>1, AskFits DEF FetchFails, Refuses
    <2> QED BY <1>8, <2>1, <2>2, <2>3, TaskMoves DEF FetchFails
  <1>9. CASE Close
    BY <1>2, <1>9, CollectionMoves DEF Close
  <1>10. CASE Assemble
    BY <1>2, <1>10, CollectionMoves DEF Assemble
  <1>11. CASE UNCHANGED vars
    BY <1>2, <1>11, CollectionMoves DEF vars, Types
  <1> QED BY <1>3, <1>4, <1>5, <1>6, <1>7, <1>8, <1>9, <1>10, <1>11 DEF Next

\* They hold at first,
LEMMA TypesAtFirst == Init => Types
  <1> SUFFICES ASSUME Init PROVE Types
    OBVIOUS
  <1>1. Running = {}
    BY DEF Init, Running
  <1>2. Cardinality(Running) <= Concurrency
    BY <1>1, FS_EmptySet, CollectAssumption
  <1> QED BY <1>2, CollectAssumption DEF Init, Types, Places

\* and so at any time.
LEMMA TypesInvariance == Spec => []Types
  BY TypesAtFirst, TypesKept, PTL DEF Spec
-----------------------------------------------------------------------------
(* Results *)

\* None is not what a task or a collection returns.
NoneIsNoResult ==
    /\ \A page, placemarks : RouteSnapshot(page, placemarks) # None
    /\ \A rows, failures : [rows |-> rows, hardFailures |-> failures] # None

Results ==
    /\ \A t \in Tasks : snapshot[t] # None <=> task[t] = "finished"
    /\ collection # None <=> index = "done"

\* Every step but the last assembles nothing.
LEMMA OnlyAssembles ==
    ASSUME [Next]_vars, ~Assemble
    PROVE  /\ collection' = collection
           /\ index' \in {index, "index", "routes", "closed", "raised"}
           /\ index' = index \/ index # "done"
  BY DEF Next, GetRobots, GetIndex, IndexFails, Raise, Proceed, Enter, Get, FetchFails, Close, vars

\* A step moves one task from where it waits or runs, or none.
LEMMA OneTaskMoves ==
    ASSUME [Next]_vars
    PROVE  \/ UNCHANGED <<task, snapshot>>
           \/ \E t \in Tasks, place \in Places :
                 /\ Goto(t, place)
                 /\ task[t] \in {"waiting", "page", "map"}
                 /\ index = "routes" \/ t \in Running
  <1>1. ASSUME NEW t \in Tasks, Enter(t)
        PROVE  /\ Goto(t, IF Allowed(Listed[t]) THEN "page" ELSE "failed")
               /\ task[t] = "waiting" /\ index = "routes"
    BY <1>1 DEF Enter
  <1>2. ASSUME NEW t \in Tasks, Get(t)
        PROVE  Goto(t, GoesTo(t)) /\ GoesTo(t) \in Places /\ task[t] \in {"page", "map"} /\ t \in Running
    BY <1>2, GoesToPlaces DEF Get, GoesTo, Places, Running
  <1>3. ASSUME NEW t \in Tasks, FetchFails(t)
        PROVE  /\ \E place \in {"failed", task[t]} : Goto(t, place)
               /\ task[t] \in {"page", "map"} /\ t \in Running
    BY <1>3 DEF FetchFails, AfterLast, Running
  <1>4. CASE \E t \in Tasks : Enter(t) \/ Get(t) \/ FetchFails(t)
    <2>1. PICK t \in Tasks : Enter(t) \/ Get(t) \/ FetchFails(t)
      BY <1>4
    <2> QED BY <2>1, <1>1, <1>2, <1>3 DEF Places
  <1>5. CASE ~\E t \in Tasks : Enter(t) \/ Get(t) \/ FetchFails(t)
    BY <1>5 DEF Next, GetRobots, GetIndex, IndexFails, Raise, Proceed, Close, Assemble, vars
  <1> QED BY <1>4, <1>5

\* A task has a result once it has finished, the collection once it is done.
LEMMA ResultsKept ==
    ASSUME NoneIsNoResult, Types, Results, [Next]_vars
    PROVE  Results'
  <1>1. Tasks' = Tasks
    BY SameSite
  <1>2. \A t \in Tasks : snapshot'[t] # None <=> task'[t] = "finished"
    <2>1. CASE UNCHANGED <<task, snapshot>>
      BY <2>1 DEF Results
    <2>2. ASSUME NEW t \in Tasks, NEW place \in Places, Goto(t, place),
                 task[t] \in {"waiting", "page", "map"}
          PROVE  \A u \in Tasks : snapshot'[u] # None <=> task'[u] = "finished"
      <3>1. task' = [task EXCEPT ![t] = place] /\ task[t] # "finished" /\ snapshot[t] = None
        BY <2>2 DEF Goto, Results
      <3>2. CASE place = "finished"
        <4>1. PICK r : /\ snapshot' = [snapshot EXCEPT ![t] = r]
                       /\ r = RouteSnapshot(Page(t), Placemarks(Page(t)))
          BY <2>2, <3>2 DEF Goto
        <4>2. r # None
          BY <4>1, Zenon DEF NoneIsNoResult
        <4> QED BY <3>1, <3>2, <4>1, <4>2 DEF Types, Results
      <3>3. CASE place # "finished"
        BY <2>2, <3>1, <3>3 DEF Goto, Types, Results
      <3> QED BY <3>2, <3>3
    <2> QED BY <2>1, <2>2, OneTaskMoves
  <1>3. collection' # None <=> index' = "done"
    <2>1. CASE Assemble
      BY <2>1, Zenon DEF Assemble, Collected, NoneIsNoResult
    <2>2. CASE ~Assemble
      BY <2>2, OnlyAssembles DEF Results
    <2> QED BY <2>1, <2>2
  <1> QED BY <1>1, <1>2, <1>3 DEF Results

\* The collection keeps to its types: at most Concurrency tasks are inside the
\* semaphore and no request is made more often than its retries allow
\* (CollectTypeOK).
THEOREM CollectTypeCorrect ==
    ASSUME NoneIsNoResult
    PROVE  Spec => []CollectTypeOK
  <1>1. Init => Results
    BY DEF Init, Results
  <1>2. Types /\ Results /\ [Next]_vars => Results'
    BY ResultsKept
  <1>3. Types /\ Results => CollectTypeOK
    BY DEF Types, Results, CollectTypeOK, Places
  <1> QED BY <1>1, <1>2, <1>3, TypesInvariance, PTL DEF Spec
-----------------------------------------------------------------------------
(* Complete or nothing *)

\* What a task returns when it has finished.
RouteOf(t) == RouteSnapshot(Page(t), Placemarks(Page(t)))

\* What has been answered and what is kept of it go with how far a task is.
Progress(t) ==
    /\ task[t] \in {"waiting", "page"} => <<t, "page">> \notin got
    /\ task[t] \in {"waiting", "page", "map"} => <<t, "map">> \notin got
    /\ task[t] = "map" => <<t, "page">> \in got /\ Page(t).parses /\ Page(t).map # None
    /\ task[t] = "finished" => Intact(t) /\ snapshot[t] = RouteOf(t)
    /\ task[t] = "failed" => ~Intact(t)

\* What becomes of a route is the same at any time.
LEMMA SameRoutes ==
    ASSUME [Next]_vars, NEW t
    PROVE  Page(t)' = Page(t) /\ RouteOf(t)' = RouteOf(t)
  <1>1. Page(t)' = Page(t) /\ site' = site
    BY SameSite
  <1>2. Placemarks(Page(t))' = Placemarks(Page(t))
    BY <1>1 DEF Placemarks
  <1> QED BY <1>1, <1>2 DEF RouteOf

\* A task that others' steps leave alone.
LEMMA Undisturbed ==
    ASSUME [Next]_vars, NEW t, Progress(t), task'[t] = task[t], snapshot'[t] = snapshot[t],
           <<t, "page">> \in got' <=> <<t, "page">> \in got,
           <<t, "map">> \in got' <=> <<t, "map">> \in got
    PROVE  Progress(t)'
  <1>1. Page(t)' = Page(t) /\ RouteOf(t)' = RouteOf(t) /\ site' = site
    BY SameRoutes, SameSite
  <1>2. Intact(t)' <=> Intact(t)
    BY <1>1 DEF Intact
  <1> QED BY <1>1, <1>2 DEF Progress

\* A step of one task.
LEMMA ProgressOfMover ==
    ASSUME Types, [Next]_vars, NEW t \in Tasks, Enter(t) \/ Get(t) \/ FetchFails(t), Progress(t)
    PROVE  Progress(t)'
  <1>1. Page(t)' = Page(t) /\ RouteOf(t)' = RouteOf(t) /\ site' = site
    BY SameRoutes, SameSite
  <1>2. ASSUME NEW place, Goto(t, place)
        PROVE  /\ task'[t] = place
               /\ place = "finished" => snapshot'[t] = RouteOf(t)
    BY <1>2 DEF Goto, Types, RouteOf
  <1>3. CASE Enter(t)
    <2>1. task[t] = "waiting" /\ got' = got /\ task'[t] \in {"page", "failed"}
      BY <1>2, <1>3 DEF Enter
    <2>2. <<t, "page">> \notin got' /\ <<t, "map">> \notin got'
      BY <2>1 DEF Progress
    <2> QED BY <1>1, <2>1, <2>2 DEF Progress, Intact
  <1>4. CASE FetchFails(t)
    <2>1. /\ task[t] \in {"page", "map"} /\ got' = got
          /\ task'[t] \in {"failed", task[t]}
      BY <1>2, <1>4 DEF FetchFails, Refuses, AfterLast, Running
    <2>2. CASE task'[t] = task[t]
      BY <1>1, <2>1, <2>2 DEF Progress, Intact
    <2>3. CASE task'[t] = "failed"
      BY <1>1, <2>1, <2>3 DEF Progress, Intact
    <2> QED BY <2>1, <2>2, <2>3
  <1>5. CASE Get(t) /\ task[t] = "page"
    <2>1. /\ task'[t] = AfterPage(t) /\ got' = got \cup {<<t, "page">>}
          /\ AfterPage(t) = "finished" => snapshot'[t] = RouteOf(t)
      BY <1>2, <1>5 DEF Get, Answers
    <2>2. <<t, "page">> \in got' /\ <<t, "map">> \notin got'
      BY <1>5, <2>1 DEF Progress
    <2>3. CASE ~Page(t).parses
      BY <1>1, <2>1, <2>3 DEF Progress, Intact, AfterPage
    <2>4. CASE Page(t).parses /\ Page(t).map = None
      BY <1>1, <2>1, <2>2, <2>4 DEF Progress, Intact, AfterPage
    <2>5. CASE Page(t).parses /\ Page(t).map # None
      <3>1. AfterPage(t) \in {"map", "failed"}
        BY <2>5 DEF AfterPage
      <3> QED BY <1>1, <2>1, <2>2, <2>5, <3>1 DEF Progress, Intact
    <2> QED BY <2>3, <2>4, <2>5
  <1>6. CASE Get(t) /\ task[t] = "map"
    <2>1. /\ task'[t] = AfterMap(t) /\ got' = got \cup {<<t, "map">>}
          /\ AfterMap(t) = "finished" => snapshot'[t] = RouteOf(t)
      BY <1>2, <1>6 DEF Get, Answers
    <2>2. <<t, "page">> \in got' /\ <<t, "map">> \in got' /\ Page(t).parses /\ Page(t).map # None
      BY <1>6, <2>1 DEF Progress
    <2>3. CASE site.map[Page(t).map].parses
      BY <1>1, <2>1, <2>2, <2>3 DEF Progress, Intact, AfterMap
    <2>4. CASE ~site.map[Page(t).map].parses
      BY <1>1, <2>1, <2>2, <2>4 DEF Progress, Intact, AfterMap
    <2> QED BY <2>3, <2>4
  <1>7. Get(t) => task[t] \in {"page", "map"}
    BY DEF Get, Running
  <1> QED BY <1>3, <1>4, <1>5, <1>6, <1>7
\* What is assembled is assembled of tasks that have all ended.
Ended == index \in {"closed", "done"} => \A t \in Tasks : task[t] \in {"failed", "finished"}

CompleteInv == /\ Types /\ Ended
               /\ \A t \in Tasks : Progress(t)

\* A step moves one task at most, and answers are of the task that asked.
LEMMA ProgressKept ==
    ASSUME Types, [Next]_vars, \A t \in Tasks : Progress(t)
    PROVE  (\A t \in Tasks : Progress(t))'
  <1>1. Tasks' = Tasks
    BY SameSite
  <1>2. ASSUME NEW t \in Tasks, Enter(t) \/ Get(t) \/ FetchFails(t), NEW u \in Tasks
        PROVE  Progress(u)'
    <2>1. CASE u = t
      BY <1>2, <2>1, ProgressOfMover
    <2>2. CASE u # t
      <3>1. \E place : Goto(t, place)
        BY <1>2 DEF Enter, Get, FetchFails
      <3>2. task'[u] = task[u] /\ snapshot'[u] = snapshot[u]
        BY <2>2, <3>1 DEF Goto, Types
      <3>3. got' \in {got, got \cup {<<t, task[t]>>}}
        BY <1>2 DEF Enter, Get, Answers, FetchFails, Refuses
      <3> QED BY <2>2, <3>2, <3>3, Undisturbed
    <2> QED BY <2>1, <2>2
  <1>3. ASSUME ~\E t \in Tasks : Enter(t) \/ Get(t) \/ FetchFails(t), NEW u \in Tasks
        PROVE  Progress(u)'
    <2>1. /\ task' = task /\ snapshot' = snapshot
          /\ got' \subseteq got \cup {<<0, "robots">>, <<0, "index">>} /\ got \subseteq got'
      BY <1>3 DEF Next, GetRobots, GetIndex, IndexFails, Answers, Refuses, Raise, Proceed, Close,
                  Assemble, vars
    <2> QED BY <2>1, Undisturbed
  <1>4. \A u \in Tasks : Progress(u)'
    BY <1>2, <1>3
  <1> QED BY <1>1, <1>4

\* Once all tasks have ended none goes on.
LEMMA EndedKept ==
    ASSUME Types, Ended, [Next]_vars
    PROVE  Ended'
  <1>1. Tasks' = Tasks
    BY SameSite
  <1>2. ASSUME NEW t \in Tasks, Enter(t) \/ Get(t) \/ FetchFails(t)
        PROVE  index' \notin {"closed", "done"}
    BY <1>2 DEF Enter, Get, Answers, FetchFails, Refuses, Ask, Types
  <1>3. CASE \E t \in Tasks : Enter(t) \/ Get(t) \/ FetchFails(t)
    BY <1>2, <1>3 DEF Ended
  <1>4. CASE ~\E t \in Tasks : Enter(t) \/ Get(t) \/ FetchFails(t)
    <2>1. /\ task' = task
          /\ index' \in {"closed", "done"} =>
                index \in {"closed", "done"} \/ \A t \in Tasks : task[t] \in {"failed", "finished"}
      BY <1>4 DEF Next, GetRobots, GetIndex, IndexFails, Raise, Proceed, Close, Assemble, vars
    <2> QED BY <1>1, <2>1 DEF Ended
  <1> QED BY <1>3, <1>4

\* So the invariant holds at any time.
LEMMA CompleteInvariance == Spec => []CompleteInv
  <1>1. Init => Ended /\ \A t \in Tasks : Progress(t)
    BY DEF Init, Ended, Progress
  <1>2. CompleteInv /\ [Next]_vars => CompleteInv'
    BY TypesKept, EndedKept, ProgressKept DEF CompleteInv
  <1>3. Init => CompleteInv
    BY <1>1, TypesAtFirst DEF CompleteInv
  <1> QED BY <1>2, <1>3, PTL DEF Spec

\* What is assembled is what the tasks returned, and of all of them or of none.
LEMMA AssembleComplete ==
    ASSUME CompleteInv, Assemble
    PROVE  CompleteOrNothing'
  <1>1. [Next]_vars
    BY DEF Next
  <1>2. Tasks' = Tasks /\ Listed' = Listed /\ site' = site
    BY <1>1, SameSite
  <1>3. \A t : Page(t)' = Page(t) /\ RouteOf(t)' = RouteOf(t) /\ (Intact(t)' <=> Intact(t))
    <2>1. \A t : Page(t)' = Page(t) /\ RouteOf(t)' = RouteOf(t)
      BY <1>1, SameRoutes
    <2> QED BY <1>2, <2>1 DEF Assemble, Intact
  <1>4. PICK broken : broken = {t \in Tasks : ~Intact(t)}
    OBVIOUS
  <1>5. \A t \in Tasks : task[t] = "failed" <=> ~Intact(t)
    BY DEF CompleteInv, Ended, Progress, Assemble
  <1>6. {t \in Tasks : task[t] = "failed"} = broken
    BY <1>4, <1>5
  <1>7. {t \in Tasks : task[t] = "finished"} = Tasks \ broken
    BY <1>4, <1>5 DEF CompleteInv, Ended, Assemble
  <1>8. collection' = Collected(broken, Tasks \ broken)
    BY <1>6, <1>7, Zenon DEF Assemble
  <1>9. /\ collection'.hardFailures = UrlsOf(broken)
        /\ collection'.rows = IF broken = {} THEN RowsOf(Tasks \ broken) ELSE <<>>
    BY <1>8 DEF Collected
  <1>10. PICK n \in Nat : Tasks = 1..n
    BY TasksNumbered DEF CompleteInv, Types
  <1>11. ArePositions(broken)
    BY <1>4, SomeTasks DEF CompleteInv, Types
  <1>12. PICK order : order = Sorted(broken)
    OBVIOUS
  <1>13. UrlsOf(broken) = [k \in DOMAIN order |-> Listed[order[k]]]
    BY <1>12, Zenon DEF UrlsOf, At
  <1>14. /\ DOMAIN order = 1..Cardinality(broken)
         /\ \A t \in broken : /\ Cardinality(Upto(broken, t)) \in 1..Cardinality(broken)
                              /\ order[Cardinality(Upto(broken, t))] = t
    BY <1>11, <1>12, SortedPlaces, Zenon
  <1>15. /\ DOMAIN collection'.hardFailures = 1..Cardinality(broken)
         /\ \A t \in broken : collection'.hardFailures[Cardinality(Upto(broken, t))] = Listed[t]
    BY <1>9, <1>13, <1>14
  <1>16. ASSUME broken = {}
         PROVE  collection'.rows = [t \in Tasks |-> Row(RouteOf(t))]
    <2>1. collection'.rows = RowsOf(1..n)
      BY <1>9, <1>10, <1>16
    <2>2. PICK all : all = Sorted(1..n)
      OBVIOUS
    <2>3. RowsOf(1..n) = [k \in DOMAIN all |-> Row(snapshot[all[k]])]
      BY <2>2, Zenon DEF RowsOf
    <2>4. DOMAIN all = 1..n /\ \A t \in 1..n : all[t] = t
      BY <2>2, AllSorted
    <2>5. ASSUME NEW t \in 1..n
          PROVE  snapshot[all[t]] = RouteOf(t)
      <3>1. t \in Tasks /\ task[t] = "finished"
        BY <1>5, <1>4, <1>10, <1>16 DEF CompleteInv, Ended, Assemble
      <3> QED BY <2>4, <3>1 DEF CompleteInv, Progress
    <2>6. RowsOf(1..n) = [t \in 1..n |-> Row(RouteOf(t))]
      BY <2>3, <2>4, <2>5
    <2> QED BY <1>10, <2>1, <2>6
  <1>17. broken # {} => collection'.rows = <<>>
    BY <1>9
  <1>18. {t \in Tasks' : ~Intact(t)'} = broken
    BY <1>2, <1>3, <1>4
  <1>19. collection'.rows = IF broken # {} THEN <<>> ELSE [t \in Tasks |-> Row(RouteOf(t))]
    BY <1>16, <1>17
  <1>20. [t \in Tasks |-> Row(RouteOf(t))]
           = [t \in Tasks' |-> Row(RouteSnapshot(Page(t)', Placemarks(Page(t))'))]
    BY <1>2, <1>3 DEF RouteOf
  <1> QED BY <1>2, <1>15, <1>18, <1>19, <1>20 DEF CompleteOrNothing, Upto

\* Any hard failure of a listed route blocks the export: what is collected is the
\* row of every listed route in the order of the index, or no row and the routes
\* that are not intact, in whatever order the requests were answered, failed and
\* were repeated (CompleteOrNothing).
THEOREM CollectsAllOrNothing == Spec => []CompleteOrNothing
  <1>1. Init => CompleteOrNothing
    BY DEF Init, CompleteOrNothing
  <1>2. ASSUME CompleteInv, CompleteOrNothing, [Next]_vars
        PROVE  CompleteOrNothing'
    <2>1. CASE Assemble
      BY <1>2, <2>1, AssembleComplete
    <2>2. CASE UNCHANGED vars
      <3>1. Tasks' = Tasks /\ Listed' = Listed /\ site' = site /\ got' = got
            /\ index' = index /\ collection' = collection
        BY <1>2, <2>2, SameSite DEF vars
      <3>2. \A t : /\ Page(t)' = Page(t) /\ RouteOf(t)' = RouteOf(t)
                   /\ Intact(t)' <=> Intact(t)
        BY <1>2, <3>1, SameRoutes DEF Intact
      <3> QED BY <1>2, <3>1, <3>2 DEF CompleteOrNothing, RouteOf
    <2>3. CASE ~Assemble /\ ~UNCHANGED vars
      <3>1. index' # "done"
        BY <1>2, <2>3 DEF Next, GetRobots, GetIndex, IndexFails, Answers, Refuses, Ask, Raise, Proceed,
           Enter, Get, FetchFails, Close, CompleteInv, Types
      <3> QED BY <3>1 DEF CompleteOrNothing
    <2> QED BY <2>1, <2>2, <2>3
  <1> QED BY <1>1, <1>2, CompleteInvariance, PTL DEF Spec

-----------------------------------------------------------------------------
(* Service directions *)

\* A sequence of departure groups, no two of one label.
Groups(services) ==
    /\ IsSeq(services)
    /\ \A k, l \in DOMAIN services : services[k].label = services[l].label => k = l

\* The places of the first positions at which a label is seen are of different ones.
LEMMA FirstsDiffer ==
    ASSUME NEW s, IsSeq(s), NEW S, S \subseteq DOMAIN s,
           \A i \in S : \A j \in S : j < i => s[j].label # s[i].label,
           NEW k \in 1..Cardinality(S), NEW l \in 1..Cardinality(S),
           s[Sorted(S)[k]].label = s[Sorted(S)[l]].label
    PROVE  k = l
  <1>1. ArePositions(S)
    BY SomePositions
  <1>2. PICK i, j : i = Sorted(S)[k] /\ j = Sorted(S)[l]
    OBVIOUS
  <1>3. i \in S /\ j \in S /\ Cardinality(Upto(S, i)) = k /\ Cardinality(Upto(S, j)) = l
    BY <1>1, <1>2, PlacesTaken
  <1>4. ~(i < j) /\ ~(j < i)
    BY <1>2, <1>3
  <1>5. i = j
    BY <1>1, <1>3, <1>4 DEF ArePositions
  <1> QED BY <1>3, <1>5

\* The tabs of a page make such groups,
LEMMA TabGroups ==
    ASSUME NEW tabs, IsSeq(tabs)
    PROVE  Groups(TabDirections(tabs))
  <1> DEFINE First(i) == Useful(tabs[i]) /\ \A j \in 1..(i - 1) : Useful(tabs[j]) => tabs[j].label # tabs[i].label
  <1>1. PICK S : S = {i \in DOMAIN tabs : First(i)}
    OBVIOUS
  <1>2. S \subseteq DOMAIN tabs /\ ArePositions(S)
    BY <1>1, SomePositions
  <1>3. PICK n \in Nat : n = Cardinality(S) /\ DOMAIN Sorted(S) = 1..n
    BY <1>2, SortedPlaces, FS_CardinalityType DEF ArePositions
  <1>4. PICK groups : groups = TabDirections(tabs)
    OBVIOUS
  <1>5. groups = [k \in 1..n |-> [sequence |-> Sorted(S)[k], label |-> tabs[Sorted(S)[k]].label]]
    BY <1>1, <1>3, <1>4, Zenon DEF TabDirections
  <1>6. \A i \in S : \A j \in S : j < i => tabs[j].label # tabs[i].label
    <2>1. ASSUME NEW i \in S, NEW j \in S, j < i
          PROVE  tabs[j].label # tabs[i].label
      <3>1. First(i) /\ Useful(tabs[j])
        BY <1>1
      <3>2. j \in 1..(i - 1)
        <4>1. PICK m \in Nat : DOMAIN tabs = 1..m
          BY DEF IsSeq
        <4>2. i \in 1..m /\ j \in 1..m
          BY <1>2, <4>1
        <4> QED BY <2>1, <4>2
      <3> QED BY <3>1, <3>2
    <2> QED BY <2>1
  <1>7. IsSeq(groups)
    BY <1>5, NumberedIsSeq
  <1>8. ASSUME NEW k \in 1..n, NEW l \in 1..n, groups[k].label = groups[l].label
        PROVE  k = l
    <2>1. tabs[Sorted(S)[k]].label = tabs[Sorted(S)[l]].label
      BY <1>5, <1>8
    <2> QED BY <1>2, <1>3, <1>6, <2>1, FirstsDiffer
  <1> QED BY <1>4, <1>5, <1>7, <1>8 DEF Groups

\* and so do the columns of its tables.
LEMMA ColumnGroups ==
    ASSUME NEW columns, IsSeq(columns)
    PROVE  Groups(ColumnDirections(columns))
  <1> DEFINE First(i) == \A j \in 1..(i - 1) : columns[j].label # columns[i].label
  <1>1. PICK S : S = {i \in DOMAIN columns : First(i)}
    OBVIOUS
  <1>2. S \subseteq DOMAIN columns /\ ArePositions(S)
    BY <1>1, SomePositions
  <1>3. PICK n \in Nat : n = Cardinality(S) /\ DOMAIN Sorted(S) = 1..n
    BY <1>2, SortedPlaces, FS_CardinalityType DEF ArePositions
  <1>4. PICK all : all = [k \in 1..n |-> [sequence |-> k, label |-> columns[Sorted(S)[k]].label]]
    OBVIOUS
  <1>5. PICK T : T = {k \in DOMAIN all : \E i \in DOMAIN columns : columns[i].label = all[k].label /\ columns[i].times # {}}
    OBVIOUS
  <1>6. ColumnDirections(columns) = At(all, T)
    BY <1>1, <1>3, <1>4, <1>5, Zenon DEF ColumnDirections
  <1>7. \A i \in S : \A j \in S : j < i => columns[j].label # columns[i].label
    <2>1. ASSUME NEW i \in S, NEW j \in S, j < i
          PROVE  columns[j].label # columns[i].label
      <3>1. First(i)
        BY <1>1
      <3>2. j \in 1..(i - 1)
        <4>1. PICK m \in Nat : DOMAIN columns = 1..m
          BY DEF IsSeq
        <4>2. i \in 1..m /\ j \in 1..m
          BY <1>2, <4>1
        <4> QED BY <2>1, <4>2
      <3> QED BY <3>1, <3>2
    <2> QED BY <2>1
  <1>8. \A k, l \in 1..n : all[k].label = all[l].label => k = l
    <2>1. ASSUME NEW k \in 1..n, NEW l \in 1..n, all[k].label = all[l].label
          PROVE  k = l
      <3>1. columns[Sorted(S)[k]].label = columns[Sorted(S)[l]].label
        BY <1>4, <2>1
      <3> QED BY <1>2, <1>3, <1>7, <3>1, FirstsDiffer
    <2> QED BY <2>1
  <1>9. IsSeq(all) /\ T \subseteq DOMAIN all /\ DOMAIN all = 1..n
    BY <1>4, <1>5, NumberedIsSeq
  <1>10. ArePositions(T)
    BY <1>9, SomePositions
  <1>11. PICK groups : groups = At(all, T)
    OBVIOUS
  <1>12. /\ IsSeq(groups) /\ DOMAIN groups = 1..Cardinality(T)
         /\ \A k \in 1..Cardinality(T) : Sorted(T)[k] \in T /\ groups[k] = all[Sorted(T)[k]]
    BY <1>10, <1>11, AtPositions
  <1>13. ASSUME NEW k \in 1..Cardinality(T), NEW l \in 1..Cardinality(T), groups[k].label = groups[l].label
         PROVE  k = l
    <2>1. PICK i \in T, j \in T : i = Sorted(T)[k] /\ j = Sorted(T)[l]
      BY <1>12
    <2>2. groups[k] = all[i] /\ groups[l] = all[j]
      BY <1>12, <2>1
    <2>3. i = j
      BY <1>8, <1>9, <1>13, <2>2
    <2>4. Cardinality(Upto(T, i)) = k /\ Cardinality(Upto(T, j)) = l
      BY <1>10, <2>1, PlacesTaken
    <2> QED BY <2>3, <2>4
  <1> QED BY <1>6, <1>11, <1>12, <1>13 DEF Groups

\* So no two service directions of a page have one label.
LEMMA ServiceGroups ==
    ASSUME NEW page, PageAssumption(page)
    PROVE  Groups(ServiceDirections(page))
  BY TabGroups, ColumnGroups DEF PageAssumption, ServiceDirections

-----------------------------------------------------------------------------
(* Matches and names *)

-----------------------------------------------------------------------------
(* Names and links *)

\* A direction that is found has the kind that is sought.
LEMMA FoundKind ==
    ASSUME NEW directions, NEW kind, Find(directions, kind) # None
    PROVE  /\ Len(directions) = 2 /\ Find(directions, kind) \in 1..2
           /\ directions[Find(directions, kind)].kind = kind
  <1>1. Len(directions) = 2 /\ \E i \in 1..2 : directions[i].kind = kind
    BY DEF Find
  <1>2. Find(directions, kind) = CHOOSE i \in 1..2 : directions[i].kind = kind
    BY <1>1 DEF Find
  <1> QED BY <1>1, <1>2

\* So the way there and the way back are two directions.
LEMMA TwoWays ==
    ASSUME NEW directions, Find(directions, "ida") # None, Find(directions, "volta") # None
    PROVE  /\ Len(directions) = 2
           /\ \E i \in 1..2 : Find(directions, "ida") = i /\ Find(directions, "volta") = 3 - i
  <1>1. PICK i, j : i = Find(directions, "ida") /\ j = Find(directions, "volta")
    OBVIOUS
  <1>2. /\ Len(directions) = 2 /\ i \in 1..2 /\ j \in 1..2
        /\ directions[i].kind = "ida" /\ directions[j].kind = "volta"
    BY <1>1, FoundKind
  <1>3. i # j
    BY <1>2
  <1>4. j = 3 - i
    BY <1>2, <1>3
  <1> QED BY <1>1, <1>2, <1>4

\* What the public sees of the matches is nothing, or both groups on two directions.
NothingPublic(matches) == \A k \in DOMAIN matches : matches[k].confidence \notin Public

BothPublic(services, directions, matches) ==
    /\ Len(services) = 2 /\ Len(directions) = 2 /\ DOMAIN matches = 1..2
    /\ \E i \in 1..2 : matches[1].route = i /\ matches[2].route = 3 - i
    /\ \A k \in 1..2 : matches[k].confidence = "medium"

\* One of the two it is, whatever the labels are.
LEMMA PublicMatches ==
    ASSUME NEW services, IsSeq(services), NEW directions
    PROVE  LET matches == Matches(services, directions)
           IN  /\ DOMAIN matches = DOMAIN services
               /\ NothingPublic(matches) \/ BothPublic(services, directions, matches)
  <1> DEFINE ida      == Find(directions, "ida")
             volta    == Find(directions, "volta")
             first    == services[1].label
             second   == services[2].label
             Back(s)  == IF IsTerminal(s.label) THEN volta ELSE ida
             confidence == IF IsTerminal(first) /\ Norm[first] # Norm[second] THEN "medium" ELSE "low"
             Clear == ~(ida = None \/ volta = None \/ Len(services) # 2)
             Mixed == IsTerminal(first) # IsTerminal(second)
  <1>1. PICK matches : matches = Matches(services, directions)
    OBVIOUS
  <1>2. matches = [i \in DOMAIN services |->
            IF ~Clear THEN Match(services[i], None, "none")
            ELSE IF Mixed THEN Match(services[i], Back(services[i]), "medium")
            ELSE Match(services[i], IF i = 1 THEN ida ELSE volta, confidence)]
    BY <1>1, Zenon DEF Matches
  <1>3. CASE ~Clear
    <2>1. matches = [i \in DOMAIN services |-> Match(services[i], None, "none")]
      BY <1>2, <1>3
    <2>2. NothingPublic(matches)
      BY <2>1 DEF NothingPublic, Match, Public
    <2> QED BY <1>1, <2>1, <2>2
  <1>4. CASE Clear /\ Mixed
    <2>1. matches = [i \in DOMAIN services |-> Match(services[i], Back(services[i]), "medium")]
      BY <1>2, <1>4
    <2>2. PICK i \in 1..2 : Len(directions) = 2 /\ ida = i /\ volta = 3 - i
      BY <1>4, TwoWays
    <2>3. DOMAIN services = 1..2 /\ Len(services) = 2
      BY <1>4 DEF IsSeq
    <2>4. matches[1].route = Back(services[1]) /\ matches[2].route = Back(services[2])
      BY <2>1, <2>3 DEF Match
    <2>5. \/ Back(services[1]) = ida /\ Back(services[2]) = volta
          \/ Back(services[1]) = volta /\ Back(services[2]) = ida
      <3>1. IsTerminal(first) \in BOOLEAN /\ IsTerminal(second) \in BOOLEAN
        BY DEF IsTerminal
      <3>2. CASE IsTerminal(first) /\ ~IsTerminal(second)
        BY <3>2
      <3>3. CASE ~IsTerminal(first) /\ IsTerminal(second)
        BY <3>3
      <3>4. IsTerminal(first) # IsTerminal(second)
        BY <1>4
      <3>5. ~(IsTerminal(first) /\ IsTerminal(second)) /\ ~(~IsTerminal(first) /\ ~IsTerminal(second))
        BY <3>1, <3>4
      <3> QED BY <3>2, <3>3, <3>5
    <2>6. \E j \in 1..2 : matches[1].route = j /\ matches[2].route = 3 - j
      BY <2>2, <2>4, <2>5
    <2>7. \A k \in 1..2 : matches[k].confidence = "medium"
      BY <2>1, <2>3 DEF Match
    <2> QED BY <1>1, <2>1, <2>2, <2>3, <2>6, <2>7 DEF BothPublic
  <1>5. CASE Clear /\ ~Mixed
    <2>1. matches = [i \in DOMAIN services |-> Match(services[i], IF i = 1 THEN ida ELSE volta, confidence)]
      BY <1>2, <1>5
    <2>2. PICK i \in 1..2 : Len(directions) = 2 /\ ida = i /\ volta = 3 - i
      BY <1>5, TwoWays
    <2>3. DOMAIN services = 1..2 /\ Len(services) = 2
      BY <1>5 DEF IsSeq
    <2>4. matches[1].route = i /\ matches[2].route = 3 - i
      BY <2>1, <2>2, <2>3 DEF Match
    <2>5. \A k \in 1..2 : matches[k].confidence = confidence
      BY <2>1, <2>3 DEF Match
    <2>6. DOMAIN matches = 1..2
      BY <2>1, <2>3
    <2>7. CASE confidence = "medium"
      BY <1>1, <2>2, <2>3, <2>4, <2>5, <2>6, <2>7 DEF BothPublic
    <2>8. CASE confidence # "medium"
      <3>1. confidence = "low"
        BY <2>8
      <3>2. NothingPublic(matches)
        BY <2>5, <2>6, <3>1 DEF NothingPublic, Public
      <3> QED BY <1>1, <2>3, <2>6, <3>2
    <2> QED BY <2>7, <2>8
  <1> HIDE DEF Clear, Mixed
  <1> QED BY <1>3, <1>4, <1>5

\* The direction that group k is matched to is called by the group's label, and by
\* that towards the other group's.
NamedFrom(services, matches, names, k) ==
    Head(names[matches[k].route]) = services[k].label
NamedFromTo(services, matches, names, k) ==
    names[matches[k].route] = <<services[k].label, services[3 - k].label>>

\* Then a direction is called by the label that leads its way, and by where the
\* other one starts.
LEMMA NamesOfBoth ==
    ASSUME NEW services, Groups(services), NEW directions, IsSeq(directions), NEW matches,
           BothPublic(services, directions, matches),
           NEW names, names = PassengerNames(services, directions, matches),
           NEW k \in 1..2, services[k].label # None
    PROVE  /\ NamedFrom(services, matches, names, k)
           /\ services[3 - k].label # None => NamedFromTo(services, matches, names, k)
  <1>1. DOMAIN services = 1..2 /\ DOMAIN directions = 1..2 /\ DOMAIN matches = 1..2
    BY DEF Groups, BothPublic, IsSeq
  <1>2. \A l \in 1..2 : matches[l].route \in 1..2 /\ matches[3 - l].route = 3 - matches[l].route
    <2>1. PICK i \in 1..2 : matches[1].route = i /\ matches[2].route = 3 - i
      BY DEF BothPublic
    <2> QED BY <2>1
  <1>3. ASSUME NEW l \in 1..2
        PROVE  Origin(services, matches, matches[l].route) = services[l].label
    <2> DEFINE seen == {m \in DOMAIN services : matches[m].route = matches[l].route /\ matches[m].confidence \in Public}
    <2>1. Origin(services, matches, matches[l].route)
             = IF seen = {} THEN None ELSE services[CHOOSE m \in seen : \A o \in seen : m <= o].label
      BY Zenon DEF Origin
    <2>2. \A m \in 1..2 : matches[m].route = matches[l].route <=> m = l
      BY <1>2
    <2>3. matches[l].confidence \in Public
      BY DEF BothPublic, Public
    <2>4. seen = {l}
      BY <1>1, <2>2, <2>3
    <2> HIDE DEF seen
    <2>5. (CHOOSE m \in seen : \A o \in seen : m <= o) = l
      BY <2>4
    <2> QED BY <2>1, <2>4, <2>5
  <1>4. PICK way \in 1..2 : way = matches[k].route /\ 3 - way = matches[3 - k].route
    BY <1>2
  <1> DEFINE orig == [i \in DOMAIN directions |-> Origin(services, matches, i)]
  <1>5. PICK origins : origins = orig
    OBVIOUS
  <1>6. 3 - k \in 1..2 /\ 3 - way \in 1..2
    OBVIOUS
  <1>7. origins[way] = services[k].label /\ origins[3 - way] = services[3 - k].label
    BY <1>1, <1>3, <1>4, <1>5, <1>6
  <1>8. origins[way] # origins[3 - way]
    <2>1. k # 3 - k
      OBVIOUS
    <2> QED BY <1>1, <1>6, <1>7, <2>1 DEF Groups
  <1>9. Len(origins) = 2
    BY <1>1, <1>5, NumberedIsSeq
  <1>10. {way, 3 - way} = {1, 2}
    OBVIOUS
  <1> DEFINE pairOf(o) == Len(o) = 2 /\ None \notin {o[1], o[2]} /\ o[1] # o[2]
             nameOf(o) == IF pairOf(o) THEN <<o[way], o[3 - way]>>
                          ELSE IF o[way] # None THEN <<o[way]>>
                          ELSE IF directions[way].kind # None THEN <<"code", directions[way].kind>>
                          ELSE <<"map", directions[way].name>>
             pair == pairOf(origins)
  <1>12. names[way] = nameOf(origins)
    <2>1. names[way] = nameOf(orig)
      BY <1>1 DEF PassengerNames
    <2> QED BY <1>5, <2>1
  <1>13. pair <=> services[3 - k].label # None
    BY <1>7, <1>8, <1>9, <1>10
  <1>14. origins[way] # None
    BY <1>7
  <1>15. names[way] = IF pair THEN <<services[k].label, services[3 - k].label>> ELSE <<services[k].label>>
    <2>1. CASE pair
      <3>1. names[way] = <<origins[way], origins[3 - way]>>
        BY <1>12, <2>1
      <3> QED BY <1>7, <2>1, <3>1
    <2>2. CASE ~pair
      <3>1. names[way] = <<origins[way]>>
        BY <1>12, <1>14, <2>2
      <3> QED BY <1>7, <2>2, <3>1
    <2> QED BY <2>1, <2>2
  <1> HIDE DEF pair
  <1>16. Head(names[way]) = services[k].label
    BY <1>15
  <1> QED BY <1>4, <1>13, <1>15, <1>16 DEF NamedFrom, NamedFromTo

\* A map's directions are numbered.
LEMMA NumberedDirections ==
    ASSUME NEW placemarks, IsSeq(placemarks)
    PROVE  /\ IsSeq(MapDirections(placemarks))
           /\ ArePositions(Placed(placemarks))
           /\ DOMAIN MapDirections(placemarks) = 1..Cardinality(Placed(placemarks))
           /\ Len(MapDirections(placemarks)) = Cardinality(Placed(placemarks))
  <1>1. ArePositions(Placed(placemarks))
    BY SomePositions DEF Placed
  <1>2. PICK placed : placed = At(placemarks, Placed(placemarks))
    OBVIOUS
  <1>3. /\ Cardinality(Placed(placemarks)) \in Nat
        /\ DOMAIN placed = 1..Cardinality(Placed(placemarks))
    BY <1>1, <1>2, AtPositions
  <1>4. MapDirections(placemarks)
          = [i \in 1..Cardinality(Placed(placemarks)) |->
                [name |-> placed[i].name, kind |-> Kind(placed, i), edges |-> placed[i].edges]]
    BY <1>2, <1>3, Zenon DEF MapDirections
  <1> QED BY <1>1, <1>3, <1>4, NumberedIsSeq

\* What LabelsNameDirections says of one row.
LabelsName(row) ==
    LET linked == {s \in ToSet(row.services) : s.link # None}
        public == {s \in linked : s.confidence \in Public}
    IN  /\ \A s \in linked : s.link \in DOMAIN row.directions
        /\ \A s \in public : s.label # None => Head(row.directions[s.link].name) = s.label
        /\ public # {} => /\ public = ToSet(row.services)
                          /\ {s.link : s \in public} = {1, 2}
        /\ \A s, r \in public : s # r /\ None \notin {s.label, r.label} =>
              row.directions[s.link].name = <<s.label, r.label>>

\* It is so for whatever page and map.
LEMMA RowLabels ==
    ASSUME NEW page, PageAssumption(page), NEW placemarks, IsSeq(placemarks)
    PROVE  LabelsName(Row(RouteSnapshot(page, placemarks)))
  <1>1. PICK services, directions :
           services = ServiceDirections(page) /\ directions = MapDirections(placemarks)
    OBVIOUS
  <1>2. PICK matches : matches = Matches(services, directions)
    OBVIOUS
  <1>3. PICK names : names = PassengerNames(services, directions, matches)
    OBVIOUS
  <1>4. PICK row : row = Row(RouteSnapshot(page, placemarks))
    OBVIOUS
  <1>5. RouteSnapshot(page, placemarks)
           = [code |-> page.code, services |-> services, directions |-> directions, matches |-> matches]
    BY <1>1, <1>2, Zenon DEF RouteSnapshot
  <1>6. /\ row.directions = [i \in DOMAIN directions |->
               [name |-> names[i], kind |-> directions[i].kind, segments |-> Segments(directions[i].edges)]]
        /\ row.services = [k \in DOMAIN matches |->
               [label |-> services[k].label, sequence |-> matches[k].service,
                link |-> Link(matches[k], directions), confidence |-> matches[k].confidence]]
    BY <1>3, <1>4, <1>5 DEF Row
  <1>7. /\ Groups(services) /\ IsSeq(services) /\ IsSeq(directions)
        /\ DOMAIN matches = DOMAIN services
        /\ NothingPublic(matches) \/ BothPublic(services, directions, matches)
    BY <1>1, <1>2, ServiceGroups, NumberedDirections, PublicMatches DEF Groups
  <1>8. PICK rows : rows = row.services
    OBVIOUS
  <1>9. /\ DOMAIN rows = DOMAIN matches
        /\ \A k \in DOMAIN matches : /\ rows[k].label = services[k].label
                                     /\ rows[k].link = Link(matches[k], directions)
                                     /\ rows[k].confidence = matches[k].confidence
    BY <1>6, <1>8
  <1>10. /\ DOMAIN row.directions = DOMAIN directions
         /\ \A i \in DOMAIN directions : row.directions[i].name = names[i]
    BY <1>6
  <1> DEFINE linked == {s \in ToSet(rows) : s.link # None}
             public == {s \in linked : s.confidence \in Public}
  <1>11. \A s \in ToSet(rows) : \E k \in DOMAIN matches : s = rows[k]
    BY <1>9 DEF ToSet
  <1>12. \A s \in linked : s.link \in DOMAIN row.directions
    BY <1>9, <1>10, <1>11 DEF Link
  <1>13. CASE NothingPublic(matches)
    <2>1. public = {}
      BY <1>9, <1>11, <1>13 DEF NothingPublic
    <2> HIDE DEF public
    <2> QED BY <1>4, <1>8, <1>12, <2>1 DEF LabelsName, public
  <1>14. CASE BothPublic(services, directions, matches)
    <2>1. DOMAIN matches = 1..2 /\ DOMAIN directions = 1..2
      BY <1>7, <1>14 DEF BothPublic, IsSeq
    <2>2. \A k \in 1..2 : matches[k].route \in 1..2 /\ matches[k].confidence = "medium"
      <3>1. PICK i \in 1..2 : matches[1].route = i /\ matches[2].route = 3 - i
        BY <1>14 DEF BothPublic
      <3> QED BY <1>14, <3>1 DEF BothPublic
    <2>3. \A k \in 1..2 : /\ rows[k].link = matches[k].route /\ rows[k].link # None
                          /\ rows[k].confidence \in Public
      BY <1>9, <2>1, <2>2, ExportAssumption DEF Link, Public
    <2>4. \A k \in 1..2 : rows[k] \in ToSet(rows)
      BY <1>9, <2>1 DEF ToSet
    <2>5. public = ToSet(rows)
      BY <1>11, <2>1, <2>3
    <2>6. {s.link : s \in public} = {1, 2}
      <3>1. PICK i \in 1..2 : matches[1].route = i /\ matches[2].route = 3 - i
        BY <1>14 DEF BothPublic
      <3>2. public = {rows[1], rows[2]}
        BY <1>11, <2>1, <2>4, <2>5
      <3>3. {s.link : s \in public} = {rows[1].link, rows[2].link}
        BY <3>2
      <3> QED BY <2>3, <3>1, <3>3
    <2>8. Groups(services) /\ IsSeq(directions)
      BY <1>7
    <2>9. ASSUME NEW k \in 1..2, services[k].label # None
          PROVE  /\ NamedFrom(services, matches, names, k)
                 /\ services[3 - k].label # None => NamedFromTo(services, matches, names, k)
      BY <1>3, <1>14, <2>8, <2>9, NamesOfBoth, Zenon
    <2>7. ASSUME NEW s \in public, s.label # None
          PROVE  Head(row.directions[s.link].name) = s.label
      <3>1. PICK k \in 1..2 : s = rows[k]
        BY <1>11, <2>1
      <3>2. services[k].label # None
        BY <1>9, <2>1, <2>7, <3>1
      <3> QED BY <1>9, <1>10, <2>1, <2>2, <2>3, <2>9, <3>1, <3>2 DEF NamedFrom
    <2>10. ASSUME NEW s \in public, NEW r \in public, s # r, None \notin {s.label, r.label}
          PROVE  row.directions[s.link].name = <<s.label, r.label>>
      <3>1. PICK k \in 1..2 : s = rows[k]
        BY <1>11, <2>1
      <3>2. r = rows[3 - k] /\ 3 - k \in 1..2
        BY <1>11, <2>1, <2>10, <3>1
      <3>3. services[k].label # None /\ services[3 - k].label # None
        BY <1>9, <2>1, <2>10, <3>1, <3>2
      <3> QED BY <1>9, <1>10, <2>1, <2>2, <2>3, <2>9, <3>1, <3>2, <3>3 DEF NamedFromTo
    <2> HIDE DEF public
    <2> QED BY <1>4, <1>8, <1>12, <2>5, <2>6, <2>7, <2>10 DEF LabelsName, public
  <1> QED BY <1>7, <1>13, <1>14

-----------------------------------------------------------------------------
(* The order of the map *)

-----------------------------------------------------------------------------
(* The order of a map's directions *)

\* Two positions are in their order.
LEMMA TwoInOrder ==
    ASSUME NEW S, ArePositions(S), Cardinality(S) = 2
    PROVE  S = {Sorted(S)[1], Sorted(S)[2]} /\ Sorted(S)[1] < Sorted(S)[2]
  <1>1. PICK a \in S, b \in S : a = Sorted(S)[1] /\ b = Sorted(S)[2]
    BY PlacesTaken
  <1>2. Cardinality(Upto(S, a)) = 1 /\ Cardinality(Upto(S, b)) = 2
    BY <1>1, PlacesTaken
  <1>3. \A i \in S : Cardinality(Upto(S, i)) \in 1..2 /\ Sorted(S)[Cardinality(Upto(S, i))] = i
    BY SortedPlaces
  <1>4. S = {a, b}
    BY <1>1, <1>3
  <1>5. ~(b < a)
    <2>1. SUFFICES ASSUME b < a PROVE FALSE
      OBVIOUS
    <2>2. Cardinality(Before(S, b)) < Cardinality(Before(S, a))
      BY <2>1, PlacesGrow
    <2>3. /\ Cardinality(Upto(S, a)) = Cardinality(Before(S, a)) + 1
          /\ Cardinality(Upto(S, b)) = Cardinality(Before(S, b)) + 1
          /\ Cardinality(Before(S, a)) \in Nat /\ Cardinality(Before(S, b)) \in Nat
      BY PlacesOfPositions
    <2> QED BY <1>2, <2>2, <2>3
  <1>6. a # b
    BY <1>2
  <1> QED BY <1>1, <1>4, <1>5, <1>6 DEF ArePositions

\* A map lists its placed placemarks, of which there may be two, from either end.
LEMMA ReversedPlaced ==
    ASSUME NEW placemarks, IsSeq(placemarks)
    PROVE  LET reversed == Reverse(placemarks)
               placed   == At(placemarks, Placed(placemarks))
               other    == At(reversed, Placed(reversed))
           IN  /\ IsSeq(reversed)
               /\ Cardinality(Placed(reversed)) = Cardinality(Placed(placemarks))
               /\ Cardinality(Placed(placemarks)) = 2 => other[1] = placed[2] /\ other[2] = placed[1]
  <1>1. PICK n \in Nat : n = Len(placemarks) /\ DOMAIN placemarks = 1..n
    BY DEF IsSeq
  <1>2. PICK reversed : reversed = Reverse(placemarks)
    OBVIOUS
  <1>3. reversed = [i \in 1..n |-> placemarks[n + 1 - i]]
    <2>1. \A i \in 1..n : n - i + 1 = n + 1 - i
      OBVIOUS
    <2> QED BY <1>1, <1>2, <2>1 DEF Reverse
  <1>4. IsSeq(reversed)
    BY <1>3, NumberedIsSeq
  <1>5. PICK P, R : P = Placed(placemarks) /\ R = Placed(reversed)
    OBVIOUS
  <1>6. ArePositions(P) /\ ArePositions(R)
    BY <1>4, <1>5, SomePositions DEF Placed
  <1>7. P \subseteq 1..n /\ R \subseteq 1..n /\ \A i \in 1..n : i \in R <=> n + 1 - i \in P
    <2>1. \A i \in 1..n : n + 1 - i \in 1..n
      OBVIOUS
    <2> QED BY <1>1, <1>3, <1>5, <2>1 DEF Placed
  <1>8. Cardinality(R) = Cardinality(P)
    <2> DEFINE f == [i \in P |-> n + 1 - i]
    <2>1. f \in [P -> R]
      <3>1. ASSUME NEW i \in P PROVE n + 1 - i \in R
        <4>1. n + 1 - i \in 1..n /\ n + 1 - (n + 1 - i) = i
          BY <1>7
        <4> QED BY <1>7, <4>1
      <3> QED BY <3>1
    <2>2. \A i, j \in P : f[i] = f[j] => i = j
      BY <1>7
    <2>3. \A j \in R : \E i \in P : f[i] = j
      <3>1. ASSUME NEW j \in R PROVE \E i \in P : f[i] = j
        <4>1. n + 1 - j \in P /\ n + 1 - (n + 1 - j) = j
          BY <1>7
        <4> QED BY <4>1
      <3> QED BY <3>1
    <2> HIDE DEF f
    <2>4. f \in Bijection(P, R)
      BY <2>1, <2>2, <2>3, Zenon DEF Bijection, Injection, Surjection, IsInjective
    <2>5. ExistsBijection(P, R)
      BY <2>4, Zenon DEF ExistsBijection
    <2> QED BY <1>6, <2>5, FS_Bijection DEF ArePositions
  <1>9. ASSUME Cardinality(P) = 2
        PROVE  At(reversed, R)[1] = At(placemarks, P)[2] /\ At(reversed, R)[2] = At(placemarks, P)[1]
    <2>1. PICK a, b : a = Sorted(P)[1] /\ b = Sorted(P)[2]
      OBVIOUS
    <2>2. PICK c, d : c = Sorted(R)[1] /\ d = Sorted(R)[2]
      OBVIOUS
    <2>3. P = {a, b} /\ a < b /\ R = {c, d} /\ c < d
      BY <1>6, <1>8, <1>9, <2>1, <2>2, TwoInOrder
    <2>4. a \in 1..n /\ b \in 1..n /\ c \in 1..n /\ d \in 1..n
      BY <1>7, <2>3
    <2>5. n + 1 - c \in {a, b} /\ n + 1 - d \in {a, b}
      BY <1>7, <2>3, <2>4
    <2>6. c = n + 1 - b /\ d = n + 1 - a
      BY <2>3, <2>4, <2>5
    <2>7. /\ At(placemarks, P)[1] = placemarks[a] /\ At(placemarks, P)[2] = placemarks[b]
          /\ At(reversed, R)[1] = reversed[c] /\ At(reversed, R)[2] = reversed[d]
      BY <1>6, <1>8, <1>9, <2>1, <2>2, AtPositions
    <2>8. n + 1 - c = b /\ n + 1 - d = a
      BY <2>4, <2>6
    <2>9. reversed[c] = placemarks[b] /\ reversed[d] = placemarks[a]
      BY <1>3, <2>4, <2>8
    <2> QED BY <2>7, <2>9
  <1> QED BY <1>2, <1>4, <1>5, <1>8, <1>9

\* One name says ida and the other volta, or neither of the two has a kind.
LEMMA KindsOfTwo ==
    ASSUME NEW placed, IsSeq(placed), Len(placed) = 2
    PROVE  \/ /\ Words[placed[1].name] = {"ida"} /\ Words[placed[2].name] = {"volta"}
              /\ Kind(placed, 1) = "ida" /\ Kind(placed, 2) = "volta"
           \/ /\ Words[placed[1].name] = {"volta"} /\ Words[placed[2].name] = {"ida"}
              /\ Kind(placed, 1) = "volta" /\ Kind(placed, 2) = "ida"
           \/ /\ {Words[placed[1].name], Words[placed[2].name]} # {{"ida"}, {"volta"}}
              /\ Kind(placed, 1) = None /\ Kind(placed, 2) = None
  <1>1. DOMAIN placed = 1..2
    BY DEF IsSeq
  <1>2. PICK one, two : one = Words[placed[1].name] /\ two = Words[placed[2].name]
    OBVIOUS
  <1> DEFINE words == [k \in DOMAIN placed |-> Words[placed[k].name]]
  <1>3. words[1] = one /\ words[2] = two
    BY <1>1, <1>2
  <1>4. \A i \in 1..2 : Kind(placed, i) = IF {one, two} = {{"ida"}, {"volta"}}
                                         THEN CHOOSE word \in words[i] : TRUE ELSE None
    <2> HIDE DEF words
    <2>1. \A i \in 1..2 : Kind(placed, i) = IF Len(placed) = 2 /\ {words[1], words[2]} = {{"ida"}, {"volta"}}
                                         THEN CHOOSE word \in words[i] : TRUE ELSE None
      BY Zenon DEF Kind, words
    <2> QED BY <1>3, <2>1
  <1> HIDE DEF words
  <1>5. CASE {one, two} # {{"ida"}, {"volta"}}
    BY <1>2, <1>4, <1>5
  <1>6. CASE {one, two} = {{"ida"}, {"volta"}}
    <2>1. {"ida"} # {"volta"}
      OBVIOUS
    <2>2. \/ one = {"ida"} /\ two = {"volta"}
          \/ one = {"volta"} /\ two = {"ida"}
      <3>1. PICK a, b : a = {"ida"} /\ b = {"volta"}
        OBVIOUS
      <3>2. a # b /\ {one, two} = {a, b}
        BY <1>6, <2>1, <3>1
      <3>3. one \in {a, b} /\ two \in {a, b} /\ a \in {one, two} /\ b \in {one, two}
        BY <3>2
      <3>4. (one = a /\ two = b) \/ (one = b /\ two = a)
        BY <3>2, <3>3
      <3> QED BY <3>1, <3>4, Zenon
    <2>3. (CHOOSE word \in {"ida"} : TRUE) = "ida" /\ (CHOOSE word \in {"volta"} : TRUE) = "volta"
      OBVIOUS
    <2>4. Kind(placed, 1) = (CHOOSE word \in one : TRUE) /\ Kind(placed, 2) = (CHOOSE word \in two : TRUE)
      BY <1>3, <1>4, <1>6
    <2>5. CASE one = {"ida"} /\ two = {"volta"}
      BY <1>2, <2>3, <2>4, <2>5
    <2>6. CASE one = {"volta"} /\ two = {"ida"}
      BY <1>2, <2>3, <2>4, <2>6
    <2> QED BY <2>2, <2>5, <2>6
  <1> QED BY <1>5, <1>6

\* A map has a way there and a way back, or no direction of a known kind.
Paired(directions) ==
    Len(directions) = 2 /\ \E i \in 1..2 : directions[i].kind = "ida" /\ directions[3 - i].kind = "volta"
Unpaired(directions) == Len(directions) # 2 \/ \A i \in 1..2 : directions[i].kind = None

\* It is the same whichever way it lists them.
LEMMA ReversedKinds ==
    ASSUME NEW placemarks, IsSeq(placemarks)
    PROVE  LET directions == MapDirections(placemarks)
               reversed   == MapDirections(Reverse(placemarks))
           IN  \/ Paired(directions) /\ Paired(reversed)
               \/ Unpaired(directions) /\ Unpaired(reversed)
  <1>1. PICK other : other = Reverse(placemarks)
    OBVIOUS
  <1>2. PICK directions, reversed :
           directions = MapDirections(placemarks) /\ reversed = MapDirections(other)
    OBVIOUS
  <1>3. PICK P, R : P = At(placemarks, Placed(placemarks)) /\ R = At(other, Placed(other))
    OBVIOUS
  <1>4. /\ IsSeq(other) /\ Cardinality(Placed(other)) = Cardinality(Placed(placemarks))
        /\ Cardinality(Placed(placemarks)) = 2 => R[1] = P[2] /\ R[2] = P[1]
    BY <1>1, <1>3, ReversedPlaced
  <1>5. ArePositions(Placed(placemarks)) /\ ArePositions(Placed(other))
    BY <1>4, NumberedDirections
  <1>6. Len(directions) = Cardinality(Placed(placemarks)) /\ Len(reversed) = Cardinality(Placed(other))
    BY <1>2, <1>4, NumberedDirections
  <1>7. CASE Cardinality(Placed(placemarks)) # 2
    BY <1>1, <1>2, <1>4, <1>6, <1>7 DEF Unpaired
  <1>8. CASE Cardinality(Placed(placemarks)) = 2
    <2>1. IsSeq(P) /\ Len(P) = 2 /\ DOMAIN P = 1..2 /\ IsSeq(R) /\ Len(R) = 2 /\ DOMAIN R = 1..2
      <3>1. /\ IsSeq(P) /\ Len(P) = Cardinality(Placed(placemarks))
            /\ DOMAIN P = 1..Cardinality(Placed(placemarks))
        BY <1>3, <1>5, AtPositions
      <3>2. /\ IsSeq(R) /\ Len(R) = Cardinality(Placed(other))
            /\ DOMAIN R = 1..Cardinality(Placed(other))
        BY <1>3, <1>5, AtPositions
      <3> QED BY <1>4, <1>8, <3>1, <3>2
    <2>2. directions = [i \in DOMAIN P |-> [name |-> P[i].name, kind |-> Kind(P, i), edges |-> P[i].edges]]
      BY <1>2, <1>3, Zenon DEF MapDirections
    <2>3. reversed = [i \in DOMAIN R |-> [name |-> R[i].name, kind |-> Kind(R, i), edges |-> R[i].edges]]
      BY <1>2, <1>3, Zenon DEF MapDirections
    <2>4. /\ directions[1].kind = Kind(P, 1) /\ directions[2].kind = Kind(P, 2)
          /\ reversed[1].kind = Kind(R, 1) /\ reversed[2].kind = Kind(R, 2)
      BY <2>1, <2>2, <2>3
    <2>5. PICK one, two : one = Words[P[1].name] /\ two = Words[P[2].name]
      OBVIOUS
    <2>6. two = Words[R[1].name] /\ one = Words[R[2].name]
      BY <1>4, <1>8, <2>5
    <2>7. \/ one = {"ida"} /\ two = {"volta"} /\ Kind(P, 1) = "ida" /\ Kind(P, 2) = "volta"
          \/ one = {"volta"} /\ two = {"ida"} /\ Kind(P, 1) = "volta" /\ Kind(P, 2) = "ida"
          \/ {one, two} # {{"ida"}, {"volta"}} /\ Kind(P, 1) = None /\ Kind(P, 2) = None
      BY <2>1, <2>5, KindsOfTwo
    <2>8. \/ two = {"ida"} /\ one = {"volta"} /\ Kind(R, 1) = "ida" /\ Kind(R, 2) = "volta"
          \/ two = {"volta"} /\ one = {"ida"} /\ Kind(R, 1) = "volta" /\ Kind(R, 2) = "ida"
          \/ {two, one} # {{"ida"}, {"volta"}} /\ Kind(R, 1) = None /\ Kind(R, 2) = None
      BY <2>1, <2>6, KindsOfTwo
    <2>9. {one, two} = {two, one}
      OBVIOUS
    <2>10. one = {"ida"} /\ two = {"volta"} => {one, two} = {{"ida"}, {"volta"}}
      OBVIOUS
    <2>11. one = {"volta"} /\ two = {"ida"} => {one, two} = {{"ida"}, {"volta"}}
      BY <2>9
    <2>12. Len(directions) = 2 /\ Len(reversed) = 2
      BY <1>4, <1>6, <1>8
    <2>13. CASE {one, two} # {{"ida"}, {"volta"}}
      <3>1. Kind(P, 1) = None /\ Kind(P, 2) = None /\ Kind(R, 1) = None /\ Kind(R, 2) = None
        BY <2>7, <2>8, <2>9, <2>10, <2>11, <2>13, Zenon
      <3> QED BY <1>1, <1>2, <2>4, <3>1 DEF Unpaired
    <2>14. CASE {one, two} = {{"ida"}, {"volta"}}
      <3>1. /\ \/ Kind(P, 1) = "ida" /\ Kind(P, 2) = "volta"
               \/ Kind(P, 1) = "volta" /\ Kind(P, 2) = "ida"
            /\ \/ Kind(R, 1) = "ida" /\ Kind(R, 2) = "volta"
               \/ Kind(R, 1) = "volta" /\ Kind(R, 2) = "ida"
        BY <2>7, <2>8, <2>9, <2>14, Zenon
      <3> QED BY <1>1, <1>2, <2>4, <2>12, <3>1 DEF Paired
    <2> QED BY <2>13, <2>14
  <1> QED BY <1>7, <1>8

\* What is found in a pair, and in none.
LEMMA FoundInPair ==
    ASSUME NEW directions, Paired(directions)
    PROVE  \E i \in 1..2 : /\ directions[i].kind = "ida" /\ directions[3 - i].kind = "volta"
                           /\ Find(directions, "ida") = i /\ Find(directions, "volta") = 3 - i
  <1>1. PICK i \in 1..2 : directions[i].kind = "ida" /\ directions[3 - i].kind = "volta"
    BY DEF Paired
  <1>2. 3 - i \in 1..2 /\ \A j \in 1..2 : j = i \/ j = 3 - i
    BY <1>1
  <1>3. /\ \A j \in 1..2 : directions[j].kind = "ida" <=> j = i
        /\ \A j \in 1..2 : directions[j].kind = "volta" <=> j = 3 - i
    BY <1>1, <1>2
  <1>4. Find(directions, "ida") = CHOOSE j \in 1..2 : directions[j].kind = "ida"
    BY <1>1 DEF Find, Paired
  <1>5. Find(directions, "volta") = CHOOSE j \in 1..2 : directions[j].kind = "volta"
    BY <1>1, <1>2 DEF Find, Paired
  <1>6. Find(directions, "ida") = i
    BY <1>1, <1>3, <1>4
  <1>7. Find(directions, "volta") = 3 - i
    BY <1>2, <1>3, <1>5
  <1> QED BY <1>1, <1>6, <1>7

\* There is none to find in a map of no such kinds.
LEMMA FoundInNone ==
    ASSUME NEW directions, Unpaired(directions)
    PROVE  Find(directions, "ida") = None
  BY ExportAssumption DEF Unpaired, Find

\* Which way a departure group goes, and how sure that is, follow from the labels.
Mixed(services) == IsTerminal(services[1].label) # IsTerminal(services[2].label)

WayOf(services, k) == IF Mixed(services) THEN IF IsTerminal(services[k].label) THEN "volta" ELSE "ida"
                      ELSE IF k = 1 THEN "ida" ELSE "volta"

Sureness(services) ==
    IF Mixed(services) \/ (IsTerminal(services[1].label) /\ Norm[services[1].label] # Norm[services[2].label])
    THEN "medium" ELSE "low"

\* They do in a map with a way there and a way back, however it lists them.
LEMMA WaysOfPair ==
    ASSUME NEW services, IsSeq(services), Len(services) = 2, NEW directions, Paired(directions),
           NEW k \in 1..2
    PROVE  LET match == Matches(services, directions)[k]
           IN  /\ match.route \in 1..2 /\ directions[match.route].kind = WayOf(services, k)
               /\ match.confidence = Sureness(services)
  <1> DEFINE ida      == Find(directions, "ida")
             volta    == Find(directions, "volta")
             first    == services[1].label
             second   == services[2].label
             confidence == IF IsTerminal(first) /\ Norm[first] # Norm[second] THEN "medium" ELSE "low"
  <1>1. PICK i \in 1..2 : /\ directions[i].kind = "ida" /\ directions[3 - i].kind = "volta"
                          /\ ida = i /\ volta = 3 - i
    BY FoundInPair
  <1>2. ida # None /\ volta # None
    BY <1>1, ExportAssumption
  <1>3. DOMAIN services = 1..2
    BY DEF IsSeq
  <1>4. PICK match : match = Matches(services, directions)[k]
    OBVIOUS
  <1>5. match = IF ida = None \/ volta = None \/ Len(services) # 2
                THEN Match(services[k], None, "none")
                ELSE IF Mixed(services)
                THEN Match(services[k], IF IsTerminal(services[k].label) THEN volta ELSE ida, "medium")
                ELSE Match(services[k], IF k = 1 THEN ida ELSE volta, confidence)
    BY <1>3, <1>4 DEF Matches, Mixed
  <1>6. CASE Mixed(services)
    <2>1. match = Match(services[k], IF IsTerminal(services[k].label) THEN volta ELSE ida, "medium")
      BY <1>2, <1>5, <1>6
    <2>2. match.route = (IF IsTerminal(services[k].label) THEN volta ELSE ida) /\ match.confidence = "medium"
      BY <2>1 DEF Match
    <2>3. match.route \in 1..2 /\ directions[match.route].kind = WayOf(services, k)
      BY <1>1, <1>6, <2>2 DEF WayOf
    <2> QED BY <1>4, <1>6, <2>2, <2>3 DEF Sureness
  <1>7. CASE ~Mixed(services)
    <2>1. match = Match(services[k], IF k = 1 THEN ida ELSE volta, confidence)
      BY <1>2, <1>5, <1>7
    <2>2. match.route = (IF k = 1 THEN ida ELSE volta) /\ match.confidence = confidence
      BY <2>1 DEF Match
    <2>3. match.route \in 1..2 /\ directions[match.route].kind = WayOf(services, k)
      BY <1>1, <1>7, <2>2 DEF WayOf
    <2>4. confidence = Sureness(services)
      BY <1>7 DEF Sureness
    <2> QED BY <1>4, <2>2, <2>3, <2>4
  <1> QED BY <1>6, <1>7

\* Otherwise it goes no known way.
LEMMA WaysOfNone ==
    ASSUME NEW services, NEW directions, Len(services) # 2 \/ Unpaired(directions), NEW k \in DOMAIN services
    PROVE  LET match == Matches(services, directions)[k]
           IN  match.route = None /\ match.confidence = "none"
  <1>1. Find(directions, "ida") = None \/ Find(directions, "volta") = None \/ Len(services) # 2
    BY FoundInNone
  <1>2. Matches(services, directions)[k] = Match(services[k], None, "none")
    BY <1>1 DEF Matches
  <1> QED BY <1>2 DEF Match

\* What MapOrderIrrelevant says of one route.
Way(directions, link) == IF link = None THEN None ELSE directions[link].kind

SameWays(row, page, placemarks) ==
    LET reversed == RouteSnapshot(page, Reverse(placemarks))
    IN  \A k \in DOMAIN row.services :
           /\ row.services[k].confidence = reversed.matches[k].confidence
           /\ Way(row.directions, row.services[k].link)
                 = Way(reversed.directions, reversed.matches[k].route)

\* It is so of whatever page and map.
LEMMA RowWays ==
    ASSUME NEW page, PageAssumption(page), NEW placemarks, IsSeq(placemarks)
    PROVE  SameWays(Row(RouteSnapshot(page, placemarks)), page, placemarks)
  <1>1. PICK services, directions, other :
           /\ services = ServiceDirections(page) /\ directions = MapDirections(placemarks)
           /\ other = MapDirections(Reverse(placemarks))
    OBVIOUS
  <1>2. PICK matches, others : matches = Matches(services, directions) /\ others = Matches(services, other)
    OBVIOUS
  <1>3. /\ IsSeq(services) /\ IsSeq(directions)
        /\ DOMAIN matches = DOMAIN services
        /\ \/ Paired(directions) /\ Paired(other)
           \/ Unpaired(directions) /\ Unpaired(other)
    BY <1>1, <1>2, ServiceGroups, NumberedDirections, PublicMatches, ReversedKinds DEF Groups
  <1>4. PICK row : row = Row(RouteSnapshot(page, placemarks))
    OBVIOUS
  <1>5. PICK names : names = PassengerNames(services, directions, matches)
    OBVIOUS
  <1>6. RouteSnapshot(page, placemarks)
           = [code |-> page.code, services |-> services, directions |-> directions, matches |-> matches]
    BY <1>1, <1>2, Zenon DEF RouteSnapshot
  <1>7. RouteSnapshot(page, Reverse(placemarks))
           = [code |-> page.code, services |-> services, directions |-> other, matches |-> others]
    BY <1>1, <1>2, Zenon DEF RouteSnapshot
  <1>8. /\ row.directions = [i \in DOMAIN directions |->
               [name |-> names[i], kind |-> directions[i].kind, segments |-> Segments(directions[i].edges)]]
        /\ row.services = [k \in DOMAIN matches |->
               [label |-> services[k].label, sequence |-> matches[k].service,
                link |-> Link(matches[k], directions), confidence |-> matches[k].confidence]]
    BY <1>4, <1>5, <1>6 DEF Row
  <1>9. PICK ways, rows : ways = row.directions /\ rows = row.services
    OBVIOUS
  <1>10. /\ DOMAIN rows = DOMAIN services
         /\ \A k \in DOMAIN services : /\ rows[k].link = Link(matches[k], directions)
                                       /\ rows[k].confidence = matches[k].confidence
         /\ \A i \in DOMAIN directions : ways[i].kind = directions[i].kind
    BY <1>3, <1>8, <1>9
  <1>11. ASSUME NEW k \in DOMAIN services
         PROVE  /\ rows[k].confidence = others[k].confidence
                /\ Way(ways, rows[k].link) = Way(other, others[k].route)
    <2>1. CASE Len(services) = 2 /\ Paired(directions) /\ Paired(other)
      <3>1. k \in 1..2 /\ DOMAIN directions = 1..2
        BY <1>3, <1>11, <2>1 DEF IsSeq, Paired
      <3>2. /\ matches[k].route \in 1..2 /\ directions[matches[k].route].kind = WayOf(services, k)
            /\ matches[k].confidence = Sureness(services)
        BY <1>2, <1>3, <2>1, <3>1, WaysOfPair
      <3>3. /\ others[k].route \in 1..2 /\ other[others[k].route].kind = WayOf(services, k)
            /\ others[k].confidence = Sureness(services)
        BY <1>2, <1>3, <2>1, <3>1, WaysOfPair
      <3>4. None \notin 1..2
        BY ExportAssumption
      <3>5. rows[k].link = matches[k].route
        BY <1>10, <3>1, <3>2 DEF Link
      <3> QED BY <1>10, <3>1, <3>2, <3>3, <3>4, <3>5 DEF Way
    <2>2. CASE Len(services) # 2 \/ (Unpaired(directions) /\ Unpaired(other))
      <3>1. matches[k].route = None /\ matches[k].confidence = "none"
        BY <1>2, <2>2, WaysOfNone
      <3>2. others[k].route = None /\ others[k].confidence = "none"
        BY <1>2, <2>2, WaysOfNone
      <3>3. rows[k].link = None
        BY <1>10, <3>1 DEF Link
      <3> QED BY <1>10, <3>1, <3>2, <3>3 DEF Way
    <2> QED BY <1>3, <2>1, <2>2
  <1> QED BY <1>4, <1>7, <1>9, <1>10, <1>11 DEF SameWays

-----------------------------------------------------------------------------
(* Segments *)

\* Of some natural numbers one is the least.
LEMMA LeastNatural ==
    ASSUME NEW T \in SUBSET Nat, T # {}
    PROVE  \E x \in T : \A y \in T : x <= y
  <1> DEFINE Less == {pair \in Nat \X Nat : pair[1] < pair[2]}
  <1>1. IsWellFoundedOn(Less, Nat)
    BY NatLessThanWellFounded DEF OpToRel
  <1>2. PICK x \in T : \A y \in T : ~(<<y, x>> \in Less)
    <2> HIDE DEF Less
    <2> QED BY <1>1, WFMin
  <1>3. ASSUME NEW y \in T
        PROVE  x <= y
    <2>1. x \in Nat /\ y \in Nat
      OBVIOUS
    <2>2. y < x => <<y, x>> \in Less
      BY <2>1
    <2>3. ~(<<y, x>> \in Less)
      BY <1>2
    <2> QED BY <2>1, <2>2, <2>3
  <1> QED BY <1>3

\* Induction over 0..n, about the set of the numbers that a claim holds for.
LEMMA InductionUpTo ==
    ASSUME NEW n \in Nat, NEW G, 0 \in G, \A j \in 0..(n - 1) : j \in G => j + 1 \in G
    PROVE  \A j \in 0..n : j \in G
  <1> DEFINE Bad == {j \in 0..n : j \notin G}
  <1>1. SUFFICES ASSUME Bad # {}
                 PROVE  FALSE
    OBVIOUS
  <1>2. PICK j \in Bad : \A i \in Bad : j <= i
    <2>1. Bad \in SUBSET Nat
      OBVIOUS
    <2> HIDE DEF Bad
    <2> QED BY <1>1, <2>1, LeastNatural
  <1>3. j \in 0..n /\ j \notin G /\ j # 0
    BY <1>2
  <1>4. PICK i \in 0..(n - 1) : j = i + 1
    <2>1. j - 1 \in 0..(n - 1) /\ j = (j - 1) + 1
      BY <1>3
    <2> QED BY <2>1
  <1>5. i \in G
    BY <1>2, <1>4
  <1> QED BY <1>3, <1>4, <1>5

\* What division gives.
LEMMA Division ==
    ASSUME NEW a \in Nat, NEW n \in Nat \ {0}
    PROVE  /\ a \div n \in Nat
           /\ n * (a \div n) <= a
           /\ a < n * (a \div n) + n
  OBVIOUS

\* It grows with what is divided, and by no more than that does.
LEMMA DivisionGrows ==
    ASSUME NEW n \in Nat \ {0}, NEW a \in Nat, NEW b \in Nat, NEW m \in Nat, a <= b, b <= a + n * m
    PROVE  a \div n <= b \div n /\ b \div n <= a \div n + m
  <1>1. PICK x \in Nat, y \in Nat : x = a \div n /\ y = b \div n
    BY Division
  <1>2. n * x <= a /\ a < n * x + n /\ n * y <= b /\ b < n * y + n
    BY <1>1, Division
  <1>3. n * (x + m + 1) = n * x + n * m + n
    OBVIOUS
  <1>4. n * (y + 1) = n * y + n
    OBVIOUS
  <1>5. n * x < n * (y + 1)
    <2>1. n * x \in Nat /\ n * y \in Nat
      OBVIOUS
    <2> QED BY <1>2, <1>4, <2>1
  <1>6. n * y < n * (x + m + 1)
    <2>1. n * x \in Nat /\ n * y \in Nat /\ n * m \in Nat
      OBVIOUS
    <2> QED BY <1>2, <1>3, <2>1
  <1>7. \A p, q \in Nat : n * p < n * q => p < q
    <2>1. ASSUME NEW p \in Nat, NEW q \in Nat, q <= p
          PROVE  n * q <= n * p
      <3>1. PICK d \in Nat : p = q + d
        <4>1. p - q \in Nat /\ p = q + (p - q)
          BY <2>1
        <4> QED BY <4>1
      <3>2. n * p = n * q + n * d
        BY <3>1
      <3>3. n * q \in Nat /\ n * d \in Nat
        OBVIOUS
      <3> QED BY <3>2, <3>3
    <2>2. ASSUME NEW p \in Nat, NEW q \in Nat, n * p < n * q
          PROVE  p < q
      <3>1. n * p \in Nat /\ n * q \in Nat
        OBVIOUS
      <3> QED BY <2>1, <2>2, <3>1
    <2> QED BY <2>2
  <1>8. x < y + 1 /\ y < x + m + 1
    BY <1>5, <1>6, <1>7
  <1> QED BY <1>1, <1>8

\* An edge is cut into enough parts for none to be too long.
LEMMA EnoughSplits ==
    ASSUME NEW length \in Nat
    PROVE  Splits(length) \in Nat \ {0} /\ length <= Splits(length) * MaxLength
  <1>1. PICK m \in Nat \ {0} : m = MaxLength
    BY ExportAssumption
  <1>2. PICK q \in Nat : q = (length + m - 1) \div m /\ length + m - 1 < m * q + m
    <2>1. length + m - 1 \in Nat
      OBVIOUS
    <2> QED BY <2>1, Division
  <1>3. Splits(length) = IF 1 > q THEN 1 ELSE q
    BY <1>1, <1>2 DEF Splits, Max2, CeilDiv
  <1>4. m * q \in Nat /\ m * q = q * m
    OBVIOUS
  <1>5. CASE q = 0
    BY <1>1, <1>2, <1>3, <1>5
  <1>6. CASE q > 0
    BY <1>1, <1>2, <1>3, <1>4, <1>6
  <1> QED BY <1>5, <1>6

\* Where the parts of an edge end.
CutInto(edges, e, n, to) ==
    /\ n \in Nat \ {0} /\ to \in [0..n -> Nat]
    /\ Parts(edges, e) = [k \in 1..n |-> [edge |-> e, from |-> to[k - 1], to |-> to[k]]]
    /\ to[0] = 0 /\ to[n] = edges[e]
    /\ \A k \in 1..n : to[k - 1] <= to[k] /\ to[k] - to[k - 1] <= MaxLength

\* The parts of one edge lie end to end from its one end to its other.
LEMMA PartsOfEdge ==
    ASSUME NEW edges, NEW e, edges[e] \in Nat
    PROVE  \E n, to : CutInto(edges, e, n, to)
  <1>1. PICK length \in Nat : length = edges[e]
    OBVIOUS
  <1>2. PICK n \in Nat \ {0} : n = Splits(length) /\ length <= n * MaxLength
    BY EnoughSplits
  <1> DEFINE to == [k \in 0..n |-> (k * length) \div n]
  <1>3. \A k \in 0..n : k * length \in Nat
    OBVIOUS
  <1>4. to \in [0..n -> Nat]
    BY <1>3, Division
  <1>5. Parts(edges, e) = [k \in 1..n |-> [edge |-> e, from |-> to[k - 1], to |-> to[k]]]
    <2>1. Parts(edges, e) = [k \in 1..n |-> [edge |-> e, from |-> ((k - 1) * length) \div n,
                                             to |-> (k * length) \div n]]
      BY <1>1, <1>2, Zenon DEF Parts
    <2>2. \A k \in 1..n : to[k - 1] = ((k - 1) * length) \div n /\ to[k] = (k * length) \div n
      OBVIOUS
    <2> HIDE DEF to
    <2> QED BY <2>1, <2>2
  <1>6. to[0] = 0
    <2>1. PICK z : z = 0 \div n
      OBVIOUS
    <2>2. z \in Nat /\ n * z <= 0
      BY <2>1, Division
    <2>3. z = 0
      BY <2>2, DivisionGrows
    <2>4. 0 * length = 0
      OBVIOUS
    <2> QED BY <2>1, <2>3, <2>4
  <1>7. to[n] = length
    <2>1. PICK y \in Nat : y = (n * length) \div n
      BY <1>3, Division
    <2>2. n * y <= n * length /\ n * length < n * y + n
      BY <1>3, <2>1, Division
    <2>3. y = length
      BY <2>2
    <2> QED BY <2>1, <2>3
  <1>8. ASSUME NEW k \in 1..n
        PROVE  to[k - 1] <= to[k] /\ to[k] - to[k - 1] <= MaxLength
    <2>1. PICK m \in Nat : m = MaxLength
      BY ExportAssumption
    <2>2. PICK a \in Nat, b \in Nat : a = (k - 1) * length /\ b = k * length
      BY <1>3
    <2>3. b = a + length
      BY <2>2
    <2>4. n * m \in Nat /\ length <= n * m
      BY <1>2, <2>1
    <2>5. a <= b /\ b <= a + n * m
      BY <2>3, <2>4
    <2>6. a \div n <= b \div n /\ b \div n <= a \div n + m
      BY <2>5, DivisionGrows
    <2>7. a \div n \in Nat /\ b \div n \in Nat
      BY Division
    <2>8. to[k - 1] = a \div n /\ to[k] = b \div n
      BY <2>2
    <2> QED BY <2>1, <2>6, <2>7, <2>8
  <1> HIDE DEF to
  <1> QED BY <1>1, <1>4, <1>5, <1>6, <1>7, <1>8 DEF CutInto

\* One part begins where another ends, or with the next edge.
Follows(edges, p, q) ==
    \/ q.edge = p.edge /\ q.from = p.to
    \/ p.to = edges[p.edge] /\ q.edge = p.edge + 1 /\ q.from = 0

\* Parts that follow some edges, from the first to the last, from end to end.
Chain(edges, first, last, parts) ==
    /\ parts \in Seq([edge : Nat, from : Nat, to : Nat]) /\ Len(parts) > 0
    /\ parts[1].edge = first /\ parts[1].from = 0
    /\ parts[Len(parts)].edge = last /\ parts[Len(parts)].to = edges[last]
    /\ \A i \in 1..(Len(parts) - 1) : Follows(edges, parts[i], parts[i + 1])
    /\ \A i \in 1..Len(parts) : /\ parts[i].from <= parts[i].to
                                /\ parts[i].to - parts[i].from <= MaxLength
                                /\ parts[i].edge \in first..last

\* The parts of one edge do.
LEMMA ChainOfEdge ==
    ASSUME NEW edges, NEW e \in Nat, edges[e] \in Nat
    PROVE  Chain(edges, e, e, Parts(edges, e))
  <1>1. PICK n, to : CutInto(edges, e, n, to)
    BY PartsOfEdge
  <1>2. PICK parts : parts = Parts(edges, e)
    OBVIOUS
  <1>3. n \in Nat \ {0} /\ to \in [0..n -> Nat] /\ to[0] = 0 /\ to[n] = edges[e]
    BY <1>1 DEF CutInto
  <1>4. parts = [k \in 1..n |-> [edge |-> e, from |-> to[k - 1], to |-> to[k]]]
    BY <1>1, <1>2 DEF CutInto
  <1>5. \A k \in 1..n : to[k - 1] \in Nat /\ to[k] \in Nat
    BY <1>3
  <1>6. PICK T : T = [edge : Nat, from : Nat, to : Nat]
    OBVIOUS
  <1>7. parts \in Seq(T) /\ Len(parts) = n
    <2>1. parts \in [1..n -> T]
      BY <1>4, <1>5, <1>6
    <2> QED BY <1>3, <2>1
  <1>8. \A k \in 1..n : parts[k].edge = e /\ parts[k].from = to[k - 1] /\ parts[k].to = to[k]
    BY <1>4
  <1>9. \A k \in 1..n : to[k - 1] <= to[k] /\ to[k] - to[k - 1] <= MaxLength
    BY <1>1 DEF CutInto
  <1>10. ASSUME NEW i \in 1..(n - 1)
         PROVE  Follows(edges, parts[i], parts[i + 1])
    <2>1. i \in 1..n /\ i + 1 \in 1..n /\ (i + 1) - 1 = i
      BY <1>3
    <2>2. /\ parts[i + 1].edge = e /\ parts[i + 1].from = to[(i + 1) - 1]
          /\ parts[i].edge = e /\ parts[i].to = to[i]
      BY <1>8, <2>1
    <2> QED BY <2>1, <2>2 DEF Follows
  <1>11. 1 \in 1..n /\ n \in 1..n
    BY <1>3
  <1>12. parts[1].edge = e /\ parts[1].from = 0 /\ parts[n].edge = e /\ parts[n].to = edges[e]
    BY <1>3, <1>8, <1>11
  <1> QED BY <1>2, <1>3, <1>6, <1>7, <1>8, <1>9, <1>10, <1>12 DEF Chain

\* Two such chains are one, if the one ends with the edge before the other.
LEMMA ChainedChains ==
    ASSUME NEW edges, NEW a \in Nat, NEW b \in Nat, NEW c \in Nat, a <= b, b < c,
           NEW s, Chain(edges, a, b, s), NEW r, Chain(edges, b + 1, c, r)
    PROVE  Chain(edges, a, c, s \o r)
  <1>1. PICK T : T = [edge : Nat, from : Nat, to : Nat]
    OBVIOUS
  <1>2. s \in Seq(T) /\ r \in Seq(T)
    BY <1>1 DEF Chain
  <1>3. PICK m \in Nat, n \in Nat, t \in Seq(T) :
           /\ m = Len(s) /\ n = Len(r) /\ m > 0 /\ n > 0
           /\ t = s \o r /\ Len(t) = m + n
    <2>1. Len(s) \in Nat /\ Len(r) \in Nat /\ s \o r \in Seq(T) /\ Len(s \o r) = Len(s) + Len(r)
      BY <1>2
    <2>2. Len(s) > 0 /\ Len(r) > 0
      BY DEF Chain
    <2> QED BY <2>1, <2>2
  <1>4. \A i \in 1..m : t[i] = s[i]
    BY <1>2, <1>3
  <1>5. \A i \in 1..n : t[m + i] = r[i]
    BY <1>2, <1>3
  <1>6. \A i \in 1..(m + n) : i \in 1..m \/ \E j \in 1..n : i = m + j
    <2>1. ASSUME NEW i \in 1..(m + n), i \notin 1..m
          PROVE  i - m \in 1..n /\ i = m + (i - m)
      BY <2>1, <1>3
    <2> QED BY <2>1
  <1>7. /\ s[1].edge = a /\ s[1].from = 0 /\ s[m].edge = b /\ s[m].to = edges[b]
        /\ r[1].edge = b + 1 /\ r[1].from = 0 /\ r[n].edge = c /\ r[n].to = edges[c]
    BY <1>3 DEF Chain
  <1>8. t[1] = s[1] /\ t[m + n] = r[n] /\ t[m] = s[m] /\ t[m + 1] = r[1]
    BY <1>3, <1>4, <1>5
  <1>9. ASSUME NEW i \in 1..(m + n - 1)
        PROVE  Follows(edges, t[i], t[i + 1])
    <2>1. CASE i < m
      <3>1. i \in 1..(m - 1) /\ i \in 1..m /\ i + 1 \in 1..m
        BY <1>3, <2>1
      <3> QED BY <1>3, <1>4, <3>1 DEF Chain
    <2>2. CASE i = m
      <3>1. Follows(edges, s[m], r[1])
        BY <1>7 DEF Follows
      <3> QED BY <1>8, <2>2, <3>1
    <2>3. CASE i > m
      <3>1. PICK j \in 1..(n - 1) : i = m + j
        <4>1. i - m \in 1..(n - 1) /\ i = m + (i - m)
          BY <1>3, <2>3
        <4> QED BY <4>1
      <3>2. j \in 1..n /\ j + 1 \in 1..n /\ i + 1 = m + (j + 1)
        BY <1>3, <3>1
      <3>3. t[i] = r[j] /\ t[i + 1] = r[j + 1]
        BY <1>5, <3>1, <3>2
      <3> QED BY <1>3, <3>1, <3>3 DEF Chain
    <2> QED BY <1>3, <2>1, <2>2, <2>3
  <1>10. ASSUME NEW i \in 1..(m + n)
         PROVE  t[i].from <= t[i].to /\ t[i].to - t[i].from <= MaxLength /\ t[i].edge \in a..c
    <2>1. CASE i \in 1..m
      <3>1. s[i].from <= s[i].to /\ s[i].to - s[i].from <= MaxLength /\ s[i].edge \in a..b
        BY <1>3, <2>1 DEF Chain
      <3> QED BY <1>4, <2>1, <3>1
    <2>2. ASSUME NEW j \in 1..n, i = m + j
          PROVE  t[i].from <= t[i].to /\ t[i].to - t[i].from <= MaxLength /\ t[i].edge \in a..c
      <3>1. r[j].from <= r[j].to /\ r[j].to - r[j].from <= MaxLength /\ r[j].edge \in (b + 1)..c
        BY <1>3, <2>2 DEF Chain
      <3> QED BY <1>5, <2>2, <3>1
    <2> QED BY <1>6, <2>1, <2>2
  <1>11. Chain(edges, a, c, t)
    <2>1. t \in Seq([edge : Nat, from : Nat, to : Nat]) /\ Len(t) > 0
      BY <1>1, <1>3
    <2>2. t[1].edge = a /\ t[1].from = 0 /\ t[Len(t)].edge = c /\ t[Len(t)].to = edges[c]
      BY <1>3, <1>7, <1>8
    <2>3. \A i \in 1..(Len(t) - 1) : Follows(edges, t[i], t[i + 1])
      BY <1>3, <1>9
    <2>4. \A i \in 1..Len(t) : /\ t[i].from <= t[i].to
                               /\ t[i].to - t[i].from <= MaxLength
                               /\ t[i].edge \in a..c
      BY <1>3, <1>10, Zenon
    <2> QED BY <2>1, <2>2, <2>3, <2>4, Zenon DEF Chain
  <1> QED BY <1>3, <1>11

\* What flattening goes through, of the first sequence on.
Flattens(seqs, n, f) ==
    /\ f = [i \in 1..n |-> f[i]]
    /\ \A i \in 1..n : f[i] = IF i = 1 THEN seqs[i] ELSE f[i - 1] \o seqs[i]

\* It comes to the last of that.
LEMMA FlatSeq ==
    ASSUME NEW n \in Nat \ {0}, NEW seqs, Len(seqs) = n
    PROVE  \E f : Flattens(seqs, n, f) /\ FlattenSeq(seqs) = f[n]
  <1> DEFINE G == {k \in 0..n : \E f : Flattens(seqs, k, f)}
  <1>1. 0 \in G
    <2> DEFINE f == [i \in 1..0 |-> 0]
    <2>1. Flattens(seqs, 0, f)
      BY DEF Flattens
    <2> QED BY <2>1
  <1>2. ASSUME NEW k \in 0..(n - 1), k \in G
        PROVE  k + 1 \in G
    <2>1. PICK g : Flattens(seqs, k, g)
      BY <1>2
    <2> DEFINE f == [i \in 1..(k + 1) |->
                        IF i <= k THEN g[i] ELSE IF k = 0 THEN seqs[1] ELSE g[k] \o seqs[k + 1]]
    <2>2. ASSUME NEW i \in 1..(k + 1)
          PROVE  f[i] = IF i = 1 THEN seqs[i] ELSE f[i - 1] \o seqs[i]
      <3>1. CASE i <= k
        <4>1. i \in 1..k /\ (i # 1 => i - 1 \in 1..k /\ i - 1 \in 1..(k + 1))
          BY <3>1
        <4>2. g[i] = IF i = 1 THEN seqs[i] ELSE g[i - 1] \o seqs[i]
          BY <2>1, <4>1 DEF Flattens
        <4>3. f[i] = g[i] /\ (i # 1 => f[i - 1] = g[i - 1])
          BY <3>1, <4>1
        <4> HIDE DEF f
        <4> QED BY <4>2, <4>3
      <3>2. CASE i = k + 1
        <4>1. k # 0 => f[k] = g[k]
          OBVIOUS
        <4>2. f[i] = IF k = 0 THEN seqs[1] ELSE g[k] \o seqs[k + 1]
          BY <3>2
        <4>3. i - 1 = k /\ (i = 1 <=> k = 0)
          BY <3>2
        <4> HIDE DEF f
        <4> QED BY <3>2, <4>1, <4>2, <4>3
      <3> QED BY <3>1, <3>2
    <2>3. f = [i \in 1..(k + 1) |-> f[i]]
      OBVIOUS
    <2>4. Flattens(seqs, k + 1, f)
      <3> HIDE DEF f
      <3> QED BY <2>2, <2>3 DEF Flattens
    <2>5. k + 1 \in 0..n
      OBVIOUS
    <2> HIDE DEF f
    <2> QED BY <2>4, <2>5
  <1>3. n \in G
    <2>1. n \in Nat /\ n \in 0..n
      OBVIOUS
    <2> HIDE DEF G
    <2> QED BY <1>1, <1>2, <2>1, InductionUpTo
  <1> DEFINE Is(f) == f = [i \in 1..n |-> IF i = 1 THEN seqs[i] ELSE f[i - 1] \o seqs[i]]
  <1>4. \A f : Is(f) <=> Flattens(seqs, n, f)
    BY DEF Flattens
  <1>5. FlattenSeq(seqs) = (CHOOSE f : Is(f))[n]
    BY Zenon DEF FlattenSeq
  <1>6. \E f : Is(f)
    BY <1>3, <1>4
  <1> HIDE DEF Is
  <1>7. Is(CHOOSE f : Is(f))
    BY <1>6, Zenon
  <1> QED BY <1>4, <1>5, <1>7

\* The parts of all edges are such a chain.
LEMMA AllParts ==
    ASSUME NEW edges \in Seq(Nat), edges # <<>>
    PROVE  Chain(edges, 1, Len(edges), FlattenSeq([e \in DOMAIN edges |-> Parts(edges, e)]))
  <1>1. PICK n \in Nat \ {0} : n = Len(edges) /\ DOMAIN edges = 1..n
    OBVIOUS
  <1>2. \A e \in 1..n : edges[e] \in Nat
    BY <1>1
  <1>3. PICK seqs : seqs = [e \in 1..n |-> Parts(edges, e)]
    OBVIOUS
  <1>4. Len(seqs) = n
    BY <1>3
  <1>5. PICK f : Flattens(seqs, n, f) /\ FlattenSeq(seqs) = f[n]
    BY <1>4, FlatSeq
  <1> DEFINE G == {k \in 0..n : k # 0 => Chain(edges, 1, k, f[k])}
  <1>6. 0 \in G
    OBVIOUS
  <1>7. ASSUME NEW k \in 0..(n - 1), k \in G
        PROVE  k + 1 \in G
    <2>1. k + 1 \in 1..n /\ k + 1 \in Nat /\ edges[k + 1] \in Nat
      BY <1>2
    <2>2. Chain(edges, k + 1, k + 1, seqs[k + 1])
      BY <1>3, <2>1, ChainOfEdge
    <2>3. f[k + 1] = IF k = 0 THEN seqs[k + 1] ELSE f[k] \o seqs[k + 1]
      <3>1. f[k + 1] = IF k + 1 = 1 THEN seqs[k + 1] ELSE f[k + 1 - 1] \o seqs[k + 1]
        <4>1. \A i \in 1..n : f[i] = IF i = 1 THEN seqs[i] ELSE f[i - 1] \o seqs[i]
          BY <1>5, Zenon DEF Flattens
        <4>2. PICK i \in 1..n : i = k + 1
          BY <2>1
        <4>3. f[i] = IF i = 1 THEN seqs[i] ELSE f[i - 1] \o seqs[i]
          BY <4>1
        <4> QED BY <4>2, <4>3
      <3>2. k + 1 - 1 = k /\ (k + 1 = 1 <=> k = 0)
        OBVIOUS
      <3> QED BY <3>1, <3>2
    <2>4. CASE k = 0
      BY <2>1, <2>2, <2>3, <2>4
    <2>5. CASE k # 0
      <3>1. Chain(edges, 1, k, f[k])
        BY <1>7, <2>5
      <3>2. k \in Nat /\ 1 <= k /\ k < k + 1 /\ 1 \in Nat
        BY <2>5
      <3>3. Chain(edges, 1, k + 1, f[k] \o seqs[k + 1])
        BY <2>1, <2>2, <3>1, <3>2, ChainedChains
      <3>4. f[k + 1] = f[k] \o seqs[k + 1]
        BY <2>3, <2>5
      <3>5. Chain(edges, 1, k + 1, f[k + 1])
        BY <3>3, <3>4
      <3> QED BY <2>1, <3>5
    <2> QED BY <2>4, <2>5
  <1>8. n \in G
    <2>1. n \in Nat /\ n \in 0..n
      OBVIOUS
    <2> HIDE DEF G
    <2> QED BY <1>6, <1>7, <2>1, InductionUpTo
  <1> QED BY <1>1, <1>3, <1>5, <1>8

\* What running totals are, of the first n lengths.
Totals(lengths, n, f) ==
    /\ f \in [0..n -> Nat]
    /\ f[0] = 0
    /\ \A i \in 1..n : f[i] = f[i - 1] + lengths[i]

\* There are some for any lengths.
LEMMA TotalsExist ==
    ASSUME NEW n \in Nat, NEW lengths \in [1..n -> Nat]
    PROVE  \E f : Totals(lengths, n, f)
  <1> DEFINE G == {k \in 0..n : \E f : Totals(lengths, k, f)}
  <1>1. 0 \in G
    <2> DEFINE f == [i \in 0..0 |-> 0]
    <2>1. Totals(lengths, 0, f)
      BY DEF Totals
    <2> QED BY <2>1
  <1>2. ASSUME NEW k \in 0..(n - 1), k \in G
        PROVE  k + 1 \in G
    <2>1. PICK g : Totals(lengths, k, g)
      BY <1>2
    <2>2. k + 1 \in 1..n /\ k + 1 \in 0..n /\ lengths[k + 1] \in Nat
      OBVIOUS
    <2> DEFINE f == [i \in 0..(k + 1) |-> IF i <= k THEN g[i] ELSE g[k] + lengths[k + 1]]
    <2>3. g \in [0..k -> Nat] /\ g[0] = 0 /\ \A i \in 1..k : g[i] = g[i - 1] + lengths[i]
      BY <2>1 DEF Totals
    <2>4. f \in [0..(k + 1) -> Nat] /\ f[0] = 0
      BY <2>2, <2>3
    <2>5. \A i \in 0..k : f[i] = g[i]
      OBVIOUS
    <2>6. f[k + 1] = g[k] + lengths[k + 1]
      OBVIOUS
    <2> HIDE DEF f
    <2>7. ASSUME NEW i \in 1..(k + 1)
          PROVE  f[i] = f[i - 1] + lengths[i]
      <3>1. CASE i <= k
        <4>1. i \in 1..k /\ i \in 0..k /\ i - 1 \in 0..k
          BY <3>1
        <4> QED BY <2>3, <2>5, <4>1
      <3>2. CASE i = k + 1
        <4>1. i - 1 = k /\ k \in 0..k
          BY <3>2
        <4> QED BY <2>5, <2>6, <3>2, <4>1
      <3> QED BY <3>1, <3>2
    <2>8. Totals(lengths, k + 1, f)
      BY <2>4, <2>7 DEF Totals
    <2> QED BY <2>2, <2>8
  <1>3. n \in G
    <2>1. n \in 0..n
      OBVIOUS
    <2> HIDE DEF G
    <2> QED BY <1>1, <1>2, <2>1, InductionUpTo
  <1> QED BY <1>3

\* RunningTotal computes them.
LEMMA RunningTotals ==
    ASSUME NEW n \in Nat, NEW lengths \in [1..n -> Nat], Len(lengths) = n
    PROVE  Totals(lengths, n, RunningTotal(lengths))
  <1> DEFINE Is(f) == f = [i \in 0..n |-> IF i = 0 THEN 0 ELSE f[i - 1] + lengths[i]]
  <1>1. \E f : Is(f)
    <2>1. PICK f : Totals(lengths, n, f)
      BY TotalsExist
    <2>2. f = [i \in 0..n |-> f[i]] /\ f[0] = 0
      BY <2>1 DEF Totals
    <2>3. \A i \in 0..n : f[i] = IF i = 0 THEN 0 ELSE f[i - 1] + lengths[i]
      BY <2>1 DEF Totals
    <2>4. Is(f)
      BY <2>2, <2>3
    <2> HIDE DEF Is
    <2> QED BY <2>4
  <1>2. RunningTotal(lengths) = CHOOSE f : Is(f)
    BY Zenon DEF RunningTotal
  <1>3. Is(RunningTotal(lengths))
    <2> HIDE DEF Is
    <2> QED BY <1>1, <1>2, Zenon
  <1>4. PICK f : f = RunningTotal(lengths)
    OBVIOUS
  <1>5. DOMAIN f = 0..n /\ f = [i \in 0..n |-> f[i]]
    BY <1>3, <1>4
  <1>6. f[0] = 0 /\ \A i \in 1..n : f[i] = f[i - 1] + lengths[i]
    <2>1. f = [i \in 0..n |-> IF i = 0 THEN 0 ELSE f[i - 1] + lengths[i]]
      BY <1>3, <1>4
    <2>2. 0 \in 0..n /\ \A i \in 1..n : i \in 0..n /\ i # 0
      OBVIOUS
    <2> QED BY <2>1, <2>2
  <1> DEFINE G == {k \in 0..n : f[k] \in Nat}
  <1>7. 0 \in G
    BY <1>6
  <1>8. ASSUME NEW k \in 0..(n - 1), k \in G
        PROVE  k + 1 \in G
    <2>1. k + 1 \in 1..n /\ k + 1 \in 0..n /\ lengths[k + 1] \in Nat /\ (k + 1) - 1 = k
      OBVIOUS
    <2>2. f[k + 1] = f[k] + lengths[k + 1]
      BY <1>6, <2>1
    <2> QED BY <1>8, <2>1, <2>2
  <1>9. \A k \in 0..n : k \in G
    <2> HIDE DEF G
    <2> QED BY <1>7, <1>8, InductionUpTo
  <1>10. f \in [0..n -> Nat]
    BY <1>5, <1>9
  <1> QED BY <1>4, <1>6, <1>10 DEF Totals

\* Parts begin and end so far along their edge.
LEMMA PartNumbers ==
    ASSUME NEW parts \in Seq([edge : Nat, from : Nat, to : Nat]), NEW n \in Nat, Len(parts) = n
    PROVE  \A i \in 1..n : parts[i].from \in Nat /\ parts[i].to \in Nat
  <1>1. PICK T : T = [edge : Nat, from : Nat, to : Nat]
    OBVIOUS
  <1>2. ASSUME NEW i \in 1..n
        PROVE  parts[i] \in T
    <2>1. parts \in Seq(T) /\ i \in 1..Len(parts)
      BY <1>1
    <2> QED BY <2>1
  <1>3. \A p \in T : p.from \in Nat /\ p.to \in Nat
    BY <1>1
  <1> QED BY <1>2, <1>3

\* The lengths of parts, and how far along the edges, whose running totals are E,
\* parts end.
AreLengths(lengths, parts, n) == \A i \in 1..n : lengths[i] = parts[i].to - parts[i].from
AreCumulative(C, E, parts, n) == \A i \in 1..n : C[i] = E[parts[i].edge - 1] + parts[i].to

\* The cumulative length of a chain of parts is that of the edges before the part
\* and of its own edge as far as it goes.
LEMMA CumulativeLengths ==
    ASSUME NEW m \in Nat, NEW edges \in [1..m -> Nat], NEW E, Totals(edges, m, E),
           NEW n \in Nat, NEW parts, Len(parts) = n, Chain(edges, 1, m, parts),
           NEW lengths, AreLengths(lengths, parts, n),
           NEW C, Totals(lengths, n, C)
    PROVE  AreCumulative(C, E, parts, n)
  <1>1. /\ parts \in Seq([edge : Nat, from : Nat, to : Nat]) /\ n > 0
        /\ parts[1].edge = 1 /\ parts[1].from = 0
        /\ \A i \in 1..(n - 1) : Follows(edges, parts[i], parts[i + 1])
        /\ \A i \in 1..n : parts[i].edge \in 1..m
    BY DEF Chain
  <1>2. \A i \in 1..n : parts[i].from \in Nat /\ parts[i].to \in Nat
    BY <1>1, PartNumbers
  <1>3. /\ C \in [0..n -> Nat] /\ C[0] = 0
        /\ \A i \in 1..n : C[i] = C[i - 1] + (parts[i].to - parts[i].from)
    BY DEF Totals, AreLengths
  <1>4. /\ E \in [0..m -> Nat] /\ E[0] = 0
        /\ \A e \in 1..m : E[e] = E[e - 1] + edges[e]
    BY DEF Totals
  <1> DEFINE G == {i \in 0..n : i # 0 => C[i] = E[parts[i].edge - 1] + parts[i].to}
  <1>5. 0 \in G
    OBVIOUS
  <1>6. ASSUME NEW k \in 0..(n - 1), k \in G
        PROVE  k + 1 \in G
    <2>1. k + 1 \in 1..n /\ k + 1 \in 0..n /\ (k + 1) - 1 = k
      OBVIOUS
    <2>2. PICK p, e, from, to : p = parts[k + 1] /\ e = p.edge /\ from = p.from /\ to = p.to
      OBVIOUS
    <2>3. e \in 1..m /\ from \in Nat /\ to \in Nat
      BY <1>1, <1>2, <2>1, <2>2
    <2>4. C[k + 1] = C[k] + (to - from)
      BY <1>3, <2>1, <2>2
    <2>5. CASE k = 0
      <3>1. e = 1 /\ from = 0
        BY <1>1, <2>2, <2>5
      <3>2. C[k + 1] = E[e - 1] + to
        BY <1>3, <1>4, <2>3, <2>4, <2>5, <3>1
      <3> QED BY <2>1, <2>2, <3>2
    <2>6. CASE k # 0
      <3>1. k \in 1..n /\ k \in 1..(n - 1)
        BY <2>6
      <3>2. PICK q, d, t : q = parts[k] /\ d = q.edge /\ t = q.to
        OBVIOUS
      <3>3. d \in 1..m /\ t \in Nat /\ C[k] = E[d - 1] + t /\ Follows(edges, q, p)
        BY <1>1, <1>2, <1>6, <2>2, <2>6, <3>1, <3>2
      <3>4. E[d - 1] \in Nat /\ E[d] = E[d - 1] + edges[d] /\ edges[d] \in Nat
        BY <1>4, <3>3
      <3>5. CASE e = d /\ from = t
        <4>1. C[k + 1] = E[e - 1] + to
          BY <2>3, <2>4, <3>3, <3>4, <3>5
        <4> QED BY <2>1, <2>2, <4>1
      <3>6. CASE t = edges[d] /\ e = d + 1 /\ from = 0
        <4>1. e - 1 = d
          BY <3>3, <3>6
        <4>2. C[k + 1] = E[e - 1] + to
          BY <2>3, <2>4, <3>3, <3>4, <3>6, <4>1
        <4> QED BY <2>1, <2>2, <4>2
      <3> QED BY <2>2, <3>2, <3>3, <3>5, <3>6 DEF Follows
    <2> QED BY <2>5, <2>6
  <1>7. \A k \in 0..n : k \in G
    <2> HIDE DEF G
    <2> QED BY <1>5, <1>6, InductionUpTo
  <1> QED BY <1>7 DEF AreCumulative

\* So the segments of some edges cover them.
LEMMA SegmentsCover ==
    ASSUME NEW edges \in Seq(Nat)
    PROVE  Covers(Segments(edges), edges)
  <1> DEFINE cut == FlattenSeq([e \in DOMAIN edges |-> Parts(edges, e)])
  <1>1. PICK m \in Nat : m = Len(edges) /\ DOMAIN edges = 1..m /\ edges \in [1..m -> Nat]
    OBVIOUS
  <1>2. PICK parts : parts = cut
    OBVIOUS
  <1>3. PICK lengths : lengths = [i \in DOMAIN parts |-> parts[i].to - parts[i].from]
    OBVIOUS
  <1>4. PICK total : total = RunningTotal(lengths)
    OBVIOUS
  <1>5. PICK segments : segments = Segments(edges)
    OBVIOUS
  <1>6. segments = [i \in DOMAIN parts |-> [sequence |-> i, part |-> parts[i], length |-> lengths[i],
                                            cumulative |-> total[i]]]
    BY <1>2, <1>3, <1>4, <1>5, Zenon DEF Segments
  <1>7. CASE edges = <<>>
    <2>1. PICK none : none = [e \in DOMAIN edges |-> Parts(edges, e)]
      OBVIOUS
    <2>2. Len(none) = 0 /\ none = <<>>
      BY <1>7, <2>1
    <2>3. parts = <<>>
      BY <1>2, <2>1, <2>2, Zenon DEF FlattenSeq
    <2>4. segments = <<>> /\ Len(segments) = 0
      BY <1>6, <2>3
    <2> QED BY <1>5, <1>7, <2>4 DEF Covers
  <1>8. CASE edges # <<>>
    <2>1. Chain(edges, 1, m, parts)
      BY <1>1, <1>2, <1>8, AllParts
    <2>2. PICK n \in Nat : n = Len(parts) /\ n > 0 /\ DOMAIN parts = 1..n
      BY <2>1 DEF Chain
    <2>3. \A i \in 1..n : /\ parts[i].from \in Nat /\ parts[i].to \in Nat
                          /\ parts[i].from <= parts[i].to
                          /\ parts[i].to - parts[i].from <= MaxLength
      <3>1. \A i \in 1..n : parts[i].from \in Nat /\ parts[i].to \in Nat
        BY <2>1, <2>2, PartNumbers DEF Chain
      <3> QED BY <2>1, <2>2, <3>1 DEF Chain
    <2>4. /\ lengths = [i \in 1..n |-> parts[i].to - parts[i].from]
          /\ lengths \in [1..n -> Nat] /\ Len(lengths) = n
      BY <1>3, <2>2, <2>3
    <2>5. Totals(lengths, n, total)
      BY <1>4, <2>4, RunningTotals
    <2>6. PICK E : E = RunningTotal(edges) /\ Totals(edges, m, E)
      BY <1>1, RunningTotals
    <2>7. \A i \in 1..n : total[i] = E[parts[i].edge - 1] + parts[i].to
      <3>1. AreLengths(lengths, parts, n)
        BY <2>4 DEF AreLengths
      <3>2. AreCumulative(total, E, parts, n)
        BY <1>1, <2>1, <2>2, <2>5, <2>6, <3>1, CumulativeLengths
      <3> QED BY <3>2 DEF AreCumulative
    <2>8. /\ parts[1].edge = 1 /\ parts[1].from = 0 /\ parts[n].edge = m /\ parts[n].to = edges[m]
          /\ \A i \in 1..(n - 1) : Follows(edges, parts[i], parts[i + 1])
      BY <2>1, <2>2 DEF Chain
    <2>9. total[n] = E[m]
      <3>1. m \in 1..m
        BY <1>1, <1>8
      <3>2. E[m] = E[m - 1] + edges[m]
        BY <2>6, <3>1 DEF Totals
      <3> QED BY <2>2, <2>7, <2>8, <3>2
    <2>10. /\ Len(segments) = n /\ 1 \in 1..n /\ n \in 1..n
           /\ \A i \in 1..n : /\ segments[i].part = parts[i] /\ segments[i].length = lengths[i]
                              /\ segments[i].cumulative = total[i]
      BY <1>6, <2>2
    <2>11. ASSUME NEW i \in 1..(n - 1)
           PROVE  LET p == segments[i].part
                      q == segments[i + 1].part
                  IN  \/ q.edge = p.edge /\ q.from = p.to
                      \/ p.to = edges[p.edge] /\ q.edge = p.edge + 1 /\ q.from = 0
      <3>1. i \in 1..n /\ i + 1 \in 1..n
        OBVIOUS
      <3> QED BY <2>8, <2>10, <3>1 DEF Follows
    <2>12. \A i \in 1..n : /\ segments[i].part.from <= segments[i].part.to
                           /\ segments[i].length <= MaxLength
      BY <2>3, <2>4, <2>10
    <2> QED BY <1>1, <1>5, <1>8, <2>2, <2>6, <2>8, <2>9, <2>10, <2>11, <2>12 DEF Covers
  <1> QED BY <1>7, <1>8

\* What SegmentsCoverDirections says of one row.
CoversMap(row, page, placemarks) ==
    LET Place(i) == Cardinality({j \in Placed(placemarks) : j <= i})
    IN  /\ row.code = page.code
        /\ DOMAIN row.directions = 1..Cardinality(Placed(placemarks))
        /\ \A i \in Placed(placemarks) :
              Covers(row.directions[Place(i)].segments, placemarks[i].edges)

\* It is so of whatever page and map.
LEMMA RowSegments ==
    ASSUME NEW page, NEW placemarks, IsSeq(placemarks),
           \A i \in Placed(placemarks) : placemarks[i].edges \in Seq(Nat)
    PROVE  CoversMap(Row(RouteSnapshot(page, placemarks)), page, placemarks)
  <1>1. PICK services, directions :
           services = ServiceDirections(page) /\ directions = MapDirections(placemarks)
    OBVIOUS
  <1>2. PICK matches, names :
           matches = Matches(services, directions) /\ names = PassengerNames(services, directions, matches)
    OBVIOUS
  <1>3. PICK row : row = Row(RouteSnapshot(page, placemarks))
    OBVIOUS
  <1>4. RouteSnapshot(page, placemarks)
           = [code |-> page.code, services |-> services, directions |-> directions, matches |-> matches]
    BY <1>1, <1>2, Zenon DEF RouteSnapshot
  <1>5. /\ row.code = page.code
        /\ row.directions = [i \in DOMAIN directions |->
               [name |-> names[i], kind |-> directions[i].kind, segments |-> Segments(directions[i].edges)]]
    BY <1>2, <1>3, <1>4 DEF Row
  <1>6. PICK S : S = Placed(placemarks)
    OBVIOUS
  <1>7. ArePositions(S) /\ DOMAIN directions = 1..Cardinality(S)
    BY <1>1, <1>6, NumberedDirections
  <1>8. PICK placed : placed = At(placemarks, S)
    OBVIOUS
  <1>9. /\ DOMAIN placed = 1..Cardinality(S)
        /\ \A i \in S : /\ Cardinality(Upto(S, i)) \in 1..Cardinality(S)
                        /\ placed[Cardinality(Upto(S, i))] = placemarks[i]
    BY <1>7, <1>8, AtPositions
  <1>10. directions = [i \in DOMAIN placed |->
                         [name |-> placed[i].name, kind |-> Kind(placed, i), edges |-> placed[i].edges]]
    BY <1>1, <1>6, <1>8, Zenon DEF MapDirections
  <1>11. ASSUME NEW i \in S
         PROVE  Covers(row.directions[Cardinality(Upto(S, i))].segments, placemarks[i].edges)
    <2>1. PICK place : /\ place = Cardinality(Upto(S, i))
                       /\ place \in DOMAIN placed /\ placed[place] = placemarks[i]
      BY <1>9
    <2>2. directions[place].edges = placemarks[i].edges
      BY <1>10, <2>1
    <2>3. row.directions[place].segments = Segments(placemarks[i].edges)
      BY <1>5, <1>7, <1>9, <2>1, <2>2
    <2> QED BY <1>6, <2>1, <2>3, SegmentsCover
  <1>12. DOMAIN row.directions = 1..Cardinality(S)
    BY <1>5, <1>7
  <1> QED BY <1>3, <1>5, <1>6, <1>11, <1>12, Zenon DEF CoversMap, Upto

-----------------------------------------------------------------------------
(* Exported rows *)

\* What the pages and maps of a site are, as far as they are exported.
LEMMA ListedPages ==
    ASSUME site \in Sites, NEW t \in Tasks
    PROVE  /\ PageAssumption(Page(t)) /\ IsSeq(Placemarks(Page(t)))
           /\ \A i \in Placed(Placemarks(Page(t))) : Placemarks(Page(t))[i].edges \in Seq(Nat)
  <1>1. Listed[t] \in DOMAIN site.page
    BY TasksListed
  <1>2. PageAssumption(Page(t)) /\ Page(t).map \in DOMAIN site.map \cup {None}
    BY <1>1, CollectAssumption DEF Page
  <1>3. CASE Page(t).map = None
    <2>1. Placemarks(Page(t)) = <<>>
      BY <1>3 DEF Placemarks
    <2>2. IsSeq(<<>>) /\ Placed(<<>>) = {}
      BY DEF IsSeq, Placed
    <2> QED BY <1>2, <2>1, <2>2
  <1>4. CASE Page(t).map # None
    <2>1. MapAssumption(site.map[Page(t).map])
      BY <1>2, <1>4, CollectAssumption
    <2>2. Placemarks(Page(t)) = site.map[Page(t).map].placemarks
      BY <1>4 DEF Placemarks
    <2> QED BY <1>2, <2>1, <2>2 DEF MapAssumption
  <1> QED BY <1>3, <1>4

\* An exported row is that of a task's page and map.
LEMMA ExportedRows ==
    ASSUME Types, CompleteOrNothing, index = "done", NEW t \in DOMAIN collection.rows
    PROVE  /\ t \in Tasks
           /\ collection.rows[t] = Row(RouteSnapshot(Page(t), Placemarks(Page(t))))
  <1> DEFINE broken == {u \in Tasks : ~Intact(u)}
  <1>1. collection.rows = IF broken # {} THEN <<>>
                          ELSE [u \in Tasks |-> Row(RouteSnapshot(Page(u), Placemarks(Page(u))))]
    BY Zenon DEF CompleteOrNothing
  <1>2. broken = {}
    <2>1. DOMAIN <<>> = {}
      OBVIOUS
    <2> QED BY <1>1, <2>1
  <1> QED BY <1>1, <1>2

\* The public service directions of a route are all of it or none, on its two
\* directions, and a direction is named from the label linked to it towards the
\* other one's, whatever the page's labels and the map's names are
\* (LabelsNameDirections).
THEOREM LabelsNameWays == Spec => []LabelsNameDirections
  <1>1. Types /\ CompleteOrNothing => LabelsNameDirections
    <2> SUFFICES ASSUME Types, CompleteOrNothing, index = "done", NEW row \in ToSet(collection.rows)
                 PROVE  LabelsName(row)
      BY Zenon DEF LabelsNameDirections, LabelsName
    <2>1. PICK t \in DOMAIN collection.rows : row = collection.rows[t]
      BY DEF ToSet
    <2>2. t \in Tasks /\ row = Row(RouteSnapshot(Page(t), Placemarks(Page(t))))
      BY <2>1, ExportedRows
    <2>3. PageAssumption(Page(t)) /\ IsSeq(Placemarks(Page(t)))
      BY <2>2, ListedPages DEF Types
    <2> QED BY <2>2, <2>3, RowLabels
  <1> QED BY <1>1, TypesInvariance, CollectsAllOrNothing, PTL

\* Which way a label goes, and how sure that is, is the same whichever way the map
\* lists its placemarks (MapOrderIrrelevant).
THEOREM WaysIgnoreMapOrder == Spec => []MapOrderIrrelevant
  <1>1. Types /\ CompleteOrNothing => MapOrderIrrelevant
    <2> SUFFICES ASSUME Types, CompleteOrNothing, index = "done", NEW t \in DOMAIN collection.rows
                 PROVE  SameWays(collection.rows[t], Page(t), Placemarks(Page(t)))
      BY Zenon DEF MapOrderIrrelevant, SameWays, Way
    <2>1. t \in Tasks /\ collection.rows[t] = Row(RouteSnapshot(Page(t), Placemarks(Page(t))))
      BY ExportedRows
    <2>2. PageAssumption(Page(t)) /\ IsSeq(Placemarks(Page(t)))
      BY <2>1, ListedPages DEF Types
    <2> QED BY <2>1, <2>2, RowWays
  <1> QED BY <1>1, TypesInvariance, CollectsAllOrNothing, PTL

\* An exported route has a direction for every placed placemark of its map, and
\* its segments follow the edges of that from end to end, none longer than
\* MaxLength and the last cumulative distance the length of them all, whatever the
\* lengths of the edges are (SegmentsCoverDirections).
THEOREM SegmentsLeaveNothingOut == Spec => []SegmentsCoverDirections
  <1>1. Types /\ CompleteOrNothing => SegmentsCoverDirections
    <2> SUFFICES ASSUME Types, CompleteOrNothing, index = "done", NEW t \in DOMAIN collection.rows
                 PROVE  CoversMap(collection.rows[t], Page(t), Placemarks(Page(t)))
      BY Zenon DEF SegmentsCoverDirections, CoversMap
    <2>1. t \in Tasks /\ collection.rows[t] = Row(RouteSnapshot(Page(t), Placemarks(Page(t))))
      BY ExportedRows
    <2>2. /\ IsSeq(Placemarks(Page(t)))
          /\ \A i \in Placed(Placemarks(Page(t))) : Placemarks(Page(t))[i].edges \in Seq(Nat)
      BY <2>1, ListedPages DEF Types
    <2> QED BY <2>1, <2>2, RowSegments
  <1> QED BY <1>1, TypesInvariance, CollectsAllOrNothing, PTL
=============================================================================
