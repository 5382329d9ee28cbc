------------------------ MODULE PassengerReadsProofs ------------------------
(***************************************************************************)
(* What passengers are promised, for any number of clients, requests and   *)
(* generations, whatever breaks. The argument is one inductive invariant   *)
(* in four parts: the database shows the current generation (Shown), every *)
(* request is one of the records its place allows and its answer fits what *)
(* was asked (RequestFits), the pool counts the connections that requests  *)
(* hold (PoolCounts), and requests sent to a warm process have its engine  *)
(* (EarlyOrWarm).                                               *)
(***************************************************************************)
EXTENDS PassengerReads, FiniteSetTheorems, TLAPS

-----------------------------------------------------------------------------
(* Publications, as passengers read them *)

\* Passengers read the current generation, which has been published.
Shown ==
    /\ published \subseteq Generations
    /\ current \in published \cup {None}
    /\ view = Shows(current)

\* Requests do not write: a step publishes or leaves the database alone.
LEMMA OnlyPublicationsWrite ==
    ReadsNext => (\E g \in Generations : PublishGeneration(g)) \/ UNCHANGED dbVars
  BY DEF ReadsNext, Send, Advance, BuildStore, FindEngine, CreateEngine, Checkout, CheckoutFails,
         Query, QueryHints, StatementFails, CheckReady, Respond, vars

\* A publication shows the generation it makes current.
LEMMA ShownStep == Shown /\ [ReadsNext]_vars => Shown'
  <1> SUFFICES ASSUME Shown, [ReadsNext]_vars PROVE Shown'
    OBVIOUS
  <1>1. ASSUME NEW g \in Generations, PublishGeneration(g) PROVE Shown'
    BY <1>1, ReadsAssumption DEF Shown, PublishGeneration, Publish, Shows
  <1>2. CASE UNCHANGED dbVars
    BY <1>2 DEF dbVars, publicationVars, Shown, Shows
  <1> QED
    BY <1>1, <1>2, OnlyPublicationsWrite DEF vars

\* What passengers read is always a whole published generation.
LEMMA ShownInvariance == ReadsSpec => []Shown
  <1>1. ReadsInit => Shown
    BY DEF ReadsInit, Init, Shown, Shows
  <1> QED
    BY <1>1, ShownStep, PTL DEF ReadsSpec

\* ADR 0007: a process of readers beside publications is an implementation of
\* Publication, the promise GenerationStore keeps as well.
THEOREM ReadersSeePublications == ReadsSpec => Spec
  <1>1. ReadsInit => Init
    BY DEF ReadsInit
  <1>2. [ReadsNext]_vars => [Next]_publicationVars
    BY OnlyPublicationsWrite DEF PublishGeneration, Next, dbVars, vars
  <1> QED
    BY <1>1, <1>2, PTL DEF ReadsSpec, Spec

-----------------------------------------------------------------------------
(* Datasets *)

\* A generation's entries are typed, one for each route and version.
LEMMA EntriesOf ==
    ASSUME NEW g \in Generations
    PROVE  /\ Dataset[g] \in Views
           /\ \A e \in Dataset[g] : e[1] \in Routes /\ e[2] \in Versions
           /\ \A e, f \in Dataset[g] : e[1] = f[1] \/ e[2] = f[2] => e = f
  BY ReadsAssumption DEF Views

\* Two generations share no version.
LEMMA VersionsDiffer ==
    ASSUME NEW g \in Generations, NEW h \in Generations, g # h,
           NEW e \in Dataset[g], NEW f \in Dataset[h]
    PROVE  e[2] # f[2]
  BY ReadsAssumption DEF VersionsIn

\* What can be shown at a time, of a generation or of none.
LEMMA ShowsTyped ==
    ASSUME NEW g \in Generations \cup {None}
    PROVE  /\ Shows(g) \in Views
           /\ \A e \in Shows(g) : e[1] \in Routes /\ e[2] \in Versions
           /\ \A e, f \in Shows(g) : e[1] = f[1] \/ e[2] = f[2] => e = f
  BY EntriesOf DEF Shows, Views

\* Details are directions of versions shown.
LEMMA DetailsTyped ==
    ASSUME NEW g \in Generations \cup {None}, NEW shown \in SUBSET Shows(g)
    PROVE  /\ Details(shown, Directions) \subseteq AllDirections
           /\ Details(shown, Labelled) \subseteq Details(shown, Directions)
  <1>1. \A e \in shown : e[2] \in Versions
    BY ShowsTyped
  <1> QED
    BY <1>1, ReadsAssumption DEF Details, AllDirections

-----------------------------------------------------------------------------
(* What a request may ask and be answered *)

\* Ids name a route of the generation they were read from, its version there or
\* none, and one of that version's directions or none.
NamesEntry(ids) ==
    /\ ids \in Ids
    /\ ids.from \in Generations
    /\ \E e \in Dataset[ids.from] :
          /\ ids.route = e[1]
          /\ ids.version \in {None, e[2]}
          /\ ids.direction \in Directions[e[2]] \cup {None}

\* What a client holds of its last answer.
HeldFits(ids) == ids = NoIds \/ (NamesEntry(ids) /\ ids.version # None)

AskFits(kind, ids) ==
    /\ kind \notin {"directions", "segments"} => ids = NoIds
    /\ kind = "directions" => NamesEntry(ids)
    /\ kind = "segments" => NamesEntry(ids) /\ ids.version # None /\ ids.direction # None

\* What the first statement of a request answers, by its kind.
AnswerFits(kind, ids, read) ==
    /\ read \in Answers
    /\ read.status \in Statuses \ {"serviceUnavailable", "routeDirectionNotFound"}
    /\ read.shown \subseteq Shows(read.from)
    /\ kind = "search" => read.details = Details(read.shown, Labelled)
    /\ kind = "directions" =>
          /\ read.details = Details(read.shown, Directions)
          /\ \A e \in read.shown : e[1] = ids.route
    /\ kind = "segments" => read.details \subseteq Details(read.shown, Directions)
    /\ ids.version # None => (read.status = "ok" <=> read.from = ids.from)
    /\ read.status = "routeNotFound" <=>
          ids.route # None /\ \A e \in Shows(read.from) : e[1] # ids.route

\* The hints of a nearby answer are those of all it shows, or none once another
\* generation has become current.
HintsFit(read, during) ==
    \/ read.details = Details(read.shown, Labelled)
    \/ read.details = {} /\ \E g \in during : g # read.from

HasAnswer == {"hints", "close", "respond"}

\* A request at any of its places.
RequestFits(r) ==
    /\ r \in Requests
    /\ IsFiniteSet(r.during)
    /\ AskFits(r.kind, r.ids)
    /\ r.at = "idle" => r = NoRequest
    /\ r.at # "idle" => r.kind \in RequestKinds
    /\ r.at \notin {"idle", "build", "ready"} => r.kind # "ready" /\ r.store # None
    /\ r.at \in {"build", "ready", "engine", "create"} => r.engine = None
    /\ r.at \in HasAnswer \cup {"checkout", "query"} => r.engine # None
    /\ r.engine # None => r.engine[1] = r.store
    /\ r.at \notin HasAnswer => r.answer = NoAnswer
    /\ r.at \in HasAnswer =>
          \/ r.answer = Unavailable
          \/ AnswerFits(r.kind, r.ids, r.answer) /\ r.answer.from \in r.during
    /\ r.at = "hints" => r.kind = "nearby" /\ r.answer # Unavailable
    /\ r.at \in {"close", "respond"} /\ r.kind = "nearby" /\ r.answer # Unavailable =>
          HintsFit(r.answer, r.during)

-----------------------------------------------------------------------------
(* What the statements answer *)

\* The current generation is one that can be shown, and what is shown is its.
LEMMA Reading ==
    ASSUME Shown
    PROVE  current \in Generations \cup {None} /\ CurrentRows = Shows(current)
  BY DEF Shown, CurrentRows

\* What the rows found make of an answer.
LEMMA ResultTyped ==
    ASSUME Shown, NEW status \in Statuses, NEW entries \in SUBSET CurrentRows,
           NEW details \in SUBSET AllDirections
    PROVE  Result(status, entries, details) \in Answers
  <1>1. entries \in Views /\ {} \in Views
    BY Reading, ShowsTyped DEF Views
  <1> QED
    BY <1>1, Reading DEF Result, Answers

\* A search shows some of the current routes and the labels of all it shows.
LEMMA SearchFits ==
    ASSUME Shown, NEW kind \in {"search", "nearby"}, NEW read \in Results(kind, NoIds)
    PROVE  /\ AnswerFits(kind, NoIds, read) /\ read.from = current
           /\ kind = "nearby" => read.details = {}
  <1>1. PICK found \in SUBSET CurrentRows :
            \/ kind = "search" /\ read = Result("ok", found, Details(found, Labelled))
            \/ kind = "nearby" /\ read = Result("ok", found, {})
    BY DEF Results, SearchResults, NearbyResults
  <1>2. Details(found, Labelled) \in SUBSET AllDirections
    BY Reading, DetailsTyped
  <1>3. /\ read \in Answers /\ read.status = "ok" /\ read.from = current
        /\ read.shown = found /\ found \subseteq Shows(current)
        /\ kind = "search" => read.details = Details(found, Labelled)
        /\ kind = "nearby" => read.details = {}
    <2>1. "ok" \in Statuses /\ {} \in SUBSET AllDirections
      BY DEF Statuses
    <2>2. read \in Answers
      BY <1>1, <1>2, <2>1, ResultTyped
    <2>3. found \subseteq Shows(current)
      BY Reading
    <2> QED
      BY <1>1, <2>2, <2>3 DEF Result
  <1>4. NoIds.version = None /\ NoIds.route = None
    BY DEF NoIds
  <1> QED
    BY <1>3, <1>4 DEF AnswerFits, Statuses

\* The entries of the requested route: none once it is gone, and otherwise the
\* one its ids were read from exactly while their generation is current.
LEMMA OwnEntries ==
    ASSUME Shown, NEW ids, NamesEntry(ids)
    PROVE  /\ Own(ids) \subseteq Shows(current)
           /\ \A e \in Own(ids) : e[1] = ids.route /\ e[2] \in Versions
           /\ \A e, f \in Own(ids) : e = f
           /\ Own(ids) = {} => current # ids.from
           /\ Own(ids) = {} <=> \A e \in Shows(current) : e[1] # ids.route
           /\ ids.version # None =>
                 (current = ids.from <=> \E e \in Own(ids) : e[2] = ids.version)
           /\ current = ids.from /\ ids.direction # None =>
                 \A e \in Own(ids) : ids.direction \in Directions[e[2]]
  <1>1. current \in Generations \cup {None} /\ Own(ids) = {e \in Shows(current) : e[1] = ids.route}
    BY Reading DEF Own
  <1>2. PICK e0 \in Dataset[ids.from] :
            /\ ids.route = e0[1] /\ ids.version \in {None, e0[2]}
            /\ ids.direction \in Directions[e0[2]] \cup {None}
    BY DEF NamesEntry
  <1>3. ids.from \in Generations /\ ids.from # None
    BY ReadsAssumption DEF NamesEntry
  <1>4. current = ids.from => Own(ids) = {e0}
    BY <1>1, <1>2, <1>3, EntriesOf DEF Shows
  <1>5. \A e \in Own(ids) : current # ids.from => e[2] # e0[2]
    BY <1>1, <1>2, <1>3, VersionsDiffer DEF Shows
  <1>6. ids.version # None => (current = ids.from <=> \E e \in Own(ids) : e[2] = ids.version)
    BY <1>2, <1>4, <1>5
  <1>7. /\ \A e \in Own(ids) : e[1] = ids.route /\ e[2] \in Versions
        /\ \A e, f \in Own(ids) : e = f
    BY <1>1, ShowsTyped
  <1> QED
    BY <1>1, <1>2, <1>4, <1>6, <1>7

\* Direction choices are those of the requested route's current version.
LEMMA ChoicesFit ==
    ASSUME Shown, NEW ids, NamesEntry(ids), NEW read \in Results("directions", ids)
    PROVE  AnswerFits("directions", ids, read) /\ read.from = current
  <1> DEFINE own == Own(ids)
             status == ChoicesStatus(own, ids)
  <1>1. read = Result(status, own, Details(own, Directions))
    BY DEF Results, ChoicesResult
  <1>2. own \in SUBSET CurrentRows /\ own \in SUBSET Shows(current)
    BY OwnEntries DEF Own
  <1>3. Details(own, Directions) \in SUBSET AllDirections
    BY <1>2, Reading, DetailsTyped
  <1>4. status \in {"ok", "routeNotFound", "routeVersionStale"}
    BY DEF ChoicesStatus
  <1>5. /\ own = {} <=> status = "routeNotFound"
        /\ ids.version # None => (status = "ok" <=> current = ids.from)
    BY OwnEntries DEF ChoicesStatus
  <1>6. Details({}, Directions) = {}
    BY DEF Details
  <1>7. ids.route # None
    BY EntriesOf, ReadsAssumption DEF NamesEntry
  <1>8. /\ read \in Answers /\ read.status = status /\ read.from = current
        /\ read.shown \subseteq Shows(current)
        /\ status = "ok" => read.shown = own /\ read.details = Details(own, Directions)
        /\ status # "ok" => read.shown = {} /\ read.details = {}
    <2>1. read \in Answers
      BY <1>1, <1>2, <1>3, <1>4, ResultTyped DEF Statuses
    <2> QED
      BY <1>1, <1>2, <2>1 DEF Result
  <1>9. read.details = Details(read.shown, Directions) /\ \A e \in read.shown : e[1] = ids.route
    <2>1. \A e \in own : e[1] = ids.route
      BY OwnEntries
    <2> QED
      BY <1>6, <1>8, <2>1
  <1>10. status = "routeNotFound" <=> ids.route # None /\ \A e \in Shows(current) : e[1] # ids.route
    BY <1>5, <1>7, OwnEntries
  <1> QED
    BY <1>4, <1>5, <1>8, <1>9, <1>10 DEF AnswerFits, Statuses

\* A version and a direction that were chosen together are served or stale.
LEMMA ContextFits ==
    ASSUME Shown, NEW ids, AskFits("segments", ids), NEW read \in Results("segments", ids)
    PROVE  AnswerFits("segments", ids, read) /\ read.from = current
  <1> DEFINE own == Own(ids)
             status == ContextStatus(own, ids)
  <1>1. read = Result(status, own, {ids.direction})
    BY DEF Results, ContextResult
  <1>2. NamesEntry(ids) /\ ids.version # None /\ ids.direction # None
    BY DEF AskFits
  <1>3. own \in SUBSET CurrentRows /\ own \in SUBSET Shows(current)
    BY <1>2, OwnEntries DEF Own
  <1>4. /\ status \in {"ok", "routeNotFound", "routeVersionStale"}
        /\ own = {} <=> status = "routeNotFound"
        /\ status = "ok" <=> current = ids.from
        /\ status = "ok" => {ids.direction} \subseteq Details(own, Directions)
    <2>1. CASE own = {}
      BY <1>2, <2>1, OwnEntries DEF ContextStatus
    <2>2. CASE own # {} /\ \E e \in own : e[2] # ids.version
      BY <1>2, <2>2, OwnEntries DEF ContextStatus
    <2>3. CASE own # {} /\ \A e \in own : e[2] = ids.version
      <3>1. current = ids.from /\ \A e \in own : ids.direction \in Directions[e[2]]
        BY <1>2, <2>3, OwnEntries
      <3>2. status = "ok"
        BY <2>3, <3>1 DEF ContextStatus
      <3>3. {ids.direction} \subseteq Details(own, Directions)
        BY <2>3, <3>1 DEF Details
      <3> QED
        BY <2>3, <3>1, <3>2, <3>3
    <2> QED
      BY <2>1, <2>2, <2>3
  <1>5. status = "ok" => {ids.direction} \in SUBSET AllDirections
    BY <1>3, <1>4, Reading, DetailsTyped
  <1>6. /\ read \in Answers /\ read.status = status /\ read.from = current
        /\ read.shown \subseteq Shows(current)
        /\ status = "ok" => read.shown = own /\ read.details = {ids.direction}
        /\ status # "ok" => read.shown = {} /\ read.details = {}
    <2>1. read \in Answers
      <3>1. status \in Statuses
        BY <1>4 DEF Statuses
      <3>2. CASE status = "ok"
        BY <1>1, <1>3, <1>5, <3>1, <3>2, ResultTyped
      <3>3. CASE status # "ok"
        <4>1. Result(status, own, {}) \in Answers
          BY <1>3, <3>1, ResultTyped
        <4> QED
          BY <1>1, <3>3, <4>1 DEF Result
      <3> QED
        BY <3>2, <3>3
    <2> QED
      BY <1>1, <1>3, <2>1 DEF Result
  <1>7. read.details \subseteq Details(read.shown, Directions)
    BY <1>4, <1>6
  <1>8. status = "routeNotFound" <=> ids.route # None /\ \A e \in Shows(current) : e[1] # ids.route
    BY <1>2, <1>4, OwnEntries, EntriesOf, ReadsAssumption DEF NamesEntry
  <1> QED
    BY <1>4, <1>6, <1>7, <1>8 DEF AnswerFits, Statuses

\* The second statement of a nearby read finds the hints of all the versions the
\* first one showed, or of none of them once another generation is current.
LEMMA HintsFound ==
    ASSUME Shown, NEW from \in Generations \cup {None}, NEW found \in SUBSET Shows(from)
    PROVE  /\ current = from => HintsOf(found) = Details(found, Labelled)
           /\ current # from => HintsOf(found) = {}
           /\ HintsOf(found) \subseteq AllDirections
  <1> DEFINE again == {e \in CurrentRows : e[2] \in VersionsIn(found)}
  <1>1. again = {e \in Shows(current) : \E f \in found : e[2] = f[2]}
    BY Reading DEF VersionsIn
  <1>2. current = from => again = found
    BY <1>1, ShowsTyped
  <1>3. current # from => again = {}
    BY <1>1, Reading, VersionsDiffer DEF Shows
  <1>4. Details({}, Labelled) = {}
    BY DEF Details
  <1>5. HintsOf(found) = Details(again, Labelled)
    BY DEF HintsOf
  <1>6. Details(found, Labelled) \subseteq AllDirections
    BY DetailsTyped
  <1> QED
    BY <1>2, <1>3, <1>4, <1>5, <1>6

-----------------------------------------------------------------------------
(* A request's steps *)

\* The types of what requests change, but for the pool's counters.
ReadsTypes ==
    /\ cachedStore \in Clients \cup {None}
    /\ engines \in [Clients -> Clients \cup {None}]
    /\ request \in [Clients -> Requests]
    /\ held \in [Clients -> Ids]
    /\ left \in [Clients -> Nat]

\* Nothing is asked and nothing answered before a client sends a request.
LEMMA NothingAsked ==
    RequestFits(NoRequest) /\ NoRequest \in Requests /\ NoIds \in Ids /\ NoAnswer \in Answers
  <1>1. NoAnswer \in Answers /\ NoIds \in Ids
    BY DEF NoAnswer, Answers, NoIds, Ids, Views
  <1>2. NoRequest \in Requests
    BY <1>1 DEF NoRequest, Requests
  <1>3. IsFiniteSet({})
    BY FS_EmptySet
  <1> QED
    BY <1>1, <1>2, <1>3 DEF RequestFits, NoRequest, AskFits, HasAnswer, RequestKinds

\* A failure is an answer of its own.
LEMMA FailureTyped == Unavailable \in Answers /\ Unavailable.status = "serviceUnavailable"
  BY NothingAsked DEF Unavailable, NoAnswer, Answers, Statuses

\* The first statement's answer to a request of any kind.
LEMMA StatementFits ==
    ASSUME Shown, NEW kind \in RequestKinds \ {"ready"}, NEW ids, AskFits(kind, ids),
           NEW read \in Results(kind, ids)
    PROVE  /\ AnswerFits(kind, ids, read) /\ read.from = current
           /\ kind = "nearby" => read.details = {}
  <1>1. CASE kind \in {"search", "nearby"}
    BY <1>1, SearchFits DEF AskFits
  <1>2. CASE kind = "directions"
    BY <1>2, ChoicesFit DEF AskFits
  <1>3. CASE kind = "segments"
    BY <1>3, ContextFits
  <1> QED
    BY <1>1, <1>2, <1>3 DEF RequestKinds

\* A client's own step leaves it a request that fits its place.
LEMMA AdvanceFits ==
    ASSUME ReadsTypes, Shown, NEW c \in Clients, RequestFits(request[c]),
           Open(c) => current \in request[c].during, Advance(c)
    PROVE  \E r : /\ RequestFits(r)
                  /\ request' = [request EXCEPT ![c] = r]
                  /\ r.at # "idle" => r.during = request[c].during
  <1> DEFINE q == request[c]
  <1> SUFFICES ASSUME TRUE
               PROVE  \E r : /\ RequestFits(r)
                             /\ request' = [request EXCEPT ![c] = r]
                             /\ r.at # "idle" => r.during = q.during
    OBVIOUS
  <1>0. /\ q \in Requests /\ RequestFits(q) /\ IsFiniteSet(q.during)
        /\ q.answer \in Answers /\ q.ids \in Ids
        /\ current \in Generations \cup {None}
    BY Reading DEF ReadsTypes, RequestFits, Requests
  <1> USE DEF At
  <1>1. CASE BuildStore(c)
    <2> DEFINE r == [q EXCEPT !.at = AfterStore(q.kind), !.store = c]
    <2>1. request' = [request EXCEPT ![c] = r] /\ q.at = "build"
      BY <1>1 DEF BuildStore, ReadsTypes
    <2>2. RequestFits(r)
      BY <1>0, <2>1, ReadsAssumption DEF RequestFits, Requests, AfterStore, HasAnswer
    <2>3. r.during = q.during
      BY <1>0 DEF Requests
    <2> HIDE DEF r
    <2> QED
      BY <2>1, <2>2, <2>3
  <1>2. CASE FindEngine(c)
    <2>1. q.at = "engine" /\ q.store \in Clients
      BY <1>0, <1>2 DEF FindEngine, RequestFits, Requests
    <2>2. CASE engines[q.store] = None
      <3> DEFINE r == [q EXCEPT !.at = "create"]
      <3>1. request' = [request EXCEPT ![c] = r]
        BY <1>2, <2>2 DEF FindEngine, ReadsTypes
      <3>2. RequestFits(r)
        BY <1>0, <2>1 DEF RequestFits, Requests, HasAnswer
      <3>3. r.during = q.during
        BY <1>0 DEF Requests
      <3> HIDE DEF r
      <3> QED
        BY <3>1, <3>2, <3>3
    <2>3. CASE engines[q.store] # None
      <3> DEFINE e == <<q.store, engines[q.store]>>
                 r == [q EXCEPT !.at = "checkout", !.engine = e]
      <3>1. request' = [request EXCEPT ![c] = r]
        BY <1>2, <2>3 DEF FindEngine, ReadsTypes
      <3>2. e \in Engines
        BY <2>1, <2>3 DEF ReadsTypes, Engines
      <3>3. e # None /\ e[1] = q.store
        BY <3>2, ReadsAssumption DEF Engines
      <3> HIDE DEF e
      <3>4. RequestFits(r)
        BY <1>0, <2>1, <3>2, <3>3 DEF RequestFits, Requests, HasAnswer
      <3>5. r.during = q.during
        BY <1>0 DEF Requests
      <3> HIDE DEF r
      <3> QED
        BY <3>1, <3>4, <3>5 DEF e
    <2> QED
      BY <2>2, <2>3
  <1>3. CASE CreateEngine(c)
    <2> DEFINE r == [q EXCEPT !.at = "engine"]
    <2>1. request' = [request EXCEPT ![c] = r] /\ q.at = "create"
      BY <1>3 DEF CreateEngine, ReadsTypes
    <2>2. RequestFits(r)
      BY <1>0, <2>1 DEF RequestFits, Requests, HasAnswer
    <2>3. r.during = q.during
      BY <1>0 DEF Requests
    <2> HIDE DEF r
    <2> QED
      BY <2>1, <2>2, <2>3
  <1>4. CASE Checkout(c)
    <2> DEFINE r == [q EXCEPT !.at = "query"]
    <2>1. request' = [request EXCEPT ![c] = r] /\ q.at = "checkout"
      BY <1>4 DEF Checkout, ReadsTypes
    <2>2. RequestFits(r)
      BY <1>0, <2>1 DEF RequestFits, Requests, HasAnswer
    <2>3. r.during = q.during
      BY <1>0 DEF Requests
    <2> HIDE DEF r
    <2> QED
      BY <2>1, <2>2, <2>3
  <1>5. CASE CheckoutFails(c)
    <2> DEFINE r == [q EXCEPT !.at = "respond", !.answer = Unavailable]
    <2>1. request' = [request EXCEPT ![c] = r] /\ q.at = "checkout"
      BY <1>5 DEF CheckoutFails, WithoutConnection, ReadsTypes
    <2>2. RequestFits(r)
      BY <1>0, <2>1, FailureTyped DEF RequestFits, Requests, HasAnswer
    <2>3. r.during = q.during
      BY <1>0 DEF Requests
    <2> HIDE DEF r
    <2> QED
      BY <2>1, <2>2, <2>3
  <1>6. CASE Query(c)
    <2>1. PICK read \in Results(q.kind, q.ids) :
              request' = [request EXCEPT ![c] = [q EXCEPT !.answer = read,
                 !.at = IF q.kind = "nearby" /\ read.shown # {} THEN "hints" ELSE "close"]]
      BY <1>6 DEF Query, ReadsTypes
    <2> DEFINE place == IF q.kind = "nearby" /\ read.shown # {} THEN "hints" ELSE "close"
               r == [q EXCEPT !.answer = read, !.at = place]
    <2>2. q.at = "query" /\ q.kind \in RequestKinds \ {"ready"} /\ current \in q.during
      BY <1>0, <1>6 DEF Query, RequestFits, Open
    <2>3. /\ AnswerFits(q.kind, q.ids, read) /\ read.from = current
          /\ q.kind = "nearby" => read.details = {}
      BY <1>0, <2>2, StatementFits DEF RequestFits
    <2>4. read \in Answers /\ read # Unavailable
      BY <2>3, FailureTyped DEF AnswerFits
    <2>5. place = "close" /\ q.kind = "nearby" => HintsFit(read, q.during)
      BY <2>3 DEF HintsFit, Details
    <2>6. place \in {"hints", "close"} /\ (place = "hints" => q.kind = "nearby")
      OBVIOUS
    <2>7. request' = [request EXCEPT ![c] = r]
      BY <2>1
    <2> HIDE DEF place
    <2>8. RequestFits(r)
      BY <1>0, <2>2, <2>3, <2>4, <2>5, <2>6 DEF RequestFits, Requests, HasAnswer
    <2>9. r.during = q.during
      BY <1>0 DEF Requests
    <2> HIDE DEF r
    <2> QED
      BY <2>7, <2>8, <2>9
  <1>7. CASE QueryHints(c)
    <2> DEFINE read == [q.answer EXCEPT !.details = HintsOf(q.answer.shown)]
               r == [q EXCEPT !.at = "close", !.answer = read]
    <2>1. request' = [request EXCEPT ![c] = r] /\ q.at = "hints"
      BY <1>7 DEF QueryHints, ReadsTypes
    <2>2. /\ AnswerFits(q.kind, q.ids, q.answer) /\ q.kind = "nearby"
          /\ q.answer.from \in q.during /\ current \in q.during
      BY <1>0, <2>1 DEF RequestFits, HasAnswer, Open
    <2>3. q.answer.from \in Generations \cup {None} /\ q.answer.shown \in SUBSET Shows(q.answer.from)
      BY <1>0, <2>2 DEF AnswerFits, Answers
    <2>4. /\ current = q.answer.from => HintsOf(q.answer.shown) = Details(q.answer.shown, Labelled)
          /\ current # q.answer.from => HintsOf(q.answer.shown) = {}
          /\ HintsOf(q.answer.shown) \subseteq AllDirections
      BY <2>3, HintsFound
    <2>5. /\ read \in Answers /\ read.details = HintsOf(q.answer.shown)
          /\ read.shown = q.answer.shown /\ read.from = q.answer.from
          /\ read.status = q.answer.status
      BY <1>0, <2>4 DEF Answers
    <2> HIDE DEF read
    <2>6. HintsFit(read, q.during)
      BY <2>2, <2>4, <2>5 DEF HintsFit
    <2>7. AnswerFits(q.kind, q.ids, read)
      BY <2>2, <2>5 DEF AnswerFits
    <2>8. RequestFits(r)
      BY <1>0, <2>1, <2>2, <2>5, <2>6, <2>7 DEF RequestFits, Requests, HasAnswer
    <2>9. r.during = q.during
      BY <1>0 DEF Requests
    <2> HIDE DEF r
    <2> QED
      BY <2>1, <2>8, <2>9 DEF read
  <1>8. CASE StatementFails(c)
    <2> DEFINE r == [q EXCEPT !.at = "close", !.answer = Unavailable]
    <2>1. request' = [request EXCEPT ![c] = r] /\ q.at \in {"query", "hints"}
      BY <1>8 DEF StatementFails, AfterFailure, ReadsTypes
    <2>2. RequestFits(r)
      BY <1>0, <2>1, FailureTyped DEF RequestFits, Requests, HasAnswer
    <2>3. r.during = q.during
      BY <1>0 DEF Requests
    <2> HIDE DEF r
    <2> QED
      BY <2>1, <2>2, <2>3
  <1>9. CASE CheckReady(c) \/ Respond(c)
    <2>1. request' = [request EXCEPT ![c] = NoRequest]
      BY <1>9 DEF CheckReady, Respond
    <2>2. RequestFits(NoRequest) /\ NoRequest.at = "idle"
      BY NothingAsked DEF NoRequest
    <2> QED
      BY <2>1, <2>2
  <1> QED
    BY <1>1, <1>2, <1>3, <1>4, <1>5, <1>6, <1>7, <1>8, <1>9 DEF Advance

\* What the answer of a client's last request left it with.
LEMMA KeepsFit ==
    ASSUME ReadsTypes, NEW c \in Clients, RequestFits(request[c]), HeldFits(held[c]),
           At(c, "close") \/ At(c, "respond"), NEW ids \in Keeps(c)
    PROVE  HeldFits(ids) /\ ids \in Ids
  <1> DEFINE q == request[c]
             read == q.answer
             From(e, d) == [route |-> e[1], version |-> e[2], direction |-> d, from |-> read.from]
  <1>1. \/ ids = NoIds
        \/ ids = held[c]
        \/ /\ read.status = "ok"
           /\ \E e \in read.shown : \E d \in read.details \cup {None} :
                 ids = From(e, d) /\ (d # None => q.kind = "directions")
    BY DEF Keeps
  <1>2. read.status = "ok" => AnswerFits(q.kind, q.ids, read)
    BY FailureTyped DEF At, RequestFits, HasAnswer
  <1>3. ASSUME read.status = "ok", NEW e \in read.shown
        PROVE  /\ read.from \in Generations /\ e \in Dataset[read.from]
               /\ e[1] \in Routes /\ e[2] \in Versions /\ e[2] # None
    <2>1. read.from \in Generations \cup {None} /\ e \in Shows(read.from)
      BY <1>2, <1>3 DEF AnswerFits, Answers
    <2> QED
      BY <2>1, ShowsTyped, ReadsAssumption DEF Shows
  <1>4. ASSUME read.status = "ok", NEW e \in read.shown,
               NEW d \in Directions[e[2]] \cup {None}, ids = From(e, d)
        PROVE  HeldFits(ids) /\ ids \in Ids
    <2>1. d \in AllDirections \cup {None}
      BY <1>3, <1>4 DEF AllDirections
    <2>2. /\ ids.route = e[1] /\ ids.version = e[2] /\ ids.direction = d /\ ids.from = read.from
          /\ ids \in Ids
      BY <1>3, <1>4, <2>1 DEF Ids
    <2> QED
      BY <1>3, <1>4, <2>2 DEF HeldFits, NamesEntry
  <1>5. ASSUME read.status = "ok", q.kind = "directions",
               NEW e \in read.shown, NEW d \in read.details
        PROVE  d \in Directions[e[2]]
    <2>1. \A f \in read.shown : f[1] = e[1]
      BY <1>2, <1>5 DEF AnswerFits
    <2>2. \A f \in read.shown : f = e
      BY <1>2, <1>3, <1>5, <2>1, EntriesOf
    <2> QED
      BY <1>2, <1>5, <2>2 DEF AnswerFits, Details
  <1>6. HeldFits(NoIds) /\ NoIds \in Ids /\ held[c] \in Ids
    BY NothingAsked DEF HeldFits, ReadsTypes
  <1>7. ASSUME read.status = "ok", NEW e \in read.shown, NEW d \in read.details \cup {None},
               ids = From(e, d), d # None => q.kind = "directions"
        PROVE  HeldFits(ids) /\ ids \in Ids
    BY <1>4, <1>5, <1>7
  <1> HIDE DEF From, read
  <1> QED
    BY <1>1, <1>6, <1>7

\* Nothing that a request found out is undone by a publication.
LEMMA PublicationFits ==
    ASSUME NEW g \in Generations, NEW r, RequestFits(r), r.at # "idle"
    PROVE  RequestFits([r EXCEPT !.during = @ \cup {g}])
  <1>1. r \in Requests /\ IsFiniteSet(r.during)
    BY DEF RequestFits
  <1>2. IsFiniteSet(r.during \cup {g})
    BY <1>1, FS_AddElement
  <1> DEFINE q == [r EXCEPT !.during = @ \cup {g}]
  <1>3. /\ q \in Requests /\ q.during = r.during \cup {g}
        /\ q.at = r.at /\ q.kind = r.kind /\ q.ids = r.ids /\ q.store = r.store
        /\ q.engine = r.engine /\ q.answer = r.answer
    BY <1>1 DEF Requests
  <1>4. q.at # "idle"
    BY <1>3 DEF RequestFits
  <1> HIDE DEF q
  <1>5. RequestFits(q)
    BY <1>2, <1>3, <1>4 DEF RequestFits, HintsFit
  <1> QED
    BY <1>5 DEF q

\* A client asks with what it holds, of which it may leave the version away.
LEMMA AskableFits ==
    ASSUME ReadsTypes, NEW c \in Clients, HeldFits(held[c]),
           NEW kind \in RequestKinds, NEW ids \in Askable(c, kind)
    PROVE  AskFits(kind, ids) /\ ids \in Ids
  <1>1. held[c] \in Ids
    BY DEF ReadsTypes
  <1>2. CASE kind = "directions"
    <2>1. ids \in {held[c], [held[c] EXCEPT !.version = None]} /\ ids.route # None
      BY <1>2 DEF Askable
    <2>2. NamesEntry(held[c])
      BY <1>1, <2>1 DEF HeldFits, NoIds
    <2> QED
      BY <1>1, <1>2, <2>1, <2>2 DEF AskFits, NamesEntry, Ids
  <1>3. CASE kind = "segments"
    BY <1>1, <1>3 DEF Askable, AskFits, HeldFits, NoIds
  <1>4. CASE kind \in {"ready", "search", "nearby"}
    BY <1>4, NothingAsked DEF Askable, AskFits
  <1> QED
    BY <1>2, <1>3, <1>4 DEF RequestKinds

\* A request begins with nothing but its ids and the current generation.
LEMMA SendFits ==
    ASSUME ReadsTypes, Shown, NEW c \in Clients, HeldFits(held[c]),
           NEW kind \in Kinds[c], NEW ids \in Askable(c, kind), Send(c, kind, ids)
    PROVE  \E r : /\ RequestFits(r)
                  /\ request' = [request EXCEPT ![c] = r]
                  /\ r.during = {current}
  <1> DEFINE early == ~Warm \/ \E d \in Clients : Open(d) /\ request[d].early
             start == CacheLookup(kind)
             r == [start EXCEPT !.kind = kind, !.ids = ids, !.during = {current}, !.early = early]
  <1>1. request' = [request EXCEPT ![c] = r]
    BY DEF Send
  <1>2. early \in BOOLEAN
    OBVIOUS
  <1>3. kind \in RequestKinds /\ AskFits(kind, ids) /\ ids \in Ids
    BY AskableFits, ReadsAssumption
  <1>4. /\ {current} \in SUBSET (Generations \cup {None}) /\ IsFiniteSet({current})
    BY Reading, FS_Singleton
  <1>5. /\ start \in Requests /\ start.at \in {"build", "ready", "engine"}
        /\ start.at = "ready" <=> kind = "ready" /\ start.at # "build"
        /\ start.at # "build" => start.store # None
        /\ start.engine = None /\ start.answer = NoAnswer
    BY NothingAsked, <1>3 DEF CacheLookup, AfterStore, ReadsTypes, Requests, NoRequest
  <1> HIDE DEF early, start
  <1>6. RequestFits(r)
    BY <1>2, <1>3, <1>4, <1>5 DEF RequestFits, Requests, HasAnswer
  <1>7. r.during = {current}
    BY <1>5 DEF Requests
  <1> HIDE DEF r
  <1> QED
    BY <1>1, <1>6, <1>7

-----------------------------------------------------------------------------
(* Every request fits *)

\* Requests fit their places, have seen what is current, and clients hold ids of
\* generations that were.
RequestsFit ==
    \A c \in Clients :
       /\ RequestFits(request[c])
       /\ Open(c) => current \in request[c].during
       /\ HeldFits(held[c])

\* A step keeps the types of the state.
LEMMA ReadsTypesStep ==
    ReadsTypes /\ RequestsFit /\ Shown /\ [ReadsNext]_vars => ReadsTypes'
  <1> SUFFICES ASSUME ReadsTypes, RequestsFit, Shown, [ReadsNext]_vars PROVE ReadsTypes'
    OBVIOUS
  <1>1. ASSUME NEW g \in Generations, PublishGeneration(g) PROVE ReadsTypes'
    <2>1. \A c \in Clients :
              [request[c] EXCEPT !.during = IF Open(c) THEN @ \cup {g} ELSE @] \in Requests
      BY DEF ReadsTypes, Requests
    <2> QED
      BY <1>1, <2>1 DEF PublishGeneration, ReadsTypes, poolVars
  <1>2. ASSUME NEW c \in Clients, NEW kind \in Kinds[c], NEW ids \in Askable(c, kind),
               Send(c, kind, ids)
        PROVE  ReadsTypes'
    <2>1. PICK r : RequestFits(r) /\ request' = [request EXCEPT ![c] = r]
      BY <1>2, SendFits DEF RequestsFit
    <2>2. request' \in [Clients -> Requests]
      BY <2>1 DEF RequestFits, ReadsTypes
    <2>3. left' \in [Clients -> Nat]
      BY <1>2 DEF Send, ReadsTypes
    <2> QED
      BY <1>2, <2>2, <2>3 DEF Send, ReadsTypes, poolVars
  <1>3. ASSUME NEW c \in Clients, Advance(c) PROVE ReadsTypes'
    <2>1. PICK r : RequestFits(r) /\ request' = [request EXCEPT ![c] = r]
      BY <1>3, AdvanceFits DEF RequestsFit
    <2>2. request' \in [Clients -> Requests]
      BY <2>1 DEF RequestFits, ReadsTypes
    <2>3. left' = left
      BY <1>3 DEF Advance, BuildStore, FindEngine, CreateEngine, Checkout, CheckoutFails, Query,
                  QueryHints, StatementFails, CheckReady, Respond
    <2>4. cachedStore' \in Clients \cup {None}
      BY <1>3 DEF Advance, BuildStore, FindEngine, CreateEngine, Checkout, CheckoutFails, Query,
                  QueryHints, StatementFails, CheckReady, Respond, poolVars, ReadsTypes
    <2>5. engines' \in [Clients -> Clients \cup {None}]
      BY <1>3 DEF Advance, BuildStore, FindEngine, CreateEngine, Checkout, CheckoutFails, Query,
                  QueryHints, StatementFails, CheckReady, Respond, poolVars, ReadsTypes
    <2>6. held' \in [Clients -> Ids]
      <3>1. ASSUME Respond(c) PROVE held' \in [Clients -> Ids]
        <4>1. PICK ids \in Keeps(c) : held' = [held EXCEPT ![c] = ids]
          BY <3>1 DEF Respond
        <4>2. ids \in Ids
          BY <3>1, KeepsFit DEF Respond, RequestsFit
        <4> QED
          BY <4>1, <4>2 DEF ReadsTypes
      <3> QED
        BY <1>3, <3>1 DEF Advance, BuildStore, FindEngine, CreateEngine, Checkout, CheckoutFails,
                          Query, QueryHints, StatementFails, CheckReady, ReadsTypes
    <2> QED
      BY <2>2, <2>3, <2>4, <2>5, <2>6 DEF ReadsTypes
  <1>4. CASE UNCHANGED vars
    BY <1>4 DEF vars, poolVars, ReadsTypes
  <1> QED
    BY <1>1, <1>2, <1>3, <1>4 DEF ReadsNext

\* A step changes the request of one client at most, but for publications, which
\* every open request notes.
LEMMA RequestsFitStep ==
    ReadsTypes /\ RequestsFit /\ Shown /\ [ReadsNext]_vars => RequestsFit'
  <1> SUFFICES ASSUME ReadsTypes, RequestsFit, Shown, [ReadsNext]_vars PROVE RequestsFit'
    OBVIOUS
  <1>1. ASSUME NEW g \in Generations, PublishGeneration(g) PROVE RequestsFit'
    <2> SUFFICES ASSUME NEW c \in Clients
                 PROVE  (/\ RequestFits(request[c])
                         /\ Open(c) => current \in request[c].during
                         /\ HeldFits(held[c]))'
      BY DEF RequestsFit
    <2>1. RequestFits(request[c]) /\ HeldFits(held[c]) /\ request[c] \in Requests
      BY DEF RequestsFit, ReadsTypes
    <2>2. request'[c] = [request[c] EXCEPT !.during = IF Open(c) THEN @ \cup {g} ELSE @]
      BY <1>1 DEF PublishGeneration
    <2>3. CASE Open(c)
      <3>1. request'[c] = [request[c] EXCEPT !.during = @ \cup {g}]
        BY <2>2, <2>3
      <3>2. RequestFits(request'[c])
        BY <2>1, <2>3, <3>1, PublicationFits DEF Open, At
      <3>3. current' = g /\ g \in request'[c].during
        BY <1>1, <2>1, <3>1 DEF PublishGeneration, Publish, Requests
      <3> QED
        BY <1>1, <2>1, <3>2, <3>3 DEF PublishGeneration
    <2>4. CASE ~Open(c)
      <3>1. request'[c] = request[c]
        BY <2>1, <2>2, <2>4 DEF Requests
      <3> QED
        BY <1>1, <2>1, <2>4, <3>1 DEF PublishGeneration, Open, At
    <2> QED
      BY <2>3, <2>4
  <1>2. ASSUME NEW c \in Clients, NEW r, RequestFits(r), request' = [request EXCEPT ![c] = r],
               r.at # "idle" => current \in r.during, UNCHANGED dbVars,
               \/ UNCHANGED held
               \/ \E ids : HeldFits(ids) /\ held' = [held EXCEPT ![c] = ids]
        PROVE  RequestsFit'
    <2>1. current' = current
      BY <1>2 DEF dbVars, publicationVars
    <2> QED
      BY <1>2, <2>1 DEF RequestsFit, ReadsTypes, Open, At
  <1>3. ASSUME NEW c \in Clients, NEW kind \in Kinds[c], NEW ids \in Askable(c, kind),
               Send(c, kind, ids)
        PROVE  RequestsFit'
    <2>1. PICK r : RequestFits(r) /\ request' = [request EXCEPT ![c] = r] /\ r.during = {current}
      BY <1>3, SendFits DEF RequestsFit
    <2>2. UNCHANGED <<dbVars, held>>
      BY <1>3 DEF Send
    <2> QED
      BY <1>2, <2>1, <2>2
  <1>4. ASSUME NEW c \in Clients, Advance(c) PROVE RequestsFit'
    <2>1. PICK r : /\ RequestFits(r) /\ request' = [request EXCEPT ![c] = r]
                   /\ r.at # "idle" => r.during = request[c].during
      BY <1>4, AdvanceFits DEF RequestsFit
    <2>2. r.at # "idle" => Open(c)
      <3>1. CASE CheckReady(c) \/ Respond(c)
        BY <3>1 DEF CheckReady, Respond, Open, At
      <3>2. CASE ~(CheckReady(c) \/ Respond(c))
        BY <1>4, <3>2 DEF Advance, BuildStore, FindEngine, CreateEngine, Checkout, CheckoutFails,
                          Query, QueryHints, StatementFails, Open, At
      <3> QED
        BY <3>1, <3>2
    <2>3. r.at # "idle" => current \in r.during
      BY <2>1, <2>2 DEF RequestsFit
    <2>4. UNCHANGED dbVars
      BY <1>4 DEF Advance, BuildStore, FindEngine, CreateEngine, Checkout, CheckoutFails, Query,
                  QueryHints, StatementFails, CheckReady, Respond
    <2>5. \/ UNCHANGED held
          \/ \E ids : HeldFits(ids) /\ held' = [held EXCEPT ![c] = ids]
      <3>1. ASSUME Respond(c)
            PROVE  \E ids : HeldFits(ids) /\ held' = [held EXCEPT ![c] = ids]
        BY <3>1, KeepsFit DEF Respond, RequestsFit
      <3> QED
        BY <1>4, <3>1 DEF Advance, BuildStore, FindEngine, CreateEngine, Checkout, CheckoutFails,
                          Query, QueryHints, StatementFails, CheckReady
    <2> QED
      BY <1>2, <2>1, <2>3, <2>4, <2>5
  <1>5. CASE UNCHANGED vars
    BY <1>5 DEF vars, dbVars, publicationVars, RequestsFit, Open, At
  <1> QED
    BY <1>1, <1>3, <1>4, <1>5 DEF ReadsNext

\* The database, the types and the requests go together.
LEMMA RequestsFitInvariance == ReadsSpec => [](Shown /\ ReadsTypes /\ RequestsFit)
  <1>1. ReadsInit => Shown /\ ReadsTypes /\ RequestsFit
    <2> SUFFICES ASSUME ReadsInit PROVE Shown /\ ReadsTypes /\ RequestsFit
      OBVIOUS
    <2>1. Shown
      BY DEF ReadsInit, Init, Shown, Shows
    <2>2. ReadsTypes
      BY NothingAsked, ReadsAssumption DEF ReadsInit, ReadsTypes
    <2>3. RequestsFit
      BY NothingAsked DEF ReadsInit, RequestsFit, HeldFits, Open, At, NoRequest
    <2> QED
      BY <2>1, <2>2, <2>3
  <1> QED
    BY <1>1, ShownStep, ReadsTypesStep, RequestsFitStep, PTL DEF ReadsSpec

-----------------------------------------------------------------------------
(* What passengers are answered *)

\* A request with an answer that is no failure.
LEMMA AnswerOf ==
    ASSUME RequestsFit, NEW c \in Clients, Answered(c),
           request[c].answer.status # "serviceUnavailable"
    PROVE  /\ AnswerFits(request[c].kind, request[c].ids, request[c].answer)
           /\ request[c].answer.from \in request[c].during
           /\ request[c].kind = "nearby" => HintsFit(request[c].answer, request[c].during)
           /\ AskFits(request[c].kind, request[c].ids)
  <1>1. RequestFits(request[c]) /\ request[c].answer # Unavailable
    BY FailureTyped DEF RequestsFit
  <1> QED
    BY <1>1 DEF RequestFits, Answered, HasAnswer

\* Two generations were current while a request ran whose during holds both.
LEMMA TwoCurrent ==
    ASSUME NEW during, IsFiniteSet(during), NEW g \in during, NEW h \in during, g # h
    PROVE  Cardinality(during) > 1
  <1>1. IsFiniteSet({g}) /\ Cardinality({g}) = 1
    BY FS_Singleton
  <1>2. IsFiniteSet({g} \cup {h}) /\ Cardinality({g} \cup {h}) = 2
    BY <1>1, FS_AddElement
  <1>3. {g} \cup {h} \in SUBSET during
    OBVIOUS
  <1>4. Cardinality({g} \cup {h}) <= Cardinality(during)
    BY <1>3, FS_Subset
  <1>5. Cardinality(during) \in Nat
    BY FS_CardinalityType
  <1> QED
    BY <1>2, <1>4, <1>5

\* ADR 0007: an answer shows rows of one generation that was current while it was
\* made, whatever is published meanwhile.
THEOREM AnswersShowOneGeneration == ReadsSpec => []AnswersWereCurrent
  <1>1. RequestsFit => AnswersWereCurrent
    <2> SUFFICES ASSUME RequestsFit, NEW c \in Clients, Served(c)
                 PROVE  LET read == request[c].answer IN
                        /\ \E g \in request[c].during : read.shown \subseteq Shows(g)
                        /\ request[c].kind = "search" =>
                              read.details = Details(read.shown, Labelled)
                        /\ request[c].kind = "directions" =>
                              read.details = Details(read.shown, Directions)
                        /\ request[c].kind = "segments" =>
                              read.details \subseteq Details(read.shown, Directions)
      BY DEF AnswersWereCurrent
    <2>1. Answered(c) /\ request[c].answer.status # "serviceUnavailable"
      BY DEF Served
    <2> QED
      BY <2>1, AnswerOf DEF AnswerFits
  <1> QED
    BY <1>1, RequestsFitInvariance, PTL

\* The hints of nearby routes are all there, or none are and a publication came in
\* between the two statements of the request.
THEOREM HintsTogether == ReadsSpec => []HintsAllOrNone
  <1>1. RequestsFit => HintsAllOrNone
    <2> SUFFICES ASSUME RequestsFit, NEW c \in Clients, Served(c), request[c].kind = "nearby"
                 PROVE  LET read == request[c].answer IN
                        \/ read.details = Details(read.shown, Labelled)
                        \/ read.details = {} /\ Cardinality(request[c].during) > 1
      BY DEF HintsAllOrNone
    <2>1. Answered(c) /\ request[c].answer.status # "serviceUnavailable"
      BY DEF Served
    <2>2. /\ HintsFit(request[c].answer, request[c].during)
          /\ request[c].answer.from \in request[c].during
      BY <2>1, AnswerOf
    <2>3. IsFiniteSet(request[c].during)
      BY DEF RequestsFit, RequestFits
    <2> QED
      BY <2>2, <2>3, TwoCurrent DEF HintsFit
  <1> QED
    BY <1>1, RequestsFitInvariance, PTL

\* Ids of one answer used together are served while their generation is current,
\* and afterwards refused as stale or gone, never as naming no direction.
THEOREM RefusalsMeanPublications == ReadsSpec => []ClientsLearnOfPublications
  <1>1. RequestsFit => ClientsLearnOfPublications
    <2> SUFFICES ASSUME RequestsFit, NEW c \in Clients, Answered(c),
                        request[c].answer.status # "serviceUnavailable"
                 PROVE  LET ids  == request[c].ids
                            read == request[c].answer
                        IN  /\ read.status # "routeDirectionNotFound"
                            /\ ids.version # None => (read.status = "ok" <=> read.from = ids.from)
                            /\ read.status = "routeNotFound" <=>
                                  ids.route # None /\ \A e \in Shows(read.from) : e[1] # ids.route
      BY DEF ClientsLearnOfPublications
    <2>1. AnswerFits(request[c].kind, request[c].ids, request[c].answer)
      BY AnswerOf
    <2> QED
      BY <2>1 DEF AnswerFits
  <1> QED
    BY <1>1, RequestsFitInvariance, PTL

-----------------------------------------------------------------------------
(* The pool *)

\* The requests that hold a connection of an engine's pool.
Holding(e) ==
    {c \in Clients : request[c].engine = e /\ request[c].at \in {"query", "hints", "close"}}

\* The pool hands out a connection to each of them and to nobody else.
PoolCounts ==
    /\ checkedOut \in [Engines -> 0..PoolSize]
    /\ \A e \in Engines : IsFiniteSet(Holding(e)) /\ checkedOut[e] = Cardinality(Holding(e))

\* A step that neither takes nor gives back a connection.
LEMMA PoolUntouched ==
    ASSUME PoolCounts, UNCHANGED checkedOut,
           \A c \in Clients :
              \/ request'[c].engine = request[c].engine /\
                 (request'[c].at \in {"query", "hints", "close"} <=>
                     request[c].at \in {"query", "hints", "close"})
              \/ {request[c].at, request'[c].at} \cap {"query", "hints", "close"} = {}
    PROVE  PoolCounts'
  <1>1. \A e \in Engines : Holding(e)' = Holding(e)
    BY DEF Holding
  <1> QED
    BY <1>1 DEF PoolCounts

\* A request takes its engine's connection where there is one and gives back what
\* it holds when its session closes.
LEMMA PoolCountsStep ==
    ReadsTypes /\ RequestsFit /\ PoolCounts /\ [ReadsNext]_vars => PoolCounts'
  <1> SUFFICES ASSUME ReadsTypes, RequestsFit, PoolCounts, [ReadsNext]_vars PROVE PoolCounts'
    OBVIOUS
  <1>0. \A c \in Clients : request[c] \in Requests
    BY DEF ReadsTypes
  <1>1. ASSUME NEW g \in Generations, PublishGeneration(g) PROVE PoolCounts'
    <2>1. \A c \in Clients : request'[c].engine = request[c].engine /\ request'[c].at = request[c].at
      BY <1>0, <1>1 DEF PublishGeneration, Requests
    <2> QED
      BY <1>1, <2>1, PoolUntouched DEF PublishGeneration, poolVars
  <1>2. ASSUME NEW c \in Clients, UNCHANGED checkedOut, NEW r, request' = [request EXCEPT ![c] = r],
               \/ {request[c].at, r.at} \cap {"query", "hints", "close"} = {}
               \/ /\ r.engine = request[c].engine
                  /\ {request[c].at, r.at} \subseteq {"query", "hints", "close"}
        PROVE  PoolCounts'
    <2>1. \A d \in Clients : request'[d] = IF d = c THEN r ELSE request[d]
      BY <1>2 DEF ReadsTypes
    <2>2. \A d \in Clients :
              \/ request'[d].engine = request[d].engine /\
                 (request'[d].at \in {"query", "hints", "close"} <=>
                     request[d].at \in {"query", "hints", "close"})
              \/ {request[d].at, request'[d].at} \cap {"query", "hints", "close"} = {}
      BY <1>2, <2>1
    <2> QED
      BY <1>2, <2>2, PoolUntouched
  <1>3. ASSUME NEW c \in Clients, NEW kind \in Kinds[c], NEW ids \in Askable(c, kind),
               Send(c, kind, ids)
        PROVE  PoolCounts'
    <2> DEFINE r == [CacheLookup(kind) EXCEPT !.kind = kind, !.ids = ids, !.during = {current},
                        !.early = ~Warm \/ \E d \in Clients : Open(d) /\ request[d].early]
    <2>1. request' = [request EXCEPT ![c] = r] /\ request[c].at = "idle" /\ UNCHANGED checkedOut
      BY <1>3 DEF Send, At, poolVars
    <2>2. r.at \in {"build", "ready", "engine"}
      BY DEF CacheLookup, AfterStore, NoRequest
    <2> HIDE DEF r
    <2> QED
      BY <1>2, <2>1, <2>2
  <1>4. ASSUME NEW c \in Clients, Checkout(c) PROVE PoolCounts'
    <2>0. PICK e \in Engines : e = request[c].engine
      BY <1>0, <1>4 DEF Checkout, At, RequestsFit, RequestFits, Requests
    <2>1. /\ request[c].at = "checkout"
          /\ checkedOut[e] < PoolSize /\ checkedOut' = [checkedOut EXCEPT ![e] = @ + 1]
          /\ request' = [request EXCEPT ![c] = [request[c] EXCEPT !.at = "query"]]
      BY <1>4, <2>0 DEF Checkout, HasConnection, At, ReadsTypes
    <2>2. /\ request'[c].engine = e /\ request'[c].at = "query"
          /\ \A d \in Clients : d # c => request'[d] = request[d]
      BY <1>0, <2>0, <2>1 DEF ReadsTypes, Requests
    <2>3. Holding(e)' = Holding(e) \cup {c} /\ c \notin Holding(e)
      BY <2>0, <2>1, <2>2 DEF Holding
    <2>4. \A f \in Engines : f # e => Holding(f)' = Holding(f)
      BY <2>0, <2>1, <2>2 DEF Holding
    <2>5. IsFiniteSet(Holding(e)') /\ Cardinality(Holding(e)') = Cardinality(Holding(e)) + 1
      BY <2>1, <2>3, FS_AddElement DEF PoolCounts
    <2>6. checkedOut' \in [Engines -> 0..PoolSize]
      BY <2>1, ReadsAssumption DEF PoolCounts
    <2>7. \A f \in Engines : IsFiniteSet(Holding(f)') /\ checkedOut'[f] = Cardinality(Holding(f)')
      <3> TAKE f \in Engines
      <3>1. CASE f = e
        <4>1. checkedOut'[e] = Cardinality(Holding(e)) + 1
          BY <2>1 DEF PoolCounts
        <4> QED
          BY <2>5, <3>1, <4>1
      <3>2. CASE f # e
        <4>1. checkedOut'[f] = checkedOut[f]
          BY <2>1, <3>2 DEF PoolCounts
        <4> QED
          BY <2>4, <3>2, <4>1 DEF PoolCounts
      <3> QED
        BY <3>1, <3>2
    <2> QED
      BY <2>6, <2>7 DEF PoolCounts
  <1>5. ASSUME NEW c \in Clients, Respond(c) PROVE PoolCounts'
    <2>1. request' = [request EXCEPT ![c] = NoRequest] /\ NoRequest.at = "idle"
      BY <1>5 DEF Respond, NoRequest
    <2>2. CASE request[c].at = "respond"
      BY <1>2, <1>5, <2>1, <2>2 DEF Respond, At
    <2>3. CASE request[c].at = "close"
      <3>0. PICK e \in Engines : e = request[c].engine
        BY <1>0, <2>3 DEF RequestsFit, RequestFits, Requests, HasAnswer
      <3>1. checkedOut' = [checkedOut EXCEPT ![e] = @ - 1]
        BY <1>5, <2>3, <3>0 DEF Respond, At
      <3>2. /\ request'[c].at = "idle"
            /\ \A d \in Clients : d # c => request'[d] = request[d]
        BY <2>1 DEF ReadsTypes
      <3>3. Holding(e)' = Holding(e) \ {c} /\ c \in Holding(e)
        BY <2>3, <3>0, <3>2 DEF Holding
      <3>4. \A f \in Engines : f # e => Holding(f)' = Holding(f)
        BY <2>3, <3>0, <3>2 DEF Holding
      <3>5. IsFiniteSet(Holding(e)') /\ Cardinality(Holding(e)') = Cardinality(Holding(e)) - 1
        BY <3>1, <3>3, FS_RemoveElement DEF PoolCounts
      <3>6. Cardinality(Holding(e)') \in Nat
        BY <3>5, FS_CardinalityType
      <3>7. checkedOut' \in [Engines -> 0..PoolSize]
        BY <3>1, <3>5, <3>6, ReadsAssumption DEF PoolCounts
      <3>8. \A f \in Engines : IsFiniteSet(Holding(f)') /\ checkedOut'[f] = Cardinality(Holding(f)')
        <4> TAKE f \in Engines
        <4>1. CASE f = e
          <5>1. checkedOut'[e] = Cardinality(Holding(e)) - 1
            BY <3>1 DEF PoolCounts
          <5> QED
            BY <3>5, <4>1, <5>1
        <4>2. CASE f # e
          <5>1. checkedOut'[f] = checkedOut[f]
            BY <3>1, <4>2 DEF PoolCounts
          <5> QED
            BY <3>4, <4>2, <5>1 DEF PoolCounts
        <4> QED
          BY <4>1, <4>2
      <3> QED
        BY <3>7, <3>8 DEF PoolCounts
    <2> QED
      BY <1>5, <2>2, <2>3 DEF Respond, At
  <1>6. ASSUME NEW c \in Clients, Query(c) \/ QueryHints(c) \/ StatementFails(c) PROVE PoolCounts'
    <2>1. PICK r : /\ request' = [request EXCEPT ![c] = r]
                   /\ r.engine = request[c].engine /\ r.at \in {"query", "hints", "close"}
      <3>1. CASE Query(c)
        <4>1. PICK read : request' = [request EXCEPT ![c] = [request[c] EXCEPT !.answer = read,
                 !.at = IF request[c].kind = "nearby" /\ read.shown # {} THEN "hints" ELSE "close"]]
          BY <3>1 DEF Query, ReadsTypes
        <4> DEFINE place == IF request[c].kind = "nearby" /\ read.shown # {} THEN "hints" ELSE "close"
                   r == [request[c] EXCEPT !.answer = read, !.at = place]
        <4>2. r.engine = request[c].engine /\ r.at \in {"hints", "close"}
          BY <1>0 DEF Requests
        <4>3. request' = [request EXCEPT ![c] = r]
          BY <4>1
        <4> HIDE DEF r
        <4> QED
          BY <4>2, <4>3
      <3>2. CASE QueryHints(c)
        <4> DEFINE answer == [request[c].answer EXCEPT !.details = HintsOf(request[c].answer.shown)]
                   r == [request[c] EXCEPT !.at = "close", !.answer = answer]
        <4>1. request' = [request EXCEPT ![c] = r]
          BY <3>2 DEF QueryHints, ReadsTypes
        <4>2. r.engine = request[c].engine /\ r.at = "close"
          BY <1>0 DEF Requests
        <4> HIDE DEF r
        <4> QED
          BY <4>1, <4>2
      <3>3. CASE StatementFails(c)
        <4> DEFINE r == [request[c] EXCEPT !.at = "close", !.answer = Unavailable]
        <4>1. request' = [request EXCEPT ![c] = r]
          BY <3>3 DEF StatementFails, AfterFailure, ReadsTypes
        <4>2. r.engine = request[c].engine /\ r.at = "close"
          BY <1>0 DEF Requests
        <4> HIDE DEF r
        <4> QED
          BY <4>1, <4>2
      <3> QED
        BY <1>6, <3>1, <3>2, <3>3
    <2>2. request[c].at \in {"query", "hints", "close"} /\ UNCHANGED checkedOut
      BY <1>6 DEF Query, QueryHints, StatementFails, At, poolVars
    <2> QED
      BY <1>2, <2>1, <2>2
  <1>7. ASSUME NEW c \in Clients,
               \/ BuildStore(c) \/ FindEngine(c) \/ CreateEngine(c) \/ CheckoutFails(c) \/ CheckReady(c)
        PROVE  PoolCounts'
    <2>1. /\ request[c].at \notin {"query", "hints", "close"} /\ UNCHANGED checkedOut
      BY <1>7 DEF BuildStore, FindEngine, CreateEngine, CheckoutFails, CheckReady, At, poolVars
    <2>2. /\ \A d \in Clients : d # c => request'[d] = request[d]
          /\ request'[c].at \notin {"query", "hints", "close"}
      <3>1. CASE BuildStore(c)
        BY <1>0, <3>1 DEF BuildStore, AfterStore, ReadsTypes, Requests
      <3>2. CASE FindEngine(c)
        BY <1>0, <3>2 DEF FindEngine, ReadsTypes, Requests
      <3>3. CASE CreateEngine(c)
        BY <1>0, <3>3 DEF CreateEngine, ReadsTypes, Requests
      <3>4. CASE CheckoutFails(c)
        BY <1>0, <3>4 DEF CheckoutFails, WithoutConnection, ReadsTypes, Requests
      <3>5. CASE CheckReady(c)
        BY <1>0, <3>5 DEF CheckReady, NoRequest, ReadsTypes
      <3> QED
        BY <1>7, <3>1, <3>2, <3>3, <3>4, <3>5
    <2> QED
      BY <2>1, <2>2, PoolUntouched
  <1>8. CASE UNCHANGED vars
    BY <1>8, PoolUntouched DEF vars, poolVars
  <1> QED
    BY <1>1, <1>3, <1>4, <1>5, <1>6, <1>7, <1>8 DEF ReadsNext, Advance

\* Types, and no connection is kept by a request that ended or handed out twice.
THEOREM ReadsTypeCorrect == ReadsSpec => []ReadsTypeOK
  <1>1. ReadsInit => PoolCounts
    <2> SUFFICES ASSUME ReadsInit PROVE PoolCounts
      OBVIOUS
    <2>1. \A e \in Engines : Holding(e) = {}
      BY DEF ReadsInit, Holding, NoRequest
    <2>2. \A e \in Engines : IsFiniteSet(Holding(e)) /\ checkedOut[e] = Cardinality(Holding(e))
      BY <2>1, FS_EmptySet DEF ReadsInit
    <2>3. checkedOut \in [Engines -> 0..PoolSize]
      BY ReadsAssumption DEF ReadsInit
    <2> QED
      BY <2>2, <2>3 DEF PoolCounts
  <1>2. ReadsSpec => []PoolCounts
    BY <1>1, PoolCountsStep, RequestsFitInvariance, PTL DEF ReadsSpec
  <1>3. Shown /\ ReadsTypes /\ PoolCounts => ReadsTypeOK
    BY DEF Shown, ReadsTypes, PoolCounts, ReadsTypeOK, Holding
  <1> QED
    BY <1>2, <1>3, RequestsFitInvariance, PTL

-----------------------------------------------------------------------------
(* The engine of a warm process *)

\* The requests of a starting process and those of a warm one are never open
\* together, and the latter have the cached store and its engine, which nobody
\* replaces any more.
EarlyOrWarm ==
    /\ \A c, d \in Clients : Open(c) /\ Open(d) => request[c].early = request[d].early
    /\ \A c \in Clients : Open(c) /\ ~request[c].early =>
          /\ Warm
          /\ request[c].at \notin {"build", "create"}
          /\ request[c].store = cachedStore
          /\ request[c].engine \in {None, <<cachedStore, engines[cachedStore]>>}

\* A client's own step keeps whether it is early; only early ones build or create.
LEMMA EarlyStays ==
    ASSUME ReadsTypes, RequestsFit, NEW c \in Clients, Advance(c)
    PROVE  /\ \A d \in Clients : d # c => request'[d] = request[d]
           /\ Open(c)' => Open(c) /\ request'[c].early = request[c].early
           /\ request[c].at \notin {"build", "create"} =>
                 UNCHANGED <<cachedStore, engines>>
  <1>0. request[c] \in Requests
    BY DEF ReadsTypes
  <1> USE <1>0 DEF ReadsTypes, Requests, Open, At
  <1>1. CASE BuildStore(c)
    BY <1>1 DEF BuildStore
  <1>2. CASE FindEngine(c)
    BY <1>2 DEF FindEngine, poolVars
  <1>3. CASE CreateEngine(c)
    BY <1>3 DEF CreateEngine
  <1>4. CASE Checkout(c)
    BY <1>4 DEF Checkout
  <1>5. CASE CheckoutFails(c)
    BY <1>5 DEF CheckoutFails, poolVars
  <1>6. CASE Query(c)
    BY <1>6 DEF Query, poolVars
  <1>7. CASE QueryHints(c)
    BY <1>7 DEF QueryHints, poolVars
  <1>8. CASE StatementFails(c)
    BY <1>8 DEF StatementFails, poolVars
  <1>9. CASE CheckReady(c) \/ Respond(c)
    BY <1>9 DEF CheckReady, Respond, poolVars, NoRequest
  <1> QED
    BY <1>1, <1>2, <1>3, <1>4, <1>5, <1>6, <1>7, <1>8, <1>9 DEF Advance

\* With the cached store, which has an engine, a request creates none and finds
\* that one.
LEMMA WarmAdvance ==
    ASSUME ReadsTypes, RequestsFit, NEW c \in Clients, Advance(c), Warm, Open(c)', Open(c),
           request[c].at \notin {"build", "create"}, request[c].store = cachedStore,
           request[c].engine \in {None, <<cachedStore, engines[cachedStore]>>}
    PROVE  /\ request'[c].at \notin {"build", "create"}
           /\ request'[c].store = cachedStore
           /\ request'[c].engine \in {None, <<cachedStore, engines[cachedStore]>>}
  <1>0. request[c] \in Requests
    BY DEF ReadsTypes
  <1> USE <1>0 DEF ReadsTypes, Requests, Open, At
  <1>1. CASE FindEngine(c)
    BY <1>1 DEF FindEngine, Warm
  <1>2. CASE Checkout(c)
    BY <1>2 DEF Checkout
  <1>3. CASE CheckoutFails(c)
    BY <1>3 DEF CheckoutFails, WithoutConnection
  <1>4. CASE Query(c)
    BY <1>4 DEF Query
  <1>5. CASE QueryHints(c)
    BY <1>5 DEF QueryHints
  <1>6. CASE StatementFails(c)
    BY <1>6 DEF StatementFails, AfterFailure
  <1>7. CASE CheckReady(c) \/ Respond(c)
    BY <1>7 DEF CheckReady, Respond, NoRequest
  <1> QED
    BY <1>1, <1>2, <1>3, <1>4, <1>5, <1>6, <1>7 DEF Advance, BuildStore, CreateEngine

\* A request is sent as early exactly while early ones are open or the process is
\* cold; no early one can then build or create beside a warm one.
LEMMA ClientsStep ==
    ReadsTypes /\ RequestsFit /\ EarlyOrWarm /\ [ReadsNext]_vars =>
        EarlyOrWarm'
  <1> SUFFICES ASSUME ReadsTypes, RequestsFit, EarlyOrWarm, [ReadsNext]_vars
               PROVE  EarlyOrWarm'
    OBVIOUS
  <1>0. \A c \in Clients : request[c] \in Requests
    BY DEF ReadsTypes
  <1>1. ASSUME NEW g \in Generations, PublishGeneration(g) PROVE EarlyOrWarm'
    <2>1. \A c \in Clients :
              /\ request'[c].at = request[c].at /\ request'[c].early = request[c].early
              /\ request'[c].store = request[c].store /\ request'[c].engine = request[c].engine
      BY <1>0, <1>1 DEF PublishGeneration, Requests
    <2>2. UNCHANGED <<cachedStore, engines>>
      BY <1>1 DEF PublishGeneration, poolVars
    <2> QED
      BY <2>1, <2>2 DEF EarlyOrWarm, Open, At, Warm
  <1>2. ASSUME NEW c \in Clients, NEW kind \in Kinds[c], NEW ids \in Askable(c, kind),
               Send(c, kind, ids)
        PROVE  EarlyOrWarm'
    <2> DEFINE early == ~Warm \/ \E d \in Clients : Open(d) /\ request[d].early
               r == [CacheLookup(kind) EXCEPT !.kind = kind, !.ids = ids, !.during = {current},
                        !.early = early]
    <2>1. request' = [request EXCEPT ![c] = r] /\ UNCHANGED <<cachedStore, engines>>
      BY <1>2 DEF Send, poolVars
    <2>2. /\ r.early = early /\ r.engine = None
          /\ Warm => r.store = cachedStore /\ r.at \in {"ready", "engine"}
      BY DEF CacheLookup, AfterStore, NoRequest, Warm
    <2> HIDE DEF r
    <2>3. /\ request'[c] = r /\ ~Open(c)
          /\ \A d \in Clients : d # c => request'[d] = request[d]
      BY <1>2, <2>1 DEF Send, ReadsTypes, Open
    <2>4. \A d \in Clients : Open(d) => request[d].early = early
      BY <1>0 DEF EarlyOrWarm, Requests
    <2> HIDE DEF early
    <2>5. ~early => Warm
      BY DEF early
    <2>6. \A d, e \in Clients : Open(d)' /\ Open(e)' => request'[d].early = request'[e].early
      BY <2>2, <2>3, <2>4 DEF Open, At
    <2>7. ASSUME NEW d \in Clients, Open(d)', ~request'[d].early
          PROVE  /\ Warm'
                 /\ request'[d].at \notin {"build", "create"}
                 /\ request'[d].store = cachedStore'
                 /\ request'[d].engine \in {None, <<cachedStore, engines[cachedStore]>>'}
      <3>1. CASE d = c
        BY <2>1, <2>2, <2>3, <2>5, <2>7, <3>1 DEF Warm
      <3>2. CASE d # c
        BY <2>1, <2>3, <2>7, <3>2 DEF EarlyOrWarm, Open, At, Warm
      <3> QED
        BY <3>1, <3>2
    <2> QED
      BY <2>6, <2>7 DEF EarlyOrWarm
  <1>3. ASSUME NEW c \in Clients, Advance(c) PROVE EarlyOrWarm'
    <2>1. /\ \A d \in Clients : d # c => request'[d] = request[d]
          /\ Open(c)' => Open(c) /\ request'[c].early = request[c].early
          /\ request[c].at \notin {"build", "create"} => UNCHANGED <<cachedStore, engines>>
      BY <1>3, EarlyStays
    <2>2. \A d, e \in Clients : Open(d)' /\ Open(e)' => request'[d].early = request'[e].early
      BY <2>1 DEF EarlyOrWarm, Open, At
    <2>3. ASSUME NEW d \in Clients, Open(d)', ~request'[d].early
          PROVE  /\ Warm'
                 /\ request'[d].at \notin {"build", "create"}
                 /\ request'[d].store = cachedStore'
                 /\ request'[d].engine \in {None, <<cachedStore, engines[cachedStore]>>'}
      <3>1. Open(d) /\ ~request[d].early
        BY <2>1, <2>3 DEF Open, At
      <3>2. Open(c)
        BY <1>3 DEF Open, At, Advance, BuildStore, FindEngine, CreateEngine, Checkout, CheckoutFails,
                    Query, QueryHints, StatementFails, CheckReady, Respond
      <3>3. ~request[c].early
        BY <3>1, <3>2 DEF EarlyOrWarm
      <3>4. /\ Warm /\ UNCHANGED <<cachedStore, engines>>
            /\ request[c].at \notin {"build", "create"}
            /\ request[c].store = cachedStore
            /\ request[c].engine \in {None, <<cachedStore, engines[cachedStore]>>}
        BY <2>1, <3>2, <3>3 DEF EarlyOrWarm
      <3>5. Warm'
        BY <3>4 DEF Warm
      <3>6. CASE d = c
        BY <1>3, <2>3, <3>2, <3>4, <3>5, <3>6, WarmAdvance
      <3>7. CASE d # c
        BY <2>1, <3>1, <3>4, <3>5, <3>7 DEF EarlyOrWarm
      <3> QED
        BY <3>6, <3>7
    <2> QED
      BY <2>2, <2>3 DEF EarlyOrWarm
  <1>4. CASE UNCHANGED vars
    BY <1>4 DEF vars, poolVars, EarlyOrWarm, Open, At, Warm
  <1> QED
    BY <1>1, <1>2, <1>3, <1>4 DEF ReadsNext

\* ADR 0010: however many threads start the process together, requests sent once
\* that is over share one engine and its pool.
THEOREM WarmRequestsShareAnEngine == ReadsSpec => []OneEngineOnceWarm
  <1>1. ReadsInit => EarlyOrWarm
    BY DEF ReadsInit, EarlyOrWarm, Open, At, NoRequest
  <1>2. ReadsSpec => []EarlyOrWarm
    BY <1>1, ClientsStep, RequestsFitInvariance, PTL DEF ReadsSpec
  <1>3. RequestsFit /\ EarlyOrWarm => OneEngineOnceWarm
    <2> SUFFICES ASSUME RequestsFit, EarlyOrWarm, NEW c \in Clients, NEW d \in Clients,
                        request[c].engine # None, ~request[c].early,
                        request[d].engine # None, ~request[d].early
                 PROVE  request[c].engine = request[d].engine
      BY DEF OneEngineOnceWarm
    <2>1. Open(c) /\ Open(d)
      BY DEF RequestsFit, RequestFits, Open, At, NoRequest
    <2> QED
      BY <2>1 DEF EarlyOrWarm
  <1> QED
    BY <1>2, <1>3, RequestsFitInvariance, PTL
=============================================================================
