---------------------------- MODULE PassengerReads ----------------------------
(***************************************************************************)
(* Passenger requests beside publications. A request is served by a chain  *)
(* of steps in worker threads: the process-wide store of get_generation_   *)
(* store (an lru_cache, which two threads may fill at once), its engine,   *)
(* created by the threads that find none, a connection of the engine's     *)
(* small pool, one or two statements at READ COMMITTED over the current    *)
(* generation, and the answer.                                             *)
(*                                                                         *)
(* Passengers see of the Generation Store what Publication says, which     *)
(* GenerationStore implements. What a route version consists of never      *)
(* changes and is constant here: its directions, which stand for their     *)
(* departure labels and their segments. Geometry and advice make the same  *)
(* read, "segments", and differ in what they make of it.                   *)
(***************************************************************************)
EXTENDS Publication, Naturals

CONSTANTS Clients,
          Loads,       \* how many requests each client sends: the cases to consider
          Kinds,       \* the kinds of request each client sends
          Faults,      \* clients whose connection to Postgres may break
          Dataset,     \* what each generation shows: <<route, version, attributes>>
          Directions,  \* the directions of each version
          Labelled,    \* those with a label of high or medium confidence
          PoolSize

Engines == Clients \X Clients  \* <<store, creator>>; a store is named by its creator

\* The readiness check and the reads of the passenger API.
RequestKinds == {"ready", "search", "nearby", "directions", "segments"}

ASSUME ReadsAssumption ==
    /\ Loads \subseteq [Clients -> Nat]
    /\ Kinds \in [Clients -> SUBSET RequestKinds]
    /\ Faults \subseteq Clients
    /\ PoolSize \in Nat \ {0}
    /\ Dataset \in [Generations -> Views \ {{}}]
    /\ \A g \in Generations : \A e, f \in Dataset[g] : e[1] = f[1] \/ e[2] = f[2] => e = f
    /\ \A g, h \in Generations : g # h => VersionsIn(Dataset[g]) \cap VersionsIn(Dataset[h]) = {}
    /\ \A v, w \in Versions : v # w => Directions[v] \cap Directions[w] = {}
    /\ \A v \in Versions : Labelled[v] \subseteq Directions[v] /\ None \notin Directions[v]
    /\ None \notin Generations \cup Routes \cup Versions \cup Clients \cup Engines

VARIABLES published,    \* generations published so far
          cachedStore,  \* the store the lru_cache holds, or None
          engines,      \* store -> who created its _engine, or None
          checkedOut,   \* engine -> connections its pool has handed out
          request,      \* each client's request and how far it has come
          held,         \* the ids each client has from its last answer
          left          \* the requests each client has not yet sent

dbVars   == <<publicationVars, published>>
poolVars == <<cachedStore, engines, checkedOut>>
vars     == <<dbVars, poolVars, request, held, left>>

AllDirections == UNION {Directions[v] : v \in Versions}

Ids ==
    [route : Routes \cup {None}, version : Versions \cup {None},
     direction : AllDirections \cup {None},
     from : Generations \cup {None}]         \* the generation the ids were read from
NoIds == [route |-> None, version |-> None, direction |-> None, from |-> None]

Statuses == {"ok", "routeNotFound", "routeVersionStale", "routeDirectionNotFound",
             "serviceUnavailable"}
Answers ==
    [status : Statuses \cup {None}, shown : Views, details : SUBSET AllDirections,
     from : Generations \cup {None}]         \* the generation of its first statement
NoAnswer == [status |-> None, shown |-> {}, details |-> {}, from |-> None]

Requests ==
    [at : {"idle", "build", "ready", "engine", "create", "checkout", "query", "hints", "close",
           "respond"},
     kind : RequestKinds \cup {"none"},
     ids : Ids, early : BOOLEAN, store : Clients \cup {None}, engine : Engines \cup {None},
     answer : Answers, during : SUBSET (Generations \cup {None})]
NoRequest ==
    [at |-> "idle", kind |-> "none", ids |-> NoIds, early |-> FALSE, store |-> None,
     engine |-> None, answer |-> NoAnswer, during |-> {}]

ReadsTypeOK ==
    /\ published \subseteq Generations
    /\ cachedStore \in Clients \cup {None}
    /\ engines \in [Clients -> Clients \cup {None}]
    \* No request, however it ends, keeps a connection of the pool.
    /\ \A e \in Engines : checkedOut[e] = Cardinality({c \in Clients :
          request[c].engine = e /\ request[c].at \in {"query", "hints", "close"}})
    /\ checkedOut \in [Engines -> 0..PoolSize]
    /\ request \in [Clients -> Requests]
    /\ held \in [Clients -> Ids]
    /\ left \in [Clients -> Nat]

ReadsInit ==
    /\ Init
    /\ published = {}
    /\ cachedStore = None
    /\ engines = [s \in Clients |-> None]
    /\ checkedOut = [e \in Engines |-> 0]
    /\ request = [c \in Clients |-> NoRequest]
    /\ held = [c \in Clients |-> NoIds]
    /\ left \in Loads

At(c, place) == request[c].at = place
Open(c)      == ~At(c, "idle")

-----------------------------------------------------------------------------
(* Publications and requests *)

PublishGeneration(g) ==
    /\ g \notin published
    /\ view' = Dataset[g]
    /\ Publish(g)
    /\ published' = published \cup {g}
    /\ request' = [c \in Clients |->
          [request[c] EXCEPT !.during = IF Open(c) THEN @ \cup {g} ELSE @]]
    /\ UNCHANGED <<poolVars, held, left>>

\* Requests name routes, versions and directions of earlier answers; the version
\* is optional for direction choices.
Askable(c, kind) ==
    CASE kind = "directions" -> {ids \in {held[c], [held[c] EXCEPT !.version = None]} :
                                    ids.route # None}
      [] kind = "segments"   -> {ids \in {held[c]} : ids.direction # None}
      [] OTHER               -> {NoIds}

AfterStore(kind) == IF kind = "ready" THEN "ready" ELSE "engine"

\* A request is early if the process has no engine yet, or beside an early one.
Warm == cachedStore # None /\ engines[cachedStore] # None

\* get_generation_store: a hit, or a miss that lets it call the function.
\* Mutant: no lru_cache, a store for every request.
NeverCached(kind) == [NoRequest EXCEPT !.at = "build"]
CacheLookup(kind) ==
    IF cachedStore = None
    THEN [NoRequest EXCEPT !.at = "build"]
    ELSE [NoRequest EXCEPT !.at = AfterStore(kind), !.store = cachedStore]

\* A request begins when its dependencies are resolved.
Send(c, kind, ids) ==
    /\ At(c, "idle")
    /\ left[c] > 0
    /\ request' = [request EXCEPT ![c] =
          [CacheLookup(kind) EXCEPT !.kind = kind, !.ids = ids, !.during = {current},
                                    !.early = ~Warm \/ \E d \in Clients : Open(d) /\ request[d].early]]
    /\ left' = [left EXCEPT ![c] = @ - 1]
    /\ UNCHANGED <<dbVars, poolVars, held>>

-----------------------------------------------------------------------------
(* get_generation_store and GenerationStore.engine *)

\* The cache holds no lock while it calls the function: a thread that missed goes
\* on with the store it built, and the first one built stays cached.
BuildStore(c) ==
    /\ At(c, "build")
    /\ cachedStore' = IF cachedStore = None THEN c ELSE cachedStore
    /\ request' = [request EXCEPT ![c] = [@ EXCEPT !.at = AfterStore(request[c].kind), !.store = c]]
    /\ UNCHANGED <<dbVars, engines, checkedOut, held, left>>

\* The test of _engine and, where there is one, the return: once set it is never
\* None again, so that a test and a later return are as good as a later test.
FindEngine(c) ==
    LET s == request[c].store IN
    /\ At(c, "engine")
    /\ request' = [request EXCEPT ![c] =
          IF engines[s] = None THEN [@ EXCEPT !.at = "create"]
                               ELSE [@ EXCEPT !.at = "checkout", !.engine = <<s, engines[s]>>]]
    /\ UNCHANGED <<dbVars, poolVars, held, left>>

\* Sets _engine whatever it is by now; what is returned is read afterwards.
CreateEngine(c) ==
    /\ At(c, "create")
    /\ engines' = [engines EXCEPT ![request[c].store] = c]
    /\ request' = [request EXCEPT ![c] = [@ EXCEPT !.at = "engine"]]
    /\ UNCHANGED <<dbVars, cachedStore, checkedOut, held, left>>

-----------------------------------------------------------------------------
(* What the statements return *)

\* Mutant: rows are not joined with the current pointer.
StoredRows  == UNION {Dataset[g] : g \in published}
CurrentRows == view

\* resolve_advice_route_context_status of the requested route's current entry.
\* Mutant: the direction is looked for before the version is compared.
DirectionFirst(own, ids) ==
    CASE own = {} -> "routeNotFound"
      [] \E e \in own : ids.direction \notin Directions[e[2]] -> "routeDirectionNotFound"
      [] \E e \in own : e[2] # ids.version -> "routeVersionStale"
      [] OTHER -> "ok"
ContextStatus(own, ids) ==
    LET stale == \E e \in own : e[2] # ids.version IN
    CASE own = {} -> "routeNotFound"
      [] stale -> "routeVersionStale"
      [] ~stale /\ \E e \in own : ids.direction \notin Directions[e[2]] -> "routeDirectionNotFound"
      [] OTHER -> "ok"

ChoicesStatus(own, ids) ==
    CASE own = {} -> "routeNotFound"
      [] ids.version # None /\ \E e \in own : e[2] # ids.version -> "routeVersionStale"
      [] OTHER -> "ok"

Details(entries, of) == UNION {of[e[2]] : e \in entries}

Result(status, entries, details) ==
    [status |-> status, from |-> current,
     shown   |-> IF status = "ok" THEN entries ELSE {},
     details |-> IF status = "ok" THEN details ELSE {}]

\* A query or a place, with its limit, selects any of the current entries.
SearchResults == {Result("ok", found, Details(found, Labelled)) : found \in SUBSET CurrentRows}
NearbyResults == {Result("ok", found, {}) : found \in SUBSET CurrentRows}

Own(ids) == {e \in CurrentRows : e[1] = ids.route}

ChoicesResult(ids) == Result(ChoicesStatus(Own(ids), ids), Own(ids), Details(Own(ids), Directions))
ContextResult(ids) == Result(ContextStatus(Own(ids), ids), Own(ids), {ids.direction})

Results(kind, ids) ==
    CASE kind = "search"     -> SearchResults
      [] kind = "nearby"     -> NearbyResults
      [] kind = "directions" -> {ChoicesResult(ids)}
      [] kind = "segments"   -> {ContextResult(ids)}

\* Mutant: hints of the routes, whichever version of them was found.
HintsOfRoutes(found) == Details({e \in CurrentRows : \E f \in found : f[1] = e[1]}, Labelled)
\* Hints of the versions found, as far as they are still current.
HintsOf(found)       == Details({e \in CurrentRows : e[2] \in VersionsIn(found)}, Labelled)

-----------------------------------------------------------------------------
(* _run_session: check out a connection, run the statements, close *)

Unavailable == [NoAnswer EXCEPT !.status = "serviceUnavailable"]

\* max_overflow is 0.
HasConnection(e) == checkedOut[e] < PoolSize

Checkout(c) ==
    LET e == request[c].engine IN
    /\ At(c, "checkout")
    /\ HasConnection(e)
    /\ checkedOut' = [checkedOut EXCEPT ![e] = @ + 1]
    /\ request' = [request EXCEPT ![c] = [@ EXCEPT !.at = "query"]]
    /\ UNCHANGED <<dbVars, cachedStore, engines, held, left>>

\* Where a request goes when it gets no connection. Mutant: it tries again.
WithoutConnectionAgain == "engine"
WithoutConnection      == "respond"

\* The pool is empty until its timeout, or the connection cannot be opened.
CheckoutFails(c) ==
    /\ At(c, "checkout")
    /\ ~HasConnection(request[c].engine) \/ c \in Faults
    /\ request' = [request EXCEPT ![c] = [@ EXCEPT !.at = WithoutConnection, !.answer = Unavailable]]
    /\ UNCHANGED <<dbVars, poolVars, held, left>>

\* Nearby asks for the hints of what it found in a second statement.
Query(c) ==
    /\ At(c, "query")
    /\ \E result \in Results(request[c].kind, request[c].ids) :
          request' = [request EXCEPT ![c] = [@ EXCEPT
              !.answer = result,
              !.at = IF request[c].kind = "nearby" /\ result.shown # {} THEN "hints" ELSE "close"]]
    /\ UNCHANGED <<dbVars, poolVars, held, left>>

QueryHints(c) ==
    /\ At(c, "hints")
    /\ LET found == request[c].answer IN
       request' = [request EXCEPT ![c] = [@ EXCEPT
          !.at = "close", !.answer = [found EXCEPT !.details = HintsOf(found.shown)]]]
    /\ UNCHANGED <<dbVars, poolVars, held, left>>

\* Where a request goes when a statement fails. Mutant: the session stays open.
AfterFailureOpen == "respond"
AfterFailure     == "close"

StatementFails(c) ==
    /\ At(c, "query") \/ At(c, "hints")
    /\ c \in Faults
    /\ request' = [request EXCEPT ![c] = [@ EXCEPT !.at = AfterFailure, !.answer = Unavailable]]
    /\ UNCHANGED <<dbVars, poolVars, held, left>>

\* Readiness opens connections of its own, outside the pool; its answer is not
\* looked at here.
CheckReady(c) ==
    /\ At(c, "ready")
    /\ request' = [request EXCEPT ![c] = NoRequest]
    /\ UNCHANGED <<dbVars, poolVars, held, left>>

-----------------------------------------------------------------------------
(* The answer *)

\* What a client goes on with: an entry that was shown, a direction to choose;
\* after a refusal or its last request nothing, and after a failure what it had.
Keeps(c) ==
    LET kind    == request[c].kind
        read    == request[c].answer
        chosen  == IF kind = "directions" /\ read.details # {} THEN read.details ELSE {None}
        options == {[route |-> e[1], version |-> e[2], direction |-> d, from |-> read.from] :
                       e \in read.shown, d \in chosen}
    IN  IF left[c] = 0 \/ read.status \notin {"ok", "serviceUnavailable"} THEN {NoIds}
        ELSE IF read.status = "serviceUnavailable" \/ kind = "segments" THEN {held[c]}
        ELSE IF options = {} THEN {NoIds} ELSE options

\* The session's exit, also on errors, gives the connection back.
Respond(c) ==
    /\ At(c, "close") \/ At(c, "respond")
    /\ checkedOut' = IF At(c, "close") THEN [checkedOut EXCEPT ![request[c].engine] = @ - 1]
                                      ELSE checkedOut
    /\ \E ids \in Keeps(c) : held' = [held EXCEPT ![c] = ids]
    /\ request' = [request EXCEPT ![c] = NoRequest]
    /\ UNCHANGED <<dbVars, cachedStore, engines, left>>

Advance(c) ==
    \/ BuildStore(c) \/ FindEngine(c) \/ CreateEngine(c)
    \/ Checkout(c) \/ CheckoutFails(c) \/ Query(c) \/ QueryHints(c) \/ StatementFails(c)
    \/ CheckReady(c) \/ Respond(c)

Quiet ==
    /\ \A c \in Clients : ~Open(c) /\ left[c] = 0
    /\ published = Generations

ReadsNext ==
    \/ \E g \in Generations : PublishGeneration(g)
    \/ \E c \in Clients : \E kind \in Kinds[c] : \E ids \in Askable(c, kind) : Send(c, kind, ids)
    \/ \E c \in Clients : Advance(c)
    \/ Quiet /\ UNCHANGED vars

\* Threads run, connections answer or fail, and the pool times out. Nobody has to
\* publish or to ask.
ReadsSpec == ReadsInit /\ [][ReadsNext]_vars /\ \A c \in Clients : WF_vars(Advance(c))

-----------------------------------------------------------------------------
(* Properties *)

Answered(c) == request[c].at \in {"close", "respond"}
Served(c)   == Answered(c) /\ request[c].answer.status = "ok"

Shows(g) == IF g = None THEN {} ELSE Dataset[g]

\* ADR 0007: an answer shows rows of one generation that was current while it was
\* made, never of two and never of one replaced before, and all that its kind of
\* read promises of them, but for the hints of nearby routes.
AnswersWereCurrent ==
    \A c \in Clients : Served(c) =>
       LET read == request[c].answer IN
       /\ \E g \in request[c].during : read.shown \subseteq Shows(g)
       /\ CASE request[c].kind = "search"     -> read.details = Details(read.shown, Labelled)
            [] request[c].kind = "directions" -> read.details = Details(read.shown, Directions)
            [] request[c].kind = "segments"   -> read.details \subseteq Details(read.shown, Directions)
            [] OTHER -> TRUE

\* The two statements of a nearby read: hints belong to the versions shown and are
\* there for all of them, or for none because of a publication in between.
HintsAllOrNone ==
    \A c \in Clients : Served(c) /\ request[c].kind = "nearby" =>
       LET read == request[c].answer
           all  == Details(read.shown, Labelled)
       IN  read.details = all \/ (read.details = {} /\ Cardinality(request[c].during) > 1)

\* A client that uses the ids of one answer together learns of a publication and
\* of nothing else: with a version id it is served exactly while the generation
\* the ids came from is current. It is refused as stale or because the route is
\* gone, and never told that its direction does not exist.
ClientsLearnOfPublications ==
    \A c \in Clients : Answered(c) /\ request[c].answer.status # "serviceUnavailable" =>
       LET ids  == request[c].ids
           read == request[c].answer
       IN  /\ read.status # "routeDirectionNotFound"
           /\ ids.version # None => (read.status = "ok" <=> read.from = ids.from)
           /\ read.status = "routeNotFound" <=>
                 ids.route # None /\ \A e \in Shows(read.from) : e[1] # ids.route

\* ADR 0010: the pool is shared. Two threads may each make a store or an engine
\* when the process starts, but requests sent after that use one engine.
OneEngineOnceWarm ==
    \A c, d \in Clients :
       LET Settled(x) == request[x].engine # None /\ ~request[x].early
       IN  Settled(c) /\ Settled(d) => request[c].engine = request[d].engine

\* Every request is answered, whatever the pool, the database and publications do.
EveryRequestAnswered == \A c \in Clients : Open(c) ~> ~Open(c)
=============================================================================
