--------------------------- MODULE CatalogueCollect ---------------------------
(***************************************************************************)
(* ConsorcioCatalogueSource.collect: robots.txt and the route index, then  *)
(* one task per listed route, at most Concurrency of them inside the       *)
(* semaphore, each fetching a page and perhaps a map with retries; when    *)
(* all are done the fetcher is closed and the results are put together in  *)
(* the order of the index. Requests of different tasks are answered in any *)
(* order. Time, and with it the pause between attempts, is left out.       *)
(***************************************************************************)
EXTENDS RouteExport

CONSTANTS Sites,       \* what the web site may be
          Limit,       \* at most that many routes
          Concurrency,
          Retries

\* A page has tabs and columns of departures, a map placemarks in its order, and a
\* placemark with coordinates the lengths of its edges.
IsSeq(s) == s \in Seq(ToSet(s))

PageAssumption(page) == IsSeq(page.tabs) /\ IsSeq(page.columns)
MapAssumption(map) ==
    /\ IsSeq(map.placemarks)
    /\ \A i \in Placed(map.placemarks) : map.placemarks[i].edges \in Seq(Nat)

\* A site lists the URLs of routes, has a page behind each of them and a map
\* behind the URLs the pages name, and disallows some URLs to robots. A reliable
\* one answers every request.
ASSUME CollectAssumption ==
    /\ Limit \in Nat /\ Concurrency \in Nat \ {0} /\ Retries \in Nat
    /\ \A s \in Sites :
          /\ s.listed \in Seq(DOMAIN s.page)
          /\ \A url \in DOMAIN s.page : /\ s.page[url].map \in DOMAIN s.map \cup {None}
                                        /\ PageAssumption(s.page[url])
          /\ \A url \in DOMAIN s.map : MapAssumption(s.map[url])

VARIABLES site,      \* the web site while it is collected
          fetcher,   \* "open" or "closed"
          asked,     \* fetch -> attempts made
          got,       \* the fetches that were answered
          index,     \* how far the collection is
          task,      \* how far each listed route's task is
          snapshot,  \* what each finished task returns, or None
          collection \* what collect returns, or None

vars == <<site, fetcher, asked, got, index, task, snapshot, collection>>

IndexUrl == "index"

\* parse_route_links drops repetitions, and the limit cuts the list. The listings
\* of all sites are one constant, for TLC to evaluate once.
ListedBy(urls) ==
    LET firsts == {i \in DOMAIN urls : \A j \in 1..(i - 1) : urls[j] # urls[i]}
        order  == Sorted(firsts)
    IN  [k \in 1..Min({Limit, Cardinality(firsts)}) |-> urls[order[k]]]

Listings == [urls \in {s.listed : s \in Sites} |-> ListedBy(urls)]
Listed   == Listings[site.listed]

Tasks   == DOMAIN Listed
Fetches == ({0} \X {"robots", "index"}) \cup (Tasks \X {"page", "map"})
Running == {t \in Tasks : task[t] \in {"page", "map"}}

CollectTypeOK ==
    /\ site \in Sites
    /\ fetcher = "open" <=> index \in {"robots", "index", "routes"}
    /\ asked \in [Fetches -> 0..(Retries + 1)] /\ got \subseteq Fetches
    /\ index \in {"robots", "index", "routes", "closed", "done", "raised"}
    /\ task \in [Tasks -> {"waiting", "page", "map", "failed", "finished"}]
    /\ Cardinality(Running) <= Concurrency
    /\ DOMAIN snapshot = Tasks
    /\ \A t \in Tasks : snapshot[t] # None <=> task[t] = "finished"
    /\ collection # None <=> index = "done"

Init ==
    /\ site \in Sites
    /\ fetcher = "open"
    /\ asked = [f \in Fetches |-> 0]
    /\ got = {}
    /\ index = "robots"
    /\ task = [t \in Tasks |-> "waiting"]
    /\ snapshot = [t \in Tasks |-> None]
    /\ collection = None

-----------------------------------------------------------------------------
(* One request of _get_response *)

Allowed(url) == url \notin site.disallowed

Ask(f)     == fetcher = "open" /\ asked[f] <= Retries /\ asked' = [asked EXCEPT ![f] = @ + 1]
Answers(f) == Ask(f) /\ got' = got \cup {f}

\* An attempt fails: with an HTTP error it is repeated, up to the last one, and
\* with any other exception it is not.
Refuses(f, ends) ==
    /\ ~site.reliable
    /\ Ask(f) /\ UNCHANGED got
    /\ ends \/ asked[f] < Retries

-----------------------------------------------------------------------------
(* robots.txt, of the index's host, and the index *)

Raise   == index' = "raised" /\ fetcher' = "closed" /\ UNCHANGED <<site, task, snapshot, collection>>
Proceed(place) == index' = place /\ UNCHANGED <<site, fetcher, task, snapshot, collection>>

GetRobots ==
    /\ index = "robots"
    /\ Answers(<<0, "robots">>)
    /\ IF Allowed(IndexUrl) THEN Proceed("index") ELSE Raise

GetIndex ==
    /\ index = "index"
    /\ Answers(<<0, "index">>)
    /\ IF Listed # <<>> THEN Proceed("routes") ELSE Raise

IndexFails ==
    /\ index \in {"robots", "index"}
    /\ \E ends \in BOOLEAN : Refuses(<<0, index>>, ends) /\ IF ends THEN Raise ELSE Proceed(index)

-----------------------------------------------------------------------------
(* _fetch_one *)

Page(t) == site.page[Listed[t]]
Placemarks(page) == IF page.map = None THEN <<>> ELSE site.map[page.map].placemarks

Goto(t, place) ==
    /\ task' = [task EXCEPT ![t] = place]
    /\ snapshot' = IF place = "finished"
                   THEN [snapshot EXCEPT ![t] = RouteSnapshot(Page(t), Placemarks(Page(t)))]
                   ELSE snapshot

\* Mutant: no semaphore.
NoSemaphore == TRUE
Semaphore   == Cardinality(Running) < Concurrency

\* The semaphore lets tasks in as they were created.
Enter(t) ==
    /\ index = "routes"
    /\ task[t] = "waiting" /\ \A u \in 1..(t - 1) : task[u] # "waiting"
    /\ Semaphore
    /\ Goto(t, IF Allowed(Listed[t]) THEN "page" ELSE "failed")
    /\ UNCHANGED <<site, fetcher, asked, got, index, collection>>

\* The page must parse. A route without a map is no failure; robots.txt of the
\* index's host decides over the map, whatever its host.
AfterPage(t) ==
    CASE ~Page(t).parses -> "failed"
      [] Page(t).parses /\ Page(t).map = None -> "finished"
      [] Page(t).parses /\ Page(t).map # None -> IF Allowed(Page(t).map) THEN "map" ELSE "failed"

AfterMap(t) == IF site.map[Page(t).map].parses THEN "finished" ELSE "failed"

Get(t) ==
    /\ t \in Running
    /\ Answers(<<t, task[t]>>)
    /\ Goto(t, IF task[t] = "page" THEN AfterPage(t) ELSE AfterMap(t))
    /\ UNCHANGED <<site, fetcher, index, collection>>

\* Mutant: a task whose last attempt failed does not return.
NeverReturns(t) == task[t]
AfterLast(t)    == "failed"

FetchFails(t) ==
    /\ t \in Running
    /\ \E ends \in BOOLEAN :
          Refuses(<<t, task[t]>>, ends) /\ Goto(t, IF ends THEN AfterLast(t) ELSE task[t])
    /\ UNCHANGED <<site, fetcher, index, collection>>

-----------------------------------------------------------------------------
(* The collection *)

\* gather has all results: the fetcher is closed.
Close ==
    /\ index = "routes"
    /\ \A t \in Tasks : task[t] \in {"failed", "finished"}
    /\ index' = "closed" /\ fetcher' = "closed"
    /\ UNCHANGED <<site, asked, got, task, snapshot, collection>>

\* What the tasks return is sorted by the index.
UrlsOf(tasks) == At(Listed, tasks)
RowsOf(tasks) == LET order == Sorted(tasks) IN [k \in DOMAIN order |-> Row(snapshot[order[k]])]

\* Mutant: the routes that did not fail are exported.
ExportsRest(failed, finished) == [rows |-> RowsOf(finished), hardFailures |-> <<>>]
Collected(failed, finished) ==
    [rows |-> IF failed = {} THEN RowsOf(finished) ELSE <<>>, hardFailures |-> UrlsOf(failed)]

Assemble ==
    LET Ended(place) == {t \in Tasks : task[t] = place}
    IN  /\ index = "closed"
        /\ index' = "done"
        /\ collection' = Collected(Ended("failed"), Ended("finished"))
        /\ UNCHANGED <<site, fetcher, asked, got, task, snapshot>>

Next ==
    \/ GetRobots \/ GetIndex \/ IndexFails
    \/ \E t \in Tasks : Enter(t) \/ Get(t) \/ FetchFails(t)
    \/ Close \/ Assemble

\* Requests are answered or time out, and the event loop runs what is ready.
Spec == Init /\ [][Next]_vars /\ WF_vars(Next)

-----------------------------------------------------------------------------
(* Properties *)

\* A listed route is intact if its page and the map it has were allowed, fetched
\* and parsed, however many attempts that took.
Intact(t) ==
    /\ <<t, "page">> \in got /\ Page(t).parses
    /\ Page(t).map # None => <<t, "map">> \in got /\ site.map[Page(t).map].parses

\* Operating policy: any hard failure of a listed route blocks the export. What
\* is collected is the row of every listed route's page and map, in the order of
\* the index whatever order the requests were answered in, or no row and the
\* routes that are not intact, in that order too.
CompleteOrNothing ==
    index = "done" =>
       LET broken   == {t \in Tasks : ~Intact(t)}
           Place(t) == Cardinality({u \in broken : u <= t})
       IN  /\ DOMAIN collection.hardFailures = 1..Cardinality(broken)
           /\ \A t \in broken : collection.hardFailures[Place(t)] = Listed[t]
           /\ collection.rows =
                 IF broken # {} THEN <<>>
                 ELSE [t \in Tasks |-> Row(RouteSnapshot(Page(t), Placemarks(Page(t))))]

\* The segments of an exported direction follow its edges from end to end: the
\* first begins where the first edge does, each begins where the one before it
\* ends, and the last ends where the last edge does, its cumulative distance the
\* length of them all. None is longer than MaxLength.
Covers(segments, edges) ==
    LET n == Len(segments)
        Part(i) == segments[i].part
        Continues(i) == \/ Part(i + 1).edge = Part(i).edge /\ Part(i + 1).from = Part(i).to
                        \/ /\ Part(i).to = edges[Part(i).edge]
                           /\ Part(i + 1).edge = Part(i).edge + 1 /\ Part(i + 1).from = 0
    IN  /\ edges # <<>> => /\ n > 0
                           /\ Part(1).edge = 1 /\ Part(1).from = 0
                           /\ Part(n).edge = Len(edges) /\ Part(n).to = edges[Len(edges)]
                           /\ segments[n].cumulative = RunningTotal(edges)[Len(edges)]
        /\ edges = <<>> => segments = <<>>
        /\ \A i \in 1..(n - 1) : Continues(i)
        /\ \A i \in 1..n : Part(i).from <= Part(i).to /\ segments[i].length <= MaxLength

\* An exported route has a direction for every placed placemark of its map, in
\* their order, and its segments leave nothing of them out.
SegmentsCoverDirections ==
    index = "done" => \A t \in DOMAIN collection.rows :
       LET row        == collection.rows[t]
           placemarks == Placemarks(Page(t))
           Place(i)   == Cardinality({j \in Placed(placemarks) : j <= i})
       IN  /\ row.code = Page(t).code
           /\ DOMAIN row.directions = 1..Cardinality(Placed(placemarks))
           /\ \A i \in Placed(placemarks) :
                 Covers(row.directions[Place(i)].segments, placemarks[i].edges)

\* What a passenger chooses by: the public service directions of a route are all
\* of it or none, on two different directions, and a direction is named from the
\* label linked to it towards the other one's; linked or not, a service direction
\* refers to a direction of its own route version.
LabelsNameDirections ==
    index = "done" => \A row \in ToSet(collection.rows) :
       LET linked == {s \in ToSet(row.services) : s.link # None}
           public == {s \in linked : s.confidence \in Public}
       IN  /\ \A s \in linked : s.link \in DOMAIN row.directions
           /\ \A s \in public : s.label # None => Head(row.directions[s.link].name) = s.label
           /\ public # {} => /\ public = ToSet(row.services)
                             /\ {s.link : s \in public} = {1, 2}
           /\ \A s, r \in public : s # r /\ None \notin {s.label, r.label} =>
                 row.directions[s.link].name = <<s.label, r.label>>

\* Which way a label goes does not depend on the order of the map's placemarks.
MapOrderIrrelevant ==
    index = "done" => \A t \in DOMAIN collection.rows :
       LET row      == collection.rows[t]
           reversed == RouteSnapshot(Page(t), Reverse(Placemarks(Page(t))))
           Way(directions, link) == IF link = None THEN None ELSE directions[link].kind
       IN  \A k \in DOMAIN row.services :
              /\ row.services[k].confidence = reversed.matches[k].confidence
              /\ Way(row.directions, row.services[k].link)
                    = Way(reversed.directions, reversed.matches[k].route)

\* Every collection ends, with a result or an error.
CollectEnds == <>(index \in {"done", "raised"})
=============================================================================
