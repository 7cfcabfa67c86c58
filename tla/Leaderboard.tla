---------------------------- MODULE Leaderboard ----------------------------
(***************************************************************************)
(* The leaderboards (services/leaderboard.rs): a table leaderboard_view    *)
(* that two background tasks rebuild, a cache of one minute, a queue of    *)
(* keys to rebuild, and the requests of routes/leaderboard_routes.rs.      *)
(*                                                                         *)
(* Abstractions.  One type and one mode: `region` and a period, which has  *)
(* every path of the others.  Its keys are the whole board, the boards of  *)
(* countries, and cities (regionPlayers, regionAlliances), which are       *)
(* computed on request.  Of an answer, and of what the cache has, only     *)
(* matters whether it has entries: an empty list is never cached.  The     *)
(* transaction of update_leaderboard_entries decides at its DELETE which   *)
(* rows it removes (rows committed later are not seen) and takes effect at *)
(* its commit.                                                             *)
(***************************************************************************)
EXTENDS Naturals, Sequences, FiniteSets

CONSTANTS
    Entities,       \* cities, the entities of the board
    Countries, CountryOf,
    Requests,
    Top,            \* 50 entries
    BatchSize, MaxQueueSize, Dropped,
    Watched,        \* bound: the cities whose own boards are in play
    MaxPaints, MaxDays, MaxFailures, MaxRequests    \* bounds

\* {type}:{mode}:{entityId|all}
Board == [kind |-> "board", of |-> 0]
National == [kind : {"country"}, of : Countries]
City(c) == [kind |-> "live", of |-> c]
Live == {City(c) : c \in Watched}
BoardKeys == {Board} \cup National \cup Live
Tasks == {"warmup", "worker"}

VARIABLES
    score,      \* the painted pixels of each entity in the period
    view,       \* rows of leaderboard_view
    cache,      \* keys with an entry younger than CACHE_TTL_MS
    queue,      \* update_queue
    task,       \* what warmup and the worker are doing
    job,        \* what each request is doing
    torn,       \* history: the view was committed over an update its DELETE missed
    budget      \* paints, rollovers, failures and requests so far

vars == <<score, view, cache, queue, task, job, torn, budget>>

IdleTask(pc) == [pc |-> pc, key |-> Board, rows |-> {}, old |-> {}, missed |-> FALSE, batch |-> {}]
IdleJob == [pc |-> "idle", key |-> Board]

Spend(what, max) == budget[what] < max /\ budget' = [budget EXCEPT ![what] = @ + 1]

Smaller(a, b) == IF a < b THEN a ELSE b

\* Mutant of Rankings: entities without a pixel are ranked, too.
RankingsOfAll(S, n) ==
    LET size == Smaller(n, Cardinality(S))
    IN  {s \in [1..size -> S] :
            \A i, j \in 1..size : i < j => s[i] # s[j] /\ score[s[i]] >= score[s[j]]}

\* ORDER BY painted DESC LIMIT n over the entities of S: ties in any order.
Rankings(S, n) ==
    LET scored == {e \in S : score[e] > 0}
        size == Smaller(n, Cardinality(scored))
    IN  {s \in [1..size -> scored] :
            /\ \A i, j \in 1..size : i < j => s[i] # s[j] /\ score[s[i]] >= score[s[j]]
            /\ \A e \in scored, i \in 1..size :
                  (\A j \in 1..size : s[j] # e) => score[s[i]] >= score[e]}
Ids(rows) == {x.id : x \in rows}

RowsFor(k) == IF k \in National THEN {x \in view : x.id = k.of} ELSE IF k = Board THEN view ELSE {}
Cities(k) == {e \in Entities : CountryOf[e] = k.of}
Scored(S) == \E e \in S : score[e] > 0

-----------------------------------------------------------------------------
\* update_leaderboard_view and refresh_cache, in either task

Continues(t) ==
    IF t = "warmup" THEN IdleTask("sleep")
    ELSE IF task[t].batch # {} THEN [IdleTask("take") EXCEPT !.batch = task[t].batch]
    ELSE IF queue # {} THEN IdleTask("batch") ELSE IdleTask("wait")

\* A country's key rebuilds the whole board; a city's rebuilds nothing.
Query(t) ==
    LET j == task[t] IN
    /\ j.pc = "query"
    /\ IF j.key \in Live THEN task' = [task EXCEPT ![t].pc = "read"]
       ELSE \E s \in Rankings(Entities, Top) :
              task' = [task EXCEPT ![t].pc = "delete",
                                   ![t].rows = {[id |-> s[i], rank |-> i, px |-> score[s[i]]] : i \in DOMAIN s}]
    /\ UNCHANGED <<score, view, cache, queue, job, torn, budget>>

\* Mutant of Delete: nothing is deleted.
DeleteNothing(t) ==
    /\ task[t].pc = "delete"
    /\ task' = [task EXCEPT ![t].pc = "commit"]
    /\ UNCHANGED <<score, view, cache, queue, job, torn, budget>>

Delete(t) ==
    /\ task[t].pc = "delete"
    /\ task' = [task EXCEPT ![t].pc = "commit", ![t].old = Ids(view) \ Ids(task[t].rows)]
    /\ UNCHANGED <<score, view, cache, queue, job, torn, budget>>

Commit(t) ==
    LET j == task[t] IN
    /\ j.pc = "commit"
    /\ view' = {x \in view : x.id \notin j.old \cup Ids(j.rows)} \cup j.rows
    /\ torn' = j.missed
    /\ task' = [u \in Tasks |->
                  IF u = t THEN [task[t] EXCEPT !.pc = "read", !.rows = {}, !.old = {}, !.missed = FALSE]
                  ELSE [task[u] EXCEPT !.missed = @ \/ task[u].pc = "commit"]]
    /\ UNCHANGED <<score, cache, queue, job, budget>>

\* An error (or a deadlock of the two tasks) is logged.
UpdateFails(t) ==
    /\ task[t].pc \in {"query", "delete", "commit"} /\ Spend("failures", MaxFailures)
    /\ task' = [task EXCEPT ![t] = [IdleTask("read") EXCEPT !.key = task[t].key, !.batch = task[t].batch]]
    /\ UNCHANGED <<score, view, cache, queue, job, torn>>

\* refresh_cache: no entries leave the cache as it is.  What the cache has of
\* a country is stored again, as if it were new.
HasEntries(k) == RowsFor(k) # {} \/ (k \in National /\ (k \in cache \/ Scored(Cities(k))))

Refresh(t) ==
    LET j == task[t] IN
    /\ j.pc = "read"
    /\ cache' = IF HasEntries(j.key) THEN cache \cup {j.key} ELSE cache
    /\ task' = [task EXCEPT ![t] = Continues(t)]
    /\ UNCHANGED <<score, view, queue, job, torn, budget>>

\* Mutant of WarmupStarts: the views are built at the start only.
WarmupOnce ==
    /\ task["warmup"].pc = "sleep" /\ view = {}
    /\ task' = [task EXCEPT !["warmup"].pc = "query"]
    /\ UNCHANGED <<score, view, cache, queue, job, torn, budget>>

WarmupStarts ==
    /\ task["warmup"].pc = "sleep"
    /\ task' = [task EXCEPT !["warmup"].pc = "query"]
    /\ UNCHANGED <<score, view, cache, queue, job, torn, budget>>

-----------------------------------------------------------------------------
\* run_workers: while a batch is worked off, nothing else of the loop runs.

TickStarts ==
    /\ task["worker"].pc = "wait" /\ queue # {}
    /\ task' = [task EXCEPT !["worker"].pc = "batch"]
    /\ UNCHANGED <<score, view, cache, queue, job, torn, budget>>

TakeBatch ==
    /\ task["worker"].pc = "batch"
    /\ IF queue = {} THEN task' = [task EXCEPT !["worker"] = IdleTask("wait")] /\ UNCHANGED queue
       ELSE \E b \in SUBSET queue :
              /\ Cardinality(b) = Smaller(BatchSize, Cardinality(queue))
              /\ queue' = queue \ b
              /\ task' = [task EXCEPT !["worker"] = [IdleTask("take") EXCEPT !.batch = b]]
    /\ UNCHANGED <<score, view, cache, job, torn, budget>>

TakeKey ==
    /\ task["worker"].pc = "take"
    /\ \E k \in task["worker"].batch :
          task' = [task EXCEPT !["worker"].pc = "query", !["worker"].key = k, !["worker"].batch = @ \ {k}]
    /\ UNCHANGED <<score, view, cache, queue, job, torn, budget>>

\* A message of run_flusher, that the statistics of a city have changed.
\* invalidate: a full queue drops keys, whichever they are.
RegionChanged ==
    /\ task["worker"].pc = "wait"
    /\ \E c \in Watched :
          /\ \E d \in SUBSET queue :
                /\ Cardinality(d) = IF Cardinality(queue) >= MaxQueueSize
                                    THEN Smaller(Dropped, Cardinality(queue)) ELSE 0
                /\ queue' = (queue \ d) \cup {City(c)}
          /\ cache' = cache \ {City(c)}
    /\ UNCHANGED <<score, view, task, job, torn, budget>>

-----------------------------------------------------------------------------
\* get

AskGet(r) ==
    /\ job[r].pc = "idle" /\ Spend("requests", MaxRequests)
    /\ \E k \in BoardKeys : job' = [job EXCEPT ![r] = [pc |-> "view", key |-> k]]
    /\ UNCHANGED <<score, view, cache, queue, task, torn>>

\* The view, and for a city its statistics: entries found are the answer.
ReadView(r) ==
    LET k == job[r].key
        found == IF k \in Live THEN Scored({k.of}) ELSE RowsFor(k) # {}
    IN
    /\ job[r].pc = "view"
    /\ job' = [job EXCEPT ![r].pc = IF found THEN "found"
                                    ELSE IF k \in National THEN "country" ELSE "empty"]
    /\ UNCHANGED <<score, view, cache, queue, task, torn, budget>>

\* get_region_by_country: the cache or the statistics, which are cached.
ReadCountry(r) ==
    LET k == job[r].key IN
    /\ job[r].pc = "country"
    /\ cache' = IF Scored(Cities(k)) THEN cache \cup {k} ELSE cache
    /\ job' = [job EXCEPT ![r].pc = IF k \in cache \/ Scored(Cities(k)) THEN "found" ELSE "empty"]
    /\ UNCHANGED <<score, view, queue, task, torn, budget>>

\* No entries: what the cache still has.  queue_update looks at no limit, and
\* a city that has entries is answered without it.
Answer(r) ==
    LET k == job[r].key
        missing == job[r].pc = "empty" /\ k \notin cache
    IN
    /\ job[r].pc \in {"found", "empty"}
    /\ queue' = IF missing \/ (k \in queue \ Live) THEN queue \cup {k} ELSE queue
    /\ job' = [job EXCEPT ![r] = IdleJob]
    /\ UNCHANGED <<score, view, cache, task, torn, budget>>

-----------------------------------------------------------------------------
\* The statistics change.
Paint(e) ==
    /\ Spend("paints", MaxPaints)
    /\ score' = [score EXCEPT ![e] = @ + 1]
    /\ UNCHANGED <<view, cache, queue, task, job, torn>>

\* A new period begins.
Rollover ==
    /\ Spend("days", MaxDays)
    /\ score' = [e \in Entities |-> 0]
    /\ UNCHANGED <<view, cache, queue, task, job, torn>>

\* CACHE_TTL_MS is over; cleanup_cache takes the entry out later.
EntryExpires(k) ==
    /\ k \in cache
    /\ cache' = cache \ {k}
    /\ UNCHANGED <<score, view, queue, task, job, torn, budget>>

Init ==
    /\ score = [e \in Entities |-> 0] /\ view = {}
    /\ cache = {} /\ queue = {}
    /\ task = [t \in Tasks |-> IdleTask(IF t = "warmup" THEN "sleep" ELSE "wait")]
    /\ job = [r \in Requests |-> IdleJob] /\ torn = FALSE
    /\ budget = [paints |-> 0, days |-> 0, failures |-> 0, requests |-> 0]

Update(t) == Query(t) \/ Delete(t) \/ Commit(t) \/ UpdateFails(t) \/ Refresh(t)
Warmup == WarmupStarts \/ Update("warmup")
Batches == TickStarts \/ TakeBatch \/ TakeKey \/ Update("worker")

Next ==
    \/ Warmup \/ Batches \/ RegionChanged
    \/ \E r \in Requests : AskGet(r) \/ ReadView(r) \/ ReadCountry(r) \/ Answer(r)
    \/ \E e \in Entities : Paint(e)
    \/ \E k \in BoardKeys : EntryExpires(k)
    \/ Rollover

Spec == Init /\ [][Next]_vars /\ WF_vars(Warmup) /\ WF_vars(Batches)

-----------------------------------------------------------------------------
\* Types of the view, the cache, the queue and the tasks.
LeaderboardTypeOK ==
    /\ score \in [Entities -> 0..MaxPaints]
    /\ view \subseteq [id : Entities, rank : 1..Top, px : 1..MaxPaints]
    /\ cache \subseteq BoardKeys /\ queue \subseteq BoardKeys
    /\ \A t \in Tasks : task[t].pc \in {"sleep", "wait", "batch", "take", "query", "delete", "commit", "read"}

IsRanking(rows) ==
    /\ {x.rank : x \in rows} = 1..Cardinality(rows)
    /\ \A x, y \in rows : x.id = y.id \/ x.rank < y.rank => x = y \/ x.px >= y.px

\* The rows of the view are one ranking, with ranks 1, 2, ... in order of the
\* pixels, whatever failed, unless two updates of the board have overlapped.
ViewIsARanking ==
    /\ \A x, y \in view : x.id = y.id => x = y
    /\ ~torn => IsRanking(view)

\* Once the statistics change no more, the view holds their ranking for good:
\* a view torn by overlapping updates is repaired, and an entity that has left
\* the ranking leaves the view.
ViewCatchesUp ==
    <>[](\E s \in Rankings(Entities, Top) :
            view = {[id |-> s[i], rank |-> i, px |-> score[s[i]]] : i \in DOMAIN s})
=============================================================================
