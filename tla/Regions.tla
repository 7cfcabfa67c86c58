------------------------------ MODULE Regions ------------------------------
(***************************************************************************)
(* The nearest city of a pixel (services/region.rs): a k-d tree built from *)
(* the regions table, loaded once, and a memo of the answers.  Handlers    *)
(* load the tree when the load at the start failed; they run in parallel,  *)
(* and a lookup is not atomic.                                             *)
(*                                                                         *)
(* Abstractions.  A pixel is the place its projection gives it.  A tree    *)
(* that is stored is never changed, so the lock and the Arc are one        *)
(* reference.  Nothing starts spawn_cache_cleanup.                         *)
(***************************************************************************)
EXTENDS KdTree

CONSTANTS
    Cities,         \* records, the place at "at"
    Places,         \* pairs <<latitude, longitude>>
    Pixels,         \* the places of the pixels asked for
    Handlers,
    Tables,         \* what the table may hold at the start, in the order of a scan
    MaxFailures,    \* bound: failed SELECTs
    MaxImports,     \* bound: import-geonames while the server is up
    MaxQueries

NoTree == <<>>
Fallback == None    \* fallback_region: the answer when the search finds nothing

VARIABLES
    cities,     \* external: the regions table
    tree,       \* the snapshot
    held,       \* history: the cities of the snapshot
    cache,      \* the memo
    loaded,
    job,        \* handlers; "main" loads at the start
    overlap,    \* history: a tree was stored while a lookup was under way
    budget

vars == <<cities, tree, held, cache, loaded, job, overlap, budget>>

Main == "main"
Idle == [pc |-> "idle", pixel |-> <<>>, rows |-> <<>>, answer |-> None]
NoCache == [p \in {} |-> None]
Serving == job[Main].pc = "idle"

\* ensure_loaded
Ask(h, p) ==
    /\ Serving /\ h # Main /\ job[h].pc = "idle"
    /\ budget.queries < MaxQueries /\ budget' = [budget EXCEPT !.queries = @ + 1]
    /\ job' = [job EXCEPT ![h] = [Idle EXCEPT !.pc = IF loaded THEN "lookup" ELSE "select",
                                              !.pixel = p]]
    /\ UNCHANGED <<cities, tree, held, cache, loaded, overlap>>

AfterLoad(h) == IF h = Main THEN Idle ELSE [job[h] EXCEPT !.pc = "lookup", !.rows = <<>>]

Select(h) ==
    /\ job[h].pc = "select"
    /\ job' = [job EXCEPT ![h].pc = "store", ![h].rows = cities]
    /\ UNCHANGED <<cities, tree, held, cache, loaded, overlap, budget>>

\* The error is dropped: the lookup goes on with the tree there is.
SelectFails(h) ==
    /\ job[h].pc = "select"
    /\ budget.failures < MaxFailures /\ budget' = [budget EXCEPT !.failures = @ + 1]
    /\ job' = [job EXCEPT ![h] = AfterLoad(h)]
    /\ UNCHANGED <<cities, tree, held, cache, loaded, overlap>>

StoreTree(h) ==
    /\ job[h].pc = "store"
    /\ tree' = Build(job[h].rows)
    /\ held' = job[h].rows
    /\ overlap' = (overlap \/ \E g \in DOMAIN job : job[g].pc = "memo")
    /\ job' = [job EXCEPT ![h].pc = "clear"]
    /\ UNCHANGED <<cities, cache, loaded, budget>>

\* Mutant of ClearCache: what was answered without a tree stays.
ClearNothing(h) ==
    /\ job[h].pc = "clear"
    /\ loaded' = TRUE
    /\ job' = [job EXCEPT ![h] = AfterLoad(h)]
    /\ UNCHANGED <<cities, tree, held, cache, overlap, budget>>

ClearCache(h) ==
    /\ job[h].pc = "clear"
    /\ cache' = NoCache
    /\ loaded' = TRUE
    /\ job' = [job EXCEPT ![h] = AfterLoad(h)]
    /\ UNCHANGED <<cities, tree, held, overlap, budget>>

\* for_pixel: the memo, or a search in the snapshot that is then memoised.
Lookup(h) ==
    LET p == job[h].pixel IN
    /\ job[h].pc = "lookup"
    /\ job' = [job EXCEPT ![h] = IF p \in DOMAIN cache THEN Idle
                                 ELSE [@ EXCEPT !.pc = "memo", !.answer = Nearest(tree, p)]]
    /\ UNCHANGED <<cities, tree, held, cache, loaded, overlap, budget>>

Memoise(h) ==
    /\ job[h].pc = "memo"
    /\ cache' = [p \in DOMAIN cache \cup {job[h].pixel} |->
                    IF p = job[h].pixel THEN job[h].answer ELSE cache[p]]
    /\ job' = [job EXCEPT ![h] = Idle]
    /\ UNCHANGED <<cities, tree, held, loaded, overlap, budget>>

\* External: an import adds a city, or moves the one of that id; nothing tells
\* the server.
Import(c) ==
    /\ c \notin Elements(cities)
    /\ budget.imports < MaxImports /\ budget' = [budget EXCEPT !.imports = @ + 1]
    /\ \/ cities' = Append(cities, c)
       \/ \E i \in DOMAIN cities : cities' = [cities EXCEPT ![i] = c]
    /\ UNCHANGED <<tree, held, cache, loaded, job, overlap>>

Init ==
    /\ cities \in Tables
    /\ tree = NoTree /\ held = <<>> /\ cache = NoCache /\ loaded = FALSE
    /\ job = [h \in Handlers \cup {Main} |->
                 IF h = Main THEN [Idle EXCEPT !.pc = "select"] ELSE Idle]
    /\ overlap = FALSE /\ budget = [failures |-> 0, imports |-> 0, queries |-> 0]

HandlerStep(h) ==
    \/ \E p \in Pixels : Ask(h, p)
    \/ Select(h) \/ SelectFails(h) \/ StoreTree(h) \/ ClearCache(h) \/ Lookup(h) \/ Memoise(h)

Next ==
    \/ \E h \in Handlers \cup {Main} : HandlerStep(h)
    \/ \E c \in Cities : Import(c)

Spec == Init /\ [][Next]_vars

-----------------------------------------------------------------------------
\* Types of the service.
RegionsTypeOK ==
    /\ cities \in Seq(Cities) /\ held \in Seq(Cities)
    /\ loaded \in BOOLEAN /\ overlap \in BOOLEAN
    /\ DOMAIN cache \subseteq Pixels /\ cache \in [DOMAIN cache -> Bests(Cities)]
    /\ job \in [Handlers \cup {Main} ->
                   [pc : {"idle", "select", "store", "clear", "lookup", "memo"},
                    pixel : Pixels \cup {<<>>}, rows : Seq(Cities), answer : Bests(Cities)]]

Right(q, answer) ==
    IF held = <<>> THEN answer = Fallback
    ELSE \E c \in Closest(Elements(held), q) : answer = <<c>>

\* The search in the tree finds a city that no other is nearer than, for every
\* place, although it leaves out half of the tree wherever it can; and so does
\* the memo, also after a failed load that had the fallback answered, unless a
\* lookup overlapped with a load.
AnswersAreNearest ==
    /\ \A q \in Places : Right(q, Nearest(tree, q))
    /\ ~overlap /\ (\A h \in DOMAIN job : job[h].pc # "clear")
           => \A p \in DOMAIN cache : Right(p, cache[p])
=============================================================================
