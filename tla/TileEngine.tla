----------------------------- MODULE TileEngine -----------------------------
(***************************************************************************)
(* The in-memory tile engine: services/tiles.rs, the paint handler of      *)
(* services/paint.rs from the charge on, the tile reader of                *)
(* routes/pixel_routes.rs, and the tables tiles and pixels under them.     *)
(*                                                                         *)
(* Every statement sent to PostgreSQL is one step, and so is every access  *)
(* to a shared map, lock, flag or channel: the server is a multi-threaded  *)
(* Tokio runtime, so tasks interleave between any two of them.             *)
(*                                                                         *)
(* Abstractions.  A grid is a function from a small set of pixels to color *)
(* ids; the PNG is written under the grid's write lock and is its image,   *)
(* so one field stands for both.  The LRU clock is abstracted to an        *)
(* arbitrary choice of victims.  Timestamps are abstracted to the relation *)
(* the code asks about: newer[t] is the set of pixel rows of t whose       *)
(* painted_at is later than the tile's updated_at.                         *)
(***************************************************************************)
EXTENDS Integers, FiniteSets

CONSTANTS
    Tiles, Pixels, Palette, NoRow, NoTile,
    Painters,        \* paint requests in flight together
    Viewers,         \* tile reads in flight together
    Reconciler,      \* the background reconcile task
    Ids,             \* names for cache entries (Arc<TileEntry> allocations)
    MaxTiles,        \* TILE_CACHE_MAX_TILES
    PixelChunk,      \* PIXEL_CHUNK
    ReconcileLimit,  \* LIMIT of the reconcile query
    MaxPaints,       \* bound: paint requests ever started
    MaxLoads,        \* bound: tile reads that miss the cache
    MaxScans,        \* bound: rounds of the reconciler
    Seeded,          \* tiles that have pixel rows before the server starts
    Faults           \* what the environment may do: subset of {"db", "crash"}

Transparent == 0
NoEntry == 0
Shades == Palette \cup {Transparent}
Values == Palette \cup {NoRow}
Grid == [Pixels -> Shades]
Blank == [x \in Pixels |-> Transparent]
Procs == Painters \cup Viewers \cup {Reconciler}

ASSUME EngineAssumption ==
    /\ Palette \subseteq Nat
    /\ NoRow \notin Shades
    /\ NoTile \notin Tiles /\ NoRow \notin Tiles
    /\ Ids \subseteq Nat \ {NoEntry}
    /\ Painters \cap Viewers = {}
    /\ Reconciler \notin Painters \cup Viewers
    /\ MaxTiles \in Nat \ {0}
    /\ PixelChunk \in Nat \ {0}
    /\ ReconcileLimit \in Nat \ {0}
    /\ MaxPaints \in Nat /\ MaxLoads \in Nat /\ MaxScans \in Nat
    /\ Seeded \subseteq Tiles

VARIABLES
    rows,      \* pixels table: rows[t][x] is a color id or NoRow
    tileRows,  \* tiles table: the tiles that have a row
    blob,      \* tiles.image_data: its encoding and the grid it shows
    newer,     \* pixel rows painted after the tile row's updated_at
    map,       \* TileStore.map: the cached entry of a tile, or NoEntry
    heap,      \* the entries alive: in the map, or held by a task
    pending,   \* the dirty channel: its first key, and the keys behind it
    job,       \* what each request, read and the reconciler is doing
    scan,      \* tiles the reconciler still has to reload
    fl,        \* the flusher
    answer,    \* how the last request of a painter was answered
    recorded,  \* history: every <<tile, pixel, color>> ever committed
    used       \* how much of each bound has been used

db == <<rows, tileRows, blob, newer>>
ram == <<map, heap, pending, job, scan, fl>>
vars == <<db, ram, answer, recorded, used>>

-----------------------------------------------------------------------------
\* Helpers

Shade(v) == IF v = NoRow THEN Transparent ELSE v

\* Mutant of RowsGrid: a pixel without a row is not read as transparent.
RowsGridRaw(t) == [x \in Pixels |-> rows[t][x]]

\* build_grid_from_db: the grid the pixel rows of t show.
RowsGrid(t) == [x \in Pixels |-> Shade(rows[t][x])]

HasRows(t) == \E x \in Pixels : rows[t][x] # NoRow

Overlay(g, D, v) == [x \in Pixels |-> IF x \in D THEN v ELSE g[x]]

NoImage == [kind |-> "none", grid |-> Blank]

FreeEntry == [tile |-> NoTile, grid |-> Blank, dirty |-> FALSE, unsaved |-> FALSE]

\* make_entry.  "unsaved" is a history flag: apply has written to the entry
\* something its tile's blob does not show yet.
MakeEntry(t, g) == [tile |-> t, grid |-> g, dirty |-> FALSE, unsaved |-> FALSE]

IdleJob == [pc |-> "idle", tile |-> NoTile, value |-> NoRow, px |-> {}, todo |-> {},
            grid |-> Blank, ent |-> NoEntry, victims |-> {}, held |-> NoEntry]

IdleFlusher == [pc |-> "recv", batch |-> {}, tile |-> NoTile, ent |-> NoEntry, png |-> Blank]

Live(m, j, f) ==
    {m[t] : t \in Tiles} \cup {j[p].ent : p \in Procs} \cup {j[p].held : p \in Procs} \cup {f.ent}

\* An entry lives as long as the map or a task holds an Arc to it.
HeapBecomes(h) == heap' = [i \in Ids |-> IF i \in Live(map', job', fl') THEN h[i] ELSE FreeEntry]

Fresh == {i \in Ids : heap[i] = FreeEntry}

\* dirty_tx.send: the flusher consumes the head on its own and then drains
\* whatever is behind it, so the rest needs neither order nor multiplicity.
Sent(t) == IF pending.head = NoTile THEN [pending EXCEPT !.head = t]
                                    ELSE [pending EXCEPT !.rest = @ \cup {t}]

Cached(m) == {t \in Tiles : m[t] # NoEntry}

-----------------------------------------------------------------------------
\* insert_and_evict: the key is (over)written; beyond the cap, victims are
\* taken out of the map one at a time and put back if they are dirty.

InsertedPc(p) == CASE p \in Painters -> "write"
                   [] p \in Viewers -> "idle"
                   [] OTHER -> "mark"

Resume(p, j) == IF InsertedPc(p) = "idle" THEN IdleJob ELSE [j EXCEPT !.pc = InsertedPc(p)]

InsertEntry(p, g) ==
    LET t == job[p].tile IN
    \E i \in Fresh :
        /\ \A k \in Fresh : i <= k
        /\ map' = [map EXCEPT ![t] = i]
        /\ job' = [job EXCEPT ![p] = [@ EXCEPT !.pc = "count", !.ent = i, !.grid = Blank]]
        /\ HeapBecomes([heap EXCEPT ![i] = MakeEntry(t, g)])

\* map.len() > max_tiles.
EvictCount(p) ==
    /\ job[p].pc = "count"
    /\ UNCHANGED <<db, map, pending, scan, fl, answer, recorded, used>>
    /\ job' = [job EXCEPT ![p] = IF Cardinality(Cached(map)) > MaxTiles
                                 THEN [@ EXCEPT !.pc = "choose"] ELSE Resume(p, @)]
    /\ HeapBecomes(heap)

\* The victims: len() is read again, and "len - max_tiles" wraps around when
\* others have evicted meanwhile, to more than there are candidates.
Excess(n) == IF n >= MaxTiles THEN n - MaxTiles ELSE n

EvictChoose(p) ==
    /\ job[p].pc = "choose"
    /\ UNCHANGED <<db, map, pending, scan, fl, answer, recorded, used>>
    /\ \E V \in SUBSET Cached(map) :
          /\ Cardinality(V) = Excess(Cardinality(Cached(map)))
          /\ job' = [job EXCEPT ![p] = IF V # {} THEN [@ EXCEPT !.pc = "evict", !.victims = V]
                                                 ELSE Resume(p, @)]
    /\ HeapBecomes(heap)

\* map.remove of the next victim.
EvictRemove(p) ==
    /\ job[p].pc = "evict"
    /\ UNCHANGED <<db, pending, scan, fl, answer, recorded, used>>
    /\ \E t \in job[p].victims :
        LET j == [job[p] EXCEPT !.victims = @ \ {t}, !.held = map[t]] IN
        /\ map' = [map EXCEPT ![t] = NoEntry]
        /\ job' = [job EXCEPT ![p] = CASE map[t] # NoEntry -> [j EXCEPT !.pc = "keep"]
                                       [] map[t] = NoEntry /\ j.victims # {} -> j
                                       [] OTHER -> Resume(p, j)]
    /\ HeapBecomes(heap)

\* Mutant of EvictKeep: the victim is put back under the inserted tile's key.
EvictKeepUnderOwnKey(p) ==
    /\ job[p].pc = "keep"
    /\ UNCHANGED <<db, pending, scan, fl, answer, recorded, used>>
    /\ LET e == heap[job[p].held]
           j == [job[p] EXCEPT !.held = NoEntry, !.pc = "evict"]
       IN /\ map' = IF e.dirty THEN [map EXCEPT ![job[p].tile] = job[p].held] ELSE map
          /\ job' = [job EXCEPT ![p] = IF j.victims # {} THEN j ELSE Resume(p, j)]
    /\ HeapBecomes(heap)

\* Mutant of EvictKeep: a dirty victim is tried again, until the cap is met.
EvictKeepRetries(p) ==
    /\ job[p].pc = "keep"
    /\ UNCHANGED <<db, pending, scan, fl, answer, recorded, used>>
    /\ LET e == heap[job[p].held]
           j == [job[p] EXCEPT !.held = NoEntry, !.pc = "evict",
                               !.victims = IF e.dirty THEN @ \cup {e.tile} ELSE @]
       IN /\ map' = IF e.dirty THEN [map EXCEPT ![e.tile] = job[p].held] ELSE map
          /\ job' = [job EXCEPT ![p] = IF j.victims # {} THEN j ELSE Resume(p, j)]
    /\ HeapBecomes(heap)

\* "Never drop unsaved work": the flag is read only after the removal.
EvictKeep(p) ==
    /\ job[p].pc = "keep"
    /\ UNCHANGED <<db, pending, scan, fl, answer, recorded, used>>
    /\ LET e == heap[job[p].held]
           j == [job[p] EXCEPT !.held = NoEntry, !.pc = "evict"]
       IN /\ map' = IF e.dirty THEN [map EXCEPT ![e.tile] = job[p].held] ELSE map
          /\ job' = [job EXCEPT ![p] = IF j.victims # {} THEN j ELSE Resume(p, j)]
    /\ HeapBecomes(heap)

-----------------------------------------------------------------------------
\* A paint or clear request, from the moment its charge has been taken.

\* is_cached decides whether the tile row is ensured first.
PaintBegin(p) ==
    /\ job[p].pc = "idle"
    /\ used.paints < MaxPaints /\ used' = [used EXCEPT !.paints = @ + 1]
    /\ \E t \in Tiles, D \in (SUBSET Pixels) \ {{}}, v \in Values :
          job' = [job EXCEPT ![p] = [IdleJob EXCEPT
                     !.pc = IF map[t] # NoEntry THEN "upsert" ELSE "row",
                     !.tile = t, !.value = v, !.px = D, !.todo = D]]
    /\ answer' = [answer EXCEPT ![p] = "none"]
    /\ UNCHANGED <<db, map, heap, pending, scan, fl, recorded>>

\* Mutant of EnsureRow: ON CONFLICT DO UPDATE SET updated_at = now().
EnsureRowTouches(p) ==
    /\ job[p].pc = "row"
    /\ tileRows' = tileRows \cup {job[p].tile}
    /\ newer' = [newer EXCEPT ![job[p].tile] = {}]
    /\ job' = [job EXCEPT ![p].pc = "upsert"]
    /\ UNCHANGED <<rows, blob, map, heap, pending, scan, fl, answer, recorded, used>>

\* INSERT INTO tiles ... ON CONFLICT DO NOTHING; updated_at defaults to now().
EnsureRow(p) ==
    /\ job[p].pc = "row"
    /\ tileRows' = tileRows \cup {job[p].tile}
    /\ job' = [job EXCEPT ![p].pc = "upsert"]
    /\ UNCHANGED <<rows, blob, newer, map, heap, pending, scan, fl, answer, recorded, used>>

\* Mutant of UpsertChunk: the loop ends after the first chunk.
UpsertFirstChunkOnly(p) ==
    LET t == job[p].tile
        v == job[p].value
    IN
    /\ job[p].pc = "upsert"
    /\ v # NoRow => t \in tileRows
    /\ \E S \in SUBSET job[p].todo :
          /\ Cardinality(S) = IF Cardinality(job[p].todo) < PixelChunk
                              THEN Cardinality(job[p].todo) ELSE PixelChunk
          /\ rows' = [rows EXCEPT ![t] = Overlay(@, S, v)]
          /\ newer' = [newer EXCEPT ![t] = IF v = NoRow THEN @ \ S ELSE @ \cup S]
          /\ recorded' = recorded \cup {<<t, x, Shade(v)>> : x \in S}
          /\ job' = [job EXCEPT ![p].todo = @ \ S, ![p].pc = "find"]
    /\ UNCHANGED <<tileRows, blob, map, heap, pending, scan, fl, answer, used>>

\* One chunk: an upsert of pixel rows, or the DELETE of a clear.  An upsert
\* needs the tile row (foreign key of pixels).
UpsertChunk(p) ==
    LET t == job[p].tile
        v == job[p].value
    IN
    /\ job[p].pc = "upsert"
    /\ v # NoRow => t \in tileRows
    /\ \E S \in SUBSET job[p].todo :
          /\ Cardinality(S) = IF Cardinality(job[p].todo) < PixelChunk
                              THEN Cardinality(job[p].todo) ELSE PixelChunk
          /\ rows' = [rows EXCEPT ![t] = Overlay(@, S, v)]
          /\ newer' = [newer EXCEPT ![t] = IF v = NoRow THEN @ \ S ELSE @ \cup S]
          /\ recorded' = recorded \cup {<<t, x, Shade(v)>> : x \in S}
          /\ job' = [job EXCEPT ![p].todo = @ \ S,
                                ![p].pc = IF job[p].todo = S THEN "find" ELSE "upsert"]
    /\ UNCHANGED <<tileRows, blob, map, heap, pending, scan, fl, answer, used>>

\* Mutant of PaintFail: the error of a chunk is dropped and apply is called.
PaintFailIgnored(p) ==
    /\ \/ job[p].pc \in {"row", "upsert"} /\ "db" \in Faults
       \/ job[p].pc = "upsert" /\ job[p].value # NoRow /\ job[p].tile \notin tileRows
    /\ job' = [job EXCEPT ![p].pc = "find"]
    /\ UNCHANGED <<db, map, heap, pending, scan, fl, answer, recorded, used>>

\* A statement fails: the connection is lost, or the upsert violates the
\* foreign key.  The handler returns the error; nothing is undone.
PaintFail(p) ==
    /\ \/ job[p].pc \in {"row", "upsert"} /\ "db" \in Faults
       \/ job[p].pc = "upsert" /\ job[p].value # NoRow /\ job[p].tile \notin tileRows
    /\ job' = [job EXCEPT ![p] = IdleJob]
    /\ answer' = [answer EXCEPT ![p] = "error"]
    /\ UNCHANGED <<db, map, heap, pending, scan, fl, recorded, used>>

\* apply: look the entry up; a tile that is not cached gets an empty grid.
ApplyFind(p) ==
    /\ job[p].pc = "find"
    /\ UNCHANGED <<db, pending, scan, fl, answer, recorded, used>>
    /\ IF map[job[p].tile] # NoEntry
       THEN /\ job' = [job EXCEPT ![p].ent = map[job[p].tile], ![p].pc = "write"]
            /\ UNCHANGED <<map, heap>>
       ELSE InsertEntry(p, Blank)

\* apply: grid and PNG change together under the grid's write lock.
ApplyWrite(p) ==
    LET i == job[p].ent IN
    /\ job[p].pc = "write"
    /\ heap' = [heap EXCEPT ![i].grid = Overlay(@, job[p].px, Shade(job[p].value)),
                            ![i].unsaved = TRUE]
    /\ job' = [job EXCEPT ![p].pc = "mark"]
    /\ UNCHANGED <<db, map, pending, scan, fl, answer, recorded, used>>

\* apply, reload_from_db: dirty.store(true).
MarkDirty(p) ==
    /\ job[p].pc = "mark"
    /\ heap' = [heap EXCEPT ![job[p].ent].dirty = TRUE]
    /\ job' = [job EXCEPT ![p].pc = "send"]
    /\ UNCHANGED <<db, map, pending, scan, fl, answer, recorded, used>>

\* apply, reload_from_db: dirty_tx.send, and the task is done with the tile.
SendKey(p) ==
    /\ job[p].pc = "send"
    /\ UNCHANGED <<db, map, scan, fl, recorded, used>>
    /\ pending' = Sent(job[p].tile)
    /\ job' = [job EXCEPT ![p] = IdleJob]
    /\ answer' = IF p \in Painters THEN [answer EXCEPT ![p] = "ok"] ELSE answer
    /\ HeapBecomes(heap)

-----------------------------------------------------------------------------
\* entry: a cached tile is served as it is (no step); a miss is loaded.

ViewMiss(v) ==
    /\ job[v].pc = "idle"
    /\ used.loads < MaxLoads /\ used' = [used EXCEPT !.loads = @ + 1]
    /\ \E t \in Tiles : /\ map[t] = NoEntry
                        /\ job' = [job EXCEPT ![v] = [IdleJob EXCEPT !.pc = "blob", !.tile = t]]
    /\ UNCHANGED <<db, map, heap, pending, scan, fl, answer, recorded>>

\* load_entry: SELECT image_data; only a truecolor PNG decodes to a grid.
LoadBlob(v) ==
    LET b == blob[job[v].tile] IN
    /\ job[v].pc = "blob"
    /\ job' = [job EXCEPT ![v] = IF b.kind = "truecolor"
                                 THEN [@ EXCEPT !.pc = "insert", !.grid = b.grid]
                                 ELSE [@ EXCEPT !.pc = "rows"]]
    /\ UNCHANGED <<db, map, heap, pending, scan, fl, answer, recorded, used>>

\* load_entry: build_grid_from_db; a rebuilt tile's key is sent, its entry is
\* not marked dirty.  No pixel row: a blank "phantom" entry.
LoadRows(v) ==
    LET t == job[v].tile IN
    /\ job[v].pc = "rows"
    /\ v \in Viewers
    /\ job' = [job EXCEPT ![v].pc = "insert", ![v].grid = RowsGrid(t)]
    /\ pending' = IF HasRows(t) THEN Sent(t) ELSE pending
    /\ UNCHANGED <<db, map, heap, scan, fl, answer, recorded, used>>

\* entry: insert_and_evict after the awaits of load_entry.
LoadInsert(p) ==
    /\ job[p].pc = "insert"
    /\ UNCHANGED <<db, pending, scan, fl, answer, recorded, used>>
    /\ InsertEntry(p, job[p].grid)

ViewFail(v) ==
    /\ "db" \in Faults
    /\ job[v].pc \in {"blob", "rows"}
    /\ job' = [job EXCEPT ![v] = IdleJob]
    /\ UNCHANGED <<db, map, heap, pending, scan, fl, answer, recorded, used>>

-----------------------------------------------------------------------------
\* reconcile, every five minutes: tiles whose pixel rows are newer.

Stale == {t \in Tiles : HasRows(t) /\ (t \notin tileRows \/ newer[t] # {})}

ReconcileScan ==
    /\ job[Reconciler].pc = "idle" /\ scan = {}
    /\ used.scans < MaxScans /\ used' = [used EXCEPT !.scans = @ + 1]
    /\ \E S \in SUBSET Stale :
          /\ Cardinality(S) = IF Cardinality(Stale) < ReconcileLimit
                              THEN Cardinality(Stale) ELSE ReconcileLimit
          /\ S # {}
          /\ scan' = S
    /\ UNCHANGED <<db, map, heap, pending, job, fl, answer, recorded>>

\* reload_from_db: build_grid_from_db of the next tile.  No rows left, or an
\* error: the tile is skipped.
ReconcileLoad ==
    /\ job[Reconciler].pc = "idle"
    /\ \E t \in scan :
          /\ scan' = scan \ {t}
          /\ \/ /\ HasRows(t)
                /\ job' = [job EXCEPT ![Reconciler] =
                             [IdleJob EXCEPT !.pc = "insert", !.tile = t, !.grid = RowsGrid(t)]]
             \/ /\ ~HasRows(t) \/ "db" \in Faults
                /\ UNCHANGED job
    /\ UNCHANGED <<db, map, heap, pending, fl, answer, recorded, used>>

-----------------------------------------------------------------------------
\* run_flusher

\* recv() takes the first key and throws it away; try_recv() drains the rest.
FlushRecv ==
    /\ fl.pc = "recv"
    /\ pending.head # NoTile
    /\ fl' = [fl EXCEPT !.pc = "next", !.batch = pending.rest]
    /\ pending' = [head |-> NoTile, rest |-> {}]
    /\ UNCHANGED <<db, map, heap, job, scan, answer, recorded, used>>

FlushIdle ==
    /\ fl.pc = "next" /\ fl.batch = {}
    /\ fl' = IdleFlusher
    /\ UNCHANGED <<db, map, heap, pending, job, scan, answer, recorded, used>>


\* dirty.swap(false); a key that is not cached or not dirty is skipped.
FlushSwap ==
    /\ fl.pc = "next"
    /\ \E t \in fl.batch :
        LET f == [fl EXCEPT !.batch = @ \ {t}] IN
        IF map[t] # NoEntry /\ heap[map[t]].dirty
        THEN /\ fl' = [f EXCEPT !.pc = "read", !.tile = t, !.ent = map[t]]
             /\ heap' = [heap EXCEPT ![map[t]].dirty = FALSE]
        ELSE /\ fl' = f
             /\ UNCHANGED heap
    /\ UNCHANGED <<db, map, pending, job, scan, answer, recorded, used>>

FlushRead ==
    /\ fl.pc = "read"
    /\ fl' = [fl EXCEPT !.pc = "write", !.png = heap[fl.ent].grid]
    /\ UNCHANGED <<db, map, heap, pending, job, scan, answer, recorded, used>>

\* Mutant of Flushed: the flag is cleared (again) once the statement has run.
FlushedClears(stored) ==
    /\ fl' = [IdleFlusher EXCEPT !.pc = "next", !.batch = fl.batch]
    /\ HeapBecomes([heap EXCEPT ![fl.ent].dirty = FALSE,
                                ![fl.ent].unsaved = @ /\ heap[fl.ent].grid # stored])

\* What happens to the entry once a statement of the flusher has run.
Flushed(stored) ==
    /\ fl' = [IdleFlusher EXCEPT !.pc = "next", !.batch = fl.batch]
    /\ HeapBecomes([heap EXCEPT ![fl.ent].unsaved = @ /\ heap[fl.ent].grid # stored])

StoreBlob ==
    /\ blob' = [blob EXCEPT ![fl.tile] = [kind |-> "indexed", grid |-> fl.png]]
    /\ newer' = [newer EXCEPT ![fl.tile] = {}]
    /\ tileRows' = tileRows \cup {fl.tile}
    /\ Flushed(fl.png)

\* UPDATE tiles SET image_data; no row updated: go on to the INSERT.
FlushUpdate ==
    /\ fl.pc = "write"
    /\ UNCHANGED <<rows, map, pending, job, scan, answer, recorded, used>>
    /\ IF fl.tile \in tileRows
       THEN StoreBlob
       ELSE /\ fl' = [fl EXCEPT !.pc = "upsert"]
            /\ UNCHANGED <<tileRows, blob, newer, heap>>

\* Mutant of FlushUpdateFail: the entry is left clean.
FlushUpdateFailForgets ==
    /\ "db" \in Faults /\ fl.pc = "write"
    /\ UNCHANGED <<db, map, pending, job, scan, answer, recorded, used>>
    /\ fl' = [IdleFlusher EXCEPT !.pc = "next", !.batch = fl.batch]
    /\ HeapBecomes(heap)

\* The UPDATE fails: the entry is marked dirty again; no key is sent.
FlushUpdateFail ==
    /\ "db" \in Faults /\ fl.pc = "write"
    /\ UNCHANGED <<db, map, pending, job, scan, answer, recorded, used>>
    /\ fl' = [IdleFlusher EXCEPT !.pc = "next", !.batch = fl.batch]
    /\ HeapBecomes([heap EXCEPT ![fl.ent].dirty = TRUE])

FlushInsert ==
    /\ fl.pc = "upsert"
    /\ UNCHANGED <<rows, map, pending, job, scan, answer, recorded, used>>
    /\ StoreBlob

\* The INSERT fails: the result is ignored.
FlushInsertFail ==
    /\ "db" \in Faults /\ fl.pc = "upsert"
    /\ UNCHANGED <<db, map, pending, job, scan, answer, recorded, used>>
    /\ Flushed(blob[fl.tile].grid)

-----------------------------------------------------------------------------
Restart ==
    /\ map' = [t \in Tiles |-> NoEntry]
    /\ heap' = [i \in Ids |-> FreeEntry]
    /\ pending' = [head |-> NoTile, rest |-> {}]
    /\ job' = [p \in Procs |-> IdleJob]
    /\ scan' = {}
    /\ fl' = IdleFlusher
    /\ answer' = [p \in Painters |-> "none"]

\* The process dies and is started again on the same database.
Crash ==
    /\ "crash" \in Faults
    /\ Restart
    /\ UNCHANGED <<db, recorded, used>>

\* The database the server starts on: seeded tiles have been painted in one
\* color and hold no image yet, an image of this server or a migrated one.
Init ==
    /\ \E c \in Palette :
          rows = [t \in Tiles |-> [x \in Pixels |-> IF t \in Seeded THEN c ELSE NoRow]]
    /\ tileRows = Seeded
    /\ \E k \in {"none", "indexed", "truecolor"} :
          /\ blob = [t \in Tiles |-> IF t \in Seeded /\ k # "none"
                                     THEN [kind |-> k, grid |-> RowsGrid(t)] ELSE NoImage]
          /\ newer = [t \in Tiles |-> IF t \in Seeded /\ k = "none" THEN Pixels ELSE {}]
    /\ map = [t \in Tiles |-> NoEntry]
    /\ heap = [i \in Ids |-> FreeEntry]
    /\ pending = [head |-> NoTile, rest |-> {}]
    /\ job = [p \in Procs |-> IdleJob]
    /\ scan = {}
    /\ fl = IdleFlusher
    /\ answer = [p \in Painters |-> "none"]
    /\ used = [paints |-> 0, loads |-> 0, scans |-> 0]
    /\ recorded = {<<t, x, rows[t][x]>> : t \in Seeded, x \in Pixels}

\* The server waits for requests: every task is at rest.
AtRest ==
    /\ \A p \in Procs : job[p].pc = "idle"
    /\ scan = {} /\ fl.pc = "recv" /\ pending.head = NoTile
    /\ UNCHANGED vars

Evict(p) == EvictCount(p) \/ EvictChoose(p) \/ EvictRemove(p) \/ EvictKeep(p)

Paint(p) ==
    EnsureRow(p) \/ UpsertChunk(p) \/ ApplyFind(p) \/ ApplyWrite(p)

View(v) == LoadBlob(v) \/ LoadRows(v)

Flush ==
    FlushRecv \/ FlushIdle \/ FlushSwap \/ FlushRead \/ FlushUpdate \/ FlushInsert

Next ==
    \/ \E p \in Painters : PaintBegin(p) \/ Paint(p) \/ PaintFail(p)
    \/ \E v \in Viewers : ViewMiss(v) \/ View(v) \/ ViewFail(v)
    \/ \E p \in Procs : LoadInsert(p) \/ Evict(p) \/ MarkDirty(p) \/ SendKey(p)
    \/ ReconcileScan \/ ReconcileLoad
    \/ Flush \/ FlushUpdateFail \/ FlushInsertFail
    \/ Crash \/ AtRest

Spec == Init /\ [][Next]_vars

-----------------------------------------------------------------------------
\* Properties

Pcs == {"idle", "row", "upsert", "find", "write", "mark", "send", "count", "choose",
        "evict", "keep", "blob", "rows", "insert"}

Entries == [tile : Tiles \cup {NoTile}, grid : Grid, dirty : BOOLEAN, unsaved : BOOLEAN]

Jobs == [pc : Pcs, tile : Tiles \cup {NoTile}, value : Values, px : SUBSET Pixels,
         todo : SUBSET Pixels, grid : Grid, ent : Ids \cup {NoEntry},
         victims : SUBSET Tiles, held : Ids \cup {NoEntry}]

Flushers == [pc : {"recv", "next", "read", "write", "upsert"}, batch : SUBSET Tiles,
             tile : Tiles \cup {NoTile}, ent : Ids \cup {NoEntry}, png : Grid]

\* Every variable has its type.
TypeOK ==
    /\ rows \in [Tiles -> [Pixels -> Values]]
    /\ tileRows \in SUBSET Tiles
    /\ blob \in [Tiles -> [kind : {"none", "indexed", "truecolor"}, grid : Grid]]
    /\ newer \in [Tiles -> SUBSET Pixels]
    /\ map \in [Tiles -> Ids \cup {NoEntry}]
    /\ heap \in [Ids -> Entries]
    /\ pending \in [head : Tiles \cup {NoTile}, rest : SUBSET Tiles]
    /\ job \in [Procs -> Jobs]
    /\ scan \in SUBSET Tiles
    /\ fl \in Flushers
    /\ answer \in [Painters -> {"none", "ok", "error"}]
    /\ used \in [paints : 0..MaxPaints, loads : 0..MaxLoads, scans : 0..MaxScans]
    /\ recorded \in SUBSET (Tiles \X Pixels \X Shades)

\* g shows on tile t only colors that were once committed to pixels.
OnlyRecorded(t, g) ==
    \A x \in Pixels : g[x] = Transparent \/ <<t, x, g[x]>> \in recorded

\* Nothing is ever shown that was not recorded first: every color in a cached
\* grid, in an evicted grid a task still holds, and in a stored blob was once
\* in the pixels table at that place.  paint_pixels commits all its chunks
\* before it calls apply, and no error path reaches apply.
ShownWasRecorded ==
    /\ \A i \in Ids : OnlyRecorded(heap[i].tile, heap[i].grid)
    /\ \A t \in Tiles : OnlyRecorded(t, blob[t].grid)

\* A grid apply has written to is saved, dirty, about to be marked dirty, or in
\* the flusher's hands: no interleaving of apply's write-then-mark with the
\* flusher's swap-then-read, and no failed statement, leaves it clean.
WrittenIsOwed ==
    \A i \in Ids : heap[i].unsaved =>
        \/ heap[i].dirty
        \/ \E p \in Procs : job[p].pc = "mark" /\ job[p].ent = i
        \/ fl.ent = i /\ fl.pc \in {"read", "write", "upsert"}

\* A tile with pixel rows whose image was never stored is found by reconcile:
\* every one of its rows is newer than the tile row, in every order of
\* ensure_row, upserts, clears, failures and crashes.
NeverStoredIsFound ==
    \A t \in Tiles : blob[t].kind = "none" =>
        newer[t] = {x \in Pixels : rows[t][x] # NoRow}

\* The durable promise of the paint pipeline: see Canvas.
OpenRequest(j) ==
    IF j.pc = "idle" THEN [tile |-> NoRow, value |-> NoRow, todo |-> {}]
                     ELSE [tile |-> j.tile, value |-> j.value, todo |-> j.todo]

Promise == INSTANCE Canvas WITH req <- [p \in Painters |-> OpenRequest(job[p])]

PromiseKept == Promise!CanvasSpec

\* Fairness: the runtime keeps polling every task, and a statement returns.
Progress(p) ==
    \/ Evict(p) \/ MarkDirty(p) \/ SendKey(p) \/ LoadInsert(p)
    \/ p \in Painters /\ (Paint(p) \/ PaintFail(p))
    \/ p \in Viewers /\ (View(p) \/ ViewFail(p))

Fairness ==
    /\ \A p \in Procs : WF_vars(Progress(p))
    /\ WF_vars(ReconcileScan \/ ReconcileLoad)
    /\ WF_vars(Flush \/ FlushUpdateFail \/ FlushInsertFail)

FairSpec == Spec /\ Fairness

\* No request, read or reload hangs: whatever the others do with the map, the
\* eviction loop and the apply of each of them end.
TasksEnd == \A p \in Procs : job[p].pc # "idle" ~> job[p].pc = "idle"

Dirty(t) == map[t] # NoEntry /\ heap[map[t]].dirty

\* Entry i is cached for tile t, dirty, and shows color v at x.
ShowsDirty(t, i, x, v) == map[t] = i /\ heap[i].dirty /\ heap[i].grid[x] = v


\* The inductive invariant, by parts.

\* What a task holds at each point of its code.
JobShape(p, j) ==
    /\ j.pc # "idle" => j.tile \in Tiles
    /\ j.pc \in {"write", "mark", "send", "count", "choose", "evict", "keep"} => j.ent # NoEntry
    /\ j.pc = "keep" => j.held # NoEntry
    /\ j.pc \in {"row", "upsert", "find", "write"} => p \in Painters
    /\ j.pc \in {"blob", "rows"} => p \in Viewers
    /\ j.todo # {} => j.pc \in {"row", "upsert"}

TaskShape ==
    /\ \A p \in Procs : JobShape(p, job[p])
    /\ fl.pc \in {"read", "write", "upsert"} => fl.ent # NoEntry /\ fl.tile \in Tiles
    /\ fl.pc \in {"recv", "next", "read"} => fl.png = Blank

\* A handle always leads to an entry of the tile it was taken for.
HandlesValid ==
    /\ \A t \in Tiles : map[t] # NoEntry => heap[map[t]].tile = t
    /\ \A p \in Procs :
        /\ job[p].ent # NoEntry =>
               job[p].tile \in Tiles /\ heap[job[p].ent].tile = job[p].tile
        /\ job[p].held # NoEntry => heap[job[p].held].tile \in Tiles
    /\ fl.ent # NoEntry => fl.tile \in Tiles /\ heap[fl.ent].tile = fl.tile

\* Everything on its way to a grid or a blob has been recorded.
InFlightRecorded ==
    /\ \A t \in Tiles : OnlyRecorded(t, RowsGrid(t))
    /\ \A p \in Procs :
        /\ OnlyRecorded(job[p].tile, job[p].grid)
        /\ \A x \in job[p].px \ job[p].todo :
              <<job[p].tile, x, Shade(job[p].value)>> \in recorded
    /\ OnlyRecorded(fl.tile, fl.png)

\* When the flusher has read an older grid than the entry's, the painter that
\* wrote the newer one has marked it dirty again, or is about to.
OldReadIsOwed ==
    fl.pc \in {"write", "upsert"} /\ heap[fl.ent].grid # fl.png =>
        \/ heap[fl.ent].dirty
        \/ \E p \in Procs : job[p].pc = "mark" /\ job[p].ent = fl.ent

\* A tile without a row is bare: no pixel row, no image, and nothing but
\* blank grids and clears in memory.
BareTiles ==
    LET bare == Tiles \ tileRows IN
    /\ \A t \in bare : blob[t].grid = Blank /\ ~HasRows(t)
    /\ \A i \in Ids : heap[i].tile \in bare => heap[i].grid = Blank
    /\ \A p \in Procs : job[p].tile \in bare =>
          job[p].grid = Blank /\ (job[p].pc \notin {"row", "upsert"} => job[p].value = NoRow)
    /\ fl.tile \in bare => fl.png = Blank
    /\ fl.pc = "upsert" => fl.png = Blank /\ blob[fl.tile].grid = Blank

\* The parts together: what makes ShownWasRecorded and WrittenIsOwed inductive.
EngineInvariant ==
    TaskShape /\ HandlesValid /\ InFlightRecorded /\ OldReadIsOwed /\ BareTiles

-----------------------------------------------------------------------------
\* What comments and the README say, and the code does not do.

\* "the grid is the source of truth in memory" (tiles.rs:17): with no request
\* in flight on a tile, its cached grid shows what its pixel rows say.
GridIsTruth ==
    \A t \in Tiles :
        (map[t] # NoEntry /\ \A p \in Painters : job[p].tile # t)
            => heap[map[t]].grid = RowsGrid(t)

\* "Ensure the DB row exists before pixel upserts" (tiles.rs:330): a request
\* that comes to its upserts finds the tile row its foreign key needs.
RowBeforeUpsert ==
    \A p \in Painters :
        job[p].pc = "upsert" /\ job[p].value # NoRow => job[p].tile \in tileRows

\* "writes the newest PNG of each within flush_ms" (tiles.rs:248): a dirty
\* tile is eventually stored.
DirtyIsFlushed == \A t \in Tiles : Dirty(t) ~> ~Dirty(t)

=============================================================================
