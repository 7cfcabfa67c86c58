-------------------------- MODULE TileEngineProofs --------------------------
(***************************************************************************)
(* Theorems about TileEngine, for every value of its constants.            *)
(***************************************************************************)
EXTENDS TileEngine, TLAPS

-----------------------------------------------------------------------------
\* Types of the values the actions are built from.

LEMMA ConstantTypes ==
    /\ Blank \in Grid
    /\ FreeEntry \in Entries
    /\ IdleJob \in Jobs
    /\ IdleFlusher \in Flushers
    /\ NoImage \in [kind : {"none", "indexed", "truecolor"}, grid : Grid]
<1>1. Blank \in Grid
  BY DEF Blank, Grid, Shades, Transparent
<1>2. QED
  BY <1>1 DEF FreeEntry, Entries, IdleJob, Jobs, IdleFlusher, Flushers, NoImage, Pcs, Values

LEMMA ShadeType == ASSUME NEW v \in Values PROVE Shade(v) \in Shades
BY DEF Shade, Shades, Values

LEMMA OverlayType ==
    ASSUME NEW g \in Grid, NEW D, NEW v \in Shades
    PROVE  Overlay(g, D, v) \in Grid
BY DEF Overlay, Grid

LEMMA RowsGridType ==
    ASSUME TypeOK, NEW t \in Tiles PROVE RowsGrid(t) \in Grid
BY ShadeType DEF TypeOK, RowsGrid, Grid

LEMMA HeapType ==
    ASSUME NEW h \in [Ids -> Entries], HeapBecomes(h)
    PROVE  heap' \in [Ids -> Entries]
BY ConstantTypes DEF HeapBecomes

\* Where a task goes on after insert_and_evict.
LEMMA ResumeType ==
    ASSUME NEW p \in Procs, NEW j \in Jobs,
           j.tile \in Tiles, j.ent # NoEntry, j.todo = {}
    PROVE  Resume(p, j) \in Jobs /\ JobShape(p, Resume(p, j))
BY ConstantTypes DEF Resume, InsertedPc, Jobs, Pcs, JobShape, IdleJob

\* EvictCount and EvictChoose only move the task on, and pick its victims.
Turned(p, k) ==
    \/ k = Resume(p, job[p])
    \/ \E c \in {"choose", "evict"}, V \in SUBSET Tiles :
          k = [job[p] EXCEPT !.pc = c, !.victims = V]

LEMMA EvictTurn ==
    ASSUME TypeOK, NEW p \in Procs, EvictCount(p) \/ EvictChoose(p)
    PROVE  /\ UNCHANGED <<db, map, pending, scan, fl, answer, recorded, used>>
           /\ HeapBecomes(heap) /\ job[p].pc \in {"count", "choose"}
           /\ \E k : job' = [job EXCEPT ![p] = k] /\ Turned(p, k)
<1>1. CASE EvictCount(p)
  <2>1. [job[p] EXCEPT !.pc = "choose"] = [job[p] EXCEPT !.pc = "choose", !.victims = @]
        /\ job[p].victims \in SUBSET Tiles
    BY DEF TypeOK, Jobs
  <2>2. Turned(p, [job[p] EXCEPT !.pc = "choose"])
    BY <2>1 DEF Turned
  <2>3. QED
    BY <1>1, <2>2 DEF EvictCount, Turned
<1>2. CASE EvictChoose(p)
  <2>1. PICK V \in SUBSET Cached(map) :
          job' = [job EXCEPT ![p] = IF V # {} THEN [@ EXCEPT !.pc = "evict", !.victims = V]
                                              ELSE Resume(p, @)]
    BY <1>2 DEF EvictChoose
  <2>2. V \in SUBSET Tiles
    BY DEF Cached
  <2>3. QED
    BY <1>2, <2>1, <2>2 DEF EvictChoose, Turned
<1>3. QED
  BY <1>1, <1>2

LEMMA SentType ==
    ASSUME TypeOK, NEW t \in Tiles
    PROVE  Sent(t) \in [head : Tiles \cup {NoTile}, rest : SUBSET Tiles]
BY DEF TypeOK, Sent

-----------------------------------------------------------------------------
\* Type correctness.

LEMMA InitType == Init => TypeOK
<1> SUFFICES ASSUME Init PROVE TypeOK
  OBVIOUS
<1> USE EngineAssumption, ConstantTypes
<1>1. rows \in [Tiles -> [Pixels -> Values]]
  BY DEF Init, Values
<1>2. \A t \in Tiles : RowsGrid(t) \in Grid
  BY <1>1, ShadeType DEF RowsGrid, Grid
<1>3. PICK k \in {"none", "indexed", "truecolor"} :
        /\ blob = [t \in Tiles |-> IF t \in Seeded /\ k # "none"
                                   THEN [kind |-> k, grid |-> RowsGrid(t)] ELSE NoImage]
        /\ newer = [t \in Tiles |-> IF t \in Seeded /\ k = "none" THEN Pixels ELSE {}]
  BY DEF Init
<1>4. blob \in [Tiles -> [kind : {"none", "indexed", "truecolor"}, grid : Grid]]
  BY <1>2, <1>3
<1>5. newer \in [Tiles -> SUBSET Pixels]
  BY <1>3
<1>6. recorded \in SUBSET (Tiles \X Pixels \X Shades)
  BY <1>1 DEF Init, Shades
<1>7. map \in [Tiles -> Ids \cup {NoEntry}] /\ heap \in [Ids -> Entries]
  BY DEF Init
<1>8. job \in [Procs -> Jobs] /\ fl \in Flushers /\ scan \in SUBSET Tiles
  BY DEF Init
<1>9. QED
  BY <1>1, <1>4, <1>5, <1>6, <1>7, <1>8 DEF Init, TypeOK

LEMMA InitShape == Init => TaskShape
BY DEF Init, TaskShape, JobShape, IdleJob, IdleFlusher

\* A step of one task that leaves its record well typed and well shaped.
LEMMA JobStep ==
    ASSUME TypeOK, TaskShape, NEW p \in Procs, NEW j \in Jobs, JobShape(p, j),
           job' = [job EXCEPT ![p] = j]
    PROVE  job' \in [Procs -> Jobs] /\ \A q \in Procs : JobShape(q, job'[q])
<1>1. job' \in [Procs -> Jobs]
  BY DEF TypeOK
<1>2. ASSUME NEW q \in Procs PROVE JobShape(q, job'[q])
  <2>1. CASE q = p
    BY <2>1 DEF TypeOK
  <2>2. CASE q # p
    BY <2>2 DEF TypeOK, TaskShape
  <2>3. QED
    BY <2>1, <2>2
<1>3. QED
  BY <1>1, <1>2

LEMMA InsertType ==
    ASSUME TypeOK, TaskShape, NEW p \in Procs, NEW g \in Grid, InsertEntry(p, g),
           job[p].tile \in Tiles, job[p].todo = {}
    PROVE  /\ map' \in [Tiles -> Ids \cup {NoEntry}]
           /\ job' \in [Procs -> Jobs] /\ \A q \in Procs : JobShape(q, job'[q])
           /\ heap' \in [Ids -> Entries]
<1>1. PICK i \in Fresh :
        /\ map' = [map EXCEPT ![job[p].tile] = i]
        /\ job' = [job EXCEPT ![p] = [job[p] EXCEPT !.pc = "count", !.ent = i, !.grid = Blank]]
        /\ HeapBecomes([heap EXCEPT ![i] = MakeEntry(job[p].tile, g)])
  BY DEF InsertEntry
<1>2. i \in Ids
  BY DEF Fresh
<1>3. map' \in [Tiles -> Ids \cup {NoEntry}]
  BY <1>1, <1>2 DEF TypeOK
<1>4. job' \in [Procs -> Jobs] /\ \A q \in Procs : JobShape(q, job'[q])
  <2> DEFINE k == [job[p] EXCEPT !.pc = "count", !.ent = i, !.grid = Blank]
  <2>1. k \in Jobs
    <3>1. job[p] \in Jobs
      BY DEF TypeOK
    <3>2. QED
      BY <1>2, <3>1, ConstantTypes DEF Jobs, Pcs
  <2>2. JobShape(p, k)
    BY <1>2, EngineAssumption DEF TypeOK, TaskShape, JobShape, Jobs
  <2>3. QED
    BY <1>1, <2>1, <2>2, JobStep
<1>5. [heap EXCEPT ![i] = MakeEntry(job[p].tile, g)] \in [Ids -> Entries]
  BY <1>2 DEF TypeOK, MakeEntry, Entries, Jobs
<1>6. QED
  BY <1>1, <1>3, <1>4, <1>5, HeapType

LEMMA FlushedType ==
    ASSUME TypeOK, TaskShape, fl.pc \in {"write", "upsert"}, NEW g, Flushed(g)
    PROVE  heap' \in [Ids -> Entries] /\ fl' \in Flushers /\ fl'.pc = "next" /\ fl'.png = Blank
<1>1. fl.ent \in Ids /\ fl \in Flushers
  BY DEF TypeOK, TaskShape, Flushers
<1> DEFINE u == heap[fl.ent].unsaved /\ heap[fl.ent].grid # g
           h == [heap EXCEPT ![fl.ent] = [heap[fl.ent] EXCEPT !.unsaved = u]]
<1>2. u \in BOOLEAN /\ heap[fl.ent] \in Entries
  BY <1>1 DEF TypeOK
<1>3. [heap[fl.ent] EXCEPT !.unsaved = u] \in Entries
  BY <1>2 DEF Entries
<1>4. h \in [Ids -> Entries]
  BY <1>1, <1>3 DEF TypeOK
<1>5. HeapBecomes(h)
  BY <1>1 DEF Flushed, TypeOK
<1>6. fl' \in Flushers /\ fl'.pc = "next" /\ fl'.png = Blank
  BY <1>1, ConstantTypes DEF Flushed, Flushers, IdleFlusher
<1>7. QED
  BY <1>4, <1>5, <1>6, HeapType

LEMMA StoreType ==
    ASSUME TypeOK, TaskShape, fl.pc \in {"write", "upsert"}, StoreBlob
    PROVE  /\ tileRows' \in SUBSET Tiles
           /\ blob' \in [Tiles -> [kind : {"none", "indexed", "truecolor"}, grid : Grid]]
           /\ newer' \in [Tiles -> SUBSET Pixels]
           /\ heap' \in [Ids -> Entries] /\ fl' \in Flushers /\ fl'.pc = "next" /\ fl'.png = Blank
<1>1. fl.tile \in Tiles /\ fl.png \in Grid
  BY DEF TypeOK, TaskShape, Flushers
<1>2. heap' \in [Ids -> Entries] /\ fl' \in Flushers /\ fl'.pc = "next" /\ fl'.png = Blank
  BY FlushedType DEF StoreBlob
<1>3. QED
  BY <1>1, <1>2 DEF StoreBlob, TypeOK

LEMMA StepType == TypeOK /\ TaskShape /\ [Next]_vars => TypeOK' /\ TaskShape'
<1> SUFFICES ASSUME TypeOK, TaskShape, [Next]_vars PROVE TypeOK' /\ TaskShape'
  OBVIOUS
<1> USE EngineAssumption DEF db
<1>1. ASSUME NEW p \in Painters, PaintBegin(p) PROVE TypeOK' /\ TaskShape'
  <2>1. PICK t \in Tiles, D \in (SUBSET Pixels) \ {{}}, v \in Values :
          job' = [job EXCEPT ![p] = [IdleJob EXCEPT
                     !.pc = IF map[t] # NoEntry THEN "upsert" ELSE "row",
                     !.tile = t, !.value = v, !.px = D, !.todo = D]]
    BY <1>1 DEF PaintBegin
  <2> DEFINE j == [IdleJob EXCEPT !.pc = IF map[t] # NoEntry THEN "upsert" ELSE "row",
                                  !.tile = t, !.value = v, !.px = D, !.todo = D]
  <2>2. j \in Jobs /\ JobShape(p, j)
    BY ConstantTypes DEF Jobs, Pcs, JobShape, IdleJob
  <2>3. job' \in [Procs -> Jobs] /\ \A q \in Procs : JobShape(q, job'[q])
    BY <2>1, <2>2, JobStep DEF Procs
  <2>4. used' \in [paints : 0..MaxPaints, loads : 0..MaxLoads, scans : 0..MaxScans]
    <3>1. used.paints \in 0..MaxPaints /\ used.paints < MaxPaints /\ MaxPaints \in Nat
      BY <1>1 DEF PaintBegin, TypeOK
    <3>2. used.paints + 1 \in 0..MaxPaints
      BY <3>1
    <3>3. QED
      BY <1>1, <3>2 DEF PaintBegin, TypeOK
  <2>5. QED
    BY <1>1, <2>3, <2>4 DEF TypeOK, TaskShape, PaintBegin
<1>2. ASSUME NEW p \in Painters, EnsureRow(p) PROVE TypeOK' /\ TaskShape'
  <2> DEFINE j == [job[p] EXCEPT !.pc = "upsert"]
  <2>1. p \in Procs /\ job' = [job EXCEPT ![p] = j] /\ job[p].tile \in Tiles
    BY <1>2 DEF EnsureRow, TypeOK, TaskShape, JobShape, Procs
  <2>2. j \in Jobs /\ JobShape(p, j)
    <3>1. job[p] \in Jobs
      BY <2>1 DEF TypeOK
    <3>2. QED
      BY <2>1, <3>1 DEF Jobs, Pcs, JobShape
  <2>3. job' \in [Procs -> Jobs] /\ \A q \in Procs : JobShape(q, job'[q])
    BY <2>1, <2>2, JobStep
  <2>4. QED
    BY <1>2, <2>1, <2>3 DEF EnsureRow, TypeOK, TaskShape
<1>3. ASSUME NEW p \in Painters, UpsertChunk(p) PROVE TypeOK' /\ TaskShape'
  <2> DEFINE t == job[p].tile
             v == job[p].value
  <2>1. PICK S \in SUBSET job[p].todo :
          /\ rows' = [rows EXCEPT ![t] = Overlay(@, S, v)]
          /\ newer' = [newer EXCEPT ![t] = IF v = NoRow THEN @ \ S ELSE @ \cup S]
          /\ recorded' = recorded \cup {<<t, x, Shade(v)>> : x \in S}
          /\ job' = [job EXCEPT ![p].todo = @ \ S,
                                ![p].pc = IF job[p].todo = S THEN "find" ELSE "upsert"]
    BY <1>3 DEF UpsertChunk
  <2>2. p \in Procs /\ job[p] \in Jobs /\ t \in Tiles /\ v \in Values /\ S \in SUBSET Pixels
    BY <1>3 DEF UpsertChunk, TypeOK, TaskShape, JobShape, Procs, Jobs
  <2> DEFINE j == [job[p] EXCEPT !.todo = @ \ S,
                                 !.pc = IF job[p].todo = S THEN "find" ELSE "upsert"]
  <2>3. j \in Jobs /\ JobShape(p, j)
    BY <1>3, <2>2 DEF UpsertChunk, TaskShape, Jobs, Pcs, JobShape
  <2>4. job' = [job EXCEPT ![p] = j]
    BY <2>1, <2>2 DEF TypeOK
  <2>5. job' \in [Procs -> Jobs] /\ \A q \in Procs : JobShape(q, job'[q])
    BY <2>2, <2>3, <2>4, JobStep
  <2>6. rows' \in [Tiles -> [Pixels -> Values]]
    BY <2>1, <2>2 DEF TypeOK, Overlay
  <2>7. newer' \in [Tiles -> SUBSET Pixels]
    BY <2>1, <2>2 DEF TypeOK
  <2>8. recorded' \in SUBSET (Tiles \X Pixels \X Shades)
    BY <2>1, <2>2, ShadeType DEF TypeOK
  <2>9. QED
    BY <1>3, <2>5, <2>6, <2>7, <2>8 DEF UpsertChunk, TypeOK, TaskShape
<1>4. ASSUME NEW p \in Painters, PaintFail(p) PROVE TypeOK' /\ TaskShape'
  <2>1. job' \in [Procs -> Jobs] /\ \A q \in Procs : JobShape(q, job'[q])
    BY <1>4, JobStep, ConstantTypes DEF PaintFail, Procs, JobShape, IdleJob
  <2>2. QED
    BY <1>4, <2>1 DEF PaintFail, TypeOK, TaskShape
<1>5. ASSUME NEW p \in Painters, ApplyFind(p) PROVE TypeOK' /\ TaskShape'
  <2>1. p \in Procs /\ job[p] \in Jobs /\ job[p].tile \in Tiles /\ job[p].todo = {}
    BY <1>5 DEF ApplyFind, TypeOK, TaskShape, JobShape, Procs
  <2>2. CASE map[job[p].tile] # NoEntry
    <3> DEFINE j == [job[p] EXCEPT !.ent = map[job[p].tile], !.pc = "write"]
    <3>1. job' = [job EXCEPT ![p] = j] /\ UNCHANGED <<map, heap>>
      BY <1>5, <2>1, <2>2 DEF ApplyFind, TypeOK
    <3>2. j \in Jobs /\ JobShape(p, j)
      BY <2>1, <2>2 DEF TypeOK, Jobs, Pcs, JobShape
    <3>3. job' \in [Procs -> Jobs] /\ \A q \in Procs : JobShape(q, job'[q])
      BY <2>1, <3>1, <3>2, JobStep
    <3>4. QED
      BY <1>5, <3>1, <3>3 DEF ApplyFind, TypeOK, TaskShape
  <2>3. CASE map[job[p].tile] = NoEntry
    <3>1. InsertEntry(p, Blank)
      BY <1>5, <2>3 DEF ApplyFind
    <3>2. QED
      BY <1>5, <2>1, <3>1, InsertType, ConstantTypes DEF ApplyFind, TypeOK, TaskShape
  <2>4. QED
    BY <2>2, <2>3
<1>6. ASSUME NEW p \in Painters, ApplyWrite(p) PROVE TypeOK' /\ TaskShape'
  <2> DEFINE j == [job[p] EXCEPT !.pc = "mark"]
             i == job[p].ent
             g == Overlay(heap[i].grid, job[p].px, Shade(job[p].value))
  <2>1. p \in Procs /\ job[p] \in Jobs /\ i \in Ids /\ heap[i] \in Entries
    BY <1>6 DEF ApplyWrite, TypeOK, TaskShape, JobShape, Procs, Jobs
  <2>2. j \in Jobs /\ JobShape(p, j) /\ job' = [job EXCEPT ![p] = j]
    BY <1>6, <2>1 DEF ApplyWrite, TypeOK, TaskShape, JobShape, Jobs, Pcs
  <2>3. job' \in [Procs -> Jobs] /\ \A q \in Procs : JobShape(q, job'[q])
    BY <2>1, <2>2, JobStep
  <2>4. g \in Grid
    BY <2>1, OverlayType, ShadeType DEF Entries, Jobs
  <2>5. heap' = [heap EXCEPT ![i] = [heap[i] EXCEPT !.grid = g, !.unsaved = TRUE]]
    BY <1>6, <2>1 DEF ApplyWrite, TypeOK
  <2>6. heap' \in [Ids -> Entries]
    BY <2>1, <2>4, <2>5 DEF TypeOK, Entries
  <2>7. QED
    BY <1>6, <2>3, <2>6 DEF ApplyWrite, TypeOK, TaskShape
<1>7. ASSUME NEW p \in Procs, MarkDirty(p) PROVE TypeOK' /\ TaskShape'
  <2> DEFINE j == [job[p] EXCEPT !.pc = "send"]
             i == job[p].ent
  <2>1. job[p] \in Jobs /\ i \in Ids /\ heap[i] \in Entries
    BY <1>7 DEF MarkDirty, TypeOK, TaskShape, JobShape, Jobs
  <2>2. j \in Jobs /\ JobShape(p, j) /\ job' = [job EXCEPT ![p] = j]
    BY <1>7, <2>1 DEF MarkDirty, TypeOK, TaskShape, JobShape, Jobs, Pcs
  <2>3. job' \in [Procs -> Jobs] /\ \A q \in Procs : JobShape(q, job'[q])
    BY <2>1, <2>2, JobStep
  <2>4. heap' = [heap EXCEPT ![i] = [heap[i] EXCEPT !.dirty = TRUE]]
    BY <1>7, <2>1 DEF MarkDirty, TypeOK
  <2>5. heap' \in [Ids -> Entries]
    BY <2>1, <2>4 DEF TypeOK, Entries
  <2>6. QED
    BY <1>7, <2>3, <2>5 DEF MarkDirty, TypeOK, TaskShape
<1>8. ASSUME NEW p \in Procs, SendKey(p) PROVE TypeOK' /\ TaskShape'
  <2>1. job[p].tile \in Tiles
    BY <1>8 DEF SendKey, TaskShape, JobShape
  <2>2. pending' \in [head : Tiles \cup {NoTile}, rest : SUBSET Tiles]
    BY <1>8, <2>1, SentType DEF SendKey
  <2>3. job' \in [Procs -> Jobs] /\ \A q \in Procs : JobShape(q, job'[q])
    BY <1>8, JobStep, ConstantTypes DEF SendKey, JobShape, IdleJob
  <2>4. heap' \in [Ids -> Entries]
    BY <1>8, HeapType DEF SendKey, TypeOK
  <2>5. QED
    BY <1>8, <2>2, <2>3, <2>4 DEF SendKey, TypeOK, TaskShape
<1>9. ASSUME NEW p \in Procs, LoadInsert(p) PROVE TypeOK' /\ TaskShape'
  <2>1. job[p].tile \in Tiles /\ job[p].todo = {} /\ job[p].grid \in Grid
    BY <1>9 DEF LoadInsert, TypeOK, TaskShape, JobShape, Jobs
  <2>2. InsertEntry(p, job[p].grid)
    BY <1>9 DEF LoadInsert
  <2>3. QED
    BY <1>9, <2>1, <2>2, InsertType DEF LoadInsert, TypeOK, TaskShape
<1>10. ASSUME NEW p \in Procs, EvictRemove(p) PROVE TypeOK' /\ TaskShape'
  <2>1. PICK t \in job[p].victims :
          LET j == [job[p] EXCEPT !.victims = @ \ {t}, !.held = map[t]] IN
          /\ map' = [map EXCEPT ![t] = NoEntry]
          /\ job' = [job EXCEPT ![p] = CASE map[t] # NoEntry -> [j EXCEPT !.pc = "keep"]
                                         [] map[t] = NoEntry /\ j.victims # {} -> j
                                         [] OTHER -> Resume(p, j)]
    BY <1>10 DEF EvictRemove
  <2> DEFINE j == [job[p] EXCEPT !.victims = @ \ {t}, !.held = map[t]]
             k == CASE map[t] # NoEntry -> [j EXCEPT !.pc = "keep"]
                    [] map[t] = NoEntry /\ j.victims # {} -> j
                    [] OTHER -> Resume(p, j)
  <2>2. job[p] \in Jobs /\ t \in Tiles /\ job[p].tile \in Tiles /\ job[p].todo = {}
        /\ job[p].ent # NoEntry /\ job[p].pc = "evict"
    BY <1>10 DEF EvictRemove, TypeOK, TaskShape, JobShape, Jobs
  <2>3. j \in Jobs /\ j.tile \in Tiles /\ j.todo = {} /\ j.ent # NoEntry /\ j.pc = "evict"
        /\ j.held = map[t]
    BY <2>2 DEF TypeOK, Jobs
  <2>4. /\ [j EXCEPT !.pc = "keep"] \in Jobs
        /\ map[t] # NoEntry => JobShape(p, [j EXCEPT !.pc = "keep"])
        /\ JobShape(p, j)
    BY <2>3 DEF Jobs, Pcs, JobShape
  <2>5. k \in Jobs /\ JobShape(p, k)
    BY <2>3, <2>4, ResumeType
  <2>6. job' \in [Procs -> Jobs] /\ \A q \in Procs : JobShape(q, job'[q])
    BY <2>1, <2>5, JobStep
  <2>7. heap' \in [Ids -> Entries] /\ map' \in [Tiles -> Ids \cup {NoEntry}]
    BY <1>10, <2>1, HeapType DEF EvictRemove, TypeOK
  <2>8. QED
    BY <1>10, <2>6, <2>7 DEF EvictRemove, TypeOK, TaskShape
<1>11. ASSUME NEW p \in Procs, EvictKeep(p) PROVE TypeOK' /\ TaskShape'
  <2> DEFINE e == heap[job[p].held]
             j == [job[p] EXCEPT !.held = NoEntry, !.pc = "evict"]
             k == IF j.victims # {} THEN j ELSE Resume(p, j)
  <2>1. job[p] \in Jobs /\ job[p].tile \in Tiles /\ job[p].todo = {}
        /\ job[p].ent # NoEntry /\ job[p].held \in Ids
    BY <1>11 DEF EvictKeep, TypeOK, TaskShape, JobShape, Jobs
  <2>2. j \in Jobs /\ j.tile \in Tiles /\ j.todo = {} /\ j.ent # NoEntry /\ JobShape(p, j)
    BY <2>1 DEF Jobs, Pcs, JobShape
  <2>3. k \in Jobs /\ JobShape(p, k)
    BY <2>2, ResumeType
  <2>4. job' \in [Procs -> Jobs] /\ \A q \in Procs : JobShape(q, job'[q])
    BY <1>11, <2>3, JobStep DEF EvictKeep
  <2>5. map' \in [Tiles -> Ids \cup {NoEntry}]
    BY <1>11, <2>1 DEF EvictKeep, TypeOK
  <2>6. heap' \in [Ids -> Entries]
    BY <1>11, HeapType DEF EvictKeep, TypeOK
  <2>7. QED
    BY <1>11, <2>4, <2>5, <2>6 DEF EvictKeep, TypeOK, TaskShape
<1>12. ASSUME NEW v \in Viewers, ViewMiss(v) PROVE TypeOK' /\ TaskShape'
  <2>1. PICK t \in Tiles : job' = [job EXCEPT ![v] = [IdleJob EXCEPT !.pc = "blob", !.tile = t]]
    BY <1>12 DEF ViewMiss
  <2> DEFINE j == [IdleJob EXCEPT !.pc = "blob", !.tile = t]
  <2>2. v \in Procs /\ j \in Jobs /\ JobShape(v, j)
    BY ConstantTypes DEF Procs, Jobs, Pcs, JobShape, IdleJob
  <2>3. job' \in [Procs -> Jobs] /\ \A q \in Procs : JobShape(q, job'[q])
    BY <2>1, <2>2, JobStep
  <2>4. used.loads + 1 \in 0..MaxLoads
    BY <1>12 DEF ViewMiss, TypeOK
  <2>5. QED
    BY <1>12, <2>3, <2>4 DEF ViewMiss, TypeOK, TaskShape
<1>13. ASSUME NEW v \in Viewers, LoadBlob(v) PROVE TypeOK' /\ TaskShape'
  <2> DEFINE b == blob[job[v].tile]
             j == IF b.kind = "truecolor" THEN [job[v] EXCEPT !.pc = "insert", !.grid = b.grid]
                                          ELSE [job[v] EXCEPT !.pc = "rows"]
  <2>1. v \in Procs /\ job[v] \in Jobs /\ job[v].pc = "blob" /\ job[v].tile \in Tiles
        /\ job[v].todo = {}
    BY <1>13 DEF LoadBlob, TypeOK, TaskShape, JobShape, Procs
  <2>2. b.grid \in Grid
    BY <2>1 DEF TypeOK
  <2>3. j \in Jobs /\ JobShape(v, j)
    BY <2>1, <2>2 DEF Jobs, Pcs, JobShape
  <2>4. job' = [job EXCEPT ![v] = j]
    BY <1>13, <2>1 DEF LoadBlob, TypeOK
  <2>5. job' \in [Procs -> Jobs] /\ \A q \in Procs : JobShape(q, job'[q])
    BY <2>1, <2>3, <2>4, JobStep
  <2>6. QED
    BY <1>13, <2>5 DEF LoadBlob, TypeOK, TaskShape
<1>14. ASSUME NEW v \in Viewers, LoadRows(v) PROVE TypeOK' /\ TaskShape'
  <2> DEFINE t == job[v].tile
             j == [job[v] EXCEPT !.pc = "insert", !.grid = RowsGrid(t)]
  <2>1. v \in Procs /\ job[v] \in Jobs /\ t \in Tiles /\ job[v].todo = {}
    BY <1>14 DEF LoadRows, TypeOK, TaskShape, JobShape, Procs
  <2>2. j \in Jobs /\ JobShape(v, j) /\ job' = [job EXCEPT ![v] = j]
    BY <1>14, <2>1, RowsGridType DEF LoadRows, TypeOK, Jobs, Pcs, JobShape
  <2>3. job' \in [Procs -> Jobs] /\ \A q \in Procs : JobShape(q, job'[q])
    BY <2>1, <2>2, JobStep
  <2>4. pending' \in [head : Tiles \cup {NoTile}, rest : SUBSET Tiles]
    BY <1>14, <2>1, SentType DEF LoadRows, TypeOK
  <2>5. QED
    BY <1>14, <2>3, <2>4 DEF LoadRows, TypeOK, TaskShape
<1>15. ASSUME NEW v \in Viewers, ViewFail(v) PROVE TypeOK' /\ TaskShape'
  <2>1. job' \in [Procs -> Jobs] /\ \A q \in Procs : JobShape(q, job'[q])
    BY <1>15, JobStep, ConstantTypes DEF ViewFail, Procs, JobShape, IdleJob
  <2>2. QED
    BY <1>15, <2>1 DEF ViewFail, TypeOK, TaskShape
<1>16. ASSUME ReconcileScan PROVE TypeOK' /\ TaskShape'
  <2>1. scan' \in SUBSET Tiles
    BY <1>16 DEF ReconcileScan, Stale
  <2>2. used.scans + 1 \in 0..MaxScans
    BY <1>16 DEF ReconcileScan, TypeOK
  <2>3. QED
    BY <1>16, <2>1, <2>2 DEF ReconcileScan, TypeOK, TaskShape
<1>17. ASSUME ReconcileLoad PROVE TypeOK' /\ TaskShape'
  <2>1. PICK t \in scan :
          /\ scan' = scan \ {t}
          /\ \/ job' = [job EXCEPT ![Reconciler] =
                         [IdleJob EXCEPT !.pc = "insert", !.tile = t, !.grid = RowsGrid(t)]]
             \/ UNCHANGED job
    BY <1>17 DEF ReconcileLoad
  <2> DEFINE j == [IdleJob EXCEPT !.pc = "insert", !.tile = t, !.grid = RowsGrid(t)]
  <2>2. t \in Tiles /\ Reconciler \in Procs
    BY DEF TypeOK, Procs
  <2>3. j \in Jobs /\ JobShape(Reconciler, j)
    BY <2>2, ConstantTypes, RowsGridType DEF Jobs, Pcs, JobShape, IdleJob
  <2>4. job' \in [Procs -> Jobs] /\ \A q \in Procs : JobShape(q, job'[q])
    BY <2>1, <2>2, <2>3, JobStep DEF TypeOK, TaskShape
  <2>5. QED
    BY <1>17, <2>1, <2>4 DEF ReconcileLoad, TypeOK, TaskShape
<1>18. ASSUME FlushRecv PROVE TypeOK' /\ TaskShape'
  BY <1>18 DEF FlushRecv, TypeOK, TaskShape, Flushers
<1>19. ASSUME FlushIdle PROVE TypeOK' /\ TaskShape'
  BY <1>19, ConstantTypes DEF FlushIdle, TypeOK, TaskShape, IdleFlusher
<1>20. ASSUME FlushSwap PROVE TypeOK' /\ TaskShape'
  <2>1. PICK t \in fl.batch :
        LET f == [fl EXCEPT !.batch = @ \ {t}] IN
        IF map[t] # NoEntry /\ heap[map[t]].dirty
        THEN /\ fl' = [f EXCEPT !.pc = "read", !.tile = t, !.ent = map[t]]
             /\ heap' = [heap EXCEPT ![map[t]].dirty = FALSE]
        ELSE /\ fl' = f
             /\ UNCHANGED heap
    BY <1>20 DEF FlushSwap
  <2>2. t \in Tiles /\ fl.pc = "next" /\ fl \in Flushers /\ map[t] \in Ids \cup {NoEntry}
    BY <1>20 DEF FlushSwap, TypeOK, Flushers
  <2>3. CASE map[t] # NoEntry /\ heap[map[t]].dirty
    <3> DEFINE i == map[t]
               e == [heap[i] EXCEPT !.dirty = FALSE]
    <3>1. fl' = [fl EXCEPT !.batch = @ \ {t}, !.pc = "read", !.tile = t, !.ent = i]
      BY <2>1, <2>2, <2>3 DEF Flushers
    <3>2. fl' \in Flushers /\ fl'.ent # NoEntry /\ fl'.tile \in Tiles /\ fl'.png = fl.png
      BY <2>2, <2>3, <3>1 DEF Flushers
    <3>3. i \in Ids /\ heap[i] \in Entries
      BY <2>2, <2>3 DEF TypeOK
    <3>4. e \in Entries
      BY <3>3 DEF Entries
    <3>5. heap' = [heap EXCEPT ![i] = e]
      BY <2>1, <2>3, <3>3 DEF TypeOK
    <3>6. heap' \in [Ids -> Entries]
      BY <3>3, <3>4, <3>5 DEF TypeOK
    <3>7. QED
      BY <1>20, <3>2, <3>6 DEF FlushSwap, TypeOK, TaskShape
  <2>4. CASE ~(map[t] # NoEntry /\ heap[map[t]].dirty)
    <3>1. fl' = [fl EXCEPT !.batch = @ \ {t}] /\ heap' = heap
      BY <2>1, <2>4
    <3>2. fl' \in Flushers /\ fl'.pc = "next"
      BY <2>2, <3>1 DEF Flushers
    <3>3. QED
      BY <1>20, <3>1, <3>2 DEF FlushSwap, TypeOK, TaskShape
  <2>5. QED
    BY <2>3, <2>4
<1>21. ASSUME FlushRead PROVE TypeOK' /\ TaskShape'
  <2>1. fl.ent \in Ids /\ fl.tile \in Tiles /\ fl \in Flushers
    BY <1>21 DEF FlushRead, TypeOK, TaskShape, Flushers
  <2>2. heap[fl.ent].grid \in Grid
    BY <2>1 DEF TypeOK, Entries
  <2>3. fl' \in Flushers /\ fl'.ent # NoEntry /\ fl'.tile \in Tiles
    BY <1>21, <2>1, <2>2 DEF FlushRead, Flushers
  <2>4. QED
    BY <1>21, <2>3 DEF FlushRead, TypeOK, TaskShape
<1>22. ASSUME FlushUpdate \/ FlushInsert PROVE TypeOK' /\ TaskShape'
  <2>1. CASE FlushUpdate /\ fl.tile \notin tileRows
    <3>1. fl.ent # NoEntry /\ fl.tile \in Tiles /\ fl \in Flushers
      BY <2>1 DEF FlushUpdate, TypeOK, TaskShape
    <3>2. fl' \in Flushers /\ fl'.ent # NoEntry /\ fl'.tile \in Tiles /\ fl'.pc = "upsert"
      BY <2>1, <3>1 DEF FlushUpdate, Flushers
    <3>3. QED
      BY <2>1, <3>2 DEF FlushUpdate, TypeOK, TaskShape
  <2>2. CASE StoreBlob
    BY <1>22, <2>2, StoreType DEF FlushUpdate, FlushInsert, TypeOK, TaskShape
  <2>3. QED
    BY <1>22, <2>1, <2>2 DEF FlushUpdate, FlushInsert
<1>23. ASSUME FlushUpdateFail PROVE TypeOK' /\ TaskShape'
  <2>1. fl.ent \in Ids /\ fl \in Flushers
    BY <1>23 DEF FlushUpdateFail, TypeOK, TaskShape, Flushers
  <2> DEFINE e == [heap[fl.ent] EXCEPT !.dirty = TRUE]
             h == [heap EXCEPT ![fl.ent] = e]
  <2>2. h \in [Ids -> Entries] /\ HeapBecomes(h)
    <3>1. heap[fl.ent] \in Entries
      BY <2>1 DEF TypeOK
    <3>2. e \in Entries
      BY <3>1 DEF Entries
    <3>3. h \in [Ids -> Entries]
      BY <2>1, <3>2 DEF TypeOK
    <3>4. HeapBecomes(h)
      BY <1>23, <2>1 DEF FlushUpdateFail, TypeOK
    <3>5. QED
      BY <3>3, <3>4
  <2>3. heap' \in [Ids -> Entries]
    BY <2>2, HeapType
  <2>4. fl' \in Flushers /\ fl'.pc = "next" /\ fl'.png = Blank
    BY <1>23, <2>1, ConstantTypes DEF FlushUpdateFail, Flushers, IdleFlusher
  <2>5. QED
    BY <1>23, <2>3, <2>4 DEF FlushUpdateFail, TypeOK, TaskShape
<1>24. ASSUME FlushInsertFail PROVE TypeOK' /\ TaskShape'
  BY <1>24, FlushedType DEF FlushInsertFail, TypeOK, TaskShape
<1>25. ASSUME Crash PROVE TypeOK' /\ TaskShape'
  BY <1>25, ConstantTypes
  DEF Crash, Restart, TypeOK, TaskShape, JobShape, IdleJob, IdleFlusher
<1>28. ASSUME NEW p \in Procs, EvictCount(p) \/ EvictChoose(p) PROVE TypeOK' /\ TaskShape'
  <2>1. PICK k : job' = [job EXCEPT ![p] = k] /\ Turned(p, k)
    BY <1>28, EvictTurn
  <2>2. job[p] \in Jobs /\ job[p].tile \in Tiles /\ job[p].ent # NoEntry /\ job[p].todo = {}
    BY <1>28, EvictTurn DEF TypeOK, TaskShape, JobShape
  <2>3. k \in Jobs /\ JobShape(p, k)
    <3>1. CASE k = Resume(p, job[p])
      BY <2>2, <3>1, ResumeType
    <3>2. ASSUME NEW c \in {"choose", "evict"}, NEW V \in SUBSET Tiles,
                 k = [job[p] EXCEPT !.pc = c, !.victims = V]
          PROVE  k \in Jobs /\ JobShape(p, k)
      BY <2>2, <3>2 DEF Jobs, Pcs, JobShape
    <3>3. QED
      BY <2>1, <3>1, <3>2 DEF Turned
  <2>4. job' \in [Procs -> Jobs] /\ \A q \in Procs : JobShape(q, job'[q])
    BY <2>1, <2>3, JobStep
  <2>5. heap' \in [Ids -> Entries]
    BY <1>28, EvictTurn, HeapType DEF TypeOK
  <2>6. QED
    BY <1>28, <2>4, <2>5, EvictTurn DEF TypeOK, TaskShape
<1>26. ASSUME UNCHANGED vars PROVE TypeOK' /\ TaskShape'
  BY <1>26 DEF vars, ram, TypeOK, TaskShape
<1>27. QED
  BY <1>1, <1>2, <1>3, <1>4, <1>5, <1>6, <1>7, <1>8, <1>9, <1>10, <1>11, <1>12, <1>13,
     <1>14, <1>15, <1>16, <1>17, <1>18, <1>19, <1>20, <1>21, <1>22, <1>23, <1>24, <1>25,
     <1>26, <1>28
  DEF Next, Paint, View, Evict, Flush, AtRest

\* TypeOK is not inductive: what a task holds depends on where it stands.
THEOREM TypeCorrect == Spec => []TypeOK
<1>1. Init => TypeOK /\ TaskShape
  BY InitType, InitShape
<1>2. QED
  BY <1>1, StepType, PTL DEF Spec

-----------------------------------------------------------------------------
\* A tile that was never stored is found by reconcile.

LEMMA StepFound ==
    TypeOK /\ TaskShape /\ NeverStoredIsFound /\ [Next]_vars => NeverStoredIsFound'
<1> SUFFICES ASSUME TypeOK, TaskShape, NeverStoredIsFound, [Next]_vars
             PROVE  NeverStoredIsFound'
  OBVIOUS
<1>1. CASE UNCHANGED <<rows, newer, blob>>
  BY <1>1 DEF NeverStoredIsFound
<1>2. ASSUME NEW p \in Painters, UpsertChunk(p) PROVE NeverStoredIsFound'
  <2> DEFINE t == job[p].tile
             v == job[p].value
  <2>1. PICK S \in SUBSET job[p].todo :
          /\ rows' = [rows EXCEPT ![t] = Overlay(@, S, v)]
          /\ newer' = [newer EXCEPT ![t] = IF v = NoRow THEN @ \ S ELSE @ \cup S]
    BY <1>2 DEF UpsertChunk
  <2>2. t \in Tiles /\ S \in SUBSET Pixels /\ blob' = blob
    BY <1>2 DEF UpsertChunk, TypeOK, TaskShape, JobShape, Procs, Jobs
  <2>3. ASSUME NEW q \in Tiles, blob'[q].kind = "none"
        PROVE  newer'[q] = {x \in Pixels : rows'[q][x] # NoRow}
    <3>1. newer[q] = {x \in Pixels : rows[q][x] # NoRow}
      BY <2>2, <2>3 DEF NeverStoredIsFound
    <3>2. CASE q = t
      <4>1. newer'[q] = IF v = NoRow THEN newer[q] \ S ELSE newer[q] \cup S
        BY <2>1, <3>2 DEF TypeOK
      <4>2. \A x \in Pixels : rows'[q][x] = IF x \in S THEN v ELSE rows[q][x]
        BY <2>1, <3>2 DEF TypeOK, Overlay
      <4>3. QED
        BY <2>2, <3>1, <4>1, <4>2
    <3>3. CASE q # t
      BY <2>1, <3>1, <3>3 DEF TypeOK
    <3>4. QED
      BY <3>2, <3>3
  <2>4. QED
    BY <2>3 DEF NeverStoredIsFound
<1>3. ASSUME StoreBlob, UNCHANGED rows, fl.pc \in {"write", "upsert"}
      PROVE  NeverStoredIsFound'
  <2>1. fl.tile \in Tiles
    BY <1>3 DEF TaskShape
  <2>2. /\ blob' = [blob EXCEPT ![fl.tile] = [kind |-> "indexed", grid |-> fl.png]]
        /\ newer' = [newer EXCEPT ![fl.tile] = {}]
    BY <1>3 DEF StoreBlob
  <2>3. ASSUME NEW q \in Tiles, blob'[q].kind = "none"
        PROVE  q # fl.tile /\ blob'[q] = blob[q] /\ newer'[q] = newer[q]
    BY <2>1, <2>2, <2>3 DEF TypeOK
  <2>4. QED
    BY <1>3, <2>3 DEF NeverStoredIsFound
<1>4. QED
  BY <1>1, <1>2, <1>3
  DEF Next, Paint, View, Evict, Flush, AtRest, vars, db, PaintBegin, EnsureRow, PaintFail,
      ApplyFind, ApplyWrite, MarkDirty, SendKey, EvictCount, EvictChoose, EvictRemove,
      EvictKeep, LoadInsert,
      ViewMiss, LoadBlob, LoadRows, ViewFail, ReconcileScan, ReconcileLoad, FlushRecv,
      FlushIdle, FlushSwap, FlushRead, FlushUpdate, FlushInsert, FlushUpdateFail,
      FlushInsertFail, Crash

\* NeverStoredIsFound holds in every behaviour, for every number of tiles,
\* pixels, requests and faults.
THEOREM NeverStoredFound == Spec => []NeverStoredIsFound
<1>1. Init => NeverStoredIsFound
  <2> SUFFICES ASSUME Init PROVE NeverStoredIsFound
    OBVIOUS
  <2>1. PICK c \in Palette :
          rows = [t \in Tiles |-> [x \in Pixels |-> IF t \in Seeded THEN c ELSE NoRow]]
    BY DEF Init
  <2>2. PICK k \in {"none", "indexed", "truecolor"} :
          /\ blob = [t \in Tiles |-> IF t \in Seeded /\ k # "none"
                                     THEN [kind |-> k, grid |-> RowsGrid(t)] ELSE NoImage]
          /\ newer = [t \in Tiles |-> IF t \in Seeded /\ k = "none" THEN Pixels ELSE {}]
    BY DEF Init
  <2>3. c # NoRow
    BY EngineAssumption DEF Shades
  <2>4. ASSUME NEW t \in Tiles, blob[t].kind = "none" PROVE t \notin Seeded \/ k = "none"
    BY <2>2, <2>4
  <2>5. QED
    BY <2>1, <2>2, <2>3, <2>4 DEF NeverStoredIsFound
<1>2. Init => TypeOK /\ TaskShape
  BY InitType, InitShape
<1>3. QED
  BY <1>1, <1>2, StepType, StepFound, PTL DEF Spec

-----------------------------------------------------------------------------
\* Handles: what a task holds leads to an entry of its tile.

JobHandles(h, j) ==
    /\ j.ent # NoEntry => j.tile \in Tiles /\ h[j.ent].tile = j.tile
    /\ j.held # NoEntry => h[j.held].tile \in Tiles

MapHandles(h, m) == \A t \in Tiles : m[t] # NoEntry => h[m[t]].tile = t

FlHandles(h, f) == f.ent # NoEntry => f.tile \in Tiles /\ h[f.ent].tile = f.tile

Handles(h, m, j, f) ==
    MapHandles(h, m) /\ (\A p \in Procs : JobHandles(h, j[p])) /\ FlHandles(h, f)

LEMMA HandlesDef == HandlesValid <=> Handles(heap, map, job, fl)
BY DEF HandlesValid, Handles, MapHandles, JobHandles, FlHandles

\* Taking the dead entries out of the heap disturbs no handle.
LEMMA HandlesLive ==
    ASSUME NEW h, HeapBecomes(h), map' \in [Tiles -> Ids \cup {NoEntry}],
           job' \in [Procs -> Jobs], fl' \in Flushers, Handles(h, map', job', fl')
    PROVE  Handles(heap', map', job', fl')
<1>1. \A i \in Ids : i \in Live(map', job', fl') => heap'[i] = h[i]
  BY DEF HeapBecomes
<1>2. MapHandles(heap', map')
  BY <1>1 DEF Handles, MapHandles, Live
<1>3. ASSUME NEW p \in Procs PROVE JobHandles(heap', job'[p])
  <2>1. JobHandles(h, job'[p]) /\ job'[p] \in Jobs
    BY DEF Handles
  <2>2. job'[p].ent # NoEntry => heap'[job'[p].ent] = h[job'[p].ent]
    BY <1>1, <2>1 DEF Live, Jobs
  <2>3. job'[p].held # NoEntry => heap'[job'[p].held] = h[job'[p].held]
    BY <1>1, <2>1 DEF Live, Jobs
  <2>4. QED
    BY <2>1, <2>2, <2>3 DEF JobHandles
<1>4. FlHandles(heap', fl')
  BY <1>1 DEF Handles, FlHandles, Live, Flushers
<1>5. QED
  BY <1>2, <1>3, <1>4 DEF Handles

\* Entries keep their tile, and one task's record changes.
LEMMA HandlesJob ==
    ASSUME TypeOK, NEW h, NEW m, NEW p \in Procs, NEW k,
           Handles(heap, map, job, fl),
           \A i \in Ids : h[i].tile = heap[i].tile,
           MapHandles(h, m), JobHandles(h, k)
    PROVE  Handles(h, m, [job EXCEPT ![p] = k], fl)
<1>1. ASSUME NEW q \in Procs PROVE JobHandles(h, [job EXCEPT ![p] = k][q])
  <2>1. job[q] \in Jobs /\ JobHandles(heap, job[q])
    BY DEF TypeOK, Handles
  <2>2. JobHandles(h, job[q])
    BY <2>1 DEF JobHandles, Jobs
  <2>3. QED
    BY <2>2 DEF TypeOK
<1>2. FlHandles(h, fl)
  BY DEF Handles, FlHandles, TypeOK, Flushers
<1>3. QED
  BY <1>1, <1>2 DEF Handles

LEMMA MapSame ==
    ASSUME TypeOK, NEW h, MapHandles(heap, map), \A i \in Ids : h[i].tile = heap[i].tile
    PROVE  MapHandles(h, map)
BY DEF MapHandles, TypeOK

LEMMA IdleHandles == ASSUME NEW h PROVE JobHandles(h, IdleJob) /\ FlHandles(h, IdleFlusher)
BY DEF JobHandles, FlHandles, IdleJob, IdleFlusher

LEMMA ResumeHandles ==
    ASSUME NEW h, NEW p, NEW j, JobHandles(h, j), j \in Jobs
    PROVE  JobHandles(h, Resume(p, j))
BY DEF JobHandles, Resume, IdleJob, Jobs

LEMMA InsertHandles ==
    ASSUME TypeOK, TaskShape, Handles(heap, map, job, fl), UNCHANGED fl,
           map' \in [Tiles -> Ids \cup {NoEntry}], job' \in [Procs -> Jobs],
           NEW p \in Procs, NEW g, InsertEntry(p, g), job[p].tile \in Tiles
    PROVE  Handles(heap', map', job', fl')
<1> DEFINE t == job[p].tile
<1>1. PICK i \in Fresh :
        /\ map' = [map EXCEPT ![t] = i]
        /\ job' = [job EXCEPT ![p] = [job[p] EXCEPT !.pc = "count", !.ent = i, !.grid = Blank]]
        /\ HeapBecomes([heap EXCEPT ![i] = MakeEntry(t, g)])
  BY DEF InsertEntry
<1> DEFINE k == [job[p] EXCEPT !.pc = "count", !.ent = i, !.grid = Blank]
           h == [heap EXCEPT ![i] = MakeEntry(t, g)]
<1>3. i \in Ids /\ heap[i].tile = NoTile /\ h[i].tile = t /\ job[p] \in Jobs
  BY DEF Fresh, FreeEntry, MakeEntry, TypeOK
<1>4. \A l \in Ids : heap[l].tile \in Tiles => h[l].tile = heap[l].tile
  BY <1>3, EngineAssumption DEF TypeOK
<1>5. MapHandles(h, map')
  BY <1>1, <1>3, <1>4 DEF Handles, MapHandles, TypeOK
<1>6. \A q \in Procs : JobHandles(h, job[q])
  BY <1>4 DEF Handles, JobHandles, TypeOK, Jobs
<1>7. k.ent = i /\ k.tile = t /\ k.held = job[p].held
  BY <1>3 DEF Jobs
<1>8. JobHandles(h, k)
  BY <1>3, <1>6, <1>7 DEF JobHandles
<1>9. \A q \in Procs : JobHandles(h, job'[q])
  BY <1>1, <1>6, <1>8 DEF TypeOK
<1>10. FlHandles(h, fl')
  BY <1>4 DEF Handles, FlHandles, TypeOK, Flushers
<1>11. Handles(h, map', job', fl')
  BY <1>5, <1>9, <1>10 DEF Handles
<1>12. QED
  BY <1>1, <1>11, HandlesLive DEF TypeOK

LEMMA StepHandles ==
    TypeOK /\ TaskShape /\ HandlesValid /\ [Next]_vars => HandlesValid'
<1> SUFFICES ASSUME TypeOK, TaskShape, HandlesValid, [Next]_vars
             PROVE  Handles(heap', map', job', fl')
  BY DEF HandlesValid, Handles, MapHandles, JobHandles, FlHandles
<1> USE DEF db
<1>a. Handles(heap, map, job, fl)
  BY HandlesDef
<1>b. TypeOK'
  BY StepType
<1>c. \A p \in Procs : job[p] \in Jobs /\ JobHandles(heap, job[p])
  BY <1>a DEF TypeOK, Handles
<1>d. MapHandles(heap, map) /\ FlHandles(heap, fl) /\ fl \in Flushers
  BY <1>a DEF Handles, TypeOK
<1>1. ASSUME UNCHANGED <<map, heap, fl>>, NEW p \in Procs, NEW k,
             job' = [job EXCEPT ![p] = k], JobHandles(heap, k)
      PROVE  Handles(heap', map', job', fl')
  BY <1>1, <1>a, <1>d, HandlesJob
<1>2. ASSUME NEW p \in Painters, PaintBegin(p) \/ EnsureRow(p) \/ UpsertChunk(p) \/ PaintFail(p)
      PROVE  Handles(heap', map', job', fl')
  <2>1. p \in Procs
    BY DEF Procs
  <2>2. /\ UNCHANGED <<map, heap, fl>>
        /\ \/ /\ job'[p].ent = job[p].ent /\ job'[p].held = job[p].held
              /\ job'[p].tile = job[p].tile
           \/ job'[p].ent = NoEntry /\ job'[p].held = NoEntry
        /\ job' = [job EXCEPT ![p] = job'[p]]
    <3>1. CASE PaintBegin(p)
      BY <3>1, <2>1, <1>c DEF PaintBegin, IdleJob, TypeOK, Jobs
    <3>2. CASE EnsureRow(p)
      <4> DEFINE k == [job[p] EXCEPT !.pc = "upsert"]
      <4>1. job' = [job EXCEPT ![p] = k]
        BY <3>2, <2>1, <1>c DEF EnsureRow, TypeOK
      <4>2. k.ent = job[p].ent /\ k.held = job[p].held /\ k.tile = job[p].tile
        BY <2>1, <1>c DEF Jobs
      <4>3. job'[p] = k
        BY <4>1, <2>1 DEF TypeOK
      <4>4. UNCHANGED <<map, heap, fl>>
        BY <3>2 DEF EnsureRow
      <4>5. QED
        BY <4>1, <4>2, <4>3, <4>4
    <3>3. CASE UpsertChunk(p)
      <4>0. PICK S \in SUBSET job[p].todo :
              job' = [job EXCEPT ![p].todo = @ \ S,
                                 ![p].pc = IF job[p].todo = S THEN "find" ELSE "upsert"]
        BY <3>3 DEF UpsertChunk
      <4> DEFINE k == [job[p] EXCEPT !.todo = @ \ S,
                                     !.pc = IF job[p].todo = S THEN "find" ELSE "upsert"]
      <4>1. job' = [job EXCEPT ![p] = k]
        BY <3>3, <2>1, <1>c, <4>0 DEF UpsertChunk, TypeOK
      <4>2. k.ent = job[p].ent /\ k.held = job[p].held /\ k.tile = job[p].tile
        BY <2>1, <1>c DEF Jobs
      <4>3. job'[p] = k
        BY <4>1, <2>1 DEF TypeOK
      <4>4. UNCHANGED <<map, heap, fl>>
        BY <3>3 DEF UpsertChunk
      <4>5. QED
        BY <4>1, <4>2, <4>3, <4>4
    <3>4. CASE PaintFail(p)
      BY <3>4, <2>1, <1>c DEF PaintFail, IdleJob, TypeOK, Jobs
    <3>5. QED
      BY <1>2, <3>1, <3>2, <3>3, <3>4
  <2>3. JobHandles(heap, job'[p])
    BY <1>c, <2>1, <2>2 DEF JobHandles
  <2>4. QED
    BY <1>1, <2>1, <2>2, <2>3
<1>3. ASSUME NEW v \in Viewers, ViewMiss(v) \/ LoadBlob(v) \/ LoadRows(v) \/ ViewFail(v)
      PROVE  Handles(heap', map', job', fl')
  <2>1. v \in Procs
    BY DEF Procs
  <2>2. /\ UNCHANGED <<map, heap, fl>>
        /\ \/ /\ job'[v].ent = job[v].ent /\ job'[v].held = job[v].held
              /\ job'[v].tile = job[v].tile
           \/ job'[v].ent = NoEntry /\ job'[v].held = NoEntry
        /\ job' = [job EXCEPT ![v] = job'[v]]
    <3>1. CASE ViewMiss(v)
      BY <3>1, <2>1, <1>c DEF ViewMiss, IdleJob, TypeOK, Jobs
    <3>2. CASE LoadBlob(v)
      <4> DEFINE k == IF blob[job[v].tile].kind = "truecolor"
                      THEN [job[v] EXCEPT !.pc = "insert", !.grid = blob[job[v].tile].grid]
                      ELSE [job[v] EXCEPT !.pc = "rows"]
      <4>1. job' = [job EXCEPT ![v] = k]
        BY <3>2, <2>1, <1>c DEF LoadBlob, TypeOK
      <4>2. k.ent = job[v].ent /\ k.held = job[v].held /\ k.tile = job[v].tile
        BY <2>1, <1>c DEF Jobs
      <4>3. job'[v] = k
        BY <4>1, <2>1 DEF TypeOK
      <4>4. UNCHANGED <<map, heap, fl>>
        BY <3>2 DEF LoadBlob
      <4>5. QED
        BY <4>1, <4>2, <4>3, <4>4
    <3>3. CASE LoadRows(v)
      <4> DEFINE k == [job[v] EXCEPT !.pc = "insert", !.grid = RowsGrid(job[v].tile)]
      <4>1. job' = [job EXCEPT ![v] = k]
        BY <3>3, <2>1, <1>c DEF LoadRows, TypeOK
      <4>2. k.ent = job[v].ent /\ k.held = job[v].held /\ k.tile = job[v].tile
        BY <2>1, <1>c DEF Jobs
      <4>3. job'[v] = k
        BY <4>1, <2>1 DEF TypeOK
      <4>4. UNCHANGED <<map, heap, fl>>
        BY <3>3 DEF LoadRows
      <4>5. QED
        BY <4>1, <4>2, <4>3, <4>4
    <3>4. CASE ViewFail(v)
      BY <3>4, <2>1, <1>c DEF ViewFail, IdleJob, TypeOK, Jobs
    <3>5. QED
      BY <1>3, <3>1, <3>2, <3>3, <3>4
  <2>3. JobHandles(heap, job'[v])
    BY <1>c, <2>1, <2>2 DEF JobHandles
  <2>4. QED
    BY <1>1, <2>1, <2>2, <2>3
<1>4. ASSUME NEW p \in Painters, ApplyFind(p) PROVE Handles(heap', map', job', fl')
  <2>1. p \in Procs /\ job[p].tile \in Tiles
    BY <1>4 DEF Procs, ApplyFind, TaskShape, JobShape
  <2>2. CASE map[job[p].tile] # NoEntry
    <3> DEFINE k == [job[p] EXCEPT !.ent = map[job[p].tile], !.pc = "write"]
    <3>1. job' = [job EXCEPT ![p] = k] /\ UNCHANGED <<map, heap, fl>>
      BY <1>4, <2>1, <2>2 DEF ApplyFind, TypeOK
    <3>2. k.ent = map[job[p].tile] /\ k.tile = job[p].tile /\ k.held = job[p].held
      BY <1>c, <2>1 DEF Jobs
    <3>3. JobHandles(heap, k)
      BY <1>c, <1>d, <2>1, <2>2, <3>2 DEF JobHandles, MapHandles
    <3>4. QED
      BY <1>1, <2>1, <3>1, <3>3
  <2>3. CASE map[job[p].tile] = NoEntry
    BY <1>4, <1>a, <1>b, <2>1, <2>3, InsertHandles DEF ApplyFind, TypeOK
  <2>4. QED
    BY <2>2, <2>3
<1>5. ASSUME NEW p \in Procs, ApplyWrite(p) \/ MarkDirty(p) PROVE Handles(heap', map', job', fl')
  <2>1. /\ UNCHANGED <<map, fl>>
        /\ job'[p].ent = job[p].ent /\ job'[p].held = job[p].held /\ job'[p].tile = job[p].tile
        /\ job' = [job EXCEPT ![p] = job'[p]]
    BY <1>5, <1>c DEF ApplyWrite, MarkDirty, TypeOK, Jobs
  <2>2. \A i \in Ids : heap'[i].tile = heap[i].tile
    <3>1. \A i \in Ids : heap[i] \in Entries
      BY DEF TypeOK
    <3>2. CASE ApplyWrite(p)
      BY <3>1, <3>2 DEF ApplyWrite, TypeOK, Entries
    <3>3. CASE MarkDirty(p)
      BY <3>1, <3>3 DEF MarkDirty, TypeOK, Entries
    <3>4. QED
      BY <1>5, <3>2, <3>3
  <2>3. JobHandles(heap', job'[p])
    BY <1>c, <2>1, <2>2 DEF JobHandles, Jobs
  <2>4. QED
    BY <1>a, <1>d, <2>1, <2>2, <2>3, HandlesJob, MapSame
<1>6. ASSUME NEW p \in Procs, SendKey(p) PROVE Handles(heap', map', job', fl')
  <2>1. job' = [job EXCEPT ![p] = IdleJob] /\ UNCHANGED <<map, fl>> /\ HeapBecomes(heap)
    BY <1>6 DEF SendKey
  <2>2. Handles(heap, map', job', fl')
    BY <1>a, <1>d, <2>1, HandlesJob, IdleHandles
  <2>3. QED
    BY <1>b, <2>1, <2>2, HandlesLive DEF TypeOK
<1>7. ASSUME NEW p \in Procs, LoadInsert(p) PROVE Handles(heap', map', job', fl')
  BY <1>7, <1>a, <1>b, InsertHandles DEF LoadInsert, TypeOK, TaskShape, JobShape
<1>8. ASSUME NEW p \in Procs, EvictRemove(p) PROVE Handles(heap', map', job', fl')
  <2>1. PICK t \in job[p].victims :
          LET j == [job[p] EXCEPT !.victims = @ \ {t}, !.held = map[t]] IN
          /\ map' = [map EXCEPT ![t] = NoEntry]
          /\ job' = [job EXCEPT ![p] = CASE map[t] # NoEntry -> [j EXCEPT !.pc = "keep"]
                                         [] map[t] = NoEntry /\ j.victims # {} -> j
                                         [] OTHER -> Resume(p, j)]
    BY <1>8 DEF EvictRemove
  <2> DEFINE j == [job[p] EXCEPT !.victims = @ \ {t}, !.held = map[t]]
             k == CASE map[t] # NoEntry -> [j EXCEPT !.pc = "keep"]
                    [] map[t] = NoEntry /\ j.victims # {} -> j
                    [] OTHER -> Resume(p, j)
  <2>2. t \in Tiles /\ map[t] \in Ids \cup {NoEntry}
    BY <1>c DEF Jobs, TypeOK
  <2>3. j \in Jobs /\ j.ent = job[p].ent /\ j.tile = job[p].tile /\ j.held = map[t]
    BY <1>c, <2>2 DEF Jobs
  <2>4. JobHandles(heap, j)
    BY <1>c, <1>d, <2>2, <2>3 DEF JobHandles, MapHandles
  <2>5. JobHandles(heap, [j EXCEPT !.pc = "keep"])
    BY <2>3, <2>4 DEF JobHandles, Jobs
  <2>6. JobHandles(heap, k)
    BY <2>3, <2>4, <2>5, ResumeHandles
  <2>7. MapHandles(heap, map')
    BY <1>d, <2>1, <2>2 DEF MapHandles, TypeOK
  <2>8. Handles(heap, map', job', fl')
    BY <1>8, <1>a, <2>1, <2>6, <2>7, HandlesJob DEF EvictRemove
  <2>9. QED
    BY <1>8, <1>b, <2>8, HandlesLive DEF EvictRemove, TypeOK
<1>9. ASSUME NEW p \in Procs, EvictKeep(p) PROVE Handles(heap', map', job', fl')
  <2> DEFINE e == heap[job[p].held]
             j == [job[p] EXCEPT !.held = NoEntry, !.pc = "evict"]
             k == IF j.victims # {} THEN j ELSE Resume(p, j)
  <2>1. job[p].held # NoEntry /\ e.tile \in Tiles
    BY <1>9, <1>c DEF EvictKeep, TaskShape, JobShape, JobHandles
  <2>2. j \in Jobs /\ JobHandles(heap, j)
    <3>1. j \in Jobs /\ j.ent = job[p].ent /\ j.tile = job[p].tile /\ j.held = NoEntry
      BY <1>c DEF Jobs, Pcs
    <3>2. QED
      BY <1>c, <3>1 DEF JobHandles
  <2>3. JobHandles(heap, k)
    BY <2>2, ResumeHandles
  <2>4. MapHandles(heap, map')
    BY <1>9, <1>d, <2>1 DEF EvictKeep, MapHandles, TypeOK
  <2>5. Handles(heap, map', job', fl')
    BY <1>9, <1>a, <2>3, <2>4, HandlesJob DEF EvictKeep
  <2>6. QED
    BY <1>9, <1>b, <2>5, HandlesLive DEF EvictKeep, TypeOK
<1>20. ASSUME NEW p \in Procs, EvictCount(p) \/ EvictChoose(p)
       PROVE  Handles(heap', map', job', fl')
  <2>1. PICK k : job' = [job EXCEPT ![p] = k] /\ Turned(p, k)
    BY <1>20, EvictTurn
  <2>2. UNCHANGED <<map, fl>> /\ HeapBecomes(heap)
    BY <1>20, EvictTurn
  <2>3. JobHandles(heap, k)
    <3>1. CASE k = Resume(p, job[p])
      BY <1>c, <3>1, ResumeHandles
    <3>2. ASSUME NEW c, NEW V, k = [job[p] EXCEPT !.pc = c, !.victims = V]
          PROVE  JobHandles(heap, k)
      BY <1>c, <3>2 DEF JobHandles, Jobs
    <3>3. QED
      BY <2>1, <3>1, <3>2 DEF Turned
  <2>4. Handles(heap, map', job', fl')
    BY <1>a, <1>d, <2>1, <2>2, <2>3, HandlesJob
  <2>5. QED
    BY <1>b, <2>2, <2>4, HandlesLive DEF TypeOK
<1>10. ASSUME ReconcileLoad PROVE Handles(heap', map', job', fl')
  <2>1. PICK t \in scan :
          \/ job' = [job EXCEPT ![Reconciler] =
                       [IdleJob EXCEPT !.pc = "insert", !.tile = t, !.grid = RowsGrid(t)]]
          \/ UNCHANGED job
    BY <1>10 DEF ReconcileLoad
  <2>2. Reconciler \in Procs /\ UNCHANGED <<map, heap, fl>>
    BY <1>10 DEF Procs, ReconcileLoad
  <2>3. JobHandles(heap, [IdleJob EXCEPT !.pc = "insert", !.tile = t, !.grid = RowsGrid(t)])
    BY DEF JobHandles, IdleJob
  <2>4. QED
    BY <1>1, <1>a, <2>1, <2>2, <2>3
<1>11. ASSUME UNCHANGED <<map, job>>, \A i \in Ids : heap'[i].tile = heap[i].tile,
              FlHandles(heap', fl')
       PROVE  Handles(heap', map', job', fl')
  <2>1. MapHandles(heap', map')
    BY <1>11, <1>d, MapSame
  <2>2. ASSUME NEW q \in Procs PROVE JobHandles(heap', job'[q])
    BY <1>11, <1>c DEF JobHandles, Jobs
  <2>3. QED
    BY <1>11, <2>1, <2>2 DEF Handles
<1>12. ASSUME FlushRecv \/ FlushIdle \/ FlushRead \/ (FlushUpdate /\ fl.tile \notin tileRows)
       PROVE  Handles(heap', map', job', fl')
  <2>1. UNCHANGED <<map, job, heap>>
    BY <1>12 DEF FlushRecv, FlushIdle, FlushRead, FlushUpdate
  <2>2. \/ fl'.ent = fl.ent /\ fl'.tile = fl.tile
        \/ fl' = IdleFlusher
    BY <1>12, <1>d DEF FlushRecv, FlushIdle, FlushRead, FlushUpdate, Flushers
  <2>3. FlHandles(heap', fl')
    BY <1>d, <2>1, <2>2, IdleHandles DEF FlHandles
  <2>4. QED
    BY <1>11, <2>1, <2>3
<1>13. ASSUME FlushSwap PROVE Handles(heap', map', job', fl')
  <2>1. PICK t \in fl.batch :
        LET f == [fl EXCEPT !.batch = @ \ {t}] IN
        IF map[t] # NoEntry /\ heap[map[t]].dirty
        THEN /\ fl' = [f EXCEPT !.pc = "read", !.tile = t, !.ent = map[t]]
             /\ heap' = [heap EXCEPT ![map[t]].dirty = FALSE]
        ELSE /\ fl' = f
             /\ UNCHANGED heap
    BY <1>13 DEF FlushSwap
  <2>2. \A i \in Ids : heap[i] \in Entries
    BY DEF TypeOK
  <2>3. \A i \in Ids : heap'[i].tile = heap[i].tile
    BY <2>1, <2>2 DEF TypeOK, Entries
  <2>4. t \in Tiles
    BY <1>d DEF Flushers
  <2>5. \/ fl'.ent = fl.ent /\ fl'.tile = fl.tile
        \/ map[t] # NoEntry /\ fl'.ent = map[t] /\ fl'.tile = t
    BY <1>d, <2>1 DEF Flushers
  <2>6. map[t] \in Ids \cup {NoEntry} /\ fl.ent \in Ids \cup {NoEntry}
    BY <1>d, <2>4 DEF TypeOK, Flushers
  <2>7. FlHandles(heap', fl')
    BY <1>d, <2>3, <2>4, <2>5, <2>6 DEF FlHandles, MapHandles
  <2>8. QED
    BY <1>11, <1>13, <2>3, <2>7 DEF FlushSwap
<1>14. ASSUME NEW h, HeapBecomes(h), \A i \in Ids : h[i].tile = heap[i].tile,
              UNCHANGED <<map, job>>, fl'.ent = NoEntry
       PROVE  Handles(heap', map', job', fl')
  <2>1. MapHandles(h, map')
    BY <1>14, <1>d, MapSame
  <2>2. ASSUME NEW q \in Procs PROVE JobHandles(h, job'[q])
    BY <1>14, <1>c DEF JobHandles, Jobs
  <2>3. Handles(h, map', job', fl')
    BY <1>14, <2>1, <2>2 DEF Handles, FlHandles
  <2>4. QED
    BY <1>14, <1>b, <2>3, HandlesLive DEF TypeOK
<1>15. ASSUME NEW g, Flushed(g), UNCHANGED <<map, job>> PROVE Handles(heap', map', job', fl')
  <2>1. \A i \in Ids : heap[i] \in Entries
    BY DEF TypeOK
  <2> DEFINE h == [heap EXCEPT ![fl.ent].unsaved = @ /\ heap[fl.ent].grid # g]
  <2>2. \A i \in Ids : h[i].tile = heap[i].tile
    BY <2>1 DEF TypeOK, Entries
  <2>3. HeapBecomes(h) /\ fl'.ent = NoEntry
    BY <1>15 DEF Flushed, IdleFlusher
  <2>4. QED
    BY <1>14, <1>15, <2>2, <2>3
<1>16. ASSUME FlushUpdateFail PROVE Handles(heap', map', job', fl')
  <2>1. \A i \in Ids : heap[i] \in Entries
    BY DEF TypeOK
  <2> DEFINE h == [heap EXCEPT ![fl.ent].dirty = TRUE]
  <2>2. \A i \in Ids : h[i].tile = heap[i].tile
    BY <2>1 DEF TypeOK, Entries
  <2>3. HeapBecomes(h) /\ fl'.ent = NoEntry /\ UNCHANGED <<map, job>>
    BY <1>16 DEF FlushUpdateFail, IdleFlusher
  <2>4. QED
    BY <1>14, <2>2, <2>3
<1>17. ASSUME Crash PROVE Handles(heap', map', job', fl')
  BY <1>17 DEF Crash, Restart, Handles, MapHandles, JobHandles, FlHandles, IdleJob, IdleFlusher
<1>18. ASSUME UNCHANGED <<map, heap, job, fl>> PROVE Handles(heap', map', job', fl')
  BY <1>18, <1>a
<1>21. QED
  BY <1>2, <1>3, <1>4, <1>5, <1>6, <1>7, <1>8, <1>9, <1>20, <1>10, <1>12, <1>13, <1>15, <1>16,
     <1>17, <1>18
  DEF Next, Paint, View, Evict, Flush, AtRest, vars, ram, ReconcileScan, FlushUpdate,
      FlushInsert, StoreBlob, FlushInsertFail, Procs

-----------------------------------------------------------------------------
\* Nothing is shown that was not recorded first.

OnlyIn(R, t, g) == \A x \in Pixels : g[x] = Transparent \/ <<t, x, g[x]>> \in R

HeapIn(R, h) == \A i \in Ids : OnlyIn(R, h[i].tile, h[i].grid)

BlobIn(R, b) == \A t \in Tiles : OnlyIn(R, t, b[t].grid)

RowsIn(R, r) ==
    \A t \in Tiles, x \in Pixels : Shade(r[t][x]) = Transparent \/ <<t, x, Shade(r[t][x])>> \in R

JobIn(R, j) ==
    /\ OnlyIn(R, j.tile, j.grid)
    /\ \A x \in j.px \ j.todo : <<j.tile, x, Shade(j.value)>> \in R

AllIn(R, r, b, h, j, f) ==
    /\ RowsIn(R, r) /\ BlobIn(R, b) /\ HeapIn(R, h)
    /\ \A p \in Procs : JobIn(R, j[p])
    /\ OnlyIn(R, f.tile, f.png)

LEMMA AllInDef ==
    ShownWasRecorded /\ InFlightRecorded <=> AllIn(recorded, rows, blob, heap, job, fl)
BY DEF ShownWasRecorded, InFlightRecorded, AllIn, OnlyRecorded, OnlyIn, HeapIn, BlobIn,
       RowsIn, RowsGrid, JobIn

LEMMA BlankIn == ASSUME NEW R, NEW t PROVE OnlyIn(R, t, Blank)
BY DEF OnlyIn, Blank

LEMMA IdleIn == ASSUME NEW R PROVE JobIn(R, IdleJob)
BY BlankIn DEF JobIn, IdleJob

LEMMA HeapLiveIn ==
    ASSUME NEW R, NEW h, HeapIn(R, h), HeapBecomes(h) PROVE HeapIn(R, heap')
BY BlankIn DEF HeapIn, HeapBecomes, FreeEntry

LEMMA JobStepIn ==
    ASSUME TypeOK, NEW R, \A q \in Procs : JobIn(R, job[q]), NEW p \in Procs, NEW k,
           JobIn(R, k), job' = [job EXCEPT ![p] = k]
    PROVE  \A q \in Procs : JobIn(R, job'[q])
BY DEF TypeOK

LEMMA InsertIn ==
    ASSUME TypeOK, NEW R, HeapIn(R, heap), \A q \in Procs : JobIn(R, job[q]),
           NEW p \in Procs, NEW g, OnlyIn(R, job[p].tile, g), InsertEntry(p, g)
    PROVE  HeapIn(R, heap') /\ \A q \in Procs : JobIn(R, job'[q])
<1> DEFINE t == job[p].tile
<1>1. PICK i \in Fresh :
        /\ job' = [job EXCEPT ![p] = [job[p] EXCEPT !.pc = "count", !.ent = i, !.grid = Blank]]
        /\ HeapBecomes([heap EXCEPT ![i] = MakeEntry(t, g)])
  BY DEF InsertEntry
<1> DEFINE k == [job[p] EXCEPT !.pc = "count", !.ent = i, !.grid = Blank]
           h == [heap EXCEPT ![i] = MakeEntry(t, g)]
<1>3. HeapIn(R, h)
  BY DEF HeapIn, MakeEntry, Fresh, TypeOK
<1>4. JobIn(R, k)
  <2>1. job[p] \in Jobs /\ JobIn(R, job[p])
    BY DEF TypeOK
  <2>2. QED
    BY <2>1, BlankIn DEF JobIn, Jobs
<1>5. QED
  BY <1>1, <1>3, <1>4, HeapLiveIn, JobStepIn

LEMMA StepRecorded ==
    TypeOK /\ TaskShape /\ HandlesValid /\ InFlightRecorded /\ ShownWasRecorded /\ [Next]_vars
        => InFlightRecorded' /\ ShownWasRecorded'
<1> SUFFICES ASSUME TypeOK, TaskShape, HandlesValid, InFlightRecorded, ShownWasRecorded,
                    [Next]_vars
             PROVE  AllIn(recorded', rows', blob', heap', job', fl')
  BY DEF ShownWasRecorded, InFlightRecorded, AllIn, OnlyRecorded, OnlyIn, HeapIn, BlobIn,
         RowsIn, RowsGrid, JobIn
<1> USE DEF db
<1> DEFINE R == recorded
           Goal == AllIn(recorded', rows', blob', heap', job', fl')
<1>a. AllIn(R, rows, blob, heap, job, fl)
  BY AllInDef
<1>b. \A p \in Procs : job[p] \in Jobs /\ JobIn(R, job[p])
  BY <1>a DEF TypeOK, AllIn
<1>c. HeapIn(R, heap) /\ \A i \in Ids : heap[i] \in Entries
  BY <1>a DEF TypeOK, AllIn
<1>d. \A t \in Tiles : OnlyIn(R, t, RowsGrid(t)) /\ OnlyIn(R, t, blob[t].grid)
  BY <1>a DEF AllIn, RowsIn, BlobIn, OnlyIn, RowsGrid
<1>1. ASSUME UNCHANGED <<recorded, rows, blob, fl>>, HeapIn(R, heap'),
             \A q \in Procs : JobIn(R, job'[q])
      PROVE  Goal
  BY <1>1, <1>a DEF AllIn
<1>2. ASSUME UNCHANGED <<recorded, rows, blob, fl, heap>>, NEW p \in Procs, NEW k,
             job' = [job EXCEPT ![p] = k], JobIn(R, k)
      PROVE  Goal
  BY <1>1, <1>2, <1>b, <1>c, JobStepIn
<1>3. ASSUME NEW p \in Procs, NEW c PROVE JobIn(R, [job[p] EXCEPT !.pc = c])
  BY <1>b DEF JobIn, Jobs
<1>4. ASSUME NEW p \in Painters, PaintBegin(p) PROVE Goal
  <2>1. PICK t \in Tiles, D \in (SUBSET Pixels) \ {{}}, v \in Values :
          job' = [job EXCEPT ![p] = [IdleJob EXCEPT
                     !.pc = IF map[t] # NoEntry THEN "upsert" ELSE "row",
                     !.tile = t, !.value = v, !.px = D, !.todo = D]]
    BY <1>4 DEF PaintBegin
  <2> DEFINE k == [IdleJob EXCEPT !.pc = IF map[t] # NoEntry THEN "upsert" ELSE "row",
                                  !.tile = t, !.value = v, !.px = D, !.todo = D]
  <2>2. JobIn(R, k)
    BY BlankIn DEF JobIn, IdleJob
  <2>3. QED
    BY <1>2, <1>4, <2>1, <2>2 DEF PaintBegin, Procs
<1>5. ASSUME NEW p \in Painters, EnsureRow(p) PROVE Goal
  <2>1. job' = [job EXCEPT ![p] = [job[p] EXCEPT !.pc = "upsert"]]
    BY <1>5 DEF EnsureRow, TypeOK, Procs
  <2>2. QED
    BY <1>2, <1>3, <1>5, <2>1 DEF EnsureRow, Procs
<1>6. ASSUME NEW p \in Painters, UpsertChunk(p) PROVE Goal
  <2> DEFINE t == job[p].tile
             v == job[p].value
             Q == recorded'
  <2>1. PICK S \in SUBSET job[p].todo :
          /\ rows' = [rows EXCEPT ![t] = Overlay(@, S, v)]
          /\ recorded' = recorded \cup {<<t, x, Shade(v)>> : x \in S}
          /\ job' = [job EXCEPT ![p].todo = @ \ S,
                                ![p].pc = IF job[p].todo = S THEN "find" ELSE "upsert"]
    BY <1>6 DEF UpsertChunk
  <2>2. p \in Procs /\ R \subseteq Q /\ UNCHANGED <<blob, heap, fl>>
    BY <1>6, <2>1 DEF UpsertChunk, Procs
  <2>3. BlobIn(Q, blob') /\ HeapIn(Q, heap') /\ OnlyIn(Q, fl'.tile, fl'.png)
    BY <1>a, <2>2 DEF AllIn, BlobIn, HeapIn, OnlyIn
  <2>4. RowsIn(Q, rows')
    <3>1. RowsIn(Q, rows)
      BY <1>a, <2>2 DEF AllIn, RowsIn
    <3>2. \A u \in Tiles, x \in Pixels :
             \/ rows'[u][x] = rows[u][x]
             \/ u = t /\ x \in S /\ rows'[u][x] = v
      BY <2>1 DEF TypeOK, Overlay
    <3>3. \A x \in S : <<t, x, Shade(v)>> \in Q
      BY <2>1
    <3>4. QED
      BY <3>1, <3>2, <3>3 DEF RowsIn
  <2>5. \A q \in Procs : JobIn(Q, job'[q])
    <3> DEFINE k == [job[p] EXCEPT !.todo = @ \ S,
                                   !.pc = IF job[p].todo = S THEN "find" ELSE "upsert"]
    <3>1. job' = [job EXCEPT ![p] = k]
      BY <2>1, <2>2 DEF TypeOK
    <3>2. \A q \in Procs : JobIn(Q, job[q])
      BY <1>b, <2>2 DEF JobIn, OnlyIn
    <3>3. k.tile = t /\ k.value = v /\ k.grid = job[p].grid /\ k.px = job[p].px
          /\ k.todo = job[p].todo \ S
      BY <1>b, <2>2 DEF Jobs
    <3>4. JobIn(Q, k)
      <4>1. \A x \in S : <<t, x, Shade(v)>> \in Q
        BY <2>1
      <4>2. JobIn(Q, job[p])
        BY <2>2, <3>2
      <4>3. \A x \in k.px \ k.todo : x \in S \/ x \in job[p].px \ job[p].todo
        BY <3>3
      <4>4. \A x \in k.px \ k.todo : <<k.tile, x, Shade(k.value)>> \in Q
        BY <3>3, <4>1, <4>2, <4>3 DEF JobIn
      <4>5. OnlyIn(Q, k.tile, k.grid)
        BY <3>3, <4>2 DEF JobIn
      <4>6. QED
        BY <4>4, <4>5 DEF JobIn
    <3>5. QED
      BY <2>2, <3>1, <3>2, <3>4, JobStepIn
  <2>6. QED
    BY <2>3, <2>4, <2>5 DEF AllIn
<1>7. ASSUME NEW p \in Procs, PaintFail(p) \/ ViewFail(p) PROVE Goal
  BY <1>2, <1>7, IdleIn DEF PaintFail, ViewFail
<1>8. ASSUME NEW p \in Painters, ApplyFind(p) PROVE Goal
  <2>1. p \in Procs
    BY DEF Procs
  <2>2. CASE map[job[p].tile] # NoEntry
    <3> DEFINE k == [job[p] EXCEPT !.ent = map[job[p].tile], !.pc = "write"]
    <3>1. job' = [job EXCEPT ![p] = k]
      BY <1>8, <2>1, <2>2 DEF ApplyFind, TypeOK
    <3>2. JobIn(R, k)
      BY <1>b, <2>1 DEF JobIn, Jobs
    <3>3. QED
      BY <1>2, <1>8, <2>1, <2>2, <3>1, <3>2 DEF ApplyFind
  <2>3. CASE map[job[p].tile] = NoEntry
    BY <1>1, <1>8, <1>b, <1>c, <2>1, <2>3, BlankIn, InsertIn DEF ApplyFind
  <2>4. QED
    BY <2>2, <2>3
<1>9. ASSUME NEW p \in Painters, ApplyWrite(p) PROVE Goal
  <2> DEFINE i == job[p].ent
             g == Overlay(heap[i].grid, job[p].px, Shade(job[p].value))
             e == [heap[i] EXCEPT !.grid = g, !.unsaved = TRUE]
  <2>1. p \in Procs /\ i \in Ids /\ heap[i] \in Entries /\ job[p].todo = {}
    BY <1>9, <1>c DEF ApplyWrite, TypeOK, TaskShape, JobShape, Procs, Jobs
  <2>2. heap[i].tile = job[p].tile
    BY <1>9, <2>1 DEF HandlesValid, ApplyWrite, TaskShape, JobShape
  <2>3. \A x \in job[p].px : <<job[p].tile, x, Shade(job[p].value)>> \in R
    BY <1>b, <2>1 DEF JobIn
  <2>4. OnlyIn(R, heap[i].tile, g)
    BY <1>c, <2>1, <2>2, <2>3 DEF HeapIn, OnlyIn, Overlay
  <2>5. heap' = [heap EXCEPT ![i] = e]
    BY <1>9, <2>1 DEF ApplyWrite, TypeOK
  <2>6. e.tile = heap[i].tile /\ e.grid = g
    BY <2>1 DEF Entries
  <2>7. HeapIn(R, heap')
    BY <1>c, <2>4, <2>5, <2>6 DEF HeapIn, TypeOK
  <2>8. job' = [job EXCEPT ![p] = [job[p] EXCEPT !.pc = "mark"]]
    BY <1>9, <2>1 DEF ApplyWrite, TypeOK
  <2>9. \A q \in Procs : JobIn(R, job'[q])
    BY <1>3, <1>b, <2>1, <2>8, JobStepIn
  <2>10. QED
    BY <1>1, <1>9, <2>7, <2>9 DEF ApplyWrite
<1>10. ASSUME NEW h, \A i \in Ids : h[i].tile = heap[i].tile /\ h[i].grid = heap[i].grid
       PROVE  HeapIn(R, h)
  BY <1>10, <1>c DEF HeapIn
<1>11. ASSUME NEW p \in Procs, MarkDirty(p) PROVE Goal
  <2>1. \A i \in Ids : heap'[i].tile = heap[i].tile /\ heap'[i].grid = heap[i].grid
    BY <1>11, <1>c DEF MarkDirty, TypeOK, Entries
  <2>2. job' = [job EXCEPT ![p] = [job[p] EXCEPT !.pc = "send"]]
    BY <1>11 DEF MarkDirty, TypeOK
  <2>3. \A q \in Procs : JobIn(R, job'[q])
    BY <1>3, <1>b, <2>2, JobStepIn
  <2>4. QED
    BY <1>1, <1>10, <1>11, <2>1, <2>3 DEF MarkDirty
<1>12. ASSUME NEW p \in Procs, SendKey(p) PROVE Goal
  BY <1>1, <1>12, <1>b, <1>c, IdleIn, JobStepIn, HeapLiveIn DEF SendKey
<1>13. ASSUME NEW v \in Viewers, ViewMiss(v) PROVE Goal
  <2>1. PICK t \in Tiles : job' = [job EXCEPT ![v] = [IdleJob EXCEPT !.pc = "blob", !.tile = t]]
    BY <1>13 DEF ViewMiss
  <2>2. JobIn(R, [IdleJob EXCEPT !.pc = "blob", !.tile = t])
    BY BlankIn DEF JobIn, IdleJob
  <2>3. QED
    BY <1>2, <1>13, <2>1, <2>2 DEF ViewMiss, Procs
<1>14. ASSUME NEW v \in Procs, NEW c, NEW g, OnlyIn(R, job[v].tile, g)
       PROVE  JobIn(R, [job[v] EXCEPT !.pc = c, !.grid = g])
  BY <1>14, <1>b DEF JobIn, Jobs
<1>15. ASSUME NEW v \in Viewers, LoadBlob(v) PROVE Goal
  <2> DEFINE b == blob[job[v].tile]
             k == IF b.kind = "truecolor" THEN [job[v] EXCEPT !.pc = "insert", !.grid = b.grid]
                                          ELSE [job[v] EXCEPT !.pc = "rows"]
  <2>1. v \in Procs /\ job[v].tile \in Tiles
    BY <1>15 DEF LoadBlob, TaskShape, JobShape, Procs
  <2>2. JobIn(R, k)
    BY <1>3, <1>14, <1>d, <2>1
  <2>3. job' = [job EXCEPT ![v] = k]
    BY <1>15, <2>1 DEF LoadBlob, TypeOK
  <2>4. QED
    BY <1>2, <1>15, <2>1, <2>2, <2>3 DEF LoadBlob
<1>16. ASSUME NEW v \in Viewers, LoadRows(v) PROVE Goal
  <2> DEFINE k == [job[v] EXCEPT !.pc = "insert", !.grid = RowsGrid(job[v].tile)]
  <2>1. v \in Procs /\ job[v].tile \in Tiles
    BY <1>16 DEF LoadRows, TaskShape, JobShape, Procs
  <2>2. JobIn(R, k)
    BY <1>14, <1>d, <2>1
  <2>3. job' = [job EXCEPT ![v] = k]
    BY <1>16, <2>1 DEF LoadRows, TypeOK
  <2>4. QED
    BY <1>2, <1>16, <2>1, <2>2, <2>3 DEF LoadRows
<1>17. ASSUME NEW p \in Procs, LoadInsert(p) PROVE Goal
  <2>1. OnlyIn(R, job[p].tile, job[p].grid)
    BY <1>b DEF JobIn
  <2>2. QED
    BY <1>1, <1>17, <1>b, <1>c, <2>1, InsertIn DEF LoadInsert
<1>18. ASSUME NEW p \in Procs, NEW j \in Jobs, JobIn(R, j) PROVE JobIn(R, Resume(p, j))
  BY <1>18, IdleIn DEF Resume, JobIn, Jobs
<1>19. ASSUME NEW p \in Procs, EvictRemove(p) PROVE Goal
  <2>1. PICK t \in job[p].victims :
          LET j == [job[p] EXCEPT !.victims = @ \ {t}, !.held = map[t]] IN
          job' = [job EXCEPT ![p] = CASE map[t] # NoEntry -> [j EXCEPT !.pc = "keep"]
                                      [] map[t] = NoEntry /\ j.victims # {} -> j
                                      [] OTHER -> Resume(p, j)]
    BY <1>19 DEF EvictRemove
  <2> DEFINE j == [job[p] EXCEPT !.victims = @ \ {t}, !.held = map[t]]
             k == CASE map[t] # NoEntry -> [j EXCEPT !.pc = "keep"]
                    [] map[t] = NoEntry /\ j.victims # {} -> j
                    [] OTHER -> Resume(p, j)
  <2>2. t \in Tiles /\ map[t] \in Ids \cup {NoEntry}
    BY <1>b DEF Jobs, TypeOK
  <2>3. j \in Jobs /\ JobIn(R, j) /\ JobIn(R, [j EXCEPT !.pc = "keep"])
    BY <1>b, <2>2 DEF JobIn, Jobs
  <2>4. JobIn(R, k)
    BY <1>18, <2>3
  <2>5. \A q \in Procs : JobIn(R, job'[q])
    BY <1>b, <2>1, <2>4, JobStepIn
  <2>6. QED
    BY <1>1, <1>19, <1>c, <2>5, HeapLiveIn DEF EvictRemove
<1>20. ASSUME NEW p \in Procs, EvictKeep(p) PROVE Goal
  <2> DEFINE j == [job[p] EXCEPT !.held = NoEntry, !.pc = "evict"]
             k == IF j.victims # {} THEN j ELSE Resume(p, j)
  <2>1. j \in Jobs /\ JobIn(R, j)
    BY <1>b DEF JobIn, Jobs, Pcs
  <2>2. JobIn(R, k)
    BY <1>18, <2>1
  <2>3. \A q \in Procs : JobIn(R, job'[q])
    BY <1>20, <1>b, <2>2, JobStepIn DEF EvictKeep
  <2>4. QED
    BY <1>1, <1>20, <1>c, <2>3, HeapLiveIn DEF EvictKeep
<1>34. ASSUME NEW p \in Procs, EvictCount(p) \/ EvictChoose(p) PROVE Goal
  <2>1. PICK k : job' = [job EXCEPT ![p] = k] /\ Turned(p, k)
    BY <1>34, EvictTurn
  <2>2. UNCHANGED <<recorded, rows, blob, fl>> /\ HeapBecomes(heap)
    BY <1>34, EvictTurn
  <2>3. JobIn(R, k)
    <3>1. CASE k = Resume(p, job[p])
      BY <1>18, <1>b, <3>1
    <3>2. ASSUME NEW c, NEW V, k = [job[p] EXCEPT !.pc = c, !.victims = V]
          PROVE  JobIn(R, k)
      BY <1>b, <3>2 DEF JobIn, Jobs
    <3>3. QED
      BY <2>1, <3>1, <3>2 DEF Turned
  <2>4. \A q \in Procs : JobIn(R, job'[q])
    BY <1>b, <2>1, <2>3, JobStepIn
  <2>5. QED
    BY <1>1, <1>c, <2>2, <2>4, HeapLiveIn
<1>21. ASSUME ReconcileLoad PROVE Goal
  <2>1. PICK t \in scan :
          \/ job' = [job EXCEPT ![Reconciler] =
                       [IdleJob EXCEPT !.pc = "insert", !.tile = t, !.grid = RowsGrid(t)]]
          \/ UNCHANGED job
    BY <1>21 DEF ReconcileLoad
  <2>2. t \in Tiles /\ Reconciler \in Procs /\ UNCHANGED <<recorded, rows, blob, fl, heap>>
    BY <1>21 DEF ReconcileLoad, Procs, TypeOK
  <2>3. JobIn(R, [IdleJob EXCEPT !.pc = "insert", !.tile = t, !.grid = RowsGrid(t)])
    BY <1>d, <2>2 DEF JobIn, IdleJob
  <2>4. QED
    BY <1>1, <1>2, <1>b, <1>c, <2>1, <2>2, <2>3
<1>22. ASSUME UNCHANGED <<recorded, rows, job>>, BlobIn(R, blob'), HeapIn(R, heap'),
              OnlyIn(R, fl'.tile, fl'.png)
       PROVE  Goal
  BY <1>22, <1>a DEF AllIn
<1>23. BlobIn(R, blob) /\ OnlyIn(R, fl.tile, fl.png) /\ fl \in Flushers
       /\ OnlyIn(R, IdleFlusher.tile, IdleFlusher.png)
  BY <1>a, BlankIn DEF AllIn, TypeOK, IdleFlusher
<1>24. ASSUME FlushRecv \/ FlushIdle PROVE Goal
  BY <1>22, <1>23, <1>24, <1>c DEF FlushRecv, FlushIdle, Flushers
<1>25. ASSUME FlushSwap PROVE Goal
  <2>1. PICK t \in fl.batch :
        LET f == [fl EXCEPT !.batch = @ \ {t}] IN
        IF map[t] # NoEntry /\ heap[map[t]].dirty
        THEN /\ fl' = [f EXCEPT !.pc = "read", !.tile = t, !.ent = map[t]]
             /\ heap' = [heap EXCEPT ![map[t]].dirty = FALSE]
        ELSE /\ fl' = f
             /\ UNCHANGED heap
    BY <1>25 DEF FlushSwap
  <2>2. \A i \in Ids : heap'[i].tile = heap[i].tile /\ heap'[i].grid = heap[i].grid
    <3>1. CASE heap' = [heap EXCEPT ![map[t]].dirty = FALSE]
      BY <1>c, <3>1 DEF TypeOK, Entries
    <3>2. CASE heap' = heap
      BY <3>2
    <3>3. QED
      BY <2>1, <3>1, <3>2
  <2>3. OnlyIn(R, fl'.tile, fl'.png)
    <3>1. CASE fl' = [fl EXCEPT !.batch = @ \ {t}]
      BY <1>23, <3>1 DEF Flushers
    <3>2. CASE map[t] # NoEntry /\ fl' = [fl EXCEPT !.batch = @ \ {t}, !.pc = "read",
                                                  !.tile = t, !.ent = map[t]]
      <4>1. fl'.png = fl.png
        BY <1>23, <3>2 DEF Flushers
      <4>2. QED
        BY <1>25, <4>1, BlankIn DEF FlushSwap, TaskShape
    <3>3. QED
      BY <1>23, <2>1, <3>1, <3>2 DEF Flushers
  <2>4. QED
    BY <1>10, <1>22, <1>23, <1>25, <2>2, <2>3 DEF FlushSwap
<1>26. ASSUME FlushRead PROVE Goal
  <2>1. fl.ent \in Ids /\ OnlyIn(R, fl.tile, heap[fl.ent].grid)
    BY <1>26, <1>c DEF FlushRead, TaskShape, HandlesValid, TypeOK, Flushers, HeapIn
  <2>2. fl'.tile = fl.tile /\ fl'.png = heap[fl.ent].grid
    BY <1>23, <1>26 DEF FlushRead, Flushers
  <2>3. QED
    BY <1>22, <1>23, <1>26, <1>c, <2>1, <2>2 DEF FlushRead
<1>27. ASSUME NEW g, Flushed(g)
       PROVE  HeapIn(R, heap') /\ OnlyIn(R, fl'.tile, fl'.png)
  <2> DEFINE h == [heap EXCEPT ![fl.ent].unsaved = @ /\ heap[fl.ent].grid # g]
  <2>1. \A i \in Ids : h[i].tile = heap[i].tile /\ h[i].grid = heap[i].grid
    BY <1>c DEF TypeOK, Entries
  <2>2. HeapBecomes(h) /\ fl'.tile = NoTile /\ fl'.png = Blank
    BY <1>27 DEF Flushed, IdleFlusher
  <2>3. QED
    BY <1>10, <2>1, <2>2, BlankIn, HeapLiveIn
<1>28. ASSUME FlushUpdate \/ FlushInsert PROVE Goal
  <2>1. CASE FlushUpdate /\ fl.tile \notin tileRows
    BY <1>22, <1>23, <1>c, <2>1 DEF FlushUpdate, Flushers
  <2>2. CASE StoreBlob
    <3>1. fl.tile \in Tiles
      BY <1>28 DEF FlushUpdate, FlushInsert, TaskShape
    <3>2. blob' = [blob EXCEPT ![fl.tile] = [kind |-> "indexed", grid |-> fl.png]]
      BY <2>2 DEF StoreBlob
    <3>3. BlobIn(R, blob')
      BY <1>23, <3>1, <3>2 DEF BlobIn, TypeOK
    <3>4. QED
      BY <1>22, <1>27, <1>28, <2>2, <3>3 DEF FlushUpdate, FlushInsert, StoreBlob
  <2>3. QED
    BY <1>28, <2>1, <2>2 DEF FlushUpdate, FlushInsert
<1>29. ASSUME FlushUpdateFail PROVE Goal
  <2> DEFINE h == [heap EXCEPT ![fl.ent].dirty = TRUE]
  <2>1. \A i \in Ids : h[i].tile = heap[i].tile /\ h[i].grid = heap[i].grid
    BY <1>c DEF TypeOK, Entries
  <2>2. HeapBecomes(h) /\ fl'.tile = NoTile /\ fl'.png = Blank
    BY <1>29 DEF FlushUpdateFail, IdleFlusher
  <2>3. HeapIn(R, heap')
    BY <1>10, <2>1, <2>2, HeapLiveIn
  <2>4. QED
    BY <1>22, <1>23, <1>29, <2>2, <2>3, BlankIn DEF FlushUpdateFail
<1>30. ASSUME FlushInsertFail PROVE Goal
  BY <1>22, <1>23, <1>27, <1>30 DEF FlushInsertFail
<1>31. ASSUME Crash PROVE Goal
  <2>1. HeapIn(R, heap') /\ (\A q \in Procs : JobIn(R, job'[q])) /\ OnlyIn(R, fl'.tile, fl'.png)
    BY <1>31, IdleIn, BlankIn DEF Crash, Restart, HeapIn, FreeEntry, IdleFlusher
  <2>2. QED
    BY <1>31, <1>a, <2>1 DEF Crash, AllIn
<1>32. ASSUME UNCHANGED <<recorded, rows, blob, heap, job, fl>> PROVE Goal
  BY <1>32, <1>a DEF AllIn
<1>33. QED
  BY <1>4, <1>5, <1>6, <1>7, <1>8, <1>9, <1>11, <1>12, <1>13, <1>15, <1>16, <1>17, <1>19,
     <1>20, <1>34, <1>21, <1>24, <1>25, <1>26, <1>28, <1>29, <1>30, <1>31, <1>32
  DEF Next, Paint, View, Evict, Flush, AtRest, vars, ram, ReconcileScan, Procs

LEMMA InitRecorded == Init => HandlesValid /\ InFlightRecorded /\ ShownWasRecorded
<1> SUFFICES ASSUME Init PROVE HandlesValid /\ InFlightRecorded /\ ShownWasRecorded
  OBVIOUS
<1>1. HandlesValid
  BY DEF Init, HandlesValid, IdleJob, IdleFlusher
<1>2. PICK c \in Palette :
        rows = [t \in Tiles |-> [x \in Pixels |-> IF t \in Seeded THEN c ELSE NoRow]]
  BY DEF Init
<1>3. PICK k \in {"none", "indexed", "truecolor"} :
        blob = [t \in Tiles |-> IF t \in Seeded /\ k # "none"
                                THEN [kind |-> k, grid |-> RowsGrid(t)] ELSE NoImage]
  BY DEF Init
<1>4. c # NoRow
  BY EngineAssumption DEF Shades
<1>5. \A t \in Seeded, x \in Pixels : <<t, x, rows[t][x]>> \in recorded
  BY DEF Init
<1>6. \A t \in Tiles : OnlyIn(recorded, t, RowsGrid(t))
  BY <1>2, <1>4, <1>5 DEF OnlyIn, RowsGrid, Shade
<1>7. RowsIn(recorded, rows)
  BY <1>6 DEF RowsIn, OnlyIn, RowsGrid
<1>8. BlobIn(recorded, blob)
  BY <1>3, <1>6, BlankIn DEF BlobIn, NoImage
<1>9. HeapIn(recorded, heap) /\ (\A p \in Procs : JobIn(recorded, job[p]))
      /\ OnlyIn(recorded, fl.tile, fl.png)
  BY BlankIn, IdleIn DEF Init, HeapIn, FreeEntry, IdleFlusher
<1>10. QED
  BY <1>1, <1>7, <1>8, <1>9, AllInDef DEF AllIn

\* ShownWasRecorded holds in every behaviour: whatever the interleaving of
\* paints, reads, reloads, evictions, flushes, failures and crashes.
THEOREM ShownRecorded == Spec => []ShownWasRecorded
<1> DEFINE I == /\ TypeOK /\ TaskShape /\ HandlesValid
                /\ InFlightRecorded /\ ShownWasRecorded
<1>1. Init => I
  BY InitType, InitShape, InitRecorded
<1>2. I /\ [Next]_vars => I'
  BY StepType, StepHandles, StepRecorded
<1>3. QED
  BY <1>1, <1>2, PTL DEF Spec

-----------------------------------------------------------------------------
\* BareTiles, variable by variable.
HeapBare(B, h) == \A i \in Ids : h[i].tile \in B => h[i].grid = Blank

DbBare(B, r, b) ==
    \A t \in B : b[t].grid = Blank /\ \A x \in Pixels : r[t][x] = NoRow

JobBare(B, j) ==
    j.tile \in B => j.grid = Blank /\ (j.pc \notin {"row", "upsert"} => j.value = NoRow)

FlBare(B, b, f) ==
    /\ f.tile \in B => f.png = Blank
    /\ f.pc = "upsert" => f.png = Blank /\ b[f.tile].grid = Blank

AllBare(T, r, b, h, j, f) ==
    LET B == Tiles \ T IN
    DbBare(B, r, b) /\ HeapBare(B, h) /\ (\A p \in Procs : JobBare(B, j[p])) /\ FlBare(B, b, f)

LEMMA AllBareDef == BareTiles <=> AllBare(tileRows, rows, blob, heap, job, fl)
BY DEF BareTiles, AllBare, DbBare, HeapBare, JobBare, FlBare, HasRows

LEMMA IdleBare == ASSUME NEW B PROVE JobBare(B, IdleJob)
BY DEF JobBare, IdleJob

LEMMA HeapLiveBare ==
    ASSUME NEW B, NEW h, HeapBare(B, h), HeapBecomes(h) PROVE HeapBare(B, heap')
BY DEF HeapBare, HeapBecomes, FreeEntry

LEMMA JobStepBare ==
    ASSUME TypeOK, NEW B, \A q \in Procs : JobBare(B, job[q]), NEW p \in Procs, NEW k,
           JobBare(B, k), job' = [job EXCEPT ![p] = k]
    PROVE  \A q \in Procs : JobBare(B, job'[q])
BY DEF TypeOK

LEMMA InsertBare ==
    ASSUME TypeOK, NEW B, HeapBare(B, heap), \A q \in Procs : JobBare(B, job[q]),
           NEW p \in Procs, NEW g, job[p].tile \in B => g = Blank, InsertEntry(p, g),
           job[p].pc \notin {"row", "upsert"}
    PROVE  HeapBare(B, heap') /\ \A q \in Procs : JobBare(B, job'[q])
<1> DEFINE t == job[p].tile
<1>1. PICK i \in Fresh :
        /\ job' = [job EXCEPT ![p] = [job[p] EXCEPT !.pc = "count", !.ent = i, !.grid = Blank]]
        /\ HeapBecomes([heap EXCEPT ![i] = MakeEntry(t, g)])
  BY DEF InsertEntry
<1> DEFINE k == [job[p] EXCEPT !.pc = "count", !.ent = i, !.grid = Blank]
           h == [heap EXCEPT ![i] = MakeEntry(t, g)]
<1>3. HeapBare(B, h)
  BY DEF HeapBare, MakeEntry, Fresh, TypeOK
<1>4. JobBare(B, k)
  <2>1. job[p] \in Jobs /\ JobBare(B, job[p])
    BY DEF TypeOK
  <2>2. QED
    BY <2>1 DEF JobBare, Jobs
<1>5. QED
  BY <1>1, <1>3, <1>4, HeapLiveBare, JobStepBare

LEMMA StepBare ==
    TypeOK /\ TaskShape /\ HandlesValid /\ BareTiles /\ [Next]_vars => BareTiles'
<1> SUFFICES ASSUME TypeOK, TaskShape, HandlesValid, BareTiles, [Next]_vars
             PROVE  AllBare(tileRows', rows', blob', heap', job', fl')
  BY DEF BareTiles, AllBare, DbBare, HeapBare, JobBare, FlBare, HasRows
<1> USE DEF db
<1> DEFINE B == Tiles \ tileRows
           Goal == AllBare(tileRows', rows', blob', heap', job', fl')
<1>a. AllBare(tileRows, rows, blob, heap, job, fl)
  BY AllBareDef
<1>b. \A p \in Procs : job[p] \in Jobs /\ JobBare(B, job[p])
  BY <1>a DEF TypeOK, AllBare
<1>c. HeapBare(B, heap) /\ \A i \in Ids : heap[i] \in Entries
  BY <1>a DEF TypeOK, AllBare
<1>d. DbBare(B, rows, blob) /\ FlBare(B, blob, fl) /\ fl \in Flushers
  BY <1>a DEF AllBare, TypeOK
<1>1. ASSUME tileRows \subseteq tileRows', UNCHANGED blob, DbBare(B, rows', blob),
             FlBare(B, blob, fl'), HeapBare(B, heap'), \A q \in Procs : JobBare(B, job'[q])
      PROVE  Goal
  BY <1>1 DEF AllBare, DbBare, FlBare, HeapBare, JobBare
<1>2. ASSUME UNCHANGED <<tileRows, rows, blob, fl, heap>>, NEW p \in Procs, NEW k,
             job' = [job EXCEPT ![p] = k], JobBare(B, k)
      PROVE  Goal
  BY <1>1, <1>2, <1>b, <1>c, <1>d, JobStepBare
<1>3. ASSUME NEW p \in Procs, NEW c, job[p].pc \notin {"row", "upsert"}
      PROVE  JobBare(B, [job[p] EXCEPT !.pc = c])
  BY <1>3, <1>b DEF JobBare, Jobs
<1>4. ASSUME NEW p \in Painters, PaintBegin(p) PROVE Goal
  <2>1. PICK t \in Tiles, D \in (SUBSET Pixels) \ {{}}, v \in Values :
          job' = [job EXCEPT ![p] = [IdleJob EXCEPT
                     !.pc = IF map[t] # NoEntry THEN "upsert" ELSE "row",
                     !.tile = t, !.value = v, !.px = D, !.todo = D]]
    BY <1>4 DEF PaintBegin
  <2> DEFINE k == [IdleJob EXCEPT !.pc = IF map[t] # NoEntry THEN "upsert" ELSE "row",
                                  !.tile = t, !.value = v, !.px = D, !.todo = D]
  <2>2. JobBare(B, k)
    BY DEF JobBare, IdleJob
  <2>3. QED
    BY <1>2, <1>4, <2>1, <2>2 DEF PaintBegin, Procs
<1>5. ASSUME NEW p \in Painters, EnsureRow(p) PROVE Goal
  <2>1. job' = [job EXCEPT ![p] = [job[p] EXCEPT !.pc = "upsert"]]
    BY <1>5 DEF EnsureRow, TypeOK, Procs
  <2>2. JobBare(B, [job[p] EXCEPT !.pc = "upsert"])
    BY <1>b DEF JobBare, Jobs, Procs
  <2>3. \A q \in Procs : JobBare(B, job'[q])
    BY <1>b, <2>1, <2>2, JobStepBare DEF Procs
  <2>4. QED
    BY <1>1, <1>5, <1>c, <1>d, <2>3 DEF EnsureRow
<1>6. ASSUME NEW p \in Painters, UpsertChunk(p) PROVE Goal
  <2> DEFINE t == job[p].tile
             v == job[p].value
  <2>1. PICK S \in SUBSET job[p].todo :
          /\ rows' = [rows EXCEPT ![t] = Overlay(@, S, v)]
          /\ job' = [job EXCEPT ![p].todo = @ \ S,
                                ![p].pc = IF job[p].todo = S THEN "find" ELSE "upsert"]
    BY <1>6 DEF UpsertChunk
  <2>2. p \in Procs /\ UNCHANGED <<tileRows, blob, heap, fl>> /\ (t \in B => v = NoRow)
    BY <1>6, <2>1 DEF UpsertChunk, Procs
  <2>3. \A u \in Tiles, x \in Pixels : rows'[u][x] = rows[u][x] \/ (u = t /\ rows'[u][x] = v)
    BY <2>1 DEF TypeOK, Overlay
  <2>4. DbBare(B, rows', blob)
    BY <1>d, <2>2, <2>3 DEF DbBare
  <2> DEFINE k == [job[p] EXCEPT !.todo = @ \ S,
                                 !.pc = IF job[p].todo = S THEN "find" ELSE "upsert"]
  <2>5. job' = [job EXCEPT ![p] = k]
    BY <2>1, <2>2 DEF TypeOK
  <2>6. k.tile = t /\ k.value = v /\ k.grid = job[p].grid
    BY <1>b, <2>2 DEF Jobs
  <2>7. JobBare(B, k)
    BY <1>b, <2>2, <2>6 DEF JobBare
  <2>8. QED
    BY <1>1, <1>b, <1>c, <1>d, <2>2, <2>4, <2>5, <2>7, JobStepBare
<1>7. ASSUME NEW p \in Procs, PaintFail(p) \/ ViewFail(p) PROVE Goal
  BY <1>2, <1>7, IdleBare DEF PaintFail, ViewFail
<1>8. ASSUME NEW p \in Painters, ApplyFind(p) PROVE Goal
  <2>1. p \in Procs /\ job[p].pc = "find"
    BY <1>8 DEF Procs, ApplyFind
  <2>2. CASE map[job[p].tile] # NoEntry
    <3> DEFINE k == [job[p] EXCEPT !.ent = map[job[p].tile], !.pc = "write"]
    <3>1. job' = [job EXCEPT ![p] = k]
      BY <1>8, <2>1, <2>2 DEF ApplyFind, TypeOK
    <3>2. JobBare(B, k)
      BY <1>b, <2>1 DEF JobBare, Jobs
    <3>3. QED
      BY <1>2, <1>8, <2>1, <2>2, <3>1, <3>2 DEF ApplyFind
  <2>3. CASE map[job[p].tile] = NoEntry
    BY <1>1, <1>8, <1>b, <1>c, <1>d, <2>1, <2>3, InsertBare DEF ApplyFind
  <2>4. QED
    BY <2>2, <2>3
<1>9. ASSUME NEW p \in Painters, ApplyWrite(p) PROVE Goal
  <2> DEFINE i == job[p].ent
             g == Overlay(heap[i].grid, job[p].px, Shade(job[p].value))
             e == [heap[i] EXCEPT !.grid = g, !.unsaved = TRUE]
  <2>1. p \in Procs /\ i \in Ids /\ heap[i] \in Entries /\ job[p].pc = "write"
    BY <1>9, <1>c DEF ApplyWrite, TypeOK, TaskShape, JobShape, Procs, Jobs
  <2>2. heap[i].tile = job[p].tile
    BY <1>9, <2>1 DEF HandlesValid, ApplyWrite, TaskShape, JobShape
  <2>3. heap[i].tile \in B => g = Blank
    BY <1>b, <1>c, <2>1, <2>2 DEF JobBare, HeapBare, Overlay, Shade, Blank
  <2>4. heap' = [heap EXCEPT ![i] = e]
    BY <1>9, <2>1 DEF ApplyWrite, TypeOK
  <2>5. e.tile = heap[i].tile /\ e.grid = g
    BY <2>1 DEF Entries
  <2>6. HeapBare(B, heap')
    BY <1>c, <2>3, <2>4, <2>5 DEF HeapBare, TypeOK
  <2>7. job' = [job EXCEPT ![p] = [job[p] EXCEPT !.pc = "mark"]]
    BY <1>9, <2>1 DEF ApplyWrite, TypeOK
  <2>8. \A q \in Procs : JobBare(B, job'[q])
    BY <1>3, <1>b, <2>1, <2>7, JobStepBare
  <2>9. QED
    BY <1>1, <1>9, <1>d, <2>6, <2>8 DEF ApplyWrite
<1>10. ASSUME NEW h, \A i \in Ids : h[i].tile = heap[i].tile /\ h[i].grid = heap[i].grid
       PROVE  HeapBare(B, h)
  BY <1>10, <1>c DEF HeapBare
<1>11. ASSUME NEW p \in Procs, MarkDirty(p) PROVE Goal
  <2>1. \A i \in Ids : heap'[i].tile = heap[i].tile /\ heap'[i].grid = heap[i].grid
    BY <1>11, <1>c DEF MarkDirty, TypeOK, Entries
  <2>2. job' = [job EXCEPT ![p] = [job[p] EXCEPT !.pc = "send"]]
    BY <1>11 DEF MarkDirty, TypeOK
  <2>3. \A q \in Procs : JobBare(B, job'[q])
    BY <1>3, <1>11, <1>b, <2>2, JobStepBare DEF MarkDirty
  <2>4. QED
    BY <1>1, <1>10, <1>11, <1>d, <2>1, <2>3 DEF MarkDirty
<1>12. ASSUME NEW p \in Procs, SendKey(p) PROVE Goal
  BY <1>1, <1>12, <1>b, <1>c, <1>d, IdleBare, JobStepBare, HeapLiveBare DEF SendKey
<1>13. ASSUME NEW v \in Viewers, ViewMiss(v) PROVE Goal
  <2>1. PICK t \in Tiles : job' = [job EXCEPT ![v] = [IdleJob EXCEPT !.pc = "blob", !.tile = t]]
    BY <1>13 DEF ViewMiss
  <2>2. JobBare(B, [IdleJob EXCEPT !.pc = "blob", !.tile = t])
    BY DEF JobBare, IdleJob
  <2>3. QED
    BY <1>2, <1>13, <2>1, <2>2 DEF ViewMiss, Procs
<1>14. ASSUME NEW v \in Procs, NEW c, NEW g, job[v].tile \in B => g = Blank,
              job[v].pc \notin {"row", "upsert"}
       PROVE  JobBare(B, [job[v] EXCEPT !.pc = c, !.grid = g])
  BY <1>14, <1>b DEF JobBare, Jobs
<1>15. \A t \in B : RowsGrid(t) = Blank /\ blob[t].grid = Blank
  BY <1>d DEF DbBare, RowsGrid, Shade, Blank
<1>16. ASSUME NEW v \in Viewers, LoadBlob(v) PROVE Goal
  <2> DEFINE b == blob[job[v].tile]
             k == IF b.kind = "truecolor" THEN [job[v] EXCEPT !.pc = "insert", !.grid = b.grid]
                                          ELSE [job[v] EXCEPT !.pc = "rows"]
  <2>1. v \in Procs /\ job[v].pc = "blob"
    BY <1>16 DEF LoadBlob, Procs
  <2>2. JobBare(B, k)
    BY <1>3, <1>14, <1>15, <2>1
  <2>3. job' = [job EXCEPT ![v] = k]
    BY <1>16, <2>1 DEF LoadBlob, TypeOK
  <2>4. QED
    BY <1>2, <1>16, <2>1, <2>2, <2>3 DEF LoadBlob
<1>17. ASSUME NEW v \in Viewers, LoadRows(v) PROVE Goal
  <2> DEFINE k == [job[v] EXCEPT !.pc = "insert", !.grid = RowsGrid(job[v].tile)]
  <2>1. v \in Procs /\ job[v].pc = "rows"
    BY <1>17 DEF LoadRows, Procs
  <2>2. JobBare(B, k)
    BY <1>14, <1>15, <2>1
  <2>3. job' = [job EXCEPT ![v] = k]
    BY <1>17, <2>1 DEF LoadRows, TypeOK
  <2>4. QED
    BY <1>2, <1>17, <2>1, <2>2, <2>3 DEF LoadRows
<1>18. ASSUME NEW p \in Procs, LoadInsert(p) PROVE Goal
  <2>1. (job[p].tile \in B => job[p].grid = Blank) /\ job[p].pc = "insert"
    BY <1>18, <1>b DEF JobBare, LoadInsert
  <2>2. QED
    BY <1>1, <1>18, <1>b, <1>c, <1>d, <2>1, InsertBare DEF LoadInsert
<1>19. ASSUME NEW p \in Procs, NEW j \in Jobs, JobBare(B, j), j.pc \notin {"row", "upsert"}
       PROVE  JobBare(B, Resume(p, j))
  BY <1>19, IdleBare DEF Resume, JobBare, Jobs
<1>20. ASSUME NEW p \in Procs, EvictRemove(p) PROVE Goal
  <2>1. PICK t \in job[p].victims :
          LET j == [job[p] EXCEPT !.victims = @ \ {t}, !.held = map[t]] IN
          job' = [job EXCEPT ![p] = CASE map[t] # NoEntry -> [j EXCEPT !.pc = "keep"]
                                      [] map[t] = NoEntry /\ j.victims # {} -> j
                                      [] OTHER -> Resume(p, j)]
    BY <1>20 DEF EvictRemove
  <2> DEFINE j == [job[p] EXCEPT !.victims = @ \ {t}, !.held = map[t]]
             k == CASE map[t] # NoEntry -> [j EXCEPT !.pc = "keep"]
                    [] map[t] = NoEntry /\ j.victims # {} -> j
                    [] OTHER -> Resume(p, j)
  <2>2. t \in Tiles /\ map[t] \in Ids \cup {NoEntry} /\ job[p].pc = "evict"
    BY <1>20, <1>b DEF Jobs, TypeOK, EvictRemove
  <2>3. j \in Jobs /\ j.pc = "evict" /\ JobBare(B, j) /\ JobBare(B, [j EXCEPT !.pc = "keep"])
    BY <1>b, <2>2 DEF JobBare, Jobs
  <2>4. JobBare(B, k)
    BY <1>19, <2>3
  <2>5. \A q \in Procs : JobBare(B, job'[q])
    BY <1>b, <2>1, <2>4, JobStepBare
  <2>6. QED
    BY <1>1, <1>20, <1>c, <1>d, <2>5, HeapLiveBare DEF EvictRemove
<1>21. ASSUME NEW p \in Procs, EvictKeep(p) PROVE Goal
  <2> DEFINE j == [job[p] EXCEPT !.held = NoEntry, !.pc = "evict"]
             k == IF j.victims # {} THEN j ELSE Resume(p, j)
  <2>1. j \in Jobs /\ j.pc = "evict" /\ JobBare(B, j)
    BY <1>21, <1>b DEF JobBare, Jobs, Pcs, EvictKeep
  <2>2. JobBare(B, k)
    BY <1>19, <2>1
  <2>3. \A q \in Procs : JobBare(B, job'[q])
    BY <1>21, <1>b, <2>2, JobStepBare DEF EvictKeep
  <2>4. QED
    BY <1>1, <1>21, <1>c, <1>d, <2>3, HeapLiveBare DEF EvictKeep
<1>35. ASSUME NEW p \in Procs, EvictCount(p) \/ EvictChoose(p) PROVE Goal
  <2>1. PICK k : job' = [job EXCEPT ![p] = k] /\ Turned(p, k)
    BY <1>35, EvictTurn
  <2>2. UNCHANGED <<tileRows, rows, blob, fl>> /\ HeapBecomes(heap)
        /\ job[p].pc \notin {"row", "upsert"}
    BY <1>35, EvictTurn
  <2>3. JobBare(B, k)
    <3>1. CASE k = Resume(p, job[p])
      BY <1>19, <1>b, <2>2, <3>1
    <3>2. ASSUME NEW c, NEW V, k = [job[p] EXCEPT !.pc = c, !.victims = V]
          PROVE  JobBare(B, k)
      BY <1>b, <2>2, <3>2 DEF JobBare, Jobs
    <3>3. QED
      BY <2>1, <3>1, <3>2 DEF Turned
  <2>4. \A q \in Procs : JobBare(B, job'[q])
    BY <1>b, <2>1, <2>3, JobStepBare
  <2>5. QED
    BY <1>1, <1>c, <1>d, <2>2, <2>4, HeapLiveBare
<1>22. ASSUME ReconcileLoad PROVE Goal
  <2>1. PICK t \in scan :
          \/ job' = [job EXCEPT ![Reconciler] =
                       [IdleJob EXCEPT !.pc = "insert", !.tile = t, !.grid = RowsGrid(t)]]
          \/ UNCHANGED job
    BY <1>22 DEF ReconcileLoad
  <2>2. t \in Tiles /\ Reconciler \in Procs /\ UNCHANGED <<tileRows, rows, blob, fl, heap>>
    BY <1>22 DEF ReconcileLoad, Procs, TypeOK
  <2>3. JobBare(B, [IdleJob EXCEPT !.pc = "insert", !.tile = t, !.grid = RowsGrid(t)])
    BY <1>15, <2>2 DEF JobBare, IdleJob
  <2>4. QED
    BY <1>1, <1>2, <1>b, <1>c, <1>d, <2>1, <2>2, <2>3
<1>23. ASSUME UNCHANGED <<tileRows, rows, blob, job>>, HeapBare(B, heap'), FlBare(B, blob, fl')
       PROVE  Goal
  BY <1>1, <1>23, <1>b, <1>d
<1>24. ASSUME FlushRecv \/ FlushIdle PROVE Goal
  <2>1. fl'.pc # "upsert" /\ ((fl'.png = fl.png /\ fl'.tile = fl.tile) \/ fl'.png = Blank)
    <3>1. CASE FlushRecv
      BY <3>1, <1>d DEF FlushRecv, Flushers
    <3>2. CASE FlushIdle
      BY <3>2 DEF FlushIdle, IdleFlusher
    <3>3. QED
      BY <1>24, <3>1, <3>2
  <2>2. FlBare(B, blob, fl')
    BY <1>d, <2>1 DEF FlBare
  <2>3. QED
    BY <1>23, <1>24, <1>c, <2>2 DEF FlushRecv, FlushIdle
<1>25. ASSUME FlushSwap PROVE Goal
  <2>1. PICK t \in fl.batch :
        LET f == [fl EXCEPT !.batch = @ \ {t}] IN
        IF map[t] # NoEntry /\ heap[map[t]].dirty
        THEN /\ fl' = [f EXCEPT !.pc = "read", !.tile = t, !.ent = map[t]]
             /\ heap' = [heap EXCEPT ![map[t]].dirty = FALSE]
        ELSE /\ fl' = f
             /\ UNCHANGED heap
    BY <1>25 DEF FlushSwap
  <2>2. \A i \in Ids : heap'[i].tile = heap[i].tile /\ heap'[i].grid = heap[i].grid
    <3>1. CASE heap' = [heap EXCEPT ![map[t]].dirty = FALSE]
      BY <1>c, <3>1 DEF TypeOK, Entries
    <3>2. CASE heap' = heap
      BY <3>2
    <3>3. QED
      BY <2>1, <3>1, <3>2
  <2>3. fl'.png = fl.png /\ fl.png = Blank /\ fl'.pc # "upsert"
    <3>1. fl.png = Blank /\ fl.pc = "next"
      BY <1>25 DEF FlushSwap, TaskShape
    <3>2. CASE fl' = [fl EXCEPT !.batch = @ \ {t}]
      BY <1>d, <3>1, <3>2 DEF Flushers
    <3>3. CASE fl' = [[fl EXCEPT !.batch = @ \ {t}] EXCEPT !.pc = "read", !.tile = t,
                                                          !.ent = map[t]]
      BY <1>d, <3>1, <3>3 DEF Flushers
    <3>4. QED
      BY <2>1, <3>1, <3>2, <3>3
  <2>4. QED
    BY <1>10, <1>23, <1>25, <2>2, <2>3 DEF FlushSwap, FlBare
<1>26. ASSUME FlushRead PROVE Goal
  <2>1. fl.ent \in Ids /\ heap[fl.ent].tile = fl.tile
    BY <1>26 DEF FlushRead, TaskShape, HandlesValid, TypeOK, Flushers
  <2>2. fl'.tile = fl.tile /\ fl'.png = heap[fl.ent].grid /\ fl'.pc = "write"
    BY <1>d, <1>26 DEF FlushRead, Flushers
  <2>3. FlBare(B, blob, fl')
    BY <1>c, <2>1, <2>2 DEF FlBare, HeapBare
  <2>4. QED
    BY <1>23, <1>26, <1>c, <2>3 DEF FlushRead
<1>27. ASSUME NEW g, Flushed(g) PROVE HeapBare(B, heap') /\ fl'.png = Blank /\ fl'.pc = "next"
  <2> DEFINE h == [heap EXCEPT ![fl.ent].unsaved = @ /\ heap[fl.ent].grid # g]
  <2>1. \A i \in Ids : h[i].tile = heap[i].tile /\ h[i].grid = heap[i].grid
    BY <1>c DEF TypeOK, Entries
  <2>2. HeapBecomes(h) /\ fl'.png = Blank /\ fl'.pc = "next"
    BY <1>27 DEF Flushed, IdleFlusher
  <2>3. QED
    BY <1>10, <2>1, <2>2, HeapLiveBare
<1>28. ASSUME FlushUpdate \/ FlushInsert PROVE Goal
  <2>0. fl.tile \in Tiles
    BY <1>28 DEF FlushUpdate, FlushInsert, TaskShape
  <2>1. CASE FlushUpdate /\ fl.tile \notin tileRows
    <3>1. fl'.png = fl.png /\ fl'.tile = fl.tile
      BY <1>d, <2>1 DEF FlushUpdate, Flushers
    <3>2. FlBare(B, blob, fl')
      BY <1>d, <1>15, <2>0, <2>1, <3>1 DEF FlBare
    <3>3. QED
      BY <1>23, <1>c, <2>1, <3>2 DEF FlushUpdate
  <2>2. CASE StoreBlob
    <3> DEFINE C == Tiles \ tileRows'
    <3>1. /\ blob' = [blob EXCEPT ![fl.tile] = [kind |-> "indexed", grid |-> fl.png]]
          /\ tileRows' = tileRows \cup {fl.tile}
          /\ UNCHANGED <<rows, job>>
      BY <1>28, <2>2 DEF StoreBlob, FlushUpdate, FlushInsert
    <3>2. C \subseteq B /\ fl.tile \notin C
      BY <3>1
    <3>3. DbBare(C, rows', blob')
      BY <1>d, <3>1, <3>2 DEF DbBare, TypeOK
    <3>4. HeapBare(B, heap') /\ fl'.png = Blank /\ fl'.pc = "next"
      BY <1>27, <2>2 DEF StoreBlob
    <3>5. HeapBare(C, heap') /\ FlBare(C, blob', fl')
      BY <3>2, <3>4 DEF HeapBare, FlBare
    <3>6. \A q \in Procs : JobBare(C, job'[q])
      BY <1>b, <3>1, <3>2 DEF JobBare
    <3>7. QED
      BY <3>3, <3>5, <3>6 DEF AllBare
  <2>3. QED
    BY <1>28, <2>1, <2>2 DEF FlushUpdate, FlushInsert
<1>29. ASSUME FlushUpdateFail PROVE Goal
  <2> DEFINE h == [heap EXCEPT ![fl.ent].dirty = TRUE]
  <2>1. \A i \in Ids : h[i].tile = heap[i].tile /\ h[i].grid = heap[i].grid
    BY <1>c DEF TypeOK, Entries
  <2>2. HeapBecomes(h) /\ fl'.png = Blank /\ fl'.pc = "next"
    BY <1>29 DEF FlushUpdateFail, IdleFlusher
  <2>3. HeapBare(B, heap')
    BY <1>10, <2>1, <2>2, HeapLiveBare
  <2>4. QED
    BY <1>23, <1>29, <2>2, <2>3 DEF FlushUpdateFail, FlBare
<1>30. ASSUME FlushInsertFail PROVE Goal
  BY <1>23, <1>27, <1>30 DEF FlushInsertFail, FlBare
<1>31. ASSUME Crash PROVE Goal
  <2>1. HeapBare(B, heap') /\ (\A q \in Procs : JobBare(B, job'[q])) /\ FlBare(B, blob, fl')
    BY <1>31, IdleBare DEF Crash, Restart, HeapBare, FreeEntry, IdleFlusher, FlBare
  <2>2. QED
    BY <1>1, <1>31, <1>d, <2>1 DEF Crash
<1>32. ASSUME UNCHANGED <<tileRows, rows, blob, heap, job, fl>> PROVE Goal
  BY <1>32, <1>a
<1>33. QED
  BY <1>4, <1>5, <1>6, <1>7, <1>8, <1>9, <1>11, <1>12, <1>13, <1>16, <1>17, <1>18, <1>20, <1>35,
     <1>21, <1>22, <1>24, <1>25, <1>26, <1>28, <1>29, <1>30, <1>31, <1>32
  DEF Next, Paint, View, Evict, Flush, AtRest, vars, ram, ReconcileScan, Procs

-----------------------------------------------------------------------------
\* What a written grid is waiting for.

Marking(j, i) == \E p \in Procs : j[p].pc = "mark" /\ j[p].ent = i

OwedIn(h, j, f) ==
    \A i \in Ids : h[i].unsaved =>
        h[i].dirty \/ Marking(j, i) \/ (f.ent = i /\ f.pc \in {"read", "write", "upsert"})

OldIn(h, j, f) ==
    f.pc \in {"write", "upsert"} /\ h[f.ent].grid # f.png => h[f.ent].dirty \/ Marking(j, f.ent)

LEMMA OwedDef ==
    (WrittenIsOwed <=> OwedIn(heap, job, fl)) /\ (OldReadIsOwed <=> OldIn(heap, job, fl))
BY DEF WrittenIsOwed, OldReadIsOwed, OwedIn, OldIn, Marking

\* A task that is not at its mark may move on.
LEMMA MarkingStep ==
    ASSUME TypeOK, NEW p \in Procs, NEW k, job' = [job EXCEPT ![p] = k],
           job[p].pc # "mark", NEW i, Marking(job, i)
    PROVE  Marking(job', i)
BY DEF TypeOK, Marking

\* The entries lose no mark and change no grid; marks pending stay pending; and
\* the flusher stands where it stood.
LEMMA OwedStep ==
    ASSUME TypeOK, TaskShape, WrittenIsOwed, OldReadIsOwed, UNCHANGED fl,
           NEW h, \A i \in Ids : Marking(job, i) => Marking(job', i),
           \A i \in Ids : (h[i].unsaved => heap[i].unsaved) /\ (heap[i].dirty => h[i].dirty),
           \A i \in Ids : heap[i].tile \in Tiles => h[i].grid = heap[i].grid,
           HandlesValid,
           \A i \in Ids : heap'[i] = h[i] \/ heap'[i] = FreeEntry,
           fl.ent \in Ids => heap'[fl.ent] = h[fl.ent]
    PROVE  OwedIn(heap', job', fl') /\ OldIn(heap', job', fl')
<1>1. OwedIn(heap, job, fl) /\ OldIn(heap, job, fl)
  BY OwedDef
<1>2. OwedIn(heap', job', fl')
  BY <1>1 DEF OwedIn, FreeEntry
<1>3. ASSUME fl.pc \in {"write", "upsert"} PROVE OldIn(heap', job', fl')
  <2>1. fl.ent \in Ids /\ heap[fl.ent].tile \in Tiles
    BY <1>3 DEF TypeOK, TaskShape, HandlesValid, Flushers
  <2>2. QED
    BY <1>1, <1>3, <2>1 DEF OldIn
<1>4. QED
  BY <1>2, <1>3 DEF OldIn

LEMMA StepOwed ==
    TypeOK /\ TaskShape /\ HandlesValid /\ BareTiles /\ OldReadIsOwed /\ WrittenIsOwed
        /\ [Next]_vars => OldReadIsOwed' /\ WrittenIsOwed'
<1> SUFFICES ASSUME TypeOK, TaskShape, HandlesValid, BareTiles, OldReadIsOwed, WrittenIsOwed,
                    [Next]_vars
             PROVE  OwedIn(heap', job', fl') /\ OldIn(heap', job', fl')
  BY DEF WrittenIsOwed, OldReadIsOwed, OwedIn, OldIn, Marking
<1> USE DEF db
<1> DEFINE Goal == OwedIn(heap', job', fl') /\ OldIn(heap', job', fl')
<1>a. OwedIn(heap, job, fl) /\ OldIn(heap, job, fl)
  BY OwedDef
<1>b. \A i \in Ids : heap[i] \in Entries
  BY DEF TypeOK
<1>c. \A p \in Procs : job[p] \in Jobs
  BY DEF TypeOK
<1>1. ASSUME UNCHANGED <<fl, heap>>, NEW p \in Procs, NEW k, job[p].pc # "mark",
             job' = [job EXCEPT ![p] = k]
      PROVE  Goal
  BY <1>1, OwedStep, MarkingStep
<1>2. ASSUME UNCHANGED fl, HeapBecomes(heap), NEW p \in Procs, NEW k, job[p].pc # "mark",
             job' = [job EXCEPT ![p] = k]
      PROVE  Goal
  <2>1. \A i \in Ids : heap'[i] = heap[i] \/ heap'[i] = FreeEntry
    BY <1>2 DEF HeapBecomes
  <2>2. fl.ent \in Ids => heap'[fl.ent] = heap[fl.ent]
    BY <1>2 DEF HeapBecomes, Live
  <2>3. QED
    BY <1>2, <2>1, <2>2, OwedStep, MarkingStep
<1>3. ASSUME NEW p \in Procs, NEW g, InsertEntry(p, g), UNCHANGED fl, job[p].pc # "mark"
      PROVE  Goal
  <2>1. PICK i \in Fresh :
          /\ job' = [job EXCEPT ![p] = [job[p] EXCEPT !.pc = "count", !.ent = i, !.grid = Blank]]
          /\ HeapBecomes([heap EXCEPT ![i] = MakeEntry(job[p].tile, g)])
    BY <1>3 DEF InsertEntry
  <2> DEFINE h == [heap EXCEPT ![i] = MakeEntry(job[p].tile, g)]
  <2>2. \A l \in Ids : Marking(job, l) => Marking(job', l)
    BY <1>3, <2>1, MarkingStep
  <2>3. i \in Ids /\ heap[i] = FreeEntry /\ NoTile \notin Tiles
    BY EngineAssumption DEF Fresh
  <2>4. \A l \in Ids : /\ (h[l].unsaved => heap[l].unsaved) /\ (heap[l].dirty => h[l].dirty)
                       /\ heap[l].tile \in Tiles => h[l].grid = heap[l].grid
    BY <2>3 DEF MakeEntry, FreeEntry, TypeOK
  <2>5. \A l \in Ids : heap'[l] = h[l] \/ heap'[l] = FreeEntry
    BY <2>1 DEF HeapBecomes
  <2>6. fl.ent \in Ids => heap'[fl.ent] = h[fl.ent]
    BY <1>3, <2>1 DEF HeapBecomes, Live
  <2>7. QED
    BY <1>3, <2>2, <2>4, <2>5, <2>6, OwedStep
<1>4. ASSUME NEW p \in Painters, PaintBegin(p) \/ EnsureRow(p) \/ PaintFail(p) PROVE Goal
  <2>1. p \in Procs /\ job[p].pc # "mark" /\ UNCHANGED <<fl, heap>>
    BY <1>4 DEF Procs, PaintBegin, EnsureRow, PaintFail
  <2>2. \E k : job' = [job EXCEPT ![p] = k]
    <3>1. CASE EnsureRow(p)
      <4>1. job' = [job EXCEPT ![p] = [job[p] EXCEPT !.pc = "upsert"]]
        BY <2>1, <3>1 DEF EnsureRow, TypeOK
      <4>2. QED
        BY <4>1
    <3>2. CASE PaintBegin(p) \/ PaintFail(p)
      BY <3>2 DEF PaintBegin, PaintFail
    <3>3. QED
      BY <1>4, <3>1, <3>2
  <2>3. QED
    BY <1>1, <2>1, <2>2
<1>5. ASSUME NEW p \in Painters, UpsertChunk(p) PROVE Goal
  <2>1. PICK S \in SUBSET job[p].todo :
          job' = [job EXCEPT ![p].todo = @ \ S,
                             ![p].pc = IF job[p].todo = S THEN "find" ELSE "upsert"]
    BY <1>5 DEF UpsertChunk
  <2> DEFINE k == [job[p] EXCEPT !.todo = @ \ S,
                                 !.pc = IF job[p].todo = S THEN "find" ELSE "upsert"]
  <2>2. p \in Procs /\ job[p].pc # "mark" /\ UNCHANGED <<fl, heap>>
    BY <1>5 DEF Procs, UpsertChunk
  <2>3. job' = [job EXCEPT ![p] = k]
    BY <2>1, <2>2 DEF TypeOK
  <2>4. QED
    BY <1>1, <2>2, <2>3
<1>6. ASSUME NEW p \in Painters, ApplyFind(p) PROVE Goal
  <2>1. p \in Procs /\ job[p].pc # "mark" /\ UNCHANGED fl
    BY <1>6 DEF Procs, ApplyFind
  <2>2. CASE map[job[p].tile] # NoEntry
    <3>1. job' = [job EXCEPT ![p] = [job[p] EXCEPT !.ent = map[job[p].tile], !.pc = "write"]]
      BY <1>6, <2>1, <2>2 DEF ApplyFind, TypeOK
    <3>2. QED
      BY <1>1, <1>6, <2>1, <2>2, <3>1 DEF ApplyFind
  <2>3. CASE map[job[p].tile] = NoEntry
    BY <1>3, <1>6, <2>1, <2>3 DEF ApplyFind
  <2>4. QED
    BY <2>2, <2>3
<1>7. ASSUME NEW p \in Painters, ApplyWrite(p) PROVE Goal
  <2> DEFINE i == job[p].ent
  <2>1. p \in Procs /\ i \in Ids /\ job[p].pc = "write" /\ UNCHANGED fl
    BY <1>7 DEF ApplyWrite, TypeOK, TaskShape, JobShape, Procs, Jobs
  <2>2. job' = [job EXCEPT ![p] = [job[p] EXCEPT !.pc = "mark"]]
    BY <1>7, <2>1 DEF ApplyWrite, TypeOK
  <2>3. Marking(job', i)
    <3>1. job'[p].pc = "mark" /\ job'[p].ent = i
      BY <1>c, <2>1, <2>2 DEF TypeOK, Jobs
    <3>2. QED
      BY <2>1, <3>1 DEF Marking
  <2>4. \A l \in Ids : Marking(job, l) => Marking(job', l)
    BY <2>1, <2>2, MarkingStep
  <2>5. \A l \in Ids \ {i} : heap'[l] = heap[l]
    BY <1>7 DEF ApplyWrite, TypeOK
  <2>6. OwedIn(heap', job', fl')
    BY <1>a, <2>1, <2>3, <2>4, <2>5 DEF OwedIn
  <2>7. OldIn(heap', job', fl')
    <3>1. fl.pc \in {"write", "upsert"} => fl.ent \in Ids
      BY DEF TypeOK, TaskShape, Flushers
    <3>2. QED
      BY <1>a, <2>1, <2>3, <2>4, <2>5, <3>1 DEF OldIn
  <2>8. QED
    BY <2>6, <2>7
<1>8. ASSUME NEW p \in Procs, MarkDirty(p) PROVE Goal
  <2> DEFINE i == job[p].ent
  <2>1. i \in Ids /\ UNCHANGED fl
    BY <1>8 DEF MarkDirty, TypeOK, TaskShape, JobShape, Jobs
  <2>2. heap'[i].dirty /\ heap'[i].grid = heap[i].grid /\ heap'[i].unsaved = heap[i].unsaved
    BY <1>8, <1>b, <2>1 DEF MarkDirty, TypeOK, Entries
  <2>3. \A l \in Ids \ {i} : heap'[l] = heap[l]
    BY <1>8 DEF MarkDirty, TypeOK
  <2>4. ASSUME NEW l \in Ids \ {i}, Marking(job, l) PROVE Marking(job', l)
    <3>1. PICK q \in Procs : job[q].pc = "mark" /\ job[q].ent = l
      BY <2>4 DEF Marking
    <3>2. job'[q] = job[q]
      BY <1>8, <2>4, <3>1 DEF MarkDirty, TypeOK
    <3>3. QED
      BY <3>1, <3>2 DEF Marking
  <2>5. OwedIn(heap', job', fl')
    BY <1>a, <2>1, <2>2, <2>3, <2>4 DEF OwedIn
  <2>6. OldIn(heap', job', fl')
    <3>1. fl.pc \in {"write", "upsert"} => fl.ent \in Ids
      BY DEF TypeOK, TaskShape, Flushers
    <3>2. QED
      BY <1>a, <2>1, <2>2, <2>3, <2>4, <3>1 DEF OldIn
  <2>7. QED
    BY <2>5, <2>6
<1>9. ASSUME NEW p \in Procs, SendKey(p) PROVE Goal
  BY <1>2, <1>9 DEF SendKey
<1>10. ASSUME NEW p \in Procs, LoadInsert(p) PROVE Goal
  BY <1>3, <1>10 DEF LoadInsert
<1>11. ASSUME NEW p \in Procs, EvictRemove(p) \/ EvictKeep(p) PROVE Goal
  <2>1. job[p].pc # "mark" /\ UNCHANGED fl /\ HeapBecomes(heap)
    BY <1>11 DEF EvictRemove, EvictKeep
  <2>2. \E k : job' = [job EXCEPT ![p] = k]
    BY <1>11 DEF EvictRemove, EvictKeep
  <2>3. QED
    BY <1>2, <2>1, <2>2
<1>25. ASSUME NEW p \in Procs, EvictCount(p) \/ EvictChoose(p) PROVE Goal
  BY <1>2, <1>25, EvictTurn
<1>12. ASSUME NEW v \in Viewers, ViewMiss(v) \/ LoadBlob(v) \/ LoadRows(v) \/ ViewFail(v) PROVE Goal
  <2>1. v \in Procs /\ job[v].pc # "mark" /\ UNCHANGED <<fl, heap>>
    BY <1>12 DEF Procs, ViewMiss, LoadBlob, LoadRows, ViewFail
  <2>2. \E k : job' = [job EXCEPT ![v] = k]
    <3>1. CASE LoadRows(v)
      <4>1. job' = [job EXCEPT ![v] = [job[v] EXCEPT !.pc = "insert",
                                                     !.grid = RowsGrid(job[v].tile)]]
        BY <2>1, <3>1 DEF LoadRows, TypeOK
      <4>2. QED
        BY <4>1
    <3>2. CASE ViewMiss(v) \/ LoadBlob(v) \/ ViewFail(v)
      BY <3>2 DEF ViewMiss, LoadBlob, ViewFail
    <3>3. QED
      BY <1>12, <3>1, <3>2
  <2>3. QED
    BY <1>1, <2>1, <2>2
<1>13. ASSUME ReconcileLoad PROVE Goal
  <2>1. job[Reconciler].pc # "mark" /\ UNCHANGED <<fl, heap>> /\ Reconciler \in Procs
    BY <1>13 DEF ReconcileLoad, Procs
  <2>2. UNCHANGED job \/ \E k : job' = [job EXCEPT ![Reconciler] = k]
    BY <1>13 DEF ReconcileLoad
  <2>3. QED
    BY <1>1, <1>a, <2>1, <2>2
<1>14. ASSUME FlushRecv \/ FlushIdle PROVE Goal
  <2>1. fl.pc \in {"recv", "next"} /\ fl'.pc \in {"recv", "next"} /\ UNCHANGED <<heap, job>>
    <3>1. CASE FlushRecv
      BY <3>1 DEF FlushRecv, TypeOK, Flushers
    <3>2. CASE FlushIdle
      BY <3>2 DEF FlushIdle, IdleFlusher
    <3>3. QED
      BY <1>14, <3>1, <3>2
  <2>2. QED
    BY <1>a, <2>1 DEF OwedIn, OldIn
<1>15. ASSUME FlushSwap PROVE Goal
  <2>1. PICK t \in fl.batch :
        LET f == [fl EXCEPT !.batch = @ \ {t}] IN
        IF map[t] # NoEntry /\ heap[map[t]].dirty
        THEN /\ fl' = [f EXCEPT !.pc = "read", !.tile = t, !.ent = map[t]]
             /\ heap' = [heap EXCEPT ![map[t]].dirty = FALSE]
        ELSE /\ fl' = f
             /\ UNCHANGED heap
    BY <1>15 DEF FlushSwap
  <2>2. fl.pc = "next" /\ UNCHANGED job /\ fl \in Flushers
    BY <1>15 DEF FlushSwap, TypeOK
  <2>3. \/ fl'.pc = "next" /\ heap' = heap
        \/ /\ fl'.pc = "read" /\ fl'.ent = map[t]
           /\ heap' = [heap EXCEPT ![map[t]].dirty = FALSE]
    BY <2>1, <2>2 DEF Flushers
  <2>4. \A l \in Ids : l # fl'.ent \/ fl'.pc = "next" => heap'[l] = heap[l]
    BY <2>3 DEF TypeOK
  <2>5. OwedIn(heap', job', fl')
    <3>1. \A i \in Ids : heap[i].unsaved => heap[i].dirty \/ Marking(job, i)
      BY <1>a, <2>2 DEF OwedIn
    <3>2. QED
      BY <2>2, <2>3, <2>4, <3>1 DEF OwedIn
  <2>6. QED
    BY <2>3, <2>5 DEF OldIn
<1>16. ASSUME FlushRead PROVE Goal
  <2>1. fl'.ent = fl.ent /\ fl'.pc = "write" /\ fl'.png = heap[fl.ent].grid /\ fl.pc = "read"
        /\ UNCHANGED <<heap, job>>
    BY <1>16 DEF FlushRead, TypeOK, Flushers
  <2>2. QED
    BY <1>a, <2>1 DEF OwedIn, OldIn
<1>17. ASSUME FlushUpdate, fl.tile \notin tileRows PROVE Goal
  <2>1. fl'.ent = fl.ent /\ fl'.pc = "upsert" /\ fl'.png = fl.png /\ fl.pc = "write"
        /\ UNCHANGED <<heap, job>>
    BY <1>17 DEF FlushUpdate, TypeOK, Flushers
  <2>2. QED
    BY <1>a, <2>1 DEF OwedIn, OldIn
<1>18. ASSUME Flushed(fl.png), fl.pc \in {"write", "upsert"}, UNCHANGED job PROVE Goal
  <2> DEFINE h == [heap EXCEPT ![fl.ent].unsaved = @ /\ heap[fl.ent].grid # fl.png]
  <2>1. HeapBecomes(h) /\ fl'.pc = "next" /\ fl.ent \in Ids
    BY <1>18 DEF Flushed, IdleFlusher, TypeOK, TaskShape, Flushers
  <2>2. \A i \in Ids : h[i].unsaved =>
          /\ heap[i].unsaved /\ h[i].dirty = heap[i].dirty
          /\ i = fl.ent => heap[i].grid # fl.png
    BY <1>b, <2>1 DEF TypeOK, Entries
  <2>3. \A i \in Ids : h[i].unsaved => h[i].dirty \/ Marking(job, i)
    BY <1>18, <1>a, <2>2 DEF OwedIn, OldIn
  <2>4. \A i \in Ids : heap'[i] = h[i] \/ heap'[i] = FreeEntry
    BY <2>1 DEF HeapBecomes
  <2>5. OwedIn(heap', job', fl')
    <3>1. \A i \in Ids : Marking(job, i) => Marking(job', i)
      BY <1>18
    <3>2. \A i \in Ids : heap'[i].unsaved => heap'[i] = h[i]
      BY <2>4 DEF FreeEntry
    <3>3. QED
      BY <2>3, <3>1, <3>2 DEF OwedIn
  <2>6. QED
    BY <2>1, <2>5 DEF OldIn
<1>19. ASSUME FlushUpdate \/ FlushInsert, StoreBlob PROVE Goal
  BY <1>18, <1>19 DEF FlushUpdate, FlushInsert, StoreBlob
<1>20. ASSUME FlushUpdateFail PROVE Goal
  <2> DEFINE h == [heap EXCEPT ![fl.ent].dirty = TRUE]
  <2>1. HeapBecomes(h) /\ fl'.pc = "next" /\ fl.ent \in Ids /\ UNCHANGED job
    BY <1>20 DEF FlushUpdateFail, IdleFlusher, TypeOK, TaskShape, Flushers
  <2>2. \A i \in Ids : h[i].unsaved =>
          heap[i].unsaved /\ (h[i].dirty \/ (i # fl.ent /\ h[i].dirty = heap[i].dirty))
    BY <1>b, <2>1 DEF TypeOK, Entries
  <2>3. \A i \in Ids : h[i].unsaved => h[i].dirty \/ Marking(job, i)
    BY <1>a, <2>2 DEF OwedIn
  <2>4. \A i \in Ids : heap'[i] = h[i] \/ heap'[i] = FreeEntry
    BY <2>1 DEF HeapBecomes
  <2>5. OwedIn(heap', job', fl')
    <3>1. \A i \in Ids : Marking(job, i) => Marking(job', i)
      BY <2>1
    <3>2. \A i \in Ids : heap'[i].unsaved => heap'[i] = h[i]
      <4> HIDE DEF h
      <4> QED
        BY <2>4 DEF FreeEntry
    <3>3. QED
      BY <2>3, <3>1, <3>2 DEF OwedIn
  <2>6. QED
    BY <2>1, <2>5 DEF OldIn
<1>21. ASSUME FlushInsertFail PROVE Goal
  <2>1. fl.pc = "upsert" /\ blob[fl.tile].grid = fl.png /\ UNCHANGED job
    BY <1>21 DEF FlushInsertFail, BareTiles
  <2>2. QED
    BY <1>18, <1>21, <2>1 DEF FlushInsertFail
<1>22. ASSUME Crash PROVE Goal
  BY <1>22 DEF Crash, Restart, OwedIn, OldIn, FreeEntry, IdleFlusher
<1>23. ASSUME UNCHANGED <<heap, job, fl>> PROVE Goal
  BY <1>23, <1>a
<1>24. QED
  BY <1>4, <1>5, <1>6, <1>7, <1>8, <1>9, <1>10, <1>11, <1>12, <1>13, <1>14, <1>15, <1>16,
     <1>17, <1>19, <1>20, <1>21, <1>22, <1>23, <1>25
  DEF Next, Paint, View, Evict, Flush, AtRest, vars, ram, ReconcileScan, FlushUpdate, FlushInsert

LEMMA InitOwed == Init => BareTiles /\ OldReadIsOwed /\ WrittenIsOwed
<1> SUFFICES ASSUME Init PROVE BareTiles /\ OldReadIsOwed /\ WrittenIsOwed
  OBVIOUS
<1>1. OldReadIsOwed /\ WrittenIsOwed
  BY DEF Init, OldReadIsOwed, WrittenIsOwed, IdleFlusher, FreeEntry
<1>2. BareTiles
  <2>1. PICK c \in Palette :
          rows = [t \in Tiles |-> [x \in Pixels |-> IF t \in Seeded THEN c ELSE NoRow]]
    BY DEF Init
  <2>2. PICK k \in {"none", "indexed", "truecolor"} :
          blob = [t \in Tiles |-> IF t \in Seeded /\ k # "none"
                                  THEN [kind |-> k, grid |-> RowsGrid(t)] ELSE NoImage]
    BY DEF Init
  <2>3. \A t \in Tiles \ tileRows : blob[t].grid = Blank /\ ~HasRows(t)
    BY <2>1, <2>2 DEF Init, NoImage, HasRows
  <2>4. QED
    BY <2>3 DEF Init, BareTiles, IdleJob, IdleFlusher, FreeEntry
<1>3. QED
  BY <1>1, <1>2

\* WrittenIsOwed holds in every behaviour.  It is not inductive: the flusher
\* forgets an entry once its statement has run, which is right only because a
\* grid newer than the one it read is marked (OldReadIsOwed), and because the
\* INSERT whose failure is ignored never carries a color (BareTiles).
THEOREM WrittenOwed == Spec => []WrittenIsOwed
<1> DEFINE I == /\ TypeOK /\ TaskShape /\ HandlesValid
                /\ BareTiles /\ OldReadIsOwed /\ WrittenIsOwed
<1>1. Init => I
  BY InitType, InitShape, InitRecorded, InitOwed
<1>2. I /\ [Next]_vars => I'
  BY StepType, StepHandles, StepBare, StepOwed
<1>3. QED
  BY <1>1, <1>2, PTL DEF Spec

\* The invariant that the other theorems rest on, as TLC checks it.
THEOREM EngineInvariantHolds == Spec => []EngineInvariant
<1> DEFINE I == /\ TypeOK /\ EngineInvariant
                /\ ShownWasRecorded /\ WrittenIsOwed
<1>1. Init => I
  BY InitType, InitShape, InitRecorded, InitOwed DEF EngineInvariant
<1>2. I /\ [Next]_vars => I'
  BY StepType, StepHandles, StepRecorded, StepBare, StepOwed DEF EngineInvariant
<1>3. QED
  BY <1>1, <1>2, PTL DEF Spec

-----------------------------------------------------------------------------
\* The refinement of Canvas.  A painter's job, once opened, is a request of
\* Canvas; its chunks are commits, its SendKey answers "ok", its PaintFail
\* answers "error", a crash is a crash, and everything else is invisible.


Requests(j) == [p \in Painters |-> OpenRequest(j[p])]

LEMMA IdleIsClosed == OpenRequest(IdleJob) = Promise!Closed
BY DEF OpenRequest, IdleJob, Promise!Closed

\* A task that is neither opened nor closed leaves the requests alone.
LEMMA RequestsSame ==
    ASSUME TypeOK, NEW p \in Procs, NEW k, job' = [job EXCEPT ![p] = k],
           p \in Painters => OpenRequest(k) = OpenRequest(job[p])
    PROVE  Requests(job') = Requests(job)
BY DEF TypeOK, Requests, Procs

LEMMA RequestsStep ==
    ASSUME TypeOK, NEW p \in Painters, NEW k, job' = [job EXCEPT ![p] = k]
    PROVE  Requests(job') = [Requests(job) EXCEPT ![p] = OpenRequest(k)]
BY DEF TypeOK, Requests, Procs

LEMMA ResumeOpen ==
    ASSUME NEW p \in Painters, NEW j \in Jobs, j.pc # "idle"
    PROVE  OpenRequest(Resume(p, j)) = OpenRequest(j)
<1>1. InsertedPc(p) = "write"
  BY EngineAssumption DEF InsertedPc
<1>2. Resume(p, j) = [j EXCEPT !.pc = "write"]
  BY <1>1 DEF Resume
<1>3. QED
  BY <1>2 DEF OpenRequest, Jobs

LEMMA InsertOpen ==
    ASSUME TypeOK, TaskShape, NEW p \in Procs, NEW g, InsertEntry(p, g), job[p].pc # "idle"
    PROVE  Requests(job') = Requests(job)
<1>1. PICK i \in Fresh :
        job' = [job EXCEPT ![p] = [job[p] EXCEPT !.pc = "count", !.ent = i, !.grid = Blank]]
  BY DEF InsertEntry
<1> DEFINE k == [job[p] EXCEPT !.pc = "count", !.ent = i, !.grid = Blank]
<1>2. OpenRequest(k) = OpenRequest(job[p])
  BY DEF TypeOK, Jobs, OpenRequest
<1>3. QED
  BY <1>1, <1>2, RequestsSame

LEMMA StepPromise ==
    TypeOK /\ TaskShape /\ [Next]_vars => [Promise!CanvasNext]_(Promise!canvasVars)
<1> SUFFICES ASSUME TypeOK, TaskShape, [Next]_vars
             PROVE  [Promise!CanvasNext]_(Promise!canvasVars)
  OBVIOUS
<1> USE EngineAssumption DEF db
<1> DEFINE Goal == [Promise!CanvasNext]_(Promise!canvasVars)
<1>1. ASSUME UNCHANGED <<rows, answer>>, Requests(job') = Requests(job) PROVE Goal
  BY <1>1 DEF Promise!canvasVars, Requests
<1>2. ASSUME UNCHANGED <<rows, answer>>, NEW p \in Procs, NEW k, job' = [job EXCEPT ![p] = k],
             p \in Painters => OpenRequest(k) = OpenRequest(job[p])
      PROVE  Goal
  BY <1>1, <1>2, RequestsSame
<1>3. ASSUME NEW p \in Procs, job[p].pc # "idle", NEW c, c # "idle"
      PROVE  OpenRequest([job[p] EXCEPT !.pc = c]) = OpenRequest(job[p])
  BY <1>3 DEF OpenRequest, TypeOK, Jobs
<1>4. \A p \in Painters : p \in Procs /\ (job[p].pc # "idle" => OpenRequest(job[p]) # Promise!Closed)
  <2>1. ASSUME NEW p \in Painters, job[p].pc # "idle" PROVE OpenRequest(job[p]) # Promise!Closed
    <3>1. job[p].tile \in Tiles
      BY <2>1 DEF TaskShape, JobShape, Procs
    <3>2. QED
      BY <2>1, <3>1 DEF OpenRequest, Promise!Closed
  <2>2. QED
    BY <2>1 DEF Procs
<1>5. ASSUME NEW p \in Painters, PaintBegin(p) PROVE Goal
  <2>1. PICK t \in Tiles, D \in (SUBSET Pixels) \ {{}}, v \in Values :
          job' = [job EXCEPT ![p] = [IdleJob EXCEPT
                     !.pc = IF map[t] # NoEntry THEN "upsert" ELSE "row",
                     !.tile = t, !.value = v, !.px = D, !.todo = D]]
    BY <1>5 DEF PaintBegin
  <2> DEFINE k == [IdleJob EXCEPT !.pc = IF map[t] # NoEntry THEN "upsert" ELSE "row",
                                  !.tile = t, !.value = v, !.px = D, !.todo = D]
  <2>2. OpenRequest(k) = [tile |-> t, value |-> v, todo |-> D]
    BY DEF OpenRequest, IdleJob
  <2>3. Requests(job') = [Requests(job) EXCEPT ![p] = [tile |-> t, value |-> v, todo |-> D]]
    BY <2>1, <2>2, RequestsStep
  <2>4. Requests(job)[p] = Promise!Closed
    BY <1>5 DEF PaintBegin, Requests, OpenRequest, Promise!Closed
  <2>5. t \in Tiles /\ D \in SUBSET Pixels /\ v \in Promise!Values /\ D # {}
        /\ UNCHANGED rows /\ answer' = [answer EXCEPT ![p] = "none"]
    BY <1>5 DEF Values, Promise!Values, PaintBegin
  <2>6. \E t1 \in Tiles, D1 \in SUBSET Pixels, v1 \in Promise!Values :
           D1 # {} /\ Requests(job') =
                        [Requests(job) EXCEPT ![p] = [tile |-> t1, value |-> v1, todo |-> D1]]
    BY <2>3, <2>5
  <2>7. Promise!Open(p)
    BY <2>4, <2>5, <2>6 DEF Promise!Open, Requests
  <2>8. QED
    BY <2>7 DEF Promise!CanvasNext
<1>6. ASSUME NEW p \in Painters, UpsertChunk(p) PROVE Goal
  <2> DEFINE t == job[p].tile
             v == job[p].value
  <2>1. PICK S \in SUBSET job[p].todo :
          /\ rows' = [rows EXCEPT ![t] = Overlay(@, S, v)]
          /\ job' = [job EXCEPT ![p].todo = @ \ S,
                                ![p].pc = IF job[p].todo = S THEN "find" ELSE "upsert"]
    BY <1>6 DEF UpsertChunk
  <2> DEFINE k == [job[p] EXCEPT !.todo = @ \ S,
                                 !.pc = IF job[p].todo = S THEN "find" ELSE "upsert"]
             r == OpenRequest(job[p])
  <2>2. p \in Procs /\ job[p] \in Jobs /\ job[p].pc = "upsert" /\ answer' = answer
    BY <1>6 DEF UpsertChunk, Procs, TypeOK
  <2>3. job' = [job EXCEPT ![p] = k]
    BY <2>1, <2>2 DEF TypeOK
  <2>4. r = [tile |-> t, value |-> v, todo |-> job[p].todo]
        /\ OpenRequest(k) = [tile |-> t, value |-> v, todo |-> job[p].todo \ S]
    BY <2>2 DEF OpenRequest, Jobs
  <2>5. Requests(job') = [Requests(job) EXCEPT ![p] = OpenRequest(k)] /\ Requests(job)[p] = r
    BY <2>3, RequestsStep DEF Requests
  <2>6. CASE S = {}
    <3>1. OpenRequest(k) = r
      BY <2>4, <2>6
    <3>2. rows' = rows
      BY <2>1, <2>6 DEF TypeOK, Overlay
    <3>3. QED
      BY <1>2, <2>2, <2>3, <3>1, <3>2
  <2>7. CASE S # {}
    <3>1. Requests(job') = [Requests(job) EXCEPT ![p].todo = @ \ S]
      <4>1. [r EXCEPT !.todo = @ \ S] = OpenRequest(k)
        BY <2>4
      <4>2. QED
        BY <2>5, <4>1 DEF Requests
    <3>2. rows' = [rows EXCEPT ![Requests(job)[p].tile] =
                     [x \in Pixels |-> IF x \in S THEN Requests(job)[p].value ELSE @[x]]]
      BY <2>1, <2>4, <2>5 DEF Overlay
    <3>3. S \in SUBSET Requests(job)[p].todo /\ S # {} /\ UNCHANGED answer
      BY <2>1, <2>2, <2>4, <2>5, <2>7
    <3>4. Promise!Commit(p)
      BY <3>1, <3>2, <3>3 DEF Promise!Commit, Requests
    <3>5. QED
      BY <3>4 DEF Promise!CanvasNext
  <2>8. QED
    BY <2>6, <2>7
<1>7. ASSUME NEW p \in Painters, job[p].pc # "idle", job' = [job EXCEPT ![p] = IdleJob],
             \/ answer' = [answer EXCEPT ![p] = "error"]
             \/ job[p].todo = {} /\ answer' = [answer EXCEPT ![p] = "ok"],
             UNCHANGED rows
      PROVE  Goal
  <2>1. Requests(job') = [Requests(job) EXCEPT ![p] = Promise!Closed]
    BY <1>7, RequestsStep, IdleIsClosed
  <2>2. Requests(job)[p] # Promise!Closed /\ Requests(job)[p].todo = job[p].todo
    BY <1>4, <1>7 DEF Requests, OpenRequest
  <2>3. Promise!Close(p)
    BY <1>7, <2>1, <2>2 DEF Promise!Close, Requests
  <2>4. QED
    BY <2>3 DEF Promise!CanvasNext
<1>8. ASSUME NEW p \in Painters, PaintFail(p) PROVE Goal
  BY <1>7, <1>8 DEF PaintFail
<1>9. ASSUME NEW p \in Procs, SendKey(p) PROVE Goal
  <2>1. CASE p \in Painters
    BY <1>7, <1>9, <2>1 DEF SendKey, TaskShape, JobShape
  <2>2. CASE p \notin Painters
    BY <1>2, <1>9, <2>2 DEF SendKey
  <2>3. QED
    BY <2>1, <2>2
<1>10. ASSUME NEW p \in Procs, EnsureRow(p) \/ ApplyWrite(p) \/ MarkDirty(p) PROVE Goal
  <2>1. PICK c \in {"upsert", "mark", "send"} : job' = [job EXCEPT ![p] = [job[p] EXCEPT !.pc = c]]
    <3>1. CASE EnsureRow(p)
      BY <3>1 DEF EnsureRow, TypeOK
    <3>2. CASE ApplyWrite(p)
      BY <3>2 DEF ApplyWrite, TypeOK
    <3>3. CASE MarkDirty(p)
      BY <3>3 DEF MarkDirty, TypeOK
    <3>4. QED
      BY <1>10, <3>1, <3>2, <3>3
  <2>2. OpenRequest([job[p] EXCEPT !.pc = c]) = OpenRequest(job[p])
    BY <1>3, <1>10 DEF EnsureRow, ApplyWrite, MarkDirty
  <2>3. QED
    BY <1>2, <1>10, <2>1, <2>2 DEF EnsureRow, ApplyWrite, MarkDirty
<1>11. ASSUME NEW p \in Painters, ApplyFind(p) PROVE Goal
  <2>1. p \in Procs /\ job[p].pc = "find" /\ UNCHANGED <<rows, answer>>
    BY <1>11 DEF Procs, ApplyFind
  <2>2. CASE map[job[p].tile] # NoEntry
    <3> DEFINE k == [job[p] EXCEPT !.ent = map[job[p].tile], !.pc = "write"]
    <3>1. job' = [job EXCEPT ![p] = k]
      BY <1>11, <2>1, <2>2 DEF ApplyFind, TypeOK
    <3>2. OpenRequest(k) = OpenRequest(job[p])
      BY <2>1 DEF OpenRequest, TypeOK, Jobs
    <3>3. QED
      BY <1>2, <2>1, <3>1, <3>2
  <2>3. CASE map[job[p].tile] = NoEntry
    BY <1>1, <1>11, <2>1, <2>3, InsertOpen DEF ApplyFind
  <2>4. QED
    BY <2>2, <2>3
<1>12. ASSUME NEW p \in Procs, LoadInsert(p) PROVE Goal
  BY <1>1, <1>12, InsertOpen DEF LoadInsert
<1>13. ASSUME NEW p \in Procs, EvictRemove(p) PROVE Goal
  <2>1. PICK t \in job[p].victims :
          LET j == [job[p] EXCEPT !.victims = @ \ {t}, !.held = map[t]] IN
          job' = [job EXCEPT ![p] = CASE map[t] # NoEntry -> [j EXCEPT !.pc = "keep"]
                                      [] map[t] = NoEntry /\ j.victims # {} -> j
                                      [] OTHER -> Resume(p, j)]
    BY <1>13 DEF EvictRemove
  <2> DEFINE j == [job[p] EXCEPT !.victims = @ \ {t}, !.held = map[t]]
             k == CASE map[t] # NoEntry -> [j EXCEPT !.pc = "keep"]
                    [] map[t] = NoEntry /\ j.victims # {} -> j
                    [] OTHER -> Resume(p, j)
  <2>2. job[p] \in Jobs /\ t \in Tiles /\ map[t] \in Ids \cup {NoEntry} /\ job[p].pc = "evict"
    BY <1>13 DEF Jobs, TypeOK, EvictRemove
  <2>3. j \in Jobs /\ j.pc = "evict" /\ OpenRequest(j) = OpenRequest(job[p])
        /\ OpenRequest([j EXCEPT !.pc = "keep"]) = OpenRequest(job[p])
    BY <2>2 DEF OpenRequest, Jobs
  <2>4. p \in Painters => OpenRequest(k) = OpenRequest(job[p])
    BY <2>3, ResumeOpen
  <2>5. QED
    BY <1>2, <1>13, <2>1, <2>4 DEF EvictRemove
<1>14. ASSUME NEW p \in Procs, EvictKeep(p) PROVE Goal
  <2> DEFINE j == [job[p] EXCEPT !.held = NoEntry, !.pc = "evict"]
             k == IF j.victims # {} THEN j ELSE Resume(p, j)
  <2>1. job[p] \in Jobs /\ job[p].pc = "keep"
    BY <1>14 DEF TypeOK, EvictKeep
  <2>2. j \in Jobs /\ j.pc = "evict" /\ OpenRequest(j) = OpenRequest(job[p])
    BY <2>1 DEF OpenRequest, Jobs, Pcs
  <2>3. p \in Painters => OpenRequest(k) = OpenRequest(job[p])
    BY <2>2, ResumeOpen
  <2>4. QED
    BY <1>2, <1>14, <2>3 DEF EvictKeep
<1>20. ASSUME NEW p \in Procs, EvictCount(p) \/ EvictChoose(p) PROVE Goal
  <2>1. PICK k : job' = [job EXCEPT ![p] = k] /\ Turned(p, k)
    BY <1>20, EvictTurn
  <2>2. UNCHANGED <<rows, answer>> /\ job[p].pc # "idle" /\ job[p] \in Jobs
    BY <1>20, EvictTurn DEF TypeOK
  <2>3. p \in Painters => OpenRequest(k) = OpenRequest(job[p])
    <3>1. CASE k = Resume(p, job[p])
      BY <2>2, <3>1, ResumeOpen
    <3>2. ASSUME NEW c \in {"choose", "evict"}, NEW V,
                 k = [job[p] EXCEPT !.pc = c, !.victims = V]
          PROVE  OpenRequest(k) = OpenRequest(job[p])
      BY <2>2, <3>2 DEF OpenRequest, Jobs
    <3>3. QED
      BY <2>1, <3>1, <3>2 DEF Turned
  <2>4. QED
    BY <1>2, <2>1, <2>2, <2>3
<1>15. ASSUME NEW v \in Viewers, ViewMiss(v) \/ LoadBlob(v) \/ LoadRows(v) \/ ViewFail(v) PROVE Goal
  <2>1. v \in Procs /\ v \notin Painters /\ UNCHANGED <<rows, answer>>
    BY <1>15 DEF Procs, ViewMiss, LoadBlob, LoadRows, ViewFail
  <2>2. \A q \in Painters : job'[q] = job[q]
    BY <1>15, <2>1 DEF ViewMiss, LoadBlob, LoadRows, ViewFail, TypeOK, Procs
  <2>3. QED
    BY <1>1, <2>1, <2>2 DEF Requests
<1>16. ASSUME ReconcileLoad PROVE Goal
  <2>1. \A q \in Painters : job'[q] = job[q]
    BY <1>16 DEF ReconcileLoad, TypeOK, Procs
  <2>2. QED
    BY <1>1, <1>16, <2>1 DEF ReconcileLoad, Requests
<1>17. ASSUME Crash PROVE Goal
  <2>1. Requests(job') = [p \in Painters |-> Promise!Closed]
    BY <1>17, IdleIsClosed DEF Crash, Restart, Requests, Procs
  <2>2. Promise!ServerCrash
    BY <1>17, <2>1 DEF Promise!ServerCrash, Crash, Restart, Requests
  <2>3. QED
    BY <2>2 DEF Promise!CanvasNext
<1>18. ASSUME UNCHANGED <<rows, answer, job>> PROVE Goal
  BY <1>1, <1>18 DEF Requests
<1>19. QED
  BY <1>5, <1>6, <1>8, <1>9, <1>10, <1>11, <1>12, <1>13, <1>14, <1>15, <1>16, <1>17, <1>18, <1>4, <1>20
  DEF Next, Paint, View, Evict, Flush, AtRest, vars, ram, ReconcileScan, FlushRecv, FlushIdle,
      FlushSwap, FlushRead, FlushUpdate, FlushInsert, StoreBlob, FlushUpdateFail, FlushInsertFail

\* The engine implements Canvas: an answered paint is durable, a failed one
\* keeps exactly its committed chunks, and no cache, flush, eviction, reload
\* or crash ever changes a pixel row.
THEOREM PromiseHolds == Spec => PromiseKept
<1>1. Init => Promise!CanvasInit
  <2> SUFFICES ASSUME Init PROVE Promise!CanvasInit
    OBVIOUS
  <2>1. rows \in [Tiles -> [Pixels -> Values]]
    BY DEF Init, Values
  <2>2. [p \in Painters |-> OpenRequest(job[p])] = [p \in Painters |-> Promise!Closed]
    BY IdleIsClosed DEF Init, Procs
  <2>3. QED
    BY <2>1, <2>2 DEF Init, Promise!CanvasInit, Values, Promise!Values
<1>2. Init => TypeOK /\ TaskShape
  BY InitType, InitShape
<1>3. QED
  BY <1>1, <1>2, StepType, StepPromise, PTL DEF Spec, PromiseKept, Promise!CanvasSpec
=============================================================================
