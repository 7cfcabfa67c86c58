--------------------------- MODULE ServicesProofs ---------------------------
(***************************************************************************)
(* Theorems about the migration, the Discord accounts and the regions, for *)
(* every value of the constants of Services, and the types of all its      *)
(* parts.                                                                  *)
(***************************************************************************)
EXTENDS AccessProofs, ModerationProofs

-----------------------------------------------------------------------------
\* Sets of numbers

LEMMA RunMax ==
  ASSUME NEW S, S \subseteq Nat, S # {}, NEW n \in Nat, \A x \in S : x <= n
  PROVE  G!Max(S) \in S /\ \A x \in S : x <= G!Max(S)
<1>1. \E m \in S : \A x \in S : m >= x
  BY HasGreatest
<1>2. G!Max(S) = CHOOSE m \in S : \A x \in S : m >= x
  BY DEF G!Max
<1>3. G!Max(S) \in S /\ \A x \in S : G!Max(S) >= x
  BY <1>1, <1>2
<1>4. QED
  BY <1>3

LEMMA RunMin ==
  ASSUME NEW S, S \subseteq Nat, S # {}
  PROVE  G!Min(S) \in S /\ \A x \in S : G!Min(S) <= x
<1>1. \E m \in S : \A x \in S : m =< x
  BY HasLeast
<1>2. G!Min(S) = CHOOSE m \in S : \A x \in S : m =< x
  BY DEF G!Min
<1>3. QED
  BY <1>1, <1>2

\* The first n numbers of a set.
FirstOf(L, n) == {i \in L : Cardinality({j \in L : j <= i}) <= n}
LEMMA FirstOnes ==
  ASSUME NEW L, L \subseteq Nat, IsFiniteSet(L), NEW n \in Nat \ {0}
  PROVE  /\ FirstOf(L, n) \subseteq L
         /\ FirstOf(L, n) = {} => L = {}
         /\ \A i \in FirstOf(L, n), j \in L : j <= i => j \in FirstOf(L, n)
         /\ Cardinality(FirstOf(L, n)) < n => FirstOf(L, n) = L
<1> DEFINE P == {i \in L : Cardinality({j \in L : j <= i}) <= n}
<1>1. \A i \in L : IsFiniteSet({j \in L : j <= i}) /\ Cardinality({j \in L : j <= i}) \in Nat
  <2> SUFFICES ASSUME NEW i \in L
               PROVE  IsFiniteSet({j \in L : j <= i}) /\ Cardinality({j \in L : j <= i}) \in Nat
    OBVIOUS
  <2>1. {j \in L : j <= i} \subseteq L
    OBVIOUS
  <2>2. QED
    BY <2>1, FS_Subset, FS_CardinalityType
<1>2. ASSUME L # {} PROVE P # {}
  <2>1. PICK m \in L : \A x \in L : m <= x
    BY <1>2, HasLeast
  <2>2. \A x \in L : x <= m => x = m
    <3> SUFFICES ASSUME NEW x \in L, x <= m PROVE x = m
      OBVIOUS
    <3>1. m <= x /\ x \in Nat /\ m \in Nat
      BY <2>1
    <3>2. QED
      BY <3>1
  <2>3. m <= m
    BY <2>1
  <2>4. {j \in L : j <= m} = {m}
    BY <2>2, <2>3, Zenon
  <2>5. Cardinality({m}) = 1
    BY FS_Singleton
  <2>6. m \in P
    BY <2>4, <2>5
  <2>7. QED
    BY <2>6
<1>3. ASSUME NEW i \in P, NEW j \in L, j <= i PROVE j \in P
  <2>1. i \in L /\ Cardinality({k \in L : k <= i}) <= n
    OBVIOUS
  <2>2. {k \in L : k <= j} \subseteq {k \in L : k <= i}
    <3> SUFFICES ASSUME NEW k \in L, k <= j PROVE k <= i
      OBVIOUS
    <3>1. k \in Nat /\ j \in Nat /\ i \in Nat
      BY <2>1
    <3>2. QED
      BY <1>3, <3>1
  <2>3. PICK A : A = {k \in L : k <= j}
    OBVIOUS
  <2>4. PICK C : C = {k \in L : k <= i}
    OBVIOUS
  <2>5. IsFiniteSet(A) /\ IsFiniteSet(C)
    BY <1>1, <2>1, <2>3, <2>4
  <2>6. Cardinality(A) <= Cardinality(C) /\ Cardinality(A) \in Nat /\ Cardinality(C) \in Nat
    BY <2>2, <2>3, <2>4, <2>5, FS_Subset, FS_CardinalityType
  <2>7. Cardinality(C) <= n
    BY <2>1, <2>4
  <2>8. Cardinality(A) <= n
    BY <2>6, <2>7
  <2>9. QED
    BY <2>8, <2>3
<1>4. ASSUME Cardinality(P) < n PROVE P = L
  <2>1. P \subseteq L /\ IsFiniteSet(P) /\ Cardinality(P) \in Nat
    BY FS_Subset, FS_CardinalityType
  <2>2. SUFFICES ASSUME L \ P # {} PROVE FALSE
    BY <2>1
  <2>3. L \ P \subseteq Nat
    OBVIOUS
  <2>4. PICK d \in L \ P : \A x \in L \ P : d <= x
    BY <2>2, <2>3, HasLeast
  <2>5. PICK A : A = {j \in L : j <= d}
    OBVIOUS
  <2>6. A \subseteq P \cup {d}
    <3> SUFFICES ASSUME NEW x \in L, x <= d, x \notin P PROVE x = d
      BY <2>5
    <3>1. d <= x /\ x \in Nat /\ d \in Nat
      BY <2>4
    <3>2. QED
      BY <3>1
  <2>7. Cardinality(P \cup {d}) = Cardinality(P) + 1 /\ IsFiniteSet(P \cup {d})
    BY <2>1, <2>4, FS_AddElement
  <2>8. Cardinality(A) <= Cardinality(P \cup {d}) /\ Cardinality(A) \in Nat
    BY <2>6, <2>7, FS_Subset, FS_CardinalityType
  <2>9. Cardinality(A) <= n
    BY <1>4, <2>1, <2>7, <2>8
  <2>10. d \in P
    BY <2>4, <2>5, <2>9
  <2>11. QED
    BY <2>4, <2>10
<1>5. P \subseteq L
  OBVIOUS
<1>6. P = FirstOf(L, n)
  BY DEF FirstOf
<1> HIDE DEF P
<1>7. QED
  BY <1>2, <1>3, <1>4, <1>5, <1>6

LEMMA RunCardinality == ASSUME NEW S PROVE G!Cardinality(S) = Cardinality(S)
BY DEF G!Cardinality, Cardinality

-----------------------------------------------------------------------------
\* The migration

LEMMA RunOrderLength == Len(G!Order) = 20 /\ DOMAIN G!Order = 1..20
<1>1. Len(G!Order) = 20
  BY DEF G!Order, G!Society, G!World, G!Account, G!Counts, G!Notices
<1>2. DOMAIN G!Order = 1..20
  BY DEF G!Order, G!Society, G!World, G!Account, G!Counts, G!Notices
<1> QED  BY <1>1, <1>2

\* Which group the table of a stage is in.
LEMMA RunOrderSpelled ==
  \A i \in 1..20 :
    G!Order[i] = IF i <= 6 THEN G!Society[i] ELSE IF i <= 9 THEN G!World[i - 6]
                 ELSE IF i <= 14 THEN G!Account[i - 9]
                 ELSE IF i <= 17 THEN G!Counts[i - 14] ELSE G!Notices[i - 17]
BY DEF G!Order, G!Society, G!World, G!Account, G!Counts, G!Notices

\* A table comes after those it refers to.
LEMMA RunParentsFirst ==
  ASSUME NEW s \in 1..20, NEW p \in G!Parents(G!Order[s])
  PROVE  \E q \in 1..20 : q < s /\ G!Order[q] = p
BY RunOrderSpelled DEF G!Society, G!World, G!Account, G!Counts, G!Notices, G!Parents

\* A batch is the next rows: no row is passed over, and none is left at the end.
LEMMA RunNextBatch ==
  ASSUME NEW L, L \subseteq 1..MaxId,
         NEW ids, ids = {i \in L : G!Cardinality({j \in L : j <= i}) <= Batch}
  PROVE  /\ ids = {} => L = {}
         /\ \A i \in ids, j \in L : j <= i => j \in ids
<1>1. L \subseteq Nat /\ IsFiniteSet(L) /\ Batch \in Nat \ {0}
  <2>1. MaxId \in Nat /\ Batch \in Nat \ {0}
    BY MigrationAssumption
  <2>2. L \subseteq Nat
    BY <2>1
  <2>3. IsFiniteSet(1..MaxId)
    BY <2>1, FS_Interval
  <2>4. QED
    BY <2>1, <2>2, <2>3, FS_Subset
<1>2. PICK n \in Nat \ {0} : n = Batch
  BY <1>1
<1>3. ids = FirstOf(L, n)
  BY <1>2, RunCardinality DEF FirstOf
<1>4. QED
  BY <1>1, <1>3, FirstOnes

\* The identity sequences, in their two parts.
LEMMA RunIdentity ==
    /\ Len(G!Identity) = 2
    /\ G!Part(1) = {"users", "alliances", "alliance_banned_users", "favorite_locations",
                    "banned_ips", "tiles", "pixels"}
    /\ G!Part(2) = {"regions", "profile_pictures", "user_notes", "leaderboard_view",
                    "notifications", "system_notifications", "system_notification_reads",
                    "user_region_stats", "user_region_stats_daily"}
    /\ G!Identity[1][1] = "users" /\ G!Identity[2][1] = "regions"
<1>1. Len(G!Identity) = 2
  BY DEF G!Identity
<1>2. PICK p : p = G!Identity[1]
  OBVIOUS
<1>3. PICK q : q = G!Identity[2]
  OBVIOUS
<1>4. p = <<"users", "alliances", "alliance_banned_users", "favorite_locations", "banned_ips",
            "tiles", "pixels">>
  BY <1>2 DEF G!Identity
<1>5. q = <<"regions", "profile_pictures", "user_notes", "leaderboard_view", "notifications",
            "system_notifications", "system_notification_reads", "user_region_stats",
            "user_region_stats_daily">>
  BY <1>3 DEF G!Identity
<1>6. DOMAIN p = 1..7 /\ p[1] = "users" /\ DOMAIN q = 1..9 /\ q[1] = "regions"
  BY <1>4, <1>5
<1>7. {p[i] : i \in 1..7} = {"users", "alliances", "alliance_banned_users", "favorite_locations",
                    "banned_ips", "tiles", "pixels"}
  BY <1>4
<1>8. {q[i] : i \in 1..9} = {"regions", "profile_pictures", "user_notes", "leaderboard_view",
                    "notifications", "system_notifications", "system_notification_reads",
                    "user_region_stats", "user_region_stats_daily"}
  BY <1>5
<1>9. G!Part(1) = {p[i] : i \in 1..7} /\ G!Part(2) = {q[i] : i \in 1..9}
  BY <1>2, <1>3, <1>6 DEF G!Part
<1>10. QED
  BY <1>1, <1>2, <1>3, <1>6, <1>7, <1>8, <1>9

-----------------------------------------------------------------------------
RunCities == {Cities[n] : n \in DOMAIN Cities}
RunRows(t) == Names \cup RunCities \cup {Source[t][j] : j \in DOMAIN Source[t]}
RunAll == {G!NoRow} \cup UNION {RunRows(t) : t \in G!Tables}
RunType == [pc : {"idle", "copy", "set"}, stage : 1..22, last : 0..MaxId, lone : BOOLEAN]

RunTypes ==
    /\ target \in [G!Tables -> [1..MaxId -> RunAll]]
    /\ \A t \in G!Tables, i \in 1..MaxId : target[t][i] \in RunRows(t) \cup {G!NoRow}
    /\ seq \in [G!Numbered -> 0..MaxId] /\ seeded \in BOOLEAN
    /\ run \in RunType /\ import \in 0..G!NoImport
    /\ ahead \subseteq G!Numbered /\ complete \in BOOLEAN

\* What is on its way is a user or a city; the id of a city is free.
RunOpen ==
    \A o \in open :
        /\ o.table \in {"users", "regions"} /\ o.id \in 1..MaxId
        /\ o.table = "users" => o.row \in Names
        /\ o.table = "regions" => o.row \in RunCities /\ target["regions"][o.id] = G!NoRow

\* The row of the source is there.
RunHas(t, i) == target[t][i] = Source[t][i]

\* What the run has behind it is copied.
RunCopied ==
    run.pc # "idle" => \A s \in 1..20 : \A i \in DOMAIN Source[G!Order[s]] :
        s < run.stage \/ (s = run.stage /\ i <= run.last) => RunHas(G!Order[s], i)

RunComplete == complete => \A t \in G!Tables : \A i \in DOMAIN Source[t] : RunHas(t, i)

\* The sequence is behind no id that is taken, will be copied or is on its way;
\* an id that is on its way is nobody else's.
RunBeyond(t) ==
    /\ \A i \in 1..MaxId : target[t][i] # G!NoRow \/ i \in DOMAIN Source[t] => i <= seq[t]
    /\ \A o \in open : o.table = t =>
           o.id <= seq[t] /\ target[t][o.id] = G!NoRow /\ o.id \notin DOMAIN Source[t]
    /\ \A o, p \in open : o.table = t /\ p.table = t /\ o.id = p.id => o = p
RunAhead == \A t \in ahead : RunBeyond(t)

\* The statement that is about to set the sequence.
RunAligns ==
    run.pc = "set" =>
        /\ run.stage \in {21, 22}
        /\ run.lone => /\ \A o \in open : o.table # G!Realigned
                       /\ \A i \in 1..MaxId : target[G!Realigned][i] # G!NoRow => i <= run.last

RunRefers ==
    \A t \in G!Tables : \A i \in DOMAIN Source[t] :
        RunHas(t, i) /\ ~(t = "users" /\ target[t][i] \in Names)
            => \A p \in G!Parents(t) : i \in DOMAIN Source[p] => target[p][i] # G!NoRow

RunInv ==
    /\ RunTypes /\ RunOpen /\ RunCopied /\ RunComplete /\ RunAhead /\ RunAligns /\ RunRefers

LEMMA RunTables ==
    /\ "users" \in G!Tables /\ "regions" \in G!Tables
    /\ "users" \in G!Numbered /\ "regions" \in G!Numbered
    /\ G!Numbered \subseteq G!Tables
    /\ \A s \in 1..20 : G!Order[s] \in G!Tables
    /\ \A t \in G!Tables : \E s \in 1..20 : G!Order[s] = t
<1>1. G!Tables = {G!Order[i] : i \in 1..20}
  BY RunOrderLength DEF G!Tables
<1>2. /\ G!Order[1] = "alliances" /\ G!Order[2] = "users" /\ G!Order[3] = "alliance_banned_users"
      /\ G!Order[5] = "favorite_locations" /\ G!Order[6] = "banned_ips"
      /\ G!Order[7] = "tiles" /\ G!Order[8] = "pixels" /\ G!Order[9] = "regions"
  BY RunOrderSpelled DEF G!Society, G!World
<1>3. /\ G!Order[10] = "profile_pictures" /\ G!Order[14] = "user_notes"
      /\ G!Order[15] = "leaderboard_view" /\ G!Order[16] = "user_region_stats"
      /\ G!Order[17] = "user_region_stats_daily" /\ G!Order[18] = "notifications"
      /\ G!Order[19] = "system_notifications" /\ G!Order[20] = "system_notification_reads"
  BY RunOrderSpelled DEF G!Account, G!Counts, G!Notices
<1>4. \A s \in 1..20 : G!Order[s] \in G!Tables
  BY <1>1
<1>5. G!Part(1) \subseteq G!Tables
  BY <1>2, <1>4, RunIdentity
<1>6. G!Part(2) \subseteq G!Tables
  BY <1>2, <1>3, <1>4, RunIdentity
<1>7. "users" \in G!Part(1) /\ "regions" \in G!Part(2)
  BY RunIdentity
<1>8. QED
  BY <1>1, <1>5, <1>6, <1>7 DEF G!Numbered

LEMMA RunTyped ==
  ASSUME RunTypes
  PROVE  /\ \A t \in G!Tables : \A i \in DOMAIN Source[t] : i \in 1..MaxId /\ Source[t][i] # G!NoRow
         /\ Len(Cities) \in Nat /\ DOMAIN Cities = 1..Len(Cities) /\ G!NoImport = Len(Cities) + 1
         /\ run.pc \in {"idle", "copy", "set"} /\ run.stage \in 1..22 /\ run.last \in 0..MaxId
         /\ run.lone \in BOOLEAN
         /\ run = [pc |-> run.pc, stage |-> run.stage, last |-> run.last, lone |-> run.lone]
         /\ run.stage \in 1..20 => G!Table \in G!Tables /\ G!Table = G!Order[run.stage]
<1>1. \A t \in G!Tables : \A i \in DOMAIN Source[t] : i \in 1..MaxId /\ Source[t][i] # G!NoRow
  BY MigrationAssumption
<1>2. Len(Cities) \in Nat /\ DOMAIN Cities = 1..Len(Cities)
  BY MigrationAssumption
<1>3. /\ run.pc \in {"idle", "copy", "set"} /\ run.stage \in 1..22 /\ run.last \in 0..MaxId
      /\ run.lone \in BOOLEAN
      /\ run = [pc |-> run.pc, stage |-> run.stage, last |-> run.last, lone |-> run.lone]
  BY DEF RunTypes, RunType
<1>4. QED
  BY <1>1, <1>2, <1>3, RunTables DEF G!NoImport, G!Table

\* No run: its type, and nothing to be copied or to be set.
LEMMA RunIdle ==
  ASSUME run' = G!Idle
  PROVE  run' \in RunType /\ RunCopied' /\ RunAligns'
<1>1. run' = [pc |-> "idle", stage |-> 1, last |-> 0, lone |-> FALSE]
  BY DEF G!Idle
<1>2. run' \in RunType
  BY <1>1, MigrationAssumption DEF RunType
<1>3. QED
  BY <1>1, <1>2 DEF RunCopied, RunAligns

\* The table that is realigned at the two stages behind the tables.
LEMMA RunRealigned ==
  ASSUME run.stage \in {21, 22}
  PROVE  /\ run.stage = 21 => G!Realigned = "users"
         /\ run.stage = 22 => G!Realigned = "regions"
         /\ G!Realigned \in G!Numbered /\ G!Realigned \in G!Tables
<1>1. run.stage = 21 => G!Realigned = "users"
  BY RunIdentity, RunOrderLength DEF G!Realigned
<1>2. run.stage = 22 => G!Realigned = "regions"
  BY RunIdentity, RunOrderLength DEF G!Realigned
<1>3. QED
  BY <1>1, <1>2, RunTables

\* The first table from n on that has rows.
LEMMA RunFrom ==
  ASSUME NEW n \in 1..21
  PROVE  /\ G!From(n) \in n..21
         /\ \A s \in n..20 : s < G!From(n) => DOMAIN Source[G!Order[s]] = {}
<1>1. PICK S : S = {s \in n..20 : DOMAIN Source[G!Order[s]] # {}} \cup {21}
  OBVIOUS
<1>2. S \subseteq Nat /\ S # {} /\ S \subseteq n..21
  BY <1>1
<1>3. G!From(n) = G!Min(S)
  BY <1>1, RunOrderLength DEF G!From
<1>4. G!Min(S) \in S /\ \A x \in S : G!Min(S) <= x
  BY <1>2, RunMin
<1>5. ASSUME NEW s \in n..20, s < G!From(n) PROVE DOMAIN Source[G!Order[s]] = {}
  <2>1. s \notin S
    <3>1. SUFFICES ASSUME s \in S PROVE FALSE
      OBVIOUS
    <3>2. PICK k \in S : k = G!From(n)
      BY <1>3, <1>4
    <3>3. k <= s /\ s < k
      BY <1>3, <1>4, <1>5, <3>1, <3>2
    <3>4. k \in Nat /\ s \in Nat
      BY <1>2, <3>1
    <3>5. QED
      BY <3>3, <3>4
  <2>2. QED
    BY <2>1, <1>1
<1>6. G!From(n) \in n..21
  BY <1>2, <1>3, <1>4
<1>7. \A s \in n..20 : s < G!From(n) => DOMAIN Source[G!Order[s]] = {}
  BY <1>5
<1>8. QED
  BY <1>6, <1>7

\* A step that leaves the tables and the sequences alone and takes no number.
LEMMA RunSame ==
  ASSUME RunInv, UNCHANGED <<target, seq, ahead>>, complete' => complete, open' \subseteq open
  PROVE  /\ RunOpen' /\ RunComplete' /\ RunAhead' /\ RunRefers'
         /\ run' = run => RunCopied' /\ RunAligns'
<1>1. RunOpen'
  BY DEF RunInv, RunOpen
<1>2. RunComplete' /\ RunRefers'
  BY DEF RunInv, RunComplete, RunRefers, RunHas, G!Parents
<1>3. RunAhead'
  <2> SUFFICES ASSUME NEW t \in ahead PROVE RunBeyond(t)'
    BY DEF RunAhead
  <2>1. RunBeyond(t)
    BY DEF RunInv, RunAhead
  <2>2. QED
    BY <2>1 DEF RunBeyond
<1>4. ASSUME run' = run PROVE RunCopied' /\ RunAligns'
  BY <1>4 DEF RunInv, RunCopied, RunAligns, RunHas, G!Realigned
<1>5. QED
  BY <1>1, <1>2, <1>3, <1>4

LEMMA RunSetup == RunInv /\ G!Setup => RunInv'
<1> SUFFICES ASSUME RunInv, G!Setup PROVE RunInv'
  OBVIOUS
<1>1. UNCHANGED <<target, seq, open, run, import, ahead, complete>> /\ seeded' = TRUE
  BY DEF G!Setup
<1>2. RunTypes'
  BY <1>1 DEF RunInv, RunTypes
<1>3. QED
  BY <1>1, <1>2, RunSame DEF RunInv

LEMMA RunStart == ASSUME NEW force \in BOOLEAN PROVE RunInv /\ G!Start(force) => RunInv'
<1> SUFFICES ASSUME RunInv, G!Start(force) PROVE RunInv'
  OBVIOUS
<1>1. /\ UNCHANGED <<target, seq, open, seeded, import, ahead>>
      /\ \/ UNCHANGED <<run, complete>>
         \/ run' = [G!Idle EXCEPT !.pc = "copy", !.stage = G!From(1)] /\ complete' = FALSE
  BY DEF G!Start
<1>2. CASE UNCHANGED <<run, complete>>
  <2>1. RunTypes'
    BY <1>1, <1>2 DEF RunInv, RunTypes
  <2>2. QED
    BY <1>1, <1>2, <2>1, RunSame DEF RunInv
<1>3. CASE run' = [G!Idle EXCEPT !.pc = "copy", !.stage = G!From(1)] /\ complete' = FALSE
  <2>1. G!From(1) \in 1..21 /\ \A s \in 1..20 : s < G!From(1) => DOMAIN Source[G!Order[s]] = {}
    BY RunFrom
  <2>2. run' = [pc |-> "copy", stage |-> G!From(1), last |-> 0, lone |-> FALSE]
    BY <1>3 DEF G!Idle
  <2>a. run' \in RunType
    BY <2>1, <2>2, MigrationAssumption DEF RunType
  <2>3. RunTypes'
    BY <1>1, <1>3, <2>a DEF RunInv, RunTypes
  <2>4. RunCopied'
    <3> SUFFICES ASSUME NEW s \in 1..20, NEW i \in DOMAIN Source[G!Order[s]],
                        s < G!From(1) \/ (s = G!From(1) /\ i <= 0)
                 PROVE  FALSE
      BY <2>2 DEF RunCopied
    <3>1. i \in 1..MaxId
      BY RunTables, MigrationAssumption
    <3>2. QED
      BY SMTT(30), <2>1, <3>1
  <2>5. RunAligns'
    BY <2>2 DEF RunAligns
  <2>6. QED
    BY <1>1, <1>3, <2>3, <2>4, <2>5, RunSame DEF RunInv
<1>4. QED
  BY <1>1, <1>2, <1>3

LEMMA RunNextTable == RunInv /\ G!NextTable => RunInv'
<1> SUFFICES ASSUME RunInv, G!NextTable PROVE RunInv'
  OBVIOUS
<1>1. /\ run.pc = "copy" /\ run.stage <= 20 /\ G!NextBatch = {}
      /\ run' = [run EXCEPT !.stage = G!From(run.stage + 1), !.last = 0]
      /\ UNCHANGED <<target, seq, open, seeded, import, ahead, complete>>
  BY RunOrderLength DEF G!NextTable
<1>2. RunTypes
  BY DEF RunInv
<1>3. run.stage \in 1..20 /\ run \in RunType
  <2>1. run.stage \in 1..22
    BY <1>2, RunTyped
  <2>2. run.stage \in 1..20
    BY <1>1, <2>1
  <2>3. QED
    BY <1>2, <2>2 DEF RunTypes
<1>4. PICK n : n = G!From(run.stage + 1)
  OBVIOUS
<1>5. /\ n \in (run.stage + 1)..21
      /\ \A s \in (run.stage + 1)..20 : s < n => DOMAIN Source[G!Order[s]] = {}
  <2>1. run.stage + 1 \in 1..21
    BY <1>3
  <2>2. QED
    BY <2>1, <1>4, RunFrom
<1>6. run' \in RunType /\ run'.stage = n /\ run'.last = 0 /\ run'.pc = "copy"
  <2>1. run' = [pc |-> "copy", stage |-> n, last |-> 0, lone |-> run.lone] /\ run.lone \in BOOLEAN
    BY <1>1, <1>3, <1>4 DEF RunType
  <2>2. n \in 1..22 /\ 0 \in 0..MaxId
    <3>1. PICK s \in 1..20 : s = run.stage
      BY <1>3
    <3>2. n \in (s + 1)..21
      BY <1>5, <3>1
    <3>3. n \in 1..22
      BY <3>1, <3>2
    <3>4. MaxId \in Nat
      BY MigrationAssumption
    <3>5. QED
      BY <3>3, <3>4
  <2>3. QED
    BY <2>1, <2>2 DEF RunType
<1>7. \A i \in DOMAIN Source[G!Table] : i <= run.last
  <2>1. PICK L : L = {i \in DOMAIN Source[G!Table] : i > run.last}
    OBVIOUS
  <2>2. L \subseteq 1..MaxId
    BY <1>2, <1>3, <2>1, RunTyped
  <2>3. G!NextBatch = {i \in L : G!Cardinality({j \in L : j <= i}) <= Batch}
    BY <2>1 DEF G!NextBatch
  <2>4. L = {}
    BY <1>1, <2>2, <2>3, RunNextBatch
  <2>5. \A i \in DOMAIN Source[G!Table] : i \in Nat /\ ~(i > run.last)
    BY <2>1, <2>4, <1>2, <1>3, RunTyped
  <2>6. run.last \in Nat
    BY <1>2, RunTyped, MigrationAssumption
  <2>7. QED
    BY <2>5, <2>6
<1>8. RunTypes'
  BY <1>1, <1>6 DEF RunInv, RunTypes
<1>9. RunCopied'
  <2> SUFFICES ASSUME NEW s \in 1..20, NEW i \in DOMAIN Source[G!Order[s]],
                      s < n \/ (s = n /\ i <= 0)
               PROVE  RunHas(G!Order[s], i)
    BY <1>1, <1>6 DEF RunCopied, RunHas
  <2>1. i \in 1..MaxId
    BY RunTables, MigrationAssumption
  <2>2. s < n
    BY <2>1
  <2>3. s <= run.stage
    BY <1>5, <1>3, <2>2
  <2>4. s < run.stage \/ (s = run.stage /\ i <= run.last)
    <3>1. CASE s = run.stage
      BY <3>1, <1>7 DEF G!Table
    <3>2. CASE s # run.stage
      BY <3>2, <2>3, <1>3
    <3>3. QED
      BY <3>1, <3>2
  <2>5. QED
    BY <2>4, <1>1 DEF RunInv, RunCopied
<1>10. RunAligns'
  BY <1>6 DEF RunAligns
<1>11. QED
  BY <1>1, <1>8, <1>9, <1>10, RunSame DEF RunInv

LEMMA RunFails == RunInv /\ G!Fails => RunInv'
<1> SUFFICES ASSUME RunInv, G!Fails PROVE RunInv'
  OBVIOUS
<1>1. run' = G!Idle /\ UNCHANGED <<target, seq, open, seeded, import, ahead, complete>>
  BY DEF G!Fails
<1>2. RunTypes'
  BY <1>1, RunIdle DEF RunInv, RunTypes
<1>3. QED
  BY <1>1, <1>2, RunIdle, RunSame DEF RunInv

\* What the import has not committed is dropped.
LEMMA RunImports == RunInv /\ (G!StartImport \/ G!ImportEnds) => RunInv'
<1> SUFFICES ASSUME RunInv, G!StartImport \/ G!ImportEnds PROVE RunInv'
  OBVIOUS
<1>1. /\ UNCHANGED <<target, seq, seeded, run, ahead>> /\ open' \subseteq open
      /\ import' \in {0, G!NoImport} /\ complete' \in {FALSE, complete}
  BY DEF G!StartImport, G!ImportEnds, G!Aborts
<1>2. RunTypes
  BY DEF RunInv
<1>3. import' \in 0..G!NoImport
  <2>1. G!NoImport \in Nat
    BY <1>2, RunTyped
  <2>2. QED
    BY <1>1, <2>1
<1>4. RunTypes'
  BY <1>1, <1>3 DEF RunInv, RunTypes
<1>5. QED
  BY <1>1, <1>4, RunSame DEF RunInv, RunTypes

-----------------------------------------------------------------------------
\* Steps that write rows: a row is written over only by a row of the source.
RunWrites ==
    \A t \in G!Tables, i \in 1..MaxId :
        \/ target'[t][i] = target[t][i] \/ target[t][i] = G!NoRow
        \/ i \in DOMAIN Source[t] /\ target'[t][i] = Source[t][i]

LEMMA RunStays ==
  ASSUME RunTypes, RunWrites
  PROVE  /\ \A t \in G!Tables : \A i \in DOMAIN Source[t] : RunHas(t, i) => RunHas(t, i)'
         /\ \A t \in G!Tables, i \in 1..MaxId : target[t][i] # G!NoRow => target'[t][i] # G!NoRow
<1>1. \A t \in G!Tables : \A i \in DOMAIN Source[t] : i \in 1..MaxId /\ Source[t][i] # G!NoRow
  BY RunTyped
<1>2. ASSUME NEW t \in G!Tables, NEW i \in DOMAIN Source[t], RunHas(t, i) PROVE RunHas(t, i)'
  <2>1. i \in 1..MaxId /\ target[t][i] # G!NoRow
    BY <1>1, <1>2 DEF RunHas
  <2>2. QED
    BY <2>1, <1>2 DEF RunWrites, RunHas
<1>3. ASSUME NEW t \in G!Tables, NEW i \in 1..MaxId, target[t][i] # G!NoRow
      PROVE  target'[t][i] # G!NoRow
  BY <1>1, <1>3 DEF RunWrites
<1>4. QED
  BY <1>2, <1>3

\* The references of the rows that were there hold on.
LEMMA RunRefersOn ==
  ASSUME RunInv, RunWrites,
         \A t \in G!Tables : \A i \in DOMAIN Source[t] :
             RunHas(t, i)' /\ target'[t][i] # target[t][i] /\ ~(t = "users" /\ target'[t][i] \in Names)
                 => \A p \in G!Parents(t) : i \in DOMAIN Source[p] => target[p][i] # G!NoRow
  PROVE  RunRefers'
<1> SUFFICES ASSUME NEW t \in G!Tables, NEW i \in DOMAIN Source[t],
                    target'[t][i] = Source[t][i], ~(t = "users" /\ target'[t][i] \in Names),
                    NEW p \in G!Parents(t), i \in DOMAIN Source[p]
             PROVE  target'[p][i] # G!NoRow
  BY DEF RunRefers, RunHas
<1>1. RunTypes /\ RunRefers
  BY DEF RunInv
<1>2. p \in G!Tables /\ i \in 1..MaxId
  <2>1. PICK s \in 1..20 : G!Order[s] = t
    BY RunTables
  <2>2. PICK q \in 1..20 : G!Order[q] = p
    BY <2>1, RunParentsFirst
  <2>3. QED
    BY <2>2, <1>1, RunTables, RunTyped
<1>3. target[p][i] # G!NoRow
  <2>1. CASE target'[t][i] = target[t][i]
    BY <2>1, <1>1 DEF RunRefers, RunHas
  <2>2. CASE target'[t][i] # target[t][i]
    BY <2>2 DEF RunHas
  <2>3. QED
    BY <2>1, <2>2
<1>4. QED
  BY <1>1, <1>2, <1>3, RunStays

LEMMA RunUpsert == RunInv /\ G!UpsertBatch => RunInv'
<1> SUFFICES ASSUME RunInv, G!UpsertBatch PROVE RunInv'
  OBVIOUS
<1>1. RunTypes
  BY DEF RunInv
<1>2. PICK ids : ids = G!NextBatch
  OBVIOUS
<1>3. run.pc = "copy" /\ run.stage \in 1..20 /\ ids # {}
  <2>1. run.pc = "copy" /\ run.stage <= 20 /\ ids # {}
    BY <1>2, RunOrderLength DEF G!UpsertBatch
  <2>2. run.stage \in 1..22
    BY <1>1, RunTyped
  <2>3. QED
    BY <2>1, <2>2
<1>4. UNCHANGED <<seq, open, seeded, import, ahead, complete>>
  BY DEF G!UpsertBatch
<1>5. PICK w \in G!Tables : w = G!Table /\ w = G!Order[run.stage]
  BY <1>1, <1>3, RunTyped
<1>6. PICK L : L = {i \in DOMAIN Source[w] : i > run.last}
  OBVIOUS
<1>7. L \subseteq 1..MaxId
  BY <1>1, <1>6, RunTyped
<1>8. ids = {i \in L : G!Cardinality({j \in L : j <= i}) <= Batch}
  BY <1>2, <1>5, <1>6 DEF G!NextBatch
<1>9. \A i \in ids, j \in L : j <= i => j \in ids
  BY <1>7, <1>8, RunNextBatch
<1>10. CASE run' = G!Idle /\ UNCHANGED target
  <2>1. RunTypes'
    BY <1>1, <1>4, <1>10, RunIdle DEF RunTypes
  <2>2. QED
    BY <1>4, <1>10, <2>1, RunIdle, RunSame DEF RunInv
<1>11. CASE /\ target' = [target EXCEPT ![w] = [i \in 1..MaxId |->
                             IF i \in ids THEN Source[w][i] ELSE target[w][i]]]
            /\ run' = [run EXCEPT !.last = G!Max(ids)]
  <2>1. PICK m : m = G!Max(ids)
    OBVIOUS
  <2>2. ids \subseteq L /\ ids \subseteq DOMAIN Source[w]
    BY <1>8, <1>6
  <2>3. m \in ids /\ (\A i \in ids : i <= m) /\ m \in 1..MaxId
    <3>2. MaxId \in Nat
      BY MigrationAssumption
    <3>a. ids \subseteq 1..MaxId
      BY <1>7, <2>2
    <3>1. ids \subseteq Nat /\ \A i \in ids : i <= MaxId
      BY <3>a, <3>2
    <3>3. G!Max(ids) \in ids /\ \A i \in ids : i <= G!Max(ids)
      BY <1>3, <3>1, <3>2, RunMax
    <3>4. QED
      BY <1>7, <2>1, <2>2, <3>3
  <2>4. /\ run' = [pc |-> "copy", stage |-> run.stage, last |-> m, lone |-> run.lone]
        /\ run' \in RunType
    <3>1. run = [pc |-> "copy", stage |-> run.stage, last |-> run.last, lone |-> run.lone]
          /\ run.lone \in BOOLEAN
      BY <1>1, <1>3, RunTyped
    <3>2. run' = [pc |-> "copy", stage |-> run.stage, last |-> m, lone |-> run.lone]
      BY <1>11, <2>1, <3>1
    <3>3. run.stage \in 1..22 /\ m \in 0..MaxId
      BY <1>3, <2>3, MigrationAssumption
    <3>4. QED
      BY <3>1, <3>2, <3>3 DEF RunType
  <2>5. /\ DOMAIN target' = G!Tables
        /\ \A t \in G!Tables : t # w => target'[t] = target[t]
        /\ target'[w] = [i \in 1..MaxId |-> IF i \in ids THEN Source[w][i] ELSE target[w][i]]
    BY <1>1, <1>11 DEF RunTypes
  <2>6. \A t \in G!Tables, i \in 1..MaxId :
            \/ target'[t][i] = target[t][i]
            \/ t = w /\ i \in ids /\ target'[t][i] = Source[t][i]
    <3> SUFFICES ASSUME NEW t \in G!Tables, NEW i \in 1..MaxId
                 PROVE  \/ target'[t][i] = target[t][i]
                        \/ t = w /\ i \in ids /\ target'[t][i] = Source[t][i]
      OBVIOUS
    <3>1. CASE t # w
      BY <3>1, <2>5
    <3>2. CASE t = w
      <4>1. target'[w][i] = IF i \in ids THEN Source[w][i] ELSE target[w][i]
        BY <2>5
      <4>2. QED
        BY <3>2, <4>1
    <3>3. QED
      BY <3>1, <3>2
  <2>7. RunWrites
    BY <2>2, <2>6 DEF RunWrites
  <2>8. \A i \in ids : target'[w][i] = Source[w][i]
    BY <2>5, <2>2, <1>7
  <2>9. RunTypes'
    <3>1. \A t \in G!Tables, i \in 1..MaxId : target'[t][i] \in RunRows(t) \cup {G!NoRow}
      BY <1>1, <2>2, <2>6 DEF RunTypes, RunRows
    <3>2. \A t \in G!Tables, i \in 1..MaxId : target'[t][i] \in RunAll
      BY <3>1 DEF RunAll
    <3>3. \A t \in G!Tables : target'[t] \in [1..MaxId -> RunAll]
      <4>1. \A t \in G!Tables : DOMAIN target'[t] = 1..MaxId /\ target'[t] = [i \in 1..MaxId |-> target'[t][i]]
        BY ZenonT(30), <1>1, <2>5 DEF RunTypes
      <4>2. QED
        BY <3>2, <4>1
    <3>4. target' = [t \in G!Tables |-> target'[t]]
      BY <1>1, <1>11 DEF RunTypes
    <3>5. target' \in [G!Tables -> [1..MaxId -> RunAll]]
      BY <3>3, <3>4
    <3>6. QED
      BY <1>1, <1>4, <2>4, <3>1, <3>5 DEF RunTypes
  <2>10. RunCopied'
    <3> SUFFICES ASSUME NEW s \in 1..20, NEW i \in DOMAIN Source[G!Order[s]],
                        s < run.stage \/ (s = run.stage /\ i <= m)
                 PROVE  target'[G!Order[s]][i] = Source[G!Order[s]][i]
      BY <2>4 DEF RunCopied, RunHas
    <3>1. G!Order[s] \in G!Tables
      BY RunTables
    <3>2. CASE s < run.stage \/ (s = run.stage /\ i <= run.last)
      <4>1. RunHas(G!Order[s], i)
        BY <1>3, <3>2 DEF RunInv, RunCopied
      <4>2. QED
        BY <4>1, <3>1, <1>1, <2>7, RunStays DEF RunHas
    <3>3. CASE s = run.stage /\ i <= m /\ ~(i <= run.last)
      <4>1. i \in DOMAIN Source[w] /\ i \in 1..MaxId /\ run.last \in 0..MaxId
        BY <3>3, <1>5, <1>1, RunTyped
      <4>2. i \in L
        BY <4>1, <3>3, <1>6
      <4>3. i \in ids
        BY <4>2, <3>3, <2>3, <1>9
      <4>4. QED
        BY <4>3, <2>8, <3>3, <1>5
    <3>4. QED
      BY <3>2, <3>3
  <2>11. RunComplete'
    BY <1>1, <1>4, <2>7, RunStays DEF RunInv, RunComplete
  <2>12. RunAhead'
    <3> SUFFICES ASSUME NEW t \in ahead PROVE RunBeyond(t)'
      BY <1>4 DEF RunAhead
    <3>1. t \in G!Tables /\ RunBeyond(t)
      BY <1>1, RunTables DEF RunInv, RunAhead, RunTypes
    <3>2. ASSUME NEW i \in 1..MaxId, target'[t][i] # G!NoRow \/ i \in DOMAIN Source[t]
          PROVE  i <= seq[t]
      <4>1. target[t][i] # G!NoRow \/ i \in DOMAIN Source[t]
        BY <3>1, <3>2, <2>2, <2>6
      <4>2. QED
        BY <4>1, <3>1 DEF RunBeyond
    <3>3. ASSUME NEW o \in open, o.table = t
          PROVE  o.id <= seq[t] /\ target'[t][o.id] = G!NoRow /\ o.id \notin DOMAIN Source[t]
      <4>1. o.id <= seq[t] /\ target[t][o.id] = G!NoRow /\ o.id \notin DOMAIN Source[t]
        BY <3>1, <3>3 DEF RunBeyond
      <4>2. o.id \in 1..MaxId
        BY DEF RunInv, RunOpen
      <4>3. QED
        BY <4>1, <4>2, <3>1, <2>2, <2>6
    <3>4. QED
      BY <3>1, <3>2, <3>3, <1>4 DEF RunBeyond
  <2>13. RunRefers'
    <3> SUFFICES ASSUME NEW t \in G!Tables, NEW i \in DOMAIN Source[t],
                        target'[t][i] # target[t][i], NEW p \in G!Parents(t), i \in DOMAIN Source[p]
                 PROVE  target[p][i] # G!NoRow
      BY <2>7, RunRefersOn
    <3>1. t = w
      BY <2>6, <1>1, RunTyped
    <3>2. PICK q \in 1..20 : q < run.stage /\ G!Order[q] = p
      BY <3>1, <1>3, <1>5, RunParentsFirst
    <3>3. RunHas(p, i)
      BY <1>3, <3>2 DEF RunInv, RunCopied
    <3>4. p \in G!Tables
      BY <3>2, RunTables
    <3>5. QED
      BY <3>3, <3>4, <1>1, RunTyped DEF RunHas
  <2>14. RunOpen'
    <3> SUFFICES ASSUME NEW o \in open, o.table = "regions" PROVE target'["regions"][o.id] = G!NoRow
      BY <1>4 DEF RunInv, RunOpen
    <3>1. o.id \in 1..MaxId /\ target["regions"][o.id] = G!NoRow
      BY DEF RunInv, RunOpen
    <3>2. w = "regions" => o.id \notin ids
      BY <1>2, <1>5 DEF G!UpsertBatch, G!OpenIn
    <3>3. QED
      BY <3>1, <3>2, <2>6, RunTables
  <2>15. RunAligns'
    BY <2>4 DEF RunAligns
  <2>16. QED
    BY <2>9, <2>10, <2>11, <2>12, <2>13, <2>14, <2>15 DEF RunInv
<1>12. QED
  BY <1>2, <1>5, <1>10, <1>11 DEF G!UpsertBatch

-----------------------------------------------------------------------------
\* The sequences

\* GREATEST(max(id), 1) is an id, and none that is taken is above it.
LEMMA RunAlign ==
  ASSUME NEW t
  PROVE  /\ G!Align(t) \in 0..MaxId
         /\ \A i \in 1..MaxId : target[t][i] # G!NoRow => i <= G!Align(t)
<1>1. PICK S : S = {1} \cup G!Ids(t)
  OBVIOUS
<1>2. S \subseteq 1..MaxId
  BY <1>1, MigrationAssumption DEF G!Ids
<1>3. S \subseteq Nat /\ S # {} /\ MaxId \in Nat /\ \A x \in S : x <= MaxId
  BY <1>1, <1>2, MigrationAssumption
<1>4. G!Max(S) \in S /\ \A x \in S : x <= G!Max(S)
  BY <1>3, RunMax
<1>5. G!Align(t) = G!Max(S)
  BY <1>1 DEF G!Align
<1>6. \A i \in 1..MaxId : target[t][i] # G!NoRow => i \in S
  BY <1>1 DEF G!Ids
<1>7. G!Align(t) \in 0..MaxId
  <2>1. G!Max(S) \in 1..MaxId
    BY <1>2, <1>4
  <2>2. QED
    BY <2>1, <1>5
<1>8. QED
  BY <1>4, <1>5, <1>6, <1>7

LEMMA RunReadMax == RunInv /\ G!ReadMax => RunInv'
<1> SUFFICES ASSUME RunInv, G!ReadMax PROVE RunInv'
  OBVIOUS
<1>1. /\ run.pc = "copy" /\ run.stage > 20
      /\ run' = [run EXCEPT !.pc = "set", !.last = G!Align(G!Realigned),
                            !.lone = G!OpenIn(G!Realigned) = {}]
      /\ UNCHANGED <<target, seq, open, seeded, import, ahead, complete>>
  BY RunOrderLength DEF G!ReadMax
<1>2. RunTypes
  BY DEF RunInv
<1>3. PICK most : most = G!Align(G!Realigned)
  OBVIOUS
<1>4. /\ most \in 0..MaxId
      /\ \A i \in 1..MaxId : target[G!Realigned][i] # G!NoRow => i <= most
  <2>1. PICK t : t = G!Realigned
    OBVIOUS
  <2>2. /\ G!Align(t) \in 0..MaxId
        /\ \A i \in 1..MaxId : target[t][i] # G!NoRow => i <= G!Align(t)
    BY RunAlign
  <2>3. QED
    BY <2>1, <2>2, <1>3
<1>5. PICK lone \in BOOLEAN : lone = (G!OpenIn(G!Realigned) = {})
  OBVIOUS
<1>6. run' = [pc |-> "set", stage |-> run.stage, last |-> most, lone |-> lone]
  BY <1>1, <1>2, <1>3, <1>5, RunTyped
<1>7. run.stage \in {21, 22}
  BY <1>1, <1>2, RunTyped
<1>8. run' \in RunType
  BY <1>4, <1>6, <1>7 DEF RunType
<1>9. RunTypes'
  BY <1>1, <1>2, <1>8 DEF RunTypes
<1>10. RunCopied'
  <2>1. \A s \in 1..20 : s < run.stage
    BY <1>7
  <2>2. \A s \in 1..20 : \A i \in DOMAIN Source[G!Order[s]] : RunHas(G!Order[s], i)
    BY <1>1, <2>1 DEF RunInv, RunCopied
  <2>3. QED
    BY <1>1, <2>2 DEF RunCopied, RunHas
<1>11. RunAligns'
  <2>1. G!Realigned' = G!Realigned
    BY <1>6 DEF G!Realigned
  <2>2. lone => \A o \in open : o.table # G!Realigned
    BY <1>5 DEF G!OpenIn
  <2>3. run'.stage = run.stage /\ run'.last = most /\ run'.lone = lone
    BY <1>6
  <2>4. open' = open /\ target' = target
    BY <1>1
  <2>5. QED
    BY <1>4, <1>7, <2>1, <2>2, <2>3, <2>4 DEF RunAligns
<1>12. QED
  BY <1>1, <1>9, <1>10, <1>11, RunSame DEF RunInv

\* A sequence that is set from what is there, when nothing is on its way.
LEMMA RunLevel ==
  ASSUME RunInv, run.pc = "set", UNCHANGED <<target, open>>,
         NEW t \in G!Numbered,
         \A i \in 1..MaxId : target[t][i] # G!NoRow => i <= seq'[t],
         \A o \in open : o.table # t
  PROVE  RunBeyond(t)'
<1>1. RunTypes /\ t \in G!Tables /\ run.stage \in {21, 22}
  BY RunTables DEF RunInv, RunAligns
<1>2. \A i \in DOMAIN Source[t] : target[t][i] # G!NoRow
  <2> SUFFICES ASSUME NEW i \in DOMAIN Source[t] PROVE target[t][i] # G!NoRow
    OBVIOUS
  <2>1. PICK s \in 1..20 : G!Order[s] = t
    BY <1>1, RunTables
  <2>2. s < run.stage
    BY <1>1
  <2>3. RunHas(t, i)
    BY <2>1, <2>2 DEF RunInv, RunCopied
  <2>4. QED
    BY <2>3, <1>1, RunTyped DEF RunHas
<1>3. QED
  BY <1>2 DEF RunBeyond

LEMMA RunSetVal == RunInv /\ G!SetVal => RunInv'
<1> SUFFICES ASSUME RunInv, G!SetVal PROVE RunInv'
  OBVIOUS
<1>1. PICK top : top = G!Realigned
  OBVIOUS
<1>2. PICK part : part = G!Part(run.stage - 20)
  OBVIOUS
<1>3. /\ run.pc = "set"
      /\ seq' = [t \in G!Numbered |-> IF t = top THEN run.last
                                      ELSE IF t \in part \ {top} THEN G!Align(t) ELSE seq[t]]
      /\ ahead' = (ahead \ {top}) \cup (part \ {top}) \cup (IF run.lone THEN {top} ELSE {})
      /\ \/ run.stage = 22 /\ run' = G!Idle /\ complete' = TRUE
         \/ /\ run.stage # 22 /\ complete' = complete
            /\ run' = [G!Idle EXCEPT !.pc = "copy", !.stage = run.stage + 1]
      /\ UNCHANGED <<target, open, seeded, import>>
  BY <1>1, <1>2, RunOrderLength, RunIdentity DEF G!SetVal
<1>4. RunTypes /\ run.stage \in {21, 22}
  BY <1>3 DEF RunInv, RunAligns
<1>5. /\ part \subseteq G!Numbered /\ top \in part
      /\ \A o \in open : o.table \notin part \ {top}
  <2>1. \A o \in open : o.table \in {"users", "regions"}
    BY DEF RunInv, RunOpen
  <2>2. CASE run.stage = 21
    <3>1. part = G!Part(1) /\ top = "users"
      BY <1>1, <1>2, <2>2, RunRealigned
    <3>2. "users" \in G!Part(1) /\ "regions" \notin G!Part(1)
      BY RunIdentity
    <3>3. QED
      BY <2>1, <3>1, <3>2 DEF G!Numbered
  <2>3. CASE run.stage = 22
    <3>1. part = G!Part(2) /\ top = "regions"
      BY <1>1, <1>2, <2>3, RunRealigned
    <3>2. "regions" \in G!Part(2) /\ "users" \notin G!Part(2)
      BY RunIdentity
    <3>3. QED
      BY <2>1, <3>1, <3>2 DEF G!Numbered
  <2>4. QED
    BY <1>4, <2>2, <2>3
<1>6. seq' \in [G!Numbered -> 0..MaxId]
  <2>1. run.last \in 0..MaxId /\ \A t \in G!Numbered : seq[t] \in 0..MaxId
    BY <1>4, RunTyped DEF RunTypes
  <2>2. \A t \in G!Numbered : G!Align(t) \in 0..MaxId
    BY RunAlign
  <2>3. QED
    BY <1>3, <2>1, <2>2
<1>7. run' \in RunType /\ RunCopied' /\ RunAligns'
  <2>1. CASE run' = G!Idle
    BY <2>1, RunIdle
  <2>2. CASE run.stage # 22 /\ run' = [G!Idle EXCEPT !.pc = "copy", !.stage = run.stage + 1]
    <3>1. run' = [pc |-> "copy", stage |-> 22, last |-> 0, lone |-> FALSE]
      <4>1. run.stage + 1 = 22
        BY <1>4, <2>2
      <4>2. QED
        BY <2>2, <4>1 DEF G!Idle
    <3>2. run' \in RunType
      BY <3>1, MigrationAssumption DEF RunType
    <3>3. RunAligns'
      BY <3>1 DEF RunAligns
    <3>4. RunCopied'
      BY <1>3, <1>4, <3>1 DEF RunInv, RunCopied, RunHas
    <3>5. QED
      BY <3>2, <3>3, <3>4
  <2>3. QED
    BY <1>3, <2>1, <2>2
<1>8. RunTypes'
  <2>1. ahead' \subseteq G!Numbered
    BY <1>3, <1>4, <1>5 DEF RunTypes
  <2>2. complete' \in BOOLEAN
    BY <1>3, <1>4 DEF RunTypes
  <2>3. QED
    BY <1>3, <1>4, <1>6, <1>7, <2>1, <2>2 DEF RunTypes
<1>9. RunComplete'
  <2>1. CASE complete' = complete
    BY <1>3, <2>1 DEF RunInv, RunComplete, RunHas
  <2>2. \A t \in G!Tables : \A i \in DOMAIN Source[t] : RunHas(t, i)
    <3> SUFFICES ASSUME NEW t \in G!Tables, NEW i \in DOMAIN Source[t] PROVE RunHas(t, i)
      OBVIOUS
    <3>1. PICK s \in 1..20 : G!Order[s] = t
      BY RunTables
    <3>2. s < run.stage
      BY <1>4
    <3>3. QED
      BY <1>3, <3>1, <3>2 DEF RunInv, RunCopied
  <2>3. QED
    BY <1>3, <2>2 DEF RunComplete, RunHas
<1>10. RunAhead'
  <2> SUFFICES ASSUME NEW t \in ahead' PROVE RunBeyond(t)'
    BY DEF RunAhead
  <2>1. t \in G!Numbered
    BY <1>8 DEF RunTypes
  <2>2. CASE t = top
    <3>1. run.lone /\ seq'[t] = run.last
      BY <1>3, <2>1, <2>2
    <3>2. /\ \A o \in open : o.table # t
          /\ \A i \in 1..MaxId : target[t][i] # G!NoRow => i <= run.last
      BY <1>1, <1>3, <2>2, <3>1 DEF RunInv, RunAligns
    <3>3. QED
      BY <1>3, <2>1, <3>1, <3>2, RunLevel
  <2>3. CASE t \in part \ {top}
    <3>1. seq'[t] = G!Align(t)
      BY <1>3, <2>1, <2>3
    <3>2. \A i \in 1..MaxId : target[t][i] # G!NoRow => i <= G!Align(t)
      BY RunAlign
    <3>3. \A o \in open : o.table # t
      BY <1>5, <2>3
    <3>4. QED
      BY <1>3, <2>1, <3>1, <3>2, <3>3, RunLevel
  <2>4. CASE t \notin part /\ t # top
    <3>1. t \in ahead /\ seq'[t] = seq[t]
      BY <1>3, <2>1, <2>4
    <3>2. RunBeyond(t)
      BY <3>1 DEF RunInv, RunAhead
    <3>3. QED
      BY <3>1, <3>2, <1>3 DEF RunBeyond
  <2>5. QED
    BY <2>2, <2>3, <2>4
<1>11. RunOpen' /\ RunRefers'
  BY <1>3 DEF RunInv, RunOpen, RunRefers, RunHas, G!Parents
<1>12. QED
  BY <1>7, <1>8, <1>9, <1>10, <1>11 DEF RunInv

-----------------------------------------------------------------------------
\* nextval, and a row that is on its way from then on, or none.
RunRow(t, id, r) == [table |-> t, id |-> id, row |-> r]
LEMMA RunTakes ==
  ASSUME RunInv, NEW t \in {"users", "regions"}, NEW id, id = seq[t] + 1, G!Takes(t, id),
         UNCHANGED <<target, ahead>>, NEW r,
         open' \subseteq open \/ open' = open \cup {RunRow(t, id, r)}
  PROVE  /\ id \in 1..MaxId /\ seq' \in [G!Numbered -> 0..MaxId] /\ run' \in RunType
         /\ RunCopied' /\ RunAhead' /\ RunAligns' /\ RunRefers'
<1>1. RunTypes /\ t \in G!Numbered /\ t \in G!Tables
  BY RunTables DEF RunInv
<1>2. /\ id <= MaxId /\ seq' = [seq EXCEPT ![t] = id]
      /\ \/ run' = run /\ ~(run.pc = "set" /\ G!Realigned = t)
         \/ run.pc = "set" /\ G!Realigned = t /\ run' = [run EXCEPT !.lone = FALSE]
  BY DEF G!Takes
<1>3. id \in 1..MaxId /\ seq[t] < id /\ seq[t] \in 0..MaxId
  <2>1. seq[t] \in 0..MaxId
    BY <1>1 DEF RunTypes
  <2>2. QED
    BY <1>2, <2>1, MigrationAssumption
<1>4. seq' \in [G!Numbered -> 0..MaxId]
  <2>1. id \in 0..MaxId /\ seq \in [G!Numbered -> 0..MaxId]
    BY <1>1, <1>3 DEF RunTypes
  <2>2. QED
    BY <2>1, <1>2
<1>5. /\ run'.pc = run.pc /\ run'.stage = run.stage /\ run'.last = run.last
      /\ run'.lone \in BOOLEAN /\ run' \in RunType
      /\ run'.lone => run.lone /\ ~(run.pc = "set" /\ G!Realigned = t)
  <2>1. CASE run' = run
    BY <2>1, <1>1, <1>2, RunTyped DEF RunTypes
  <2>2. CASE run' = [run EXCEPT !.lone = FALSE]
    <3>1. run' = [pc |-> run.pc, stage |-> run.stage, last |-> run.last, lone |-> FALSE]
      BY <1>1, <2>2, RunTyped
    <3>2. run' \in RunType
      BY <3>1, <1>1, RunTyped DEF RunType
    <3>3. QED
      BY <3>1, <3>2
  <2>3. QED
    BY <1>2, <2>1, <2>2
<1>6. RunCopied'
  BY <1>5 DEF RunInv, RunCopied, RunHas
<1>7. RunRefers'
  BY DEF RunInv, RunRefers, RunHas, G!Parents
<1>8. ASSUME NEW o \in open' PROVE o \in open \/ o = RunRow(t, id, r)
  BY <1>8
<1>9. RunAligns'
  <2> SUFFICES ASSUME run'.pc = "set"
               PROVE  /\ run'.stage \in {21, 22}
                      /\ run'.lone => /\ \A o \in open' : o.table # G!Realigned'
                                      /\ \A i \in 1..MaxId :
                                            target[G!Realigned'][i] # G!NoRow => i <= run'.last
    BY DEF RunAligns
  <2>1. run.pc = "set" /\ run.stage \in {21, 22} /\ G!Realigned' = G!Realigned
    BY <1>5 DEF RunInv, RunAligns, G!Realigned
  <2>2. ASSUME run'.lone
        PROVE  /\ \A o \in open' : o.table # G!Realigned
               /\ \A i \in 1..MaxId : target[G!Realigned][i] # G!NoRow => i <= run.last
    <3>1. run.lone /\ G!Realigned # t
      BY <1>5, <2>1, <2>2
    <3>2. /\ \A o \in open : o.table # G!Realigned
          /\ \A i \in 1..MaxId : target[G!Realigned][i] # G!NoRow => i <= run.last
      BY <2>1, <3>1 DEF RunInv, RunAligns
    <3>3. RunRow(t, id, r).table = t
      BY DEF RunRow
    <3>4. QED
      BY <1>8, <3>1, <3>2, <3>3
  <2>3. QED
    BY <1>5, <2>1, <2>2
<1>10. RunAhead'
  <2> SUFFICES ASSUME NEW z \in ahead PROVE RunBeyond(z)'
    BY DEF RunAhead
  <2>1. RunBeyond(z) /\ z \in G!Numbered /\ z \in G!Tables
    BY <1>1, RunTables DEF RunInv, RunAhead, RunTypes
  <2>2. seq'[z] = (IF z = t THEN id ELSE seq[z]) /\ seq[z] \in 0..MaxId /\ seq'[z] \in 0..MaxId
    BY <1>1, <1>2, <1>4, <2>1 DEF RunTypes
  <2>3. seq[z] <= seq'[z] /\ (z = t => seq[z] < id)
    BY <1>3, <2>2
  <2>4. ASSUME NEW i \in 1..MaxId, target[z][i] # G!NoRow \/ i \in DOMAIN Source[z]
        PROVE  i <= seq'[z] /\ (z = t => i # id)
    <3>1. i <= seq[z]
      BY <2>1, <2>4 DEF RunBeyond
    <3>2. QED
      BY <3>1, <2>2, <2>3, <1>3
  <2>5. ASSUME NEW o \in open, o.table = z
        PROVE  /\ o.id \in 1..MaxId /\ o.id <= seq'[z] /\ (z = t => o.id # id)
               /\ target[z][o.id] = G!NoRow /\ o.id \notin DOMAIN Source[z]
    <3>1. o.id <= seq[z] /\ target[z][o.id] = G!NoRow /\ o.id \notin DOMAIN Source[z]
      BY <2>1, <2>5 DEF RunBeyond
    <3>2. o.id \in 1..MaxId
      BY DEF RunInv, RunOpen
    <3>3. o.id <= seq'[z] /\ (z = t => o.id # id)
      BY <3>1, <3>2, <2>2, <2>3, <1>3
    <3>4. QED
      BY <3>1, <3>2, <3>3
  <2>6. RunRow(t, id, r).table = t /\ RunRow(t, id, r).id = id
    BY DEF RunRow
  <2>7. ASSUME z = t
        PROVE  id <= seq'[z] /\ target[z][id] = G!NoRow /\ id \notin DOMAIN Source[z]
    BY <1>3, <2>2, <2>4, <2>7
  <2>8. ASSUME NEW o \in open', o.table = z
        PROVE  o.id <= seq'[z] /\ target[z][o.id] = G!NoRow /\ o.id \notin DOMAIN Source[z]
    BY <1>8, <2>5, <2>6, <2>7, <2>8
  <2>9. ASSUME NEW o \in open', NEW p \in open', o.table = z, p.table = z, o.id = p.id
        PROVE  o = p
    <3>1. CASE o \in open /\ p \in open
      BY <2>1, <2>9, <3>1 DEF RunBeyond
    <3>2. CASE o = RunRow(t, id, r) /\ p \in open
      BY <2>5, <2>6, <2>9, <3>2
    <3>3. CASE p = RunRow(t, id, r) /\ o \in open
      BY <2>5, <2>6, <2>9, <3>3
    <3>4. QED
      BY <1>8, <3>1, <3>2, <3>3
  <2>10. QED
    BY <2>4, <2>8, <2>9 DEF RunBeyond
<1>11. QED
  BY <1>3, <1>4, <1>5, <1>6, <1>7, <1>9, <1>10

LEMMA RunAsk == RunInv /\ G!AskInsert => RunInv'
<1> SUFFICES ASSUME RunInv, G!AskInsert PROVE RunInv'
  OBVIOUS
<1>1. PICK id : id = seq["users"] + 1
  OBVIOUS
<1>2. PICK name \in Names : open' = open \cup {RunRow("users", id, name)}
  BY <1>1 DEF G!AskInsert, RunRow
<1>3. G!Takes("users", id) /\ complete' = FALSE /\ UNCHANGED <<target, seeded, import, ahead>>
  BY <1>1 DEF G!AskInsert
<1>4. /\ id \in 1..MaxId /\ seq' \in [G!Numbered -> 0..MaxId] /\ run' \in RunType
      /\ RunCopied' /\ RunAhead' /\ RunAligns' /\ RunRefers'
  BY <1>1, <1>2, <1>3, RunTakes
<1>5. RunTypes'
  BY <1>3, <1>4 DEF RunInv, RunTypes
<1>6. RunOpen'
  <2>1. RunRow("users", id, name).table = "users" /\ RunRow("users", id, name).id = id
        /\ RunRow("users", id, name).row = name
    BY DEF RunRow
  <2>2. QED
    BY <1>2, <1>3, <1>4, <2>1 DEF RunInv, RunOpen
<1>7. RunComplete'
  BY <1>3 DEF RunComplete
<1>8. QED
  BY <1>4, <1>5, <1>6, <1>7 DEF RunInv

LEMMA RunLine == RunInv /\ G!ImportLine => RunInv'
<1> SUFFICES ASSUME RunInv, G!ImportLine PROVE RunInv'
  OBVIOUS
<1>1. PICK id : id = seq["regions"] + 1
  OBVIOUS
<1>2. PICK city : city = Cities[import + 1]
  OBVIOUS
<1>3. /\ import < Len(Cities) /\ G!Takes("regions", id)
      /\ UNCHANGED <<target, seeded, ahead, complete>>
      /\ \/ import' = import + 1 /\ open' = open
         \/ import' = G!NoImport /\ open' \subseteq open
         \/ /\ import' = import + 1 /\ target["regions"][id] = G!NoRow
            /\ open' = open \cup {RunRow("regions", id, city)}
  BY <1>1, <1>2 DEF G!ImportLine, G!Aborts, RunRow
<1>4. RunTypes
  BY DEF RunInv
<1>5. /\ id \in 1..MaxId /\ seq' \in [G!Numbered -> 0..MaxId] /\ run' \in RunType
      /\ RunCopied' /\ RunAhead' /\ RunAligns' /\ RunRefers'
  BY <1>1, <1>3, RunTakes
<1>6. city \in RunCities /\ import' \in 0..G!NoImport
  <2>1. import \in 0..G!NoImport
    BY <1>4 DEF RunTypes
  <2>2. Len(Cities) \in Nat /\ DOMAIN Cities = 1..Len(Cities) /\ G!NoImport = Len(Cities) + 1
    BY <1>4, RunTyped
  <2>3. import + 1 \in DOMAIN Cities
    BY <1>3, <2>1, <2>2
  <2>4. import' \in 0..G!NoImport
    BY <1>3, <2>1, <2>2
  <2>5. QED
    BY <1>2, <2>3, <2>4 DEF RunCities
<1>7. RunTypes'
  BY <1>3, <1>5, <1>6 DEF RunInv, RunTypes
<1>8. RunOpen'
  <2>1. RunRow("regions", id, city).table = "regions" /\ RunRow("regions", id, city).id = id
        /\ RunRow("regions", id, city).row = city
    BY DEF RunRow
  <2>2. ASSUME NEW o \in open'
        PROVE  \/ o \in open
               \/ o = RunRow("regions", id, city) /\ target["regions"][id] = G!NoRow
    BY <1>3, <2>2
  <2>3. QED
    BY <1>3, <1>5, <1>6, <2>1, <2>2 DEF RunInv, RunOpen
<1>9. RunComplete'
  BY <1>3 DEF RunInv, RunComplete, RunHas
<1>10. QED
  BY <1>5, <1>7, <1>8, <1>9 DEF RunInv

-----------------------------------------------------------------------------
\* A commit writes rows that were on their way: their ids were free.
RunLands(t, done) ==
    \A z \in G!Tables, i \in 1..MaxId :
        \/ target'[z][i] = target[z][i]
        \/ /\ z = t /\ target[z][i] = G!NoRow
           /\ \E o \in done : o.id = i /\ target'[z][i] = o.row

\* What the rows that are still on their way, the copied rows and the sequences
\* need of a commit.
LEMMA RunLanded ==
  ASSUME RunInv, NEW t \in {"users", "regions"}, NEW done, done \subseteq open,
         \A o \in done : o.table = t, open' = open \ done, RunLands(t, done),
         t = "regions" => done = G!OpenIn("regions"),
         complete' = FALSE, UNCHANGED <<seq, run, ahead>>, target' \in [G!Tables -> [1..MaxId -> RunAll]]
  PROVE  /\ RunOpen' /\ RunCopied' /\ RunComplete' /\ RunAhead' /\ RunRefers'
         /\ \A z \in G!Tables, i \in 1..MaxId : target'[z][i] \in RunRows(z) \cup {G!NoRow}
<1>1. RunTypes /\ RunOpen
  BY DEF RunInv
<1>2. RunWrites
  BY DEF RunWrites, RunLands
<1>3. \A o \in done : o.row \in RunRows(t) /\ (t = "users" => o.row \in Names)
  BY <1>1 DEF RunOpen, RunRows
<1>4. \A z \in G!Tables, i \in 1..MaxId : target'[z][i] \in RunRows(z) \cup {G!NoRow}
  BY <1>1, <1>3 DEF RunLands, RunTypes
<1>5. RunOpen'
  <2> SUFFICES ASSUME NEW o \in open', o.table = "regions" PROVE target'["regions"][o.id] = G!NoRow
    BY <1>1 DEF RunOpen
  <2>1. o \in open /\ o \notin done /\ o.id \in 1..MaxId /\ target["regions"][o.id] = G!NoRow
    BY <1>1 DEF RunOpen
  <2>2. t # "regions"
    BY <2>1 DEF G!OpenIn
  <2>3. QED
    BY <2>1, <2>2, RunTables DEF RunLands
<1>6. RunCopied'
  <2> SUFFICES ASSUME run.pc # "idle", NEW s \in 1..20, NEW i \in DOMAIN Source[G!Order[s]],
                      s < run.stage \/ (s = run.stage /\ i <= run.last)
               PROVE  RunHas(G!Order[s], i)'
    BY DEF RunCopied, RunHas
  <2>1. RunHas(G!Order[s], i)
    BY DEF RunInv, RunCopied
  <2>2. QED
    BY <2>1, <1>1, <1>2, RunStays, RunTables
<1>7. RunComplete'
  BY DEF RunComplete
<1>8. RunAhead'
  <2> SUFFICES ASSUME NEW z \in ahead PROVE RunBeyond(z)'
    BY DEF RunAhead
  <2>1. RunBeyond(z) /\ z \in G!Tables
    BY <1>1, RunTables DEF RunInv, RunAhead, RunTypes
  <2>2. ASSUME NEW i \in 1..MaxId, target'[z][i] # G!NoRow \/ i \in DOMAIN Source[z]
        PROVE  i <= seq[z]
    <3>1. CASE target[z][i] # G!NoRow \/ i \in DOMAIN Source[z]
      BY <3>1, <2>1 DEF RunBeyond
    <3>2. CASE z = t /\ \E o \in done : o.id = i
      BY <3>2, <2>1 DEF RunBeyond
    <3>3. QED
      BY <3>1, <3>2, <2>1, <2>2 DEF RunLands
  <2>3. ASSUME NEW o \in open', o.table = z
        PROVE  o.id <= seq[z] /\ target'[z][o.id] = G!NoRow /\ o.id \notin DOMAIN Source[z]
    <3>1. /\ o \in open /\ o \notin done /\ o.id \in 1..MaxId
          /\ o.id <= seq[z] /\ target[z][o.id] = G!NoRow /\ o.id \notin DOMAIN Source[z]
      BY <1>1, <2>1, <2>3 DEF RunBeyond, RunOpen
    <3>2. \A p \in done : z = t => p.id # o.id
      BY <2>1, <2>3, <3>1 DEF RunBeyond
    <3>3. target'[z][o.id] = target[z][o.id]
      BY <2>1, <3>1, <3>2 DEF RunLands
    <3>4. QED
      BY <3>1, <3>3
  <2>4. QED
    BY <2>1, <2>2, <2>3 DEF RunBeyond
<1>9. RunRefers'
  <2> SUFFICES ASSUME NEW z \in G!Tables, NEW i \in DOMAIN Source[z],
                      target'[z][i] # target[z][i], ~(z = "users" /\ target'[z][i] \in Names),
                      NEW p \in G!Parents(z)
               PROVE  FALSE
    BY <1>2, RunRefersOn
  <2>1. i \in 1..MaxId
    BY <1>1, RunTyped
  <2>2. z = t /\ \E o \in done : target'[z][i] = o.row
    BY <2>1 DEF RunLands
  <2>3. z = "regions"
    BY <2>2, <1>3
  <2>4. G!Parents("regions") = {}
    BY DEF G!Parents
  <2>5. QED
    BY <2>3, <2>4
<1>10. QED
  BY <1>4, <1>5, <1>6, <1>7, <1>8, <1>9

LEMMA RunInsert == RunInv /\ G!Insert => RunInv'
<1> SUFFICES ASSUME RunInv, G!Insert PROVE RunInv'
  OBVIOUS
<1>1. complete' = FALSE /\ UNCHANGED <<seq, seeded, run, import, ahead>>
  BY DEF G!Insert
<1>2. PICK o \in G!OpenIn("users") :
          /\ open' = open \ {o}
          /\ \/ /\ target["users"][o.id] = G!NoRow
                /\ target' = [target EXCEPT !["users"][o.id] = o.row]
             \/ UNCHANGED target
  BY DEF G!Insert
<1>3. RunTypes
  BY DEF RunInv
<1>4. PICK id \in 1..MaxId : id = o.id
  BY <1>2 DEF RunInv, RunOpen, G!OpenIn
<1>5. PICK name \in Names : name = o.row
  BY <1>2 DEF RunInv, RunOpen, G!OpenIn
<1>6. o \in open /\ o.table = "users"
  BY <1>2 DEF G!OpenIn
<1>a. DOMAIN target = G!Tables /\ \A t \in G!Tables : target[t] \in [1..MaxId -> RunAll]
  BY <1>3 DEF RunTypes
<1>b. PICK people : people = target["users"]
  OBVIOUS
<1>c. people \in [1..MaxId -> RunAll]
  BY <1>a, <1>b, RunTables
<1>d. \/ UNCHANGED target
      \/ people[id] = G!NoRow /\ target' = [target EXCEPT !["users"] = [people EXCEPT ![id] = name]]
  BY <1>2, <1>4, <1>5, <1>b
<1>e. \/ UNCHANGED target
      \/ /\ people[id] = G!NoRow /\ target'["users"] = [people EXCEPT ![id] = name]
         /\ \A t \in G!Tables : t # "users" => target'[t] = target[t]
  BY <1>d, <1>a, RunTables
<1>7. \A t \in G!Tables, i \in 1..MaxId :
          \/ target'[t][i] = target[t][i]
          \/ t = "users" /\ i = id /\ target[t][i] = G!NoRow /\ target'[t][i] = name
  <2> SUFFICES ASSUME NEW t \in G!Tables, NEW i \in 1..MaxId,
                      target'[t][i] # target[t][i]
               PROVE  t = "users" /\ i = id /\ target[t][i] = G!NoRow /\ target'[t][i] = name
    OBVIOUS
  <2>1. t = "users" /\ people[id] = G!NoRow /\ target'["users"] = [people EXCEPT ![id] = name]
    BY <1>e
  <2>2. [people EXCEPT ![id] = name][i] = IF i = id THEN name ELSE people[i]
    BY <1>c
  <2>3. QED
    BY <2>1, <2>2, <1>b
<1>8. target' \in [G!Tables -> [1..MaxId -> RunAll]]
  <2>1. name \in RunAll
    BY RunTables DEF RunAll, RunRows
  <2>2. [people EXCEPT ![id] = name] \in [1..MaxId -> RunAll]
    BY <1>c, <2>1
  <2>3. QED
    BY <1>3, <1>d, <2>2 DEF RunTypes
<1>9. RunLands("users", {o})
  <2>1. o \in {o} /\ o.id = id /\ o.row = name
    BY <1>4, <1>5
  <2>2. QED
    BY <1>7, <2>1 DEF RunLands
<1>10. /\ RunOpen' /\ RunCopied' /\ RunComplete' /\ RunAhead' /\ RunRefers'
       /\ \A z \in G!Tables, i \in 1..MaxId : target'[z][i] \in RunRows(z) \cup {G!NoRow}
  <2>1. PICK done : done = {o}
    OBVIOUS
  <2>2. done \subseteq open /\ \A x \in done : x.table = "users"
    BY <1>6, <2>1
  <2>3. open' = open \ done /\ RunLands("users", done)
    BY <1>2, <1>9, <2>1
  <2>4. QED
    BY <1>1, <1>8, <2>2, <2>3, RunLanded
<1>11. RunTypes'
  BY <1>1, <1>3, <1>8, <1>10 DEF RunTypes
<1>12. RunAligns'
  <2> SUFFICES ASSUME run.pc = "set"
               PROVE  /\ run.stage \in {21, 22}
                      /\ run.lone => /\ \A x \in open' : x.table # G!Realigned
                                     /\ \A i \in 1..MaxId :
                                           target'[G!Realigned][i] # G!NoRow => i <= run.last
    BY <1>1 DEF RunAligns, G!Realigned
  <2>1. /\ run.stage \in {21, 22}
        /\ run.lone => /\ \A x \in open : x.table # G!Realigned
                       /\ \A i \in 1..MaxId : target[G!Realigned][i] # G!NoRow => i <= run.last
    BY DEF RunInv, RunAligns
  <2>2. run.lone => G!Realigned # "users" /\ G!Realigned \in G!Tables
    BY <1>6, <2>1, RunRealigned
  <2>3. run.lone => \A i \in 1..MaxId : target'[G!Realigned][i] = target[G!Realigned][i]
    BY <1>7, <2>2
  <2>4. QED
    BY <1>2, <2>1, <2>3
<1>13. QED
  BY <1>10, <1>11, <1>12 DEF RunInv

LEMMA RunCommits == RunInv /\ G!ImportCommits => RunInv'
<1> SUFFICES ASSUME RunInv, G!ImportCommits PROVE RunInv'
  OBVIOUS
<1>1. PICK mine : mine = G!OpenIn("regions")
  OBVIOUS
<1>2. PICK regions : regions = target["regions"]
  OBVIOUS
<1>3. PICK after : after = [i \in 1..MaxId |-> IF \E o \in mine : o.id = i
                                               THEN (CHOOSE o \in mine : o.id = i).row
                                               ELSE regions[i]]
  OBVIOUS
<1>4. /\ mine # {} /\ target' = [target EXCEPT !["regions"] = after] /\ open' = open \ mine
      /\ complete' = FALSE /\ UNCHANGED <<seq, seeded, run, import, ahead>>
  BY <1>1, <1>2, <1>3 DEF G!ImportCommits, G!Due
<1>5. RunTypes
  BY DEF RunInv
<1>6. \A o \in mine : /\ o \in open /\ o.table = "regions" /\ o.id \in 1..MaxId
                      /\ o.row \in RunCities /\ regions[o.id] = G!NoRow
  BY <1>1, <1>2 DEF RunInv, RunOpen, G!OpenIn
<1>7. regions \in [1..MaxId -> RunAll] /\ DOMAIN target = G!Tables
  BY <1>2, <1>5, RunTables DEF RunTypes
<1>8. \A i \in 1..MaxId :
          \/ after[i] = regions[i]
          \/ regions[i] = G!NoRow /\ \E o \in mine : o.id = i /\ after[i] = o.row
  <2> SUFFICES ASSUME NEW i \in 1..MaxId, after[i] # regions[i]
               PROVE  regions[i] = G!NoRow /\ \E o \in mine : o.id = i /\ after[i] = o.row
    OBVIOUS
  <2>1. \E o \in mine : o.id = i
    BY <1>3
  <2>2. PICK o \in mine : o = CHOOSE x \in mine : x.id = i
    BY <2>1
  <2>3. o.id = i
    BY <2>1, <2>2
  <2>4. after[i] = o.row
    BY <1>3, <2>1, <2>2
  <2>5. QED
    BY <1>6, <2>3, <2>4
<1>9. /\ target'["regions"] = after
      /\ \A t \in G!Tables : t # "regions" => target'[t] = target[t]
  BY <1>4, <1>7, RunTables
<1>10. RunLands("regions", mine)
  BY <1>2, <1>8, <1>9 DEF RunLands
<1>11. target' \in [G!Tables -> [1..MaxId -> RunAll]]
  <2>1. RunCities \subseteq RunAll
    BY RunTables DEF RunAll, RunRows
  <2>2. \A i \in 1..MaxId : after[i] \in RunAll
    BY <1>6, <1>7, <1>8, <2>1
  <2>3. DOMAIN after = 1..MaxId /\ after = [i \in 1..MaxId |-> after[i]]
    BY <1>3
  <2>4. after \in [1..MaxId -> RunAll]
    BY <2>2, <2>3
  <2>5. QED
    BY <1>4, <1>5, <2>4 DEF RunTypes
<1>12. /\ RunOpen' /\ RunCopied' /\ RunComplete' /\ RunAhead' /\ RunRefers'
       /\ \A z \in G!Tables, i \in 1..MaxId : target'[z][i] \in RunRows(z) \cup {G!NoRow}
  <2>1. mine \subseteq open /\ \A o \in mine : o.table = "regions"
    BY <1>6
  <2>2. QED
    BY <1>1, <1>4, <1>10, <1>11, <2>1, RunLanded
<1>13. RunTypes'
  BY <1>4, <1>5, <1>11, <1>12 DEF RunTypes
<1>14. RunAligns'
  <2> SUFFICES ASSUME run.pc = "set"
               PROVE  /\ run.stage \in {21, 22}
                      /\ run.lone => /\ \A x \in open' : x.table # G!Realigned
                                     /\ \A i \in 1..MaxId :
                                           target'[G!Realigned][i] # G!NoRow => i <= run.last
    BY <1>4 DEF RunAligns, G!Realigned
  <2>1. /\ run.stage \in {21, 22}
        /\ run.lone => /\ \A x \in open : x.table # G!Realigned
                       /\ \A i \in 1..MaxId : target[G!Realigned][i] # G!NoRow => i <= run.last
    BY DEF RunInv, RunAligns
  <2>2. run.lone => G!Realigned # "regions" /\ G!Realigned \in G!Tables
    BY <1>4, <1>6, <2>1, RunRealigned
  <2>3. run.lone => target'[G!Realigned] = target[G!Realigned]
    BY <1>9, <2>2
  <2>4. QED
    BY <1>4, <2>1, <2>3
<1>15. QED
  BY <1>12, <1>13, <1>14 DEF RunInv

-----------------------------------------------------------------------------
LEMMA RunInit == G!Init => RunInv
<1> SUFFICES ASSUME G!Init PROVE RunInv
  OBVIOUS
<1>1. /\ target = [t \in G!Tables |-> [i \in 1..MaxId |-> G!NoRow]]
      /\ seq = [t \in G!Numbered |-> 0] /\ open = {} /\ seeded = FALSE
      /\ run = [pc |-> "idle", stage |-> 1, last |-> 0, lone |-> FALSE]
      /\ import = G!NoImport /\ ahead = {} /\ complete = FALSE
  BY DEF G!Init, G!Idle
<1>2. \A t \in G!Tables, i \in 1..MaxId : target[t][i] = G!NoRow
  BY <1>1
<1>3. target \in [G!Tables -> [1..MaxId -> RunAll]]
  BY <1>1 DEF RunAll
<1>4. G!NoImport \in Nat
  BY MigrationAssumption DEF G!NoImport
<1>5. run \in RunType /\ seq \in [G!Numbered -> 0..MaxId]
  BY <1>1, MigrationAssumption DEF RunType
<1>6. RunTypes
  <2>1. \A t \in G!Tables, i \in 1..MaxId : target[t][i] \in RunRows(t) \cup {G!NoRow}
    BY <1>2
  <2>2. import \in 0..G!NoImport
    BY <1>1, <1>4
  <2>3. QED
    BY <1>1, <1>3, <1>5, <2>1, <2>2 DEF RunTypes
<1>7. RunOpen /\ RunCopied /\ RunComplete /\ RunAhead /\ RunAligns
  BY <1>1 DEF RunOpen, RunCopied, RunComplete, RunAhead, RunAligns
<1>8. RunRefers
  BY <1>2, <1>6, RunTyped DEF RunRefers, RunHas
<1>9. QED
  BY <1>6, <1>7, <1>8 DEF RunInv

LEMMA RunStep == RunInv /\ [ServicesNext]_servicesVars => RunInv'
<1>1. ASSUME RunInv, UNCHANGED runVars PROVE RunInv'
  <2>1. /\ UNCHANGED <<target, seq, open, seeded, run, import, ahead, complete>>
    BY <1>1 DEF runVars
  <2>2. RunTypes'
    BY <1>1, <2>1 DEF RunInv, RunTypes, RunType
  <2>3. QED
    BY <1>1, <2>1, <2>2, RunSame DEF RunInv
<1>2. ASSUME RunInv, G!Next PROVE RunInv'
  BY <1>2, RunSetup, RunStart, RunUpsert, RunNextTable, RunReadMax, RunSetVal, RunFails, RunAsk,
     RunInsert, RunImports, RunLine, RunCommits DEF G!Next
<1>3. QED
  BY <1>1, <1>2 DEF ServicesNext, servicesVars

\* The inductive invariant of the migration: whatever the run has behind it is
\* copied, in an order of the tables that has the parents first; and what is on
\* its way to a table whose sequence was set in peace has an id of its own.
THEOREM MigrationInv == ServicesSpec => []RunInv
<1>1. ServicesInit => RunInv
  BY RunInit DEF ServicesInit
<1>2. QED
  BY <1>1, RunStep, PTL DEF ServicesSpec

\* The tables, the sequences and the running commands keep their types.
THEOREM MigrationTypes == ServicesSpec => []G!MigrationTypeOK
<1>1. RunInv => G!MigrationTypeOK
  <2> SUFFICES ASSUME RunInv PROVE G!MigrationTypeOK
    OBVIOUS
  <2>1. RunTypes
    BY DEF RunInv
  <2>2. ASSUME NEW t \in G!Tables, NEW i \in G!Ids(t)
        PROVE  target[t][i] \in Names \cup {Cities[n] : n \in DOMAIN Cities}
                                     \cup {Source[t][j] : j \in DOMAIN Source[t]}
    BY <2>1 DEF RunTypes, RunRows, RunCities, G!Ids
  <2>3. run.stage \in 1..Len(G!Order) + Len(G!Identity)
    BY <2>1, RunTyped, RunOrderLength, RunIdentity
  <2>4. \A o \in open : o.table \in {"users", "regions"} /\ o.id \in 1..MaxId
    BY DEF RunInv, RunOpen
  <2>5. QED
    BY <2>1, <2>2, <2>3, <2>4 DEF G!MigrationTypeOK, RunTypes
<1>2. QED
  BY <1>1, MigrationInv, PTL

\* A migration that goes through has copied every row, however many runs broke
\* off before it and whatever the server and an import wrote meanwhile; and no
\* copied row is ever without the rows it refers to.
THEOREM CopiesAreExact == ServicesSpec => []CopiesExactly
<1>1. RunInv => G!CopiesExactly
  <2> SUFFICES ASSUME RunInv PROVE G!CopiesExactly
    OBVIOUS
  <2>1. complete => \A t \in G!Tables : \A i \in DOMAIN Source[t] : target[t][i] = Source[t][i]
    BY DEF RunInv, RunComplete, RunHas
  <2>2. ASSUME NEW t \in G!Tables, NEW i \in G!Ids(t) \cap DOMAIN Source[t],
               target[t][i] = Source[t][i], ~(t = "users" /\ target[t][i] \in Names),
               NEW p \in G!Parents(t), i \in DOMAIN Source[p]
        PROVE  target[p][i] # G!NoRow
    BY <2>2 DEF RunInv, RunRefers, RunHas
  <2>3. QED
    BY <2>1, <2>2 DEF G!CopiesExactly
<1>2. RunInv => CopiesExactly
  BY <1>1 DEF CopiesExactly
<1>3. QED
  BY <1>2, MigrationInv, PTL

\* A sequence that was set while no row of its table was open stays ahead of
\* every id that is taken, and no row that is on its way meets one, however
\* inserts, transactions of the import and further runs overlap with each other.
THEOREM SequencesStayAhead == ServicesSpec => []SequencesAhead
<1>1. RunInv => G!SequencesAhead
  BY DEF RunInv, RunAhead, RunBeyond, G!SequencesAhead, G!Ids, G!OpenIn
<1>2. RunInv => SequencesAhead
  BY <1>1 DEF SequencesAhead
<1>3. QED
  BY <1>2, MigrationInv, PTL

-----------------------------------------------------------------------------
\* The Discord accounts

GuildRoles == Roles \cup {"out"}
GuildCool == {"base", "active", "booster", "special"}
GuildMember == [account : Accounts, roles : GuildRoles]
GuildJob ==
    [pc : {"idle", "taken", "link", "member", "select", "apply", "unlink", "linked", "page", "sync"},
     user : Users \cup {NoUser}, account : Accounts \cup {NoAccount}, roles : GuildRoles,
     members : SUBSET GuildMember, last : BOOLEAN, known : [Accounts -> Users \cup {NoUser}],
     old : [Users -> GuildCool], alone : BOOLEAN]
GuildHandler ==
    [pc : {"idle", "select", "apply"}, account : Accounts \cup {NoAccount}, roles : GuildRoles,
     user : Users \cup {NoUser}]

GuildTables ==
    /\ roles \in [Accounts -> GuildRoles]
    /\ linked \in [Users -> Accounts \cup {NoAccount}]
    /\ cooldown \in [Users -> GuildCool]
    /\ \A u, v \in Users : linked[u] # NoAccount /\ linked[u] = linked[v] => u = v
GuildBot ==
    /\ states \in [LinkStates -> Users \cup {NoUser}]
    /\ online \in BOOLEAN /\ calm \in BOOLEAN /\ repaired \in BOOLEAN
    /\ events \in Seq(GuildMember)
    /\ handler \in GuildHandler
    /\ handler.pc # "idle" => handler.account \in Accounts
    /\ handler.pc = "apply" => handler.user \in Users

\* What a job holds at each point.
GuildShape(b) ==
    /\ b.pc \in {"taken", "link", "member", "select", "apply"} => b.user \in Users /\ b.account \in Accounts
    /\ b.pc = "unlink" => b.user \in Users
    /\ b.alone => b.pc \in {"linked", "page", "sync"}
    /\ b.pc = "linked" => b.account = NoAccount
GuildJobs == guildJob \in [Requests -> GuildJob] /\ \A j \in Requests : GuildShape(guildJob[j])

\* What is known of an account is true, or an event about it is on its way.
GuildPends(d) == \E i \in DOMAIN events : events[i].account = d
GuildTold(d, r) == GuildPends(d) \/ D!CooldownFor(r) = D!CooldownFor(roles[d])
GuildRight(u) == cooldown[u] = D!CooldownFor(roles[linked[u]])
GuildGood(u) == GuildRight(u) \/ (OverrideForSpecial /\ cooldown[u] = "base")

\* In a calm bot one is at work at a time.
GuildOne ==
    calm => /\ \A i, j \in D!Busy : i = j
            /\ handler.pc # "idle" => D!Busy = {}
\* The last event about an account tells the truth.
GuildEvents ==
    calm => \A i \in DOMAIN events :
        (\A k \in DOMAIN events : k > i => events[k].account # events[i].account)
            => D!CooldownFor(events[i].roles) = D!CooldownFor(roles[events[i].account])
GuildHandles ==
    calm /\ handler.pc # "idle" =>
        /\ GuildTold(handler.account, handler.roles)
        /\ handler.pc = "apply" => linked[handler.user] = handler.account
GuildWorks(b) ==
    /\ b.pc = "member" => linked[b.user] = b.account /\ cooldown[b.user] = "base"
    /\ b.pc \in {"select", "apply"} => GuildTold(b.account, b.roles)
    /\ b.pc = "apply" => linked[b.user] = b.account
    /\ b.pc \in {"page", "sync"} => \A d \in Accounts : b.known[d] # NoUser => linked[b.known[d]] = d
    /\ b.pc = "sync" => \A m \in b.members : GuildTold(m.account, m.roles)
GuildLinking(d) == \E j \in Requests : guildJob[j].pc \in {"member", "select", "apply"} /\ guildJob[j].account = d
GuildCalm ==
    calm => /\ \A j \in Requests : GuildWorks(guildJob[j])
            /\ \A u \in Users : linked[u] = NoAccount => cooldown[u] = "base"
            /\ \A u \in Users : linked[u] # NoAccount =>
                   \/ GuildGood(u) \/ GuildPends(linked[u]) \/ GuildLinking(linked[u])
                   \/ handler.pc # "idle" /\ handler.account = linked[u]

\* A sync that is alone has put right whatever it has behind it, and has what
\* is before it still as it was at its start.
GuildSynced(b) ==
    /\ b.pc \in {"page", "sync"} =>
          /\ \A u \in Users : linked[u] # NoAccount => b.known[linked[u]] = u
          /\ \A d \in Accounts : b.known[d] # NoUser => linked[b.known[d]] = d
          /\ \A u \in Users : linked[u] # NoAccount /\ roles[linked[u]] # "out" =>
                IF linked[u] <= b.account THEN GuildRight(u) ELSE cooldown[u] = b.old[u]
    /\ b.pc = "sync" =>
          /\ \A m \in b.members : m.roles = roles[m.account] /\ m.roles # "out" /\ b.account < m.account
          /\ \A d \in Accounts : roles[d] # "out" /\ b.account < d =>
                \/ \E m \in b.members : m.account = d
                \/ ~b.last /\ \A m \in b.members : m.account < d
GuildAlone ==
    \A j \in Requests : guildJob[j].alone =>
        D!Busy = {j} /\ handler.pc = "idle" /\ GuildSynced(guildJob[j])
GuildRepaired ==
    repaired => /\ D!Busy = {} /\ handler.pc = "idle"
                /\ \A u \in Users : linked[u] # NoAccount /\ roles[linked[u]] # "out" => GuildRight(u)

GuildInv ==
    /\ GuildTables /\ GuildBot /\ GuildJobs
    /\ GuildOne /\ GuildEvents /\ GuildHandles /\ GuildCalm
    /\ GuildAlone /\ GuildRepaired

GuildLinkPcs == {"member", "select", "apply"}
GuildKept == UNCHANGED <<roles, events, handler>>

LEMMA GuildBusy == ASSUME NEW j \in Requests PROVE j \in D!Busy <=> guildJob[j].pc # "idle"
BY DEF D!Busy

\* While a job is at work, a calm bot does nothing else.
LEMMA GuildBusyCalm ==
  ASSUME GuildInv, calm, NEW j \in Requests, guildJob[j].pc # "idle"
  PROVE  /\ handler.pc = "idle"
         /\ \A i \in Requests : i # j => guildJob[i].pc = "idle"
         /\ GuildWorks(guildJob[j])
         /\ \A u \in Users : linked[u] = NoAccount => cooldown[u] = "base"
         /\ \A u \in Users : linked[u] # NoAccount =>
                \/ GuildGood(u) \/ GuildPends(linked[u])
                \/ guildJob[j].pc \in GuildLinkPcs /\ guildJob[j].account = linked[u]
<1>1. j \in D!Busy
  BY GuildBusy
<1>2. handler.pc = "idle"
  BY <1>1 DEF GuildInv, GuildOne
<1>3. \A i \in Requests : i # j => guildJob[i].pc = "idle"
  BY <1>1, GuildBusy DEF GuildInv, GuildOne
<1>4. GuildWorks(guildJob[j]) /\ \A u \in Users : linked[u] = NoAccount => cooldown[u] = "base"
  BY DEF GuildInv, GuildCalm
<1>5. ASSUME NEW u \in Users, linked[u] # NoAccount
      PROVE  \/ GuildGood(u) \/ GuildPends(linked[u])
             \/ guildJob[j].pc \in GuildLinkPcs /\ guildJob[j].account = linked[u]
  <2>1. GuildGood(u) \/ GuildPends(linked[u]) \/ GuildLinking(linked[u])
    BY <1>2, <1>5 DEF GuildInv, GuildCalm
  <2>2. GuildLinking(linked[u]) => guildJob[j].pc \in GuildLinkPcs /\ guildJob[j].account = linked[u]
    BY <1>3 DEF GuildLinking, GuildLinkPcs
  <2>3. QED
    BY <2>1, <2>2
<1>6. QED
  BY <1>2, <1>3, <1>4, <1>5

\* A step of a job: what the invariant asks of it, of its tables and of its end.
LEMMA GuildJobStep ==
  ASSUME GuildInv, NEW j \in Requests, guildJob[j].pc # "idle",
         NEW k \in GuildJob, GuildShape(k), guildJob' = [guildJob EXCEPT ![j] = k],
         GuildKept, UNCHANGED <<states, online>>, GuildTables',
         calm' \in BOOLEAN, repaired' \in BOOLEAN, calm' => calm,
         calm' => GuildWorks(k)',
         calm' => \A u \in Users : linked'[u] = NoAccount => cooldown'[u] = "base",
         calm' => \A u \in Users : linked'[u] # NoAccount =>
                      \/ GuildGood(u)' \/ GuildPends(linked'[u])
                      \/ k.pc \in GuildLinkPcs /\ k.account = linked'[u],
         k.alone => guildJob[j].alone /\ GuildSynced(k)',
         repaired' => /\ k.pc = "idle" /\ guildJob[j].alone
                      /\ \A u \in Users : linked'[u] # NoAccount /\ roles[linked'[u]] # "out"
                             => GuildRight(u)'
  PROVE  GuildInv'
<1> USE DEF GuildKept
<1>1. guildJob \in [Requests -> GuildJob] /\ \A i \in Requests : GuildShape(guildJob[i])
  BY DEF GuildInv, GuildJobs
<1>2. guildJob'[j] = k /\ \A i \in Requests : i # j => guildJob'[i] = guildJob[i]
  BY <1>1
<1>3. GuildBot' /\ GuildJobs'
  <2>1. GuildBot'
    BY DEF GuildInv, GuildBot
  <2>2. guildJob' \in [Requests -> GuildJob]
    BY <1>1
  <2>3. \A i \in Requests : GuildShape(guildJob'[i])
    BY <1>1, <1>2
  <2>4. QED
    BY <2>1, <2>2, <2>3 DEF GuildJobs
<1>4. (D!Busy)' \subseteq D!Busy
  BY <1>2 DEF D!Busy
<1>5. GuildOne' /\ GuildEvents' /\ GuildHandles'
  <2>1. GuildOne'
    BY <1>4 DEF GuildInv, GuildOne
  <2>2. GuildEvents'
    BY DEF GuildInv, GuildEvents
  <2>3. GuildHandles'
    BY GuildBusyCalm DEF GuildHandles
  <2>4. QED
    BY <2>1, <2>2, <2>3
<1>6. GuildCalm'
  <2> SUFFICES ASSUME calm' PROVE GuildCalm'
    BY DEF GuildCalm
  <2>1. \A i \in Requests : i # j => guildJob'[i].pc = "idle"
    BY <1>2, GuildBusyCalm
  <2>2. \A i \in Requests : GuildWorks(guildJob[i])'
    <3> SUFFICES ASSUME NEW i \in Requests PROVE GuildWorks(guildJob[i])'
      OBVIOUS
    <3>1. CASE i = j
      BY <3>1, <1>2 DEF GuildWorks, GuildTold, GuildPends
    <3>2. CASE i # j
      BY <3>2, <2>1 DEF GuildWorks
    <3>3. QED
      BY <3>1, <3>2
  <2>3. \A u \in Users : linked'[u] # NoAccount =>
            GuildGood(u)' \/ (GuildPends(linked[u]) \/ GuildLinking(linked[u]))'
    BY <1>2 DEF GuildPends, GuildLinking, GuildLinkPcs
  <2>4. QED
    BY <2>2, <2>3 DEF GuildCalm
<1>7. GuildAlone'
  <2> SUFFICES ASSUME NEW i \in Requests, guildJob'[i].alone
               PROVE  (D!Busy)' = {i} /\ handler.pc = "idle" /\ GuildSynced(guildJob[i])'
    BY DEF GuildAlone
  <2>1. j \in D!Busy
    BY GuildBusy
  <2>2. i = j
    BY <1>2, <2>1 DEF GuildInv, GuildAlone
  <2>3. k.alone /\ guildJob[j].alone
    BY <1>2, <2>2
  <2>4. D!Busy = {j} /\ handler.pc = "idle"
    BY <2>3 DEF GuildInv, GuildAlone
  <2>5. k.pc # "idle"
    BY <2>3 DEF GuildShape
  <2>6. j \in (D!Busy)'
    BY <1>2, <2>5 DEF D!Busy
  <2>7. GuildSynced(guildJob[i])'
    BY <1>2, <2>2, <2>3 DEF GuildSynced, GuildRight, GuildGood
  <2>8. QED
    BY <1>4, <2>2, <2>4, <2>6, <2>7
<1>8. GuildRepaired'
  <2> SUFFICES ASSUME repaired' PROVE GuildRepaired'
    BY DEF GuildRepaired
  <2>1. D!Busy = {j} /\ handler.pc = "idle"
    BY DEF GuildInv, GuildAlone
  <2>2. (D!Busy)' = {}
    BY <1>2, <1>4, <2>1 DEF D!Busy
  <2>3. QED
    BY <2>1, <2>2 DEF GuildRepaired
<1>9. QED
  BY <1>3, <1>5, <1>6, <1>7, <1>8 DEF GuildInv

\* The beginning of a job.
LEMMA GuildDisturbed ==
  ASSUME NEW b \in GuildJob, GuildShape(b)
  PROVE  /\ [b EXCEPT !.alone = FALSE] \in GuildJob
         /\ GuildShape([b EXCEPT !.alone = FALSE])
         /\ [b EXCEPT !.alone = FALSE].alone = FALSE
         /\ [b EXCEPT !.alone = FALSE].pc = b.pc
         /\ [b EXCEPT !.alone = FALSE].account = b.account
         /\ GuildWorks([b EXCEPT !.alone = FALSE]) <=> GuildWorks(b)
<1>1. PICK c : c = [b EXCEPT !.alone = FALSE]
  OBVIOUS
<1>2. /\ c.pc = b.pc /\ c.user = b.user /\ c.account = b.account /\ c.roles = b.roles
      /\ c.members = b.members /\ c.last = b.last /\ c.known = b.known /\ c.old = b.old
      /\ c.alone = FALSE
  BY <1>1 DEF GuildJob
<1>3. c \in GuildJob
  BY <1>1 DEF GuildJob
<1>4. GuildShape(c) /\ (GuildWorks(c) <=> GuildWorks(b))
  BY <1>2 DEF GuildShape, GuildWorks
<1>5. QED
  BY <1>1, <1>2, <1>3, <1>4


LEMMA GuildBegins ==
  ASSUME GuildInv, NEW j \in Requests, NEW k \in GuildJob, GuildShape(k),
         k.pc \in {"taken", "unlink", "linked"}, k.alone => D!Busy = {} /\ handler.pc = "idle",
         D!Begins(j, k), GuildKept, UNCHANGED <<linked, cooldown>>,
         states' \in [LinkStates -> Users \cup {NoUser}], online' \in BOOLEAN
  PROVE  GuildInv'
<1> USE DEF GuildKept
<1>1. guildJob \in [Requests -> GuildJob] /\ \A i \in Requests : GuildShape(guildJob[i])
  BY DEF GuildInv, GuildJobs
<1>2. /\ guildJob[j].pc = "idle" /\ repaired' = FALSE
      /\ calm' = (calm /\ D!Busy = {} /\ handler.pc = "idle")
  BY DEF D!Begins
<1>3. /\ guildJob' \in [Requests -> GuildJob] /\ guildJob'[j] = k
      /\ \A i \in Requests : i # j => guildJob'[i] = [guildJob[i] EXCEPT !.alone = FALSE]
  <2>1. guildJob' = [[i \in Requests |-> [guildJob[i] EXCEPT !.alone = FALSE]] EXCEPT ![j] = k]
    BY DEF D!Begins, D!Disturbed
  <2>2. \A i \in Requests : [guildJob[i] EXCEPT !.alone = FALSE] \in GuildJob
    BY <1>1, GuildDisturbed
  <2>3. PICK f : f = [i \in Requests |-> [guildJob[i] EXCEPT !.alone = FALSE]]
    OBVIOUS
  <2>4. f \in [Requests -> GuildJob] /\ guildJob' = [f EXCEPT ![j] = k]
    BY <2>1, <2>2, <2>3
  <2>5. QED
    BY <2>3, <2>4
<1>4. \A i \in Requests : i # j =>
          /\ guildJob'[i].pc = guildJob[i].pc /\ guildJob'[i].account = guildJob[i].account
          /\ guildJob'[i].alone = FALSE
  <2> SUFFICES ASSUME NEW i \in Requests, i # j
               PROVE  /\ guildJob'[i].pc = guildJob[i].pc /\ guildJob'[i].account = guildJob[i].account
                      /\ guildJob'[i].alone = FALSE
    OBVIOUS
  <2>1. PICK b \in GuildJob : b = guildJob[i] /\ GuildShape(b)
    BY <1>1
  <2>2. guildJob'[i] = [b EXCEPT !.alone = FALSE]
    BY <2>1, <1>3
  <2>3. QED
    BY <2>1, <2>2, GuildDisturbed
<1>5. (D!Busy)' = D!Busy \cup {j}
  BY <1>3, <1>4 DEF D!Busy
<1>6. GuildTables' /\ GuildBot'
  <2>1. calm' \in BOOLEAN
    BY <1>2 DEF GuildInv, GuildBot
  <2>2. QED
    BY <1>2, <2>1 DEF GuildInv, GuildTables, GuildBot
<1>7. GuildJobs'
  <2>1. \A i \in Requests : GuildShape(guildJob'[i])
    BY <1>1, <1>3, GuildDisturbed
  <2>2. QED
    BY <1>3, <2>1 DEF GuildJobs
<1>8. GuildOne' /\ GuildEvents' /\ GuildHandles'
  <2>1. GuildOne'
    BY <1>2, <1>5 DEF GuildOne
  <2>2. GuildEvents'
    BY <1>2 DEF GuildInv, GuildEvents
  <2>3. GuildHandles'
    BY <1>2 DEF GuildHandles
  <2>4. QED
    BY <2>1, <2>2, <2>3
<1>9. GuildCalm'
  <2> SUFFICES ASSUME calm' PROVE GuildCalm'
    BY DEF GuildCalm
  <2>1. calm /\ \A i \in Requests : guildJob[i].pc = "idle"
    BY <1>2, GuildBusy
  <2>2. \A i \in Requests : GuildWorks(guildJob[i])'
    BY <1>3, <1>4, <2>1 DEF GuildWorks
  <2>3. \A u \in Users : linked[u] = NoAccount => cooldown[u] = "base"
    BY <2>1 DEF GuildInv, GuildCalm
  <2>4. \A u \in Users : linked[u] # NoAccount => GuildGood(u) \/ GuildPends(linked[u])
    BY <1>2, <2>1 DEF GuildInv, GuildCalm, GuildLinking
  <2>5. \A u \in Users : linked'[u] # NoAccount => GuildGood(u)' \/ GuildPends(linked[u])'
    BY <2>4 DEF GuildRight, GuildGood, GuildPends
  <2>6. QED
    BY <2>2, <2>3, <2>5 DEF GuildCalm
<1>10. GuildAlone'
  <2> SUFFICES ASSUME NEW i \in Requests, guildJob'[i].alone
               PROVE  (D!Busy)' = {i} /\ handler.pc = "idle" /\ GuildSynced(guildJob[i])'
    BY DEF GuildAlone
  <2>1. i = j
    BY <1>4
  <2>2. k.alone /\ k.pc = "linked"
    BY <2>1, <1>3 DEF GuildShape
  <2>3. GuildSynced(guildJob[i])'
    BY <1>3, <2>1, <2>2 DEF GuildSynced
  <2>4. QED
    BY <1>5, <2>1, <2>2, <2>3
<1>11. GuildRepaired'
  BY <1>2 DEF GuildRepaired
<1>12. QED
  BY <1>6, <1>7, <1>8, <1>9, <1>10, <1>11 DEF GuildInv

\* Steps that leave the tables, the bot and the jobs alone.
LEMMA GuildQuiet ==
  ASSUME GuildInv, UNCHANGED <<roles, linked, cooldown, online, events, handler, guildJob, calm, repaired>>,
         states' \in [LinkStates -> Users \cup {NoUser}]
  PROVE  GuildInv'
<1>1. GuildTables' /\ GuildBot' /\ GuildJobs'
  BY DEF GuildInv, GuildTables, GuildBot, GuildJobs
<1>2. GuildOne' /\ GuildEvents' /\ GuildHandles'
  BY DEF GuildInv, GuildOne, GuildEvents, GuildHandles, D!Busy, GuildTold, GuildPends
<1>3. GuildCalm'
  BY DEF GuildInv, GuildCalm, GuildWorks, GuildTold, GuildPends, GuildRight, GuildGood, GuildLinking
<1>4. GuildAlone' /\ GuildRepaired'
  BY DEF GuildInv, GuildAlone, GuildRepaired, D!Busy, GuildSynced, GuildRight, GuildGood
<1>5. QED
  BY <1>1, <1>2, <1>3, <1>4 DEF GuildInv

LEMMA GuildStatesType ==
  ASSUME GuildInv, NEW s \in LinkStates, NEW u \in Users \cup {NoUser}, states' = [states EXCEPT ![s] = u]
  PROVE  states' \in [LinkStates -> Users \cup {NoUser}]
BY DEF GuildInv, GuildBot

LEMMA GuildIdle ==
    /\ D!Idle \in GuildJob /\ D!Idle.pc = "idle" /\ D!Idle.alone = FALSE
    /\ GuildShape(D!Idle) /\ GuildWorks(D!Idle) /\ GuildWorks(D!Idle)'
<1>1. D!Idle \in GuildJob
  BY ServicesAssumption DEF D!Idle, GuildJob, GuildRoles, GuildCool
<1>2. D!Idle.pc = "idle" /\ D!Idle.alone = FALSE
  BY DEF D!Idle
<1>3. QED
  BY <1>1, <1>2 DEF GuildShape, GuildWorks

LEMMA GuildAuthUrl == ASSUME NEW u \in Users PROVE GuildInv /\ D!AuthUrl(u) => GuildInv'
BY GuildQuiet, GuildStatesType DEF D!AuthUrl, D!bot, D!history

LEMMA GuildStateExpires == ASSUME NEW s \in LinkStates PROVE GuildInv /\ D!StateExpires(s) => GuildInv'
BY GuildQuiet, GuildStatesType DEF D!StateExpires, D!bot, D!history

LEMMA GuildCallback ==
  ASSUME NEW j \in Requests, NEW u \in Users, NEW s \in LinkStates
  PROVE  GuildInv /\ D!Callback(j, u, s) => GuildInv'
<1> SUFFICES ASSUME GuildInv, D!Callback(j, u, s) PROVE GuildInv'
  OBVIOUS
<1>1. UNCHANGED <<roles, linked, cooldown, online, events, handler>> /\ states' = [states EXCEPT ![s] = NoUser]
  BY DEF D!Callback, D!bot
<1>2. states' \in [LinkStates -> Users \cup {NoUser}] /\ online \in BOOLEAN
  BY <1>1, GuildStatesType DEF GuildInv, GuildBot
<1>3. CASE UNCHANGED <<guildJob, calm, repaired>>
  BY <1>1, <1>2, <1>3, GuildQuiet
<1>4. ASSUME NEW d \in Accounts, D!Begins(j, [D!Idle EXCEPT !.pc = "taken", !.user = u, !.account = d])
      PROVE  GuildInv'
  <2>1. PICK k : k = [D!Idle EXCEPT !.pc = "taken", !.user = u, !.account = d]
    OBVIOUS
  <2>2. k \in GuildJob /\ k.pc = "taken" /\ k.user = u /\ k.account = d /\ k.alone = FALSE
    BY <2>1, GuildIdle DEF GuildJob
  <2>3. GuildShape(k)
    BY <2>2 DEF GuildShape
  <2>4. QED
    BY <1>1, <1>2, <1>4, <2>1, <2>2, <2>3, GuildBegins DEF GuildKept
<1>5. QED
  BY <1>3, <1>4 DEF D!Callback, D!history

LEMMA GuildAskUnlink ==
  ASSUME NEW j \in Requests, NEW u \in Users
  PROVE  GuildInv /\ D!AskUnlink(j, u) => GuildInv'
<1> SUFFICES ASSUME GuildInv, D!AskUnlink(j, u) PROVE GuildInv'
  OBVIOUS
<1>1. /\ UNCHANGED <<roles, linked, cooldown, states, online, events, handler>>
      /\ D!Begins(j, [D!Idle EXCEPT !.pc = "unlink", !.user = u])
  BY DEF D!AskUnlink, D!bot
<1>2. states \in [LinkStates -> Users \cup {NoUser}] /\ online \in BOOLEAN
  BY DEF GuildInv, GuildBot
<1>3. PICK k : k = [D!Idle EXCEPT !.pc = "unlink", !.user = u]
  OBVIOUS
<1>4. k \in GuildJob /\ k.pc = "unlink" /\ k.user = u /\ k.alone = FALSE
  BY <1>3, GuildIdle DEF GuildJob
<1>5. GuildShape(k)
  BY <1>4 DEF GuildShape
<1>6. QED
  BY <1>1, <1>2, <1>3, <1>4, <1>5, GuildBegins DEF GuildKept

LEMMA GuildConnect == ASSUME NEW j \in Requests PROVE GuildInv /\ D!Connect(j) => GuildInv'
<1> SUFFICES ASSUME GuildInv, D!Connect(j) PROVE GuildInv'
  OBVIOUS
<1>1. /\ UNCHANGED <<roles, linked, cooldown, states, events, handler>> /\ online' = TRUE
      /\ D!Begins(j, [D!Idle EXCEPT !.pc = "linked", !.alone = (D!Busy = {} /\ handler.pc = "idle")])
  BY DEF D!Connect
<1>2. states \in [LinkStates -> Users \cup {NoUser}]
  BY DEF GuildInv, GuildBot
<1>3. PICK x \in BOOLEAN : x = (D!Busy = {} /\ handler.pc = "idle")
  OBVIOUS
<1>4. PICK k : k = [D!Idle EXCEPT !.pc = "linked", !.alone = x]
  OBVIOUS
<1>5. k \in GuildJob /\ k.pc = "linked" /\ k.alone = x /\ k.account = NoAccount
  BY <1>4, GuildIdle DEF GuildJob, D!Idle
<1>6. GuildShape(k)
  BY <1>5 DEF GuildShape
<1>7. D!Begins(j, k)
  BY <1>1, <1>3, <1>4
<1>8. k.alone => D!Busy = {} /\ handler.pc = "idle"
  BY <1>3, <1>5
<1>9. QED
  BY <1>1, <1>2, <1>5, <1>6, <1>7, <1>8, GuildBegins DEF GuildKept


-----------------------------------------------------------------------------
\* The steps of a job that change no table.

\* A job that comes to its end.
LEMMA GuildEnds ==
  ASSUME GuildInv, NEW j \in Requests, guildJob[j].pc # "idle", D!Ends(j),
         GuildKept, UNCHANGED <<linked, cooldown, states, online>>,
         calm' \in BOOLEAN, repaired' \in BOOLEAN, calm' => calm,
         calm' /\ guildJob[j].pc \in GuildLinkPcs =>
             \A u \in Users : linked[u] # NoAccount /\ linked[u] = guildJob[j].account
                 => GuildGood(u) \/ GuildPends(linked[u]),
         repaired' => /\ guildJob[j].alone
                      /\ \A u \in Users : linked[u] # NoAccount /\ roles[linked[u]] # "out" => GuildRight(u)
  PROVE  GuildInv'
<1> USE DEF GuildKept
<1>1. PICK k \in GuildJob : k = D!Idle
  BY GuildIdle
<1>2. guildJob' = [guildJob EXCEPT ![j] = k] /\ k.pc = "idle" /\ k.alone = FALSE /\ GuildShape(k)
  BY <1>1, GuildIdle DEF D!Ends, D!Becomes
<1>3. GuildTables'
  BY DEF GuildInv, GuildTables
<1>4. GuildWorks(k)'
  BY <1>2 DEF GuildWorks
<1>5. \A u \in Users : (GuildRight(u) <=> GuildRight(u)') /\ (GuildGood(u) <=> GuildGood(u)')
  BY DEF GuildRight, GuildGood
<1>6. \A u \in Users : (GuildPends(linked[u]) <=> GuildPends(linked'[u]))
  BY DEF GuildPends
<1>7. calm' => \A u \in Users : linked'[u] = NoAccount => cooldown'[u] = "base"
  BY GuildBusyCalm
<1>8. ASSUME calm', NEW u \in Users, linked'[u] # NoAccount
      PROVE  GuildGood(u)' \/ GuildPends(linked'[u])
  <2>1. GuildGood(u) \/ GuildPends(linked[u])
    BY <1>8, GuildBusyCalm
  <2>2. QED
    BY <2>1, <1>5, <1>6
<1>9. repaired' => /\ k.pc = "idle" /\ guildJob[j].alone
                   /\ \A u \in Users : linked'[u] # NoAccount /\ roles[linked'[u]] # "out" => GuildRight(u)'
  BY <1>2, <1>5
<1> HIDE DEF GuildKept
<1>10. QED
  BY <1>2, <1>3, <1>4, <1>6, <1>7, <1>8, <1>9, GuildJobStep

LEMMA GuildBooleans ==
  ASSUME GuildInv
  PROVE  /\ calm \in BOOLEAN /\ repaired \in BOOLEAN
         /\ \A j \in Requests :
               /\ guildJob[j] \in GuildJob /\ GuildShape(guildJob[j])
               /\ guildJob[j].alone \in BOOLEAN
               /\ guildJob[j].pc # "idle" => repaired = FALSE
<1>1. \A j \in Requests : guildJob[j] \in GuildJob /\ GuildShape(guildJob[j]) /\ guildJob[j].alone \in BOOLEAN
  BY DEF GuildInv, GuildJobs, GuildJob
<1>2. calm \in BOOLEAN /\ repaired \in BOOLEAN
  BY DEF GuildInv, GuildBot
<1>3. \A j \in Requests : guildJob[j].pc # "idle" => repaired = FALSE
  BY <1>2, GuildBusy DEF GuildInv, GuildRepaired
<1>4. QED
  BY <1>1, <1>2, <1>3

LEMMA GuildFails == ASSUME NEW j \in Requests PROVE GuildInv /\ D!Fails(j) => GuildInv'
<1> SUFFICES ASSUME GuildInv, D!Fails(j) PROVE GuildInv'
  OBVIOUS
<1>1. /\ guildJob[j].pc # "idle" /\ D!Ends(j) /\ calm' = FALSE
      /\ UNCHANGED <<repaired, roles, linked, cooldown, states, online, events, handler>>
  BY DEF D!Fails, D!bot
<1>2. repaired = FALSE
  BY <1>1, GuildBooleans
<1>3. QED
  BY <1>1, <1>2, GuildEnds DEF GuildKept

\* A step that leads a job on, without a change of the tables.
LEMMA GuildGoes ==
  ASSUME GuildInv, NEW j \in Requests, guildJob[j].pc # "idle",
         NEW k \in GuildJob, GuildShape(k), guildJob' = [guildJob EXCEPT ![j] = k],
         GuildKept, UNCHANGED <<linked, cooldown, states, online, repaired>>,
         calm' \in BOOLEAN, calm' => calm,
         calm => GuildWorks(k),
         guildJob[j].pc \in GuildLinkPcs => k.pc \in GuildLinkPcs /\ k.account = guildJob[j].account,
         k.alone => guildJob[j].alone /\ GuildSynced(k)
  PROVE  GuildInv'
<1> USE DEF GuildKept
<1>1. repaired' = FALSE
  BY GuildBooleans
<1>2. GuildTables'
  BY DEF GuildInv, GuildTables
<1>3. calm' => GuildWorks(k)'
  BY DEF GuildWorks, GuildTold, GuildPends
<1>4. k.alone => GuildSynced(k)'
  BY DEF GuildSynced, GuildRight, GuildGood
<1>5. calm' => \A u \in Users : linked'[u] = NoAccount => cooldown'[u] = "base"
  BY GuildBusyCalm
<1>6. ASSUME calm', NEW u \in Users, linked'[u] # NoAccount
      PROVE  GuildGood(u)' \/ GuildPends(linked'[u]) \/ (k.pc \in GuildLinkPcs /\ k.account = linked'[u])
  <2>1. \/ GuildGood(u) \/ GuildPends(linked[u])
        \/ guildJob[j].pc \in GuildLinkPcs /\ guildJob[j].account = linked[u]
    BY <1>6, GuildBusyCalm
  <2>2. GuildGood(u) => GuildGood(u)'
    BY DEF GuildRight, GuildGood
  <2>3. GuildPends(linked[u]) => GuildPends(linked'[u])
    BY DEF GuildPends
  <2>4. QED
    BY <2>1, <2>2, <2>3
<1> HIDE DEF GuildKept
<1>7. QED
  BY <1>1, <1>2, <1>3, <1>4, <1>5, <1>6, GuildJobStep

LEMMA GuildCheckTaken == ASSUME NEW j \in Requests PROVE GuildInv /\ D!CheckTaken(j) => GuildInv'
<1> SUFFICES ASSUME GuildInv, D!CheckTaken(j) PROVE GuildInv'
  OBVIOUS
<1>1. /\ guildJob[j].pc = "taken"
      /\ D!Ends(j) \/ D!Goes(j, "link")
      /\ UNCHANGED <<roles, linked, cooldown, states, online, events, handler, calm, repaired>>
  BY DEF D!CheckTaken, D!bot, D!history
<1>2. CASE D!Ends(j)
  <2>1. repaired = FALSE /\ guildJob[j].pc \notin GuildLinkPcs
    BY <1>1, GuildBooleans DEF GuildLinkPcs
  <2>2. QED
    BY <1>1, <1>2, <2>1, GuildBooleans, GuildEnds DEF GuildKept
<1>3. CASE D!Goes(j, "link")
  <2>1. PICK b \in GuildJob : b = guildJob[j] /\ GuildShape(b) /\ b.pc = "taken"
    BY <1>1, GuildBooleans
  <2>2. PICK k : k = [b EXCEPT !.pc = "link"]
    OBVIOUS
  <2>3. k \in GuildJob /\ k.pc = "link" /\ k.user = b.user /\ k.account = b.account /\ k.alone = b.alone
    BY <2>1, <2>2 DEF GuildJob
  <2>4. k.alone = FALSE /\ k.user \in Users /\ k.account \in Accounts
    BY <2>1, <2>3, GuildBooleans DEF GuildShape
  <2>5. GuildShape(k) /\ GuildWorks(k)
    BY <2>3, <2>4 DEF GuildShape, GuildWorks
  <2>6. guildJob' = [guildJob EXCEPT ![j] = k]
    BY <1>3, <2>1, <2>2 DEF D!Goes, D!Becomes
  <2>7. QED
    BY <1>1, <2>1, <2>3, <2>4, <2>5, <2>6, GuildGoes, GuildBooleans DEF GuildKept, GuildLinkPcs
<1>4. QED
  BY <1>1, <1>2, <1>3

LEMMA GuildFetchMember == ASSUME NEW j \in Requests PROVE GuildInv /\ D!FetchMember(j) => GuildInv'
<1> SUFFICES ASSUME GuildInv, D!FetchMember(j) PROVE GuildInv'
  OBVIOUS
<1>1. PICK b \in GuildJob : b = guildJob[j] /\ GuildShape(b)
  BY GuildBooleans
<1>2. /\ b.pc = "member" /\ b.account \in Accounts /\ b.user \in Users /\ b.alone = FALSE
      /\ UNCHANGED <<roles, linked, cooldown, states, online, events, handler, calm, repaired>>
  BY <1>1, GuildBooleans DEF D!FetchMember, D!bot, D!history, GuildShape
<1>3. CASE roles[b.account] = "out" /\ D!Ends(j)
  <2>1. ASSUME calm, NEW u \in Users, linked[u] # NoAccount, linked[u] = b.account
        PROVE  GuildGood(u)
    <3>1. linked[b.user] = b.account /\ cooldown[b.user] = "base"
      BY <1>1, <1>2, <2>1 DEF GuildInv, GuildCalm, GuildWorks
    <3>2. u = b.user
      BY <3>1, <1>2, <2>1 DEF GuildInv, GuildTables
    <3>3. QED
      BY <3>1, <3>2, <1>3 DEF GuildRight, GuildGood, D!CooldownFor
  <2>2. repaired = FALSE
    BY <1>1, <1>2, GuildBooleans
  <2>3. QED
    BY <1>1, <1>2, <1>3, <2>1, <2>2, GuildBooleans, GuildEnds DEF GuildKept
<1>4. CASE D!Becomes(j, [b EXCEPT !.pc = "select", !.roles = roles[b.account]])
  <2>1. PICK r \in GuildRoles : r = roles[b.account]
    BY <1>2 DEF GuildInv, GuildTables
  <2>2. PICK k : k = [b EXCEPT !.pc = "select", !.roles = r]
    OBVIOUS
  <2>3. /\ k \in GuildJob /\ k.pc = "select" /\ k.user = b.user /\ k.account = b.account
        /\ k.alone = b.alone /\ k.roles = r
    BY <2>2 DEF GuildJob
  <2>4. GuildShape(k) /\ GuildWorks(k)
    BY <1>2, <2>1, <2>3 DEF GuildShape, GuildWorks, GuildTold
  <2>5. guildJob' = [guildJob EXCEPT ![j] = k]
    BY <1>4, <2>1, <2>2 DEF D!Becomes
  <2>6. QED
    BY <1>1, <1>2, <2>3, <2>4, <2>5, GuildGoes, GuildBooleans DEF GuildKept, GuildLinkPcs
<1>5. QED
  BY <1>1, <1>3, <1>4 DEF D!FetchMember

LEMMA GuildSelectForLink == ASSUME NEW j \in Requests PROVE GuildInv /\ D!SelectForLink(j) => GuildInv'
<1> SUFFICES ASSUME GuildInv, D!SelectForLink(j) PROVE GuildInv'
  OBVIOUS
<1>1. PICK b \in GuildJob : b = guildJob[j] /\ GuildShape(b)
  BY GuildBooleans
<1>2. /\ b.pc = "select" /\ b.account \in Accounts /\ b.user \in Users /\ b.alone = FALSE
      /\ UNCHANGED <<roles, linked, cooldown, states, online, events, handler, calm, repaired>>
  BY <1>1, GuildBooleans DEF D!SelectForLink, D!bot, D!history, GuildShape
<1>3. PICK found : found = D!OwnerOf(b.account)
  OBVIOUS
<1>4. \A u \in Users : u \in found <=> linked[u] = b.account
  BY <1>3 DEF D!OwnerOf
<1>5. calm => GuildTold(b.account, b.roles)
  BY <1>1, <1>2 DEF GuildInv, GuildCalm, GuildWorks
<1>6. CASE (~ \E u \in found : cooldown[u] # D!CooldownFor(b.roles)) /\ D!Ends(j)
  <2>1. ASSUME calm, NEW u \in Users, linked[u] # NoAccount, linked[u] = b.account
        PROVE  GuildGood(u) \/ GuildPends(linked[u])
    BY <1>4, <1>5, <1>6, <2>1 DEF GuildTold, GuildRight, GuildGood
  <2>2. repaired = FALSE
    BY <1>1, <1>2, GuildBooleans
  <2>3. QED
    BY <1>1, <1>2, <1>6, <2>1, <2>2, GuildBooleans, GuildEnds DEF GuildKept
<1>7. CASE /\ \E u \in found : cooldown[u] # D!CooldownFor(b.roles)
           /\ D!Becomes(j, [b EXCEPT !.pc = "apply", !.user = CHOOSE u \in found : TRUE])
  <2>1. PICK v : v = CHOOSE u \in found : TRUE
    OBVIOUS
  <2>2. v \in found
    BY <1>7, <2>1
  <2>3. v \in Users /\ linked[v] = b.account
    BY <2>2, <1>3 DEF D!OwnerOf
  <2>4. PICK k : k = [b EXCEPT !.pc = "apply", !.user = v]
    OBVIOUS
  <2>5. /\ k \in GuildJob /\ k.pc = "apply" /\ k.user = v /\ k.account = b.account
        /\ k.alone = b.alone /\ k.roles = b.roles
    BY <2>3, <2>4 DEF GuildJob
  <2>6. GuildShape(k) /\ (calm => GuildWorks(k))
    BY <1>2, <1>5, <2>3, <2>5 DEF GuildShape, GuildWorks
  <2>7. guildJob' = [guildJob EXCEPT ![j] = k]
    BY <1>7, <2>1, <2>4 DEF D!Becomes
  <2>8. QED
    BY <1>1, <1>2, <2>5, <2>6, <2>7, GuildGoes, GuildBooleans DEF GuildKept, GuildLinkPcs
<1>8. QED
  BY <1>1, <1>3, <1>6, <1>7 DEF D!SelectForLink


-----------------------------------------------------------------------------
\* The steps of a job that change a table.

LEMMA GuildCooldowns ==
  /\ \A r \in GuildRoles : D!CooldownFor(r) \in GuildCool
  /\ NoAccount \notin Accounts /\ NoUser \notin Users
BY ServicesAssumption, AccessAssumption DEF GuildRoles, GuildCool, D!CooldownFor

LEMMA GuildLink == ASSUME NEW j \in Requests PROVE GuildInv /\ D!Link(j) => GuildInv'
<1> SUFFICES ASSUME GuildInv, D!Link(j) PROVE GuildInv'
  OBVIOUS
<1>1. PICK b \in GuildJob : b = guildJob[j] /\ GuildShape(b)
  BY GuildBooleans
<1>2. PICK u \in Users, d \in Accounts : u = b.user /\ d = b.account
  BY <1>1 DEF D!Link, GuildShape
<1>3. /\ b.pc = "link" /\ b.alone = FALSE
      /\ UNCHANGED <<roles, cooldown, states, online, events, handler>>
  BY <1>1, GuildBooleans DEF D!Link, D!bot, GuildShape
<1>4. repaired = FALSE
  BY <1>1, <1>3, GuildBooleans
<1>5. CASE D!Ends(j) /\ UNCHANGED <<linked, calm, repaired>>
  BY <1>1, <1>3, <1>4, <1>5, GuildBooleans, GuildEnds DEF GuildKept, GuildLinkPcs
<1>6. CASE /\ D!OwnerOf(d) \ {u} = {} /\ linked' = [linked EXCEPT ![u] = d]
           /\ calm' = (calm /\ linked[u] = NoAccount) /\ UNCHANGED repaired
           /\ D!Goes(j, "member")
  <2>1. PICK k : k = [b EXCEPT !.pc = "member"]
    OBVIOUS
  <2>2. /\ k \in GuildJob /\ k.pc = "member" /\ k.user = u /\ k.account = d /\ k.alone = FALSE
    BY <1>2, <1>3, <2>1 DEF GuildJob
  <2>3. GuildShape(k)
    BY <2>2 DEF GuildShape
  <2>4. guildJob' = [guildJob EXCEPT ![j] = k]
    BY <1>1, <1>6, <2>1 DEF D!Goes, D!Becomes
  <2>5. linked'[u] = d /\ \A v \in Users : v # u => linked'[v] = linked[v] /\ linked[v] # d
    BY <1>6 DEF GuildInv, GuildTables, D!OwnerOf
  <2>6. GuildTables'
    <3>1. linked' \in [Users -> Accounts \cup {NoAccount}]
      BY <1>6 DEF GuildInv, GuildTables
    <3>2. \A v, w \in Users : linked'[v] # NoAccount /\ linked'[v] = linked'[w] => v = w
      BY <2>5 DEF GuildInv, GuildTables
    <3>3. QED
      BY <1>3, <3>1, <3>2 DEF GuildInv, GuildTables
  <2>7. calm' => calm /\ cooldown[u] = "base"
    BY <1>6 DEF GuildInv, GuildCalm
  <2>8. calm' => GuildWorks(k)'
    BY <1>3, <2>2, <2>5, <2>7 DEF GuildWorks
  <2>9. calm' => \A v \in Users : linked'[v] = NoAccount => cooldown'[v] = "base"
    BY <1>3, <2>5, <2>7, GuildCooldowns DEF GuildInv, GuildCalm
  <2>10. ASSUME calm', NEW v \in Users, linked'[v] # NoAccount
         PROVE  \/ GuildGood(v)' \/ GuildPends(linked'[v])
                \/ k.pc \in GuildLinkPcs /\ k.account = linked'[v]
    <3>1. CASE v = u
      BY <3>1, <2>2, <2>5 DEF GuildLinkPcs
    <3>2. CASE v # u
      <4>1. linked'[v] = linked[v]
        BY <3>2, <2>5
      <4>2. GuildGood(v) \/ GuildPends(linked[v])
        BY <1>1, <1>3, <2>7, <2>10, <4>1, GuildBusyCalm DEF GuildLinkPcs
      <4>3. QED
        BY <1>3, <4>1, <4>2 DEF GuildRight, GuildGood
    <3>3. QED
      BY <3>1, <3>2
  <2>11. calm' \in BOOLEAN /\ repaired' = FALSE
    BY <1>4, <1>6, GuildBooleans
  <2>12. GuildKept /\ UNCHANGED <<states, online>>
    BY <1>3 DEF GuildKept
  <2>13. guildJob[j].pc # "idle"
    BY <1>1, <1>3
  <2>14. QED
    BY <2>2, <2>3, <2>4, <2>6, <2>7, <2>8, <2>9, <2>10, <2>11, <2>12, <2>13, GuildJobStep
<1>7. QED
  BY <1>1, <1>2, <1>5, <1>6 DEF D!Link, D!history

LEMMA GuildApplyForLink == ASSUME NEW j \in Requests PROVE GuildInv /\ D!ApplyForLink(j) => GuildInv'
<1> SUFFICES ASSUME GuildInv, D!ApplyForLink(j) PROVE GuildInv'
  OBVIOUS
<1>1. PICK b \in GuildJob : b = guildJob[j] /\ GuildShape(b)
  BY GuildBooleans
<1>2. PICK u \in Users, d \in Accounts : u = b.user /\ d = b.account
  BY <1>1 DEF D!ApplyForLink, GuildShape
<1>3. /\ b.pc = "apply" /\ b.alone = FALSE /\ b.roles \in GuildRoles
      /\ UNCHANGED <<roles, linked, states, online, events, handler, calm, repaired>>
  BY <1>1, GuildBooleans DEF D!ApplyForLink, D!bot, D!history, GuildShape, GuildJob
<1>4. repaired' = FALSE /\ calm' \in BOOLEAN
  BY <1>1, <1>3, GuildBooleans
<1>5. PICK k \in GuildJob : k = D!Idle
  BY GuildIdle
<1>6. guildJob' = [guildJob EXCEPT ![j] = k] /\ k.pc = "idle" /\ k.alone = FALSE /\ GuildShape(k)
  BY <1>5, GuildIdle DEF D!ApplyForLink, D!Ends, D!Becomes
<1>7. PICK c \in GuildCool : c = D!CooldownFor(b.roles)
  BY <1>3, GuildCooldowns
<1>8. cooldown' = [cooldown EXCEPT ![u] = c]
  BY <1>1, <1>2, <1>7 DEF D!ApplyForLink
<1>9. GuildTables' /\ cooldown'[u] = c /\ \A v \in Users : v # u => cooldown'[v] = cooldown[v]
  BY <1>3, <1>8 DEF GuildInv, GuildTables
<1>10. calm => linked[u] = d /\ GuildTold(d, b.roles)
  BY <1>1, <1>2, <1>3 DEF GuildInv, GuildCalm, GuildWorks
<1>11. GuildWorks(k)'
  BY <1>6 DEF GuildWorks
<1>12. calm' => \A v \in Users : linked'[v] = NoAccount => cooldown'[v] = "base"
  BY <1>3, <1>9, <1>10, GuildCooldowns DEF GuildInv, GuildCalm
<1>13. ASSUME calm', NEW v \in Users, linked'[v] # NoAccount
       PROVE  GuildGood(v)' \/ GuildPends(linked'[v])
  <2>1. CASE v = u
    BY <1>3, <1>7, <1>9, <1>10, <1>13, <2>1 DEF GuildTold, GuildRight, GuildGood
  <2>2. CASE v # u
    <3>1. linked[v] # d
      BY <1>3, <1>10, <1>13, <2>2 DEF GuildInv, GuildTables
    <3>2. GuildGood(v) \/ GuildPends(linked[v])
      BY <1>1, <1>2, <1>3, <1>13, <3>1, GuildBusyCalm
    <3>3. QED
      BY <1>3, <1>9, <2>2, <3>2 DEF GuildRight, GuildGood
  <2>3. QED
    BY <2>1, <2>2
<1>14. GuildKept /\ UNCHANGED <<states, online>> /\ (calm' => calm) /\ guildJob[j].pc # "idle"
  BY <1>1, <1>3 DEF GuildKept
<1>15. QED
  BY <1>4, <1>6, <1>9, <1>11, <1>12, <1>13, <1>14, GuildJobStep

LEMMA GuildUnlink == ASSUME NEW j \in Requests PROVE GuildInv /\ D!Unlink(j) => GuildInv'
<1> SUFFICES ASSUME GuildInv, D!Unlink(j) PROVE GuildInv'
  OBVIOUS
<1>1. PICK b \in GuildJob : b = guildJob[j] /\ GuildShape(b)
  BY GuildBooleans
<1>2. PICK u \in Users : u = b.user
  BY <1>1 DEF D!Unlink, GuildShape
<1>3. /\ b.pc = "unlink" /\ b.alone = FALSE
      /\ UNCHANGED <<roles, states, online, events, handler, calm, repaired>>
  BY <1>1, GuildBooleans DEF D!Unlink, D!bot, D!history, GuildShape
<1>4. repaired' = FALSE /\ calm' \in BOOLEAN
  BY <1>1, <1>3, GuildBooleans
<1>5. PICK k \in GuildJob : k = D!Idle
  BY GuildIdle
<1>6. guildJob' = [guildJob EXCEPT ![j] = k] /\ k.pc = "idle" /\ k.alone = FALSE /\ GuildShape(k)
  BY <1>5, GuildIdle DEF D!Unlink, D!Ends, D!Becomes
<1>7. linked' = [linked EXCEPT ![u] = NoAccount] /\ cooldown' = [cooldown EXCEPT ![u] = "base"]
  BY <1>1, <1>2 DEF D!Unlink
<1>8. /\ linked'[u] = NoAccount /\ cooldown'[u] = "base"
      /\ \A v \in Users : v # u => linked'[v] = linked[v] /\ cooldown'[v] = cooldown[v]
  BY <1>7 DEF GuildInv, GuildTables
<1>9. GuildTables'
  <2>1. linked' \in [Users -> Accounts \cup {NoAccount}] /\ cooldown' \in [Users -> GuildCool]
    BY <1>7 DEF GuildInv, GuildTables, GuildCool
  <2>2. \A v, w \in Users : linked'[v] # NoAccount /\ linked'[v] = linked'[w] => v = w
    BY <1>8 DEF GuildInv, GuildTables
  <2>3. QED
    BY <1>3, <2>1, <2>2 DEF GuildInv, GuildTables
<1>10. GuildWorks(k)'
  BY <1>6 DEF GuildWorks
<1>11. calm' => \A v \in Users : linked'[v] = NoAccount => cooldown'[v] = "base"
  BY <1>3, <1>8 DEF GuildInv, GuildCalm
<1>12. ASSUME calm', NEW v \in Users, linked'[v] # NoAccount
       PROVE  GuildGood(v)' \/ GuildPends(linked'[v])
  <2>1. v # u
    BY <1>8, <1>12
  <2>2. GuildGood(v) \/ GuildPends(linked[v])
    BY <1>1, <1>3, <1>8, <1>12, <2>1, GuildBusyCalm DEF GuildLinkPcs
  <2>3. QED
    BY <1>3, <1>8, <2>1, <2>2 DEF GuildRight, GuildGood
<1>13. GuildKept /\ UNCHANGED <<states, online>> /\ (calm' => calm) /\ guildJob[j].pc # "idle"
  BY <1>1, <1>3 DEF GuildKept
<1>14. QED
  BY <1>4, <1>6, <1>9, <1>10, <1>11, <1>12, <1>13, GuildJobStep


-----------------------------------------------------------------------------
\* The sync

LEMMA GuildSelectLinked == ASSUME NEW j \in Requests PROVE GuildInv /\ D!SelectLinked(j) => GuildInv'
<1> SUFFICES ASSUME GuildInv, D!SelectLinked(j) PROVE GuildInv'
  OBVIOUS
<1>1. PICK b \in GuildJob : b = guildJob[j] /\ GuildShape(b)
  BY GuildBooleans
<1>2. /\ b.pc = "linked" /\ b.account = NoAccount
      /\ UNCHANGED <<roles, linked, cooldown, states, online, events, handler, calm, repaired>>
  BY <1>1 DEF D!SelectLinked, D!bot, D!history, GuildShape
<1>3. PICK known : known = [d \in Accounts |-> IF D!OwnerOf(d) = {} THEN NoUser
                                              ELSE CHOOSE u \in D!OwnerOf(d) : TRUE]
  OBVIOUS
<1>4. PICK old \in [Users -> GuildCool] : old = cooldown
  BY DEF GuildInv, GuildTables
<1>5. PICK k : k = [b EXCEPT !.pc = "page", !.old = old, !.known = known]
  OBVIOUS
<1>6. guildJob' = [guildJob EXCEPT ![j] = k]
  BY <1>1, <1>3, <1>4, <1>5 DEF D!SelectLinked, D!Becomes
<1>7. \A d \in Accounts :
          \/ D!OwnerOf(d) = {} /\ known[d] = NoUser
          \/ known[d] \in Users /\ linked[known[d]] = d
  <2> SUFFICES ASSUME NEW d \in Accounts, D!OwnerOf(d) # {}
               PROVE  known[d] \in Users /\ linked[known[d]] = d
    BY <1>3
  <2>1. known[d] \in D!OwnerOf(d)
    BY <1>3
  <2>2. QED
    BY <2>1 DEF D!OwnerOf
<1>8. known \in [Accounts -> Users \cup {NoUser}]
  BY <1>3, <1>7
<1>9. /\ k \in GuildJob /\ k.pc = "page" /\ k.account = NoAccount /\ k.alone = b.alone
      /\ k.known = known /\ k.old = old
  BY <1>2, <1>5, <1>8 DEF GuildJob
<1>10. GuildShape(k) /\ GuildWorks(k)
  BY <1>7, <1>9 DEF GuildShape, GuildWorks
<1>11. GuildSynced(k)
  <2>1. \A u \in Users : linked[u] # NoAccount => linked[u] \in Accounts /\ known[linked[u]] = u
    <3> SUFFICES ASSUME NEW u \in Users, linked[u] # NoAccount
                 PROVE  linked[u] \in Accounts /\ known[linked[u]] = u
      OBVIOUS
    <3>1. linked[u] \in Accounts /\ u \in D!OwnerOf(linked[u])
      BY DEF GuildInv, GuildTables, D!OwnerOf
    <3>2. known[linked[u]] \in Users /\ linked[known[linked[u]]] = linked[u]
      BY <3>1, <1>7
    <3>3. QED
      BY <3>1, <3>2 DEF GuildInv, GuildTables
  <2>2. \A u \in Users : linked[u] # NoAccount => ~(linked[u] <= NoAccount)
    <3> SUFFICES ASSUME NEW u \in Users, linked[u] # NoAccount PROVE ~(linked[u] <= NoAccount)
      OBVIOUS
    <3>1. linked[u] \in Nat \ {0} /\ NoAccount = 0
      BY <2>1, ServicesAssumption
    <3>2. QED
      BY <3>1
  <2>3. \A u \in Users : cooldown[u] = old[u]
    BY <1>4
  <2>4. k.pc # "sync"
    BY <1>9
  <2>5. QED
    BY <1>7, <1>9, <2>1, <2>2, <2>3, <2>4, GuildCooldowns DEF GuildSynced
<1>12. QED
  BY <1>1, <1>2, <1>6, <1>9, <1>10, <1>11, GuildGoes, GuildBooleans DEF GuildKept, GuildLinkPcs

\* A page is the next members, all of them if it is not full.
LEMMA GuildPage ==
  ASSUME NEW a \in Nat, NEW P, P = D!Page(a), NEW L, L = D!MembersAfter(a)
  PROVE  /\ P \subseteq L
         /\ P = {} => L = {}
         /\ \A i \in P, e \in L : e <= i => e \in P
         /\ D!Cardinality(P) < PageSize => P = L
<1>1. \A S : D!Cardinality(S) = Cardinality(S)
  BY DEF D!Cardinality, Cardinality
<1>2. L \subseteq Nat /\ IsFiniteSet(L) /\ PageSize \in Nat \ {0}
  <2>1. L \subseteq Accounts
    BY DEF D!MembersAfter
  <2>2. QED
    BY <2>1, ServicesAssumption, FS_Subset
<1>3. PICK n \in Nat \ {0} : n = PageSize
  BY <1>2
<1>4. P = FirstOf(L, n)
  BY <1>1, <1>3 DEF D!Page, FirstOf
<1>5. D!Cardinality(P) = Cardinality(P)
  BY <1>1
<1>6. QED
  BY <1>2, <1>3, <1>4, <1>5, FirstOnes

LEMMA GuildNumbers ==
  /\ Accounts \subseteq Nat \ {0} /\ NoAccount = 0
  /\ \A b \in GuildJob : b.account \in Nat
  /\ \A u \in Users : GuildInv => linked[u] \in Nat /\ (linked[u] # NoAccount => linked[u] \in Accounts)
<1>1. Accounts \subseteq Nat \ {0} /\ NoAccount = 0
  BY ServicesAssumption
<1>a. \A d \in Accounts \cup {NoAccount} : d \in Nat
  BY <1>1
<1>2. \A b \in GuildJob : b.account \in Nat
  BY <1>a DEF GuildJob
<1>3. ASSUME GuildInv, NEW u \in Users
      PROVE  linked[u] \in Nat /\ (linked[u] # NoAccount => linked[u] \in Accounts)
  <2>1. linked[u] \in Accounts \cup {NoAccount}
    BY <1>3 DEF GuildInv, GuildTables
  <2>2. QED
    BY <2>1, <1>a
<1>4. QED
  BY <1>1, <1>2, <1>3

LEMMA GuildFetchPage == ASSUME NEW j \in Requests PROVE GuildInv /\ D!FetchPage(j) => GuildInv'
<1> SUFFICES ASSUME GuildInv, D!FetchPage(j) PROVE GuildInv'
  OBVIOUS
<1>1. PICK b \in GuildJob : b = guildJob[j] /\ GuildShape(b)
  BY GuildBooleans
<1>2. /\ b.pc = "page" /\ b.account \in Nat
      /\ UNCHANGED <<roles, linked, cooldown, states, online, events, handler, calm>>
  BY <1>1, GuildNumbers DEF D!FetchPage, D!bot
<1>3. PICK P, L : P = D!Page(b.account) /\ L = D!MembersAfter(b.account)
  OBVIOUS
<1>4. /\ P \subseteq L /\ (P = {} => L = {})
      /\ \A i \in P, e \in L : e <= i => e \in P
      /\ D!Cardinality(P) < PageSize => P = L
  BY <1>2, <1>3, GuildPage
<1>5. \A d : d \in L <=> d \in Accounts /\ roles[d] # "out" /\ d > b.account
  BY <1>3 DEF D!MembersAfter
<1>6. b.alone => GuildSynced(b)
  BY <1>1 DEF GuildInv, GuildAlone
<1>7. calm => GuildWorks(b)
  BY <1>1 DEF GuildInv, GuildCalm
<1>8. CASE P = {} /\ D!EndsSync(j)
  <2>1. repaired' = b.alone /\ b.alone \in BOOLEAN
    BY <1>1, <1>8, GuildBooleans DEF D!EndsSync
  <2>2. ASSUME b.alone, NEW u \in Users, linked[u] # NoAccount, roles[linked[u]] # "out"
        PROVE  GuildRight(u)
    <3>1. linked[u] \in Accounts /\ linked[u] \in Nat
      BY <2>2, GuildNumbers
    <3>2. linked[u] \notin L
      BY <1>4, <1>8
    <3>3. linked[u] <= b.account
      BY <1>2, <1>5, <2>2, <3>1, <3>2
    <3>4. QED
      BY <1>2, <1>6, <2>2, <3>3 DEF GuildSynced
  <2>3. D!Ends(j) /\ calm' \in BOOLEAN /\ guildJob[j].pc \notin GuildLinkPcs /\ guildJob[j].pc # "idle"
    BY <1>1, <1>2, <1>8, GuildBooleans DEF D!EndsSync, GuildLinkPcs
  <2>4. GuildKept /\ UNCHANGED <<linked, cooldown, states, online>> /\ (calm' => calm)
    BY <1>2 DEF GuildKept
  <2>5. QED
    BY <1>1, <2>1, <2>2, <2>3, <2>4, GuildEnds
<1>9. CASE /\ P # {} /\ UNCHANGED repaired
           /\ D!Becomes(j, [b EXCEPT !.pc = "sync", !.last = (D!Cardinality(P) < PageSize),
                                     !.members = {[account |-> d, roles |-> roles[d]] : d \in P}])
  <2>0. (D!Cardinality(P) < PageSize) \in BOOLEAN
    OBVIOUS
  <2>1. PICK x \in BOOLEAN : x = (D!Cardinality(P) < PageSize)
    BY <2>0, Zenon
  <2>2. PICK S : S = {[account |-> d, roles |-> roles[d]] : d \in P}
    OBVIOUS
  <2>3. \A d \in P : d \in Accounts /\ d \in Nat /\ roles[d] \in GuildRoles /\ roles[d] # "out" /\ b.account < d
    BY <1>2, <1>4, <1>5, GuildNumbers DEF GuildInv, GuildTables
  <2>4. S \subseteq GuildMember
    BY <2>2, <2>3 DEF GuildMember
  <2>5. PICK k : k = [b EXCEPT !.pc = "sync", !.last = x, !.members = S]
    OBVIOUS
  <2>6. /\ k \in GuildJob /\ k.pc = "sync" /\ k.account = b.account /\ k.alone = b.alone
        /\ k.known = b.known /\ k.old = b.old /\ k.last = x /\ k.members = S
    BY <2>4, <2>5 DEF GuildJob
  <2>7. guildJob' = [guildJob EXCEPT ![j] = k]
    BY <1>9, <2>1, <2>2, <2>5 DEF D!Becomes
  <2>8. GuildShape(k)
    BY <2>6 DEF GuildShape
  <2>9. \A m \in S : m.account \in P /\ m.roles = roles[m.account]
    BY <2>2
  <2>10. \A d \in P : \E m \in S : m.account = d
    <3> SUFFICES ASSUME NEW d \in P PROVE \E m \in S : m.account = d
      OBVIOUS
    <3>1. [account |-> d, roles |-> roles[d]] \in S
      BY <2>2
    <3>2. QED
      BY <3>1
  <2>11. calm => GuildWorks(k)
    BY <1>2, <1>7, <2>6, <2>9 DEF GuildWorks, GuildTold
  <2>12. ASSUME NEW d \in Accounts, roles[d] # "out", b.account < d, d \notin P
         PROVE  ~x /\ \A m \in S : m.account < d
    <3>1. d \in L /\ d \in Nat
      BY <1>2, <1>5, <2>12, GuildNumbers
    <3>2. ~x
      BY <1>4, <2>1, <2>12, <3>1
    <3>3. ASSUME NEW m \in S PROVE m.account < d
      <4>1. m.account \in P /\ m.account \in Nat
        BY <2>3, <2>9
      <4>2. ~(d <= m.account)
        BY <1>4, <2>12, <3>1, <4>1
      <4>3. QED
        BY <3>1, <4>1, <4>2
    <3>4. QED
      BY <3>2, <3>3
  <2>13. k.alone => GuildSynced(k)
    <3> SUFFICES ASSUME b.alone PROVE GuildSynced(k)
      BY <2>6
    <3>1. \A m \in S : m.roles = roles[m.account] /\ m.roles # "out" /\ b.account < m.account
      BY <2>3, <2>9
    <3>2. \A d \in Accounts : roles[d] # "out" /\ b.account < d =>
              (\E m \in S : m.account = d) \/ (~x /\ \A m \in S : m.account < d)
      BY <2>10, <2>12
    <3>3. QED
      BY <1>2, <1>6, <2>6, <3>1, <3>2 DEF GuildSynced
  <2>14. GuildKept /\ UNCHANGED <<linked, cooldown, states, online, repaired>> /\ (calm' => calm)
         /\ calm' \in BOOLEAN
    BY <1>2, <1>9, GuildBooleans DEF GuildKept
  <2>15. guildJob[j].pc # "idle" /\ guildJob[j].pc \notin GuildLinkPcs /\ guildJob[j].alone = b.alone
    BY <1>1, <1>2 DEF GuildLinkPcs
  <2>16. QED
    BY <2>6, <2>7, <2>8, <2>11, <2>13, <2>14, <2>15, GuildGoes
<1>10. QED
  BY <1>1, <1>3, <1>8, <1>9 DEF D!FetchPage


\* What PageGoesOn leaves of a job: it ends, or goes on behind the member.
GuildBehind(b, m, a, k) ==
    /\ k \in GuildJob /\ k.account = m.account /\ k.known = b.known /\ k.old = b.old
    /\ k.last = b.last /\ k.members = b.members \ {m} /\ k.alone = (b.alone /\ a)
    /\ k.pc = IF b.members \ {m} = {} THEN "page" ELSE "sync"

LEMMA GuildPageGoesOn ==
  ASSUME GuildInv, NEW j \in Requests, NEW b \in GuildJob, b = guildJob[j], b.pc = "sync",
         NEW m \in b.members, NEW a \in BOOLEAN, D!PageGoesOn(j, m, a)
  PROVE  \/ b.members \ {m} = {} /\ b.last /\ D!Ends(j) /\ repaired' = (b.alone /\ a)
         \/ /\ ~(b.members \ {m} = {} /\ b.last) /\ UNCHANGED repaired
            /\ \E k \in GuildJob : GuildBehind(b, m, a, k) /\ guildJob' = [guildJob EXCEPT ![j] = k]
<1>1. PICK rest : rest = b.members \ {m}
  OBVIOUS
<1>2. PICK pc : pc = IF rest = {} THEN "page" ELSE "sync"
  OBVIOUS
<1>3. PICK x \in BOOLEAN : x = (b.alone /\ a)
  OBVIOUS
<1>4. CASE rest = {} /\ b.last /\ D!Ends(j) /\ repaired' = (b.alone /\ a)
  BY <1>1, <1>4
<1>5. CASE /\ ~(rest = {} /\ b.last) /\ UNCHANGED repaired
           /\ D!Becomes(j, [b EXCEPT !.members = rest, !.account = m.account, !.pc = pc, !.alone = x])
  <2>1. m.account \in Accounts /\ rest \subseteq GuildMember
    BY <1>1 DEF GuildJob, GuildMember
  <2>2. PICK k : k = [b EXCEPT !.members = rest, !.account = m.account, !.pc = pc, !.alone = x]
    OBVIOUS
  <2>3. PICK c : c = m.account
    OBVIOUS
  <2>4. k = [b EXCEPT !.members = rest, !.account = c, !.pc = pc, !.alone = x] /\ c \in Accounts
    BY <2>1, <2>2, <2>3
  <2>5. pc \in {"page", "sync"}
    BY <1>2
  <2>6. k \in GuildJob
    BY <2>1, <2>4, <2>5 DEF GuildJob
  <2>7. /\ k.members = rest /\ k.account = c /\ k.pc = pc /\ k.alone = x
        /\ k.known = b.known /\ k.old = b.old /\ k.last = b.last
    BY <2>4 DEF GuildJob
  <2>8. GuildBehind(b, m, a, k)
    BY <1>1, <1>2, <1>3, <2>3, <2>6, <2>7 DEF GuildBehind
  <2>9. guildJob' = [guildJob EXCEPT ![j] = k]
    BY <1>5, <2>2 DEF D!Becomes
  <2>10. QED
    BY <1>1, <1>5, <2>6, <2>8, <2>9
<1>6. QED
  BY <1>1, <1>2, <1>3, <1>4, <1>5 DEF D!PageGoesOn

LEMMA GuildSyncFails == ASSUME NEW j \in Requests PROVE GuildInv /\ D!SyncMemberFails(j) => GuildInv'
<1> SUFFICES ASSUME GuildInv, D!SyncMemberFails(j) PROVE GuildInv'
  OBVIOUS
<1>1. PICK b \in GuildJob : b = guildJob[j] /\ GuildShape(b)
  BY GuildBooleans
<1>2. PICK m \in b.members : D!PageGoesOn(j, m, FALSE)
  BY <1>1 DEF D!SyncMemberFails
<1>3. /\ b.pc = "sync" /\ calm' = FALSE
      /\ UNCHANGED <<roles, linked, cooldown, states, online, events, handler>>
  BY <1>1 DEF D!SyncMemberFails, D!bot
<1>4. GuildKept /\ guildJob[j].pc # "idle" /\ guildJob[j].pc \notin GuildLinkPcs /\ repaired = FALSE
  BY <1>1, <1>3, GuildBooleans DEF GuildKept, GuildLinkPcs
<1>5. CASE D!Ends(j) /\ repaired' = (b.alone /\ FALSE)
  BY <1>3, <1>4, <1>5, GuildEnds
<1>6. ASSUME NEW k \in GuildJob, GuildBehind(b, m, FALSE, k), guildJob' = [guildJob EXCEPT ![j] = k],
             UNCHANGED repaired
      PROVE  GuildInv'
  <2>1. k.alone = FALSE /\ k.pc \in {"page", "sync"}
    BY <1>6 DEF GuildBehind
  <2>2. GuildShape(k)
    BY <2>1 DEF GuildShape
  <2>3. calm => GuildWorks(k)
    <3>1. calm => GuildWorks(b)
      BY <1>1 DEF GuildInv, GuildCalm
    <3>2. k.known = b.known /\ k.members \subseteq b.members
      BY <1>6 DEF GuildBehind
    <3>3. QED
      BY <1>3, <2>1, <3>1, <3>2 DEF GuildWorks
  <2>4. QED
    BY <1>3, <1>4, <1>6, <2>1, <2>2, <2>3, GuildGoes
<1>7. QED
  BY <1>1, <1>2, <1>3, <1>5, <1>6, GuildPageGoesOn

LEMMA GuildSyncMember == ASSUME NEW j \in Requests PROVE GuildInv /\ D!SyncMember(j) => GuildInv'
<1> SUFFICES ASSUME GuildInv, D!SyncMember(j) PROVE GuildInv'
  OBVIOUS
<1>1. PICK b \in GuildJob : b = guildJob[j] /\ GuildShape(b)
  BY GuildBooleans
<1>2. PICK m \in b.members :
          /\ b.pc = "sync" /\ D!IsNext(j, m) /\ D!PageGoesOn(j, m, TRUE)
          /\ cooldown' = IF b.known[m.account] # NoUser /\ b.old[b.known[m.account]] # D!CooldownFor(m.roles)
                         THEN [cooldown EXCEPT ![b.known[m.account]] = D!CooldownFor(m.roles)]
                         ELSE cooldown
          /\ UNCHANGED <<roles, linked, states, online, events, handler, calm>>
  BY <1>1 DEF D!SyncMember, D!bot
<1>3. m.account \in Accounts /\ m.roles \in GuildRoles /\ m.account \in Nat /\ b.account \in Nat
  BY GuildNumbers DEF GuildJob, GuildMember
<1>4. PICK u \in Users \cup {NoUser} : u = b.known[m.account]
  BY <1>3 DEF GuildJob
<1>5. PICK c \in GuildCool : c = D!CooldownFor(m.roles)
  BY <1>3, GuildCooldowns
<1>6. \A n \in b.members : m.account <= n.account /\ n \in GuildMember /\ n.account \in Nat
  BY <1>1, <1>2, GuildNumbers DEF D!IsNext, GuildJob, GuildMember
<1>7. cooldown' = IF u # NoUser /\ b.old[u] # c THEN [cooldown EXCEPT ![u] = c] ELSE cooldown
  BY <1>2, <1>4, <1>5
<1>8. /\ GuildTables'
      /\ \A v \in Users : v # u => cooldown'[v] = cooldown[v]
      /\ u \in Users => cooldown'[u] = IF b.old[u] # c THEN c ELSE cooldown[u]
  <2>1. cooldown \in [Users -> GuildCool]
    BY DEF GuildInv, GuildTables
  <2>2. u # NoUser <=> u \in Users
    BY GuildCooldowns
  <2>3. cooldown' \in [Users -> GuildCool]
    BY <1>7, <2>1, <2>2
  <2>4. QED
    BY <1>2, <1>7, <2>1, <2>2, <2>3 DEF GuildInv, GuildTables
<1>9. calm => GuildWorks(b)
  BY <1>1 DEF GuildInv, GuildCalm
<1>10. calm => /\ u \in Users => linked[u] = m.account
               /\ GuildTold(m.account, m.roles)
  BY <1>2, <1>3, <1>4, <1>9, GuildCooldowns DEF GuildWorks
<1>11. calm' => \A v \in Users : linked'[v] = NoAccount => cooldown'[v] = "base"
  <2> SUFFICES ASSUME calm, NEW v \in Users, linked[v] = NoAccount PROVE cooldown'[v] = "base"
    BY <1>2
  <2>1. v # u
    BY <1>3, <1>10, GuildCooldowns
  <2>2. QED
    BY <1>8, <2>1 DEF GuildInv, GuildCalm
<1>12. ASSUME calm', NEW v \in Users, linked'[v] # NoAccount
       PROVE  GuildGood(v)' \/ GuildPends(linked'[v])
  <2>1. calm /\ linked'[v] = linked[v] /\ roles' = roles
    BY <1>2, <1>12
  <2>2. GuildGood(v) \/ GuildPends(linked[v])
    BY <1>1, <1>2, <1>12, <2>1, GuildBusyCalm DEF GuildLinkPcs
  <2>3. CASE v # u \/ cooldown'[v] = cooldown[v]
    BY <1>8, <2>1, <2>2, <2>3 DEF GuildRight, GuildGood
  <2>4. CASE v = u /\ cooldown'[v] = c
    BY <1>5, <1>10, <2>1, <2>4 DEF GuildTold, GuildRight, GuildGood
  <2>5. QED
    BY <1>8, <2>3, <2>4
<1>13. ASSUME b.alone, NEW v \in Users, linked[v] # NoAccount, roles[linked[v]] # "out"
       PROVE  IF linked[v] <= m.account THEN GuildRight(v)' ELSE cooldown'[v] = b.old[v]
  <2>1. GuildSynced(b)
    BY <1>1, <1>13 DEF GuildInv, GuildAlone
  <2>2. /\ m.roles = roles[m.account] /\ b.account < m.account
        /\ b.known[linked[v]] = v
        /\ IF linked[v] <= b.account THEN GuildRight(v) ELSE cooldown[v] = b.old[v]
    BY <1>2, <1>13, <2>1 DEF GuildSynced
  <2>3. u \in Users => linked[u] = m.account
    BY <1>2, <1>3, <1>4, <2>1, GuildCooldowns DEF GuildSynced
  <2>4. linked[v] \in Nat /\ linked[v] \in Accounts
    BY <1>13, GuildNumbers
  <2>5. linked' = linked /\ roles' = roles
    BY <1>2
  <2>6. CASE linked[v] <= b.account
    <3>1. v # u /\ linked[v] <= m.account
      BY <1>3, <2>2, <2>3, <2>4, <2>6
    <3>2. QED
      BY <1>8, <2>2, <2>5, <2>6, <3>1 DEF GuildRight, GuildGood
  <2>7. CASE ~(linked[v] <= b.account) /\ linked[v] <= m.account
    <3>1. b.account < linked[v]
      BY <1>3, <2>4, <2>7
    <3>2. \/ \E n \in b.members : n.account = linked[v]
          \/ \A n \in b.members : n.account < linked[v]
      BY <1>2, <1>13, <2>1, <2>4, <3>1 DEF GuildSynced
    <3>3. linked[v] = m.account
      <4>1. ~(m.account < linked[v])
        BY <1>3, <2>4, <2>7
      <4>2. PICK n \in b.members : n.account = linked[v]
        BY <3>2, <4>1
      <4>3. m.account <= linked[v]
        BY <1>6, <4>2
      <4>4. QED
        BY <1>3, <2>4, <2>7, <4>3
    <3>4. u = v
      BY <1>4, <2>2, <3>3
    <3>5. cooldown[v] = b.old[v]
      BY <2>2, <2>7
    <3>6. cooldown'[v] = c
      BY <1>8, <3>4, <3>5
    <3>7. QED
      BY <1>5, <2>2, <2>5, <2>7, <3>3, <3>6 DEF GuildRight, GuildGood
  <2>8. CASE ~(linked[v] <= m.account)
    <3>1. v # u /\ ~(linked[v] <= b.account)
      BY <1>3, <2>2, <2>3, <2>4, <2>8
    <3>2. QED
      BY <1>8, <2>2, <2>8, <3>1
  <2>9. QED
    BY <2>6, <2>7, <2>8
<1>14. calm' \in BOOLEAN /\ (calm' => calm) /\ b.alone \in BOOLEAN /\ repaired = FALSE
  BY <1>1, <1>2, GuildBooleans
<1>15. GuildKept /\ UNCHANGED <<states, online>> /\ guildJob[j].pc # "idle" /\ guildJob[j].alone = b.alone
  BY <1>1, <1>2 DEF GuildKept
<1>16. CASE b.members \ {m} = {} /\ b.last /\ D!Ends(j) /\ repaired' = (b.alone /\ TRUE)
  <2>1. PICK k \in GuildJob : k = D!Idle
    BY GuildIdle
  <2>2. guildJob' = [guildJob EXCEPT ![j] = k] /\ k.pc = "idle" /\ k.alone = FALSE /\ GuildShape(k)
    BY <1>16, <2>1, GuildIdle DEF D!Ends, D!Becomes
  <2>3. GuildWorks(k)'
    BY <2>2 DEF GuildWorks
  <2>4. ASSUME b.alone, NEW v \in Users, linked'[v] # NoAccount, roles[linked'[v]] # "out"
        PROVE  GuildRight(v)'
    <3>1. linked'[v] = linked[v]
      BY <1>2
    <3>2. linked[v] \in Nat /\ linked[v] \in Accounts
      BY <2>4, <3>1, GuildNumbers
    <3>3. linked[v] <= m.account
      <4>1. SUFFICES ASSUME ~(linked[v] <= m.account) PROVE FALSE
        OBVIOUS
      <4>2. GuildSynced(b)
        BY <1>1, <2>4 DEF GuildInv, GuildAlone
      <4>3. b.account < m.account
        BY <1>2, <4>2 DEF GuildSynced
      <4>4. b.account < linked[v]
        BY <1>3, <3>2, <4>1, <4>3
      <4>5. PICK n \in b.members : n.account = linked[v]
        BY <1>2, <1>16, <2>4, <3>1, <3>2, <4>2, <4>4 DEF GuildSynced
      <4>6. n = m
        BY <1>16, <4>5
      <4>7. QED
        BY <1>3, <4>1, <4>5, <4>6
    <3>4. QED
      BY <1>13, <2>4, <3>1, <3>3
  <2>5. repaired' \in BOOLEAN /\ (repaired' => b.alone)
    BY <1>14, <1>16
  <2>6. QED
    BY <1>8, <1>11, <1>12, <1>14, <1>15, <2>2, <2>3, <2>4, <2>5, GuildJobStep
<1>17. ASSUME ~(b.members \ {m} = {} /\ b.last), UNCHANGED repaired, NEW k \in GuildJob,
              GuildBehind(b, m, TRUE, k), guildJob' = [guildJob EXCEPT ![j] = k]
       PROVE  GuildInv'
  <2>1. /\ k.account = m.account /\ k.known = b.known /\ k.old = b.old
        /\ k.last = b.last /\ k.members = b.members \ {m} /\ k.alone = b.alone
        /\ k.pc \in {"page", "sync"}
    BY <1>14, <1>17 DEF GuildBehind
  <2>2. GuildShape(k)
    BY <2>1 DEF GuildShape
  <2>3. calm' => GuildWorks(k)'
    <3> SUFFICES ASSUME calm PROVE GuildWorks(k)'
      BY <1>14
    <3>1. \A d \in Accounts : b.known[d] # NoUser => linked'[b.known[d]] = d
      BY <1>2, <1>9 DEF GuildWorks
    <3>2. \A n \in b.members : GuildTold(n.account, n.roles)'
      BY <1>2, <1>9 DEF GuildWorks, GuildTold, GuildPends
    <3>3. QED
      BY <2>1, <3>1, <3>2 DEF GuildWorks
  <2>4. ASSUME b.alone PROVE GuildSynced(k)'
    <3>1. GuildSynced(b)
      BY <1>1, <2>4 DEF GuildInv, GuildAlone
    <3>2. \A v \in Users : linked'[v] # NoAccount => b.known[linked'[v]] = v
      BY <1>2, <3>1 DEF GuildSynced
    <3>3. \A d \in Accounts : b.known[d] # NoUser => linked'[b.known[d]] = d
      BY <1>2, <3>1 DEF GuildSynced
    <3>4. ASSUME NEW v \in Users, linked'[v] # NoAccount, roles'[linked'[v]] # "out"
          PROVE  IF linked'[v] <= m.account THEN GuildRight(v)' ELSE cooldown'[v] = b.old[v]
      BY <1>2, <1>13, <2>4, <3>4
    <3>5. ASSUME NEW n \in b.members \ {m}
          PROVE  n.roles = roles'[n.account] /\ n.roles # "out" /\ m.account < n.account
      <4>1. n.roles = roles[n.account] /\ n.roles # "out" /\ m.roles = roles[m.account]
        BY <1>2, <3>1 DEF GuildSynced
      <4>2. n.account # m.account
        <5>1. n \in GuildMember /\ m \in GuildMember
          BY <1>6
        <5>2. n.account = m.account => n = m
          BY <4>1, <5>1 DEF GuildMember
        <5>3. QED
          BY <5>2
      <4>3. m.account <= n.account /\ n.account \in Nat
        BY <1>6
      <4>4. QED
        BY <1>2, <1>3, <4>1, <4>2, <4>3
    <3>6. ASSUME NEW d \in Accounts, roles'[d] # "out", m.account < d
          PROVE  \/ \E n \in b.members \ {m} : n.account = d
                 \/ ~b.last /\ \A n \in b.members \ {m} : n.account < d
      <4>1. b.account < m.account
        BY <1>2, <3>1 DEF GuildSynced
      <4>2. b.account < d /\ d # m.account
        BY <1>3, <3>6, <4>1, GuildNumbers
      <4>3. \/ \E n \in b.members : n.account = d
            \/ ~b.last /\ \A n \in b.members : n.account < d
        BY <1>2, <3>1, <3>6, <4>2 DEF GuildSynced
      <4>4. QED
        BY <4>2, <4>3
    <3>7. QED
      BY <2>1, <3>2, <3>3, <3>4, <3>5, <3>6 DEF GuildSynced
  <2>5. repaired' = FALSE
    BY <1>14, <1>17
  <2>6. QED
    BY <1>8, <1>11, <1>12, <1>14, <1>15, <1>17, <2>1, <2>2, <2>3, <2>4, <2>5, GuildJobStep
<1>18. QED
  BY <1>1, <1>2, <1>16, <1>17, GuildPageGoesOn


-----------------------------------------------------------------------------
\* The session and its events

\* While the handler is at work, a calm bot does nothing else.
LEMMA GuildHandlerBusy ==
  ASSUME GuildInv, calm, handler.pc # "idle"
  PROVE  /\ \A i \in Requests : guildJob[i].pc = "idle"
         /\ GuildTold(handler.account, handler.roles)
         /\ handler.pc = "apply" => linked[handler.user] = handler.account
         /\ \A u \in Users : linked[u] = NoAccount => cooldown[u] = "base"
         /\ \A u \in Users : linked[u] # NoAccount =>
                GuildGood(u) \/ GuildPends(linked[u]) \/ handler.account = linked[u]
<1>1. \A i \in Requests : guildJob[i].pc = "idle"
  BY GuildBusy DEF GuildInv, GuildOne
<1>2. \A d \in Accounts : ~GuildLinking(d)
  BY <1>1 DEF GuildLinking
<1>3. \A u \in Users : linked[u] # NoAccount => linked[u] \in Accounts
  BY DEF GuildInv, GuildTables
<1>4. /\ GuildTold(handler.account, handler.roles)
      /\ handler.pc = "apply" => linked[handler.user] = handler.account
  BY DEF GuildInv, GuildHandles
<1>5. /\ \A u \in Users : linked[u] = NoAccount => cooldown[u] = "base"
      /\ \A u \in Users : linked[u] # NoAccount =>
             GuildGood(u) \/ GuildPends(linked[u]) \/ handler.account = linked[u]
  BY <1>2, <1>3 DEF GuildInv, GuildCalm
<1>6. QED
  BY <1>1, <1>4, <1>5

\* A step of the handler: what the invariant asks of it.
LEMMA GuildHandlerStep ==
  ASSUME GuildInv, handler.pc # "idle", NEW h \in GuildHandler, handler' = h,
         h.pc # "idle" => h.account \in Accounts, h.pc = "apply" => h.user \in Users,
         UNCHANGED <<roles, linked, states, online, events, guildJob, repaired>>,
         cooldown' \in [Users -> GuildCool], calm' \in BOOLEAN, calm' => calm,
         calm' /\ h.pc # "idle" => GuildTold(h.account, h.roles),
         calm' /\ h.pc = "apply" => linked[h.user] = h.account,
         calm' => \A u \in Users : linked[u] = NoAccount => cooldown'[u] = "base",
         calm' => \A u \in Users : linked[u] # NoAccount =>
                      \/ GuildGood(u)' \/ GuildPends(linked[u])
                      \/ h.pc # "idle" /\ h.account = linked[u]
  PROVE  GuildInv'
<1>1. GuildTables' /\ GuildBot' /\ GuildJobs'
  BY DEF GuildInv, GuildTables, GuildBot, GuildJobs
<1>2. (D!Busy)' = D!Busy
  BY DEF D!Busy
<1>3. GuildOne' /\ GuildEvents' /\ GuildHandles'
  <2>1. GuildOne'
    BY <1>2 DEF GuildInv, GuildOne
  <2>2. GuildEvents'
    BY DEF GuildInv, GuildEvents
  <2>3. GuildHandles'
    BY DEF GuildHandles, GuildTold, GuildPends
  <2>4. QED
    BY <2>1, <2>2, <2>3
<1>4. GuildCalm'
  <2> SUFFICES ASSUME calm' PROVE GuildCalm'
    BY DEF GuildCalm
  <2>1. \A i \in Requests : guildJob'[i].pc = "idle"
    BY GuildHandlerBusy
  <2>2. \A i \in Requests : GuildWorks(guildJob[i])'
    BY <2>1 DEF GuildWorks
  <2>3. \A u \in Users : linked[u] # NoAccount =>
            \/ GuildGood(u)' \/ GuildPends(linked[u])'
            \/ h.pc # "idle" /\ h.account = linked[u]
    BY DEF GuildPends
  <2>4. QED
    BY <2>2, <2>3 DEF GuildCalm
<1>5. \A i \in Requests : guildJob[i].alone = FALSE
  BY GuildBooleans DEF GuildInv, GuildAlone
<1>6. GuildAlone'
  BY <1>5 DEF GuildAlone
<1>7. GuildRepaired'
  BY DEF GuildInv, GuildRepaired
<1>8. QED
  BY <1>1, <1>3, <1>4, <1>6, <1>7 DEF GuildInv

LEMMA GuildIdleHandler == D!IdleHandler \in GuildHandler /\ D!IdleHandler.pc = "idle"
BY DEF D!IdleHandler, GuildHandler, GuildRoles

LEMMA GuildHandlerType ==
  ASSUME GuildInv
  PROVE  /\ handler \in GuildHandler /\ (handler.pc # "idle" => handler.account \in Accounts)
         /\ handler.pc = "apply" => handler.user \in Users
BY DEF GuildInv, GuildBot

LEMMA GuildHandlerFails == GuildInv /\ D!HandlerFails => GuildInv'
<1> SUFFICES ASSUME GuildInv, D!HandlerFails PROVE GuildInv'
  OBVIOUS
<1>1. /\ handler.pc # "idle" /\ handler' = D!IdleHandler /\ calm' = FALSE
      /\ UNCHANGED <<repaired, roles, linked, cooldown, states, online, events, guildJob>>
  BY DEF D!HandlerFails
<1>2. cooldown' \in [Users -> GuildCool]
  BY <1>1 DEF GuildInv, GuildTables
<1>3. PICK h \in GuildHandler : h = handler' /\ h.pc = "idle"
  BY <1>1, GuildIdleHandler
<1>4. QED
  BY <1>1, <1>2, <1>3, GuildHandlerStep

LEMMA GuildSelectForEvent == GuildInv /\ D!SelectForEvent => GuildInv'
<1> SUFFICES ASSUME GuildInv, D!SelectForEvent PROVE GuildInv'
  OBVIOUS
<1>1. PICK b \in GuildHandler : b = handler /\ (b.pc # "idle" => b.account \in Accounts)
  BY GuildHandlerType
<1>2. PICK found : found = D!OwnerOf(b.account)
  OBVIOUS
<1>3. /\ b.pc = "select" /\ b.account \in Accounts
      /\ UNCHANGED <<roles, linked, cooldown, states, online, events, guildJob, calm, repaired>>
      /\ handler' = IF \E u \in found : cooldown[u] # D!CooldownFor(b.roles)
                    THEN [b EXCEPT !.pc = "apply", !.user = CHOOSE u \in found : TRUE]
                    ELSE D!IdleHandler
  BY <1>1, <1>2 DEF D!SelectForEvent, D!history
<1>4. \A u \in Users : u \in found <=> linked[u] = b.account
  BY <1>2 DEF D!OwnerOf
<1>5. cooldown' \in [Users -> GuildCool] /\ calm' \in BOOLEAN
  BY <1>3 DEF GuildInv, GuildTables, GuildBot
<1>6. calm => /\ GuildTold(b.account, b.roles)
              /\ \A u \in Users : linked[u] = NoAccount => cooldown[u] = "base"
              /\ \A u \in Users : linked[u] # NoAccount =>
                     GuildGood(u) \/ GuildPends(linked[u]) \/ b.account = linked[u]
  BY <1>1, <1>3, GuildHandlerBusy
<1>7. \A u \in Users : GuildGood(u) => GuildGood(u)'
  BY <1>3 DEF GuildRight, GuildGood
<1>8. CASE ~ \E u \in found : cooldown[u] # D!CooldownFor(b.roles)
  <2>1. PICK h \in GuildHandler : h = handler' /\ h.pc = "idle"
    BY <1>3, <1>8, GuildIdleHandler
  <2>2. ASSUME calm, NEW u \in Users, linked[u] # NoAccount
        PROVE  GuildGood(u)' \/ GuildPends(linked[u])
    <3>1. CASE linked[u] = b.account
      BY <1>4, <1>6, <1>7, <1>8, <2>2, <3>1 DEF GuildTold, GuildRight, GuildGood
    <3>2. QED
      BY <1>6, <1>7, <2>2, <3>1
  <2>3. QED
    BY <1>1, <1>3, <1>5, <1>6, <2>1, <2>2, GuildHandlerStep
<1>9. CASE \E u \in found : cooldown[u] # D!CooldownFor(b.roles)
  <2>1. PICK v : v = CHOOSE u \in found : TRUE
    OBVIOUS
  <2>2. v \in found
    BY <1>9, <2>1
  <2>3. v \in Users /\ linked[v] = b.account
    BY <2>2, <1>2 DEF D!OwnerOf
  <2>4. PICK h : h = [b EXCEPT !.pc = "apply", !.user = v]
    OBVIOUS
  <2>5. h \in GuildHandler /\ h.pc = "apply" /\ h.user = v /\ h.account = b.account /\ h.roles = b.roles
    BY <2>3, <2>4 DEF GuildHandler
  <2>6. handler' = h
    BY <1>3, <1>9, <2>1, <2>4
  <2>7. QED
    BY <1>1, <1>3, <1>5, <1>6, <1>7, <2>3, <2>5, <2>6, GuildHandlerStep
<1>10. QED
  BY <1>8, <1>9

LEMMA GuildApplyForEvent == GuildInv /\ D!ApplyForEvent => GuildInv'
<1> SUFFICES ASSUME GuildInv, D!ApplyForEvent PROVE GuildInv'
  OBVIOUS
<1>1. PICK b \in GuildHandler : b = handler /\ b.pc = "apply" /\ b.account \in Accounts /\ b.user \in Users
  BY GuildHandlerType DEF D!ApplyForEvent
<1>2. PICK u \in Users, d \in Accounts : u = b.user /\ d = b.account
  BY <1>1
<1>3. /\ UNCHANGED <<roles, linked, states, online, events, guildJob, calm, repaired>>
      /\ handler' = D!IdleHandler
  BY DEF D!ApplyForEvent, D!history
<1>4. PICK c \in GuildCool : c = D!CooldownFor(b.roles)
  BY GuildCooldowns DEF GuildHandler
<1>5. cooldown' = [cooldown EXCEPT ![u] = c]
  BY <1>1, <1>2, <1>4 DEF D!ApplyForEvent
<1>6. /\ cooldown' \in [Users -> GuildCool] /\ cooldown'[u] = c
      /\ \A v \in Users : v # u => cooldown'[v] = cooldown[v]
  BY <1>5 DEF GuildInv, GuildTables
<1>7. PICK h \in GuildHandler : h = handler' /\ h.pc = "idle"
  BY <1>3, GuildIdleHandler
<1>8. calm => linked[u] = d /\ GuildTold(d, b.roles)
  BY <1>1, <1>2, GuildHandlerBusy
<1>9. calm' => \A v \in Users : linked[v] = NoAccount => cooldown'[v] = "base"
  BY <1>1, <1>3, <1>6, <1>8, GuildCooldowns, GuildHandlerBusy
<1>10. ASSUME calm', NEW v \in Users, linked[v] # NoAccount
       PROVE  GuildGood(v)' \/ GuildPends(linked[v])
  <2>1. CASE v = u
    BY <1>3, <1>4, <1>6, <1>8, <1>10, <2>1 DEF GuildTold, GuildRight, GuildGood
  <2>2. CASE v # u
    <3>1. linked[v] # d
      BY <1>3, <1>8, <1>10, <2>2 DEF GuildInv, GuildTables
    <3>2. GuildGood(v) \/ GuildPends(linked[v])
      BY <1>1, <1>2, <1>3, <1>10, <3>1, GuildHandlerBusy
    <3>3. QED
      BY <1>3, <1>6, <2>2, <3>2 DEF GuildRight, GuildGood
  <2>3. QED
    BY <2>1, <2>2
<1>11. calm' \in BOOLEAN
  BY <1>3, GuildBooleans
<1>12. QED
  BY <1>1, <1>3, <1>6, <1>7, <1>9, <1>10, <1>11, GuildHandlerStep

\* Nothing is alone any more: the jobs are as they were, but for that.
LEMMA GuildDisturbs ==
  ASSUME GuildInv, guildJob' = D!Disturbed
  PROVE  /\ GuildJobs' /\ (D!Busy)' = D!Busy
         /\ \A i \in Requests : /\ guildJob'[i].pc = guildJob[i].pc
                                /\ guildJob'[i].account = guildJob[i].account
                                /\ guildJob'[i].alone = FALSE
                                /\ guildJob'[i] = [guildJob[i] EXCEPT !.alone = FALSE]
         /\ GuildAlone'
         /\ \A d : GuildLinking(d)' <=> GuildLinking(d)
<1>1. guildJob \in [Requests -> GuildJob] /\ \A i \in Requests : GuildShape(guildJob[i])
  BY DEF GuildInv, GuildJobs
<1>2. guildJob' = [i \in Requests |-> [guildJob[i] EXCEPT !.alone = FALSE]]
  BY DEF D!Disturbed
<1>3. ASSUME NEW i \in Requests
      PROVE  /\ guildJob'[i] \in GuildJob /\ GuildShape(guildJob'[i])
             /\ guildJob'[i].pc = guildJob[i].pc /\ guildJob'[i].account = guildJob[i].account
             /\ guildJob'[i].alone = FALSE
             /\ guildJob'[i] = [guildJob[i] EXCEPT !.alone = FALSE]
  <2>1. PICK b \in GuildJob : b = guildJob[i] /\ GuildShape(b)
    BY <1>1
  <2>2. guildJob'[i] = [b EXCEPT !.alone = FALSE]
    BY <1>2, <2>1
  <2>3. QED
    BY <2>1, <2>2, GuildDisturbed
<1>4. guildJob' \in [Requests -> GuildJob]
  BY <1>2, <1>3
<1>5. GuildJobs'
  BY <1>3, <1>4 DEF GuildJobs
<1>6. (D!Busy)' = D!Busy
  BY <1>3 DEF D!Busy
<1>7. GuildAlone'
  BY <1>3 DEF GuildAlone
<1>8. \A d : GuildLinking(d)' <=> GuildLinking(d)
  BY <1>3 DEF GuildLinking
<1>9. QED
  BY <1>3, <1>5, <1>6, <1>7, <1>8

LEMMA GuildTakeEvent == GuildInv /\ D!TakeEvent => GuildInv'
<1> SUFFICES ASSUME GuildInv, D!TakeEvent PROVE GuildInv'
  OBVIOUS
<1>1. PICK e \in GuildMember : e = Head(events)
  BY DEF GuildInv, GuildBot, D!TakeEvent
<1>2. /\ online /\ handler.pc = "idle" /\ events # <<>> /\ events' = Tail(events)
      /\ guildJob' = D!Disturbed /\ repaired' = FALSE /\ calm' = (calm /\ D!Busy = {})
      /\ handler' = [D!IdleHandler EXCEPT !.pc = "select", !.account = e.account, !.roles = e.roles]
      /\ UNCHANGED <<roles, linked, cooldown, states, online>>
  BY <1>1 DEF D!TakeEvent
<1>3. PICK h : h = handler'
  OBVIOUS
<1>4. h \in GuildHandler /\ h.pc = "select" /\ h.account = e.account /\ h.roles = e.roles
  <2>1. h = [D!IdleHandler EXCEPT !.pc = "select", !.account = e.account, !.roles = e.roles]
    BY <1>2, <1>3
  <2>2. e.account \in Accounts /\ e.roles \in GuildRoles
    BY <1>1 DEF GuildMember
  <2>3. QED
    BY <2>1, <2>2 DEF D!IdleHandler, GuildHandler
<1>5. events \in Seq(GuildMember)
  BY DEF GuildInv, GuildBot
<1>6. /\ events' \in Seq(GuildMember) /\ Len(events) \in Nat /\ Len(events') = Len(events) - 1
      /\ DOMAIN events = 1..Len(events) /\ DOMAIN events' = 1..Len(events') /\ e = events[1]
      /\ \A i \in DOMAIN events' : i + 1 \in DOMAIN events /\ events'[i] = events[i + 1]
  BY <1>1, <1>2, <1>5
<1>7. GuildTables' /\ GuildBot'
  <2>1. calm' \in BOOLEAN
    BY <1>2, GuildBooleans
  <2>2. e.account \in Accounts
    BY <1>1 DEF GuildMember
  <2>3. GuildTables'
    BY <1>2 DEF GuildInv, GuildTables
  <2>4. QED
    BY <1>2, <1>3, <1>4, <1>6, <2>1, <2>2, <2>3 DEF GuildInv, GuildBot
<1>8. GuildJobs' /\ (D!Busy)' = D!Busy /\ GuildAlone'
  BY <1>2, GuildDisturbs
<1>9. GuildOne'
  BY <1>2, <1>8 DEF GuildOne
\* Whoever has an event among the others has one still.
<1>10. \A i \in DOMAIN events : i = 1 \/ (i - 1 \in DOMAIN events' /\ events'[i - 1] = events[i])
  <2> SUFFICES ASSUME NEW i \in DOMAIN events, i # 1
               PROVE  i - 1 \in DOMAIN events' /\ events'[i - 1] = events[i]
    OBVIOUS
  <2>1. i \in Nat /\ i - 1 \in 1..Len(events')
    BY <1>6
  <2>2. events'[i - 1] = events[(i - 1) + 1]
    BY <1>6, <2>1
  <2>3. QED
    BY <1>6, <2>1, <2>2
<1>11. \A d : GuildPends(d) => GuildPends(d)' \/ e.account = d
  BY <1>6, <1>10 DEF GuildPends
<1>12. GuildEvents'
  <2> SUFFICES ASSUME calm', NEW i \in DOMAIN events',
                      \A k \in DOMAIN events' : k > i => events'[k].account # events'[i].account
               PROVE  D!CooldownFor(events'[i].roles) = D!CooldownFor(roles[events'[i].account])
    BY <1>2 DEF GuildEvents
  <2>1. i + 1 \in DOMAIN events /\ events'[i] = events[i + 1] /\ i \in Nat
    BY <1>6
  <2>2. ASSUME NEW k \in DOMAIN events, k > i + 1
        PROVE  events[k].account # events[i + 1].account
    <3>1. k \in Nat /\ k # 1 /\ k - 1 > i
      BY <1>6, <2>1, <2>2
    <3>2. k - 1 \in DOMAIN events' /\ events'[k - 1] = events[k]
      BY <1>10, <3>1
    <3>3. QED
      BY <2>1, <3>1, <3>2
  <2>3. QED
    BY <1>2, <2>1, <2>2 DEF GuildInv, GuildEvents
<1>13. calm => GuildPends(e.account)' \/ D!CooldownFor(e.roles) = D!CooldownFor(roles[e.account])
  <2> SUFFICES ASSUME calm, ~GuildPends(e.account)'
               PROVE  D!CooldownFor(e.roles) = D!CooldownFor(roles[e.account])
    OBVIOUS
  <2>1. 1 \in DOMAIN events
    BY <1>2, <1>5, <1>6
  <2>2. \A k \in DOMAIN events : k > 1 => events[k].account # events[1].account
    BY <1>6, <1>10 DEF GuildPends
  <2>3. QED
    BY <1>6, <2>1, <2>2 DEF GuildInv, GuildEvents
<1>14. GuildHandles'
  BY <1>2, <1>3, <1>4, <1>13 DEF GuildHandles, GuildTold
<1>15. GuildCalm'
  <2> SUFFICES ASSUME calm' PROVE GuildCalm'
    BY DEF GuildCalm
  <2>1. calm /\ \A i \in Requests : guildJob[i].pc = "idle"
    BY <1>2, GuildBusy
  <2>2. \A i \in Requests : GuildWorks(guildJob[i])'
    BY <1>2, <2>1, GuildDisturbs DEF GuildWorks
  <2>3. \A u \in Users : linked[u] # NoAccount => GuildGood(u) \/ GuildPends(linked[u])
    BY <1>2, <2>1 DEF GuildInv, GuildCalm, GuildLinking
  <2>4. \A u \in Users : linked'[u] # NoAccount =>
            GuildGood(u)' \/ GuildPends(linked[u])' \/ handler'.account = linked'[u]
    BY <1>2, <1>3, <1>4, <1>11, <2>3 DEF GuildRight, GuildGood
  <2>5. \A u \in Users : linked'[u] = NoAccount => cooldown'[u] = "base"
    BY <1>2, <2>1 DEF GuildInv, GuildCalm
  <2>6. QED
    BY <1>3, <1>4, <2>2, <2>4, <2>5 DEF GuildCalm
<1>16. GuildRepaired'
  BY <1>2 DEF GuildRepaired
<1>17. QED
  BY <1>7, <1>8, <1>9, <1>12, <1>14, <1>15, <1>16 DEF GuildInv


\* The session ends: what was on its way is lost, and with it the calm.
LEMMA GuildDisconnect == GuildInv /\ D!Disconnect => GuildInv'
<1> SUFFICES ASSUME GuildInv, D!Disconnect PROVE GuildInv'
  OBVIOUS
<1>1. /\ online' = FALSE /\ events' = <<>> /\ calm' = (calm /\ events = <<>>)
      /\ UNCHANGED <<repaired, roles, linked, cooldown, states, handler, guildJob>>
  BY DEF D!Disconnect
<1>2. GuildTables' /\ GuildBot' /\ GuildJobs'
  <2>1. calm' \in BOOLEAN
    BY <1>1, GuildBooleans
  <2>2. <<>> \in Seq(GuildMember)
    OBVIOUS
  <2>3. QED
    BY <1>1, <2>1, <2>2 DEF GuildInv, GuildTables, GuildBot, GuildJobs
<1>3. (D!Busy)' = D!Busy
  BY <1>1 DEF D!Busy
<1>4. calm' => calm /\ events' = events
  BY <1>1
<1>5. GuildOne' /\ GuildEvents' /\ GuildHandles'
  BY <1>1, <1>3, <1>4 DEF GuildInv, GuildOne, GuildEvents, GuildHandles, GuildTold, GuildPends
<1>6. GuildCalm'
  BY <1>1, <1>4 DEF GuildInv, GuildCalm, GuildWorks, GuildTold, GuildPends, GuildRight, GuildGood, GuildLinking
<1>7. GuildAlone' /\ GuildRepaired'
  BY <1>1, <1>3 DEF GuildInv, GuildAlone, GuildRepaired, GuildSynced, GuildRight, GuildGood
<1>8. QED
  BY <1>2, <1>5, <1>6, <1>7 DEF GuildInv

\* A role changes: the session is told of it, unless it is down or the member
\* has just joined, who has the cooldown that he had before.
LEMMA GuildRoleChanges == ASSUME NEW d \in Accounts PROVE GuildInv /\ D!RoleChanges(d) => GuildInv'
<1> SUFFICES ASSUME GuildInv, D!RoleChanges(d) PROVE GuildInv'
  OBVIOUS
<1>1. PICK r \in GuildRoles :
         /\ roles' = [roles EXCEPT ![d] = r]
         /\ events' = IF online /\ roles[d] # "out" THEN Append(events, [account |-> d, roles |-> r])
                      ELSE events
         /\ roles[d] = "out" => r = "plain"
  BY ServicesAssumption DEF D!RoleChanges, GuildRoles
<1>2. /\ calm' = (calm /\ online) /\ repaired' = FALSE /\ guildJob' = D!Disturbed
      /\ UNCHANGED <<linked, cooldown, states, online, handler>>
  BY DEF D!RoleChanges
<1>3. /\ roles \in [Accounts -> GuildRoles] /\ events \in Seq(GuildMember)
      /\ linked \in [Users -> Accounts \cup {NoAccount}]
  BY DEF GuildInv, GuildTables, GuildBot
<1>4. PICK e \in GuildMember : e = [account |-> d, roles |-> r] /\ e.account = d /\ e.roles = r
  <2>1. [account |-> d, roles |-> r] \in GuildMember
    BY DEF GuildMember
  <2>2. QED
    BY <2>1
<1>5. /\ roles' \in [Accounts -> GuildRoles] /\ roles'[d] = r
      /\ \A a \in Accounts : a # d => roles'[a] = roles[a]
  BY <1>1, <1>3
<1>6. Append(events, e) \in Seq(GuildMember)
  BY <1>3
<1>7. GuildTables' /\ GuildBot'
  <2>1. calm' \in BOOLEAN
    BY <1>2, GuildBooleans
  <2>2. events' \in Seq(GuildMember)
    BY <1>1, <1>3, <1>4, <1>6
  <2>3. GuildTables'
    BY <1>2, <1>5 DEF GuildInv, GuildTables
  <2>4. QED
    BY <1>2, <2>1, <2>2, <2>3 DEF GuildInv, GuildBot
<1>8. GuildJobs' /\ (D!Busy)' = D!Busy /\ GuildAlone'
  BY <1>2, GuildDisturbs
<1>9. GuildOne' /\ GuildRepaired'
  BY <1>2, <1>8 DEF GuildInv, GuildOne, GuildRepaired
\* What was known is known still, or there is an event about it.
<1>10. DOMAIN events \subseteq DOMAIN events' /\ \A i \in DOMAIN events : events'[i] = events[i]
  BY <1>1, <1>3, <1>4
<1>11. \A a : GuildPends(a) => GuildPends(a)'
  BY <1>10 DEF GuildPends
<1>12. ASSUME calm', NEW a \in Accounts
       PROVE  GuildPends(a)' \/ D!CooldownFor(roles'[a]) = D!CooldownFor(roles[a])
  <2>1. CASE a # d
    BY <1>5, <2>1
  <2>2. CASE a = d /\ roles[d] = "out"
    BY <1>1, <1>5, <2>2 DEF D!CooldownFor
  <2>3. CASE a = d /\ roles[d] # "out"
    <3>1. events' = Append(events, e)
      BY <1>1, <1>2, <1>4, <1>12, <2>3
    <3>2. Len(events) + 1 \in DOMAIN events' /\ events'[Len(events) + 1] = e
      BY <1>3, <3>1
    <3>3. QED
      BY <1>4, <2>3, <3>2 DEF GuildPends
  <2>4. QED
    BY <2>1, <2>2, <2>3
<1>13. calm' => \A a \in Accounts : \A q : GuildTold(a, q) => GuildTold(a, q)'
  BY <1>11, <1>12 DEF GuildTold
<1>14. GuildEvents'
  <2> SUFFICES ASSUME calm', NEW i \in DOMAIN events',
                      \A k \in DOMAIN events' : k > i => events'[k].account # events'[i].account
               PROVE  D!CooldownFor(events'[i].roles) = D!CooldownFor(roles'[events'[i].account])
    BY DEF GuildEvents
  <2>1. CASE online /\ roles[d] # "out"
    <3>1. events' = Append(events, e)
      BY <1>1, <1>4, <2>1
    <3>2. /\ Len(events) \in Nat /\ i \in Nat /\ DOMAIN events = 1..Len(events)
          /\ i \in DOMAIN events \/ (i = Len(events) + 1 /\ events'[i] = e)
          /\ Len(events) + 1 \in DOMAIN events' /\ events'[Len(events) + 1] = e
      BY <1>3, <3>1
    <3>3. CASE i \in DOMAIN events
      <4>1. events'[i] = events[i] /\ events[i] \in GuildMember
        BY <1>3, <1>10, <3>3
      <4>2. events[i].account \in Accounts /\ events[i].account # d
        BY <1>4, <3>2, <3>3, <4>1 DEF GuildMember
      <4>3. \A k \in DOMAIN events : k > i => events[k].account # events[i].account
        BY <1>10, <4>1
      <4>4. QED
        BY <1>2, <1>5, <3>3, <4>1, <4>2, <4>3 DEF GuildInv, GuildEvents
    <3>4. CASE events'[i] = e
      BY <1>4, <1>5, <3>4
    <3>5. QED
      BY <3>2, <3>3, <3>4
  <2>2. CASE roles[d] = "out"
    <3>1. events' = events /\ events[i] \in GuildMember
      BY <1>1, <1>3, <2>2
    <3>2. \A a \in Accounts : D!CooldownFor(roles'[a]) = D!CooldownFor(roles[a])
      BY <1>1, <1>5, <2>2 DEF D!CooldownFor
    <3>3. events[i].account \in Accounts
      BY <3>1 DEF GuildMember
    <3>4. D!CooldownFor(events[i].roles) = D!CooldownFor(roles[events[i].account])
      BY <1>2, <3>1 DEF GuildInv, GuildEvents
    <3>5. QED
      BY <3>1, <3>2, <3>3, <3>4
  <2>3. QED
    BY <1>2, <2>1, <2>2
<1>15. GuildHandles'
  <2> SUFFICES ASSUME calm', handler.pc # "idle" PROVE GuildHandles'
    BY <1>2 DEF GuildHandles
  <2>1. /\ GuildTold(handler.account, handler.roles) /\ handler.account \in Accounts
        /\ handler.pc = "apply" => linked[handler.user] = handler.account
    BY <1>2, GuildHandlerType, GuildHandlerBusy
  <2>2. GuildTold(handler.account, handler.roles)'
    BY <1>2, <1>13, <2>1 DEF GuildTold, GuildPends
  <2>3. QED
    BY <1>2, <2>1, <2>2 DEF GuildHandles
<1>16. GuildCalm'
  <2> SUFFICES ASSUME calm' PROVE GuildCalm'
    BY DEF GuildCalm
  <2>1. ASSUME NEW i \in Requests PROVE GuildWorks(guildJob[i])'
    <3>1. PICK b \in GuildJob : b = guildJob[i] /\ GuildShape(b) /\ GuildWorks(b)
      BY <1>2, GuildBooleans DEF GuildInv, GuildCalm
    <3>2. PICK k : k = [b EXCEPT !.alone = FALSE]
      OBVIOUS
    <3>3. /\ k.pc = b.pc /\ k.user = b.user /\ k.account = b.account /\ k.roles = b.roles
          /\ k.members = b.members /\ k.known = b.known
      BY <3>2 DEF GuildJob
    <3>4. k = guildJob'[i]
      BY <1>2, <3>1, <3>2, GuildDisturbs
    <3>5. /\ b.pc = "member" => linked'[b.user] = b.account /\ cooldown'[b.user] = "base"
          /\ b.pc = "apply" => linked'[b.user] = b.account
          /\ b.pc \in {"page", "sync"} => \A a \in Accounts : b.known[a] # NoUser => linked'[b.known[a]] = a
      BY <1>2, <3>1 DEF GuildWorks
    <3>6. b.pc \in {"select", "apply"} => GuildTold(b.account, b.roles)'
      BY <1>13, <3>1 DEF GuildWorks, GuildShape
    <3>7. b.pc = "sync" => \A m \in b.members : GuildTold(m.account, m.roles)'
      <4> SUFFICES ASSUME b.pc = "sync", NEW m \in b.members PROVE GuildTold(m.account, m.roles)'
        OBVIOUS
      <4>1. m.account \in Accounts
        BY DEF GuildJob, GuildMember
      <4>2. QED
        BY <1>13, <3>1, <4>1 DEF GuildWorks
    <3>8. GuildWorks(k)'
      BY <3>3, <3>5, <3>6, <3>7 DEF GuildWorks, GuildTold, GuildPends
    <3>9. QED
      BY <3>4, <3>8
  <2>2. \A u \in Users : linked'[u] = NoAccount => cooldown'[u] = "base"
    BY <1>2 DEF GuildInv, GuildCalm
  <2>3. ASSUME NEW u \in Users, linked[u] # NoAccount
        PROVE  \/ GuildGood(u)' \/ GuildPends(linked[u])' \/ GuildLinking(linked[u])'
               \/ handler'.pc # "idle" /\ handler'.account = linked'[u]
    <3>1. PICK a \in Accounts : a = linked[u]
      BY <1>3, <2>3
    <3>2. \/ GuildGood(u) \/ GuildPends(a) \/ GuildLinking(a)
          \/ handler.pc # "idle" /\ handler.account = a
      BY <1>2, <2>3, <3>1 DEF GuildInv, GuildCalm
    <3>3. GuildGood(u) => GuildGood(u)' \/ GuildPends(a)'
      BY <1>2, <1>12, <3>1 DEF GuildRight, GuildGood
    <3>4. GuildLinking(a) => GuildLinking(a)'
      BY <1>2, GuildDisturbs
    <3>5. \/ GuildGood(u)' \/ GuildPends(a)' \/ GuildLinking(a)'
          \/ handler.pc # "idle" /\ handler.account = a
      BY <1>11, <3>2, <3>3, <3>4
    <3>6. QED
      BY <1>2, <3>1, <3>5 DEF GuildPends, GuildLinking
  <2>4. QED
    BY <1>2, <2>1, <2>2, <2>3 DEF GuildCalm
<1>17. QED
  BY <1>7, <1>8, <1>9, <1>14, <1>15, <1>16 DEF GuildInv

LEMMA GuildInit == D!Init => GuildInv
<1> SUFFICES ASSUME D!Init PROVE GuildInv
  OBVIOUS
<1>1. /\ roles \in [Accounts -> {"out", "booster"}]
      /\ linked = [u \in Users |-> NoAccount] /\ cooldown = [u \in Users |-> "base"]
      /\ states = [s \in LinkStates |-> NoUser]
      /\ online = FALSE /\ events = <<>> /\ handler = D!IdleHandler
      /\ guildJob = [j \in Requests |-> D!Idle] /\ calm = TRUE /\ repaired = FALSE
  BY DEF D!Init
<1>2. GuildTables
  BY <1>1, ServicesAssumption DEF GuildTables, GuildRoles, GuildCool
<1>3. <<>> \in Seq(GuildMember)
  OBVIOUS
<1>4. GuildBot
  BY <1>1, <1>3, GuildIdleHandler DEF GuildBot
<1>5. \A j \in Requests : guildJob[j] = D!Idle
  BY <1>1
<1>6. GuildJobs
  <2>1. guildJob \in [Requests -> GuildJob]
    BY <1>1, GuildIdle
  <2>2. QED
    BY <1>5, <2>1, GuildIdle DEF GuildJobs
<1>7. D!Busy = {}
  BY <1>5, GuildIdle DEF D!Busy
<1>8. GuildOne /\ GuildHandles
  BY <1>1, <1>7, GuildIdleHandler DEF GuildOne, GuildHandles
<1>9. GuildEvents
  BY <1>1 DEF GuildEvents
<1>10. GuildCalm
  BY <1>1, <1>5, GuildIdle DEF GuildCalm
<1>11. GuildAlone
  BY <1>5, GuildIdle DEF GuildAlone
<1>12. GuildRepaired
  BY <1>1 DEF GuildRepaired
<1>13. QED
  BY <1>2, <1>4, <1>6, <1>8, <1>9, <1>10, <1>11, <1>12 DEF GuildInv

LEMMA GuildNext == GuildInv /\ D!Next => GuildInv'
<1> SUFFICES ASSUME GuildInv, D!Next PROVE GuildInv'
  OBVIOUS
<1>1. ASSUME NEW j \in Requests, D!JobStep(j) PROVE GuildInv'
  BY <1>1, GuildCallback, GuildCheckTaken, GuildLink, GuildFetchMember, GuildSelectForLink,
     GuildApplyForLink, GuildAskUnlink, GuildUnlink, GuildConnect, GuildSelectLinked,
     GuildFetchPage, GuildSyncMember, GuildSyncFails, GuildFails
  DEF D!JobStep
<1>2. ASSUME NEW u \in Users, D!AuthUrl(u) PROVE GuildInv'
  BY <1>2, GuildAuthUrl
<1>3. ASSUME NEW d \in Accounts, D!RoleChanges(d) PROVE GuildInv'
  BY <1>3, GuildRoleChanges
<1>4. ASSUME NEW s \in LinkStates, D!StateExpires(s) PROVE GuildInv'
  BY <1>4, GuildStateExpires
<1>5. QED
  BY <1>1, <1>2, <1>3, <1>4, GuildTakeEvent, GuildSelectForEvent, GuildApplyForEvent,
     GuildHandlerFails, GuildDisconnect
  DEF D!Next

\* GuildInv holds throughout.
THEOREM DiscordInv == ServicesSpec => []GuildInv
<1>1. ServicesInit => GuildInv
  BY GuildInit DEF ServicesInit
<1>2. GuildInv /\ [ServicesNext]_servicesVars => GuildInv'
  <2> SUFFICES ASSUME GuildInv, [ServicesNext]_servicesVars PROVE GuildInv'
    OBVIOUS
  <2>1. CASE D!Next
    BY <2>1, GuildNext
  <2>2. CASE UNCHANGED guildVars
    <3>1. states' \in [LinkStates -> Users \cup {NoUser}]
      BY <2>2 DEF guildVars, GuildInv, GuildBot
    <3>2. QED
      BY <2>2, <3>1, GuildQuiet DEF guildVars
  <2>3. QED
    BY <2>1, <2>2 DEF ServicesNext, servicesVars
<1>3. QED
  BY <1>1, <1>2, PTL DEF ServicesSpec

\* The types of the Discord part.
THEOREM DiscordTypes == ServicesSpec => []D!DiscordTypeOK
<1>1. GuildInv => D!DiscordTypeOK
  BY DEF GuildInv, GuildTables, GuildBot, GuildRoles, GuildCool, D!DiscordTypeOK
<1>2. QED
  BY <1>1, DiscordInv, PTL

\* In a bot that nothing has escaped and where nothing has overlapped or failed,
\* an account without a link has the base cooldown, and a linked one that of its
\* roles once the events and the requests are through: with the override, the
\* special one, or the base one if he has not been come across yet.
THEOREM CooldownsFollow == ServicesSpec => []CooldownsFollowRoles
<1>1. ASSUME GuildInv, calm, NEW u \in Users
      PROVE  /\ linked[u] = NoAccount => cooldown[u] = "base"
             /\ linked[u] # NoAccount /\ D!Busy = {} /\ handler.pc = "idle" /\ events = <<>>
                    => \/ cooldown[u] = D!CooldownFor(roles[linked[u]])
                       \/ OverrideForSpecial /\ cooldown[u] = "base"
  <2>1. linked[u] = NoAccount => cooldown[u] = "base"
    BY <1>1 DEF GuildInv, GuildCalm
  <2>2. ASSUME linked[u] # NoAccount, D!Busy = {}, handler.pc = "idle", events = <<>>
        PROVE  GuildGood(u)
    <3>1. ~GuildPends(linked[u])
      BY <2>2 DEF GuildPends
    <3>2. ~GuildLinking(linked[u])
      BY <2>2, GuildBusy DEF GuildLinking
    <3>3. QED
      BY <1>1, <2>2, <3>1, <3>2 DEF GuildInv, GuildCalm
  <2>3. QED
    BY <2>1, <2>2 DEF GuildRight, GuildGood
<1>2. GuildInv => CooldownsFollowRoles
  BY <1>1 DEF CooldownsFollowRoles, D!CooldownsFollowRoles
<1>3. QED
  BY <1>2, DiscordInv, PTL

\* A sync that nothing disturbed leaves every linked member with the cooldown
\* of its roles, whatever was wrong before and however many pages there are.
THEOREM SyncsRepair == ServicesSpec => []SyncRepairs
<1>1. GuildInv => D!SyncRepairs
  BY DEF GuildInv, GuildRepaired, GuildRight, D!SyncRepairs
<1>2. GuildInv => SyncRepairs
  BY <1>1 DEF SyncRepairs
<1>3. QED
  BY <1>2, DiscordInv, PTL


-----------------------------------------------------------------------------
\* The regions

\* The operators of the instance are those of the lemmas.
LEMMA CityOperators ==
  /\ \A nodes, q : City!Nearest(nodes, q) = Nearest(nodes, q)
  /\ \A items : City!Build(items) = Build(items)
  /\ \A S, q : City!Closest(S, q) = Closest(S, q)
  /\ \A items : City!Elements(items) = Elements(items)
  /\ \A S : City!Bests(S) = Bests(S)
  /\ City!None = None
<1> USE DEF City!Square, Square, City!Distance, Distance, City!None, None, City!Bests, Bests,
            City!Elements, Elements, City!NextAxis, NextAxis, City!Axes, Axes
<1>1. \A nodes, q : City!Nearest(nodes, q) = Nearest(nodes, q)
  <2>1. ASSUME NEW S, NEW node, NEW q, NEW l, NEW r
        PROVE City!Visit(S, node, q, l, r) = Visit(S, node, q, l, r)
    BY Zenon DEF City!Visit, Visit, City!Views, Views
  <2>2. ASSUME NEW S PROVE [v \in City!Views(S) |-> v.best] = [v \in Views(S) |-> v.best]
    BY Zenon DEF City!Views, Views
  <2>3. ASSUME NEW S, NEW nodes, NEW q PROVE City!Visits(S, nodes, q) = Visits(S, nodes, q)
    BY ZenonT(60) DEF City!Visits, Visits, City!Visit, Visit, City!Views, Views
  <2>4. ASSUME NEW nodes PROVE City!ItemsOf(nodes) = ItemsOf(nodes)
    BY Zenon DEF City!ItemsOf, ItemsOf
  <2>5. QED
    BY <2>3, <2>4, Zenon DEF City!Nearest, Nearest
<1>2. \A items : City!Build(items) = Build(items)
  BY Zenon DEF City!Build, Build, City!Builds, Builds, City!Grown, Grown, City!Calls, Calls,
               City!SortOf, SortOf, City!Nth, Nth, City!Before, Before, City!Cardinality, Cardinality
<1>3. \A S, q : City!Closest(S, q) = Closest(S, q)
  BY Zenon DEF City!Closest, Closest
<1>4. /\ \A items : City!Elements(items) = Elements(items)
      /\ \A S : City!Bests(S) = Bests(S)
      /\ City!None = None
  BY Zenon
<1>5. QED
  BY <1>1, <1>2, <1>3, <1>4

\* What is right for some cities.
CityRight(cs, q, answer) ==
    IF cs = <<>> THEN answer = None ELSE \E c \in Closest(Elements(cs), q) : answer = <<c>>

LEMMA CityNearest ==
  ASSUME NEW cs \in Seq(Towns), NEW q \in Places
  PROVE  /\ CityRight(cs, q, Nearest(Build(cs), q))
         /\ Nearest(Build(cs), q) \in Bests(Towns)
<1>1. PICK n \in Nat : n = Len(cs) /\ cs \in [1..n -> Towns]
  BY LenProperties
<1>2. Elements(cs) \subseteq Towns /\ cs \in [1..n -> Elements(cs)]
  BY <1>1 DEF Elements
<1>3. Located(Elements(cs))
  <2>1. \A c \in Towns : c.at \in Int \X Int
    BY RegionsAssumption
  <2>2. \A c \in Towns : c.at[1] \in Int /\ c.at[2] \in Int
    BY <2>1
  <2>3. QED
    BY <2>2, <1>2 DEF Located
<1>4. q[1] \in Int /\ q[2] \in Int
  <2>1. q \in Int \X Int
    BY RegionsAssumption
  <2>2. QED
    BY <2>1
<1>5. IF n = 0 THEN Nearest(Build(cs), q) = None
      ELSE \E c \in Closest(Elements(cs), q) : Nearest(Build(cs), q) = <<c>>
  BY <1>1, <1>2, <1>3, <1>4, BuildThenNearest
<1>6. n = 0 <=> cs = <<>>
  BY <1>1
<1>7. \A c \in Closest(Elements(cs), q) : c \in Towns
  BY <1>2 DEF Closest
<1>8. QED
  BY <1>5, <1>6, <1>7 DEF CityRight, Bests

CityJobs == Requests \cup {City!Main}

\* A handler that is busy has a pixel; the one of the start looks nothing up.
CityAsks ==
    /\ \A h \in CityJobs : mapJob[h].pc # "idle" /\ h # City!Main => mapJob[h].pixel \in Pixels
    /\ mapJob[City!Main].pc \notin {"lookup", "memo"}

\* Without an overlap, what is about to be memoised is right, and so is the memo
\* when no load is about to clear it.
CityFound ==
    ~overlap => \A h \in CityJobs : mapJob[h].pc = "memo"
                                        => CityRight(held, mapJob[h].pixel, mapJob[h].answer)
CityMemo ==
    ~overlap /\ (\A h \in CityJobs : mapJob[h].pc # "clear")
        => \A p \in DOMAIN memo : CityRight(held, p, memo[p])

CityInv == City!RegionsTypeOK /\ CityAsks /\ tree = Build(held) /\ CityFound /\ CityMemo

CityJob == [pc : {"idle", "select", "store", "clear", "lookup", "memo"},
            pixel : Pixels \cup {<<>>}, rows : Seq(Towns), answer : Bests(Towns)]

LEMMA CityTypes ==
  City!RegionsTypeOK <=>
    /\ cities \in Seq(Towns) /\ held \in Seq(Towns) /\ loaded \in BOOLEAN /\ overlap \in BOOLEAN
    /\ DOMAIN memo \subseteq Pixels /\ memo \in [DOMAIN memo -> Bests(Towns)]
    /\ mapJob \in [CityJobs -> CityJob]
  BY CityOperators DEF City!RegionsTypeOK, CityJobs, CityJob

LEMMA CityInit == ServicesInit => CityInv
<1> SUFFICES ASSUME ServicesInit PROVE CityInv
  OBVIOUS
<1>1. /\ cities \in Maps /\ tree = <<>> /\ held = <<>> /\ memo = [p \in {} |-> None]
      /\ loaded = FALSE /\ overlap = FALSE
  BY CityOperators DEF ServicesInit, City!Init, City!NoTree, City!NoCache
<1>2. PICK idle : idle = [pc |-> "idle", pixel |-> <<>>, rows |-> <<>>, answer |-> None]
  OBVIOUS
<1>3. mapJob = [h \in CityJobs |-> IF h = City!Main THEN [idle EXCEPT !.pc = "select"] ELSE idle]
  BY <1>2, CityOperators DEF ServicesInit, City!Init, City!Idle, CityJobs
<1>4. idle \in CityJob /\ [idle EXCEPT !.pc = "select"] \in CityJob
  <2>1. <<>> \in Seq(Towns) /\ None \in Bests(Towns) /\ <<>> \in Pixels \cup {<<>>}
    BY DEF Bests
  <2>2. QED
    BY <1>2, <2>1 DEF CityJob
<1>5. cities \in Seq(Towns) /\ held \in Seq(Towns)
  BY <1>1, RegionsAssumption
<1>6. DOMAIN memo \subseteq Pixels /\ memo \in [DOMAIN memo -> Bests(Towns)]
  BY <1>1
<1>7. mapJob \in [CityJobs -> CityJob]
  BY <1>3, <1>4
<1>8. City!RegionsTypeOK
  BY <1>1, <1>5, <1>6, <1>7, CityTypes
<1>9. \A h \in CityJobs : mapJob[h].pc = IF h = City!Main THEN "select" ELSE "idle"
  BY <1>2, <1>3
<1>10. City!Main \in CityJobs
  BY DEF CityJobs
<1>11. CityAsks
  BY <1>9, <1>10 DEF CityAsks
<1>12. tree = Build(held)
  BY <1>1, BuildNothing
<1>13. CityFound /\ CityMemo
  BY <1>1, <1>9 DEF CityFound, CityMemo
<1>14. QED
  BY <1>8, <1>11, <1>12, <1>13 DEF CityInv

\* A step of one handler that stores no tree and touches no memo.
LEMMA CityQuiet ==
  ASSUME CityInv, NEW h \in CityJobs, NEW j \in CityJob, mapJob' = [mapJob EXCEPT ![h] = j],
         mapJob[h].pc # "clear",
         UNCHANGED <<tree, held, memo, overlap>>, cities' \in Seq(Towns), loaded' \in BOOLEAN,
         j.pc # "idle" /\ h # City!Main => j.pixel \in Pixels,
         h = City!Main => j.pc \notin {"lookup", "memo"},
         ~overlap /\ j.pc = "memo" => CityRight(held, j.pixel, j.answer)
  PROVE  CityInv'
<1>1. mapJob \in [CityJobs -> CityJob]
  BY CityTypes DEF CityInv
<1>2. mapJob' \in [CityJobs -> CityJob] /\ \A g \in CityJobs : mapJob'[g] = IF g = h THEN j ELSE mapJob[g]
  BY <1>1
<1>3. City!RegionsTypeOK'
  BY <1>2, CityTypes DEF CityInv, City!RegionsTypeOK, CityJobs, CityJob, City!Bests, Bests, City!None, None
<1>4. CityAsks'
  <2>1. City!Main \in CityJobs
    BY DEF CityJobs
  <2>2. \A g \in CityJobs : mapJob'[g].pc # "idle" /\ g # City!Main => mapJob'[g].pixel \in Pixels
    BY <1>2 DEF CityInv, CityAsks
  <2>3. mapJob'[City!Main].pc \notin {"lookup", "memo"}
    BY <1>2, <2>1 DEF CityInv, CityAsks
  <2>4. QED
    BY <2>2, <2>3 DEF CityAsks
<1>5. CityFound'
  BY <1>2 DEF CityInv, CityFound
<1>6. CityMemo'
  <2>1. ASSUME \A g \in CityJobs : mapJob'[g].pc # "clear" PROVE \A g \in CityJobs : mapJob[g].pc # "clear"
    BY <2>1, <1>2
  <2>2. QED
    BY <2>1 DEF CityInv, CityMemo
<1>7. QED
  BY <1>3, <1>4, <1>5, <1>6 DEF CityInv

LEMMA CityIdle ==
  /\ City!Idle \in CityJob /\ City!Idle.pc = "idle"
  /\ \A p \in Pixels, c \in {"lookup", "select"} :
        /\ [City!Idle EXCEPT !.pc = c, !.pixel = p] \in CityJob
        /\ [City!Idle EXCEPT !.pc = c, !.pixel = p].pc = c
        /\ [City!Idle EXCEPT !.pc = c, !.pixel = p].pixel = p
<1>1. <<>> \in Seq(Towns) /\ None \in Bests(Towns) /\ <<>> \in Pixels \cup {<<>>}
  BY DEF Bests
<1>2. City!Idle = [pc |-> "idle", pixel |-> <<>>, rows |-> <<>>, answer |-> None]
  BY CityOperators DEF City!Idle
<1>3. QED
  BY <1>1, <1>2 DEF CityJob

\* What a handler does after its load.
LEMMA CityAfter ==
  ASSUME NEW h \in CityJobs, NEW k \in CityJob, NEW j,
         j = (IF h = City!Main THEN City!Idle ELSE [k EXCEPT !.pc = "lookup", !.rows = <<>>]),
         h # City!Main => k.pixel \in Pixels
  PROVE  /\ j \in CityJob /\ j.pc \in {"idle", "lookup"}
         /\ j.pc # "idle" /\ h # City!Main => j.pixel \in Pixels
         /\ h = City!Main => j.pc = "idle"
<1>1. <<>> \in Seq(Towns)
  OBVIOUS
<1>2. CASE h = City!Main
  BY <1>2, CityIdle
<1>3. CASE h # City!Main
  BY <1>1, <1>3 DEF CityJob
<1>4. QED
  BY <1>2, <1>3

LEMMA CityNext == CityInv /\ City!Next => CityInv'
<1> SUFFICES ASSUME CityInv, City!Next PROVE CityInv'
  OBVIOUS
<1>1. /\ cities \in Seq(Towns) /\ held \in Seq(Towns) /\ loaded \in BOOLEAN /\ overlap \in BOOLEAN
      /\ DOMAIN memo \subseteq Pixels /\ memo \in [DOMAIN memo -> Bests(Towns)]
      /\ mapJob \in [CityJobs -> CityJob]
  BY CityTypes DEF CityInv
<1>2. DOMAIN mapJob = CityJobs
  BY <1>1
<1>3. ASSUME NEW h \in CityJobs, NEW p \in Pixels, City!Ask(h, p) PROVE CityInv'
  <2>1. PICK c \in {"lookup", "select"} : c = IF loaded THEN "lookup" ELSE "select"
    OBVIOUS
  <2>2. PICK j : j = [City!Idle EXCEPT !.pc = c, !.pixel = p]
    OBVIOUS
  <2>3. j \in CityJob /\ j.pc = c /\ j.pixel = p
    BY <2>2, CityIdle
  <2>4. mapJob' = [mapJob EXCEPT ![h] = j] /\ h # City!Main /\ mapJob[h].pc = "idle"
    BY <1>3, <2>1, <2>2 DEF City!Ask
  <2>5. cities' \in Seq(Towns) /\ loaded' \in BOOLEAN /\ UNCHANGED <<tree, held, memo, overlap>>
    BY <1>1, <1>3 DEF City!Ask
  <2>6. QED
    BY <2>3, <2>4, <2>5, CityQuiet
<1>4. ASSUME NEW h \in CityJobs, City!Select(h) PROVE CityInv'
  <2>1. PICK j : j = [mapJob[h] EXCEPT !.pc = "store", !.rows = cities]
    OBVIOUS
  <2>2. PICK k \in CityJob : k = mapJob[h]
    BY <1>1
  <2>3. j \in CityJob /\ j.pc = "store" /\ j.pixel = k.pixel
    BY <2>1, <2>2, <1>1 DEF CityJob
  <2>4. mapJob' = [mapJob EXCEPT ![h] = j] /\ mapJob[h].pc = "select"
    BY <1>4, <1>1, <2>1 DEF City!Select
  <2>5. cities' \in Seq(Towns) /\ loaded' \in BOOLEAN /\ UNCHANGED <<tree, held, memo, overlap>>
    BY <1>1, <1>4 DEF City!Select
  <2>6. h # City!Main => j.pixel \in Pixels
    BY <2>2, <2>3, <2>4 DEF CityInv, CityAsks
  <2>7. QED
    BY <2>3, <2>4, <2>5, <2>6, CityQuiet
<1>5. ASSUME NEW h \in CityJobs, City!SelectFails(h) PROVE CityInv'
  <2>1. PICK j : j = City!AfterLoad(h)
    OBVIOUS
  <2>2. PICK k \in CityJob : k = mapJob[h]
    BY <1>1
  <2>3. k.pc = "select" /\ (h # City!Main => k.pixel \in Pixels)
    BY <1>5, <2>2 DEF City!SelectFails, CityInv, CityAsks
  <2>4. j = IF h = City!Main THEN City!Idle ELSE [k EXCEPT !.pc = "lookup", !.rows = <<>>]
    BY <2>1, <2>2 DEF City!AfterLoad
  <2>5. /\ j \in CityJob /\ j.pc \in {"idle", "lookup"}
        /\ j.pc # "idle" /\ h # City!Main => j.pixel \in Pixels
        /\ h = City!Main => j.pc = "idle"
    BY <2>3, <2>4, CityAfter
  <2>6. mapJob' = [mapJob EXCEPT ![h] = j] /\ mapJob[h].pc = "select"
    BY <1>5, <2>1 DEF City!SelectFails
  <2>7. cities' \in Seq(Towns) /\ loaded' \in BOOLEAN /\ UNCHANGED <<tree, held, memo, overlap>>
    BY <1>1, <1>5 DEF City!SelectFails
  <2>8. QED
    BY <2>5, <2>6, <2>7, CityQuiet
<1>6. ASSUME NEW h \in CityJobs, City!Lookup(h) PROVE CityInv'
  <2>1. PICK k \in CityJob : k = mapJob[h] /\ k.pc = "lookup"
    BY <1>1, <1>6 DEF City!Lookup
  <2>2. h # City!Main /\ k.pixel \in Pixels
    BY <2>1 DEF CityInv, CityAsks
  <2>3. PICK a : a = Nearest(tree, k.pixel)
    OBVIOUS
  <2>4. a \in Bests(Towns) /\ CityRight(held, k.pixel, a)
    <3>1. PICK cs \in Seq(Towns) : cs = held
      BY <1>1
    <3>2. k.pixel \in Places
      BY <2>2, RegionsAssumption
    <3>3. CityRight(cs, k.pixel, Nearest(Build(cs), k.pixel)) /\ Nearest(Build(cs), k.pixel) \in Bests(Towns)
      BY <3>2, CityNearest
    <3>4. tree = Build(cs)
      BY <3>1 DEF CityInv
    <3>5. QED
      BY <2>3, <3>1, <3>3, <3>4
  <2>5. PICK j : j = IF k.pixel \in DOMAIN memo THEN City!Idle
                     ELSE [k EXCEPT !.pc = "memo", !.answer = a]
    OBVIOUS
  <2>6. /\ j \in CityJob
        /\ j.pc # "idle" => j.pixel = k.pixel
        /\ j.pc = "memo" => j.answer = a
    <3>1. CASE k.pixel \in DOMAIN memo
      BY <3>1, <2>5, CityIdle
    <3>2. CASE k.pixel \notin DOMAIN memo
      BY <3>2, <2>4, <2>5 DEF CityJob
    <3>3. QED
      BY <3>1, <3>2
  <2>7. mapJob' = [mapJob EXCEPT ![h] = j] /\ mapJob[h].pc = "lookup"
    BY <1>6, <2>1, <2>3, <2>5, CityOperators DEF City!Lookup
  <2>8. cities' \in Seq(Towns) /\ loaded' \in BOOLEAN /\ UNCHANGED <<tree, held, memo, overlap>>
    BY <1>1, <1>6 DEF City!Lookup
  <2>9. j.pc = "memo" => CityRight(held, j.pixel, j.answer)
    BY <2>4, <2>6
  <2>10. QED
    BY <2>2, <2>6, <2>7, <2>8, <2>9, CityQuiet
<1>7. ASSUME NEW c \in Towns, City!Import(c) PROVE CityInv'
  <2>1. /\ \/ cities' = Append(cities, c)
           \/ \E i \in DOMAIN cities : cities' = [cities EXCEPT ![i] = c]
        /\ UNCHANGED <<tree, held, memo, loaded, mapJob, overlap>>
    BY <1>7 DEF City!Import
  <2>2. cities' \in Seq(Towns)
    <3>1. CASE cities' = Append(cities, c)
      BY <1>1, <3>1
    <3>2. ASSUME NEW i \in DOMAIN cities, cities' = [cities EXCEPT ![i] = c]
          PROVE  cities' \in Seq(Towns)
      <4>1. PICK cs \in Seq(Towns) : cs = cities
        BY <1>1
      <4>2. i \in 1..Len(cs)
        BY <3>2, <4>1, LenProperties
      <4>3. [cs EXCEPT ![i] = c] \in Seq(Towns)
        BY <4>2, ExceptSeq
      <4>4. QED
        BY <3>2, <4>1, <4>3
    <3>3. QED
      BY <2>1, <3>1, <3>2
  <2>3. City!RegionsTypeOK'
    BY <2>1, <2>2 DEF CityInv, City!RegionsTypeOK
  <2>4. QED
    BY <2>1, <2>3 DEF CityInv, CityAsks, CityFound, CityMemo
<1>8. ASSUME NEW h \in CityJobs, City!StoreTree(h) PROVE CityInv'
  <2>1. PICK k \in CityJob : k = mapJob[h] /\ k.pc = "store"
    BY <1>1, <1>8 DEF City!StoreTree
  <2>2. PICK j : j = [k EXCEPT !.pc = "clear"]
    OBVIOUS
  <2>3. j \in CityJob /\ j.pc = "clear" /\ j.pixel = k.pixel
    BY <2>2 DEF CityJob
  <2>4. mapJob' = [mapJob EXCEPT ![h] = j]
    BY <1>8, <1>1, <2>1, <2>2 DEF City!StoreTree
  <2>5. /\ mapJob' \in [CityJobs -> CityJob]
        /\ \A g \in CityJobs : mapJob'[g] = IF g = h THEN j ELSE mapJob[g]
    BY <1>1, <2>3, <2>4
  <2>6. /\ tree' = Build(k.rows) /\ held' = k.rows
        /\ UNCHANGED <<cities, memo, loaded>>
        /\ overlap' = (overlap \/ \E g \in CityJobs : mapJob[g].pc = "memo")
    BY <1>8, <1>2, <2>1, CityOperators DEF City!StoreTree
  <2>7. k.rows \in Seq(Towns)
    BY DEF CityJob
  <2>8. City!RegionsTypeOK'
    BY <1>1, <2>5, <2>6, <2>7, CityOperators DEF City!RegionsTypeOK, CityJobs, CityJob
  <2>9. tree' = Build(held')
    BY <2>6
  <2>10. CityAsks'
    <3>1. City!Main \in CityJobs
      BY DEF CityJobs
    <3>2. \A g \in CityJobs : mapJob'[g].pc # "idle" /\ g # City!Main => mapJob'[g].pixel \in Pixels
      BY <2>1, <2>3, <2>5 DEF CityInv, CityAsks
    <3>3. mapJob'[City!Main].pc \notin {"lookup", "memo"}
      BY <2>3, <2>5, <3>1 DEF CityInv, CityAsks
    <3>4. QED
      BY <3>2, <3>3 DEF CityAsks
  <2>11. CityFound'
    <3>1. ~overlap' => \A g \in CityJobs : mapJob'[g].pc # "memo"
      BY <2>3, <2>5, <2>6
    <3>2. QED
      BY <3>1 DEF CityFound
  <2>12. CityMemo'
    BY <2>3, <2>5 DEF CityMemo
  <2>13. QED
    BY <2>8, <2>9, <2>10, <2>11, <2>12 DEF CityInv
<1>9. ASSUME NEW h \in CityJobs, City!ClearCache(h) PROVE CityInv'
  <2>1. PICK k \in CityJob : k = mapJob[h] /\ k.pc = "clear"
    BY <1>1, <1>9 DEF City!ClearCache
  <2>2. h # City!Main => k.pixel \in Pixels
    BY <2>1 DEF CityInv, CityAsks
  <2>3. PICK j : j = City!AfterLoad(h)
    OBVIOUS
  <2>4. j = IF h = City!Main THEN City!Idle ELSE [k EXCEPT !.pc = "lookup", !.rows = <<>>]
    BY <2>1, <2>3 DEF City!AfterLoad
  <2>5. /\ j \in CityJob /\ j.pc \in {"idle", "lookup"}
        /\ j.pc # "idle" /\ h # City!Main => j.pixel \in Pixels
        /\ h = City!Main => j.pc = "idle"
    BY <2>2, <2>4, CityAfter
  <2>6. mapJob' = [mapJob EXCEPT ![h] = j]
    BY <1>9, <2>3 DEF City!ClearCache
  <2>7. /\ mapJob' \in [CityJobs -> CityJob]
        /\ \A g \in CityJobs : mapJob'[g] = IF g = h THEN j ELSE mapJob[g]
    BY <1>1, <2>5, <2>6
  <2>8. /\ memo' = [p \in {} |-> None] /\ loaded' = TRUE
        /\ UNCHANGED <<cities, tree, held, overlap>>
    BY <1>9, CityOperators DEF City!ClearCache, City!NoCache
  <2>9. DOMAIN memo' = {} /\ memo' \in [DOMAIN memo' -> Bests(Towns)]
    BY <2>8
  <2>10. City!RegionsTypeOK'
    BY <1>1, <2>7, <2>8, <2>9, CityOperators DEF City!RegionsTypeOK, CityJobs, CityJob
  <2>11. CityAsks'
    <3>1. City!Main \in CityJobs
      BY DEF CityJobs
    <3>2. \A g \in CityJobs : mapJob'[g].pc # "idle" /\ g # City!Main => mapJob'[g].pixel \in Pixels
      BY <2>5, <2>7 DEF CityInv, CityAsks
    <3>3. mapJob'[City!Main].pc \notin {"lookup", "memo"}
      BY <2>5, <2>7, <3>1 DEF CityInv, CityAsks
    <3>4. QED
      BY <3>2, <3>3 DEF CityAsks
  <2>12. CityFound'
    BY <2>5, <2>7, <2>8 DEF CityInv, CityFound
  <2>13. CityMemo'
    BY <2>9 DEF CityMemo
  <2>14. tree' = Build(held')
    BY <2>8 DEF CityInv
  <2>15. QED
    BY <2>10, <2>11, <2>12, <2>13, <2>14 DEF CityInv
<1>10. ASSUME NEW h \in CityJobs, City!Memoise(h) PROVE CityInv'
  <2>1. PICK k \in CityJob : k = mapJob[h] /\ k.pc = "memo"
    BY <1>1, <1>10 DEF City!Memoise
  <2>2. h # City!Main /\ k.pixel \in Pixels
    BY <2>1 DEF CityInv, CityAsks
  <2>3. PICK j : j = City!Idle
    OBVIOUS
  <2>4. j \in CityJob /\ j.pc = "idle"
    BY <2>3, CityIdle
  <2>5. mapJob' = [mapJob EXCEPT ![h] = j]
    BY <1>10, <2>3 DEF City!Memoise
  <2>6. /\ mapJob' \in [CityJobs -> CityJob]
        /\ \A g \in CityJobs : mapJob'[g] = IF g = h THEN j ELSE mapJob[g]
    BY <1>1, <2>4, <2>5
  <2>7. /\ memo' = [p \in DOMAIN memo \cup {k.pixel} |-> IF p = k.pixel THEN k.answer ELSE memo[p]]
        /\ UNCHANGED <<cities, tree, held, loaded, overlap>>
    BY <1>10, <2>1 DEF City!Memoise
  <2>8. /\ DOMAIN memo' = DOMAIN memo \cup {k.pixel}
        /\ \A p \in DOMAIN memo' : memo'[p] = IF p = k.pixel THEN k.answer ELSE memo[p]
    BY <2>7
  <2>9. DOMAIN memo' \subseteq Pixels /\ memo' \in [DOMAIN memo' -> Bests(Towns)]
    <3>1. k.answer \in Bests(Towns)
      BY DEF CityJob
    <3>2. \A p \in DOMAIN memo : memo[p] \in Bests(Towns)
      BY <1>1
    <3>3. QED
      BY <1>1, <2>2, <2>7, <3>1, <3>2
  <2>10. City!RegionsTypeOK'
    BY <1>1, <2>6, <2>7, <2>9, CityOperators DEF City!RegionsTypeOK, CityJobs, CityJob
  <2>11. CityAsks'
    <3>1. City!Main \in CityJobs
      BY DEF CityJobs
    <3>2. \A g \in CityJobs : mapJob'[g].pc # "idle" /\ g # City!Main => mapJob'[g].pixel \in Pixels
      BY <2>4, <2>6 DEF CityInv, CityAsks
    <3>3. mapJob'[City!Main].pc \notin {"lookup", "memo"}
      BY <2>2, <2>6, <3>1 DEF CityInv, CityAsks
    <3>4. QED
      BY <3>2, <3>3 DEF CityAsks
  <2>12. CityFound'
    BY <2>4, <2>6, <2>7 DEF CityInv, CityFound
  <2>13. CityMemo'
    <3>1. ASSUME ~overlap, \A g \in CityJobs : mapJob'[g].pc # "clear", NEW p \in DOMAIN memo'
          PROVE  CityRight(held, p, memo'[p])
      <4>1. \A g \in CityJobs : mapJob[g].pc # "clear"
        BY <2>1, <2>6, <3>1
      <4>2. CityRight(held, k.pixel, k.answer)
        BY <2>1, <3>1 DEF CityInv, CityFound
      <4>3. \A x \in DOMAIN memo : CityRight(held, x, memo[x])
        BY <3>1, <4>1 DEF CityInv, CityMemo
      <4>4. QED
        BY <4>2, <4>3, <2>8
    <3>2. QED
      BY <3>1, <2>7 DEF CityMemo
  <2>14. tree' = Build(held')
    BY <2>7 DEF CityInv
  <2>15. QED
    BY <2>10, <2>11, <2>12, <2>13, <2>14 DEF CityInv
<1>11. QED
  BY <1>3, <1>4, <1>5, <1>6, <1>7, <1>8, <1>9, <1>10
     DEF City!Next, City!HandlerStep, CityJobs

LEMMA CityStays == CityInv /\ UNCHANGED mapVars => CityInv'
  BY DEF mapVars, CityInv, City!RegionsTypeOK, CityAsks, CityFound, CityMemo

\* The inductive invariant of the regions.
THEOREM RegionsInv == ServicesSpec => []CityInv
<1>1. ServicesInit => CityInv
  BY CityInit
<1>2. CityInv /\ [ServicesNext]_servicesVars => CityInv'
  BY CityNext, CityStays DEF ServicesNext, servicesVars
<1>3. QED
  BY <1>1, <1>2, PTL DEF ServicesSpec

\* Types of the regions.
THEOREM RegionsTypes == ServicesSpec => []City!RegionsTypeOK
<1>1. CityInv => City!RegionsTypeOK
  BY DEF CityInv
<1>2. QED
  BY <1>1, RegionsInv, PTL

\* The search finds a nearest city for every place and every table, whichever
\* half of the tree it leaves out; and without an overlap so does the memo.
THEOREM NearestAnswers == ServicesSpec => []AnswersAreNearest
<1>1. CityInv => AnswersAreNearest
  <2> SUFFICES ASSUME CityInv PROVE City!AnswersAreNearest
    BY DEF AnswersAreNearest
  <2>1. held \in Seq(Towns) /\ DOMAIN mapJob = CityJobs
    BY CityTypes DEF CityInv
  <2>2. ASSUME NEW q, NEW a PROVE City!Right(q, a) <=> CityRight(held, q, a)
    BY CityOperators DEF City!Right, City!Fallback, CityRight
  <2>3. ASSUME NEW q \in Places PROVE City!Right(q, City!Nearest(tree, q))
    <3>1. PICK cs \in Seq(Towns) : cs = held
      BY <2>1
    <3>2. PICK t : t = Build(cs)
      OBVIOUS
    <3>3. CityRight(cs, q, Nearest(t, q))
      BY <3>2, CityNearest
    <3>4. tree = t
      BY <3>1, <3>2 DEF CityInv
    <3>5. City!Nearest(tree, q) = Nearest(t, q)
      BY <3>4, CityOperators
    <3>6. QED
      BY <3>1, <3>3, <3>5, <2>2
  <2>4. ASSUME ~overlap, \A h \in DOMAIN mapJob : mapJob[h].pc # "clear", NEW p \in DOMAIN memo
        PROVE  City!Right(p, memo[p])
    BY <2>1, <2>2, <2>4 DEF CityInv, CityMemo
  <2>5. QED
    BY <2>3, <2>4 DEF City!AnswersAreNearest
<1>2. QED
  BY <1>1, RegionsInv, PTL

-----------------------------------------------------------------------------
\* The types of all parts

\* The sessions also start well when everybody has an account.
LEMMA LaterInv == Later!Init => Inv
<1> SUFFICES ASSUME Later!Init PROVE Inv
  OBVIOUS
<1> USE DEF Later!Init, Later!IdleJob
<1>1. \A r \in Requests : job[r] = IdleJob /\ IdleJob \in JobType
  BY DEF JobType, IdleJob, AwaitPoints
<1>2. AccessTypeOK
  BY <1>1, AccessAssumption DEF AccessTypeOK, AwaitPoints
<1>3. JobsCoherent /\ FreshAgainIsExcused
  BY <1>1 DEF JobsCoherent, Coherent, FreshAgainIsExcused, IdleJob, WithSession, WithUser
<1>4. OnlyGiven /\ FreshIsIndexed /\ EndedSessionsAreRefused /\ TokensUnspent
  BY DEF OnlyGiven, FreshIsIndexed, EndedSessionsAreRefused, TokensUnspent
<1>5. QED
  BY <1>2, <1>3, <1>4 DEF Inv

\* The invariant of the sessions holds under the composition as well.
THEOREM SessionsInv == ServicesSpec => []Inv
<1>1. ServicesInit => Inv
  BY InitInv, LaterInv DEF ServicesInit
<1>2. Inv /\ [ServicesNext]_servicesVars => Inv'
  BY NextInv DEF ServicesNext, servicesVars
<1>3. QED
  BY <1>1, <1>2, PTL DEF ServicesSpec

\* Whatever part is looked at, its variables have their types.
THEOREM ServicesTypes == ServicesSpec => []ServicesTypeOK
<1>1. ServicesSpec => []AccessTypeOK
  <2>1. Inv => AccessTypeOK
    BY DEF Inv
  <2>2. QED
    BY <2>1, SessionsInv, PTL
<1>2. /\ AccessTypeOK /\ M!ModerationTypeOK /\ B!AntibotTypeOK /\ D!DiscordTypeOK
      /\ G!MigrationTypeOK /\ City!RegionsTypeOK
      => ServicesTypeOK
  BY DEF ServicesTypeOK
<1>3. QED
  BY <1>1, <1>2, ModerationTypes, AntibotTypes, DiscordTypes, MigrationTypes, RegionsTypes,
     PTL
=============================================================================
