------------------------- MODULE UserAccountProofs -------------------------
(***************************************************************************)
(* Theorems about UserAccount, for every value of its constants.           *)
(***************************************************************************)
EXTENDS UserAccount, FiniteSetTheorems, TLAPS

-----------------------------------------------------------------------------
\* Arithmetic of charges and rewards.

LEMMA ProductType == ASSUME NEW a \in Nat, NEW b \in Nat PROVE a * b \in Nat
BY SMT

LEMMA Distribute ==
    ASSUME NEW a \in Nat, NEW b \in Nat, NEW c \in Nat
    PROVE  a * (b - c) = a * b - a * c /\ a * (b - c) \in Int
BY SMT

LEMMA CostType ==
    ASSUME NEW j, j.n \in Nat PROVE Cost(j) \in Nat
<1>1. Full \in Nat /\ Discounted \in Nat
  BY AccountAssumption
<1>2. CASE j.flag \in j.snap.unlocked
  BY <1>1, <1>2, ProductType DEF Cost
<1>3. CASE j.flag \notin j.snap.unlocked
  BY <1>1, <1>3, ProductType DEF Cost
<1>4. QED
  BY <1>2, <1>3

LEMMA RewardType ==
    ASSUME NEW p \in Nat, NEW n \in Nat
    PROVE  LevelsGained(p, n) \in Nat /\ Reward(p, n) \in Nat
<1>1. IsFiniteSet({k \in LevelAt : p < k /\ k <= p + n})
  BY FS_Subset, AccountAssumption
<1>2. LevelsGained(p, n) \in Nat
  BY <1>1, FS_CardinalityType DEF LevelsGained
<1>3. n * PixelReward \in Nat /\ LevelDroplets \in Nat
  BY ProductType, AccountAssumption
<1>4. QED
  BY <1>2, <1>3 DEF Reward

\* What is available is at most what was left plus what was regenerated.
LEMMA AvailableBound ==
    ASSUME NEW s \in Users, NEW t \in Nat
    PROVE  /\ Available(s, t) \in Int
           /\ Available(s, t) + Regen * s.at <= s.charges + Regen * t
<1>1. s.at \in Nat /\ s.charges \in Int /\ s.max \in Nat /\ Regen \in Nat
  BY AccountAssumption DEF Users
<1>2. Regen * (t - s.at) = Regen * t - Regen * s.at /\ Regen * (t - s.at) \in Int
  BY <1>1, Distribute
<1>3. Regen * t \in Nat /\ Regen * s.at \in Nat
  BY <1>1, ProductType
<1>4. QED
  BY <1>1, <1>2, <1>3 DEF Available, LesserOf

LEMMA RegeneratedBound ==
    ASSUME NEW s \in Users, NEW t \in Nat, s.at <= t, s.charges >= 0
    PROVE  /\ Regenerated(s, t) \in Int /\ Regenerated(s, t) >= 0
           /\ Regenerated(s, t) + Regen * s.at <= s.charges + Regen * t
<1>1. s.at \in Nat /\ s.charges \in Int /\ s.max \in Nat /\ Regen \in Nat /\ t - s.at \in Nat
  BY AccountAssumption DEF Users
<1>2. Regen * (t - s.at) = Regen * t - Regen * s.at /\ Regen * (t - s.at) \in Nat
  BY <1>1, Distribute, ProductType
<1>3. Regen * t \in Nat /\ Regen * s.at \in Nat
  BY <1>1, ProductType
<1>4. QED
  BY <1>1, <1>2, <1>3 DEF Regenerated, LesserOf

-----------------------------------------------------------------------------
\* Copies of the row stay old.

LEMMA KnownGrows ==
    ASSUME NEW s, NEW t \in Nat, NEW b, NEW e \in Nat,
           NEW t2 \in Nat, NEW b2, NEW e2 \in Nat,
           Known(s, t, b, e), t <= t2, b \subseteq b2, e <= e2
    PROVE  Known(s, t2, b2, e2)
<1>1. s \in Users /\ s.at \in Nat /\ s.droplets \in Int /\ StartDroplets \in Nat
  BY AccountAssumption DEF Known, Users
<1>2. QED
  BY <1>1 DEF Known

LEMMA SoundGrows ==
    ASSUME NEW j \in Jobs, NEW t \in Nat, NEW b, NEW e \in Nat,
           NEW t2 \in Nat, NEW b2, NEW e2 \in Nat,
           Sound(j, t, b, e), t <= t2, b \subseteq b2, e <= e2
    PROVE  Sound(j, t2, b2, e2)
<1>1. j.when \in Nat
  BY DEF Jobs
<1>2. Known(j.snap, t, b, e) => Known(j.snap, t2, b2, e2)
  BY KnownGrows
<1>3. QED
  BY <1>1, <1>2 DEF Sound

LEMMA IdleIsSound ==
    ASSUME NEW t, NEW b, NEW e PROVE IdleJob \in Jobs /\ Sound(IdleJob, t, b, e)
BY DEF IdleJob, Jobs, Pcs, Orders, Sound

LEMMA DecidedIsSound ==
    ASSUME NEW j \in Jobs, OrderOK(j), NEW s, now \in Nat, NEW b, NEW e,
           Known(s, now, b, e)
    PROVE  Decided(j, s) \in Jobs /\ Sound(Decided(j, s), now, b, e)
<1>0. CASE j.op = "enter"
  <2> DEFINE k == [j EXCEPT !.op = "paint", !.pc = "enter", !.snap = NoUser]
  <2>1. k \in Jobs /\ k.pc = "enter" /\ k.op = "paint" /\ k.n = j.n /\ k.item = j.item
    BY DEF Jobs, Pcs, Orders
  <2>2. OrderOK(k)
    BY <1>0, <2>1 DEF OrderOK
  <2>3. Decided(j, s) \in {k, IdleJob}
    BY <1>0 DEF Decided
  <2> HIDE DEF k
  <2>4. Sound(k, now, b, e)
    BY <2>1, <2>2 DEF Sound
  <2>5. QED
    BY <2>1, <2>3, <2>4, IdleIsSound
<1>1. CASE j.op = "paint" /\ s.banned
  BY <1>1 DEF Decided, IdleJob, Jobs, Pcs, Orders, Sound
<1>2. CASE j.op # "enter" /\ ~(j.op = "paint" /\ s.banned) /\ Passes(j, s)
  <2> DEFINE k == [j EXCEPT !.pc = "write", !.snap = s, !.when = now]
  <2>1. k = Decided(j, s)
    BY <1>2 DEF Decided
  <2>2. k \in Jobs
    BY DEF Jobs, Pcs, Known
  <2>3. k.op = j.op /\ k.n = j.n /\ k.item = j.item /\ k.snap = s /\ k.when = now /\ k.pc = "write"
    BY DEF Jobs
  <2>4. OrderOK(k)
    BY <2>3 DEF OrderOK
  <2>5. s.at \in Nat /\ s.at <= now
    BY DEF Known, Users
  <2>6. j.op = "paint" => Unlocked(s, j.item)
    BY <1>2 DEF Passes
  <2>7. j.op = "equip" => j.item \in s.unlocked
    BY <1>2 DEF Passes
  <2>8. Known(k.snap, now, b, e) /\ k.snap.at <= k.when /\ k.when <= now
    BY <2>3, <2>5
  <2>9. (k.op = "paint" => Unlocked(k.snap, k.item)) /\ (k.op = "equip" => k.item \in k.snap.unlocked)
    BY <2>3, <2>6, <2>7
  <2> HIDE DEF k
  <2>10. Sound(k, now, b, e)
    BY <2>3, <2>4, <2>8, <2>9 DEF Sound
  <2>11. QED
    BY <2>1, <2>2, <2>10
<1>3. CASE j.op # "enter" /\ ~(j.op = "paint" /\ s.banned) /\ ~Passes(j, s)
  BY <1>3, IdleIsSound DEF Decided
<1>4. QED
  BY <1>0, <1>1, <1>2, <1>3

-----------------------------------------------------------------------------
\* The steps

\* What every step has in common: one job moves on, and whatever it leaves in
\* the row or in the cache is old, or not older than now.
LEMMA Frame ==
    ASSUME StateOK, CopiesAreOld, NEW r \in Requests, NEW k \in Jobs,
           job' = [job EXCEPT ![r] = k],
           now' = now, bought \subseteq bought', bought' \in SUBSET Unlockables,
           enjoyed' \in SUBSET Unlockables, undone' \in BOOLEAN, ops' \in Nat,
           ledger' \in Ledgers, ledger.earned <= ledger'.earned,
           Known(row', now, bought', ledger'.earned),
           cache' = NoUser \/ Known(cache', now, bought', ledger'.earned),
           Sound(k, now, bought', ledger'.earned)
    PROVE  StateOK' /\ CopiesAreOld'
<1>1. now \in Nat /\ ledger.earned \in Nat /\ ledger'.earned \in Nat /\ job \in [Requests -> Jobs]
  BY DEF StateOK, Ledgers
<1>2. StateOK'
  BY <1>1 DEF StateOK, Known
<1>3. ASSUME NEW q \in Requests PROVE Sound(job'[q], now, bought', ledger'.earned)
  <2>1. CASE q = r
    BY <1>1, <2>1
  <2>2. CASE q # r
    <3>1. Sound(job[q], now, bought, ledger.earned) /\ job[q] \in Jobs /\ job'[q] = job[q]
      BY <1>1, <2>2 DEF CopiesAreOld
    <3>2. QED
      BY <1>1, <3>1, SoundGrows
  <2>3. QED
    BY <2>1, <2>2
<1>4. CopiesAreOld'
  BY <1>3 DEF CopiesAreOld
<1>5. QED
  BY <1>2, <1>4

\* The old row and the old entry are old after a step that adds to the books.
LEMMA OldStaysOld ==
    ASSUME StateOK, CopiesAreOld, bought \subseteq bought',
           ledger' \in Ledgers, ledger.earned <= ledger'.earned
    PROVE  /\ Known(row, now, bought', ledger'.earned)
           /\ cache = NoUser \/ Known(cache, now, bought', ledger'.earned)
<1>1. now \in Nat /\ ledger.earned \in Nat /\ ledger'.earned \in Nat
  BY DEF StateOK, Ledgers
<1>2. QED
  BY <1>1, KnownGrows DEF CopiesAreOld

\* A request that only moves on, and may put a copy into the cache.
LEMMA QuietFrame ==
    ASSUME StateOK, CopiesAreOld, NEW r \in Requests, NEW k \in Jobs,
           job' = [job EXCEPT ![r] = k], UNCHANGED <<now, row, books>>, ops' \in Nat,
           cache' \in {cache, NoUser} \/ Known(cache', now, bought, ledger.earned),
           Sound(k, now, bought, ledger.earned)
    PROVE  StateOK' /\ CopiesAreOld'
<1>1. now' = now /\ row' = row /\ bought' = bought /\ ledger' = ledger /\ enjoyed' = enjoyed
      /\ undone' = undone /\ ledger \in Ledgers /\ ledger.earned \in Nat
      /\ bought \in SUBSET Unlockables /\ enjoyed \in SUBSET Unlockables /\ undone \in BOOLEAN
  BY DEF books, StateOK, Ledgers
<1>2. Known(row, now, bought, ledger.earned)
      /\ (cache = NoUser \/ Known(cache, now, bought, ledger.earned))
  BY DEF CopiesAreOld
<1>3. cache' = NoUser \/ Known(cache', now, bought, ledger.earned)
  BY <1>2
<1>4. ledger.earned <= ledger.earned
  BY <1>1
<1>5. QED
  BY <1>1, <1>2, <1>3, <1>4, Frame

\* Jobs that start.
LEMMA StartedKeeps ==
    ASSUME StateOK, CopiesAreOld, NEW r \in Requests, NEW j \in Jobs,
           Sound(j, now, bought, ledger.earned), Started(r, j)
    PROVE  StateOK' /\ CopiesAreOld'
<1>1. ops' \in Nat
  BY DEF Started, StateOK
<1>2. QED
  BY <1>1, QuietFrame DEF Started

LEMMA LookupKeeps ==
    ASSUME StateOK, CopiesAreOld, NEW r \in Requests, NEW j \in Jobs,
           OrderOK(j), Lookup(r, j)
    PROVE  StateOK' /\ CopiesAreOld'
<1>1. CASE cache # NoUser
  <2>1. now \in Nat /\ Known(cache, now, bought, ledger.earned)
    BY <1>1 DEF StateOK, CopiesAreOld
  <2>2. Decided(j, cache) \in Jobs /\ Sound(Decided(j, cache), now, bought, ledger.earned)
    BY <2>1, DecidedIsSound
  <2>3. QED
    BY <1>1, <2>2, StartedKeeps DEF Lookup
<1>2. CASE cache = NoUser
  <2> DEFINE k == [j EXCEPT !.pc = "load"]
  <2>1. k \in Jobs /\ Sound(k, now, bought, ledger.earned)
    BY DEF Jobs, Pcs, Sound, OrderOK
  <2>2. QED
    BY <1>2, <2>1, StartedKeeps DEF Lookup
<1>3. QED
  BY <1>1, <1>2

LEMMA AskKeeps ==
    ASSUME StateOK, CopiesAreOld, NEW r \in Requests, Ask(r)
    PROVE  StateOK' /\ CopiesAreOld'
<1>1. Batches \subseteq Nat /\ Grants \subseteq Int /\ Nat \subseteq Int
  BY AccountAssumption
<1>j. IdleJob \in Jobs
  BY IdleIsSound
<1>2. CASE AskPaint(r)
  <2>1. PICK n \in Batches, c \in Colors \cup {Free}, f \in Flags \cup {Free} :
            Lookup(r, [IdleJob EXCEPT !.op = "enter", !.n = n, !.item = c, !.flag = f])
    BY <1>2 DEF AskPaint
  <2> DEFINE j == [IdleJob EXCEPT !.op = "enter", !.n = n, !.item = c, !.flag = f]
  <2>2. j \in Jobs /\ OrderOK(j)
    BY <1>1, <1>j DEF Jobs, Orders, OrderOK, Items
  <2>3. QED
    BY <2>1, <2>2, LookupKeeps
<1>3. CASE AskPurchase(r)
  <2>1. PICK n \in Batches, i \in Items :
            Lookup(r, [IdleJob EXCEPT !.op = "purchase", !.n = n, !.item = i])
    BY <1>3 DEF AskPurchase
  <2> DEFINE j == [IdleJob EXCEPT !.op = "purchase", !.n = n, !.item = i]
  <2>2. j \in Jobs /\ OrderOK(j)
    BY <1>1, <1>j DEF Jobs, Orders, OrderOK
  <2>3. QED
    BY <2>1, <2>2, LookupKeeps
<1>4. ASSUME NEW f \in Flags, Lookup(r, [IdleJob EXCEPT !.op = "equip", !.item = f])
      PROVE  StateOK' /\ CopiesAreOld'
  <2> DEFINE j == [IdleJob EXCEPT !.op = "equip", !.item = f]
  <2>1. j \in Jobs /\ OrderOK(j)
    BY <1>j DEF Jobs, Orders, OrderOK, Items
  <2>2. QED
    BY <1>4, <2>1, LookupKeeps
<1>5. ASSUME NEW o \in {"unequip", "view"}, Lookup(r, [IdleJob EXCEPT !.op = o])
      PROVE  StateOK' /\ CopiesAreOld'
  <2> DEFINE j == [IdleJob EXCEPT !.op = o]
  <2>1. j \in Jobs /\ OrderOK(j)
    BY DEF IdleJob, Jobs, Pcs, Orders, OrderOK
  <2>2. QED
    BY <1>5, <2>1, LookupKeeps
<1>6. ASSUME NEW o \in {"picture", "update", "ban", "unban", "timeout", "lift"},
             NEW c \in {"check", "write"}, c = "check" => o = "picture",
             Started(r, [IdleJob EXCEPT !.op = o, !.pc = c])
      PROVE  StateOK' /\ CopiesAreOld'
  <2> DEFINE j == [IdleJob EXCEPT !.op = o, !.pc = c]
  <2>1. j \in Jobs /\ Sound(j, now, bought, ledger.earned)
    BY <1>6, <1>j DEF Jobs, Pcs, Orders, Sound, OrderOK
  <2>2. QED
    BY <1>6, <2>1, StartedKeeps
<1>7. ASSUME NEW d \in Int, Started(r, [IdleJob EXCEPT !.op = "grant", !.pc = "write", !.n = d])
      PROVE  StateOK' /\ CopiesAreOld'
  <2> DEFINE j == [IdleJob EXCEPT !.op = "grant", !.pc = "write", !.n = d]
  <2>1. j \in Jobs /\ Sound(j, now, bought, ledger.earned)
    BY <1>j DEF Jobs, Pcs, Orders, Sound, OrderOK
  <2>2. QED
    BY <1>7, <2>1, StartedKeeps
<1>8. CASE AskFlag(r) \/ AskProfile(r)
  BY <1>4, <1>5, <1>8 DEF AskFlag, AskProfile
<1>9. CASE AskPicture(r) \/ AskUpdate(r) \/ AskSanction(r)
  BY <1>6, <1>9 DEF AskPicture, AskUpdate, AskSanction
<1>10. CASE AskGrant(r)
  BY <1>1, <1>7, <1>10 DEF AskGrant
<1>11. QED
  BY <1>2, <1>3, <1>8, <1>9, <1>10 DEF Ask

\* A request that goes on to look at the row again, or to the cache.
LEMMA GoesOn ==
    ASSUME StateOK, NEW r \in Requests, NEW c \in {"reload", "reban", "invalidate"},
           NEW t, NEW b, NEW e
    PROVE  LET k == [job[r] EXCEPT !.pc = c] IN k \in Jobs /\ Sound(k, t, b, e)
BY DEF StateOK, Jobs, Pcs, Sound

LEMMA QuietStepKeeps ==
    ASSUME StateOK, CopiesAreOld, NEW r \in Requests,
           \/ EnterPaint(r) \/ Load(r) \/ Fill(r) \/ Store(r) \/ Refused(r) \/ CheckDroplets(r) \/ UpdateProfile(r)
           \/ Reload(r) \/ Refill(r) \/ Invalidate(r) \/ Abandon(r)
    PROVE  StateOK' /\ CopiesAreOld' /\ UNCHANGED <<row, books>>
<1> DEFINE Old(s) == Known(s, now, bought, ledger.earned)
<1> DEFINE Fine(k) == k \in Jobs /\ Sound(k, now, bought, ledger.earned)
<1>1. job[r] \in Jobs /\ Fine(job[r]) /\ Old(row) /\ ops \in Nat /\ now \in Nat
  BY DEF StateOK, CopiesAreOld
<1>2. Fine(IdleJob)
  BY IdleIsSound
<1>3. ASSUME NEW k, job' = [job EXCEPT ![r] = k], Fine(k),
             UNCHANGED <<now, row, books, ops>>,
             cache' = cache \/ cache' = NoUser \/ Old(cache')
      PROVE  StateOK' /\ CopiesAreOld' /\ UNCHANGED <<row, books>>
  <2>1. ops' \in Nat /\ UNCHANGED <<now, row, books>>
    BY <1>1, <1>3
  <2>2. QED
    BY <1>3, <2>1, QuietFrame
<1>4. ASSUME Ended(r), UNCHANGED <<now, row, books, ops>>,
             cache' = cache \/ cache' = NoUser \/ Old(cache')
      PROVE  StateOK' /\ CopiesAreOld' /\ UNCHANGED <<row, books>>
  BY <1>2, <1>3, <1>4 DEF Ended
<1>5. ASSUME NEW c \in {"reload", "reban", "invalidate"}, Goes(r, c),
             UNCHANGED <<now, row, books, ops>>,
             cache' = cache \/ cache' = NoUser \/ Old(cache')
      PROVE  StateOK' /\ CopiesAreOld' /\ UNCHANGED <<row, books>>
  <2>1. Fine([job[r] EXCEPT !.pc = c])
    BY GoesOn
  <2>2. job' = [job EXCEPT ![r] = [job[r] EXCEPT !.pc = c]]
    BY <1>5 DEF Goes, StateOK
  <2>3. QED
    BY <1>3, <1>5, <2>1, <2>2
<1>6. CASE Load(r) \/ Reload(r)
  <2>1. PICK c \in {"fill", "refill"} :
            /\ job' = [job EXCEPT ![r].pc = c, ![r].snap = row]
            /\ c = "fill" => job[r].pc = "load"
    BY <1>6 DEF Load, Reload
  <2> DEFINE k == [job[r] EXCEPT !.pc = c, !.snap = row]
  <2>2. job' = [job EXCEPT ![r] = k]
    BY <2>1 DEF StateOK
  <2>3. k \in Jobs /\ k.pc = c /\ k.snap = row /\ k.op = job[r].op /\ k.n = job[r].n
        /\ k.item = job[r].item
    BY <1>1 DEF Jobs, Pcs, StateOK
  <2>4. c = "fill" => OrderOK(k)
    BY <1>1, <2>1, <2>3 DEF Sound, OrderOK
  <2> HIDE DEF k
  <2>5. Sound(k, now, bought, ledger.earned)
    BY <1>1, <2>3, <2>4 DEF Sound
  <2>6. UNCHANGED <<now, row, cache, books, ops>>
    BY <1>6 DEF Load, Reload
  <2>7. QED
    BY <1>3, <2>2, <2>3, <2>5, <2>6
<1>7. CASE Fill(r)
  <2>1. OrderOK(job[r]) /\ Old(job[r].snap)
    BY <1>1, <1>7 DEF Fill, Sound
  <2>2. Fine(Decided(job[r], job[r].snap))
    BY <1>1, <2>1, DecidedIsSound
  <2>3. job' = [job EXCEPT ![r] = Decided(job[r], job[r].snap)] /\ cache' = job[r].snap
    BY <1>7 DEF Fill, StateOK
  <2>4. QED
    BY <1>3, <1>7, <2>1, <2>2, <2>3 DEF Fill
<1>8. CASE Store(r) \/ Refill(r)
  <2>1. Old(job[r].snap) /\ cache' = job[r].snap
    BY <1>1, <1>8 DEF Store, Refill, Sound
  <2>2. UNCHANGED <<now, row, books, ops>> /\ (Ended(r) \/ Goes(r, "reban"))
    BY <1>8 DEF Store, Refill
  <2>3. QED
    BY <1>4, <1>5, <2>1, <2>2
<1>9. CASE CheckDroplets(r)
  <2>1. CASE Ended(r)
    BY <1>4, <1>9, <2>1 DEF CheckDroplets
  <2>2. CASE Goes(r, "write")
    <3> DEFINE k == [job[r] EXCEPT !.pc = "write"]
    <3>1. job[r].op = "picture"
      BY <1>1, <1>9 DEF CheckDroplets, Sound
    <3>2. Fine(k)
      BY <1>1, <3>1 DEF Jobs, Pcs, Sound, OrderOK
    <3>3. job' = [job EXCEPT ![r] = k]
      BY <2>2 DEF Goes, StateOK
    <3>4. UNCHANGED <<now, row, cache, books, ops>>
      BY <1>9 DEF CheckDroplets
    <3>5. QED
      BY <1>3, <3>2, <3>3, <3>4
  <2>3. QED
    BY <1>9, <2>1, <2>2 DEF CheckDroplets
<1>10. CASE Refused(r) \/ UpdateProfile(r)
  BY <1>5, <1>10 DEF Refused, UpdateProfile
<1>11. CASE Invalidate(r) \/ Abandon(r)
  BY <1>4, <1>11 DEF Invalidate, Abandon
<1>12. CASE EnterPaint(r)
  <2>1. OrderOK(job[r])
    BY <1>1, <1>12 DEF EnterPaint, Sound
  <2>2. CASE cache # NoUser
    <3>1. Fine(Decided(job[r], cache))
      BY <1>1, <2>1, <2>2, DecidedIsSound DEF CopiesAreOld
    <3>2. job' = [job EXCEPT ![r] = Decided(job[r], cache)] /\ UNCHANGED <<now, row, cache, books, ops>>
      BY <1>12, <2>2 DEF EnterPaint, StateOK
    <3>3. QED
      BY <1>3, <3>1, <3>2
  <2>3. CASE cache = NoUser
    <3> DEFINE k == [job[r] EXCEPT !.pc = "load"]
    <3>1. Fine(k)
      BY <1>1, <2>1 DEF Jobs, Pcs, Sound, OrderOK
    <3>2. job' = [job EXCEPT ![r] = k] /\ UNCHANGED <<now, row, cache, books, ops>>
      BY <1>12, <2>3 DEF EnterPaint, StateOK
    <3>3. QED
      BY <1>3, <3>1, <3>2
  <2>4. QED
    BY <2>2, <2>3
<1>13. QED
  BY <1>6, <1>7, <1>8, <1>9, <1>10, <1>11, <1>12

LEMMA LedgerAdds ==
    ASSUME NEW l \in Ledgers, NEW a \in Nat, NEW b \in Nat
    PROVE  /\ [l EXCEPT !.earned = @ + a, !.used = @ + b] \in Ledgers
           /\ [l EXCEPT !.spent = @ + a, !.credit = @ + b] \in Ledgers
           /\ [l EXCEPT !.earned = @ + a, !.spent = @ + b] \in Ledgers
<1>1. /\ l.earned + a \in Nat /\ l.used + b \in Nat /\ l.spent + a \in Nat
      /\ l.credit + b \in Nat /\ l.spent + b \in Nat
  BY DEF Ledgers
<1>2. \A x, y \in Nat : /\ [l EXCEPT !.earned = x, !.used = y] \in Ledgers
                        /\ [l EXCEPT !.spent = x, !.credit = y] \in Ledgers
                        /\ [l EXCEPT !.earned = x, !.spent = y] \in Ledgers
  BY DEF Ledgers
<1>3. QED
  BY <1>1, <1>2

-----------------------------------------------------------------------------
\* The steps that write the row

LEMMA ChargeKeeps ==
    ASSUME StateOK, CopiesAreOld, BooksBalance, EnjoyedWasBought,
           NEW r \in Requests, Charge(r)
    PROVE  StateOK' /\ CopiesAreOld' /\ BooksBalance' /\ EnjoyedWasBought'
<1> DEFINE j == job[r]
           gained == Reward(row.painted, j.n)
           s == [row EXCEPT !.charges = GreaterOf(0, Available(row, now) - Cost(j)),
                            !.at = now,
                            !.painted = @ + j.n,
                            !.max = @ + LevelMax * LevelsGained(row.painted, j.n),
                            !.droplets = @ + gained]
           k == [job[r] EXCEPT !.pc = "store", !.snap = s]
<1>1. /\ j \in Jobs /\ Sound(j, now, bought, ledger.earned) /\ Known(row, now, bought, ledger.earned)
      /\ now \in Nat /\ row \in Users /\ row.painted \in Nat /\ ledger \in Ledgers
      /\ ledger.earned \in Nat /\ ledger.used \in Nat /\ row.max \in Nat /\ row.droplets \in Int
      /\ row.charges \in Int /\ row.at \in Nat /\ row.at <= now /\ row.unlocked \subseteq bought
  BY DEF StateOK, CopiesAreOld, Known, Users, Ledgers
<1>2. /\ row' = s /\ job' = [job EXCEPT ![r] = k]
      /\ ledger' = [ledger EXCEPT !.earned = @ + gained, !.used = @ + Cost(j)]
      /\ Available(row, now) >= Cost(j)
      /\ UNCHANGED <<now, cache, bought, undone, ops>>
  BY <1>1 DEF Charge, Payable, StateOK
<1>3. j.n \in Nat /\ j.item \in Colors \cup {Free} /\ j.snap.unlocked \subseteq bought
      /\ Unlocked(j.snap, j.item)
  BY <1>1 DEF Charge, Sound, OrderOK, Known
<1>4. gained \in Nat /\ Cost(j) \in Nat /\ LevelsGained(row.painted, j.n) \in Nat
  BY <1>1, <1>3, RewardType, CostType
<1>5. LevelMax * LevelsGained(row.painted, j.n) \in Nat
  BY <1>4, ProductType, AccountAssumption
<1>6. Available(row, now) \in Int /\ Available(row, now) + Regen * row.at <= row.charges + Regen * now
  BY <1>1, AvailableBound
<1>7. /\ s \in Users /\ s.charges = Available(row, now) - Cost(j) /\ s.at = now
      /\ s.droplets = row.droplets + gained /\ s.unlocked = row.unlocked
  <2> DEFINE d == row.droplets + gained
             c == GreaterOf(0, Available(row, now) - Cost(j))
             m == row.max + LevelMax * LevelsGained(row.painted, j.n)
             p == row.painted + j.n
  <2>1. d \in Int /\ m \in Nat /\ p \in Nat
    BY <1>1, <1>3, <1>4, <1>5
  <2>c. c \in Int /\ c = Available(row, now) - Cost(j)
    BY <1>2, <1>4, <1>6 DEF GreaterOf
  <2>2. s = [row EXCEPT !.charges = c, !.at = now, !.painted = p, !.max = m, !.droplets = d]
    OBVIOUS
  <2> HIDE DEF c, d, m, p, s
  <2>3. s \in Users /\ s.charges = c /\ s.at = now /\ s.droplets = d /\ s.unlocked = row.unlocked
    <3>1. row \in Users /\ now \in Nat
      BY <1>1
    <3>2. QED
      BY <2>1, <2>c, <2>2, <3>1 DEF Users
  <2>4. QED
    BY <2>3, <2>c DEF d
<1>8. /\ ledger' \in Ledgers /\ ledger'.earned = ledger.earned + gained
      /\ ledger'.used = ledger.used + Cost(j) /\ ledger'.spent = ledger.spent
      /\ ledger'.credit = ledger.credit
  <2>1. ledger' \in Ledgers
    BY <1>1, <1>2, <1>4, LedgerAdds
  <2> HIDE DEF gained
  <2>2. QED
    BY <1>1, <1>2, <2>1 DEF Ledgers
<1>h. HIDE DEF s, gained
<1>9. Known(s, now, bought, ledger'.earned)
  <2>1. row.droplets <= StartDroplets + ledger.earned /\ StartDroplets \in Nat
    BY <1>1, AccountAssumption DEF Known
  <2>2. s.charges >= 0 /\ s.droplets <= StartDroplets + ledger'.earned
    BY <1>1, <1>2, <1>4, <1>6, <1>7, <1>8, <2>1
  <2>3. QED
    BY <1>1, <1>7, <2>2 DEF Known
<1>10. k \in Jobs /\ Sound(k, now, bought, ledger'.earned)
  BY <1>1, <1>7, <1>9 DEF Jobs, Pcs, Sound
<1>11. EnjoyedWasBought' /\ enjoyed' \in SUBSET Unlockables
  <2>1. enjoyed' = enjoyed \cup
            ({j.item, IF j.flag \in j.snap.unlocked THEN j.flag ELSE Free} \ {Free})
    BY DEF Charge
  <2>2. j.item \in {Free} \cup bought
    BY <1>3 DEF Unlocked
  <2>3. QED
    BY <1>2, <1>3, <2>1, <2>2 DEF EnjoyedWasBought, StateOK
<1>12. StateOK' /\ CopiesAreOld'
  <2>1. ledger.earned <= ledger'.earned /\ bought \subseteq bought' /\ bought' \in SUBSET Unlockables
        /\ undone' \in BOOLEAN /\ ops' \in Nat
    BY <1>1, <1>2, <1>4, <1>8 DEF StateOK
  <2>2. cache = NoUser \/ Known(cache, now, bought', ledger'.earned)
    BY <1>8, <2>1, OldStaysOld
  <2>3. bought' = bought /\ cache' = cache /\ now' = now /\ row' = s
    BY <1>2
  <2> HIDE DEF k
  <2>4. QED
    BY <1>2, <1>8, <1>9, <1>10, <1>11, <2>1, <2>2, <2>3, Frame
<1>13. BooksBalance'
  <2>1. SUFFICES ASSUME ~undone
                 PROVE  /\ s.charges + ledger'.used
                              <= StartCharges + ledger'.credit + Regen * s.at
                        /\ s.droplets = StartDroplets + ledger'.earned - ledger'.spent
                        /\ s.unlocked = bought
    BY <1>2 DEF BooksBalance
  <2>2. /\ row.charges + ledger.used <= StartCharges + ledger.credit + Regen * row.at
        /\ row.droplets = StartDroplets + ledger.earned - ledger.spent
        /\ row.unlocked = bought
    BY <2>1 DEF BooksBalance
  <2>3. Regen * row.at \in Nat /\ Regen * now \in Nat
    BY <1>1, ProductType, AccountAssumption
  <2>4. StartCharges \in Nat /\ StartDroplets \in Nat /\ ledger.credit \in Nat /\ ledger.spent \in Nat
    BY <1>1, AccountAssumption DEF Ledgers
  <2>5. s.charges + ledger'.used = Available(row, now) + ledger.used
    BY <1>1, <1>4, <1>6, <1>7, <1>8
  <2>6. s.charges + ledger'.used <= StartCharges + ledger.credit + Regen * now
    BY <1>1, <1>6, <2>2, <2>3, <2>4, <2>5
  <2>7. QED
    BY <1>1, <1>4, <1>7, <1>8, <2>2, <2>4, <2>6
<1>14. QED
  BY <1>11, <1>12, <1>13

LEMMA BuyKeeps ==
    ASSUME StateOK, CopiesAreOld, BooksBalance, EnjoyedWasBought,
           NEW r \in Requests, Buy(r)
    PROVE  StateOK' /\ CopiesAreOld' /\ BooksBalance' /\ EnjoyedWasBought'
<1> DEFINE j == job[r]
           s == Purchased(j)
           cost == Price[j.item] * j.n
           step == IF j.item = "charges" THEN ChargeStep * j.n ELSE 0
           got == {j.item} \cap (Colors \cup Flags)
           k == [job[r] EXCEPT !.pc = "reload"]
<1>1. /\ j \in Jobs /\ Known(j.snap, now, bought, ledger.earned) /\ row \in Users
      /\ j.n \in Nat /\ j.item \in Items /\ j.snap.at <= j.when /\ j.when <= now
      /\ now \in Nat /\ j.when \in Nat /\ ledger \in Ledgers /\ ledger.earned \in Nat
      /\ j.snap \in Users
  BY DEF Buy, StateOK, CopiesAreOld, Sound, OrderOK, Known, Jobs, Ledgers
<1>2. /\ row' = s /\ job' = [job EXCEPT ![r] = k]
      /\ ledger' = [ledger EXCEPT !.spent = @ + cost, !.credit = @ + step]
      /\ bought' = bought \cup got /\ undone' = (undone \/ Overwrites(j))
      /\ UNCHANGED <<now, cache, enjoyed, ops>>
  BY DEF Buy, Goes, StateOK
<1>3. cost \in Nat /\ step \in Nat /\ MaxStep * j.n \in Nat /\ ChargeStep * j.n \in Nat
  BY <1>1, ProductType, AccountAssumption
<1>4. /\ Regenerated(j.snap, j.when) \in Int /\ Regenerated(j.snap, j.when) >= 0
      /\ Regenerated(j.snap, j.when) + Regen * j.snap.at <= j.snap.charges + Regen * j.when
  BY <1>1, RegeneratedBound DEF Known
<1>5. /\ s \in Users /\ s.droplets = j.snap.droplets - cost
      /\ s.charges = IF j.item = "charges" THEN Regenerated(j.snap, j.when) + ChargeStep * j.n
                                           ELSE j.snap.charges
      /\ s.at = IF j.item = "charges" THEN j.when ELSE j.snap.at
      /\ s.unlocked = j.snap.unlocked \cup got
  <2>1. /\ j.snap.max \in Nat /\ j.snap.charges \in Int /\ j.snap.at \in Nat
        /\ j.snap.droplets \in Int /\ j.snap.unlocked \in SUBSET Unlockables
    BY <1>1 DEF Users
  <2>2. j.snap.max + (IF j.item = "max" THEN MaxStep * j.n ELSE 0) \in Nat
    BY <1>3, <2>1
  <2>3. j.snap.droplets - cost \in Int
    BY <1>3, <2>1
  <2>4. (IF j.item = "charges" THEN Regenerated(j.snap, j.when) + ChargeStep * j.n
                               ELSE j.snap.charges) \in Int
    BY <1>3, <1>4, <2>1
  <2>5. (IF j.item = "charges" THEN j.when ELSE j.snap.at) \in Nat
    BY <1>1, <2>1
  <2>6. j.snap.unlocked \cup got \in SUBSET Unlockables
    BY <2>1 DEF Unlockables
  <2> HIDE DEF cost, got
  <2>7. QED
    BY <1>1, <2>2, <2>3, <2>4, <2>5, <2>6 DEF Purchased, Users, cost, got
<1>6. /\ ledger' \in Ledgers /\ ledger'.earned = ledger.earned /\ ledger'.used = ledger.used
      /\ ledger'.spent = ledger.spent + cost /\ ledger'.credit = ledger.credit + step
  <2>1. ledger' \in Ledgers
    BY <1>1, <1>2, <1>3, LedgerAdds
  <2> HIDE DEF cost, step
  <2>2. QED
    BY <1>1, <1>2, <2>1 DEF Ledgers
<1>h. HIDE DEF s, cost, got
<1>7. Known(s, now, bought', ledger'.earned)
  <2>1. /\ j.snap.droplets <= StartDroplets + ledger.earned /\ j.snap.charges >= 0
        /\ j.snap.unlocked \subseteq bought /\ j.snap.droplets \in Int /\ j.snap.charges \in Int
        /\ j.snap.at \in Nat /\ StartDroplets \in Nat
    BY <1>1, AccountAssumption DEF Known, Users
  <2>2. s.droplets <= StartDroplets + ledger'.earned
    BY <1>1, <1>3, <1>5, <1>6, <2>1
  <2>3. s.charges >= 0 /\ s.at <= now
    BY <1>1, <1>3, <1>4, <1>5, <2>1
  <2>4. QED
    BY <1>2, <1>5, <2>1, <2>2, <2>3 DEF Known
<1>8. StateOK' /\ CopiesAreOld'
  <2>1. k \in Jobs /\ Sound(k, now, bought', ledger'.earned)
    BY GoesOn
  <2>2. /\ ledger.earned <= ledger'.earned /\ bought \subseteq bought'
        /\ bought' \in SUBSET Unlockables /\ undone' \in BOOLEAN /\ ops' \in Nat
        /\ enjoyed' \in SUBSET Unlockables
    BY <1>1, <1>2, <1>6 DEF StateOK, Unlockables, got, Overwrites
  <2>3. cache = NoUser \/ Known(cache, now, bought', ledger'.earned)
    BY <1>6, <2>2, OldStaysOld
  <2>4. cache' = cache /\ now' = now /\ row' = s
    BY <1>2
  <2> HIDE DEF k
  <2>5. QED
    BY <1>2, <1>6, <1>7, <2>1, <2>2, <2>3, <2>4, Frame
<1>9. BooksBalance'
  <2>1. SUFFICES ASSUME ~undone, ~Overwrites(j)
                 PROVE  /\ s.charges + ledger'.used
                              <= StartCharges + ledger'.credit + Regen * s.at
                        /\ s.droplets = StartDroplets + ledger'.earned - ledger'.spent
                        /\ s.unlocked = bought'
    BY <1>2 DEF BooksBalance
  <2>2. /\ row.charges + ledger.used <= StartCharges + ledger.credit + Regen * row.at
        /\ row.droplets = StartDroplets + ledger.earned - ledger.spent
        /\ row.unlocked = bought
    BY <2>1 DEF BooksBalance
  <2>3. /\ row.droplets = j.snap.droplets /\ row.charges = j.snap.charges
        /\ row.at = j.snap.at /\ row.unlocked = j.snap.unlocked
    BY <2>1 DEF Overwrites
  <2>4. /\ StartCharges \in Nat /\ StartDroplets \in Nat /\ ledger.credit \in Nat
        /\ ledger.spent \in Nat /\ ledger.used \in Nat /\ Regen \in Nat /\ j.snap.at \in Nat
        /\ j.snap.charges \in Int /\ j.snap.droplets \in Int
    BY <1>1, AccountAssumption DEF Ledgers, Users
  <2>5. Regen * j.snap.at \in Nat /\ Regen * j.when \in Nat
    BY <1>1, <2>4, ProductType
  <2>6. CASE j.item = "charges"
    <3>1. s.charges = Regenerated(j.snap, j.when) + ChargeStep * j.n /\ s.at = j.when
          /\ ledger'.credit = ledger.credit + ChargeStep * j.n
      BY <1>5, <1>6, <2>6
    <3>2. s.charges + ledger'.used <= StartCharges + ledger'.credit + Regen * j.when
      BY <1>3, <1>4, <1>6, <2>2, <2>3, <2>4, <2>5, <3>1
    <3>3. s.droplets = StartDroplets + ledger'.earned - ledger'.spent
      BY <1>1, <1>3, <1>5, <1>6, <2>2, <2>3, <2>4
    <3>4. s.unlocked = bought'
      BY <1>2, <1>5, <2>2, <2>3
    <3>5. QED
      BY <3>1, <3>2, <3>3, <3>4
  <2>7. CASE j.item # "charges"
    <3>1. s.charges = row.charges /\ s.at = row.at /\ ledger'.credit = ledger.credit + 0
      BY <1>5, <1>6, <2>3, <2>7
    <3>2. s.charges + ledger'.used <= StartCharges + ledger'.credit + Regen * s.at
      BY <1>6, <2>2, <2>3, <2>4, <2>5, <3>1
    <3>3. s.droplets = StartDroplets + ledger'.earned - ledger'.spent
      BY <1>1, <1>3, <1>5, <1>6, <2>2, <2>3, <2>4
    <3>4. s.unlocked = bought'
      BY <1>2, <1>5, <2>2, <2>3
    <3>5. QED
      BY <3>2, <3>3, <3>4
  <2>8. QED
    BY <2>6, <2>7
<1>10. EnjoyedWasBought'
  BY <1>2 DEF EnjoyedWasBought
<1>11. QED
  BY <1>8, <1>9, <1>10

\* The other columns: the request goes on to the cache, and nothing is bought.
LEMMA WriteFrame ==
    ASSUME StateOK, CopiesAreOld, NEW r \in Requests,
           NEW c \in {"reload", "reban", "invalidate"}, Goes(r, c),
           UNCHANGED <<now, cache, bought, undone, ops>>,
           enjoyed' \in SUBSET Unlockables,
           ledger' \in Ledgers, ledger.earned <= ledger'.earned,
           row' \in Users, row'.at = row.at, row'.charges = row.charges,
           row'.unlocked = row.unlocked,
           row'.droplets <= StartDroplets + ledger'.earned
    PROVE  StateOK' /\ CopiesAreOld'
<1> DEFINE k == [job[r] EXCEPT !.pc = c]
<1>1. now' = now /\ cache' = cache /\ bought' = bought /\ undone' = undone /\ ops' = ops
      /\ bought \in SUBSET Unlockables /\ undone \in BOOLEAN /\ ops \in Nat
  BY DEF StateOK
<1>2. k \in Jobs /\ Sound(k, now, bought', ledger'.earned)
  BY GoesOn
<1>3. job' = [job EXCEPT ![r] = k]
  BY DEF Goes, StateOK
<1>4. Known(row', now, bought', ledger'.earned)
  BY <1>1 DEF CopiesAreOld, Known
<1>5. cache' = NoUser \/ Known(cache', now, bought', ledger'.earned)
  BY <1>1, OldStaysOld
<1> HIDE DEF k
<1>6. QED
  BY <1>1, <1>2, <1>3, <1>4, <1>5, Frame

\* DebitPicture and Grant add d droplets, and e of them are earned.
LEMMA DropletsMove ==
    ASSUME StateOK, CopiesAreOld, BooksBalance, EnjoyedWasBought, NEW r \in Requests,
           NEW c \in {"reload", "reban", "invalidate"}, Goes(r, c),
           NEW e \in Nat, NEW d \in Nat,
           row' = [row EXCEPT !.droplets = @ + (e - d)],
           ledger' = [ledger EXCEPT !.earned = @ + e, !.spent = @ + d],
           UNCHANGED <<now, cache, bought, enjoyed, undone, ops>>
    PROVE  StateOK' /\ CopiesAreOld' /\ BooksBalance' /\ EnjoyedWasBought'
<1>1. /\ row \in Users /\ row.droplets \in Int /\ ledger \in Ledgers
      /\ ledger.earned \in Nat /\ ledger.spent \in Nat /\ StartDroplets \in Nat
      /\ row.droplets <= StartDroplets + ledger.earned
  BY AccountAssumption DEF StateOK, Users, Ledgers, CopiesAreOld, Known
<1>2. /\ ledger' \in Ledgers /\ ledger'.earned = ledger.earned + e
      /\ ledger'.spent = ledger.spent + d /\ ledger'.used = ledger.used
      /\ ledger'.credit = ledger.credit
  <2>1. ledger' \in Ledgers
    BY <1>1, LedgerAdds
  <2>2. QED
    BY <1>1, <2>1 DEF Ledgers
<1>3. /\ row' \in Users /\ row'.droplets = row.droplets + (e - d) /\ row'.at = row.at
      /\ row'.charges = row.charges /\ row'.unlocked = row.unlocked
  <2>1. row.droplets + (e - d) \in Int
    BY <1>1
  <2>2. QED
    BY <1>1, <2>1 DEF Users
<1>4. StateOK' /\ CopiesAreOld'
  <2>1. row'.droplets <= StartDroplets + ledger'.earned /\ ledger.earned <= ledger'.earned
    BY <1>1, <1>2, <1>3
  <2>2. enjoyed' \in SUBSET Unlockables
    BY DEF StateOK
  <2>3. QED
    BY <1>2, <1>3, <2>1, <2>2, WriteFrame
<1>5. BooksBalance'
  <2>1. SUFFICES ASSUME ~undone
                 PROVE  /\ row'.charges + ledger'.used
                              <= StartCharges + ledger'.credit + Regen * row'.at
                        /\ row'.droplets = StartDroplets + ledger'.earned - ledger'.spent
                        /\ row'.unlocked = bought'
    BY DEF BooksBalance
  <2>2. row.droplets = StartDroplets + ledger.earned - ledger.spent
    BY <2>1 DEF BooksBalance
  <2>3. row'.droplets = StartDroplets + ledger'.earned - ledger'.spent
    BY <1>1, <1>2, <1>3, <2>2
  <2>4. QED
    BY <1>2, <1>3, <2>1, <2>3 DEF BooksBalance
<1>6. QED
  BY <1>4, <1>5 DEF EnjoyedWasBought

LEMMA OtherWritesKeep ==
    ASSUME StateOK, CopiesAreOld, BooksBalance, EnjoyedWasBought, NEW r \in Requests,
           EquipFlag(r) \/ DebitPicture(r) \/ Sanction(r) \/ Reban(r) \/ Grant(r)
    PROVE  StateOK' /\ CopiesAreOld' /\ BooksBalance' /\ EnjoyedWasBought'
<1> DEFINE j == job[r]
<1>1. /\ j \in Jobs /\ Sound(j, now, bought, ledger.earned) /\ row \in Users
      /\ ledger \in Ledgers /\ ledger.earned \in Nat /\ ledger.earned <= ledger.earned
      /\ now \in Nat /\ row.droplets \in Int /\ enjoyed \in SUBSET Unlockables
      /\ row.droplets <= StartDroplets + ledger.earned
  BY DEF StateOK, CopiesAreOld, Known, Users, Ledgers
<1>2. ASSUME NEW c \in {"reload", "reban", "invalidate"}, Goes(r, c),
             UNCHANGED <<now, cache, ledger, bought, undone, ops>>,
             enjoyed' \in SUBSET Unlockables, enjoyed' \subseteq bought,
             row' \in Users, row'.at = row.at, row'.charges = row.charges,
             row'.unlocked = row.unlocked, row'.droplets = row.droplets
      PROVE  StateOK' /\ CopiesAreOld' /\ BooksBalance' /\ EnjoyedWasBought'
  <2>1. UNCHANGED <<now, cache, bought, undone, ops>> /\ ledger' = ledger
    BY <1>2
  <2>2. StateOK' /\ CopiesAreOld'
    BY <1>1, <1>2, <2>1, WriteFrame
  <2>3. BooksBalance' /\ EnjoyedWasBought'
    BY <1>2, <2>1 DEF BooksBalance, EnjoyedWasBought
  <2>4. QED
    BY <2>2, <2>3
<1>3. CASE EquipFlag(r)
  <2>1. j.item \in Flags \cup {Free} /\ (j.item # Free => j.item \in bought)
    <3>1. CASE j.op = "equip"
      BY <1>1, <1>3, <3>1 DEF EquipFlag, Sound, OrderOK, Known
    <3>2. CASE j.op = "unequip"
      BY <1>1, <1>3, <3>2 DEF EquipFlag, Sound, OrderOK
    <3>3. QED
      BY <1>3, <3>1, <3>2 DEF EquipFlag
  <2>2. row' = [row EXCEPT !.equipped = j.item] /\ enjoyed' = enjoyed \cup ({j.item} \ {Free})
        /\ Goes(r, "reload") /\ UNCHANGED <<now, cache, ledger, bought, undone, ops>>
    BY <1>3 DEF EquipFlag
  <2>3. enjoyed' \in SUBSET Unlockables /\ enjoyed' \subseteq bought
    BY <1>1, <2>1, <2>2 DEF EnjoyedWasBought, Unlockables
  <2>4. /\ row' \in Users /\ row'.at = row.at /\ row'.charges = row.charges
        /\ row'.unlocked = row.unlocked /\ row'.droplets = row.droplets
    BY <1>1, <2>1, <2>2 DEF Users
  <2>5. QED
    BY <1>2, <2>2, <2>3, <2>4
<1>4. CASE Sanction(r) \/ Reban(r)
  <2>1. /\ Goes(r, "invalidate")
        /\ UNCHANGED <<now, cache, ledger, bought, enjoyed, undone, ops>>
    BY <1>4 DEF Sanction, Reban, books
  <2>2. \/ \E b \in BOOLEAN : row' = [row EXCEPT !.banned = b]
        \/ \E t \in Nat : row' = [row EXCEPT !.until = t]
    <3>1. now + TimeoutTicks \in Nat
      BY <1>1, AccountAssumption
    <3>2. QED
      BY <1>1, <1>4, <3>1 DEF Sanction, Reban
  <2>3. /\ row' \in Users /\ row'.at = row.at /\ row'.charges = row.charges
        /\ row'.unlocked = row.unlocked /\ row'.droplets = row.droplets
    BY <1>1, <2>2 DEF Users
  <2>4. QED
    BY <1>1, <1>2, <2>1, <2>3 DEF EnjoyedWasBought
<1>5. CASE DebitPicture(r)
  <2>1. PicturePrice \in Nat /\ 0 \in Nat
    BY AccountAssumption
  <2>2. row' = [row EXCEPT !.droplets = @ + (0 - PicturePrice)]
    BY <1>1, <1>5, <2>1 DEF DebitPicture, Users
  <2>3. ledger' = [ledger EXCEPT !.earned = @ + 0, !.spent = @ + PicturePrice]
    <3>1. ledger.earned + 0 = ledger.earned /\ ledger = [ledger EXCEPT !.earned = ledger.earned]
      BY <1>1 DEF Ledgers
    <3>2. ledger' = [ledger EXCEPT !.spent = @ + PicturePrice]
      BY <1>5 DEF DebitPicture
    <3>3. QED
      BY <1>1, <2>1, <3>1, <3>2 DEF Ledgers
  <2>4. QED
    BY <1>5, <2>1, <2>2, <2>3, DropletsMove DEF DebitPicture
<1>6. CASE Grant(r)
  <2> DEFINE e == IF j.n > 0 THEN j.n ELSE 0
             d == IF j.n > 0 THEN 0 ELSE -j.n
  <2>1. j.n \in Int /\ e \in Nat /\ d \in Nat /\ e - d = j.n
    BY <1>1 DEF Jobs
  <2>2. row' = [row EXCEPT !.droplets = @ + (e - d)]
    BY <1>6, <2>1 DEF Grant
  <2>3. ledger' = [ledger EXCEPT !.earned = @ + e, !.spent = @ + d]
    BY <1>6 DEF Grant
  <2> HIDE DEF e, d
  <2>4. QED
    BY <1>6, <2>1, <2>2, <2>3, DropletsMove DEF Grant
<1>7. QED
  BY <1>3, <1>4, <1>5, <1>6

-----------------------------------------------------------------------------
\* The invariant

Inv == StateOK /\ CopiesAreOld /\ BooksBalance /\ EnjoyedWasBought

LEMMA Initially == Init => Inv
<1>1. SUFFICES ASSUME Init PROVE Inv
  OBVIOUS
<1>2. /\ StartDroplets \in Nat /\ StartCharges \in Nat /\ StartMax \in Nat /\ Regen * 0 = 0
  BY AccountAssumption
<1>3. row \in Users /\ row.at = 0 /\ row.charges = StartCharges /\ row.droplets = StartDroplets
      /\ row.unlocked = {}
  BY <1>1, <1>2 DEF Init, Users
<1>4. StateOK
  BY <1>1, <1>3, IdleIsSound DEF Init, StateOK, Ledgers
<1>5. CopiesAreOld
  BY <1>1, <1>2, <1>3, IdleIsSound DEF Init, CopiesAreOld, Known
<1>6. BooksBalance /\ EnjoyedWasBought
  BY <1>1, <1>2, <1>3 DEF Init, BooksBalance, EnjoyedWasBought
<1>7. QED
  BY <1>4, <1>5, <1>6 DEF Inv

LEMMA Inductive == Inv /\ [Next]_vars => Inv'
<1>1. SUFFICES ASSUME Inv, [Next]_vars PROVE Inv'
  OBVIOUS
<1>2. StateOK /\ CopiesAreOld /\ BooksBalance /\ EnjoyedWasBought
  BY <1>1 DEF Inv
<1>3. ASSUME StateOK', CopiesAreOld', UNCHANGED <<row, books>> PROVE Inv'
  BY <1>2, <1>3 DEF Inv, BooksBalance, EnjoyedWasBought, books
<1>4. ASSUME NEW r \in Requests, Ask(r) PROVE Inv'
  <2>1. UNCHANGED <<row, books>>
    BY <1>4 DEF Ask, AskPaint, AskPurchase, AskFlag, AskProfile, AskPicture, AskUpdate,
       AskSanction, AskGrant, Lookup, Started
  <2>2. QED
    BY <1>2, <1>3, <1>4, <2>1, AskKeeps
<1>5. ASSUME NEW r \in Requests, Step(r) \/ Abandon(r) PROVE Inv'
  <2>1. CASE \/ EnterPaint(r) \/ Load(r) \/ Fill(r) \/ Store(r) \/ Refused(r) \/ CheckDroplets(r)
             \/ UpdateProfile(r) \/ Reload(r) \/ Refill(r) \/ Invalidate(r) \/ Abandon(r)
    BY <1>2, <1>3, <2>1, QuietStepKeeps
  <2>2. CASE Charge(r)
    BY <1>2, <2>2, ChargeKeeps DEF Inv
  <2>3. CASE Buy(r)
    BY <1>2, <2>3, BuyKeeps DEF Inv
  <2>4. CASE EquipFlag(r) \/ DebitPicture(r) \/ Sanction(r) \/ Reban(r) \/ Grant(r)
    BY <1>2, <2>4, OtherWritesKeep DEF Inv
  <2>5. QED
    BY <1>5, <2>1, <2>2, <2>3, <2>4 DEF Step
<1>6. CASE Expire
  <2>1. UNCHANGED <<now, row, job, books, ops>> /\ cache' = NoUser
    BY <1>6 DEF Expire
  <2>2. StateOK' /\ CopiesAreOld'
    BY <1>2, <2>1 DEF StateOK, CopiesAreOld, books
  <2>3. QED
    BY <1>3, <2>1, <2>2
<1>7. CASE Tick
  <2>1. UNCHANGED <<row, cache, job, books, ops>> /\ now' = now + 1 /\ now \in Nat
    BY <1>2, <1>7 DEF Tick, StateOK
  <2>2. StateOK'
    BY <1>2, <2>1 DEF StateOK, books
  <2>3. /\ now' \in Nat /\ now <= now' /\ bought' = bought /\ ledger' = ledger
        /\ ledger.earned \in Nat /\ job \in [Requests -> Jobs]
    BY <1>2, <2>1 DEF books, StateOK, Ledgers
  <2>4. ASSUME NEW s, Known(s, now, bought, ledger.earned)
        PROVE  Known(s, now', bought', ledger'.earned)
    BY <1>2, <2>1, <2>3, <2>4, KnownGrows
  <2>5. ASSUME NEW r \in Requests PROVE Sound(job[r], now', bought', ledger'.earned)
    BY <1>2, <2>1, <2>3, SoundGrows DEF CopiesAreOld
  <2>6. CopiesAreOld'
    BY <1>2, <2>1, <2>4, <2>5 DEF CopiesAreOld
  <2>7. QED
    BY <1>3, <2>1, <2>2, <2>6
<1>8. CASE UNCHANGED vars
  BY <1>1, <1>8 DEF vars, books, Inv, StateOK, CopiesAreOld, BooksBalance, EnjoyedWasBought
<1>9. QED
  BY <1>1, <1>4, <1>5, <1>6, <1>7, <1>8 DEF Next, Serve

LEMMA AlwaysInv == Spec => []Inv
BY Initially, Inductive, PTL DEF Spec

-----------------------------------------------------------------------------
\* The entry and the copies that are about to be cached.

\* What a step may do to them: a write leaves a request that owes a repair, a
\* new copy is the row, and an entry comes from a copy.
WritesOwe == row' # row => \E r \in Requests : Owes(job'[r])

CopiesAreRead ==
    \A r \in Requests : Holds(job'[r]) =>
        job'[r].snap = row' \/ (Holds(job[r]) /\ job'[r].snap = job[r].snap)

EntryIsCopied ==
    \/ cache' \in {cache, NoUser}
    \/ \E r \in Requests : Holds(job[r]) /\ ~Holds(job'[r]) /\ cache' = job[r].snap

LEMMA OneMoves ==
    ASSUME StateOK, NEW r \in Requests, NEW k, job' = [job EXCEPT ![r] = k],
           row' = row \/ Owes(k),
           ~Holds(k) \/ k.snap = row',
           cache' \in {cache, NoUser} \/ (Holds(job[r]) /\ ~Holds(k) /\ cache' = job[r].snap)
    PROVE  WritesOwe /\ CopiesAreRead /\ EntryIsCopied
<1>1. job'[r] = k /\ \A q \in Requests \ {r} : job'[q] = job[q]
  BY DEF StateOK
<1>2. QED
  BY <1>1 DEF WritesOwe, CopiesAreRead, EntryIsCopied

LEMMA DecidedHoldsNone ==
    ASSUME NEW j \in Jobs, NEW s PROVE ~Holds(Decided(j, s))
<1>1. /\ ~Holds(IdleJob) /\ ~Holds([IdleJob EXCEPT !.pc = "reban"])
      /\ ~Holds([j EXCEPT !.pc = "write", !.snap = s, !.when = now])
      /\ ~Holds([j EXCEPT !.op = "paint", !.pc = "enter", !.snap = NoUser])
  BY DEF Holds, IdleJob, Jobs
<1>2. QED
  BY <1>1 DEF Decided

LEMMA AskMoves ==
    ASSUME StateOK, NEW r \in Requests, Ask(r)
    PROVE  WritesOwe /\ CopiesAreRead /\ EntryIsCopied
<1>1. ASSUME NEW j, Started(r, j), ~Holds(j) PROVE WritesOwe /\ CopiesAreRead /\ EntryIsCopied
  BY <1>1, OneMoves DEF Started
<1>2. ASSUME NEW j \in Jobs, Lookup(r, j) PROVE WritesOwe /\ CopiesAreRead /\ EntryIsCopied
  <2>1. ~Holds(Decided(j, cache)) /\ ~Holds([j EXCEPT !.pc = "load"])
    BY DecidedHoldsNone DEF Holds, Jobs
  <2>2. QED
    BY <1>1, <1>2, <2>1 DEF Lookup
<1>3. IdleJob \in Jobs /\ Batches \subseteq Int
  BY IdleIsSound, AccountAssumption
<1>4. CASE AskPaint(r)
  <2>1. PICK n \in Batches, c \in Colors \cup {Free}, f \in Flags \cup {Free} :
            Lookup(r, [IdleJob EXCEPT !.op = "enter", !.n = n, !.item = c, !.flag = f])
    BY <1>4 DEF AskPaint
  <2>2. [IdleJob EXCEPT !.op = "enter", !.n = n, !.item = c, !.flag = f] \in Jobs
    BY <1>3 DEF Jobs, Orders, Items
  <2>3. QED
    BY <1>2, <2>1, <2>2
<1>5. CASE AskPurchase(r)
  <2>1. PICK n \in Batches, i \in Items :
            Lookup(r, [IdleJob EXCEPT !.op = "purchase", !.n = n, !.item = i])
    BY <1>5 DEF AskPurchase
  <2>2. [IdleJob EXCEPT !.op = "purchase", !.n = n, !.item = i] \in Jobs
    BY <1>3 DEF Jobs, Orders
  <2>3. QED
    BY <1>2, <2>1, <2>2
<1>6. CASE AskFlag(r) \/ AskProfile(r)
  <2>1. /\ \A f \in Flags : [IdleJob EXCEPT !.op = "equip", !.item = f] \in Jobs
        /\ [IdleJob EXCEPT !.op = "unequip"] \in Jobs /\ [IdleJob EXCEPT !.op = "view"] \in Jobs
    BY <1>3 DEF Jobs, Orders, Items
  <2>2. QED
    BY <1>2, <1>6, <2>1 DEF AskFlag, AskProfile
<1>7. CASE AskPicture(r) \/ AskUpdate(r) \/ AskSanction(r) \/ AskGrant(r)
  <2>1. /\ \A o \in {"picture", "update", "ban", "unban", "timeout", "lift"},
              c \in {"check", "write"} : ~Holds([IdleJob EXCEPT !.op = o, !.pc = c])
        /\ \A d : ~Holds([IdleJob EXCEPT !.op = "grant", !.pc = "write", !.n = d])
    BY DEF Holds, IdleJob
  <2>2. QED
    BY <1>1, <1>7, <2>1 DEF AskPicture, AskUpdate, AskSanction, AskGrant
<1>8. QED
  BY <1>4, <1>5, <1>6, <1>7 DEF Ask

LEMMA StepMoves ==
    ASSUME StateOK, NEW r \in Requests, Step(r) \/ Abandon(r)
    PROVE  WritesOwe /\ CopiesAreRead /\ EntryIsCopied
<1> DEFINE Goal == WritesOwe /\ CopiesAreRead /\ EntryIsCopied
<1>1. job[r] \in Jobs /\ job \in [Requests -> Jobs]
  BY DEF StateOK
<1>2. ~Holds(IdleJob)
  BY DEF Holds, IdleJob
<1>3. ASSUME NEW c \in {"write", "reload", "reban", "invalidate"}, Goes(r, c),
             row' = row \/ Owes([job[r] EXCEPT !.pc = c]),
             cache' = cache \/ (Holds(job[r]) /\ cache' = job[r].snap)
      PROVE  Goal
  <2> DEFINE k == [job[r] EXCEPT !.pc = c]
  <2>1. job' = [job EXCEPT ![r] = k] /\ ~Holds(k)
    BY <1>1, <1>3 DEF Goes, Jobs, Holds
  <2>2. QED
    BY <1>3, <2>1, OneMoves
<1>4. ASSUME Ended(r), row' = row,
             cache' \in {cache, NoUser} \/ (Holds(job[r]) /\ cache' = job[r].snap)
      PROVE  Goal
  BY <1>2, <1>4, OneMoves DEF Ended
<1>5. CASE EnterPaint(r)
  <2>1. ~Holds(Decided(job[r], cache)) /\ ~Holds([job[r] EXCEPT !.pc = "load"])
    BY <1>1, DecidedHoldsNone DEF Holds, Jobs
  <2>2. PICK k : job' = [job EXCEPT ![r] = k] /\ ~Holds(k)
    BY <1>1, <1>5, <2>1 DEF EnterPaint
  <2>3. QED
    BY <1>5, <2>2, OneMoves DEF EnterPaint
<1>6. CASE Load(r) \/ Reload(r)
  <2>1. PICK c \in {"fill", "refill"} : job' = [job EXCEPT ![r].pc = c, ![r].snap = row]
    BY <1>6 DEF Load, Reload
  <2> DEFINE k == [job[r] EXCEPT !.pc = c, !.snap = row]
  <2>2. job' = [job EXCEPT ![r] = k] /\ k.snap = row
    BY <1>1, <2>1 DEF Jobs
  <2>3. row' = row /\ cache' = cache
    BY <1>6 DEF Load, Reload
  <2>4. QED
    BY <2>2, <2>3, OneMoves
<1>7. CASE Fill(r)
  <2>1. job' = [job EXCEPT ![r] = Decided(job[r], job[r].snap)] /\ cache' = job[r].snap /\ row' = row
        /\ Holds(job[r])
    BY <1>1, <1>7 DEF Fill, Holds
  <2>2. ~Holds(Decided(job[r], job[r].snap))
    BY <1>1, DecidedHoldsNone
  <2>3. QED
    BY <2>1, <2>2, OneMoves
<1>8. CASE Charge(r)
  <2>1. /\ job' = [job EXCEPT ![r].pc = "store", ![r].snap = row'] /\ cache' = cache
    BY <1>8 DEF Charge
  <2> DEFINE k == [job[r] EXCEPT !.pc = "store", !.snap = row']
  <2>2. job' = [job EXCEPT ![r] = k] /\ k.snap = row' /\ Owes(k)
    BY <1>1, <2>1 DEF Jobs, Owes
  <2>3. QED
    BY <2>1, <2>2, OneMoves
<1>9. CASE Store(r) \/ Refill(r)
  <2>1. Holds(job[r]) /\ cache' = job[r].snap /\ row' = row /\ (Ended(r) \/ Goes(r, "reban"))
    BY <1>9 DEF Store, Refill, Holds
  <2>2. QED
    BY <1>3, <1>4, <2>1
<1>10. CASE Refused(r) \/ UpdateProfile(r) \/ CheckDroplets(r)
  <2>1. row' = row /\ cache' = cache /\ (Ended(r) \/ Goes(r, "reload") \/ Goes(r, "write"))
    BY <1>10 DEF Refused, UpdateProfile, CheckDroplets
  <2>2. QED
    BY <1>3, <1>4, <2>1
<1>11. CASE Buy(r) \/ EquipFlag(r) \/ DebitPicture(r)
  <2>1. Goes(r, "reload") /\ cache' = cache /\ job[r].op # "paint"
    BY <1>11 DEF Buy, EquipFlag, DebitPicture
  <2>2. Owes([job[r] EXCEPT !.pc = "reload"])
    BY <1>1, <2>1 DEF Owes, Jobs
  <2>3. QED
    BY <1>3, <2>1, <2>2
<1>12. CASE Sanction(r) \/ Reban(r) \/ Grant(r)
  <2>1. Goes(r, "invalidate") /\ cache' = cache
    BY <1>12 DEF Sanction, Reban, Grant
  <2>2. Owes([job[r] EXCEPT !.pc = "invalidate"])
    BY <1>1 DEF Owes, Jobs
  <2>3. QED
    BY <1>3, <2>1, <2>2
<1>13. CASE Invalidate(r) \/ Abandon(r)
  BY <1>4, <1>13 DEF Invalidate, Abandon
<1>14. QED
  BY <1>5, <1>6, <1>7, <1>8, <1>9, <1>10, <1>11, <1>12, <1>13 DEF Step

LEMMA ServeMoves ==
    ASSUME StateOK, Serve PROVE WritesOwe /\ CopiesAreRead /\ EntryIsCopied
<1>1. CASE Expire \/ Tick
  BY <1>1 DEF Expire, Tick, WritesOwe, CopiesAreRead, EntryIsCopied
<1>2. QED
  BY <1>1, AskMoves, StepMoves DEF Serve

\* What was noted of a step is enough to say whether the entry may be stale.
LEMMA TrackFollows ==
    ASSUME CopiesFollow, WritesOwe, CopiesAreRead, EntryIsCopied, Track
    PROVE  CopiesFollow'
<1> DEFINE Puts(r) == Holds(job[r]) /\ ~Holds(job'[r]) /\ cache' = job[r].snap
           Drops(r) == Owes(job[r]) /\ ~Owes(job'[r])
<1>1. late' = {r \in Requests : Holds(job'[r]) /\ (r \in late \/ (Holds(job[r]) /\ row' # row))}
  BY DEF Track
<1>2. ASSUME NEW r \in Requests, Holds(job'[r]), r \notin late' PROVE job'[r].snap = row'
  BY <1>1, <1>2 DEF CopiesFollow, CopiesAreRead
<1>3. ASSUME cache' # NoUser, cache' # row', ~spoilt' PROVE \E r \in Requests : Owes(job'[r])
  <2>1. CASE row' # row
    BY <2>1 DEF WritesOwe
  <2>2. CASE row' = row /\ \E r \in Requests : Puts(r)
    <3>1. PICK r \in Requests : Puts(r)
      BY <2>2
    <3>2. ~\E q \in late : Puts(q)
      BY <1>3, <2>2 DEF Track
    <3>3. job[r].snap = row
      BY <3>1, <3>2 DEF CopiesFollow
    <3>4. QED
      BY <1>3, <2>2, <3>1, <3>3
  <2>3. CASE row' = row /\ ~\E r \in Requests : Puts(r)
    <3>1. spoilt' = (spoilt \/ \E r \in Requests : Drops(r))
      BY <1>3, <2>3 DEF Track
    <3>2. cache' = cache
      BY <1>3, <2>3 DEF EntryIsCopied
    <3>3. \E r \in Requests : Owes(job[r])
      BY <1>3, <2>3, <3>1, <3>2 DEF CopiesFollow, StaleIsOwed
    <3>4. QED
      BY <1>3, <3>1, <3>3
  <2>4. QED
    BY <2>1, <2>2, <2>3
<1>4. QED
  BY <1>2, <1>3 DEF CopiesFollow, StaleIsOwed

EntryInv == Inv /\ late \in SUBSET Requests /\ spoilt \in BOOLEAN /\ CopiesFollow

LEMMA AlwaysEntry == Spec => []EntryInv
<1>1. Init => EntryInv
  <2>1. SUFFICES ASSUME Init PROVE EntryInv
    OBVIOUS
  <2>2. cache = NoUser /\ \A r \in Requests : ~Holds(job[r])
    BY <2>1 DEF Init, Holds, IdleJob
  <2>3. QED
    BY <2>1, <2>2, Initially DEF EntryInv, Init, CopiesFollow, StaleIsOwed
<1>2. EntryInv /\ [Next]_vars => EntryInv'
  <2>1. SUFFICES ASSUME EntryInv, [Next]_vars PROVE EntryInv'
    OBVIOUS
  <2>2. Inv /\ StateOK /\ CopiesFollow /\ late \in SUBSET Requests /\ spoilt \in BOOLEAN
    BY <2>1 DEF EntryInv, Inv
  <2>3. Inv'
    BY <2>1, <2>2, Inductive
  <2>4. CASE Next
    <3>1. CopiesFollow'
      BY <2>2, <2>4, ServeMoves, TrackFollows DEF Next
    <3>2. late' \in SUBSET Requests
      BY <2>4 DEF Next, Track
    <3>3. spoilt' \in BOOLEAN
      BY <2>2, <2>4 DEF Next, Track
    <3>4. QED
      BY <2>3, <3>1, <3>2, <3>3 DEF EntryInv
  <2>5. CASE UNCHANGED vars
    BY <2>2, <2>3, <2>5 DEF EntryInv, vars, CopiesFollow, StaleIsOwed
  <2>6. QED
    BY <2>1, <2>4, <2>5
<1>3. QED
  BY <1>1, <1>2, PTL DEF Spec

\* Every variable keeps its type.
THEOREM AccountTypes == Spec => []TypeOK
<1>1. EntryInv => TypeOK
  BY DEF EntryInv, Inv, TypeOK
<1>2. QED
  BY <1>1, AlwaysEntry, PTL

\* Every copy of the users row that a request or the cache holds is a past one:
\* nothing in it was not bought or earned by now.
THEOREM CopiesOld == Spec => []CopiesAreOld
<1>1. Inv => CopiesAreOld
  BY DEF Inv
<1>2. QED
  BY <1>1, AlwaysInv, PTL

\* The single UPDATE of a paint never spends a charge twice, and no droplet is
\* lost, unless a purchase has written over a newer row.
THEOREM BooksAlwaysBalance == Spec => []BooksBalance
<1>1. Inv => BooksBalance
  BY DEF Inv
<1>2. QED
  BY <1>1, AlwaysInv, PTL

\* A cached entry is the row, or a request that wrote the row is about to repair
\* it, or the last copy put there was overtaken on its way, or a repair has been
\* abandoned since: nothing else ever leaves a stale entry behind.
THEOREM StaleEntriesAreOwed == Spec => []StaleIsOwed
<1>1. EntryInv => StaleIsOwed
  BY DEF EntryInv, CopiesFollow
<1>2. QED
  BY <1>1, AlwaysEntry, PTL

\* Colors painted with and flags used were bought.
THEOREM OnlyBoughtIsEnjoyed == Spec => []EnjoyedWasBought
<1>1. Inv => EnjoyedWasBought
  BY DEF Inv
<1>2. QED
  BY <1>1, AlwaysInv, PTL

\* Only a charge moves the pixel count, and its WHERE clause looks at the row of
\* that moment.
LEMMA PaintedIsCharged ==
    ASSUME StateOK, [Next]_vars, row'.painted # row.painted
    PROVE  \E r \in Requests : Charge(r)
<1>1. row \in Users
  BY DEF StateOK
<1>2. row' # row
  OBVIOUS
<1>3. ASSUME NEW r \in Requests, EquipFlag(r) \/ DebitPicture(r) \/ Sanction(r) \/ Reban(r)
                                   \/ Grant(r) \/ Buy(r)
      PROVE  row'.painted = row.painted
  BY <1>1, <1>3 DEF EquipFlag, DebitPicture, Sanction, Reban, Grant, Buy, Purchased, Users
<1>4. ASSUME NEW r \in Requests, Ask(r) PROVE row' = row
  BY <1>4 DEF Ask, AskPaint, AskPurchase, AskFlag, AskProfile, AskPicture, AskUpdate,
     AskSanction, AskGrant, Lookup, Started
<1>5. ASSUME NEW r \in Requests, \/ EnterPaint(r) \/ Load(r) \/ Fill(r) \/ Store(r) \/ Refused(r)
                                 \/ CheckDroplets(r) \/ UpdateProfile(r) \/ Reload(r)
                                 \/ Refill(r) \/ Invalidate(r) \/ Abandon(r)
      PROVE  row' = row
  BY <1>5 DEF EnterPaint, Load, Fill, Store, Refused, CheckDroplets, UpdateProfile, Reload, Refill,
     Invalidate, Abandon
<1>6. ~Expire /\ ~Tick /\ ~(UNCHANGED vars)
  BY <1>2 DEF Expire, Tick, vars
<1>7. QED
  BY <1>2, <1>3, <1>4, <1>5, <1>6 DEF Next, Serve, Step

\* A ban or a timeout in force binds every charge, whatever snapshot let the
\* request through.
THEOREM SanctionsAlwaysBind == Spec => SanctionsBind
<1>1. Inv /\ [Next]_vars
        => [row'.painted # row.painted => ~row.banned /\ row.until <= now]_vars
  BY PaintedIsCharged DEF Inv, Charge, Payable
<1>2. QED
  BY <1>1, AlwaysInv, PTL DEF Spec, SanctionsBind

=============================================================================
