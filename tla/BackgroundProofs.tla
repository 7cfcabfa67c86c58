-------------------------- MODULE BackgroundProofs --------------------------
(***************************************************************************)
(* Theorems about RateLimiter, Leaderboard (L) and Statistics (S), for     *)
(* every value of their constants, in the behaviours of Background.        *)
(***************************************************************************)
EXTENDS Background, DataProofs

LEMMA LimiterRuns == BackgroundSpec => Spec
<1>1. BackgroundInit => Init
  BY DEF BackgroundInit
<1>2. [BackgroundNext]_all => [Next]_vars
  BY DEF BackgroundNext, Limiter, Statistics, Leaderboard, all
<1>3. QED
  BY <1>1, <1>2, PTL DEF BackgroundSpec, Spec

-----------------------------------------------------------------------------
Grants == [n : Nat, at : Nat, key : Keys, kind : Kinds]

Jobs == [key : Keys, kind : Kinds] \cup {Idle}

\* The attempts let in are finitely many, so that they can be numbered, and an
\* address without an entry has no attempts.
Shape ==
    /\ job \in [Requests -> Jobs]
    /\ IsFiniteSet(grants) /\ grants \subseteq Grants
    /\ \A k \in Keys : k \notin present => attempts[k] = {}

\* A promise that is not over yet is what the entry of its address blocks until.
PromisesStand ==
    \A k \in Keys : promised[k] > now => k \in present /\ block[k] = promised[k]

Inv == LimiterTypeOK /\ Shape /\ PromisesStand

LEMMA NumberType == Shape => Number \in Nat
BY FS_CardinalityType DEF Shape, Number

\* An entry that is full has attempts, so it is there.
LEMMA FullIsPresent ==
    ASSUME Inv, NEW k \in Keys, NEW c \in Kinds, ~Misconfigured(c),
           Cardinality(Counted(k, c)) >= Limit[c]
    PROVE  k \in present
<1>1. Limit[c] \in Int /\ Limit[c] > 0
  BY LimiterAssumption DEF Misconfigured
<1>2. Counted(k, c) # {}
  BY <1>1, FS_EmptySet
<1>3. QED
  BY <1>2 DEF Counted, Inv, Shape

LEMMA InitInv == Init => Inv
<1> SUFFICES ASSUME Init PROVE Inv
  OBVIOUS
<1> USE DEF Init
<1>1. LimiterTypeOK
  BY DEF LimiterTypeOK, NoBlock
<1>2. Shape
  BY FS_EmptySet DEF Shape, Jobs
<1>3. PromisesStand
  BY DEF PromisesStand
<1>4. QED
  BY <1>1, <1>2, <1>3 DEF Inv

-----------------------------------------------------------------------------
\* One lemma per action.

LEMMA BlockedInv ==
    ASSUME Inv, NEW k \in Keys, NEW c \in Kinds, CheckBlocked(k, c)
    PROVE  Inv'
<1> USE DEF CheckBlocked, Denies, entries
<1>1. LimiterTypeOK'
  BY DEF Inv, LimiterTypeOK
<1>2. Shape'
  BY DEF Inv, Shape
<1>3. PromisesStand'
  BY DEF Inv, PromisesStand, LimiterTypeOK, Blocked
<1>4. QED
  BY <1>1, <1>2, <1>3 DEF Inv

LEMMA FullInv ==
    ASSUME Inv, NEW k \in Keys, NEW c \in Kinds, CheckFull(k, c)
    PROVE  Inv'
<1> USE DEF CheckFull, Denies
<1>1. now + 2 * Window[c] \in Int
  BY LimiterAssumption DEF Inv, LimiterTypeOK
<1>2. k \in present
  BY FullIsPresent
<1>3. LimiterTypeOK'
  BY <1>1 DEF Inv, LimiterTypeOK, Counted
<1>4. Shape'
  BY <1>2 DEF Inv, Shape
<1>5. PromisesStand'
  BY <1>1, <1>2 DEF Inv, PromisesStand, LimiterTypeOK
<1>6. QED
  BY <1>3, <1>4, <1>5 DEF Inv

LEMMA GrantsInv ==
    ASSUME Inv, NEW k \in Keys, NEW c \in Kinds, NEW r \in Requests, CheckGrants(r, k, c)
    PROVE  Inv'
<1> USE DEF CheckGrants
<1>1. Number \in Nat /\ now \in Nat
  BY NumberType DEF Inv, LimiterTypeOK
<1>2. LimiterTypeOK'
  BY <1>1 DEF Inv, LimiterTypeOK, Counted, Attempt, NoBlock
<1>3. Shape'
  <2>1. job' \in [Requests -> Jobs]
    BY DEF Inv, Shape, Jobs
  <2>2. IsFiniteSet(grants')
    BY FS_AddElement DEF Inv, Shape
  <2>3. grants' \subseteq Grants
    BY <1>1 DEF Inv, Shape, Grants
  <2>4. ASSUME NEW l \in Keys, l \notin present' PROVE attempts'[l] = {}
    BY <2>4 DEF Inv, Shape, LimiterTypeOK
  <2>5. QED
    BY <2>1, <2>2, <2>3, <2>4 DEF Shape
<1>4. PromisesStand'
  <2>1. ~(promised[k] > now)
    BY DEF Inv, PromisesStand, Blocked, LimiterTypeOK
  <2>2. QED
    BY <2>1 DEF Inv, PromisesStand, LimiterTypeOK
<1>5. QED
  BY <1>2, <1>3, <1>4 DEF Inv

\* The end of a request takes an attempt back, or not; it never unblocks.
LEMMA DoneInv ==
    ASSUME Inv, NEW r \in Requests, Succeed(r) \/ Fail(r)
    PROVE  Inv'
<1>1. job[r] # Idle /\ job' = [job EXCEPT ![r] = Idle]
  BY DEF Succeed, Fail
<1>2. job[r].key \in Keys
  BY <1>1 DEF Inv, Shape, Jobs
<1>3. UNCHANGED <<now, present, block, grants, promised>>
  BY DEF Succeed, Fail, entries
<1>4. \/ UNCHANGED <<attempts, last>>
      \/ /\ attempts' = [attempts EXCEPT ![job[r].key] = @ \ Newest(job[r].key)]
         /\ last' = [last EXCEPT ![job[r].key] = now]
  BY DEF Succeed, Fail, RecordSuccess, entries
<1>5. LimiterTypeOK'
  BY <1>2, <1>3, <1>4 DEF Inv, LimiterTypeOK
<1>6. Shape'
  <2>1. job' \in [Requests -> Jobs]
    BY <1>1 DEF Inv, Shape, Jobs
  <2>2. ASSUME NEW l \in Keys, l \notin present' PROVE attempts'[l] = {}
    BY <1>2, <1>3, <1>4, <2>2 DEF Inv, Shape, LimiterTypeOK
  <2>3. QED
    BY <1>3, <2>1, <2>2 DEF Inv, Shape
<1>7. PromisesStand'
  BY <1>3 DEF Inv, PromisesStand
<1>8. QED
  BY <1>5, <1>6, <1>7 DEF Inv

\* The cleanup keeps what is blocked, however idle it is.
LEMMA CleanupInv == ASSUME Inv, Cleanup PROVE Inv'
<1> USE DEF Cleanup, Kept
<1>1. LimiterTypeOK'
  BY DEF Inv, LimiterTypeOK, NoBlock
<1>2. Shape'
  BY DEF Inv, Shape
<1>3. PromisesStand'
  BY DEF Inv, PromisesStand, LimiterTypeOK, Blocked
<1>4. QED
  BY <1>1, <1>2, <1>3 DEF Inv

LEMMA TickInv == ASSUME Inv, Tick PROVE Inv'
<1> USE DEF Tick, entries
<1>1. LimiterTypeOK'
  BY DEF Inv, LimiterTypeOK
<1>2. Shape'
  BY DEF Inv, Shape
<1>3. PromisesStand'
  BY DEF Inv, PromisesStand, LimiterTypeOK
<1>4. QED
  BY <1>1, <1>2, <1>3 DEF Inv

LEMMA StutterInv == ASSUME Inv, UNCHANGED vars PROVE Inv'
BY DEF Inv, LimiterTypeOK, Shape, PromisesStand, vars, entries

LEMMA StepInv == Inv /\ [Next]_vars => Inv'
<1> SUFFICES ASSUME Inv, [Next]_vars PROVE Inv'
  OBVIOUS
<1>1. ASSUME NEW k \in Keys, NEW c \in Kinds, Asks(k, c) PROVE Inv'
  <2>1. CASE CheckMisconfigured(k, c)
    BY <2>1, StutterInv DEF CheckMisconfigured
  <2>2. QED
    BY <1>1, <2>1, BlockedInv, FullInv, GrantsInv DEF Asks
<1>2. QED
  BY <1>1, DoneInv, CleanupInv, TickInv, StutterInv DEF Next

-----------------------------------------------------------------------------
\* The types hold in every behaviour.
THEOREM LimiterTypes == BackgroundSpec => []LimiterTypeOK
<1>1. Inv => LimiterTypeOK
  BY DEF Inv
<1>2. QED
  BY <1>1, InitInv, StepInv, LimiterRuns, PTL DEF Spec

\* Whatever limits, windows and idle time are configured, nobody is let in
\* before the moment that an answer of check has named to his address.
LEMMA StepHolds == Inv /\ [Next]_vars => \A g \in grants' \ grants : now >= promised[g.key]
<1> SUFFICES ASSUME Inv, [Next]_vars, NEW g \in grants' \ grants
             PROVE  now >= promised[g.key]
  OBVIOUS
<1>1. PICK k \in Keys, c \in Kinds, r \in Requests : CheckGrants(r, k, c)
  BY DEF Next, Asks, CheckMisconfigured, CheckBlocked, CheckFull, Denies, Succeed, Fail,
         Cleanup, Tick, vars
<1>2. g.key = k
  BY <1>1 DEF CheckGrants
<1>3. ~(promised[k] > now)
  BY <1>1 DEF CheckGrants, Inv, PromisesStand, Blocked, LimiterTypeOK
<1>4. QED
  BY <1>2, <1>3 DEF Inv, LimiterTypeOK

THEOREM BlocksAlwaysHold == Spec => BlocksHold
<1>1. Spec => []Inv
  BY InitInv, StepInv, PTL DEF Spec
<1>2. QED
  BY <1>1, StepHolds, PTL DEF Spec, BlocksHold

-----------------------------------------------------------------------------
\* The sliding window of the strictest kind.

GrantsAfter(k, t) == {g \in grants : g.key = k /\ g.at > t}
GrantsOf(k, c, t) == {g \in grants : g.key = k /\ g.at > t /\ g.kind = c}
AttemptsAfter(k, t) == {a \in attempts[k] : a.at > t}
RefundsAfter(k, t) == {x \in refunds : x.key = k /\ x.at > t}

\* Attempts and refunds are finitely many and numbered, and an entry was used
\* when the latest grant was made.
Numbered ==
    /\ \A k \in Keys : /\ IsFiniteSet(attempts[k]) /\ last[k] <= now
                       /\ \A a \in attempts[k] : a.n < Number
                       /\ \A a, b \in attempts[k] : a.n = b.n => a = b
    /\ \A g \in grants : g.n < Number /\ g.at <= last[g.key]
    /\ IsFiniteSet(refunds) /\ refunds \subseteq [n : Nat, at : Nat, key : Keys]
    /\ \A x \in refunds : x.n < Cardinality(refunds)

\* What was granted after a moment in the window is still counted, or was taken back.
Accounted(k, t) == Cardinality(GrantsAfter(k, t)) <= Cardinality(AttemptsAfter(k, t)) + Cardinality(RefundsAfter(k, t))
Bounded(k, c, t) == Cardinality(GrantsOf(k, c, t)) <= Limit[c] + Cardinality(RefundsAfter(k, t))

\* These hold of every moment that the window, or a later one, begins at.
Windows == \A k \in Keys, c \in Strictest, t \in Int :
              t >= now - Window[c] => Accounted(k, t) /\ Bounded(k, c, t)

WinInv == Inv /\ Numbered /\ Windows

LEMMA Part ==
    ASSUME NEW A, IsFiniteSet(A), NEW T, T \subseteq A
    PROVE  IsFiniteSet(T) /\ Cardinality(T) \in Nat /\ Cardinality(T) <= Cardinality(A)
BY FS_Subset, FS_CardinalityType

LEMMA OneMore ==
    ASSUME NEW A, IsFiniteSet(A), NEW x, x \notin A, NEW T, T = A \cup {x}
    PROVE  Cardinality(A) \in Nat /\ Cardinality(T) = Cardinality(A) + 1
BY FS_AddElement, FS_CardinalityType

LEMMA OneLess ==
    ASSUME NEW A, IsFiniteSet(A), NEW R, \A x, y \in R : x = y, NEW T, T = A \ R
    PROVE  Cardinality(T) \in Nat /\ Cardinality(A) <= Cardinality(T) + 1
<1>1. CASE \E x \in A : x \in R
  <2>1. PICK x \in A : x \in R
    BY <1>1
  <2>2. T = A \ {x}
    BY <2>1
  <2>3. Cardinality(T) = Cardinality(A \ {x})
    BY <2>2
  <2>4. Cardinality(A) \in Nat /\ Cardinality(T) \in Nat
    BY <2>2, FS_RemoveElement, FS_CardinalityType
  <2>5. Cardinality(A \ {x}) = Cardinality(A) - 1
    BY <2>1, FS_RemoveElement
  <2>6. QED
    BY <2>3, <2>4, <2>5
<1>2. CASE ~ \E x \in A : x \in R
  <2>1. T = A
    BY <1>2
  <2>2. Cardinality(T) = Cardinality(A) /\ Cardinality(A) \in Nat
    BY <2>1, FS_CardinalityType
  <2>3. QED
    BY <2>2
<1>3. QED
  BY <1>1, <1>2

\* The four sets are finite.
LEMMA Counts ==
    ASSUME Inv, Numbered, NEW k \in Keys, NEW c \in Kinds, NEW t \in Int
    PROVE  /\ IsFiniteSet(GrantsAfter(k, t)) /\ Cardinality(GrantsAfter(k, t)) \in Nat
           /\ IsFiniteSet(GrantsOf(k, c, t)) /\ Cardinality(GrantsOf(k, c, t)) \in Nat
           /\ Cardinality(GrantsOf(k, c, t)) <= Cardinality(GrantsAfter(k, t))
           /\ IsFiniteSet(AttemptsAfter(k, t)) /\ Cardinality(AttemptsAfter(k, t)) \in Nat
           /\ IsFiniteSet(RefundsAfter(k, t)) /\ Cardinality(RefundsAfter(k, t)) \in Nat
<1>1. GrantsAfter(k, t) \subseteq grants /\ IsFiniteSet(grants)
  BY DEF GrantsAfter, Inv, Shape
<1>2. GrantsOf(k, c, t) \subseteq GrantsAfter(k, t)
  BY DEF GrantsAfter, GrantsOf
<1>3. AttemptsAfter(k, t) \subseteq attempts[k] /\ IsFiniteSet(attempts[k])
  BY DEF AttemptsAfter, Numbered
<1>4. RefundsAfter(k, t) \subseteq refunds /\ IsFiniteSet(refunds)
  BY DEF RefundsAfter, Numbered
<1>5. IsFiniteSet(GrantsAfter(k, t)) /\ Cardinality(GrantsAfter(k, t)) \in Nat
  BY <1>1, Part
<1>6. QED
  BY <1>2, <1>3, <1>4, <1>5, Part

LEMMA StrictestWindow ==
    ASSUME NEW c \in Strictest
    PROVE  /\ c \in Kinds /\ ~Misconfigured(c) /\ Limit[c] \in Nat /\ Window[c] \in Nat /\ IdleTTL \in Nat
           /\ Window[c] <= IdleTTL
           /\ \A d \in Kinds : Misconfigured(d) \/ (Window[d] \in Nat /\ Window[c] <= Window[d])
BY LimiterAssumption DEF Strictest, Misconfigured

\* Nothing was granted after the last use of an entry.
LEMMA NoneLater ==
    ASSUME Inv, Numbered, NEW k \in Keys, NEW t \in Int, last[k] <= t
    PROVE  GrantsAfter(k, t) = {}
<1>1. \A g \in grants : g.at \in Nat /\ g.at <= last[g.key]
  BY DEF Inv, Shape, Grants, Numbered
<1>2. last[k] \in Nat
  BY DEF Inv, LimiterTypeOK
<1>3. QED
  BY <1>1, <1>2 DEF GrantsAfter

LEMMA NoneBounded ==
    ASSUME Inv, Numbered, NEW k \in Keys, NEW c \in Strictest, NEW t \in Int, GrantsAfter(k, t) = {}
    PROVE  Accounted(k, t) /\ Bounded(k, c, t)
<1>1. Cardinality(GrantsAfter(k, t)) = 0
  BY FS_EmptySet
<1>2. QED
  BY <1>1, Counts, StrictestWindow DEF Accounted, Bounded

\* Steps that grant and take back nothing.
LEMMA WindowsKept ==
    ASSUME WinInv, Inv', Numbered', UNCHANGED <<grants, refunds>>, now' >= now,
           \A k \in Keys, c \in Strictest, t \in Int :
              t >= now - Window[c] => AttemptsAfter(k, t)' = AttemptsAfter(k, t) \/ GrantsAfter(k, t) = {}
    PROVE  WinInv'
<1> SUFFICES ASSUME NEW k \in Keys, NEW c \in Strictest, NEW t \in Int, t >= now' - Window[c]
             PROVE  (Accounted(k, t) /\ Bounded(k, c, t))'
  BY DEF WinInv, Windows, Strictest, Misconfigured
<1>1. t >= now - Window[c]
  BY StrictestWindow DEF WinInv, Inv, LimiterTypeOK
<1>2. Accounted(k, t) /\ Bounded(k, c, t)
  BY <1>1 DEF WinInv, Windows
<1>3. /\ GrantsAfter(k, t)' = GrantsAfter(k, t) /\ GrantsOf(k, c, t)' = GrantsOf(k, c, t)
      /\ RefundsAfter(k, t)' = RefundsAfter(k, t)
  BY DEF GrantsAfter, GrantsOf, RefundsAfter
<1>4. CASE AttemptsAfter(k, t)' = AttemptsAfter(k, t)
  BY <1>2, <1>3, <1>4 DEF Accounted, Bounded
<1>5. CASE GrantsAfter(k, t) = {}
  <2>1. Cardinality(GrantsAfter(k, t)') = 0
    BY <1>3, <1>5, FS_EmptySet
  <2>2. Cardinality(AttemptsAfter(k, t)') \in Nat
    <3>1. AttemptsAfter(k, t)' \subseteq attempts'[k] /\ IsFiniteSet(attempts'[k])
      BY DEF AttemptsAfter, Numbered
    <3>2. PICK A : A = AttemptsAfter(k, t)'
      OBVIOUS
    <3>3. QED
      BY <3>1, <3>2, Part
  <2>3. Cardinality(RefundsAfter(k, t)') \in Nat
    BY <1>3, Counts, StrictestWindow DEF WinInv
  <2>4. QED
    BY <1>2, <1>3, <2>1, <2>2, <2>3 DEF Accounted, Bounded
<1>6. QED
  BY <1>1, <1>4, <1>5

LEMMA NumberedKept ==
    ASSUME WinInv, Inv', UNCHANGED <<grants, refunds>>, now' >= now,
           \A k \in Keys : attempts'[k] \subseteq attempts[k] /\ last[k] <= last'[k] /\ last'[k] <= now'
    PROVE  Numbered'
<1>1. \A k \in Keys : IsFiniteSet(attempts'[k])
  BY Part DEF WinInv, Numbered
<1>2. Number' = Number
  BY DEF Number
<1>3. \A k \in Keys : \A a, b \in attempts'[k] : a.n < Number /\ (a.n = b.n => a = b)
  BY DEF WinInv, Numbered
<1>4. ASSUME NEW g \in grants PROVE g.at <= last'[g.key] /\ g.n < Number
  <2>1. g.key \in Keys /\ g.at \in Nat /\ g.at <= last[g.key] /\ g.n < Number
    BY DEF WinInv, Inv, Shape, Grants, Numbered
  <2>2. last[g.key] \in Nat /\ last'[g.key] \in Nat
    BY <2>1 DEF WinInv, Inv, LimiterTypeOK
  <2>3. QED
    BY <2>1, <2>2
<1>5. QED
  BY <1>1, <1>2, <1>3, <1>4 DEF WinInv, Numbered

\* What a request does not count, the strictest kind does not count either.
LEMMA Pruned ==
    ASSUME Inv, NEW k \in Keys, NEW d \in Kinds, ~Misconfigured(d), NEW c \in Strictest,
           NEW t \in Int, t >= now - Window[c]
    PROVE  {a \in Counted(k, d) : a.at > t} = AttemptsAfter(k, t)
<1>1. Window[c] \in Nat /\ Window[d] \in Nat /\ Window[c] <= Window[d] /\ now \in Nat
  BY StrictestWindow DEF Inv, LimiterTypeOK
<1>2. \A a \in attempts[k] : a.at \in Nat
  BY DEF Inv, LimiterTypeOK, Attempt
<1>3. QED
  BY <1>1, <1>2 DEF Counted, AttemptsAfter

LEMMA FullKept ==
    ASSUME WinInv, NEW k \in Keys, NEW d \in Kinds, CheckFull(k, d)
    PROVE  WinInv'
<1> USE DEF CheckFull, Denies
<1>1. Inv'
  BY FullInv DEF WinInv
<1>2. Numbered'
  <2>1. \A l \in Keys : attempts'[l] \subseteq attempts[l] /\ last[l] <= last'[l] /\ last'[l] <= now'
    BY DEF WinInv, Numbered, Counted, Inv, LimiterTypeOK
  <2>2. QED
    BY <1>1, <2>1, NumberedKept DEF WinInv, Inv, LimiterTypeOK
<1>3. ASSUME NEW l \in Keys, NEW c \in Strictest, NEW t \in Int, t >= now - Window[c]
      PROVE  AttemptsAfter(l, t)' = AttemptsAfter(l, t)
  <2>1. CASE l = k
    <3>1. attempts'[l] = Counted(l, d)
      BY <2>1 DEF WinInv, Inv, LimiterTypeOK
    <3>2. AttemptsAfter(l, t)' = {a \in Counted(l, d) : a.at > t}
      BY <3>1 DEF AttemptsAfter
    <3>3. QED
      BY <1>3, <2>1, <3>2, Pruned DEF WinInv
  <2>2. CASE l # k
    <3>1. attempts'[l] = attempts[l]
      BY <2>2 DEF WinInv, Inv, LimiterTypeOK
    <3>2. QED
      BY <3>1 DEF AttemptsAfter
  <2>3. QED
    BY <2>1, <2>2
<1>4. QED
  BY <1>1, <1>2, <1>3, WindowsKept DEF WinInv, Inv, LimiterTypeOK

\* An entry that is dropped has not been used within the window.
LEMMA CleanupKept == ASSUME WinInv, Cleanup PROVE WinInv'
<1> USE DEF Cleanup
<1>1. Inv'
  BY CleanupInv DEF WinInv
<1>2. Numbered'
  <2>1. \A l \in Keys : attempts'[l] \subseteq attempts[l] /\ last[l] <= last'[l] /\ last'[l] <= now'
    BY DEF WinInv, Numbered, Inv, LimiterTypeOK
  <2>2. QED
    BY <1>1, <2>1, NumberedKept DEF WinInv, Inv, LimiterTypeOK
<1>3. ASSUME NEW l \in Keys, NEW c \in Strictest, NEW t \in Int, t >= now - Window[c]
      PROVE  AttemptsAfter(l, t)' = AttemptsAfter(l, t) \/ GrantsAfter(l, t) = {}
  <2>1. CASE attempts'[l] = attempts[l]
    BY <2>1 DEF AttemptsAfter
  <2>2. CASE l \in present /\ l \notin Kept
    <3>1. ~(now - last[l] <= IdleTTL)
      BY <2>2 DEF Kept
    <3>2. last[l] <= t
      BY <1>3, <3>1, StrictestWindow DEF WinInv, Inv, LimiterTypeOK
    <3>3. QED
      BY <3>2, NoneLater DEF WinInv
  <2>3. QED
    BY <2>1, <2>2 DEF WinInv, Inv, Shape
<1>4. QED
  BY <1>1, <1>2, <1>3, WindowsKept DEF WinInv, Inv, LimiterTypeOK

\* Steps that leave the entries and the history alone.
LEMMA AsideKept ==
    ASSUME WinInv, Inv', UNCHANGED <<attempts, last, grants, refunds>>, now' >= now
    PROVE  WinInv'
<1>1. Numbered'
  <2>1. \A l \in Keys : attempts'[l] \subseteq attempts[l] /\ last[l] <= last'[l] /\ last'[l] <= now'
    BY DEF WinInv, Numbered, Inv, LimiterTypeOK
  <2>2. QED
    BY <2>1, NumberedKept
<1>2. ASSUME NEW l \in Keys, NEW t \in Int PROVE AttemptsAfter(l, t)' = AttemptsAfter(l, t)
  BY DEF AttemptsAfter
<1>3. QED
  BY <1>1, <1>2, WindowsKept

-----------------------------------------------------------------------------
\* A success takes back one attempt, which may be that of another request.

LEMMA NewestIsOne ==
    ASSUME WinInv, NEW k \in Keys, NEW a \in Newest(k), NEW b \in Newest(k)
    PROVE  a = b
<1>1. a \in attempts[k] /\ b \in attempts[k] /\ a.n <= b.n /\ b.n <= a.n /\ a.n \in Nat /\ b.n \in Nat
  BY DEF Newest, WinInv, Inv, LimiterTypeOK, Attempt
<1>2. QED
  BY <1>1 DEF WinInv, Numbered

LEMMA RefundNumbered ==
    ASSUME WinInv, Inv', NEW k \in Keys, UNCHANGED <<now, grants>>,
           attempts' = [attempts EXCEPT ![k] = @ \ Newest(k)], last' = [last EXCEPT ![k] = now],
           refunds' = refunds \cup {[n |-> Cardinality(refunds), at |-> now, key |-> k]}
    PROVE  Numbered'
<1>1. /\ IsFiniteSet(refunds) /\ Cardinality(refunds) \in Nat /\ now \in Nat
      /\ \A y \in refunds : y.n < Cardinality(refunds) /\ y.n \in Nat
  BY FS_CardinalityType DEF WinInv, Numbered, Inv, LimiterTypeOK
<1>2. PICK x : x = [n |-> Cardinality(refunds), at |-> now, key |-> k]
  OBVIOUS
<1>3. x.n = Cardinality(refunds) /\ x \notin refunds /\ x \in [n : Nat, at : Nat, key : Keys]
  BY <1>1, <1>2
<1>4. IsFiniteSet(refunds') /\ Cardinality(refunds') = Cardinality(refunds) + 1
  BY <1>1, <1>2, <1>3, FS_AddElement
<1>5. \A y \in refunds' : y.n < Cardinality(refunds')
  BY <1>1, <1>2, <1>3, <1>4
<1>6. refunds' \subseteq [n : Nat, at : Nat, key : Keys]
  BY <1>2, <1>3 DEF WinInv, Numbered
<1>7. \A l \in Keys : attempts'[l] \subseteq attempts[l] /\ last[l] <= last'[l] /\ last'[l] <= now
  BY <1>1 DEF WinInv, Numbered, Inv, LimiterTypeOK
<1>8. \A l \in Keys : IsFiniteSet(attempts'[l])
  BY <1>7, Part DEF WinInv, Numbered
<1>9. Number' = Number
  BY DEF Number
<1>10. \A l \in Keys : \A a, b \in attempts'[l] : a.n < Number /\ (a.n = b.n => a = b)
  BY <1>7 DEF WinInv, Numbered
<1>11. ASSUME NEW g \in grants PROVE g.at <= last'[g.key] /\ g.n < Number
  <2>1. g.key \in Keys /\ g.at \in Nat /\ g.at <= last[g.key] /\ g.n < Number
    BY DEF WinInv, Inv, Shape, Grants, Numbered
  <2>2. last[g.key] \in Nat /\ last'[g.key] \in Nat /\ last[g.key] <= last'[g.key]
    BY <1>7, <2>1 DEF WinInv, Inv, LimiterTypeOK
  <2>3. QED
    BY <2>1, <2>2
<1>12. QED
  BY ZenonT(30), <1>4, <1>5, <1>6, <1>7, <1>8, <1>9, <1>10, <1>11 DEF Numbered

LEMMA RefundKept ==
    ASSUME WinInv, Inv', NEW k \in Keys, UNCHANGED <<now, grants>>,
           attempts' = [attempts EXCEPT ![k] = @ \ Newest(k)], last' = [last EXCEPT ![k] = now],
           refunds' = refunds \cup {[n |-> Cardinality(refunds), at |-> now, key |-> k]}
    PROVE  WinInv'
<1>1. Numbered'
  BY RefundNumbered
<1>2. PICK x : x = [n |-> Cardinality(refunds), at |-> now, key |-> k]
  OBVIOUS
<1>3. x.at = now /\ x.key = k /\ x \notin refunds /\ now \in Nat
  <2>1. Cardinality(refunds) \in Nat /\ \A y \in refunds : y.n < Cardinality(refunds)
    BY FS_CardinalityType DEF WinInv, Numbered
  <2>2. QED
    BY <1>2, <2>1 DEF WinInv, Inv, LimiterTypeOK
<1> SUFFICES ASSUME NEW l \in Keys, NEW c \in Strictest, NEW t \in Int, t >= now - Window[c]
             PROVE  (Accounted(l, t) /\ Bounded(l, c, t))'
  BY <1>1 DEF WinInv, Windows, Strictest, Misconfigured
<1>4. Accounted(l, t) /\ Bounded(l, c, t)
  BY DEF WinInv, Windows
<1>5. GrantsAfter(l, t)' = GrantsAfter(l, t) /\ GrantsOf(l, c, t)' = GrantsOf(l, c, t)
  BY DEF GrantsAfter, GrantsOf
<1>6. /\ Cardinality(GrantsAfter(l, t)) \in Nat /\ Cardinality(GrantsOf(l, c, t)) \in Nat
      /\ Cardinality(AttemptsAfter(l, t)) \in Nat /\ Cardinality(RefundsAfter(l, t)) \in Nat
      /\ IsFiniteSet(AttemptsAfter(l, t)) /\ IsFiniteSet(RefundsAfter(l, t)) /\ Limit[c] \in Nat
      /\ Cardinality(GrantsOf(l, c, t)) <= Cardinality(GrantsAfter(l, t))
  BY Counts, StrictestWindow DEF WinInv
<1>7. PICK A : A = AttemptsAfter(l, t)'
  OBVIOUS
<1>8. PICK R : R = RefundsAfter(l, t)'
  OBVIOUS
<1>9. CASE l # k
  <2>1. A = AttemptsAfter(l, t)
    BY <1>7, <1>9 DEF AttemptsAfter, WinInv, Inv, LimiterTypeOK
  <2>2. R = RefundsAfter(l, t)
    BY <1>2, <1>3, <1>8, <1>9 DEF RefundsAfter
  <2>3. QED
    BY <1>4, <1>5, <1>7, <1>8, <2>1, <2>2 DEF Accounted, Bounded
<1>10. CASE l = k /\ t < now
  <2>1. A = AttemptsAfter(l, t) \ Newest(l)
    <3>1. attempts'[l] = attempts[l] \ Newest(l)
      BY <1>10 DEF WinInv, Inv, LimiterTypeOK
    <3>2. QED
      BY <1>7, <3>1 DEF AttemptsAfter
  <2>2. R = RefundsAfter(l, t) \cup {x} /\ x \notin RefundsAfter(l, t)
    BY <1>2, <1>3, <1>8, <1>10 DEF RefundsAfter
  <2>3. Cardinality(A) \in Nat /\ Cardinality(AttemptsAfter(l, t)) <= Cardinality(A) + 1
    BY <1>6, <2>1, NewestIsOne, OneLess
  <2>4. Cardinality(R) = Cardinality(RefundsAfter(l, t)) + 1
    BY <1>6, <2>2, OneMore
  <2>5. QED
    BY <1>4, <1>5, <1>6, <1>7, <1>8, <2>3, <2>4 DEF Accounted, Bounded
<1>11. CASE l = k /\ t >= now
  <2>1. last[l] <= t
    BY <1>3, <1>11 DEF WinInv, Numbered, Inv, LimiterTypeOK
  <2>2. Cardinality(GrantsAfter(l, t)) = 0
    BY <2>1, NoneLater, FS_EmptySet DEF WinInv
  <2>3. Cardinality(A) \in Nat /\ Cardinality(R) \in Nat
    <3>1. A \subseteq attempts'[l] /\ IsFiniteSet(attempts'[l])
      BY <1>1, <1>7 DEF AttemptsAfter, Numbered
    <3>2. R \subseteq refunds' /\ IsFiniteSet(refunds')
      BY <1>1, <1>8 DEF RefundsAfter, Numbered
    <3>3. QED
      BY <3>1, <3>2, Part
  <2>4. QED
    BY <1>5, <1>6, <1>7, <1>8, <2>2, <2>3 DEF Accounted, Bounded
<1>12. QED
  BY <1>3, <1>9, <1>10, <1>11

-----------------------------------------------------------------------------
\* A request that is let in.

LEMMA GrantFresh ==
    ASSUME WinInv
    PROVE  /\ \A k \in Keys : [n |-> Number, at |-> now] \notin attempts[k]
           /\ \A k \in Keys, d \in Kinds : [n |-> Number, at |-> now, key |-> k, kind |-> d] \notin grants
           /\ Number \in Nat /\ now \in Nat /\ IsFiniteSet(grants)
<1>1. Number \in Nat /\ now \in Nat /\ IsFiniteSet(grants)
  BY NumberType DEF WinInv, Inv, LimiterTypeOK, Shape
<1>2. \A k \in Keys : \A a \in attempts[k] : a.n # Number
  BY <1>1 DEF WinInv, Numbered
<1>3. \A g \in grants : g.n # Number
  BY <1>1 DEF WinInv, Numbered
<1>4. QED
  BY <1>1, <1>2, <1>3

LEMMA GrantNumbered ==
    ASSUME WinInv, Inv', NEW r \in Requests, NEW k \in Keys, NEW d \in Kinds, CheckGrants(r, k, d)
    PROVE  Numbered'
<1> USE DEF CheckGrants
<1>1. PICK x : x = [n |-> Number, at |-> now, key |-> k, kind |-> d]
  OBVIOUS
<1>2. PICK e : e = [n |-> Number, at |-> now]
  OBVIOUS
<1>3. Number \in Nat /\ now \in Nat /\ IsFiniteSet(grants) /\ x \notin grants
  BY <1>1, GrantFresh
<1>4. grants' = grants \cup {x}
  BY <1>1
<1>5. Number' = Number + 1
  BY <1>3, <1>4, FS_AddElement DEF Number
<1>6. \A l \in Keys : last[l] \in Nat /\ last'[l] \in Nat /\ last[l] <= last'[l] /\ last'[l] <= now
  BY <1>3 DEF WinInv, Numbered, Inv, LimiterTypeOK
<1>7. last'[k] = now
  BY DEF WinInv, Inv, LimiterTypeOK
<1>8. \A l \in Keys : attempts'[l] \subseteq attempts[l] \cup {e}
  BY <1>2 DEF WinInv, Inv, LimiterTypeOK, Counted
<1>9. ASSUME NEW l \in Keys PROVE IsFiniteSet(attempts'[l])
  <2>1. IsFiniteSet(attempts[l] \cup {e})
    BY FS_AddElement DEF WinInv, Numbered
  <2>2. QED
    BY <1>8, <2>1, Part
<1>10. \A l \in Keys : \A a \in attempts[l] : a.n \in Nat /\ a.n < Number
  BY DEF WinInv, Inv, LimiterTypeOK, Attempt, Numbered
<1>11. e.n = Number
  BY <1>2
<1>12. \A l \in Keys : \A a \in attempts'[l] : a.n < Number'
  BY <1>3, <1>5, <1>8, <1>10, <1>11
<1>13. \A l \in Keys : \A a, b \in attempts'[l] : a.n = b.n => a = b
  BY <1>3, <1>8, <1>10, <1>11 DEF WinInv, Numbered
<1>14. ASSUME NEW g \in grants' PROVE g.n < Number' /\ g.at <= last'[g.key]
  <2>1. CASE g = x
    BY <1>1, <1>3, <1>5, <1>7, <2>1
  <2>2. CASE g \in grants
    <3>1. g.key \in Keys /\ g.at \in Nat /\ g.n \in Nat /\ g.at <= last[g.key] /\ g.n < Number
      BY <2>2 DEF WinInv, Inv, Shape, Grants, Numbered
    <3>2. QED
      BY <1>3, <1>5, <1>6, <3>1
  <2>3. QED
    BY <1>4, <2>1, <2>2
<1>15. QED
  BY <1>6, <1>9, <1>12, <1>13, <1>14 DEF WinInv, Numbered

LEMMA GrantKept ==
    ASSUME WinInv, Inv', NEW r \in Requests, NEW k \in Keys, NEW d \in Kinds, CheckGrants(r, k, d)
    PROVE  WinInv'
<1>1. Numbered'
  BY GrantNumbered
<1>2. PICK x : x = [n |-> Number, at |-> now, key |-> k, kind |-> d]
  OBVIOUS
<1>3. PICK e : e = [n |-> Number, at |-> now]
  OBVIOUS
<1>4. /\ x \notin grants /\ e \notin attempts[k] /\ now \in Nat
      /\ x.at = now /\ x.key = k /\ x.kind = d /\ e.at = now
  BY <1>2, <1>3, GrantFresh
<1>5. /\ grants' = grants \cup {x} /\ refunds' = refunds /\ now' = now
      /\ attempts' = [attempts EXCEPT ![k] = Counted(k, d) \cup {e}]
      /\ ~Misconfigured(d) /\ Cardinality(Counted(k, d)) < Limit[d]
  BY <1>2, <1>3 DEF CheckGrants
<1> SUFFICES ASSUME NEW l \in Keys, NEW c \in Strictest, NEW t \in Int, t >= now - Window[c]
             PROVE  (Accounted(l, t) /\ Bounded(l, c, t))'
  BY <1>1, <1>5 DEF WinInv, Windows, Strictest, Misconfigured
<1>6. Accounted(l, t) /\ Bounded(l, c, t)
  BY DEF WinInv, Windows
<1>7. RefundsAfter(l, t)' = RefundsAfter(l, t)
  BY <1>5 DEF RefundsAfter
<1>8. /\ Cardinality(GrantsAfter(l, t)) \in Nat /\ Cardinality(GrantsOf(l, c, t)) \in Nat
      /\ Cardinality(AttemptsAfter(l, t)) \in Nat /\ Cardinality(RefundsAfter(l, t)) \in Nat
      /\ IsFiniteSet(GrantsAfter(l, t)) /\ IsFiniteSet(GrantsOf(l, c, t)) /\ IsFiniteSet(AttemptsAfter(l, t))
      /\ Limit[c] \in Nat /\ Cardinality(GrantsOf(l, c, t)) <= Cardinality(GrantsAfter(l, t))
  BY Counts, StrictestWindow DEF WinInv
<1>9. PICK A : A = AttemptsAfter(l, t)'
  OBVIOUS
<1>10. PICK G : G = GrantsAfter(l, t)'
  OBVIOUS
<1>11. PICK C : C = GrantsOf(l, c, t)'
  OBVIOUS
<1>12. CASE l # k
  <2>1. A = AttemptsAfter(l, t)
    BY <1>5, <1>9, <1>12 DEF AttemptsAfter, WinInv, Inv, LimiterTypeOK
  <2>2. G = GrantsAfter(l, t) /\ C = GrantsOf(l, c, t)
    BY <1>4, <1>5, <1>10, <1>11, <1>12 DEF GrantsAfter, GrantsOf
  <2>3. QED
    BY <1>6, <1>7, <1>9, <1>10, <1>11, <2>1, <2>2 DEF Accounted, Bounded
<1>13. CASE l = k /\ t < now
  <2>1. A = AttemptsAfter(l, t) \cup {e} /\ e \notin AttemptsAfter(l, t)
    <3>1. attempts'[l] = Counted(l, d) \cup {e}
      BY <1>5, <1>13 DEF WinInv, Inv, LimiterTypeOK
    <3>2. A = {a \in Counted(l, d) : a.at > t} \cup {e}
      BY <1>4, <1>9, <1>13, <3>1 DEF AttemptsAfter
    <3>3. {a \in Counted(l, d) : a.at > t} = AttemptsAfter(l, t)
      BY <1>5, Pruned DEF WinInv
    <3>4. QED
      BY <1>4, <1>13, <3>2, <3>3 DEF AttemptsAfter
  <2>2. G = GrantsAfter(l, t) \cup {x} /\ x \notin GrantsAfter(l, t)
    BY <1>4, <1>5, <1>10, <1>13 DEF GrantsAfter
  <2>3. Cardinality(A) = Cardinality(AttemptsAfter(l, t)) + 1
    BY <1>8, <2>1, OneMore
  <2>4. Cardinality(G) = Cardinality(GrantsAfter(l, t)) + 1
    BY <1>8, <2>2, OneMore
  <2>5. Accounted(l, t)'
    BY <1>6, <1>7, <1>8, <1>9, <1>10, <2>3, <2>4 DEF Accounted
  <2>6. CASE c # d
    <3>1. C = GrantsOf(l, c, t)
      BY <1>4, <1>5, <1>11, <2>6 DEF GrantsOf
    <3>2. QED
      BY <1>6, <1>7, <1>11, <2>5, <3>1 DEF Bounded
  <2>7. CASE c = d
    <3>1. C = GrantsOf(l, c, t) \cup {x} /\ x \notin GrantsOf(l, c, t)
      BY <1>4, <1>5, <1>11, <1>13, <2>7 DEF GrantsOf
    <3>2. Cardinality(C) = Cardinality(GrantsOf(l, c, t)) + 1
      BY <1>8, <3>1, OneMore
    <3>3. AttemptsAfter(l, t) \subseteq Counted(l, c) /\ IsFiniteSet(Counted(l, c))
      <4>1. Counted(l, c) \subseteq attempts[l] /\ IsFiniteSet(attempts[l])
        BY DEF Counted, WinInv, Numbered
      <4>2. {a \in Counted(l, d) : a.at > t} = AttemptsAfter(l, t)
        BY <1>5, Pruned DEF WinInv
      <4>3. QED
        BY <2>7, <4>1, <4>2, Part
    <3>4. Cardinality(AttemptsAfter(l, t)) <= Cardinality(Counted(l, c)) /\ Cardinality(Counted(l, c)) \in Nat
      BY <3>3, Part
    <3>5. Cardinality(Counted(l, c)) < Limit[c]
      BY <1>5, <1>13, <2>7
    <3>6. Cardinality(GrantsOf(l, c, t)) + 1 <= Limit[c] + Cardinality(RefundsAfter(l, t))
      BY <1>6, <1>8, <3>4, <3>5 DEF Accounted
    <3>7. QED
      BY <1>7, <1>11, <2>5, <3>2, <3>6 DEF Bounded
  <2>8. QED
    BY <2>6, <2>7
<1>14. CASE l = k /\ t >= now
  <2>1. last[l] <= t
    BY <1>4, <1>14 DEF WinInv, Numbered, Inv, LimiterTypeOK
  <2>2. GrantsAfter(l, t) = {}
    BY <2>1, NoneLater DEF WinInv
  <2>3. G = {}
    BY <1>4, <1>5, <1>10, <1>14, <2>2 DEF GrantsAfter
  <2>4. C = {}
    BY <1>10, <1>11, <2>3 DEF GrantsAfter, GrantsOf
  <2>5. Cardinality(A) \in Nat
    <3>1. A \subseteq attempts'[l] /\ IsFiniteSet(attempts'[l])
      BY <1>1, <1>9 DEF AttemptsAfter, Numbered
    <3>2. QED
      BY <3>1, Part
  <2>6. Cardinality(G) = 0 /\ Cardinality(C) = 0
    BY <2>3, <2>4, FS_EmptySet
  <2>7. QED
    BY <1>7, <1>8, <1>9, <1>10, <1>11, <2>5, <2>6 DEF Accounted, Bounded
<1>15. QED
  BY <1>4, <1>12, <1>13, <1>14

LEMMA WinInit == Init => WinInv
<1> SUFFICES ASSUME Init PROVE WinInv
  OBVIOUS
<1>1. Inv
  BY InitInv
<1>2. Numbered
  BY FS_EmptySet DEF Init, Numbered
<1>3. Windows
  <2> SUFFICES ASSUME NEW k \in Keys, NEW c \in Strictest, NEW t \in Int
               PROVE  Accounted(k, t) /\ Bounded(k, c, t)
    BY DEF Windows
  <2>1. GrantsAfter(k, t) = {}
    BY DEF GrantsAfter, Init
  <2>2. QED
    BY <1>1, <1>2, <2>1, NoneBounded
<1>4. QED
  BY <1>1, <1>2, <1>3 DEF WinInv

LEMMA WinStep == WinInv /\ [Next]_vars => WinInv'
<1> SUFFICES ASSUME WinInv, [Next]_vars PROVE WinInv'
  OBVIOUS
<1>1. Inv'
  BY StepInv DEF WinInv
<1>2. now \in Nat /\ now' \in Nat
  BY <1>1 DEF WinInv, Inv, LimiterTypeOK
<1>3. CASE UNCHANGED vars
  BY <1>1, <1>2, <1>3, AsideKept DEF vars, entries
<1>4. ASSUME NEW k \in Keys, NEW c \in Kinds, Asks(k, c) PROVE WinInv'
  <2>1. CASE CheckMisconfigured(k, c)
    BY <1>3, <2>1 DEF CheckMisconfigured
  <2>2. CASE CheckBlocked(k, c)
    BY <1>1, <1>2, <2>2, AsideKept DEF CheckBlocked, Denies, entries
  <2>3. CASE CheckFull(k, c)
    BY <2>3, FullKept
  <2>4. CASE \E r \in Requests : CheckGrants(r, k, c)
    BY <1>1, <2>4, GrantKept
  <2>5. QED
    BY <1>4, <2>1, <2>2, <2>3, <2>4 DEF Asks
<1>5. ASSUME NEW r \in Requests, Succeed(r) PROVE WinInv'
  <2>1. UNCHANGED <<now, grants>> /\ RecordSuccess(job[r].key)
    BY <1>5 DEF Succeed
  <2>2. CASE UNCHANGED <<attempts, last, refunds>>
    BY <1>1, <1>2, <2>1, <2>2, AsideKept
  <2>3. CASE ~ UNCHANGED <<attempts, last, refunds>>
    <3>1. PICK k \in Keys : k = job[r].key
      BY <1>5 DEF Succeed, WinInv, Inv, Shape, Jobs
    <3>2. /\ attempts' = [attempts EXCEPT ![k] = @ \ Newest(k)] /\ last' = [last EXCEPT ![k] = now]
          /\ refunds' = refunds \cup {[n |-> Cardinality(refunds), at |-> now, key |-> k]}
      BY <2>1, <2>3, <3>1 DEF RecordSuccess
    <3>3. QED
      BY <1>1, <2>1, <3>2, RefundKept
  <2>4. QED
    BY <2>2, <2>3
<1>6. ASSUME NEW r \in Requests, Fail(r) PROVE WinInv'
  BY <1>1, <1>2, <1>6, AsideKept DEF Fail, entries
<1>7. CASE Cleanup
  BY <1>7, CleanupKept
<1>8. CASE Tick
  BY <1>1, <1>2, <1>8, AsideKept DEF Tick, entries
<1>9. QED
  BY <1>3, <1>4, <1>5, <1>6, <1>7, <1>8 DEF Next

\* The kind with the shortest window sees a true sliding window, whatever
\* kinds share its entry and whenever it is pruned, refunded or dropped.
THEOREM WindowSlides == BackgroundSpec => []SlidingWindow
<1>1. WinInv => SlidingWindow
  <2> SUFFICES ASSUME WinInv, NEW k \in Keys, NEW c \in Strictest
               PROVE  Cardinality({g \in Within(grants, k, Window[c]) : g.kind = c})
                          <= Limit[c] + Cardinality(Within(refunds, k, Window[c]))
    BY DEF SlidingWindow
  <2>1. now \in Nat /\ Window[c] \in Nat
    BY StrictestWindow DEF WinInv, Inv, LimiterTypeOK
  <2>2. PICK t \in Int : t = now - Window[c]
    BY <2>1
  <2>3. Bounded(k, c, t)
    BY <2>1, <2>2 DEF WinInv, Windows
  <2>4. \A g \in grants : g.at \in Nat
    BY DEF WinInv, Inv, Shape, Grants
  <2>5. \A g \in refunds : g.at \in Nat
    BY DEF WinInv, Numbered
  <2>6. {g \in Within(grants, k, Window[c]) : g.kind = c} = GrantsOf(k, c, t)
    BY <2>1, <2>2, <2>4 DEF Within, GrantsOf
  <2>7. Within(refunds, k, Window[c]) = RefundsAfter(k, t)
    BY <2>1, <2>2, <2>5 DEF Within, RefundsAfter
  <2>8. QED
    BY <2>3, <2>6, <2>7 DEF Bounded
<1>2. QED
  BY <1>1, WinInit, WinStep, LimiterRuns, PTL DEF Spec

-----------------------------------------------------------------------------
\* Statistics: every increment is somewhere, once for each table.

Increments == [key : StatKeys, delta : Nat]

\* What a channel has for a key.
Under(q, k) == {i \in DOMAIN q : q[i].key = k}
Deltas(q) == [i \in DOMAIN q |-> q[i].delta]
Queued(q, k) == SumOf(Deltas(q), Under(q, k))

LEMMA UnderFinite ==
    ASSUME NEW q \in Seq(Increments), NEW k
    PROVE  Summed(Deltas(q), Under(q, k)) /\ Queued(q, k) \in Nat
<1>1. DOMAIN q = 1 .. Len(q) /\ Len(q) \in Nat
  OBVIOUS
<1>2. IsFiniteSet(DOMAIN q)
  BY <1>1, FS_Interval
<1>3. IsFiniteSet(Under(q, k))
  BY <1>2, Part DEF Under
<1>4. \A i \in Under(q, k) : Deltas(q)[i] \in Nat
  <2>1. \A i \in DOMAIN q : q[i] \in Increments
    OBVIOUS
  <2>2. \A i \in DOMAIN q : q[i].delta \in Nat
    BY <2>1 DEF Increments
  <2>3. QED
    BY <2>2 DEF Under, Deltas
<1>5. QED
  BY <1>3, <1>4, UnitsFinite DEF Summed, Queued

LEMMA QueuedNothing == ASSUME NEW k PROVE Queued(<< >>, k) = 0
<1>1. Under(<< >>, k) = {}
  BY DEF Under
<1>2. QED
  BY <1>1, SumEmpty DEF Queued

LEMMA QueuedOneMore ==
    ASSUME NEW q \in Seq(Increments), NEW m \in Increments, NEW k
    PROVE  Queued(Append(q, m), k) = Queued(q, k) + (IF m.key = k THEN m.delta ELSE 0)
<1>1. PICK p : p = Append(q, m)
  OBVIOUS
<1>2. PICK n \in Nat : n = Len(q)
  OBVIOUS
<1>3. /\ DOMAIN q = 1 .. n /\ DOMAIN p = 1 .. n + 1 /\ p[n + 1] = m
      /\ \A i \in 1 .. n : p[i] = q[i]
  BY <1>1, <1>2
<1>4. \A i \in Under(q, k) : Deltas(p)[i] = Deltas(q)[i]
  BY <1>3 DEF Under, Deltas
<1>5. SumOf(Deltas(p), Under(q, k)) = SumOf(Deltas(q), Under(q, k))
  BY <1>4, SumSame
<1>6. Summed(Deltas(p), Under(q, k)) /\ Queued(q, k) \in Nat
  BY <1>4, UnderFinite DEF Summed
<1>7. CASE m.key = k
  <2>1. Under(p, k) = Under(q, k) \cup {n + 1} /\ n + 1 \notin Under(q, k)
    BY <1>3, <1>7 DEF Under
  <2>2. Deltas(p)[n + 1] = m.delta /\ m.delta \in Nat
    BY <1>3 DEF Deltas, Increments
  <2>3. SumOf(Deltas(p), Under(q, k) \cup {n + 1}) = SumOf(Deltas(p), Under(q, k)) + Deltas(p)[n + 1]
    BY <1>6, <2>1, <2>2, SumMore
  <2>4. QED
    BY <1>1, <1>5, <1>7, <2>1, <2>2, <2>3 DEF Queued
<1>8. CASE m.key # k
  <2>1. Under(p, k) = Under(q, k)
    BY <1>3, <1>8 DEF Under
  <2>2. QED
    BY <1>1, <1>5, <1>6, <1>8, <2>1 DEF Queued
<1>9. QED
  BY <1>7, <1>8

LEMMA QueuedOneLess ==
    ASSUME NEW q \in Seq(Increments), q # << >>, NEW k
    PROVE  Queued(q, k) = Queued(Tail(q), k) + (IF Head(q).key = k THEN Head(q).delta ELSE 0)
<1>1. PICK p : p = Tail(q)
  OBVIOUS
<1>2. PICK n \in Nat : n + 1 = Len(q)
  <2>1. Len(q) \in Nat /\ Len(q) # 0
    OBVIOUS
  <2>2. Len(q) - 1 \in Nat
    BY <2>1
  <2>3. QED
    BY <2>2
<1>3. /\ DOMAIN q = 1 .. n + 1 /\ DOMAIN p = 1 .. n /\ Head(q) = q[1] /\ p \in Seq(Increments)
      /\ \A i \in 1 .. n : p[i] = q[i + 1]
  BY <1>1, <1>2
<1>4. PICK T : T = Under(q, k) \ {1}
  OBVIOUS
<1>5. PICK h : h = [i \in T |-> i - 1]
  OBVIOUS
<1>6. \A i : i \in T <=> i \in 2 .. n + 1 /\ q[i].key = k
  BY <1>3, <1>4 DEF Under
<1>7. \A i : i \in Under(p, k) <=> i \in 1 .. n /\ q[i + 1].key = k
  BY <1>3 DEF Under
<1>8. h \in Bijection(T, Under(p, k))
  <2>1. ASSUME NEW i \in T PROVE h[i] \in Under(p, k)
    <3>1. i \in 2 .. n + 1 /\ q[i].key = k /\ h[i] = i - 1
      BY <1>5, <1>6
    <3>2. i - 1 \in 1 .. n /\ (i - 1) + 1 = i
      BY <3>1
    <3>3. QED
      BY <1>7, <3>1, <3>2
  <2>2. \A i, j \in T : h[i] = h[j] => i = j
    BY <1>5, <1>6
  <2>3. ASSUME NEW j \in Under(p, k) PROVE \E i \in T : h[i] = j
    <3>1. j + 1 \in T /\ h[j + 1] = j
      BY <1>5, <1>6, <1>7
    <3>2. QED
      BY <3>1
  <2>4. QED
    BY <1>5, <2>1, <2>2, <2>3 DEF Bijection, Injection, Surjection, IsInjective, Range
<1>9. \A i \in T : Deltas(p)[h[i]] = Deltas(q)[i]
  BY <1>3, <1>5, <1>6 DEF Deltas
<1>10. Summed(Deltas(q), T)
  BY <1>4, UnderFinite, Part DEF Summed
<1>11. SumOf(Deltas(p), Under(p, k)) = SumOf(Deltas(q), T)
  BY <1>8, <1>9, <1>10, SumMoved
<1>12. SumOf(Deltas(q), T) \in Nat
  BY <1>10, UnitsFinite
<1>13. CASE q[1].key = k
  <2>1. 1 \in Under(q, k) /\ Deltas(q)[1] = q[1].delta /\ q[1].delta \in Nat
    <3>1. 1 \in DOMAIN q /\ q[1] \in Increments
      BY <1>3
    <3>2. q[1].delta \in Nat
      BY <3>1 DEF Increments
    <3>3. QED
      BY <1>13, <3>1, <3>2 DEF Under, Deltas
  <2>2. SumOf(Deltas(q), Under(q, k)) = Deltas(q)[1] + SumOf(Deltas(q), T)
    BY <1>4, <2>1, UnderFinite, SumSplit
  <2>3. QED
    BY <1>1, <1>3, <1>11, <1>12, <1>13, <2>1, <2>2 DEF Queued
<1>14. CASE q[1].key # k
  <2>1. T = Under(q, k)
    BY <1>4, <1>14 DEF Under
  <2>2. QED
    BY <1>1, <1>3, <1>11, <1>12, <1>14, <2>1 DEF Queued
<1>15. QED
  BY <1>13, <1>14

LEMMA StatSums ==
    /\ \A f, T : S!SumOf(f, T) = SumOf(f, T)
    /\ \A k : S!Waiting(k) = Queued(channel, k)
<1>1. \A T : S!Cardinality(T) = Cardinality(T)
  BY DEF S!Cardinality, Cardinality
<1>2. \A f, T : S!SumOf(f, T) = SumOf(f, T)
  BY <1>1 DEF S!SumOf, SumOf, S!Units, Units
<1>3. QED
  BY <1>2 DEF S!Waiting, Queued, Deltas, Under

\* CountedOnce, with these sums.
Told(t, k) == SumOf(table[t][k], S!Days)
Rest(t, k) == IF pc = "upsert" /\ <<k, t>> \notin todo THEN 0 ELSE acc[k]
Settled(t, k) == pushed[k] = Told(t, k) + (Queued(channel, k) + Rest(t, k)) + lost[t][k]

StatInv == /\ S!StatisticsTypeOK /\ channel \in Seq(Increments)
           /\ \A t \in S!Tables, k \in StatKeys : Settled(t, k)

LEMMA StatDays == IsFiniteSet(S!Days)
BY FS_Interval, BackgroundAssumption DEF S!Days

LEMMA StatNumbers ==
    ASSUME StatInv, NEW t \in S!Tables, NEW k \in StatKeys
    PROVE  /\ Told(t, k) \in Nat /\ Queued(channel, k) \in Nat /\ Rest(t, k) \in Nat
           /\ lost[t][k] \in Nat /\ acc[k] \in Nat /\ pushed[k] \in Nat /\ Settled(t, k)
           /\ table[t][k] \in [S!Days -> Nat] /\ Summed(table[t][k], S!Days)
<1>1. /\ table[t][k] \in [S!Days -> Nat] /\ lost[t][k] \in Nat /\ acc[k] \in Nat
      /\ pushed[k] \in Nat
  BY DEF StatInv, S!StatisticsTypeOK
<1>2. IsFiniteSet(S!Days)
  BY StatDays
<1>3. Summed(table[t][k], S!Days)
  BY <1>1, <1>2 DEF Summed
<1>4. Told(t, k) \in Nat
  BY <1>3, UnitsFinite DEF Told
<1>5. Queued(channel, k) \in Nat
  BY UnderFinite DEF StatInv
<1>6. Settled(t, k)
  BY DEF StatInv
<1>7. QED
  BY <1>1, <1>3, <1>4, <1>5, <1>6 DEF Rest

LEMMA StatInit == S!Init => StatInv
<1> SUFFICES ASSUME S!Init PROVE StatInv
  OBVIOUS
<1>1. S!StatisticsTypeOK /\ channel \in Seq(Increments)
  <2>1. 0 \in S!Days
    BY BackgroundAssumption DEF S!Days
  <2>2. QED
    BY <2>1 DEF S!Init, S!StatisticsTypeOK, S!Empty
<1>2. ASSUME NEW t \in S!Tables, NEW k \in StatKeys PROVE Settled(t, k)
  <2>1. Queued(channel, k) = 0
    BY QueuedNothing DEF S!Init
  <2>2. Rest(t, k) = 0 /\ lost[t][k] = 0 /\ pushed[k] = 0
    BY DEF S!Init, S!Empty, Rest
  <2>3. Told(t, k) = 0
    <3>1. \A d \in S!Days : table[t][k][d] = 0
      BY DEF S!Init
    <3>2. PICK f : f = table[t][k]
      OBVIOUS
    <3>3. Units(f, S!Days) = {}
      <4>1. PICK D : D = S!Days
        OBVIOUS
      <4>2. \A d \in D : 1 .. f[d] = {}
        BY <3>1, <3>2, <4>1
      <4>3. \A u : u \notin Units(f, D)
        BY <4>2, UnitsAre
      <4>4. QED
        BY <4>1, <4>3
    <3>4. QED
      BY <3>2, <3>3, FS_EmptySet DEF Told, SumOf
  <2>4. QED
    BY <2>1, <2>2, <2>3 DEF Settled
<1>3. QED
  BY <1>1, <1>2 DEF StatInv

-----------------------------------------------------------------------------
\* Steps of the statistics.

LEMMA StatPush == ASSUME StatInv, NEW k \in StatKeys, S!Push(k) PROVE StatInv'
<1>1. PICK m \in Increments : m = [key |-> k, delta |-> 1]
  BY DEF Increments
<1>2. /\ channel' = Append(channel, m) /\ pushed' = [pushed EXCEPT ![k] = @ + 1]
      /\ UNCHANGED <<acc, pc, todo, day, cities, today, table, lost>>
  BY <1>1 DEF S!Push, S!flush
<1>3. channel' \in Seq(Increments)
  BY <1>2 DEF StatInv
<1>4. S!StatisticsTypeOK'
  <2>1. \A i \in DOMAIN channel' : channel'[i] \in Increments
    BY <1>3
  <2>2. \A i \in DOMAIN channel' : channel'[i].key \in StatKeys /\ channel'[i].delta \in Nat
    BY <2>1 DEF Increments
  <2>3. pushed \in [StatKeys -> Nat]
    BY DEF StatInv, S!StatisticsTypeOK
  <2>4. pushed' \in [StatKeys -> Nat]
    BY <1>2, <2>3
  <2>5. QED
    BY <1>2, <2>2, <2>4 DEF StatInv, S!StatisticsTypeOK
<1>5. ASSUME NEW t \in S!Tables, NEW l \in StatKeys PROVE Settled(t, l)'
  <2>1. PICK c \in Seq(Increments) : c = channel'
    BY <1>3
  <2>2. Queued(c, l) = Queued(channel, l) + (IF m.key = l THEN m.delta ELSE 0)
    BY <1>2, <2>1, QueuedOneMore DEF StatInv
  <2>3. pushed'[l] = pushed[l] + (IF m.key = l THEN m.delta ELSE 0)
    <3>1. pushed \in [StatKeys -> Nat] /\ m.key = k /\ m.delta = 1
      BY <1>1 DEF StatInv, S!StatisticsTypeOK
    <3>2. CASE l = k
      BY <1>2, <3>1, <3>2
    <3>3. CASE l # k
      BY <1>2, <3>1, <3>3
    <3>4. QED
      BY <3>2, <3>3
  <2>4. Told(t, l)' = Told(t, l) /\ Rest(t, l)' = Rest(t, l) /\ lost'[t][l] = lost[t][l]
    BY <1>2 DEF Told, Rest
  <2>5. (IF m.key = l THEN m.delta ELSE 0) \in Nat
    BY <1>1
  <2>6. pushed'[l] = Told(t, l)' + (Queued(c, l) + Rest(t, l)') + lost'[t][l]
    <3>1. /\ pushed[l] = Told(t, l) + (Queued(channel, l) + Rest(t, l)) + lost[t][l]
          /\ Told(t, l) \in Nat /\ Queued(channel, l) \in Nat /\ Rest(t, l) \in Nat /\ lost[t][l] \in Nat
      BY StatNumbers DEF Settled
    <3>2. QED
      BY <2>2, <2>3, <2>4, <2>5, <3>1
  <2>7. QED
    BY <2>1, <2>6 DEF Settled
<1>6. QED
  BY <1>3, <1>4, <1>5 DEF StatInv

\* The flusher takes a message off the channel.
LEMMA StatTake ==
    ASSUME StatInv, channel # << >>, pc # "upsert", pc' \in {"drain", "late"},
           acc' = [acc EXCEPT ![Head(channel).key] = @ + Head(channel).delta],
           channel' = Tail(channel), UNCHANGED <<todo, day, today, table, pushed, lost>>
    PROVE  StatInv'
<1>1. PICK m \in Increments : m = Head(channel)
  BY DEF StatInv
<1>2. channel' \in Seq(Increments)
  BY DEF StatInv
<1>3. S!StatisticsTypeOK'
  <2>1. \A i \in DOMAIN channel' : channel'[i] \in Increments
    BY <1>2
  <2>2. \A i \in DOMAIN channel' : channel'[i].key \in StatKeys /\ channel'[i].delta \in Nat
    BY <2>1 DEF Increments
  <2>3. acc \in [StatKeys -> Nat] /\ m.key \in StatKeys /\ m.delta \in Nat
    BY DEF StatInv, S!StatisticsTypeOK, Increments
  <2>4. acc' \in [StatKeys -> Nat]
    BY <1>1, <2>3
  <2>5. QED
    BY <2>2, <2>4 DEF StatInv, S!StatisticsTypeOK
<1>4. ASSUME NEW t \in S!Tables, NEW l \in StatKeys PROVE Settled(t, l)'
  <2>1. PICK c \in Seq(Increments) : c = channel'
    BY <1>2
  <2>2. Queued(channel, l) = Queued(c, l) + (IF m.key = l THEN m.delta ELSE 0)
    BY <1>1, <2>1, QueuedOneLess DEF StatInv
  <2>3. acc'[l] = acc[l] + (IF m.key = l THEN m.delta ELSE 0)
    <3>1. acc \in [StatKeys -> Nat] /\ m.key \in StatKeys /\ m.delta \in Nat
      BY DEF StatInv, S!StatisticsTypeOK, Increments
    <3>2. acc' = [acc EXCEPT ![m.key] = acc[m.key] + m.delta]
      BY <1>1
    <3>3. CASE m.key = l
      BY <3>1, <3>2, <3>3
    <3>4. CASE m.key # l
      BY <3>1, <3>2, <3>4
    <3>5. QED
      BY <3>3, <3>4
  <2>4. Told(t, l)' = Told(t, l) /\ Rest(t, l)' = acc'[l] /\ Rest(t, l) = acc[l] /\ lost'[t][l] = lost[t][l]
    BY DEF Told, Rest
  <2>5. (IF m.key = l THEN m.delta ELSE 0) \in Nat /\ Queued(c, l) \in Nat
    BY UnderFinite DEF Increments
  <2>6. QED
    BY <2>1, <2>2, <2>3, <2>4, <2>5, StatNumbers DEF Settled
<1>5. QED
  BY <1>2, <1>3, <1>4 DEF StatInv

\* Steps that only move the flusher on.
LEMMA StatAside ==
    ASSUME StatInv, UNCHANGED <<channel, acc, table, pushed, lost>>,
           pc' \in {"drain", "recv", "sleep", "late", "upsert", "send"},
           todo' \subseteq StatKeys \X S!Tables, day' \in S!Days, today' \in S!Days,
           \A t \in S!Tables, k \in StatKeys : Rest(t, k)' = Rest(t, k)
    PROVE  StatInv'
<1>1. S!StatisticsTypeOK' /\ channel' \in Seq(Increments)
  BY DEF StatInv, S!StatisticsTypeOK
<1>2. ASSUME NEW t \in S!Tables, NEW k \in StatKeys PROVE Settled(t, k)'
  <2>1. Told(t, k)' = Told(t, k) /\ Rest(t, k)' = Rest(t, k)
    BY DEF Told
  <2>2. QED
    BY <2>1, StatNumbers DEF Settled
<1>3. QED
  BY <1>1, <1>2 DEF StatInv

LEMMA TwoLevels ==
    ASSUME NEW A, NEW B, NEW F, NEW g \in [A -> [B -> F]], NEW a \in A, NEW b \in B, NEW v \in F
    PROVE  /\ [g EXCEPT ![a][b] = v] \in [A -> [B -> F]]
           /\ [g EXCEPT ![a][b] = v][a][b] = v
           /\ \A x \in A, y \in B : x # a \/ y # b => [g EXCEPT ![a][b] = v][x][y] = g[x][y]
<1>1. PICK h : h = [g EXCEPT ![a][b] = v]
  OBVIOUS
<1>2. PICK w \in [B -> F] : w = [g[a] EXCEPT ![b] = v]
  OBVIOUS
<1>3. h = [g EXCEPT ![a] = w]
  BY <1>1, <1>2
<1>4. h \in [A -> [B -> F]] /\ h[a] = w /\ \A x \in A \ {a} : h[x] = g[x]
  BY <1>3
<1>5. w[b] = v /\ \A y \in B \ {b} : w[y] = g[a][y]
  BY <1>2
<1>6. QED
  BY <1>1, <1>4, <1>5

\* One upsert: applied, or lost.
LEMMA StatUpsert ==
    ASSUME StatInv, pc = "upsert", NEW u \in todo, todo' = todo \ {u},
           UNCHANGED <<channel, acc, pc, day, today, pushed>>,
           \/ table' = [table EXCEPT ![u[2]][u[1]][day] = @ + acc[u[1]]] /\ lost' = lost
           \/ lost' = [lost EXCEPT ![u[2]][u[1]] = @ + acc[u[1]]] /\ table' = table
    PROVE  StatInv'
<1>1. PICK k \in StatKeys, t \in S!Tables : u = <<k, t>>
  BY DEF StatInv, S!StatisticsTypeOK
<1>2. u[1] = k /\ u[2] = t /\ day \in S!Days /\ acc[k] \in Nat
  BY <1>1, StatNumbers DEF StatInv, S!StatisticsTypeOK
<1>3. S!StatisticsTypeOK' /\ channel' \in Seq(Increments)
  <2>1. /\ table \in [S!Tables -> [StatKeys -> [S!Days -> Nat]]]
        /\ lost \in [S!Tables -> [StatKeys -> Nat]]
    BY DEF StatInv, S!StatisticsTypeOK
  <2>2. table' \in [S!Tables -> [StatKeys -> [S!Days -> Nat]]]
    <3>1. PICK f : f = [table[t][k] EXCEPT ![day] = @ + acc[k]]
      OBVIOUS
    <3>2. f \in [S!Days -> Nat]
      <4>1. table[t][k] \in [S!Days -> Nat]
        BY <2>1
      <4>2. table[t][k][day] + acc[k] \in Nat
        BY <1>2, <4>1
      <4>3. QED
        BY <3>1, <4>1, <4>2
    <3>3. table' = table \/ table' = [table EXCEPT ![t][k] = f]
      BY <1>2, <3>1
    <3>4. [table EXCEPT ![t][k] = f] \in [S!Tables -> [StatKeys -> [S!Days -> Nat]]]
      <4>1. PICK F : F = [S!Days -> Nat]
        OBVIOUS
      <4>2. table \in [S!Tables -> [StatKeys -> F]] /\ f \in F
        BY <2>1, <3>2, <4>1
      <4>3. [table EXCEPT ![t][k] = f] \in [S!Tables -> [StatKeys -> F]]
        BY Zenon, <4>2, TwoLevels
      <4>4. QED
        BY <4>1, <4>3
    <3>5. QED
      BY <2>1, <3>3, <3>4
  <2>3. lost' \in [S!Tables -> [StatKeys -> Nat]]
    <3>1. PICK n \in Nat : n = lost[t][k] + acc[k]
      BY <1>2, <2>1
    <3>2. lost' = lost \/ lost' = [lost EXCEPT ![t][k] = n]
      BY <1>2, <3>1
    <3>3. [lost EXCEPT ![t][k] = n] \in [S!Tables -> [StatKeys -> Nat]]
      BY Zenon, <2>1, TwoLevels
    <3>4. QED
      BY <2>1, <3>2, <3>3
  <2>4. QED
    BY <2>2, <2>3 DEF StatInv, S!StatisticsTypeOK
<1>4. ASSUME NEW v \in S!Tables, NEW l \in StatKeys PROVE Settled(v, l)'
  <2>1. CASE v = t /\ l = k
    <3>1. Rest(v, l) = acc[l] /\ Rest(v, l)' = 0
      BY <1>1, <2>1 DEF Rest
    <3>2. Told(v, l)' + lost'[v][l] = Told(v, l) + lost[v][l] + acc[l]
      <4>1. CASE table' = table /\ lost' = [lost EXCEPT ![t][k] = @ + acc[k]]
        <5>1. lost \in [S!Tables -> [StatKeys -> Nat]]
          BY DEF StatInv, S!StatisticsTypeOK
        <5>2. lost'[v][l] = lost[v][l] + acc[l]
          BY <2>1, <4>1, <5>1
        <5>3. Told(v, l)' = Told(v, l)
          BY <4>1 DEF Told
        <5>4. QED
          BY <5>2, <5>3, StatNumbers
      <4>2. CASE table' = [table EXCEPT ![t][k][day] = @ + acc[k]] /\ lost' = lost
        <5>1. PICK f \in [S!Days -> Nat] : f = table[t][k]
          BY StatNumbers
        <5>2. PICK g : g = [f EXCEPT ![day] = @ + acc[k]]
          OBVIOUS
        <5>3. table'[t][k] = g
          BY <4>2, <5>1, <5>2 DEF StatInv, S!StatisticsTypeOK
        <5> PICK D : D = S!Days
          OBVIOUS
        <5> PICK d \in D : d = day
          BY <1>2
        <5>4. IsFiniteSet(D) /\ f \in [D -> Nat] /\ acc[k] \in Nat
          BY <1>2, <5>1, StatDays
        <5>5. g \in [D -> Nat] /\ g[d] = f[d] + acc[k] /\ \A e \in D : e # d => g[e] = f[e]
          BY <5>2, <5>4
        <5>6. SumOf(g, D) = SumOf(f, D) + acc[k]
          <6>1. Summed(f, D) /\ Summed(g, D)
            BY <5>4, <5>5 DEF Summed
          <6>2. PICK a \in Nat : a = acc[k]
            BY <5>4
          <6>3. QED
            BY <5>5, <6>1, <6>2, SumGrows
        <5>7. Told(v, l)' = SumOf(g, S!Days) /\ Told(v, l) = SumOf(f, S!Days)
          BY <2>1, <5>1, <5>3 DEF Told
        <5>8. lost'[v][l] = lost[v][l] /\ acc[l] = acc[k]
          BY <2>1, <4>2
        <5>9. QED
          BY <5>6, <5>7, <5>8, StatNumbers
      <4>3. QED
        BY <1>2, <4>1, <4>2
    <3>3. Told(v, l)' \in Nat /\ lost'[v][l] \in Nat
      <4>1. /\ table' \in [S!Tables -> [StatKeys -> [S!Days -> Nat]]]
            /\ lost' \in [S!Tables -> [StatKeys -> Nat]]
        BY <1>3 DEF S!StatisticsTypeOK
      <4>2. PICK g \in [S!Days -> Nat] : g = table'[v][l]
        BY <4>1
      <4>3. PICK D : D = S!Days
        OBVIOUS
      <4>4. IsFiniteSet(D) /\ g \in [D -> Nat]
        BY <4>2, <4>3, StatDays
      <4>5. SumOf(g, D) \in Nat
        BY <4>4, UnitsFinite DEF Summed
      <4>6. QED
        BY <4>1, <4>2, <4>3, <4>5 DEF Told
    <3>4. Settled(v, l) /\ Told(v, l) \in Nat /\ Queued(channel, l) \in Nat /\ acc[l] \in Nat /\ lost[v][l] \in Nat
      BY StatNumbers
    <3>5. QED
      BY <3>1, <3>2, <3>3, <3>4 DEF Settled
  <2>2. CASE ~(v = t /\ l = k)
    <3>1. Rest(v, l)' = Rest(v, l)
      BY <1>1, <2>2 DEF Rest
    <3>2. table'[v][l] = table[v][l] /\ lost'[v][l] = lost[v][l]
      <4>1. PICK f : f = [table[t][k] EXCEPT ![day] = @ + acc[k]]
        OBVIOUS
      <4>2. PICK n : n = lost[t][k] + acc[k]
        OBVIOUS
      <4>3. /\ table' = table \/ table' = [table EXCEPT ![t][k] = f]
            /\ lost' = lost \/ lost' = [lost EXCEPT ![t][k] = n]
        BY <1>2, <4>1, <4>2
      <4>4. table \in [S!Tables -> [StatKeys -> [S!Days -> Nat]]] /\ lost \in [S!Tables -> [StatKeys -> Nat]]
        BY DEF StatInv, S!StatisticsTypeOK
      <4>5. QED
        BY <2>2, <4>3, <4>4
    <3>3. QED
      BY <3>1, <3>2, StatNumbers DEF Settled, Told
  <2>3. QED
    BY <2>1, <2>2
<1>5. QED
  BY <1>3, <1>4 DEF StatInv

\* The end of the process loses what the tables have not been told.
LEMMA StatCrash == ASSUME StatInv, S!Crash PROVE StatInv'
<1> USE DEF S!Crash
<1>1. \A t \in S!Tables, k \in StatKeys : lost'[t][k] = lost[t][k] + (Queued(channel, k) + Rest(t, k))
  BY StatSums DEF S!Owed, Rest
<1>2. channel' = << >> /\ \A k \in StatKeys : acc'[k] = 0
  BY DEF S!Empty
<1>3. S!StatisticsTypeOK' /\ channel' \in Seq(Increments)
  <2>1. lost' \in [S!Tables -> [StatKeys -> Nat]]
    <3>1. PICK f : f = [t \in S!Tables |-> [k \in StatKeys |-> lost[t][k] + S!Owed(t, k)]]
      OBVIOUS
    <3>2. ASSUME NEW t \in S!Tables, NEW k \in StatKeys PROVE lost[t][k] + S!Owed(t, k) \in Nat
      <4>1. S!Owed(t, k) = Queued(channel, k) + Rest(t, k)
        BY StatSums DEF S!Owed, Rest
      <4>2. QED
        BY <4>1, StatNumbers
    <3>3. QED
      BY <3>1, <3>2
  <2>2. QED
    BY <1>2, <2>1 DEF StatInv, S!StatisticsTypeOK, S!Empty
<1>4. ASSUME NEW t \in S!Tables, NEW k \in StatKeys PROVE Settled(t, k)'
  <2>1. Queued(channel', k) = 0
    BY <1>2, QueuedNothing
  <2>2. Rest(t, k)' = 0 /\ Told(t, k)' = Told(t, k)
    BY <1>2 DEF Rest, Told
  <2>3. QED
    BY <1>1, <2>1, <2>2, StatNumbers DEF Settled
<1>5. QED
  BY <1>3, <1>4 DEF StatInv

LEMMA StatStep == StatInv /\ [BackgroundNext]_all => StatInv'
<1> SUFFICES ASSUME StatInv, [BackgroundNext]_all PROVE StatInv'
  OBVIOUS
<1>1. \A t \in S!Tables, k \in StatKeys : acc[k] \in Nat
  BY StatNumbers
<1>2. CASE UNCHANGED statVars
  BY <1>2, StatAside DEF statVars, StatInv, S!StatisticsTypeOK, Rest
<1>3. ASSUME NEW k \in StatKeys, S!Push(k) PROVE StatInv'
  BY <1>3, StatPush
<1>4. CASE S!DrainOne \/ S!Receive
  BY <1>4, StatTake DEF S!DrainOne, S!Receive, S!flush
<1>5. CASE S!Drained \/ S!Wake \/ S!Send \/ S!Midnight
  <2>1. /\ UNCHANGED <<channel, acc, table, pushed, lost, todo, day>>
        /\ pc' \in {"drain", "recv", "sleep", "late", "upsert", "send"}
        /\ (pc' = "upsert" <=> pc = "upsert") /\ today' \in S!Days
    BY <1>5, BackgroundAssumption DEF S!Drained, S!Wake, S!Send, S!Midnight, S!queue, S!flush, StatInv, S!StatisticsTypeOK, S!Days
  <2>2. todo' \subseteq StatKeys \X S!Tables /\ day' \in S!Days
    BY <2>1 DEF StatInv, S!StatisticsTypeOK
  <2>3. \A t \in S!Tables, k \in StatKeys : Rest(t, k)' = Rest(t, k)
    BY <2>1 DEF Rest
  <2>4. QED
    BY <2>1, <2>2, <2>3, StatAside
<1>6. CASE S!StartFlush
  <2>1. /\ UNCHANGED <<channel, acc, table, pushed, lost, today>> /\ pc' = "upsert" /\ day' = today
        /\ todo' = {k \in StatKeys : acc[k] > 0} \X S!Tables /\ pc # "upsert"
    BY <1>6 DEF S!StartFlush, S!queue
  <2>2. \A t \in S!Tables, k \in StatKeys : Rest(t, k)' = Rest(t, k)
    BY <1>1, <2>1 DEF Rest
  <2>3. QED
    BY <2>1, <2>2, StatAside DEF StatInv, S!StatisticsTypeOK
<1>7. CASE S!Clear
  <2>1. /\ UNCHANGED <<channel, table, pushed, lost, today, day, todo>> /\ todo = {}
        /\ pc = "upsert" /\ pc' = "send" /\ acc' = [k \in StatKeys |-> 0]
    BY <1>7 DEF S!Clear, S!Empty
  <2>2. \A t \in S!Tables, k \in StatKeys : Rest(t, k)' = 0 /\ Rest(t, k) = 0
    BY <2>1 DEF Rest
  <2>3. S!StatisticsTypeOK' /\ channel' \in Seq(Increments)
    BY <2>1 DEF StatInv, S!StatisticsTypeOK
  <2>4. ASSUME NEW t \in S!Tables, NEW k \in StatKeys PROVE Settled(t, k)'
    BY <2>1, <2>2, StatNumbers DEF Settled, Told
  <2>5. QED
    BY <2>3, <2>4 DEF StatInv
<1>8. CASE S!Upsert \/ S!UpsertFails
  <2>1. S!NextUpsert \subseteq todo
    BY DEF S!NextUpsert, S!Half
  <2>2. PICK u \in todo :
           /\ todo' = todo \ {u}
           /\ \/ table' = [table EXCEPT ![u[2]][u[1]][day] = @ + acc[u[1]]] /\ lost' = lost
              \/ lost' = [lost EXCEPT ![u[2]][u[1]] = @ + acc[u[1]]] /\ table' = table
    BY <1>8, <2>1 DEF S!Upsert, S!UpsertFails
  <2>3. pc = "upsert" /\ UNCHANGED <<channel, acc, pc, day, today, pushed>>
    BY <1>8 DEF S!Upsert, S!UpsertFails, S!queue
  <2>4. QED
    BY <2>2, <2>3, StatUpsert
<1>9. CASE S!Crash
  BY <1>9, StatCrash
<1>10. QED
  BY <1>2, <1>3, <1>4, <1>5, <1>6, <1>7, <1>8, <1>9
     DEF BackgroundNext, Limiter, Statistics, Leaderboard, all, S!Next, S!FlusherSteps

\* Whatever statements fail and whenever the process ends, every increment is
\* in each of the two tables once, or on its way there, or counted as lost.
THEOREM IncrementsCountOnce == BackgroundSpec => []CountedOnce
<1>1. BackgroundInit => StatInv
  BY StatInit DEF BackgroundInit
<1>2. StatInv => CountedOnce
  <2>1. \A t, k : S!Owed(t, k) = Queued(channel, k) + Rest(t, k)
    BY StatSums DEF S!Owed, Rest
  <2>2. \A t, k : S!SumOf(table[t][k], S!Days) = Told(t, k)
    BY StatSums DEF Told
  <2>3. QED
    BY <2>1, <2>2 DEF StatInv, Settled, CountedOnce, S!CountedOnce
<1>3. QED
  BY <1>1, <1>2, StatStep, PTL DEF BackgroundSpec

-----------------------------------------------------------------------------
\* The statistics implement Tally.

\* What is owed is what was pushed and is neither booked nor lost.
LEMMA OwedIs ==
    /\ \A t, k : S!Owed(t, k) = Queued(channel, k) + Rest(t, k)
    /\ \A t \in S!Tables, k \in StatKeys : Owes[t][k] = S!Owed(t, k)
    /\ Owes = [t \in S!Tables |-> [k \in StatKeys |-> S!Owed(t, k)]]
  BY StatSums DEF S!Owed, Rest, Owes

LEMMA OwedNext ==
    /\ \A t \in S!Tables, k \in StatKeys : Owes'[t][k] = Queued(channel', k) + Rest(t, k)'
    /\ Owes' = [t \in S!Tables |-> [k \in StatKeys |-> Owes'[t][k]]]
<1>1. \A T : S!Cardinality(T) = Cardinality(T)
  BY DEF S!Cardinality, Cardinality
<1>2. \A f, T : S!SumOf(f, T) = SumOf(f, T)
  BY <1>1 DEF S!SumOf, SumOf, S!Units, Units
<1>3. \A t, k : S!Owed(t, k)' = Queued(channel', k) + Rest(t, k)'
  BY <1>2 DEF S!Owed, S!Waiting, Queued, Deltas, Under, Rest
<1>4. Owes' = [t \in S!Tables |-> [k \in StatKeys |-> S!Owed(t, k)']]
  BY DEF Owes
<1>5. QED
  BY <1>3, <1>4

\* No day of the flusher lies ahead.
TallyInv == StatInv /\ day <= today

LEMMA TallyBalance ==
    ASSUME StatInv, NEW t \in S!Tables, NEW k \in StatKeys
    PROVE  /\ Owes[t][k] \in Nat
           /\ Owes[t][k] = Queued(channel, k) + Rest(t, k)
           /\ pushed[k] = Told(t, k) + Owes[t][k] + lost[t][k]
           /\ pushed[k] \in Nat /\ Told(t, k) \in Nat /\ lost[t][k] \in Nat
<1>1. Owes[t][k] = Queued(channel, k) + Rest(t, k)
  BY OwedIs
<1>2. QED
  BY <1>1, StatNumbers DEF Settled

LEMMA TallyBalanceNext ==
    ASSUME StatInv', NEW t \in S!Tables, NEW k \in StatKeys
    PROVE  /\ Owes'[t][k] \in Nat
           /\ pushed'[k] = Told(t, k)' + Owes'[t][k] + lost'[t][k]
           /\ pushed'[k] \in Nat /\ Told(t, k)' \in Nat /\ lost'[t][k] \in Nat
<1>1. Owes'[t][k] = Queued(channel', k) + Rest(t, k)'
  BY OwedNext
<1>2. /\ pushed'[k] \in Nat /\ lost'[t][k] \in Nat /\ acc'[k] \in Nat
      /\ table'[t][k] \in [S!Days -> Nat]
  BY DEF StatInv, S!StatisticsTypeOK
<1>3. PICK c \in Seq(Increments) : c = channel'
  BY DEF StatInv
<1>4. Queued(channel', k) \in Nat
  BY <1>3, UnderFinite
<1>5. Rest(t, k)' \in Nat
  BY <1>2 DEF Rest
<1>6. Told(t, k)' \in Nat
  <2>1. PICK f : f = table'[t][k]
    OBVIOUS
  <2>2. Summed(f, S!Days)
    BY <1>2, <2>1, StatDays DEF Summed
  <2>3. SumOf(f, S!Days) \in Nat
    BY <2>2, UnitsFinite
  <2>4. QED
    BY <2>1, <2>3 DEF Told, S!Days
<1>7. pushed'[k] = Told(t, k)' + (Queued(channel', k) + Rest(t, k)') + lost'[t][k]
  BY DEF StatInv, Settled
<1>8. QED
  BY <1>1, <1>2, <1>4, <1>5, <1>6, <1>7

\* A step that books, pushes and loses nothing leaves what is owed.
LEMMA TallyAside ==
    ASSUME StatInv, StatInv', UNCHANGED <<table, pushed, lost>>
    PROVE  Owes' = Owes
<1>1. ASSUME NEW t \in S!Tables, NEW k \in StatKeys PROVE Owes'[t][k] = Owes[t][k]
  <2>1. Told(t, k)' = Told(t, k)
    BY DEF Told
  <2>2. QED
    BY <2>1, TallyBalance, TallyBalanceNext
<1>2. QED
  BY <1>1, OwedIs, OwedNext

LEMMA TallyPush ==
    ASSUME StatInv, StatInv', NEW k \in StatKeys, S!Push(k)
    PROVE  Books!Count(k)
<1>1. /\ pushed' = [pushed EXCEPT ![k] = @ + 1] /\ UNCHANGED <<today, table, lost>>
      /\ pushed \in [StatKeys -> Nat]
  BY DEF S!Push, S!flush, StatInv, S!StatisticsTypeOK
<1>2. ASSUME NEW t \in S!Tables, NEW l \in StatKeys
      PROVE  Owes'[t][l] = IF l = k THEN Owes[t][l] + 1 ELSE Owes[t][l]
  <2>1. Told(t, l)' = Told(t, l)
    BY <1>1 DEF Told
  <2>2. pushed'[l] = IF l = k THEN pushed[l] + 1 ELSE pushed[l]
    BY <1>1
  <2>3. /\ Owes[t][l] \in Nat /\ pushed[l] = Told(t, l) + Owes[t][l] + lost[t][l]
        /\ pushed[l] \in Nat /\ Told(t, l) \in Nat /\ lost[t][l] \in Nat
    BY TallyBalance
  <2>4. Owes'[t][l] \in Nat /\ pushed'[l] = Told(t, l)' + Owes'[t][l] + lost'[t][l]
    BY TallyBalanceNext
  <2>5. lost'[t][l] = lost[t][l]
    BY <1>1
  <2>6. QED
    BY <2>1, <2>2, <2>3, <2>4, <2>5
<1>3. Owes' = [t \in S!Tables |-> [Owes[t] EXCEPT ![k] = @ + 1]]
  BY <1>2, OwedIs, OwedNext
<1>4. QED
  BY <1>1, <1>3 DEF Books!Count

\* An upsert that is applied, or fails.
LEMMA TallyUpsert ==
    ASSUME TallyInv, StatInv', pc = "upsert", NEW u \in todo, todo' = todo \ {u},
           UNCHANGED <<channel, acc, pc, day, today, pushed>>,
           \/ table' = [table EXCEPT ![u[2]][u[1]][day] = @ + acc[u[1]]] /\ lost' = lost
           \/ lost' = [lost EXCEPT ![u[2]][u[1]] = @ + acc[u[1]]] /\ table' = table
    PROVE  \E t \in S!Tables, k \in StatKeys : \E n \in 0..Owes[t][k] :
               Books!Book(t, k, n) \/ Books!Lose(t, k, n)
<1>1. PICK k \in StatKeys, t \in S!Tables : u = <<k, t>>
  BY DEF TallyInv, StatInv, S!StatisticsTypeOK
<1>2. u[1] = k /\ u[2] = t
  BY <1>1
<1>3. PICK n \in Nat : n = acc[k]
  BY StatNumbers DEF TallyInv
<1>4. \A v \in S!Tables, l \in StatKeys :
          Owes'[v][l] = IF v = t /\ l = k THEN Owes[v][l] - n ELSE Owes[v][l]
  <2> SUFFICES ASSUME NEW v \in S!Tables, NEW l \in StatKeys
               PROVE  Owes'[v][l] = IF v = t /\ l = k THEN Owes[v][l] - n ELSE Owes[v][l]
    OBVIOUS
  <2>1. Owes'[v][l] = Queued(channel, l) + Rest(v, l)'
    BY OwedNext
  <2>2. Owes[v][l] = Queued(channel, l) + Rest(v, l) /\ Queued(channel, l) \in Nat /\ Rest(v, l) \in Nat
    BY OwedIs, StatNumbers DEF TallyInv
  <2>3. CASE v = t /\ l = k
    <3>1. Rest(v, l) = n /\ Rest(v, l)' = 0
      BY <1>1, <1>3, <2>3 DEF Rest
    <3>2. QED
      BY <2>1, <2>2, <2>3, <3>1
  <2>4. CASE ~(v = t /\ l = k)
    <3>1. Rest(v, l)' = Rest(v, l)
      BY <1>1, <2>4 DEF Rest
    <3>2. QED
      BY <2>1, <2>2, <2>4, <3>1
  <2>5. QED
    BY <2>3, <2>4
<1>5. Owes' = [Owes EXCEPT ![t][k] = @ - n]
  BY <1>4, OwedIs, OwedNext
<1>6. n \in 0..Owes[t][k]
  <2>1. Owes[t][k] = Queued(channel, k) + Rest(t, k) /\ Queued(channel, k) \in Nat
    BY OwedIs, StatNumbers DEF TallyInv
  <2>2. Rest(t, k) = n
    BY <1>1, <1>3 DEF Rest
  <2>3. QED
    BY <2>1, <2>2
<1>7. day \in S!Days /\ day <= today
  BY DEF TallyInv, StatInv, S!StatisticsTypeOK
<1>8. CASE table' = [table EXCEPT ![t][k][day] = @ + n] /\ lost' = lost
  <2>1. Books!Book(t, k, n)
    BY <1>5, <1>7, <1>8 DEF Books!Book
  <2>2. QED
    BY <1>6, <2>1
<1>9. CASE lost' = [lost EXCEPT ![t][k] = @ + n] /\ table' = table
  <2>1. Books!Lose(t, k, n)
    BY <1>5, <1>9 DEF Books!Lose
  <2>2. QED
    BY <1>6, <2>1
<1>10. QED
  BY <1>2, <1>3, <1>8, <1>9

LEMMA TallyCrash ==
    ASSUME StatInv, StatInv', S!Crash
    PROVE  Books!LoseAll
<1>1. /\ lost' = [t \in S!Tables |-> [k \in StatKeys |-> lost[t][k] + S!Owed(t, k)]]
      /\ UNCHANGED <<today, table, pushed>>
  BY DEF S!Crash
<1>2. lost' = [t \in S!Tables |-> [k \in StatKeys |-> lost[t][k] + Owes[t][k]]]
  BY <1>1, OwedIs
<1>3. ASSUME NEW t \in S!Tables, NEW k \in StatKeys PROVE Owes'[t][k] = 0
  <2>1. Told(t, k)' = Told(t, k)
    BY <1>1 DEF Told
  <2>2. lost'[t][k] = lost[t][k] + Owes[t][k] /\ pushed'[k] = pushed[k]
    BY <1>1, <1>2
  <2>3. /\ Owes[t][k] \in Nat /\ pushed[k] = Told(t, k) + Owes[t][k] + lost[t][k]
        /\ pushed[k] \in Nat /\ Told(t, k) \in Nat /\ lost[t][k] \in Nat
    BY TallyBalance
  <2>4. Owes'[t][k] \in Nat /\ pushed'[k] = Told(t, k)' + Owes'[t][k] + lost'[t][k]
    BY TallyBalanceNext
  <2>5. QED
    BY <2>1, <2>2, <2>3, <2>4
<1>4. Owes' = [t \in S!Tables |-> [k \in StatKeys |-> 0]]
  BY <1>3, OwedNext
<1>5. QED
  BY <1>1, <1>2, <1>4 DEF Books!LoseAll

LEMMA TallyDays == TallyInv /\ [BackgroundNext]_all => day' <= today'
<1> SUFFICES ASSUME TallyInv, [BackgroundNext]_all PROVE day' <= today'
  OBVIOUS
<1>1. today \in Nat /\ day \in Nat /\ day <= today
  BY BackgroundAssumption DEF TallyInv, StatInv, S!StatisticsTypeOK, S!Days
<1>2. CASE UNCHANGED statVars
  BY <1>1, <1>2 DEF statVars
<1>3. ASSUME NEW k \in StatKeys, S!Push(k) PROVE day' <= today'
  BY <1>1, <1>3 DEF S!Push, S!flush
<1>4. CASE S!FlusherSteps \/ S!Midnight \/ S!Crash
  BY <1>1, <1>4 DEF S!FlusherSteps, S!DrainOne, S!Drained, S!Receive, S!Wake, S!StartFlush, S!Upsert,
     S!UpsertFails, S!Clear, S!Send, S!Midnight, S!Crash, S!queue, S!flush
<1>5. QED
  BY <1>2, <1>3, <1>4 DEF BackgroundNext, Limiter, Statistics, Leaderboard, all, S!Next

\* Every step is one of Tally, or leaves its variables as they are.
LEMMA TallyStep ==
    TallyInv /\ StatInv' /\ [BackgroundNext]_all => [Books!TallyNext]_(Books!tallyVars)
<1> SUFFICES ASSUME TallyInv, StatInv', [BackgroundNext]_all
             PROVE  [Books!TallyNext]_(Books!tallyVars)
  OBVIOUS
<1>1. StatInv
  BY DEF TallyInv
<1>2. ASSUME UNCHANGED <<table, pushed, lost, today>> PROVE UNCHANGED Books!tallyVars
  <2>1. Owes' = Owes
    BY <1>1, <1>2, TallyAside
  <2>2. QED
    BY <1>2, <2>1 DEF Books!tallyVars
<1>3. CASE UNCHANGED statVars
  BY <1>2, <1>3 DEF statVars
<1>4. ASSUME NEW k \in StatKeys, S!Push(k) PROVE Books!TallyNext
  BY <1>1, <1>4, TallyPush DEF Books!TallyNext
<1>5. CASE S!DrainOne \/ S!Receive \/ S!Drained \/ S!Wake \/ S!StartFlush \/ S!Clear \/ S!Send
  <2>1. UNCHANGED <<table, pushed, lost, today>>
    BY <1>5 DEF S!DrainOne, S!Drained, S!Receive, S!Wake, S!StartFlush, S!Clear, S!Send, S!queue, S!flush
  <2>2. QED
    BY <1>2, <2>1
<1>6. CASE S!Upsert \/ S!UpsertFails
  <2>1. S!NextUpsert \subseteq todo
    BY DEF S!NextUpsert, S!Half
  <2>2. PICK u \in todo :
           /\ todo' = todo \ {u}
           /\ \/ table' = [table EXCEPT ![u[2]][u[1]][day] = @ + acc[u[1]]] /\ lost' = lost
              \/ lost' = [lost EXCEPT ![u[2]][u[1]] = @ + acc[u[1]]] /\ table' = table
    BY <1>6, <2>1 DEF S!Upsert, S!UpsertFails
  <2>3. pc = "upsert" /\ UNCHANGED <<channel, acc, pc, day, today, pushed>>
    BY <1>6 DEF S!Upsert, S!UpsertFails, S!queue
  <2>4. \E t \in S!Tables, k \in StatKeys : \E n \in 0..Owes[t][k] :
            Books!Book(t, k, n) \/ Books!Lose(t, k, n)
    BY <2>2, <2>3, TallyUpsert
  <2>5. QED
    BY <2>4 DEF Books!TallyNext
<1>7. CASE S!Midnight
  <2>1. today' = today + 1 /\ UNCHANGED <<table, pushed, lost>>
    BY <1>7 DEF S!Midnight
  <2>2. Owes' = Owes
    BY <1>1, <2>1, TallyAside
  <2>3. QED
    BY <2>1, <2>2 DEF Books!TallyNext, Books!NextDay
<1>8. CASE S!Crash
  BY <1>1, <1>8, TallyCrash DEF Books!TallyNext
<1>9. QED
  BY <1>3, <1>4, <1>5, <1>6, <1>7, <1>8
     DEF BackgroundNext, Limiter, Statistics, Leaderboard, all, S!Next, S!FlusherSteps

LEMMA TallyInits == BackgroundInit => Books!TallyInit /\ TallyInv
<1> SUFFICES ASSUME BackgroundInit PROVE Books!TallyInit /\ TallyInv
  OBVIOUS
<1>1. StatInv
  BY StatInit DEF BackgroundInit
<1>2. S!Init
  BY DEF BackgroundInit
<1>3. ASSUME NEW t \in S!Tables, NEW k \in StatKeys PROVE Owes[t][k] = 0
  <2>1. Queued(channel, k) = 0
    BY <1>2, QueuedNothing DEF S!Init
  <2>2. Rest(t, k) = 0
    BY <1>2 DEF S!Init, S!Empty, Rest
  <2>3. QED
    BY <2>1, <2>2, OwedIs
<1>4. Owes = [t \in S!Tables |-> [k \in StatKeys |-> 0]]
  BY <1>3, OwedIs
<1>5. Books!TallyInit
  BY <1>2, <1>4 DEF S!Init, S!Empty, Books!TallyInit
<1>6. QED
  BY <1>1, <1>2, <1>5 DEF TallyInv, S!Init

\* The queue in memory implements the tally: whatever fails and whenever the
\* process ends, what is owed leaves it only into a table, once, under a day that
\* has begun, or with a failure.
THEOREM StatisticsTally == BackgroundSpec => TallyKept
<1>1. TallyInv /\ [BackgroundNext]_all => TallyInv'
  BY StatStep, TallyDays DEF TallyInv
<1>2. TallyInv /\ TallyInv' /\ [BackgroundNext]_all => [Books!TallyNext]_(Books!tallyVars)
  BY TallyStep DEF TallyInv
<1>3. QED
  BY <1>1, <1>2, TallyInits, PTL DEF BackgroundSpec, TallyKept, Books!TallySpec

-----------------------------------------------------------------------------
\* Leaderboard: what is committed is a ranking.

BoardPcs == {"sleep", "wait", "batch", "take", "query", "delete", "commit", "read"}
Rows == [id : Entities, rank : 1 .. Top, px : 1 .. MaxPaints]
TaskType == [pc : BoardPcs, key : L!BoardKeys, rows : SUBSET Rows, old : SUBSET Entities,
             missed : BOOLEAN, batch : SUBSET L!BoardKeys]
RequestType == [pc : {"idle", "view", "country", "found", "empty"}, key : L!BoardKeys]
BudgetType == [paints : Nat, days : Nat, failures : Nat, requests : Nat]

\* Nobody has more pixels than were painted.
BoardTypes ==
    /\ score \in [Entities -> Nat] /\ view \subseteq Rows
    /\ cache \subseteq L!BoardKeys /\ queue \subseteq L!BoardKeys
    /\ task \in [L!Tasks -> TaskType] /\ request \in [Readers -> RequestType]
    /\ budget \in BudgetType /\ budget.paints <= MaxPaints
    /\ \A e \in Entities : score[e] <= budget.paints

OneRowEach(rows) == \A x, y \in rows : x.id = y.id => x = y
Descending(rows) ==
    \A x, y \in rows : x.id = y.id \/ x.rank < y.rank => x = y \/ x.px >= y.px
Ranked(rows) ==
    /\ OneRowEach(rows) /\ Descending(rows)
    /\ {x.rank : x \in rows} = 1 .. Cardinality(rows)
IdsOf(rows) == {x.id : x \in rows}

\* An update that is about to be committed has a ranking and, unless another
\* was committed in between, has marked every other row of the view.
Ready(k, v) ==
    /\ k.pc \in {"delete", "commit"} => Ranked(k.rows)
    /\ k.pc = "commit" /\ ~k.missed => IdsOf(v) \subseteq k.old \cup IdsOf(k.rows)

BoardInv ==
    /\ BoardTypes /\ \A t \in L!Tasks : Ready(task[t], view)
    /\ OneRowEach(view) /\ (torn \/ Ranked(view))

LEMMA BoardSame ==
    /\ \A r : L!Ids(r) = IdsOf(r)
    /\ \A r : Ranked(r) <=> OneRowEach(r) /\ L!IsRanking(r)
<1>1. \A A : L!Cardinality(A) = Cardinality(A)
  BY DEF L!Cardinality, Cardinality
<1>2. \A r : L!Ids(r) = IdsOf(r)
  BY DEF L!Ids, IdsOf
<1>3. QED
  BY <1>1, <1>2 DEF L!IsRanking, Ranked, OneRowEach, Descending

LEMMA BoardKeysAre ==
    L!Board \in L!BoardKeys /\ L!Live \subseteq L!BoardKeys /\ L!National \subseteq L!BoardKeys
BY DEF L!BoardKeys

LEMMA BoardIdle ==
    /\ \A p \in BoardPcs : L!IdleTask(p) \in TaskType /\ L!IdleTask(p).pc = p
    /\ L!IdleJob \in RequestType
BY BoardKeysAre DEF L!IdleTask, L!IdleJob, TaskType, RequestType

\* What a query of the top entities finds is a ranking of them.
LEMMA RankingIsRanked ==
    ASSUME BoardTypes, NEW s \in L!Rankings(Entities, Top), NEW rows,
           rows = {[id |-> s[i], rank |-> i, px |-> score[s[i]]] : i \in DOMAIN s}
    PROVE  rows \subseteq Rows /\ Ranked(rows)
<1>1. PICK scored : scored = {e \in Entities : score[e] > 0}
  OBVIOUS
<1>2. PICK n : n = L!Smaller(Top, Cardinality(scored))
  OBVIOUS
<1>3. IsFiniteSet(scored) /\ Cardinality(scored) \in Nat
  BY <1>1, BackgroundAssumption, Part
<1>4. n \in Nat /\ n <= Top
  BY <1>2, <1>3, BackgroundAssumption DEF L!Smaller
<1>5. /\ s \in [1 .. n -> scored]
      /\ \A i, j \in 1 .. n : i < j => s[i] # s[j] /\ score[s[i]] >= score[s[j]]
  <2>1. \A A : L!Cardinality(A) = Cardinality(A)
    BY DEF L!Cardinality, Cardinality
  <2>2. QED
    BY <1>1, <1>2, <2>1 DEF L!Rankings
<1>6. PICK f : f = [i \in 1 .. n |-> [id |-> s[i], rank |-> i, px |-> score[s[i]]]]
  OBVIOUS
<1>7. \A i \in 1 .. n : f[i].id = s[i] /\ f[i].rank = i /\ f[i].px = score[s[i]]
  BY <1>6
<1>8. rows = {f[i] : i \in 1 .. n}
  <2>1. DOMAIN s = 1 .. n
    BY <1>5
  <2>2. QED
    BY <1>6, <2>1
<1>9. rows \subseteq Rows
  <2> SUFFICES ASSUME NEW i \in 1 .. n PROVE f[i] \in Rows
    BY <1>8
  <2>1. s[i] \in Entities /\ score[s[i]] > 0
    BY <1>1, <1>5
  <2>2. score[s[i]] \in Nat /\ score[s[i]] <= budget.paints /\ budget.paints <= MaxPaints /\ budget.paints \in Nat
    BY <2>1 DEF BoardTypes, BudgetType
  <2>3. score[s[i]] \in 1 .. MaxPaints /\ i \in 1 .. Top
    BY <1>4, <2>1, <2>2, BackgroundAssumption
  <2>4. QED
    BY <1>6, <2>1, <2>3 DEF Rows
<1>10. \A i, j \in 1 .. n : s[i] = s[j] => i = j
  BY <1>4, <1>5
<1>11. OneRowEach(rows)
  BY <1>7, <1>8, <1>10 DEF OneRowEach
<1>12. Descending(rows)
  <2> SUFFICES ASSUME NEW i \in 1 .. n, NEW j \in 1 .. n, f[i].id = f[j].id \/ f[i].rank < f[j].rank
               PROVE  f[i] = f[j] \/ f[i].px >= f[j].px
    BY <1>8 DEF Descending
  <2>1. CASE f[i].id = f[j].id
    BY <1>7, <1>10, <2>1
  <2>2. CASE f[i].rank < f[j].rank
    BY <1>5, <1>7, <2>2
  <2>3. QED
    BY <2>1, <2>2
<1>13. Cardinality(rows) = n
  <2>1. f \in Bijection(1 .. n, rows)
    <3>1. \A i, j \in 1 .. n : f[i] = f[j] => i = j
      BY <1>7
    <3>2. f \in [1 .. n -> rows]
      BY <1>6, <1>8
    <3>3. \A x \in rows : \E i \in 1 .. n : f[i] = x
      BY <1>8
    <3>4. QED
      BY <3>1, <3>2, <3>3 DEF Bijection, Injection, Surjection, IsInjective, Range
  <2>2. ExistsBijection(1 .. n, rows)
    BY <2>1 DEF ExistsBijection
  <2>3. QED
    BY <1>4, <2>2, FS_CountingElements
<1>14. {x.rank : x \in rows} = 1 .. n
  <2>1. \A x \in rows : x.rank \in 1 .. n
    BY <1>7, <1>8
  <2>2. ASSUME NEW i \in 1 .. n PROVE \E x \in rows : x.rank = i
    BY <1>7, <1>8
  <2>3. QED
    BY <2>1, <2>2
<1>15. QED
  BY <1>9, <1>11, <1>12, <1>13, <1>14 DEF Ranked

-----------------------------------------------------------------------------
\* Steps of the leaderboards.

\* A step of one of the tasks, other than the commit.
LEMMA TaskTurn ==
    ASSUME BoardInv, NEW t \in L!Tasks, NEW k \in TaskType, task' = [task EXCEPT ![t] = k],
           Ready(k, view), UNCHANGED <<score, view, request, torn>>,
           cache' \subseteq L!BoardKeys, queue' \subseteq L!BoardKeys,
           budget' \in BudgetType, budget'.paints = budget.paints
    PROVE  BoardInv'
<1>1. task' \in [L!Tasks -> TaskType] /\ \A u \in L!Tasks : task'[u] = task[u] \/ task'[u] = k
  BY DEF BoardInv, BoardTypes
<1>2. BoardTypes'
  BY <1>1 DEF BoardInv, BoardTypes
<1>3. \A u \in L!Tasks : Ready(task'[u], view)
  BY <1>1 DEF BoardInv
<1>4. QED
  BY <1>2, <1>3 DEF BoardInv

\* A step of a request, of the statistics or of time.
LEMMA BoardAside ==
    ASSUME BoardInv, UNCHANGED <<view, task, torn>>,
           cache' \subseteq L!BoardKeys, queue' \subseteq L!BoardKeys,
           request' \in [Readers -> RequestType], score' \in [Entities -> Nat],
           budget' \in BudgetType, budget'.paints <= MaxPaints,
           \A e \in Entities : score'[e] <= budget'.paints
    PROVE  BoardInv'
<1>1. BoardTypes'
  BY DEF BoardInv, BoardTypes
<1>2. QED
  BY <1>1 DEF BoardInv

LEMMA TaskOf ==
    ASSUME BoardInv, NEW t \in L!Tasks
    PROVE  /\ task[t] \in TaskType /\ task[t].key \in L!BoardKeys /\ task[t].batch \subseteq L!BoardKeys
           /\ task[t].rows \subseteq Rows /\ task[t].missed \in BOOLEAN
           /\ task[t].old \subseteq Entities /\ Ready(task[t], view)
BY DEF BoardInv, BoardTypes, TaskType

LEMMA Spent ==
    ASSUME BoardInv, NEW p \in {"days", "failures", "requests"}, NEW max, L!Spend(p, max)
    PROVE  budget' \in BudgetType /\ budget'.paints = budget.paints
BY DEF L!Spend, BoardInv, BoardTypes, BudgetType

LEMMA BoardQuery == ASSUME BoardInv, NEW t \in L!Tasks, L!Query(t) PROVE BoardInv'
<1>1. UNCHANGED <<score, view, cache, queue, request, torn, budget>>
  BY DEF L!Query
<1>2. CASE task[t].key \in L!Live
  <2>1. PICK k : k = [task[t] EXCEPT !.pc = "read"]
    OBVIOUS
  <2>2. k \in TaskType /\ k.pc = "read"
    BY <2>1, TaskOf DEF TaskType, BoardPcs
  <2>3. task' = [task EXCEPT ![t] = k]
    BY <1>2, <2>1 DEF L!Query
  <2>4. Ready(k, view)
    BY <2>2 DEF Ready
  <2>5. QED
    BY <1>1, <2>2, <2>3, <2>4, TaskTurn DEF BoardInv, BoardTypes
<1>3. CASE task[t].key \notin L!Live
  <2>1. PICK s \in L!Rankings(Entities, Top) :
          task' = [task EXCEPT ![t].pc = "delete",
                               ![t].rows = {[id |-> s[i], rank |-> i, px |-> score[s[i]]] : i \in DOMAIN s}]
    BY <1>3 DEF L!Query
  <2>2. PICK rows : rows = {[id |-> s[i], rank |-> i, px |-> score[s[i]]] : i \in DOMAIN s}
    OBVIOUS
  <2>3. rows \subseteq Rows /\ Ranked(rows)
    BY <2>2, RankingIsRanked DEF BoardInv
  <2>4. PICK k : k = [task[t] EXCEPT !.pc = "delete", !.rows = rows]
    OBVIOUS
  <2>5. k \in TaskType /\ k.pc = "delete" /\ k.rows = rows
    BY <2>3, <2>4, TaskOf DEF TaskType, BoardPcs
  <2>6. task' = [task EXCEPT ![t].pc = "delete", ![t].rows = rows]
    BY <2>1, <2>2
  <2>7. task' = [task EXCEPT ![t] = k]
    BY <2>4, <2>6 DEF BoardInv, BoardTypes
  <2>8. Ready(k, view)
    BY <2>3, <2>5 DEF Ready
  <2>9. QED
    BY <1>1, <2>5, <2>7, <2>8, TaskTurn DEF BoardInv, BoardTypes
<1>4. QED
  BY <1>2, <1>3

LEMMA BoardDelete == ASSUME BoardInv, NEW t \in L!Tasks, L!Delete(t) PROVE BoardInv'
<1>1. PICK k : k = [task[t] EXCEPT !.pc = "commit", !.old = IdsOf(view) \ IdsOf(task[t].rows)]
  OBVIOUS
<1>2. /\ task[t].pc = "delete" /\ UNCHANGED <<score, view, cache, queue, request, torn, budget>>
      /\ task' = [task EXCEPT ![t] = k]
  BY <1>1, BoardSame DEF L!Delete
<1>3. IdsOf(view) \subseteq Entities
  BY DEF IdsOf, BoardInv, BoardTypes, Rows
<1>4. /\ k \in TaskType /\ k.pc = "commit" /\ k.rows = task[t].rows
      /\ k.old = IdsOf(view) \ IdsOf(task[t].rows)
  BY <1>1, <1>3, TaskOf DEF TaskType, BoardPcs
<1>5. Ready(k, view)
  BY <1>2, <1>4, TaskOf DEF Ready
<1>6. QED
  BY <1>2, <1>4, <1>5, TaskTurn DEF BoardInv, BoardTypes

\* The rows of the view that stay have other entities.
LEMMA BoardCommit == ASSUME BoardInv, NEW t \in L!Tasks, L!Commit(t) PROVE BoardInv'
<1>1. PICK k \in TaskType : k = task[t]
  BY TaskOf
<1>2. /\ k.pc = "commit" /\ Ready(k, view) /\ k.rows \subseteq Rows
      /\ view' = {x \in view : x.id \notin k.old \cup IdsOf(k.rows)} \cup k.rows
      /\ torn' = k.missed /\ UNCHANGED <<score, cache, queue, request, budget>>
  BY <1>1, TaskOf, BoardSame DEF L!Commit
<1>3. Ranked(k.rows)
  BY <1>2 DEF Ready
<1>4. /\ task' \in [L!Tasks -> TaskType] /\ task'[t].pc = "read"
      /\ \A u \in L!Tasks \ {t} : /\ task'[u].pc = task[u].pc /\ task'[u].rows = task[u].rows
                                  /\ task'[u].pc = "commit" => task'[u].missed
  <2>1. task' = [u \in L!Tasks |->
                  IF u = t THEN [task[t] EXCEPT !.pc = "read", !.rows = {}, !.old = {}, !.missed = FALSE]
                  ELSE [task[u] EXCEPT !.missed = @ \/ task[u].pc = "commit"]]
    BY DEF L!Commit
  <2>2. task'[t] = [task[t] EXCEPT !.pc = "read", !.rows = {}, !.old = {}, !.missed = FALSE]
    BY <2>1
  <2>3. task'[t] \in TaskType /\ task'[t].pc = "read"
    BY <2>2, TaskOf DEF TaskType, BoardPcs
  <2>4. ASSUME NEW u \in L!Tasks \ {t}
        PROVE  /\ task'[u] \in TaskType /\ task'[u].pc = task[u].pc /\ task'[u].rows = task[u].rows
               /\ task'[u].pc = "commit" => task'[u].missed
    <3>1. PICK b \in BOOLEAN : b = (task[u].missed \/ task[u].pc = "commit")
      OBVIOUS
    <3>2. task'[u] = [task[u] EXCEPT !.missed = b]
      BY <2>1, <3>1
    <3>3. task[u] \in TaskType
      BY TaskOf
    <3>4. /\ task'[u] \in TaskType /\ task'[u].pc = task[u].pc /\ task'[u].rows = task[u].rows
          /\ task'[u].missed = b
      BY <3>2, <3>3 DEF TaskType
    <3>5. QED
      BY <3>1, <3>4
  <2>5. \A u \in L!Tasks : task'[u] \in TaskType
    BY <2>3, <2>4
  <2>6. QED
    BY <2>1, <2>3, <2>4, <2>5
<1>5. BoardTypes'
  BY <1>2, <1>4 DEF BoardInv, BoardTypes
<1>6. \A u \in L!Tasks : Ready(task'[u], view')
  BY <1>4 DEF Ready, BoardInv
<1>7. OneRowEach(view')
  <2> SUFFICES ASSUME NEW x \in view', NEW y \in view', x.id = y.id PROVE x = y
    BY DEF OneRowEach
  <2>1. \A z \in k.rows : z.id \in IdsOf(k.rows)
    BY DEF IdsOf
  <2>2. QED
    BY <1>2, <1>3, <2>1 DEF BoardInv, OneRowEach, Ranked
<1>8. torn' \/ Ranked(view')
  <2> SUFFICES ASSUME ~torn' PROVE view' = k.rows
    BY <1>3
  <2>1. IdsOf(view) \subseteq k.old \cup IdsOf(k.rows)
    BY <1>2 DEF Ready
  <2>2. \A x \in view : x.id \in IdsOf(view)
    BY DEF IdsOf
  <2>3. QED
    BY <1>2, <2>1, <2>2
<1>9. QED
  BY <1>5, <1>6, <1>7, <1>8 DEF BoardInv

LEMMA BoardFails == ASSUME BoardInv, NEW t \in L!Tasks, L!UpdateFails(t) PROVE BoardInv'
<1>1. PICK k : k = [L!IdleTask("read") EXCEPT !.key = task[t].key, !.batch = task[t].batch]
  OBVIOUS
<1>2. k \in TaskType /\ k.pc = "read"
  BY <1>1, BoardIdle, TaskOf DEF TaskType, BoardPcs
<1>3. /\ UNCHANGED <<score, view, cache, queue, request, torn>> /\ task' = [task EXCEPT ![t] = k]
      /\ L!Spend("failures", MaxFailures)
  BY <1>1 DEF L!UpdateFails
<1>4. Ready(k, view)
  BY <1>2 DEF Ready
<1>5. QED
  BY <1>2, <1>3, <1>4, Spent, TaskTurn DEF BoardInv, BoardTypes

LEMMA BoardRefresh == ASSUME BoardInv, NEW t \in L!Tasks, L!Refresh(t) PROVE BoardInv'
<1>1. PICK k : k = L!Continues(t)
  OBVIOUS
<1>2. k \in TaskType /\ k.pc \in {"sleep", "take", "batch", "wait"}
  <2>1. PICK i : i = L!IdleTask("take")
    OBVIOUS
  <2>2. i \in TaskType /\ i.pc = "take"
    BY <2>1, BoardIdle DEF BoardPcs
  <2>3. [i EXCEPT !.batch = task[t].batch] \in TaskType /\ [i EXCEPT !.batch = task[t].batch].pc = "take"
    BY <2>2, TaskOf DEF TaskType
  <2>4. QED
    BY <1>1, <2>1, <2>3, BoardIdle DEF L!Continues, BoardPcs
<1>3. Ready(k, view)
  BY <1>2 DEF Ready
<1>4. /\ UNCHANGED <<score, view, queue, request, torn, budget>> /\ task' = [task EXCEPT ![t] = k]
      /\ cache' = cache \cup {task[t].key} \/ cache' = cache
  BY <1>1 DEF L!Refresh
<1>5. QED
  BY <1>2, <1>3, <1>4, TaskOf, TaskTurn DEF BoardInv, BoardTypes

\* The steps that start an update, or look for one.
LEMMA BoardLoop ==
    ASSUME BoardInv, L!WarmupStarts \/ L!TickStarts \/ L!TakeBatch \/ L!TakeKey
    PROVE  BoardInv'
<1>1. "warmup" \in L!Tasks /\ "worker" \in L!Tasks
  BY DEF L!Tasks
<1>2. PICK t \in L!Tasks, k \in TaskType :
        /\ task' = [task EXCEPT ![t] = k] /\ k.pc \notin {"delete", "commit"}
        /\ queue' \subseteq queue /\ UNCHANGED <<score, view, cache, request, torn, budget>>
  <2>1. CASE L!WarmupStarts
    <3>1. PICK k : k = [task["warmup"] EXCEPT !.pc = "query"]
      OBVIOUS
    <3>2. k \in TaskType /\ k.pc = "query"
      BY <1>1, <3>1, TaskOf DEF TaskType, BoardPcs
    <3>3. QED
      BY <1>1, <2>1, <3>1, <3>2 DEF L!WarmupStarts
  <2>2. CASE L!TickStarts
    <3>1. PICK k : k = [task["worker"] EXCEPT !.pc = "batch"]
      OBVIOUS
    <3>2. k \in TaskType /\ k.pc = "batch"
      BY <1>1, <3>1, TaskOf DEF TaskType, BoardPcs
    <3>3. QED
      BY <1>1, <2>2, <3>1, <3>2 DEF L!TickStarts
  <2>3. CASE L!TakeBatch
    <3>1. CASE task' = [task EXCEPT !["worker"] = L!IdleTask("wait")] /\ queue' = queue
      <4>1. PICK k : k = L!IdleTask("wait")
        OBVIOUS
      <4>2. k \in TaskType /\ k.pc = "wait"
        BY <4>1, BoardIdle DEF BoardPcs
      <4>3. QED
        BY <1>1, <2>3, <3>1, <4>1, <4>2 DEF L!TakeBatch
    <3>2. CASE \E b \in SUBSET queue :
                 /\ queue' = queue \ b
                 /\ task' = [task EXCEPT !["worker"] = [L!IdleTask("take") EXCEPT !.batch = b]]
      <4>1. PICK b \in SUBSET queue :
                 /\ queue' = queue \ b
                 /\ task' = [task EXCEPT !["worker"] = [L!IdleTask("take") EXCEPT !.batch = b]]
        BY <3>2
      <4>2. PICK k : k = [L!IdleTask("take") EXCEPT !.batch = b]
        OBVIOUS
      <4>3. k \in TaskType /\ k.pc = "take"
        BY <4>2, BoardIdle DEF TaskType, BoardPcs, BoardInv, BoardTypes
      <4>4. QED
        BY <1>1, <2>3, <4>1, <4>2, <4>3 DEF L!TakeBatch
    <3>3. QED
      BY <2>3, <3>1, <3>2 DEF L!TakeBatch
  <2>4. CASE L!TakeKey
    <3>1. PICK b \in task["worker"].batch :
            task' = [task EXCEPT !["worker"].pc = "query", !["worker"].key = b, !["worker"].batch = @ \ {b}]
      BY <2>4 DEF L!TakeKey
    <3>2. PICK k : k = [task["worker"] EXCEPT !.pc = "query", !.key = b, !.batch = @ \ {b}]
      OBVIOUS
    <3>3. k \in TaskType /\ k.pc = "query"
      BY <1>1, <3>2, TaskOf DEF TaskType, BoardPcs
    <3>4. task' = [task EXCEPT !["worker"] = k]
      BY <3>1, <3>2
    <3>5. QED
      BY <1>1, <2>4, <3>3, <3>4 DEF L!TakeKey
  <2>5. QED
    BY <2>1, <2>2, <2>3, <2>4
<1>3. Ready(k, view)
  BY <1>2 DEF Ready
<1>4. QED
  BY <1>2, <1>3, TaskTurn DEF BoardInv, BoardTypes

-----------------------------------------------------------------------------
\* Requests, paints and time.

LEMMA BoardRequests ==
    ASSUME BoardInv, NEW r \in Readers,
           L!AskGet(r) \/ L!ReadView(r) \/ L!ReadCountry(r) \/ L!Answer(r)
    PROVE  BoardInv'
<1>1. request[r] \in RequestType /\ request[r].key \in L!BoardKeys
  BY DEF BoardInv, BoardTypes, RequestType
<1>2. UNCHANGED <<score, view, task, torn>> /\ budget' \in BudgetType /\ budget'.paints = budget.paints
  <2>1. CASE L!AskGet(r)
    BY <2>1, Spent DEF L!AskGet
  <2>2. QED
    BY <2>1 DEF L!ReadView, L!ReadCountry, L!Answer, BoardInv, BoardTypes
<1>3. cache' \subseteq L!BoardKeys /\ queue' \subseteq L!BoardKeys
  BY <1>1 DEF L!AskGet, L!ReadView, L!ReadCountry, L!Answer, BoardInv, BoardTypes
<1>4. PICK k \in RequestType : request' = [request EXCEPT ![r] = k]
  <2>1. CASE L!AskGet(r)
    <3>1. PICK b \in L!BoardKeys : request' = [request EXCEPT ![r] = [pc |-> "view", key |-> b]]
      BY <2>1 DEF L!AskGet
    <3>2. [pc |-> "view", key |-> b] \in RequestType
      BY DEF RequestType
    <3>3. QED
      BY <3>1, <3>2
  <2>2. CASE L!ReadView(r) \/ L!ReadCountry(r)
    <3>1. PICK p \in {"found", "country", "empty"} : request' = [request EXCEPT ![r].pc = p]
      BY <2>2 DEF L!ReadView, L!ReadCountry
    <3>2. [request[r] EXCEPT !.pc = p] \in RequestType
      BY <1>1 DEF RequestType
    <3>3. request' = [request EXCEPT ![r] = [request[r] EXCEPT !.pc = p]]
      BY <3>1
    <3>4. QED
      BY <3>2, <3>3
  <2>3. CASE L!Answer(r)
    BY <2>3, BoardIdle DEF L!Answer
  <2>4. QED
    BY <2>1, <2>2, <2>3
<1>5. request' \in [Readers -> RequestType]
  BY <1>4 DEF BoardInv, BoardTypes
<1>6. QED
  BY <1>2, <1>3, <1>5, BoardAside DEF BoardInv, BoardTypes

LEMMA BoardStatistics ==
    ASSUME BoardInv, (\E e \in Entities : L!Paint(e)) \/ L!Rollover
    PROVE  BoardInv'
<1>1. UNCHANGED <<view, cache, queue, task, request, torn>>
  BY DEF L!Paint, L!Rollover
<1>2. /\ budget \in BudgetType /\ budget.paints \in Nat /\ budget.paints <= MaxPaints
      /\ \A e \in Entities : score[e] \in Nat /\ score[e] <= budget.paints
  BY DEF BoardInv, BoardTypes, BudgetType
<1>3. CASE L!Rollover
  <2>1. budget' \in BudgetType /\ budget'.paints = budget.paints
    BY <1>3, Spent DEF L!Rollover
  <2>2. score' = [e \in Entities |-> 0]
    BY <1>3 DEF L!Rollover
  <2>3. QED
    BY <1>1, <1>2, <2>1, <2>2, BoardAside DEF BoardInv, BoardTypes
<1>4. ASSUME NEW e \in Entities, L!Paint(e) PROVE BoardInv'
  <2>1. /\ budget.paints < MaxPaints /\ budget' = [budget EXCEPT !["paints"] = @ + 1]
        /\ score' = [score EXCEPT ![e] = @ + 1]
    BY <1>4 DEF L!Paint, L!Spend
  <2>2. budget' \in BudgetType /\ budget'.paints = budget.paints + 1
    BY <1>2, <2>1 DEF BudgetType
  <2>3. /\ score' \in [Entities -> Nat]
        /\ \A x \in Entities : score'[x] <= budget.paints + 1
    <3>1. score \in [Entities -> Nat]
      BY DEF BoardInv, BoardTypes
    <3>2. \A x \in Entities : score'[x] = score[x] \/ score'[x] = score[x] + 1
      BY <2>1, <3>1
    <3>3. QED
      BY <1>2, <2>1, <3>1, <3>2
  <2>4. QED
    BY <1>1, <1>2, <2>1, <2>2, <2>3, BoardAside, BackgroundAssumption DEF BoardInv, BoardTypes
<1>5. QED
  BY <1>3, <1>4

LEMMA BoardCache ==
    ASSUME BoardInv, L!RegionChanged \/ (\E k \in L!BoardKeys : L!EntryExpires(k)) \/ UNCHANGED boardVars
    PROVE  BoardInv'
<1>1. UNCHANGED <<score, view, task, request, torn, budget>>
  BY DEF L!RegionChanged, L!EntryExpires, boardVars
<1>2. cache' \subseteq cache
  BY DEF L!RegionChanged, L!EntryExpires, boardVars
<1>3. queue' \subseteq L!BoardKeys
  <2>1. CASE L!RegionChanged
    <3>1. PICK c \in Watched : queue' \subseteq queue \cup {L!City(c)}
      BY <2>1 DEF L!RegionChanged
    <3>2. L!City(c) \in L!BoardKeys
      BY DEF L!BoardKeys, L!Live
    <3>3. QED
      BY <3>1, <3>2 DEF BoardInv, BoardTypes
  <2>2. QED
    BY <2>1 DEF L!EntryExpires, boardVars, BoardInv, BoardTypes
<1>4. QED
  BY <1>1, <1>2, <1>3, BoardAside DEF BoardInv, BoardTypes

LEMMA BoardInit == L!Init => BoardInv
<1> SUFFICES ASSUME L!Init PROVE BoardInv
  OBVIOUS
<1>1. \A t \in L!Tasks : task[t] \in TaskType /\ task[t].pc \in {"sleep", "wait"}
  BY BoardIdle DEF L!Init, BoardPcs
<1>2. task \in [L!Tasks -> TaskType]
  BY <1>1 DEF L!Init
<1>3. BoardTypes
  <2>1. budget \in BudgetType /\ budget.paints = 0
    BY DEF L!Init, BudgetType
  <2>2. score = [e \in Entities |-> 0] /\ view = {} /\ cache = {} /\ queue = {}
    BY DEF L!Init
  <2>3. request \in [Readers -> RequestType]
    BY BoardIdle DEF L!Init
  <2>4. QED
    BY <1>2, <2>1, <2>2, <2>3, BackgroundAssumption DEF BoardTypes
<1>4. \A t \in L!Tasks : Ready(task[t], view)
  BY <1>1 DEF Ready
<1>5. OneRowEach(view) /\ Ranked(view)
  <2>1. view = {}
    BY DEF L!Init
  <2>2. Cardinality({}) = 0
    BY FS_EmptySet
  <2>3. {x.rank : x \in {}} = 1 .. 0
    OBVIOUS
  <2>4. QED
    BY <2>1, <2>2, <2>3 DEF OneRowEach, Descending, Ranked
<1>6. QED
  BY <1>3, <1>4, <1>5 DEF BoardInv

LEMMA BoardStep == BoardInv /\ [BackgroundNext]_all => BoardInv'
<1> SUFFICES ASSUME BoardInv, [BackgroundNext]_all PROVE BoardInv'
  OBVIOUS
<1>1. ASSUME NEW t \in L!Tasks, L!Update(t) PROVE BoardInv'
  BY <1>1, BoardQuery, BoardDelete, BoardCommit, BoardFails, BoardRefresh DEF L!Update
<1>2. CASE L!Warmup \/ L!Batches
  <2>1. "warmup" \in L!Tasks /\ "worker" \in L!Tasks
    BY DEF L!Tasks
  <2>2. QED
    BY <1>1, <1>2, <2>1, BoardLoop DEF L!Warmup, L!Batches
<1>3. CASE L!Next
  BY <1>2, <1>3, BoardRequests, BoardStatistics, BoardCache DEF L!Next
<1>4. CASE UNCHANGED boardVars
  BY <1>4, BoardCache
<1>5. QED
  BY <1>3, <1>4 DEF BackgroundNext, Limiter, Statistics, Leaderboard, all

LEMMA BoardHolds == BackgroundSpec => []BoardInv
<1>1. BackgroundInit => BoardInv
  BY BoardInit DEF BackgroundInit
<1>2. QED
  BY <1>1, BoardStep, PTL DEF BackgroundSpec

\* However the two tasks, failures, paints and new periods interleave, the
\* rows of the view are one ranking unless two updates have overlapped, and no
\* entity has two rows even then.
THEOREM ViewStaysARanking == BackgroundSpec => []ViewIsARanking
<1>1. BoardInv => ViewIsARanking
  BY BoardSame DEF BoardInv, ViewIsARanking, L!ViewIsARanking, OneRowEach
<1>2. QED
  BY <1>1, BoardHolds, PTL

\* The types of all three components hold in every behaviour.
THEOREM BackgroundTypes == BackgroundSpec => []BackgroundTypeOK
<1>1. BoardInv => L!LeaderboardTypeOK
  <2> SUFFICES ASSUME BoardInv PROVE L!LeaderboardTypeOK
    OBVIOUS
  <2>1. score \in [Entities -> 0 .. MaxPaints]
    BY BackgroundAssumption DEF BoardInv, BoardTypes, BudgetType
  <2>2. \A t \in L!Tasks : task[t].pc \in BoardPcs
    BY DEF BoardInv, BoardTypes, TaskType
  <2>3. QED
    BY <2>1, <2>2 DEF BoardInv, BoardTypes, Rows, BoardPcs, L!LeaderboardTypeOK
<1>2. BackgroundSpec => []StatInv
  <2>1. BackgroundInit => StatInv
    BY StatInit DEF BackgroundInit
  <2>2. QED
    BY <2>1, StatStep, PTL DEF BackgroundSpec
<1>3. StatInv => S!StatisticsTypeOK
  BY DEF StatInv
<1>4. LimiterTypeOK /\ S!StatisticsTypeOK /\ L!LeaderboardTypeOK => BackgroundTypeOK
  BY DEF BackgroundTypeOK
<1>5. QED
  BY <1>1, <1>2, <1>3, <1>4, BoardHolds, LimiterTypes, PTL

=============================================================================
