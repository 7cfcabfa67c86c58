---------------------------- MODULE RateLimiter ----------------------------
(***************************************************************************)
(* The rate limiter (rate_limiter.rs) and the requests that use it         *)
(* (login, signup and password reset in routes/auth_routes.rs, and the     *)
(* paint handler in routes/pixel_routes.rs).                               *)
(*                                                                         *)
(* All kinds of requests of one address share one entry, each kind with a  *)
(* limit and a window of its own.  A request is counted when it is let in  *)
(* and, if it succeeds and is no paint, one attempt is taken back when it  *)
(* is done, which may be much later: other requests and the cleanup task   *)
(* come between.                                                           *)
(*                                                                         *)
(* Abstractions.  The deque of attempts is a set of numbered attempts; the *)
(* clock does not run backwards, so the front of the deque is its oldest   *)
(* part.  Arithmetic does not reach the i64 at which it saturates.         *)
(***************************************************************************)
EXTENDS Integers, FiniteSets

CONSTANTS
    Keys,           \* client addresses
    Kinds,          \* "login", "signup", "reset", "paint"
    Refunded,       \* the kinds that call record_success: all but "paint"
    Limit, Window,  \* max_attempts and window_ms of each kind
    IdleTTL,        \* idle_ttl_ms
    Requests,       \* handlers in flight
    MaxTime,        \* bound: the clock
    MaxChecks       \* bound: requests ever let in

ASSUME LimiterAssumption ==
    /\ Refunded \subseteq Kinds
    /\ Limit \in [Kinds -> Int] /\ Window \in [Kinds -> Int]
    /\ IdleTTL \in Nat /\ MaxTime \in Nat /\ MaxChecks \in Nat

VARIABLES
    now,        \* the clock
    present,    \* addresses with an entry
    attempts,   \* Entry.attempts of each address
    last,       \* Entry.last_attempt
    block,      \* Entry.block_until, NoBlock for None
    job,        \* requests let in and not yet answered
    grants,     \* history: every attempt ever let in
    refunds,    \* history: when record_success took an attempt back
    promised    \* history: the latest reset time an address was given

entries == <<present, attempts, last, block>>
vars == <<now, entries, job, grants, refunds, promised>>

NoBlock == 0
Idle == [key |-> "none", kind |-> "none"]
Attempt == [n : Nat, at : Nat]

\* The number of an attempt orders those let in at the same moment.
Number == Cardinality(grants)

Blocked(k) == k \in present /\ now < block[k]

\* prune_window with the window of the request that asks.
Counted(k, c) == {a \in attempts[k] : now - a.at < Window[c]}

\* check: an answer is None, or the time at which the client may try again.
Denies(k, reset) ==
    /\ promised' = [promised EXCEPT ![k] = reset]
    /\ UNCHANGED <<now, job, grants, refunds>>

Misconfigured(c) == Limit[c] <= 0 \/ Window[c] <= 0

CheckMisconfigured(k, c) ==
    /\ Misconfigured(c)
    /\ UNCHANGED vars

CheckBlocked(k, c) ==
    /\ ~Misconfigured(c) /\ Blocked(k)
    /\ Denies(k, block[k])
    /\ UNCHANGED entries

CheckFull(k, c) ==
    LET reset == now + 2 * Window[c] IN
    /\ ~Misconfigured(c) /\ ~Blocked(k)
    /\ Cardinality(Counted(k, c)) >= Limit[c]
    /\ attempts' = [attempts EXCEPT ![k] = Counted(k, c)]
    /\ block' = [block EXCEPT ![k] = reset]
    /\ last' = [last EXCEPT ![k] = now]
    /\ Denies(k, reset)
    /\ UNCHANGED present

\* A paint needs no job: the limiter does not see the end of it.
CheckGrants(r, k, c) ==
    LET a == [n |-> Number, at |-> now] IN
    /\ job[r] = Idle /\ Number < MaxChecks
    /\ ~Misconfigured(c) /\ ~Blocked(k)
    /\ Cardinality(Counted(k, c)) < Limit[c]
    /\ present' = present \cup {k}
    /\ attempts' = [attempts EXCEPT ![k] = Counted(k, c) \cup {a}]
    /\ block' = [block EXCEPT ![k] = NoBlock]
    /\ last' = [last EXCEPT ![k] = now]
    /\ job' = IF c \in Refunded THEN [job EXCEPT ![r] = [key |-> k, kind |-> c]] ELSE job
    /\ grants' = grants \cup {[n |-> Number, at |-> now, key |-> k, kind |-> c]}
    /\ UNCHANGED <<now, refunds, promised>>

\* The back of the deque is taken off, whoever put it there.
Newest(k) == {a \in attempts[k] : \A b \in attempts[k] : b.n <= a.n}

\* Mutant of RecordSuccess: a success clears the whole entry.
RecordSuccessClears(k) ==
    IF k \notin present \/ Blocked(k)
    THEN UNCHANGED <<attempts, last, refunds>>
    ELSE /\ attempts' = [attempts EXCEPT ![k] = {}]
         /\ last' = [last EXCEPT ![k] = now]
         /\ refunds' = refunds \cup {[n |-> Cardinality(refunds), at |-> now, key |-> k]}

RecordSuccess(k) ==
    IF k \notin present \/ Blocked(k)
    THEN UNCHANGED <<attempts, last, refunds>>
    ELSE /\ attempts' = [attempts EXCEPT ![k] = @ \ Newest(k)]
         /\ last' = [last EXCEPT ![k] = now]
         /\ refunds' = refunds \cup {[n |-> Cardinality(refunds), at |-> now, key |-> k]}

Succeed(r) ==
    /\ job[r] # Idle
    /\ RecordSuccess(job[r].key)
    /\ job' = [job EXCEPT ![r] = Idle]
    /\ UNCHANGED <<now, present, block, grants, promised>>

\* A wrong password, an error, a client that hangs up: the attempt stays.
Fail(r) ==
    /\ job[r] # Idle
    /\ job' = [job EXCEPT ![r] = Idle]
    /\ UNCHANGED <<now, entries, grants, refunds, promised>>

\* Mutant of Kept: only recent use keeps an entry.
KeptIfRecent == {k \in present : now - last[k] <= IdleTTL}

Kept == {k \in present : Blocked(k) \/ now - last[k] <= IdleTTL}

\* retain looks at one entry at a time; what it drops is a new entry later.
Cleanup ==
    /\ present' = Kept
    /\ attempts' = [k \in Keys |-> IF k \in Kept THEN attempts[k] ELSE {}]
    /\ block' = [k \in Keys |-> IF k \in Kept /\ Blocked(k) THEN block[k] ELSE NoBlock]
    /\ UNCHANGED <<now, last, job, grants, refunds, promised>>

Tick == now < MaxTime /\ now' = now + 1
        /\ UNCHANGED <<entries, job, grants, refunds, promised>>

Init ==
    /\ now = 0 /\ present = {} /\ attempts = [k \in Keys |-> {}]
    /\ last = [k \in Keys |-> 0] /\ block = [k \in Keys |-> NoBlock]
    /\ job = [r \in Requests |-> Idle]
    /\ grants = {} /\ refunds = {} /\ promised = [k \in Keys |-> 0]

Asks(k, c) ==
    \/ CheckMisconfigured(k, c) \/ CheckBlocked(k, c) \/ CheckFull(k, c)
    \/ \E r \in Requests : CheckGrants(r, k, c)

Next ==
    \/ \E k \in Keys, c \in Kinds : Asks(k, c)
    \/ \E r \in Requests : Succeed(r) \/ Fail(r)
    \/ Cleanup \/ Tick

Spec == Init /\ [][Next]_vars

-----------------------------------------------------------------------------
\* Types of the limiter's state.
LimiterTypeOK ==
    /\ now \in Nat /\ present \subseteq Keys
    /\ attempts \in [Keys -> SUBSET Attempt]
    /\ last \in [Keys -> Nat] /\ block \in [Keys -> Int] /\ promised \in [Keys -> Int]

\* Who was told when to come back is not let in before that moment, whatever
\* other requests, successes and cleanups happen in between.
BlocksHold ==
    [][\A g \in grants' \ grants : now >= promised[g.key]]_vars

\* The kind whose window is the shortest sees a true sliding window, although
\* it shares its entry with the others and the entry is dropped when idle: in
\* any window, the attempts of this kind do not exceed its limit by more than
\* what was taken back for successes.
Strictest == {c \in Kinds : /\ ~Misconfigured(c) /\ Window[c] <= IdleTTL
                            /\ \A d \in Kinds : Misconfigured(d) \/ Window[c] <= Window[d]}
Within(S, k, w) == {x \in S : x.key = k /\ now - x.at < w}
SlidingWindow ==
    \A k \in Keys, c \in Strictest :
        Cardinality({g \in Within(grants, k, Window[c]) : g.kind = c})
            <= Limit[c] + Cardinality(Within(refunds, k, Window[c]))
=============================================================================
