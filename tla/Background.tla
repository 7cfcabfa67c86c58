----------------------------- MODULE Background -----------------------------
(***************************************************************************)
(* What works in the background of the requests: the rate limiter, the     *)
(* write-behind of the statistics and the leaderboards.  They share no     *)
(* variable; an initial choice says which of them is looked at, and the    *)
(* others stay as they are.  Fairness is that of the component that was    *)
(* chosen.                                                                 *)
(***************************************************************************)
EXTENDS RateLimiter

CONSTANTS
    \* Statistics
    StatKeys, CityOf, Failures, MaxPushes, MaxDay,
    \* Leaderboard
    Entities, Countries, CountryOf, Readers, Top, BatchSize, MaxQueueSize, Dropped, Watched,
    MaxPaints, MaxDays, MaxFailures, MaxRequests

\* What is ranked is finitely many, a board has a place, and the other bounds are
\* numbers.
ASSUME BackgroundAssumption ==
    /\ MaxDay \in Nat
    /\ IsFiniteSet(Entities) /\ Top \in Nat \ {0} /\ MaxPaints \in Nat

VARIABLES
    about,                                                      \* the choice
    channel, acc, pc, todo, day, cities, today, table, invalid, pushed, lost,
    score, view, cache, queue, task, request, torn, budget

statVars == <<channel, acc, pc, todo, day, cities, today, table, invalid, pushed, lost>>
boardVars == <<score, view, cache, queue, task, request, torn, budget>>
all == <<about, vars, statVars, boardVars>>

S == INSTANCE Statistics WITH Keys <- StatKeys

L == INSTANCE Leaderboard WITH Requests <- Readers, job <- request

Owes == [t \in S!Tables |-> [k \in StatKeys |-> S!Owed(t, k)]]
Books == INSTANCE Tally
         WITH Keys <- StatKeys, Tables <- S!Tables, Days <- S!Days, owed <- Owes

BackgroundInit == about \in {"limiter", "statistics", "leaderboard"} /\ Init /\ S!Init /\ L!Init

Limiter(A) == about = "limiter" /\ A /\ UNCHANGED <<about, statVars, boardVars>>
Statistics(A) == about = "statistics" /\ A /\ UNCHANGED <<about, vars, boardVars>>
Leaderboard(A) == about = "leaderboard" /\ A /\ UNCHANGED <<about, vars, statVars>>

BackgroundNext == Limiter(Next) \/ Statistics(S!Next) \/ Leaderboard(L!Next)

BackgroundSpec ==
    /\ BackgroundInit /\ [][BackgroundNext]_all
    /\ WF_all(Statistics(S!FlusherSteps))
    /\ WF_all(Leaderboard(L!Warmup)) /\ WF_all(Leaderboard(L!Batches))

-----------------------------------------------------------------------------
\* Every component's variables have their types.
BackgroundTypeOK == LimiterTypeOK /\ S!StatisticsTypeOK /\ L!LeaderboardTypeOK

\* The properties of the components, by the names they have there.
CountedOnce == S!CountedOnce
EveryPushIsSettled == S!EveryPushIsSettled
ViewIsARanking == L!ViewIsARanking
ViewCatchesUp == about = "leaderboard" => L!ViewCatchesUp

\* The channel, the sums and the flusher implement Tally: what a push added is
\* moved between them without being touched, and leaves them only into a table,
\* once, or with a failure that is counted as one.
TallyKept == Books!TallySpec

=============================================================================
