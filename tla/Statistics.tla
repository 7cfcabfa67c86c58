----------------------------- MODULE Statistics -----------------------------
(***************************************************************************)
(* The write-behind of the painting statistics (services/stats.rs): paint  *)
(* pushes increments into a channel, and one flusher adds them up per key  *)
(* and upserts each key into user_region_stats and then into               *)
(* user_region_stats_daily.                                                *)
(*                                                                         *)
(* Abstractions.  A key stands for (user, city, country, alliance).  The   *)
(* UPDATE and the INSERT that follows when it met no row are one step: no  *)
(* other process writes these tables, and an error of either has the same  *)
(* outcomes.  Days are numbered.                                           *)
(***************************************************************************)
EXTENDS Naturals, Sequences, FiniteSets, Sums

CONSTANTS
    Keys,           \* what an increment is counted under
    CityOf,         \* the city of each key
    Failures,       \* whether statements fail and the process ends
    MaxPushes,      \* bound: increments ever pushed
    MaxDay          \* bound: the calendar

Tables == {"stats", "daily"}
Days == 0..MaxDay

VARIABLES
    channel,    \* the unbounded channel: increments in order
    acc,        \* StatsQueue.acc: the sum under each key, 0 for no entry
    pc,         \* where the flusher is
    todo,       \* upserts still to do in this flush
    day,        \* local_midnight() of this flush
    cities,     \* cities to invalidate after this flush
    today,      \* the calendar
    table,      \* pixels_painted in each table, by key and day
    invalid,    \* what the region channel was sent
    pushed,     \* history: the sum ever pushed under each key
    lost        \* history: the sum a failure or a crash took from each table

queue == <<channel, acc>>
flush == <<pc, todo, day, cities>>
vars == <<queue, flush, today, table, invalid, pushed, lost>>

Empty == [k \in Keys |-> 0]

\* paint_pixels pushes one increment for each region of the request.
Push(k) ==
    /\ SumOf(pushed, Keys) < MaxPushes
    /\ channel' = Append(channel, [key |-> k, delta |-> 1])
    /\ pushed' = [pushed EXCEPT ![k] = @ + 1]
    /\ UNCHANGED <<acc, flush, today, table, invalid, lost>>

\* One turn of a loop over try_recv; the flusher drains before and after it
\* has slept.
DrainOne ==
    /\ pc \in {"drain", "late"} /\ channel # <<>>
    /\ acc' = [acc EXCEPT ![Head(channel).key] = @ + Head(channel).delta]
    /\ channel' = Tail(channel)
    /\ UNCHANGED <<flush, today, table, invalid, pushed, lost>>

Drained ==
    /\ pc = "drain" /\ channel = <<>>
    /\ pc' = IF acc = Empty THEN "recv" ELSE "sleep"
    /\ UNCHANGED <<queue, todo, day, cities, today, table, invalid, pushed, lost>>

\* Mutant of Receive: the message that wakes the flusher is not counted.
ReceiveOnly ==
    /\ pc = "recv" /\ channel # <<>>
    /\ channel' = Tail(channel)
    /\ pc' = "drain"
    /\ UNCHANGED <<acc, todo, day, cities, today, table, invalid, pushed, lost>>

\* recv() takes the first message off the channel, so it is counted here.
Receive ==
    /\ pc = "recv" /\ channel # <<>>
    /\ acc' = [acc EXCEPT ![Head(channel).key] = @ + Head(channel).delta]
    /\ channel' = Tail(channel)
    /\ pc' = "drain"
    /\ UNCHANGED <<todo, day, cities, today, table, invalid, pushed, lost>>

Wake ==
    /\ pc = "sleep"
    /\ pc' = "late"
    /\ UNCHANGED <<queue, todo, day, cities, today, table, invalid, pushed, lost>>

StartFlush ==
    LET dirty == {k \in Keys : acc[k] > 0} IN
    /\ pc = "late" /\ channel = <<>>
    /\ pc' = "upsert" /\ day' = today
    /\ todo' = dirty \X Tables
    /\ cities' = {CityOf[k] : k \in dirty}
    /\ UNCHANGED <<queue, today, table, invalid, pushed, lost>>

\* A key that has one of its two upserts behind it goes first.
Half == {k \in Keys : <<k, "daily">> \in todo /\ <<k, "stats">> \notin todo}
NextUpsert == IF Half # {} THEN Half \X {"daily"} ELSE {u \in todo : u[2] = "stats"}

Upsert ==
    /\ pc = "upsert"
    /\ \E u \in NextUpsert :
          /\ table' = [table EXCEPT ![u[2]][u[1]][day] = @ + acc[u[1]]]
          /\ todo' = todo \ {u}
    /\ UNCHANGED <<queue, pc, day, cities, today, invalid, pushed, lost>>

\* An error is logged and the flush goes on; the statement may have been
\* applied before the connection broke.
UpsertFails ==
    /\ Failures /\ pc = "upsert"
    /\ \E u \in NextUpsert, applied \in BOOLEAN :
          /\ todo' = todo \ {u}
          /\ IF applied
             THEN /\ table' = [table EXCEPT ![u[2]][u[1]][day] = @ + acc[u[1]]]
                  /\ UNCHANGED lost
             ELSE /\ lost' = [lost EXCEPT ![u[2]][u[1]] = @ + acc[u[1]]]
                  /\ UNCHANGED table
    /\ UNCHANGED <<queue, pc, day, cities, today, invalid, pushed>>

Clear ==
    /\ pc = "upsert" /\ todo = {}
    /\ acc' = Empty
    /\ pc' = "send"
    /\ UNCHANGED <<channel, todo, day, cities, today, table, invalid, pushed, lost>>

Send ==
    /\ pc = "send"
    /\ invalid' = invalid \cup cities
    /\ cities' = {} /\ pc' = "drain"
    /\ UNCHANGED <<queue, todo, day, today, table, pushed, lost>>

\* Mutant of FlusherSteps: the flusher ends when its channel is empty.
FlusherStops == DrainOne \/ Drained \/ Wake \/ StartFlush \/ Upsert
                \/ UpsertFails \/ Clear \/ Send

FlusherSteps == DrainOne \/ Drained \/ Receive \/ Wake \/ StartFlush \/ Upsert
                \/ UpsertFails \/ Clear \/ Send

Midnight ==
    /\ today < MaxDay /\ today' = today + 1
    /\ UNCHANGED <<queue, flush, table, invalid, pushed, lost>>

Waiting(k) == SumOf([i \in DOMAIN channel |-> channel[i].delta],
                    {i \in DOMAIN channel : channel[i].key = k})

\* What a table still has to be told about a key.
Owed(t, k) == Waiting(k) + (IF pc = "upsert" /\ <<k, t>> \notin todo THEN 0 ELSE acc[k])

\* The process ends and starts again: nothing is written on the way out.
Crash ==
    /\ Failures /\ (channel # <<>> \/ acc # Empty \/ cities # {})
    /\ lost' = [t \in Tables |-> [k \in Keys |-> lost[t][k] + Owed(t, k)]]
    /\ channel' = <<>> /\ acc' = Empty
    /\ pc' = "drain" /\ todo' = {} /\ cities' = {}
    /\ UNCHANGED <<day, today, table, invalid, pushed>>

Init ==
    /\ channel = <<>> /\ acc = Empty
    /\ pc = "drain" /\ todo = {} /\ day = 0 /\ cities = {}
    /\ today = 0 /\ invalid = {} /\ pushed = Empty
    /\ table = [t \in Tables |-> [k \in Keys |-> [d \in Days |-> 0]]]
    /\ lost = [t \in Tables |-> Empty]

Next == (\E k \in Keys : Push(k)) \/ FlusherSteps \/ Midnight \/ Crash

Spec == Init /\ [][Next]_vars /\ WF_vars(FlusherSteps)

-----------------------------------------------------------------------------
\* Types of the queue, the flusher and the tables.
StatisticsTypeOK ==
    /\ \A i \in DOMAIN channel : channel[i].key \in Keys /\ channel[i].delta \in Nat
    /\ acc \in [Keys -> Nat] /\ pushed \in [Keys -> Nat]
    /\ pc \in {"drain", "recv", "sleep", "late", "upsert", "send"}
    /\ todo \subseteq Keys \X Tables /\ day \in Days /\ today \in Days
    /\ table \in [Tables -> [Keys -> [Days -> Nat]]]
    /\ lost \in [Tables -> [Keys -> Nat]]

\* Each increment is counted exactly once in each of the two tables, unless a
\* failed statement or the end of the process lost it: nothing is counted a
\* second time after an error, and nothing is dropped on the way.
CountedOnce ==
    \A t \in Tables, k \in Keys :
        pushed[k] = SumOf(table[t][k], Days) + Owed(t, k) + lost[t][k]

\* Once nobody paints any more, everything that was pushed is settled for good:
\* written in both tables, or lost to an error.  Nothing waits in the channel or
\* in the sums for another push.
EveryPushIsSettled == <>[](\A t \in Tables, k \in Keys : Owed(t, k) = 0)
=============================================================================
