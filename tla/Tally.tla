------------------------------- MODULE Tally -------------------------------
(***************************************************************************)
(* What the write-behind of the statistics promises about its tables,      *)
(* without a channel, sums or a flusher: what was counted is owed to each  *)
(* table until it is booked there, under a day that has begun, or lost.    *)
(* What is booked stays booked, and what is lost is not booked as well.    *)
(***************************************************************************)
EXTENDS Naturals

CONSTANTS
    Keys,       \* what is counted
    Tables,     \* where it is booked
    Days

VARIABLES
    today,
    pushed,     \* what was counted, by key
    table,      \* what is booked, by table, key and day
    owed,       \* what a table has not been told yet, by table and key
    lost        \* what it will never be told

tallyVars == <<today, pushed, table, owed, lost>>

TallyInit ==
    /\ today = 0
    /\ pushed = [k \in Keys |-> 0]
    /\ table = [t \in Tables |-> [k \in Keys |-> [d \in Days |-> 0]]]
    /\ owed = [t \in Tables |-> [k \in Keys |-> 0]]
    /\ lost = [t \in Tables |-> [k \in Keys |-> 0]]

\* One more, for every table.
Count(k) ==
    /\ pushed' = [pushed EXCEPT ![k] = @ + 1]
    /\ owed' = [t \in Tables |-> [owed[t] EXCEPT ![k] = @ + 1]]
    /\ UNCHANGED <<today, table, lost>>

Book(t, k, n) ==
    /\ \E d \in Days : d <= today /\ table' = [table EXCEPT ![t][k][d] = @ + n]
    /\ owed' = [owed EXCEPT ![t][k] = @ - n]
    /\ UNCHANGED <<today, pushed, lost>>

Lose(t, k, n) ==
    /\ lost' = [lost EXCEPT ![t][k] = @ + n]
    /\ owed' = [owed EXCEPT ![t][k] = @ - n]
    /\ UNCHANGED <<today, pushed, table>>

LoseAll ==
    /\ lost' = [t \in Tables |-> [k \in Keys |-> lost[t][k] + owed[t][k]]]
    /\ owed' = [t \in Tables |-> [k \in Keys |-> 0]]
    /\ UNCHANGED <<today, pushed, table>>

NextDay == today' = today + 1 /\ UNCHANGED <<pushed, table, owed, lost>>

TallyNext ==
    \/ \E k \in Keys : Count(k)
    \/ \E t \in Tables, k \in Keys : \E n \in 0..owed[t][k] : Book(t, k, n) \/ Lose(t, k, n)
    \/ LoseAll \/ NextDay

TallySpec == TallyInit /\ [][TallyNext]_tallyVars
=============================================================================
