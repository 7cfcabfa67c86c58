----------------------------- MODULE Migration -----------------------------
(***************************************************************************)
(* The offline commands that fill the database: the migration from the     *)
(* legacy backend (migrate.rs), which copies table by table in batches,    *)
(* and the import of the regions and of the system users (setup.rs).  A    *)
(* run may end anywhere, be started again, and the server may write        *)
(* between and during the runs.                                            *)
(*                                                                         *)
(* Abstractions.  A row is the value of its unique column; row i of a      *)
(* table refers to row i of each parent table that has one.  The legacy    *)
(* server is stopped: the source does not change.  The foreign keys and    *)
(* the triggers of the target are off in the connection of the migration   *)
(* (session_replication_role).  A table of the source without rows takes   *)
(* no step.  A number that nextval has given out is used up, whatever      *)
(* becomes of its transaction, and its row is not seen before the commit.  *)
(* A deadlock of the import and the migration ends one of them. Only users *)
(* and regions are inserted while a migration runs: the sequence of        *)
(* another table is set in the step of the one before it.                  *)
(***************************************************************************)
EXTENDS Naturals, Sequences, FiniteSets, FiniteSetsExt

CONSTANTS
    Source,         \* table |-> (id |-> row): what the legacy database has
    Cities,         \* city_ids of a GeoNames dump, in the order of its lines
    Names,          \* unique values that the server may give a new row
    MaxId,          \* bound: ids
    Batch,          \* BATCH
    ImportBatch,    \* rows per transaction of the import
    SystemUsers,    \* the users that setup seeds
    MaxRuns, MaxInserts     \* bounds

\* The copying order: parents before their children.
Society == <<"alliances", "users", "alliance_banned_users", "alliance_invites",
            "favorite_locations", "banned_ips">>
World == <<"tiles", "pixels", "regions">>
Account == <<"profile_pictures", "sessions", "password_reset_tokens", "tickets", "user_notes">>
Counts == <<"leaderboard_view", "user_region_stats", "user_region_stats_daily">>
Notices == <<"notifications", "system_notifications", "system_notification_reads">>

\* Mutant of Order: the world first.
WorldFirst == World \o Society \o Account \o Counts \o Notices

Order == Society \o World \o Account \o Counts \o Notices
Tables == {Order[i] : i \in DOMAIN Order}

\* IDENTITY_TABLES, in their order, in two parts: the first table of each is one
\* that others insert into.  The other four tables have ids of their own making.
Identity ==
    << <<"users", "alliances", "alliance_banned_users", "favorite_locations", "banned_ips",
         "tiles", "pixels">>,
       <<"regions", "profile_pictures", "user_notes", "leaderboard_view", "notifications",
         "system_notifications", "system_notification_reads", "user_region_stats",
         "user_region_stats_daily">> >>
Part(n) == {Identity[n][i] : i \in DOMAIN Identity[n]}
Numbered == Part(1) \cup Part(2)

\* The foreign keys of the schema.
Parents(t) ==
    CASE t = "users" -> {"alliances"}
      [] t = "alliance_banned_users" -> {"users", "alliances"}
      [] t = "alliance_invites" -> {"alliances"}
      [] t = "pixels" -> {"users", "tiles"}
      [] t = "system_notification_reads" -> {"system_notifications"}
      [] t \in {"favorite_locations", "banned_ips", "profile_pictures", "sessions",
                "password_reset_tokens", "tickets", "user_notes", "user_region_stats",
                "user_region_stats_daily", "notifications"} -> {"users"}
      [] OTHER -> {}

VARIABLES
    target,     \* table |-> (id |-> row), the PostgreSQL database
    seq,        \* table |-> the last value of its identity sequence
    open,       \* rows that have their id and are not committed: [table, id, row]
    seeded,     \* whether the system users are there
    run,        \* the migration that is running
    import,     \* lines of the dump that the running import has behind it
    ahead,      \* history: tables whose sequence was last set when no row of
                \* theirs was open
    complete,   \* history: a migration has gone through, and nothing was started
                \* or written since
    budget

vars == <<target, seq, open, seeded, run, import, ahead, complete, budget>>

NoRow == "none"
NoImport == Len(Cities) + 1
Ids(t) == {i \in 1..MaxId : target[t][i] # NoRow}
OpenIn(t) == {o \in open : o.table = t}
Idle == [pc |-> "idle", stage |-> 1, last |-> 0, lone |-> FALSE]
UserCount == Cardinality(Ids("users")) + (IF seeded THEN SystemUsers ELSE 0)
Table == Order[run.stage]
\* The stages behind the tables are those of the sequences.
Realigned == Identity[run.stage - Len(Order)][1]

Setup ==
    /\ ~seeded /\ seeded' = TRUE
    /\ UNCHANGED <<target, seq, open, run, import, ahead, complete, budget>>

\* The first table from a stage on that has rows.
From(n) == Min({s \in n..Len(Order) : DOMAIN Source[Order[s]] # {}} \cup {Len(Order) + 1})

\* A target with users is refused, unless it is forced.
Start(force) ==
    /\ run = Idle /\ budget.runs < MaxRuns
    /\ budget' = [budget EXCEPT !.runs = @ + 1]
    /\ IF UserCount > 2 /\ ~force THEN UNCHANGED <<run, complete>>
       ELSE run' = [Idle EXCEPT !.pc = "copy", !.stage = From(1)] /\ complete' = FALSE
    /\ UNCHANGED <<target, seq, open, seeded, import, ahead>>

\* The stream of a table comes in the order of the ids.
NextBatch ==
    LET left == {i \in DOMAIN Source[Table] : i > run.last} IN
    {i \in left : Cardinality({j \in left : j <= i}) <= Batch}

\* One statement writes a batch: on a conflict of ids it updates the row.  A
\* conflict in another unique column fails the statement, and the run: the
\* rows of the batch are written in their order.  It waits for an open row of
\* the import that has an id or a city of the batch.
Clash(ids) ==
    \E i \in ids : \E j \in Ids(Table) \ {i} :
        target[Table][j] = Source[Table][i] /\ ~(j \in ids /\ j < i)

UpsertBatch ==
    LET ids == NextBatch IN
    /\ run.pc = "copy" /\ run.stage <= Len(Order) /\ ids # {}
    /\ Table = "regions" =>
           \A o \in OpenIn("regions") : o.id \notin ids /\ \A i \in ids : Source[Table][i] # o.row
    /\ IF Clash(ids) THEN run' = Idle /\ UNCHANGED target
       ELSE /\ target' = [target EXCEPT ![Table] =
                             [i \in 1..MaxId |-> IF i \in ids THEN Source[Table][i] ELSE @[i]]]
            /\ run' = [run EXCEPT !.last = Max(ids)]
    /\ UNCHANGED <<seq, open, seeded, import, ahead, complete, budget>>

NextTable ==
    /\ run.pc = "copy" /\ run.stage <= Len(Order) /\ NextBatch = {}
    /\ run' = [run EXCEPT !.stage = From(@ + 1), !.last = 0]
    /\ UNCHANGED <<target, seq, open, seeded, import, ahead, complete, budget>>

\* Mutant of Align: as many as there are rows.
AlignToCount(t) == Max({1, Cardinality(Ids(t))})

\* GREATEST(max(id), 1)
Align(t) == Max({1} \cup Ids(t))

\* When all is copied, one table after the other: the greatest id is that of
\* the rows that are committed when the statement starts.
ReadMax ==
    /\ run.pc = "copy" /\ run.stage > Len(Order)
    /\ run' = [run EXCEPT !.pc = "set", !.last = Align(Realigned), !.lone = OpenIn(Realigned) = {}]
    /\ UNCHANGED <<target, seq, open, seeded, import, ahead, complete, budget>>

SetVal ==
    /\ run.pc = "set"
    /\ LET others == Part(run.stage - Len(Order)) \ {Realigned} IN
       /\ seq' = [t \in Numbered |-> IF t = Realigned THEN run.last
                                     ELSE IF t \in others THEN Align(t) ELSE seq[t]]
       /\ ahead' = (ahead \ {Realigned}) \cup others \cup (IF run.lone THEN {Realigned} ELSE {})
    /\ IF run.stage = Len(Order) + Len(Identity)
       THEN run' = Idle /\ complete' = TRUE
       ELSE run' = [Idle EXCEPT !.pc = "copy", !.stage = run.stage + 1] /\ UNCHANGED complete
    /\ UNCHANGED <<target, open, seeded, import, budget>>

\* An error or the end of the process: what is written stays.
Fails ==
    /\ run # Idle
    /\ run' = Idle
    /\ UNCHANGED <<target, seq, open, seeded, import, ahead, complete, budget>>

-----------------------------------------------------------------------------
\* nextval: a statement that is about to set the sequence does not know of it.
Takes(t, id) ==
    /\ id <= MaxId
    /\ seq' = [seq EXCEPT ![t] = id]
    /\ run' = IF run.pc = "set" /\ Realigned = t THEN [run EXCEPT !.lone = FALSE] ELSE run

\* The server writes a new user, in one statement.
AskInsert ==
    LET id == seq["users"] + 1 IN
    /\ budget.inserts < MaxInserts
    /\ budget' = [budget EXCEPT !.inserts = @ + 1]
    /\ Takes("users", id)
    /\ \E name \in Names : open' = open \cup {[table |-> "users", id |-> id, row |-> name]}
    /\ complete' = FALSE
    /\ UNCHANGED <<target, seeded, import, ahead>>

\* The row is written and committed; or it meets a conflict, which is an error
\* of its request, or the connection is lost.
Insert ==
    /\ \E o \in OpenIn("users") :
          /\ open' = open \ {o}
          /\ \/ /\ target["users"][o.id] = NoRow
                /\ \A i \in Ids("users") : target["users"][i] # o.row
                /\ target' = [target EXCEPT !["users"][o.id] = o.row]
             \/ UNCHANGED target
    /\ complete' = FALSE
    /\ UNCHANGED <<seq, seeded, run, import, ahead, budget>>

StartImport ==
    /\ import = NoImport /\ budget.imports < 1
    /\ budget' = [budget EXCEPT !.imports = @ + 1]
    /\ import' = 0 /\ complete' = FALSE
    /\ UNCHANGED <<target, seq, open, seeded, run, ahead>>

\* What the import wrote since its last commit is lost.
Aborts == import' = NoImport /\ open' = open \ OpenIn("regions")

\* The transaction is committed after ImportBatch lines and after the last one.
Due == import > 0 /\ (import % ImportBatch = 0 \/ import = Len(Cities)) /\ OpenIn("regions") # {}

\* A city that is known is updated, and uses up a number too; an id that is
\* taken is an error, and ends the import.
ImportLine ==
    LET city == Cities[import + 1]
        id == seq["regions"] + 1
        mine == OpenIn("regions")
    IN
    /\ import < Len(Cities) /\ ~Due
    /\ Takes("regions", id)
    /\ IF (\E i \in Ids("regions") : target["regions"][i] = city) \/ \E o \in mine : o.row = city
       THEN import' = import + 1 /\ UNCHANGED open
       ELSE IF target["regions"][id] # NoRow \/ \E o \in mine : o.id = id
       THEN Aborts
       ELSE import' = import + 1 /\ open' = open \cup {[table |-> "regions", id |-> id, row |-> city]}
    /\ UNCHANGED <<target, seeded, ahead, complete, budget>>

ImportCommits ==
    LET mine == OpenIn("regions") IN
    /\ Due
    /\ target' = [target EXCEPT !["regions"] =
                     [i \in 1..MaxId |-> IF \E o \in mine : o.id = i
                                         THEN (CHOOSE o \in mine : o.id = i).row ELSE @[i]]]
    /\ open' = open \ mine
    /\ complete' = FALSE
    /\ UNCHANGED <<seq, seeded, run, import, ahead, budget>>

ImportEnds ==
    /\ import < NoImport
    /\ Aborts
    /\ UNCHANGED <<target, seq, seeded, run, ahead, complete, budget>>

Init ==
    /\ target = [t \in Tables |-> [i \in 1..MaxId |-> NoRow]]
    /\ seq = [t \in Numbered |-> 0] /\ open = {} /\ seeded = FALSE
    /\ run = Idle /\ import = NoImport /\ ahead = {} /\ complete = FALSE
    /\ budget = [runs |-> 0, inserts |-> 0, imports |-> 0]

Next ==
    \/ Setup \/ (\E force \in BOOLEAN : Start(force))
    \/ UpsertBatch \/ NextTable \/ ReadMax \/ SetVal \/ Fails
    \/ AskInsert \/ Insert \/ StartImport \/ ImportLine \/ ImportCommits \/ ImportEnds

Spec == Init /\ [][Next]_vars

-----------------------------------------------------------------------------
\* Types of the database and of the runs.
MigrationTypeOK ==
    /\ \A t \in Tables : \A i \in Ids(t) :
          target[t][i] \in Names \cup {Cities[n] : n \in DOMAIN Cities}
                              \cup {Source[t][j] : j \in DOMAIN Source[t]}
    /\ seq \in [Numbered -> 0..MaxId] /\ seeded \in BOOLEAN
    /\ run.stage \in 1..Len(Order) + Len(Identity) /\ import \in 0..NoImport
    /\ \A o \in open : o.table \in {"users", "regions"} /\ o.id \in 1..MaxId

\* A migration that goes through has copied every row, also the rows behind
\* the last full batch, and however many runs broke off before it; and wherever
\* a run breaks off, no copied row is left without the rows it refers to.  (A
\* user that the server wrote may look like a copied one: it refers to nothing.)
CopiesExactly ==
    /\ complete => \A t \in Tables : \A i \in DOMAIN Source[t] : target[t][i] = Source[t][i]
    /\ \A t \in Tables : \A i \in Ids(t) \cap DOMAIN Source[t] :
           target[t][i] = Source[t][i] /\ ~(t = "users" /\ target[t][i] \in Names)
               => \A p \in Parents(t) : i \in DOMAIN Source[p] => target[p][i] # NoRow

\* A sequence that was set while no row of its table was open is from then on
\* ahead of every id that is taken, and no row that is on its way meets an id
\* that is taken, also while later runs are under way or broken off.  A sequence
\* that was set while an insert or a transaction of the import was open may be
\* behind the ids of these: the next run that finds none open puts that right.
SequencesAhead ==
    \A t \in ahead :
        /\ \A i \in Ids(t) : i <= seq[t]
        /\ \A o \in OpenIn(t) : o.id <= seq[t] /\ target[t][o.id] = NoRow
=============================================================================
