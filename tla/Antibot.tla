------------------------------ MODULE Antibot ------------------------------
(***************************************************************************)
(* The bot score of an account (services/antibot.rs, routes/fp.rs) and the *)
(* settings that say what it is used for (services/settings.rs).  Paints   *)
(* are analysed by spawned tasks, which add reasons to the row of          *)
(* bot_flags; a proof of work clears it.                                   *)
(*                                                                         *)
(* Abstractions.  One account: everything is kept by account, and the      *)
(* challenge of another one is refused.  Whether intervals are regular or  *)
(* batches uniform is chosen, as soon as there are enough samples.  The    *)
(* weights of reasons are small numbers.  A cached score is there until    *)
(* its TTL is over.                                                        *)
(***************************************************************************)
EXTENDS Naturals, Sequences, FiniteSets, Sums

CONSTANTS
    Reasons, Weight,
    Headless,           \* the reason that needs no samples
    Samples,            \* paints after which the others may be seen
    Challenges,         \* bound: challenges valid at a time
    Settings,           \* admissible settings: [mode, threshold]
    DefaultSettings,    \* of the configuration
    Jobs,               \* requests and spawned tasks
    MaxOps, MaxFailures, MaxRestarts    \* bounds

NoRow == [score |-> 0, reasons |-> <<>>]
NoScore == 1000         \* nothing cached

VARIABLES
    settings,   \* state.settings
    stored,     \* table settings: a set with at most one record
    row,        \* the row of bot_flags
    flagged,    \* reasons counted since the process started
    cached,     \* score_cache
    trusted,    \* whether trusted_remaining is some
    issued,     \* challenges that are valid
    window,     \* paints in the rolling window
    job,
    parted,     \* history: the last that happened to the settings was a save that
                \* overlapped another or was cut off, or a load that failed
    alone,      \* history: the save that is in the table and not yet in force,
                \* when there is no other such save
    were,       \* history: the settings that were ever stored
    uncounted,  \* history: reasons whose INSERT failed, or whose row was
                \* deleted by a request that was then dropped
    budget

memory == <<flagged, cached, trusted, issued, window>>
saves == <<parted, alone, were>>
vars == <<settings, stored, row, memory, job, saves, uncounted, budget>>

IdleJob == [pc |-> "idle", collects |-> FALSE, todo |-> {}, reason |-> Headless, score |-> 0, set |-> DefaultSettings]
Goes(j, pc) == job' = [job EXCEPT ![j].pc = pc]
Ends(j) == job' = [job EXCEPT ![j] = IdleJob]
Spend(what, max) == budget[what] < max /\ budget' = [budget EXCEPT ![what] = @ + 1]
Begins(j, new) == job[j].pc = "idle" /\ Spend("ops", MaxOps) /\ job' = [job EXCEPT ![j] = new]

Recorded == {row.reasons[i] : i \in DOMAIN row.reasons}

-----------------------------------------------------------------------------
\* pre_check, before a paint, and after the paint observe_paint

\* The settings are read once.  Staff is exempt; who is trusted is not asked for a score.
PreCheck(j) ==
    LET enforced == settings.mode = "enforce" /\ ~trusted IN
    /\ Begins(j, [IdleJob EXCEPT !.set = settings,
                                 !.pc = IF enforced /\ cached = NoScore THEN "score"
                                        ELSE IF enforced /\ cached >= settings.threshold THEN "denied"
                                        ELSE "painted"])
    /\ UNCHANGED <<settings, stored, row, memory, saves, uncounted>>

\* score: what the SELECT found is cached when it is there.  An error counts as
\* no score.
SelectScore(j) ==
    /\ job[j].pc = "score"
    /\ \/ job' = [job EXCEPT ![j].pc = "scored", ![j].score = row.score] /\ UNCHANGED budget
       \/ job' = [job EXCEPT ![j].pc = "scored", ![j].score = 0] /\ Spend("failures", MaxFailures)
    /\ UNCHANGED <<settings, stored, row, memory, saves, uncounted>>

CacheScore(j) ==
    /\ job[j].pc = "scored"
    /\ cached' = job[j].score
    /\ Goes(j, IF job[j].collects THEN "offer"
               ELSE IF job[j].score >= job[j].set.threshold THEN "denied" ELSE "painted")
    /\ UNCHANGED <<settings, stored, row, flagged, trusted, issued, window, saves, uncounted, budget>>

\* The client is told; a denied one may ask for a challenge.
Denied(j) ==
    /\ job[j].pc = "denied"
    /\ Ends(j)
    /\ UNCHANGED <<settings, stored, row, memory, saves, uncounted, budget>>

\* observe_paint spawns a task, unless the mode is off.
Painted(j) ==
    /\ job[j].pc = "painted"
    /\ \E headless \in BOOLEAN :
          job' = [job EXCEPT ![j] = IF settings.mode = "off" THEN IdleJob
                                    ELSE [IdleJob EXCEPT !.pc = IF headless THEN "mark" ELSE "sample"]]
    /\ UNCHANGED <<settings, stored, row, memory, saves, uncounted, budget>>

\* The sample is pushed and the analysis is made under one lock.
Sample(j) ==
    /\ job[j].pc = "sample"
    /\ window' = IF window < Samples THEN window + 1 ELSE window
    /\ \E seen \in SUBSET (Reasons \ {Headless}) :
          /\ seen # {} => window' = Samples
          /\ job' = [job EXCEPT ![j].todo = seen, ![j].pc = "next"]
    /\ UNCHANGED <<settings, stored, row, flagged, cached, trusted, issued, saves, uncounted, budget>>

NextReason(j) ==
    /\ job[j].pc = "next"
    /\ IF job[j].todo = {} THEN Ends(j)
       ELSE \E r \in job[j].todo :
              job' = [job EXCEPT ![j].pc = "mark", ![j].reason = r, ![j].todo = @ \ {r}]
    /\ UNCHANGED <<settings, stored, row, memory, saves, uncounted, budget>>

-----------------------------------------------------------------------------
\* add_flag: flagged first, then the INSERT, then the cache

After(j) == IF job[j].reason = Headless THEN "sample" ELSE "next"

MarkFlagged(j) ==
    /\ job[j].pc = "mark"
    /\ flagged' = flagged \cup {job[j].reason}
    /\ Goes(j, IF job[j].reason \in flagged THEN After(j) ELSE "insert")
    /\ UNCHANGED <<settings, stored, row, cached, trusted, issued, window, saves, uncounted, budget>>

Added(r) == [score |-> row.score + Weight[r], reasons |-> Append(row.reasons, r)]

\* Mutant of InsertFlag: the INSERT has no WHERE.
InsertFlagAgain(j) ==
    LET r == job[j].reason IN
    /\ job[j].pc = "insert"
    /\ row' = Added(r)
    /\ job' = [job EXCEPT ![j].pc = "cache", ![j].score = row'.score]
    /\ UNCHANGED <<settings, stored, memory, saves, uncounted, budget>>

\* The WHERE of the INSERT leaves a row alone that has the reason.
InsertFlag(j) ==
    LET r == job[j].reason IN
    /\ job[j].pc = "insert"
    /\ row' = IF r \in Recorded THEN row ELSE Added(r)
    /\ job' = IF r \in Recorded THEN [job EXCEPT ![j].pc = After(j)]
              ELSE [job EXCEPT ![j].pc = "cache", ![j].score = row'.score]
    /\ UNCHANGED <<settings, stored, memory, saves, uncounted, budget>>

InsertFails(j) ==
    /\ job[j].pc = "insert" /\ Spend("failures", MaxFailures)
    /\ uncounted' = uncounted \cup {job[j].reason}
    /\ Goes(j, After(j))
    /\ UNCHANGED <<settings, stored, row, memory, saves>>

CacheFlag(j) ==
    /\ job[j].pc = "cache"
    /\ cached' = job[j].score
    /\ Goes(j, After(j))
    /\ UNCHANGED <<settings, stored, row, flagged, trusted, issued, window, saves, uncounted, budget>>

-----------------------------------------------------------------------------
\* Challenges: GET /fp/challenge, POST /fp, and POST /fp/challenge, which ends with solve_pow

Challenge ==
    /\ \E c \in Challenges \ issued : issued' = issued \cup {c}
    /\ Spend("ops", MaxOps)
    /\ UNCHANGED <<settings, stored, row, flagged, cached, trusted, window, job, saves, uncounted>>

\* fp_collect, unless the mode is off: the traits are stored, the score is looked
\* up, and who has half the threshold is offered a challenge.
Collect(j) ==
    /\ settings.mode # "off"
    /\ Begins(j, [IdleJob EXCEPT !.collects = TRUE, !.set = settings, !.score = cached,
                                 !.pc = IF cached = NoScore THEN "score" ELSE "offer"])
    /\ UNCHANGED <<settings, stored, row, memory, saves, uncounted>>

Offer(j) ==
    /\ job[j].pc = "offer"
    /\ IF job[j].score >= job[j].set.threshold \div 2 /\ issued # Challenges
       THEN \E c \in Challenges \ issued : issued' = issued \cup {c}
       ELSE UNCHANGED issued
    /\ Ends(j)
    /\ UNCHANGED <<settings, stored, row, flagged, cached, trusted, window, saves, uncounted, budget>>

\* A valid nonce for a challenge of his own, which is then gone.
PostSolution(j) ==
    /\ \E c \in issued : issued' = issued \ {c}
    /\ Begins(j, [IdleJob EXCEPT !.pc = "delete"])
    /\ UNCHANGED <<settings, stored, row, flagged, cached, trusted, window, saves, uncounted>>

\* The error of the DELETE is ignored.
DeleteFlags(j) ==
    /\ job[j].pc = "delete"
    /\ \/ row' = NoRow /\ UNCHANGED budget
       \/ Spend("failures", MaxFailures) /\ UNCHANGED row
    /\ Goes(j, "trust")
    /\ UNCHANGED <<settings, stored, memory, saves, uncounted>>

\* Mutant of Trust: what was flagged stays flagged.
TrustOnly(j) ==
    /\ job[j].pc = "trust"
    /\ trusted' = TRUE /\ cached' = NoScore /\ window' = 0
    /\ Ends(j)
    /\ UNCHANGED <<settings, stored, row, flagged, issued, saves, uncounted, budget>>

Trust(j) ==
    /\ job[j].pc = "trust"
    /\ trusted' = TRUE /\ cached' = NoScore /\ window' = 0 /\ flagged' = {}
    /\ uncounted' = {}
    /\ Ends(j)
    /\ UNCHANGED <<settings, stored, row, issued, saves, budget>>

-----------------------------------------------------------------------------
\* update_settings: save is one transaction, then the copy in memory

AskSave(j) ==
    /\ \E s \in Settings : Begins(j, [IdleJob EXCEPT !.pc = "save", !.set = s])
    /\ UNCHANGED <<settings, stored, row, memory, saves, uncounted>>

\* Mutant of Save: the copy in memory is written whatever comes of it.
SaveAfterPublish(j) ==
    /\ job[j].pc = "save"
    /\ settings' = job[j].set
    /\ \/ /\ stored' = {job[j].set} /\ were' = were \cup stored'
          /\ UNCHANGED <<parted, budget>>
       \/ Spend("failures", MaxFailures) /\ UNCHANGED <<stored, parted, were>>
    /\ alone' = {}
    /\ Ends(j)
    /\ UNCHANGED <<row, memory, uncounted>>

\* The transaction is committed, and the settings are about to be put in force;
\* or it is committed, but the answer is lost; or it fails.
Save(j) ==
    /\ job[j].pc = "save"
    /\ \/ /\ stored' = {job[j].set} /\ were' = were \cup stored'
          /\ \/ /\ Goes(j, "publish")
                /\ alone' = IF \E i \in Jobs : job[i].pc = "publish" THEN {} ELSE {j}
                /\ UNCHANGED <<parted, budget>>
             \/ Spend("failures", MaxFailures) /\ Ends(j) /\ parted' = TRUE /\ alone' = {}
       \/ Spend("failures", MaxFailures) /\ Ends(j) /\ UNCHANGED <<stored, saves>>
    /\ UNCHANGED <<settings, row, memory, uncounted>>

Publish(j) ==
    /\ job[j].pc = "publish"
    /\ settings' = job[j].set
    /\ parted' = (j \notin alone) /\ alone' = {}
    /\ Ends(j)
    /\ UNCHANGED <<stored, row, memory, were, uncounted, budget>>

\* A client hangs up while a statement of its request is on the way: the
\* statement may have been executed.  Spawned tasks are not dropped.
Dropped(j) ==
    /\ job[j].pc \in {"score", "offer", "delete", "trust", "save", "publish"}
    /\ Spend("failures", MaxFailures)
    /\ Ends(j)
    /\ parted' = (parted \/ job[j].pc = "publish") /\ alone' = alone \ {j}
    /\ uncounted' = IF job[j].pc = "trust" THEN uncounted \cup flagged ELSE uncounted
    /\ UNCHANGED <<settings, stored, row, memory, were>>

TrustExpires ==
    /\ trusted /\ trusted' = FALSE
    /\ UNCHANGED <<settings, stored, row, flagged, cached, issued, window, job, saves, uncounted, budget>>

ScoreExpires ==
    /\ cached # NoScore /\ cached' = NoScore
    /\ UNCHANGED <<settings, stored, row, flagged, trusted, issued, window, job, saves, uncounted, budget>>

ChallengeExpires ==
    /\ \E c \in issued : issued' = issued \ {c}
    /\ UNCHANGED <<settings, stored, row, flagged, cached, trusted, window, job, saves, uncounted, budget>>

\* What a load finds: the stored settings, or the defaults of the configuration.
Loaded == IF stored = {} THEN DefaultSettings ELSE CHOOSE s \in stored : TRUE

\* The server goes on with the defaults when the table cannot be read.
Restart ==
    /\ budget.restarts < MaxRestarts
    /\ \/ /\ settings' = Loaded /\ parted' = FALSE
          /\ budget' = [budget EXCEPT !.restarts = @ + 1]
       \/ /\ budget.failures < MaxFailures
          /\ settings' = DefaultSettings /\ parted' = TRUE
          /\ budget' = [budget EXCEPT !.restarts = @ + 1, !.failures = @ + 1]
    /\ flagged' = {} /\ cached' = NoScore /\ trusted' = FALSE /\ issued' = {} /\ window' = 0
    /\ job' = [j \in Jobs |-> IdleJob] /\ alone' = {} /\ uncounted' = {}
    /\ UNCHANGED <<stored, row, were>>

Init ==
    /\ settings = DefaultSettings /\ stored = {} /\ row = NoRow
    /\ flagged = {} /\ cached = NoScore /\ trusted = FALSE /\ issued = {} /\ window = 0
    /\ job = [j \in Jobs |-> IdleJob] /\ uncounted = {}
    /\ parted = FALSE /\ alone = {} /\ were = {}
    /\ budget = [ops |-> 0, failures |-> 0, restarts |-> 0]

Next ==
    \/ \E j \in Jobs :
          \/ PreCheck(j) \/ SelectScore(j) \/ CacheScore(j) \/ Denied(j) \/ Painted(j) \/ Sample(j)
          \/ NextReason(j) \/ MarkFlagged(j) \/ InsertFlag(j) \/ InsertFails(j) \/ CacheFlag(j)
          \/ Collect(j) \/ Offer(j) \/ PostSolution(j) \/ DeleteFlags(j) \/ Trust(j)
          \/ AskSave(j) \/ Save(j) \/ Publish(j) \/ Dropped(j)
    \/ Challenge \/ TrustExpires \/ ScoreExpires \/ ChallengeExpires \/ Restart

Spec == Init /\ [][Next]_vars

-----------------------------------------------------------------------------
\* Types of the tables, the stores and the jobs.
AntibotTypeOK ==
    /\ settings \in Settings \cup {DefaultSettings} /\ stored \subseteq Settings
    /\ Recorded \subseteq Reasons /\ flagged \subseteq Reasons /\ uncounted \subseteq Reasons
    /\ row.score \in Nat /\ cached \in Nat /\ trusted \in BOOLEAN /\ parted \in BOOLEAN
    /\ alone \subseteq Jobs /\ were \subseteq Settings
    /\ issued \subseteq Challenges /\ window \in 0..Samples

\* The score is the weights of the reasons on record, and no reason is on
\* record twice, whatever tasks, solutions and restarts came between.
ScoreIsItsReasons ==
    /\ Cardinality(Recorded) = Len(row.reasons)
    /\ row.score = SumOf(Weight, Recorded)

\* What counts as flagged is on record or about to be, so that no reason is
\* left out of the score: except when a statement failed, when a solution was
\* cut off, and until the solution at work has taken the flags back.
FlaggedIsCounted ==
    \A r \in flagged :
        \/ r \in Recorded \cup uncounted
        \/ \E j \in Jobs : job[j].pc = "insert" /\ job[j].reason = r
        \/ \E j \in Jobs : job[j].pc = "trust"

\* The settings in force are the stored ones, whichever saves came before: from
\* every save that no other overlaps between its commit and its write on, and
\* from every start that can read the table, until a save is cut off or loses
\* the answer to its commit.  And they are never any that were not committed:
\* overlaps, lost answers and failed loads leave older ones or the defaults.
SettingsFollowTheStore ==
    /\ parted \/ (\E j \in Jobs : job[j].pc = "publish") \/ settings = Loaded
    /\ settings \in were \cup {DefaultSettings}
=============================================================================
