------------------------------ MODULE Services ------------------------------
(***************************************************************************)
(* Access, Moderation, Antibot, Discord, Migration and Regions side by     *)
(* side: the parts of the server that share no variable.  An initial       *)
(* choice says which of them is looked at, and the others stay as they     *)
(* are, so that a behaviour is one of each part on its own.  The           *)
(* parameters that the parts call by the same name have a name of their    *)
(* own here.                                                               *)
(***************************************************************************)
EXTENDS Access, Integers, Sequences

CONSTANTS
    \* Moderation
    People, Addresses, Tickets, Moderators, Admins, Registration, FirstLogin,
    BanOnBannedIp, NoTicket, MaxModOps,
    \* Antibot
    Reasons, Weight, Headless, Samples, Challenges, Settings, DefaultSettings,
    MaxBotOps, MaxFailures, MaxRestarts,
    \* Discord
    Accounts, NoAccount, PageSize, Roles, OverrideForSpecial, LinkStates,
    MaxGuildOps, MaxChanges, MaxConnects, MaxInAll,
    \* Migration
    Source, Cities, Names, MaxId, Batch, ImportBatch, SystemUsers, MaxRuns, MaxInserts,
    \* Regions
    Towns, Places, Pixels, Maps, MaxFailedLoads, MaxImports, MaxQueries,
    \* whether statements fail and clients hang up
    Failures

\* The accounts are finitely many; weights and the ids of Discord are numbers.
ASSUME ServicesAssumption ==
    /\ IsFiniteSet(People) /\ Admins \subseteq People /\ Moderators \subseteq People
    /\ Registration \in [People -> Addresses] /\ FirstLogin \in [People -> Addresses]
    /\ Headless \in Reasons /\ Weight \in [Reasons -> Nat] /\ Samples \in Nat
    /\ IsFiniteSet(Accounts) /\ Accounts \subseteq Nat \ {0} /\ NoAccount = 0
    /\ PageSize \in Nat \ {0}
    /\ {"plain", "booster"} \subseteq Roles /\ Roles \subseteq {"plain", "active", "booster"}
    /\ OverrideForSpecial \in BOOLEAN

VARIABLES
    about,                                                      \* the choice
    banned, timedOut, last, listed, ticket, modJob, notices, unbans, modOps,
    settings, stored, row, flagged, cached, trusted, issued, window, botJob, parted,
    alone, were, uncounted, botBudget,
    roles, linked, cooldown, states, online, events, handler, guildJob, calm, repaired,
    guildBudget,
    target, seq, open, seeded, run, import, ahead, complete, runBudget,
    cities, tree, held, memo, loaded, mapJob, overlap, mapBudget

modVars == <<banned, timedOut, last, listed, ticket, modJob, notices, unbans, modOps>>
botVars == <<settings, stored, row, flagged, cached, trusted, issued, window, botJob, parted,
             alone, were, uncounted, botBudget>>
guildVars == <<roles, linked, cooldown, states, online, events, handler, guildJob, calm,
               repaired, guildBudget>>
runVars == <<target, seq, open, seeded, run, import, ahead, complete, runBudget>>
mapVars == <<cities, tree, held, memo, loaded, mapJob, overlap, mapBudget>>
servicesVars == <<about, vars, modVars, botVars, guildVars, runVars, mapVars>>

M == INSTANCE Moderation
     WITH Users <- People, MaxOps <- MaxModOps, job <- modJob, ops <- modOps

B == INSTANCE Antibot
     WITH Jobs <- Requests, MaxOps <- MaxBotOps, job <- botJob, budget <- botBudget

D == INSTANCE Discord
     WITH Jobs <- Requests, MaxOps <- MaxGuildOps, job <- guildJob, budget <- guildBudget

G == INSTANCE Migration WITH budget <- runBudget

City == INSTANCE Regions
     WITH Cities <- Towns, Handlers <- Requests, Tables <- Maps, MaxFailures <- MaxFailedLoads,
          cache <- memo, job <- mapJob, budget <- mapBudget

\* Access also starts when everybody has an account.
Later == INSTANCE Access WITH Existing <- Users

\* Batches are not empty; ids and rows are no more than the bounds allow, and
\* no row is the missing one.
ASSUME MigrationAssumption ==
    /\ Batch \in Nat \ {0} /\ ImportBatch \in Nat \ {0} /\ MaxId \in Nat \ {0}
    /\ Cities \in Seq({Cities[n] : n \in DOMAIN Cities})
    /\ G!NoRow \notin Names \cup {Cities[n] : n \in DOMAIN Cities}
    /\ \A t \in G!Tables : /\ DOMAIN Source[t] \subseteq 1..MaxId
                           /\ G!NoRow \notin {Source[t][i] : i \in DOMAIN Source[t]}

\* Coordinates are numbers, and the table of cities may be empty.
ASSUME RegionsAssumption ==
    /\ Places \subseteq Int \X Int /\ Pixels \subseteq Places /\ \A c \in Towns : c.at \in Places
    /\ Maps \subseteq Seq(Towns) /\ <<>> \in Maps

-----------------------------------------------------------------------------
\* Only the part that is looked at has more than one initial state.
ServicesInit ==
    /\ about \in {"access", "moderation", "antibot", "discord", "migration", "regions"}
    /\ Init \/ (about = "access" /\ Later!Init)
    /\ M!Init /\ B!Init /\ G!Init
    /\ D!Init /\ (about # "discord" => roles = [a \in Accounts |-> "out"])
    /\ City!Init /\ (about # "regions" => cities = <<>>)

ServicesNext ==
    \/ about = "access" /\ Next
       /\ UNCHANGED <<about, modVars, botVars, guildVars, runVars, mapVars>>
    \/ about = "moderation" /\ M!Next
       /\ UNCHANGED <<about, vars, botVars, guildVars, runVars, mapVars>>
    \/ about = "antibot" /\ B!Next
       /\ UNCHANGED <<about, vars, modVars, guildVars, runVars, mapVars>>
    \/ about = "discord" /\ D!Next
       /\ UNCHANGED <<about, vars, modVars, botVars, runVars, mapVars>>
    \/ about = "migration" /\ G!Next
       /\ UNCHANGED <<about, vars, modVars, botVars, guildVars, mapVars>>
    \/ about = "regions" /\ City!Next
       /\ UNCHANGED <<about, vars, modVars, botVars, guildVars, runVars>>

ServicesSpec == ServicesInit /\ [][ServicesNext]_servicesVars

-----------------------------------------------------------------------------
\* The variables of the part that is looked at have their types.
ServicesTypeOK ==
    CASE about = "access" -> AccessTypeOK
      [] about = "moderation" -> M!ModerationTypeOK
      [] about = "antibot" -> B!AntibotTypeOK
      [] about = "discord" -> D!DiscordTypeOK
      [] about = "migration" -> G!MigrationTypeOK
      [] about = "regions" -> City!RegionsTypeOK
      [] OTHER -> TRUE

\* The properties of the parts, by the names they have there.
RecursionIsBounded == about = "moderation" => M!RecursionIsBounded
CascadeCovers == M!CascadeCovers
NoticeFollowsAction == M!NoticeFollowsAction
ScoreIsItsReasons == about = "antibot" => B!ScoreIsItsReasons
FlaggedIsCounted == about = "antibot" => B!FlaggedIsCounted
SettingsFollowTheStore == about = "antibot" => B!SettingsFollowTheStore
CooldownsFollowRoles == about = "discord" => D!CooldownsFollowRoles
SyncRepairs == about = "discord" => D!SyncRepairs
CopiesExactly == about = "migration" => G!CopiesExactly
SequencesAhead == about = "migration" => G!SequencesAhead
AnswersAreNearest == about = "regions" => City!AnswersAreNearest

=============================================================================
