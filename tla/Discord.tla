------------------------------ MODULE Discord ------------------------------
(***************************************************************************)
(* Accounts linked to Discord: the link flow and the unlinking             *)
(* (discord/oauth.rs, routes/discord_routes.rs, DiscordLinkStates), and    *)
(* the bot that gives an account the charge cooldown of its roles in the   *)
(* guild (discord/bot.rs): from gateway events, from a sync of all members *)
(* after every READY, and after a link.                                    *)
(*                                                                         *)
(* Abstractions.  A cooldown is named after the role it is for.  The cache *)
(* entry of the user is dropped with each UPDATE (UserAccount).  Direct    *)
(* messages and heartbeats change nothing here.  Discord answers truly; a  *)
(* role change while the gateway is down is never told.                    *)
(***************************************************************************)
EXTENDS Naturals, Sequences, FiniteSets

CONSTANTS
    Users,
    Accounts,           \* Discord ids, in the order of the pages
    NoAccount, NoUser,
    PageSize,           \* MEMBERS_PAGE
    Roles,              \* "plain", "active", "booster"
    OverrideForSpecial, \* of the configuration: whoever is handled gets the special cooldown
    LinkStates,         \* one-time states
    Jobs,
    Failures,           \* whether requests and statements fail
    MaxOps, MaxChanges, MaxConnects, MaxInAll   \* bounds

\* Mutant of CooldownFor: who has no special role gets no cooldown.
CooldownForSpecial(roles) == roles

CooldownFor(roles) ==
    IF OverrideForSpecial THEN "special"
    ELSE IF roles \in {"out", "plain"} THEN "base" ELSE roles

VARIABLES
    roles,      \* external: each account's role in the guild, "out" if it is not in
    linked,     \* users.discord_user_id
    cooldown,   \* users.charges_cooldown_ms
    states,     \* DiscordLinkStates: owner of each state, NoUser for none
    online,     \* whether the gateway session is up
    events,     \* external: member events on their way to the session
    handler,    \* what the session does with an event
    job,        \* requests and syncs
    calm,       \* history: nothing has overlapped, failed or been missed
    repaired,   \* history: nothing has happened since an undisturbed sync
    budget

history == <<calm, repaired>>
bot == <<online, events, handler>>
vars == <<roles, linked, cooldown, states, bot, job, history, budget>>

Idle == [pc |-> "idle", user |-> NoUser, account |-> NoAccount, roles |-> "out",
         members |-> {}, last |-> FALSE, known |-> [d \in Accounts |-> NoUser],
         old |-> [u \in Users |-> "base"],
         alone |-> FALSE]
IdleHandler == [pc |-> "idle", account |-> NoAccount, roles |-> "out", user |-> NoUser]

Busy == {j \in Jobs : job[j].pc # "idle"}
Spend(what, max) ==
    /\ budget[what] < max /\ budget.ops + budget.changes + budget.connects < MaxInAll
    /\ budget' = [budget EXCEPT ![what] = @ + 1]
OwnerOf(d) == {u \in Users : linked[u] = d}

\* A sync is alone as long as nothing else is at work and no role changes.
Disturbed == [i \in Jobs |-> [job[i] EXCEPT !.alone = FALSE]]
Begins(j, new) ==
    /\ job[j].pc = "idle"
    /\ job' = [Disturbed EXCEPT ![j] = new]
    /\ calm' = (calm /\ Busy = {} /\ handler.pc = "idle") /\ repaired' = FALSE
Becomes(j, new) == job' = [job EXCEPT ![j] = new]
Ends(j) == Becomes(j, Idle)
EndsSync(j) == Ends(j) /\ repaired' = job[j].alone
Goes(j, pc) == Becomes(j, [job[j] EXCEPT !.pc = pc])

-----------------------------------------------------------------------------
\* auth_url and callback

AuthUrl(u) ==
    /\ linked[u] = NoAccount /\ Spend("ops", MaxOps)
    /\ \E s \in LinkStates : states[s] = NoUser /\ states' = [states EXCEPT ![s] = u]
    /\ UNCHANGED <<roles, linked, cooldown, bot, job, history>>

\* The state is taken whoever comes with it; only its owner goes on, to the
\* exchange of his code, which names the Discord account.
Callback(j, u, s) ==
    /\ states[s] # NoUser
    /\ states' = [states EXCEPT ![s] = NoUser]
    /\ IF states[s] = u
       THEN \E d \in Accounts : Begins(j, [Idle EXCEPT !.pc = "taken", !.user = u, !.account = d])
       ELSE job[j].pc = "idle" /\ UNCHANGED <<job, history>>
    /\ UNCHANGED <<roles, linked, cooldown, bot, budget>>

CheckTaken(j) ==
    /\ job[j].pc = "taken"
    /\ IF OwnerOf(job[j].account) \ {job[j].user} # {} THEN Ends(j) ELSE Goes(j, "link")
    /\ UNCHANGED <<roles, linked, cooldown, states, bot, history, budget>>

\* discord_user_id is UNIQUE.  An account that had another link keeps its
\* cooldown for the time being.
Link(j) ==
    LET u == job[j].user
        d == job[j].account
    IN
    /\ job[j].pc = "link"
    /\ IF OwnerOf(d) \ {u} # {} THEN Ends(j) /\ UNCHANGED <<linked, history>>
       ELSE /\ linked' = [linked EXCEPT ![u] = d]
            /\ calm' = (calm /\ linked[u] = NoAccount) /\ UNCHANGED repaired
            /\ Goes(j, "member")
    /\ UNCHANGED <<roles, cooldown, states, bot, budget>>

\* refresh_user_roles: who is no member keeps the cooldown he has.
FetchMember(j) ==
    LET d == job[j].account IN
    /\ job[j].pc = "member"
    /\ IF roles[d] = "out" THEN Ends(j)
       ELSE Becomes(j, [job[j] EXCEPT !.pc = "select", !.roles = roles[d]])
    /\ UNCHANGED <<roles, linked, cooldown, states, bot, history, budget>>

\* apply_cooldown
SelectForLink(j) ==
    LET found == OwnerOf(job[j].account) IN
    /\ job[j].pc = "select"
    /\ IF \E u \in found : cooldown[u] # CooldownFor(job[j].roles)
       THEN Becomes(j, [job[j] EXCEPT !.pc = "apply", !.user = CHOOSE u \in found : TRUE])
       ELSE Ends(j)
    /\ UNCHANGED <<roles, linked, cooldown, states, bot, history, budget>>

ApplyForLink(j) ==
    /\ job[j].pc = "apply"
    /\ cooldown' = [cooldown EXCEPT ![job[j].user] = CooldownFor(job[j].roles)]
    /\ Ends(j)
    /\ UNCHANGED <<roles, linked, states, bot, history, budget>>

-----------------------------------------------------------------------------
\* unlink

AskUnlink(j, u) ==
    /\ linked[u] # NoAccount /\ Spend("ops", MaxOps)
    /\ Begins(j, [Idle EXCEPT !.pc = "unlink", !.user = u])
    /\ UNCHANGED <<roles, linked, cooldown, states, bot>>

Unlink(j) ==
    /\ job[j].pc = "unlink"
    /\ linked' = [linked EXCEPT ![job[j].user] = NoAccount]
    /\ cooldown' = [cooldown EXCEPT ![job[j].user] = "base"]
    /\ Ends(j)
    /\ UNCHANGED <<roles, states, bot, history, budget>>

-----------------------------------------------------------------------------
\* The gateway session handles one event after the other.

\* Mutant of TakeEvent: only changes of members are handled.
TakeUpdate ==
    /\ online /\ handler.pc = "idle" /\ events # <<>>
    /\ handler' = IF Head(events).roles = "out" THEN handler
                  ELSE [IdleHandler EXCEPT !.pc = "select", !.account = Head(events).account,
                                           !.roles = Head(events).roles]
    /\ events' = Tail(events)
    /\ calm' = (calm /\ Busy = {}) /\ repaired' = FALSE
    /\ job' = Disturbed
    /\ UNCHANGED <<roles, linked, cooldown, states, online, budget>>

TakeEvent ==
    /\ online /\ handler.pc = "idle" /\ events # <<>>
    /\ handler' = [IdleHandler EXCEPT !.pc = "select", !.account = Head(events).account,
                                      !.roles = Head(events).roles]
    /\ events' = Tail(events)
    /\ calm' = (calm /\ Busy = {}) /\ repaired' = FALSE
    /\ job' = Disturbed
    /\ UNCHANGED <<roles, linked, cooldown, states, online, budget>>

SelectForEvent ==
    LET found == OwnerOf(handler.account) IN
    /\ handler.pc = "select"
    /\ handler' = IF \E u \in found : cooldown[u] # CooldownFor(handler.roles)
                  THEN [handler EXCEPT !.pc = "apply", !.user = CHOOSE u \in found : TRUE]
                  ELSE IdleHandler
    /\ UNCHANGED <<roles, linked, cooldown, states, online, events, job, history, budget>>

ApplyForEvent ==
    /\ handler.pc = "apply"
    /\ cooldown' = [cooldown EXCEPT ![handler.user] = CooldownFor(handler.roles)]
    /\ handler' = IdleHandler
    /\ UNCHANGED <<roles, linked, states, online, events, job, history, budget>>

HandlerFails ==
    /\ Failures /\ handler.pc # "idle"
    /\ handler' = IdleHandler /\ calm' = FALSE
    /\ UNCHANGED <<repaired, roles, linked, cooldown, states, online, events, job, budget>>

-----------------------------------------------------------------------------
\* run_session and sync_all, spawned at READY

Connect(j) ==
    /\ ~online /\ Spend("connects", MaxConnects)
    /\ online' = TRUE
    /\ Begins(j, [Idle EXCEPT !.pc = "linked", !.alone = Busy = {} /\ handler.pc = "idle"])
    /\ UNCHANGED <<roles, linked, cooldown, states, events, handler>>

\* The session is over at once, its events are lost.
Disconnect ==
    /\ online /\ handler.pc = "idle"
    /\ online' = FALSE /\ events' = <<>>
    /\ calm' = (calm /\ events = <<>>)
    /\ UNCHANGED <<repaired, roles, linked, cooldown, states, handler, job, budget>>

SelectLinked(j) ==
    LET known == [d \in Accounts |-> IF OwnerOf(d) = {} THEN NoUser
                                     ELSE CHOOSE u \in OwnerOf(d) : TRUE]
    IN
    /\ job[j].pc = "linked"
    /\ Becomes(j, [job[j] EXCEPT !.pc = "page", !.old = cooldown, !.known = known])
    /\ UNCHANGED <<roles, linked, cooldown, states, bot, history, budget>>

\* The next members in the order of their ids, at most a page of them.
MembersAfter(d) == {e \in Accounts : roles[e] # "out" /\ e > d}
Page(after) ==
    {d \in MembersAfter(after) : Cardinality({e \in MembersAfter(after) : e <= d}) <= PageSize}

\* Job.account holds the last id seen, NoAccount (0) at first; a page that is
\* not full is the last.
FetchPage(j) ==
    LET page == Page(job[j].account) IN
    /\ job[j].pc = "page"
    /\ IF page = {} THEN EndsSync(j)
       ELSE /\ Becomes(j, [job[j] EXCEPT !.pc = "sync", !.last = Cardinality(page) < PageSize,
                                !.members = {[account |-> d, roles |-> roles[d]] : d \in page}])
            /\ UNCHANGED repaired
    /\ UNCHANGED <<roles, linked, cooldown, states, bot, calm, budget>>

\* The members of a page are worked off in the order of their ids.
IsNext(j, m) == \A n \in job[j].members : m.account <= n.account
PageGoesOn(j, m, applied) ==
    LET rest == job[j].members \ {m} IN
    IF rest = {} /\ job[j].last THEN Ends(j) /\ repaired' = (job[j].alone /\ applied)
    ELSE /\ Becomes(j, [job[j] EXCEPT !.members = rest, !.account = m.account,
                                      !.pc = IF rest = {} THEN "page" ELSE "sync",
                                      !.alone = job[j].alone /\ applied])
         /\ UNCHANGED repaired

\* Mutant of SyncMember: the last page is not worked off.
SyncFullPages(j) ==
    \E m \in job[j].members :
        LET u == job[j].known[m.account] IN
        /\ job[j].pc = "sync" /\ IsNext(j, m)
        /\ cooldown' = IF u # NoUser /\ ~job[j].last /\ job[j].old[u] # CooldownFor(m.roles)
                       THEN [cooldown EXCEPT ![u] = CooldownFor(m.roles)] ELSE cooldown
        /\ PageGoesOn(j, m, TRUE)
        /\ UNCHANGED <<roles, linked, states, bot, calm, budget>>

\* What was linked at the start of the sync is compared and updated by the id
\* of the user.
SyncMember(j) ==
    \E m \in job[j].members :
        LET u == job[j].known[m.account] IN
        /\ job[j].pc = "sync" /\ IsNext(j, m)
        /\ cooldown' = IF u # NoUser /\ job[j].old[u] # CooldownFor(m.roles)
                       THEN [cooldown EXCEPT ![u] = CooldownFor(m.roles)] ELSE cooldown
        /\ PageGoesOn(j, m, TRUE)
        /\ UNCHANGED <<roles, linked, states, bot, calm, budget>>

\* A failed UPDATE is logged, and the sync goes on.
SyncMemberFails(j) ==
    \E m \in job[j].members :
        /\ Failures /\ job[j].pc = "sync" /\ IsNext(j, m)
        /\ PageGoesOn(j, m, FALSE)
        /\ calm' = FALSE
        /\ UNCHANGED <<roles, linked, cooldown, states, bot, budget>>

\* A request or a statement fails, or a client hangs up.
Fails(j) ==
    /\ Failures /\ job[j].pc # "idle"
    /\ Ends(j) /\ calm' = FALSE
    /\ UNCHANGED <<repaired, roles, linked, cooldown, states, bot, budget>>

-----------------------------------------------------------------------------
\* External: a member joins, leaves or gets another role.  The session handles
\* no event for who joins, without any role.
RoleChanges(d) ==
    /\ Spend("changes", MaxChanges)
    /\ \E r \in IF roles[d] = "out" THEN {"plain"} ELSE (Roles \cup {"out"}) \ {roles[d]} :
          /\ roles' = [roles EXCEPT ![d] = r]
          /\ events' = IF online /\ roles[d] # "out" THEN Append(events, [account |-> d, roles |-> r])
                       ELSE events
    /\ calm' = (calm /\ online) /\ repaired' = FALSE
    /\ job' = Disturbed
    /\ UNCHANGED <<linked, cooldown, states, online, handler>>

StateExpires(s) ==
    /\ states[s] # NoUser
    /\ states' = [states EXCEPT ![s] = NoUser]
    /\ UNCHANGED <<roles, linked, cooldown, bot, job, history, budget>>

Init ==
    /\ roles \in [Accounts -> {"out", "booster"}]
    /\ linked = [u \in Users |-> NoAccount] /\ cooldown = [u \in Users |-> "base"]
    /\ states = [s \in LinkStates |-> NoUser]
    /\ online = FALSE /\ events = <<>> /\ handler = IdleHandler
    /\ job = [j \in Jobs |-> Idle] /\ calm = TRUE /\ repaired = FALSE
    /\ budget = [ops |-> 0, changes |-> 0, connects |-> 0]

JobStep(j) ==
    \/ \E u \in Users, s \in LinkStates : Callback(j, u, s)
    \/ CheckTaken(j) \/ Link(j) \/ FetchMember(j) \/ SelectForLink(j) \/ ApplyForLink(j)
    \/ \E u \in Users : AskUnlink(j, u)
    \/ Unlink(j) \/ Connect(j) \/ SelectLinked(j) \/ FetchPage(j) \/ SyncMember(j)
    \/ SyncMemberFails(j) \/ Fails(j)

Next ==
    \/ \E j \in Jobs : JobStep(j)
    \/ \E u \in Users : AuthUrl(u)
    \/ TakeEvent \/ SelectForEvent \/ ApplyForEvent \/ HandlerFails \/ Disconnect
    \/ \E d \in Accounts : RoleChanges(d)
    \/ \E s \in LinkStates : StateExpires(s)

Spec == Init /\ [][Next]_vars

-----------------------------------------------------------------------------
\* Types of the users, the guild and the jobs.
DiscordTypeOK ==
    /\ roles \in [Accounts -> Roles \cup {"out"}]
    /\ linked \in [Users -> Accounts \cup {NoAccount}]
    /\ cooldown \in [Users -> {"base", "active", "booster", "special"}]
    /\ states \in [LinkStates -> Users \cup {NoUser}] /\ calm \in BOOLEAN /\ online \in BOOLEAN

\* As long as the session has missed no change and nothing has overlapped or
\* failed, an account without a link has the base cooldown, and a linked one
\* that of its roles as soon as the link and the events on the way are through.
\* Where the special cooldown overrides the roles, who was no member when he
\* linked has the base cooldown until an event or a sync comes across him.
CooldownsFollowRoles ==
    calm => \A u \in Users :
        /\ linked[u] = NoAccount => cooldown[u] = "base"
        /\ linked[u] # NoAccount /\ Busy = {} /\ handler.pc = "idle" /\ events = <<>>
               => \/ cooldown[u] = CooldownFor(roles[linked[u]])
                  \/ OverrideForSpecial /\ cooldown[u] = "base"

\* A sync that nothing disturbed repairs whatever went wrong before, on every
\* page: each linked member has the cooldown of its roles.
SyncRepairs ==
    repaired => \A u \in Users : linked[u] # NoAccount /\ roles[linked[u]] # "out"
                    => cooldown[u] = CooldownFor(roles[linked[u]])
=============================================================================
