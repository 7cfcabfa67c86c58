------------------------------ MODULE Alliance ------------------------------
(***************************************************************************)
(* Alliances (routes/alliance_routes.rs): who belongs to which, who        *)
(* administers it, who is banned from it and which have an invitation out, *)
(* under concurrent requests that decide on rows of the user cache.        *)
(*                                                                         *)
(* A request is a job with a program counter; each statement and each      *)
(* access to the cache is a step.  Creating is a transaction that nobody   *)
(* sees into, so it is one step; the transaction of a ban counts members   *)
(* that others can change before it commits, so it is two.                 *)
(*                                                                         *)
(* Abstractions.  Names, descriptions, headquarters and pixel counters are *)
(* left out: a name that is taken ends a creation like any other failure.  *)
(* The invitations of an alliance are one, as only whether there is one    *)
(* decides anything.  The member with the lowest id is any member.         *)
(***************************************************************************)
EXTENDS Naturals, FiniteSets

CONSTANTS
    Users, Alliances, Requests,
    Founded,        \* alliances that exist at the start, with an invitation
    NoAlliance,     \* the NULL of users.alliance_id
    NoRow,          \* nothing cached; no snapshot
    NoUser,         \* of an idle job
    Failures,       \* whether statements fail and clients hang up
    MaxOps          \* bound: requests ever started

ASSUME AllianceAssumption ==
    /\ NoAlliance \notin Alliances /\ NoUser \notin Users
    /\ Founded \subseteq Alliances
    /\ NoRow \notin [alliance : Alliances \cup {NoAlliance}, role : {"member", "admin"}]
    /\ Failures \in BOOLEAN /\ MaxOps \in Nat /\ IsFiniteSet(Users)

VARIABLES
    row,        \* users: alliance_id and alliance_role
    alliances,  \* rows of alliances
    bans,       \* rows of alliance_banned_users
    invites,    \* alliances with a row in alliance_invites
    cache,      \* the entry of each user in UserCache.map
    job,        \* what each request is doing
    founded,    \* alliance ids ever given out
    admins,     \* history: who has ever administered which alliance
    spared,     \* history: joins whose user was, at some moment since they
                \* started, not banned from the alliance
    ops         \* requests started so far

tables == <<row, alliances, bans, invites, founded>>
history == <<admins, spared>>
vars == <<tables, cache, job, history, ops>>

Outside == [alliance |-> NoAlliance, role |-> "member"]
MemberOf(a) == [alliance |-> a, role |-> "member"]
AdminOf(a) == [alliance |-> a, role |-> "admin"]
Members(a) == {u \in Users : row[u].alliance = a}
Administered == {p \in Users \X Alliances : row[p[1]] = AdminOf(p[2])}

IdleJob == [pc |-> "idle", op |-> "none", who |-> NoUser, peer |-> NoUser,
            alliance |-> NoAlliance, snap |-> NoRow, after |-> "idle"]

Goes(r, pc) == job' = [job EXCEPT ![r].pc = pc]
Ended(r) == job' = [job EXCEPT ![r] = IdleJob]

\* The history of a step, whatever it was.
Remembers ==
    /\ admins' = admins \cup Administered'
    /\ spared' = {r \in Requests :
          /\ job'[r].op = "join"
          /\ r \in spared \/ <<job'[r].who, job'[r].alliance>> \notin bans'}

\* Another request's ban holds the lock of this user's row.
Locked(u) == \E r \in Requests : job[r].pc \in {"commit", "teardown"} /\ job[r].peer = u

-----------------------------------------------------------------------------
\* load_user and require_alliance_admin

AdminOps == {"edit", "invite", "give", "ban", "unban"}

\* Mutant of IsAdmin: belonging to the alliance is enough.
IsAdminMember(s) == s.alliance # NoAlliance

IsAdmin(s) == s.alliance # NoAlliance /\ s.role = "admin"

\* What a request does with the row that load_user returned.
Decided(j, s) ==
    CASE j.op = "create" /\ s.alliance = NoAlliance -> [j EXCEPT !.pc = "write"]
      [] j.op = "join" -> [j EXCEPT !.pc = "invite", !.snap = s]
      [] j.op = "leave" /\ s.alliance # NoAlliance ->
            [j EXCEPT !.pc = IF s.role = "admin" THEN "count" ELSE "write",
                      !.alliance = s.alliance]
      [] j.op \in AdminOps /\ IsAdmin(s) -> [j EXCEPT !.pc = "write", !.alliance = s.alliance]
      [] OTHER -> IdleJob

Ask(r, op, u, v, a) ==
    LET j == [IdleJob EXCEPT !.op = op, !.who = u, !.peer = v, !.alliance = a]
    IN
    /\ job[r].pc = "idle"
    /\ ops < MaxOps /\ ops' = ops + 1
    /\ job' = [job EXCEPT ![r] = IF cache[u] # NoRow THEN Decided(j, cache[u])
                                 ELSE [j EXCEPT !.pc = "load"]]
    /\ UNCHANGED <<tables, cache>> /\ Remembers

AskOwn(r) ==
    \E op \in {"create", "leave", "edit", "invite", "view"}, u \in Users :
        Ask(r, op, u, u, NoAlliance)
AskOther(r) ==
    \E op \in {"give", "ban", "unban"}, u, v \in Users : Ask(r, op, u, v, NoAlliance)
AskJoin(r) == \E u \in Users, a \in Alliances : Ask(r, "join", u, u, a)

Load(r) ==
    /\ job[r].pc = "load"
    /\ job' = [job EXCEPT ![r].pc = "fill", ![r].snap = row[job[r].who]]
    /\ UNCHANGED <<tables, cache, ops>> /\ Remembers

Fill(r) ==
    LET j == job[r] IN
    /\ j.pc = "fill"
    /\ cache' = [cache EXCEPT ![j.who] = j.snap]
    /\ job' = [job EXCEPT ![r] = Decided([j EXCEPT !.snap = NoRow], j.snap)]
    /\ UNCHANGED <<tables, ops>> /\ Remembers

\* refresh of the user "peer"; "after" says what the handler does next.
Refreshes(r, u, next) ==
    job' = [job EXCEPT ![r].pc = "reload", ![r].peer = u, ![r].after = next,
                       ![r].snap = NoRow]

Reload(r) ==
    /\ job[r].pc = "reload"
    /\ job' = [job EXCEPT ![r].pc = "refill", ![r].snap = row[job[r].peer]]
    /\ UNCHANGED <<tables, cache, ops>> /\ Remembers

\* What the handler does after a refresh, whether or not that succeeded.
Continues(r) ==
    CASE job[r].after = "leave" -> job' = [job EXCEPT ![r].pc = "write", ![r].snap = NoRow]
      [] job[r].after = "self" -> Refreshes(r, job[r].who, "idle")
      [] OTHER -> Ended(r)

Refill(r) ==
    /\ job[r].pc = "refill"
    /\ cache' = [cache EXCEPT ![job[r].peer] = job[r].snap]
    /\ Continues(r)
    /\ UNCHANGED <<tables, ops>> /\ Remembers

\* The SELECT of a refresh fails: the old entry stays.
ReloadFails(r) ==
    /\ Failures
    /\ job[r].pc = "reload"
    /\ Continues(r)
    /\ UNCHANGED <<tables, cache, ops>> /\ Remembers

-----------------------------------------------------------------------------
\* create_alliance: INSERT and UPDATE in one transaction

Create(r) ==
    LET u == job[r].who IN
    /\ job[r].pc = "write" /\ job[r].op = "create" /\ ~Locked(u)
    /\ \E a \in Alliances \ founded :
          /\ founded' = founded \cup {a}
          /\ alliances' = alliances \cup {a}
          /\ row' = [row EXCEPT ![u] = AdminOf(a)]
    /\ Refreshes(r, u, "idle")
    /\ UNCHANGED <<bans, invites, cache, ops>> /\ Remembers

\* update_description, update_headquarters: columns no property looks at.
Edit(r) ==
    /\ job[r].pc = "write" /\ job[r].op = "edit"
    /\ Ended(r)
    /\ UNCHANGED <<tables, cache, ops>> /\ Remembers

\* get_invites: SELECT, and an INSERT when there is none.
FindInvite(r) ==
    /\ job[r].pc = "write" /\ job[r].op = "invite"
    /\ IF job[r].alliance \in invites THEN Ended(r) ELSE Goes(r, "issue")
    /\ UNCHANGED <<tables, cache, ops>> /\ Remembers

IssueInvite(r) ==
    LET a == job[r].alliance IN
    /\ job[r].pc = "issue"
    /\ invites' = IF a \in alliances THEN invites \cup {a} ELSE invites
    /\ Ended(r)
    /\ UNCHANGED <<row, alliances, bans, founded, cache, ops>> /\ Remembers

-----------------------------------------------------------------------------
\* join_alliance

JoinByInvite(r) ==
    LET j == job[r] IN
    /\ j.pc = "invite"
    /\ IF j.alliance \in invites /\ j.snap.alliance = NoAlliance
       THEN job' = [job EXCEPT ![r].pc = "banned", ![r].snap = NoRow] ELSE Ended(r)
    /\ UNCHANGED <<tables, cache, ops>> /\ Remembers

\* Mutant of CheckBan: the bans of the alliance are not looked at.
CheckBanSkipped(r) ==
    /\ job[r].pc = "banned"
    /\ Goes(r, "write")
    /\ UNCHANGED <<tables, cache, ops>> /\ Remembers

CheckBan(r) ==
    /\ job[r].pc = "banned"
    /\ IF <<job[r].who, job[r].alliance>> \in bans THEN Ended(r) ELSE Goes(r, "write")
    /\ UNCHANGED <<tables, cache, ops>> /\ Remembers

\* The foreign key rejects an alliance that has been deleted.
Join(r) ==
    LET j == job[r] IN
    /\ j.pc = "write" /\ j.op = "join" /\ ~Locked(j.who)
    /\ IF j.alliance \in alliances
       THEN /\ row' = [row EXCEPT ![j.who] = MemberOf(j.alliance)]
            /\ Refreshes(r, j.who, "idle")
       ELSE Ended(r) /\ UNCHANGED row
    /\ UNCHANGED <<alliances, bans, invites, founded, cache, ops>> /\ Remembers

-----------------------------------------------------------------------------
\* leave_alliance: an administrator counts, picks an heir, promotes it, leaves.

\* Mutant of CountAdmins: the last of two hands over, the last one does not.
CountAdminsOfTwo(r) ==
    /\ job[r].pc = "count"
    /\ Goes(r, IF Cardinality({u \in Members(job[r].alliance) : row[u].role = "admin"}) = 2
               THEN "pick" ELSE "write")
    /\ UNCHANGED <<tables, cache, ops>> /\ Remembers

CountAdmins(r) ==
    /\ job[r].pc = "count"
    /\ Goes(r, IF Cardinality({u \in Members(job[r].alliance) : row[u].role = "admin"}) <= 1
               THEN "pick" ELSE "write")
    /\ UNCHANGED <<tables, cache, ops>> /\ Remembers

PickHeir(r) ==
    LET heirs == {u \in Members(job[r].alliance) : row[u].role = "member"} IN
    /\ job[r].pc = "pick"
    /\ IF heirs = {} THEN Goes(r, "write")
       ELSE \E v \in heirs : job' = [job EXCEPT ![r].pc = "promote", ![r].peer = v]
    /\ UNCHANGED <<tables, cache, ops>> /\ Remembers

Promote(r) ==
    LET v == job[r].peer IN
    /\ job[r].pc = "promote" /\ ~Locked(v)
    /\ row' = [row EXCEPT ![v].role = "admin"]
    /\ Refreshes(r, v, "leave")
    /\ UNCHANGED <<alliances, bans, invites, founded, cache, ops>> /\ Remembers

Leave(r) ==
    LET u == job[r].who IN
    /\ job[r].pc = "write" /\ job[r].op = "leave" /\ ~Locked(u)
    /\ row' = [row EXCEPT ![u] = Outside]
    /\ Refreshes(r, u, "idle")
    /\ UNCHANGED <<alliances, bans, invites, founded, cache, ops>> /\ Remembers

-----------------------------------------------------------------------------
\* give_admin, ban_user, unban_user

\* Mutant of GiveAdmin: the administrator's entry is refreshed, not the other's.
GiveAdminRefreshesOwn(r) ==
    LET j == job[r] IN
    /\ j.pc = "write" /\ j.op = "give" /\ ~Locked(j.peer)
    /\ row' = [row EXCEPT ![j.peer] = IF @.alliance = j.alliance THEN AdminOf(j.alliance) ELSE @]
    /\ Refreshes(r, j.who, "idle")
    /\ UNCHANGED <<alliances, bans, invites, founded, cache, ops>> /\ Remembers

\* Mutant of GiveAdmin: the role is toggled.
GiveAdminToggles(r) ==
    LET j == job[r] IN
    /\ j.pc = "write" /\ j.op = "give" /\ ~Locked(j.peer)
    /\ row' = [row EXCEPT ![j.peer] =
                  IF @ = AdminOf(j.alliance) THEN MemberOf(j.alliance)
                  ELSE IF @.alliance = j.alliance THEN AdminOf(j.alliance) ELSE @]
    /\ Refreshes(r, j.peer, "idle")
    /\ UNCHANGED <<alliances, bans, invites, founded, cache, ops>> /\ Remembers

GiveAdmin(r) ==
    LET j == job[r] IN
    /\ j.pc = "write" /\ j.op = "give" /\ ~Locked(j.peer)
    /\ row' = [row EXCEPT ![j.peer] = IF @.alliance = j.alliance THEN AdminOf(j.alliance) ELSE @]
    /\ Refreshes(r, j.peer, "idle")
    /\ UNCHANGED <<alliances, bans, invites, founded, cache, ops>> /\ Remembers

\* The transaction of a ban up to its count: it has locked the row of the
\* banned user, and sees everyone else's as committed.
Kick(r) ==
    LET j == job[r] IN
    /\ j.pc = "write" /\ j.op = "ban" /\ ~Locked(j.peer)
    /\ IF j.alliance \in alliances
       THEN Goes(r, IF Members(j.alliance) \ {j.peer} = {} THEN "teardown" ELSE "commit")
       ELSE Ended(r)
    /\ UNCHANGED <<tables, cache, ops>> /\ Remembers

\* Mutant of CommitBan: the ban is recorded, the user stays.
CommitBanKeepsMember(r) ==
    LET j == job[r] IN
    /\ j.pc = "commit"
    /\ bans' = bans \cup {<<j.peer, j.alliance>>}
    /\ Refreshes(r, j.peer, "self")
    /\ UNCHANGED <<row, alliances, invites, founded, cache, ops>> /\ Remembers

CommitBan(r) ==
    LET j == job[r] IN
    /\ j.pc = "commit"
    /\ row' = [row EXCEPT ![j.peer] = Outside]
    /\ bans' = bans \cup {<<j.peer, j.alliance>>}
    /\ Refreshes(r, j.peer, "self")
    /\ UNCHANGED <<alliances, invites, founded, cache, ops>> /\ Remembers

\* Mutant of Teardown: each statement commits, and waits for no other ban.
TeardownAtOnce(r) ==
    LET j == job[r]
        a == j.alliance
    IN
    /\ j.pc = "teardown"
    /\ row' = [u \in Users |-> IF u = j.peer THEN Outside
                               ELSE IF u \in Members(a) THEN [row[u] EXCEPT !.alliance = NoAlliance]
                               ELSE row[u]]
    /\ alliances' = alliances \ {a}
    /\ invites' = invites \ {a}
    /\ bans' = bans \ (Users \X {a})
    /\ Refreshes(r, j.peer, "self")
    /\ UNCHANGED <<founded, cache, ops>> /\ Remembers

\* Nobody was left: the alliance is deleted, and ON DELETE SET NULL takes it
\* from whoever has joined since the count.
Teardown(r) ==
    LET j == job[r]
        a == j.alliance
    IN
    /\ j.pc = "teardown"
    /\ \A q \in Requests \ {r} : job[q].pc \in {"commit", "teardown"} =>
          job[q].alliance # a /\ job[q].peer \notin Members(a)
    /\ row' = [u \in Users |-> IF u = j.peer THEN Outside
                               ELSE IF u \in Members(a) THEN [row[u] EXCEPT !.alliance = NoAlliance]
                               ELSE row[u]]
    /\ alliances' = alliances \ {a}
    /\ invites' = invites \ {a}
    /\ bans' = bans \ (Users \X {a})
    /\ Refreshes(r, j.peer, "self")
    /\ UNCHANGED <<founded, cache, ops>> /\ Remembers

Unban(r) ==
    LET j == job[r] IN
    /\ j.pc = "write" /\ j.op = "unban"
    /\ bans' = bans \ {<<j.peer, j.alliance>>}
    /\ Ended(r)
    /\ UNCHANGED <<row, alliances, invites, founded, cache, ops>> /\ Remembers

-----------------------------------------------------------------------------
\* A statement fails or the handler is dropped; an open transaction is undone.
Abandon(r) ==
    /\ Failures
    /\ job[r].pc # "idle"
    /\ Ended(r)
    /\ UNCHANGED <<tables, cache, ops>> /\ Remembers

\* An entry's TTL is over, or another handler invalidates it.
Expire(u) ==
    /\ cache' = [cache EXCEPT ![u] = NoRow]
    /\ UNCHANGED <<tables, job, ops>> /\ Remembers

\* What a request does when nothing fails.
Works(r) ==
    \/ AskOwn(r) \/ AskOther(r) \/ AskJoin(r)
    \/ Load(r) \/ Fill(r) \/ Reload(r) \/ Refill(r)
    \/ Create(r) \/ Edit(r) \/ FindInvite(r) \/ IssueInvite(r)
    \/ JoinByInvite(r) \/ CheckBan(r) \/ Join(r)
    \/ CountAdmins(r) \/ PickHeir(r) \/ Promote(r) \/ Leave(r)
    \/ GiveAdmin(r) \/ Kick(r) \/ CommitBan(r) \/ Teardown(r) \/ Unban(r)

Step(r) == Works(r) \/ ReloadFails(r) \/ Abandon(r)

Next ==
    \/ \E r \in Requests : Step(r)
    \/ \E u \in Users : Expire(u)

\* The tables at a time when some alliances have been founded, and each has
\* its founder and an invitation.
Init ==
    /\ \E f \in [Founded -> Users] :
          /\ \A a, b \in Founded : f[a] = f[b] => a = b
          /\ row = [u \in Users |-> IF \E a \in Founded : f[a] = u
                                    THEN AdminOf(CHOOSE a \in Founded : f[a] = u) ELSE Outside]
    /\ alliances = Founded /\ founded = Founded /\ invites = Founded
    /\ bans = {}
    /\ cache = [u \in Users |-> NoRow]
    /\ job = [r \in Requests |-> IdleJob]
    /\ admins = Administered
    /\ spared = {}
    /\ ops = 0

Spec == Init /\ [][Next]_vars

-----------------------------------------------------------------------------
\* Properties

Rows == [alliance : Alliances \cup {NoAlliance}, role : {"member", "admin"}]

Pcs == {"idle", "load", "fill", "write", "issue", "invite", "banned", "count", "pick",
        "promote", "commit", "teardown", "reload", "refill"}

Jobs == [pc : Pcs, op : AdminOps \cup {"none", "create", "join", "leave", "view"},
         who : Users \cup {NoUser}, peer : Users \cup {NoUser},
         alliance : Alliances \cup {NoAlliance}, snap : Rows \cup {NoRow},
         after : {"idle", "leave", "self"}]

\* Every variable has its type, and no row of a table refers to an alliance
\* that is not there.
TypeOK ==
    /\ row \in [Users -> Rows] /\ cache \in [Users -> Rows \cup {NoRow}]
    /\ alliances \subseteq founded /\ founded \subseteq Alliances
    /\ bans \subseteq Users \X alliances /\ invites \subseteq alliances
    /\ \A u \in Users : row[u].alliance \in alliances \cup {NoAlliance}
    /\ job \in [Requests -> Jobs]
    /\ admins \subseteq Users \X Alliances /\ spared \subseteq Requests
    /\ ops \in Nat

\* A ban stops every join that starts after it: a join that is about to write
\* was started, or has gone on, at a moment when its user was not banned.
BansStopLaterJoins ==
    \A r \in Requests : job[r].op = "join" /\ job[r].pc = "write" => r \in spared

\* Nobody edits, invites, promotes, bans or unbans for an alliance that he has
\* never administered, whatever copy of his row let him in.
ActsByAdmins ==
    \A r \in Requests :
        job[r].op \in AdminOps /\ job[r].pc \notin {"idle", "load", "fill"}
            => <<job[r].who, job[r].alliance>> \in admins

-----------------------------------------------------------------------------
\* What the documentation promises; true of one request at a time.

\* protocol.md: "Banned members cannot rejoin the Alliance."
BannedStayOut == \A u \in Users : <<u, row[u].alliance>> \notin bans

\* protocol.md of give-admin: "Promotes a member to Admin status. Cannot be
\* downgraded."
AdminsStay ==
    \A u \in Users, a \in Alliances :
        row[u] = AdminOf(a) /\ row'[u].alliance = a => row'[u] = AdminOf(a)

\* A comment of leave_alliance: "Last admin hands the role to the first member".
HandsOver ==
    \A r \in Requests, u \in Users, a \in Alliances :
        /\ job[r].op = "leave" /\ job[r].pc = "write" /\ job[r].who = u
        /\ row[u] = AdminOf(a) /\ row'[u] = Outside /\ Members(a) # {u}
        => \E v \in Members(a) : row'[v] = AdminOf(a)

\* A comment of create_alliance: "Keep the runtime user cache authoritative
\* after the write". What is cached is the row when no request is at work.
CacheIsCurrent ==
    (\A r \in Requests : job[r].pc = "idle")
        => \A u \in Users : cache[u] \in {NoRow, row[u]}

=============================================================================
