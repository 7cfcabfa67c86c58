----------------------------- MODULE Moderation -----------------------------
(***************************************************************************)
(* Reports, tickets and bans (routes/report.rs, routes/moderator.rs,       *)
(* services/ticket.rs, the sanctions of routes/admin.rs, and ban_user in   *)
(* services/user_ops.rs, which bans every account that shares an address   *)
(* with the banned one, and so on recursively).                            *)
(*                                                                         *)
(* A request is a job; each statement is a step.  The recursion of         *)
(* ban_user is a stack of frames, of which only the last one acts.         *)
(*                                                                         *)
(* Abstractions.  Roles do not change, so who may moderate is a constant.  *)
(* Reading tickets, counts and notes changes nothing.  The user cache is   *)
(* left to UserAccount: a paint decides on the row as it is.               *)
(***************************************************************************)
EXTENDS Naturals, FiniteSets, Sequences

CONSTANTS
    Users, Addresses, Tickets, Requests,
    Moderators, Admins,
    Registration,       \* registration_ip of each user
    FirstLogin,         \* last_ip of each user at the start
    BanOnBannedIp,      \* the configuration BAN_ON_BANNED_IP
    NoUser, NoTicket,
    Failures,           \* whether statements fail and clients hang up
    MaxOps              \* bound: requests ever started

VARIABLES
    banned,     \* users.banned
    timedOut,   \* users whose timeout_until lies ahead
    last,       \* users.last_ip
    listed,     \* rows of banned_ips that were written for a user
    ticket,     \* rows of tickets
    job,        \* what each request is doing
    notices,    \* notifications: the ticket each is about
    unbans,     \* history: how often an account was unbanned
    ops         \* requests started so far

accounts == <<banned, timedOut, last, listed>>
vars == <<accounts, ticket, job, notices, unbans, ops>>

Blank == [state |-> "none", by |-> NoUser, of |-> NoUser]
Frame(u) == [who |-> u, at |-> "select", ban |-> TRUE, ips |-> <<>>, todo |-> {}]
\* near, reached, blocked and failed are history: who has shared which address
\* with the account all the time, who was banned and what was listed at some
\* moment since, and whether a statement failed.
IdleJob == [pc |-> "idle", who |-> NoUser, ip |-> <<>>, ticket |-> NoTicket, verdict |-> "none",
            stack |-> <<>>, near |-> {}, reached |-> {}, needs |-> {}, blocked |-> {},
            failed |-> FALSE]

Top(r) == job[r].stack[Len(job[r].stack)]
Pending(r, at) == job[r].stack # <<>> /\ Top(r).at = at

Shares(u, ip) == Registration[u] = ip \/ last[u] = ip

\* A finished frame returns to the one below it; the last to the handler.
AfterBan(j) == [j EXCEPT !.stack = <<>>, !.pc = IF j.verdict = "ban" THEN "notify" ELSE "idle"]
Return(j) ==
    LET below == SubSeq(j.stack, 1, Len(j.stack) - 1) IN
    IF below = <<>> THEN AfterBan(j) ELSE [j EXCEPT !.stack = below]
Replace(j, f) == [j EXCEPT !.stack = [j.stack EXCEPT ![Len(j.stack)] = f]]

\* The history of a step: what every cascade at work has seen of it.
Seen(j) ==
    IF j.pc = "idle" THEN IdleJob
    ELSE [j EXCEPT !.reached = @ \cup (IF j.verdict = "timeout" THEN timedOut' ELSE banned'),
                   !.blocked = @ \cup {x.ip : x \in listed'},
                   !.near = {p \in @ : Shares(p[1], p[2])'}]
Remembers(next) == job' = [r \in Requests |-> Seen(next[r])]

Becomes(r, j) == Remembers([job EXCEPT ![r] = j])

Begins(r, j) ==
    /\ job[r].pc = "idle" /\ ops < MaxOps /\ ops' = ops + 1
    /\ Becomes(r, j)

Ban(f) == [IdleJob EXCEPT !.pc = "ban", !.who = f.who, !.stack = <<f>>]

-----------------------------------------------------------------------------
\* Accounts come and go: login and paint note the address they come from.

Login(u, ip) ==
    /\ u \notin banned /\ last[u] # ip
    /\ ops < MaxOps /\ ops' = ops + 1
    /\ last' = [last EXCEPT ![u] = ip]
    /\ UNCHANGED <<banned, timedOut, listed, ticket, notices, unbans>>
    /\ Remembers(job)

\* A paint looks at the account in its route, which only refuses, and again in
\* its service, which bans a banned account once more; then at the address;
\* and the UPDATE of the charge at the account again.
AskPaint(r, u, ip) ==
    /\ u \notin banned \cup timedOut
    /\ UNCHANGED <<accounts, ticket, notices, unbans>>
    /\ Begins(r, [IdleJob EXCEPT !.pc = "account", !.who = u, !.ip = <<ip>>])

CheckAccount(r) ==
    LET j == job[r] IN
    /\ j.pc = "account"
    /\ UNCHANGED <<accounts, ticket, notices, unbans, ops>>
    /\ Becomes(r, IF j.who \in banned THEN Ban(Frame(j.who))
                  ELSE IF j.who \in timedOut THEN IdleJob ELSE [j EXCEPT !.pc = "address"])

CheckAddress(r) ==
    LET j == job[r]
        hit == \E x \in listed : x.ip = j.ip[1]
    IN
    /\ j.pc = "address"
    /\ UNCHANGED <<accounts, ticket, notices, unbans, ops>>
    /\ Becomes(r, IF ~hit THEN [j EXCEPT !.pc = "charge"]
                  ELSE IF BanOnBannedIp THEN Ban(Frame(j.who)) ELSE IdleJob)

Charge(r) ==
    LET j == job[r] IN
    /\ j.pc = "charge"
    /\ last' = IF j.who \notin banned \cup timedOut THEN [last EXCEPT ![j.who] = j.ip[1]] ELSE last
    /\ UNCHANGED <<banned, timedOut, listed, ticket, notices, unbans, ops>>
    /\ Becomes(r, IF j.who \in banned THEN Ban(Frame(j.who)) ELSE IdleJob)

-----------------------------------------------------------------------------
\* Reports and tickets

NewTicket(t, u, v) == [ticket EXCEPT ![t] = [state |-> "open", by |-> u, of |-> v]]

ReportUser ==
    \E t \in Tickets, u, v \in Users :
        /\ ticket[t] = Blank
        /\ ops < MaxOps /\ ops' = ops + 1
        /\ ticket' = NewTicket(t, u, v)
        /\ UNCHANGED <<accounts, notices, unbans>>
        /\ Remembers(job)

\* admin_ban_user and admin_timeout_user: a ticket, resolved at once.
AdminSanctions(r) ==
    \E t \in Tickets, u \in Admins, v \in Users, verdict \in {"ban", "timeout"} :
        /\ ticket[t] = Blank
        /\ ticket' = NewTicket(t, u, v)
        /\ UNCHANGED <<accounts, notices, unbans>>
        /\ Begins(r, [IdleJob EXCEPT !.pc = "resolve", !.who = u, !.ticket = t, !.verdict = verdict])

SetTicketStatus(r) ==
    \E t \in Tickets, u \in Moderators, verdict \in {"ban", "timeout", "ignore"} :
        /\ ticket[t] # Blank
        /\ UNCHANGED <<accounts, ticket, notices, unbans>>
        /\ Begins(r, [IdleJob EXCEPT !.pc = "resolve", !.who = u, !.ticket = t, !.verdict = verdict])

\* resolve: the ticket, the sanction, the notification.  A ticket that is
\* resolved already is resolved again.
Resolve(r) ==
    LET j == job[r]
        v == ticket[j.ticket].of
    IN
    /\ j.pc = "resolve"
    /\ ticket' = [ticket EXCEPT ![j.ticket].state = j.verdict]
    /\ UNCHANGED <<accounts, notices, unbans, ops>>
    /\ Becomes(r, CASE j.verdict = "ban" -> [j EXCEPT !.pc = "ban", !.stack = <<Frame(v)>>]
                    [] j.verdict = "timeout" -> [j EXCEPT !.pc = "timeout"]
                    [] OTHER -> IdleJob)

\* Mutant of Timeout: the reporter is notified whatever came of it.
TimeoutLater(r) ==
    /\ job[r].pc = "timeout"
    /\ UNCHANGED <<accounts, ticket, notices, unbans, ops>>
    /\ Becomes(r, [job[r] EXCEPT !.pc = "notify"])

Timeout(r) ==
    /\ job[r].pc = "timeout"
    /\ timedOut' = timedOut \cup {ticket[job[r].ticket].of}
    /\ UNCHANGED <<banned, last, listed, ticket, notices, unbans, ops>>
    /\ Becomes(r, [job[r] EXCEPT !.pc = "notify"])

Notify(r) ==
    LET j == job[r] IN
    /\ j.pc = "notify"
    /\ notices' = IF ticket[j.ticket].by # j.who THEN notices \cup {j.ticket} ELSE notices
    /\ UNCHANGED <<accounts, ticket, unbans, ops>>
    /\ Becomes(r, IdleJob)

RemoveTimeout(u) ==
    /\ ops < MaxOps /\ ops' = ops + 1
    /\ timedOut' = timedOut \ {u}
    /\ UNCHANGED <<banned, last, listed, ticket, notices, unbans>>
    /\ Remembers(job)

RemoveBan(r, u) ==
    /\ UNCHANGED <<accounts, ticket, notices, unbans>>
    /\ Begins(r, Ban([Frame(u) EXCEPT !.ban = FALSE]))

-----------------------------------------------------------------------------
\* ban_user

SelectAddresses(r) ==
    LET f == Top(r)
        ips == <<Registration[f.who], last[f.who]>>
        j == Replace(job[r], [f EXCEPT !.at = "update", !.ips = ips])
        root == Len(job[r].stack) = 1 /\ f.ban
        needs == {ips[1], ips[2]}
    IN
    /\ Pending(r, "select")
    /\ UNCHANGED <<accounts, ticket, notices, unbans, ops>>
    /\ Becomes(r, IF root THEN [j EXCEPT !.needs = needs,
                                         !.near = {p \in Users \X needs : Shares(p[1], p[2])}]
                  ELSE j)

UpdateBanned(r) ==
    LET f == Top(r)
        j == Replace(job[r], [f EXCEPT !.at = IF f.ban THEN "find" ELSE "unlist"])
    IN
    /\ Pending(r, "update")
    /\ banned' = IF f.ban THEN banned \cup {f.who} ELSE banned \ {f.who}
    /\ unbans' = IF f.ban THEN unbans ELSE unbans + 1
    /\ UNCHANGED <<timedOut, last, listed, ticket, notices, ops>>
    /\ Becomes(r, j)

Unlist(r) ==
    /\ Pending(r, "unlist")
    /\ listed' = {x \in listed : x.user # Top(r).who}
    /\ UNCHANGED <<banned, timedOut, last, ticket, notices, unbans, ops>>
    /\ Becomes(r, Return(job[r]))

FindAddress(r) ==
    LET f == Top(r)
        known == \E x \in listed : x.ip = Head(f.ips)
    IN
    /\ Pending(r, "find")
    /\ UNCHANGED <<accounts, ticket, notices, unbans, ops>>
    /\ Becomes(r, Replace(job[r], [f EXCEPT !.at = IF known THEN "share" ELSE "list"]))

ListAddress(r) ==
    LET f == Top(r) IN
    /\ Pending(r, "list")
    /\ listed' = listed \cup {[ip |-> Head(f.ips), user |-> f.who]}
    /\ UNCHANGED <<banned, timedOut, last, ticket, notices, unbans, ops>>
    /\ Becomes(r, Replace(job[r], [f EXCEPT !.at = "share"]))

\* Mutant of Sharing: accounts that are banned already are visited again.
SharingAll(f) == {u \in Users \ {f.who} : Shares(u, Head(f.ips))}
\* Mutant of Sharing: the registration address of the others is not looked at.
SharingLast(f) == {u \in Users \ ({f.who} \cup banned) : last[u] = Head(f.ips)}

Sharing(f) == {u \in Users \ ({f.who} \cup banned) : Shares(u, Head(f.ips))}

ShareAddress(r) ==
    LET f == Top(r) IN
    /\ Pending(r, "share")
    /\ UNCHANGED <<accounts, ticket, notices, unbans, ops>>
    /\ Becomes(r, Replace(job[r], [f EXCEPT !.at = "visit", !.ips = Tail(f.ips), !.todo = Sharing(f)]))

\* The next account that shares the address, the next address, or the end.
Visit(r) ==
    LET f == Top(r)
        j == job[r]
    IN
    /\ Pending(r, "visit")
    /\ UNCHANGED <<accounts, ticket, notices, unbans, ops>>
    /\ IF f.todo # {}
       THEN \E u \in f.todo :
              LET rest == Replace(j, [f EXCEPT !.todo = f.todo \ {u}]) IN
              Becomes(r, [rest EXCEPT !.stack = Append(rest.stack, Frame(u))])
       ELSE Becomes(r, IF f.ips # <<>> THEN Replace(j, [f EXCEPT !.at = "find"]) ELSE Return(j))

-----------------------------------------------------------------------------
\* A statement of ban_user fails: the caller of an inner call goes on, the
\* handler of the outermost one gives up.
BanFails(r) ==
    LET j == [job[r] EXCEPT !.failed = TRUE] IN
    /\ Failures
    /\ job[r].stack # <<>> /\ ~Pending(r, "visit")
    /\ UNCHANGED <<accounts, ticket, notices, unbans, ops>>
    /\ Becomes(r, IF Len(j.stack) = 1 THEN IdleJob ELSE Return(j))

\* A client hangs up, or a statement outside ban_user fails.
Abandon(r) ==
    /\ Failures
    /\ job[r].pc # "idle"
    /\ UNCHANGED <<accounts, ticket, notices, unbans, ops>>
    /\ Becomes(r, IdleJob)

Init ==
    /\ banned = {} /\ timedOut = {} /\ last = FirstLogin /\ listed = {}
    /\ ticket = [t \in Tickets |-> Blank] /\ job = [r \in Requests |-> IdleJob]
    /\ notices = {} /\ unbans = 0 /\ ops = 0

Step(r) ==
    \/ \E u \in Users, ip \in Addresses : AskPaint(r, u, ip)
    \/ CheckAccount(r) \/ CheckAddress(r) \/ Charge(r)
    \/ AdminSanctions(r) \/ SetTicketStatus(r) \/ Resolve(r) \/ Timeout(r) \/ Notify(r)
    \/ \E u \in Users : RemoveBan(r, u)
    \/ SelectAddresses(r) \/ UpdateBanned(r) \/ Unlist(r) \/ FindAddress(r)
    \/ ListAddress(r) \/ ShareAddress(r) \/ Visit(r)
    \/ BanFails(r) \/ Abandon(r)

Next ==
    \/ \E r \in Requests : Step(r)
    \/ \E u \in Users, ip \in Addresses : Login(u, ip)
    \/ \E u \in Users : RemoveTimeout(u)
    \/ ReportUser

Spec == Init /\ [][Next]_vars

-----------------------------------------------------------------------------
\* Types of the tables and the requests.
ModerationTypeOK ==
    /\ banned \subseteq Users /\ timedOut \subseteq Users /\ last \in [Users -> Addresses]
    /\ listed \subseteq [ip : Addresses, user : Users]
    /\ notices \subseteq Tickets
    /\ \A r \in Requests : job[r].stack # <<>> => job[r].pc = "ban"

\* A ban that runs to its end without an error has reached every account that
\* shared one and the same address with the banned one all the while, and has
\* listed the addresses, whatever other bans, unbans, logins and paints came
\* between.  (One that moves from one of the two addresses to the other may
\* escape.)
CascadeCovers ==
    [][\A r \in Requests :
          /\ job[r].pc = "ban" /\ job'[r].pc # "ban"
          /\ job[r].needs # {} /\ Len(job[r].stack) = 1 /\ Pending(r, "visit")
          /\ ~job[r].failed /\ Top(r).todo = {} /\ Top(r).ips = <<>>
          => {p[1] : p \in job[r].near} \subseteq job[r].reached /\ job[r].needs \subseteq job[r].blocked]_vars

\* The recursion visits an account again only if it was unbanned meanwhile, so
\* its depth is bounded by the number of accounts and unbans.
RecursionIsBounded == \A r \in Requests : Len(job[r].stack) <= Cardinality(Users) + unbans

\* Whoever reported is told that action was taken only after it was: the
\* account was banned at some moment of this request, or timed out.
NoticeFollowsAction ==
    [][\A r \in Requests :
          job[r].pc = "notify" /\ notices' # notices /\ job'[r].pc = "idle"
              => ticket[job[r].ticket].of \in job[r].reached]_vars

=============================================================================
