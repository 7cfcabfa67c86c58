------------------------------- MODULE Access -------------------------------
(***************************************************************************)
(* Who is logged in: the table sessions, the session cache in front of it  *)
(* (auth.rs), password reset tokens, and the requests that start, use and  *)
(* end sessions (routes/auth_routes.rs, routes/me.rs).                     *)
(*                                                                         *)
(* A request is a job with a program counter.  Each statement and each     *)
(* access to one of the two maps of SessionCache is a step; a transaction  *)
(* that only writes is one.                                                *)
(*                                                                         *)
(* Abstractions.  A login or a reset that is refused changes nothing and   *)
(* is no step: a login begins when its SELECT has found an active account  *)
(* with the password it was given.  The cookie expires together with the   *)
(* session, so an expired session is never asked about.  An entry of the   *)
(* cache is fresh until the TTL is over, then old.                         *)
(***************************************************************************)
EXTENDS Naturals, FiniteSets

CONSTANTS
    Users, Sessions, Tokens, Requests,
    Existing,       \* users with an active account at the start
    NoUser, NoSession, NoToken,
    MaxOps          \* bound: requests ever started

ASSUME AccessAssumption ==
    /\ Existing \subseteq Users /\ MaxOps \in Nat
    /\ NoUser \notin Users /\ NoSession \notin Sessions /\ NoToken \notin Tokens

VARIABLES
    account,    \* users: "absent", "active", "banned" or "deleted"
    admins,     \* users registered with the role admin
    owner,      \* the user of each session id ever given out
    sessions,   \* rows of the table sessions
    byId,       \* SessionCache.by_id: "none", "fresh" or "old"
    byUser,     \* SessionCache.by_user
    tokens,     \* rows of password_reset_tokens: token, user and age
    job,        \* what each request is doing
    cookies,    \* sessions whose cookie a client has
    ended,      \* history: sessions that were ended by somebody
    excused,    \* history: sessions cached by a validation that was overtaken
                \* by the end of the session, or whose remover was dropped
    spent,      \* history: tokens that have changed a password
    ops         \* requests started so far

cache == <<byId, byUser>>
rows == <<account, admins, owner, sessions, tokens>>
history == <<cookies, ended, excused, spent>>
vars == <<rows, cache, job, history, ops>>

IdleJob == [pc |-> "idle", op |-> "none", who |-> NoUser, sess |-> NoSession,
            tok |-> NoToken, first |-> FALSE, todo |-> {}]

Goes(r, pc) == job' = [job EXCEPT ![r].pc = pc]
Ended(r) == job' = [job EXCEPT ![r] = IdleJob]
Begins(r, j) ==
    /\ job[r].pc = "idle" /\ ops < MaxOps /\ ops' = ops + 1
    /\ job' = [job EXCEPT ![r] = j]

Given == {s \in Sessions : owner[s] # NoUser}
OwnedBy(u) == {s \in Sessions : owner[s] = u}
TokensOf(u) == {t \in tokens : t.user = u}
Issued == {t.id : t \in tokens} \cup spent \cup {job[r].tok : r \in Requests}

-----------------------------------------------------------------------------
\* login, register and start_session

AskLogin(r) ==
    /\ \E u \in Users : account[u] = "active" /\
          Begins(r, [IdleJob EXCEPT !.pc = "insert", !.op = "login", !.who = u])
    /\ UNCHANGED <<rows, cache, history>>

\* The name is free and the address is not banned; the SELECT counts users.
AskRegister(r) ==
    /\ Begins(r, [IdleJob EXCEPT !.pc = "create", !.op = "register",
                     !.first = \A u \in Users : account[u] = "absent"])
    /\ UNCHANGED <<rows, cache, history>>

CreateUser(r) ==
    /\ job[r].pc = "create"
    /\ \E u \in Users :
          /\ account[u] = "absent"
          /\ account' = [account EXCEPT ![u] = "active"]
          /\ admins' = IF job[r].first THEN admins \cup {u} ELSE admins
          /\ job' = [job EXCEPT ![r].pc = "insert", ![r].who = u]
    /\ UNCHANGED <<owner, sessions, tokens, cache, history, ops>>

InsertSession(r) ==
    /\ job[r].pc = "insert"
    /\ \E s \in Sessions \ Given :
          /\ owner' = [owner EXCEPT ![s] = job[r].who]
          /\ sessions' = sessions \cup {s}
          /\ job' = [job EXCEPT ![r].pc = "cache", ![r].sess = s]
    /\ UNCHANGED <<account, admins, tokens, cache, history, ops>>

-----------------------------------------------------------------------------
\* AuthUser and validate_cached_or_db, for requests that need a session

\* What an authenticated request does first.
Proceeds(j) ==
    CASE j.op = "logout" -> [j EXCEPT !.pc = "deleteOne"]
      [] j.op = "revoke" -> [j EXCEPT !.pc = "deleteAll"]
      [] j.op = "close" -> [j EXCEPT !.pc = "deleteAccount"]
      [] OTHER -> IdleJob

AskWithCookie(r) ==
    /\ \E s \in cookies, op \in {"view", "logout", "revoke", "close"} :
          LET j == [IdleJob EXCEPT !.op = op, !.who = owner[s], !.sess = s] IN
          Begins(r, IF byId[s] = "fresh" THEN Proceeds(j) ELSE [j EXCEPT !.pc = "select"])
    /\ UNCHANGED <<rows, cache, history>>

SelectSession(r) ==
    /\ job[r].pc = "select"
    /\ IF job[r].sess \in sessions THEN Goes(r, "cache") ELSE Ended(r)
    /\ UNCHANGED <<rows, cache, history, ops>>

\* SessionCache::insert, one map after the other.
CacheById(r) ==
    /\ job[r].pc = "cache"
    /\ byId' = [byId EXCEPT ![job[r].sess] = "fresh"]
    /\ Goes(r, "index")
    /\ UNCHANGED <<rows, byUser, history, ops>>

\* Mutant of CacheByUser: only a login indexes its session by user.
CacheByUserAtLogin(r) ==
    LET j == job[r] IN
    /\ j.pc = "index"
    /\ byUser' = IF j.op \in {"login", "register"}
                 THEN [byUser EXCEPT ![j.who] = @ \cup {j.sess}] ELSE byUser
    /\ excused' = IF j.sess \in ended THEN excused \cup {j.sess} ELSE excused
    /\ cookies' = IF j.op \in {"login", "register"} THEN cookies \cup {j.sess} ELSE cookies
    /\ job' = [job EXCEPT ![r] = Proceeds(j)]
    /\ UNCHANGED <<rows, byId, ended, spent, ops>>

CacheByUser(r) ==
    LET j == job[r] IN
    /\ j.pc = "index"
    /\ byUser' = [byUser EXCEPT ![j.who] = @ \cup {j.sess}]
    /\ excused' = IF j.sess \in ended THEN excused \cup {j.sess} ELSE excused
    /\ cookies' = IF j.op \in {"login", "register"} THEN cookies \cup {j.sess} ELSE cookies
    /\ job' = [job EXCEPT ![r] = Proceeds(j)]
    /\ UNCHANGED <<rows, byId, ended, spent, ops>>

-----------------------------------------------------------------------------
\* logout: the row, then SessionCache::remove

DeleteOne(r) ==
    /\ job[r].pc = "deleteOne"
    /\ sessions' = sessions \ {job[r].sess}
    /\ ended' = ended \cup {job[r].sess}
    /\ Goes(r, "uncache")
    /\ UNCHANGED <<account, admins, owner, tokens, cache, cookies, excused, spent, ops>>

Uncache(r) ==
    /\ job[r].pc = "uncache"
    /\ byId' = [byId EXCEPT ![job[r].sess] = "none"]
    /\ IF byId[job[r].sess] = "none" THEN Ended(r) ELSE Goes(r, "unindex")
    /\ UNCHANGED <<rows, byUser, history, ops>>

Unindex(r) ==
    /\ job[r].pc = "unindex"
    /\ byUser' = [byUser EXCEPT ![job[r].who] = @ \ {job[r].sess}]
    /\ Ended(r)
    /\ UNCHANGED <<rows, byId, history, ops>>

-----------------------------------------------------------------------------
\* delete_sessions, delete_account and the transaction of reset_password,
\* each followed by SessionCache::remove_all_for_user

EndsAll(r, u) ==
    /\ sessions' = sessions \ OwnedBy(u)
    /\ ended' = ended \cup OwnedBy(u)
    /\ Goes(r, "takeIndex")

DeleteAll(r) ==
    /\ job[r].pc = "deleteAll"
    /\ EndsAll(r, job[r].who)
    /\ UNCHANGED <<account, admins, owner, tokens, cache, cookies, excused, spent, ops>>

DeleteAccount(r) ==
    /\ job[r].pc = "deleteAccount"
    /\ EndsAll(r, job[r].who)
    /\ account' = [account EXCEPT ![job[r].who] = "deleted"]
    /\ UNCHANGED <<admins, owner, tokens, cache, cookies, excused, spent, ops>>

TakeIndex(r) ==
    LET u == job[r].who IN
    /\ job[r].pc = "takeIndex"
    /\ byUser' = [byUser EXCEPT ![u] = {}]
    /\ job' = [job EXCEPT ![r] = IF byUser[u] = {} THEN IdleJob
                                 ELSE [@ EXCEPT !.pc = "drain", !.todo = byUser[u]]]
    /\ UNCHANGED <<rows, byId, history, ops>>

Drain(r) ==
    LET j == job[r] IN
    /\ j.pc = "drain"
    /\ \E s \in j.todo :
          /\ byId' = [byId EXCEPT ![s] = "none"]
          /\ job' = [job EXCEPT ![r] = IF j.todo = {s} THEN IdleJob
                                       ELSE [j EXCEPT !.todo = j.todo \ {s}]]
    /\ UNCHANGED <<rows, byUser, history, ops>>

-----------------------------------------------------------------------------
\* request_password_reset: is there a recent token, DELETE, INSERT, send

AskForgot(r) ==
    /\ \E u \in Users : account[u] = "active" /\
          Begins(r, [IdleJob EXCEPT !.pc = "recent", !.op = "forgot", !.who = u])
    /\ UNCHANGED <<rows, cache, history>>

FindRecent(r) ==
    /\ job[r].pc = "recent"
    /\ IF \E t \in TokensOf(job[r].who) : t.age = "recent" THEN Ended(r) ELSE Goes(r, "dropTokens")
    /\ UNCHANGED <<rows, cache, history, ops>>

DropTokens(r) ==
    /\ job[r].pc = "dropTokens"
    /\ tokens' = tokens \ TokensOf(job[r].who)
    /\ Goes(r, "insertToken")
    /\ UNCHANGED <<account, admins, owner, sessions, cache, history, ops>>

InsertToken(r) ==
    /\ job[r].pc = "insertToken"
    /\ \E t \in Tokens \ Issued :
          tokens' = tokens \cup {[id |-> t, user |-> job[r].who, age |-> "recent"]}
    /\ Ended(r)
    /\ UNCHANGED <<account, admins, owner, sessions, cache, history, ops>>

\* reset_password: the token, the account, then one transaction

AskReset(r) ==
    /\ \E t \in tokens : t.age # "expired" /\
          Begins(r, [IdleJob EXCEPT !.pc = "checkUser", !.op = "reset", !.who = t.user,
                                    !.tok = t.id])
    /\ UNCHANGED <<rows, cache, history>>

CheckUser(r) ==
    /\ job[r].pc = "checkUser"
    /\ IF account[job[r].who] = "active" THEN Goes(r, "commitReset") ELSE Ended(r)
    /\ UNCHANGED <<rows, cache, history, ops>>

\* Mutant of CommitReset: the token stays until it expires.
CommitResetKeepsToken(r) ==
    LET j == job[r] IN
    /\ j.pc = "commitReset"
    /\ EndsAll(r, j.who)
    /\ spent' = spent \cup {j.tok}
    /\ UNCHANGED <<account, admins, owner, tokens, cache, cookies, excused, ops>>

CommitReset(r) ==
    LET j == job[r] IN
    /\ j.pc = "commitReset"
    /\ tokens' = {t \in tokens : t.id # j.tok}
    /\ spent' = spent \cup {j.tok}
    /\ EndsAll(r, j.who)
    /\ UNCHANGED <<account, admins, owner, cache, cookies, excused, ops>>

-----------------------------------------------------------------------------
\* A statement fails or a client hangs up.  A handler that is dropped while
\* its DELETE is on the way leaves the cache as it is.
AwaitPoints == {"insert", "create", "select", "cache", "deleteOne", "uncache", "deleteAll",
                "deleteAccount", "takeIndex", "recent", "dropTokens", "insertToken",
                "checkUser", "commitReset"}

Abandon(r) ==
    LET j == job[r] IN
    /\ j.pc \in AwaitPoints
    /\ excused' = CASE j.pc = "uncache" -> excused \cup {j.sess}
                    [] j.pc = "takeIndex" -> excused \cup (OwnedBy(j.who) \cap ended)
                    [] OTHER -> excused
    /\ Ended(r)
    /\ UNCHANGED <<rows, cache, cookies, ended, spent, ops>>

\* A moderator bans or unbans the account: its sessions are left alone.
Suspend(u) ==
    /\ account[u] \in {"active", "banned"}
    /\ account' = [account EXCEPT ![u] = IF @ = "active" THEN "banned" ELSE "active"]
    /\ UNCHANGED <<admins, owner, sessions, tokens, cache, job, history, ops>>

\* The TTL of an entry is over.
EntryAges(s) ==
    /\ byId[s] = "fresh"
    /\ byId' = [byId EXCEPT ![s] = "old"]
    /\ UNCHANGED <<rows, byUser, job, history, ops>>

TokenAges(t) ==
    /\ t.age # "expired"
    /\ tokens' = (tokens \ {t}) \cup {[t EXCEPT !.age = IF @ = "recent" THEN "valid" ELSE "expired"]}
    /\ UNCHANGED <<account, admins, owner, sessions, cache, job, history, ops>>

\* The process ends and starts again: sessions live on in their table.
Restart ==
    /\ byId' = [s \in Sessions |-> "none"] /\ byUser' = [u \in Users |-> {}]
    /\ job' = [r \in Requests |-> IdleJob]
    /\ UNCHANGED <<rows, history, ops>>

Init ==
    /\ account = [u \in Users |-> IF u \in Existing THEN "active" ELSE "absent"]
    /\ admins = Existing
    /\ owner = [s \in Sessions |-> NoUser] /\ sessions = {}
    /\ byId = [s \in Sessions |-> "none"] /\ byUser = [u \in Users |-> {}]
    /\ tokens = {} /\ job = [r \in Requests |-> IdleJob]
    /\ cookies = {} /\ ended = {} /\ excused = {} /\ spent = {} /\ ops = 0

Step(r) ==
    \/ AskLogin(r) \/ AskRegister(r) \/ CreateUser(r) \/ InsertSession(r)
    \/ AskWithCookie(r) \/ SelectSession(r) \/ CacheById(r) \/ CacheByUser(r)
    \/ DeleteOne(r) \/ Uncache(r) \/ Unindex(r)
    \/ DeleteAll(r) \/ DeleteAccount(r) \/ TakeIndex(r) \/ Drain(r)
    \/ AskForgot(r) \/ FindRecent(r) \/ DropTokens(r) \/ InsertToken(r)
    \/ AskReset(r) \/ CheckUser(r) \/ CommitReset(r) \/ Abandon(r)

Next ==
    \/ \E r \in Requests : Step(r)
    \/ \E u \in Users : Suspend(u)
    \/ \E s \in Sessions : EntryAges(s)
    \/ \E t \in tokens : TokenAges(t)
    \/ Restart

Spec == Init /\ [][Next]_vars

-----------------------------------------------------------------------------
\* Types of the tables, the cache and the requests.
AccessTypeOK ==
    /\ account \in [Users -> {"absent", "active", "banned", "deleted"}]
    /\ admins \subseteq Users /\ owner \in [Sessions -> Users \cup {NoUser}]
    /\ sessions \subseteq Sessions
    /\ byId \in [Sessions -> {"none", "fresh", "old"}] /\ byUser \in [Users -> SUBSET Sessions]
    /\ tokens \subseteq [id : Tokens, user : Users, age : {"recent", "valid", "expired"}]
    /\ job \in [Requests -> [pc : AwaitPoints \cup {"idle", "index", "unindex", "drain"},
                             op : {"none", "login", "register", "view", "logout", "revoke",
                                   "close", "forgot", "reset"},
                             who : Users \cup {NoUser}, sess : Sessions \cup {NoSession},
                             tok : Tokens \cup {NoToken}, first : BOOLEAN,
                             todo : SUBSET Sessions]]
    /\ cookies \subseteq Sessions /\ ended \subseteq Sessions /\ excused \subseteq Sessions
    /\ spent \subseteq Tokens \cup {NoToken} /\ ops \in Nat

\* A request is still going to take this session out of the cache.
BeingRemoved(s) ==
    \E r \in Requests :
        \/ job[r].pc = "uncache" /\ job[r].sess = s
        \/ job[r].pc = "takeIndex" /\ job[r].who = owner[s]
        \/ job[r].pc = "drain" /\ s \in job[r].todo

\* A session that somebody ended (logout, revocation, password reset, closed
\* account) has no row, and the cache does not vouch for it once its remover
\* is through, except for a validation that had read the row before and was
\* overtaken, or a remover whose client hung up: these last for one TTL.
EndedSessionsAreRefused ==
    \A s \in ended :
        /\ s \notin sessions
        /\ byId[s] = "fresh" => \/ s \in excused \/ BeingRemoved(s)
                                \/ \E r \in Requests : job[r].pc = "index" /\ job[r].sess = s

\* A token that has changed a password is good for no request that starts
\* later: only requests that had already read it may still use it.
SpentTokensAreDead ==
    [][\A r \in Requests : job[r].pc = "idle" /\ job'[r].op = "reset" => job'[r].tok \notin spent]_vars
=============================================================================
