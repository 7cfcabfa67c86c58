---------------------------- MODULE AccessProofs ----------------------------
(***************************************************************************)
(* Theorems about Access, for every value of its constants: any number of  *)
(* users, sessions, tokens and requests, under restarts and requests that  *)
(* are dropped half-way.                                                   *)
(***************************************************************************)
EXTENDS Access, TLAPS

JobType == [pc : AwaitPoints \cup {"idle", "index", "unindex", "drain"},
            op : {"none", "login", "register", "view", "logout", "revoke",
                  "close", "forgot", "reset"},
            who : Users \cup {NoUser}, sess : Sessions \cup {NoSession},
            tok : Tokens \cup {NoToken}, first : BOOLEAN, todo : SUBSET Sessions]
TokenType == [id : Tokens, user : Users, age : {"recent", "valid", "expired"}]

\* What a request holds at each point: a session and its owner, or a user.
WithSession == {"select", "cache", "index", "deleteOne", "uncache", "unindex"}
WithUser == {"insert", "deleteAll", "deleteAccount", "takeIndex", "drain", "recent",
             "dropTokens", "insertToken", "checkUser", "commitReset"}
Coherent(j) ==
    /\ j.pc \in WithSession => j.sess \in Given /\ owner[j.sess] = j.who
    /\ j.pc \in WithUser => j.who \in Users
    /\ j.pc \in {"uncache", "unindex"} => j.sess \in ended
    /\ j.pc \in {"checkUser", "commitReset"} => j.tok \in Tokens
    /\ j.pc = "idle" => j.op # "reset"
JobsCoherent == \A r \in Requests : Coherent(job[r])

OnlyGiven == sessions \subseteq Given /\ ended \subseteq Given /\ cookies \subseteq Given

BeingIndexed(s) == \E r \in Requests : job[r].pc = "index" /\ job[r].sess = s
BeingDrained(s) == \E r \in Requests : job[r].pc = "drain" /\ s \in job[r].todo

\* A fresh entry can be found by the user of its session: this is what lets
\* remove_all_for_user reach it.
FreshIsIndexed ==
    \A s \in Sessions : byId[s] = "fresh" =>
        /\ s \in Given
        /\ s \in excused \/ s \in byUser[owner[s]] \/ BeingIndexed(s) \/ BeingDrained(s)

\* The two steps of SessionCache::remove: what is fresh again in between was
\* inserted in between.
FreshAgainIsExcused ==
    \A r \in Requests : job[r].pc = "unindex" /\ byId[job[r].sess] = "fresh" =>
        job[r].sess \in excused \/ BeingIndexed(job[r].sess)

TokensUnspent == \A t \in tokens : t.id \notin spent

Inv == /\ AccessTypeOK /\ JobsCoherent /\ OnlyGiven /\ FreshIsIndexed /\ FreshAgainIsExcused
       /\ EndedSessionsAreRefused /\ TokensUnspent

USE DEF JobType, TokenType

LEMMA InitInv == Init => Inv
<1> SUFFICES ASSUME Init PROVE Inv
  OBVIOUS
<1> USE DEF Init
<1>1. \A r \in Requests : job[r] = IdleJob /\ IdleJob \in JobType
  BY DEF IdleJob, AwaitPoints
<1>2. AccessTypeOK
  BY <1>1, AccessAssumption DEF AccessTypeOK, AwaitPoints
<1>3. JobsCoherent /\ FreshAgainIsExcused
  BY <1>1 DEF JobsCoherent, Coherent, FreshAgainIsExcused, IdleJob, WithSession, WithUser
<1>4. OnlyGiven /\ FreshIsIndexed /\ EndedSessionsAreRefused /\ TokensUnspent
  BY DEF OnlyGiven, FreshIsIndexed, EndedSessionsAreRefused, TokensUnspent
<1>5. QED
  BY <1>2, <1>3, <1>4 DEF Inv

\* The step of one request leaves the others as they are.
LEMMA OthersStay ==
    ASSUME AccessTypeOK, NEW r \in Requests, NEW j \in JobType,
           job' = [job EXCEPT ![r] = j]
    PROVE  /\ job' \in [Requests -> JobType] /\ job'[r] = j
           /\ \A q \in Requests \ {r} : job'[q] = job[q]
BY DEF AccessTypeOK

LEMMA JobTypes == AccessTypeOK => \A r \in Requests : job[r] \in JobType
BY DEF AccessTypeOK

-----------------------------------------------------------------------------
\* Steps that neither touch the cache nor end a session.
LEMMA Undisturbed ==
    ASSUME Inv, NEW r \in Requests, NEW j \in JobType, job' = [job EXCEPT ![r] = j],
           Coherent(j)', j.pc # "unindex",
           job[r].pc \notin {"index", "uncache", "takeIndex", "drain"},
           account' \in [Users -> {"absent", "active", "banned", "deleted"}],
           admins' \subseteq Users, ops' \in Nat,
           tokens' \subseteq TokenType, \A t \in tokens' : t.id \notin spent,
           owner' \in [Sessions -> Users \cup {NoUser}],
           \A s \in Given : owner'[s] = owner[s],
           sessions' \subseteq Sessions,
           \A s \in sessions' \ sessions : s \notin Given /\ owner'[s] # NoUser,
           UNCHANGED <<cache, ended, excused, spent>>,
           cookies' \subseteq Given
    PROVE  Inv'
<1>1. /\ job' \in [Requests -> JobType] /\ job'[r] = j
      /\ \A q \in Requests \ {r} : job'[q] = job[q]
  BY OthersStay DEF Inv
<1>2. Given \subseteq Given' /\ Given' \subseteq Sessions
  BY AccessAssumption DEF Given, Inv, AccessTypeOK
<1>3. AccessTypeOK'
  BY <1>1, <1>2 DEF Inv, AccessTypeOK, cache
<1>4. JobsCoherent'
  BY <1>1, <1>2 DEF Inv, JobsCoherent, Coherent
<1>5. OnlyGiven'
  BY <1>2 DEF Inv, OnlyGiven, Given, AccessTypeOK
<1>6. \A s \in Sessions : /\ BeingIndexed(s) => BeingIndexed(s)'
                          /\ BeingDrained(s) => BeingDrained(s)'
  BY <1>1 DEF BeingIndexed, BeingDrained
<1>7. \A s \in Given : BeingRemoved(s) => BeingRemoved(s)'
  BY <1>1 DEF BeingRemoved
<1>8. FreshIsIndexed'
  BY <1>2, <1>6 DEF Inv, FreshIsIndexed, cache
<1>9. FreshAgainIsExcused'
  <2> SUFFICES ASSUME NEW q \in Requests, NEW s, s = job'[q].sess,
                      job'[q].pc = "unindex", byId[s] = "fresh"
               PROVE  s \in excused \/ BeingIndexed(s)'
    BY DEF FreshAgainIsExcused, cache, BeingIndexed
  <2>1. q # r /\ job'[q] = job[q]
    BY <1>1
  <2>2. s \in Sessions
    BY <2>1, <1>2 DEF Inv, JobsCoherent, Coherent, WithSession
  <2>3. QED
    BY <2>1, <2>2, <1>6 DEF Inv, FreshAgainIsExcused
<1>10. EndedSessionsAreRefused'
  <2> SUFFICES ASSUME NEW s \in ended
               PROVE  /\ s \notin sessions'
                      /\ byId[s] = "fresh" => s \in excused \/ BeingRemoved(s)' \/ BeingIndexed(s)'
    BY DEF EndedSessionsAreRefused, cache, BeingIndexed
  <2>1. s \in Given /\ s \in Sessions
    BY <1>2 DEF Inv, OnlyGiven
  <2>2. QED
    BY <2>1, <1>6, <1>7 DEF Inv, EndedSessionsAreRefused, BeingIndexed
<1>11. TokensUnspent'
  BY DEF TokensUnspent
<1>12. QED
  BY <1>3, <1>4, <1>5, <1>8, <1>9, <1>10, <1>11 DEF Inv

\* Steps that end sessions: their remover is under way.
LEMMA Ending ==
    ASSUME Inv, NEW r \in Requests, NEW S \in SUBSET Given,
           job[r].pc \in {"deleteOne", "deleteAll", "deleteAccount", "commitReset"},
           NEW p \in {"uncache", "takeIndex"}, job' = [job EXCEPT ![r].pc = p],
           p = "uncache" => S = {job[r].sess} /\ job[r].pc = "deleteOne",
           p = "takeIndex" => (\A s \in S : owner[s] = job[r].who) /\ job[r].pc # "deleteOne",
           account' \in [Users -> {"absent", "active", "banned", "deleted"}],
           tokens' \subseteq tokens, spent \subseteq spent', spent' \subseteq Tokens \cup {NoToken},
           \A t \in tokens' : t.id \notin spent',
           sessions' = sessions \ S, ended' = ended \cup S,
           UNCHANGED <<admins, owner, cache, cookies, excused, ops>>
    PROVE  Inv'
<1>0. job[r] \in JobType
  BY JobTypes DEF Inv
<1>a. PICK j : j = [job[r] EXCEPT !.pc = p]
  OBVIOUS
<1>1. j \in JobType /\ job' = [job EXCEPT ![r] = j]
  BY <1>0, <1>a DEF Inv, AccessTypeOK, AwaitPoints
<1>2. /\ j.pc = p /\ j.who = job[r].who /\ j.sess = job[r].sess
  BY <1>0, <1>a
<1>3. /\ job' \in [Requests -> JobType] /\ job'[r] = j
      /\ \A q \in Requests \ {r} : job'[q] = job[q]
  BY <1>1, OthersStay DEF Inv
<1>4. Given' = Given /\ Given \subseteq Sessions
  BY DEF Given
<1>5. AccessTypeOK'
  BY <1>3, <1>4 DEF Inv, AccessTypeOK, cache
<1>6. Coherent(job[r])
  BY DEF Inv, JobsCoherent
<1>7. JobsCoherent'
  <2>1. Coherent(j)'
    BY <1>2, <1>4, <1>6 DEF Coherent, WithSession, WithUser
  <2>2. QED
    BY <2>1, <1>3, <1>4 DEF Inv, JobsCoherent, Coherent
<1>8. OnlyGiven'
  BY <1>4 DEF Inv, OnlyGiven
<1>9. \A s \in Sessions : /\ BeingIndexed(s) => BeingIndexed(s)'
                          /\ BeingDrained(s) => BeingDrained(s)'
                          /\ BeingRemoved(s) => BeingRemoved(s)'
  BY <1>3 DEF BeingIndexed, BeingDrained, BeingRemoved
<1>10. \A s \in S : BeingRemoved(s)'
  BY <1>2, <1>3 DEF BeingRemoved
<1>11. FreshIsIndexed'
  BY <1>4, <1>9 DEF Inv, FreshIsIndexed, cache
<1>12. FreshAgainIsExcused'
  <2> SUFFICES ASSUME NEW q \in Requests, NEW s, s = job'[q].sess,
                      job'[q].pc = "unindex", byId[s] = "fresh"
               PROVE  s \in excused \/ BeingIndexed(s)'
    BY DEF FreshAgainIsExcused, cache, BeingIndexed
  <2>1. q # r /\ job'[q] = job[q]
    BY <1>2, <1>3
  <2>2. s \in Sessions
    BY <2>1, <1>4 DEF Inv, JobsCoherent, Coherent, WithSession
  <2>3. QED
    BY <2>1, <2>2, <1>9 DEF Inv, FreshAgainIsExcused
<1>13. EndedSessionsAreRefused'
  BY <1>4, <1>9, <1>10 DEF Inv, EndedSessionsAreRefused, cache, OnlyGiven, BeingIndexed
<1>14. TokensUnspent'
  BY DEF TokensUnspent
<1>15. QED
  BY <1>5, <1>7, <1>8, <1>11, <1>12, <1>13, <1>14 DEF Inv

-----------------------------------------------------------------------------
\* Steps that change a job only.
LEMMA Local ==
    ASSUME Inv, NEW r \in Requests, NEW j \in JobType, job' = [job EXCEPT ![r] = j],
           Coherent(j), j.pc # "unindex",
           job[r].pc \notin {"index", "uncache", "takeIndex", "drain"},
           UNCHANGED <<rows, cache, history>>, ops' \in Nat
    PROVE  Inv'
<1> USE DEF rows, history
<1>1. Coherent(j)'
  BY DEF Coherent, Given
<1>2. QED
  BY <1>1, Undisturbed DEF Inv, AccessTypeOK, OnlyGiven, TokensUnspent

LEMMA Types == Inv => /\ ops + 1 \in Nat /\ IdleJob \in JobType
                      /\ \A r \in Requests : job[r] \in JobType /\ Coherent(job[r])
BY JobTypes DEF Inv, AccessTypeOK, IdleJob, AwaitPoints, JobsCoherent

\* A request that is over holds nothing.
LEMMA EndedInv ==
    ASSUME Inv, NEW r \in Requests, Ended(r),
           job[r].pc \notin {"index", "uncache", "takeIndex", "drain"},
           UNCHANGED <<rows, cache, history>>, ops' \in Nat
    PROVE  Inv'
<1>1. Coherent(IdleJob) /\ IdleJob.pc # "unindex"
  BY DEF Coherent, IdleJob, WithSession, WithUser
<1>2. QED
  BY <1>1, Types, Local DEF Ended, IdleJob

LEMMA GoesInv ==
    ASSUME Inv, NEW r \in Requests, NEW p \in AwaitPoints \cup {"index"}, Goes(r, p),
           job[r].pc \notin {"index", "uncache", "takeIndex", "drain"},
           \/ p \in WithSession \ {"uncache", "unindex"} /\ job[r].pc \in WithSession
           \/ p \in WithUser \ {"checkUser", "commitReset"} /\ job[r].pc \in WithUser
           \/ p = "commitReset" /\ job[r].pc = "checkUser",
           UNCHANGED <<rows, cache, history>>, ops' \in Nat
    PROVE  Inv'
<1>1. job[r] \in JobType /\ Coherent(job[r])
  BY Types
<1>2. PICK j : j = [job[r] EXCEPT !.pc = p]
  OBVIOUS
<1>3. j \in JobType /\ job' = [job EXCEPT ![r] = j]
  BY <1>1, <1>2 DEF Goes, AwaitPoints
<1>4. j.pc = p /\ j.who = job[r].who /\ j.sess = job[r].sess /\ j.tok = job[r].tok
  BY <1>1, <1>2
<1>5. Coherent(j) /\ j.pc # "unindex"
  BY <1>1, <1>4 DEF Coherent, WithSession, WithUser, AwaitPoints
<1>6. QED
  BY <1>3, <1>5, Local

\* A request begins with what its arguments are.
LEMMA BeginsInv ==
    ASSUME Inv, NEW r \in Requests, NEW j \in JobType, Begins(r, j),
           Coherent(j), j.pc # "unindex", UNCHANGED <<rows, cache, history>>
    PROVE  Inv'
BY Types, Local DEF Begins

LEMMA AskInv ==
    ASSUME Inv, NEW r \in Requests,
           AskLogin(r) \/ AskRegister(r) \/ AskForgot(r) \/ AskReset(r)
    PROVE  Inv'
<1>1. UNCHANGED <<rows, cache, history>>
  BY DEF AskLogin, AskRegister, AskForgot, AskReset
<1>2. CASE AskLogin(r)
  <2>1. PICK u \in Users :
          Begins(r, [IdleJob EXCEPT !.pc = "insert", !.op = "login", !.who = u])
    BY <1>2 DEF AskLogin
  <2>2. PICK j : j = [IdleJob EXCEPT !.pc = "insert", !.op = "login", !.who = u]
    OBVIOUS
  <2>3. j \in JobType /\ Coherent(j) /\ j.pc # "unindex"
    BY <2>2, Types DEF IdleJob, AwaitPoints, Coherent, WithSession, WithUser
  <2>4. QED
    BY <1>1, <2>1, <2>2, <2>3, BeginsInv
<1>3. CASE AskForgot(r)
  <2>1. PICK u \in Users :
          Begins(r, [IdleJob EXCEPT !.pc = "recent", !.op = "forgot", !.who = u])
    BY <1>3 DEF AskForgot
  <2>2. PICK j : j = [IdleJob EXCEPT !.pc = "recent", !.op = "forgot", !.who = u]
    OBVIOUS
  <2>3. j \in JobType /\ Coherent(j) /\ j.pc # "unindex"
    BY <2>2, Types DEF IdleJob, AwaitPoints, Coherent, WithSession, WithUser
  <2>4. QED
    BY <1>1, <2>1, <2>2, <2>3, BeginsInv
<1>4. CASE AskRegister(r)
  <2>1. PICK b \in BOOLEAN :
          Begins(r, [IdleJob EXCEPT !.pc = "create", !.op = "register", !.first = b])
    BY <1>4 DEF AskRegister
  <2>2. PICK j : j = [IdleJob EXCEPT !.pc = "create", !.op = "register", !.first = b]
    OBVIOUS
  <2>3. j \in JobType /\ Coherent(j) /\ j.pc # "unindex"
    BY <2>2, Types DEF IdleJob, AwaitPoints, Coherent, WithSession, WithUser
  <2>4. QED
    BY <1>1, <2>1, <2>2, <2>3, BeginsInv
<1>5. CASE AskReset(r)
  <2>1. PICK t \in tokens :
          Begins(r, [IdleJob EXCEPT !.pc = "checkUser", !.op = "reset", !.who = t.user,
                                    !.tok = t.id])
    BY <1>5 DEF AskReset
  <2>2. PICK j : j = [IdleJob EXCEPT !.pc = "checkUser", !.op = "reset", !.who = t.user,
                                    !.tok = t.id]
    OBVIOUS
  <2>3. j \in JobType /\ Coherent(j) /\ j.pc # "unindex"
    BY <2>2, Types DEF IdleJob, AwaitPoints, Coherent, WithSession, WithUser, Inv, AccessTypeOK
  <2>4. QED
    BY <1>1, <2>1, <2>2, <2>3, BeginsInv
<1>6. QED
  BY <1>2, <1>3, <1>4, <1>5

\* What an authenticated request does first holds its session and its user.
LEMMA ProceedsCoherent ==
    ASSUME Inv, NEW j \in JobType, j.sess \in Given, owner[j.sess] = j.who, j.who \in Users
    PROVE  Proceeds(j) \in JobType /\ Coherent(Proceeds(j)) /\ Proceeds(j).pc \notin {"unindex", "drain"}
<1>1. CASE j.op = "logout"
  BY <1>1 DEF Proceeds, Coherent, WithSession, WithUser, AwaitPoints
<1>2. CASE j.op = "revoke"
  BY <1>2 DEF Proceeds, Coherent, WithSession, WithUser, AwaitPoints
<1>3. CASE j.op = "close"
  BY <1>3 DEF Proceeds, Coherent, WithSession, WithUser, AwaitPoints
<1>4. CASE j.op \notin {"logout", "revoke", "close"}
  BY <1>4, Types DEF Proceeds, Coherent, WithSession, WithUser, IdleJob
<1>5. QED
  BY <1>1, <1>2, <1>3, <1>4

LEMMA CookieInv ==
    ASSUME Inv, NEW r \in Requests, AskWithCookie(r)
    PROVE  Inv'
<1>1. PICK s \in cookies, op \in {"view", "logout", "revoke", "close"} :
        LET j == [IdleJob EXCEPT !.op = op, !.who = owner[s], !.sess = s] IN
        Begins(r, IF byId[s] = "fresh" THEN Proceeds(j) ELSE [j EXCEPT !.pc = "select"])
  BY DEF AskWithCookie
<1>2. s \in Given /\ s \in Sessions /\ owner[s] \in Users
  BY DEF Inv, OnlyGiven, Given, AccessTypeOK
<1>3. PICK i : i = [IdleJob EXCEPT !.op = op, !.who = owner[s], !.sess = s]
  OBVIOUS
<1>4. i \in JobType /\ i.sess = s /\ i.who = owner[s]
  BY <1>2, <1>3, Types DEF IdleJob
<1>5. PICK j : j = IF byId[s] = "fresh" THEN Proceeds(i) ELSE [i EXCEPT !.pc = "select"]
  OBVIOUS
<1>6. j \in JobType /\ Coherent(j) /\ j.pc # "unindex"
  <2>1. CASE byId[s] = "fresh"
    BY <2>1, <1>2, <1>4, <1>5, ProceedsCoherent
  <2>2. CASE byId[s] # "fresh"
    BY <2>2, <1>2, <1>4, <1>5 DEF Coherent, WithSession, WithUser, AwaitPoints
  <2>3. QED
    BY <2>1, <2>2
<1>7. Begins(r, j)
  BY <1>1, <1>3, <1>5
<1>8. QED
  BY <1>6, <1>7, BeginsInv DEF AskWithCookie

\* Statements that only look, and decide.
LEMMA LookInv ==
    ASSUME Inv, NEW r \in Requests, SelectSession(r) \/ FindRecent(r) \/ CheckUser(r)
    PROVE  Inv'
<1>1. UNCHANGED <<rows, cache, history>> /\ ops' \in Nat
  BY DEF SelectSession, FindRecent, CheckUser, Inv, AccessTypeOK
<1>2. CASE SelectSession(r)
  BY <1>1, <1>2, EndedInv, GoesInv DEF SelectSession, WithSession, AwaitPoints
<1>3. CASE FindRecent(r)
  BY <1>1, <1>3, EndedInv, GoesInv DEF FindRecent, WithUser, AwaitPoints
<1>4. CASE CheckUser(r)
  BY <1>1, <1>4, EndedInv, GoesInv DEF CheckUser, WithUser, AwaitPoints
<1>5. QED
  BY <1>2, <1>3, <1>4

-----------------------------------------------------------------------------
\* Rows that come.

LEMMA CreateInv ==
    ASSUME Inv, NEW r \in Requests, CreateUser(r)
    PROVE  Inv'
<1>1. PICK u \in Users :
        /\ account' = [account EXCEPT ![u] = "active"]
        /\ admins' = IF job[r].first THEN admins \cup {u} ELSE admins
        /\ job' = [job EXCEPT ![r].pc = "insert", ![r].who = u]
  BY DEF CreateUser
<1>2. PICK j : j = [job[r] EXCEPT !.pc = "insert", !.who = u]
  OBVIOUS
<1>3. job[r] \in JobType
  BY Types
<1>4. j \in JobType /\ job' = [job EXCEPT ![r] = j]
  BY <1>1, <1>2, <1>3 DEF AwaitPoints, Inv, AccessTypeOK
<1>5. Coherent(j)' /\ j.pc # "unindex"
  BY <1>2, <1>3 DEF Coherent, WithSession, WithUser
<1>6. UNCHANGED <<owner, sessions, tokens, cache, ended, excused, spent, cookies, ops>>
  BY DEF CreateUser, history
<1>7. /\ account' \in [Users -> {"absent", "active", "banned", "deleted"}]
      /\ admins' \subseteq Users /\ ops' \in Nat /\ tokens' \subseteq TokenType
      /\ \A t \in tokens' : t.id \notin spent
      /\ owner' \in [Sessions -> Users \cup {NoUser}] /\ sessions' \subseteq Sessions
      /\ cookies' \subseteq Given
  BY <1>1, <1>6 DEF Inv, AccessTypeOK, OnlyGiven, TokensUnspent
<1>8. job[r].pc = "create"
  BY DEF CreateUser
<1>9. QED
  BY <1>4, <1>5, <1>6, <1>7, <1>8, Undisturbed

LEMMA InsertInv ==
    ASSUME Inv, NEW r \in Requests, InsertSession(r)
    PROVE  Inv'
<1>1. PICK s \in Sessions \ Given :
        /\ owner' = [owner EXCEPT ![s] = job[r].who]
        /\ sessions' = sessions \cup {s}
        /\ job' = [job EXCEPT ![r].pc = "cache", ![r].sess = s]
  BY DEF InsertSession
<1>2. PICK j : j = [job[r] EXCEPT !.pc = "cache", !.sess = s]
  OBVIOUS
<1>3. job[r] \in JobType /\ job[r].who \in Users
  BY Types DEF InsertSession, Coherent, WithUser
<1>4. j \in JobType /\ job' = [job EXCEPT ![r] = j]
  BY <1>1, <1>2, <1>3 DEF AwaitPoints, Inv, AccessTypeOK
<1>5. /\ owner' \in [Sessions -> Users \cup {NoUser}] /\ owner'[s] = job[r].who
      /\ \A x \in Given : owner'[x] = owner[x]
      /\ owner'[s] # NoUser
  BY <1>1, <1>3, AccessAssumption DEF Inv, AccessTypeOK, Given
<1>6. Coherent(j)' /\ j.pc # "unindex"
  BY <1>2, <1>3, <1>5 DEF Coherent, WithSession, WithUser, Given
<1>7. UNCHANGED <<account, admins, tokens, cache, ended, excused, spent, cookies, ops>>
  BY DEF InsertSession, history
<1>8. /\ account' \in [Users -> {"absent", "active", "banned", "deleted"}]
      /\ admins' \subseteq Users /\ ops' \in Nat /\ tokens' \subseteq TokenType
      /\ \A t \in tokens' : t.id \notin spent
      /\ sessions' \subseteq Sessions /\ cookies' \subseteq Given
  BY <1>1, <1>7 DEF Inv, AccessTypeOK, OnlyGiven, TokensUnspent
<1>9. \A x \in sessions' \ sessions : x \notin Given /\ owner'[x] # NoUser
  BY <1>1, <1>5
<1>10. job[r].pc = "insert"
  BY DEF InsertSession
<1>11. QED
  BY <1>4, <1>5, <1>6, <1>7, <1>8, <1>9, <1>10, Undisturbed

LEMMA TokenInv ==
    ASSUME Inv, NEW r \in Requests, DropTokens(r) \/ InsertToken(r)
    PROVE  Inv'
<1>1. PICK j \in JobType : /\ job' = [job EXCEPT ![r] = j] /\ Coherent(j)
                           /\ j.pc # "unindex"
  <2>1. CASE DropTokens(r)
    <3>1. job[r] \in JobType /\ job[r].who \in Users
      BY <2>1, Types DEF DropTokens, Coherent, WithUser
    <3>2. PICK i : i = [job[r] EXCEPT !.pc = "insertToken"]
      OBVIOUS
    <3>3. i \in JobType /\ Coherent(i) /\ i.pc # "unindex"
      BY <3>1, <3>2 DEF Coherent, WithSession, WithUser, AwaitPoints
    <3>4. QED
      BY <2>1, <3>2, <3>3 DEF DropTokens, Goes
  <2>2. CASE InsertToken(r)
    <3>1. Coherent(IdleJob) /\ IdleJob.pc # "unindex"
      BY DEF Coherent, IdleJob, WithSession, WithUser
    <3>2. QED
      BY <2>2, <3>1, Types DEF InsertToken, Ended
  <2>3. QED
    BY <2>1, <2>2
<1>2. tokens' \subseteq TokenType /\ \A t \in tokens' : t.id \notin spent
  <2>1. CASE DropTokens(r)
    BY <2>1 DEF DropTokens, Inv, AccessTypeOK, TokensUnspent
  <2>2. CASE InsertToken(r)
    <3>1. job[r].who \in Users
      BY <2>2, Types DEF InsertToken, Coherent, WithUser
    <3>2. PICK k \in Tokens \ Issued :
            tokens' = tokens \cup {[id |-> k, user |-> job[r].who, age |-> "recent"]}
      BY <2>2 DEF InsertToken
    <3>3. k \notin spent
      BY DEF Issued
    <3>4. QED
      BY <3>1, <3>2, <3>3 DEF Inv, AccessTypeOK, TokensUnspent
  <2>3. QED
    BY <2>1, <2>2
<1>3. /\ UNCHANGED <<account, admins, owner, sessions, cache, history, ops>>
      /\ job[r].pc \in {"dropTokens", "insertToken"}
  BY DEF DropTokens, InsertToken
<1>4. Coherent(j)'
  BY <1>1, <1>3 DEF Coherent, Given, history
<1>5. QED
  BY <1>1, <1>2, <1>3, <1>4, Undisturbed DEF history, Inv, AccessTypeOK, OnlyGiven

-----------------------------------------------------------------------------
\* The cache.

LEMMA CacheByIdInv ==
    ASSUME Inv, NEW r \in Requests, CacheById(r)
    PROVE  Inv'
<1> USE DEF CacheById, Goes, rows, history
<1>1. job[r] \in JobType /\ Coherent(job[r]) /\ job[r].sess \in Given
  BY Types DEF Coherent, WithSession
<1>2. PICK j : j = [job[r] EXCEPT !.pc = "index"]
  OBVIOUS
<1>3. j \in JobType /\ job' = [job EXCEPT ![r] = j]
  BY <1>1, <1>2
<1>4. j.pc = "index" /\ j.sess = job[r].sess /\ j.who = job[r].who
  BY <1>1, <1>2
<1>5. /\ job' \in [Requests -> JobType] /\ job'[r] = j
      /\ \A q \in Requests \ {r} : job'[q] = job[q]
  BY <1>3, OthersStay DEF Inv
<1>6. Given' = Given /\ Given \subseteq Sessions
  BY DEF Given
<1>7. AccessTypeOK'
  BY <1>1, <1>5, <1>6 DEF Inv, AccessTypeOK
<1>8. JobsCoherent'
  <2>1. Coherent(j)'
    BY <1>1, <1>4, <1>6 DEF Coherent, WithSession, WithUser
  <2>2. QED
    BY <2>1, <1>5, <1>6 DEF Inv, JobsCoherent, Coherent
<1>9. OnlyGiven' /\ TokensUnspent'
  BY <1>6 DEF Inv, OnlyGiven, TokensUnspent
<1>10. /\ BeingIndexed(job[r].sess)'
       /\ \A s \in Sessions : s # job[r].sess => byId'[s] = byId[s]
       /\ \A s \in Sessions : /\ BeingIndexed(s) => BeingIndexed(s)'
                              /\ BeingDrained(s) => BeingDrained(s)'
                              /\ BeingRemoved(s) => BeingRemoved(s)'
  <2>1. \A s \in Sessions : BeingRemoved(s) => BeingRemoved(s)'
    BY <1>5 DEF BeingRemoved
  <2>2. QED
    BY <2>1, <1>4, <1>5 DEF BeingIndexed, BeingDrained, Inv, AccessTypeOK
<1>11. FreshIsIndexed'
  BY <1>1, <1>6, <1>10 DEF Inv, FreshIsIndexed
<1>12. FreshAgainIsExcused'
  <2> SUFFICES ASSUME NEW q \in Requests, NEW s, s = job'[q].sess,
                      job'[q].pc = "unindex", byId'[s] = "fresh"
               PROVE  s \in excused \/ BeingIndexed(s)'
    BY DEF FreshAgainIsExcused, BeingIndexed
  <2>1. q # r /\ job'[q] = job[q]
    BY <1>4, <1>5
  <2>2. s \in Sessions
    BY <2>1, <1>6 DEF Inv, JobsCoherent, Coherent, WithSession
  <2>3. QED
    BY <2>1, <2>2, <1>10 DEF Inv, FreshAgainIsExcused
<1>13. EndedSessionsAreRefused'
  BY <1>6, <1>10 DEF Inv, EndedSessionsAreRefused, OnlyGiven, BeingIndexed
<1>14. QED
  BY <1>7, <1>8, <1>9, <1>11, <1>12, <1>13 DEF Inv

LEMMA CacheByUserInv ==
    ASSUME Inv, NEW r \in Requests, CacheByUser(r)
    PROVE  Inv'
<1> USE DEF rows
<1>1. /\ job[r] \in JobType /\ job[r].pc = "index"
      /\ job[r].sess \in Given /\ owner[job[r].sess] = job[r].who /\ job[r].who \in Users
  BY Types DEF CacheByUser, Coherent, WithSession, Given, Inv, AccessTypeOK
<1>2. PICK j : j = Proceeds(job[r])
  OBVIOUS
<1>3. j \in JobType /\ Coherent(j) /\ j.pc \notin {"unindex", "drain"}
  BY <1>1, <1>2, ProceedsCoherent
<1>4. /\ job' \in [Requests -> JobType] /\ job'[r] = j
      /\ \A q \in Requests \ {r} : job'[q] = job[q]
  BY <1>2, <1>3, OthersStay DEF Inv, CacheByUser
<1>5. /\ byUser' = [byUser EXCEPT ![job[r].who] = @ \cup {job[r].sess}]
      /\ excused' = IF job[r].sess \in ended THEN excused \cup {job[r].sess} ELSE excused
      /\ cookies' \subseteq cookies \cup {job[r].sess}
      /\ UNCHANGED <<account, admins, owner, sessions, tokens, byId, ended, spent, ops>>
  BY DEF CacheByUser
<1>6. Given' = Given /\ Given \subseteq Sessions
  BY <1>5 DEF Given
<1>7. AccessTypeOK'
  BY <1>1, <1>4, <1>5, <1>6 DEF Inv, AccessTypeOK
<1>8. JobsCoherent'
  BY <1>3, <1>4, <1>5, <1>6 DEF Inv, JobsCoherent, Coherent
<1>9. OnlyGiven' /\ TokensUnspent'
  BY <1>1, <1>5, <1>6 DEF Inv, OnlyGiven, TokensUnspent
<1>10. \A s \in Sessions \ {job[r].sess} : BeingIndexed(s) => BeingIndexed(s)'
  BY <1>4 DEF BeingIndexed
<1>11. \A s \in Sessions : /\ BeingDrained(s) => BeingDrained(s)'
                           /\ BeingRemoved(s) => BeingRemoved(s)'
  <2>1. owner' = owner
    BY <1>5
  <2>2. QED
    BY <2>1, <1>1, <1>4 DEF BeingDrained, BeingRemoved
<1>12. /\ job[r].sess \in byUser'[owner[job[r].sess]]
       /\ \A u \in Users : byUser[u] \subseteq byUser'[u]
       /\ excused \subseteq excused'
       /\ job[r].sess \in ended => job[r].sess \in excused'
  BY <1>1, <1>5 DEF Inv, AccessTypeOK
<1>13. \A s \in Given : owner[s] \in Users
  BY DEF Given, Inv, AccessTypeOK
<1>14. FreshIsIndexed'
  BY <1>5, <1>6, <1>10, <1>11, <1>12, <1>13 DEF Inv, FreshIsIndexed
<1>15. FreshAgainIsExcused'
  <2> SUFFICES ASSUME NEW q \in Requests, NEW s, s = job'[q].sess,
                      job'[q].pc = "unindex", byId[s] = "fresh"
               PROVE  s \in excused' \/ BeingIndexed(s)'
    BY <1>5 DEF FreshAgainIsExcused, BeingIndexed
  <2>1. q # r /\ job'[q] = job[q]
    BY <1>3, <1>4
  <2>2. s \in Sessions /\ s \in ended
    BY <2>1, <1>6 DEF Inv, JobsCoherent, Coherent, WithSession
  <2>3. QED
    BY <2>1, <2>2, <1>10, <1>12 DEF Inv, FreshAgainIsExcused
<1>16. EndedSessionsAreRefused'
  <2> SUFFICES ASSUME NEW s \in ended
               PROVE  /\ s \notin sessions
                      /\ byId[s] = "fresh" => s \in excused' \/ BeingRemoved(s)' \/ BeingIndexed(s)'
    BY <1>5 DEF EndedSessionsAreRefused, BeingIndexed
  <2>1. s \in Sessions
    BY <1>6 DEF Inv, OnlyGiven
  <2>2. QED
    BY <2>1, <1>10, <1>11, <1>12 DEF Inv, EndedSessionsAreRefused, BeingIndexed
<1>17. QED
  BY <1>7, <1>8, <1>9, <1>14, <1>15, <1>16 DEF Inv

-----------------------------------------------------------------------------
\* The end of sessions.

LEMMA DeleteOneInv ==
    ASSUME Inv, NEW r \in Requests, DeleteOne(r)
    PROVE  Inv'
<1>1. job[r].sess \in Given
  BY Types DEF DeleteOne, Coherent, WithSession
<1>2. PICK S \in SUBSET Given : S = {job[r].sess}
  BY <1>1
<1>3. /\ job[r].pc = "deleteOne" /\ job' = [job EXCEPT ![r].pc = "uncache"]
      /\ sessions' = sessions \ S /\ ended' = ended \cup S
      /\ UNCHANGED <<account, admins, owner, tokens, cache, cookies, excused, spent, ops>>
  BY <1>2 DEF DeleteOne, Goes
<1>4. /\ account' \in [Users -> {"absent", "active", "banned", "deleted"}]
      /\ spent' \subseteq Tokens \cup {NoToken} /\ \A t \in tokens' : t.id \notin spent'
  BY <1>3 DEF Inv, AccessTypeOK, TokensUnspent
<1>5. QED
  BY <1>2, <1>3, <1>4, Ending

LEMMA DeleteManyInv ==
    ASSUME Inv, NEW r \in Requests, DeleteAll(r) \/ DeleteAccount(r) \/ CommitReset(r)
    PROVE  Inv'
<1>1. /\ job[r] \in JobType /\ job[r].who \in Users
      /\ job[r].pc \in {"deleteAll", "deleteAccount", "commitReset"}
      /\ EndsAll(r, job[r].who)
      /\ UNCHANGED <<admins, owner, cache, cookies, excused, ops>>
  BY Types DEF DeleteAll, DeleteAccount, CommitReset, Coherent, WithUser
<1>2. PICK S \in SUBSET Given : S = OwnedBy(job[r].who)
  BY <1>1, AccessAssumption DEF OwnedBy, Given
<1>3. /\ job' = [job EXCEPT ![r].pc = "takeIndex"]
      /\ sessions' = sessions \ S /\ ended' = ended \cup S
      /\ \A s \in S : owner[s] = job[r].who
  BY <1>1, <1>2 DEF EndsAll, Goes, OwnedBy
<1>4. account' \in [Users -> {"absent", "active", "banned", "deleted"}]
  BY <1>1 DEF Inv, AccessTypeOK, DeleteAll, DeleteAccount, CommitReset
<1>5. /\ tokens' \subseteq tokens /\ spent \subseteq spent'
      /\ spent' \subseteq Tokens \cup {NoToken} /\ \A t \in tokens' : t.id \notin spent'
  BY <1>1 DEF Inv, AccessTypeOK, TokensUnspent, DeleteAll, DeleteAccount, CommitReset
<1>6. QED
  BY <1>1, <1>2, <1>3, <1>4, <1>5, Ending

\* A remover that has taken an entry out, or was dropped: of the sessions it
\* was to remove, each is gone from the cache, excused, or drained next.
LEMMA Removing ==
    ASSUME Inv, NEW r \in Requests, NEW j \in JobType, job' = [job EXCEPT ![r] = j],
           job[r].pc \in {"uncache", "unindex", "takeIndex", "drain"}, Coherent(j),
           byId' \in [Sessions -> {"none", "fresh", "old"}],
           \A s \in Sessions : byId'[s] = "fresh" => byId[s] = "fresh",
           byUser' \in [Users -> SUBSET Sessions],
           \A s \in Given : byId'[s] = "fresh" /\ s \in byUser[owner[s]] =>
               s \in excused' \/ s \in byUser'[owner[s]] \/ BeingIndexed(s)'
                   \/ (j.pc = "drain" /\ s \in j.todo),
           job[r].pc = "drain" => \A s \in job[r].todo :
               byId'[s] = "fresh" => j.pc = "drain" /\ s \in j.todo,
           job[r].pc = "uncache" => byId'[job[r].sess] = "none" \/ job[r].sess \in excused',
           job[r].pc = "takeIndex" => \A s \in ended : owner[s] = job[r].who /\ byId'[s] = "fresh" =>
               s \in excused' \/ BeingIndexed(s)' \/ BeingDrained(s)',
           j.pc = "unindex" => byId'[j.sess] # "fresh",
           excused \subseteq excused', excused' \subseteq Sessions,
           UNCHANGED <<rows, cookies, ended, spent, ops>>
    PROVE  Inv'
<1> USE DEF rows
<1>1. /\ job' \in [Requests -> JobType] /\ job'[r] = j
      /\ \A q \in Requests \ {r} : job'[q] = job[q]
  BY OthersStay DEF Inv
<1>2. Given' = Given /\ Given \subseteq Sessions
  BY DEF Given
<1>3. AccessTypeOK'
  BY <1>1 DEF Inv, AccessTypeOK
<1>4. JobsCoherent'
  BY <1>1, <1>2 DEF Inv, JobsCoherent, Coherent
<1>5. OnlyGiven' /\ TokensUnspent'
  BY <1>2 DEF Inv, OnlyGiven, TokensUnspent
<1>6. \A s \in Sessions : BeingIndexed(s) => BeingIndexed(s)'
  BY <1>1 DEF BeingIndexed
<1>7. \A s \in Sessions : BeingDrained(s) /\ byId'[s] = "fresh" => BeingDrained(s)'
  BY <1>1 DEF BeingDrained
<1>8. \A s \in Sessions : /\ j.pc = "drain" /\ s \in j.todo => BeingDrained(s)'
                          /\ BeingDrained(s)' => BeingRemoved(s)'
  BY <1>1 DEF BeingDrained, BeingRemoved
<1>9. FreshIsIndexed'
  BY <1>2, <1>6, <1>7, <1>8 DEF Inv, FreshIsIndexed
<1>10. FreshAgainIsExcused'
  <2> SUFFICES ASSUME NEW q \in Requests, NEW s, s = job'[q].sess,
                      job'[q].pc = "unindex", byId'[s] = "fresh"
               PROVE  s \in excused' \/ BeingIndexed(s)'
    BY DEF FreshAgainIsExcused, BeingIndexed
  <2>1. q # r /\ job'[q] = job[q]
    BY <1>1
  <2>2. s \in Sessions
    BY <2>1, <1>2 DEF Inv, JobsCoherent, Coherent, WithSession
  <2>3. QED
    BY <2>1, <2>2, <1>6 DEF Inv, FreshAgainIsExcused
<1>11. EndedSessionsAreRefused'
  <2> SUFFICES ASSUME NEW s \in ended
               PROVE  /\ s \notin sessions
                      /\ byId'[s] = "fresh" => s \in excused' \/ BeingRemoved(s)' \/ BeingIndexed(s)'
    BY DEF EndedSessionsAreRefused, BeingIndexed
  <2>1. s \in Sessions
    BY <1>2 DEF Inv, OnlyGiven
  <2>2. ASSUME byId'[s] = "fresh" PROVE s \in excused' \/ BeingRemoved(s)' \/ BeingIndexed(s)'
    <3>1. s \in excused \/ BeingRemoved(s) \/ BeingIndexed(s)
      BY <2>1, <2>2 DEF Inv, EndedSessionsAreRefused, BeingIndexed
    <3>2. CASE BeingRemoved(s)
      <4>1. PICK q \in Requests :
              \/ job[q].pc = "uncache" /\ job[q].sess = s
              \/ job[q].pc = "takeIndex" /\ job[q].who = owner[s]
              \/ job[q].pc = "drain" /\ s \in job[q].todo
        BY <3>2 DEF BeingRemoved
      <4>2. CASE q # r
        BY <4>1, <4>2, <1>1 DEF BeingRemoved
      <4>3. CASE q = r
        BY <4>1, <4>3, <2>2, <1>8, <2>1
      <4>4. QED
        BY <4>2, <4>3
    <3>3. QED
      BY <3>1, <3>2, <2>1, <1>6
  <2>3. QED
    BY <2>2 DEF Inv, EndedSessionsAreRefused
<1>12. QED
  BY <1>3, <1>4, <1>5, <1>9, <1>10, <1>11 DEF Inv

LEMMA IdleCoherent == Inv => IdleJob \in JobType /\ Coherent(IdleJob) /\ IdleJob.pc = "idle"
BY Types DEF Coherent, IdleJob, WithSession, WithUser

LEMMA UncacheInv ==
    ASSUME Inv, NEW r \in Requests, Uncache(r)
    PROVE  Inv'
<1>1. /\ job[r].pc = "uncache" /\ byId' = [byId EXCEPT ![job[r].sess] = "none"]
      /\ UNCHANGED <<rows, byUser, history, ops>>
  BY DEF Uncache
<1>2. /\ job[r] \in JobType /\ Coherent(job[r]) /\ job[r].sess \in Sessions
  BY <1>1, Types DEF Coherent, WithSession, Given
<1>3. PICK j \in JobType : /\ job' = [job EXCEPT ![r] = j] /\ Coherent(j) /\ j.pc # "drain"
                           /\ j.pc = "unindex" => j.sess = job[r].sess
  <2>1. CASE Ended(r)
    BY <2>1, IdleCoherent DEF Ended
  <2>2. CASE Goes(r, "unindex")
    <3>1. PICK i : i = [job[r] EXCEPT !.pc = "unindex"]
      OBVIOUS
    <3>2. i \in JobType /\ Coherent(i) /\ i.pc = "unindex" /\ i.sess = job[r].sess
      BY <1>1, <1>2, <3>1 DEF Coherent, WithSession, WithUser
    <3>3. QED
      BY <2>2, <3>1, <3>2 DEF Goes
  <2>3. QED
    BY <2>1, <2>2 DEF Uncache
<1>4. /\ byId' \in [Sessions -> {"none", "fresh", "old"}] /\ byId'[job[r].sess] = "none"
      /\ \A s \in Sessions : byId'[s] = "fresh" => byId[s] = "fresh"
  BY <1>1, <1>2 DEF Inv, AccessTypeOK
<1>5. QED
  BY <1>1, <1>3, <1>4, Removing DEF Inv, AccessTypeOK, history

LEMMA UnindexInv ==
    ASSUME Inv, NEW r \in Requests, Unindex(r)
    PROVE  Inv'
<1>1. /\ job[r].pc = "unindex" /\ byUser' = [byUser EXCEPT ![job[r].who] = @ \ {job[r].sess}]
      /\ job' = [job EXCEPT ![r] = IdleJob]
      /\ UNCHANGED <<rows, byId, history, ops>>
  BY DEF Unindex, Ended
<1>2. /\ job[r].sess \in Given /\ owner[job[r].sess] = job[r].who /\ job[r].who \in Users
  BY <1>1, Types DEF Coherent, WithSession, Given, Inv, AccessTypeOK
<1>3. \A s \in Sessions : BeingIndexed(s) => BeingIndexed(s)'
  <2>1. \A q \in Requests \ {r} : job'[q] = job[q]
    BY <1>1 DEF Inv, AccessTypeOK
  <2>2. QED
    BY <1>1, <2>1 DEF BeingIndexed
<1>4. /\ byUser' \in [Users -> SUBSET Sessions]
      /\ \A s \in Given \ {job[r].sess} : s \in byUser[owner[s]] => s \in byUser'[owner[s]]
  BY <1>1, <1>2 DEF Inv, AccessTypeOK, Given
<1>5. byId[job[r].sess] = "fresh" => job[r].sess \in excused \/ BeingIndexed(job[r].sess)
  BY <1>1 DEF Inv, FreshAgainIsExcused
<1>6. \A s \in Given : byId[s] = "fresh" /\ s \in byUser[owner[s]] =>
        s \in excused \/ s \in byUser'[owner[s]] \/ BeingIndexed(s)'
  BY <1>3, <1>4, <1>5 DEF Given
<1>7. PICK j \in JobType : j = IdleJob
  BY IdleCoherent
<1>8. QED
  BY <1>1, <1>4, <1>6, <1>7, IdleCoherent, Removing DEF Inv, AccessTypeOK, history

LEMMA TakeIndexInv ==
    ASSUME Inv, NEW r \in Requests, TakeIndex(r)
    PROVE  Inv'
<1>1. /\ job[r].pc = "takeIndex" /\ byUser' = [byUser EXCEPT ![job[r].who] = {}]
      /\ UNCHANGED <<rows, byId, history, ops>>
  BY DEF TakeIndex
<1>2. /\ job[r] \in JobType /\ job[r].who \in Users
  BY <1>1, Types DEF Coherent, WithUser
<1>3. PICK j \in JobType : /\ job' = [job EXCEPT ![r] = j] /\ Coherent(j) /\ j.pc \in {"idle", "drain"}
                           /\ \A s \in byUser[job[r].who] : j.pc = "drain" /\ s \in j.todo
  <2>1. CASE byUser[job[r].who] = {}
    BY <2>1, IdleCoherent DEF TakeIndex
  <2>2. CASE byUser[job[r].who] # {}
    <3>1. PICK i : i = [job[r] EXCEPT !.pc = "drain", !.todo = byUser[job[r].who]]
      OBVIOUS
    <3>2. i \in JobType /\ Coherent(i) /\ i.pc = "drain" /\ i.todo = byUser[job[r].who]
      BY <1>2, <3>1 DEF Coherent, WithSession, WithUser, Inv, AccessTypeOK
    <3>3. QED
      BY <2>2, <3>1, <3>2 DEF TakeIndex
  <2>3. QED
    BY <2>1, <2>2
<1>4. /\ job'[r] = j /\ \A q \in Requests \ {r} : job'[q] = job[q]
  BY <1>3, OthersStay DEF Inv
<1>5. \A s \in Sessions : /\ BeingIndexed(s) => BeingIndexed(s)'
                          /\ BeingDrained(s) => BeingDrained(s)'
                          /\ s \in byUser[job[r].who] => BeingDrained(s)'
  BY <1>1, <1>3, <1>4 DEF BeingIndexed, BeingDrained
<1>6. /\ byUser' \in [Users -> SUBSET Sessions]
      /\ \A u \in Users \ {job[r].who} : byUser'[u] = byUser[u]
  BY <1>1, <1>2 DEF Inv, AccessTypeOK
<1>7. \A s \in Given : s \in byUser[owner[s]] =>
        s \in byUser'[owner[s]] \/ (j.pc = "drain" /\ s \in j.todo)
  <2>1. \A s \in Given : owner[s] \in Users
    BY DEF Given, Inv, AccessTypeOK
  <2>2. QED
    BY <2>1, <1>3, <1>6
<1>8. \A s \in ended : owner[s] = job[r].who /\ byId[s] = "fresh" =>
        s \in excused \/ BeingIndexed(s)' \/ BeingDrained(s)'
  BY <1>5 DEF Inv, FreshIsIndexed, AccessTypeOK
<1>9. QED
  BY <1>1, <1>3, <1>6, <1>7, <1>8, Removing DEF Inv, AccessTypeOK, history

LEMMA DrainInv ==
    ASSUME Inv, NEW r \in Requests, Drain(r)
    PROVE  Inv'
<1>1. PICK x \in job[r].todo :
        /\ byId' = [byId EXCEPT ![x] = "none"]
        /\ job' = [job EXCEPT ![r] = IF job[r].todo = {x} THEN IdleJob
                                     ELSE [job[r] EXCEPT !.todo = job[r].todo \ {x}]]
  BY DEF Drain
<1>2. job[r].pc = "drain" /\ UNCHANGED <<rows, byUser, history, ops>>
  BY DEF Drain
<1>3. job[r] \in JobType /\ Coherent(job[r]) /\ job[r].todo \subseteq Sessions
  BY Types
<1>4. PICK j : j = IF job[r].todo = {x} THEN IdleJob ELSE [job[r] EXCEPT !.todo = @ \ {x}]
  OBVIOUS
<1>5. /\ j \in JobType /\ Coherent(j) /\ j.pc # "unindex" /\ job' = [job EXCEPT ![r] = j]
      /\ \A s \in job[r].todo \ {x} : j.pc = "drain" /\ s \in j.todo
  <2>1. CASE job[r].todo = {x}
    BY <2>1, <1>1, <1>4, IdleCoherent DEF Inv, AccessTypeOK
  <2>2. CASE job[r].todo # {x}
    <3>1. j = [job[r] EXCEPT !.todo = @ \ {x}]
      BY <2>2, <1>4
    <3>2. /\ j \in JobType /\ j.pc = "drain" /\ j.who = job[r].who
          /\ j.todo = job[r].todo \ {x}
      BY <3>1, <1>2, <1>3
    <3>3. Coherent(j)
      BY <3>2, <1>2, <1>3 DEF Coherent, WithSession, WithUser
    <3>4. job' = [job EXCEPT ![r] = [job[r] EXCEPT !.todo = job[r].todo \ {x}]]
      BY <2>2, <1>1
    <3>5. job' = [job EXCEPT ![r] = j]
      BY <3>1, <3>4, Zenon
    <3>6. QED
      BY <3>2, <3>3, <3>5
  <2>3. QED
    BY <2>1, <2>2
<1>6. /\ byId' \in [Sessions -> {"none", "fresh", "old"}] /\ byId'[x] = "none"
      /\ \A s \in Sessions : byId'[s] = "fresh" => byId[s] = "fresh"
  BY <1>1, <1>3 DEF Inv, AccessTypeOK
<1>7. \A s \in job[r].todo : byId'[s] = "fresh" => j.pc = "drain" /\ s \in j.todo
  BY <1>5, <1>6
<1>8. QED
  BY <1>2, <1>5, <1>6, <1>7, Removing DEF Inv, AccessTypeOK, history

LEMMA AbandonInv ==
    ASSUME Inv, NEW r \in Requests, Abandon(r)
    PROVE  Inv'
<1>1. /\ job' = [job EXCEPT ![r] = IdleJob] /\ job[r].pc \in AwaitPoints
      /\ UNCHANGED <<rows, cache, cookies, ended, spent, ops>>
  BY DEF Abandon, Ended
<1>2. PICK j \in JobType : j = IdleJob
  BY IdleCoherent
<1>3. CASE job[r].pc \in {"uncache", "takeIndex"}
  <2>1. /\ excused' \subseteq Sessions /\ excused \subseteq excused'
        /\ job[r].pc = "uncache" => job[r].sess \in excused'
        /\ job[r].pc = "takeIndex" => \A s \in ended : owner[s] = job[r].who => s \in excused'
    <3>1. job[r].pc = "uncache" => job[r].sess \in Sessions
      BY Types DEF Coherent, WithSession, Given
    <3>2. CASE job[r].pc = "uncache"
      BY <3>1, <3>2 DEF Abandon, Inv, AccessTypeOK
    <3>3. CASE job[r].pc = "takeIndex"
      BY <3>3 DEF Abandon, Inv, AccessTypeOK, OwnedBy
    <3>4. QED
      BY <1>3, <3>2, <3>3
  <2>2. QED
    BY <1>1, <1>2, <1>3, <2>1, IdleCoherent, Removing DEF Inv, AccessTypeOK, cache
<1>4. CASE job[r].pc \notin {"uncache", "takeIndex"}
  <2>1. excused' = excused
    BY <1>4 DEF Abandon
  <2>2. QED
    BY <1>1, <1>4, <2>1, EndedInv DEF AwaitPoints, Ended, history, Inv, AccessTypeOK
<1>5. QED
  BY <1>3, <1>4

-----------------------------------------------------------------------------
\* Steps that no request takes.
LEMMA Calm ==
    ASSUME Inv, UNCHANGED <<admins, owner, sessions, byUser, job, history, ops>>,
           account' \in [Users -> {"absent", "active", "banned", "deleted"}],
           tokens' \subseteq TokenType, \A t \in tokens' : t.id \notin spent,
           byId' \in [Sessions -> {"none", "fresh", "old"}],
           \A s \in Sessions : byId'[s] = "fresh" => byId[s] = "fresh"
    PROVE  Inv'
<1> USE DEF history
<1>1. AccessTypeOK'
  BY DEF Inv, AccessTypeOK
<1>2. JobsCoherent' /\ OnlyGiven' /\ TokensUnspent'
  BY DEF Inv, JobsCoherent, Coherent, OnlyGiven, Given, TokensUnspent
<1>3. Given \subseteq Sessions /\ \A r \in Requests : Coherent(job[r])
  BY DEF Given, Inv, JobsCoherent
<1>4. FreshIsIndexed'
  BY DEF Inv, FreshIsIndexed, Given, BeingIndexed, BeingDrained
<1>5. FreshAgainIsExcused'
  BY <1>3 DEF Inv, FreshAgainIsExcused, BeingIndexed, Coherent, WithSession
<1>6. EndedSessionsAreRefused'
  BY <1>3 DEF Inv, EndedSessionsAreRefused, BeingRemoved, OnlyGiven
<1>7. QED
  BY <1>1, <1>2, <1>4, <1>5, <1>6 DEF Inv

LEMMA EnvInv ==
    ASSUME Inv, \/ \E u \in Users : Suspend(u)
                \/ \E s \in Sessions : EntryAges(s)
                \/ \E t \in tokens : TokenAges(t)
                \/ UNCHANGED vars
    PROVE  Inv'
<1> USE DEF Inv, AccessTypeOK, TokensUnspent
<1>1. CASE \E u \in Users : Suspend(u)
  BY <1>1, Calm DEF Suspend, cache
<1>2. CASE \E s \in Sessions : EntryAges(s)
  BY <1>2, Calm DEF EntryAges, rows
<1>3. CASE \E t \in tokens : TokenAges(t)
  <2>1. PICK t \in tokens :
          tokens' = (tokens \ {t})
                      \cup {[t EXCEPT !.age = IF @ = "recent" THEN "valid" ELSE "expired"]}
    BY <1>3 DEF TokenAges
  <2>2. PICK n : n = [t EXCEPT !.age = IF @ = "recent" THEN "valid" ELSE "expired"]
    OBVIOUS
  <2>3. n \in TokenType /\ n.id = t.id
    BY <2>2
  <2>4. tokens' \subseteq TokenType /\ \A k \in tokens' : k.id \notin spent
    BY <2>1, <2>2, <2>3
  <2>5. QED
    BY <1>3, <2>4, Calm DEF TokenAges, cache
<1>4. CASE UNCHANGED vars
  BY <1>4, Calm DEF vars, rows, cache
<1>5. QED
  BY <1>1, <1>2, <1>3, <1>4

\* An empty cache vouches for nothing.
LEMMA RestartInv ==
    ASSUME Inv, Restart
    PROVE  Inv'
<1>1. /\ \A s \in Sessions : byId'[s] = "none"
      /\ \A r \in Requests : job'[r] = IdleJob
      /\ IdleJob \in JobType /\ Coherent(IdleJob)' /\ IdleJob.pc = "idle"
  BY Types DEF Restart, Coherent, IdleJob, WithSession, WithUser
<1>2. UNCHANGED <<rows, history, ops>>
  BY DEF Restart
<1>3. AccessTypeOK'
  BY <1>1, <1>2 DEF Restart, Inv, AccessTypeOK, rows, history
<1>4. OnlyGiven' /\ TokensUnspent' /\ ended \subseteq Sessions
  BY <1>2 DEF Inv, OnlyGiven, TokensUnspent, Given, rows, history
<1>5. JobsCoherent' /\ FreshAgainIsExcused'
  BY <1>1 DEF JobsCoherent, FreshAgainIsExcused
<1>6. FreshIsIndexed'
  BY <1>1 DEF FreshIsIndexed
<1>7. EndedSessionsAreRefused'
  BY <1>1, <1>2, <1>4 DEF Inv, EndedSessionsAreRefused, rows, history
<1>8. QED
  BY <1>3, <1>4, <1>5, <1>6, <1>7 DEF Inv

LEMMA NextInv == Inv /\ [Next]_vars => Inv'
<1> SUFFICES ASSUME Inv, [Next]_vars PROVE Inv'
  OBVIOUS
<1>1. ASSUME NEW r \in Requests, Step(r) PROVE Inv'
  BY <1>1, AskInv, CookieInv, LookInv, CreateInv, InsertInv, TokenInv, CacheByIdInv,
     CacheByUserInv, DeleteOneInv, DeleteManyInv, UncacheInv, UnindexInv, TakeIndexInv,
     DrainInv, AbandonInv DEF Step
<1>2. QED
  BY <1>1, EnvInv, RestartInv DEF Next

-----------------------------------------------------------------------------
\* The types hold in every behaviour.
THEOREM AccessTypes == Spec => []AccessTypeOK
<1>1. Inv => AccessTypeOK
  BY DEF Inv
<1>2. QED
  BY <1>1, InitInv, NextInv, PTL DEF Spec

\* However many users, sessions and requests there are, a session that was
\* logged out, revoked, reset away or closed with its account has no row, and
\* is out of the cache as soon as its remover is through: the only exceptions
\* are validations that it overtook and removers that were dropped.
THEOREM EndedRefused == Spec => []EndedSessionsAreRefused
<1>1. Inv => EndedSessionsAreRefused
  BY DEF Inv
<1>2. QED
  BY <1>1, InitInv, NextInv, PTL DEF Spec

\* Of all steps only AskReset lets a reset begin, with a token in the table.
LEMMA ResetBegins ==
    Inv /\ [Next]_vars =>
        \A r \in Requests : job[r].pc = "idle" /\ job'[r].op = "reset" => job'[r].tok \notin spent
<1> SUFFICES ASSUME Inv, [Next]_vars, NEW r \in Requests,
                    job[r].pc = "idle", job'[r].op = "reset"
             PROVE  job'[r].tok \notin spent
  OBVIOUS
<1>1. job[r].op # "reset" /\ job'[r] # job[r]
  BY Types DEF Coherent
<1>2. CASE \E q \in Requests : Step(q)
  <2>1. Step(r)
    <3>1. PICK q \in Requests : Step(q)
      BY <1>2
    <3>2. \E j : job' = [job EXCEPT ![q] = j]
      BY <3>1 DEF Step, Begins, Goes, Ended, EndsAll, AskLogin, AskRegister, AskWithCookie,
         AskForgot, AskReset, SelectSession, CacheById, CacheByUser, DeleteOne, Uncache,
         Unindex, DeleteAll, DeleteAccount, TakeIndex, Drain, FindRecent, DropTokens,
         InsertToken, CheckUser, CommitReset, Abandon, CreateUser, InsertSession
    <3>3. q = r
      BY <3>2, <1>1 DEF Inv, AccessTypeOK
    <3>4. QED
      BY <3>1, <3>3
  <2>2. AskLogin(r) \/ AskRegister(r) \/ AskWithCookie(r) \/ AskForgot(r) \/ AskReset(r)
    BY <2>1 DEF Step, SelectSession, CacheById, CacheByUser, DeleteOne, Uncache,
       Unindex, DeleteAll, DeleteAccount, TakeIndex, Drain, FindRecent, DropTokens,
       InsertToken, CheckUser, CommitReset, Abandon, AwaitPoints, CreateUser, InsertSession
  <2>3. \A j : Begins(r, j) => job'[r] = j
    BY DEF Begins, Inv, AccessTypeOK
  <2>4. CASE AskLogin(r) \/ AskRegister(r) \/ AskForgot(r)
    BY <1>1, <2>3, <2>4 DEF AskLogin, AskRegister, AskForgot, IdleJob
  <2>5. CASE AskWithCookie(r)
    <3>1. PICK s \in cookies, op \in {"view", "logout", "revoke", "close"} :
            LET j == [IdleJob EXCEPT !.op = op, !.who = owner[s], !.sess = s] IN
            Begins(r, IF byId[s] = "fresh" THEN Proceeds(j) ELSE [j EXCEPT !.pc = "select"])
      BY <2>5 DEF AskWithCookie
    <3>2. PICK i : i = [IdleJob EXCEPT !.op = op, !.who = owner[s], !.sess = s]
      OBVIOUS
    <3>3. i.op = op /\ [i EXCEPT !.pc = "select"].op = op
      BY <3>2 DEF IdleJob
    <3>4. Proceeds(i).op # "reset"
      BY <3>2, <3>3 DEF Proceeds, IdleJob
    <3>5. job'[r] = Proceeds(i) \/ job'[r] = [i EXCEPT !.pc = "select"]
      BY <2>3, <3>1, <3>2
    <3>6. QED
      BY <3>3, <3>4, <3>5
  <2>6. CASE AskReset(r)
    <3>1. PICK t \in tokens :
            Begins(r, [IdleJob EXCEPT !.pc = "checkUser", !.op = "reset", !.who = t.user,
                                      !.tok = t.id])
      BY <2>6 DEF AskReset
    <3>2. job'[r].tok = t.id
      BY <2>3, <3>1 DEF IdleJob
    <3>3. QED
      BY <3>2 DEF Inv, TokensUnspent
  <2>7. QED
    BY <2>2, <2>4, <2>5, <2>6
<1>3. CASE ~ \E q \in Requests : Step(q)
  <2>1. job' = job \/ job'[r] = IdleJob
    BY <1>3 DEF Next, Suspend, EntryAges, TokenAges, Restart, vars
  <2>2. QED
    BY <2>1, <1>1 DEF IdleJob
<1>4. QED
  BY <1>2, <1>3

\* A reset never begins with a token that has changed a password before, in
\* whatever order forgotten passwords, resets and expiries come.
THEOREM SpentDead == Spec => SpentTokensAreDead
<1>1. Spec => []Inv
  BY InitInv, NextInv, PTL DEF Spec
<1>2. QED
  BY <1>1, ResetBegins, PTL DEF Spec, SpentTokensAreDead

=============================================================================
