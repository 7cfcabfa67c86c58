--------------------------- MODULE AllianceProofs ---------------------------
(***************************************************************************)
(* Proofs about Alliance, for any numbers of users, alliances and          *)
(* requests.                                                               *)
(***************************************************************************)
EXTENDS AllianceModes, FiniteSetTheorems, TLAPS

\* A copy of the row of user u, given who has ever administered what.
Known(u, s, A) ==
    /\ s \in Rows
    /\ s.role = "admin" /\ s.alliance # NoAlliance => <<u, s.alliance>> \in A

\* What a request holds at each point of its code; S are the alliances there.
Sound(j, A, S) ==
    /\ j \in Jobs
    /\ j.pc # "idle" => j.who \in Users /\ j.peer \in Users
    /\ j.pc = "fill" => Known(j.who, j.snap, A)
    /\ j.pc = "refill" => Known(j.peer, j.snap, A)
    /\ j.pc = "invite" => j.snap \in Rows
    /\ j.pc \in {"commit", "teardown"} => j.op = "ban" /\ j.alliance \in S
    /\ j.pc \in {"load", "fill"} => j.after = "idle"
    /\ j.pc = "issue" => j.op = "invite"
    /\ j.pc \in {"invite", "banned"} => j.op = "join"
    /\ j.pc \in {"count", "pick", "promote"} => j.op = "leave"
    /\ j.after = "leave" => j.op = "leave"
    /\ j.after = "self" => j.op = "ban"
    /\ j.op \in AdminOps /\ j.pc \notin {"idle", "load", "fill"} => <<j.who, j.alliance>> \in A
    /\ j.op = "join" => j.alliance \in Alliances

\* Every copy of a row, in the table, the cache or a request, is of the past.
CopiesArePast ==
    /\ Administered \subseteq admins
    /\ \A u \in Users : cache[u] = NoRow \/ Known(u, cache[u], admins)
    /\ \A r \in Requests : Sound(job[r], admins, alliances)

Inv == TypeOK /\ CopiesArePast /\ BansStopLaterJoins

-----------------------------------------------------------------------------
\* What every step of one request shares

LEMMA RowIsKnown ==
    ASSUME TypeOK, CopiesArePast, NEW u \in Users
    PROVE  Known(u, row[u], admins)
<1>1. row[u] \in Rows
  BY DEF TypeOK
<1>2. ASSUME row[u].role = "admin", row[u].alliance # NoAlliance
      PROVE  <<u, row[u].alliance>> \in admins
  <2>1. row[u].alliance \in Alliances /\ row[u] = AdminOf(row[u].alliance)
    BY <1>1, <1>2 DEF Rows, AdminOf
  <2>2. QED
    BY <2>1 DEF CopiesArePast, Administered
<1>3. QED
  BY <1>1, <1>2 DEF Known

LEMMA AdminsGrow ==
    ASSUME TypeOK, Remembers
    PROVE  /\ admins \subseteq admins' /\ Administered' \subseteq admins'
           /\ admins' \subseteq Users \X Alliances
BY DEF TypeOK, Remembers, Administered

\* What a request holds stays sound while administrators are only added and
\* the alliance of an open ban stays.
LEMMA SoundStays ==
    ASSUME NEW j, NEW A, NEW B, NEW S, NEW T, A \subseteq B, Sound(j, A, S),
           j.pc \in {"commit", "teardown"} => j.alliance \in T
    PROVE  Sound(j, B, T)
BY DEF Sound, Known

LEMMA Frame ==
    ASSUME Inv, Remembers, NEW r \in Requests, NEW k,
           job' = [job EXCEPT ![r] = k], Sound(k, admins', alliances'),
           k.op = "join" /\ k.pc = "write" => r \in spared \/ <<k.who, k.alliance>> \notin bans',
           row' \in [Users -> Rows],
           \A u \in Users : row'[u].alliance \in alliances' \cup {NoAlliance},
           alliances' \subseteq founded', founded' \subseteq Alliances,
           bans' \subseteq Users \X alliances', invites' \subseteq alliances',
           ops' \in Nat,
           cache' \in [Users -> Rows \cup {NoRow}],
           \A u \in Users : cache'[u] = NoRow \/ Known(u, cache'[u], admins'),
           \A q \in Requests \ {r} :
              job[q].pc \in {"commit", "teardown"} => job[q].alliance \in alliances'
    PROVE  Inv'
<1>1. /\ job \in [Requests -> Jobs] /\ spared \subseteq Requests
      /\ admins \subseteq admins' /\ Administered' \subseteq admins'
      /\ admins' \subseteq Users \X Alliances
  BY AdminsGrow DEF Inv, TypeOK
<1>2. k \in Jobs
  BY DEF Sound
<1>3. job'[r] = k /\ \A q \in Requests \ {r} : job'[q] = job[q]
  BY <1>1
<1>4. spared' = {q \in Requests :
                    /\ job'[q].op = "join"
                    /\ q \in spared \/ <<job'[q].who, job'[q].alliance>> \notin bans'}
  BY DEF Remembers
<1>5. TypeOK'
  BY <1>1, <1>2, <1>4 DEF TypeOK
<1>6. \A q \in Requests : Sound(job'[q], admins', alliances')
  <2>1. TAKE q \in Requests
  <2>2. CASE q = r
    BY <1>3, <2>2
  <2>3. CASE q # r
    <3>1. Sound(job[q], admins, alliances)
      BY DEF Inv, CopiesArePast
    <3>2. job[q].pc \in {"commit", "teardown"} => job[q].alliance \in alliances'
      BY <2>3
    <3>3. QED
      BY <1>1, <1>3, <2>3, <3>1, <3>2, SoundStays
  <2>4. QED
    BY <2>2, <2>3
<1>7. CopiesArePast'
  BY <1>1, <1>6 DEF CopiesArePast
<1>8. BansStopLaterJoins'
  <2>1. SUFFICES ASSUME NEW q \in Requests, job'[q].op = "join", job'[q].pc = "write"
                 PROVE  q \in spared'
    BY DEF BansStopLaterJoins
  <2>2. CASE q = r
    BY <1>3, <1>4, <2>1, <2>2
  <2>3. CASE q # r
    <3>1. q \in spared
      BY <1>3, <2>1, <2>3 DEF Inv, BansStopLaterJoins
    <3>2. QED
      BY <1>4, <2>1, <3>1
  <2>4. QED
    BY <2>2, <2>3
<1>9. QED
  BY <1>5, <1>7, <1>8 DEF Inv

\* A step that writes no table, and the cache only with what is known.
LEMMA QuietFrame ==
    ASSUME Inv, Remembers, UNCHANGED tables, NEW r \in Requests, NEW k,
           job' = [job EXCEPT ![r] = k], Sound(k, admins, alliances),
           k.op = "join" /\ k.pc = "write" => r \in spared \/ <<k.who, k.alliance>> \notin bans,
           ops' \in Nat,
           cache' \in [Users -> Rows \cup {NoRow}],
           \A u \in Users : cache'[u] = NoRow \/ Known(u, cache'[u], admins)
    PROVE  Inv'
<1>1. row' = row /\ alliances' = alliances /\ bans' = bans /\ invites' = invites
      /\ founded' = founded
  BY DEF tables
<1>2. admins \subseteq admins'
  BY AdminsGrow DEF Inv
<1>3. k.pc \in {"commit", "teardown"} => k.alliance \in alliances'
  BY <1>1 DEF Sound
<1>4. Sound(k, admins', alliances')
  BY <1>2, <1>3, SoundStays
<1>5. \A u \in Users : cache'[u] = NoRow \/ Known(u, cache'[u], admins')
  BY <1>2 DEF Known
<1>6. \A q \in Requests \ {r} :
         job[q].pc \in {"commit", "teardown"} => job[q].alliance \in alliances'
  BY <1>1 DEF Inv, CopiesArePast, Sound
<1>7. /\ row \in [Users -> Rows] /\ alliances \subseteq founded /\ founded \subseteq Alliances
      /\ bans \subseteq Users \X alliances /\ invites \subseteq alliances
      /\ \A u \in Users : row[u].alliance \in alliances \cup {NoAlliance}
  BY DEF Inv, TypeOK
<1>8. QED
  BY <1>1, <1>4, <1>5, <1>6, <1>7, Frame

\* A step that writes tables and not the cache.
LEMMA WriteFrame ==
    ASSUME Inv, Remembers, UNCHANGED <<cache, ops>>, NEW r \in Requests, NEW k,
           job' = [job EXCEPT ![r] = k], Sound(k, admins, alliances'),
           k.pc # "write",
           row' \in [Users -> Rows],
           \A u \in Users : row'[u].alliance \in alliances' \cup {NoAlliance},
           alliances' \subseteq founded', founded' \subseteq Alliances,
           bans' \subseteq Users \X alliances', invites' \subseteq alliances',
           \A q \in Requests \ {r} :
              job[q].pc \in {"commit", "teardown"} => job[q].alliance \in alliances'
    PROVE  Inv'
<1>1. admins \subseteq admins'
  BY AdminsGrow DEF Inv
<1>2. k.pc \in {"commit", "teardown"} => k.alliance \in alliances'
  BY DEF Sound
<1>3. Sound(k, admins', alliances')
  BY <1>1, <1>2, SoundStays
<1>4. /\ ops' \in Nat /\ cache' \in [Users -> Rows \cup {NoRow}]
      /\ \A u \in Users : cache'[u] = NoRow \/ Known(u, cache'[u], admins')
  BY <1>1 DEF Inv, TypeOK, CopiesArePast, Known
<1>5. QED
  BY <1>3, <1>4, Frame

LEMMA IdleIsSound == ASSUME NEW A, NEW S PROVE Sound(IdleJob, A, S)
BY DEF Sound, IdleJob, Jobs, Pcs, AdminOps

\* What is decided on a row that was once the user's.
LEMMA DecidedIsSound ==
    ASSUME NEW A, NEW S, NEW j \in Jobs, NEW s, j.who \in Users, j.peer \in Users,
           j.after = "idle", j.op = "join" => j.alliance \in Alliances,
           Known(j.who, s, A)
    PROVE  /\ Sound(Decided(j, s), A, S)
           /\ Decided(j, s).op = "join" => Decided(j, s).pc # "write"
<1> DEFINE d == Decided(j, s)
<1>1. CASE j.op = "create" /\ s.alliance = NoAlliance
  <2>1. d = [j EXCEPT !.pc = "write"]
    BY <1>1 DEF Decided, AdminOps
  <2>2. QED
    BY <1>1, <2>1 DEF Sound, Jobs, Pcs, AdminOps
<1>2. CASE j.op = "join"
  <2>1. d = [j EXCEPT !.pc = "invite", !.snap = s]
    BY <1>2 DEF Decided, AdminOps
  <2>2. QED
    BY <1>2, <2>1 DEF Sound, Jobs, Pcs, AdminOps, Known
<1>3. CASE j.op = "leave" /\ s.alliance # NoAlliance
  <2>1. d = [j EXCEPT !.pc = IF s.role = "admin" THEN "count" ELSE "write",
                      !.alliance = s.alliance]
    BY <1>3 DEF Decided, AdminOps
  <2>2. QED
    BY <1>3, <2>1 DEF Sound, Jobs, Pcs, AdminOps, Known, Rows
<1>4. CASE j.op \in AdminOps /\ IsAdmin(s)
  <2>1. d = [j EXCEPT !.pc = "write", !.alliance = s.alliance]
    BY <1>4 DEF Decided, AdminOps
  <2>2. <<j.who, s.alliance>> \in A /\ s.alliance \in Alliances
    BY <1>4 DEF Known, IsAdmin, Rows
  <2>3. QED
    BY <1>4, <2>1, <2>2 DEF Sound, Jobs, Pcs, AdminOps
<1>5. CASE /\ ~(j.op = "create" /\ s.alliance = NoAlliance) /\ j.op # "join"
           /\ ~(j.op = "leave" /\ s.alliance # NoAlliance)
           /\ ~(j.op \in AdminOps /\ IsAdmin(s))
  <2>1. d = IdleJob
    BY <1>5 DEF Decided
  <2>2. QED
    BY <2>1, IdleIsSound DEF IdleJob
<1>6. QED
  BY <1>1, <1>2, <1>3, <1>4, <1>5

\* A request whose job is in hand.
LEMMA JobInHand ==
    ASSUME Inv, NEW r \in Requests
    PROVE  /\ job \in [Requests -> Jobs] /\ job[r] \in Jobs
           /\ Sound(job[r], admins, alliances)
           /\ TypeOK /\ CopiesArePast
BY DEF Inv, TypeOK, CopiesArePast

-----------------------------------------------------------------------------
\* One lemma per group of actions

LEMMA AskStep ==
    ASSUME Inv, NEW r \in Requests, NEW op, NEW u \in Users, NEW v \in Users,
           NEW a \in Alliances \cup {NoAlliance}, Ask(r, op, u, v, a),
           op \in AdminOps \cup {"create", "join", "leave", "view"},
           op = "join" => a \in Alliances
    PROVE  Inv'
<1> DEFINE j == [IdleJob EXCEPT !.op = op, !.who = u, !.peer = v, !.alliance = a]
           k == IF cache[u] # NoRow THEN Decided(j, cache[u]) ELSE [j EXCEPT !.pc = "load"]
<1>1. /\ j \in Jobs /\ j.who = u /\ j.peer = v /\ j.after = "idle" /\ j.op = op
      /\ j.alliance = a
  BY DEF IdleJob, Jobs, Pcs
<1>2. Sound(k, admins, alliances) /\ (k.op = "join" => k.pc # "write")
  <2>1. CASE cache[u] # NoRow
    <3>1. Known(j.who, cache[u], admins)
      BY <1>1, <2>1 DEF Inv, CopiesArePast
    <3>2. QED
      BY <1>1, <2>1, <3>1, DecidedIsSound
  <2>2. CASE cache[u] = NoRow
    <3>1. k = [j EXCEPT !.pc = "load"]
      BY <2>2
    <3>2. k \in Jobs /\ k.pc = "load" /\ k.op = op /\ k.alliance = a
          /\ k.who = u /\ k.peer = v /\ k.after = "idle"
      BY <1>1, <3>1 DEF Jobs, Pcs
    <3>3. QED
      BY <3>2 DEF Sound
  <2>3. QED
    BY <2>1, <2>2
<1>3. job' = [job EXCEPT ![r] = k] /\ UNCHANGED <<tables, cache>> /\ Remembers /\ ops' \in Nat
  BY DEF Ask, Inv, TypeOK
<1>4. cache' \in [Users -> Rows \cup {NoRow}]
      /\ \A w \in Users : cache'[w] = NoRow \/ Known(w, cache'[w], admins)
  BY <1>3 DEF Inv, TypeOK, CopiesArePast
<1> HIDE DEF j, k
<1>5. QED
  BY <1>2, <1>3, <1>4, QuietFrame

LEMMA AskSteps ==
    ASSUME Inv, NEW r \in Requests, AskOwn(r) \/ AskOther(r) \/ AskJoin(r)
    PROVE  Inv'
<1>1. CASE AskOwn(r)
  BY <1>1, AskStep DEF AskOwn, AdminOps
<1>2. CASE AskOther(r)
  BY <1>2, AskStep DEF AskOther, AdminOps
<1>3. CASE AskJoin(r)
  BY <1>3, AskStep DEF AskJoin
<1>4. QED
  BY <1>1, <1>2, <1>3

\* The cache of a step that leaves it alone.
LEMMA CacheStays ==
    ASSUME Inv, UNCHANGED <<cache, ops>>
    PROVE  /\ ops' \in Nat /\ cache' \in [Users -> Rows \cup {NoRow}]
           /\ \A w \in Users : cache'[w] = NoRow \/ Known(w, cache'[w], admins)
BY DEF Inv, TypeOK, CopiesArePast

LEMMA LoadStep ==
    ASSUME Inv, NEW r \in Requests, Load(r)
    PROVE  Inv'
<1> DEFINE k == [job[r] EXCEPT !.pc = "fill", !.snap = row[job[r].who]]
<1>1. Sound(job[r], admins, alliances) /\ job[r] \in Jobs /\ job[r].pc = "load"
  BY JobInHand DEF Load
<1>2. Known(job[r].who, row[job[r].who], admins)
  BY <1>1, JobInHand, RowIsKnown DEF Sound
<1>3. Sound(k, admins, alliances) /\ k.pc = "fill"
  BY <1>1, <1>2 DEF Sound, Jobs, Pcs, AdminOps, Known
<1>4. job' = [job EXCEPT ![r] = k] /\ UNCHANGED <<tables, cache, ops>> /\ Remembers
  BY JobInHand DEF Load
<1> HIDE DEF k
<1>5. QED
  BY <1>3, <1>4, CacheStays, QuietFrame

LEMMA FillStep ==
    ASSUME Inv, NEW r \in Requests, Fill(r)
    PROVE  Inv'
<1> DEFINE j == [job[r] EXCEPT !.snap = NoRow]
           k == Decided(j, job[r].snap)
<1>1. Sound(job[r], admins, alliances) /\ job[r] \in Jobs /\ job[r].pc = "fill"
  BY JobInHand DEF Fill
<1>2. Known(job[r].who, job[r].snap, admins) /\ job[r].who \in Users /\ job[r].peer \in Users
  BY <1>1 DEF Sound
<1>3. job[r].after = "idle"
  BY <1>1 DEF Sound, Jobs
<1>4. /\ j \in Jobs /\ j.who = job[r].who /\ j.peer = job[r].peer /\ j.after = job[r].after
      /\ j.op = job[r].op /\ j.alliance = job[r].alliance
  BY <1>1 DEF Jobs
<1>5. Sound(k, admins, alliances) /\ (k.op = "join" => k.pc # "write")
  <2>1. j.op = "join" => j.alliance \in Alliances
    BY <1>1, <1>4 DEF Sound
  <2>2. j.who \in Users /\ j.peer \in Users /\ Known(j.who, job[r].snap, admins)
    BY <1>2, <1>4
  <2>3. QED
    BY <1>3, <1>4, <2>1, <2>2, DecidedIsSound
<1>6. /\ job' = [job EXCEPT ![r] = k] /\ UNCHANGED <<tables, ops>> /\ Remembers
      /\ cache' = [cache EXCEPT ![job[r].who] = job[r].snap]
  BY DEF Fill
<1>7. /\ ops' \in Nat /\ cache' \in [Users -> Rows \cup {NoRow}]
      /\ \A w \in Users : cache'[w] = NoRow \/ Known(w, cache'[w], admins)
  BY <1>2, <1>6 DEF Inv, TypeOK, CopiesArePast, Known
<1> HIDE DEF j, k
<1>8. QED
  BY <1>5, <1>6, <1>7, QuietFrame

-----------------------------------------------------------------------------
\* Where a handler goes next

Refreshed(j, u, next) ==
    [j EXCEPT !.pc = "reload", !.peer = u, !.after = next, !.snap = NoRow]

LEMMA RefreshedIsSound ==
    ASSUME Inv, NEW r \in Requests, NEW u \in Users, NEW next \in {"idle", "leave", "self"},
           Refreshes(r, u, next), job[r].pc \notin {"idle", "load", "fill"},
           next = "leave" => job[r].op = "leave", next = "self" => job[r].op = "ban",
           NEW S
    PROVE  /\ job' = [job EXCEPT ![r] = Refreshed(job[r], u, next)]
           /\ Sound(Refreshed(job[r], u, next), admins, S)
           /\ Refreshed(job[r], u, next).pc = "reload"
<1> DEFINE k == Refreshed(job[r], u, next)
<1>1. Sound(job[r], admins, alliances) /\ job[r] \in Jobs /\ job \in [Requests -> Jobs]
  BY JobInHand
<1>2. k \in Jobs /\ k.pc = "reload" /\ k.peer = u /\ k.after = next
      /\ k.op = job[r].op /\ k.who = job[r].who /\ k.alliance = job[r].alliance
<2>1. k = [job[r] EXCEPT !.pc = "reload", !.peer = u, !.after = next, !.snap = NoRow]
  BY DEF Refreshed
<2> HIDE DEF k
<2>2. k \in Jobs
  BY <1>1, <2>1 DEF Jobs, Pcs
<2>3. QED
  BY <1>1, <2>1, <2>2 DEF Jobs
<1>3. job' = [job EXCEPT ![r] = k]
  BY <1>1 DEF Refreshes, Refreshed
<1> HIDE DEF k
<1>4. Sound(k, admins, S)
  BY <1>1, <1>2 DEF Sound
<1>5. QED
  BY <1>2, <1>3, <1>4 DEF k

\* A handler that ends without writing anything.
LEMMA EndedStep ==
    ASSUME Inv, NEW r \in Requests, Ended(r), UNCHANGED <<tables, cache, ops>>, Remembers
    PROVE  Inv'
<1>1. IdleJob.op # "join"
  BY DEF IdleJob
<1>2. QED
  BY <1>1, IdleIsSound, CacheStays, QuietFrame DEF Ended

\* A handler that goes on without writing anything.
LEMMA GoesStep ==
    ASSUME Inv, NEW r \in Requests, NEW pc \in Pcs, Goes(r, pc),
           UNCHANGED <<tables, cache, ops>>, Remembers,
           Sound([job[r] EXCEPT !.pc = pc], admins, alliances),
           job[r].op = "join" /\ pc = "write"
               => <<job[r].who, job[r].alliance>> \notin bans
    PROVE  Inv'
<1> DEFINE k == [job[r] EXCEPT !.pc = pc]
<1>1. k.op = job[r].op /\ k.who = job[r].who /\ k.alliance = job[r].alliance /\ k.pc = pc
  BY JobInHand DEF Jobs
<1>2. job' = [job EXCEPT ![r] = k] /\ Sound(k, admins, alliances)
  BY DEF Goes
<1> HIDE DEF k
<1>3. QED
  BY <1>1, <1>2, CacheStays, QuietFrame

-----------------------------------------------------------------------------

LEMMA ReloadStep ==
    ASSUME Inv, NEW r \in Requests, Reload(r)
    PROVE  Inv'
<1> DEFINE k == [job[r] EXCEPT !.pc = "refill", !.snap = row[job[r].peer]]
<1>1. Sound(job[r], admins, alliances) /\ job[r] \in Jobs /\ job[r].pc = "reload"
  BY JobInHand DEF Reload
<1>2. Known(job[r].peer, row[job[r].peer], admins)
  BY <1>1, JobInHand, RowIsKnown DEF Sound
<1>3. Sound(k, admins, alliances) /\ k.pc = "refill"
  BY <1>1, <1>2 DEF Sound, Jobs, Pcs, AdminOps, Known
<1>4. job' = [job EXCEPT ![r] = k] /\ UNCHANGED <<tables, cache, ops>> /\ Remembers
  BY JobInHand DEF Reload
<1> HIDE DEF k
<1>5. QED
  BY <1>3, <1>4, CacheStays, QuietFrame

LEMMA ContinueStep ==
    ASSUME Inv, NEW r \in Requests, Continues(r), job[r].pc \in {"reload", "refill"},
           UNCHANGED <<tables, ops>>, Remembers,
           cache' \in [Users -> Rows \cup {NoRow}],
           \A w \in Users : cache'[w] = NoRow \/ Known(w, cache'[w], admins)
    PROVE  Inv'
<1>1. Sound(job[r], admins, alliances) /\ job[r] \in Jobs
  BY JobInHand
<1>2. job[r].who \in Users
  BY <1>1 DEF Sound
<1>3. ops' \in Nat
  BY DEF Inv, TypeOK
<1>5. CASE job[r].after = "leave"
  <2> DEFINE k == [job[r] EXCEPT !.pc = "write", !.snap = NoRow]
  <2>1. job[r].op = "leave"
    BY <1>1, <1>5 DEF Sound
  <2>2. Sound(k, admins, alliances) /\ k.op # "join"
    BY <1>1, <2>1 DEF Sound, Jobs, Pcs, AdminOps
  <2>3. job' = [job EXCEPT ![r] = k]
    BY <1>5, JobInHand DEF Continues
  <2> HIDE DEF k
  <2>4. QED
    BY <1>3, <2>2, <2>3, QuietFrame
<1>6. CASE job[r].after = "self"
  <2> DEFINE k == Refreshed(job[r], job[r].who, "idle")
  <2>1. Refreshes(r, job[r].who, "idle")
    BY <1>6 DEF Continues
  <2>2. job' = [job EXCEPT ![r] = k] /\ Sound(k, admins, alliances) /\ k.pc = "reload"
    BY <1>1, <1>2, <2>1, RefreshedIsSound
  <2> HIDE DEF k
  <2>3. QED
    BY <1>3, <2>2, QuietFrame
<1>7. CASE job[r].after \notin {"leave", "self"}
  <2>1. job' = [job EXCEPT ![r] = IdleJob]
    BY <1>7 DEF Continues, Ended
  <2>2. IdleJob.op # "join"
    BY DEF IdleJob
  <2>3. QED
    BY <1>3, <2>1, <2>2, IdleIsSound, QuietFrame
<1>8. QED
  BY <1>5, <1>6, <1>7

LEMMA RefillStep ==
    ASSUME Inv, NEW r \in Requests, Refill(r)
    PROVE  Inv'
<1>1. Sound(job[r], admins, alliances) /\ job[r].pc = "refill"
  BY JobInHand DEF Refill
<1>2. Known(job[r].peer, job[r].snap, admins) /\ job[r].peer \in Users
  BY <1>1 DEF Sound
<1>3. /\ cache' = [cache EXCEPT ![job[r].peer] = job[r].snap]
      /\ UNCHANGED <<tables, ops>> /\ Remembers /\ Continues(r)
  BY DEF Refill
<1>4. /\ cache' \in [Users -> Rows \cup {NoRow}]
      /\ \A w \in Users : cache'[w] = NoRow \/ Known(w, cache'[w], admins)
  BY <1>2, <1>3 DEF Inv, TypeOK, CopiesArePast, Known
<1>5. QED
  BY <1>1, <1>3, <1>4, ContinueStep

LEMMA ReloadFailsStep ==
    ASSUME Inv, NEW r \in Requests, ReloadFails(r)
    PROVE  Inv'
BY CacheStays, ContinueStep DEF ReloadFails

\* The steps that read one table and decide.
LEMMA ReadSteps ==
    ASSUME Inv, NEW r \in Requests,
           \/ Edit(r) \/ FindInvite(r) \/ JoinByInvite(r) \/ CheckBan(r)
           \/ CountAdmins(r) \/ PickHeir(r) \/ Kick(r) \/ Abandon(r)
    PROVE  Inv'
<1>1. Sound(job[r], admins, alliances) /\ job[r] \in Jobs
  BY JobInHand
<1>2. CASE Edit(r) \/ Abandon(r)
  BY <1>2, EndedStep DEF Edit, Abandon
<1>3. CASE FindInvite(r)
  <2>1. Sound([job[r] EXCEPT !.pc = "issue"], admins, alliances)
    BY <1>1, <1>3 DEF FindInvite, Sound, Jobs, Pcs, AdminOps
  <2>2. QED
    BY <1>3, <2>1, EndedStep, GoesStep DEF FindInvite, Pcs
<1>4. CASE JoinByInvite(r)
  <2> DEFINE k == [job[r] EXCEPT !.pc = "banned", !.snap = NoRow]
  <2>1. Sound(k, admins, alliances) /\ k.pc # "write"
    BY <1>1, <1>4 DEF JoinByInvite, Sound, Jobs, Pcs, AdminOps
  <2>2. UNCHANGED <<tables, cache, ops>> /\ Remembers
        /\ (Ended(r) \/ job' = [job EXCEPT ![r] = k])
    BY <1>4, JobInHand DEF JoinByInvite
  <2> HIDE DEF k
  <2>3. QED
    BY <2>1, <2>2, EndedStep, CacheStays, QuietFrame
<1>5. CASE CheckBan(r)
  <2>1. Sound([job[r] EXCEPT !.pc = "write"], admins, alliances)
    BY <1>1, <1>5 DEF CheckBan, Sound, Jobs, Pcs, AdminOps
  <2>2. QED
    BY <1>5, <2>1, EndedStep, GoesStep DEF CheckBan, Pcs
<1>6. CASE CountAdmins(r)
  <2>1. job[r].op = "leave"
    BY <1>1, <1>6 DEF CountAdmins, Sound
  <2>2. \A pc \in {"pick", "write"} : Sound([job[r] EXCEPT !.pc = pc], admins, alliances)
    BY <1>1, <1>6, <2>1 DEF CountAdmins, Sound, Jobs, Pcs, AdminOps
  <2>3. (Goes(r, "pick") \/ Goes(r, "write")) /\ UNCHANGED <<tables, cache, ops>> /\ Remembers
    BY <1>6 DEF CountAdmins
  <2>4. QED
    BY <2>1, <2>2, <2>3, GoesStep DEF Pcs
<1>7. CASE PickHeir(r)
  <2>1. job[r].op = "leave" /\ UNCHANGED <<tables, cache, ops>> /\ Remembers
    BY <1>1, <1>7 DEF PickHeir, Sound
  <2>2. CASE Goes(r, "write")
    <3>1. Sound([job[r] EXCEPT !.pc = "write"], admins, alliances)
      BY <1>1, <1>7, <2>1 DEF PickHeir, Sound, Jobs, Pcs, AdminOps
    <3>2. QED
      BY <2>1, <2>2, <3>1, GoesStep DEF Pcs
  <2>3. ASSUME NEW v \in Users, job' = [job EXCEPT ![r].pc = "promote", ![r].peer = v]
        PROVE  Inv'
    <3> DEFINE k == [job[r] EXCEPT !.pc = "promote", !.peer = v]
    <3>1. Sound(k, admins, alliances) /\ k.pc # "write"
      BY <1>1, <1>7, <2>1 DEF PickHeir, Sound, Jobs, Pcs, AdminOps
    <3>2. job' = [job EXCEPT ![r] = k]
      BY <2>3, JobInHand
    <3> HIDE DEF k
    <3>3. QED
      BY <2>1, <3>1, <3>2, CacheStays, QuietFrame
  <2>4. QED
    BY <1>7, <2>2, <2>3 DEF PickHeir, Members
<1>8. CASE Kick(r)
  <2>1. job[r].alliance \in alliances => \A pc \in {"teardown", "commit"} :
           Sound([job[r] EXCEPT !.pc = pc], admins, alliances)
    BY <1>1, <1>8 DEF Kick, Sound, Jobs, Pcs, AdminOps
  <2>2. \/ Ended(r)
        \/ job[r].alliance \in alliances /\ (Goes(r, "teardown") \/ Goes(r, "commit"))
    BY <1>8 DEF Kick
  <2>3. UNCHANGED <<tables, cache, ops>> /\ Remembers /\ job[r].op = "ban"
    BY <1>8 DEF Kick
  <2>4. QED
    BY <2>1, <2>2, <2>3, EndedStep, GoesStep DEF Pcs
<1>9. QED
  BY <1>2, <1>3, <1>4, <1>5, <1>6, <1>7, <1>8

-----------------------------------------------------------------------------
\* The steps that write a table

\* The alliance of an open ban, when none is deleted.
LEMMA BansStayOpen ==
    ASSUME Inv, alliances \subseteq alliances', NEW r \in Requests
    PROVE  \A q \in Requests \ {r} :
              job[q].pc \in {"commit", "teardown"} => job[q].alliance \in alliances'
BY DEF Inv, CopiesArePast, Sound

\* The row of one user is written, and then the handler refreshes an entry.
LEMMA RowStep ==
    ASSUME Inv, NEW r \in Requests, NEW u \in Users, NEW s \in Rows,
           row' = [row EXCEPT ![u] = s], s.alliance \in alliances' \cup {NoAlliance},
           UNCHANGED <<invites, cache, ops>>, Remembers,
           alliances \subseteq alliances', alliances' \subseteq founded', founded' \subseteq Alliances,
           bans' \subseteq Users \X alliances',
           NEW v \in Users, NEW next \in {"idle", "leave", "self"}, Refreshes(r, v, next),
           job[r].pc \notin {"idle", "load", "fill"},
           next = "leave" => job[r].op = "leave", next = "self" => job[r].op = "ban"
    PROVE  Inv'
<1> DEFINE k == Refreshed(job[r], v, next)
<1>1. /\ job' = [job EXCEPT ![r] = k] /\ k.pc = "reload"
      /\ \A S : Sound(k, admins, S)
  BY RefreshedIsSound
<1>2. /\ row' \in [Users -> Rows] /\ invites' \subseteq alliances'
      /\ \A w \in Users : row'[w].alliance \in alliances' \cup {NoAlliance}
  BY DEF Inv, TypeOK
<1>3. \A q \in Requests \ {r} :
         job[q].pc \in {"commit", "teardown"} => job[q].alliance \in alliances'
  BY BansStayOpen
<1> HIDE DEF k
<1>4. QED
  BY <1>1, <1>2, <1>3, WriteFrame

LEMMA CreateStep ==
    ASSUME Inv, NEW r \in Requests, Create(r)
    PROVE  Inv'
<1>1. PICK a \in Alliances \ founded :
         /\ founded' = founded \cup {a} /\ alliances' = alliances \cup {a}
         /\ row' = [row EXCEPT ![job[r].who] = AdminOf(a)]
  BY DEF Create
<1>2. job[r].who \in Users /\ job[r].pc = "write"
  BY JobInHand DEF Create, Sound
<1>3. AdminOf(a) \in Rows /\ AdminOf(a).alliance = a
  BY DEF AdminOf, Rows
<1>4. /\ alliances \subseteq alliances' /\ alliances' \subseteq founded' /\ founded' \subseteq Alliances
      /\ bans' \subseteq Users \X alliances'
  BY <1>1 DEF Create, Inv, TypeOK
<1>5. Refreshes(r, job[r].who, "idle") /\ UNCHANGED <<invites, cache, ops>> /\ Remembers
  BY DEF Create
<1>6. QED
  BY <1>1, <1>2, <1>3, <1>4, <1>5, RowStep

\* The steps after which the alliances are the same.
LEMMA MemberSteps ==
    ASSUME Inv, NEW r \in Requests,
           Join(r) \/ Promote(r) \/ Leave(r) \/ GiveAdmin(r) \/ CommitBan(r)
    PROVE  Inv'
<1>1. /\ Sound(job[r], admins, alliances) /\ job[r] \in Jobs
      /\ row \in [Users -> Rows] /\ alliances \subseteq founded /\ founded \subseteq Alliances
      /\ bans \subseteq Users \X alliances
      /\ \A u \in Users : row[u].alliance \in alliances \cup {NoAlliance}
  BY JobInHand DEF TypeOK
<1>2. job[r].pc # "idle" /\ job[r].who \in Users /\ job[r].peer \in Users
  BY <1>1 DEF Join, Promote, Leave, GiveAdmin, CommitBan, Sound
<1>3. Outside \in Rows /\ Outside.alliance = NoAlliance
  BY DEF Outside, Rows
<1>4. CASE Join(r)
  <2>1. CASE job[r].alliance \in alliances
    <3>1. MemberOf(job[r].alliance) \in Rows /\ MemberOf(job[r].alliance).alliance \in alliances
      BY <1>1, <2>1 DEF MemberOf, Rows
    <3>2. /\ row' = [row EXCEPT ![job[r].who] = MemberOf(job[r].alliance)]
          /\ Refreshes(r, job[r].who, "idle") /\ job[r].pc = "write" /\ Remembers
          /\ UNCHANGED <<alliances, bans, invites, founded, cache, ops>>
      BY <1>4, <2>1 DEF Join
    <3>3. QED
      BY <1>1, <1>2, <3>1, <3>2, RowStep
  <2>2. CASE job[r].alliance \notin alliances
    BY <1>4, <2>2, EndedStep DEF Join, tables
  <2>3. QED
    BY <2>1, <2>2
<1>5. CASE Promote(r)
  <2> DEFINE v == job[r].peer
             s == [row[v] EXCEPT !.role = "admin"]
  <2>1. s \in Rows /\ s.alliance \in alliances \cup {NoAlliance}
    BY <1>1, <1>2 DEF Rows
  <2>2. /\ row' = [row EXCEPT ![v] = s]
        /\ Refreshes(r, v, "leave") /\ job[r].pc = "promote" /\ Remembers
        /\ UNCHANGED <<alliances, bans, invites, founded, cache, ops>>
    BY <1>1, <1>2, <1>5 DEF Promote
  <2>3. job[r].op = "leave"
    BY <1>1, <2>2 DEF Sound
  <2> HIDE DEF s
  <2>4. QED
    BY <1>1, <1>2, <2>1, <2>2, <2>3, RowStep
<1>6. CASE Leave(r)
  <2>1. /\ row' = [row EXCEPT ![job[r].who] = Outside]
        /\ Refreshes(r, job[r].who, "idle") /\ job[r].pc = "write" /\ Remembers
        /\ UNCHANGED <<alliances, bans, invites, founded, cache, ops>>
    BY <1>6 DEF Leave
  <2>2. QED
    BY <1>1, <1>2, <1>3, <2>1, RowStep
<1>7. CASE GiveAdmin(r)
  <2> DEFINE v == job[r].peer
             s == IF row[v].alliance = job[r].alliance THEN AdminOf(job[r].alliance) ELSE row[v]
  <2>1. s \in Rows /\ s.alliance \in alliances \cup {NoAlliance}
    BY <1>1, <1>2 DEF Rows, AdminOf
  <2>2. /\ row' = [row EXCEPT ![v] = s]
        /\ Refreshes(r, v, "idle") /\ job[r].pc = "write" /\ Remembers
        /\ UNCHANGED <<alliances, bans, invites, founded, cache, ops>>
    BY <1>1, <1>2, <1>7 DEF GiveAdmin
  <2> HIDE DEF s
  <2>3. QED
    BY <1>1, <1>2, <2>1, <2>2, RowStep
<1>8. CASE CommitBan(r)
  <2>1. /\ row' = [row EXCEPT ![job[r].peer] = Outside]
        /\ bans' = bans \cup {<<job[r].peer, job[r].alliance>>}
        /\ Refreshes(r, job[r].peer, "self") /\ job[r].pc = "commit" /\ Remembers
        /\ UNCHANGED <<alliances, invites, founded, cache, ops>>
    BY <1>8 DEF CommitBan
  <2>2. job[r].op = "ban" /\ job[r].alliance \in alliances
    BY <1>1, <2>1 DEF Sound
  <2>3. bans' \subseteq Users \X alliances'
    BY <1>1, <1>2, <2>1, <2>2
  <2>4. QED
    BY <1>1, <1>2, <1>3, <2>1, <2>2, <2>3, RowStep
<1>9. QED
  BY <1>4, <1>5, <1>6, <1>7, <1>8

LEMMA TeardownStep ==
    ASSUME Inv, NEW r \in Requests, Teardown(r)
    PROVE  Inv'
<1> DEFINE a == job[r].alliance
           k == Refreshed(job[r], job[r].peer, "self")
<1>1. Sound(job[r], admins, alliances) /\ job[r] \in Jobs /\ job[r].pc = "teardown"
  BY JobInHand DEF Teardown
<1>2. job[r].op = "ban" /\ job[r].peer \in Users
  BY <1>1 DEF Sound
<1>3. Refreshes(r, job[r].peer, "self") /\ UNCHANGED <<founded, cache, ops>> /\ Remembers
  BY DEF Teardown
<1>4. job' = [job EXCEPT ![r] = k] /\ k.pc = "reload" /\ Sound(k, admins, alliances')
  BY <1>1, <1>2, <1>3, RefreshedIsSound
<1>5. /\ alliances' = alliances \ {a} /\ invites' = invites \ {a} /\ bans' = bans \ (Users \X {a})
      /\ row' = [u \in Users |-> IF u = job[r].peer THEN Outside
                                 ELSE IF u \in Members(a) THEN [row[u] EXCEPT !.alliance = NoAlliance]
                                 ELSE row[u]]
  BY DEF Teardown
<1>6. /\ alliances' \subseteq founded' /\ founded' \subseteq Alliances
      /\ invites' \subseteq alliances' /\ bans' \subseteq Users \X alliances'
  BY <1>3, <1>5 DEF Inv, TypeOK
<1>7. \A u \in Users : row'[u] \in Rows /\ row'[u].alliance \in alliances' \cup {NoAlliance}
  BY <1>5 DEF Inv, TypeOK, Rows, Outside, Members
<1>8. row' \in [Users -> Rows]
  BY <1>5, <1>7
<1>9. \A q \in Requests \ {r} :
         job[q].pc \in {"commit", "teardown"} => job[q].alliance \in alliances'
  BY <1>5 DEF Teardown, Inv, CopiesArePast, Sound
<1> HIDE DEF k
<1>10. QED
  BY <1>3, <1>4, <1>6, <1>7, <1>8, <1>9, WriteFrame

\* The steps that write one table and end.
LEMMA LastWrites ==
    ASSUME Inv, NEW r \in Requests, IssueInvite(r) \/ Unban(r)
    PROVE  Inv'
<1>1. /\ job' = [job EXCEPT ![r] = IdleJob] /\ Remembers
      /\ UNCHANGED <<row, alliances, founded, cache, ops>>
      /\ bans' \subseteq bans /\ invites' \subseteq invites \cup alliances
  BY DEF IssueInvite, Unban, Ended
<1>2. /\ row' \in [Users -> Rows] /\ alliances' \subseteq founded' /\ founded' \subseteq Alliances
      /\ bans' \subseteq Users \X alliances' /\ invites' \subseteq alliances'
      /\ \A u \in Users : row'[u].alliance \in alliances' \cup {NoAlliance}
  BY <1>1 DEF Inv, TypeOK
<1>3. \A q \in Requests \ {r} :
         job[q].pc \in {"commit", "teardown"} => job[q].alliance \in alliances'
  BY <1>1, BansStayOpen
<1>4. Sound(IdleJob, admins, alliances') /\ IdleJob.pc # "write"
  BY IdleIsSound DEF IdleJob
<1>5. QED
  BY <1>1, <1>2, <1>3, <1>4, WriteFrame

LEMMA ExpireStep ==
    ASSUME Inv, NEW u \in Users, Expire(u)
    PROVE  Inv'
<1>1. /\ cache' = [cache EXCEPT ![u] = NoRow]
      /\ UNCHANGED <<tables, job, ops>> /\ Remembers
  BY DEF Expire
<1>2. /\ row' = row /\ alliances' = alliances /\ bans' = bans /\ invites' = invites
      /\ founded' = founded /\ job' = job /\ ops' = ops
      /\ admins \subseteq admins' /\ Administered' \subseteq admins'
      /\ admins' \subseteq Users \X Alliances
  BY <1>1, JobInHand, AdminsGrow DEF tables, Inv
<1>3. spared' = {q \in Requests :
                    /\ job[q].op = "join"
                    /\ q \in spared \/ <<job[q].who, job[q].alliance>> \notin bans}
  BY <1>1, <1>2 DEF Remembers
<1>4. TypeOK'
  BY <1>1, <1>2, <1>3 DEF Inv, TypeOK
<1>5. \A w \in Users : cache'[w] = NoRow \/ Known(w, cache'[w], admins')
  BY <1>1, <1>2 DEF Inv, TypeOK, CopiesArePast, Known
<1>6. \A q \in Requests : Sound(job'[q], admins', alliances')
  <2>1. TAKE q \in Requests
  <2>2. Sound(job[q], admins, alliances)
    BY JobInHand
  <2>3. job[q].pc \in {"commit", "teardown"} => job[q].alliance \in alliances'
    BY <1>2, <2>2 DEF Sound
  <2>4. QED
    BY <1>2, <2>2, <2>3, SoundStays
<1>7. BansStopLaterJoins'
  BY <1>2, <1>3 DEF Inv, BansStopLaterJoins
<1>8. QED
  BY <1>2, <1>4, <1>5, <1>6, <1>7 DEF Inv, CopiesArePast

\* Nothing but "vars" decides Inv.
LEMMA StutterStep ==
    ASSUME Inv, UNCHANGED vars
    PROVE  Inv'
BY DEF Inv, TypeOK, CopiesArePast, BansStopLaterJoins, Administered, vars, tables, history

-----------------------------------------------------------------------------
LEMMA Initially == Init => Inv
<1> SUFFICES ASSUME Init PROVE Inv
  OBVIOUS
<1>1. PICK f \in [Founded -> Users] :
         row = [u \in Users |-> IF \E a \in Founded : f[a] = u
                                THEN AdminOf(CHOOSE a \in Founded : f[a] = u) ELSE Outside]
  BY DEF Init
<1>2. \A u \in Users : row[u] \in Rows /\ row[u].alliance \in Founded \cup {NoAlliance}
  <2>1. TAKE u \in Users
  <2>2. CASE \E a \in Founded : f[a] = u
    <3> DEFINE c == CHOOSE a \in Founded : f[a] = u
    <3>1. c \in Founded
      BY <2>2
    <3>2. row[u] = AdminOf(c)
      BY <1>1, <2>2
    <3> HIDE DEF c
    <3>3. QED
      BY <3>1, <3>2, AllianceAssumption DEF AdminOf, Rows
  <2>3. CASE ~\E a \in Founded : f[a] = u
    BY <1>1, <2>3 DEF Outside, Rows
  <2>4. QED
    BY <2>2, <2>3
<1>3. /\ row \in [Users -> Rows] /\ alliances = Founded /\ founded = Founded
      /\ invites = Founded /\ bans = {} /\ cache = [u \in Users |-> NoRow]
      /\ job = [r \in Requests |-> IdleJob] /\ admins = Administered /\ spared = {} /\ ops = 0
  BY <1>1, <1>2 DEF Init
<1>4. IdleJob \in Jobs /\ IdleJob.op = "none"
  BY DEF IdleJob, Jobs, Pcs, AdminOps
<1>5. TypeOK
  BY <1>2, <1>3, <1>4, AllianceAssumption DEF TypeOK, Administered
<1>6. CopiesArePast
  BY <1>3, IdleIsSound DEF CopiesArePast
<1>7. QED
  BY <1>3, <1>4, <1>5, <1>6 DEF Inv, BansStopLaterJoins

LEMMA Inductive == Inv /\ [Next]_vars => Inv'
<1> SUFFICES ASSUME Inv, [Next]_vars PROVE Inv'
  OBVIOUS
<1>1. ASSUME NEW r \in Requests, Step(r)
      PROVE  Inv'
  <2>1. CASE AskOwn(r) \/ AskOther(r) \/ AskJoin(r)
    BY <2>1, AskSteps
  <2>2. CASE Load(r)
    BY <2>2, LoadStep
  <2>3. CASE Fill(r)
    BY <2>3, FillStep
  <2>4. CASE Reload(r)
    BY <2>4, ReloadStep
  <2>5. CASE Refill(r) \/ ReloadFails(r)
    BY <2>5, RefillStep, ReloadFailsStep
  <2>6. CASE Create(r)
    BY <2>6, CreateStep
  <2>7. CASE \/ Edit(r) \/ FindInvite(r) \/ JoinByInvite(r) \/ CheckBan(r)
             \/ CountAdmins(r) \/ PickHeir(r) \/ Kick(r) \/ Abandon(r)
    BY <2>7, ReadSteps
  <2>8. CASE Join(r) \/ Promote(r) \/ Leave(r) \/ GiveAdmin(r) \/ CommitBan(r)
    BY <2>8, MemberSteps
  <2>9. CASE Teardown(r)
    BY <2>9, TeardownStep
  <2>10. CASE IssueInvite(r) \/ Unban(r)
    BY <2>10, LastWrites
  <2>11. QED
    BY <1>1, <2>1, <2>2, <2>3, <2>4, <2>5, <2>6, <2>7, <2>8, <2>9, <2>10 DEF Step, Works
<1>2. ASSUME NEW u \in Users, Expire(u)
      PROVE  Inv'
  BY <1>2, ExpireStep
<1>3. CASE UNCHANGED vars
  BY <1>3, StutterStep
<1>4. QED
  BY <1>1, <1>2, <1>3 DEF Next

LEMMA Always == Spec => []Inv
BY Initially, Inductive, PTL DEF Spec

-----------------------------------------------------------------------------
\* Every variable keeps its type, and no row of a table refers to an alliance
\* that a ban's transaction has deleted.
THEOREM AllianceTypes == Spec => []TypeOK
<1>1. Inv => TypeOK
  BY DEF Inv
<1>2. QED
  BY Always, <1>1, PTL

\* CheckBan runs after the request has started, so a ban in force since before
\* that stops it, whatever copy of the user's row let it in.
THEOREM BansStop == Spec => []BansStopLaterJoins
<1>1. Inv => BansStopLaterJoins
  BY DEF Inv
<1>2. QED
  BY Always, <1>1, PTL

\* require_alliance_admin looks at a cached row: stale, but once true.
THEOREM OnlyAdminsAct == Spec => []ActsByAdmins
<1>1. Inv => ActsByAdmins
  BY DEF Inv, CopiesArePast, Sound, ActsByAdmins
<1>2. QED
  BY Always, <1>1, PTL

-----------------------------------------------------------------------------
\* One request at a time, without failures

In(R, a) == {u \in Users : R[u].alliance = a}

\* Who leaves is no administrator, is alone, or leaves another one behind.
HasHeir(u, R) ==
    \A a \in Alliances : R[u] = AdminOf(a) =>
        In(R, a) = {u} \/ \E v \in In(R, a) \ {u} : R[v] = AdminOf(a)

\* What the request at work knows of the rows R and the bans B.
Current(j, R, B) ==
    /\ j.pc = "fill" \/ j.pc = "invite" => j.snap = R[j.who]
    /\ j.pc = "refill" => j.snap = R[j.peer]
    /\ j.op = "join" /\ j.pc \in {"banned", "write"} => R[j.who].alliance = NoAlliance
    /\ j.op = "join" /\ j.pc = "write" => <<j.who, j.alliance>> \notin B
    /\ j.pc \in {"count", "pick", "promote"} => R[j.who] = AdminOf(j.alliance)
    /\ j.pc = "pick" => \A v \in In(R, j.alliance) \ {j.who} : R[v].role = "member"
    /\ j.pc = "promote" => j.peer # j.who /\ R[j.peer].alliance = j.alliance
    /\ j.op = "leave" /\ (j.pc = "write" \/ (j.pc \in {"reload", "refill"} /\ j.after = "leave"))
           => HasHeir(j.who, R)
    /\ j.pc = "teardown" => In(R, j.alliance) \subseteq {j.peer}

\* The entry of u is about to be replaced.
Pending(j, u) == j.pc \in {"reload", "refill"} /\ j.peer = u

OneAtWork == \A q, r \in Requests : job[q].pc = "idle" \/ job[r].pc = "idle" \/ q = r
CacheFollows ==
    \A u \in Users : cache[u] \in {NoRow, row[u]} \/ \E r \in Requests : Pending(job[r], u)

LoneInv ==
    /\ OneAtWork /\ CacheFollows /\ BannedStayOut
    /\ \A r \in Requests : Current(job[r], row, bans)

-----------------------------------------------------------------------------
\* What every step of one request at a time shares

LEMMA ModesStep == ASSUME ModesNext PROVE Next
BY DEF ModesNext, LoneNext, Next, Step

LEMMA IdleIsCurrent == ASSUME NEW R, NEW B PROVE Current(IdleJob, R, B)
BY DEF Current, IdleJob

LEMMA LoneFrame ==
    ASSUME TypeOK, NEW r \in Requests, OthersIdle(r), NEW k,
           job' = [job EXCEPT ![r] = k], Current(k, row', bans'),
           \A u \in Users : cache'[u] \in {NoRow, row'[u]} \/ Pending(k, u),
           \A u \in Users : <<u, row'[u].alliance>> \notin bans'
    PROVE  LoneInv'
<1>1. job'[r] = k /\ \A q \in Requests \ {r} : job'[q] = job[q] /\ job'[q].pc = "idle"
  BY DEF TypeOK, OthersIdle
<1>2. OneAtWork'
  BY <1>1 DEF OneAtWork
<1>3. CacheFollows'
  BY <1>1 DEF CacheFollows
<1>4. \A q \in Requests : Current(job'[q], row', bans')
  <2>1. ASSUME NEW q \in Requests, job'[q].pc = "idle"
        PROVE  Current(job'[q], row', bans')
    BY <2>1 DEF Current
  <2>2. QED
    BY <1>1, <2>1
<1>5. BannedStayOut'
  BY DEF BannedStayOut
<1>6. QED
  BY <1>2, <1>3, <1>4, <1>5 DEF LoneInv

\* The request at work alone decides which entries are old.
LEMMA AtWork ==
    ASSUME Inv, LoneInv, NEW r \in Requests, OthersIdle(r)
    PROVE  /\ TypeOK /\ Sound(job[r], admins, alliances) /\ Current(job[r], row, bans)
           /\ job[r] \in Jobs /\ job \in [Requests -> Jobs]
           /\ \A u \in Users : cache[u] \in {NoRow, row[u]} \/ Pending(job[r], u)
           /\ \A u \in Users : <<u, row[u].alliance>> \notin bans
           /\ \A u \in Users : row[u] \in Rows
<1>1. \A u \in Users : cache[u] \in {NoRow, row[u]} \/ Pending(job[r], u)
  BY DEF LoneInv, CacheFollows, OthersIdle, Pending
<1>2. QED
  BY <1>1, JobInHand DEF LoneInv, BannedStayOut, TypeOK

\* A step that writes neither a table nor the cache, and ends no refresh.
LEMMA LoneQuiet ==
    ASSUME Inv, LoneInv, NEW r \in Requests, OthersIdle(r), NEW k,
           job' = [job EXCEPT ![r] = k], UNCHANGED <<row, bans, cache>>,
           Current(k, row, bans), \A u \in Users : Pending(job[r], u) => Pending(k, u)
    PROVE  LoneInv'
BY AtWork, LoneFrame

LEMMA LoneEnded ==
    ASSUME Inv, LoneInv, NEW r \in Requests, OthersIdle(r), Ended(r),
           UNCHANGED <<row, bans, cache>>, job[r].pc \notin {"reload", "refill"}
    PROVE  LoneInv'
BY IdleIsCurrent, LoneQuiet DEF Ended, Pending

\* A step that writes the row of u at most, and then refreshes its entry.
LEMMA LoneWrite ==
    ASSUME Inv, LoneInv, NEW r \in Requests, OthersIdle(r), NEW u \in Users, NEW s,
           row' = [row EXCEPT ![u] = s], cache' = cache,
           job[r].pc \notin {"idle", "load", "fill", "reload", "refill"},
           NEW next \in {"idle", "leave", "self"}, Refreshes(r, u, next),
           next = "leave" => job[r].op = "leave" /\ HasHeir(job[r].who, row'),
           next = "self" => job[r].op = "ban",
           \A w \in Users : <<w, row'[w].alliance>> \notin bans'
    PROVE  LoneInv'
<1>1. PICK k : k = Refreshed(job[r], u, next)
  OBVIOUS
<1>2. /\ job' = [job EXCEPT ![r] = k] /\ k.pc = "reload"
      /\ k.peer = u /\ k.after = next /\ k.op = job[r].op /\ k.who = job[r].who
  <2>1. job' = [job EXCEPT ![r] = k] /\ k.pc = "reload"
    BY <1>1, RefreshedIsSound
  <2>2. job[r] \in Jobs
    BY AtWork
  <2>3. QED
    BY <1>1, <2>1, <2>2 DEF Refreshed, Jobs
<1>3. Current(k, row', bans')
  BY <1>2 DEF Current
<1>4. \A w \in Users : cache'[w] \in {NoRow, row'[w]} \/ Pending(k, w)
  BY <1>2, AtWork DEF Pending, TypeOK
<1>5. QED
  BY <1>2, <1>3, <1>4, AtWork, LoneFrame

-----------------------------------------------------------------------------
\* One lemma per group of actions, again

LEMMA DecidedIsCurrent ==
    ASSUME TypeOK, NEW j \in Jobs, j.who \in Users, j.after = "idle",
           NEW s, s = row[j.who]
    PROVE  /\ Current(Decided(j, s), row, bans)
           /\ Decided(j, s).pc \notin {"reload", "refill"}
<1>1. PICK d : d = Decided(j, s)
  OBVIOUS
<1>2. s \in Rows
  BY DEF TypeOK
<1>3. CASE j.op = "create" /\ s.alliance = NoAlliance
  <2>1. d = [j EXCEPT !.pc = "write"]
    BY <1>1, <1>3 DEF Decided, AdminOps
  <2>2. d.op = "create" /\ d.pc = "write"
    BY <1>3, <2>1 DEF Jobs
  <2>3. QED
    BY <1>1, <2>2 DEF Current
<1>4. CASE j.op = "join"
  <2>1. d = [j EXCEPT !.pc = "invite", !.snap = s]
    BY <1>1, <1>4 DEF Decided, AdminOps
  <2>2. d.op = "join" /\ d.pc = "invite" /\ d.snap = s /\ d.who = j.who
    BY <1>4, <2>1 DEF Jobs
  <2>3. QED
    BY <1>1, <2>2 DEF Current
<1>5. CASE j.op = "leave" /\ s.alliance # NoAlliance
  <2>1. d = [j EXCEPT !.pc = IF s.role = "admin" THEN "count" ELSE "write",
                      !.alliance = s.alliance]
    BY <1>1, <1>5 DEF Decided, AdminOps
  <2>2. /\ d.op = "leave" /\ d.who = j.who /\ d.alliance = s.alliance
        /\ d.pc = IF s.role = "admin" THEN "count" ELSE "write"
    BY <1>5, <2>1 DEF Jobs
  <2>3. CASE s.role = "admin"
    <3>1. s = AdminOf(s.alliance)
      BY <1>2, <2>3 DEF Rows, AdminOf
    <3>2. QED
      BY <1>1, <2>2, <2>3, <3>1 DEF Current
  <2>4. CASE s.role # "admin"
    <3>1. HasHeir(d.who, row)
      BY <2>2, <2>4 DEF HasHeir, AdminOf
    <3>2. QED
      BY <1>1, <2>2, <2>4, <3>1 DEF Current
  <2>5. QED
    BY <2>3, <2>4
<1>6. CASE j.op \in AdminOps /\ IsAdmin(s)
  <2>1. d = [j EXCEPT !.pc = "write", !.alliance = s.alliance]
    BY <1>1, <1>6 DEF Decided, AdminOps
  <2>2. d.op \in AdminOps /\ d.pc = "write"
    BY <1>6, <2>1 DEF Jobs
  <2>3. QED
    BY <1>1, <2>2 DEF Current, AdminOps
<1>7. CASE /\ ~(j.op = "create" /\ s.alliance = NoAlliance) /\ j.op # "join"
           /\ ~(j.op = "leave" /\ s.alliance # NoAlliance)
           /\ ~(j.op \in AdminOps /\ IsAdmin(s))
  <2>1. d = IdleJob
    BY <1>1, <1>7 DEF Decided
  <2>2. QED
    BY <1>1, <2>1, IdleIsCurrent DEF IdleJob
<1>8. QED
  BY <1>3, <1>4, <1>5, <1>6, <1>7

LEMMA LoneAsk ==
    ASSUME Inv, LoneInv, NEW r \in Requests, OthersIdle(r), NEW op,
           NEW u \in Users, NEW v \in Users,
           NEW a \in Alliances \cup {NoAlliance}, Ask(r, op, u, v, a),
           op \in AdminOps \cup {"create", "join", "leave", "view"}
    PROVE  LoneInv'
<1>1. PICK j : j = [IdleJob EXCEPT !.op = op, !.who = u, !.peer = v, !.alliance = a]
  OBVIOUS
<1>2. PICK k : k = IF cache[u] # NoRow THEN Decided(j, cache[u]) ELSE [j EXCEPT !.pc = "load"]
  OBVIOUS
<1>3. j \in Jobs /\ j.who = u /\ j.after = "idle"
  BY <1>1 DEF IdleJob, Jobs, Pcs
<1>4. job' = [job EXCEPT ![r] = k] /\ UNCHANGED <<row, bans, cache>> /\ job[r].pc = "idle"
  BY <1>1, <1>2 DEF Ask, tables
<1>5. cache[u] \in {NoRow, row[u]}
  BY <1>4, AtWork DEF Pending
<1>6. Current(k, row, bans)
  <2>1. CASE cache[u] = NoRow
    <3>1. k = [j EXCEPT !.pc = "load"]
      BY <1>2, <2>1
    <3>2. k.pc = "load"
      BY <1>3, <3>1 DEF Jobs
    <3>3. QED
      BY <3>2 DEF Current
  <2>2. CASE cache[u] # NoRow
    BY <1>2, <1>3, <1>5, <2>2, AtWork, DecidedIsCurrent
  <2>3. QED
    BY <2>1, <2>2
<1>7. QED
  BY <1>4, <1>6, LoneQuiet DEF Pending

LEMMA LoneAsks ==
    ASSUME Inv, LoneInv, NEW r \in Requests, OthersIdle(r),
           AskOwn(r) \/ AskOther(r) \/ AskJoin(r)
    PROVE  LoneInv'
<1>1. CASE AskOwn(r)
  BY <1>1, LoneAsk DEF AskOwn, AdminOps
<1>2. CASE AskOther(r)
  BY <1>2, LoneAsk DEF AskOther, AdminOps
<1>3. CASE AskJoin(r)
  BY <1>3, LoneAsk DEF AskJoin
<1>4. QED
  BY <1>1, <1>2, <1>3

LEMMA LoneLoads ==
    ASSUME Inv, LoneInv, NEW r \in Requests, OthersIdle(r), Load(r) \/ Reload(r)
    PROVE  LoneInv'
<1>1. /\ job[r] \in Jobs /\ Current(job[r], row, bans) /\ Sound(job[r], admins, alliances)
      /\ job \in [Requests -> Jobs]
  BY AtWork
<1>2. CASE Load(r)
  <2>1. PICK k : k = [job[r] EXCEPT !.pc = "fill", !.snap = row[job[r].who]]
    OBVIOUS
  <2>2. job' = [job EXCEPT ![r] = k] /\ UNCHANGED <<row, bans, cache>> /\ job[r].pc = "load"
    BY <1>1, <1>2, <2>1 DEF Load, tables
  <2>3. k.pc = "fill" /\ k.who = job[r].who /\ k.snap = row[job[r].who]
    BY <1>1, <2>1 DEF Jobs
  <2>4. Current(k, row, bans)
    BY <2>3 DEF Current
  <2>5. QED
    BY <2>2, <2>4, LoneQuiet DEF Pending
<1>3. CASE Reload(r)
  <2>1. PICK k : k = [job[r] EXCEPT !.pc = "refill", !.snap = row[job[r].peer]]
    OBVIOUS
  <2>2. job' = [job EXCEPT ![r] = k] /\ UNCHANGED <<row, bans, cache>> /\ job[r].pc = "reload"
    BY <1>1, <1>3, <2>1 DEF Reload, tables
  <2>3. /\ k.pc = "refill" /\ k.who = job[r].who /\ k.snap = row[job[r].peer]
        /\ k.peer = job[r].peer /\ k.op = job[r].op /\ k.after = job[r].after
    BY <1>1, <2>1 DEF Jobs
  <2>4. Current(k, row, bans)
    BY <1>1, <2>2, <2>3 DEF Current
  <2>5. QED
    BY <2>2, <2>3, <2>4, LoneQuiet DEF Pending
<1>4. QED
  BY <1>2, <1>3

LEMMA LoneFill ==
    ASSUME Inv, LoneInv, NEW r \in Requests, OthersIdle(r), Fill(r)
    PROVE  LoneInv'
<1>1. /\ job[r] \in Jobs /\ Current(job[r], row, bans) /\ Sound(job[r], admins, alliances)
      /\ job[r].pc = "fill" /\ TypeOK
  BY AtWork DEF Fill
<1>2. PICK j : j = [job[r] EXCEPT !.snap = NoRow]
  OBVIOUS
<1>3. PICK k : k = Decided(j, job[r].snap)
  OBVIOUS
<1>4. /\ j \in Jobs /\ j.who = job[r].who /\ j.who \in Users /\ j.after = "idle"
      /\ job[r].snap = row[j.who]
  BY <1>1, <1>2 DEF Jobs, Sound, Current
<1>5. /\ job' = [job EXCEPT ![r] = k] /\ row' = row /\ bans' = bans
      /\ cache' = [cache EXCEPT ![j.who] = row[j.who]]
  BY <1>2, <1>3, <1>4 DEF Fill, tables
<1>6. Current(k, row', bans')
  BY <1>1, <1>3, <1>4, <1>5, DecidedIsCurrent
<1>7. \A u \in Users : cache'[u] \in {NoRow, row'[u]}
  BY <1>1, <1>4, <1>5, AtWork DEF Pending, TypeOK
<1>8. QED
  BY <1>1, <1>5, <1>6, <1>7, AtWork, LoneFrame

LEMMA LoneRefill ==
    ASSUME Inv, LoneInv, NEW r \in Requests, OthersIdle(r), Refill(r)
    PROVE  LoneInv'
<1>1. /\ job[r] \in Jobs /\ Current(job[r], row, bans) /\ Sound(job[r], admins, alliances)
      /\ job[r].pc = "refill" /\ TypeOK /\ job \in [Requests -> Jobs]
  BY AtWork DEF Refill
<1>2. job[r].peer \in Users /\ job[r].who \in Users /\ job[r].snap = row[job[r].peer]
  BY <1>1 DEF Sound, Current
<1>3. /\ row' = row /\ bans' = bans /\ Continues(r)
      /\ cache' = [cache EXCEPT ![job[r].peer] = row[job[r].peer]]
  BY <1>2 DEF Refill, tables
<1>4. \A u \in Users : cache'[u] \in {NoRow, row'[u]}
  BY <1>1, <1>2, <1>3, AtWork DEF Pending, TypeOK
<1>5. ASSUME NEW k, job' = [job EXCEPT ![r] = k], Current(k, row, bans)
      PROVE  LoneInv'
  BY <1>1, <1>3, <1>4, <1>5, AtWork, LoneFrame
<1>6. CASE job[r].after = "leave"
  <2>1. PICK k : k = [job[r] EXCEPT !.pc = "write", !.snap = NoRow]
    OBVIOUS
  <2>2. job' = [job EXCEPT ![r] = k]
    BY <1>1, <1>3, <1>6, <2>1 DEF Continues
  <2>3. k.pc = "write" /\ k.op = "leave" /\ k.who = job[r].who
    BY <1>1, <1>6, <2>1 DEF Jobs, Sound
  <2>4. job[r].op = "leave"
    BY <1>1, <1>6 DEF Sound
  <2>5. HasHeir(job[r].who, row)
    BY <1>1, <1>6, <2>4 DEF Current
  <2>6. Current(k, row, bans)
    BY <2>3, <2>5 DEF Current
  <2>7. QED
    BY <1>5, <2>2, <2>6
<1>7. CASE job[r].after = "self"
  <2>1. PICK k : k = Refreshed(job[r], job[r].who, "idle")
    OBVIOUS
  <2>2. job' = [job EXCEPT ![r] = k]
    BY <1>1, <1>3, <1>7, <2>1 DEF Continues, Refreshes, Refreshed
  <2>3. k.pc = "reload" /\ k.after = "idle"
    BY <1>1, <2>1 DEF Jobs, Refreshed
  <2>4. Current(k, row, bans)
    BY <2>3 DEF Current
  <2>5. QED
    BY <1>5, <2>2, <2>4
<1>8. CASE job[r].after \notin {"leave", "self"}
  <2>1. job' = [job EXCEPT ![r] = IdleJob]
    BY <1>3, <1>8 DEF Continues, Ended
  <2>2. QED
    BY <1>5, <2>1, IdleIsCurrent
<1>9. QED
  BY <1>6, <1>7, <1>8

\* The steps that read one table and decide.
LEMMA LoneReads ==
    ASSUME Inv, LoneInv, NEW r \in Requests, OthersIdle(r),
           Edit(r) \/ FindInvite(r) \/ JoinByInvite(r) \/ CheckBan(r) \/ Kick(r)
    PROVE  LoneInv'
<1>1. /\ job[r] \in Jobs /\ Current(job[r], row, bans) /\ Sound(job[r], admins, alliances)
      /\ job \in [Requests -> Jobs]
  BY AtWork
<1>2. UNCHANGED <<row, bans, cache>> /\ job[r].pc \notin {"reload", "refill"}
  BY DEF Edit, FindInvite, JoinByInvite, CheckBan, Kick, tables
<1>3. ASSUME Ended(r) PROVE LoneInv'
  BY <1>2, <1>3, LoneEnded
<1>4. ASSUME NEW k, job' = [job EXCEPT ![r] = k], Current(k, row, bans) PROVE LoneInv'
  BY <1>2, <1>4, LoneQuiet DEF Pending
<1>5. CASE Edit(r)
  BY <1>3, <1>5 DEF Edit
<1>6. CASE FindInvite(r)
  <2>1. PICK k : k = [job[r] EXCEPT !.pc = "issue"]
    OBVIOUS
  <2>2. k.pc = "issue"
    BY <1>1, <2>1 DEF Jobs
  <2>3. Current(k, row, bans)
    BY <2>2 DEF Current
  <2>4. Ended(r) \/ job' = [job EXCEPT ![r] = k]
    BY <1>1, <1>6, <2>1 DEF FindInvite, Goes
  <2>5. QED
    BY <1>3, <1>4, <2>3, <2>4
<1>7. CASE JoinByInvite(r)
  <2>1. PICK k : k = [job[r] EXCEPT !.pc = "banned", !.snap = NoRow]
    OBVIOUS
  <2>2. k.pc = "banned" /\ k.who = job[r].who
    BY <1>1, <2>1 DEF Jobs
  <2>3. job[r].pc = "invite" /\ job[r].snap = row[job[r].who]
    BY <1>1, <1>7 DEF JoinByInvite, Current
  <2>4. Ended(r) \/ (job[r].snap.alliance = NoAlliance /\ job' = [job EXCEPT ![r] = k])
    BY <1>1, <1>7, <2>1 DEF JoinByInvite
  <2>5. job[r].snap.alliance = NoAlliance => Current(k, row, bans)
    BY <2>2, <2>3 DEF Current
  <2>6. QED
    BY <1>3, <1>4, <2>4, <2>5
<1>8. CASE CheckBan(r)
  <2>1. PICK k : k = [job[r] EXCEPT !.pc = "write"]
    OBVIOUS
  <2>2. k.pc = "write" /\ k.who = job[r].who /\ k.alliance = job[r].alliance /\ k.op = job[r].op
    BY <1>1, <2>1 DEF Jobs
  <2>3. job[r].pc = "banned" /\ job[r].op = "join"
    BY <1>1, <1>8 DEF CheckBan, Sound
  <2>4. \/ Ended(r)
        \/ <<job[r].who, job[r].alliance>> \notin bans /\ job' = [job EXCEPT ![r] = k]
    BY <1>1, <1>8, <2>1 DEF CheckBan, Goes
  <2>5. <<job[r].who, job[r].alliance>> \notin bans => Current(k, row, bans)
    BY <1>1, <2>2, <2>3 DEF Current
  <2>6. QED
    BY <1>3, <1>4, <2>4, <2>5
<1>9. CASE Kick(r)
  <2>1. ASSUME Goes(r, "commit") PROVE LoneInv'
    <3>1. PICK k : k = [job[r] EXCEPT !.pc = "commit"]
      OBVIOUS
    <3>2. k.pc = "commit"
      BY <1>1, <3>1 DEF Jobs
    <3>3. Current(k, row, bans)
      BY <3>2 DEF Current
    <3>4. job' = [job EXCEPT ![r] = k]
      BY <1>1, <2>1, <3>1 DEF Goes
    <3>5. QED
      BY <1>4, <3>3, <3>4
  <2>2. ASSUME Goes(r, "teardown"), Members(job[r].alliance) \ {job[r].peer} = {} PROVE LoneInv'
    <3>1. PICK k : k = [job[r] EXCEPT !.pc = "teardown"]
      OBVIOUS
    <3>2. k.pc = "teardown" /\ k.alliance = job[r].alliance /\ k.peer = job[r].peer
      BY <1>1, <3>1 DEF Jobs
    <3>3. Current(k, row, bans)
      BY <2>2, <3>2 DEF Current, Members, In
    <3>4. job' = [job EXCEPT ![r] = k]
      BY <1>1, <2>2, <3>1 DEF Goes
    <3>5. QED
      BY <1>4, <3>3, <3>4
  <2>3. QED
    BY <1>3, <1>9, <2>1, <2>2 DEF Kick
<1>10. QED
  BY <1>5, <1>6, <1>7, <1>8, <1>9

\* If at most one administrator is counted, the one who counts is the only one;
\* otherwise there is another.
LEMMA CountedAdmins ==
    ASSUME NEW S, S \subseteq Users, NEW u \in S
    PROVE  IF Cardinality(S) <= 1 THEN S = {u} ELSE \E v \in S : v # u
<1>1. IsFiniteSet(S)
  BY AllianceAssumption, FS_Subset
<1>2. IsFiniteSet(S \ {u}) /\ Cardinality(S \ {u}) = Cardinality(S) - 1 /\ Cardinality(S) \in Nat
  BY <1>1, FS_RemoveElement, FS_CardinalityType
<1>3. Cardinality(S) <= 1 => S \ {u} = {}
  <2>1. SUFFICES ASSUME Cardinality(S) <= 1 PROVE S \ {u} = {}
    OBVIOUS
  <2>2. Cardinality(S \ {u}) \in Nat
    BY <1>2, FS_CardinalityType
  <2>3. Cardinality(S \ {u}) = 0
    BY <1>2, <2>1, <2>2
  <2>4. QED
    BY <1>2, <2>3, FS_EmptySet
<1>4. S \ {u} = {} => Cardinality(S) <= 1
  <2>1. SUFFICES ASSUME S \ {u} = {} PROVE Cardinality(S) <= 1
    OBVIOUS
  <2>2. Cardinality(S \ {u}) = 0
    BY <2>1, FS_EmptySet
  <2>3. QED
    BY <1>2, <2>2
<1>5. QED
  BY <1>3, <1>4

LEMMA LoneLeaves ==
    ASSUME Inv, LoneInv, NEW r \in Requests, OthersIdle(r), CountAdmins(r) \/ PickHeir(r)
    PROVE  LoneInv'
<1>1. /\ job[r] \in Jobs /\ Current(job[r], row, bans) /\ Sound(job[r], admins, alliances)
      /\ job \in [Requests -> Jobs] /\ \A v \in Users : row[v] \in Rows
  BY AtWork
<1>2. UNCHANGED <<row, bans, cache>> /\ job[r].pc \in {"count", "pick"} /\ job[r].op = "leave"
  BY <1>1 DEF CountAdmins, PickHeir, tables, Sound
<1>3. PICK u \in Users : u = job[r].who
  BY <1>1, <1>2 DEF Sound
<1>4. PICK a : a = job[r].alliance /\ row[u] = AdminOf(a)
  BY <1>1, <1>2, <1>3 DEF Current
<1>5. ASSUME NEW k, job' = [job EXCEPT ![r] = k], Current(k, row, bans) PROVE LoneInv'
  BY <1>2, <1>5, LoneQuiet DEF Pending
<1>6. u \in Members(a) /\ row[u].role = "admin" /\ row[u].alliance = a
  BY <1>4 DEF Members, AdminOf
<1>7. ASSUME Goes(r, "write"), Members(a) = {u} \/ \E v \in Members(a) \ {u} : row[v] = AdminOf(a)
      PROVE  LoneInv'
  <2>1. PICK k : k = [job[r] EXCEPT !.pc = "write"]
    OBVIOUS
  <2>2. k.pc = "write" /\ k.who = u /\ k.op = "leave"
    BY <1>1, <1>2, <1>3, <2>1 DEF Jobs
  <2>3. HasHeir(u, row)
    BY <1>4, <1>7 DEF HasHeir, Members, In, AdminOf
  <2>4. Current(k, row, bans)
    BY <2>2, <2>3 DEF Current
  <2>5. job' = [job EXCEPT ![r] = k]
    BY <1>1, <1>7, <2>1 DEF Goes
  <2>6. QED
    BY <1>5, <2>4, <2>5
<1>8. CASE CountAdmins(r)
  <2>1. PICK S : S = {v \in Members(a) : row[v].role = "admin"}
    OBVIOUS
  <2>2. S \subseteq Users /\ u \in S
    BY <1>6, <2>1 DEF Members
  <2>3. Goes(r, IF Cardinality(S) <= 1 THEN "pick" ELSE "write")
    BY <1>4, <1>8, <2>1 DEF CountAdmins
  <2>4. CASE Cardinality(S) <= 1
    <3>1. S = {u}
      BY <2>2, <2>4, CountedAdmins
    <3>2. \A v \in Members(a) \ {u} : row[v].role = "member"
      BY <1>1, <2>1, <3>1 DEF Members, Rows
    <3>3. PICK k : k = [job[r] EXCEPT !.pc = "pick"]
      OBVIOUS
    <3>4. k.pc = "pick" /\ k.who = u /\ k.alliance = a
      BY <1>1, <1>3, <1>4, <3>3 DEF Jobs
    <3>5. Current(k, row, bans)
      BY <1>4, <3>2, <3>4 DEF Current, Members, In
    <3>6. job' = [job EXCEPT ![r] = k]
      BY <1>1, <2>3, <2>4, <3>3 DEF Goes
    <3>7. QED
      BY <1>5, <3>5, <3>6
  <2>5. CASE ~(Cardinality(S) <= 1)
    <3>1. PICK v \in S : v # u
      BY <2>2, <2>5, CountedAdmins
    <3>2. row[v] = AdminOf(a) /\ v \in Members(a) \ {u}
      BY <1>1, <2>1, <3>1 DEF Members, Rows, AdminOf
    <3>3. QED
      BY <1>7, <2>3, <2>5, <3>2
  <2>6. QED
    BY <2>4, <2>5
<1>9. CASE PickHeir(r)
  <2>1. PICK heirs : heirs = {v \in Members(a) : row[v].role = "member"}
    OBVIOUS
  <2>2. job[r].pc = "pick"
    BY <1>9 DEF PickHeir
  <2>3. \A v \in Members(a) \ {u} : row[v].role = "member"
    BY <1>1, <1>3, <1>4, <2>2 DEF Current, Members, In
  <2>4. CASE heirs = {}
    <3>1. Members(a) = {u}
      BY <1>6, <2>1, <2>3, <2>4
    <3>2. Goes(r, "write")
      BY <1>4, <1>9, <2>1, <2>4 DEF PickHeir
    <3>3. QED
      BY <1>7, <3>1, <3>2
  <2>5. CASE heirs # {}
    <3>1. PICK v \in heirs : job' = [job EXCEPT ![r].pc = "promote", ![r].peer = v]
      BY <1>4, <1>9, <2>1, <2>5 DEF PickHeir
    <3>2. v # u /\ row[v].alliance = a /\ v \in Users
      BY <1>6, <2>1 DEF Members
    <3>3. PICK k : k = [job[r] EXCEPT !.pc = "promote", !.peer = v]
      OBVIOUS
    <3>4. k.pc = "promote" /\ k.who = u /\ k.alliance = a /\ k.peer = v
      BY <1>1, <1>3, <1>4, <3>3 DEF Jobs
    <3>5. Current(k, row, bans)
      BY <1>4, <3>2, <3>4 DEF Current
    <3>6. job' = [job EXCEPT ![r] = k]
      BY <1>1, <3>1, <3>3
    <3>7. QED
      BY <1>5, <3>5, <3>6
  <2>6. QED
    BY <2>4, <2>5
<1>10. QED
  BY <1>8, <1>9

LEMMA LoneCreate ==
    ASSUME Inv, LoneInv, NEW r \in Requests, OthersIdle(r), Create(r)
    PROVE  LoneInv'
<1>1. PICK a \in Alliances \ founded : row' = [row EXCEPT ![job[r].who] = AdminOf(a)]
  BY DEF Create
<1>2. /\ bans' = bans /\ cache' = cache /\ job[r].pc = "write" /\ job[r].who \in Users
      /\ Refreshes(r, job[r].who, "idle") /\ row \in [Users -> Rows]
  BY AtWork DEF Create, Sound, TypeOK
<1>3. \A w \in Users : <<w, a>> \notin bans
  BY AtWork DEF TypeOK
<1>4. \A w \in Users : <<w, row'[w].alliance>> \notin bans'
  BY <1>1, <1>2, <1>3, AtWork DEF AdminOf
<1>5. QED
  BY <1>1, <1>2, <1>4, LoneWrite

\* The steps that write the row of one user.
LEMMA LoneMembers ==
    ASSUME Inv, LoneInv, NEW r \in Requests, OthersIdle(r),
           Join(r) \/ Promote(r) \/ Leave(r) \/ GiveAdmin(r) \/ CommitBan(r) \/ Teardown(r)
    PROVE  LoneInv'
<1>1. /\ job[r] \in Jobs /\ Current(job[r], row, bans) /\ Sound(job[r], admins, alliances)
      /\ row \in [Users -> Rows] /\ bans \subseteq Users \X alliances /\ alliances \subseteq Alliances
      /\ \A u \in Users : <<u, row[u].alliance>> \notin bans
  BY AtWork DEF TypeOK
<1>2. /\ job[r].pc \in {"write", "promote", "commit", "teardown"}
      /\ job[r].who \in Users /\ job[r].peer \in Users
  BY <1>1 DEF Join, Promote, Leave, GiveAdmin, CommitBan, Teardown, Sound
<1>3. \A u : <<u, NoAlliance>> \notin bans
  BY <1>1, AllianceAssumption
<1>4. CASE Join(r)
  <2>1. CASE job[r].alliance \in alliances
    <3>1. /\ row' = [row EXCEPT ![job[r].who] = MemberOf(job[r].alliance)] /\ bans' = bans
          /\ cache' = cache /\ Refreshes(r, job[r].who, "idle")
          /\ <<job[r].who, job[r].alliance>> \notin bans
      BY <1>1, <1>4, <2>1 DEF Join, Current
    <3>2. \A w \in Users : <<w, row'[w].alliance>> \notin bans'
      BY <1>1, <1>2, <3>1 DEF MemberOf
    <3>3. QED
      BY <1>2, <3>1, <3>2, LoneWrite
  <2>2. CASE job[r].alliance \notin alliances
    BY <1>2, <1>4, <2>2, LoneEnded DEF Join
  <2>3. QED
    BY <2>1, <2>2
<1>5. CASE Promote(r)
  <2>1. PICK v \in Users : v = job[r].peer
    BY <1>2
  <2>2. PICK s : s = [row[v] EXCEPT !.role = "admin"]
    OBVIOUS
  <2>3. PICK u \in Users : u = job[r].who
    BY <1>2
  <2>4. PICK a : a = job[r].alliance
    OBVIOUS
  <2>5. /\ row' = [row EXCEPT ![v] = s] /\ bans' = bans /\ cache' = cache
        /\ Refreshes(r, v, "leave") /\ job[r].pc = "promote" /\ job[r].op = "leave"
    BY <1>1, <1>5, <2>1, <2>2 DEF Promote, Sound
  <2>6. row[u] = AdminOf(a) /\ v # u /\ row[v].alliance = a
    BY <1>1, <2>1, <2>3, <2>4, <2>5 DEF Current
  <2>7. row'[u] = AdminOf(a) /\ row'[v] = AdminOf(a)
    BY <1>1, <2>2, <2>5, <2>6 DEF Rows, AdminOf
  <2>8. HasHeir(job[r].who, row')
    BY <2>3, <2>6, <2>7 DEF HasHeir, In, AdminOf
  <2>9. s.alliance = row[v].alliance
    BY <1>1, <2>2 DEF Rows
  <2>10. \A w \in Users : <<w, row'[w].alliance>> \notin bans'
    BY <1>1, <2>5, <2>9
  <2>11. QED
    BY <2>5, <2>8, <2>10, LoneWrite
<1>6. CASE Leave(r)
  <2>1. /\ row' = [row EXCEPT ![job[r].who] = Outside] /\ bans' = bans
        /\ cache' = cache /\ Refreshes(r, job[r].who, "idle")
    BY <1>6 DEF Leave
  <2>2. \A w \in Users : <<w, row'[w].alliance>> \notin bans'
    BY <1>1, <1>3, <2>1 DEF Outside
  <2>3. QED
    BY <1>2, <2>1, <2>2, LoneWrite
<1>7. CASE GiveAdmin(r)
  <2>1. PICK v \in Users : v = job[r].peer
    BY <1>2
  <2>2. PICK s : s = IF row[v].alliance = job[r].alliance THEN AdminOf(job[r].alliance) ELSE row[v]
    OBVIOUS
  <2>3. /\ row' = [row EXCEPT ![v] = s] /\ bans' = bans /\ cache' = cache
        /\ Refreshes(r, v, "idle")
    BY <1>1, <1>7, <2>1, <2>2 DEF GiveAdmin
  <2>4. s.alliance = row[v].alliance
    BY <2>2 DEF AdminOf
  <2>5. \A w \in Users : <<w, row'[w].alliance>> \notin bans'
    BY <1>1, <2>3, <2>4
  <2>6. QED
    BY <1>2, <2>3, <2>5, LoneWrite
<1>8. CASE CommitBan(r)
  <2>1. /\ row' = [row EXCEPT ![job[r].peer] = Outside]
        /\ bans' = bans \cup {<<job[r].peer, job[r].alliance>>}
        /\ cache' = cache /\ Refreshes(r, job[r].peer, "self")
        /\ job[r].op = "ban" /\ job[r].alliance \in Alliances
    BY <1>1, <1>8 DEF CommitBan, Sound
  <2>2. \A w \in Users : <<w, row'[w].alliance>> \notin bans'
    <3>1. TAKE w \in Users
    <3>2. CASE w = job[r].peer
      BY <1>1, <1>3, <2>1, <3>2, AllianceAssumption DEF Outside
    <3>3. CASE w # job[r].peer
      BY <1>1, <2>1, <3>3
    <3>4. QED
      BY <3>2, <3>3
  <2>3. QED
    BY <1>2, <2>1, <2>2, LoneWrite
<1>9. CASE Teardown(r)
  <2>1. PICK a : a = job[r].alliance
    OBVIOUS
  <2>2. /\ row' = [u \in Users |-> IF u = job[r].peer THEN Outside
                                   ELSE IF u \in Members(a) THEN [row[u] EXCEPT !.alliance = NoAlliance]
                                   ELSE row[u]]
        /\ bans' = bans \ (Users \X {a}) /\ cache' = cache /\ Refreshes(r, job[r].peer, "self")
        /\ job[r].op = "ban" /\ job[r].pc = "teardown"
    BY <1>1, <1>9, <2>1 DEF Teardown, Sound
  <2>3. Members(a) \subseteq {job[r].peer}
    BY <1>1, <2>1, <2>2 DEF Current, Members, In
  <2>4. row' = [row EXCEPT ![job[r].peer] = Outside]
    BY <1>1, <2>2, <2>3
  <2>5. \A w \in Users : <<w, row'[w].alliance>> \notin bans'
    BY <1>1, <1>3, <2>2, <2>4 DEF Outside
  <2>6. QED
    BY <1>2, <2>2, <2>4, <2>5, LoneWrite
<1>10. QED
  BY <1>4, <1>5, <1>6, <1>7, <1>8, <1>9

\* The steps that write one table and end, and the end of an entry.
LEMMA LoneLasts ==
    ASSUME Inv, LoneInv, NEW r \in Requests, OthersIdle(r), IssueInvite(r) \/ Unban(r)
    PROVE  LoneInv'
<1>1. /\ job' = [job EXCEPT ![r] = IdleJob] /\ UNCHANGED <<row, cache>>
      /\ bans' \subseteq bans /\ job[r].pc \notin {"reload", "refill"}
  BY DEF IssueInvite, Unban, Ended
<1>2. \A w \in Users : <<w, row'[w].alliance>> \notin bans'
  BY <1>1, AtWork
<1>3. \A u \in Users : cache'[u] \in {NoRow, row'[u]}
  BY <1>1, AtWork DEF Pending
<1>4. QED
  BY <1>1, <1>2, <1>3, AtWork, IdleIsCurrent, LoneFrame

LEMMA LoneExpire ==
    ASSUME Inv, LoneInv, NEW u \in Users, Expire(u)
    PROVE  LoneInv'
<1>1. /\ row' = row /\ bans' = bans /\ job' = job
      /\ cache' = [cache EXCEPT ![u] = NoRow] /\ cache \in [Users -> Rows \cup {NoRow}]
  BY JobInHand DEF Expire, tables, Inv, TypeOK
<1>2. CacheFollows'
  BY <1>1 DEF LoneInv, CacheFollows
<1>3. OneAtWork' /\ BannedStayOut' /\ \A q \in Requests : Current(job'[q], row', bans')
  BY <1>1 DEF LoneInv, OneAtWork, BannedStayOut
<1>4. QED
  BY <1>2, <1>3 DEF LoneInv

LEMMA LoneWorks ==
    ASSUME Inv, LoneInv, NEW r \in Requests, OthersIdle(r), Works(r)
    PROVE  LoneInv'
<1>1. CASE AskOwn(r) \/ AskOther(r) \/ AskJoin(r)
  BY <1>1, LoneAsks
<1>2. CASE Load(r) \/ Reload(r)
  BY <1>2, LoneLoads
<1>3. CASE Fill(r)
  BY <1>3, LoneFill
<1>4. CASE Refill(r)
  BY <1>4, LoneRefill
<1>5. CASE Create(r)
  BY <1>5, LoneCreate
<1>6. CASE Edit(r) \/ FindInvite(r) \/ JoinByInvite(r) \/ CheckBan(r) \/ Kick(r)
  BY <1>6, LoneReads
<1>7. CASE CountAdmins(r) \/ PickHeir(r)
  BY <1>7, LoneLeaves
<1>8. CASE Join(r) \/ Promote(r) \/ Leave(r) \/ GiveAdmin(r) \/ CommitBan(r) \/ Teardown(r)
  BY <1>8, LoneMembers
<1>9. CASE IssueInvite(r) \/ Unban(r)
  BY <1>9, LoneLasts
<1>10. QED
  BY <1>1, <1>2, <1>3, <1>4, <1>5, <1>6, <1>7, <1>8, <1>9 DEF Works

\* What no step of one request at a time may do to the roles.
LEMMA LoneRoles ==
    ASSUME Inv, LoneInv, LoneNext
    PROVE  AdminsStay /\ HandsOver
<1>1. row \in [Users -> Rows]
  BY DEF Inv, TypeOK
<1>2. CASE row' = row
  <2>1. AdminsStay
    BY <1>2 DEF AdminsStay
  <2>2. HandsOver
    BY <1>2, AllianceAssumption DEF HandsOver, AdminOf, Outside
  <2>3. QED
    BY <2>1, <2>2
<1>3. ASSUME NEW r \in Requests, OthersIdle(r), Works(r), row' # row
      PROVE  AdminsStay /\ HandsOver
  <2>1. /\ Current(job[r], row, bans) /\ Sound(job[r], admins, alliances) /\ job[r] \in Jobs
    BY <1>3, AtWork
  <2>2. \/ Create(r) \/ Join(r) \/ Promote(r) \/ Leave(r) \/ GiveAdmin(r) \/ CommitBan(r)
        \/ Teardown(r)
    BY <1>3 DEF Works, AskOwn, AskOther, AskJoin, Ask, Load, Fill, Reload, Refill, Edit,
                FindInvite, IssueInvite, JoinByInvite, CheckBan, CountAdmins, PickHeir, Kick,
                Unban, tables
  <2>3. \A w \in Users : \/ row'[w] = row[w] \/ row'[w].alliance = NoAlliance
                         \/ row'[w].role = "admin" /\ row'[w] \in Rows
                         \/ row[w].alliance = NoAlliance
    <3>1. CASE Create(r)
      BY <1>1, <3>1 DEF Create, AdminOf, Rows
    <3>2. CASE Join(r)
      BY <1>1, <2>1, <3>2 DEF Join, Current
    <3>3. CASE Promote(r)
      BY <1>1, <3>3 DEF Promote, Rows
    <3>4. CASE Leave(r) \/ CommitBan(r)
      BY <1>1, <3>4 DEF Leave, CommitBan, Outside
    <3>5. CASE GiveAdmin(r)
      BY <1>1, <2>1, <3>5 DEF GiveAdmin, AdminOf, Rows, Jobs
    <3>6. CASE Teardown(r)
      BY <1>1, <3>6 DEF Teardown, Outside, Rows
    <3>7. QED
      BY <2>2, <3>1, <3>2, <3>3, <3>4, <3>5, <3>6
  <2>4. AdminsStay
    BY <1>1, <2>3, AllianceAssumption DEF AdminsStay, AdminOf, Rows
  <2>5. ASSUME NEW q \in Requests, NEW u \in Users, NEW a \in Alliances,
               job[q].op = "leave", job[q].pc = "write", job[q].who = u,
               row[u] = AdminOf(a), row'[u] = Outside, Members(a) # {u}
        PROVE  \E v \in Members(a) : row'[v] = AdminOf(a)
    <3>1. q = r
      BY <1>3, <2>5 DEF OthersIdle
    <3>2. Leave(r)
      BY <2>2, <2>5, <3>1, <2>1
         DEF Create, Join, Promote, GiveAdmin, CommitBan, Teardown
    <3>3. HasHeir(u, row)
      BY <2>1, <2>5, <3>1 DEF Current
    <3>4. PICK v \in Members(a) \ {u} : row[v] = AdminOf(a)
      BY <2>5, <3>3 DEF HasHeir, Members, In
    <3>5. row'[v] = row[v]
      BY <1>1, <2>5, <3>1, <3>2, <3>4 DEF Leave, Members
    <3>6. QED
      BY <3>4, <3>5
  <2>6. QED
    BY <2>4, <2>5 DEF HandsOver
<1>4. QED
  BY <1>2, <1>3 DEF LoneNext, Expire, tables

-----------------------------------------------------------------------------
\* Both modes are behaviours of Alliance.
THEOREM ModesAreAlliance == ModesSpec => Spec
<1>1. ModesInit => Init
  BY DEF ModesInit
<1>2. [ModesNext]_<<vars, lone>> => [Next]_vars
  BY ModesStep
<1>3. QED
  BY <1>1, <1>2, PTL DEF ModesSpec, Spec

LEMMA LoneInitially == ModesInit => LoneInv
<1>1. SUFFICES ASSUME ModesInit PROVE LoneInv
  OBVIOUS
<1>2. /\ cache = [u \in Users |-> NoRow] /\ job = [r \in Requests |-> IdleJob] /\ bans = {}
  BY <1>1 DEF ModesInit, Init
<1>3. OneAtWork /\ CacheFollows /\ BannedStayOut
  BY <1>2 DEF OneAtWork, CacheFollows, BannedStayOut, IdleJob
<1>4. \A r \in Requests : Current(job[r], row, bans)
  BY <1>2, IdleIsCurrent
<1>5. QED
  BY <1>3, <1>4 DEF LoneInv

LEMMA LoneInductive ==
    ASSUME Inv, lone => LoneInv, [ModesNext]_<<vars, lone>>
    PROVE  (lone => LoneInv)'
<1>1. CASE ModesNext /\ lone
  <2>1. LoneNext /\ lone' = lone /\ LoneInv
    BY <1>1 DEF ModesNext
  <2>2. LoneInv'
    BY <2>1, LoneWorks, LoneExpire DEF LoneNext
  <2>3. QED
    BY <2>2
<1>2. CASE ModesNext /\ ~lone
  BY <1>2 DEF ModesNext
<1>3. CASE UNCHANGED <<vars, lone>>
  BY <1>3 DEF LoneInv, OneAtWork, CacheFollows, BannedStayOut, vars, tables
<1>4. QED
  BY <1>1, <1>2, <1>3

LEMMA LoneAlways == ModesSpec => [](Inv /\ (lone => LoneInv))
<1>1. ModesSpec => []Inv
  BY ModesAreAlliance, Always, PTL
<1>2. ModesInit => (lone => LoneInv)
  BY LoneInitially
<1>3. Inv /\ (lone => LoneInv) /\ [ModesNext]_<<vars, lone>> => (lone => LoneInv)'
  BY LoneInductive
<1>4. QED
  BY <1>1, <1>2, <1>3, PTL DEF ModesSpec

\* One at a time, the cache that each handler refreshes after its write is the
\* row, and CheckBan keeps the banned out.
THEOREM LoneRowsStay == ModesSpec => []LoneRowsAgree
<1>1. (lone => LoneInv) => LoneRowsAgree
  <2>1. SUFFICES ASSUME lone => LoneInv PROVE LoneRowsAgree
    OBVIOUS
  <2>2. CASE lone
    <3>1. CacheIsCurrent
      BY <2>1, <2>2 DEF LoneInv, CacheFollows, Pending, CacheIsCurrent
    <3>2. QED
      BY <2>1, <2>2, <3>1 DEF LoneInv, LoneRowsAgree
  <2>3. CASE ~lone
    BY <2>3 DEF LoneRowsAgree
  <2>4. QED
    BY <2>2, <2>3
<1>2. QED
  BY <1>1, LoneAlways, PTL

\* One at a time, no administrator loses the role while he stays, and the last
\* one who leaves hands it over.
THEOREM LoneRolesAlways == ModesSpec => LoneRolesHold
<1>1. Inv /\ (lone => LoneInv) /\ [ModesNext]_<<vars, lone>>
          => [lone => AdminsStay /\ HandsOver]_<<vars, lone>>
  <2>1. SUFFICES ASSUME Inv, lone => LoneInv, ModesNext, lone PROVE AdminsStay /\ HandsOver
    OBVIOUS
  <2>2. QED
    BY <2>1, LoneRoles DEF ModesNext
<1>2. QED
  BY <1>1, LoneAlways, PTL DEF ModesSpec, LoneRolesHold

=============================================================================
