-------------------------- MODULE ModerationProofs --------------------------
(***************************************************************************)
(* Theorems about Moderation and Antibot, as instances M and B in          *)
(* Services, for any number of accounts, addresses, tickets, requests,     *)
(* challenges, failures and restarts.  The assumptions are the ones that   *)
(* Services makes: the accounts are finitely many, who moderates is one of *)
(* them, weights are numbers.                                              *)
(*                                                                         *)
(* The invariant of the bans, ModInv, says what the stack of ban_user      *)
(* stands for: which accounts and addresses are still to come (Covers),    *)
(* and that each frame has a slot of its own among accounts and unbans     *)
(* (Deep).  The names of the second half start with Bot.                   *)
(***************************************************************************)
EXTENDS Services, DataProofs

-----------------------------------------------------------------------------
\* Types of the requests, the frames of ban_user and the tickets.

Ats == {"select", "update", "find", "list", "share", "visit", "unlist"}
FrameType == [who : People, at : Ats, ban : BOOLEAN, ips : Seq(Addresses), todo : SUBSET People]

ModPcs == {"idle", "account", "address", "charge", "resolve", "timeout", "notify", "ban"}
Verdicts == {"none", "ban", "timeout", "ignore"}
ModJobType ==
    [pc : ModPcs, who : People \cup {NoUser}, ip : Seq(Addresses), ticket : Tickets \cup {NoTicket},
     verdict : Verdicts, stack : Seq(FrameType), near : SUBSET (People \X Addresses),
     reached : SUBSET People, needs : SUBSET Addresses, blocked : SUBSET Addresses,
     failed : BOOLEAN]

TicketType == [state : Verdicts \cup {"open"}, by : People \cup {NoUser}, of : People \cup {NoUser}]
Filed(t) == ticket[t].state # "none" /\ ticket[t].by \in People /\ ticket[t].of \in People

ListedType == [ip : Addresses, user : People]

Tables ==
    /\ banned \subseteq People /\ timedOut \subseteq People /\ last \in [People -> Addresses]
    /\ listed \subseteq ListedType /\ notices \subseteq Tickets /\ unbans \in Nat
    /\ ticket \in [Tickets -> TicketType]
    /\ \A t \in Tickets : ticket[t] # M!Blank => Filed(t)

\* What a request holds at each place.
Holds(j) ==
    /\ j.pc \in {"account", "address", "charge"} => Len(j.ip) = 1 /\ j.who \in People
    /\ j.pc = "ban" <=> j.stack # << >>
    /\ j.pc = "ban" => j.verdict # "timeout"
    /\ j.pc = "timeout" => j.verdict = "timeout"
    /\ j.pc = "resolve" => j.verdict # "none"

\* Frames that wait for another one are visiting; an unban is a frame alone.
Stacked(j) ==
    \A i \in 1 .. Len(j.stack) :
        /\ i < Len(j.stack) => j.stack[i].at = "visit"
        /\ j.stack[i].ban => j.stack[i].at # "unlist"
        /\ ~j.stack[i].ban => Len(j.stack) = 1 /\ j.stack[i].at \in {"select", "update", "unlist"}
        /\ j.stack[i].at \in {"find", "list", "share"} => j.stack[i].ips # << >>
        /\ j.stack[i].at = "update" => Len(j.stack[i].ips) = 2
        /\ j.stack[i].at # "visit" => j.stack[i].todo = {}

\* A request remembers who is banned and what is listed.
Fresh(r) ==
    modJob[r].pc # "idle" =>
        /\ banned \subseteq modJob[r].reached \/ modJob[r].verdict = "timeout"
        /\ {x.ip : x \in listed} \subseteq modJob[r].blocked
        /\ \A p \in modJob[r].near : M!Shares(p[1], p[2])

\* Past its UPDATE, the account of a frame has been banned.
Past(f) == f.at \notin {"select", "update"}

\* A resolution is about a ticket that was filed, and bans who it is about (R:
\* whom the request has seen banned or timed out; tk: the tickets).
Told(j, R, tk) ==
    /\ j.pc \in {"resolve", "timeout", "notify"} \/ (j.pc = "ban" /\ j.verdict = "ban")
       => j.ticket \in Tickets /\ tk[j.ticket] # M!Blank
    /\ j.pc = "notify" => tk[j.ticket].of \in R
    /\ j.pc = "ban" /\ j.verdict = "ban" =>
          /\ j.stack[1].ban /\ j.stack[1].who = tk[j.ticket].of
          /\ Past(j.stack[1]) => j.stack[1].who \in R

\* What the outermost ban has done and has yet to do: an address is to come or
\* blocked, and who shares it is to come, to be visited, being visited or
\* reached (R: whom the request has seen banned; L: what it has seen listed).
ToCome(f, ip) == \E i \in 1 .. Len(f.ips) : f.ips[i] = ip
Covers(j, R, L) ==
    j.stack # << >> /\ j.stack[1].ban /\ j.stack[1].at # "select" /\ ~j.failed =>
        /\ \A ip \in j.needs : ToCome(j.stack[1], ip) \/ ip \in L
        /\ j.stack[1].at = "share" => j.stack[1].ips[1] \in L
        /\ Past(j.stack[1]) => j.stack[1].who \in R
        /\ \A p \in j.near :
              \/ ToCome(j.stack[1], p[2]) \/ p[1] \in R \cup j.stack[1].todo
              \/ Len(j.stack) >= 2 /\ p[1] = j.stack[2].who
        /\ Len(j.stack) >= 2 /\ Past(j.stack[2]) => j.stack[2].who \in R

\* Each frame has a slot of its own: its account, or an unban.  The account is
\* its slot as long as it stays banned; no frame above will visit it then.
Slots(n) == (People \X {0}) \cup ({NoUser} \X (1 .. n))
Slotted(m, st, bs, n) ==
    /\ m \in [1 .. Len(st) -> Slots(n)]
    /\ \A a, b \in 1 .. Len(st) : m[a] = m[b] => a = b
    /\ \A i \in 1 .. Len(st) : m[i][2] = 0 =>
          /\ m[i][1] = st[i].who
          /\ st[i].ban /\ Past(st[i]) => st[i].who \in bs
          /\ \A k \in i .. Len(st) : st[i].who \notin st[k].todo
Deep(st, bs, n) == \E m : Slotted(m, st, bs, n)

Sound(j, R, L, bs, n, tk) ==
    Holds(j) /\ Stacked(j) /\ Covers(j, R, L) /\ Deep(j.stack, bs, n) /\ Told(j, R, tk)

JobOK(r) ==
    /\ Sound(modJob[r], modJob[r].reached, modJob[r].blocked, banned, unbans, ticket)
    /\ Fresh(r)

ModInv == Tables /\ modJob \in [Requests -> ModJobType] /\ \A r \in Requests : JobOK(r)

USE DEF Ats, ModPcs, Verdicts

-----------------------------------------------------------------------------
\* Stacks: to replace the last frame, to take it off, to put one more on it.

LEMMA PutTop ==
    ASSUME NEW st \in Seq(FrameType), st # << >>, NEW f \in FrameType
    PROVE  \E t \in Seq(FrameType) :
              /\ t = [st EXCEPT ![Len(st)] = f]
              /\ Len(t) = Len(st) /\ t[Len(st)] = f /\ Len(st) \in Nat \ {0}
              /\ \A i \in 1 .. Len(st) : i # Len(st) => t[i] = st[i]
<1>1. Len(st) \in Nat \ {0}
  BY EmptySeq
<1>2. PICK t : t = [st EXCEPT ![Len(st)] = f]
  OBVIOUS
<1>3. t \in Seq(FrameType) /\ Len(t) = Len(st)
  BY <1>1, <1>2, ExceptSeq
<1>4. t[Len(st)] = f /\ \A i \in 1 .. Len(st) : i # Len(st) => t[i] = st[i]
  BY <1>1, <1>2
<1>5. QED
  BY <1>1, <1>2, <1>3, <1>4

LEMMA PopTop ==
    ASSUME NEW st \in Seq(FrameType), st # << >>
    PROVE  \E t \in Seq(FrameType) :
              /\ t = SubSeq(st, 1, Len(st) - 1)
              /\ Len(t) = Len(st) - 1 /\ Len(st) \in Nat \ {0}
              /\ \A i \in 1 .. Len(t) : t[i] = st[i]
<1>1. Len(st) \in Nat \ {0}
  BY EmptySeq
<1>2. \A i \in 1 .. Len(st) : st[i] \in FrameType
  BY ElementOfSeq
<1>3. Len(st) - 1 \in Int /\ 1 \in Int /\ \A i \in 1 .. Len(st) - 1 : st[i] \in FrameType
  BY <1>1, <1>2
<1>4. /\ SubSeq(st, 1, Len(st) - 1) \in Seq(FrameType)
      /\ Len(SubSeq(st, 1, Len(st) - 1))
            = IF 1 <= Len(st) - 1 THEN (Len(st) - 1) - 1 + 1 ELSE 0
      /\ \A i \in 1 .. (Len(st) - 1) - 1 + 1 : SubSeq(st, 1, Len(st) - 1)[i] = st[1 + i - 1]
  BY <1>3, SubSeqProperties
<1>5. PICK t : t = SubSeq(st, 1, Len(st) - 1)
  OBVIOUS
<1>6. Len(t) = Len(st) - 1
  <2>1. Len(t) = IF 1 <= Len(st) - 1 THEN (Len(st) - 1) - 1 + 1 ELSE 0
    BY <1>4, <1>5
  <2>2. PICK n \in Nat \ {0} : n = Len(st)
    BY <1>1
  <2>3. (IF 1 <= n - 1 THEN (n - 1) - 1 + 1 ELSE 0) = n - 1
    OBVIOUS
  <2>4. QED
    BY <2>1, <2>2, <2>3
<1>7. \A i \in 1 .. Len(t) : t[i] = st[i]
  BY <1>1, <1>4, <1>5, <1>6
<1>8. QED
  BY <1>1, <1>4, <1>5, <1>6, <1>7

LEMMA Push ==
    ASSUME NEW st \in Seq(FrameType), NEW f \in FrameType
    PROVE  \E t \in Seq(FrameType) :
              /\ t = Append(st, f) /\ Len(t) = Len(st) + 1 /\ Len(st) \in Nat
              /\ t[Len(st) + 1] = f /\ t # << >>
              /\ \A i \in 1 .. Len(st) : t[i] = st[i]
<1>1. PICK t : t = Append(st, f)
  OBVIOUS
<1>2. t \in Seq(FrameType) /\ t # << >> /\ Len(t) = Len(st) + 1
      /\ (\A i \in 1 .. Len(st) : t[i] = st[i]) /\ t[Len(st) + 1] = f
  BY <1>1, AppendProperties
<1>3. Len(st) \in Nat
  BY LenProperties
<1>4. QED
  BY <1>1, <1>2, <1>3

-----------------------------------------------------------------------------
\* Slots

\* There are as many slots as accounts and unbans.
LEMMA SlotCount ==
    ASSUME NEW n \in Nat
    PROVE  IsFiniteSet(Slots(n)) /\ Cardinality(Slots(n)) <= Cardinality(People) + n
<1>1. IsFiniteSet(People) /\ Cardinality(People) \in Nat
  BY ServicesAssumption, FS_CardinalityType
<1>2. IsFiniteSet({0}) /\ Cardinality({0}) = 1 /\ IsFiniteSet({NoUser}) /\ Cardinality({NoUser}) = 1
  BY FS_Singleton
<1>3. IsFiniteSet(1 .. n) /\ Cardinality(1 .. n) = n
  BY FS_Interval
<1>4. IsFiniteSet(People \X {0}) /\ Cardinality(People \X {0}) = Cardinality(People) * 1
  <2>1. \A S, T : IsFiniteSet(S) /\ IsFiniteSet(T) =>
          IsFiniteSet(S \X T) /\ Cardinality(S \X T) = Cardinality(S) * Cardinality(T)
    BY FS_Product
  <2>2. QED
    BY <1>1, <1>2, <2>1
<1>5. IsFiniteSet({NoUser} \X (1 .. n)) /\ Cardinality({NoUser} \X (1 .. n)) = 1 * n
  <2>1. \A S, T : IsFiniteSet(S) /\ IsFiniteSet(T) =>
          IsFiniteSet(S \X T) /\ Cardinality(S \X T) = Cardinality(S) * Cardinality(T)
    BY FS_Product
  <2>2. PICK T : T = 1 .. n
    OBVIOUS
  <2>3. IsFiniteSet(T) /\ Cardinality(T) = n
    BY <1>3, <2>2
  <2>4. IsFiniteSet({NoUser} \X T) /\ Cardinality({NoUser} \X T) = 1 * n
    BY <1>2, <2>1, <2>3
  <2>5. QED
    BY <2>2, <2>4
<1>6. /\ IsFiniteSet(Slots(n))
      /\ Cardinality(Slots(n)) = Cardinality(People \X {0}) + Cardinality({NoUser} \X (1 .. n))
                                   - Cardinality((People \X {0}) \cap ({NoUser} \X (1 .. n)))
  BY <1>4, <1>5, FS_Union DEF Slots
<1>7. Cardinality((People \X {0}) \cap ({NoUser} \X (1 .. n))) \in Nat
  BY <1>4, FS_Intersection, FS_CardinalityType
<1>8. QED
  BY <1>1, <1>4, <1>5, <1>6, <1>7

LEMMA DeepBound ==
    ASSUME NEW st \in Seq(FrameType), NEW bs, NEW n \in Nat, Deep(st, bs, n)
    PROVE  Len(st) <= Cardinality(People) + n
<1>1. PICK m : Slotted(m, st, bs, n)
  BY DEF Deep
<1>2. m \in Injection(1 .. Len(st), Slots(n))
  BY <1>1 DEF Slotted, Injection, IsInjective
<1>3. IsFiniteSet(Slots(n)) /\ Cardinality(Slots(n)) <= Cardinality(People) + n
  BY SlotCount
<1>4. Cardinality(1 .. Len(st)) <= Cardinality(Slots(n)) /\ Cardinality(Slots(n)) \in Nat
  BY <1>2, <1>3, FS_Injection, FS_CardinalityType
<1>5. Len(st) \in Nat
  BY LenProperties
<1>6. Cardinality(1 .. Len(st)) = Len(st)
  <2>1. PICK k \in Nat : k = Len(st)
    BY <1>5
  <2>2. Cardinality(1 .. k) = IF 1 > k THEN 0 ELSE k - 1 + 1
    BY FS_Interval
  <2>3. QED
    BY <2>1, <2>2
<1>7. Cardinality(People) \in Nat
  BY ServicesAssumption, FS_CardinalityType
<1>8. QED
  BY <1>3, <1>4, <1>5, <1>6, <1>7

\* The cardinality that Moderation speaks of is the one of FiniteSets.
LEMMA ModCardinality == ASSUME NEW S PROVE M!Cardinality(S) = Cardinality(S)
BY DEF M!Cardinality, Cardinality

LEMMA DeepEmpty == ASSUME NEW bs, NEW n \in Nat PROVE Deep(<< >>, bs, n)
<1>1. Len(<< >>) = 0
  BY EmptySeq
<1>2. PICK m : m = [i \in 1 .. 0 |-> <<NoUser, 1>>]
  OBVIOUS
<1>3. Slotted(m, << >>, bs, n)
  BY <1>1, <1>2 DEF Slotted
<1>4. QED
  BY <1>3 DEF Deep

\* A first frame takes the slot of its account.
LEMMA DeepFirst ==
    ASSUME NEW f \in FrameType, f.at = "select", f.todo = {}, NEW bs, NEW n \in Nat
    PROVE  Deep(<<f>>, bs, n)
<1>1. Len(<<f>>) = 1 /\ <<f>>[1] = f
  OBVIOUS
<1>2. PICK m : m = [i \in 1 .. 1 |-> <<f.who, 0>>]
  OBVIOUS
<1>3. m \in [1 .. 1 -> Slots(n)]
  BY <1>2 DEF Slots, FrameType
<1>4. Slotted(m, <<f>>, bs, n)
  BY <1>1, <1>2, <1>3 DEF Slotted, Past
<1>5. QED
  BY <1>4 DEF Deep

\* More bans change nothing; an unban gives its account's slot back for one of
\* its own.
LEMMA DeepBans ==
    ASSUME NEW st, NEW bs, NEW cs, bs \subseteq cs, NEW n \in Nat, Deep(st, bs, n)
    PROVE  Deep(st, cs, n)
<1>1. PICK m : Slotted(m, st, bs, n)
  BY DEF Deep
<1>2. Slotted(m, st, cs, n)
  BY <1>1 DEF Slotted
<1>3. QED
  BY <1>2 DEF Deep

LEMMA DeepUnban ==
    ASSUME NEW st \in Seq(FrameType), NEW bs, NEW n \in Nat, NEW u \in People, Deep(st, bs, n)
    PROVE  Deep(st, bs \ {u}, n + 1)
<1>1. PICK m : Slotted(m, st, bs, n)
  BY DEF Deep
<1> DEFINE slot(i) == IF m[i] = <<u, 0>> THEN <<NoUser, n + 1>> ELSE m[i]
<1>2. PICK w : w = [i \in 1 .. Len(st) |-> slot(i)]
  OBVIOUS
<1>3. \A x \in Slots(n) : x \in Slots(n + 1) /\ x # <<NoUser, n + 1>>
  BY DEF Slots
<1>4. <<NoUser, n + 1>> \in Slots(n + 1)
  BY DEF Slots
<1>5. \A i \in 1 .. Len(st) : m[i] \in Slots(n)
  BY <1>1 DEF Slotted
<1>6. w \in [1 .. Len(st) -> Slots(n + 1)]
  BY <1>2, <1>3, <1>4, <1>5
<1>7. ASSUME NEW a \in 1 .. Len(st), NEW b \in 1 .. Len(st), w[a] = w[b] PROVE a = b
  <2>1. m[a] = m[b]
    BY <1>2, <1>3, <1>5, <1>7
  <2>2. QED
    BY <2>1, <1>1 DEF Slotted
<1>8. ASSUME NEW i \in 1 .. Len(st), w[i][2] = 0
      PROVE  /\ w[i][1] = st[i].who
             /\ st[i].ban /\ Past(st[i]) => st[i].who \in bs \ {u}
             /\ \A k \in i .. Len(st) : st[i].who \notin st[k].todo
  <2>1. w[i] = m[i] /\ m[i] # <<u, 0>>
    BY <1>2, <1>8
  <2>2. m[i][2] = 0
    BY <2>1, <1>8
  <2>3. /\ m[i][1] = st[i].who
        /\ st[i].ban /\ Past(st[i]) => st[i].who \in bs
        /\ \A k \in i .. Len(st) : st[i].who \notin st[k].todo
    BY <2>2, <1>1 DEF Slotted
  <2>4. m[i] = <<m[i][1], m[i][2]>>
    BY <1>5 DEF Slots
  <2>5. QED
    BY <2>1, <2>2, <2>3, <2>4
<1>9. Slotted(w, st, bs \ {u}, n + 1)
  BY <1>6, <1>7, <1>8 DEF Slotted
<1>10. QED
  BY <1>9 DEF Deep

\* The last frame goes on: it stays with its account, which has to be banned
\* once the frame is past its UPDATE, and visits nobody who waits below it.
LEMMA DeepPut ==
    ASSUME NEW st \in Seq(FrameType), st # << >>, NEW t \in Seq(FrameType), NEW bs,
           NEW n \in Nat, Deep(st, bs, n),
           Len(t) = Len(st), \A i \in 1 .. Len(st) : i # Len(st) => t[i] = st[i],
           t[Len(st)].who = st[Len(st)].who, t[Len(st)].ban = st[Len(st)].ban,
           t[Len(st)].ban /\ Past(t[Len(st)]) =>
               t[Len(st)].who \in bs \/ (st[Len(st)].ban /\ Past(st[Len(st)])),
           \/ t[Len(st)].todo \subseteq st[Len(st)].todo
           \/ t[Len(st)].todo \cap (bs \cup {t[Len(st)].who}) = {}
              /\ \A i \in 1 .. Len(st) : i # Len(st) => st[i].ban /\ Past(st[i])
    PROVE  Deep(t, bs, n)
<1>1. PICK m : Slotted(m, st, bs, n)
  BY DEF Deep
<1>2. Len(st) \in Nat \ {0}
  BY EmptySeq
<1>3. ASSUME NEW i \in 1 .. Len(t), m[i][2] = 0
      PROVE  /\ m[i][1] = t[i].who
             /\ t[i].ban /\ Past(t[i]) => t[i].who \in bs
             /\ \A k \in i .. Len(t) : t[i].who \notin t[k].todo
  <2>1. /\ m[i][1] = st[i].who
        /\ st[i].ban /\ Past(st[i]) => st[i].who \in bs
        /\ \A k \in i .. Len(st) : st[i].who \notin st[k].todo
    BY <1>1, <1>3 DEF Slotted
  <2>2. t[i].who = st[i].who
    BY <1>3
  <2>3. t[i].ban /\ Past(t[i]) => t[i].who \in bs
    BY <2>1, <2>2, <1>3
  <2>4. ASSUME NEW k \in i .. Len(t) PROVE t[i].who \notin t[k].todo
    <3>1. CASE k # Len(st)
      BY <3>1, <2>1, <2>2, <1>2
    <3>2. CASE k = Len(st)
      <4>1. st[i].who \notin st[k].todo
        BY <2>1, <3>2, <1>2
      <4>2. i # Len(st) /\ st[i].ban /\ Past(st[i]) => st[i].who \in bs
        BY <2>1
      <4>3. QED
        BY <4>1, <4>2, <2>2, <3>2, <1>3
    <3>3. QED
      BY <3>1, <3>2
  <2>5. QED
    BY <2>1, <2>2, <2>3, <2>4
<1>4. Slotted(m, t, bs, n)
  BY <1>1, <1>3 DEF Slotted
<1>5. QED
  BY <1>4 DEF Deep

\* A finished frame gives its slot back.
LEMMA DeepPop ==
    ASSUME NEW st \in Seq(FrameType), st # << >>, NEW t \in Seq(FrameType), NEW bs,
           NEW n \in Nat, Deep(st, bs, n),
           Len(t) = Len(st) - 1, \A i \in 1 .. Len(t) : t[i] = st[i]
    PROVE  Deep(t, bs, n)
<1>1. PICK m : Slotted(m, st, bs, n)
  BY DEF Deep
<1>2. Len(st) \in Nat \ {0}
  BY EmptySeq
<1>3. PICK w : w = [i \in 1 .. Len(t) |-> m[i]]
  OBVIOUS
<1>4. \A i \in 1 .. Len(t) : i \in 1 .. Len(st) /\ w[i] = m[i] /\ \A k \in i .. Len(t) : k \in i .. Len(st) /\ k \in 1 .. Len(t)
  BY <1>2, <1>3
<1>5. w \in [1 .. Len(t) -> Slots(n)]
  BY <1>1, <1>3, <1>4 DEF Slotted
<1>6. Slotted(w, t, bs, n)
  BY <1>1, <1>4, <1>5 DEF Slotted
<1>7. QED
  BY <1>6 DEF Deep

\* A new frame takes the slot of its account, which no frame below has: these
\* will not visit theirs.  The frame below has one account less to visit.
LEMMA DeepPush ==
    ASSUME NEW st \in Seq(FrameType), st # << >>, NEW t \in Seq(FrameType), NEW bs,
           NEW n \in Nat, Deep(st, bs, n), NEW f \in FrameType,
           f.who \in st[Len(st)].todo, f.todo = {}, f.at = "select",
           Len(t) = Len(st) + 1, t[Len(st) + 1] = f,
           \A i \in 1 .. Len(st) : t[i].who = st[i].who /\ t[i].ban = st[i].ban
                                    /\ t[i].at = st[i].at /\ t[i].todo \subseteq st[i].todo
    PROVE  Deep(t, bs, n)
<1>1. PICK m : Slotted(m, st, bs, n)
  BY DEF Deep
<1>2. Len(st) \in Nat \ {0}
  BY EmptySeq
<1>3. PICK w : w = [i \in 1 .. Len(t) |-> IF i = Len(t) THEN <<f.who, 0>> ELSE m[i]]
  OBVIOUS
<1>4. \A i \in 1 .. Len(t) : \/ i = Len(t) /\ w[i] = <<f.who, 0>> /\ t[i] = f
                             \/ i \in 1 .. Len(st) /\ w[i] = m[i] /\ i # Len(t)
  BY <1>2, <1>3
<1>5. ASSUME NEW i \in 1 .. Len(st) PROVE m[i] # <<f.who, 0>>
  <2>1. SUFFICES ASSUME m[i] = <<f.who, 0>> PROVE FALSE
    OBVIOUS
  <2>2. m[i][1] = st[i].who /\ st[i].who \notin st[Len(st)].todo
    BY <2>1, <1>1, <1>2 DEF Slotted
  <2>3. QED
    BY <2>1, <2>2
<1>6. w \in [1 .. Len(t) -> Slots(n)]
  <2>1. <<f.who, 0>> \in Slots(n)
    BY DEF Slots, FrameType
  <2>2. \A i \in 1 .. Len(st) : m[i] \in Slots(n)
    BY <1>1 DEF Slotted
  <2>3. QED
    BY <1>3, <1>4, <2>1, <2>2
<1>7. \A a, b \in 1 .. Len(t) : w[a] = w[b] => a = b
  <2>1. \A a, b \in 1 .. Len(st) : m[a] = m[b] => a = b
    BY <1>1 DEF Slotted
  <2>2. QED
    BY SMTT(30), <1>4, <1>5, <2>1
<1>8. ASSUME NEW i \in 1 .. Len(t), w[i][2] = 0
      PROVE  /\ w[i][1] = t[i].who
             /\ t[i].ban /\ Past(t[i]) => t[i].who \in bs
             /\ \A k \in i .. Len(t) : t[i].who \notin t[k].todo
  <2>1. CASE i = Len(t)
    BY <2>1, <1>4, <1>2 DEF Past
  <2>2. CASE i # Len(t)
    <3>1. i \in 1 .. Len(st) /\ w[i] = m[i] /\ t[i].who = st[i].who /\ t[i].ban = st[i].ban
          /\ (Past(t[i]) <=> Past(st[i]))
      BY <2>2, <1>4 DEF Past
    <3>2. /\ m[i][1] = st[i].who
          /\ st[i].ban /\ Past(st[i]) => st[i].who \in bs
          /\ \A k \in i .. Len(st) : st[i].who \notin st[k].todo
      BY <3>1, <1>1, <1>8 DEF Slotted
    <3>3. ASSUME NEW k \in i .. Len(t) PROVE t[i].who \notin t[k].todo
      <4>1. k \in 1 .. Len(t)
        BY <1>2
      <4>2. CASE k = Len(t)
        BY <4>1, <4>2, <1>4
      <4>3. CASE k # Len(t)
        BY <4>1, <4>3, <1>2, <1>4, <3>1, <3>2
      <4>4. QED
        BY <4>2, <4>3
    <3>4. QED
      BY <3>1, <3>2, <3>3
  <2>3. QED
    BY <2>1, <2>2
<1>9. Slotted(w, t, bs, n)
  BY <1>6, <1>7, <1>8 DEF Slotted
<1>10. QED
  BY <1>9 DEF Deep

-----------------------------------------------------------------------------
\* Requests

Known(j) == j.reached \cup (IF j.verdict = "timeout" THEN timedOut ELSE banned)
Blocks(j) == j.blocked \cup {x.ip : x \in listed}

LEMMA IdleSound ==
    ASSUME NEW R, NEW L, NEW bs, NEW n \in Nat, NEW tk
    PROVE  M!IdleJob \in ModJobType /\ Sound(M!IdleJob, R, L, bs, n, tk)
<1>1. M!IdleJob \in ModJobType
  BY DEF M!IdleJob, ModJobType
<1>2. Deep(<< >>, bs, n)
  BY DeepEmpty
<1>3. Len(<< >>) = 0
  BY EmptySeq
<1>4. QED
  BY <1>1, <1>2, <1>3 DEF M!IdleJob, Sound, Holds, Stacked, Covers, Told

\* The history of a step.
LEMMA IdleFields ==
    \E i \in ModJobType :
       /\ i = M!IdleJob
       /\ i.pc = "idle" /\ i.who = NoUser /\ i.ip = << >> /\ i.ticket = NoTicket
       /\ i.verdict = "none" /\ i.stack = << >> /\ i.near = {} /\ i.reached = {}
       /\ i.needs = {} /\ i.blocked = {} /\ i.failed = FALSE
<1>1. PICK i : i = M!IdleJob
  OBVIOUS
<1>2. i \in ModJobType
  BY <1>1 DEF M!IdleJob, ModJobType
<1>3. /\ i.pc = "idle" /\ i.who = NoUser /\ i.ip = << >> /\ i.ticket = NoTicket
      /\ i.verdict = "none" /\ i.stack = << >> /\ i.near = {} /\ i.reached = {}
      /\ i.needs = {} /\ i.blocked = {} /\ i.failed = FALSE
  BY <1>1 DEF M!IdleJob
<1>4. QED
  BY <1>1, <1>2, <1>3

LEMMA SeenFields ==
    ASSUME NEW k \in ModJobType, k.pc # "idle", Tables'
    PROVE  \E s \in ModJobType :
              /\ s = M!Seen(k)
              /\ s.pc = k.pc /\ s.who = k.who /\ s.ip = k.ip /\ s.ticket = k.ticket
              /\ s.verdict = k.verdict /\ s.stack = k.stack /\ s.needs = k.needs
              /\ s.failed = k.failed
              /\ s.reached = Known(k)' /\ s.blocked = Blocks(k)'
              /\ s.near \subseteq k.near /\ \A p \in s.near : M!Shares(p[1], p[2])'
<1>1. PICK s : s = M!Seen(k)
  OBVIOUS
<1>2. /\ s.pc = k.pc /\ s.who = k.who /\ s.ip = k.ip /\ s.ticket = k.ticket
      /\ s.verdict = k.verdict /\ s.stack = k.stack /\ s.needs = k.needs
      /\ s.failed = k.failed
      /\ s.reached = Known(k)' /\ s.blocked = Blocks(k)'
      /\ s.near = {p \in k.near : M!Shares(p[1], p[2])'}
  BY <1>1 DEF M!Seen, ModJobType, Known, Blocks
<1>3. Known(k)' \in SUBSET People
  BY DEF Known, Tables, ModJobType
<1>4. Blocks(k)' \in SUBSET Addresses
  BY DEF Blocks, Tables, ModJobType, ListedType
<1>5. {p \in k.near : M!Shares(p[1], p[2])'} \in SUBSET (People \X Addresses)
  BY DEF ModJobType
<1>6. s = [k EXCEPT !.reached = Known(k)', !.blocked = Blocks(k)',
                    !.near = {p \in k.near : M!Shares(p[1], p[2])'}]
  BY <1>1 DEF M!Seen, ModJobType, Known, Blocks
<1>7. s \in ModJobType
  BY <1>3, <1>4, <1>5, <1>6 DEF ModJobType
<1>8. QED
  BY <1>1, <1>2, <1>7

\* What is seen later changes nothing for the worse.
LEMMA Settled ==
    ASSUME NEW r \in Requests, NEW k \in ModJobType, Tables', modJob'[r] = M!Seen(k),
           k.pc = "idle" \/ Sound(k, Known(k)', Blocks(k)', banned', unbans', ticket')
    PROVE  modJob'[r] \in ModJobType /\ JobOK(r)'
<1>1. unbans' \in Nat
  BY DEF Tables
<1>2. CASE k.pc = "idle"
  <2>1. modJob'[r] = M!IdleJob
    BY <1>2 DEF M!Seen
  <2>2. M!IdleJob \in ModJobType
        /\ Sound(M!IdleJob, modJob'[r].reached, modJob'[r].blocked, banned', unbans', ticket')
    BY <1>1, IdleSound
  <2>3. M!IdleJob.pc = "idle"
    BY DEF M!IdleJob
  <2>4. QED
    BY <2>1, <2>2, <2>3 DEF JobOK, Fresh
<1>3. CASE k.pc # "idle"
  <2>1. PICK s \in ModJobType :
              /\ s = M!Seen(k)
              /\ s.pc = k.pc /\ s.who = k.who /\ s.ip = k.ip /\ s.ticket = k.ticket
              /\ s.verdict = k.verdict /\ s.stack = k.stack /\ s.needs = k.needs
              /\ s.failed = k.failed
              /\ s.reached = Known(k)' /\ s.blocked = Blocks(k)'
              /\ s.near \subseteq k.near /\ \A p \in s.near : M!Shares(p[1], p[2])'
    BY <1>3, SeenFields
  <2>2. modJob'[r] = s
    BY <2>1
  <2>3. Holds(s) /\ Stacked(s) /\ Deep(s.stack, banned', unbans')
    BY <1>3, <2>1 DEF Sound, Holds, Stacked
  <2>4. Told(s, s.reached, ticket')
    BY <1>3, <2>1 DEF Sound, Told
  <2>5. Covers(k, s.reached, s.blocked)
    BY <1>3, <2>1 DEF Sound
  <2>6. Covers(s, s.reached, s.blocked)
    BY <2>1, <2>5 DEF Covers
  <2>7. Fresh(r)'
    BY <2>1, <2>2 DEF Fresh, Known, Blocks
  <2>8. QED
    BY <2>2, <2>3, <2>4, <2>6, <2>7 DEF JobOK, Sound
<1>4. QED
  BY <1>2, <1>3

\* How a step changes the tables: it bans, or it lifts one ban; and a ticket
\* stays about whom it is about.
TablesMove ==
    /\ \/ banned \subseteq banned' /\ unbans' = unbans
       \/ \E u \in People : banned' = banned \ {u} /\ unbans' = unbans + 1
    /\ \A t \in Tickets : ticket[t] # M!Blank =>
          ticket'[t] # M!Blank /\ ticket'[t].of = ticket[t].of

LEMMA DeepStays ==
    ASSUME NEW st \in Seq(FrameType), Tables, TablesMove, Deep(st, banned, unbans)
    PROVE  Deep(st, banned', unbans')
<1>1. unbans \in Nat
  BY DEF Tables
<1>2. CASE banned \subseteq banned' /\ unbans' = unbans
  BY <1>1, <1>2, DeepBans
<1>3. CASE \E u \in People : banned' = banned \ {u} /\ unbans' = unbans + 1
  BY <1>1, <1>3, DeepUnban
<1>4. QED
  BY <1>2, <1>3 DEF TablesMove

LEMMA Other ==
    ASSUME ModInv, NEW q \in Requests, modJob'[q] = M!Seen(modJob[q]), Tables', TablesMove
    PROVE  modJob'[q] \in ModJobType /\ JobOK(q)'
<1>1. PICK k \in ModJobType : k = modJob[q]
  BY DEF ModInv
<1>2. Sound(k, k.reached, k.blocked, banned, unbans, ticket)
  BY <1>1 DEF ModInv, JobOK
<1>3. PICK R, L : R = Known(k)' /\ L = Blocks(k)'
  OBVIOUS
<1>4. k.reached \subseteq R /\ k.blocked \subseteq L
  BY <1>3 DEF Known, Blocks
<1>5. Deep(k.stack, banned', unbans')
  <2>1. k.stack \in Seq(FrameType)
    BY DEF ModJobType
  <2>2. QED
    BY <2>1, <1>2, DeepStays DEF Sound, ModInv
<1>6. Covers(k, R, L)
  BY <1>2, <1>4 DEF Sound, Covers
<1>7. Told(k, R, ticket')
  <2>1. Told(k, k.reached, ticket)
    BY <1>2 DEF Sound
  <2>2. QED
    BY <2>1, <1>4 DEF Told, TablesMove
<1>8. Sound(k, Known(k)', Blocks(k)', banned', unbans', ticket')
  BY <1>2, <1>3, <1>5, <1>6, <1>7 DEF Sound
<1>9. QED
  BY <1>1, <1>8, Settled

LEMMA Turn ==
    ASSUME ModInv, NEW r \in Requests, NEW k \in ModJobType, M!Becomes(r, k), Tables', TablesMove,
           k.pc = "idle" \/ Sound(k, Known(k)', Blocks(k)', banned', unbans', ticket')
    PROVE  ModInv'
<1>1. PICK next : next = [modJob EXCEPT ![r] = k]
  OBVIOUS
<1>2. modJob' = [q \in Requests |-> M!Seen(next[q])]
  BY <1>1 DEF M!Becomes, M!Remembers
<1>3. modJob \in [Requests -> ModJobType]
  BY DEF ModInv
<1>4. ASSUME NEW q \in Requests PROVE modJob'[q] \in ModJobType /\ JobOK(q)'
  <2>1. CASE q = r
    <3>1. modJob'[q] = M!Seen(k)
      BY <1>1, <1>2, <1>3, <2>1
    <3>2. QED
      BY <3>1, Settled
  <2>2. CASE q # r
    <3>1. modJob'[q] = M!Seen(modJob[q])
      BY <1>1, <1>2, <1>3, <2>2
    <3>2. QED
      BY <3>1, Other
  <2>3. QED
    BY <2>1, <2>2
<1>5. modJob' \in [Requests -> ModJobType]
  BY <1>2, <1>4
<1>6. QED
  BY <1>4, <1>5 DEF ModInv

LEMMA Aside ==
    ASSUME ModInv, M!Remembers(modJob), Tables', TablesMove
    PROVE  ModInv'
<1>1. modJob' = [q \in Requests |-> M!Seen(modJob[q])]
  BY DEF M!Remembers
<1>2. ASSUME NEW q \in Requests PROVE modJob'[q] \in ModJobType /\ JobOK(q)'
  BY <1>1, Other
<1>3. modJob' \in [Requests -> ModJobType]
  BY <1>1, <1>2
<1>4. QED
  BY <1>2, <1>3 DEF ModInv

\* A step that writes none of the tables.
LEMMA Quiet ==
    ASSUME Tables, UNCHANGED <<M!accounts, ticket, notices, unbans>>
    PROVE  Tables' /\ TablesMove /\ banned' = banned /\ timedOut' = timedOut /\ last' = last
           /\ listed' = listed /\ ticket' = ticket /\ unbans' = unbans
BY DEF Tables, TablesMove, M!accounts, M!Blank, Filed

-----------------------------------------------------------------------------
\* The frames of a request

LEMMA TopFrame ==
    ASSUME NEW j \in ModJobType, j.stack # << >>
    PROVE  /\ Len(j.stack) \in Nat \ {0} /\ Len(j.stack) \in 1 .. Len(j.stack)
           /\ 1 \in 1 .. Len(j.stack) /\ j.stack[Len(j.stack)] \in FrameType
           /\ j.stack \in Seq(FrameType) /\ \A i \in 1 .. Len(j.stack) : j.stack[i] \in FrameType
<1>1. j.stack \in Seq(FrameType)
  BY DEF ModJobType
<1>2. Len(j.stack) \in Nat \ {0}
  BY <1>1, EmptySeq
<1>3. \A i \in 1 .. Len(j.stack) : j.stack[i] \in FrameType
  BY <1>1, ElementOfSeq
<1>4. QED
  BY <1>1, <1>2, <1>3

\* The last frame goes on.
Replaced(j, f, k) ==
    /\ k = M!Replace(j, f)
    /\ k.pc = j.pc /\ k.who = j.who /\ k.ip = j.ip /\ k.ticket = j.ticket
    /\ k.verdict = j.verdict /\ k.near = j.near /\ k.reached = j.reached
    /\ k.needs = j.needs /\ k.blocked = j.blocked /\ k.failed = j.failed
    /\ Len(k.stack) = Len(j.stack) /\ k.stack # << >> /\ k.stack \in Seq(FrameType)
    /\ k.stack[Len(j.stack)] = f
    /\ \A i \in 1 .. Len(j.stack) : i # Len(j.stack) => k.stack[i] = j.stack[i]

LEMMA ReplaceFields ==
    ASSUME NEW j \in ModJobType, j.stack # << >>, NEW f \in FrameType
    PROVE  \E k \in ModJobType : Replaced(j, f, k)
<1>1. j.stack \in Seq(FrameType)
  BY DEF ModJobType
<1>2. PICK t \in Seq(FrameType) :
            /\ t = [j.stack EXCEPT ![Len(j.stack)] = f]
            /\ Len(t) = Len(j.stack) /\ t[Len(j.stack)] = f /\ Len(j.stack) \in Nat \ {0}
            /\ \A i \in 1 .. Len(j.stack) : i # Len(j.stack) => t[i] = j.stack[i]
  BY <1>1, PutTop
<1>3. PICK k : k = [j EXCEPT !.stack = t]
  OBVIOUS
<1>4. k \in ModJobType
  BY <1>2, <1>3 DEF ModJobType
<1>5. k = M!Replace(j, f)
  BY <1>2, <1>3 DEF M!Replace
<1>6. k.stack = t
  BY <1>3 DEF ModJobType
<1>7. t # << >>
  BY <1>2, EmptySeq
<1>8. /\ k.pc = j.pc /\ k.who = j.who /\ k.ip = j.ip /\ k.ticket = j.ticket
      /\ k.verdict = j.verdict /\ k.near = j.near /\ k.reached = j.reached
      /\ k.needs = j.needs /\ k.blocked = j.blocked /\ k.failed = j.failed
  BY <1>3 DEF ModJobType
<1>9. /\ Len(k.stack) = Len(j.stack) /\ k.stack # << >> /\ k.stack \in Seq(FrameType)
      /\ k.stack[Len(j.stack)] = f
      /\ \A i \in 1 .. Len(j.stack) : i # Len(j.stack) => k.stack[i] = j.stack[i]
  BY <1>2, <1>6, <1>7
<1>10. QED
  BY <1>4, <1>5, <1>8, <1>9 DEF Replaced

\* The last frame returns.
Returned(j, k) ==
    /\ k = M!Return(j)
    /\ k.who = j.who /\ k.ip = j.ip /\ k.ticket = j.ticket
    /\ k.verdict = j.verdict /\ k.near = j.near /\ k.reached = j.reached
    /\ k.needs = j.needs /\ k.blocked = j.blocked /\ k.failed = j.failed
    /\ Len(k.stack) = Len(j.stack) - 1 /\ k.stack \in Seq(FrameType)
    /\ \A i \in 1 .. Len(k.stack) : k.stack[i] = j.stack[i]
    /\ Len(j.stack) = 1 => k.stack = << >> /\ k.pc = IF j.verdict = "ban" THEN "notify" ELSE "idle"
    /\ Len(j.stack) # 1 => k.stack # << >> /\ k.pc = j.pc

LEMMA ReturnFields ==
    ASSUME NEW j \in ModJobType, j.stack # << >>
    PROVE  \E k \in ModJobType : Returned(j, k)
<1>1. j.stack \in Seq(FrameType)
  BY DEF ModJobType
<1>2. PICK t \in Seq(FrameType) :
            /\ t = SubSeq(j.stack, 1, Len(j.stack) - 1)
            /\ Len(t) = Len(j.stack) - 1 /\ Len(j.stack) \in Nat \ {0}
            /\ \A i \in 1 .. Len(t) : t[i] = j.stack[i]
  BY <1>1, PopTop
<1>3. t = << >> <=> Len(j.stack) = 1
  <2>1. t = << >> <=> Len(t) = 0
    BY EmptySeq
  <2>2. PICK n \in Nat \ {0} : n = Len(j.stack)
    BY <1>2
  <2>3. Len(t) = n - 1
    BY <1>2, <2>2
  <2>4. n - 1 = 0 <=> n = 1
    OBVIOUS
  <2>5. QED
    BY <2>1, <2>2, <2>3, <2>4
<1>4. CASE t = << >>
  <2>1. PICK k : k = [j EXCEPT !.stack = t, !.pc = IF j.verdict = "ban" THEN "notify" ELSE "idle"]
    OBVIOUS
  <2>2. k \in ModJobType
    BY <2>1 DEF ModJobType
  <2>3. k = M!Return(j)
    BY <2>1, <1>2, <1>4 DEF M!Return, M!AfterBan
  <2>4. k.stack = t
    BY <2>1 DEF ModJobType
  <2>5. /\ k.who = j.who /\ k.ip = j.ip /\ k.ticket = j.ticket
        /\ k.verdict = j.verdict /\ k.near = j.near /\ k.reached = j.reached
        /\ k.needs = j.needs /\ k.blocked = j.blocked /\ k.failed = j.failed
        /\ k.pc = IF j.verdict = "ban" THEN "notify" ELSE "idle"
    BY <2>1 DEF ModJobType
  <2>6. QED
    BY <1>2, <1>3, <1>4, <2>2, <2>3, <2>4, <2>5 DEF Returned
<1>5. CASE t # << >>
  <2>1. PICK k : k = [j EXCEPT !.stack = t]
    OBVIOUS
  <2>2. k \in ModJobType
    BY <2>1 DEF ModJobType
  <2>3. k = M!Return(j)
    BY <2>1, <1>2, <1>5 DEF M!Return
  <2>4. k.stack = t
    BY <2>1 DEF ModJobType
  <2>5. /\ k.who = j.who /\ k.ip = j.ip /\ k.ticket = j.ticket
        /\ k.verdict = j.verdict /\ k.near = j.near /\ k.reached = j.reached
        /\ k.needs = j.needs /\ k.blocked = j.blocked /\ k.failed = j.failed
        /\ k.pc = j.pc
    BY <2>1 DEF ModJobType
  <2>6. QED
    BY <1>2, <1>3, <1>5, <2>2, <2>3, <2>4, <2>5 DEF Returned
<1>6. QED
  BY <1>4, <1>5

LEMMA OneFrame ==
    ASSUME NEW k, NEW f, NEW st, st = <<f>>, k.stack = st, f.at = "select", f.todo = {}
    PROVE  Stacked(k)
<1>1. Len(st) = 1 /\ st[1] = f
  OBVIOUS
<1>2. \A i \in 1 .. Len(st) : i = 1 /\ ~(i < Len(st)) /\ st[i] = f
  BY <1>1
<1>3. \A i \in 1 .. Len(st) :
        /\ ~(i < Len(st)) /\ st[i].at = "select" /\ st[i].todo = {}
  BY <1>2
<1>4. QED
  BY <1>1, <1>3 DEF Stacked

\* A ban, or an unban, of an account begins.
LEMMA BeginBan ==
    ASSUME NEW u \in People, NEW b \in BOOLEAN, NEW f, f = [M!Frame(u) EXCEPT !.ban = b],
           NEW k, k = M!Ban(f), NEW R, NEW L, NEW bs, NEW n \in Nat, NEW tk
    PROVE  k \in ModJobType /\ Sound(k, R, L, bs, n, tk)
<1>1. f \in FrameType /\ f.at = "select" /\ f.todo = {} /\ f.who = u /\ f.ban = b
  <2>1. << >> \in Seq(Addresses)
    OBVIOUS
  <2>2. QED
    BY <2>1 DEF M!Frame, FrameType
<1>2. PICK st : st = <<f>>
  OBVIOUS
<1>3. st \in Seq(FrameType) /\ Len(st) = 1 /\ st[1] = f /\ st # << >>
  BY <1>1, <1>2
<1>4. k \in ModJobType /\ k.stack = st /\ k.pc = "ban" /\ k.verdict = "none"
  <2>1. PICK i \in ModJobType : i = M!IdleJob /\ i.verdict = "none"
    BY IdleFields
  <2>2. k = [i EXCEPT !.pc = "ban", !.who = u, !.stack = st]
    BY <1>1, <1>2, <2>1 DEF M!Ban
  <2>3. QED
    BY <1>3, <2>1, <2>2 DEF ModJobType
<1>5. Deep(st, bs, n)
  BY <1>1, <1>2, DeepFirst
<1>6. Holds(k)
  BY <1>3, <1>4 DEF Holds
<1>7. Stacked(k)
  BY <1>1, <1>2, <1>4, OneFrame
<1>8. Covers(k, R, L)
  BY <1>1, <1>3, <1>4 DEF Covers
<1>9. Told(k, R, tk)
  BY <1>1, <1>3, <1>4 DEF Told, Past
<1>10. QED
  BY <1>4, <1>5, <1>6, <1>7, <1>8, <1>9 DEF Sound

\* A request that holds no frame yet.
LEMMA NoFrame ==
    ASSUME NEW k \in ModJobType, k.stack = << >>, k.pc # "ban", Holds(k), NEW R, NEW L, NEW bs,
           NEW n \in Nat, NEW tk, Told(k, R, tk)
    PROVE  Sound(k, R, L, bs, n, tk)
<1>1. Deep(<< >>, bs, n)
  BY DeepEmpty
<1>2. Len(<< >>) = 0
  BY EmptySeq
<1>3. Stacked(k) /\ Covers(k, R, L)
  BY <1>2 DEF Stacked, Covers
<1>4. QED
  BY <1>1, <1>3 DEF Sound

\* The request that acts.
LEMMA Actor ==
    ASSUME ModInv, NEW r \in Requests
    PROVE  /\ modJob[r] \in ModJobType /\ unbans \in Nat /\ Tables
           /\ Sound(modJob[r], modJob[r].reached, modJob[r].blocked, banned, unbans, ticket)
           /\ Fresh(r)
BY DEF ModInv, JobOK, Tables

-----------------------------------------------------------------------------
\* Steps of a request that holds no frame

LEMMA StepLogin ==
    ASSUME ModInv, NEW u \in People, NEW ip \in Addresses, M!Login(u, ip)
    PROVE  ModInv'
<1>1. Tables' /\ TablesMove
  BY DEF ModInv, Tables, TablesMove, M!Login, M!Blank, Filed
<1>2. QED
  BY <1>1, Aside DEF M!Login

LEMMA StepRemoveTimeout ==
    ASSUME ModInv, NEW u \in People, M!RemoveTimeout(u)
    PROVE  ModInv'
<1>1. Tables' /\ TablesMove
  BY DEF ModInv, Tables, TablesMove, M!RemoveTimeout, M!Blank, Filed
<1>2. QED
  BY <1>1, Aside DEF M!RemoveTimeout

LEMMA File ==
    ASSUME Tables, NEW t \in Tickets, NEW u \in People, NEW v \in People, ticket[t] = M!Blank,
           ticket' = M!NewTicket(t, u, v), UNCHANGED <<M!accounts, notices, unbans>>
    PROVE  Tables' /\ TablesMove /\ ticket'[t] # M!Blank
<1>1. ticket'[t] = [state |-> "open", by |-> u, of |-> v]
      /\ \A x \in Tickets : x # t => ticket'[x] = ticket[x]
  BY DEF Tables, M!NewTicket
<1>2. ticket' \in [Tickets -> TicketType]
  BY DEF Tables, M!NewTicket, TicketType
<1>3. \A x \in Tickets : ticket'[x] # M!Blank => Filed(x)'
  BY <1>1 DEF Tables, Filed
<1>4. ticket'[t] # M!Blank
  BY <1>1 DEF M!Blank
<1>5. TablesMove
  BY <1>1 DEF TablesMove, M!accounts
<1>6. QED
  BY <1>2, <1>3, <1>4, <1>5 DEF Tables, M!accounts

LEMMA StepReportUser ==
    ASSUME ModInv, M!ReportUser
    PROVE  ModInv'
<1>1. PICK t \in Tickets, u \in People, v \in People :
            /\ ticket[t] = M!Blank /\ ticket' = M!NewTicket(t, u, v)
            /\ UNCHANGED <<M!accounts, notices, unbans>> /\ M!Remembers(modJob)
  BY DEF M!ReportUser
<1>2. Tables' /\ TablesMove
  BY <1>1, File DEF ModInv
<1>3. QED
  BY <1>1, <1>2, Aside

LEMMA StepAskPaint ==
    ASSUME ModInv, NEW r \in Requests, NEW u \in People, NEW ip \in Addresses, M!AskPaint(r, u, ip)
    PROVE  ModInv'
<1>1. Tables' /\ TablesMove
  BY Quiet DEF ModInv, M!AskPaint
<1>2. PICK k : k = [M!IdleJob EXCEPT !.pc = "account", !.who = u, !.ip = <<ip>>]
  OBVIOUS
<1>3. <<ip>> \in Seq(Addresses) /\ Len(<<ip>>) = 1
  OBVIOUS
<1>4. k \in ModJobType /\ k.stack = << >> /\ k.pc = "account" /\ k.ip = <<ip>> /\ k.who = u
  <2>1. PICK i \in ModJobType : i = M!IdleJob /\ i.stack = << >>
    BY IdleFields
  <2>2. k = [i EXCEPT !.pc = "account", !.who = u, !.ip = <<ip>>]
    BY <1>2, <2>1
  <2>3. PICK q : q = <<ip>>
    OBVIOUS
  <2>4. QED
    BY <1>3, <2>1, <2>2, <2>3 DEF ModJobType
<1>5. Holds(k)
  BY <1>3, <1>4 DEF Holds
<1>6. unbans' \in Nat
  BY <1>1 DEF Tables
<1>7. PICK R : R = Known(k)'
  OBVIOUS
<1>8. Told(k, R, ticket')
  BY <1>4 DEF Told
<1>9. Sound(k, Known(k)', Blocks(k)', banned', unbans', ticket')
  BY <1>4, <1>5, <1>6, <1>7, <1>8, NoFrame
<1>10. M!Becomes(r, k)
  BY <1>2 DEF M!AskPaint, M!Begins
<1>11. QED
  BY <1>1, <1>4, <1>9, <1>10, Turn

\* A banned account that paints is banned again.
LEMMA BanAgain ==
    ASSUME ModInv, NEW r \in Requests, NEW u \in People, NEW k, M!Becomes(r, k),
           Tables', TablesMove, k = M!Ban(M!Frame(u)) \/ k = M!IdleJob
    PROVE  ModInv'
<1>1. CASE k = M!IdleJob
  <2>1. k \in ModJobType /\ k.pc = "idle"
    BY <1>1 DEF M!IdleJob, ModJobType
  <2>2. QED
    BY <2>1, Turn
<1>2. CASE k = M!Ban(M!Frame(u))
  <2>1. PICK f : f = [M!Frame(u) EXCEPT !.ban = TRUE]
    OBVIOUS
  <2>2. f = M!Frame(u)
    BY <2>1 DEF M!Frame
  <2>3. k = M!Ban(f)
    BY <1>2, <2>2
  <2>4. unbans' \in Nat
    BY DEF Tables
  <2>5. k \in ModJobType /\ Sound(k, Known(k)', Blocks(k)', banned', unbans', ticket')
    BY <2>1, <2>3, <2>4, BeginBan
  <2>6. QED
    BY <2>5, Turn
<1>3. QED
  BY <1>1, <1>2

\* The request goes on with the same data, at another place.
LEMMA PaintGoesOn ==
    ASSUME ModInv, NEW r \in Requests, modJob[r].pc \in {"account", "address"},
           NEW p \in {"address", "charge"}, NEW k, k = [modJob[r] EXCEPT !.pc = p],
           M!Becomes(r, k), Tables', TablesMove
    PROVE  ModInv'
<1>1. modJob[r] \in ModJobType /\ Holds(modJob[r])
  BY Actor DEF Sound
<1>2. modJob[r].stack = << >>
  BY <1>1 DEF Holds
<1>3. k \in ModJobType /\ k.stack = << >> /\ k.pc = p /\ k.ip = modJob[r].ip
      /\ k.who = modJob[r].who
  BY <1>1, <1>2 DEF ModJobType
<1>4. Holds(k)
  BY <1>1, <1>3 DEF Holds
<1>5. PICK R : R = Known(k)'
  OBVIOUS
<1>6. Told(k, R, ticket')
  BY <1>3 DEF Told
<1>7. unbans' \in Nat
  BY DEF Tables
<1>8. Sound(k, Known(k)', Blocks(k)', banned', unbans', ticket')
  BY <1>3, <1>4, <1>5, <1>6, <1>7, NoFrame
<1>9. QED
  BY <1>3, <1>8, Turn

LEMMA StepCheckAccount ==
    ASSUME ModInv, NEW r \in Requests, M!CheckAccount(r)
    PROVE  ModInv'
<1>1. Tables' /\ TablesMove /\ modJob[r].pc = "account"
  BY Quiet DEF ModInv, M!CheckAccount
<1>2. modJob[r].who \in People
  BY <1>1, Actor DEF Sound, Holds
<1>3. PICK k : k = IF modJob[r].who \in banned THEN M!Ban(M!Frame(modJob[r].who))
                   ELSE IF modJob[r].who \in timedOut THEN M!IdleJob
                   ELSE [modJob[r] EXCEPT !.pc = "address"]
  OBVIOUS
<1>4. M!Becomes(r, k)
  BY <1>3 DEF M!CheckAccount
<1>5. CASE k = M!Ban(M!Frame(modJob[r].who)) \/ k = M!IdleJob
  BY <1>1, <1>2, <1>4, <1>5, BanAgain
<1>6. CASE k = [modJob[r] EXCEPT !.pc = "address"]
  BY <1>1, <1>4, <1>6, PaintGoesOn
<1>7. QED
  BY <1>3, <1>5, <1>6

LEMMA StepCheckAddress ==
    ASSUME ModInv, NEW r \in Requests, M!CheckAddress(r)
    PROVE  ModInv'
<1>1. Tables' /\ TablesMove /\ modJob[r].pc = "address"
  BY Quiet DEF ModInv, M!CheckAddress
<1>2. modJob[r].who \in People
  BY <1>1, Actor DEF Sound, Holds
<1>3. PICK k : k = IF ~(\E x \in listed : x.ip = modJob[r].ip[1])
                   THEN [modJob[r] EXCEPT !.pc = "charge"]
                   ELSE IF BanOnBannedIp THEN M!Ban(M!Frame(modJob[r].who)) ELSE M!IdleJob
  OBVIOUS
<1>4. M!Becomes(r, k)
  BY <1>3 DEF M!CheckAddress
<1>5. CASE k = M!Ban(M!Frame(modJob[r].who)) \/ k = M!IdleJob
  BY <1>1, <1>2, <1>4, <1>5, BanAgain
<1>6. CASE k = [modJob[r] EXCEPT !.pc = "charge"]
  BY <1>1, <1>4, <1>6, PaintGoesOn
<1>7. QED
  BY <1>3, <1>5, <1>6

LEMMA StepCharge ==
    ASSUME ModInv, NEW r \in Requests, M!Charge(r)
    PROVE  ModInv'
<1>1. modJob[r] \in ModJobType /\ Holds(modJob[r]) /\ modJob[r].pc = "charge"
  BY Actor DEF Sound, M!Charge
<1>2. modJob[r].who \in People /\ Len(modJob[r].ip) = 1 /\ modJob[r].ip \in Seq(Addresses)
  BY <1>1 DEF Holds, ModJobType
<1>3. modJob[r].ip[1] \in Addresses
  BY <1>2
<1>4. Tables' /\ TablesMove
  BY <1>2, <1>3 DEF ModInv, Tables, TablesMove, M!Charge, M!Blank, Filed
<1>5. PICK k : k = IF modJob[r].who \in banned THEN M!Ban(M!Frame(modJob[r].who)) ELSE M!IdleJob
  OBVIOUS
<1>6. M!Becomes(r, k)
  BY <1>5 DEF M!Charge
<1>7. QED
  BY <1>2, <1>4, <1>5, <1>6, BanAgain

\* A resolution begins.
LEMMA BeginResolve ==
    ASSUME ModInv, NEW r \in Requests, NEW u \in People, NEW t \in Tickets,
           NEW verdict \in {"ban", "timeout", "ignore"}, NEW k,
           k = [M!IdleJob EXCEPT !.pc = "resolve", !.who = u, !.ticket = t, !.verdict = verdict],
           M!Becomes(r, k), Tables', TablesMove, ticket'[t] # M!Blank
    PROVE  ModInv'
<1>1. k \in ModJobType /\ k.stack = << >> /\ k.pc = "resolve" /\ k.ticket = t
      /\ k.verdict = verdict
  <2>1. PICK i \in ModJobType : i = M!IdleJob /\ i.stack = << >>
    BY IdleFields
  <2>2. k = [i EXCEPT !.pc = "resolve", !.who = u, !.ticket = t, !.verdict = verdict]
    BY <2>1
  <2>3. QED
    BY <2>1, <2>2 DEF ModJobType
<1>2. Holds(k)
  BY <1>1 DEF Holds
<1>3. PICK R : R = Known(k)'
  OBVIOUS
<1>4. Told(k, R, ticket')
  BY <1>1 DEF Told
<1>5. unbans' \in Nat
  BY DEF Tables
<1>6. Sound(k, Known(k)', Blocks(k)', banned', unbans', ticket')
  BY <1>1, <1>2, <1>3, <1>4, <1>5, NoFrame
<1>7. QED
  BY <1>1, <1>6, Turn

LEMMA StepAdminSanctions ==
    ASSUME ModInv, NEW r \in Requests, M!AdminSanctions(r)
    PROVE  ModInv'
<1>1. PICK t \in Tickets, u \in Admins, v \in People, verdict \in {"ban", "timeout"} :
            /\ ticket[t] = M!Blank /\ ticket' = M!NewTicket(t, u, v)
            /\ UNCHANGED <<M!accounts, notices, unbans>>
            /\ M!Begins(r, [M!IdleJob EXCEPT !.pc = "resolve", !.who = u, !.ticket = t,
                                             !.verdict = verdict])
  BY DEF M!AdminSanctions
<1>2. u \in People
  BY ServicesAssumption
<1>3. Tables' /\ TablesMove /\ ticket'[t] # M!Blank
  BY <1>1, <1>2, File DEF ModInv
<1>4. PICK k : k = [M!IdleJob EXCEPT !.pc = "resolve", !.who = u, !.ticket = t,
                                     !.verdict = verdict]
  OBVIOUS
<1>5. M!Becomes(r, k)
  BY SMTT(30), <1>1, <1>4 DEF M!Begins
<1>6. QED
  BY <1>2, <1>3, <1>4, <1>5, BeginResolve

LEMMA StepSetTicketStatus ==
    ASSUME ModInv, NEW r \in Requests, M!SetTicketStatus(r)
    PROVE  ModInv'
<1>1. PICK t \in Tickets, u \in Moderators, verdict \in {"ban", "timeout", "ignore"} :
            /\ ticket[t] # M!Blank
            /\ UNCHANGED <<M!accounts, ticket, notices, unbans>>
            /\ M!Begins(r, [M!IdleJob EXCEPT !.pc = "resolve", !.who = u, !.ticket = t,
                                             !.verdict = verdict])
  BY DEF M!SetTicketStatus
<1>2. u \in People
  BY ServicesAssumption
<1>3. Tables' /\ TablesMove /\ ticket' = ticket
  BY <1>1, Quiet DEF ModInv
<1>4. PICK k : k = [M!IdleJob EXCEPT !.pc = "resolve", !.who = u, !.ticket = t,
                                     !.verdict = verdict]
  OBVIOUS
<1>5. M!Becomes(r, k)
  BY <1>1, <1>4 DEF M!Begins
<1>6. QED
  BY <1>1, <1>2, <1>3, <1>4, <1>5, BeginResolve

LEMMA StepResolve ==
    ASSUME ModInv, NEW r \in Requests, M!Resolve(r)
    PROVE  ModInv'
<1>1. PICK j \in ModJobType : j = modJob[r]
  BY Actor
<1>2. j.pc = "resolve" /\ Holds(j) /\ Told(j, j.reached, ticket)
  BY <1>1, Actor DEF Sound, M!Resolve
<1>3. j.ticket \in Tickets /\ ticket[j.ticket] # M!Blank /\ j.verdict \in {"ban", "timeout", "ignore"}
      /\ j.stack = << >>
  BY <1>2 DEF Told, Holds, ModJobType
<1>4. Filed(j.ticket) /\ ticket[j.ticket] \in TicketType /\ ticket \in [Tickets -> TicketType]
  BY <1>3 DEF ModInv, Tables
<1>5. PICK new : new = [ticket[j.ticket] EXCEPT !.state = j.verdict]
  OBVIOUS
<1>6. new \in TicketType /\ new.state = j.verdict /\ new.of = ticket[j.ticket].of
      /\ new.by = ticket[j.ticket].by /\ new # M!Blank
  BY <1>3, <1>4, <1>5 DEF TicketType, M!Blank
<1>7. ticket' = [ticket EXCEPT ![j.ticket] = new]
  BY <1>1, <1>4, <1>5 DEF M!Resolve, TicketType
<1>8. ticket'[j.ticket] = new /\ \A x \in Tickets : x # j.ticket => ticket'[x] = ticket[x]
  BY <1>3, <1>4, <1>7
<1>9. ticket' \in [Tickets -> TicketType]
  BY <1>3, <1>4, <1>6, <1>7
<1>10. UNCHANGED <<M!accounts, notices, unbans>>
  BY DEF M!Resolve
<1>11. \A x \in Tickets : ticket'[x] # M!Blank => Filed(x)'
  BY <1>3, <1>4, <1>6, <1>8 DEF Filed, ModInv, Tables
<1>12. Tables'
  BY <1>9, <1>10, <1>11 DEF ModInv, Tables, M!accounts
<1>13. TablesMove
  BY <1>6, <1>8, <1>10 DEF TablesMove, M!accounts
<1>14. unbans' \in Nat
  BY <1>12 DEF Tables
<1>15. CASE j.verdict = "ban"
  <2>1. PICK f : f = [M!Frame(ticket[j.ticket].of) EXCEPT !.ban = TRUE]
    OBVIOUS
  <2>2. f = M!Frame(ticket[j.ticket].of)
    BY <2>1 DEF M!Frame
  <2>3. PICK k : k = [j EXCEPT !.pc = "ban", !.stack = <<f>>]
    OBVIOUS
  <2>4. M!Becomes(r, k)
    BY <1>1, <1>15, <2>2, <2>3 DEF M!Resolve
  <2>5. ticket[j.ticket].of \in People
    BY <1>4 DEF Filed
  <2>6. f \in FrameType /\ f.at = "select" /\ f.todo = {} /\ f.who = ticket[j.ticket].of /\ f.ban
    <3>1. << >> \in Seq(Addresses)
      OBVIOUS
    <3>2. QED
      BY <3>1, <2>1, <2>5 DEF M!Frame, FrameType
  <2>7. PICK st : st = <<f>>
    OBVIOUS
  <2>8. st \in Seq(FrameType) /\ Len(st) = 1 /\ st[1] = f /\ st # << >>
    BY <2>6, <2>7
  <2>9. k \in ModJobType /\ k.stack = st /\ k.pc = "ban" /\ k.verdict = "ban"
        /\ k.ticket = j.ticket
    BY <1>15, <2>3, <2>7, <2>8 DEF ModJobType
  <2>10. PICK R, L : R = Known(k)' /\ L = Blocks(k)'
    OBVIOUS
  <2>11. Deep(st, banned', unbans')
    BY <1>14, <2>6, <2>7, DeepFirst
  <2>12. Holds(k) /\ Stacked(k) /\ Covers(k, R, L)
    <3>1. Stacked(k)
      BY <2>6, <2>7, <2>9, OneFrame
    <3>2. Holds(k) /\ Covers(k, R, L)
      BY <2>6, <2>8, <2>9 DEF Holds, Covers
    <3>3. QED
      BY <3>1, <3>2
  <2>13. Told(k, R, ticket')
    BY <1>3, <1>6, <1>8, <2>6, <2>8, <2>9 DEF Told, Past
  <2>14. Sound(k, Known(k)', Blocks(k)', banned', unbans', ticket')
    BY <2>9, <2>10, <2>11, <2>12, <2>13 DEF Sound
  <2>15. QED
    BY <1>12, <1>13, <2>4, <2>9, <2>14, Turn
<1>16. CASE j.verdict = "timeout"
  <2>1. PICK k : k = [j EXCEPT !.pc = "timeout"]
    OBVIOUS
  <2>2. M!Becomes(r, k)
    BY <1>1, <1>16, <2>1 DEF M!Resolve
  <2>3. k \in ModJobType /\ k.stack = << >> /\ k.pc = "timeout" /\ k.verdict = "timeout"
        /\ k.ticket = j.ticket
    BY <1>3, <1>16, <2>1 DEF ModJobType
  <2>4. PICK R : R = Known(k)'
    OBVIOUS
  <2>5. Holds(k) /\ Told(k, R, ticket')
    BY <1>3, <1>6, <1>8, <2>3 DEF Holds, Told
  <2>6. Sound(k, Known(k)', Blocks(k)', banned', unbans', ticket')
    BY <1>14, <2>3, <2>4, <2>5, NoFrame
  <2>7. QED
    BY <1>12, <1>13, <2>2, <2>3, <2>6, Turn
<1>17. CASE j.verdict = "ignore"
  <2>1. M!Becomes(r, M!IdleJob)
    BY <1>1, <1>17 DEF M!Resolve
  <2>2. M!IdleJob \in ModJobType /\ M!IdleJob.pc = "idle"
    BY DEF M!IdleJob, ModJobType
  <2>3. QED
    BY <1>12, <1>13, <2>1, <2>2, Turn
<1>18. QED
  BY <1>3, <1>15, <1>16, <1>17

LEMMA StepTimeout ==
    ASSUME ModInv, NEW r \in Requests, M!Timeout(r)
    PROVE  ModInv'
<1>1. PICK j \in ModJobType : j = modJob[r]
  BY Actor
<1>2. j.pc = "timeout" /\ Holds(j) /\ Told(j, j.reached, ticket)
  BY <1>1, Actor DEF Sound, M!Timeout
<1>3. j.ticket \in Tickets /\ ticket[j.ticket] # M!Blank /\ j.verdict = "timeout" /\ j.stack = << >>
  BY <1>2 DEF Told, Holds
<1>4. Filed(j.ticket)
  BY <1>3 DEF ModInv, Tables
<1>5. timedOut' = timedOut \cup {ticket[j.ticket].of}
      /\ UNCHANGED <<banned, last, listed, ticket, notices, unbans>>
  BY <1>1 DEF M!Timeout
<1>6. Tables' /\ TablesMove
  BY <1>4, <1>5 DEF ModInv, Tables, TablesMove, M!Blank, Filed
<1>7. PICK k : k = [j EXCEPT !.pc = "notify"]
  OBVIOUS
<1>8. M!Becomes(r, k)
  BY <1>1, <1>7 DEF M!Timeout
<1>9. k \in ModJobType /\ k.stack = << >> /\ k.pc = "notify" /\ k.verdict = "timeout"
      /\ k.ticket = j.ticket
  BY <1>3, <1>7 DEF ModJobType
<1>10. PICK R : R = Known(k)'
  OBVIOUS
<1>11. ticket'[k.ticket].of \in R
  BY <1>5, <1>9, <1>10 DEF Known
<1>12. Holds(k) /\ Told(k, R, ticket')
  BY <1>3, <1>5, <1>9, <1>11 DEF Holds, Told
<1>13. unbans' \in Nat
  BY <1>6 DEF Tables
<1>14. Sound(k, Known(k)', Blocks(k)', banned', unbans', ticket')
  BY <1>9, <1>10, <1>12, <1>13, NoFrame
<1>15. QED
  BY <1>6, <1>8, <1>9, <1>14, Turn

\* A request ends.
LEMMA Ends ==
    ASSUME ModInv, NEW r \in Requests, M!Becomes(r, M!IdleJob), Tables', TablesMove
    PROVE  ModInv'
<1>1. M!IdleJob \in ModJobType /\ M!IdleJob.pc = "idle"
  BY DEF M!IdleJob, ModJobType
<1>2. QED
  BY <1>1, Turn

LEMMA StepNotify ==
    ASSUME ModInv, NEW r \in Requests, M!Notify(r)
    PROVE  ModInv'
<1>1. modJob[r].pc = "notify" /\ Told(modJob[r], modJob[r].reached, ticket)
  BY Actor DEF Sound, M!Notify
<1>2. modJob[r].ticket \in Tickets
  BY <1>1 DEF Told
<1>3. notices' \subseteq Tickets
  BY <1>2 DEF M!Notify, ModInv, Tables
<1>4. UNCHANGED <<banned, timedOut, last, listed, ticket, unbans>> /\ M!Becomes(r, M!IdleJob)
  BY DEF M!Notify, M!accounts
<1>5. Tables' /\ TablesMove
  BY <1>3, <1>4 DEF ModInv, Tables, TablesMove, M!Blank, Filed
<1>6. QED
  BY <1>4, <1>5, Ends

LEMMA StepAbandon ==
    ASSUME ModInv, NEW r \in Requests, M!Abandon(r)
    PROVE  ModInv'
<1>1. Tables' /\ TablesMove
  BY Quiet DEF ModInv, M!Abandon
<1>2. QED
  BY <1>1, Ends DEF M!Abandon

LEMMA StepRemoveBan ==
    ASSUME ModInv, NEW r \in Requests, NEW u \in People, M!RemoveBan(r, u)
    PROVE  ModInv'
<1>1. Tables' /\ TablesMove
  BY Quiet DEF ModInv, M!RemoveBan
<1>2. PICK f : f = [M!Frame(u) EXCEPT !.ban = FALSE]
  OBVIOUS
<1>3. PICK k : k = M!Ban(f)
  OBVIOUS
<1>4. M!Becomes(r, k)
  BY <1>2, <1>3 DEF M!RemoveBan, M!Begins
<1>5. unbans' \in Nat
  BY <1>1 DEF Tables
<1>6. k \in ModJobType /\ Sound(k, Known(k)', Blocks(k)', banned', unbans', ticket')
  BY <1>2, <1>3, <1>5, BeginBan
<1>7. QED
  BY <1>1, <1>4, <1>6, Turn

-----------------------------------------------------------------------------
\* ban_user

\* What holds of the request whose last frame acts.
Acting(r, at, j, f) ==
    /\ j = modJob[r] /\ f = M!Top(r) /\ f = j.stack[Len(j.stack)] /\ f.at = at
    /\ j.stack # << >> /\ j.stack \in Seq(FrameType) /\ Len(j.stack) \in Nat \ {0}
    /\ Len(j.stack) \in 1 .. Len(j.stack) /\ 1 \in 1 .. Len(j.stack)
    /\ \A i \in 1 .. Len(j.stack) : j.stack[i] \in FrameType
    /\ j.pc = "ban" /\ Holds(j) /\ Stacked(j) /\ Covers(j, j.reached, j.blocked)
    /\ Deep(j.stack, banned, unbans) /\ Told(j, j.reached, ticket) /\ unbans \in Nat
    /\ j.verdict # "timeout" /\ banned \subseteq j.reached
    /\ {x.ip : x \in listed} \subseteq j.blocked
    /\ \A p \in j.near : M!Shares(p[1], p[2])

LEMMA Acts ==
    ASSUME ModInv, NEW r \in Requests, NEW at, M!Pending(r, at)
    PROVE  \E j \in ModJobType, f \in FrameType : Acting(r, at, j, f)
<1>1. PICK j \in ModJobType : j = modJob[r]
  BY Actor
<1>2. j.stack # << >>
  BY <1>1 DEF M!Pending
<1>3. PICK f \in FrameType : f = j.stack[Len(j.stack)]
  BY <1>2, TopFrame
<1>4. f = M!Top(r) /\ f.at = at
  BY <1>1, <1>3 DEF M!Pending, M!Top
<1>5. /\ j.stack \in Seq(FrameType) /\ Len(j.stack) \in Nat \ {0}
      /\ Len(j.stack) \in 1 .. Len(j.stack) /\ 1 \in 1 .. Len(j.stack)
      /\ \A i \in 1 .. Len(j.stack) : j.stack[i] \in FrameType
  BY <1>2, TopFrame
<1>6. /\ Holds(j) /\ Stacked(j) /\ Covers(j, j.reached, j.blocked)
      /\ Deep(j.stack, banned, unbans) /\ Told(j, j.reached, ticket) /\ unbans \in Nat
  BY <1>1, Actor DEF Sound
<1>7. j.pc = "ban" /\ j.verdict # "timeout"
  BY <1>2, <1>6 DEF Holds
<1>8. /\ banned \subseteq j.reached /\ {x.ip : x \in listed} \subseteq j.blocked
      /\ \A p \in j.near : M!Shares(p[1], p[2])
  BY <1>1, <1>7, Actor DEF Fresh
<1>9. QED
  BY <1>1, <1>2, <1>3, <1>4, <1>5, <1>6, <1>7, <1>8 DEF Acting

\* The tables a frame writes; whom the request knows of afterwards.
LEMMA Grows ==
    ASSUME NEW k, k.verdict # "timeout"
    PROVE  \E R, L : /\ R = Known(k)' /\ L = Blocks(k)' /\ k.reached \subseteq R /\ banned' \subseteq R
                     /\ k.blocked \subseteq L /\ {x.ip : x \in listed'} \subseteq L
<1>1. PICK R, L : R = Known(k)' /\ L = Blocks(k)'
  OBVIOUS
<1>2. k.reached \subseteq R /\ banned' \subseteq R /\ k.blocked \subseteq L
      /\ {x.ip : x \in listed'} \subseteq L
  BY <1>1 DEF Known, Blocks
<1>3. QED
  BY <1>1, <1>2

\* Stacks stay in order when the last frame goes on.
LEMMA StackedPut ==
    ASSUME NEW j, NEW k, NEW g, NEW n \in Nat \ {0}, Len(j.stack) = n, Len(k.stack) = n,
           k.stack[n] = g, \A i \in 1 .. n : i # n => k.stack[i] = j.stack[i], Stacked(j),
           g.ban => g.at # "unlist",
           ~g.ban => n = 1 /\ g.at \in {"select", "update", "unlist"},
           g.at \in {"find", "list", "share"} => g.ips # << >>,
           g.at = "update" => Len(g.ips) = 2,
           g.at # "visit" => g.todo = {}
    PROVE  Stacked(k)
<1>1. ASSUME NEW i \in 1 .. n
      PROVE  /\ i < n => k.stack[i].at = "visit"
             /\ k.stack[i].ban => k.stack[i].at # "unlist"
             /\ ~k.stack[i].ban => n = 1 /\ k.stack[i].at \in {"select", "update", "unlist"}
             /\ k.stack[i].at \in {"find", "list", "share"} => k.stack[i].ips # << >>
             /\ k.stack[i].at = "update" => Len(k.stack[i].ips) = 2
             /\ k.stack[i].at # "visit" => k.stack[i].todo = {}
  <2>1. CASE i = n
    BY <2>1
  <2>2. CASE i # n
    BY <2>2 DEF Stacked
  <2>3. QED
    BY <2>1, <2>2
<1>2. QED
  BY <1>1 DEF Stacked

\* An unban is a frame alone.
LEMMA TopBan ==
    ASSUME NEW r, NEW at, NEW j, NEW f, Acting(r, at, j, f), f.ban \in BOOLEAN
    PROVE  f.ban \/ (Len(j.stack) = 1 /\ at \in {"select", "update", "unlist"})
<1>1. f = j.stack[Len(j.stack)] /\ Len(j.stack) \in 1 .. Len(j.stack) /\ f.at = at /\ Stacked(j)
  BY DEF Acting
<1>2. QED
  BY <1>1 DEF Stacked

\* Below the last frame are bans that visit.
LEMMA LowerFrames ==
    ASSUME NEW r, NEW at, NEW j, NEW f, Acting(r, at, j, f)
    PROVE  \A i \in 1 .. Len(j.stack) : i # Len(j.stack) => j.stack[i].ban /\ Past(j.stack[i])
<1>1. Stacked(j) /\ Len(j.stack) \in Nat \ {0} /\ \A i \in 1 .. Len(j.stack) : j.stack[i] \in FrameType
  BY DEF Acting
<1>2. PICK n \in Nat : n = Len(j.stack)
  BY <1>1
<1>3. ASSUME NEW i \in 1 .. n, i # n
      PROVE  j.stack[i].ban /\ Past(j.stack[i])
  <2>1. i < n /\ n # 1
    BY <1>3
  <2>2. PICK g \in FrameType : g = j.stack[i]
    BY <1>1, <1>2
  <2>3. g.ban \in BOOLEAN
    BY DEF FrameType
  <2>4. g.at = "visit" /\ (~g.ban => n = 1)
    BY <1>1, <1>2, <2>1, <2>2 DEF Stacked
  <2>5. QED
    BY <2>1, <2>2, <2>3, <2>4 DEF Past
<1>4. QED
  BY <1>2, <1>3

LEMMA StepSelectAddresses ==
    ASSUME ModInv, NEW r \in Requests, M!SelectAddresses(r)
    PROVE  ModInv'
<1>1. PICK j \in ModJobType, f \in FrameType : Acting(r, "select", j, f)
  BY Acts DEF M!SelectAddresses
<1> USE DEF Acting, Replaced, Returned
<1>2. /\ Tables' /\ TablesMove /\ banned' = banned /\ timedOut' = timedOut /\ last' = last
      /\ listed' = listed /\ ticket' = ticket /\ unbans' = unbans
  BY Quiet DEF ModInv, M!SelectAddresses
<1>3. f.who \in People /\ Registration[f.who] \in Addresses /\ last[f.who] \in Addresses
  BY ServicesAssumption DEF ModInv, Tables, FrameType
<1>4. PICK ips : ips = <<Registration[f.who], last[f.who]>>
  OBVIOUS
<1>5. ips \in Seq(Addresses) /\ Len(ips) = 2 /\ ips[1] = Registration[f.who] /\ ips[2] = last[f.who]
  BY <1>3, <1>4
<1>6. PICK g : g = [f EXCEPT !.at = "update", !.ips = ips]
  OBVIOUS
<1>7. g \in FrameType /\ g.at = "update" /\ g.ips = ips /\ g.who = f.who /\ g.ban = f.ban
      /\ g.todo = f.todo
  BY <1>5, <1>6 DEF FrameType
<1>8. PICK m \in ModJobType : Replaced(j, g, m)
  <2> HIDE DEF Replaced
  <2>1. QED
    BY <1>1, <1>7, ReplaceFields
<1>9. PICK needs, near : needs = {ips[1], ips[2]}
                         /\ near = {p \in People \X needs : M!Shares(p[1], p[2])}
  OBVIOUS
<1>10. needs \subseteq Addresses /\ near \subseteq People \X Addresses
  BY <1>3, <1>5, <1>9
<1>11. PICK k : k = IF Len(j.stack) = 1 /\ f.ban THEN [m EXCEPT !.needs = needs, !.near = near] ELSE m
  OBVIOUS
<1>12. M!Becomes(r, k)
  BY <1>1, <1>4, <1>6, <1>8, <1>9, <1>11 DEF M!SelectAddresses
<1>13. /\ k \in ModJobType /\ k.pc = j.pc /\ k.ticket = j.ticket /\ k.verdict = j.verdict
       /\ k.reached = j.reached /\ k.blocked = j.blocked /\ k.failed = j.failed
       /\ k.stack = m.stack /\ k.who = j.who /\ k.ip = j.ip
  BY <1>8, <1>10, <1>11 DEF ModJobType
<1>14. Len(j.stack) = 1 /\ f.ban => k.needs = needs /\ k.near = near
  BY <1>11 DEF ModJobType
<1>15. ~(Len(j.stack) = 1 /\ f.ban) => k.needs = j.needs /\ k.near = j.near
  BY <1>8, <1>11
<1>16. Holds(k)
  BY <1>1, <1>8, <1>13 DEF Holds
<1>17. Stacked(k)
  <2>1. f.ban \/ Len(j.stack) = 1
    BY ZenonT(30), <1>1, <1>7, TopBan DEF FrameType
  <2>2. PICK n \in Nat \ {0} : n = Len(j.stack)
    BY <1>1
  <2>3. Len(k.stack) = n /\ k.stack[n] = g /\ \A i \in 1 .. n : i # n => k.stack[i] = j.stack[i]
    BY <1>8, <1>13, <2>2
  <2>4. g.todo = {}
    BY <1>1, <1>7 DEF Stacked
  <2>5. /\ g.ban => g.at # "unlist"
        /\ ~g.ban => n = 1 /\ g.at \in {"select", "update", "unlist"}
        /\ g.at \in {"find", "list", "share"} => g.ips # << >>
        /\ g.at # "visit" => g.todo = {}
    BY <1>7, <2>1, <2>2, <2>4
  <2>6. g.at = "update" => Len(g.ips) = 2
    BY <1>5, <1>7
  <2>7. Stacked(j) /\ Len(j.stack) = n
    BY <1>1, <2>2
  <2>8. QED
    BY <2>3, <2>5, <2>6, <2>7, StackedPut
<1>18. Deep(k.stack, banned', unbans')
  <2>1. PICK s, t, n : s = j.stack /\ t = k.stack /\ n = unbans'
    OBVIOUS
  <2>2. /\ s \in Seq(FrameType) /\ s # << >> /\ t \in Seq(FrameType) /\ n \in Nat
        /\ Len(t) = Len(s) /\ \A i \in 1 .. Len(s) : i # Len(s) => t[i] = s[i]
        /\ t[Len(s)] = g /\ s[Len(s)] = f
    BY <1>1, <1>2, <1>8, <1>13, <2>1
  <2>3. g.who = f.who /\ g.ban = f.ban /\ g.todo \subseteq f.todo /\ ~Past(g)
    BY <1>7 DEF Past
  <2>4. Deep(s, banned', n)
    BY <1>1, <1>2, <2>1
  <2>5. Deep(t, banned', n)
    <3> HIDE DEF Acting, Replaced, Returned
    <3>1. QED
      BY <2>2, <2>3, <2>4, DeepPut
  <2>6. QED
    BY <2>1, <2>5
<1>19. PICK R, L : /\ R = Known(k)' /\ L = Blocks(k)' /\ k.reached \subseteq R /\ banned' \subseteq R
                   /\ k.blocked \subseteq L /\ {x.ip : x \in listed'} \subseteq L
  BY <1>1, <1>2, <1>13, Grows
<1>20. Told(k, R, ticket')
  BY <1>1, <1>2, <1>7, <1>8, <1>13, <1>19 DEF Told, Past
<1>21. Covers(k, R, L)
  <2>1. CASE Len(j.stack) = 1 /\ f.ban
    <3>1. k.stack[1] = g /\ k.needs = needs /\ k.near = near /\ Len(k.stack) = 1
      BY <2>1, <1>8, <1>13, <1>14
    <3>2. \A ip \in needs : ToCome(g, ip)
      BY <1>5, <1>7, <1>9 DEF ToCome
    <3>3. \A p \in near : p[2] \in needs
      BY <1>9
    <3>4. QED
      BY <3>1, <3>2, <3>3, <1>7 DEF Covers, Past
  <2>2. CASE Len(j.stack) = 1 /\ ~f.ban
    BY <2>2, <1>7, <1>8, <1>13 DEF Covers
  <2>3. CASE Len(j.stack) # 1
    <3>1. k.stack[1] = j.stack[1] /\ k.needs = j.needs /\ k.near = j.near
          /\ Len(k.stack) = Len(j.stack)
      BY ZenonT(30), <2>3, <1>1, <1>8, <1>13, <1>15
    <3>2. Len(k.stack) >= 2 => k.stack[2].who = j.stack[2].who /\ (Past(k.stack[2]) => Past(j.stack[2]))
      BY <1>1, <1>7, <1>8, <1>13 DEF Past
    <3>3. QED
      BY <3>1, <3>2, <1>1, <1>13, <1>19 DEF Covers
  <2>4. QED
    BY <2>1, <2>2, <2>3
<1>22. Sound(k, Known(k)', Blocks(k)', banned', unbans', ticket')
  BY <1>16, <1>17, <1>18, <1>19, <1>20, <1>21 DEF Sound
<1>23. QED
  BY <1>2, <1>12, <1>13, <1>22, Turn

\* Frame f, at "at", becomes g, of the same account; no address is lost to the
\* ban, nor an account that shares one.
NextFrame(at, f, g) ==
    /\ g.who = f.who /\ g.ban = f.ban /\ at # "select" /\ g.at # "select"
    /\ ~g.ban => g.at \in {"select", "update", "unlist"}
    /\ g.ban => g.at # "unlist"
    /\ g.at \in {"find", "list", "share"} => g.ips # << >>
    /\ g.at = "update" => Len(g.ips) = 2
    /\ g.at # "visit" => g.todo = {}
    /\ g.ban /\ Past(g) => g.who \in banned' \/ at # "update"
    /\ g.todo = f.todo \/ g.todo \cap (banned' \cup {g.who}) = {}
    /\ at = "visit" => g.todo = f.todo
    /\ g.at = "share" => g.ips[1] \in {x.ip : x \in listed'}
    /\ \A ip \in Addresses : ToCome(f, ip) =>
          \/ ToCome(g, ip)
          \/ at = "share" /\ ip = f.ips[1]
             /\ \A u \in People : M!Shares(u, ip) => u \in g.todo \cup banned' \cup {g.who}

LEMMA FrameGoesOn ==
    ASSUME ModInv, NEW r \in Requests, NEW at, M!Pending(r, at), NEW g \in FrameType,
           M!Becomes(r, M!Replace(modJob[r], g)), Tables', TablesMove,
           NextFrame(at, M!Top(r), g)
    PROVE  ModInv'
<1>1. PICK j \in ModJobType, f \in FrameType : Acting(r, at, j, f)
  BY Acts
<1>a. NextFrame(at, f, g)
  BY <1>1 DEF Acting
<1> USE DEF Acting, Replaced, NextFrame
<1>2. PICK k \in ModJobType : Replaced(j, g, k)
  <2> HIDE DEF Replaced
  <2>1. QED
    BY <1>1, <1>a, ReplaceFields
<1>3. Holds(k)
  BY <1>1, <1>a, <1>2 DEF Holds
<1>4. Stacked(k)
  <2>1. f.ban \/ Len(j.stack) = 1
    <3> HIDE DEF Acting, Replaced, NextFrame
    <3>1. f.ban \in BOOLEAN
      BY DEF FrameType
    <3>2. QED
      BY <1>1, <3>1, TopBan
  <2>2. PICK n \in Nat \ {0} : n = Len(j.stack)
    BY <1>1
  <2>3. Len(k.stack) = n /\ k.stack[n] = g /\ \A i \in 1 .. n : i # n => k.stack[i] = j.stack[i]
    BY <1>2, <2>2
  <2>4. /\ g.ban => g.at # "unlist"
        /\ ~g.ban => n = 1 /\ g.at \in {"select", "update", "unlist"}
        /\ g.at \in {"find", "list", "share"} => g.ips # << >>
        /\ g.at = "update" => Len(g.ips) = 2
        /\ g.at # "visit" => g.todo = {}
    BY <1>a, <2>1, <2>2
  <2>5. Len(j.stack) = n /\ Stacked(j)
    BY <1>1, <2>2
  <2>6. QED
    <3> HIDE DEF Acting, Replaced, NextFrame
    <3>1. QED
      BY <2>2, <2>3, <2>4, <2>5, StackedPut
<1>5. PICK R, L : /\ R = Known(k)' /\ L = Blocks(k)' /\ k.reached \subseteq R /\ banned' \subseteq R
                  /\ k.blocked \subseteq L /\ {x.ip : x \in listed'} \subseteq L
  BY <1>1, <1>a, <1>2, Grows
<1>6. unbans' \in Nat
  BY DEF Tables
<1>7. Deep(k.stack, banned', unbans')
  <2>1. \A i \in 1 .. Len(j.stack) : i # Len(j.stack) => j.stack[i].ban /\ Past(j.stack[i])
    <3> HIDE DEF Acting, Replaced, NextFrame
    <3>1. QED
      BY <1>1, LowerFrames
  <2>2. g.ban /\ Past(g) => g.who \in banned' \/ (f.ban /\ Past(f))
    BY <1>1, <1>a DEF Past
  <2>3. g.todo \subseteq f.todo \/ g.todo \cap (banned' \cup {g.who}) = {}
    BY <1>1, <1>a
  <2>4. Deep(j.stack, banned', unbans')
    BY <1>1, <1>a, DeepStays DEF ModInv
  <2>5. PICK s, t, n : s = j.stack /\ t = k.stack /\ n = unbans'
    OBVIOUS
  <2>6. /\ s \in Seq(FrameType) /\ s # << >> /\ t \in Seq(FrameType) /\ n \in Nat
        /\ Len(t) = Len(s) /\ \A i \in 1 .. Len(s) : i # Len(s) => t[i] = s[i]
        /\ t[Len(s)] = g /\ s[Len(s)] = f
    BY <1>1, <1>2, <1>6, <2>5
  <2>7. g.who = f.who /\ g.ban = f.ban
    BY <1>a
  <2>8. \A i \in 1 .. Len(s) : i # Len(s) => s[i].ban /\ Past(s[i])
    BY <2>1, <2>5
  <2>9. Deep(s, banned', n)
    BY <2>4, <2>5
  <2>10. Deep(t, banned', n)
    <3> HIDE DEF Acting, Replaced, NextFrame
    <3>1. QED
      BY <2>2, <2>3, <2>6, <2>7, <2>8, <2>9, DeepPut
  <2>11. QED
    BY <2>5, <2>10
<1>8. Told(k, R, ticket')
  <2>1. k.verdict = "ban" => k.ticket \in Tickets /\ ticket[k.ticket] # M!Blank
    BY <1>1, <1>a, <1>2 DEF Told
  <2>2. k.verdict = "ban" => ticket'[k.ticket] # M!Blank /\ ticket'[k.ticket].of = ticket[k.ticket].of
    BY <2>1 DEF TablesMove
  <2>3. k.verdict = "ban" => k.stack[1].ban /\ k.stack[1].who = ticket[k.ticket].of
    BY <1>1, <1>a, <1>2 DEF Told
  <2>4. k.verdict = "ban" /\ Past(k.stack[1]) => k.stack[1].who \in R
    <3>1. CASE Len(j.stack) = 1
      BY <3>1, <1>1, <1>a, <1>2, <1>5, <2>3 DEF Told, Past
    <3>2. CASE Len(j.stack) # 1
      BY ZenonT(30), <3>2, <1>1, <1>a, <1>2, <1>5 DEF Told
    <3>3. QED
      BY <3>1, <3>2
  <2>5. QED
    BY ZenonT(30), <1>1, <1>a, <1>2, <2>1, <2>2, <2>3, <2>4 DEF Told
<1>9. Covers(k, R, L)
  <2>1. CASE Len(j.stack) = 1
    <3>1. SUFFICES ASSUME g.ban, ~k.failed
                   PROVE  /\ \A ip \in k.needs : ToCome(g, ip) \/ ip \in L
                          /\ g.at = "share" => g.ips[1] \in L
                          /\ Past(g) => g.who \in R
                          /\ \A p \in k.near : ToCome(g, p[2]) \/ p[1] \in R \cup g.todo
      <4>1. k.stack[1] = g /\ Len(k.stack) = 1
        BY <2>1, <1>2
      <4>2. QED
        BY <4>1 DEF Covers
    <3>2. /\ \A ip \in j.needs : ToCome(f, ip) \/ ip \in j.blocked
          /\ f.at = "share" => f.ips[1] \in j.blocked
          /\ Past(f) => f.who \in j.reached
          /\ \A p \in j.near : ToCome(f, p[2]) \/ p[1] \in j.reached \cup f.todo
      BY <2>1, <3>1, <1>1, <1>a, <1>2 DEF Covers
    <3>3. Past(g) => g.who \in R
      BY <3>2, <1>1, <1>a, <1>2, <1>5, <3>1 DEF Past
    <3>4. g.at = "share" => g.ips[1] \in L
      BY <3>1, <1>1, <1>a, <1>5
    <3>5. ASSUME NEW ip \in k.needs PROVE ToCome(g, ip) \/ ip \in L
      <4>1. ip \in Addresses
        BY <3>5 DEF ModJobType
      <4>2. QED
        BY ZenonT(30), <4>1, <3>2, <1>1, <1>a, <1>2, <1>5
    <3>6. ASSUME NEW p \in k.near PROVE ToCome(g, p[2]) \/ p[1] \in R \cup g.todo
      <4>1. p[1] \in People /\ p[2] \in Addresses
        BY <3>6 DEF ModJobType
      <4>2. CASE p[1] \in j.reached
        BY <4>2, <1>2, <1>5
      <4>3. CASE p[1] \in f.todo
        <5>1. at = "visit"
          BY ZenonT(30), <4>3, <1>1, <1>a DEF Stacked
        <5>2. QED
          BY <4>3, <5>1, <1>1, <1>a
      <4>4. CASE ToCome(f, p[2])
        <5>1. CASE ToCome(g, p[2])
          BY <5>1
        <5>2. CASE ~ToCome(g, p[2])
          <6>1. at = "share" /\ \A u \in People : M!Shares(u, p[2]) => u \in g.todo \cup banned' \cup {g.who}
            BY <4>1, <4>4, <5>2, <1>1, <1>a
          <6>2. M!Shares(p[1], p[2])
            BY <1>1, <1>a, <1>2, <3>6
          <6>3. Past(f)
            BY <6>1, <1>1, <1>a DEF Past
          <6>4. QED
            <7>1. p[1] \in g.todo \cup banned' \cup {g.who}
              BY <4>1, <6>1, <6>2
            <7>2. f.who \in j.reached
              BY <3>2, <6>3
            <7>3. g.who \in k.reached
              BY <7>2, <1>a, <1>2
            <7>4. banned' \subseteq R /\ k.reached \subseteq R
              BY <1>5
            <7>5. QED
              BY <7>1, <7>3, <7>4
        <5>3. QED
          BY <5>1, <5>2
      <4>5. QED
        BY <3>2, <1>2, <4>2, <4>3, <4>4
    <3>7. QED
      BY <3>3, <3>4, <3>5, <3>6
  <2>2. CASE Len(j.stack) # 1
    <3>1. k.stack[1] = j.stack[1] /\ Len(k.stack) = Len(j.stack)
      BY <2>2, <1>1, <1>a, <1>2
    <3>2. Len(k.stack) >= 2 => k.stack[2].who = j.stack[2].who
      BY <1>1, <1>a, <1>2
    <3>3. Len(k.stack) >= 2 /\ Past(k.stack[2]) => Past(j.stack[2]) \/ k.stack[2].who \in R
      <4>1. CASE Len(j.stack) = 2
        <5>1. k.stack[2] = g /\ j.stack[2] = f
          BY <4>1, <1>1, <1>a, <1>2
        <5>2. g.ban
          BY ZenonT(30), <1>1, <1>a, <2>2 DEF Stacked
        <5>3. QED
          BY <5>1, <5>2, <1>1, <1>a, <1>5 DEF Past
      <4>2. CASE Len(j.stack) # 2
        <5>1. PICK n \in Nat : n = Len(j.stack) /\ n # 2 /\ n # 1
          BY <4>2, <2>2, <1>1
        <5>2. n >= 2 => 2 \in 1 .. n /\ 2 # n
          BY <5>1
        <5>3. n >= 2 => k.stack[2] = j.stack[2]
          BY <1>2, <5>1, <5>2
        <5>4. QED
          BY <1>2, <5>1, <5>3
      <4>3. QED
        BY <4>1, <4>2
    <3>4. QED
      BY ZenonT(30), <3>1, <3>2, <3>3, <1>1, <1>a, <1>2, <1>5 DEF Covers
  <2>3. QED
    BY <2>1, <2>2
<1>10. Sound(k, Known(k)', Blocks(k)', banned', unbans', ticket')
  BY <1>3, <1>4, <1>5, <1>7, <1>8, <1>9 DEF Sound
<1>11. QED
  BY <1>1, <1>a, <1>2, <1>10, Turn

LEMMA StepUpdateBanned ==
    ASSUME ModInv, NEW r \in Requests, M!UpdateBanned(r)
    PROVE  ModInv'
<1>1. M!Pending(r, "update") /\ UNCHANGED <<timedOut, last, listed, ticket, notices>>
  BY DEF M!UpdateBanned
<1>2. PICK j \in ModJobType, f \in FrameType : Acting(r, "update", j, f)
  BY <1>1, Acts
<1> USE DEF Acting, Replaced, Returned
<1>3. PICK g : g = [f EXCEPT !.at = IF f.ban THEN "find" ELSE "unlist"]
  OBVIOUS
<1>4. g \in FrameType /\ g.at = (IF f.ban THEN "find" ELSE "unlist") /\ g.who = f.who
      /\ g.ban = f.ban /\ g.ips = f.ips /\ g.todo = f.todo
  BY <1>3 DEF FrameType
<1>5. f.who \in People /\ f.todo = {} /\ Len(f.ips) = 2 /\ f.ban \in BOOLEAN
  BY <1>2 DEF Stacked, FrameType
<1>6. g.ips # << >>
  <2>1. Len(<< >>) = 0
    BY EmptySeq
  <2>2. QED
    BY <1>4, <1>5, <2>1
<1>7. CASE f.ban
  <2>1. banned' = banned \cup {f.who} /\ unbans' = unbans
    BY <1>2, <1>7 DEF M!UpdateBanned
  <2>2. Tables' /\ TablesMove
    BY <1>1, <1>5, <2>1 DEF ModInv, Tables, TablesMove, M!Blank, Filed
  <2>3. M!Becomes(r, M!Replace(modJob[r], g))
    BY <1>2, <1>3 DEF M!UpdateBanned
  <2>4. g.at = "find" /\ g.ban
    BY <1>4, <1>7
  <2>5. \A ip \in Addresses : ToCome(f, ip) => ToCome(g, ip)
    BY <1>4 DEF ToCome
  <2>6. NextFrame("update", f, g)
    BY <1>4, <1>5, <1>6, <2>1, <2>4, <2>5 DEF NextFrame
  <2>7. QED
    BY <1>1, <1>2, <1>4, <2>2, <2>3, <2>6, FrameGoesOn
<1>8. CASE ~f.ban
  <2>1. banned' = banned \ {f.who} /\ unbans' = unbans + 1
    BY <1>2, <1>8 DEF M!UpdateBanned
  <2>2. Tables' /\ TablesMove
    BY <1>1, <1>5, <2>1 DEF ModInv, Tables, TablesMove, M!Blank, Filed
  <2>3. M!Becomes(r, M!Replace(modJob[r], g))
    BY <1>2, <1>3 DEF M!UpdateBanned
  <2>4. g.at = "unlist" /\ ~g.ban
    BY <1>4, <1>8
  <2>5. \A ip \in Addresses : ToCome(f, ip) => ToCome(g, ip)
    BY <1>4 DEF ToCome
  <2>6. NextFrame("update", f, g)
    BY <1>4, <1>5, <1>6, <2>1, <2>4, <2>5 DEF NextFrame
  <2>7. QED
    BY <1>1, <1>2, <1>4, <2>2, <2>3, <2>6, FrameGoesOn
<1>9. QED
  BY <1>7, <1>8

LEMMA StepFindAddress ==
    ASSUME ModInv, NEW r \in Requests, M!FindAddress(r)
    PROVE  ModInv'
<1>1. M!Pending(r, "find")
  BY DEF M!FindAddress
<1>2. /\ Tables' /\ TablesMove /\ banned' = banned /\ last' = last /\ listed' = listed
  BY Quiet DEF ModInv, M!FindAddress
<1>3. PICK j \in ModJobType, f \in FrameType : Acting(r, "find", j, f)
  BY <1>1, Acts
<1> USE DEF Acting, Replaced, Returned
<1>4. f.ips # << >> /\ f.todo = {} /\ f.ban /\ f.ips \in Seq(Addresses)
  BY <1>3 DEF Stacked, FrameType
<1>5. PICK g : g = [f EXCEPT !.at = IF \E x \in listed : x.ip = Head(f.ips) THEN "share" ELSE "list"]
  OBVIOUS
<1>6. g \in FrameType /\ g.at = (IF \E x \in listed : x.ip = Head(f.ips) THEN "share" ELSE "list")
      /\ g.who = f.who /\ g.ban = f.ban /\ g.ips = f.ips /\ g.todo = f.todo
  BY <1>5 DEF FrameType
<1>7. M!Becomes(r, M!Replace(modJob[r], g))
  BY <1>3, <1>5 DEF M!FindAddress
<1>8. g.at = "share" => g.ips[1] \in {x.ip : x \in listed'}
  BY <1>2, <1>4, <1>6
<1>9. \A ip \in Addresses : ToCome(f, ip) => ToCome(g, ip)
  BY <1>6 DEF ToCome
<1>10. g.at \in {"share", "list"}
  BY <1>6
<1>11. NextFrame("find", f, g)
  BY <1>4, <1>6, <1>8, <1>9, <1>10 DEF NextFrame
<1>12. QED
  BY <1>1, <1>2, <1>3, <1>6, <1>7, <1>11, FrameGoesOn

LEMMA StepListAddress ==
    ASSUME ModInv, NEW r \in Requests, M!ListAddress(r)
    PROVE  ModInv'
<1>1. M!Pending(r, "list") /\ UNCHANGED <<banned, timedOut, last, ticket, notices, unbans>>
  BY DEF M!ListAddress
<1>2. PICK j \in ModJobType, f \in FrameType : Acting(r, "list", j, f)
  BY <1>1, Acts
<1> USE DEF Acting, Replaced, Returned
<1>3. f.ips # << >> /\ f.todo = {} /\ f.ban /\ f.ips \in Seq(Addresses) /\ f.who \in People
  BY SMTT(30), <1>2 DEF Stacked, FrameType
<1>4. Head(f.ips) = f.ips[1] /\ f.ips[1] \in Addresses
  BY <1>3, EmptySeq, ElementOfSeq
<1>5. listed' = listed \cup {[ip |-> Head(f.ips), user |-> f.who]}
  BY <1>2 DEF M!ListAddress
<1>6. Tables' /\ TablesMove
  BY <1>1, <1>3, <1>4, <1>5 DEF ModInv, Tables, TablesMove, M!Blank, Filed, ListedType
<1>7. PICK g : g = [f EXCEPT !.at = "share"]
  OBVIOUS
<1>8. g \in FrameType /\ g.at = "share" /\ g.who = f.who /\ g.ban = f.ban /\ g.ips = f.ips
      /\ g.todo = f.todo
  BY <1>7 DEF FrameType
<1>9. M!Becomes(r, M!Replace(modJob[r], g))
  BY <1>2, <1>7 DEF M!ListAddress
<1>10. g.ips[1] \in {x.ip : x \in listed'}
  <2>1. PICK x : x = [ip |-> Head(f.ips), user |-> f.who]
    OBVIOUS
  <2>2. x \in listed' /\ x.ip = g.ips[1]
    BY <1>4, <1>5, <1>8, <2>1
  <2>3. QED
    BY <2>2
<1>11. \A ip \in Addresses : ToCome(f, ip) => ToCome(g, ip)
  BY <1>8 DEF ToCome
<1>12. NextFrame("list", f, g)
  BY <1>3, <1>8, <1>10, <1>11 DEF NextFrame
<1>13. QED
  BY <1>1, <1>2, <1>6, <1>8, <1>9, <1>12, FrameGoesOn

LEMMA StepShareAddress ==
    ASSUME ModInv, NEW r \in Requests, M!ShareAddress(r)
    PROVE  ModInv'
<1>1. M!Pending(r, "share")
  BY DEF M!ShareAddress
<1>2. /\ Tables' /\ TablesMove /\ banned' = banned /\ last' = last /\ listed' = listed
  BY Quiet DEF ModInv, M!ShareAddress
<1>3. PICK j \in ModJobType, f \in FrameType : Acting(r, "share", j, f)
  BY <1>1, Acts
<1> USE DEF Acting, Replaced, Returned
<1>4. f.ips # << >> /\ f.todo = {} /\ f.ban /\ f.ips \in Seq(Addresses) /\ f.who \in People
  BY SMTT(30), <1>3 DEF Stacked, FrameType
<1>5. Head(f.ips) = f.ips[1]
  BY <1>4
<1>6. PICK rest : rest = Tail(f.ips)
  OBVIOUS
<1>7. /\ rest \in Seq(Addresses) /\ Len(rest) = Len(f.ips) - 1 /\ Len(f.ips) \in Nat \ {0}
      /\ \A i \in 1 .. Len(rest) : rest[i] = f.ips[i + 1]
  BY <1>4, <1>6, HeadTailProperties, EmptySeq
<1>8. PICK todo : todo = M!Sharing(f)
  OBVIOUS
<1>9. todo \subseteq People /\ todo \cap (banned' \cup {f.who}) = {}
      /\ \A u \in People : M!Shares(u, f.ips[1]) => u \in todo \cup banned' \cup {f.who}
  BY <1>2, <1>5, <1>8 DEF M!Sharing
<1>10. PICK g : g = [f EXCEPT !.at = "visit", !.ips = rest, !.todo = todo]
  OBVIOUS
<1>11. g \in FrameType /\ g.at = "visit" /\ g.who = f.who /\ g.ban = f.ban /\ g.ips = rest
       /\ g.todo = todo
  BY <1>7, <1>9, <1>10 DEF FrameType
<1>12. M!Becomes(r, M!Replace(modJob[r], g))
  BY <1>3, <1>6, <1>8, <1>10 DEF M!ShareAddress
<1>13. ASSUME NEW ip \in Addresses, ToCome(f, ip) PROVE ToCome(g, ip) \/ ip = f.ips[1]
  <2>1. PICK i \in 1 .. Len(f.ips) : f.ips[i] = ip
    BY <1>13 DEF ToCome
  <2>2. CASE i = 1
    BY <2>1, <2>2
  <2>3. CASE i # 1
    <3>1. PICK n \in Nat \ {0} : n = Len(f.ips)
      BY <1>7
    <3>2. i - 1 \in 1 .. Len(rest) /\ (i - 1) + 1 = i
      BY <1>7, <2>3, <3>1
    <3>3. rest[i - 1] = ip
      BY <1>7, <2>1, <3>2
    <3>4. QED
      BY <1>11, <3>2, <3>3 DEF ToCome
  <2>4. QED
    BY <2>2, <2>3
<1>14. NextFrame("share", f, g)
  BY <1>4, <1>9, <1>11, <1>13 DEF NextFrame
<1>15. QED
  BY <1>1, <1>2, <1>3, <1>11, <1>12, <1>14, FrameGoesOn

\* The last frame returns.
LEMMA FrameReturns ==
    ASSUME ModInv, NEW r \in Requests, NEW at, M!Pending(r, at), Tables', TablesMove,
           NEW b \in BOOLEAN, NEW i \in ModJobType, i = [modJob[r] EXCEPT !.failed = b],
           modJob[r].failed => b,
           M!Becomes(r, M!Return(i)),
           b \/ Past(M!Top(r)),
           Len(modJob[r].stack) = 1 /\ modJob[r].verdict = "ban" => Past(M!Top(r))
    PROVE  ModInv'
<1>1. PICK j \in ModJobType, f \in FrameType : Acting(r, at, j, f)
  BY Acts
<1> USE DEF Acting, Replaced, Returned
<1>2. /\ i.pc = j.pc /\ i.who = j.who /\ i.ip = j.ip /\ i.ticket = j.ticket
      /\ i.verdict = j.verdict /\ i.near = j.near /\ i.reached = j.reached
      /\ i.needs = j.needs /\ i.blocked = j.blocked /\ i.failed = b /\ i.stack = j.stack
  BY <1>1 DEF ModJobType
<1>3. PICK k \in ModJobType : Returned(i, k)
  <2> HIDE DEF Returned
  <2>1. QED
    BY <1>1, <1>2, ReturnFields
<1>4. M!Becomes(r, k)
  BY <1>3
<1>5. PICK R, L : /\ R = Known(k)' /\ L = Blocks(k)' /\ k.reached \subseteq R /\ banned' \subseteq R
                  /\ k.blocked \subseteq L /\ {x.ip : x \in listed'} \subseteq L
  BY <1>1, <1>2, <1>3, Grows
<1>6. unbans' \in Nat
  BY DEF Tables
<1>7. j.verdict = "ban" => j.ticket \in Tickets /\ ticket'[j.ticket] # M!Blank
                           /\ ticket'[j.ticket].of = ticket[j.ticket].of
                           /\ j.stack[1].ban /\ j.stack[1].who = ticket[j.ticket].of
                           /\ (Past(j.stack[1]) => j.stack[1].who \in j.reached)
  BY <1>1 DEF Told, TablesMove
<1>8. CASE Len(j.stack) = 1
  <2>1. CASE j.verdict = "ban"
    <3>1. k.stack = << >> /\ k.pc = "notify" /\ k.verdict = "ban"
      BY <1>2, <1>3, <1>8, <2>1
    <3>2. j.stack[1].who \in j.reached
      BY <1>1, <1>7, <1>8, <2>1
    <3>3. ticket'[k.ticket].of \in R
      BY <1>2, <1>3, <1>5, <1>7, <2>1, <3>2
    <3>4. Holds(k) /\ Told(k, R, ticket')
      BY <1>2, <1>3, <1>7, <2>1, <3>1, <3>3 DEF Holds, Told
    <3>5. Sound(k, Known(k)', Blocks(k)', banned', unbans', ticket')
      BY <1>5, <1>6, <3>1, <3>4, NoFrame
    <3>6. QED
      BY <1>4, <3>5, Turn
  <2>2. CASE j.verdict # "ban"
    <3>1. k.pc = "idle"
      BY <1>2, <1>3, <1>8, <2>2
    <3>2. QED
      BY <1>4, <3>1, Turn
  <2>3. QED
    BY <2>1, <2>2
<1>9. CASE Len(j.stack) # 1
  <2>1. PICK n \in Nat : n = Len(j.stack) /\ n >= 2
    <3>1. PICK n \in Nat \ {0} : n = Len(j.stack)
      BY <1>1
    <3>2. n # 1
      BY <1>9, <3>1
    <3>3. n >= 2
      BY <3>2
    <3>4. QED
      BY <3>1, <3>3
  <2>2. Len(k.stack) = n - 1 /\ k.stack[1] = j.stack[1] /\ k.stack # << >> /\ k.pc = "ban"
        /\ (n - 1 >= 2 => k.stack[2] = j.stack[2])
    <3>1. Len(k.stack) = n - 1 /\ k.stack # << >> /\ k.pc = "ban"
      BY <1>1, <1>2, <1>3, <1>9, <2>1
    <3>2. \A m \in 1 .. n - 1 : k.stack[m] = j.stack[m]
      BY SMTT(30), <1>2, <1>3, <3>1
    <3>3. 1 \in 1 .. n - 1 /\ (n - 1 >= 2 => 2 \in 1 .. n - 1)
      BY <2>1
    <3>4. QED
      BY <3>1, <3>2, <3>3
  <2>3. Holds(k)
    BY <1>1, <1>2, <1>3, <2>2 DEF Holds
  <2>4. Stacked(k)
    <3>1. \A m \in 1 .. Len(k.stack) :
            /\ m \in 1 .. Len(j.stack) /\ m < Len(j.stack) /\ k.stack[m] = j.stack[m]
      BY SMTT(30), <1>2, <1>3, <2>1, <2>2
    <3>2. QED
      BY SMTT(30), <3>1, <1>1, <1>9 DEF Stacked
  <2>5. Deep(k.stack, banned', unbans')
    <3>1. Deep(j.stack, banned', unbans')
      BY <1>1, DeepStays DEF ModInv
    <3>2. QED
      <4>1. PICK s, t, m : s = j.stack /\ t = k.stack /\ m = unbans'
        OBVIOUS
      <4>2. /\ s \in Seq(FrameType) /\ s # << >> /\ t \in Seq(FrameType) /\ m \in Nat
            /\ Len(t) = Len(s) - 1
        BY <1>1, <1>2, <1>3, <1>6, <4>1
      <4>3. \A p \in 1 .. Len(t) : t[p] = s[p]
        BY <1>2, <1>3, <4>1
      <4>4. Deep(t, banned', m)
        <5> HIDE DEF Acting, Replaced, Returned
        <5>1. QED
          BY <3>1, <4>1, <4>2, <4>3, DeepPop
      <4>5. QED
        BY <4>1, <4>4
  <2>6. Told(k, R, ticket')
    <3>1. k.verdict = j.verdict /\ k.ticket = j.ticket /\ k.reached = j.reached
      BY <1>2, <1>3
    <3>2. k.pc = "ban" /\ k.stack[1] = j.stack[1]
      BY <2>2
    <3>3. QED
      BY <1>5, <1>7, <3>1, <3>2 DEF Told
  <2>7. Covers(k, R, L)
    <3>1. CASE b
      BY <3>1, <1>2, <1>3 DEF Covers
    <3>2. CASE ~b
      <4>1. ~j.failed /\ Past(f)
        BY <3>2, <1>1
      <4>2. n = 2 => j.stack[2] = f
        BY <1>1, <2>1
      <4>3. SUFFICES ASSUME j.stack[1].ban, j.stack[1].at # "select"
                     PROVE  /\ \A ip \in k.needs : ToCome(j.stack[1], ip) \/ ip \in L
                            /\ j.stack[1].at = "share" => j.stack[1].ips[1] \in L
                            /\ Past(j.stack[1]) => j.stack[1].who \in R
                            /\ \A p \in k.near :
                                  \/ ToCome(j.stack[1], p[2]) \/ p[1] \in R \cup j.stack[1].todo
                                  \/ n - 1 >= 2 /\ p[1] = j.stack[2].who
                            /\ n - 1 >= 2 /\ Past(j.stack[2]) => j.stack[2].who \in R
        BY <2>2 DEF Covers
      <4>4. /\ \A ip \in j.needs : ToCome(j.stack[1], ip) \/ ip \in j.blocked
            /\ j.stack[1].at = "share" => j.stack[1].ips[1] \in j.blocked
            /\ Past(j.stack[1]) => j.stack[1].who \in j.reached
            /\ \A p \in j.near :
                  \/ ToCome(j.stack[1], p[2]) \/ p[1] \in j.reached \cup j.stack[1].todo
                  \/ p[1] = j.stack[2].who
            /\ Past(j.stack[2]) => j.stack[2].who \in j.reached
        BY <4>1, <4>3, <1>1, <2>1 DEF Covers
      <4>5. n = 2 => j.stack[2].who \in j.reached
        BY <4>1, <4>2, <4>4
      <4>6. n # 2 => n - 1 >= 2
        <5>1. n \in Nat /\ n >= 2
          BY <2>1
        <5> HIDE DEF Acting, Returned
        <5>2. QED
          BY <5>1
      <4>7. /\ k.needs = j.needs /\ k.near = j.near /\ j.reached \subseteq R
            /\ j.blocked \subseteq L
        BY <1>2, <1>3, <1>5
      <4>8. QED
        <5> HIDE DEF Acting, Returned
        <5>1. QED
          BY <4>4, <4>5, <4>6, <4>7
    <3>3. QED
      BY <3>1, <3>2
  <2>8. Sound(k, Known(k)', Blocks(k)', banned', unbans', ticket')
    BY <1>5, <2>3, <2>4, <2>5, <2>6, <2>7 DEF Sound
  <2>9. QED
    BY <1>4, <2>8, Turn
<1>10. QED
  BY <1>8, <1>9

LEMMA StepUnlist ==
    ASSUME ModInv, NEW r \in Requests, M!Unlist(r)
    PROVE  ModInv'
<1>1. M!Pending(r, "unlist") /\ UNCHANGED <<banned, timedOut, last, ticket, notices, unbans>>
      /\ listed' \subseteq listed
  BY DEF M!Unlist
<1>2. Tables' /\ TablesMove
  BY <1>1 DEF ModInv, Tables, TablesMove, M!Blank, Filed
<1>3. modJob[r] \in ModJobType
  BY Actor
<1>4. PICK b, i : b = modJob[r].failed /\ i = [modJob[r] EXCEPT !.failed = b]
  OBVIOUS
<1>5. b \in BOOLEAN /\ i \in ModJobType /\ i = modJob[r]
  BY <1>3, <1>4 DEF ModJobType
<1>6. Past(M!Top(r))
  BY <1>1 DEF M!Pending, Past
<1>7. M!Becomes(r, M!Return(i))
  BY <1>5 DEF M!Unlist
<1>8. QED
  BY <1>1, <1>2, <1>4, <1>5, <1>6, <1>7, FrameReturns

LEMMA StepBanFails ==
    ASSUME ModInv, NEW r \in Requests, M!BanFails(r)
    PROVE  ModInv'
<1>1. Tables' /\ TablesMove /\ modJob[r].stack # << >>
  BY Quiet DEF ModInv, M!BanFails
<1>2. modJob[r] \in ModJobType
  BY Actor
<1>3. PICK i : i = [modJob[r] EXCEPT !.failed = TRUE]
  OBVIOUS
<1>4. i \in ModJobType /\ i.stack = modJob[r].stack
  BY <1>2, <1>3 DEF ModJobType
<1>5. M!Becomes(r, IF Len(i.stack) = 1 THEN M!IdleJob ELSE M!Return(i))
  BY <1>3 DEF M!BanFails
<1>6. CASE Len(i.stack) = 1
  <2>1. M!Becomes(r, M!IdleJob)
    BY <1>5, <1>6
  <2>2. QED
    BY <1>1, <2>1, Ends
<1>7. CASE Len(i.stack) # 1
  <2>1. M!Becomes(r, M!Return(i))
    BY <1>5, <1>7
  <2>2. PICK at : at = M!Top(r).at
    OBVIOUS
  <2>3. M!Pending(r, at)
    BY <1>1, <2>2 DEF M!Pending
  <2>4. Len(modJob[r].stack) # 1
    BY <1>4, <1>7
  <2>5. QED
    BY <1>1, <1>3, <1>4, <2>1, <2>3, <2>4, FrameReturns
<1>8. QED
  BY <1>6, <1>7

\* The next account that shares the address is visited.
LEMMA FramePushes ==
    ASSUME ModInv, NEW r \in Requests, M!Pending(r, "visit"), NEW u \in M!Top(r).todo,
           Tables', TablesMove, banned' = banned, unbans' = unbans,
           NEW m, m = M!Replace(modJob[r], [M!Top(r) EXCEPT !.todo = M!Top(r).todo \ {u}]),
           M!Becomes(r, [m EXCEPT !.stack = Append(m.stack, M!Frame(u))])
    PROVE  ModInv'
<1>1. PICK j \in ModJobType, f \in FrameType : Acting(r, "visit", j, f)
  BY Acts
<1> USE DEF Acting, Replaced, Returned
<1>2. PICK g : g = [f EXCEPT !.todo = f.todo \ {u}]
  OBVIOUS
<1>3. g \in FrameType /\ g.at = "visit" /\ g.who = f.who /\ g.ban = f.ban /\ g.ips = f.ips
      /\ g.todo = f.todo \ {u} /\ u \in People /\ u \in f.todo
  BY <1>1, <1>2 DEF FrameType
<1>4. f.ban
  BY <1>1, TopBan DEF FrameType
<1>5. m = M!Replace(j, g)
  BY <1>1, <1>2
<1>6. m \in ModJobType /\ Replaced(j, g, m)
  <2>1. PICK k \in ModJobType : Replaced(j, g, k)
    <3> HIDE DEF Replaced
    <3>1. QED
      BY <1>1, <1>3, ReplaceFields
  <2>2. k = m
    BY <1>5, <2>1
  <2>3. QED
    BY <2>1, <2>2
<1>7. PICK h : h = M!Frame(u)
  OBVIOUS
<1>8. h \in FrameType /\ h.at = "select" /\ h.who = u /\ h.todo = {} /\ h.ban = TRUE
  <2>1. << >> \in Seq(Addresses)
    OBVIOUS
  <2>2. QED
    BY <1>3, <1>7, <2>1 DEF M!Frame, FrameType
<1>9. PICK st \in Seq(FrameType) :
            /\ st = Append(m.stack, h) /\ Len(st) = Len(m.stack) + 1 /\ Len(m.stack) \in Nat
            /\ st[Len(m.stack) + 1] = h /\ st # << >>
            /\ \A i \in 1 .. Len(m.stack) : st[i] = m.stack[i]
  BY <1>6, <1>8, Push
<1>10. PICK k : k = [m EXCEPT !.stack = st]
  OBVIOUS
<1>11. M!Becomes(r, k)
  BY <1>7, <1>9, <1>10
<1>12. /\ k \in ModJobType /\ k.stack = st /\ k.pc = j.pc /\ k.ticket = j.ticket
       /\ k.verdict = j.verdict /\ k.near = j.near /\ k.reached = j.reached
       /\ k.needs = j.needs /\ k.blocked = j.blocked /\ k.failed = j.failed
  BY <1>6, <1>9, <1>10 DEF ModJobType
<1>13. PICK n \in Nat \ {0} : n = Len(j.stack)
  BY <1>1
<1>14. Len(st) = n + 1 /\ st[n + 1] = h /\ st[n] = g
       /\ \A i \in 1 .. n : i # n => st[i] = j.stack[i]
  <2>1. Len(m.stack) = n /\ m.stack[n] = g /\ \A i \in 1 .. n : i # n => m.stack[i] = j.stack[i]
    BY <1>6, <1>13
  <2>2. Len(st) = n + 1 /\ st[n + 1] = h /\ \A i \in 1 .. n : st[i] = m.stack[i]
    BY <1>9, <2>1
  <2>3. n \in 1 .. n
    BY <1>13
  <2>4. QED
    BY <2>1, <2>2, <2>3
<1>15. \A i \in 1 .. n + 1 : i = n + 1 \/ i = n \/ (i \in 1 .. n /\ i # n)
  BY SMTT(30), <1>13
<1>16. Holds(k)
  BY <1>1, <1>9, <1>12 DEF Holds
<1>17. Stacked(k)
  <2>1. ASSUME NEW i \in 1 .. Len(st)
        PROVE  /\ i < Len(st) => st[i].at = "visit"
               /\ st[i].ban => st[i].at # "unlist"
               /\ ~st[i].ban => Len(st) = 1 /\ st[i].at \in {"select", "update", "unlist"}
               /\ st[i].at \in {"find", "list", "share"} => st[i].ips # << >>
               /\ st[i].at = "update" => Len(st[i].ips) = 2
               /\ st[i].at # "visit" => st[i].todo = {}
    <3>1. CASE i = n + 1
      BY <3>1, <1>8, <1>14
    <3>2. CASE i = n
      BY <3>2, <1>3, <1>4, <1>14
    <3>3. CASE i \in 1 .. n /\ i # n
      <4>1. st[i] = j.stack[i] /\ i < n /\ 1 < n
        BY <3>3, <1>14
      <4>2. QED
        BY ZenonT(30), <4>1, <3>3, <1>1, <1>13 DEF Stacked
    <3>4. QED
      BY <2>1, <3>1, <3>2, <3>3, <1>14, <1>15
  <2>2. QED
    BY <2>1, <1>12 DEF Stacked
<1>18. Deep(k.stack, banned', unbans')
  <2>1. \A i \in 1 .. Len(j.stack) : st[i].who = j.stack[i].who /\ st[i].ban = j.stack[i].ban
            /\ st[i].at = j.stack[i].at /\ st[i].todo \subseteq j.stack[i].todo
    BY ZenonT(30), <1>1, <1>3, <1>13, <1>14
  <2>2. Len(st) = Len(j.stack) + 1 /\ st[Len(j.stack) + 1] = h
    BY <1>13, <1>14
  <2>3. h.who \in j.stack[Len(j.stack)].todo
    BY SMTT(30), <1>1, <1>3, <1>8
  <2>4. Deep(st, banned, unbans)
    BY <2>1, <2>2, <2>3, <1>1, <1>8, DeepPush
  <2>5. QED
    BY <2>4, <1>12
<1>19. PICK R, L : /\ R = Known(k)' /\ L = Blocks(k)' /\ k.reached \subseteq R /\ banned' \subseteq R
                   /\ k.blocked \subseteq L /\ {x.ip : x \in listed'} \subseteq L
  BY <1>1, <1>12, Grows
<1>20. /\ st[1].who = j.stack[1].who /\ st[1].ban = j.stack[1].ban /\ st[1].at = j.stack[1].at
       /\ st[1].ips = j.stack[1].ips
  BY ZenonT(30), <1>1, <1>3, <1>13, <1>14
<1>21. Told(k, R, ticket')
  <2>1. k.verdict = "ban" => /\ k.ticket \in Tickets /\ ticket'[k.ticket] # M!Blank
                             /\ ticket'[k.ticket].of = ticket[k.ticket].of
    BY SMTT(30), <1>1, <1>12 DEF Told, TablesMove
  <2>2. k.verdict = "ban" => /\ st[1].ban /\ st[1].who = ticket[k.ticket].of
                             /\ (Past(st[1]) => st[1].who \in R)
    BY <1>1, <1>12, <1>19, <1>20 DEF Told, Past
  <2>3. QED
    BY <1>1, <1>12, <2>1, <2>2 DEF Told
<1>22. Covers(k, R, L)
  <2>1. SUFFICES ASSUME st[1].ban, st[1].at # "select", ~j.failed
                 PROVE  /\ \A ip \in j.needs : ToCome(st[1], ip) \/ ip \in L
                        /\ st[1].at = "share" => st[1].ips[1] \in L
                        /\ Past(st[1]) => st[1].who \in R
                        /\ \A p \in j.near :
                              ToCome(st[1], p[2]) \/ p[1] \in R \cup st[1].todo \/ p[1] = st[2].who
                        /\ Past(st[2]) => st[2].who \in R
    BY SMTT(30), <1>12, <1>14 DEF Covers
  <2>2. /\ \A ip \in j.needs : ToCome(j.stack[1], ip) \/ ip \in j.blocked
        /\ j.stack[1].at = "share" => j.stack[1].ips[1] \in j.blocked
        /\ Past(j.stack[1]) => j.stack[1].who \in j.reached
        /\ \A p \in j.near :
              \/ ToCome(j.stack[1], p[2]) \/ p[1] \in j.reached \cup j.stack[1].todo
              \/ n >= 2 /\ p[1] = j.stack[2].who
        /\ n >= 2 /\ Past(j.stack[2]) => j.stack[2].who \in j.reached
    BY <1>1, <1>13, <1>20, <2>1 DEF Covers
  <2>3. \A ip : ToCome(st[1], ip) <=> ToCome(j.stack[1], ip)
    BY <1>20 DEF ToCome
  <2>4. CASE n = 1
    <3>1. st[1] = g /\ st[2] = h /\ j.stack[1] = f
      BY <1>1, <1>13, <1>14, <2>4
    <3>2. \A p \in j.near : ToCome(st[1], p[2]) \/ p[1] \in R \cup st[1].todo \/ p[1] = st[2].who
      BY <2>2, <2>3, <2>4, <3>1, <1>3, <1>8, <1>12, <1>19
    <3>3. ~Past(st[2])
      BY <3>1, <1>8 DEF Past
    <3>4. Past(st[1]) => st[1].who \in R
      BY <1>12, <1>19, <1>20, <2>2 DEF Past
    <3>5. QED
      BY <2>2, <2>3, <3>2, <3>3, <3>4, <1>12, <1>19, <1>20
  <2>5. CASE n # 1
    <3>1. n >= 2 /\ st[1] = j.stack[1] /\ st[2].who = j.stack[2].who /\ st[2].at = j.stack[2].at
      <4>1. n >= 2 /\ 1 \in 1 .. n /\ 2 \in 1 .. n /\ 1 # n
        <5>1. n \in Nat \ {0} /\ n # 1
          BY <2>5
        <5> HIDE DEF Acting, Replaced, Returned
        <5>2. QED
          BY <5>1
      <4>2. st[1] = j.stack[1]
        BY <1>14, <4>1
      <4>3. st[2].who = j.stack[2].who /\ st[2].at = j.stack[2].at
        <5>1. CASE n = 2
          BY ZenonT(30), <1>1, <1>3, <1>13, <1>14, <5>1
        <5>2. CASE n # 2
          BY <1>14, <4>1, <5>2
        <5>3. QED
          BY <5>1, <5>2
      <4>4. QED
        BY <4>1, <4>2, <4>3
    <3>2. QED
      BY <2>2, <3>1, <1>12, <1>19 DEF Past
  <2>6. QED
    BY <2>4, <2>5
<1>23. Sound(k, Known(k)', Blocks(k)', banned', unbans', ticket')
  BY <1>16, <1>17, <1>18, <1>19, <1>21, <1>22 DEF Sound
<1>24. QED
  BY <1>11, <1>12, <1>23, Turn

LEMMA StepVisit ==
    ASSUME ModInv, NEW r \in Requests, M!Visit(r)
    PROVE  ModInv'
<1>1. M!Pending(r, "visit")
  BY DEF M!Visit
<1>2. Tables' /\ TablesMove /\ banned' = banned /\ last' = last /\ listed' = listed /\ unbans' = unbans
  BY Quiet DEF ModInv, M!Visit
<1>3. PICK j \in ModJobType, f \in FrameType : Acting(r, "visit", j, f)
  BY <1>1, Acts
<1> USE DEF Acting, Replaced, Returned
<1>4. f.ban
  BY <1>3 DEF Stacked, FrameType
<1>5. CASE f.todo # {}
  <2>1. PICK u \in f.todo :
              M!Becomes(r, LET rest == M!Replace(j, [f EXCEPT !.todo = f.todo \ {u}]) IN
                           [rest EXCEPT !.stack = Append(rest.stack, M!Frame(u))])
    BY <1>3, <1>5 DEF M!Visit
  <2>2. PICK m : m = M!Replace(j, [f EXCEPT !.todo = f.todo \ {u}])
    OBVIOUS
  <2>3. M!Becomes(r, [m EXCEPT !.stack = Append(m.stack, M!Frame(u))])
    BY <2>1, <2>2
  <2>4. QED
    BY <1>1, <1>2, <1>3, <2>2, <2>3, FramePushes
<1>6. CASE f.todo = {} /\ f.ips # << >>
  <2>1. PICK g : g = [f EXCEPT !.at = "find"]
    OBVIOUS
  <2>2. g \in FrameType /\ g.at = "find" /\ g.who = f.who /\ g.ban = f.ban /\ g.ips = f.ips
        /\ g.todo = f.todo
    BY <2>1 DEF FrameType
  <2>3. M!Becomes(r, M!Replace(modJob[r], g))
    BY <1>3, <1>6, <2>1 DEF M!Visit
  <2>4. \A ip \in Addresses : ToCome(f, ip) => ToCome(g, ip)
    BY <2>2 DEF ToCome
  <2>5. NextFrame("visit", f, g)
    BY <1>4, <1>6, <2>2, <2>4 DEF NextFrame, Past
  <2>6. QED
    BY <1>1, <1>2, <1>3, <2>2, <2>3, <2>5, FrameGoesOn
<1>7. CASE f.todo = {} /\ f.ips = << >>
  <2>1. PICK b, i : b = modJob[r].failed /\ i = [modJob[r] EXCEPT !.failed = b]
    OBVIOUS
  <2>2. b \in BOOLEAN /\ i \in ModJobType /\ i = modJob[r]
    BY <1>3, <2>1 DEF ModJobType
  <2>3. Past(M!Top(r))
    BY <1>3 DEF Past
  <2>4. M!Becomes(r, M!Return(i))
    BY <1>3, <1>7, <2>2 DEF M!Visit
  <2>5. QED
    BY <1>1, <1>2, <2>1, <2>2, <2>3, <2>4, FrameReturns
<1>8. QED
  BY <1>5, <1>6, <1>7

-----------------------------------------------------------------------------
\* All steps

LEMMA ModInitInv ==
    ASSUME M!Init
    PROVE  ModInv
<1>1. Tables
  BY ServicesAssumption DEF M!Init, Tables, TicketType, M!Blank
<1>2. PICK i \in ModJobType : i = M!IdleJob /\ i.pc = "idle"
  BY IdleFields
<1>3. modJob \in [Requests -> ModJobType] /\ \A r \in Requests : modJob[r] = i
  BY <1>2 DEF M!Init
<1>4. unbans \in Nat
  BY <1>1 DEF Tables
<1>5. Sound(i, i.reached, i.blocked, banned, unbans, ticket)
  BY <1>2, <1>4, IdleSound
<1>6. QED
  BY <1>1, <1>2, <1>3, <1>5 DEF ModInv, JobOK, Fresh

LEMMA ModStep ==
    ASSUME ModInv, M!Next
    PROVE  ModInv'
<1>1. ASSUME NEW r \in Requests, M!Step(r) PROVE ModInv'
  <2>1. CASE \E u \in People, ip \in Addresses : M!AskPaint(r, u, ip)
    BY <2>1, StepAskPaint
  <2>2. CASE M!CheckAccount(r)
    BY <2>2, StepCheckAccount
  <2>3. CASE M!CheckAddress(r)
    BY <2>3, StepCheckAddress
  <2>4. CASE M!Charge(r)
    BY <2>4, StepCharge
  <2>5. CASE M!AdminSanctions(r)
    BY <2>5, StepAdminSanctions
  <2>6. CASE M!SetTicketStatus(r)
    BY <2>6, StepSetTicketStatus
  <2>7. CASE M!Resolve(r)
    BY <2>7, StepResolve
  <2>8. CASE M!Timeout(r)
    BY <2>8, StepTimeout
  <2>9. CASE M!Notify(r)
    BY <2>9, StepNotify
  <2>10. CASE \E u \in People : M!RemoveBan(r, u)
    BY <2>10, StepRemoveBan
  <2>11. CASE M!SelectAddresses(r)
    BY <2>11, StepSelectAddresses
  <2>12. CASE M!UpdateBanned(r)
    BY <2>12, StepUpdateBanned
  <2>13. CASE M!Unlist(r)
    BY <2>13, StepUnlist
  <2>14. CASE M!FindAddress(r)
    BY <2>14, StepFindAddress
  <2>15. CASE M!ListAddress(r)
    BY <2>15, StepListAddress
  <2>16. CASE M!ShareAddress(r)
    BY <2>16, StepShareAddress
  <2>17. CASE M!Visit(r)
    BY <2>17, StepVisit
  <2>18. CASE M!BanFails(r)
    BY <2>18, StepBanFails
  <2>19. CASE M!Abandon(r)
    BY <2>19, StepAbandon
  <2>20. QED
    BY <1>1, <2>1, <2>2, <2>3, <2>4, <2>5, <2>6, <2>7, <2>8, <2>9, <2>10, <2>11, <2>12, <2>13,
       <2>14, <2>15, <2>16, <2>17, <2>18, <2>19 DEF M!Step
<1>2. CASE \E u \in People, ip \in Addresses : M!Login(u, ip)
  BY <1>2, StepLogin
<1>3. CASE \E u \in People : M!RemoveTimeout(u)
  BY <1>3, StepRemoveTimeout
<1>4. CASE M!ReportUser
  BY <1>4, StepReportUser
<1>5. QED
  BY <1>1, <1>2, <1>3, <1>4 DEF M!Next

LEMMA ModNextInv == ModInv /\ [ServicesNext]_servicesVars => ModInv'
<1>1. SUFFICES ASSUME ModInv, [ServicesNext]_servicesVars PROVE ModInv'
  OBVIOUS
<1>2. CASE M!Next
  BY <1>1, <1>2, ModStep
<1>3. CASE UNCHANGED modVars
  BY <1>1, <1>3 DEF modVars, ModInv, Tables, JobOK, Fresh, Filed, M!Shares
<1>4. QED
  BY <1>1, <1>2, <1>3 DEF ServicesNext, servicesVars

\* The invariant of the bans holds whichever part the behaviour is about.
THEOREM ModerationInv == ServicesSpec => []ModInv
<1>1. ServicesInit => ModInv
  BY ModInitInv DEF ServicesInit
<1>2. QED
  BY <1>1, ModNextInv, PTL DEF ServicesSpec

\* The tables and the requests keep their types.
THEOREM ModerationTypes == ServicesSpec => []M!ModerationTypeOK
<1>1. ModInv => M!ModerationTypeOK
  BY DEF ModInv, Tables, JobOK, Sound, Holds, ListedType, M!ModerationTypeOK
<1>2. QED
  BY <1>1, ModerationInv, PTL

\* The recursion of ban_user is no deeper than there are accounts and unbans.
THEOREM RecursionBound == ServicesSpec => []RecursionIsBounded
<1>1. ASSUME ModInv, NEW r \in Requests
      PROVE  Len(modJob[r].stack) <= Cardinality(People) + unbans
  <2>1. modJob[r].stack \in Seq(FrameType) /\ Deep(modJob[r].stack, banned, unbans) /\ unbans \in Nat
    BY <1>1, Actor DEF Sound, ModJobType
  <2>2. QED
    BY <2>1, DeepBound
<1>2. ModInv => M!RecursionIsBounded
  BY <1>1, ModCardinality DEF M!RecursionIsBounded
<1>3. ModInv => RecursionIsBounded
  BY <1>2 DEF RecursionIsBounded
<1>4. QED
  BY <1>3, ModerationInv, PTL

\* A ban that ran to its end has reached everyone it had to, and listed the
\* addresses.
LEMMA Covered == ModInv /\ [ServicesNext]_servicesVars
    => [\A r \in Requests :
          /\ modJob[r].pc = "ban" /\ modJob'[r].pc # "ban"
          /\ modJob[r].needs # {} /\ Len(modJob[r].stack) = 1 /\ M!Pending(r, "visit")
          /\ ~modJob[r].failed /\ M!Top(r).todo = {} /\ M!Top(r).ips = << >>
          => {p[1] : p \in modJob[r].near} \subseteq modJob[r].reached
             /\ modJob[r].needs \subseteq modJob[r].blocked]_M!vars
<1>1. SUFFICES ASSUME ModInv, NEW r \in Requests, Len(modJob[r].stack) = 1, M!Pending(r, "visit"),
                      ~modJob[r].failed, M!Top(r).todo = {}, M!Top(r).ips = << >>
               PROVE  {p[1] : p \in modJob[r].near} \subseteq modJob[r].reached
                      /\ modJob[r].needs \subseteq modJob[r].blocked
  OBVIOUS
<1>2. PICK j \in ModJobType, f \in FrameType : Acting(r, "visit", j, f)
  BY <1>1, Acts
<1> USE DEF Acting, Replaced, Returned
<1>3. f = j.stack[1] /\ f.ban /\ f.todo = {} /\ f.ips = << >> /\ Len(j.stack) = 1 /\ ~j.failed
  BY <1>1, <1>2 DEF Stacked
<1>4. \A ip : ~ToCome(f, ip)
  <2>1. Len(f.ips) = 0
    BY <1>3, EmptySeq
  <2>2. QED
    BY <2>1 DEF ToCome
<1>5. j.needs \subseteq j.blocked /\ \A p \in j.near : p[1] \in j.reached
  BY <1>2, <1>3, <1>4 DEF Covers
<1>6. QED
  BY <1>2, <1>5

THEOREM BansReachEveryone == ServicesSpec => CascadeCovers
<1>1. QED
  BY ModerationInv, Covered, PTL DEF ServicesSpec, CascadeCovers, M!CascadeCovers

\* Whoever reported is told of an action that was taken.
LEMMA Noticed == ModInv /\ [ServicesNext]_servicesVars
    => [\A r \in Requests :
          modJob[r].pc = "notify" /\ notices' # notices /\ modJob'[r].pc = "idle"
              => ticket[modJob[r].ticket].of \in modJob[r].reached]_M!vars
BY DEF ModInv, JobOK, Sound, Told

THEOREM NoticesAreTrue == ServicesSpec => NoticeFollowsAction
<1>1. QED
  BY ModerationInv, Noticed, PTL DEF ServicesSpec, NoticeFollowsAction, M!NoticeFollowsAction

HIDE DEF Ats, ModPcs, Verdicts

-----------------------------------------------------------------------------
\* Antibot: types of the row and the jobs.

BotPcs == {"idle", "score", "scored", "denied", "painted", "sample", "next", "mark", "insert",
        "cache", "offer", "delete", "trust", "save", "publish"}
BotJobType == [pc : BotPcs, collects : BOOLEAN, todo : SUBSET Reasons, reason : Reasons,
            score : Nat, set : Settings \cup {DefaultSettings}]
BotRowType == [score : Nat, reasons : Seq(Reasons)]

BotTypes == /\ B!AntibotTypeOK /\ botJob \in [Requests -> BotJobType]
            /\ row \in BotRowType
            /\ \A j \in Requests : botJob[j].pc \in {"save", "publish"} => botJob[j].set \in Settings

\* What is in force was stored, and what is about to be put in force is stored:
\* a save that no other has overlapped is the one that is in the table.
BotInForce == IF stored = {} THEN DefaultSettings ELSE CHOOSE s \in stored : TRUE
BotPublishes(j) == botJob[j].pc = "publish"
BotSettings ==
    /\ stored \subseteq were /\ settings \in were \cup {DefaultSettings}
    /\ \A j \in Requests : BotPublishes(j) => botJob[j].set \in were
    /\ \A j \in alone : /\ BotPublishes(j) /\ stored = {botJob[j].set}
                        /\ \A i \in Requests : BotPublishes(i) => i = j
    /\ ~parted /\ (\A j \in Requests : ~BotPublishes(j)) => settings = BotInForce

BotInv == BotTypes /\ B!FlaggedIsCounted /\ BotSettings

USE ServicesAssumption DEF BotJobType, BotPcs

LEMMA BotIdleType == B!IdleJob \in BotJobType /\ B!IdleJob.pc = "idle"
BY DEF B!IdleJob

LEMMA BotEmptyRow == B!NoRow \in BotRowType
<1>1. << >> \in Seq(Reasons)
  OBVIOUS
<1>2. QED
  BY <1>1 DEF B!NoRow, BotRowType

LEMMA BotRecordedType == row \in BotRowType => B!Recorded \subseteq Reasons
<1> SUFFICES ASSUME row \in BotRowType, NEW i \in DOMAIN row.reasons
             PROVE  row.reasons[i] \in Reasons
  BY DEF B!Recorded
<1>1. row.reasons \in Seq(Reasons)
  BY DEF BotRowType
<1>2. QED
  BY <1>1

LEMMA BotInitInv == B!Init => BotInv
<1> SUFFICES ASSUME B!Init PROVE BotInv
  OBVIOUS
<1>1. \A j \in Requests : botJob[j].pc = "idle"
  BY BotIdleType DEF B!Init
<1>2. BotTypes
  <2>1. row \in BotRowType /\ row.score \in Nat
    BY BotEmptyRow DEF B!Init, BotRowType
  <2>2. B!Recorded \subseteq Reasons /\ cached \in Nat
    BY <2>1, BotRecordedType DEF B!Init, B!NoScore
  <2>3. B!AntibotTypeOK
    <3>1. trusted \in BOOLEAN /\ parted \in BOOLEAN
      BY Zenon DEF B!Init
    <3>2. window \in 0 .. Samples
      BY DEF B!Init
    <3>3. QED
      BY <2>1, <2>2, <3>1, <3>2 DEF B!Init, B!AntibotTypeOK
  <2>4. botJob \in [Requests -> BotJobType]
    BY BotIdleType DEF B!Init
  <2>5. QED
    BY <1>1, <2>1, <2>3, <2>4 DEF BotTypes
<1>3. B!FlaggedIsCounted /\ BotSettings
  BY <1>1 DEF B!Init, B!FlaggedIsCounted, BotSettings, BotPublishes, BotInForce
<1>4. QED
  BY <1>2, <1>3 DEF BotInv

\* The step of one job leaves the others as they are.
LEMMA BotTurn ==
    ASSUME BotTypes, NEW j \in Requests, NEW k \in BotJobType, botJob' = [botJob EXCEPT ![j] = k]
    PROVE  /\ botJob' \in [Requests -> BotJobType] /\ botJob'[j] = k
           /\ \A i \in Requests \ {j} : botJob'[i] = botJob[i]
BY DEF BotTypes

-----------------------------------------------------------------------------
\* Steps of a job that is not about to insert, solve or save, and is not
\* going to save or publish: they may read and cache, and spend challenges.
LEMMA BotQuiet ==
    ASSUME BotInv, NEW j \in Requests, NEW k \in BotJobType, botJob' = [botJob EXCEPT ![j] = k],
           botJob[j].pc \notin {"insert", "trust", "save", "publish"},
           k.pc \notin {"save", "publish"},
           flagged' = flagged \/ (k.pc = "insert" /\ k.reason \notin flagged
                                                  /\ flagged' = flagged \cup {k.reason}),
           row' = row \/ (row' = B!NoRow /\ k.pc = "trust"),
           UNCHANGED <<settings, stored, B!saves, uncounted>>,
           cached' \in Nat, trusted' \in BOOLEAN, issued' \subseteq Challenges,
           window' \in 0..Samples
    PROVE  BotInv'
<1>1. /\ botJob' \in [Requests -> BotJobType] /\ botJob'[j] = k
      /\ \A i \in Requests \ {j} : botJob'[i] = botJob[i]
  BY BotTurn DEF BotInv
<1>2. /\ row' \in BotRowType
      /\ B!Recorded' \subseteq Reasons /\ flagged' \subseteq Reasons
  <2>1. row' \in BotRowType
    BY BotEmptyRow DEF BotInv, BotTypes
  <2>2. QED
    BY <2>1, BotRecordedType, BotEmptyRow DEF BotInv, BotTypes, B!AntibotTypeOK, B!Recorded, BotRowType
<1>3. BotTypes'
  <2>1. B!AntibotTypeOK'
    BY <1>2 DEF BotInv, BotTypes, B!AntibotTypeOK, B!saves, BotRowType
  <2>2. QED
    BY <1>1, <1>2, <2>1 DEF BotInv, BotTypes
<1>4. B!FlaggedIsCounted'
  <2> SUFFICES ASSUME NEW r \in flagged', ~ \E i \in Requests : botJob'[i].pc = "trust"
               PROVE  \/ r \in B!Recorded' \cup uncounted'
                      \/ \E i \in Requests : botJob'[i].pc = "insert" /\ botJob'[i].reason = r
    BY DEF B!FlaggedIsCounted
  <2>1. row' = row /\ \A i \in Requests : botJob[i].pc # "trust"
    BY <1>1
  <2>2. CASE r \in flagged
    <3>1. \/ r \in B!Recorded \cup uncounted
          \/ \E i \in Requests \ {j} : botJob[i].pc = "insert" /\ botJob[i].reason = r
      BY <2>1, <2>2 DEF BotInv, B!FlaggedIsCounted
    <3>2. QED
      BY <3>1, <2>1, <1>1 DEF B!Recorded
  <2>3. CASE r \notin flagged
    BY <2>3, <1>1
  <2>4. QED
    BY <2>2, <2>3
<1>5. BotSettings'
  BY <1>1 DEF B!saves, BotInv, BotTypes, B!AntibotTypeOK, BotSettings, BotPublishes, BotInForce
<1>6. QED
  BY <1>3, <1>4, <1>5 DEF BotInv

LEMMA BotJobTypes == BotInv => \A j \in Requests : botJob[j] \in BotJobType
BY DEF BotInv, BotTypes

LEMMA BotGoesTo ==
    ASSUME BotInv, NEW j \in Requests, NEW p \in BotPcs, B!Goes(j, p)
    PROVE  \E k \in BotJobType : /\ botJob' = [botJob EXCEPT ![j] = k]
                                 /\ k.pc = p /\ k.reason = botJob[j].reason
<1>1. PICK k : k = [botJob[j] EXCEPT !.pc = p]
  OBVIOUS
<1>2. k \in BotJobType /\ k.pc = p /\ k.reason = botJob[j].reason
  BY <1>1, BotJobTypes
<1>3. botJob' = [botJob EXCEPT ![j] = k]
  BY <1>1 DEF B!Goes, BotInv, BotTypes
<1>4. QED
  BY <1>2, <1>3

LEMMA BotEndsTo ==
    ASSUME BotInv, NEW j \in Requests, B!Ends(j)
    PROVE  \E k \in BotJobType : botJob' = [botJob EXCEPT ![j] = k] /\ k.pc = "idle"
BY BotIdleType DEF B!Ends, BotInv

-----------------------------------------------------------------------------
\* One lemma for the steps of each request or task, in the order of the code.

LEMMA BotPreCheckInv == ASSUME BotInv, NEW j \in Requests, B!PreCheck(j) PROVE BotInv'
<1>1. PICK p \in {"score", "denied", "painted"} :
        botJob' = [botJob EXCEPT ![j] = [B!IdleJob EXCEPT !.set = settings, !.pc = p]]
  BY DEF B!PreCheck, B!Begins
<1>2. PICK k : k = [B!IdleJob EXCEPT !.set = settings, !.pc = p]
  OBVIOUS
<1>3. k \in BotJobType /\ k.pc = p
  BY <1>2, BotIdleType DEF BotInv, BotTypes, B!AntibotTypeOK
<1>4. /\ botJob' = [botJob EXCEPT ![j] = k] /\ botJob[j].pc = "idle"
      /\ UNCHANGED <<settings, stored, row, B!memory, B!saves, uncounted>>
  BY <1>1, <1>2 DEF B!PreCheck, B!Begins
<1>5. QED
  BY <1>3, <1>4, BotQuiet DEF B!memory, BotInv, BotTypes, B!AntibotTypeOK

LEMMA BotScoreInv ==
    ASSUME BotInv, NEW j \in Requests, B!SelectScore(j) \/ B!CacheScore(j) PROVE BotInv'
<1>1. CASE B!SelectScore(j)
  <2>1. PICK n \in Nat : botJob' = [botJob EXCEPT ![j].pc = "scored", ![j].score = n]
    BY <1>1 DEF B!SelectScore, BotInv, BotTypes, BotRowType
  <2>2. PICK k : k = [botJob[j] EXCEPT !.pc = "scored", !.score = n]
    OBVIOUS
  <2>3. k \in BotJobType /\ k.pc = "scored"
    BY <2>2, BotJobTypes
  <2>4. botJob' = [botJob EXCEPT ![j] = k]
    BY <2>1, <2>2 DEF BotInv, BotTypes
  <2>5. QED
    BY <1>1, <2>3, <2>4, BotQuiet DEF B!SelectScore, B!memory, BotInv, BotTypes, B!AntibotTypeOK
<1>2. CASE B!CacheScore(j)
  <2>1. cached' \in Nat
    BY <1>2, BotJobTypes DEF B!CacheScore
  <2>2. \E p \in {"offer", "denied", "painted"} : B!Goes(j, p)
    BY <1>2 DEF B!CacheScore
  <2>3. QED
    BY <1>2, <2>1, <2>2, BotGoesTo, BotQuiet DEF B!CacheScore, BotInv, BotTypes, B!AntibotTypeOK
<1>3. QED
  BY <1>1, <1>2

LEMMA BotPaintedInv ==
    ASSUME BotInv, NEW j \in Requests, B!Denied(j) \/ B!Painted(j) \/ B!Offer(j) PROVE BotInv'
<1>1. CASE B!Denied(j)
  BY <1>1, BotEndsTo, BotQuiet DEF B!Denied, B!memory, BotInv, BotTypes, B!AntibotTypeOK
<1>2. CASE B!Painted(j)
  <2>1. CASE botJob' = [botJob EXCEPT ![j] = B!IdleJob]
    <3>1. PICK k \in BotJobType : botJob' = [botJob EXCEPT ![j] = k] /\ k.pc = "idle"
      BY <2>1, BotIdleType
    <3>2. botJob[j].pc = "painted" /\ UNCHANGED <<settings, stored, row, B!memory, B!saves, uncounted>>
      BY <1>2 DEF B!Painted
    <3>3. QED
      BY <3>1, <3>2, BotQuiet DEF B!memory, BotInv, BotTypes, B!AntibotTypeOK
  <2>2. CASE \E p \in {"mark", "sample"} : botJob' = [botJob EXCEPT ![j] = [B!IdleJob EXCEPT !.pc = p]]
    <3>1. PICK p \in {"mark", "sample"} : botJob' = [botJob EXCEPT ![j] = [B!IdleJob EXCEPT !.pc = p]]
      BY <2>2
    <3>2. PICK k : k = [B!IdleJob EXCEPT !.pc = p]
      OBVIOUS
    <3>3. k \in BotJobType /\ k.pc = p
      BY <3>2, BotIdleType DEF BotInv
    <3>4. QED
      BY <1>2, <3>1, <3>2, <3>3, BotQuiet DEF B!Painted, B!memory, BotInv, BotTypes, B!AntibotTypeOK
  <2>3. QED
    BY <1>2, <2>1, <2>2 DEF B!Painted
<1>3. CASE B!Offer(j)
  <2>1. issued' \subseteq Challenges
    BY <1>3 DEF B!Offer, BotInv, BotTypes, B!AntibotTypeOK
  <2>2. QED
    BY <1>3, <2>1, BotEndsTo, BotQuiet DEF B!Offer, BotInv, BotTypes, B!AntibotTypeOK
<1>4. QED
  BY <1>1, <1>2, <1>3

LEMMA BotSampleInv ==
    ASSUME BotInv, NEW j \in Requests, B!Sample(j) \/ B!NextReason(j) PROVE BotInv'
<1>1. CASE B!Sample(j)
  <2>1. PICK seen \in SUBSET Reasons :
          botJob' = [botJob EXCEPT ![j].todo = seen, ![j].pc = "next"]
    BY <1>1 DEF B!Sample
  <2>2. PICK k : k = [botJob[j] EXCEPT !.todo = seen, !.pc = "next"]
    OBVIOUS
  <2>3. k \in BotJobType /\ k.pc = "next"
    BY <2>2, BotJobTypes
  <2>4. botJob' = [botJob EXCEPT ![j] = k]
    BY <2>1, <2>2 DEF BotInv, BotTypes
  <2>5. window' \in 0 .. Samples
    <3>1. window' = IF window < Samples THEN window + 1 ELSE window
      BY <1>1 DEF B!Sample
    <3>2. window \in 0 .. Samples /\ Samples \in Nat
      BY DEF BotInv, BotTypes, B!AntibotTypeOK
    <3>3. QED
      BY <3>1, <3>2
  <2>6. QED
    BY <1>1, <2>3, <2>4, <2>5, BotQuiet DEF B!Sample, BotInv, BotTypes, B!AntibotTypeOK
<1>2. CASE B!NextReason(j)
  <2>1. CASE botJob[j].todo = {}
    BY <1>2, <2>1, BotEndsTo, BotQuiet DEF B!NextReason, B!memory, BotInv, BotTypes, B!AntibotTypeOK
  <2>2. CASE botJob[j].todo # {}
    <3>1. PICK r \in botJob[j].todo :
            botJob' = [botJob EXCEPT ![j].pc = "mark", ![j].reason = r, ![j].todo = @ \ {r}]
      BY <1>2, <2>2 DEF B!NextReason
    <3>2. PICK k : k = [botJob[j] EXCEPT !.pc = "mark", !.reason = r, !.todo = @ \ {r}]
      OBVIOUS
    <3>3. k \in BotJobType /\ k.pc = "mark"
      BY <3>2, BotJobTypes
    <3>4. botJob' = [botJob EXCEPT ![j] = k]
      BY <3>1, <3>2, BotJobTypes DEF BotInv, BotTypes
    <3>5. QED
      BY <1>2, <3>3, <3>4, BotQuiet DEF B!NextReason, B!memory, BotInv, BotTypes, B!AntibotTypeOK
  <2>3. QED
    BY <2>1, <2>2
<1>3. QED
  BY <1>1, <1>2

LEMMA BotMarkInv ==
    ASSUME BotInv, NEW j \in Requests, B!MarkFlagged(j) \/ B!CacheFlag(j) PROVE BotInv'
<1>1. CASE B!MarkFlagged(j)
  <2>1. CASE botJob[j].reason \in flagged
    <3>1. flagged' = flagged /\ \E p \in {"sample", "next"} : B!Goes(j, p)
      BY <1>1, <2>1 DEF B!MarkFlagged, B!After
    <3>2. QED
      BY <1>1, <3>1, BotGoesTo, BotQuiet DEF B!MarkFlagged, BotInv, BotTypes, B!AntibotTypeOK
  <2>2. CASE botJob[j].reason \notin flagged
    BY <1>1, <2>2, BotGoesTo, BotQuiet DEF B!MarkFlagged, BotInv, BotTypes, B!AntibotTypeOK
  <2>3. QED
    BY <2>1, <2>2
<1>2. CASE B!CacheFlag(j)
  <2>1. cached' \in Nat /\ \E p \in {"sample", "next"} : B!Goes(j, p)
    BY <1>2, BotJobTypes DEF B!CacheFlag, B!After
  <2>2. QED
    BY <1>2, <2>1, BotGoesTo, BotQuiet DEF B!CacheFlag, BotInv, BotTypes, B!AntibotTypeOK
<1>3. QED
  BY <1>1, <1>2

LEMMA BotChallengeInv ==
    ASSUME BotInv, NEW j \in Requests, B!Collect(j) \/ B!PostSolution(j) \/ B!DeleteFlags(j) PROVE BotInv'
<1>1. CASE B!Collect(j)
  <2>1. PICK p \in {"score", "offer"} :
          botJob' = [botJob EXCEPT ![j] = [B!IdleJob EXCEPT !.collects = TRUE, !.set = settings,
                                                    !.score = cached, !.pc = p]]
    BY <1>1 DEF B!Collect, B!Begins
  <2>2. PICK k : k = [B!IdleJob EXCEPT !.collects = TRUE, !.set = settings,
                                     !.score = cached, !.pc = p]
    OBVIOUS
  <2>3. k \in BotJobType /\ k.pc = p
    BY <2>2, BotIdleType DEF BotInv, BotTypes, B!AntibotTypeOK
  <2>4. /\ botJob' = [botJob EXCEPT ![j] = k] /\ botJob[j].pc = "idle"
        /\ UNCHANGED <<settings, stored, row, B!memory, B!saves, uncounted>>
    BY <1>1, <2>1, <2>2 DEF B!Collect, B!Begins
  <2>5. QED
    BY <2>3, <2>4, BotQuiet DEF B!memory, BotInv, BotTypes, B!AntibotTypeOK
<1>2. CASE B!PostSolution(j)
  <2>1. PICK k : k = [B!IdleJob EXCEPT !.pc = "delete"]
    OBVIOUS
  <2>2. k \in BotJobType /\ k.pc = "delete"
    BY <2>1, BotIdleType DEF BotInv
  <2>3. QED
    BY <1>2, <2>1, <2>2, BotQuiet DEF B!PostSolution, B!Begins, BotInv, BotTypes, B!AntibotTypeOK
<1>3. CASE B!DeleteFlags(j)
  BY <1>3, BotGoesTo, BotQuiet DEF B!DeleteFlags, B!memory, BotInv, BotTypes, B!AntibotTypeOK
<1>4. QED
  BY <1>1, <1>2, <1>3
-----------------------------------------------------------------------------
\* The reason of the job is on record, or its statement has failed.
LEMMA BotCounted ==
    ASSUME BotInv, NEW j \in Requests, NEW k \in BotJobType, botJob' = [botJob EXCEPT ![j] = k],
           botJob[j].pc = "insert", k.pc \notin {"save", "publish"},
           UNCHANGED <<settings, stored, B!memory, B!saves>>, row' \in BotRowType,
           B!Recorded \subseteq B!Recorded', uncounted \subseteq uncounted', uncounted' \subseteq Reasons,
           botJob[j].reason \in B!Recorded' \cup uncounted'
    PROVE  BotInv'
<1>1. /\ botJob' \in [Requests -> BotJobType] /\ botJob'[j] = k
      /\ \A i \in Requests \ {j} : botJob'[i] = botJob[i]
  BY BotTurn DEF BotInv
<1>2. B!Recorded' \subseteq Reasons /\ row'.score \in Nat
  BY BotRecordedType DEF BotRowType, B!Recorded
<1>3. BotTypes'
  <2>1. B!AntibotTypeOK'
    BY <1>2 DEF BotInv, BotTypes, B!AntibotTypeOK, B!memory, B!saves
  <2>2. QED
    BY <1>1, <2>1 DEF BotInv, BotTypes
<1>4. B!FlaggedIsCounted'
  <2> SUFFICES ASSUME NEW r \in flagged
               PROVE  \/ r \in B!Recorded' \cup uncounted'
                      \/ \E i \in Requests : botJob'[i].pc = "insert" /\ botJob'[i].reason = r
                      \/ \E i \in Requests : botJob'[i].pc = "trust"
    BY DEF B!FlaggedIsCounted, B!memory
  <2>1. \/ r \in B!Recorded \cup uncounted \/ r = botJob[j].reason
        \/ \E i \in Requests \ {j} : botJob[i].pc = "insert" /\ botJob[i].reason = r
        \/ \E i \in Requests \ {j} : botJob[i].pc = "trust"
    BY DEF BotInv, B!FlaggedIsCounted
  <2>2. QED
    BY <2>1, <1>1
<1>5. BotSettings'
  BY <1>1 DEF B!saves, BotInv, BotTypes, B!AntibotTypeOK, BotSettings, BotPublishes, BotInForce
<1>6. QED
  BY <1>3, <1>4, <1>5 DEF BotInv

\* What Added does to a row: one more reason.
BotNoted(w) == {w.reasons[i] : i \in DOMAIN w.reasons}
LEMMA BotAddedType ==
    ASSUME BotInv, NEW r \in Reasons
    PROVE  B!Added(r) \in BotRowType /\ BotNoted(B!Added(r)) = B!Recorded \cup {r}
<1>1. row.reasons \in Seq(Reasons) /\ row.score \in Nat
  BY DEF BotInv, BotTypes, BotRowType
<1>2. PICK q : q = Append(row.reasons, r)
  OBVIOUS
<1>3. /\ q \in Seq(Reasons) /\ Len(q) = Len(row.reasons) + 1 /\ q[Len(row.reasons) + 1] = r
      /\ \A i \in 1 .. Len(row.reasons) : q[i] = row.reasons[i]
  BY <1>1, <1>2
<1>4. B!Added(r).reasons = q /\ B!Added(r).score \in Nat
  BY <1>1, <1>2 DEF B!Added, BotInv
<1>5. B!Added(r) \in BotRowType
  BY <1>1, <1>2, <1>3 DEF B!Added, BotRowType, BotInv
<1>6. /\ DOMAIN q = 1 .. Len(row.reasons) + 1
      /\ DOMAIN row.reasons = 1 .. Len(row.reasons) /\ Len(row.reasons) \in Nat
  BY <1>1, <1>3
<1>7. {q[i] : i \in DOMAIN q} = B!Recorded \cup {r}
  <2> DEFINE n == Len(row.reasons)
  <2>1. /\ n \in Nat /\ DOMAIN q = 1 .. n + 1 /\ DOMAIN row.reasons = 1 .. n
        /\ q[n + 1] = r /\ \A i \in 1 .. n : q[i] = row.reasons[i]
    BY <1>3, <1>6
  <2> HIDE DEF n
  <2>2. 1 .. n \subseteq 1 .. n + 1 /\ n + 1 \in 1 .. n + 1
    BY <2>1
  <2>3. ASSUME NEW i \in 1 .. n + 1, i # n + 1 PROVE i \in 1 .. n
    BY <2>1, <2>3
  <2>4. ASSUME NEW i \in DOMAIN q PROVE q[i] \in B!Recorded \cup {r}
    <3>1. CASE i = n + 1
      BY <2>1, <3>1, Zenon
    <3>2. CASE i # n + 1
      <4>1. i \in 1 .. n
        BY <2>1, <2>3, <2>4, <3>2, Zenon
      <4>2. i \in DOMAIN row.reasons /\ q[i] = row.reasons[i]
        BY <2>1, <4>1, Zenon
      <4>3. QED
        BY <4>2, Zenon DEF B!Recorded
    <3>3. QED
      BY <3>1, <3>2
  <2>5. ASSUME NEW i \in DOMAIN row.reasons PROVE \E k \in DOMAIN q : q[k] = row.reasons[i]
    BY <2>1, <2>2, <2>5, Zenon
  <2>6. \E k \in DOMAIN q : q[k] = r
    BY <2>1, <2>2, Zenon
  <2>7. {q[i] : i \in DOMAIN q} \subseteq B!Recorded \cup {r}
    BY <2>4, Zenon
  <2>8. B!Recorded \subseteq {q[i] : i \in DOMAIN q}
    BY <2>5, Zenon DEF B!Recorded
  <2>9. r \in {q[i] : i \in DOMAIN q}
    BY <2>6, Zenon
  <2>10. QED
    <3> DEFINE S == {q[i] : i \in DOMAIN q}
    <3>1. S \subseteq B!Recorded \cup {r} /\ B!Recorded \subseteq S /\ r \in S
      BY <2>7, <2>8, <2>9
    <3> HIDE DEF S
    <3>2. S = B!Recorded \cup {r}
      BY <3>1, Zenon
    <3>3. QED
      BY <3>2 DEF S
<1>8. BotNoted(B!Added(r)) = B!Recorded \cup {r}
  BY <1>4, <1>7 DEF BotNoted
<1>9. QED
  BY <1>5, <1>8

LEMMA BotInsertInv ==
    ASSUME BotInv, NEW j \in Requests, B!InsertFlag(j) \/ B!InsertFails(j) PROVE BotInv'
<1>1. botJob[j].reason \in Reasons /\ row \in BotRowType /\ uncounted \subseteq Reasons
  BY BotJobTypes DEF BotInv, BotTypes, B!AntibotTypeOK
<1>2. CASE B!InsertFlag(j) /\ botJob[j].reason \in B!Recorded
  <2>1. \E p \in {"sample", "next"} : B!Goes(j, p)
    BY <1>2 DEF B!InsertFlag, B!After, B!Goes
  <2>2. /\ row' = row /\ botJob[j].pc = "insert"
        /\ UNCHANGED <<settings, stored, B!memory, B!saves, uncounted>>
    BY <1>2 DEF B!InsertFlag
  <2>3. B!Recorded' = B!Recorded
    BY <2>2 DEF B!Recorded
  <2>4. QED
    BY <1>1, <1>2, <2>1, <2>2, <2>3, BotGoesTo, BotCounted
<1>3. CASE B!InsertFlag(j) /\ botJob[j].reason \notin B!Recorded
  <2>1. row' = B!Added(botJob[j].reason)
    BY <1>3 DEF B!InsertFlag
  <2>2. row' \in BotRowType /\ B!Recorded' = B!Recorded \cup {botJob[j].reason}
    <3>1. PICK q \in Reasons : q = botJob[j].reason
      BY <1>1
    <3>2. row' \in BotRowType /\ BotNoted(row') = B!Recorded \cup {q}
      BY <2>1, <3>1, BotAddedType
    <3>3. QED
      BY <3>1, <3>2 DEF BotNoted, B!Recorded
  <2>3. PICK n \in Nat : botJob' = [botJob EXCEPT ![j].pc = "cache", ![j].score = n]
    BY <1>3, <2>2 DEF B!InsertFlag, BotRowType
  <2>4. PICK k : k = [botJob[j] EXCEPT !.pc = "cache", !.score = n]
    OBVIOUS
  <2>5. k \in BotJobType /\ k.pc = "cache"
    BY <2>4, BotJobTypes
  <2>6. botJob' = [botJob EXCEPT ![j] = k]
    BY <2>3, <2>4 DEF BotInv, BotTypes
  <2>7. QED
    BY <1>1, <1>3, <2>2, <2>5, <2>6, BotCounted DEF B!InsertFlag
<1>4. CASE B!InsertFails(j)
  <2>1. \E p \in {"sample", "next"} : B!Goes(j, p)
    BY <1>4 DEF B!InsertFails, B!After
  <2>2. B!Recorded' = B!Recorded
    BY <1>4 DEF B!InsertFails, B!Recorded
  <2>3. QED
    BY <1>1, <1>4, <2>1, <2>2, BotGoesTo, BotCounted DEF B!InsertFails
<1>5. QED
  BY <1>2, <1>3, <1>4
LEMMA BotTrustInv == ASSUME BotInv, NEW j \in Requests, B!Trust(j) PROVE BotInv'
<1>1. PICK k \in BotJobType : botJob' = [botJob EXCEPT ![j] = k] /\ k.pc = "idle"
  BY BotEndsTo DEF B!Trust
<1>2. /\ botJob' \in [Requests -> BotJobType] /\ botJob'[j] = k
      /\ \A i \in Requests \ {j} : botJob'[i] = botJob[i]
  BY <1>1, BotTurn DEF BotInv
<1>3. B!AntibotTypeOK'
  <2>1. /\ trusted' \in BOOLEAN /\ cached' \in Nat /\ window' \in 0 .. Samples
        /\ flagged' = {} /\ uncounted' = {}
    BY DEF B!Trust, B!NoScore, BotInv
  <2>2. QED
    BY <2>1 DEF B!Trust, B!saves, BotInv, BotTypes, B!AntibotTypeOK, B!Recorded
<1>4. BotTypes'
  BY <1>1, <1>2, <1>3 DEF B!Trust, BotInv, BotTypes
<1>5. B!FlaggedIsCounted'
  BY DEF B!Trust, B!FlaggedIsCounted
<1>6. BotSettings'
  BY <1>1, <1>2 DEF B!Trust, B!saves, BotInv, BotTypes, B!AntibotTypeOK, BotSettings, BotPublishes,
     BotInForce
<1>7. QED
  BY <1>4, <1>5, <1>6 DEF B!Trust, BotInv

\* Steps that leave the score alone: saves, and time.
LEMMA BotAside ==
    ASSUME BotInv, UNCHANGED <<row, flagged, uncounted>>, botJob' \in [Requests -> BotJobType],
           \A j \in Requests :
              /\ botJob'[j].pc = botJob[j].pc \/ botJob[j].pc \notin {"insert", "trust"}
              /\ botJob'[j].reason = botJob[j].reason \/ botJob[j].pc # "insert",
           \A j \in Requests : botJob'[j].pc \in {"save", "publish"} => botJob'[j].set \in Settings,
           settings' \in Settings \cup {DefaultSettings}, stored' \subseteq Settings,
           parted' \in BOOLEAN, alone' \subseteq Requests, were' \subseteq Settings, BotSettings',
           trusted' \in BOOLEAN, cached' \in Nat, issued' \subseteq Challenges,
           window' \in 0 .. Samples
    PROVE  BotInv'
<1>1. B!Recorded' = B!Recorded
  BY DEF B!Recorded
<1>2. BotTypes'
  BY <1>1 DEF BotInv, BotTypes, B!AntibotTypeOK
<1>3. B!FlaggedIsCounted'
  <2> SUFFICES ASSUME NEW r \in flagged
               PROVE  \/ r \in B!Recorded \cup uncounted
                      \/ \E i \in Requests : botJob'[i].pc = "insert" /\ botJob'[i].reason = r
                      \/ \E i \in Requests : botJob'[i].pc = "trust"
    BY <1>1 DEF B!FlaggedIsCounted
  <2>1. ASSUME NEW i \in Requests, botJob[i].pc = "insert", botJob[i].reason = r
        PROVE  botJob'[i].pc = "insert" /\ botJob'[i].reason = r
    BY <2>1
  <2>2. ASSUME NEW i \in Requests, botJob[i].pc = "trust" PROVE botJob'[i].pc = "trust"
    BY <2>2
  <2>3. QED
    BY <2>1, <2>2 DEF BotInv, B!FlaggedIsCounted
<1>4. QED
  BY <1>2, <1>3 DEF BotInv
LEMMA BotSaveInv ==
    ASSUME BotInv, NEW j \in Requests, B!AskSave(j) \/ B!Save(j) \/ B!Publish(j) PROVE BotInv'
<1> DEFINE Stores == stored' = {botJob[j].set} /\ were' = were \cup stored'
<1>1. PICK k \in BotJobType :
        /\ botJob' = [botJob EXCEPT ![j] = k]
        /\ \/ /\ B!AskSave(j) /\ k.pc = "save" /\ k.set \in Settings
              /\ UNCHANGED <<settings, stored, parted, alone, were>>
           \/ /\ B!Save(j) /\ k.pc = "publish" /\ k.set = botJob[j].set /\ Stores
              /\ alone' = IF \E i \in Requests : BotPublishes(i) THEN {} ELSE {j}
              /\ UNCHANGED <<settings, parted>>
           \/ /\ B!Save(j) /\ k.pc = "idle" /\ Stores /\ parted' = TRUE /\ alone' = {}
              /\ UNCHANGED settings
           \/ /\ B!Save(j) /\ k.pc = "idle"
              /\ UNCHANGED <<settings, stored, parted, alone, were>>
           \/ /\ B!Publish(j) /\ k.pc = "idle" /\ settings' = botJob[j].set
              /\ parted' = (j \notin alone) /\ alone' = {} /\ UNCHANGED <<stored, were>>
  <2>1. CASE B!AskSave(j)
    <3>1. PICK s \in Settings : botJob' = [botJob EXCEPT ![j] = [B!IdleJob EXCEPT !.pc = "save", !.set = s]]
      BY <2>1 DEF B!AskSave, B!Begins
    <3>2. PICK k : k = [B!IdleJob EXCEPT !.pc = "save", !.set = s]
      OBVIOUS
    <3>3. k \in BotJobType /\ k.pc = "save" /\ k.set = s
      BY <3>2, BotIdleType DEF BotInv
    <3>4. UNCHANGED <<settings, stored, parted, alone, were>>
      BY <2>1 DEF B!AskSave, B!saves
    <3>5. QED
      BY <2>1, <3>1, <3>2, <3>3, <3>4
  <2>2. CASE B!Save(j) /\ B!Goes(j, "publish")
    <3>1. PICK k : k = [botJob[j] EXCEPT !.pc = "publish"]
      OBVIOUS
    <3>2. k \in BotJobType /\ k.pc = "publish" /\ k.set = botJob[j].set
      BY <3>1, BotJobTypes
    <3>3. botJob' = [botJob EXCEPT ![j] = k]
      BY <2>2, <3>1 DEF B!Goes, BotInv, BotTypes
    <3>4. botJob'[j].pc = "publish"
      BY <3>2, <3>3 DEF BotInv, BotTypes
    <3>5. ~B!Ends(j)
      BY <3>4, BotIdleType DEF B!Ends, BotInv, BotTypes
    <3>6. /\ Stores /\ UNCHANGED <<settings, parted>>
          /\ alone' = IF \E i \in Requests : BotPublishes(i) THEN {} ELSE {j}
      BY <2>2, <3>5 DEF B!Save, BotPublishes
    <3>7. QED
      BY <2>2, <3>2, <3>3, <3>6
  <2>3. CASE B!Save(j) /\ ~B!Goes(j, "publish")
    <3>1. PICK k \in BotJobType : botJob' = [botJob EXCEPT ![j] = k] /\ k.pc = "idle"
      BY <2>3, BotEndsTo DEF B!Save
    <3>2. \/ Stores /\ parted' = TRUE /\ alone' = {} /\ UNCHANGED settings
          \/ UNCHANGED <<settings, stored, parted, alone, were>>
      BY <2>3 DEF B!Save, B!saves
    <3>3. QED
      BY <2>3, <3>1, <3>2
  <2>4. CASE B!Publish(j)
    BY <2>4, BotEndsTo DEF B!Publish
  <2>5. QED
    BY <2>1, <2>2, <2>3, <2>4
<1>2. /\ botJob' \in [Requests -> BotJobType] /\ botJob'[j] = k
      /\ \A i \in Requests \ {j} : botJob'[i] = botJob[i]
  BY <1>1, BotTurn DEF BotInv
<1>3. /\ UNCHANGED <<row, flagged, uncounted, trusted, cached, issued, window>>
      /\ botJob[j].pc \in {"idle", "save", "publish"}
  BY DEF B!AskSave, B!Begins, B!Save, B!Publish, B!memory
<1>4. /\ trusted' \in BOOLEAN /\ cached' \in Nat /\ issued' \subseteq Challenges
      /\ window' \in 0 .. Samples
  BY <1>3 DEF BotInv, BotTypes, B!AntibotTypeOK
<1>t. /\ settings \in Settings \cup {DefaultSettings} /\ stored \subseteq Settings
      /\ \A i \in Requests : botJob[i].pc \in {"save", "publish"} => botJob[i].set \in Settings
      /\ parted \in BOOLEAN /\ alone \subseteq Requests /\ were \subseteq Settings
      /\ BotSettings
  BY DEF BotInv, BotTypes, B!AntibotTypeOK
<1>p. /\ B!AskSave(j) => botJob[j].pc = "idle"
      /\ B!Save(j) => botJob[j].pc = "save"
      /\ B!Publish(j) => botJob[j].pc = "publish"
  BY DEF B!AskSave, B!Begins, B!Save, B!Publish
<1>5. /\ settings' \in Settings \cup {DefaultSettings} /\ stored' \subseteq Settings
      /\ \A i \in Requests : botJob'[i].pc \in {"save", "publish"} => botJob'[i].set \in Settings
      /\ parted' \in BOOLEAN /\ alone' \subseteq Requests /\ were' \subseteq Settings
  <2>1. B!Save(j) \/ B!Publish(j) => botJob[j].set \in Settings
    BY <1>t, <1>p
  <2>2. settings' \in Settings \cup {DefaultSettings} /\ stored' \subseteq Settings
    BY <1>1, <1>t, <2>1
  <2>3. were' \subseteq Settings /\ alone' \subseteq Requests
    BY <1>1, <1>t, <2>1
  <2>4. parted' = parted \/ parted' = TRUE \/ parted' = (j \notin alone)
    BY Zenon, <1>1
  <2>5. parted' \in BOOLEAN
    BY Zenon, <1>t, <2>4
  <2>6. k.pc \in {"save", "publish"} => k.set \in Settings
    BY <1>1, <2>1
  <2>7. \A i \in Requests : botJob'[i].pc \in {"save", "publish"} => botJob'[i].set \in Settings
    BY <1>2, <1>t, <2>6
  <2>8. QED
    BY <2>2, <2>3, <2>5, <2>7
<1>i. \A i \in Requests \ {j} : BotPublishes(i)' <=> BotPublishes(i)
  BY <1>2 DEF BotPublishes
<1>6. BotSettings'
  <2>1. CASE B!AskSave(j) \/ (B!Save(j) /\ UNCHANGED <<settings, stored, parted, alone, were>>
                                        /\ k.pc = "idle")
    <3>1. ~BotPublishes(j) /\ ~BotPublishes(j)' /\ UNCHANGED <<settings, stored, parted, alone, were>>
      BY <1>1, <1>2, <1>p, <2>1 DEF BotPublishes
    <3>2. \A i \in Requests : BotPublishes(i) => botJob'[i] = botJob[i]
      BY <1>2, <3>1
    <3>3. QED
      BY <1>t, <1>i, <3>1, <3>2 DEF BotSettings, BotInForce
  <2>2. CASE /\ B!Save(j) /\ k.pc = "publish" /\ k.set = botJob[j].set /\ Stores
             /\ alone' = IF \E i \in Requests : BotPublishes(i) THEN {} ELSE {j}
             /\ UNCHANGED <<settings, parted>>
    <3>1. BotPublishes(j)' /\ botJob'[j].set \in were' /\ stored' = {botJob'[j].set}
      BY <1>2, <2>2 DEF BotPublishes
    <3>2. \A i \in Requests \ {j} : BotPublishes(i)' => botJob'[i].set \in were'
      BY <1>2, <1>i, <1>t, <2>2 DEF BotSettings
    <3>3. \A i \in alone' : i = j /\ \A h \in Requests : BotPublishes(h)' => h = j
      BY <1>i, <2>2
    <3>4. QED
      BY <1>t, <2>2, <3>1, <3>2, <3>3 DEF BotSettings
  <2>3. CASE B!Save(j) /\ k.pc = "idle" /\ Stores /\ parted' = TRUE /\ alone' = {} /\ UNCHANGED settings
    <3>1. \A i \in Requests : BotPublishes(i)' => botJob'[i].set \in were'
      BY <1>2, <1>i, <1>t, <2>3 DEF BotSettings, BotPublishes
    <3>2. QED
      BY <1>t, <2>3, <3>1 DEF BotSettings
  <2>4. CASE B!Publish(j)
    <3>1. /\ settings' = botJob[j].set /\ parted' = (j \notin alone) /\ alone' = {}
          /\ UNCHANGED <<stored, were>> /\ k.pc = "idle" /\ BotPublishes(j)
      BY <1>1, <1>p, <2>4 DEF BotPublishes
    <3>2. \A i \in Requests : BotPublishes(i)' => botJob'[i].set \in were
      BY <1>2, <1>i, <1>t, <3>1 DEF BotSettings, BotPublishes
    <3>3. j \in alone => settings' = BotInForce'
      BY <1>t, <3>1 DEF BotSettings, BotInForce
    <3>4. settings' \in were
      BY <1>t, <3>1 DEF BotSettings
    <3>5. QED
      BY <1>t, <3>1, <3>2, <3>3, <3>4 DEF BotSettings
  <2>5. QED
    BY <1>1, <2>1, <2>2, <2>3, <2>4
<1>7. \A i \in Requests : /\ botJob'[i].pc = botJob[i].pc \/ botJob[i].pc \notin {"insert", "trust"}
                          /\ botJob'[i].reason = botJob[i].reason \/ botJob[i].pc # "insert"
  BY <1>2, <1>3
<1>8. QED
  BY <1>2, <1>3, <1>4, <1>5, <1>6, <1>7, BotAside
LEMMA BotDroppedInv == ASSUME BotInv, NEW j \in Requests, B!Dropped(j) PROVE BotInv'
<1>1. PICK k \in BotJobType : botJob' = [botJob EXCEPT ![j] = k] /\ k.pc = "idle"
  BY BotEndsTo DEF B!Dropped
<1>2. /\ botJob' \in [Requests -> BotJobType] /\ botJob'[j] = k
      /\ \A i \in Requests \ {j} : botJob'[i] = botJob[i]
  BY <1>1, BotTurn DEF BotInv
<1>3. /\ UNCHANGED <<settings, stored, row, flagged, cached, trusted, issued, window>>
      /\ botJob[j].pc # "insert"
  BY DEF B!Dropped, B!memory
<1>4. parted' \in BOOLEAN /\ alone' \subseteq Requests /\ were' = were /\ BotSettings'
  <2>1. /\ parted' = (parted \/ botJob[j].pc = "publish") /\ alone' = alone \ {j} /\ were' = were
    BY DEF B!Dropped
  <2>2. alone \subseteq Requests /\ parted \in BOOLEAN /\ BotSettings
    BY DEF BotInv, BotTypes, B!AntibotTypeOK
  <2>3. \A i \in Requests : BotPublishes(i)' => i # j /\ BotPublishes(i) /\ botJob'[i] = botJob[i]
    BY <1>1, <1>2 DEF BotPublishes
  <2>4. \A i \in Requests : BotPublishes(i) => BotPublishes(i)' \/ (i = j /\ parted')
    BY <1>2, <2>1 DEF BotPublishes
  <2>5. \A i \in alone' : i \in alone /\ i \in Requests /\ botJob'[i] = botJob[i]
    BY <1>2, <2>1, <2>2
  <2>6. \A i \in alone' : BotPublishes(i)' /\ stored = {botJob'[i].set}
    BY <2>2, <2>5 DEF BotSettings, BotPublishes
  <2>7. QED
    BY <1>3, <2>1, <2>2, <2>3, <2>4, <2>5, <2>6 DEF BotSettings, BotInForce
<1>5. uncounted' \subseteq Reasons /\ B!Recorded' = B!Recorded
  BY <1>3 DEF B!Dropped, B!Recorded, BotInv, BotTypes, B!AntibotTypeOK
<1>6. BotTypes'
  <2>1. B!AntibotTypeOK'
    BY <1>3, <1>4, <1>5 DEF BotInv, BotTypes, B!AntibotTypeOK
  <2>2. QED
    BY <1>1, <1>2, <1>3, <2>1 DEF BotInv, BotTypes
<1>7. B!FlaggedIsCounted'
  <2>1. CASE botJob[j].pc = "trust"
    BY <2>1, <1>3 DEF B!Dropped, B!FlaggedIsCounted
  <2>2. CASE botJob[j].pc # "trust"
    <3>1. uncounted' = uncounted
      BY <2>2 DEF B!Dropped
    <3>2. \A i \in Requests : botJob[i].pc \in {"insert", "trust"} => botJob'[i] = botJob[i]
      BY <2>2, <1>2, <1>3
    <3>3. QED
      BY <3>1, <3>2, <1>3, <1>5 DEF BotInv, B!FlaggedIsCounted
  <2>3. QED
    BY <2>1, <2>2
<1>8. QED
  BY <1>4, <1>6, <1>7 DEF BotInv

\* Time passes, or a challenge is given out.
LEMMA BotEnvInv ==
    ASSUME BotInv, B!Challenge \/ B!TrustExpires \/ B!ScoreExpires \/ B!ChallengeExpires \/ UNCHANGED B!vars
    PROVE  BotInv'
<1>1. UNCHANGED <<settings, stored, row, flagged, window, botJob, parted, alone, were, uncounted>>
  BY DEF B!Challenge, B!TrustExpires, B!ScoreExpires, B!ChallengeExpires, B!vars, B!memory, B!saves
<1>2. cached' \in Nat /\ issued' \subseteq Challenges
  BY DEF B!Challenge, B!TrustExpires, B!ScoreExpires, B!ChallengeExpires, B!vars, B!memory, B!NoScore,
         BotInv, BotTypes, B!AntibotTypeOK
<1>3. trusted' = trusted \/ trusted' = FALSE
  BY DEF B!Challenge, B!TrustExpires, B!ScoreExpires, B!ChallengeExpires, B!vars, B!memory
<1>4. trusted' \in BOOLEAN
  BY <1>3 DEF BotInv, BotTypes, B!AntibotTypeOK
<1>5. BotSettings'
  BY <1>1 DEF BotInv, BotSettings, BotPublishes, BotInForce
<1>6. QED
  BY <1>1, <1>2, <1>4, <1>5, BotAside DEF BotInv, BotTypes, B!AntibotTypeOK

\* The settings are read from the table or are the defaults, the rest of the
\* memory is empty.
LEMMA BotRestartInv == ASSUME BotInv, B!Restart PROVE BotInv'
<1>1. /\ botJob' \in [Requests -> BotJobType] /\ \A j \in Requests : botJob'[j].pc = "idle"
      /\ UNCHANGED <<stored, row, were>> /\ alone' = {}
  BY BotIdleType DEF B!Restart, BotInv
<1>2. (settings' = BotInForce /\ parted' = FALSE) \/ (settings' = DefaultSettings /\ parted' = TRUE)
  BY DEF B!Restart, B!Loaded, BotInForce
<1>3. BotInForce \in were \cup {DefaultSettings} /\ were \subseteq Settings
  BY DEF BotInForce, BotInv, BotSettings, BotTypes, B!AntibotTypeOK
<1>4. /\ cached' \in Nat /\ trusted' \in BOOLEAN /\ parted' \in BOOLEAN /\ window' \in 0 .. Samples
  <2>1. trusted' \in BOOLEAN /\ parted' \in BOOLEAN
    BY Zenon DEF B!Restart
  <2>2. QED
    BY <2>1 DEF B!Restart, B!NoScore, BotInv
<1>5. B!AntibotTypeOK'
  BY <1>1, <1>2, <1>3, <1>4 DEF B!Restart, BotInv, BotTypes, B!AntibotTypeOK, B!Recorded
<1>6. BotTypes' /\ B!FlaggedIsCounted'
  BY <1>1, <1>5 DEF B!Restart, BotInv, BotTypes, B!FlaggedIsCounted
<1>7. BotSettings'
  BY <1>1, <1>2, <1>3 DEF BotInv, BotSettings, BotPublishes, BotInForce
<1>8. QED
  BY <1>6, <1>7 DEF BotInv

LEMMA BotNextInv == BotInv /\ [ServicesNext]_servicesVars => BotInv'
<1>1. SUFFICES ASSUME BotInv, [ServicesNext]_servicesVars PROVE BotInv'
  OBVIOUS
<1>2. CASE B!Next
  BY <1>1, <1>2, BotPreCheckInv, BotScoreInv, BotPaintedInv, BotSampleInv, BotMarkInv,
     BotChallengeInv, BotInsertInv, BotTrustInv, BotSaveInv, BotDroppedInv, BotEnvInv,
     BotRestartInv DEF B!Next
<1>3. CASE UNCHANGED botVars
  BY <1>1, <1>3, BotEnvInv DEF botVars, B!vars, B!memory, B!saves
<1>4. QED
  BY <1>1, <1>2, <1>3 DEF ServicesNext, servicesVars

-----------------------------------------------------------------------------
\* The invariant of the antibot holds whichever part the behaviour is about.
THEOREM AntibotInv == ServicesSpec => []BotInv
<1>1. ServicesInit => BotInv
  BY BotInitInv DEF ServicesInit
<1>2. QED
  BY <1>1, BotNextInv, PTL DEF ServicesSpec

\* The types hold in every behaviour.
THEOREM AntibotTypes == ServicesSpec => []B!AntibotTypeOK
<1>1. BotInv => B!AntibotTypeOK
  BY DEF BotInv, BotTypes
<1>2. QED
  BY <1>1, AntibotInv, PTL

\* Whatever analyses, solutions and restarts overlap, a reason that counts as
\* flagged, and is therefore never inserted again, is on record or about to
\* be: the exceptions are failed statements and solutions that were cut off.
THEOREM FlagsAreCounted == ServicesSpec => []FlaggedIsCounted
<1>1. BotInv => FlaggedIsCounted
  BY DEF BotInv, FlaggedIsCounted
<1>2. QED
  BY <1>1, AntibotInv, PTL

\* The settings in force are the stored ones after every save that no other
\* overlaps and after every start that can read the table, and whatever
\* overlaps, lost answers and failed loads do, never any that were not stored.
THEOREM SettingsFollow == ServicesSpec => []SettingsFollowTheStore
<1>1. BotInv => B!SettingsFollowTheStore
  BY DEF BotInv, BotSettings, BotPublishes, BotInForce, B!Loaded, B!SettingsFollowTheStore
<1>2. BotInv => SettingsFollowTheStore
  BY <1>1 DEF SettingsFollowTheStore
<1>3. QED
  BY <1>2, AntibotInv, PTL

-----------------------------------------------------------------------------
\* The score: a sum over the reasons on record, each of which is there once.

BotScore == /\ IsFiniteSet(B!Recorded) /\ Cardinality(B!Recorded) = Len(row.reasons)
            /\ row.score = SumOf(Weight, B!Recorded)

LEMMA BotScored == BotScore <=> IsFiniteSet(B!Recorded) /\ B!ScoreIsItsReasons
<1>1. \A S : B!Cardinality(S) = Cardinality(S)
  BY DEF B!Cardinality, Cardinality
<1>2. B!SumOf(Weight, B!Recorded) = SumOf(Weight, B!Recorded)
  BY <1>1 DEF B!SumOf, SumOf, B!Units, Units
<1>3. QED
  BY <1>1, <1>2 DEF BotScore, B!ScoreIsItsReasons

LEMMA BotNoScore == ASSUME row = B!NoRow PROVE BotScore
<1>1. row.reasons = << >> /\ row.score = 0
  BY DEF B!NoRow
<1>2. B!Recorded = {}
  BY <1>1 DEF B!Recorded
<1>3. IsFiniteSet({}) /\ Cardinality({}) = 0 /\ SumOf(Weight, {}) = 0
  BY FS_EmptySet, SumEmpty
<1>4. QED
  BY <1>1, <1>2, <1>3 DEF BotScore

\* The row is as it was, is deleted, or has one more reason.
LEMMA BotScoreNext ==
    ASSUME BotInv, BotScore, [ServicesNext]_servicesVars
    PROVE  BotScore'
<1>1. CASE row' = row
  BY <1>1 DEF BotScore, B!Recorded
<1>2. CASE row' = B!NoRow
  <2>1. BotNoted(row') = {} /\ row'.reasons = << >> /\ row'.score = 0
    BY <1>2 DEF B!NoRow, BotNoted
  <2>2. B!Recorded' = {}
    BY <2>1 DEF B!Recorded, BotNoted
  <2>3. IsFiniteSet({}) /\ Cardinality({}) = 0 /\ SumOf(Weight, {}) = 0
    BY FS_EmptySet, SumEmpty
  <2>4. QED
    BY <2>1, <2>2, <2>3 DEF BotScore
<1>3. ASSUME NEW j \in Requests, B!InsertFlag(j), botJob[j].reason \notin B!Recorded PROVE BotScore'
  <2>1. PICK r \in Reasons : r = botJob[j].reason
    BY BotJobTypes
  <2>2. row' = B!Added(r)
    BY <1>3, <2>1 DEF B!InsertFlag
  <2>3. B!Recorded' = B!Recorded \cup {r}
    <3>1. BotNoted(row') = B!Recorded \cup {r}
      BY <2>2, BotAddedType
    <3>2. QED
      BY <3>1 DEF BotNoted, B!Recorded
  <2>4. row'.score = row.score + Weight[r] /\ Len(row'.reasons) = Len(row.reasons) + 1
    <3>1. row.reasons \in Seq(Reasons)
      BY DEF BotInv, BotTypes, BotRowType
    <3>2. row'.score = row.score + Weight[r] /\ row'.reasons = Append(row.reasons, r)
      BY <2>2 DEF B!Added
    <3>3. QED
      BY <3>1, <3>2
  <2>5. PICK R : R = B!Recorded
    OBVIOUS
  <2>6. Summed(Weight, R) /\ r \notin R /\ Weight[r] \in Nat
    BY <1>3, <2>1, <2>5, BotRecordedType DEF BotScore, BotInv, BotTypes, Summed
  <2>7. SumOf(Weight, R \cup {r}) = SumOf(Weight, R) + Weight[r]
    BY <2>6, SumMore
  <2>8. IsFiniteSet(R \cup {r}) /\ Cardinality(R \cup {r}) = Cardinality(R) + 1
    BY <2>6, FS_AddElement DEF Summed
  <2>9. QED
    BY <2>3, <2>4, <2>5, <2>7, <2>8 DEF BotScore
<1>4. \/ row' = row \/ row' = B!NoRow
      \/ \E j \in Requests : B!InsertFlag(j) /\ botJob[j].reason \notin B!Recorded
  <2>1. CASE B!Next
    <3>1. ASSUME NEW j \in Requests,
                 \/ B!PreCheck(j) \/ B!SelectScore(j) \/ B!CacheScore(j) \/ B!Denied(j) \/ B!Painted(j)
                 \/ B!Sample(j) \/ B!NextReason(j) \/ B!MarkFlagged(j) \/ B!InsertFails(j)
                 \/ B!CacheFlag(j) \/ B!Collect(j) \/ B!Offer(j) \/ B!PostSolution(j) \/ B!Trust(j)
                 \/ B!AskSave(j) \/ B!Save(j) \/ B!Publish(j) \/ B!Dropped(j)
          PROVE  row' = row
      BY <3>1 DEF B!PreCheck, B!SelectScore, B!CacheScore, B!Denied, B!Painted, B!Sample,
                  B!NextReason, B!MarkFlagged, B!InsertFails, B!CacheFlag, B!Collect, B!Offer,
                  B!PostSolution, B!Trust, B!AskSave, B!Save, B!Publish, B!Dropped
    <3>2. B!Challenge \/ B!TrustExpires \/ B!ScoreExpires \/ B!ChallengeExpires \/ B!Restart => row' = row
      BY DEF B!Challenge, B!TrustExpires, B!ScoreExpires, B!ChallengeExpires, B!Restart
    <3>3. ASSUME NEW j \in Requests, B!DeleteFlags(j) PROVE row' = row \/ row' = B!NoRow
      BY <3>3 DEF B!DeleteFlags
    <3>4. ASSUME NEW j \in Requests, B!InsertFlag(j), botJob[j].reason \in B!Recorded PROVE row' = row
      BY <3>4 DEF B!InsertFlag
    <3>5. QED
      BY <2>1, <3>1, <3>2, <3>3, <3>4 DEF B!Next
  <2>2. CASE UNCHANGED botVars
    BY <2>2 DEF botVars
  <2>3. QED
    BY <2>1, <2>2 DEF ServicesNext, servicesVars
<1>5. QED
  BY <1>1, <1>2, <1>3, <1>4

\* The score is at every moment the sum of the weights of the reasons on
\* record, each of which is there once, whatever tasks and solutions overlap.
THEOREM ScoresAddUp == ServicesSpec => []ScoreIsItsReasons
<1>1. ServicesInit => BotScore
  BY BotNoScore DEF ServicesInit, B!Init
<1>2. BotInv /\ BotScore /\ [ServicesNext]_servicesVars => BotScore'
  BY BotScoreNext
<1>3. BotScore => ScoreIsItsReasons
  BY BotScored DEF ScoreIsItsReasons
<1>4. QED
  BY <1>1, <1>2, <1>3, AntibotInv, PTL DEF ServicesSpec

HIDE ServicesAssumption DEF BotJobType, BotPcs

=============================================================================
