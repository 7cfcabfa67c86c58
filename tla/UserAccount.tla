----------------------------- MODULE UserAccount -----------------------------
(***************************************************************************)
(* One row of the table users and its entry in the user cache, under every *)
(* request that writes them: paints (services/paint.rs up to the charge),  *)
(* purchases, flags and pictures (routes/me.rs), bans, timeouts and grants *)
(* (services/user_ops.rs, routes/admin.rs), and services/user_cache.rs.    *)
(*                                                                         *)
(* A handler holds a copy of the row across its awaits, so a request is a  *)
(* job with a program counter and a snapshot, and each statement and each  *)
(* access to the cache is a step.  A client that hangs up or a statement   *)
(* that fails ends a request at any of them.                               *)
(*                                                                         *)
(* Abstractions.  Charges are counted in the smallest unit a price has, so *)
(* that a discounted pixel costs a whole number of them; the application's *)
(* and the database's clock are one.  The level formula is known by the    *)
(* pixel counts at which it reaches a new level.  An entry older than the  *)
(* TTL is as good as none, so the TTL is a step that drops it.             *)
(***************************************************************************)
EXTENDS Integers, FiniteSets

CONSTANTS
    Requests,                     \* requests in flight together
    Colors, Flags,                \* what the store unlocks
    Free,                         \* a color that needs no unlock; no region
    NoUser,                       \* nothing cached; no snapshot
    Price,                        \* droplets per item of the store
    PicturePrice,                 \* PICTURE_PRICE_DROPLETS
    MaxStep, ChargeStep,          \* what "max" and "charges" add per unit
    PixelReward, LevelDroplets, LevelMax,
    LevelAt,                      \* pixel counts at which a level is reached
    Full, Discounted,             \* charge units of a pixel
    Regen,                        \* charge units regenerated per tick
    TimeoutTicks,
    StartDroplets, StartCharges, StartMax,
    Batches,                      \* sizes of a paint, amounts of a purchase
    Grants,                       \* droplets an administrator adds
    MaxOps, MaxTime               \* bounds: requests ever started, ticks

Items == {"max", "charges"} \cup Colors \cup Flags

ASSUME AccountAssumption ==
    /\ Free \notin Items /\ Colors \cap Flags = {}
    /\ {"max", "charges"} \cap (Colors \cup Flags) = {}
    /\ Price \in [Items -> Nat] /\ PicturePrice \in Nat
    /\ {MaxStep, ChargeStep, PixelReward, LevelDroplets, LevelMax, Full, Discounted,
        Regen, TimeoutTicks, StartDroplets, StartCharges, StartMax} \subseteq Nat
    /\ LevelAt \subseteq Nat /\ IsFiniteSet(LevelAt)
    /\ Batches \subseteq Nat \ {0}
    /\ Grants \subseteq Int
    /\ MaxOps \in Nat /\ MaxTime \in Nat

VARIABLES
    now,     \* the clock
    row,     \* the users row
    cache,   \* the entry of UserCache.map that has not expired, or NoUser
    job,     \* what each request is doing
    ledger,  \* history: droplets earned and spent, units used and credited
    bought,  \* history: colors and flags a purchase has paid for
    enjoyed, \* history: colors painted with, flags equipped or discounted
    undone,  \* history: a purchase has written over a newer row
    late,    \* history: requests whose copy of the row another one has overtaken
    spoilt,  \* history: a late copy was cached last, or a repair was dropped since
    ops      \* requests started so far

vars == <<now, row, cache, job, ledger, bought, enjoyed, undone, late, spoilt, ops>>
books == <<ledger, bought, enjoyed, undone>>

-----------------------------------------------------------------------------
\* Charges, levels and costs

LesserOf(a, b) == IF a <= b THEN a ELSE b
GreaterOf(a, b) == IF a >= b THEN a ELSE b

\* utils/charges.rs, regenerate: charges above the maximum are kept.
Regenerated(s, t) ==
    IF s.charges >= s.max THEN s.charges
                          ELSE LesserOf(s.charges + Regen * (t - s.at), s.max)

\* The same in the UPDATE of a paint: charges above the maximum are cut.
Available(s, t) == LesserOf(s.max, s.charges + Regen * (t - s.at))

\* Mutant of Unlocked: any bit of the bitmap is taken for the color's.
UnlockedAny(s, c) == c = Free \/ s.unlocked # {}

Unlocked(s, c) == c = Free \/ c \in s.unlocked

\* 0.9 of a charge per pixel in a region whose flag the snapshot owns.
Cost(j) == j.n * (IF j.flag \in j.snap.unlocked THEN Discounted ELSE Full)

LevelsGained(p, n) == Cardinality({k \in LevelAt : p < k /\ k <= p + n})

Reward(p, n) == n * PixelReward + (IF LevelsGained(p, n) > 0 THEN LevelDroplets ELSE 0)

IdleJob == [pc |-> "idle", op |-> "none", n |-> 1, item |-> Free, flag |-> Free,
            snap |-> NoUser, when |-> 0]

Ended(r) == job' = [job EXCEPT ![r] = IdleJob]

Goes(r, pc) == job' = [job EXCEPT ![r].pc = pc]

-----------------------------------------------------------------------------
\* The start of a request: get_or_load, then the checks on what it returned.

\* Mutant of Passes: flag_equip does not look at the flags of the account.
PassesUnowned(j, s) ==
    CASE j.op = "paint"    -> s.until <= now /\ Unlocked(s, j.item)
      [] j.op = "purchase" -> s.droplets >= Price[j.item] * j.n
      [] j.op = "unequip"  -> s.equipped # Free
      [] OTHER             -> j.op = "equip"

Passes(j, s) ==
    CASE j.op = "paint"    -> s.until <= now /\ Unlocked(s, j.item)
      [] j.op = "purchase" -> s.droplets >= Price[j.item] * j.n
      [] j.op = "equip"    -> j.item \in s.unlocked
      [] j.op = "unequip"  -> s.equipped # Free
      [] OTHER             -> FALSE

\* The route of a paint ("enter") only refuses; the service, which looks again,
\* bans a banned account once more.  A read is over.
Decided(j, s) ==
    IF j.op = "enter"
    THEN IF s.banned \/ s.until > now THEN IdleJob
                                      ELSE [j EXCEPT !.op = "paint", !.pc = "enter", !.snap = NoUser]
    ELSE IF j.op = "paint" /\ s.banned THEN [IdleJob EXCEPT !.pc = "reban"]
    ELSE IF Passes(j, s) THEN [j EXCEPT !.pc = "write", !.snap = s, !.when = now]
    ELSE IdleJob

Started(r, j) ==
    /\ job[r].pc = "idle"
    /\ ops < MaxOps /\ ops' = ops + 1
    /\ job' = [job EXCEPT ![r] = j]
    /\ UNCHANGED <<now, row, cache, books>>

\* peek: an entry within its TTL, or a SELECT.
Lookup(r, j) ==
    Started(r, IF cache # NoUser THEN Decided(j, cache) ELSE [j EXCEPT !.pc = "load"])

AskPaint(r) ==
    \E n \in Batches, c \in Colors \cup {Free}, f \in Flags \cup {Free} :
        Lookup(r, [IdleJob EXCEPT !.op = "enter", !.n = n, !.item = c, !.flag = f])

EnterPaint(r) ==
    /\ job[r].pc = "enter"
    /\ job' = [job EXCEPT ![r] = IF cache # NoUser THEN Decided(@, cache)
                                 ELSE [@ EXCEPT !.pc = "load"]]
    /\ UNCHANGED <<now, row, cache, books, ops>>

AskPurchase(r) ==
    \E n \in Batches, i \in Items :
        Lookup(r, [IdleJob EXCEPT !.op = "purchase", !.n = n, !.item = i])

AskFlag(r) ==
    \/ \E f \in Flags : Lookup(r, [IdleJob EXCEPT !.op = "equip", !.item = f])
    \/ Lookup(r, [IdleJob EXCEPT !.op = "unequip"])

AskProfile(r) == Lookup(r, [IdleJob EXCEPT !.op = "view"])

\* Requests that do not look at the cache first.
AskPicture(r) == Started(r, [IdleJob EXCEPT !.op = "picture", !.pc = "check"])
AskUpdate(r) == Started(r, [IdleJob EXCEPT !.op = "update", !.pc = "write"])
AskSanction(r) ==
    \E o \in {"ban", "unban", "timeout", "lift"} :
        Started(r, [IdleJob EXCEPT !.op = o, !.pc = "write"])
AskGrant(r) ==
    \E d \in Grants : Started(r, [IdleJob EXCEPT !.op = "grant", !.pc = "write", !.n = d])

\* get_or_load: SELECT, and after the await the insert.
Load(r) ==
    /\ job[r].pc = "load"
    /\ job' = [job EXCEPT ![r].pc = "fill", ![r].snap = row]
    /\ UNCHANGED <<now, row, cache, books, ops>>

Fill(r) ==
    /\ job[r].pc = "fill"
    /\ cache' = job[r].snap
    /\ job' = [job EXCEPT ![r] = Decided(@, job[r].snap)]
    /\ UNCHANGED <<now, row, books, ops>>

-----------------------------------------------------------------------------
\* Paint: update_user_after_paint

\* Mutant of Payable: the statement trusts the snapshot about bans.
PayableSnapshot(j) == ~j.snap.banned /\ row.until <= now /\ Available(row, now) >= Cost(j)

\* The WHERE clause.
Payable(j) == ~row.banned /\ row.until <= now /\ Available(row, now) >= Cost(j)

Charge(r) ==
    LET j == job[r]
        gained == Reward(row.painted, j.n)
        s == [row EXCEPT !.charges = GreaterOf(0, Available(row, now) - Cost(j)),
                         !.at = now,
                         !.painted = @ + j.n,
                         !.max = @ + LevelMax * LevelsGained(row.painted, j.n),
                         !.droplets = @ + gained]
    IN
    /\ j.pc = "write" /\ j.op = "paint"
    /\ Payable(j)
    /\ row' = s
    /\ job' = [job EXCEPT ![r].pc = "store", ![r].snap = s]
    /\ ledger' = [ledger EXCEPT !.earned = @ + gained, !.used = @ + Cost(j)]
    /\ enjoyed' = enjoyed \cup ({j.item, IF j.flag \in j.snap.unlocked THEN j.flag ELSE Free}
                                    \ {Free})
    /\ UNCHANGED <<now, cache, bought, undone, ops>>

\* The returned row becomes the cache entry.
Store(r) ==
    /\ job[r].pc = "store"
    /\ cache' = job[r].snap
    /\ Ended(r)
    /\ UNCHANGED <<now, row, books, ops>>

\* No row returned: the handler looks again to tell the client why.
Refused(r) ==
    /\ job[r].pc = "write" /\ job[r].op = "paint"
    /\ ~Payable(job[r])
    /\ Goes(r, "reload")
    /\ UNCHANGED <<now, row, cache, books, ops>>

-----------------------------------------------------------------------------
\* Purchase: every column is computed from the snapshot and written.

\* Mutant of Purchased: every item sets a bit.
PurchasedSetsAny(j) ==
    LET s == j.snap IN
    [row EXCEPT
        !.droplets = s.droplets - Price[j.item] * j.n,
        !.max = s.max + (IF j.item = "max" THEN MaxStep * j.n ELSE 0),
        !.charges = IF j.item = "charges" THEN Regenerated(s, j.when) + ChargeStep * j.n
                                          ELSE s.charges,
        !.at = IF j.item = "charges" THEN j.when ELSE s.at,
        !.unlocked = s.unlocked \cup {j.item}]

\* Mutant of Purchased: charges_last_updated_at is left as it was.
PurchasedKeepsClock(j) ==
    LET s == j.snap IN
    [row EXCEPT
        !.droplets = s.droplets - Price[j.item] * j.n,
        !.max = s.max + (IF j.item = "max" THEN MaxStep * j.n ELSE 0),
        !.charges = IF j.item = "charges" THEN Regenerated(s, j.when) + ChargeStep * j.n
                                          ELSE s.charges,
        !.at = s.at,
        !.unlocked = s.unlocked \cup ({j.item} \cap (Colors \cup Flags))]

Purchased(j) ==
    LET s == j.snap IN
    [row EXCEPT
        !.droplets = s.droplets - Price[j.item] * j.n,
        !.max = s.max + (IF j.item = "max" THEN MaxStep * j.n ELSE 0),
        !.charges = IF j.item = "charges" THEN Regenerated(s, j.when) + ChargeStep * j.n
                                          ELSE s.charges,
        !.at = IF j.item = "charges" THEN j.when ELSE s.at,
        !.unlocked = s.unlocked \cup ({j.item} \cap (Colors \cup Flags))]

\* The columns a purchase writes are no longer what its snapshot says.
Overwrites(j) ==
    <<row.droplets, row.max, row.charges, row.at, row.unlocked>>
        # <<j.snap.droplets, j.snap.max, j.snap.charges, j.snap.at, j.snap.unlocked>>

Buy(r) ==
    LET j == job[r] IN
    /\ j.pc = "write" /\ j.op = "purchase"
    /\ row' = Purchased(j)
    /\ Goes(r, "reload")
    /\ ledger' = [ledger EXCEPT !.spent = @ + Price[j.item] * j.n,
                                !.credit = @ + (IF j.item = "charges" THEN ChargeStep * j.n ELSE 0)]
    /\ bought' = bought \cup ({j.item} \cap (Colors \cup Flags))
    /\ undone' = (undone \/ Overwrites(j))
    /\ UNCHANGED <<now, cache, enjoyed, ops>>

EquipFlag(r) ==
    LET j == job[r] IN
    /\ j.pc = "write" /\ j.op \in {"equip", "unequip"}
    /\ row' = [row EXCEPT !.equipped = j.item]
    /\ enjoyed' = enjoyed \cup ({j.item} \ {Free})
    /\ Goes(r, "reload")
    /\ UNCHANGED <<now, cache, ledger, bought, undone, ops>>

\* upload_profile_picture: SELECT droplets, later a relative debit.
CheckDroplets(r) ==
    /\ job[r].pc = "check"
    /\ IF row.droplets >= PicturePrice THEN Goes(r, "write") ELSE Ended(r)
    /\ UNCHANGED <<now, row, cache, books, ops>>

DebitPicture(r) ==
    /\ job[r].pc = "write" /\ job[r].op = "picture"
    /\ row' = [row EXCEPT !.droplets = @ - PicturePrice]
    /\ ledger' = [ledger EXCEPT !.spent = @ + PicturePrice]
    /\ Goes(r, "reload")
    /\ UNCHANGED <<now, cache, bought, enjoyed, undone, ops>>

\* update_me, change_profile_picture: columns no property looks at.
UpdateProfile(r) ==
    /\ job[r].pc = "write" /\ job[r].op = "update"
    /\ Goes(r, "reload")
    /\ UNCHANGED <<now, row, cache, books, ops>>

\* refresh: a SELECT, and after the await the insert.
Reload(r) ==
    /\ job[r].pc = "reload"
    /\ job' = [job EXCEPT ![r].pc = "refill", ![r].snap = row]
    /\ UNCHANGED <<now, row, cache, books, ops>>

\* A refused paint that finds a ban bans again.
Refill(r) ==
    /\ job[r].pc = "refill"
    /\ cache' = job[r].snap
    /\ IF job[r].op = "paint" /\ job[r].snap.banned THEN Goes(r, "reban") ELSE Ended(r)
    /\ UNCHANGED <<now, row, books, ops>>

-----------------------------------------------------------------------------
\* Sanctions and grants: an UPDATE, then invalidate.

\* Mutant of Sanction: the entry is left in the cache.
SanctionKeepsEntry(r) ==
    LET o == job[r].op IN
    /\ job[r].pc = "write" /\ o \in {"ban", "unban", "timeout", "lift"}
    /\ row' = CASE o = "ban"     -> [row EXCEPT !.banned = TRUE]
                [] o = "unban"   -> [row EXCEPT !.banned = FALSE]
                [] o = "timeout" -> [row EXCEPT !.until = now + TimeoutTicks]
                [] o = "lift"    -> [row EXCEPT !.until = now]
    /\ Ended(r)
    /\ UNCHANGED <<now, cache, books, ops>>

Sanction(r) ==
    LET o == job[r].op IN
    /\ job[r].pc = "write" /\ o \in {"ban", "unban", "timeout", "lift"}
    /\ row' = CASE o = "ban"     -> [row EXCEPT !.banned = TRUE]
                [] o = "unban"   -> [row EXCEPT !.banned = FALSE]
                [] o = "timeout" -> [row EXCEPT !.until = now + TimeoutTicks]
                [] o = "lift"    -> [row EXCEPT !.until = now]
    /\ Goes(r, "invalidate")
    /\ UNCHANGED <<now, cache, books, ops>>

Reban(r) ==
    /\ job[r].pc = "reban"
    /\ row' = [row EXCEPT !.banned = TRUE]
    /\ Goes(r, "invalidate")
    /\ UNCHANGED <<now, cache, books, ops>>

Grant(r) ==
    LET d == job[r].n IN
    /\ job[r].pc = "write" /\ job[r].op = "grant"
    /\ row' = [row EXCEPT !.droplets = @ + d]
    /\ ledger' = [ledger EXCEPT !.earned = @ + (IF d > 0 THEN d ELSE 0),
                                !.spent = @ + (IF d > 0 THEN 0 ELSE -d)]
    /\ Goes(r, "invalidate")
    /\ UNCHANGED <<now, cache, bought, enjoyed, undone, ops>>

Invalidate(r) ==
    /\ job[r].pc = "invalidate"
    /\ cache' = NoUser
    /\ Ended(r)
    /\ UNCHANGED <<now, row, books, ops>>

-----------------------------------------------------------------------------
\* A statement fails, or the client hangs up and the handler is dropped at
\* one of its awaits, before or after the statement has taken effect.
Abandon(r) ==
    /\ job[r].pc # "idle"
    /\ Ended(r)
    /\ UNCHANGED <<now, row, cache, books, ops>>

Expire ==
    /\ cache' = NoUser
    /\ UNCHANGED <<now, row, job, books, ops>>

Tick ==
    /\ now < MaxTime /\ now' = now + 1
    /\ UNCHANGED <<row, cache, job, books, ops>>

Init ==
    /\ now = 0
    /\ row = [droplets |-> StartDroplets, max |-> StartMax, charges |-> StartCharges,
              at |-> 0, painted |-> 0, unlocked |-> {}, equipped |-> Free,
              banned |-> FALSE, until |-> 0]
    /\ cache = NoUser
    /\ job = [r \in Requests |-> IdleJob]
    /\ ledger = [earned |-> 0, spent |-> 0, used |-> 0, credit |-> 0]
    /\ bought = {} /\ enjoyed = {} /\ undone = FALSE
    /\ late = {} /\ spoilt = FALSE
    /\ ops = 0

Ask(r) ==
    \/ AskPaint(r) \/ AskPurchase(r) \/ AskFlag(r) \/ AskProfile(r)
    \/ AskPicture(r) \/ AskUpdate(r) \/ AskSanction(r) \/ AskGrant(r)

Step(r) ==
    \/ EnterPaint(r) \/ Load(r) \/ Fill(r) \/ Charge(r) \/ Store(r) \/ Refused(r)
    \/ Buy(r) \/ EquipFlag(r) \/ CheckDroplets(r) \/ DebitPicture(r) \/ UpdateProfile(r)
    \/ Reload(r) \/ Refill(r) \/ Sanction(r) \/ Reban(r) \/ Grant(r) \/ Invalidate(r)

Serve ==
    \/ \E r \in Requests : Ask(r) \/ Step(r) \/ Abandon(r)
    \/ Expire \/ Tick

\* The request is about to put a copy of the row into the cache.
Holds(j) == j.pc \in {"fill", "refill", "store"}

\* The request has written the row, and has yet to refresh or drop the entry.
Owes(j) == j.pc \in {"store", "invalidate"} \/ (j.pc \in {"reload", "refill"} /\ j.op # "paint")

\* What the histories of the entry note of a step.
Track ==
    LET Puts(r) == Holds(job[r]) /\ ~Holds(job'[r]) /\ cache' = job[r].snap
        Drops(r) == Owes(job[r]) /\ ~Owes(job'[r])
    IN
    /\ late' = {r \in Requests : Holds(job'[r]) /\ (r \in late \/ (Holds(job[r]) /\ row' # row))}
    /\ spoilt' = CASE cache' = NoUser              -> FALSE
                   [] \E r \in Requests : Puts(r)  -> \E r \in late : Puts(r)
                   [] OTHER                        -> spoilt \/ \E r \in Requests : Drops(r)

Next == Serve /\ Track

Spec == Init /\ [][Next]_vars

-----------------------------------------------------------------------------
\* Properties

Unlockables == Colors \cup Flags

Users == [droplets : Int, max : Nat, charges : Int, at : Nat, painted : Nat,
          unlocked : SUBSET Unlockables, equipped : Flags \cup {Free},
          banned : BOOLEAN, until : Nat]

Pcs == {"idle", "enter", "load", "fill", "check", "write", "store", "reload", "refill", "reban",
        "invalidate"}

Orders == {"none", "enter", "paint", "purchase", "equip", "unequip", "view", "picture", "update",
           "ban", "unban", "timeout", "lift", "grant"}

Jobs == [pc : Pcs, op : Orders, n : Int, item : Items \cup {Free},
         flag : Flags \cup {Free}, snap : Users \cup {NoUser}, when : Nat]

Ledgers == [earned : Nat, spent : Nat, used : Nat, credit : Nat]

\* The types of all but the histories of the entry.
StateOK ==
    /\ now \in Nat
    /\ row \in Users
    /\ cache \in Users \cup {NoUser}
    /\ job \in [Requests -> Jobs]
    /\ ledger \in Ledgers
    /\ bought \in SUBSET Unlockables /\ enjoyed \in SUBSET Unlockables
    /\ undone \in BOOLEAN
    /\ ops \in Nat

\* Every variable has its type.
TypeOK == StateOK /\ late \in SUBSET Requests /\ spoilt \in BOOLEAN

\* Charges are never spent twice and droplets never lost, by any number of
\* paints, purchases, uploads and grants at once, on whatever stale entries
\* they decided, unless a purchase has written over a newer row: all units
\* used and left are covered by those at the start, bought and regenerated up
\* to charges_last_updated_at; the droplets are the difference of what was
\* earned and spent; and everything bought is still unlocked.
BooksBalance ==
    ~undone =>
        /\ row.charges + ledger.used <= StartCharges + ledger.credit + Regen * row.at
        /\ row.droplets = StartDroplets + ledger.earned - ledger.spent
        /\ row.unlocked = bought

\* A cached entry that is not the row is only as stale as the code can make it:
\* some request has written the row and is still to refresh or drop the entry,
\* or the entry was last put there by a get_or_load, a refresh or a paint that
\* others overtook between its statement and its insert, or a repair was
\* abandoned since.  Every path that writes the row pays for it, and the next
\* copy that nobody overtakes, or the next removal, makes up for all of it.
StaleIsOwed ==
    cache # NoUser /\ cache # row /\ ~spoilt => \E r \in Requests : Owes(job[r])

\* Nobody paints with a color, wears a flag or gets a flag's discount that the
\* store was not paid for, however old the snapshot is that showed it.
EnjoyedWasBought == enjoyed \subseteq bought

\* A ban or a timeout binds the next charge, also of a request that was let
\* through on an older snapshot.
SanctionsBind ==
    [][row'.painted # row.painted => ~row.banned /\ row.until <= now]_vars

-----------------------------------------------------------------------------
\* The inductive invariant, by parts.

\* A copy of the row, however old: t is the clock, b what was bought and e
\* what was earned since.
Known(s, t, b, e) ==
    /\ s \in Users
    /\ s.at <= t
    /\ s.charges >= 0
    /\ s.unlocked \subseteq b
    /\ s.droplets <= StartDroplets + e

\* The arguments of a request that has been let in.
OrderOK(j) ==
    /\ j.op \in {"enter", "paint"} => j.n \in Nat /\ j.item \in Colors \cup {Free}
    /\ j.op = "purchase" => j.n \in Nat /\ j.item \in Items
    /\ j.op = "equip" => j.item \in Flags
    /\ j.op = "unequip" => j.item = Free

\* A request that writes was let through by its snapshot, at the time "when".
Sound(j, t, b, e) ==
    /\ j.pc \in {"enter", "load", "fill", "write"} => OrderOK(j)
    /\ j.pc = "check" => j.op = "picture"
    /\ j.pc \in {"fill", "store", "refill"} => Known(j.snap, t, b, e)
    /\ j.pc = "write" /\ j.op \in {"paint", "purchase", "equip"} =>
          /\ Known(j.snap, t, b, e)
          /\ j.snap.at <= j.when /\ j.when <= t
          /\ j.op = "paint" => Unlocked(j.snap, j.item)
          /\ j.op = "equip" => j.item \in j.snap.unlocked

\* Every copy of the row that a request or the cache holds is of the past:
\* nothing in it was not bought or earned by now.
CopiesAreOld ==
    LET Old(s) == Known(s, now, bought, ledger.earned) IN
    /\ Old(row)
    /\ cache # NoUser => Old(cache)
    /\ \A r \in Requests : Sound(job[r], now, bought, ledger.earned)

\* A copy that is about to be cached is the row, unless it was overtaken.
CopiesFollow ==
    /\ \A r \in Requests : Holds(job[r]) /\ r \notin late => job[r].snap = row
    /\ StaleIsOwed

-----------------------------------------------------------------------------
\* What protocol.md promises of rewards ("Each level up will gain 500 droplets
\* and increase 2 maximum charges"): earned droplets stay until they are spent.
RewardsAreKept == row.droplets = StartDroplets + ledger.earned - ledger.spent

=============================================================================
