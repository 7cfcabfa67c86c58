---------------------------- MODULE AllianceModes ----------------------------
(***************************************************************************)
(* Alliance in two modes, chosen at the start: requests that overlap and   *)
(* fail, and one request at a time without failures, of which the promises *)
(* of the documentation are true.                                          *)
(***************************************************************************)
EXTENDS Alliance

CONSTANT RaceOps    \* bound: requests ever started when they overlap

VARIABLE lone       \* whether requests come one at a time

OthersIdle(r) == \A q \in Requests \ {r} : job[q].pc = "idle"

LoneNext ==
    \/ \E r \in Requests : OthersIdle(r) /\ Works(r)
    \/ \E u \in Users : Expire(u)

ModesInit == lone \in BOOLEAN /\ Init
ModesNext == UNCHANGED lone /\ IF lone THEN LoneNext ELSE Next /\ ops' <= RaceOps
ModesSpec == ModesInit /\ [][ModesNext]_<<vars, lone>>

-----------------------------------------------------------------------------
\* One at a time: who is banned from an alliance does not belong to it, and when
\* nothing is at work, what is cached is the row.
LoneRowsAgree == lone => BannedStayOut /\ CacheIsCurrent

\* One at a time: no administrator is made a member, and the last one who leaves
\* hands over.
LoneRolesHold == [][lone => AdminsStay /\ HandsOver]_<<vars, lone>>

=============================================================================
