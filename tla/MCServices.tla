----------------------------- MODULE MCServices -----------------------------
(***************************************************************************)
(* Services for TLC.  Users and requests are interchangeable.              *)
(***************************************************************************)
EXTENDS Services, FiniteSetsExt, SequencesExt, TLC

-----------------------------------------------------------------------------
\* Three users: the moderator at one address, one who registered at the second,
\* one who registered where the moderator is; both of these log in at a third,
\* and may move.
MCPeople == {"u1", "u2", "u3"}
RegisteredAt == [u \in MCPeople |-> IF u = "u2" THEN "y" ELSE "x"]
LoggedInFrom == [u \in MCPeople |-> IF u = "u1" THEN "x" ELSE "z"]

Weights == [headless |-> 2, regular |-> 1]
MCSettings == {[mode |-> "off", threshold |-> 2], [mode |-> "enforce", threshold |-> 2]}
MCDefaults == [mode |-> "enforce", threshold |-> 3]

\* Ids with a gap, a table longer than a batch, a child of two parents.
Legacy ==
    [t \in {"alliances", "users", "alliance_banned_users", "alliance_invites",
            "favorite_locations", "banned_ips", "tiles", "pixels", "regions",
            "profile_pictures", "sessions", "password_reset_tokens", "tickets", "user_notes",
            "leaderboard_view", "user_region_stats", "user_region_stats_daily",
            "notifications", "system_notifications", "system_notification_reads"} |->
        CASE t = "alliances" -> (1 :> "a")
          [] t = "users" -> (1 :> "u1") @@ (2 :> "u2") @@ (4 :> "u4")
          [] t = "tiles" -> (2 :> "t")
          [] t = "pixels" -> (2 :> "p")
          [] t = "regions" -> (1 :> "paris") @@ (3 :> "rome")
          [] OTHER -> [i \in {} |-> "none"]]
Dump == <<"rome", "oslo">>

\* Five of nine places, three of them given; or two cities of one place, one
\* city, or none.
Grid == (0..2) \X (0..2)
MCTowns == [at : Grid, id : {1}] \cup [at : {<<1, 2>>}, id : {2}]
Asked == {<<1, 0>>}
MCMaps ==
    {<<>>, <<[at |-> <<2, 2>>, id |-> 1]>>,
     <<[at |-> <<1, 2>>, id |-> 2], [at |-> <<1, 2>>, id |-> 1], [at |-> <<2, 0>>, id |-> 1]>>}
    \cup {SetToSeq([at : S, id : {1}]) :
             S \in {S \in kSubset(5, Grid) : {<<1, 2>>, <<2, 0>>, <<0, 1>>} \subseteq S}}

-----------------------------------------------------------------------------
Symmetry == Permutations(Users) \cup Permutations(Requests)

=============================================================================
