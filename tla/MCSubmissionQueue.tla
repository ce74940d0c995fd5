------------------------- MODULE MCSubmissionQueue -------------------------
(* Instances of SubmissionQueue for TLC: the constants of each run. *)
EXTENDS SubmissionQueueInvariant, TLC

CONSTANTS x, y, n1, n2, d1, d2, h1, mod, plus, usr,
          s1, s2, s3, c1, c2, c3, t1, t2, t3

Content(system, name, dat, hash, status) ==
    "system_code" :> system @@ "name" :> name @@ "dat" :> dat
        @@ "universal_hash" :> hash @@ "status" :> status

Row(type, who, target, ch, reviewer) ==
    [NewRow(type, who, target, ch, None, None) EXCEPT !.reviewer = reviewer]

MCRoleOf == mod :> "Moderator" @@ plus :> "User+" @@ usr :> "User"

NoDiscs == [d \in DiscIds |-> None]
NoSubs == [s \in SubIds |-> None]
Submissions(first, second, third) ==
    [s \in SubIds |-> IF s = s1 THEN first ELSE IF s = s2 THEN second ELSE third]

-----------------------------------------------------------------------------
(* Two reviews by a moderator race for a new disc, a verification and an    *)
(* edit that disables the disc or takes the new one's name or hash.         *)

Game == Content(x, n1, d1, None, "Unverified")
Port == Content(y, n2, d2, h1, "Unverified")
Renamed == Content(x, n2, d2, None, "Unverified")
Disabled == [Game EXCEPT !["status"] = "Disabled"]
Rehashed == [Renamed EXCEPT !["universal_hash"] = h1]
Hashed == [Game EXCEPT !["universal_hash"] = h1]

OneDisc == [NoDiscs EXCEPT ![1] = Game]
NoPages == <<>>
OneModerator == [c \in Clients |-> mod]

RaceForms == {Disabled}
\* mod has already commented on the first two.
RaceSubs ==
    Submissions(Row("Disc", usr, None, DiscChanges(Blank, Rehashed), mod),
                Row("Disc", plus, 1, DiscChanges(Blank, Hashed), mod),
                Row("Edit", usr, 1, EditChanges(Game, Renamed), None))

-----------------------------------------------------------------------------
(* A moderator and a User+ review: the User+ only verifications of their     *)
(* own, which the moderator may retarget or send back at any moment, and     *)
(* what their Add Disc form was stored as, when they post it again.          *)

ModeratorAndPlus == c1 :> mod @@ c2 :> plus
OwnForms == {Disabled, Hashed}
OwnPage == t1 :> [user |-> plus, kind |-> "Add"]
\* The first is what the page of t1 was stored as.
OwnSubs ==
    Submissions(NewRow("Disc", plus, 1, DiscChanges(Blank, Hashed), t1, Hashed),
                Row("Edit", plus, 1, EditChanges(Game, Renamed), None), None)

-----------------------------------------------------------------------------
(* A User+ posts an Add Disc and an Edit Disc form, any number of times and  *)
(* from two requests at once: the first post of a disc is approved on the    *)
(* spot, later ones verify it.  The moderator sends verifications back, and  *)
(* the dumper resubmits them from two tabs while they are reviewed again.    *)

ModeratorAndTwoTabs == c1 :> mod @@ c2 :> plus @@ c3 :> plus
AllPages == t1 :> [user |-> plus, kind |-> "Add"] @@ t2 :> [user |-> plus, kind |-> "Edit"]
              @@ t3 :> [user |-> plus, kind |-> "Draft"]
PortForms == {Port}

-----------------------------------------------------------------------------
(* Two requests of the moderator and one of the user, on one submission.      *)

TwoModeratorsAndUser == c1 :> mod @@ c2 :> mod @@ c3 :> usr
UserPages == t1 :> [user |-> usr, kind |-> "Add"] @@ t2 :> [user |-> usr, kind |-> "Draft"]
DraftForms == {Port, Game}
RevisionSubs ==
    Submissions(Row("Disc", usr, None, DiscChanges(Blank, Renamed), mod), None, None)
=============================================================================
