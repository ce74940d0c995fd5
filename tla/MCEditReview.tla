---------------------------- MODULE MCEditReview ----------------------------
(* A CD system with every field and a DVD system with fewer; an editor, a   *)
(* dumper and a moderator.                                                  *)
EXTENDS EditReview

CONSTANTS null, absent, noId, delimiter, editor, moderator, trusted

MCMediaOf == [ps |-> {"cd"}, wii |-> {"cd", "dvd"}]
MCHas == [ps |-> {"version", "errors", "edc", "ranges"}, wii |-> {"bca"}]
MCLayers == [cd |-> 1, dvd |-> 2]
MCIsCd == [cd |-> TRUE, dvd |-> FALSE]
MCAllowsMastering == [cd |-> FALSE, dvd |-> TRUE]
MCRoleOf == (editor :> "User") @@ (moderator :> "Moderator") @@ (trusted :> "User+")

Layer(code, tools) == [code |-> code, tools |-> tools]
Ring(id, offset, comment, layers) ==
    [id |-> id, offset |-> offset, comment |-> comment, layers |-> layers]

KnownCd ==
    [system |-> "ps", media |-> "cd", title |-> "Disc", version |-> "1.0", comments |-> <<"old">>,
     errors |-> 0, edc |-> TRUE, ranges |-> <<10>>, breaks |-> null, bca |-> null, dat |-> "tracks",
     serial |-> {"S1"}, mastering |-> {}, status |-> "Unverified",
     rings |-> <<Ring(1, 0, 0, <<Layer(1, {"m1"}), EmptyLayer>>)>>]

KnownDvd ==
    [system |-> "wii", media |-> "dvd", title |-> "Disc", version |-> null, comments |-> null,
     errors |-> null, edc |-> FALSE, ranges |-> <<>>, breaks |-> <<7>>,
     bca |-> [bytes |-> 192, tail |-> "U"], dat |-> "image",
     serial |-> {}, mastering |-> {"U"}, status |-> "Verified", rings |-> <<>>]

MCTexts == {"Disc", "Dump", "1.0", "1.1", "old", "new", "tracks", "image", "S1", "S2", "T", "U", "m1", "m2", delimiter}

BlankForm == [Blank EXCEPT !.breaks = <<>>, !.status = "Unverified"]

VerificationForm ==
    [BlankForm EXCEPT !.dat = "tracks", !.errors = 0, !.comments = <<"new">>, !.serial = {"S2"},
        !.rings = <<Ring(noId, 5, 0, <<Layer(1, {"m2"}), EmptyLayer>>)>>]
NewCdForm ==
    [VerificationForm EXCEPT !.system = "ps", !.media = "cd", !.title = "Dump", !.version = "1.1", !.edc = FALSE]
NewDvdForm ==
    [BlankForm EXCEPT !.dat = "image", !.system = "wii", !.media = "dvd", !.title = "Dump", !.breaks = <<7>>,
        !.bca = [bytes |-> 64, tail |-> "T"]]

MCInitContents == {KnownCd, KnownDvd, null}
MCAddForms == {VerificationForm, NewCdForm, NewDvdForm}
MCTyped == {<<"version", null>>, <<"title", null>>, <<"ranges", <<>>>>, <<"errors", 9>>, <<"system", "wii">>}
MCTypedRings == {Ring(noId, 0, 0, <<Layer(2, {}), EmptyLayer>>)}
=============================================================================
