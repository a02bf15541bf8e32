------------------------------ MODULE MCEditor ------------------------------
(***************************************************************************)
(* Editor for TLC: the users, and the files by name.  A text with the      *)
(* first edit and no other does not render.                                *)
(***************************************************************************)
EXTENDS Editor

CONSTANTS a, b

Doing(patience, e, s, d) ==
    [patience |-> patience, edits |-> e, switches |-> s, downloads |-> d,
     losable |-> {}, unreadable |-> {}, tooLarge |-> {}]

Waiting == Doing(2, 3, 2, 1)
Hasty   == [Doing(1, 3, 0, 1) EXCEPT !.losable = {"load", "serialize"}, !.unreadable = {"load"},
                                    !.tooLarge = {b}]

WaitingAndHasty == {Waiting, Hasty}
Opening == {Doing(1, 2, 1, 0)}
Idle == {[Doing(2, 0, 0, 0) EXCEPT !.tooLarge = {a}]}

FirstBroken == {{1}}
NoneBroken == {}
=============================================================================
