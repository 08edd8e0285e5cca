---------------------------- MODULE MCSelections ----------------------------
(* An instance of Selections for TLC: contents that are stored, one that is   *)
(* blocked and one that is not allowed.                                      *)
EXTENDS Selections

CONSTANTS seat0, a, b, secret, html

OneSeat   == {seat0}
BothKinds == Selection

FourContents == {a, b, secret, html}
Secret       == {secret}
Html         == {html}
OneOrNone    == {{}, {a}}

ReadFault == {"read"}
FourIds   == 1 .. 4
=============================================================================
