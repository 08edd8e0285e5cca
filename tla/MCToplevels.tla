---------------------------- MODULE MCToplevels ----------------------------
(* An instance of Toplevels for TLC: two windows, a table by title, which      *)
(* comes first, and one by app id.                                           *)
EXTENDS Toplevels

CONSTANTS editor, keyring, text, image, secret

TwoWindows == {editor, keyring}
ThreeMimes == {text, image, secret}
TwoTitles  == {"notes", "vault"}
OneAppId   == {"app"}

Globally == [NoFilter EXCEPT !.allowed = {text, image}, !.transient = {secret}]
TextOnly == [NoFilter EXCEPT !.allowed = {text}]
Tables   == <<[titles |-> {"vault"}, app_ids |-> {},
               filter |-> [NoFilter EXCEPT !.blocked = {image, secret}, !.allowed = {text}]],
              [titles |-> {}, app_ids |-> {"app"}, filter |-> [NoFilter EXCEPT !.transient = {image}]]>>
=============================================================================
