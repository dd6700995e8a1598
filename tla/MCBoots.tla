------------------------------- MODULE MCBoots -------------------------------
(* Two accounts and two sessions over any number of lives.  The first life    *)
(* finds no file (or a corrupt one), or one that names an account and a       *)
(* session that are no longer there.                                          *)
EXTENDS Boots

CONSTANTS alice, bob, hypr, sway, goneUser, goneSession

MCNames == {alice, bob}
MCSessions == {hypr, sway}
MCLeftBehind == {None, [user |-> goneUser, session |-> goneSession]}
=============================================================================
