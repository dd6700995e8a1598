----------------------------- MODULE MCController -----------------------------
(* The controller called from anywhere: one listed account and one name that *)
(* is not listed, so that begin() is also given a user it has to turn down.  *)
EXTENDS Controller

CONSTANTS alice, mallory, hypr, sway

MCNames == {alice, mallory}
MCAccounts == {alice}
MCSessions == {hypr, sway}
=============================================================================
