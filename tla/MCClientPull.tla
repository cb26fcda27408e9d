---------------------------- MODULE MCClientPull ----------------------------
(* The instances of ClientPull for TLC: a row that is written here and      *)
(* elsewhere, new to the device, and one whose merge was deferred earlier.  *)
EXTENDS ClientPull, TLC

MCLeftover == <<2>>
MCSkews == {-1, 0, 3}
=============================================================================
