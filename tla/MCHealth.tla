------------------------------ MODULE MCHealth ------------------------------
(***************************************************************************)
(* Small instances of Health for TLC.                                      *)
(***************************************************************************)
EXTENDS Health

CONSTANTS loader, core

TwoDeps == {loader, core}
=============================================================================
