----------------------------- MODULE MCCommands -----------------------------
(***************************************************************************)
(* An instance of Commands for TLC.                                        *)
(***************************************************************************)
EXTENDS Commands

MCWaits == {-1, 0, 1, 2, 3}
=============================================================================
