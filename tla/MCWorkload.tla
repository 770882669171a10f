----------------------------- MODULE MCWorkload -----------------------------
(***************************************************************************)
(* An instance of Workload for TLC.                                        *)
(***************************************************************************)
EXTENDS Workload

CONSTANTS c1, c2, u1, u2, n1, n2

MCCheckers == {c1, c2}
MCUrls == {u1, u2}
MCNames == {n1, n2}
=============================================================================
