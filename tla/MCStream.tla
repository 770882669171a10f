------------------------------ MODULE MCStream ------------------------------
(***************************************************************************)
(* Instances of Stream for TLC.                                            *)
(***************************************************************************)
EXTENDS Stream, TLC

CONSTANTS c1, c2, r1, r2

MCClients == {c1, c2}
MCOneClient == {c1}
MCPatient == {c1}
MCReceivers == {c2}
MCInterruptible == {c1}
MCKinds == {"request"}
MCFutures == {r1, r2}
MCOneFuture == {r1}

\* Futures are interchangeable; clients are not (one of them is patient).
MCSymmetry == Permutations(MCFutures)
=============================================================================
