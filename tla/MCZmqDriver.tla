---------------------------- MODULE MCZmqDriver ----------------------------
(***************************************************************************)
(* Instances of ZmqDriver for TLC.                                         *)
(***************************************************************************)
EXTENDS ZmqDriver, FiniteSets

CONSTANTS e, d, o, f1, f2

MCClients == {e, d, o}
MCReceivers == {e, d}
MCKinds == {"activated", "deactivated", "notify", "malformed"}
MCFutures == {f1, f2}
MCAnswers == {"startup", "ok", "not ready"}
=============================================================================
