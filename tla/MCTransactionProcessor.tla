----------------------- MODULE MCTransactionProcessor -----------------------
(***************************************************************************)
(* An instance of TransactionProcessor for TLC.                            *)
(***************************************************************************)
EXTENDS TransactionProcessor, FiniteSets

CONSTANTS m, f1, f2, f3, f4, f5

MCClients == {m}
MCKinds == {"process", "ping", "other"}
MCFutures == {f1, f2, f3, f4, f5}

\* There is an id for every call of Stream.send: none is refused one.
ASSUME EnoughFutures ==
    Cardinality(Futures) >= MaxEpoch * Registrations + MaxRequests + 1
=============================================================================
