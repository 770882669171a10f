-------------------------- MODULE MCMockValidator --------------------------
(***************************************************************************)
(* An instance of MockValidator for TLC.                                   *)
(***************************************************************************)
EXTENDS MockValidator

Says(type, body, rest) == [type |-> type, body |-> body, rest |-> rest]

MCGet == Says("get", 1, 0)
MCGetReversed == Says("get", 1, 1)
MCSet == Says("set", 1, 0)
MCSetReversed == Says("set", 1, 1)
MCSetOther == Says("set", 2, 0)
MCOk == Says("response", 1, 0)
MCInvalid == Says("response", 2, 0)
MCInvalidWhy == Says("response", 2, 1)
MCReceipt == Says("other", 1, 0)

MCContents ==
    {MCGet, MCGetReversed, MCSet, MCSetReversed, MCSetOther, MCOk, MCInvalid,
     MCInvalidWhy, MCReceipt}

\* A transaction refused for its payload, for the state, and one applied.
MCScripts ==
    {<<{MCInvalid}>>,
     <<{MCGet}, {MCInvalid}>>,
     <<{MCGet}, {MCSet, MCSetOther}, {MCOk}>>}

MCHandlings ==
    {<<MCInvalidWhy>>,
     <<MCGet, MCInvalid>>,
     <<MCGetReversed, MCInvalid>>,
     <<MCGet, MCSetReversed, MCOk>>,
     <<MCGet, MCReceipt, MCOk>>}
=============================================================================
