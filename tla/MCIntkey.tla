------------------------------ MODULE MCIntkey ------------------------------
(***************************************************************************)
(* An instance of Intkey for TLC.                                          *)
(***************************************************************************)
EXTENDS Intkey, TLC

CONSTANTS p1, p2, a1, a2, n1, n2, n3, long

MCProcessors == {p1, p2}
MCAddresses == {a1, a2}
MCNames == {n1, n2, n3}

\* n1 and n2 collide.
MCAddressOf == (n1 :> a1) @@ (n2 :> a1) @@ (n3 :> a2)

\* Every valid payload, and one for each way to be refused.
MCPayloads ==
    [verb : ValidVerbs, name : MCNames, value : Values]
    \cup [verb : {"add"}, name : {n1}, value : {0}]
    \cup [verb : {"set"}, name : {long}, value : {0}]
    \cup [verb : {"set"}, name : {n1}, value : {-1, MaxValue + 1}]
    \cup {Garbage, Incomplete}

\* Headers that list what the payload needs, less, and more.
MCHeaders ==
    {<<{a1}, {a1}>>, <<{a2}, {a2}>>, <<{a1}, {}>>, <<{a1, a2}, {a1, a2}>>}

MCJobs ==
    {[payload |-> t, inputs |-> h[1], outputs |-> h[2]] :
        t \in MCPayloads, h \in MCHeaders}

MCSymmetry == Permutations(MCProcessors)
=============================================================================
