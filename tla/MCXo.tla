-------------------------------- MODULE MCXo --------------------------------
(***************************************************************************)
(* An instance of Xo for TLC: every course of one game between two         *)
(* signers, with another game at the same address.                         *)
(***************************************************************************)
EXTENDS Xo, TLC

CONSTANTS p1, a1, n1, n2, s1, s2

MCProcessors == {p1}
MCAddresses == {a1}
MCNames == {n1, n2}
MCAddressOf == [n \in MCNames |-> a1]
MCSigners == {s1, s2}

\* The second game is created and deleted, but not played: with two boards
\* the states would be the square of what they are.
MCPayloads ==
    [name : {n1}, action : {"take"}, space : Squares]
    \cup [name : {n1}, action : {"create", "delete"}, space : {0}]
    \cup [name : {n2}, action : {"create", "delete"}, space : {0}]
    \cup {Garbage}

\* Only the signer of a "take" matters, and headers that do not list the
\* address come with one payload.
MCJobs ==
    {j \in [payload : MCPayloads, signer : MCSigners,
            inputs : SUBSET MCAddresses, outputs : SUBSET MCAddresses] :
        LET t == j.payload
            take == t # Garbage /\ t.action = "take" IN
        /\ j.signer = s1 \/ take
        /\ \/ j.inputs = MCAddresses /\ j.outputs = MCAddresses
           \/ t = [name |-> n1, action |-> "create", space |-> 0]}

MCSymmetry == Permutations(MCSigners)

Marks(m) == {i \in Squares : entries[a1][n1].board[i] = m}

\* Up to a rotation or a reflection of the board, the first move is at a
\* corner, at an edge or in the middle.  A signer who plays both parts does so
\* for four moves at most; the second game is there while the first one has
\* three marks at most.
MCBound ==
    n1 \in DOMAIN entries[a1] =>
        LET g == entries[a1][n1]
            moves == 9 - Cardinality(Marks("-")) IN
        /\ \A i \in Squares : Marks("X") = {i} => i \in {1, 2, 5}
        /\ g.player1 = g.player2 => moves <= 4
        /\ n2 \in DOMAIN entries[a1] => moves <= 3
=============================================================================
