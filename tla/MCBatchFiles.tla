---------------------------- MODULE MCBatchFiles ----------------------------
(***************************************************************************)
(* An instance of BatchFiles for TLC.                                      *)
(***************************************************************************)
EXTENDS BatchFiles, TLC

CONSTANTS p1, p2, n1, n2

MCPrograms == {p1, p2}
MCWords == {n1, n2}
MCCommands == (p1 :> {"create_batch"})
              @@ (p2 :> {"populate", "generate"})
=============================================================================
