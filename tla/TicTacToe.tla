------------------------------ MODULE TicTacToe ------------------------------
(***************************************************************************)
(* What the xo family promises: games of tic-tac-toe, one for each name,   *)
(* by the rules.  Whose turn it is and whether the game is over is nothing *)
(* but a matter of what is on the board.                                   *)
(***************************************************************************)
EXTENDS Naturals, FiniteSets

CONSTANTS Names, Signers, NoOne, NoGame

VARIABLE game  \* the game of each name, or NoGame

Squares == 1 .. 9
Lines == {{1, 2, 3}, {4, 5, 6}, {7, 8, 9}, {1, 4, 7}, {2, 5, 8}, {3, 6, 9},
          {1, 5, 9}, {3, 5, 7}}

Marked(g, m) == {i \in Squares : g.board[i] = m}
Won(g, m)    == \E line \in Lines : \A i \in line : g.board[i] = m
Over(g)      == Won(g, "X") \/ Won(g, "O") \/ Marked(g, "-") = {}

\* X begins.
Turn(g) == IF Cardinality(Marked(g, "X")) = Cardinality(Marked(g, "O"))
           THEN "X" ELSE "O"

NewGame == [board |-> [i \in Squares |-> "-"],
            player1 |-> NoOne, player2 |-> NoOne]

GamesInit == game = [n \in Names |-> NoGame]

Create(n) ==
    /\ game[n] = NoGame
    /\ game' = [game EXCEPT ![n] = NewGame]

Delete(n) ==
    /\ game[n] # NoGame
    /\ game' = [game EXCEPT ![n] = NoGame]

\* The first to move is the first player, whoever makes the second move the
\* other one; m is the mark whose turn it is.
Take(n, g, m) ==
    \E i \in Squares, s \in Signers :
        /\ g.board[i] = "-"
        /\ (IF m = "X" THEN g.player1 ELSE g.player2) \in {NoOne, s}
        /\ game' = [game EXCEPT ![n] =
              [board   |-> [g.board EXCEPT ![i] = m],
               player1 |-> IF m = "X" THEN s ELSE g.player1,
               player2 |-> IF m = "O" THEN s ELSE g.player2]]

Play(n) ==
    LET g == game[n]
        m == Turn(g) IN
    g # NoGame /\ ~Over(g) /\ Take(n, g, m)

GamesNext == \E n \in Names : Create(n) \/ Delete(n) \/ Play(n)

GamesSpec == GamesInit /\ [][GamesNext]_game
=============================================================================
