--------------------------------- MODULE Xo ---------------------------------
(***************************************************************************)
(* examples/xo_python/sawtooth_xo/processor: handler.py, xo_state.py and   *)
(* xo_payload.py, the tic-tac-toe family.                                  *)
(*                                                                         *)
(* The data at an address is a dict from the names that hash to it to      *)
(* games.  XoState reads it once for a transaction and works on its cache, *)
(* so that a transaction is one get_state and one set_state or             *)
(* delete_state: an address whose last game is deleted is unset, which a   *)
(* reader cannot tell from an empty dict.                                  *)
(***************************************************************************)
EXTENDS TransactionFamily, FiniteSets

CONSTANTS
    Names,      \* names of games, without "," and "|"
    AddressOf,  \* _make_xo_address
    Signers,    \* public keys
    NoOne,      \* the empty string
    Garbage,    \* a payload XoPayload raises InvalidTransaction for
    NoGame

ASSUME XoNamesAssumption == AddressOf \in [Names -> Addresses]
ASSUME XoSignersAssumption == NoOne \notin Signers
ASSUME XoJobsAssumption ==
    \A j \in Jobs :
        /\ j.signer \in Signers
        /\ j.payload # Garbage =>
            /\ j.payload.name \in Names
            /\ j.payload.action \in {"create", "delete", "take"}
            /\ j.payload.action = "take" => j.payload.space \in 1 .. 9

Squares == 1 .. 9
Wins == {{1, 2, 3}, {4, 5, 6}, {7, 8, 9}, {1, 4, 7}, {2, 5, 8}, {3, 6, 9},
         {1, 5, 9}, {3, 5, 7}}
Boards == [Squares -> {"-", "X", "O"}]
GameStates == {"P1-NEXT", "P2-NEXT", "P1-WIN", "P2-WIN", "TIE"}
Games == [board : Boards, state : GameStates,
          player1 : Signers \cup {NoOne}, player2 : Signers \cup {NoOne}]
IsDict(d) == DOMAIN d \subseteq Names /\ d \in [DOMAIN d -> Games]

ASSUME XoNoGameAssumption ==
    NoGame \notin [board : Boards, player1 : Signers \cup {NoOne},
                   player2 : Signers \cup {NoOne}]

-----------------------------------------------------------------------------
(* Pure parts of the handler.                                              *)

NewGame ==
    [board |-> [i \in Squares |-> "-"], state |-> "P1-NEXT",
     player1 |-> NoOne, player2 |-> NoOne]

\* _is_win
IsWin(board, letter) == \E win \in Wins : \A i \in win : board[i] = letter

\* A "take" that raises no InvalidTransaction.
Takes(t, signer, game) ==
    /\ game.state \notin {"P1-WIN", "P2-WIN", "TIE"}
    /\ game.state = "P1-NEXT" => game.player1 \in {NoOne, signer}
    /\ game.state = "P2-NEXT" => game.player2 \in {NoOne, signer}
    /\ game.board[t.space] = "-"

\* _update_board
UpdateBoard(board, space, state) ==
    [board EXCEPT ![space] = IF state = "P1-NEXT" THEN "X" ELSE "O"]

\* _update_game_state raises InternalError.
TwoWinners(board) == IsWin(board, "X") /\ IsWin(board, "O")

\* Mutant of UpdateGameState: the wins are swapped.
UpdateGameStateSwapped(state, board) ==
    CASE IsWin(board, "O") -> "P1-WIN"
      [] IsWin(board, "X") -> "P2-WIN"
      [] ~IsWin(board, "X") /\ ~IsWin(board, "O") ->
            IF \A i \in Squares : board[i] # "-" THEN "TIE"
            ELSE IF state = "P1-NEXT" THEN "P2-NEXT" ELSE "P1-NEXT"

UpdateGameState(state, board) ==
    CASE IsWin(board, "X") -> "P1-WIN"
      [] IsWin(board, "O") -> "P2-WIN"
      [] ~IsWin(board, "X") /\ ~IsWin(board, "O") ->
            IF \A i \in Squares : board[i] # "-" THEN "TIE"
            ELSE IF state = "P1-NEXT" THEN "P2-NEXT" ELSE "P1-NEXT"

\* Mutant of Moved: "if" for "elif", the first signer takes both places.
MovedTwice(t, signer, game) ==
    LET board == UpdateBoard(game.board, t.space, game.state) IN
    [board   |-> board,
     state   |-> UpdateGameState(game.state, board),
     player1 |-> IF game.player1 = NoOne THEN signer ELSE game.player1,
     player2 |-> IF game.player2 = NoOne THEN signer ELSE game.player2]

\* The signer fills the first place that is free.
Moved(t, signer, game) ==
    LET board == UpdateBoard(game.board, t.space, game.state) IN
    [board   |-> board,
     state   |-> UpdateGameState(game.state, board),
     player1 |-> IF game.player1 = NoOne THEN signer ELSE game.player1,
     player2 |-> IF game.player1 # NoOne /\ game.player2 = NoOne
                 THEN signer ELSE game.player2]

\* set_game and delete_game on the dict of the address.
WithGame(dict, n, game) ==
    [m \in DOMAIN dict \cup {n} |-> IF m = n THEN game ELSE dict[m]]
WithoutGame(dict, n) == [m \in DOMAIN dict \ {n} |-> dict[m]]

-----------------------------------------------------------------------------
Tx(p)   == job[p].payload
Home(p) == AddressOf[Tx(p).name]

\* XoPayload raises InvalidTransaction.
Refuse(p) ==
    /\ at[p] = "apply"
    /\ Tx(p) = Garbage
    /\ Ends(p, "invalid")

\* XoState.get_game
GetGame(p) ==
    /\ at[p] = "apply"
    /\ Tx(p) # Garbage
    /\ GetState(p, Home(p))

Doing(p, action) == at[p] = "compute" /\ Tx(p).action = action

DoDelete(p) ==
    /\ Doing(p, "delete")
    /\ IF Tx(p).name \in DOMAIN data[p]
       THEN Computes(p, WithoutGame(data[p], Tx(p).name))
       ELSE Ends(p, "invalid")

DoCreate(p) ==
    /\ Doing(p, "create")
    /\ IF Tx(p).name \notin DOMAIN data[p]
       THEN Computes(p, WithGame(data[p], Tx(p).name, NewGame))
       ELSE Ends(p, "invalid")

DoTake(p) ==
    LET t == Tx(p)
        s == job[p].signer
        g == data[p][t.name] IN
    /\ Doing(p, "take")
    /\ IF t.name \in DOMAIN data[p] /\ Takes(t, s, g)
       THEN IF TwoWinners(UpdateBoard(g.board, t.space, g.state))
            THEN Ends(p, "internal")
            ELSE Computes(p, WithGame(data[p], t.name, Moved(t, s, g)))
       ELSE Ends(p, "invalid")

\* _store_game or _delete_game
StoreGames(p) == at[p] = "store" /\ SetState(p, Home(p))

CommitGames(p) == at[p] = "ok" /\ Commit(p, Home(p))

\* XoState.TIMEOUT: no answer to a request of its Context within 3 seconds.
\* The FutureTimeoutError is none of those _process catches.
StateTimesOut(p) ==
    /\ \/ at[p] = "apply" /\ Tx(p) # Garbage
       \/ at[p] = "store"
    /\ Ends(p, "dead")

XoNext ==
    \E p \in Processors :
        \/ \E j \in Jobs : Deliver(p, j)
        \/ Restart(p)
        \/ Refuse(p)
        \/ GetGame(p)
        \/ DoDelete(p)
        \/ DoCreate(p)
        \/ DoTake(p)
        \/ StoreGames(p)
        \/ CommitGames(p)
        \/ StateTimesOut(p)
        \/ Decline(p)
        \/ Disconnected(p)

XoSpec == FamilyInit /\ [][XoNext]_familyVars

-----------------------------------------------------------------------------
(* Properties.                                                             *)

XoTypeOK ==
    /\ DOMAIN entries = Addresses /\ \A a \in Addresses : IsDict(entries[a])
    /\ DOMAIN data = Processors /\ \A p \in Processors : IsDict(data[p])
    /\ at \in [Processors -> Points]
    /\ job \in [Processors -> Jobs \cup {NoJob}]
    /\ \A p \in Processors : at[p] \in Busy => job[p] \in Jobs

\* "Two winners (there can be only one)" and "Unhandled state" are never
\* raised: no sequence of transactions leads to either.
NeverInternal == \A p \in Processors : at[p] # "internal"

\* The games, as the rules know them: without the state the handler keeps.
gameOf ==
    [n \in Names |->
        IF n \in DOMAIN entries[AddressOf[n]]
        THEN LET g == entries[AddressOf[n]][n] IN
             [board |-> g.board, player1 |-> g.player1, player2 |-> g.player2]
        ELSE NoGame]

T == INSTANCE TicTacToe WITH game <- gameOf

\* Every change of a game is a move of tic-tac-toe by the player whose turn it
\* is, a creation or a deletion, of that game alone: what the handler keeps in
\* "state" never disagrees with the board, and no other game of the address is
\* touched.
PlaysByTheRules == T!GamesSpec

\* What state says of a game that goes on, of one that has ended, and of who
\* has moved.
StateFits(g) ==
    LET x == IsWin(g.board, "X")
        o == IsWin(g.board, "O") IN
    /\ g.state \in {"P1-NEXT", "P2-NEXT"} => ~x /\ ~o
    /\ g.state = "P1-WIN" => x /\ ~o
    /\ g.state = "P2-WIN" => o /\ ~x
    /\ g.state = "TIE" => ~x /\ ~o /\ \A i \in Squares : g.board[i] # "-"
    /\ g.player1 = NoOne =>
        /\ g.state = "P1-NEXT" /\ g.player2 = NoOne
        /\ \A i \in Squares : g.board[i] = "-"
    /\ g.player2 = NoOne => g.state \in {"P1-NEXT", "P2-NEXT"}

DictFits(d) == \A n \in DOMAIN d : StateFits(d[n])

\* In every game, stored or about to be stored, what the handler keeps in
\* "state", "player1" and "player2" is right for the board it keeps.
StatesFit ==
    /\ \A a \in Addresses : DictFits(entries[a])
    /\ \A p \in Processors : DictFits(data[p])

\* Inductive: every dict that is stored, or that a handler reads, computes or
\* stores, holds well-formed games only, no sequence of transactions leads to
\* two winners, and a handler past XoPayload has a payload.
XoInv ==
    /\ XoTypeOK
    /\ StatesFit
    /\ NeverInternal
    /\ \A p \in Processors :
        at[p] \in {"compute", "store", "ok"} => Tx(p) # Garbage

\* Whose turn it is follows from the marks, and who the players are from
\* whose turn it is.
Count(board, mark) == Cardinality({i \in Squares : board[i] = mark})

TurnFits(g) ==
    /\ g.state = "P1-NEXT" => Count(g.board, "X") = Count(g.board, "O")
    /\ g.state = "P2-NEXT" => Count(g.board, "X") = Count(g.board, "O") + 1
    /\ g.player1 # NoOne /\ g.player2 = NoOne => g.state = "P2-NEXT"

\* What p has computed from dict.
Outcome(p, dict) ==
    LET t == Tx(p)
        s == job[p].signer IN
    \/ /\ t.action = "delete"
       /\ t.name \in DOMAIN dict
       /\ data[p] = WithoutGame(dict, t.name)
    \/ /\ t.action = "create"
       /\ t.name \notin DOMAIN dict
       /\ data[p] = WithGame(dict, t.name, NewGame)
    \/ /\ t.action = "take"
       /\ t.name \in DOMAIN dict
       /\ Takes(t, s, dict[t.name])
       /\ data[p] = WithGame(dict, t.name, Moved(t, s, dict[t.name]))

\* What a handler has read, or is about to commit, is right for the entries
\* as they are now.
GamesCurrent(p) ==
    /\ at[p] \in {"compute", "store", "ok"} => Home(p) \in job[p].inputs
    /\ at[p] = "compute" => data[p] = entries[Home(p)]
    /\ at[p] \in {"store", "ok"} => Outcome(p, entries[Home(p)])
    /\ at[p] = "ok" => Home(p) \in job[p].outputs

\* The inductive invariant behind PlaysByTheRules.
RulesInv ==
    /\ XoInv
    /\ NoConflicts
    /\ \A a \in Addresses : \A n \in DOMAIN entries[a] : TurnFits(entries[a][n])
    /\ \A p \in Processors : GamesCurrent(p)
=============================================================================
