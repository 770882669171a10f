------------------------------ MODULE XoProofs ------------------------------
(***************************************************************************)
(* Proofs about Xo: its games are well-formed, have one winner at most, and *)
(* are those of TicTacToe.                                                 *)
(***************************************************************************)
EXTENDS Xo, FiniteSetTheorems, TLAPS

\* No line is a single square.
LEMMA LinesAreLong ==
    ASSUME NEW win \in Wins, NEW s
    PROVE  win \subseteq Squares /\ \E i \in win : i # s
  BY DEF Wins, Squares

LEMMA NewGameFits == NewGame \in Games /\ StateFits(NewGame)
  <1>1. NewGame \in Games
    BY DEF NewGame, Games, Boards, GameStates
  <1>2. ASSUME NEW letter \in {"X", "O"} PROVE ~IsWin(NewGame.board, letter)
    <2>1. \A win \in Wins : \E i \in win : i \in Squares
      BY LinesAreLong
    <2> QED BY <2>1 DEF NewGame, IsWin
  <1>3. \A i \in Squares : NewGame.board[i] = "-"
    BY DEF NewGame
  <1> QED BY <1>1, <1>2, <1>3 DEF StateFits, NewGame

\* A move wins for the one who makes it or for nobody.
LEMMA OneWinner ==
    ASSUME NEW t, t.space \in Squares, NEW s \in Signers, NEW g \in Games,
           StateFits(g), Takes(t, s, g)
    PROVE  LET board == UpdateBoard(g.board, t.space, g.state) IN
           /\ board \in Boards
           /\ g.state \in {"P1-NEXT", "P2-NEXT"}
           /\ g.state = "P1-NEXT" => ~IsWin(board, "O")
           /\ g.state = "P2-NEXT" => ~IsWin(board, "X")
  <1> DEFINE mark  == IF g.state = "P1-NEXT" THEN "X" ELSE "O"
             board == UpdateBoard(g.board, t.space, g.state)
  <1>1. g.state \in {"P1-NEXT", "P2-NEXT"}
    BY DEF Takes, Games, GameStates
  <1>2. board \in Boards /\ board = [g.board EXCEPT ![t.space] = mark]
    BY DEF UpdateBoard, Games, Boards
  <1>3. ASSUME NEW letter \in {"X", "O"}, letter # mark, IsWin(board, letter)
        PROVE  FALSE
    <2>1. PICK win \in Wins : \A i \in win : board[i] = letter
      BY <1>3 DEF IsWin
    <2>2. \A i \in win : i \in Squares /\ i # t.space
      BY <1>2, <1>3, <2>1, LinesAreLong DEF Games, Boards
    <2>3. \A i \in win : g.board[i] = letter
      BY <1>2, <2>1, <2>2 DEF Games, Boards
    <2>4. IsWin(g.board, letter)
      BY <2>3 DEF IsWin
    <2> QED BY <1>1, <1>3, <2>4 DEF StateFits
  <1> QED BY <1>1, <1>2, <1>3

LEMMA MovedFits ==
    ASSUME NEW t, t.space \in Squares, NEW s \in Signers, NEW g \in Games,
           StateFits(g), Takes(t, s, g)
    PROVE  /\ ~TwoWinners(UpdateBoard(g.board, t.space, g.state))
           /\ Moved(t, s, g) \in Games
           /\ StateFits(Moved(t, s, g))
  <1> DEFINE board == UpdateBoard(g.board, t.space, g.state)
             h     == Moved(t, s, g)
             x     == IsWin(board, "X")
             o     == IsWin(board, "O")
  <1>1. /\ board \in Boards
        /\ g.state \in {"P1-NEXT", "P2-NEXT"}
        /\ g.state = "P1-NEXT" => ~o
        /\ g.state = "P2-NEXT" => ~x
    BY OneWinner
  <1>2. ~TwoWinners(board)
    BY <1>1 DEF TwoWinners
  <1>3. /\ h.board = board /\ h.state = UpdateGameState(g.state, board)
        /\ h.player1 = IF g.player1 = NoOne THEN s ELSE g.player1
        /\ h.player2 = IF g.player1 # NoOne /\ g.player2 = NoOne THEN s
                       ELSE g.player2
    BY DEF Moved
  <1>4. /\ x => h.state = "P1-WIN"
        /\ o => h.state = "P2-WIN"
        /\ ~x /\ ~o => \/ h.state = "TIE" /\ \A i \in Squares : board[i] # "-"
                       \/ /\ h.state \in {"P1-NEXT", "P2-NEXT"}
                          /\ \E i \in Squares : board[i] = "-"
    BY <1>1, <1>3 DEF UpdateGameState
  <1>5. h \in Games
    BY <1>1, <1>3, <1>4 DEF Moved, Games, GameStates
  <1>6. h.player1 # NoOne
    BY <1>3, XoSignersAssumption
  <1>7. ASSUME h.player2 = NoOne PROVE h.state \in {"P1-NEXT", "P2-NEXT"}
    <2>1. \A i \in Squares : g.board[i] = "-"
      BY <1>3, <1>7, XoSignersAssumption DEF StateFits
    <2>2. \A i \in Squares : i # t.space => board[i] = "-"
      BY <2>1 DEF UpdateBoard, Games, Boards
    <2>3. ~x /\ ~o
      BY <2>2, LinesAreLong DEF IsWin
    <2>4. \E i \in Squares : i # t.space
      BY DEF Squares
    <2> QED BY <1>4, <2>2, <2>3, <2>4
  <1>8. /\ h.state \in {"P1-NEXT", "P2-NEXT"} => ~x /\ ~o
        /\ h.state = "P1-WIN" => x /\ ~o
        /\ h.state = "P2-WIN" => o /\ ~x
        /\ h.state = "TIE" => ~x /\ ~o /\ \A i \in Squares : board[i] # "-"
    BY <1>1, <1>4
  <1>9. StateFits(h)
    BY <1>3, <1>6, <1>7, <1>8 DEF StateFits
  <1> QED BY <1>2, <1>5, <1>9

-----------------------------------------------------------------------------
GoodDict(d) == IsDict(d) /\ DictFits(d)

LEMMA EmptyIsGood == GoodDict(EmptyDict)
  BY DEF GoodDict, EmptyDict, IsDict, DictFits

LEMMA WithGameIsGood ==
    ASSUME NEW d, GoodDict(d), NEW n \in Names, NEW g \in Games, StateFits(g)
    PROVE  GoodDict(WithGame(d, n, g))
  <1> DEFINE e == WithGame(d, n, g)
  <1>1. DOMAIN e = DOMAIN d \cup {n} /\ e = [m \in DOMAIN e |-> e[m]]
    BY DEF WithGame
  <1>2. \A m \in DOMAIN e : e[m] = IF m = n THEN g ELSE d[m]
    BY DEF WithGame
  <1>3. \A m \in DOMAIN d : d[m] \in Games /\ StateFits(d[m])
    BY DEF GoodDict, IsDict, DictFits
  <1>4. \A m \in DOMAIN e : e[m] \in Games /\ StateFits(e[m])
    BY <1>1, <1>2, <1>3
  <1> QED BY <1>1, <1>4 DEF GoodDict, IsDict, DictFits

LEMMA WithoutGameIsGood ==
    ASSUME NEW d, GoodDict(d), NEW n
    PROVE  GoodDict(WithoutGame(d, n))
  BY DEF GoodDict, IsDict, DictFits, WithoutGame

\* A step that puts good dicts where it changes data or entries, and does not
\* raise InternalError, keeps the invariant.
LEMMA GoodStep ==
    ASSUME XoInv, NEW p \in Processors,
           \A a \in Addresses : GoodDict(entries'[a]), GoodDict(data'[p]),
           DOMAIN entries' = Addresses, DOMAIN data' = Processors,
           NEW point \in Points, point # "internal",
           at' = [at EXCEPT ![p] = point],
           \A q \in Processors \ {p} : data'[q] = data[q] /\ job'[q] = job[q],
           job' \in [Processors -> Jobs \cup {NoJob}],
           point \in Busy => job'[p] \in Jobs,
           point \in {"compute", "store", "ok"} => Tx(p)' # Garbage
    PROVE  XoInv'
  <1>1. /\ at' \in [Processors -> Points] /\ at'[p] = point
        /\ \A q \in Processors \ {p} : at'[q] = at[q]
    BY DEF XoInv, XoTypeOK
  <1>2. \A q \in Processors : GoodDict(data'[q])
    BY DEF XoInv, XoTypeOK, StatesFit, GoodDict
  <1>3. XoTypeOK' /\ StatesFit'
    BY <1>1, <1>2 DEF XoInv, XoTypeOK, StatesFit, GoodDict
  <1>4. NeverInternal'
    BY <1>1 DEF XoInv, NeverInternal
  <1>5. \A q \in Processors :
            at'[q] \in {"compute", "store", "ok"} => Tx(q)' # Garbage
    BY <1>1 DEF XoInv, Tx
  <1> QED BY <1>3, <1>4, <1>5 DEF XoInv

\* What the invariant says of the dicts and of the job of a busy processor.
LEMMA Good ==
    ASSUME XoInv, NEW p \in Processors
    PROVE  /\ DOMAIN entries = Addresses /\ DOMAIN data = Processors
           /\ \A a \in Addresses : GoodDict(entries[a])
           /\ \A q \in Processors : GoodDict(data[q])
           /\ at[p] \in Points /\ at \in [Processors -> Points]
           /\ job \in [Processors -> Jobs \cup {NoJob}]
           /\ at[p] \in Busy => job[p] \in Jobs
           /\ at[p] \in {"compute", "store", "ok"} => Tx(p) # Garbage
           /\ at[p] \in Busy /\ Tx(p) # Garbage =>
                 /\ Home(p) \in Addresses /\ Tx(p).name \in Names
                 /\ job[p].signer \in Signers
                 /\ Tx(p).action = "take" => Tx(p).space \in Squares
  BY XoJobsAssumption, XoNamesAssumption
     DEF XoInv, XoTypeOK, StatesFit, GoodDict, Tx, Home, Squares

LEMMA EndsStep ==
    ASSUME XoInv, NEW p \in Processors, at[p] \in Busy,
           NEW point \in {"invalid", "dead"}, Ends(p, point)
    PROVE  XoInv'
  <1>1. /\ entries' = entries /\ data' = [data EXCEPT ![p] = EmptyDict]
        /\ at' = [at EXCEPT ![p] = point]
        /\ job' = [job EXCEPT ![p] = IF point = "dead" THEN NoJob ELSE @]
    BY DEF Ends
  <1>2. point \in Points /\ (point \in Busy => point = "invalid")
    BY DEF Points, Busy
  <1>3. /\ data'[p] = EmptyDict
        /\ \A q \in Processors \ {p} : data'[q] = data[q] /\ job'[q] = job[q]
        /\ job' \in [Processors -> Jobs \cup {NoJob}]
        /\ point \in Busy => job'[p] \in Jobs
    BY <1>1, <1>2, Good
  <1>4. DOMAIN data' = Processors
    BY <1>1, Good
  <1> QED BY <1>1, <1>2, <1>3, <1>4, Good, EmptyIsGood, GoodStep

LEMMA ComputesStep ==
    ASSUME XoInv, NEW p \in Processors, at[p] = "compute", NEW d, GoodDict(d),
           Computes(p, d)
    PROVE  XoInv'
  <1>1. /\ entries' = entries /\ data' = [data EXCEPT ![p] = d]
        /\ at' = [at EXCEPT ![p] = "store"] /\ job' = job
    BY DEF Computes
  <1>2. "store" \in Points /\ at[p] \in Busy
    BY DEF Points, Busy
  <1>3. /\ data'[p] = d /\ DOMAIN data' = Processors
        /\ \A q \in Processors \ {p} : data'[q] = data[q]
    BY <1>1, Good
  <1>4. job'[p] \in Jobs /\ Tx(p)' # Garbage
    BY <1>1, <1>2, Good DEF Tx
  <1> QED BY <1>1, <1>2, <1>3, <1>4, Good, GoodStep

LEMMA GetStep ==
    ASSUME XoInv, NEW p \in Processors, GetGame(p)
    PROVE  XoInv'
  <1>1. at[p] = "apply" /\ at[p] \in Busy /\ Tx(p) # Garbage
    BY DEF GetGame, Points, Busy
  <1>2. CASE Home(p) \in job[p].inputs
    <2>1. /\ entries' = entries /\ data' = [data EXCEPT ![p] = entries[Home(p)]]
          /\ at' = [at EXCEPT ![p] = "compute"] /\ job' = job
      BY <1>2 DEF GetGame, GetState
    <2>2. GoodDict(data'[p]) /\ DOMAIN data' = Processors
          /\ \A q \in Processors \ {p} : data'[q] = data[q]
      BY <1>1, <2>1, Good
    <2>3. job'[p] \in Jobs /\ Tx(p)' # Garbage /\ "compute" \in Points
      BY <1>1, <2>1, Good DEF Tx, Points
    <2> QED BY <2>1, <2>2, <2>3, Good, GoodStep
  <1>3. CASE Home(p) \notin job[p].inputs
    BY <1>1, <1>3, EndsStep DEF GetGame, GetState
  <1> QED BY <1>2, <1>3

LEMMA DoStep ==
    ASSUME XoInv, NEW p \in Processors, DoDelete(p) \/ DoCreate(p) \/ DoTake(p)
    PROVE  XoInv'
  <1> DEFINE t == Tx(p)
             s == job[p].signer
             g == data[p][t.name]
  <1>1. /\ at[p] = "compute" /\ at[p] \in Busy /\ GoodDict(data[p])
        /\ t.name \in Names /\ s \in Signers
        /\ t.action = "take" => t.space \in Squares
    BY Good DEF DoDelete, DoCreate, DoTake, Doing, Points, Busy
  <1>2. ASSUME Ends(p, "invalid") PROVE XoInv'
    BY <1>1, <1>2, EndsStep
  <1>3. CASE DoDelete(p)
    BY <1>1, <1>2, <1>3, WithoutGameIsGood, ComputesStep DEF DoDelete
  <1>4. CASE DoCreate(p)
    BY <1>1, <1>2, <1>4, NewGameFits, WithGameIsGood, ComputesStep DEF DoCreate
  <1>5. CASE DoTake(p)
    <2>1. CASE t.name \in DOMAIN data[p] /\ Takes(t, s, g)
      <3>1. g \in Games /\ StateFits(g) /\ t.space \in Squares
        BY <1>1, <1>5, <2>1 DEF GoodDict, IsDict, DictFits, DoTake, Doing
      <3>2. /\ ~TwoWinners(UpdateBoard(g.board, t.space, g.state))
            /\ Moved(t, s, g) \in Games /\ StateFits(Moved(t, s, g))
        BY <1>1, <2>1, <3>1, MovedFits
      <3>3. Computes(p, WithGame(data[p], t.name, Moved(t, s, g)))
        BY <1>5, <2>1, <3>2 DEF DoTake
      <3> QED BY <1>1, <3>2, <3>3, WithGameIsGood, ComputesStep
    <2>2. CASE ~(t.name \in DOMAIN data[p] /\ Takes(t, s, g))
      BY <1>2, <1>5, <2>2 DEF DoTake
    <2> QED BY <2>1, <2>2
  <1> QED BY <1>3, <1>4, <1>5

LEMMA StoreStep ==
    ASSUME XoInv, NEW p \in Processors, StoreGames(p)
    PROVE  XoInv'
  <1>1. at[p] = "store" /\ at[p] \in Busy
    BY DEF StoreGames, Points, Busy
  <1>2. CASE Home(p) \in job[p].outputs
    <2>1. entries' = entries /\ data' = data /\ job' = job
          /\ at' = [at EXCEPT ![p] = "ok"]
      BY <1>2 DEF StoreGames, SetState
    <2>2. job'[p] \in Jobs /\ Tx(p)' # Garbage /\ "ok" \in Points
      BY <1>1, <2>1, Good DEF Tx, Points
    <2> QED BY <2>1, <2>2, Good, GoodStep
  <1>3. CASE Home(p) \notin job[p].outputs
    BY <1>1, <1>3, EndsStep DEF StoreGames, SetState
  <1> QED BY <1>2, <1>3

\* The handler is idle again; the entries change at one address at most, to what
\* it computed.
LEMMA LeavesStep ==
    ASSUME XoInv, NEW p \in Processors,
           at' = [at EXCEPT ![p] = "idle"],
           \/ job' = [job EXCEPT ![p] = NoJob]
           \/ job' = job,
           \/ data' = [data EXCEPT ![p] = EmptyDict]
           \/ data' = data,
           \/ entries' = entries
           \/ \E a \in Addresses : entries' = [entries EXCEPT ![a] = data[p]]
    PROVE  XoInv'
  <1>1. GoodDict(data'[p]) /\ DOMAIN data' = Processors
        /\ \A q \in Processors \ {p} : data'[q] = data[q]
    BY Good, EmptyIsGood
  <1>2. DOMAIN entries' = Addresses /\ \A a \in Addresses : GoodDict(entries'[a])
    BY Good
  <1>3. job' \in [Processors -> Jobs \cup {NoJob}]
        /\ \A q \in Processors \ {p} : job'[q] = job[q]
    BY Good
  <1>4. "idle" \in Points /\ "idle" \notin Busy
    BY DEF Points, Busy
  <1> QED BY <1>1, <1>2, <1>3, <1>4, GoodStep

LEMMA XoInvInit == FamilyInit => XoInv
  <1> SUFFICES ASSUME FamilyInit PROVE XoInv
    OBVIOUS
  <1>1. GoodDict(EmptyDict)
    BY EmptyIsGood
  <1>2. XoTypeOK /\ StatesFit
    BY <1>1 DEF FamilyInit, XoTypeOK, StatesFit, GoodDict, Points, Busy
  <1> QED BY <1>2 DEF FamilyInit, XoInv, NeverInternal

LEMMA XoInvNext ==
    ASSUME XoInv, [XoNext]_familyVars
    PROVE  XoInv'
  <1>1. CASE UNCHANGED familyVars
    BY <1>1 DEF familyVars, XoInv, XoTypeOK, StatesFit, NeverInternal, Tx
  <1>2. ASSUME NEW p \in Processors, NEW j \in Jobs, Deliver(p, j)
        PROVE  XoInv'
    <2>1. /\ entries' = entries /\ data' = data
          /\ at' = [at EXCEPT ![p] = "apply"] /\ job' = [job EXCEPT ![p] = j]
      BY <1>2 DEF Deliver
    <2>2. job' \in [Processors -> Jobs \cup {NoJob}] /\ job'[p] \in Jobs
          /\ \A q \in Processors \ {p} : job'[q] = job[q]
      BY <2>1, Good
    <2>3. "apply" \in Points
      BY DEF Points
    <2> QED BY <2>1, <2>2, <2>3, Good, GoodStep
  <1>3. ASSUME NEW p \in Processors,
               Restart(p) \/ Decline(p) \/ Disconnected(p)
        PROVE  XoInv'
    BY <1>3, LeavesStep DEF Restart, Decline, Disconnected, Forget
  <1>4. ASSUME NEW p \in Processors, CommitGames(p)
        PROVE  XoInv'
    <2>1. Home(p) \in Addresses
      BY <1>4, Good DEF CommitGames, Points, Busy
    <2> QED BY <1>4, <2>1, LeavesStep DEF CommitGames, Commit
  <1>5. ASSUME NEW p \in Processors, Refuse(p) \/ StateTimesOut(p)
        PROVE  XoInv'
    BY <1>5, EndsStep DEF Refuse, StateTimesOut, Points, Busy
  <1> QED BY <1>1, <1>2, <1>3, <1>4, <1>5, GetStep, DoStep, StoreStep
          DEF XoNext

\* Every game that is ever stored is well-formed, and its state, its players
\* and its board agree, whatever transactions are applied and lost.
THEOREM XoInvariant == XoSpec => []XoInv
  BY XoInvInit, XoInvNext, PTL DEF XoSpec

\* No sequence of transactions leads the handler to a board with two winners.
THEOREM OneWinnerOnly == XoSpec => []NeverInternal
  <1>1. XoInv => NeverInternal
    BY DEF XoInv
  <1> QED BY <1>1, XoInvariant, PTL

-----------------------------------------------------------------------------
(* The marks of a game.                                                    *)

LEMMA SquaresFinite ==
    ASSUME NEW board, NEW mark
    PROVE  /\ IsFiniteSet({i \in Squares : board[i] = mark})
           /\ Count(board, mark) \in Nat
  <1>1. IsFiniteSet(Squares)
    <2>1. 1 \in Int /\ 9 \in Int
      OBVIOUS
    <2> QED BY <2>1, FS_Interval DEF Squares
  <1>2. IsFiniteSet({i \in Squares : board[i] = mark})
    BY <1>1, FS_Subset
  <1> QED BY <1>2, FS_CardinalityType DEF Count

\* A mark on a free square is one more of its kind, and none of the other.
LEMMA MarkCounts ==
    ASSUME NEW board \in Boards, NEW k \in Squares, board[k] = "-",
           NEW mark \in {"X", "O"}, NEW other \in {"X", "O"}, other # mark
    PROVE  /\ Count([board EXCEPT ![k] = mark], mark) = Count(board, mark) + 1
           /\ Count([board EXCEPT ![k] = mark], other) = Count(board, other)
  <1> DEFINE new == [board EXCEPT ![k] = mark]
             S   == {i \in Squares : board[i] = mark}
  <1>1. \A i \in Squares : new[i] = IF i = k THEN mark ELSE board[i]
    BY DEF Boards
  <1>2. {i \in Squares : new[i] = mark} = S \cup {k}
    BY <1>1
  <1>3. {i \in Squares : new[i] = other} = {i \in Squares : board[i] = other}
    BY <1>1
  <1>4. k \notin S /\ IsFiniteSet(S)
    BY SquaresFinite
  <1>5. Cardinality(S \cup {k}) = Cardinality(S) + 1
    BY <1>4, FS_AddElement
  <1> QED BY <1>2, <1>3, <1>5 DEF Count

\* After a move, the marks and the players still say whose turn it is.
LEMMA MovedTurn ==
    ASSUME NEW t, t.space \in Squares, NEW s \in Signers, NEW g \in Games,
           StateFits(g), TurnFits(g), Takes(t, s, g)
    PROVE  TurnFits(Moved(t, s, g))
  <1> DEFINE mark  == IF g.state = "P1-NEXT" THEN "X" ELSE "O"
             board == UpdateBoard(g.board, t.space, g.state)
             h     == Moved(t, s, g)
  <1>1. /\ g.state \in {"P1-NEXT", "P2-NEXT"} /\ g.board \in Boards
        /\ g.board[t.space] = "-"
        /\ board = [g.board EXCEPT ![t.space] = mark]
    BY OneWinner DEF Takes, UpdateBoard, Games
  <1>2. /\ h.board = board /\ h.state = UpdateGameState(g.state, board)
        /\ h.player1 = IF g.player1 = NoOne THEN s ELSE g.player1
        /\ h.player2 = IF g.player1 # NoOne /\ g.player2 = NoOne THEN s
                       ELSE g.player2
    BY DEF Moved
  <1>3. /\ h.state = "P1-NEXT" => g.state = "P2-NEXT"
        /\ h.state = "P2-NEXT" => g.state = "P1-NEXT"
    <2>1. CASE IsWin(board, "X") \/ IsWin(board, "O")
      <3>1. h.state \in {"P1-WIN", "P2-WIN"}
        BY <1>2, <2>1 DEF UpdateGameState
      <3> QED BY <3>1
    <2>2. CASE ~IsWin(board, "X") /\ ~IsWin(board, "O")
      <3>1. h.state \in {"TIE", IF g.state = "P1-NEXT" THEN "P2-NEXT"
                                ELSE "P1-NEXT"}
        BY <1>2, <2>2 DEF UpdateGameState
      <3> QED BY <1>1, <3>1
    <2> QED BY <2>1, <2>2
  <1>4. CASE g.state = "P1-NEXT"
    <2>1. /\ Count(board, "X") = Count(g.board, "X") + 1
          /\ Count(board, "O") = Count(g.board, "O")
      <3> DEFINE new == [g.board EXCEPT ![t.space] = "X"]
      <3>1. board = new
        BY <1>1, <1>4
      <3>2. /\ Count(new, "X") = Count(g.board, "X") + 1
            /\ Count(new, "O") = Count(g.board, "O")
        BY <1>1, MarkCounts
      <3> QED BY <3>1, <3>2
    <2>2. h.player1 # NoOne /\ h.player2 = NoOne => g.player1 = NoOne
      BY <1>2, XoSignersAssumption
    <2>3. ASSUME g.player1 = NoOne PROVE h.state = "P2-NEXT"
      <3>1. /\ \A i \in Squares : g.board[i] = "-"
            /\ g.player2 = NoOne
        BY <2>3 DEF StateFits
      <3>2. h.player2 = NoOne
        BY <1>2, <2>3, <3>1
      <3>3. h.state \in {"P1-NEXT", "P2-NEXT"}
        BY <3>2, MovedFits DEF StateFits
      <3> QED BY <1>3, <1>4, <3>3
    <2> QED BY <1>2, <1>3, <1>4, <2>1, <2>2, <2>3 DEF TurnFits
  <1>5. CASE g.state = "P2-NEXT"
    <2>1. /\ Count(board, "O") = Count(g.board, "O") + 1
          /\ Count(board, "X") = Count(g.board, "X")
      <3> DEFINE new == [g.board EXCEPT ![t.space] = "O"]
      <3>1. board = new
        BY <1>1, <1>5
      <3>2. /\ Count(new, "O") = Count(g.board, "O") + 1
            /\ Count(new, "X") = Count(g.board, "X")
        BY <1>1, MarkCounts
      <3> QED BY <3>1, <3>2
    <2>2. g.player1 # NoOne
      BY <1>5 DEF StateFits
    <2>3. h.player2 # NoOne
      BY <1>2, <2>2, XoSignersAssumption
    <2> QED BY <1>2, <1>3, <1>5, <2>1, <2>3 DEF TurnFits
  <1> QED BY <1>1, <1>4, <1>5

LEMMA NewGameTurn == TurnFits(NewGame)
  <1>1. {i \in Squares : NewGame.board[i] = "X"}
            = {i \in Squares : NewGame.board[i] = "O"}
    BY DEF NewGame
  <1> QED BY <1>1 DEF TurnFits, NewGame, Count

-----------------------------------------------------------------------------
(* What a handler holds is right for the entries as they are.              *)

GoodTurns(d) == \A n \in DOMAIN d : TurnFits(d[n])

\* A step of p alone that leaves the entries as they are and takes no new job.
LEMMA LocalStep ==
    ASSUME RulesInv, XoInv', NEW p \in Processors,
           UNCHANGED entries,
           \A q \in Processors \ {p} :
               at'[q] = at[q] /\ job'[q] = job[q] /\ data'[q] = data[q],
           at'[p] \in Busy => at[p] \in Busy /\ job'[p] = job[p],
           GamesCurrent(p)'
    PROVE  RulesInv'
  <1>1. NoConflicts'
    BY DEF RulesInv, NoConflicts, Conflict
  <1>2. ASSUME NEW q \in Processors PROVE GamesCurrent(q)'
    <2>1. CASE q = p
      BY <2>1
    <2>2. CASE q # p
      BY <2>2 DEF RulesInv, GamesCurrent, Outcome, Tx, Home
    <2> QED BY <2>1, <2>2
  <1> QED BY <1>1, <1>2 DEF RulesInv

LEMMA EndsRules ==
    ASSUME RulesInv, XoInv', NEW p \in Processors, at[p] \in Busy,
           NEW point \in {"invalid", "internal", "dead"}, Ends(p, point)
    PROVE  RulesInv'
  <1>0. XoInv
    BY DEF RulesInv
  <1>1. at'[p] = point /\ (point # "dead" => job'[p] = job[p])
    BY <1>0, Good DEF Ends
  <1>2. /\ UNCHANGED entries
        /\ \A q \in Processors \ {p} :
               at'[q] = at[q] /\ job'[q] = job[q] /\ data'[q] = data[q]
    BY <1>0, Good DEF Ends
  <1>3. GamesCurrent(p)'
    BY <1>1 DEF GamesCurrent
  <1> QED BY <1>1, <1>2, <1>3, LocalStep DEF Busy

LEMMA IdleRules ==
    ASSUME RulesInv, XoInv', NEW p \in Processors, Forget(p) \/ Restart(p)
    PROVE  RulesInv'
  <1>0. XoInv
    BY DEF RulesInv
  <1>1. at'[p] = "idle" /\ UNCHANGED entries
        /\ \A q \in Processors \ {p} :
               at'[q] = at[q] /\ job'[q] = job[q] /\ data'[q] = data[q]
    BY <1>0, Good DEF Forget, Restart
  <1>2. GamesCurrent(p)'
    BY <1>1 DEF GamesCurrent
  <1> QED BY <1>1, <1>2, LocalStep DEF Busy

LEMMA DeliverRules ==
    ASSUME RulesInv, XoInv', NEW p \in Processors, NEW j \in Jobs, Deliver(p, j)
    PROVE  RulesInv'
  <1>0. XoInv
    BY DEF RulesInv
  <1>1. /\ at'[p] = "apply" /\ job'[p] = j /\ UNCHANGED entries
        /\ \A q \in Processors \ {p} :
               at'[q] = at[q] /\ job'[q] = job[q] /\ data'[q] = data[q]
    BY <1>0, Good DEF Deliver
  <1>2. NoConflicts'
    BY <1>1 DEF RulesInv, NoConflicts, Conflict, Deliver
  <1>3. ASSUME NEW q \in Processors PROVE GamesCurrent(q)'
    <2>1. CASE q = p
      BY <1>1, <2>1 DEF GamesCurrent
    <2>2. CASE q # p
      BY <1>1, <2>2 DEF RulesInv, GamesCurrent, Outcome, Tx, Home
    <2> QED BY <2>1, <2>2
  <1> QED BY <1>1, <1>2, <1>3 DEF RulesInv

LEMMA GetRules ==
    ASSUME RulesInv, XoInv', NEW p \in Processors, GetGame(p)
    PROVE  RulesInv'
  <1>0. XoInv
    BY DEF RulesInv
  <1>1. at[p] \in Busy
    BY DEF GetGame, Points, Busy
  <1>2. CASE Home(p) \in job[p].inputs
    <2>1. /\ at'[p] = "compute" /\ data'[p] = entries[Home(p)]
          /\ UNCHANGED <<entries, job>>
          /\ \A q \in Processors \ {p} : at'[q] = at[q] /\ data'[q] = data[q]
      BY <1>0, <1>2, Good DEF GetGame, GetState
    <2>2. GamesCurrent(p)'
      BY <1>2, <2>1 DEF GamesCurrent, Tx, Home
    <2> QED BY <1>1, <2>1, <2>2, LocalStep
  <1>3. CASE Home(p) \notin job[p].inputs
    BY <1>1, <1>3, EndsRules DEF GetGame, GetState
  <1> QED BY <1>2, <1>3

LEMMA DoRules ==
    ASSUME RulesInv, XoInv', NEW p \in Processors,
           DoDelete(p) \/ DoCreate(p) \/ DoTake(p)
    PROVE  RulesInv'
  <1> DEFINE t == Tx(p)
             s == job[p].signer
             h == Home(p)
             e == entries[h]
             g == e[t.name]
  <1>0. XoInv
    BY DEF RulesInv
  <1>1. /\ at[p] = "compute" /\ at[p] \in Busy /\ GoodDict(data[p])
        /\ h \in job[p].inputs /\ data[p] = e
        /\ t.name \in Names /\ s \in Signers
        /\ t.action = "take" => t.space \in Squares
    BY <1>0, Good DEF RulesInv, GamesCurrent, DoDelete, DoCreate, DoTake, Doing,
       Points, Busy
  <1>2. ASSUME Ends(p, "invalid") PROVE RulesInv'
    BY <1>1, <1>2, EndsRules
  <1>3. ASSUME NEW d, Computes(p, d),
               \/ /\ t.action = "delete"
                  /\ t.name \in DOMAIN e
                  /\ d = WithoutGame(e, t.name)
               \/ /\ t.action = "create"
                  /\ t.name \notin DOMAIN e
                  /\ d = WithGame(e, t.name, NewGame)
               \/ /\ t.action = "take"
                  /\ t.name \in DOMAIN e
                  /\ Takes(t, s, g)
                  /\ d = WithGame(e, t.name, Moved(t, s, g))
        PROVE  RulesInv'
    <2>1. /\ at'[p] = "store" /\ data'[p] = d /\ UNCHANGED <<entries, job>>
          /\ \A q \in Processors \ {p} : at'[q] = at[q] /\ data'[q] = data[q]
      BY <1>0, <1>3, Good DEF Computes
    <2>2. Tx(p)' = t /\ Home(p)' = h /\ job'[p] = job[p] /\ entries'[h] = e
      BY <2>1 DEF Tx, Home
    <2>3. Outcome(p, entries[Home(p)])'
      BY <1>3, <2>1, <2>2 DEF Outcome
    <2>4. GamesCurrent(p)'
      BY <1>1, <2>1, <2>2, <2>3 DEF GamesCurrent
    <2> QED BY <1>1, <2>1, <2>4, LocalStep
  <1>4. CASE DoDelete(p)
    BY <1>1, <1>2, <1>3, <1>4 DEF DoDelete, Doing
  <1>5. CASE DoCreate(p)
    BY <1>1, <1>2, <1>3, <1>5 DEF DoCreate, Doing
  <1>6. CASE DoTake(p)
    <2>1. CASE t.name \in DOMAIN e /\ Takes(t, s, g)
      <3>1. g \in Games /\ StateFits(g) /\ t.space \in Squares
        BY <1>1, <1>6, <2>1 DEF GoodDict, IsDict, DictFits, DoTake, Doing
      <3>2. ~TwoWinners(UpdateBoard(g.board, t.space, g.state))
        BY <1>1, <2>1, <3>1, MovedFits
      <3>3. Computes(p, WithGame(e, t.name, Moved(t, s, g)))
        BY <1>1, <1>6, <2>1, <3>2 DEF DoTake
      <3> QED BY <1>3, <1>6, <2>1, <3>3 DEF DoTake, Doing
    <2>2. CASE ~(t.name \in DOMAIN e /\ Takes(t, s, g))
      BY <1>1, <1>2, <1>6, <2>2 DEF DoTake
    <2> QED BY <2>1, <2>2
  <1> QED BY <1>4, <1>5, <1>6

LEMMA StoreRules ==
    ASSUME RulesInv, XoInv', NEW p \in Processors, StoreGames(p)
    PROVE  RulesInv'
  <1>0. XoInv
    BY DEF RulesInv
  <1>1. at[p] = "store" /\ at[p] \in Busy
    BY DEF StoreGames, Points, Busy
  <1>2. CASE Home(p) \in job[p].outputs
    <2>1. /\ at'[p] = "ok" /\ UNCHANGED <<entries, job, data>>
          /\ \A q \in Processors \ {p} : at'[q] = at[q]
      BY <1>0, <1>2, Good DEF StoreGames, SetState
    <2>2. GamesCurrent(p)'
      BY <1>1, <1>2, <2>1 DEF RulesInv, GamesCurrent, Outcome, Tx, Home
    <2> QED BY <1>1, <2>1, <2>2, LocalStep
  <1>3. CASE Home(p) \notin job[p].outputs
    BY <1>1, <1>3, EndsRules DEF StoreGames, SetState
  <1> QED BY <1>2, <1>3

-----------------------------------------------------------------------------
(* A commit.                                                               *)

\* The entry of a name after a commit.
LEMMA Committed ==
    ASSUME RulesInv, NEW p \in Processors, CommitGames(p)
    PROVE  LET t == Tx(p)
               s == job[p].signer
               h == Home(p)
               e == entries[h] IN
           /\ h \in Addresses /\ h \in job[p].outputs
           /\ t.name \in Names /\ s \in Signers /\ GoodDict(e) /\ GoodTurns(e)
           /\ entries' = [entries EXCEPT ![h] = data[p]]
           /\ \A q \in Processors \ {p} :
                  at'[q] = at[q] /\ job'[q] = job[q] /\ data'[q] = data[q]
           /\ at'[p] = "idle" /\ at[p] \in Busy
           /\ Outcome(p, e)
           /\ t.action = "take" => t.space \in Squares
  <1>0. XoInv
    BY DEF RulesInv
  <1>1. at[p] = "ok" /\ at[p] \in Busy
    BY DEF CommitGames, Points, Busy
  <1>2. /\ entries' = [entries EXCEPT ![Home(p)] = data[p]]
        /\ at'[p] = "idle"
        /\ \A q \in Processors \ {p} :
               at'[q] = at[q] /\ job'[q] = job[q] /\ data'[q] = data[q]
    BY <1>0, Good DEF CommitGames, Commit
  <1>3. Home(p) \in job[p].outputs /\ Outcome(p, entries[Home(p)])
    BY <1>1 DEF RulesInv, GamesCurrent
  <1>4. /\ Home(p) \in Addresses /\ Tx(p).name \in Names
        /\ job[p].signer \in Signers
        /\ Tx(p).action = "take" => Tx(p).space \in Squares
        /\ GoodDict(entries[Home(p)])
    BY <1>0, <1>1, Good
  <1>5. GoodTurns(entries[Home(p)])
    BY <1>4 DEF RulesInv, GoodTurns
  <1> QED BY <1>1, <1>2, <1>3, <1>4, <1>5

\* What is committed says whose turn it is.
LEMMA OutcomeTurns ==
    ASSUME NEW p, NEW d, GoodDict(d), GoodTurns(d), Outcome(p, d),
           job[p].signer \in Signers,
           Tx(p).action = "take" => Tx(p).space \in Squares
    PROVE  GoodTurns(data[p])
  <1> DEFINE t == Tx(p)
             s == job[p].signer
             g == d[t.name]
  <1>1. CASE /\ t.action = "delete"
             /\ data[p] = WithoutGame(d, t.name)
    BY <1>1 DEF WithoutGame, GoodTurns
  <1>2. CASE data[p] = WithGame(d, t.name, NewGame)
    BY <1>2, NewGameTurn DEF WithGame, GoodTurns
  <1>3. CASE /\ t.action = "take"
             /\ t.name \in DOMAIN d
             /\ Takes(t, s, g)
             /\ data[p] = WithGame(d, t.name, Moved(t, s, g))
    <2>1. g \in Games /\ StateFits(g) /\ TurnFits(g)
      BY <1>3 DEF GoodDict, IsDict, DictFits, GoodTurns
    <2>2. TurnFits(Moved(t, s, g))
      BY <1>3, <2>1, MovedTurn
    <2> QED BY <1>3, <2>2 DEF WithGame, GoodTurns
  <1> QED BY <1>1, <1>2, <1>3 DEF Outcome

LEMMA CommitRules ==
    ASSUME RulesInv, XoInv', NEW p \in Processors, CommitGames(p)
    PROVE  RulesInv'
  <1> DEFINE h == Home(p)
  <1>0. XoInv
    BY DEF RulesInv
  <1>1. /\ h \in Addresses /\ h \in job[p].outputs /\ at[p] \in Busy
        /\ entries' = [entries EXCEPT ![h] = data[p]]
        /\ \A q \in Processors \ {p} :
               at'[q] = at[q] /\ job'[q] = job[q] /\ data'[q] = data[q]
        /\ at'[p] = "idle"
    BY Committed
  <1>2. NoConflicts'
    BY <1>1 DEF RulesInv, NoConflicts, Conflict, Busy
  <1>3. \A a \in Addresses : \A n \in DOMAIN entries'[a] : TurnFits(entries'[a][n])
    <2>1. GoodTurns(data[p])
      BY Committed, OutcomeTurns
    <2> QED BY <1>0, <1>1, <2>1, Good DEF RulesInv, GoodTurns
  <1>4. ASSUME NEW q \in Processors PROVE GamesCurrent(q)'
    <2>1. CASE q = p
      BY <1>1, <2>1 DEF GamesCurrent
    <2>2. CASE q # p /\ at[q] \in {"compute", "store", "ok"}
      <3>1. at[q] \in Busy /\ Home(q) \in job[q].inputs /\ GamesCurrent(q)
        BY <2>2 DEF RulesInv, GamesCurrent, Points, Busy
      <3>2. ~Conflict(job[q], job[p])
        BY <1>1, <2>2, <3>1 DEF RulesInv, NoConflicts
      <3>3. Home(q) # h
        BY <1>1, <3>1, <3>2 DEF Conflict
      <3>4. Home(q) \in Addresses
        BY <1>0, <2>2, <3>1, Good
      <3>5. entries'[Home(q)] = entries[Home(q)]
        BY <1>0, <1>1, <3>3, <3>4, Good
      <3>6. /\ at'[q] = at[q] /\ job'[q] = job[q] /\ data'[q] = data[q]
            /\ Tx(q)' = Tx(q) /\ Home(q)' = Home(q)
        BY <1>1, <2>2 DEF Tx, Home
      <3> QED BY <3>1, <3>5, <3>6 DEF GamesCurrent, Outcome
    <2>3. CASE q # p /\ at[q] \notin {"compute", "store", "ok"}
      BY <1>1, <2>3 DEF GamesCurrent
    <2> QED BY <2>1, <2>2, <2>3
  <1> QED BY <1>2, <1>3, <1>4 DEF RulesInv

LEMMA RulesInit == FamilyInit => RulesInv
  BY XoInvInit DEF FamilyInit, RulesInv, NoConflicts, GamesCurrent, EmptyDict,
     Points, Busy

LEMMA RulesNext ==
    ASSUME RulesInv, [XoNext]_familyVars
    PROVE  RulesInv'
  <1>0. XoInv /\ XoInv'
    BY XoInvNext DEF RulesInv
  <1>1. CASE UNCHANGED familyVars
    BY <1>0, <1>1 DEF familyVars, RulesInv, NoConflicts, GamesCurrent, Outcome,
       Tx, Home
  <1>2. ASSUME NEW p \in Processors, Refuse(p) \/ StateTimesOut(p)
        PROVE  RulesInv'
    BY <1>0, <1>2, EndsRules DEF Refuse, StateTimesOut, Points, Busy
  <1>3. ASSUME NEW p \in Processors,
               Restart(p) \/ Decline(p) \/ Disconnected(p)
        PROVE  RulesInv'
    BY <1>0, <1>3, IdleRules DEF Decline, Disconnected
  <1> QED BY <1>0, <1>1, <1>2, <1>3, DeliverRules, GetRules, DoRules, StoreRules,
             CommitRules DEF XoNext

\* What a handler has read or is about to store stays right until it answers,
\* and the marks of every game say whose turn it is.
THEOREM RulesInvariant == XoSpec => []RulesInv
  BY RulesInit, RulesNext, PTL DEF XoSpec

-----------------------------------------------------------------------------
(* Xo implements TicTacToe.                                                *)

LEMMA SameCount ==
    ASSUME NEW board, NEW mark
    PROVE  T!Cardinality({i \in Squares : board[i] = mark}) = Count(board, mark)
  BY DEF Count, Cardinality, T!Cardinality

\* A game without the state the handler keeps.
Plain(g) == [board |-> g.board, player1 |-> g.player1, player2 |-> g.player2]

LEMMA PlainGame ==
    ASSUME NEW g \in Games
    PROVE  /\ Plain(g) # NoGame
           /\ Plain(g).board = g.board
           /\ Plain(g).player1 = g.player1
           /\ Plain(g).player2 = g.player2
  BY XoNoGameAssumption DEF Plain, Games

LEMMA GameOf ==
    /\ gameOf = [n \in Names |-> gameOf[n]]
    /\ \A n \in Names :
           gameOf[n] = IF n \in DOMAIN entries[AddressOf[n]]
                       THEN Plain(entries[AddressOf[n]][n]) ELSE NoGame
  BY DEF gameOf, Plain

\* A move the handler accepts is one the rules allow: the game is not over, and
\* it is the signer's turn.
LEMMA TakesByTheRules ==
    ASSUME NEW t, t.space \in Squares, NEW s \in Signers, NEW g \in Games,
           StateFits(g), TurnFits(g), Takes(t, s, g)
    PROVE  /\ ~T!Over(Plain(g))
           /\ T!Turn(Plain(g)) = IF g.state = "P1-NEXT" THEN "X" ELSE "O"
           /\ (IF g.state = "P1-NEXT" THEN g.player1 ELSE g.player2)
                  \in {NoOne, s}
  <1>1. g.state \in {"P1-NEXT", "P2-NEXT"} /\ g.board[t.space] = "-"
    BY OneWinner DEF Takes
  <1>2. Plain(g).board = g.board
    BY PlainGame
  <1>3. ASSUME NEW mark \in {"X", "O"} PROVE ~T!Won(Plain(g), mark)
    <2>1. ~IsWin(g.board, mark)
      BY <1>1 DEF StateFits
    <2> QED BY <1>2, <2>1 DEF T!Won, T!Lines, IsWin, Wins
  <1>4. T!Marked(Plain(g), "-") # {}
    BY <1>1, <1>2 DEF T!Marked, T!Squares, Squares
  <1>5. ~T!Over(Plain(g))
    BY <1>3, <1>4 DEF T!Over
  <1>6. ASSUME NEW mark
        PROVE  T!Cardinality(T!Marked(Plain(g), mark)) = Count(g.board, mark)
    <2>1. T!Marked(Plain(g), mark) = {i \in Squares : g.board[i] = mark}
      BY <1>2 DEF T!Marked, T!Squares, Squares
    <2> QED BY <2>1, SameCount
  <1>7. T!Turn(Plain(g)) = IF Count(g.board, "X") = Count(g.board, "O")
                           THEN "X" ELSE "O"
    BY <1>6 DEF T!Turn
  <1>8. Count(g.board, "O") \in Nat
    BY SquaresFinite
  <1>9. Count(g.board, "X") = Count(g.board, "O") <=> g.state = "P1-NEXT"
    BY <1>1, <1>8 DEF TurnFits
  <1>10. (IF g.state = "P1-NEXT" THEN g.player1 ELSE g.player2) \in {NoOne, s}
    BY <1>1 DEF Takes
  <1> QED BY <1>5, <1>7, <1>9, <1>10

\* What the move makes of the game.
LEMMA MovedByTheRules ==
    ASSUME NEW t, t.space \in Squares, NEW s \in Signers, NEW g \in Games,
           StateFits(g), TurnFits(g), Takes(t, s, g)
    PROVE  LET m == IF g.state = "P1-NEXT" THEN "X" ELSE "O" IN
           Plain(Moved(t, s, g)) =
               [board   |-> [g.board EXCEPT ![t.space] = m],
                player1 |-> IF m = "X" THEN s ELSE g.player1,
                player2 |-> IF m = "O" THEN s ELSE g.player2]
  <1> DEFINE h == Moved(t, s, g)
  <1>1. /\ h.board = UpdateBoard(g.board, t.space, g.state)
        /\ h.player1 = IF g.player1 = NoOne THEN s ELSE g.player1
        /\ h.player2 = IF g.player1 # NoOne /\ g.player2 = NoOne THEN s
                       ELSE g.player2
    BY DEF Moved
  <1>2. g.state \in {"P1-NEXT", "P2-NEXT"}
    BY OneWinner
  <1>3. CASE g.state = "P1-NEXT"
    <2>1. g.player1 \in {NoOne, s}
      BY <1>3 DEF Takes
    <2>2. h.player1 = s
      BY <1>1, <2>1
    <2>3. h.player2 = g.player2
      BY <1>1, <1>3 DEF TurnFits
    <2> QED BY <1>1, <1>3, <2>2, <2>3 DEF Plain, UpdateBoard
  <1>4. CASE g.state = "P2-NEXT"
    <2>1. g.player1 # NoOne
      BY <1>4 DEF StateFits
    <2>2. g.player2 \in {NoOne, s}
      BY <1>4 DEF Takes
    <2>3. h.player1 = g.player1 /\ h.player2 = s
      BY <1>1, <2>1, <2>2
    <2> QED BY <1>1, <1>4, <2>3 DEF Plain, UpdateBoard
  <1> QED BY <1>2, <1>3, <1>4

\* A commit changes one game.
LEMMA OneGameChanges ==
    ASSUME RulesInv, NEW p \in Processors, CommitGames(p), NEW value,
           value = IF Tx(p).name \in DOMAIN data[p]
                   THEN Plain(data[p][Tx(p).name]) ELSE NoGame
    PROVE  gameOf' = [gameOf EXCEPT ![Tx(p).name] = value]
  <1> DEFINE n == Tx(p).name
             h == Home(p)
             e == entries[h]
  <1>0. DOMAIN entries = Addresses
    BY Good DEF RulesInv
  <1>1. /\ h \in Addresses /\ n \in Names /\ AddressOf[n] = h
        /\ entries' = [entries EXCEPT ![h] = data[p]]
        /\ Outcome(p, e)
    BY Committed DEF Home
  <1>2. \A m \in Names \ {n} :
            /\ m \in DOMAIN data[p] <=> m \in DOMAIN e
            /\ m \in DOMAIN e => data[p][m] = e[m]
    BY <1>1 DEF Outcome, WithGame, WithoutGame
  <1>3. ASSUME NEW m \in Names
        PROVE  gameOf'[m] = IF m = n THEN value ELSE gameOf[m]
    <2> DEFINE a == AddressOf[m]
    <2>1. gameOf'[m] = IF m \in DOMAIN entries'[a] THEN Plain(entries'[a][m])
                       ELSE NoGame
      BY DEF gameOf, Plain
    <2>2. gameOf[m] = IF m \in DOMAIN entries[a] THEN Plain(entries[a][m])
                      ELSE NoGame
      BY GameOf
    <2>3. CASE a # h
      <3>1. a \in Addresses /\ m # n
        BY <1>1, <2>3, XoNamesAssumption
      <3>2. entries'[a] = entries[a]
        BY <1>1, <2>3
      <3> QED BY <2>1, <2>2, <3>1, <3>2
    <2>4. CASE a = h
      <3>1. entries'[a] = data[p] /\ entries[a] = e
        BY <1>0, <1>1, <2>4
      <3> QED BY <1>2, <2>1, <2>2, <3>1
    <2> QED BY <2>3, <2>4
  <1> QED BY <1>3 DEF gameOf

\* What makes a move one by the rules: where it goes, and whose it is.
LEMMA MoveByTheRules ==
    ASSUME NEW n \in Names, NEW q, NEW m, NEW i \in T!Squares, NEW s \in Signers,
           q.board[i] = "-",
           (IF m = "X" THEN q.player1 ELSE q.player2) \in {NoOne, s},
           gameOf' = [gameOf EXCEPT ![n] =
               [board   |-> [q.board EXCEPT ![i] = m],
                player1 |-> IF m = "X" THEN s ELSE q.player1,
                player2 |-> IF m = "O" THEN s ELSE q.player2]]
    PROVE  T!Take(n, q, m)
  BY DEF T!Take

\* A commit is a deletion, a creation or a move of the game of its payload.
LEMMA CommitPlays ==
    ASSUME RulesInv, NEW p \in Processors, CommitGames(p)
    PROVE  T!GamesNext
  <1> DEFINE t == Tx(p)
             n == t.name
             s == job[p].signer
             e == entries[Home(p)]
             g == e[n]
  <1>1. /\ n \in Names /\ AddressOf[n] = Home(p) /\ s \in Signers
        /\ GoodDict(e) /\ GoodTurns(e) /\ Outcome(p, e)
        /\ t.action = "take" => t.space \in Squares
    BY Committed DEF Home
  <1>2. gameOf[n] = IF n \in DOMAIN e THEN Plain(g) ELSE NoGame
    BY <1>1, GameOf
  <1>3. n \in DOMAIN e =>
            /\ g \in Games /\ StateFits(g) /\ TurnFits(g)
            /\ gameOf[n] = Plain(g) /\ gameOf[n] # NoGame
    BY <1>1, <1>2, PlainGame DEF GoodDict, GoodTurns, IsDict, DictFits
  <1>4. CASE n \in DOMAIN e /\ data[p] = WithoutGame(e, n)
    <2>1. gameOf' = [gameOf EXCEPT ![n] = NoGame]
      <3>1. n \notin DOMAIN data[p]
        BY <1>4 DEF WithoutGame
      <3> QED BY <3>1, OneGameChanges
    <2>2. T!Delete(n)
      BY <1>3, <1>4, <2>1 DEF T!Delete
    <2> QED BY <1>1, <2>2 DEF T!GamesNext
  <1>5. CASE n \notin DOMAIN e /\ data[p] = WithGame(e, n, NewGame)
    <2>1. n \in DOMAIN data[p] /\ data[p][n] = NewGame
      BY <1>5 DEF WithGame
    <2>2. Plain(NewGame) = T!NewGame
      BY DEF Plain, NewGame, T!NewGame, T!Squares, Squares
    <2>3. gameOf' = [gameOf EXCEPT ![n] = T!NewGame]
      BY <2>1, <2>2, OneGameChanges
    <2>4. T!Create(n)
      BY <1>2, <1>5, <2>3 DEF T!Create
    <2> QED BY <1>1, <2>4 DEF T!GamesNext
  <1>6. CASE /\ t.action = "take" /\ n \in DOMAIN e /\ Takes(t, s, g)
             /\ data[p] = WithGame(e, n, Moved(t, s, g))
    <2> DEFINE m == IF g.state = "P1-NEXT" THEN "X" ELSE "O"
    <2>1. n \in DOMAIN data[p] /\ data[p][n] = Moved(t, s, g)
      BY <1>6 DEF WithGame
    <2>2. gameOf' = [gameOf EXCEPT ![n] = Plain(Moved(t, s, g))]
      BY <2>1, OneGameChanges
    <2>3. Plain(Moved(t, s, g)) =
              [board   |-> [g.board EXCEPT ![t.space] = m],
               player1 |-> IF m = "X" THEN s ELSE g.player1,
               player2 |-> IF m = "O" THEN s ELSE g.player2]
      BY <1>1, <1>3, <1>6, MovedByTheRules
    <2>4. /\ ~T!Over(Plain(g)) /\ T!Turn(Plain(g)) = m
          /\ (IF m = "X" THEN g.player1 ELSE g.player2) \in {NoOne, s}
      BY <1>1, <1>3, <1>6, TakesByTheRules
    <2>5. T!Take(n, Plain(g), m)
      <3>1. /\ t.space \in T!Squares /\ g.board[t.space] = "-"
            /\ Plain(g).board = g.board
            /\ Plain(g).player1 = g.player1 /\ Plain(g).player2 = g.player2
        BY <1>1, <1>3, <1>6, PlainGame DEF T!Squares, Squares, Takes
      <3>2. gameOf' = [gameOf EXCEPT ![n] =
                [board   |-> [Plain(g).board EXCEPT ![t.space] = m],
                 player1 |-> IF m = "X" THEN s ELSE Plain(g).player1,
                 player2 |-> IF m = "O" THEN s ELSE Plain(g).player2]]
        BY <2>2, <2>3, <3>1
      <3>3. (IF m = "X" THEN Plain(g).player1 ELSE Plain(g).player2) \in {NoOne, s}
        BY <2>4, <3>1
      <3> HIDE DEF t, n, s, e, g, m
      <3> QED BY <1>1, <3>1, <3>2, <3>3, MoveByTheRules
    <2>6. T!Play(n)
      BY <1>3, <1>6, <2>4, <2>5 DEF T!Play
    <2> QED BY <1>1, <2>6 DEF T!GamesNext
  <1> QED BY <1>1, <1>4, <1>5, <1>6 DEF Outcome

\* Every other step leaves the games alone.
LEMMA OthersStutter ==
    ASSUME [XoNext]_familyVars, \A p \in Processors : ~CommitGames(p)
    PROVE  UNCHANGED gameOf
  <1>1. UNCHANGED entries
    BY DEF XoNext, familyVars, Deliver, Restart, Refuse, GetGame, GetState,
       DoDelete, DoCreate, DoTake, Computes, StoreGames, SetState,
       StateTimesOut, Ends, Decline, Disconnected, Forget
  <1> QED BY <1>1 DEF gameOf

\* The xo family is one of games of tic-tac-toe: for any number of processors,
\* games, signers and collisions.
THEOREM PlaysAsPromised == XoSpec => PlaysByTheRules
  <1>1. FamilyInit => T!GamesInit
    BY XoNamesAssumption DEF FamilyInit, T!GamesInit, gameOf, EmptyDict
  <1>2. ASSUME RulesInv, [XoNext]_familyVars
        PROVE  [T!GamesNext]_gameOf
    BY <1>2, CommitPlays, OthersStutter
  <1> QED BY <1>1, <1>2, RulesInvariant, PTL
          DEF XoSpec, PlaysByTheRules, T!GamesSpec
=============================================================================
