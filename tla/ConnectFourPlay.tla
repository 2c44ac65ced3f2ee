-------------------------- MODULE ConnectFourPlay --------------------------
(***************************************************************************)
(* Every game two players can play on the board of ConnectFour, with the   *)
(* board kept as makeMove keeps it: one disc is added to the cached board  *)
(* and one entry to the history.                                           *)
(***************************************************************************)
EXTENDS ConnectFour

VARIABLES
    board,    \* the board of the room
    history,  \* its moves
    line      \* what checkWin said of the last one

vars == <<board, history, line>>

Symbol(n) == IF n % 2 = 0 THEN "R" ELSE "B"

Init == /\ board = EmptyBoard
        /\ history = <<>>
        /\ line = <<>>

Play(col) ==
    LET symbol == Symbol(Len(history))
        row == LandingRow(board, col)
        next == [board EXCEPT ![<<row, col>>] = symbol]
    IN  /\ line = <<>>
        /\ row # -1
        /\ board' = next
        /\ history' = Append(history, [by |-> symbol, col |-> col, row |-> row])
        /\ line' = CheckWin(next, row, col, symbol)

Next == \E col \in 0 .. Cols - 1 : Play(col)

Spec == Init /\ [][Next]_vars

-----------------------------------------------------------------------------
(* The lines of the game by their definition: Connect cells one step       *)
(* apart, in a row, a column or a diagonal, all on the board.              *)
Lines ==
    LET from(cell, d) == {<<cell[1] + d[1] * i, cell[2] + d[2] * i>> : i \in 0 .. Connect - 1}
    IN  {l \in {from(cell, d) : cell \in Cells, d \in {<<0, 1>>, <<1, 0>>, <<1, 1>>, <<1, -1>>}} :
            l \subseteq Cells}

Won(symbol) == \E l \in Lines : \A cell \in l : board[cell] = symbol

(* checkWin looks only at lines through the last disc and counts outwards  *)
(* from it; a game nevertheless stops at the very move that completes a    *)
(* line of either colour anywhere, and at no other.                        *)
WinSeenWhenMade == line # <<>> <=> \E symbol \in {"R", "B"} : Won(symbol)

(* The line shown is one of the winner's, even when the move joins two     *)
(* runs into a longer one: exactly Connect adjacent discs of the player    *)
(* who moved last.                                                         *)
ShownLineIsALine == line # <<>> =>
    /\ Len(line) = Connect
    /\ {line[i] : i \in DOMAIN line} \in Lines
    /\ \A i \in DOMAIN line : board[line[i]] = Symbol(Len(history) - 1)

(* A room rebuilt from the history of its match (buildBoardFromMoves)      *)
(* has the board that move after move had built.                           *)
BoardIsRebuilt == board = BoardOf(history, "R", "B")

(* Discs do not float, so every history the rooms write can be replayed.   *)
NothingFloats == \A <<r, c>> \in Cells :
    board[<<r, c>>] # "_" /\ r + 1 < Rows => board[<<r + 1, c>>] # "_"

(* A game ends with a line, at once, and the line shown is one.            *)
LinesAreSeen == WinSeenWhenMade /\ ShownLineIsALine

(* The board shown is the one of the history, and one that can be reached. *)
BoardFollowsHistory == BoardIsRebuilt /\ NothingFloats

(* Both: the board is that of the moves, and its lines are seen. *)
BoardIsSound == LinesAreSeen /\ BoardFollowsHistory
=============================================================================
