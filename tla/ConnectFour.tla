---------------------------- MODULE ConnectFour ----------------------------
(***************************************************************************)
(* The board of a match: where a disc falls, which board a move history    *)
(* describes, and whether the last disc completes a line.                  *)
(*                                                                         *)
(* The code plays on 6 rows and 7 columns for lines of 4; the sizes are    *)
(* parameters.  Row 0 is the top row.  Definitions that nothing uses are   *)
(* faulty variants for mutation runs.                                      *)
(***************************************************************************)
EXTENDS Integers, Sequences, FiniteSets, SequencesExt

CONSTANTS Rows, Cols, Connect

ASSUME BoardAssumption == {Rows, Cols, Connect} \subseteq Nat \ {0}

Cells == (0 .. Rows - 1) \X (0 .. Cols - 1)

EmptyBoard == [cell \in Cells |-> "_"]

(* Faulty variant: rows are counted from the bottom. *)
MarksFromBelow(h, p, q, cell) ==
    {i \in DOMAIN h : <<Rows - 1 - h[i].row, h[i].col>> = cell /\ h[i].by \in {p, q}}

(* The entries of h that put a disc of p or of q on the cell. *)
Marks(h, p, q, cell) ==
    {i \in DOMAIN h : <<h[i].row, h[i].col>> = cell /\ h[i].by \in {p, q}}

(* buildBoardFromMoves: p plays R, q plays B; later entries overwrite. *)
BoardOf(h, p, q) ==
    [cell \in Cells |->
        LET marks == Marks(h, p, q, cell) IN
        IF marks = {} THEN "_" ELSE IF h[Max(marks)].by = p THEN "R" ELSE "B"]

(* The row a disc falls to in col, or -1 if the column is full. *)
LandingRow(board, col) ==
    LET free == {r \in 0 .. Rows - 1 : board[<<r, col>>] = "_"}
    IN  IF free = {} THEN -1 ELSE Max(free)

(* Faulty variant: one of the two diagonals is missing. *)
DirectionsButOne == <<<<0, 1>>, <<1, 0>>, <<1, 1>>>>

(* In the order in which checkWin looks at them. *)
Directions == <<<<0, 1>>, <<1, 0>>, <<1, 1>>, <<1, -1>>>>

(* The discs of the symbol next to the cell, one after the other in the    *)
(* direction dr, dc, at most Connect - 1 of them.                          *)
Arm(board, row, col, symbol, dr, dc) ==
    LET at(i) == <<row + dr * i, col + dc * i>>
        same(n) == \A i \in 1 .. n : at(i) \in Cells /\ board[at(i)] = symbol
        length == Max({n \in 0 .. Connect - 1 : same(n)})
    IN  [i \in 1 .. length |-> at(i)]

Line(board, row, col, symbol, d) ==
    <<<<row, col>>>> \o Arm(board, row, col, symbol, d[1], d[2])
                     \o Arm(board, row, col, symbol, -d[1], -d[2])

(* checkWin: the first Connect cells of the first line that is long        *)
(* enough, or the empty sequence where the code returns null.              *)
CheckWin(board, row, col, symbol) ==
    LET long == SelectSeq([i \in DOMAIN Directions |->
                    Line(board, row, col, symbol, Directions[i])],
                    LAMBDA l : Len(l) >= Connect)
    IN  IF long = <<>> THEN <<>> ELSE SubSeq(long[1], 1, Connect)
============================================================================
