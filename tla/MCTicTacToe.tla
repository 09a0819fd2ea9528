---------------------------- MODULE MCTicTacToe ----------------------------
(***************************************************************************)
(* TicTacToe for two players on a small board.                             *)
(***************************************************************************)
EXTENDS TicTacToe

CONSTANTS p1, p2        \* the pids of the two jobs

=============================================================================
