----------------------------- MODULE TicTacToe -----------------------------
(***************************************************************************)
(* The simulation of Peterson's algorithm: two jobs (peterson_player in    *)
(* job.c) join a game of tic tac toe (tictactoe.c) and make their moves in *)
(* the critical section of peterson.c.                                     *)
(*                                                                         *)
(* The jobs run under RR, so an interrupt may switch between them at any   *)
(* instruction outside int_begin_atomic and int_end_atomic: one step is    *)
(* one access to the data they share, or one atomic region.  The build     *)
(* does not optimise, so every access goes to memory.  What is read only   *)
(* to be printed (plan_move, print_board, wait_for_turn) is left out.  The *)
(* move is any blank cell, as shuffle_moves may leave any of them first.   *)
(***************************************************************************)
EXTENDS Integers, FiniteSets

CONSTANTS Players,      \* the pids of the two jobs
          NoPid,        \* pid 0, which no player has
          Size          \* the board is Size by Size; 3 in the code

ASSUME PlayerAssumption ==
    /\ IsFiniteSet(Players) /\ Cardinality(Players) = 2
    /\ NoPid \notin Players
    /\ Size \in Nat \ {0}

Cell == (1 .. Size) \X (1 .. Size)

VARIABLES
    status, grid, player_x, player_o, winner,   \* s_tictactoe
    flag, turn,                                 \* s_peterson
    pc, mark,           \* of each player; c in job.c
    c, move,            \* choose_move's c and the cell it found blank
    line, pos, val      \* check_for_winner's line, place in it, and mark

game == << status, grid, player_x, player_o, winner >>
moveVars == << c, move >>
checkVars == << line, pos, val >>
locals == << moveVars, checkVars >>
vars == << game, flag, turn, pc, mark, locals >>

NoCell == << 0, 0 >>

Blank == [cell \in Cell |-> "blank"]

(***************************************************************************)
(* The first simulation finds the game open; a later one finds the game    *)
(* that the previous one finished, and the turn it left behind.  The board *)
(* and the players of a finished game are taken as erased: nobody reads    *)
(* them before start_tictactoe_game erases them.                           *)
(***************************************************************************)
Init ==
    /\ status \in {"OPEN", "DONE"}
    /\ grid = Blank
    /\ player_x = NoPid /\ player_o = NoPid /\ winner = NoPid
    /\ flag = [i \in {0, 1} |-> FALSE]
    /\ turn \in {0, 1}
    /\ pc = [p \in Players |-> "join"]
    /\ mark = [p \in Players |-> "none"]
    /\ c = [p \in Players |-> "blank"] /\ move = [p \in Players |-> NoCell]
    /\ line = [p \in Players |-> 1] /\ pos = [p \in Players |-> 1]
    /\ val = [p \in Players |-> "blank"]

Goto(p, l) == pc' = [pc EXCEPT ![p] = l]
Moves(p, l, m) == pc[p] = l /\ Goto(p, m)

\* The index that peterson_player passes to peterson: 'X' is P_I.
Index(p) == IF mark[p] = "X" THEN 0 ELSE 1
Other(p) == 1 - Index(p)

-----------------------------------------------------------------------------
\* join_tictactoe_game reads the status with interrupts enabled ...
join_test(p) ==
    /\ Moves(p, "join", IF status = "READY" THEN "enter" ELSE "start")
    /\ UNCHANGED << game, flag, turn, mark, locals >>

\* ... and then joins as 'O' ...
join_tictactoe_game(p) ==
    /\ Moves(p, "enter", "loop")
    /\ player_o' = p /\ status' = "PLAYING"
    /\ mark' = [mark EXCEPT ![p] = "O"]
    /\ UNCHANGED << grid, player_x, winner, flag, turn, locals >>

\* ... or starts a game as 'X'.
start_tictactoe_game(p) ==
    /\ Moves(p, "start", "loop")
    /\ grid' = Blank
    /\ player_x' = p /\ player_o' = NoPid /\ winner' = NoPid
    /\ status' = "READY"
    /\ mark' = [mark EXCEPT ![p] = "X"]
    /\ UNCHANGED << flag, turn, locals >>

\* The loop of peterson_player.
player_loop(p) ==
    /\ Moves(p, "loop", IF status = "DONE" THEN "exit" ELSE "flag")
    /\ UNCHANGED << game, flag, turn, mark, locals >>

-----------------------------------------------------------------------------
\* peterson: raise the flag, give the turn away, and spin.
raise_flag(p) ==
    /\ Moves(p, "flag", "turn")
    /\ flag' = [flag EXCEPT ![Index(p)] = TRUE]
    /\ UNCHANGED << game, turn, mark, locals >>

\* A mutation: the turn is kept.
keep_turn(p) ==
    /\ Moves(p, "turn", "spin_flag")
    /\ turn' = Index(p)
    /\ UNCHANGED << game, flag, mark, locals >>

give_turn(p) ==
    /\ Moves(p, "turn", "spin_flag")
    /\ turn' = Other(p)
    /\ UNCHANGED << game, flag, mark, locals >>

spin_flag(p) ==
    /\ Moves(p, "spin_flag", IF flag[Other(p)] THEN "spin_turn" ELSE "play")
    /\ UNCHANGED << game, flag, turn, mark, locals >>

spin_turn(p) ==
    /\ Moves(p, "spin_turn", IF turn = Other(p) THEN "spin_flag" ELSE "play")
    /\ UNCHANGED << game, flag, turn, mark, locals >>

\* A mutation: the flag stays up.
leave_flag_up(p) ==
    /\ Moves(p, "leave", "loop")
    /\ UNCHANGED << game, flag, turn, mark, locals >>

\* After the critical section; wait_for_turn only waits.
lower_flag(p) ==
    /\ Moves(p, "leave", "loop")
    /\ flag' = [flag EXCEPT ![Index(p)] = FALSE]
    /\ UNCHANGED << game, turn, mark, locals >>

-----------------------------------------------------------------------------
\* play_tictactoe: nothing to do when no game is on ...
play_tictactoe(p) ==
    /\ Moves(p, "play", IF status = "PLAYING" THEN "play_x" ELSE "leave")
    /\ UNCHANGED << game, flag, turn, mark, locals >>

\* ... nor for strangers.
play_as_x(p) ==
    /\ Moves(p, "play_x", IF p = player_x THEN "choose" ELSE "play_o")
    /\ UNCHANGED << game, flag, turn, mark, locals >>

play_as_o(p) ==
    /\ Moves(p, "play_o", IF p = player_o THEN "choose" ELSE "leave")
    /\ UNCHANGED << game, flag, turn, mark, locals >>

-----------------------------------------------------------------------------
choose_move(p) ==
    /\ Moves(p, "choose", IF status = "PLAYING" THEN "mark" ELSE "check")
    /\ UNCHANGED << game, flag, turn, mark, locals >>

\* The mark of player p, who is one of the two.
MarkOf(p) == IF p = player_x THEN "X" ELSE "O"

choose_mark(p) ==
    /\ Moves(p, "mark", "scan")
    /\ c' = [c EXCEPT ![p] = MarkOf(p)]
    /\ UNCHANGED << game, flag, turn, mark, move, checkVars >>

(***************************************************************************)
(* The loop that looks for a blank cell reads one, or has read them all.   *)
(* Reads of other cells leave no trace: a cell that is filled stays so as  *)
(* long as the game is on, whoever fills it.                               *)
(***************************************************************************)
find_blank(p) ==
    LET blank == {cell \in Cell : grid[cell] = "blank"} IN
    /\ Moves(p, "scan", IF blank = {} THEN "check" ELSE "write")
    /\ move' \in {[move EXCEPT ![p] = cell] :
                     cell \in IF blank = {} THEN {NoCell} ELSE blank}
    /\ UNCHANGED << game, flag, turn, mark, c, checkVars >>

\* The cell is filled.
write_mark(p) ==
    /\ Moves(p, "write", "check")
    /\ grid' = [grid EXCEPT ![move[p]] = c[p]]
    /\ move' = [move EXCEPT ![p] = NoCell]
    /\ UNCHANGED << status, player_x, player_o, winner, flag, turn, mark, c, checkVars >>

-----------------------------------------------------------------------------
check_for_winner(p) ==
    /\ Moves(p, "check", IF status = "PLAYING" THEN "line" ELSE "leave")
    /\ UNCHANGED << game, flag, turn, mark, locals >>

\* The lines in the order of check_for_winner: the diagonals, then every row
\* with the column of the same number.
NumLines == 2 * Size + 2

LineCell(k, m) ==
    IF k = 1 THEN << m, m >>
    ELSE IF k = 2 THEN << Size + 1 - m, m >>
    ELSE IF k % 2 = 1 THEN << k \div 2, m >> ELSE << m, (k \div 2) - 1 >>

\* One cell of a line is read.  A line ends with a blank cell, with a cell that
\* differs from the first, or complete.
check_line(p) ==
    LET v == grid[LineCell(line[p], pos[p])]
        same == IF pos[p] = 1 THEN v # "blank" ELSE v = val[p]
        done == same /\ pos[p] = Size
    IN /\ Moves(p, "line", IF done THEN "won"
                           ELSE IF same \/ line[p] < NumLines THEN "line" ELSE "draw")
       /\ val' = [val EXCEPT ![p] = IF same THEN v ELSE "blank"]
       /\ pos' = [pos EXCEPT ![p] = IF same /\ ~done THEN @ + 1 ELSE 1]
       /\ line' = [line EXCEPT ![p] = IF done THEN 1 ELSE IF same THEN @
                                      ELSE IF @ < NumLines THEN @ + 1 ELSE 1]
       /\ UNCHANGED << game, flag, turn, mark, moveVars >>

\* The draw test compares the cells with ' ', row by row, up to the first that
\* is not: only an empty board is a draw.
check_draw(p) ==
    LET blank == grid[<< line[p], pos[p] >>] = "blank"
        last  == line[p] = Size /\ pos[p] = Size
    IN /\ Moves(p, "draw", IF ~blank THEN "leave" ELSE IF last THEN "drawn" ELSE "draw")
       /\ pos' = [pos EXCEPT ![p] = IF blank /\ @ < Size THEN @ + 1 ELSE 1]
       /\ line' = [line EXCEPT ![p] = IF ~blank \/ last THEN 1
                                      ELSE IF pos[p] < Size THEN @ ELSE @ + 1]
       /\ UNCHANGED << game, flag, turn, mark, moveVars, val >>

\* assign_winner and assign_draw test the status ...
assign_test(p) ==
    /\ pc[p] \in {"won", "drawn"}
    /\ Goto(p, IF status = "PLAYING" THEN "assign" ELSE "leave")
    /\ UNCHANGED << game, flag, turn, mark, locals >>

\* A mutation: the other player is announced.
announce_loser(p) ==
    /\ Moves(p, "assign", "leave")
    /\ status' = "DONE"
    /\ winner' = CASE val[p] = "X" -> player_o
                   [] val[p] = "O" -> player_x
                   [] val[p] = "blank" -> winner
    /\ val' = [val EXCEPT ![p] = "blank"]
    /\ UNCHANGED << grid, player_x, player_o, flag, turn, mark, moveVars, line, pos >>

\* ... and end the game in an atomic region; val is blank after a draw.
assign_winner(p) ==
    /\ Moves(p, "assign", "leave")
    /\ status' = "DONE"
    /\ winner' = CASE val[p] = "X" -> player_x
                   [] val[p] = "O" -> player_o
                   [] val[p] = "blank" -> winner
    /\ val' = [val EXCEPT ![p] = "blank"]
    /\ UNCHANGED << grid, player_x, player_o, flag, turn, mark, moveVars, line, pos >>

-----------------------------------------------------------------------------
Step(p) ==
    \/ join_test(p) \/ join_tictactoe_game(p)
    \/ start_tictactoe_game(p) \/ player_loop(p)
    \/ raise_flag(p) \/ give_turn(p) \/ spin_flag(p) \/ spin_turn(p) \/ lower_flag(p)
    \/ play_tictactoe(p) \/ play_as_x(p) \/ play_as_o(p)
    \/ choose_move(p) \/ choose_mark(p) \/ find_blank(p) \/ write_mark(p)
    \/ check_for_winner(p) \/ check_line(p) \/ check_draw(p)
    \/ assign_test(p) \/ assign_winner(p)

\* Both jobs have exited.
Finished == (\A p \in Players : pc[p] = "exit") /\ UNCHANGED vars

Next == Finished \/ \E p \in Players : Step(p)

Spec == Init /\ [][Next]_vars

\* Round robin: a player that can go on gets its quantum.
FairSpec == Spec /\ \A p \in Players : WF_vars(Step(p))

-----------------------------------------------------------------------------
\* Inside play_tictactoe, in a game that was on.
Playing(p) ==
    pc[p] \in {"play_x", "play_o", "choose", "mark", "scan", "write",
               "check", "line", "draw", "won", "drawn", "assign"}

InSection(p) == pc[p] \in {"play", "leave"} \/ Playing(p)

Lines == {{<< i, j >> : j \in 1 .. Size} : i \in 1 .. Size}
         \cup {{<< i, j >> : i \in 1 .. Size} : j \in 1 .. Size}
         \cup {{<< i, i >> : i \in 1 .. Size}}
         \cup {{<< i, Size + 1 - i >> : i \in 1 .. Size}}

HasLine(m) == \E l \in Lines : \A cell \in l : grid[cell] = m

(***************************************************************************)
(* Peterson's algorithm excludes: two players that joined with different   *)
(* marks, and so pass different indices to peterson, are never both in the *)
(* critical section.                                                       *)
(***************************************************************************)
ExclusionByMark ==
    \A p, q \in Players :
        mark[p] # mark[q] => ~(InSection(p) /\ InSection(q))

(***************************************************************************)
(* A winner is announced for a line of his own marks, and only one player  *)
(* has a line, although the lines are read cell by cell while the other    *)
(* player may run.                                                         *)
(***************************************************************************)
WinnerHasLine ==
    /\ status = "DONE" /\ winner # NoPid => HasLine(MarkOf(winner))
    /\ ~(HasLine("X") /\ HasLine("O"))

(***************************************************************************)
(* A game in progress is played by the same two players until it is done,  *)
(* one cell at a time, and no mark is ever overwritten: between the test   *)
(* of a cell and the write to it, nobody else writes to it.                *)
(***************************************************************************)
GameKept ==
    [][status = "PLAYING" =>
          /\ status' \in {"PLAYING", "DONE"}
          /\ player_x' = player_x /\ player_o' = player_o
          /\ \A cell \in Cell : grid[cell] # "blank" => grid'[cell] = grid[cell]
          /\ Cardinality({cell \in Cell : grid'[cell] # grid[cell]}) <= 1]_vars

\* A player that wants to enter the critical section enters it.
SectionEntered ==
    \A p \in Players : pc[p] = "spin_flag" ~> pc[p] = "play"

=============================================================================
