--------------------------- MODULE TicTacToeProofs ---------------------------
(***************************************************************************)
(* Peterson's algorithm protects the game, on a board of every size.       *)
(***************************************************************************)
EXTENDS TicTacToe, FiniteSetTheorems, TLAPS

Waiting(p) == pc[p] \in {"spin_flag", "spin_turn"}
Joining(p) == pc[p] \in {"join", "enter", "start"}

PC == {"join", "enter", "start", "loop", "flag", "turn", "spin_flag", "spin_turn",
       "play", "play_x", "play_o", "choose", "mark", "scan", "write",
       "check", "line", "draw", "won", "drawn", "assign", "leave", "exit"}

Types ==
    /\ status \in {"OPEN", "READY", "PLAYING", "DONE"}
    /\ grid \in [Cell -> {"blank", "X", "O"}]
    /\ flag \in [{0, 1} -> BOOLEAN] /\ turn \in {0, 1}
    /\ pc \in [Players -> PC]
    /\ mark \in [Players -> {"none", "X", "O"}]
    /\ \A p \in Players : mark[p] = "none" <=> Joining(p)

LocalTypes ==
    /\ c \in [Players -> {"blank", "X", "O"}] /\ move \in [Players -> Cell \cup {NoCell}]
    /\ line \in [Players -> Nat] /\ pos \in [Players -> 1 .. Size]
    /\ val \in [Players -> {"blank", "X", "O"}]
    /\ \A p \in Players : pc[p] = "line" => line[p] \in 1 .. NumLines
    /\ \A p \in Players : pc[p] \notin {"line", "draw"} => line[p] = 1 /\ pos[p] = 1

(***************************************************************************)
(* Peterson's algorithm, for two players that passed different indices.    *)
(* The flag of a player inside peterson is up, because nobody else lowers  *)
(* it, and while one player is in the critical section and the other waits *)
(* it is the turn of the former.                                           *)
(***************************************************************************)
Peterson ==
    \A p, q \in Players : p # q /\ mark[p] # mark[q] /\ mark[p] # "none" =>
        /\ pc[p] = "turn" \/ Waiting(p) \/ InSection(p) => flag[Index(p)]
        /\ InSection(p) /\ (Waiting(q) \/ InSection(q)) => turn = Index(p)

\* Two different players, 'X' and 'O', are in the game.
TwoInGame ==
    /\ player_x \in Players /\ mark[player_x] = "X"
    /\ player_o \in Players /\ mark[player_o] = "O"

(***************************************************************************)
(* The phases of the game.  A player that found the status READY still     *)
(* does when it joins, and nobody starts a game while one is on.           *)
(***************************************************************************)
Phases ==
    /\ status = "OPEN" => \A p \in Players : pc[p] \in {"join", "start"}
    /\ status = "READY" =>
          /\ player_x \in Players /\ mark[player_x] = "X"
          /\ \A p \in Players : mark[p] # "O"
          /\ grid = Blank
    /\ status = "PLAYING" => TwoInGame
    /\ status \in {"READY", "PLAYING"} => winner = NoPid
    /\ status = "DONE" => TwoInGame \/ (winner = NoPid /\ grid = Blank
                              /\ \A p \in Players : pc[p] \in {"join", "start"})
    /\ \A p \in Players : pc[p] = "enter" => status = "READY"

\* Who is inside play_tictactoe is so because the game is on.
InGame == \A p \in Players : Playing(p) => status = "PLAYING"

\* A line, by its place in check_for_winner, is complete.
Complete(k) == \E m \in {"X", "O"} : \A i \in 1 .. Size : grid[LineCell(k, i)] = m

\* What check_for_winner has read is still so: the lines before the current one
\* are not complete, and the cells of the current one are alike.
Seen(p) ==
    /\ \A k \in 1 .. line[p] - 1 : ~Complete(k)
    /\ \A i \in 1 .. pos[p] - 1 : grid[LineCell(line[p], i)] = val[p]
    /\ pos[p] > 1 => val[p] \in {"X", "O"}

\* What a player remembers of the board agrees with the board.
LocalsOk(p) ==
    /\ pc[p] \in {"scan", "write"} => c[p] \in {"X", "O"}
    /\ pc[p] = "write" => move[p] \in Cell /\ grid[move[p]] = "blank"
    /\ pc[p] = "line" => Seen(p)
    /\ pc[p] \in {"won", "draw", "drawn", "assign"} => val[p] = "blank" \/ HasLine(val[p])

Remembered == \A p \in Players : LocalsOk(p)

Checking(p) == pc[p] \in {"check", "line", "won", "assign"}

\* A line is announced by the player that completed it, before anybody else
\* moves.
LineSeen ==
    /\ \A m \in {"X", "O"} : status # "DONE" /\ HasLine(m) =>
          status = "PLAYING" /\ \E p \in Players : Checking(p)
    /\ status = "OPEN" => grid = Blank

\* The inductive invariant.
IInv ==
    /\ Types /\ LocalTypes /\ Peterson /\ Phases /\ InGame
    /\ Remembered /\ LineSeen /\ WinnerHasLine

-----------------------------------------------------------------------------
\* There is no third player.
LEMMA TwoPlayers ==
    ASSUME NEW p \in Players, NEW q \in Players, p # q
    PROVE  Players = {p, q}
  <1>1. IsFiniteSet(Players) /\ Cardinality(Players) = 2
    BY PlayerAssumption
  <1>2. IsFiniteSet({p}) /\ Cardinality({p}) = 1
    BY FS_Singleton
  <1>3. IsFiniteSet({p} \cup {q}) /\ Cardinality({p} \cup {q}) = 2
    BY <1>2, FS_AddElement
  <1>4. {p} \cup {q} \in SUBSET Players
    OBVIOUS
  <1>5. {p} \cup {q} = Players
    BY <1>1, <1>3, <1>4, FS_Subset
  <1> QED  BY <1>5

\* There are lines, and every line has a cell on the board.
LEMMA LinesNonempty ==
    ASSUME NEW l \in Lines
    PROVE  l # {} /\ l \subseteq Cell
  <1>1. Size \in Nat /\ 1 \in 1 .. Size
    BY PlayerAssumption
  <1>2. ASSUME NEW i \in 1 .. Size, l = {<< i, j >> : j \in 1 .. Size}
        PROVE  l # {} /\ l \subseteq Cell
    <2>1. << i, 1 >> \in l
      BY <1>1, <1>2
    <2>2. \A j \in 1 .. Size : << i, j >> \in Cell
      BY DEF Cell
    <2> QED  BY <1>2, <2>1, <2>2, Zenon
  <1>3. ASSUME NEW j \in 1 .. Size, l = {<< i, j >> : i \in 1 .. Size}
        PROVE  l # {} /\ l \subseteq Cell
    <2>1. << 1, j >> \in l
      BY <1>1, <1>3
    <2>2. \A i \in 1 .. Size : << i, j >> \in Cell
      BY DEF Cell
    <2> QED  BY <1>3, <2>1, <2>2, Zenon
  <1>4. ASSUME l = {<< i, i >> : i \in 1 .. Size}
        PROVE  l # {} /\ l \subseteq Cell
    <2>1. << 1, 1 >> \in l
      BY <1>1, <1>4
    <2>2. \A i \in 1 .. Size : << i, i >> \in Cell
      BY DEF Cell
    <2> QED  BY <1>4, <2>1, <2>2, Zenon
  <1>5. ASSUME l = {<< i, Size + 1 - i >> : i \in 1 .. Size}
        PROVE  l # {} /\ l \subseteq Cell
    <2>1. \A i \in 1 .. Size : Size + 1 - i \in 1 .. Size
      BY <1>1
    <2>2. << 1, Size + 1 - 1 >> \in l
      BY <1>1, <1>5
    <2>3. \A i \in 1 .. Size : << i, Size + 1 - i >> \in Cell
      BY <2>1 DEF Cell
    <2> QED  BY <1>5, <2>2, <2>3, Zenon
  <1> QED  BY <1>2, <1>3, <1>4, <1>5 DEF Lines

\* There is a first cell and a first line.
LEMMA BoardSize ==
    /\ Size \in Nat /\ Size > 0 /\ 1 \in 1 .. Size
    /\ NumLines \in Nat /\ 1 \in 1 .. NumLines
  <1>1. Size \in Nat /\ Size > 0
    BY PlayerAssumption
  <1> QED  BY <1>1 DEF NumLines

\* Every line is one of those that check_for_winner goes through, and the cells
\* it reads are on the board.
LEMMA LineCells ==
    /\ \A k \in 1 .. NumLines, i \in 1 .. Size : LineCell(k, i) \in Cell
    /\ \A k \in 1 .. NumLines : {LineCell(k, i) : i \in 1 .. Size} \in Lines
    /\ \A l \in Lines : \E k \in 1 .. NumLines : \A i \in 1 .. Size : LineCell(k, i) \in l
  <1>0. Size \in Nat /\ Size > 0 /\ NumLines \in Nat
    BY PlayerAssumption DEF NumLines
  <1>1. \A i \in 1 .. Size : Size + 1 - i \in 1 .. Size /\ Size + 1 - (Size + 1 - i) = i
    BY <1>0
  <1>2. ASSUME NEW k \in 1 .. NumLines
        PROVE  /\ \A i \in 1 .. Size : LineCell(k, i) \in Cell
               /\ {LineCell(k, i) : i \in 1 .. Size} \in Lines
    <2>1. CASE k = 1
      <3>1. \A i \in 1 .. Size : LineCell(k, i) = << i, i >>
        BY <2>1 DEF LineCell
      <3>2. {LineCell(k, i) : i \in 1 .. Size} = {<< i, i >> : i \in 1 .. Size}
        BY <3>1
      <3>3. \A i \in 1 .. Size : LineCell(k, i) \in Cell
        BY <3>1 DEF Cell
      <3>4. {<< i, i >> : i \in 1 .. Size} \in Lines
        BY Zenon DEF Lines
      <3> QED  BY <3>2, <3>3, <3>4
    <2>2. CASE k = 2
      <3>1. \A i \in 1 .. Size : LineCell(k, i) = << Size + 1 - i, i >>
        BY <2>2 DEF LineCell
      <3>2. {LineCell(k, i) : i \in 1 .. Size} = {<< i, Size + 1 - i >> : i \in 1 .. Size}
        <4>1. ASSUME NEW x \in {LineCell(k, i) : i \in 1 .. Size}
              PROVE  x \in {<< i, Size + 1 - i >> : i \in 1 .. Size}
          <5>1. PICK i \in 1 .. Size : x = << Size + 1 - i, i >>
            BY <3>1
          <5>2. x = << Size + 1 - i, Size + 1 - (Size + 1 - i) >> /\ Size + 1 - i \in 1 .. Size
            BY <1>1, <5>1
          <5> QED  BY <5>2
        <4>2. ASSUME NEW x \in {<< i, Size + 1 - i >> : i \in 1 .. Size}
              PROVE  x \in {LineCell(k, i) : i \in 1 .. Size}
          <5>1. PICK i \in 1 .. Size : x = << i, Size + 1 - i >>
            OBVIOUS
          <5>2. Size + 1 - i \in 1 .. Size /\ x = LineCell(k, Size + 1 - i)
            BY <1>1, <3>1, <5>1
          <5> QED  BY <5>2
        <4> QED  BY <4>1, <4>2
      <3>3. \A i \in 1 .. Size : LineCell(k, i) \in Cell
        BY <1>1, <3>1 DEF Cell
      <3> QED  BY <3>2, <3>3 DEF Lines
    <2>3. CASE k > 2 /\ k % 2 = 1
      <3>1. k \div 2 \in 1 .. Size /\ \A i \in 1 .. Size : LineCell(k, i) = << k \div 2, i >>
        BY <1>0, <2>3 DEF LineCell, NumLines
      <3>2. {LineCell(k, i) : i \in 1 .. Size} = {<< k \div 2, i >> : i \in 1 .. Size}
        BY <3>1
      <3>3. {<< k \div 2, j >> : j \in 1 .. Size} \in Lines
        BY <3>1, Zenon DEF Lines
      <3>4. \A i \in 1 .. Size : LineCell(k, i) \in Cell
        BY <3>1 DEF Cell
      <3> QED  BY <3>2, <3>3, <3>4
    <2>4. CASE k > 2 /\ k % 2 = 0
      <3>1. (k \div 2) - 1 \in 1 .. Size
            /\ \A i \in 1 .. Size : LineCell(k, i) = << i, (k \div 2) - 1 >>
        BY <1>0, <2>4 DEF LineCell, NumLines
      <3>2. {LineCell(k, i) : i \in 1 .. Size} = {<< i, (k \div 2) - 1 >> : i \in 1 .. Size}
        BY <3>1
      <3>3. {<< i, (k \div 2) - 1 >> : i \in 1 .. Size} \in Lines
        BY <3>1, Zenon DEF Lines
      <3>4. \A i \in 1 .. Size : LineCell(k, i) \in Cell
        BY <3>1 DEF Cell
      <3> QED  BY <3>2, <3>3, <3>4
    <2> QED  BY <1>0, <2>1, <2>2, <2>3, <2>4
  <1>3. ASSUME NEW l \in Lines
        PROVE  \E k \in 1 .. NumLines : \A i \in 1 .. Size : LineCell(k, i) \in l
    <2>1. ASSUME NEW r \in 1 .. Size, l = {<< r, j >> : j \in 1 .. Size}
          PROVE  \E k \in 1 .. NumLines : \A i \in 1 .. Size : LineCell(k, i) \in l
      <3> DEFINE k == 2 * r + 1
      <3>1. k \in 1 .. NumLines /\ k > 2 /\ k % 2 = 1 /\ k \div 2 = r
        BY <1>0 DEF NumLines
      <3> HIDE DEF k
      <3>2. \A i \in 1 .. Size : LineCell(k, i) = << r, i >>
        BY <3>1 DEF LineCell
      <3> QED  BY <2>1, <3>1, <3>2
    <2>2. ASSUME NEW r \in 1 .. Size, l = {<< i, r >> : i \in 1 .. Size}
          PROVE  \E k \in 1 .. NumLines : \A i \in 1 .. Size : LineCell(k, i) \in l
      <3> DEFINE k == 2 * r + 2
      <3>1. k \in 1 .. NumLines /\ k > 2 /\ k % 2 = 0 /\ (k \div 2) - 1 = r
        BY <1>0 DEF NumLines
      <3> HIDE DEF k
      <3>2. \A i \in 1 .. Size : LineCell(k, i) = << i, r >>
        BY <3>1 DEF LineCell
      <3> QED  BY <2>2, <3>1, <3>2
    <2>3. ASSUME l = {<< i, i >> : i \in 1 .. Size}
          PROVE  \E k \in 1 .. NumLines : \A i \in 1 .. Size : LineCell(k, i) \in l
      <3>1. 1 \in 1 .. NumLines
        BY <1>0 DEF NumLines
      <3> QED  BY <2>3, <3>1 DEF LineCell
    <2>4. ASSUME l = {<< i, Size + 1 - i >> : i \in 1 .. Size}
          PROVE  \E k \in 1 .. NumLines : \A i \in 1 .. Size : LineCell(k, i) \in l
      <3>1. 2 \in 1 .. NumLines
        BY <1>0 DEF NumLines
      <3>2. ASSUME NEW i \in 1 .. Size  PROVE  LineCell(2, i) \in l
        <4>1. LineCell(2, i) = << Size + 1 - i, i >>
          BY DEF LineCell
        <4>2. << Size + 1 - i, Size + 1 - (Size + 1 - i) >> \in l
          BY <1>1, <2>4
        <4> QED  BY <1>1, <4>1, <4>2
      <3> QED  BY <3>1, <3>2
    <2> QED  BY <2>1, <2>2, <2>3, <2>4 DEF Lines
  <1> QED  BY <1>2, <1>3

\* There is no line on an empty board.
LEMMA BlankHasNoLine ==
    ASSUME grid = Blank, NEW m \in {"X", "O"}
    PROVE  ~HasLine(m)
  BY LinesNonempty DEF HasLine, Blank

\* A mark in a blank cell completes lines of that mark only.
LEMMA MarkKeepsLines ==
    ASSUME NEW cell \in Cell, NEW m \in {"X", "O"}, NEW d \in {"X", "O"}, d # m,
           grid \in [Cell -> {"blank", "X", "O"}],
           grid' = [grid EXCEPT ![cell] = m], HasLine(d)'
    PROVE  HasLine(d)
  BY LinesNonempty DEF HasLine

\* If no line of check_for_winner is complete, there is none.
LEMMA NoneComplete ==
    ASSUME \A k \in 1 .. NumLines : ~Complete(k), NEW m \in {"X", "O"}
    PROVE  ~HasLine(m)
  <1> SUFFICES ASSUME HasLine(m)  PROVE  FALSE
    OBVIOUS
  <1>1. PICK l \in Lines : \A cell \in l : grid[cell] = m
    BY DEF HasLine
  <1>2. PICK k \in 1 .. NumLines : \A i \in 1 .. Size : LineCell(k, i) \in l
    BY LineCells
  <1>3. Complete(k)
    BY <1>1, <1>2 DEF Complete
  <1> QED  BY <1>3

\* A line that has been read to its end is one.
LEMMA ReadLine ==
    ASSUME NEW k \in 1 .. NumLines, NEW m, \A i \in 1 .. Size : grid[LineCell(k, i)] = m
    PROVE  HasLine(m)
  <1>1. {LineCell(k, i) : i \in 1 .. Size} \in Lines
    BY LineCells
  <1>2. \A cell \in {LineCell(k, i) : i \in 1 .. Size} : grid[cell] = m
    OBVIOUS
  <1> QED  BY <1>1, <1>2 DEF HasLine

-----------------------------------------------------------------------------
LEMMA InitIInv == Init => IInv
  <1> SUFFICES ASSUME Init PROVE IInv
    OBVIOUS
  <1>1. Types
    BY DEF Init, Types, Blank, Joining, PC
  <1>2. Peterson /\ Phases /\ InGame
    BY DEF Init, Peterson, Phases, TwoInGame, InGame, Playing
  <1>3. LineSeen /\ WinnerHasLine
    BY BlankHasNoLine DEF Init, LineSeen, WinnerHasLine
  <1>4. LocalTypes
    <2>1. 1 \in 1 .. Size
      BY PlayerAssumption
    <2> QED  BY <2>1 DEF Init, LocalTypes
  <1>5. Remembered
    BY DEF Init, Remembered, LocalsOk
  <1> QED  BY <1>1, <1>2, <1>3, <1>4, <1>5 DEF IInv

\* The steps of the critical section.
SectionStep(p) ==
    \/ play_tictactoe(p) \/ play_as_x(p) \/ play_as_o(p)
    \/ choose_move(p) \/ choose_mark(p) \/ find_blank(p) \/ write_mark(p)
    \/ check_for_winner(p) \/ check_line(p) \/ check_draw(p)
    \/ assign_test(p) \/ assign_winner(p)

\* The steps outside of it leave the locals alone.
OuterStep(p) ==
    \/ join_test(p) \/ join_tictactoe_game(p)
    \/ start_tictactoe_game(p) \/ player_loop(p)
    \/ raise_flag(p) \/ give_turn(p) \/ spin_flag(p) \/ spin_turn(p) \/ lower_flag(p)

LEMMA StepCases ==
    ASSUME NEW p \in Players, Step(p)
    PROVE  OuterStep(p) \/ SectionStep(p)
  BY DEF Step, OuterStep, SectionStep

\* A step of the critical section stays inside and touches neither flag nor
\* turn.
LEMMA SectionControl ==
    ASSUME NEW p \in Players, SectionStep(p), pc \in [Players -> PC]
    PROVE  /\ pc' = [pc EXCEPT ![p] = pc'[p]] /\ UNCHANGED << flag, turn, mark >>
           /\ pc[p] = "play" \/ Playing(p)
           /\ pc'[p] = "leave" \/ (pc'[p] \in PC /\ Playing(p)')
  <1> USE DEF Moves, Goto, Playing, PC
  <1>1. CASE play_tictactoe(p) \/ play_as_x(p) \/ play_as_o(p)
    BY <1>1 DEF play_tictactoe, play_as_x, play_as_o
  <1>2. CASE choose_move(p) \/ choose_mark(p) \/ find_blank(p) \/ write_mark(p)
    BY <1>2 DEF choose_move, choose_mark, find_blank, write_mark
  <1>3. CASE check_for_winner(p)
    BY <1>3 DEF check_for_winner
  <1>4. CASE check_line(p)
    BY <1>4 DEF check_line
  <1>5. CASE check_draw(p)
    BY <1>5 DEF check_draw
  <1>6. CASE assign_test(p) \/ assign_winner(p)
    BY <1>6 DEF assign_test, assign_winner
  <1> QED  BY <1>1, <1>2, <1>3, <1>4, <1>5, <1>6 DEF SectionStep

\* What the steps of the critical section change of the game.
LEMMA SectionGame ==
    ASSUME NEW p \in Players, SectionStep(p)
    PROVE  \/ write_mark(p)
           \/ assign_winner(p)
           \/ UNCHANGED game
  BY DEF SectionStep, play_tictactoe, play_as_x, play_as_o, choose_move, choose_mark,
         find_blank, check_for_winner, check_line, check_draw, assign_test

\* What a step leaves of the control state.
LEMMA StepTypes ==
    ASSUME Types, LocalTypes, NEW p \in Players, Step(p)
    PROVE  Types'
  <1> USE DEF Moves, Goto, game, Joining, PC
  <1>1. CASE join_test(p)
    BY <1>1 DEF join_test, Types
  <1>2. CASE join_tictactoe_game(p)
    BY <1>2 DEF join_tictactoe_game, Types
  <1>3. CASE start_tictactoe_game(p)
    BY <1>3 DEF start_tictactoe_game, Types, Blank
  <1>4. CASE player_loop(p)
    BY <1>4 DEF player_loop, Types
  <1>5. CASE raise_flag(p)
    BY <1>5 DEF raise_flag, Types, Index
  <1>6. CASE give_turn(p)
    <2>1. Other(p) \in {0, 1}
      BY DEF Other, Index
    <2> QED  BY <1>6, <2>1 DEF give_turn, Types
  <1>7. CASE spin_flag(p)
    BY <1>7 DEF spin_flag, Types
  <1>8. CASE spin_turn(p)
    BY <1>8 DEF spin_turn, Types
  <1>9. CASE lower_flag(p)
    BY <1>9 DEF lower_flag, Types, Index
  <1>10. CASE SectionStep(p)
    <2>1. status' \in {"OPEN", "READY", "PLAYING", "DONE"}
          /\ grid' \in [Cell -> {"blank", "X", "O"}]
      BY <1>10, SectionGame DEF Types, LocalTypes, write_mark, assign_winner
    <2>2. /\ pc' = [pc EXCEPT ![p] = pc'[p]] /\ UNCHANGED << flag, turn, mark >>
          /\ ~Joining(p) /\ ~Joining(p)' /\ pc'[p] \in PC
      BY <1>10, SectionControl DEF Types, Playing
    <2> QED  BY <2>1, <2>2 DEF Types
  <1> QED  BY <1>1, <1>2, <1>3, <1>4, <1>5, <1>6, <1>7, <1>8, <1>9, <1>10, StepCases
         DEF OuterStep

(***************************************************************************)
(* Peterson's argument.  Who enters without having seen the other flag up  *)
(* found it down; who enters because of the turn was given it by the other *)
(* player, who does not take it back.                                      *)
(***************************************************************************)
LEMMA StepPeterson ==
    ASSUME Types, Peterson, NEW p \in Players, Step(p)
    PROVE  Peterson'
  <1> SUFFICES ASSUME NEW a \in Players, NEW b \in Players, a # b,
                      mark'[a] # mark'[b], mark'[a] # "none"
               PROVE  /\ (pc[a] = "turn" \/ Waiting(a) \/ InSection(a) => flag[Index(a)])'
                      /\ (InSection(a) /\ (Waiting(b) \/ InSection(b)) => turn = Index(a))'
    BY DEF Peterson
  <1>0. p = a \/ p = b
    BY TwoPlayers
  <1> USE DEF Moves, Goto, game, Waiting, InSection, Playing
  <1>1. CASE join_tictactoe_game(p)
    BY <1>0, <1>1, ZenonT(60) DEF join_tictactoe_game, Peterson, Types, Joining, Index
  <1>2. CASE start_tictactoe_game(p)
    BY <1>0, <1>2 DEF start_tictactoe_game, Peterson, Types, Joining, Index
  <1>3. ASSUME mark' = mark
        PROVE  /\ Index(a) \in {0, 1} /\ Index(a)' = Index(a) /\ Index(b)' = Index(b)
               /\ pc[a] = "turn" \/ Waiting(a) \/ InSection(a) => flag[Index(a)]
               /\ InSection(a) /\ (Waiting(b) \/ InSection(b)) => turn = Index(a)
               /\ \/ pc[b] \in {"join", "enter", "start"}
                  \/ /\ Index(b) = Other(a) /\ Index(a) = Other(b) /\ Index(a) # Index(b)
                     /\ pc[b] = "turn" \/ Waiting(b) \/ InSection(b) => flag[Index(b)]
                     /\ InSection(b) /\ (Waiting(a) \/ InSection(a)) => turn = Index(b)
    <2>1. /\ mark[a] # mark[b] /\ mark[a] \in {"X", "O"}
          /\ mark[b] \in {"X", "O"} \/ pc[b] \in {"join", "enter", "start"}
      BY <1>3 DEF Types, Joining
    <2>2. /\ Index(a) \in {0, 1} /\ Index(a)' = Index(a) /\ Index(b)' = Index(b)
          /\ \/ pc[b] \in {"join", "enter", "start"}
             \/ /\ mark[b] # "none" /\ Index(b) = Other(a) /\ Index(a) = Other(b)
                /\ Index(a) # Index(b)
      BY <1>3, <2>1 DEF Index, Other
    <2> QED  BY <2>1, <2>2 DEF Peterson
  <1>4. pc \in [Players -> PC] /\ flag \in [{0, 1} -> BOOLEAN] /\ turn \in {0, 1}
    BY DEF Types
  <1>5. CASE join_test(p)
    BY <1>0, <1>3, <1>4, <1>5 DEF join_test
  <1>6. CASE player_loop(p)
    BY <1>0, <1>3, <1>4, <1>6 DEF player_loop
  <1>7. CASE raise_flag(p)
    BY <1>0, <1>3, <1>4, <1>7 DEF raise_flag
  <1>8. CASE give_turn(p)
    BY <1>0, <1>3, <1>4, <1>8 DEF give_turn
  <1>9. CASE spin_flag(p)
    BY <1>0, <1>3, <1>4, <1>9 DEF spin_flag
  <1>10. CASE spin_turn(p)
    BY <1>0, <1>3, <1>4, <1>10 DEF spin_turn, Other
  <1>11. CASE lower_flag(p)
    <2>1. pc[p] = "leave" /\ pc' = [pc EXCEPT ![p] = "loop"] /\ UNCHANGED << turn, mark >>
      BY <1>11 DEF lower_flag
    <2>2. CASE p = a
      BY <1>4, <2>1, <2>2
    <2>3. CASE p = b
      <3>1. flag'[Index(a)] = flag[Index(a)]
        BY <1>3, <1>4, <1>11, <2>1, <2>3 DEF lower_flag
      <3> QED  BY <1>3, <1>4, <2>1, <2>3, <3>1
    <2> QED  BY <1>0, <2>2, <2>3
  <1>12. CASE SectionStep(p)
    <2>1. /\ pc' = [pc EXCEPT ![p] = pc'[p]] /\ UNCHANGED << flag, turn, mark >>
          /\ InSection(p) /\ InSection(p)' /\ pc'[p] # "turn" /\ ~Waiting(p)'
      BY <1>4, <1>12, SectionControl
    <2>2. \A q \in Players : /\ InSection(q)' => InSection(q)
                             /\ Waiting(q)' => Waiting(q)
                             /\ pc'[q] = "turn" => pc[q] = "turn"
      BY <1>4, <2>1
    <2> HIDE DEF Waiting, InSection, Playing
    <2>3. /\ Index(a)' = Index(a)
          /\ pc[a] = "turn" \/ Waiting(a) \/ InSection(a) => flag[Index(a)]
          /\ InSection(a) /\ (Waiting(b) \/ InSection(b)) => turn = Index(a)
      BY <1>3, <2>1
    <2>4. pc'[a] = "turn" \/ Waiting(a)' \/ InSection(a)' => flag'[Index(a)']
      BY <2>1, <2>2, <2>3, Zenon
    <2>5. InSection(a)' /\ (Waiting(b)' \/ InSection(b)') => turn' = Index(a)'
      BY <2>1, <2>2, <2>3, Zenon
    <2> QED  BY <2>4, <2>5
  <1> QED  BY <1>1, <1>2, <1>5, <1>6, <1>7, <1>8, <1>9, <1>10, <1>11, <1>12, StepCases
         DEF OuterStep

\* Who joins a game finds it as it was announced.
LEMMA StepPhases ==
    ASSUME Types, Phases, InGame, NEW p \in Players, Step(p)
    PROVE  Phases'
  <1>0. \A q, r \in Players : q # r => p = q \/ p = r
    BY TwoPlayers
  <1> USE <1>0 DEF Moves, Goto, game, Joining, Phases, Types, TwoInGame
  <1>1. CASE join_test(p)
    BY <1>1 DEF join_test
  <1>2. CASE join_tictactoe_game(p)
    BY <1>2 DEF join_tictactoe_game
  <1>3. CASE start_tictactoe_game(p)
    BY <1>3 DEF start_tictactoe_game
  <1>4. CASE player_loop(p)
    BY <1>4 DEF player_loop
  <1>5. CASE raise_flag(p)
    BY <1>5 DEF raise_flag
  <1>6. CASE give_turn(p)
    BY <1>6 DEF give_turn
  <1>7. CASE spin_flag(p)
    BY <1>7 DEF spin_flag
  <1>8. CASE spin_turn(p)
    BY <1>8 DEF spin_turn
  <1>9. CASE lower_flag(p)
    BY <1>9 DEF lower_flag
  <1>10. CASE SectionStep(p)
    <2>1. /\ pc' = [pc EXCEPT ![p] = pc'[p]] /\ UNCHANGED mark
          /\ pc[p] \notin {"join", "start", "enter"} /\ pc'[p] \notin {"join", "start", "enter"}
      BY <1>10, SectionControl DEF Playing
    <2>2. CASE UNCHANGED game
      BY <2>1, <2>2
    <2>3. CASE write_mark(p)
      <3>1. status = "PLAYING" /\ UNCHANGED << status, player_x, player_o, winner >>
        BY <2>3 DEF write_mark, InGame, Playing
      <3> QED  BY <2>1, <3>1
    <2>4. CASE assign_winner(p)
      <3>1. status = "PLAYING" /\ status' = "DONE" /\ UNCHANGED << player_x, player_o >>
        BY <2>4 DEF assign_winner, InGame, Playing
      <3> QED  BY <2>1, <3>1
    <2> QED  BY <1>10, <2>2, <2>3, <2>4, SectionGame
  <1> QED  BY <1>1, <1>2, <1>3, <1>4, <1>5, <1>6, <1>7, <1>8, <1>9, <1>10, StepCases
         DEF OuterStep

\* The variables of choose_move and check_for_winner keep to the board.
LEMMA StepLocalTypes ==
    ASSUME Types, LocalTypes, NEW p \in Players, Step(p)
    PROVE  LocalTypes'
  <1> USE DEF Moves, Goto, game, locals, moveVars, checkVars
  <1>0. /\ pc \in [Players -> PC] /\ Size \in Nat /\ 1 \in 1 .. Size
        /\ NumLines \in Nat /\ 1 \in 1 .. NumLines
    BY BoardSize DEF Types
  <1>1. ASSUME UNCHANGED << line, pos >>, pc' = [pc EXCEPT ![p] = pc'[p]],
               pc[p] \notin {"line", "draw"}, pc'[p] # "draw",
               c' \in [Players -> {"blank", "X", "O"}],
               move' \in [Players -> Cell \cup {NoCell}],
               val' \in [Players -> {"blank", "X", "O"}]
        PROVE  LocalTypes'
    <2>1. line[p] = 1 /\ pos[p] = 1
      BY <1>1 DEF LocalTypes
    <2>2. \A q \in Players : q # p => pc'[q] = pc[q]
      BY <1>0, <1>1
    <2> QED  BY <1>0, <1>1, <2>1, <2>2 DEF LocalTypes
  <1>2. CASE OuterStep(p)
    <2>1. /\ UNCHANGED locals /\ pc' = [pc EXCEPT ![p] = pc'[p]]
          /\ pc[p] \notin {"line", "draw"} /\ pc'[p] # "draw"
      BY <1>0, <1>2 DEF OuterStep, join_test, join_tictactoe_game, start_tictactoe_game,
              player_loop, raise_flag, give_turn, spin_flag, spin_turn, lower_flag
    <2> QED  BY <1>1, <2>1 DEF LocalTypes
  <1>3. CASE play_tictactoe(p) \/ play_as_x(p) \/ play_as_o(p)
    BY <1>0, <1>1, <1>3 DEF play_tictactoe, play_as_x, play_as_o, LocalTypes
  <1>4. CASE choose_move(p) \/ check_for_winner(p) \/ assign_test(p)
    BY <1>0, <1>1, <1>4 DEF choose_move, check_for_winner, assign_test, LocalTypes
  <1>5. CASE choose_mark(p)
    BY <1>0, <1>1, <1>5 DEF choose_mark, MarkOf, LocalTypes
  <1>6. CASE find_blank(p)
    <2>1. PICK cell \in Cell \cup {NoCell} : move' = [move EXCEPT ![p] = cell]
      BY <1>6 DEF find_blank
    <2>2. move' \in [Players -> Cell \cup {NoCell}]
      BY <2>1 DEF LocalTypes
    <2> QED  BY <1>0, <1>1, <1>6, <2>2 DEF find_blank, LocalTypes
  <1>7. CASE write_mark(p)
    BY <1>0, <1>1, <1>7 DEF write_mark, LocalTypes
  <1>8. CASE assign_winner(p)
    BY <1>0, <1>1, <1>8 DEF assign_winner, LocalTypes
  <1>9. CASE check_line(p)
    <2>1. PICK v : v = grid[LineCell(line[p], pos[p])]
      OBVIOUS
    <2>2. v \in {"blank", "X", "O"} /\ line[p] \in 1 .. NumLines /\ pos[p] \in 1 .. Size
      <3>1. line[p] \in 1 .. NumLines /\ pos[p] \in 1 .. Size
        BY <1>9 DEF check_line, LocalTypes
      <3> QED  BY <2>1, <3>1, LineCells DEF Types
    <2>3. /\ line' = [line EXCEPT ![p] = line'[p]] /\ pos' = [pos EXCEPT ![p] = pos'[p]]
          /\ pc' = [pc EXCEPT ![p] = pc'[p]] /\ pc'[p] \in {"won", "line", "draw"}
      BY <1>0, <1>9 DEF check_line, LocalTypes
    <2>6. line'[p] \in 1 .. NumLines /\ pos'[p] \in 1 .. Size
      BY <1>0, <1>9, <2>2 DEF check_line, LocalTypes
    <2>7. pc'[p] = "won" => line'[p] = 1 /\ pos'[p] = 1
      BY <1>0, <1>9, <2>2 DEF check_line, LocalTypes
    <2>4. val' \in [Players -> {"blank", "X", "O"}]
      BY <1>9, <2>1, <2>2 DEF check_line, LocalTypes
    <2>5. UNCHANGED << c, move >>
      BY <1>9 DEF check_line
    <2>8. line' \in [Players -> Nat] /\ pos' \in [Players -> 1 .. Size]
      BY <1>0, <2>3, <2>6 DEF LocalTypes
    <2>9. \A q \in Players : q # p => /\ pc'[q] = pc[q]
                                      /\ line'[q] = line[q] /\ pos'[q] = pos[q]
      BY <1>0, <2>3 DEF LocalTypes
    <2> QED  BY <2>3, <2>4, <2>5, <2>6, <2>7, <2>8, <2>9 DEF LocalTypes
  <1>10. CASE check_draw(p)
    <2>1. line[p] \in Nat /\ pos[p] \in 1 .. Size
      BY DEF LocalTypes
    <2>2. /\ line' = [line EXCEPT ![p] = line'[p]] /\ pos' = [pos EXCEPT ![p] = pos'[p]]
          /\ pc' = [pc EXCEPT ![p] = pc'[p]] /\ pc'[p] \in {"leave", "drawn", "draw"}
      BY <1>0, <1>10 DEF check_draw, LocalTypes
    <2>4. line'[p] \in Nat /\ pos'[p] \in 1 .. Size
      BY <1>0, <1>10, <2>1 DEF check_draw, LocalTypes
    <2>5. pc'[p] # "draw" => line'[p] = 1 /\ pos'[p] = 1
      BY <1>0, <1>10, <2>1 DEF check_draw, LocalTypes
    <2>6. line' \in [Players -> Nat] /\ pos' \in [Players -> 1 .. Size]
      BY <1>0, <2>2, <2>4 DEF LocalTypes
    <2>7. \A q \in Players : q # p => /\ pc'[q] = pc[q]
                                      /\ line'[q] = line[q] /\ pos'[q] = pos[q]
      BY <1>0, <2>2 DEF LocalTypes
    <2>3. UNCHANGED << c, move, val >>
      BY <1>10 DEF check_draw
    <2> QED  BY <2>2, <2>3, <2>4, <2>5, <2>6, <2>7 DEF LocalTypes
  <1> QED  BY <1>2, <1>3, <1>4, <1>5, <1>6, <1>7, <1>8, <1>9, <1>10, StepCases DEF SectionStep

\* Two players in a game do not have the critical section at the same time.
LEMMA SectionExcludes ==
    ASSUME Types, Peterson, NEW p \in Players, NEW q \in Players, mark[p] # mark[q]
    PROVE  ~(InSection(p) /\ InSection(q))
  <1> SUFFICES ASSUME InSection(p), InSection(q) PROVE FALSE
    OBVIOUS
  <1>1. mark[p] \in {"X", "O"} /\ mark[q] \in {"X", "O"}
    BY DEF Types, InSection, Playing, Joining
  <1>2. turn = Index(p) /\ turn = Index(q)
    BY <1>1 DEF Peterson
  <1> QED  BY <1>1, <1>2 DEF Index

\* A player inside play_tictactoe is alone in the critical section, and the
\* other one is not about to join.
LEMMA Alone ==
    ASSUME Types, Peterson, Phases, InGame,
           NEW p \in Players, NEW q \in Players, p # q, Playing(q)
    PROVE  ~InSection(p) /\ ~Joining(p)
  <1>1. TwoInGame
    BY DEF InGame, Phases
  <1>2. Players = {p, q}
    BY TwoPlayers
  <1>3. mark[p] # mark[q] /\ mark[p] # "none"
    BY <1>1, <1>2 DEF TwoInGame
  <1>4. InSection(q)
    BY DEF InSection
  <1> QED  BY <1>3, <1>4, SectionExcludes DEF Types

\* The game is on as long as somebody plays.
LEMMA StepInGame ==
    ASSUME Types, Peterson, Phases, InGame, NEW p \in Players, Step(p)
    PROVE  InGame'
  <1> SUFFICES ASSUME NEW q \in Players, Playing(q)'  PROVE  status' = "PLAYING"
    BY DEF InGame
  <1>0. pc \in [Players -> PC]
    BY DEF Types
  <1>1. CASE q = p
    <2>1. SectionStep(p)
      BY <1>0, <1>1, StepCases DEF OuterStep, Moves, Goto, Playing, join_test,
         join_tictactoe_game, start_tictactoe_game, player_loop, raise_flag, give_turn,
         spin_flag, spin_turn, lower_flag
    <2>2. status = "PLAYING"
      <3>1. CASE play_tictactoe(p)
        BY <1>0, <1>1, <3>1 DEF play_tictactoe, Moves, Goto, Playing
      <3>2. CASE ~play_tictactoe(p)
        <4>1. pc[p] # "play"
          BY <2>1, <3>2 DEF SectionStep, Moves, play_as_x, play_as_o, choose_move, choose_mark,
             find_blank, write_mark, check_for_winner, check_line, check_draw, assign_test,
             assign_winner
        <4> QED  BY <1>0, <2>1, <4>1, SectionControl DEF InGame
      <3> QED  BY <3>1, <3>2
    <2>3. ~assign_winner(p)
      BY <1>0, <1>1 DEF assign_winner, Moves, Goto, Playing
    <2> QED  BY <2>1, <2>2, <2>3, SectionGame DEF write_mark, game
  <1>2. CASE q # p
    <2>1. pc'[q] = pc[q]
      <3>1. pc' = [pc EXCEPT ![p] = pc'[p]]
        BY <1>0, StepCases, SectionControl DEF OuterStep, Moves, Goto, join_test,
         join_tictactoe_game, start_tictactoe_game, player_loop, raise_flag, give_turn,
         spin_flag, spin_turn, lower_flag
      <3> QED  BY <1>0, <1>2, <3>1
    <2>2. Playing(q) /\ status = "PLAYING"
      BY <2>1 DEF InGame, Playing
    <2>3. ~InSection(p) /\ ~Joining(p)
      BY <1>2, <2>2, Alone
    <2>4. OuterStep(p)
      BY <1>0, <2>3, StepCases, SectionControl DEF InSection
    <2>5. UNCHANGED status
      BY <2>3, <2>4 DEF OuterStep, Joining, Moves, game, join_test,
         join_tictactoe_game, start_tictactoe_game, player_loop, raise_flag, give_turn,
         spin_flag, spin_turn, lower_flag
    <2> QED  BY <2>2, <2>5
  <1> QED  BY <1>1, <1>2

\* While one player plays, the steps of the other leave it the game and its
\* memory of it.
LEMMA OthersWait ==
    ASSUME IInv, NEW p \in Players, NEW q \in Players, p # q, Playing(q), Step(p)
    PROVE  UNCHANGED << game, locals >>
  <1>0. pc \in [Players -> PC]
    BY DEF IInv, Types
  <1>1. ~InSection(p) /\ ~Joining(p)
    BY Alone DEF IInv
  <1>2. OuterStep(p)
    BY <1>0, <1>1, StepCases, SectionControl DEF InSection
  <1> QED  BY <1>1, <1>2 DEF OuterStep, Joining, Moves, join_test,
         join_tictactoe_game, start_tictactoe_game, player_loop, raise_flag, give_turn,
         spin_flag, spin_turn, lower_flag

\* One cell further in a line: what was read before stays, the lines that were
\* given up are not complete, and after the last one there is none.
LEMMA StepSeen ==
    ASSUME IInv, NEW p \in Players, check_line(p)
    PROVE  /\ LocalsOk(p)'
           /\ pc'[p] = "draw" => ~HasLine("X") /\ ~HasLine("O")
  <1> USE DEF Moves, Goto, game, moveVars
  <1>0. /\ pc \in [Players -> PC] /\ Size \in Nat /\ Size > 0 /\ NumLines \in Nat
        /\ line \in [Players -> Nat] /\ pos \in [Players -> 1 .. Size]
        /\ val \in [Players -> {"blank", "X", "O"}]
    BY BoardSize DEF IInv, Types, LocalTypes
  <1>1. pc[p] = "line" /\ line[p] \in 1 .. NumLines /\ Seen(p)
    BY DEF check_line, IInv, LocalTypes, Remembered, LocalsOk
  <1>2. UNCHANGED grid
    BY DEF check_line
  <1>3. PICK v : v = grid[LineCell(line[p], pos[p])]
    OBVIOUS
  <1>4. v \in {"blank", "X", "O"}
    BY <1>0, <1>1, <1>3, LineCells DEF IInv, Types
  <1>5. /\ \A k : Complete(k)' <=> Complete(k)
        /\ \A m : HasLine(m)' <=> HasLine(m)
    BY <1>2 DEF Complete, HasLine
  <1>6. CASE (pos[p] = 1 /\ v # "blank") \/ (pos[p] # 1 /\ v = val[p])
    <2>1. v \in {"X", "O"} /\ \A i \in 1 .. pos[p] : grid[LineCell(line[p], i)] = v
      BY <1>0, <1>1, <1>3, <1>4, <1>6 DEF Seen
    <2>2. val'[p] = v
      BY <1>0, <1>3, <1>6 DEF check_line
    <2>3. CASE pos[p] = Size
      <3>1. pc'[p] = "won"
        BY <1>0, <1>3, <1>6, <2>3 DEF check_line
      <3>2. HasLine(v)
        BY <1>1, <2>1, <2>3, ReadLine
      <3> QED  BY <1>5, <2>2, <3>1, <3>2 DEF LocalsOk
    <2>4. CASE pos[p] # Size
      <3>1. pc'[p] = "line" /\ line'[p] = line[p] /\ pos'[p] = pos[p] + 1
        BY <1>0, <1>3, <1>6, <2>4 DEF check_line
      <3>2. Seen(p)'
        <4>1. \A k \in 1 .. line'[p] - 1 : ~Complete(k)'
          BY <1>1, <1>5, <3>1 DEF Seen
        <4>2. \A i \in 1 .. pos'[p] - 1 : grid'[LineCell(line'[p], i)] = val'[p]
          BY <1>0, <1>2, <2>1, <2>2, <3>1
        <4> QED  BY <2>1, <2>2, <4>1, <4>2 DEF Seen
      <3> QED  BY <3>1, <3>2 DEF LocalsOk
    <2> QED  BY <2>3, <2>4
  <1>7. CASE ~((pos[p] = 1 /\ v # "blank") \/ (pos[p] # 1 /\ v = val[p]))
    <2>1. ~Complete(line[p])
      <3> SUFFICES ASSUME NEW m \in {"X", "O"},
                          \A i \in 1 .. Size : grid[LineCell(line[p], i)] = m
                   PROVE  FALSE
        BY DEF Complete
      <3>1. v = m /\ pos[p] # 1
        BY <1>0, <1>3, <1>7
      <3>2. 1 \in 1 .. pos[p] - 1 /\ 1 \in 1 .. Size
        BY <1>0, <3>1
      <3>3. val[p] = m
        BY <1>1, <3>2 DEF Seen
      <3> QED  BY <1>7, <3>1, <3>3
    <2>2. \A k \in 1 .. line[p] : ~Complete(k)
      BY <1>0, <1>1, <2>1 DEF Seen
    <2>3. val'[p] = "blank" /\ pos'[p] = 1
      BY <1>0, <1>3, <1>7 DEF check_line
    <2>4. CASE line[p] < NumLines
      <3>1. pc'[p] = "line" /\ line'[p] = line[p] + 1
        BY <1>0, <1>3, <1>7, <2>4 DEF check_line
      <3>2. \A k \in 1 .. line'[p] - 1 : ~Complete(k)'
        BY <1>0, <1>1, <1>5, <2>2, <3>1
      <3>3. Seen(p)'
        BY <2>3, <3>2 DEF Seen
      <3> QED  BY <3>1, <3>3 DEF LocalsOk
    <2>5. CASE ~(line[p] < NumLines)
      <3>1. pc'[p] = "draw"
        BY <1>0, <1>3, <1>7, <2>5 DEF check_line
      <3>2. \A k \in 1 .. NumLines : ~Complete(k)
        BY <1>0, <1>1, <2>2, <2>5
      <3>3. ~HasLine("X") /\ ~HasLine("O")
        BY <3>2, NoneComplete
      <3> QED  BY <2>3, <3>1, <3>3 DEF LocalsOk
    <2> QED  BY <2>4, <2>5
  <1> QED  BY <1>6, <1>7

\* What a player has read of the board is still so when it uses it.
LEMMA StepRemembered ==
    ASSUME IInv, NEW p \in Players, Step(p)
    PROVE  Remembered'
  <1> USE DEF Moves, Goto, game, locals, moveVars, checkVars
  <1> SUFFICES ASSUME NEW q \in Players  PROVE  LocalsOk(q)'
    BY DEF Remembered
  <1>0. pc \in [Players -> PC] /\ LocalsOk(q)
    BY DEF IInv, Types, Remembered
  <1>1. CASE q # p
    <2>1. pc'[q] = pc[q]
      <3>1. pc' = [pc EXCEPT ![p] = pc'[p]]
        BY <1>0, StepCases, SectionControl DEF OuterStep, join_test,
         join_tictactoe_game, start_tictactoe_game, player_loop, raise_flag, give_turn,
         spin_flag, spin_turn, lower_flag
      <3> QED  BY <1>0, <1>1, <3>1
    <2>2. CASE Playing(q)
      <3>1. UNCHANGED << grid, c, move, line, pos, val >>
        BY <1>1, <2>2, OthersWait
      <3>2. Seen(q)' <=> Seen(q)
        BY <3>1 DEF Seen, Complete
      <3>3. HasLine(val[q])' <=> HasLine(val[q])
        BY <3>1 DEF HasLine
      <3> QED  BY <1>0, <2>1, <3>1, <3>2, <3>3 DEF LocalsOk
    <2>3. CASE ~Playing(q)
      BY <2>1, <2>3 DEF Playing, LocalsOk
    <2> QED  BY <2>2, <2>3
  <1>2. CASE q = p
    <2>1. CASE ~Playing(p)'
      BY <1>2, <2>1 DEF Playing, LocalsOk
    <2>2. CASE play_tictactoe(p) \/ play_as_x(p) \/ play_as_o(p) \/ choose_move(p)
      BY <1>0, <1>2, <2>2 DEF play_tictactoe, play_as_x, play_as_o, choose_move, LocalsOk
    <2>3. CASE choose_mark(p)
      BY <1>0, <1>2, <2>3 DEF choose_mark, MarkOf, LocalsOk, IInv, LocalTypes
    <2>4. CASE find_blank(p)
      <3>1. CASE pc'[p] = "write"
        <4>1. PICK cell \in Cell : grid[cell] = "blank" /\ move' = [move EXCEPT ![p] = cell]
          BY <1>0, <2>4, <3>1 DEF find_blank
        <4>2. move'[p] = cell /\ c'[p] \in {"X", "O"} /\ UNCHANGED grid
          BY <1>0, <1>2, <2>4, <4>1 DEF find_blank, LocalsOk, IInv, LocalTypes
        <4> QED  BY <1>2, <3>1, <4>1, <4>2 DEF LocalsOk
      <3>2. CASE pc'[p] # "write"
        BY <1>0, <1>2, <2>4, <3>2 DEF find_blank, LocalsOk
      <3> QED  BY <3>1, <3>2
    <2>5. CASE write_mark(p)
      BY <1>0, <1>2, <2>5 DEF write_mark, LocalsOk
    <2>6. CASE check_for_winner(p)
      <3>1. line[p] = 1 /\ pos[p] = 1 /\ UNCHANGED << line, pos >>
        BY <2>6 DEF check_for_winner, IInv, LocalTypes
      <3>2. Seen(p)'
        BY <3>1 DEF Seen
      <3> QED  BY <1>0, <1>2, <2>6, <3>2 DEF check_for_winner, LocalsOk
    <2>7. CASE check_line(p)
      BY <1>2, <2>7, StepSeen
    <2>8. CASE check_draw(p) \/ assign_test(p)
      <3>1. /\ UNCHANGED << grid, val >> /\ (val[p] = "blank" \/ HasLine(val[p]))
            /\ pc'[p] \in {"leave", "drawn", "draw", "assign"}
        BY <1>0, <1>2, <2>8 DEF check_draw, assign_test, LocalsOk
      <3>2. HasLine(val[p])' <=> HasLine(val[p])
        BY <3>1 DEF HasLine
      <3> QED  BY <1>2, <3>1, <3>2 DEF LocalsOk
    <2>9. CASE assign_winner(p)
      BY <1>0, <1>2, <2>9 DEF assign_winner, LocalsOk
    <2>10. CASE OuterStep(p)
      <3>1. ~Playing(p)'
        BY <1>0, <2>10 DEF OuterStep, Playing, join_test,
         join_tictactoe_game, start_tictactoe_game, player_loop, raise_flag, give_turn,
         spin_flag, spin_turn, lower_flag
      <3> QED  BY <2>1, <3>1
    <2> QED  BY <2>2, <2>3, <2>4, <2>5, <2>6, <2>7, <2>8, <2>9, <2>10, StepCases
           DEF SectionStep
  <1> QED  BY <1>1, <1>2

\* The only step that changes lines ends in "check", and it finds none before.
LEMMA StepLines ==
    ASSUME IInv, NEW p \in Players, Step(p)
    PROVE  LineSeen' /\ WinnerHasLine'
  <1> USE DEF Moves, Goto, game
  <1>0. Types /\ Peterson /\ Phases /\ InGame /\ LineSeen /\ WinnerHasLine
    BY DEF IInv
  <1>1. CASE start_tictactoe_game(p)
    <2>1. (grid = Blank)' /\ status' = "READY"
      BY <1>1 DEF start_tictactoe_game, Blank
    <2>2. \A m \in {"X", "O"} : ~HasLine(m)'
      BY <2>1, LinesNonempty DEF HasLine, Blank
    <2> QED  BY <2>1, <2>2 DEF LineSeen, WinnerHasLine
  <1>2. CASE join_tictactoe_game(p)
    <2>1. grid = Blank /\ UNCHANGED grid /\ status' = "PLAYING"
      BY <1>0, <1>2 DEF join_tictactoe_game, Phases
    <2>2. \A m \in {"X", "O"} : ~HasLine(m) /\ ~HasLine(m)'
      BY <2>1, BlankHasNoLine DEF HasLine
    <2> QED  BY <2>1, <2>2 DEF LineSeen, WinnerHasLine
  <1>3. CASE write_mark(p)
    <2>1. /\ pc[p] = "write" /\ status = "PLAYING"
          /\ c[p] \in {"X", "O"} /\ move[p] \in Cell
          /\ grid' = [grid EXCEPT ![move[p]] = c[p]]
      BY <1>0, <1>3 DEF write_mark, IInv, InGame, Playing, Remembered, LocalsOk
    <2>2. \A q \in Players : ~Checking(q)
      <3> SUFFICES ASSUME NEW q \in Players, Checking(q) PROVE FALSE
        OBVIOUS
      <3>1. p # q /\ Playing(q) /\ InSection(p)
        BY <2>1 DEF Checking, Playing, InSection
      <3> QED  BY <1>0, <3>1, Alone
    <2>3. ~HasLine("X") /\ ~HasLine("O")
      BY <1>0, <2>1, <2>2 DEF LineSeen
    <2>4. ~(HasLine("X") /\ HasLine("O"))'
      BY <1>0, <2>1, <2>3, MarkKeepsLines DEF Types
    <2>5. Checking(p)' /\ status' = "PLAYING"
      BY <1>0, <1>3, <2>1 DEF write_mark, Checking, Types
    <2> QED  BY <2>4, <2>5 DEF LineSeen, WinnerHasLine
  <1>4. CASE assign_winner(p)
    <2>1. /\ UNCHANGED << grid, player_x, player_o >> /\ status' = "DONE"
          /\ \A m : HasLine(m)' <=> HasLine(m)
          /\ \A q : MarkOf(q)' = MarkOf(q)
      BY <1>4 DEF assign_winner, HasLine, MarkOf
    <2>2. /\ status = "PLAYING" /\ winner = NoPid /\ TwoInGame
          /\ val[p] \in {"blank", "X", "O"} /\ (val[p] = "blank" \/ HasLine(val[p]))
      BY <1>0, <1>4 DEF assign_winner, IInv, InGame, Playing, Phases, LocalTypes,
                        Remembered, LocalsOk
    <2>3. winner' # NoPid => HasLine(MarkOf(winner'))
      BY <1>4, <2>2 DEF assign_winner, MarkOf, TwoInGame
    <2> QED  BY <1>0, <2>1, <2>3 DEF LineSeen, WinnerHasLine
  <1>5. ASSUME UNCHANGED game, pc' = [pc EXCEPT ![p] = pc'[p]],
               ~Checking(p) \/ Checking(p)'
                   \/ (status = "PLAYING" => ~HasLine("X") /\ ~HasLine("O"))
        PROVE  LineSeen' /\ WinnerHasLine'
    <2>1. \A q \in Players : q # p => (Checking(q)' <=> Checking(q))
      BY <1>0, <1>5 DEF Types, Checking
    <2>2. /\ \A m : HasLine(m)' <=> HasLine(m)
          /\ \A q : MarkOf(q)' = MarkOf(q)
      BY <1>5 DEF HasLine, MarkOf
    <2>3. \A m \in {"X", "O"} : status # "DONE" /\ HasLine(m) =>
              status = "PLAYING" /\ \E q \in Players : Checking(q)'
      BY <1>0, <1>5, <2>1 DEF LineSeen
    <2>4. LineSeen'
      BY <1>0, <1>5, <2>2, <2>3 DEF LineSeen
    <2>5. WinnerHasLine'
      BY <1>0, <1>5, <2>2 DEF WinnerHasLine
    <2> QED  BY <2>4, <2>5
  <1>6. CASE join_test(p) \/ player_loop(p) \/ raise_flag(p) \/ give_turn(p)
             \/ spin_flag(p) \/ spin_turn(p) \/ lower_flag(p)
    BY <1>0, <1>5, <1>6 DEF join_test, player_loop, raise_flag, give_turn, spin_flag,
       spin_turn, lower_flag, Types, Checking
  <1>7. CASE play_tictactoe(p) \/ play_as_x(p) \/ play_as_o(p)
             \/ choose_move(p) \/ choose_mark(p) \/ find_blank(p) \/ check_draw(p)
    <2>1. UNCHANGED game /\ ~Checking(p)
      BY <1>7 DEF play_tictactoe, play_as_x, play_as_o, choose_move, choose_mark,
                  find_blank, check_draw, Checking
    <2>2. pc' = [pc EXCEPT ![p] = pc'[p]]
      BY <1>0, <1>7, SectionControl DEF SectionStep, Types
    <2> QED  BY <1>5, <2>1, <2>2
  <1>8. CASE check_for_winner(p) \/ assign_test(p)
    <2>1. status = "PLAYING"
      BY <1>0, <1>8 DEF check_for_winner, assign_test, InGame, Playing
    <2>2. UNCHANGED game /\ Checking(p)' /\ pc' = [pc EXCEPT ![p] = pc'[p]]
      BY <1>0, <1>8, <2>1 DEF check_for_winner, assign_test, Types, Checking
    <2> QED  BY <1>5, <2>2
  <1>9. CASE check_line(p)
    <2>1. UNCHANGED game /\ pc' = [pc EXCEPT ![p] = pc'[p]]
          /\ pc'[p] \in {"won", "line", "draw"}
      BY <1>0, <1>9 DEF check_line, Types
    <2>2. Checking(p)' \/ (~HasLine("X") /\ ~HasLine("O"))
      BY <1>9, <2>1, StepSeen DEF Checking
    <2> QED  BY <1>5, <2>1, <2>2
  <1> QED  BY <1>1, <1>2, <1>3, <1>4, <1>6, <1>7, <1>8, <1>9 DEF Step

LEMMA NextIInv == IInv /\ [Next]_vars => IInv'
  <1> SUFFICES ASSUME IInv, [Next]_vars PROVE IInv'
    OBVIOUS
  <1>1. CASE UNCHANGED vars
    <2> USE <1>1 DEF vars, game, locals, moveVars, checkVars, IInv
    <2>1. Types' /\ Peterson'
      BY ZenonT(60) DEF Types, Peterson, Index, Waiting, InSection, Playing, Joining
    <2>2. Phases' /\ InGame'
      BY DEF Phases, TwoInGame, InGame, Playing
    <2>3. LineSeen' /\ WinnerHasLine'
      BY DEF LineSeen, WinnerHasLine, Checking, HasLine, MarkOf
    <2>4. LocalTypes'
      BY DEF LocalTypes
    <2>5. Remembered'
      BY DEF Remembered, LocalsOk, Seen, Complete, HasLine
    <2> QED  BY <2>1, <2>2, <2>3, <2>4, <2>5
  <1>2. ASSUME NEW p \in Players, Step(p) PROVE IInv'
    BY <1>2, StepTypes, StepLocalTypes, StepPeterson, StepPhases, StepInGame,
       StepRemembered, StepLines DEF IInv
  <1> QED  BY <1>1, <1>2 DEF Next, Finished

(***************************************************************************)
(* The inductive invariant holds in every behaviour of peterson.c and      *)
(* tictactoe.c: the flags and the turn say where the two players are, and  *)
(* a player that announces a line has seen it on the board.                *)
(***************************************************************************)
THEOREM IInvCorrect == Spec => []IInv
  BY InitIInv, NextIInv, PTL DEF Spec

(***************************************************************************)
(* Peterson's algorithm (peterson.c) excludes: two players that joined     *)
(* with different marks are never both in the critical section.            *)
(***************************************************************************)
THEOREM SectionsExclude == Spec => []ExclusionByMark
  <1>1. IInv => ExclusionByMark
    BY SectionExcludes DEF IInv, ExclusionByMark
  <1> QED  BY <1>1, IInvCorrect, PTL

(***************************************************************************)
(* check_for_winner (tictactoe.c) announces a player with a line of his    *)
(* own marks, and never do both players have one: nobody moves between the *)
(* move that completes a line and the announcement.                        *)
(***************************************************************************)
THEOREM WinnerCorrect == Spec => []WinnerHasLine
  <1>1. IInv => WinnerHasLine
    BY DEF IInv
  <1> QED  BY <1>1, IInvCorrect, PTL

\* What GameKept says of one step.
KeepsGame ==
    /\ status' \in {"PLAYING", "DONE"}
    /\ player_x' = player_x /\ player_o' = player_o
    /\ \A cell \in Cell : grid[cell] # "blank" => grid'[cell] = grid[cell]
    /\ Cardinality({cell \in Cell : grid'[cell] # grid[cell]}) <= 1

LEMMA StepKeepsGame ==
    ASSUME IInv, status = "PLAYING", NEW p \in Players, Step(p)
    PROVE  KeepsGame
  <1> USE DEF Moves, Goto, game
  <1>0. Types /\ Phases
    BY DEF IInv
  <1>1. ASSUME UNCHANGED << grid, player_x, player_o >>, status' \in {"PLAYING", "DONE"}
        PROVE  KeepsGame
    <2>1. {cell \in Cell : grid'[cell] # grid[cell]} = {}
      BY <1>1
    <2>2. Cardinality({}) = 0
      BY FS_EmptySet
    <2> QED  BY <1>1, <2>1, <2>2 DEF KeepsGame
  <1>2. CASE write_mark(p)
    <2>1. PICK cell \in Cell : /\ cell = move[p] /\ grid[cell] = "blank"
                               /\ grid' = [grid EXCEPT ![cell] = c[p]]
      BY <1>2 DEF write_mark, IInv, Remembered, LocalsOk
    <2>2. {d \in Cell : grid'[d] # grid[d]} \in SUBSET {cell}
      BY <1>0, <2>1 DEF Types
    <2>3. IsFiniteSet({cell}) /\ Cardinality({cell}) = 1
      BY FS_Singleton
    <2>4. Cardinality({d \in Cell : grid'[d] # grid[d]}) <= 1
      BY <2>2, <2>3, FS_Subset
    <2>5. \A d \in Cell : grid[d] # "blank" => grid'[d] = grid[d]
      BY <1>0, <2>1 DEF Types
    <2>6. UNCHANGED << status, player_x, player_o >>
      BY <1>2 DEF write_mark
    <2> QED  BY <2>4, <2>5, <2>6 DEF KeepsGame
  <1>3. CASE assign_winner(p)
    BY <1>1, <1>3 DEF assign_winner
  <1>4. ~start_tictactoe_game(p) /\ ~join_tictactoe_game(p)
    <2>1. Players = {player_x, player_o} /\ mark[player_x] = "X" /\ mark[player_o] = "O"
      BY <1>0, TwoPlayers DEF Phases, TwoInGame
    <2>2. mark[p] # "none"
      BY <2>1
    <2> QED  BY <1>0, <2>2 DEF start_tictactoe_game, join_tictactoe_game, Types, Joining
  <1>5. CASE UNCHANGED game
    BY <1>1, <1>5
  <1>6. CASE OuterStep(p)
    BY <1>4, <1>5, <1>6 DEF OuterStep, join_test, player_loop, raise_flag, give_turn,
       spin_flag, spin_turn, lower_flag
  <1> QED  BY <1>2, <1>3, <1>5, <1>6, StepCases, SectionGame

(***************************************************************************)
(* Peterson's algorithm alone keeps choose_move (tictactoe.c) from writing *)
(* to a cell that was filled since it was found blank, and the end of a    *)
(* game from coming in between: a game in progress keeps its players until *)
(* it is done, and no mark is overwritten, for every size of the board.    *)
(***************************************************************************)
THEOREM GameCorrect == Spec => GameKept
  <1>1. IInv /\ [Next]_vars => [status = "PLAYING" => KeepsGame]_vars
    <2> SUFFICES ASSUME IInv, status = "PLAYING", Next, ~UNCHANGED vars PROVE KeepsGame
      OBVIOUS
    <2> QED  BY StepKeepsGame DEF Next, Finished
  <1> QED  BY <1>1, IInvCorrect, PTL DEF Spec, GameKept, KeepsGame

=============================================================================
