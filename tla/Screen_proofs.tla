---------------------------- MODULE Screen_proofs ----------------------------
(* Theorems about Screen, for every size of the screen and every line that  *)
(* fits it: the cursor stays on the screen, nothing stale stands behind it, *)
(* and the line being edited is displayed right before it.                  *)
EXTENDS Screen, NatFacts, SequenceTheorems

-----------------------------------------------------------------------------
(* Rows and cells.                                                          *)

\* The offset of the last row.
Bottom == Size - NUM_COLS

\* The sizes are numbers, and a line fits above the last row.
LEMMA Sizes ==
  /\ NUM_COLS \in Nat /\ NUM_COLS >= 2 /\ NUM_ROWS \in Nat /\ NUM_ROWS >= 1
  /\ Size \in Nat /\ Bottom = NUM_COLS * (NUM_ROWS - 1) /\ Bottom \in Nat
  /\ MaxLine \in Nat /\ MaxLine <= Bottom
<1>1. NUM_COLS \in Nat /\ NUM_COLS >= 2 /\ NUM_ROWS \in Nat /\ NUM_ROWS >= 1 /\ MaxLine \in Nat
      /\ MaxLine <= (NUM_ROWS - 1) * NUM_COLS
  BY ScreenAssumption
<1>2. (NUM_ROWS - 1) * NUM_COLS = NUM_ROWS * NUM_COLS - NUM_COLS
      /\ NUM_COLS * (NUM_ROWS - 1) = NUM_ROWS * NUM_COLS - NUM_COLS
      /\ NUM_ROWS * NUM_COLS \in Nat /\ NUM_COLS * (NUM_ROWS - 1) \in Nat
  BY <1>1
<1>. QED  BY <1>1, <1>2 DEF Size, Bottom

\* A larger factor gives a larger product.
LEMMA Grows ==
  ASSUME NEW a \in Nat, NEW b \in Nat, a <= b
  PROVE  NUM_COLS * a \in Nat /\ NUM_COLS * b \in Nat /\ NUM_COLS * a <= NUM_COLS * b
<1>1. NUM_COLS \in Nat
  BY Sizes
<1>2. PICK d \in Nat : b = a + d
  <2>1. b - a \in Nat /\ b = a + (b - a)
    OBVIOUS
  <2>. QED  BY <2>1
<1>3. NUM_COLS * (a + d) = NUM_COLS * a + NUM_COLS * d
  BY <1>1
<1>4. NUM_COLS * d \in Nat /\ NUM_COLS * a \in Nat /\ NUM_COLS * b \in Nat
  BY <1>1
<1>. QED  BY <1>2, <1>3, <1>4

\* Every row lies within video memory, and the next one begins where it ends.
LEMMA RowsFit ==
  ASSUME NEW y \in 0..(NUM_ROWS - 1)
  PROVE  /\ NUM_COLS * y \in Nat
         /\ NUM_COLS * (y + 1) = NUM_COLS * y + NUM_COLS
         /\ y + 1 < NUM_ROWS => NUM_COLS * y + NUM_COLS <= Bottom
         /\ y + 1 >= NUM_ROWS => y = NUM_ROWS - 1 /\ NUM_COLS * y = Bottom
         /\ y >= 1 => NUM_COLS * y >= NUM_COLS
<1>1. NUM_COLS \in Nat /\ NUM_ROWS \in Nat /\ NUM_ROWS >= 1 /\ y \in Nat /\ y <= NUM_ROWS - 1
  BY Sizes
<1>2. NUM_COLS * y \in Nat
  BY <1>1
<1>3. NUM_COLS * (y + 1) = NUM_COLS * y + NUM_COLS
  BY <1>1
<1>4. ASSUME y + 1 < NUM_ROWS PROVE NUM_COLS * y + NUM_COLS <= Bottom
  <2>1. y + 1 \in Nat /\ NUM_ROWS - 1 \in Nat /\ y + 1 <= NUM_ROWS - 1
    BY <1>1, <1>4
  <2>2. NUM_COLS * (y + 1) <= NUM_COLS * (NUM_ROWS - 1)
    BY <2>1, Grows
  <2>. QED  BY <1>3, <2>2, Sizes
<1>5. ASSUME y + 1 >= NUM_ROWS PROVE y = NUM_ROWS - 1 /\ NUM_COLS * y = Bottom
  <2>1. y = NUM_ROWS - 1
    BY <1>1, <1>5
  <2>. QED  BY <2>1, Sizes
<1>6. ASSUME y >= 1 PROVE NUM_COLS * y >= NUM_COLS
  <2>1. NUM_COLS * 1 <= NUM_COLS * y
    BY <1>1, <1>6, Grows
  <2>. QED  BY <1>1, <2>1
<1>. QED  BY <1>2, <1>3, <1>4, <1>5, <1>6

\* The fields of a screen.
LEMMA Fields ==
  ASSUME NEW s \in Screens
  PROVE  /\ s.cells \in [0..(Size - 1) -> Glyphs]
         /\ s.x \in Int /\ s.x > -NUM_COLS /\ s.x < NUM_COLS
         /\ s.y \in 0..(NUM_ROWS - 1) /\ s.y \in Nat
         /\ Pos(s) \in Int /\ Pos(s) = NUM_COLS * s.y + s.x /\ Pos(s) < Size
<1>1. s.cells \in [0..(Size - 1) -> Glyphs] /\ s.x \in (1 - NUM_COLS)..(NUM_COLS - 1)
      /\ s.y \in 0..(NUM_ROWS - 1)
  BY DEF Screens
<1>2. PICK m : m = NUM_COLS * s.y
  OBVIOUS
<1>3. m \in Nat /\ m <= Bottom
  BY <1>1, <1>2, RowsFit, Sizes
<1>4. Pos(s) = m + s.x
  BY <1>2 DEF Pos
<1>5. s.x \in Int /\ s.x > -NUM_COLS /\ s.x < NUM_COLS
  BY <1>1, Sizes
<1>6. m + s.x \in Int /\ m + s.x < Size
  BY <1>3, <1>5, Sizes DEF Bottom
<1>. QED  BY <1>1, <1>2, <1>4, <1>5, <1>6, Sizes

\* A screen is given by its fields.
LEMMA ScreenOf ==
  ASSUME NEW cells \in [0..(Size - 1) -> Glyphs], NEW x \in Int, x > -NUM_COLS, x < NUM_COLS,
         NEW y \in 0..(NUM_ROWS - 1),
         NEW t, t = [cells |-> cells, x |-> x, y |-> y]
  PROVE  t \in Screens /\ t.cells = cells /\ t.x = x /\ t.y = y /\ Pos(t) = NUM_COLS * y + x
<1>1. x \in (1 - NUM_COLS)..(NUM_COLS - 1)
  BY Sizes
<1>. QED  BY <1>1 DEF Screens, Pos

\* A cursor at the beginning of a row.
LEMMA RowStart ==
  ASSUME NEW cells \in [0..(Size - 1) -> Glyphs], NEW y \in 0..(NUM_ROWS - 1),
         NEW t, t = [cells |-> cells, x |-> 0, y |-> y]
  PROVE  t \in Screens /\ t.cells = cells /\ t.x = 0 /\ t.y = y /\ Pos(t) = NUM_COLS * y + 0
<1>1. 0 \in (1 - NUM_COLS)..(NUM_COLS - 1)
  BY Sizes
<1>. QED  BY <1>1 DEF Screens, Pos

\* Scrolled cells are cells.
LEMMA ScrolledCells ==
  ASSUME NEW cells \in [0..(Size - 1) -> Glyphs]
  PROVE  /\ Scrolled(cells) \in [0..(Size - 1) -> Glyphs]
         /\ \A k \in 0..(Size - 1) :
               Scrolled(cells)[k] = IF k < Bottom THEN cells[k + NUM_COLS] ELSE SPACE
<1>1. SPACE \in Glyphs
  BY DEF Glyphs, Blanks
<1>2. ASSUME NEW k \in 0..(Size - 1), k < Bottom PROVE k + NUM_COLS \in 0..(Size - 1)
  BY <1>2, Sizes DEF Bottom
<1>3. Scrolled(cells) = [k \in 0..(Size - 1) |-> IF k < Bottom THEN cells[k + NUM_COLS] ELSE SPACE]
  BY DEF Scrolled, Bottom
<1>. QED  BY <1>1, <1>2, <1>3

-----------------------------------------------------------------------------
(* putc and backspace.                                                      *)

\* The screens with the cursor not in front of video memory.
OnScreen == {s \in Screens : Pos(s) >= 0}

\* The cells after a character is written at the cursor.
CellsWith(s, c) == [s.cells EXCEPT ![Pos(s)] = c]

\* Writing at the cursor changes the cell under it and nothing else.
LEMMA WrittenChanges ==
  ASSUME NEW s \in OnScreen, NEW c \in Glyphs
  PROVE  /\ CellsWith(s, c) \in [0..(Size - 1) -> Glyphs]
         /\ Written(s, c) = [cells |-> CellsWith(s, c), x |-> s.x, y |-> s.y]
<1>1. s \in Screens /\ Pos(s) >= 0
  BY DEF OnScreen
<1>2. Pos(s) \in 0..(Size - 1) /\ s.cells \in [0..(Size - 1) -> Glyphs]
  BY <1>1, Fields, Sizes
<1>3. CellsWith(s, c) \in [0..(Size - 1) -> Glyphs]
  BY <1>2 DEF CellsWith
<1>4. Written(s, c) = [s EXCEPT !.cells = CellsWith(s, c)]
  BY <1>2 DEF Written, CellsWith
<1>5. [s EXCEPT !.cells = CellsWith(s, c)] = [cells |-> CellsWith(s, c), x |-> s.x, y |-> s.y]
  BY <1>1 DEF Screens
<1>. QED  BY <1>3, <1>4, <1>5

\* What putc does with a character other than the newline and NUL.
PutChar(s, c, t) ==
  /\ t \in OnScreen
  /\ t.x = IF s.x + 1 < NUM_COLS THEN s.x + 1 ELSE 0
  /\ t.y >= s.y
  /\ \/ /\ t.cells = CellsWith(s, c) /\ Pos(t) = Pos(s) + 1
     \/ /\ t.cells = Scrolled(CellsWith(s, c)) /\ Pos(t) = Bottom /\ Pos(s) + 1 = Size

\* A character is written under the cursor, which moves on by one cell; past the last
\* cell everything moves up by a row.
LEMMA PutcChar ==
  ASSUME NEW s \in OnScreen, NEW c \in Glyphs, c # NL, c # NUL
  PROVE  PutChar(s, c, putc(s, c))
<1>1. s \in Screens /\ Pos(s) >= 0
  BY DEF OnScreen
<1>2. PICK x, y, cells : x = s.x /\ y = s.y /\ cells = CellsWith(s, c)
  OBVIOUS
<1>3. x \in Int /\ x > -NUM_COLS /\ x < NUM_COLS /\ y \in 0..(NUM_ROWS - 1)
      /\ Pos(s) = NUM_COLS * y + x /\ cells \in [0..(Size - 1) -> Glyphs]
  BY <1>1, <1>2, Fields, WrittenChanges
<1>4. Advanced(s, c) = [cells |-> cells, x |-> x + 1, y |-> y]
  <2>1. Written(s, c) = [cells |-> cells, x |-> x, y |-> y]
    BY <1>2, WrittenChanges
  <2>. QED  BY <2>1 DEF Advanced
<1>5. PICK m : m = NUM_COLS * y
  OBVIOUS
<1>6. m \in Nat /\ NUM_COLS * (y + 1) = m + NUM_COLS
      /\ (y + 1 < NUM_ROWS => m + NUM_COLS <= Bottom)
      /\ (y + 1 >= NUM_ROWS => y = NUM_ROWS - 1 /\ m = Bottom)
  BY <1>3, <1>5, RowsFit
<1>7. CASE x + 1 < NUM_COLS
  <2>1. putc(s, c) = [cells |-> cells, x |-> x + 1, y |-> y]
    <3>1. WrapRow(Advanced(s, c)) = [cells |-> cells, x |-> x + 1, y |-> y]
      BY <1>3, <1>4, <1>7, Sizes DEF WrapRow
    <3>2. ~(y >= NUM_ROWS)
      BY <1>3, Sizes
    <3>. QED  BY <3>1, <3>2 DEF putc, ScrollRow
  <2>2. x + 1 \in Int /\ x + 1 > -NUM_COLS
    BY <1>3, Sizes
  <2>3. putc(s, c) \in Screens /\ putc(s, c).cells = cells /\ putc(s, c).x = x + 1
        /\ putc(s, c).y = y /\ Pos(putc(s, c)) = m + (x + 1)
    BY <1>3, <1>5, <1>7, <2>1, <2>2, ScreenOf
  <2>4. Pos(putc(s, c)) = Pos(s) + 1 /\ Pos(putc(s, c)) >= 0
    BY <1>1, <1>3, <1>5, <1>6, <2>3
  <2>. QED  BY <1>2, <1>3, <1>7, <2>3, <2>4 DEF PutChar, OnScreen
<1>8. CASE ~(x + 1 < NUM_COLS)
  <2>1. x + 1 = NUM_COLS
    BY <1>3, <1>8, Sizes
  <2>2. WrapRow(Advanced(s, c)) = [cells |-> cells, x |-> 0, y |-> y + 1]
    <3>1. PICK a : a = [cells |-> cells, x |-> x + 1, y |-> y]
      OBVIOUS
    <3>2. a.x >= NUM_COLS /\ [a EXCEPT !.x = 0, !.y = @ + 1] = [cells |-> cells, x |-> 0, y |-> y + 1]
      <4>1. a.x = NUM_COLS
        BY <2>1, <3>1
      <4>2. [a EXCEPT !.x = 0, !.y = @ + 1] = [cells |-> cells, x |-> 0, y |-> y + 1]
        <5>1. PICK b : b = [a EXCEPT !.x = 0]
          OBVIOUS
        <5>2. b = [cells |-> cells, x |-> 0, y |-> y] /\ a.y = y
          BY <3>1, <5>1
        <5>3. [b EXCEPT !.y = y + 1] = [cells |-> cells, x |-> 0, y |-> y + 1]
          BY <5>2
        <5>. QED  BY <5>1, <5>2, <5>3
      <4>. QED  BY <4>1, <4>2, Sizes
    <3>3. WrapRow(a) = [a EXCEPT !.x = 0, !.y = @ + 1]
      BY <3>2 DEF WrapRow
    <3>. QED  BY <1>4, <3>1, <3>2, <3>3
  <2>3. CASE y + 1 < NUM_ROWS
    <3>1. y + 1 \in 0..(NUM_ROWS - 1) /\ ~(y + 1 >= NUM_ROWS)
      BY <1>3, <2>3, Sizes
    <3>2. putc(s, c) = [cells |-> cells, x |-> 0, y |-> y + 1]
      BY <2>2, <3>1 DEF putc, ScrollRow
    <3>3. putc(s, c) \in Screens /\ putc(s, c).cells = cells /\ putc(s, c).x = 0
          /\ putc(s, c).y = y + 1 /\ Pos(putc(s, c)) = NUM_COLS * (y + 1) + 0
      BY <1>3, <3>1, <3>2, RowStart, Zenon
    <3>4. Pos(putc(s, c)) = Pos(s) + 1 /\ Pos(putc(s, c)) >= 0
      <4>1. Pos(putc(s, c)) = m + NUM_COLS
        BY <1>6, <3>3, Sizes
      <4>2. Pos(s) = m + x
        BY <1>3, <1>5
      <4>. QED  BY <1>3, <1>6, <2>1, <4>1, <4>2, Sizes
    <3>. QED  BY <1>2, <1>3, <1>8, <3>3, <3>4 DEF PutChar, OnScreen
  <2>4. CASE ~(y + 1 < NUM_ROWS)
    <3>1. y + 1 >= NUM_ROWS /\ NUM_ROWS - 1 \in 0..(NUM_ROWS - 1)
      BY <1>3, <2>4, Sizes
    <3>2. putc(s, c) = [cells |-> Scrolled(cells), x |-> 0, y |-> NUM_ROWS - 1]
      BY <2>2, <3>1 DEF putc, ScrollRow
    <3>3. putc(s, c) \in Screens /\ putc(s, c).cells = Scrolled(cells) /\ putc(s, c).x = 0
          /\ putc(s, c).y = NUM_ROWS - 1 /\ Pos(putc(s, c)) = NUM_COLS * (NUM_ROWS - 1) + 0
      BY <1>3, <3>1, <3>2, ScreenOf, ScrolledCells, Sizes
    <3>4. Pos(putc(s, c)) = Bottom /\ Pos(putc(s, c)) >= 0
      BY <3>3, Sizes
    <3>5. Pos(s) + 1 = Size
      BY <1>3, <1>5, <1>6, <2>1, <3>1, Sizes DEF Bottom
    <3>6. putc(s, c).y >= s.y
      BY <1>2, <1>6, <3>1, <3>3, Sizes
    <3>. QED  BY <1>2, <1>3, <1>8, <3>3, <3>4, <3>5, <3>6 DEF PutChar, OnScreen
  <2>. QED  BY <2>3, <2>4
<1>. QED  BY <1>7, <1>8

\* What putc does with the newline.
PutNewline(s, t) ==
  /\ t \in OnScreen
  /\ t.x = 0
  /\ t.y >= s.y
  /\ \/ t.cells = s.cells /\ Pos(t) > Pos(s) /\ t.y >= 1
     \/ t.cells = Scrolled(s.cells) /\ Pos(t) = Bottom /\ t.y = NUM_ROWS - 1

\* The newline moves the cursor to the beginning of the next row, or moves everything up.
LEMMA PutcNewline ==
  ASSUME NEW s \in Screens
  PROVE  PutNewline(s, putc(s, NL))
<1>1. s \in Screens
  OBVIOUS
<1>2. PICK x, y, cells : x = s.x /\ y = s.y /\ cells = s.cells
  OBVIOUS
<1>3. x \in Int /\ x > -NUM_COLS /\ x < NUM_COLS /\ y \in 0..(NUM_ROWS - 1)
      /\ Pos(s) = NUM_COLS * y + x /\ cells \in [0..(Size - 1) -> Glyphs]
  BY <1>1, <1>2, Fields
<1>4. Advanced(s, NL) = [cells |-> cells, x |-> 0, y |-> y + 1] /\ NL # NUL
  BY <1>1, <1>2 DEF Advanced, Screens, NL, NUL
<1>5. PICK m : m = NUM_COLS * y
  OBVIOUS
<1>6. m \in Nat /\ NUM_COLS * (y + 1) = m + NUM_COLS
      /\ (y + 1 < NUM_ROWS => m + NUM_COLS <= Bottom)
      /\ (y + 1 >= NUM_ROWS => y = NUM_ROWS - 1 /\ m = Bottom)
  BY <1>3, <1>5, RowsFit
<1>7. WrapRow(Advanced(s, NL)) = [cells |-> cells, x |-> 0, y |-> y + 1]
  <2>1. ~(Advanced(s, NL).x >= NUM_COLS)
    BY <1>4, Sizes
  <2>. QED  BY <1>4, <2>1 DEF WrapRow
<1>8. CASE y + 1 < NUM_ROWS
  <2>1. y + 1 \in 0..(NUM_ROWS - 1) /\ ~(y + 1 >= NUM_ROWS)
    BY <1>3, <1>8, Sizes
  <2>2. putc(s, NL) = [cells |-> cells, x |-> 0, y |-> y + 1]
    BY <1>4, <1>7, <2>1 DEF putc, ScrollRow
  <2>3. putc(s, NL) \in Screens /\ putc(s, NL).cells = cells /\ putc(s, NL).x = 0
        /\ putc(s, NL).y = y + 1 /\ Pos(putc(s, NL)) = NUM_COLS * (y + 1) + 0
    BY <1>3, <2>1, <2>2, RowStart, Zenon
  <2>4. Pos(putc(s, NL)) > Pos(s) /\ Pos(putc(s, NL)) >= 0
    <3>1. Pos(putc(s, NL)) = m + NUM_COLS
      BY <1>6, <2>3, Sizes
    <3>2. Pos(s) = m + x
      BY <1>3, <1>5
    <3>. QED  BY <1>3, <1>6, <3>1, <3>2, Sizes
  <2>. QED  BY <1>2, <1>3, <2>3, <2>4 DEF PutNewline, OnScreen
<1>9. CASE ~(y + 1 < NUM_ROWS)
  <2>1. y + 1 >= NUM_ROWS /\ NUM_ROWS - 1 \in 0..(NUM_ROWS - 1)
    BY <1>3, <1>9, Sizes
  <2>2. putc(s, NL) = [cells |-> Scrolled(cells), x |-> 0, y |-> NUM_ROWS - 1]
    BY <1>4, <1>7, <2>1 DEF putc, ScrollRow
  <2>3. putc(s, NL) \in Screens /\ putc(s, NL).cells = Scrolled(cells) /\ putc(s, NL).x = 0
        /\ putc(s, NL).y = NUM_ROWS - 1 /\ Pos(putc(s, NL)) = NUM_COLS * (NUM_ROWS - 1) + 0
    BY <1>3, <2>1, <2>2, ScreenOf, ScrolledCells, Sizes
  <2>4. Pos(putc(s, NL)) = Bottom /\ Pos(putc(s, NL)) >= 0
    BY <2>3, Sizes
  <2>5. putc(s, NL).y >= s.y
    BY <1>2, <1>6, <2>1, <2>3, Sizes
  <2>. QED  BY <1>2, <2>3, <2>4, <2>5 DEF PutNewline, OnScreen
<1>. QED  BY <1>8, <1>9

\* What backspace does.
Backspaced(s, t) ==
  /\ t \in Screens
  /\ t.y = s.y
  /\ IF s.x = 1 - NUM_COLS THEN t.x = 0 /\ Pos(t) = Pos(s) + NUM_COLS - 1
                           ELSE t.x = s.x - 1 /\ Pos(t) = Pos(s) - 1
  /\ Pos(t) >= 0 => t.cells = [s.cells EXCEPT ![Pos(t)] = NUL]
  /\ ~(Pos(t) >= 0) => t.cells = s.cells

\* The cursor goes back by one cell, over the beginning of the row as well, until the
\* column would be negative by a whole row; the cell under the cursor is then blanked.
LEMMA BackspaceMoves ==
  ASSUME NEW s \in Screens
  PROVE  Backspaced(s, backspace(s))
<1>1. PICK x, y, cells : x = s.x /\ y = s.y /\ cells = s.cells
  OBVIOUS
<1>2. x \in Int /\ x > -NUM_COLS /\ x < NUM_COLS /\ y \in 0..(NUM_ROWS - 1)
      /\ Pos(s) = NUM_COLS * y + x /\ cells \in [0..(Size - 1) -> Glyphs]
  BY <1>1, Fields
<1>3. PICK z : z = ColumnBefore(x)
  OBVIOUS
<1>4. /\ z \in Int /\ z > -NUM_COLS /\ z < NUM_COLS
      /\ IF x = 1 - NUM_COLS THEN z = 0 ELSE z = x - 1
  BY <1>2, <1>3, Sizes DEF ColumnBefore, Rem
<1>5. PICK r : r = [s EXCEPT !.x = ColumnBefore(@)]
  OBVIOUS
<1>6. r = [cells |-> cells, x |-> z, y |-> y]
  BY <1>1, <1>3, <1>5 DEF Screens
<1>7. r \in Screens /\ r.cells = cells /\ r.x = z /\ r.y = y /\ Pos(r) = NUM_COLS * y + z
  BY <1>2, <1>4, <1>6, ScreenOf
<1>8. NUM_COLS * y \in Nat
  BY <1>2, RowsFit
<1>9. IF x = 1 - NUM_COLS THEN z = 0 /\ Pos(r) = Pos(s) + NUM_COLS - 1
                          ELSE z = x - 1 /\ Pos(r) = Pos(s) - 1
  <2>1. PICK m : m = NUM_COLS * y
    OBVIOUS
  <2>2. m \in Nat /\ Pos(s) = m + x /\ Pos(r) = m + z
    BY <1>2, <1>7, <1>8, <2>1, Zenon
  <2>. QED  BY <1>2, <1>4, <2>2, Sizes
<1>10. backspace(s) = Written(r, NUL)
  BY <1>5 DEF backspace
<1>11. CASE Pos(r) >= 0
  <2>1. r \in OnScreen /\ NUL \in Glyphs
    BY <1>7, <1>11 DEF OnScreen, Glyphs, Blanks
  <2>2. CellsWith(r, NUL) \in [0..(Size - 1) -> Glyphs]
        /\ backspace(s) = [cells |-> CellsWith(r, NUL), x |-> z, y |-> y]
    BY <1>7, <1>10, <2>1, WrittenChanges
  <2>3. backspace(s) \in Screens /\ backspace(s).cells = CellsWith(r, NUL) /\ backspace(s).x = z
        /\ backspace(s).y = y /\ Pos(backspace(s)) = Pos(r)
    BY <1>2, <1>4, <1>7, <2>2, ScreenOf
  <2>4. backspace(s).cells = [s.cells EXCEPT ![Pos(backspace(s))] = NUL]
    BY <1>1, <1>7, <2>3 DEF CellsWith
  <2>5. Pos(backspace(s)) >= 0
    BY <1>11, <2>3
  <2>. QED  BY <1>1, <1>9, <2>3, <2>4, <2>5 DEF Backspaced
<1>12. CASE ~(Pos(r) >= 0)
  <2>1. Pos(r) \notin DOMAIN r.cells
    BY <1>2, <1>7, <1>12, Sizes
  <2>2. backspace(s) = r
    BY <1>10, <2>1 DEF Written
  <2>. QED  BY <1>1, <1>7, <1>9, <1>12, <2>2 DEF Backspaced
<1>. QED  BY <1>11, <1>12

-----------------------------------------------------------------------------
(* Several characters.                                                      *)

\* The characters that putc shows or obeys, and those of the keyboard buffer.
Chars == Letters \cup Output \cup {SPACE, NL}
BufferChars == Letters \cup {NUL}

\* putc ignores NUL, and the characters are not NUL.
LEMMA NoNul == NUL \notin Chars /\ \A s : putc(s, NUL) = s
  BY ScreenAssumption DEF Chars, NUL, SPACE, NL, putc

\* putc stays on the screen whatever it prints.
LEMMA PutcStays == ASSUME NEW s \in OnScreen, NEW c \in Chars PROVE putc(s, c) \in OnScreen
<1>1. CASE c = NL
  BY <1>1, PutcNewline DEF PutNewline, OnScreen
<1>2. CASE c # NL
  <2>1. c \in Glyphs /\ c # NUL
    BY <1>2, NoNul DEF Chars, Glyphs, Blanks
  <2>. QED  BY <1>2, <2>1, PutcChar DEF PutChar
<1>. QED  BY <1>1, <1>2

\* A set of screens that putc does not leave; f is the screen after each character.
PutcIn(S, C) == \A t \in S : \A c \in C : putc(t, c) \in S
PrintsIn(S, f, s, text) ==
  /\ f \in [0..Len(text) -> S]
  /\ f[0] = s
  /\ \A j \in 1..Len(text) : f[j] = putc(f[j - 1], text[j])
  /\ PutAll(s, text) = f[Len(text)]
Prints(f, s, text) == PrintsIn(OnScreen, f, s, text)

\* PutAll is putc, character by character.
LEMMA PutAllIn ==
  ASSUME NEW S, NEW C, PutcIn(S, C), NEW s \in S, NEW text \in Seq(C)
  PROVE  \E f : PrintsIn(S, f, s, text)
<1>0. PICK N : N = Len(text)
  OBVIOUS
<1>1. N \in Nat /\ \A j \in 1..N : text[j] \in C
  BY <1>0
<1>. DEFINE Loop(h) == [j \in 0..N |-> IF j = 0 THEN s ELSE putc(h[j - 1], text[j])]
            G == [js \in (1..N) \X S |-> putc(js[2], text[js[1]])]
<1>2. G \in [(1..N) \X S -> S]
  <2>1. ASSUME NEW js \in (1..N) \X S PROVE putc(js[2], text[js[1]]) \in S
    <3>1. js[1] \in 1..N /\ js[2] \in S
      OBVIOUS
    <3>2. text[js[1]] \in C
      BY <1>1, <3>1
    <3>. QED  BY <3>1, <3>2 DEF PutcIn
  <2>. QED  BY <2>1
<1>3. \A j \in 1..N : \A t \in S : G[<<j, t>>] = putc(t, text[j])
  OBVIOUS
<1>. HIDE DEF G
<1>4. PICK f \in [0..N -> S] : f[0] = s /\ \A j \in 1..N : f[j] = G[<<j, f[j - 1]>>]
  <2>1. \E f \in [0..N -> S] : Computes(f, N, s, G)
    BY <1>1, <1>2, RecursionDefines, Zenon
  <2>. QED  BY <2>1 DEF Computes
<1>5. ASSUME NEW j \in 1..N PROVE f[j] = putc(f[j - 1], text[j])
  <2>1. j - 1 \in 0..N
    BY <1>1
  <2>2. f[j - 1] \in S
    BY <1>4, <2>1
  <2>. QED  BY <1>3, <1>4, <2>2
<1>6. f = Loop(f)
  <2>1. f = [j \in 0..N |-> f[j]]
    BY <1>4
  <2>2. ASSUME NEW j \in 0..N PROVE f[j] = IF j = 0 THEN s ELSE putc(f[j - 1], text[j])
    <3>1. j # 0 => j \in 1..N
      BY <1>1
    <3>. QED  BY <1>4, <1>5, <3>1
  <2>. QED  BY <2>1, <2>2
<1>7. PICK g : g = CHOOSE h : h = Loop(h)
  OBVIOUS
<1>8. g = Loop(g)
  BY <1>6, <1>7
<1>9. PutAll(s, text) = g[N]
  BY <1>0, <1>7 DEF PutAll
<1>10. g[0] = s /\ \A j \in 1..N : g[j] = putc(g[j - 1], text[j])
  <2>1. g[0] = s
    BY <1>1, <1>8
  <2>2. ASSUME NEW j \in 1..N PROVE g[j] = putc(g[j - 1], text[j])
    <3>1. j \in 0..N /\ j # 0
      BY <1>1
    <3>. QED  BY <1>8, <3>1
  <2>. QED  BY <2>1, <2>2
<1>11. g \in [0..N -> S]
  <2>. DEFINE T == {j \in Nat : j <= N => g[j] \in S}
  <2>1. 0 \in T
    BY <1>10
  <2>2. ASSUME NEW j \in Nat, j \in T PROVE j + 1 \in T
    <3>. SUFFICES ASSUME j + 1 <= N PROVE g[j + 1] \in S
      OBVIOUS
    <3>1. j + 1 \in 1..N /\ j + 1 - 1 = j /\ g[j] \in S
      BY <1>1, <2>2
    <3>2. g[j + 1] = putc(g[j], text[j + 1]) /\ text[j + 1] \in C
      BY <1>1, <1>10, <3>1
    <3>. QED  BY <3>1, <3>2 DEF PutcIn
  <2>. HIDE DEF T
  <2>3. Nat \subseteq T
    BY <2>1, <2>2, SetInduction
  <2>4. \A j \in 0..N : g[j] \in S
    BY <1>1, <2>3 DEF T
  <2>5. g = [j \in 0..N |-> g[j]]
    BY <1>8
  <2>. QED  BY <2>4, <2>5
<1>12. PrintsIn(S, g, s, text)
  BY <1>0, <1>9, <1>10, <1>11 DEF PrintsIn
<1>. QED  BY <1>12

\* On the screens with the cursor not in front of video memory.
LEMMA PutAllPrints ==
  ASSUME NEW s \in OnScreen, NEW text \in Seq(Chars)
  PROVE  \E f : Prints(f, s, text)
<1>1. PutcIn(OnScreen, Chars)
  BY PutcStays DEF PutcIn
<1>. QED  BY <1>1, PutAllIn, Zenon DEF Prints

\* A set of screens that backspace does not leave; f is the screen after each backspace.
BackspaceIn(S) == \A t \in S : backspace(t) \in S
ErasesIn(S, f, s, n) ==
  /\ f \in [0..n -> S]
  /\ f[0] = s
  /\ \A j \in 1..n : f[j] = backspace(f[j - 1])
  /\ Erase(s, n) = f[n]
Erases(f, s, n) == ErasesIn(Screens, f, s, n)

\* Erase is backspace, again and again.
LEMMA EraseIn ==
  ASSUME NEW S, BackspaceIn(S), NEW s \in S, NEW n \in Nat
  PROVE  \E f : ErasesIn(S, f, s, n)
<1>1. \A t \in S : backspace(t) \in S
  BY DEF BackspaceIn
<1>. DEFINE Loop(h) == [j \in 0..n |-> IF j = 0 THEN s ELSE backspace(h[j - 1])]
            G == [js \in (1..n) \X S |-> backspace(js[2])]
<1>2. G \in [(1..n) \X S -> S]
  BY <1>1
<1>3. \A j \in 1..n : \A t \in S : G[<<j, t>>] = backspace(t)
  OBVIOUS
<1>. HIDE DEF G
<1>4. PICK f \in [0..n -> S] : f[0] = s /\ \A j \in 1..n : f[j] = G[<<j, f[j - 1]>>]
  <2>1. \E f \in [0..n -> S] : Computes(f, n, s, G)
    BY <1>2, RecursionDefines, Zenon
  <2>. QED  BY <2>1 DEF Computes
<1>5. ASSUME NEW j \in 1..n PROVE f[j] = backspace(f[j - 1])
  <2>1. f[j - 1] \in S
    BY <1>4
  <2>. QED  BY <1>3, <1>4, <2>1
<1>6. f = Loop(f)
  <2>1. f = [j \in 0..n |-> f[j]]
    BY <1>4
  <2>2. ASSUME NEW j \in 0..n PROVE f[j] = IF j = 0 THEN s ELSE backspace(f[j - 1])
    <3>1. j # 0 => j \in 1..n
      OBVIOUS
    <3>. QED  BY <1>4, <1>5, <3>1
  <2>. QED  BY <2>1, <2>2
<1>7. PICK g : g = CHOOSE h : h = Loop(h)
  OBVIOUS
<1>8. g = Loop(g)
  BY <1>6, <1>7
<1>9. Erase(s, n) = g[n]
  BY <1>7 DEF Erase
<1>10. g[0] = s /\ \A j \in 1..n : g[j] = backspace(g[j - 1])
  <2>1. g[0] = s
    BY <1>8
  <2>2. ASSUME NEW j \in 1..n PROVE g[j] = backspace(g[j - 1])
    <3>1. j \in 0..n /\ j # 0
      OBVIOUS
    <3>. QED  BY <1>8, <3>1
  <2>. QED  BY <2>1, <2>2
<1>11. g \in [0..n -> S]
  <2>. DEFINE T == {j \in Nat : j <= n => g[j] \in S}
  <2>1. 0 \in T
    BY <1>10
  <2>2. ASSUME NEW j \in Nat, j \in T PROVE j + 1 \in T
    <3>. SUFFICES ASSUME j + 1 <= n PROVE g[j + 1] \in S
      OBVIOUS
    <3>1. j + 1 \in 1..n /\ j + 1 - 1 = j /\ g[j] \in S
      BY <2>2
    <3>. QED  BY <1>1, <1>10, <3>1
  <2>. HIDE DEF T
  <2>3. Nat \subseteq T
    BY <2>1, <2>2, SetInduction
  <2>4. \A j \in 0..n : g[j] \in S
    BY <2>3 DEF T
  <2>5. g = [j \in 0..n |-> g[j]]
    BY <1>8
  <2>. QED  BY <2>4, <2>5
<1>12. ErasesIn(S, g, s, n)
  BY <1>9, <1>10, <1>11 DEF ErasesIn
<1>. QED  BY <1>12

\* Among all screens.
LEMMA EraseErases ==
  ASSUME NEW s \in Screens, NEW n \in Nat
  PROVE  \E f : Erases(f, s, n)
<1>1. BackspaceIn(Screens)
  BY BackspaceMoves DEF Backspaced, BackspaceIn
<1>. QED  BY <1>1, EraseIn, Zenon DEF Erases

-----------------------------------------------------------------------------
(* Nothing but blanks from the cursor on.                                   *)

BlankFrom(s) == \A k \in 0..(Size - 1) : k >= Pos(s) => s.cells[k] \in Blanks

Good(s) == s \in OnScreen /\ BlankFrom(s)

\* t is a good screen whose cursor is one cell further than that of s, or at least in
\* the last row, and not in a higher row.
Further(s, t) ==
  /\ Good(t)
  /\ \A m \in Nat : m <= Bottom /\ m <= Pos(s) + 1 => m <= Pos(t)
  /\ t.y >= s.y

\* putc leaves nothing behind the cursor.
LEMMA PutcGood ==
  ASSUME NEW s, Good(s), NEW c \in Chars
  PROVE  Further(s, putc(s, c))
<1>1. s \in OnScreen /\ s \in Screens /\ Pos(s) \in Int /\ Pos(s) >= 0 /\ Pos(s) < Size
      /\ s.cells \in [0..(Size - 1) -> Glyphs]
  BY Fields DEF Good, OnScreen
<1>2. PICK t : t = putc(s, c)
  OBVIOUS
<1>3. SPACE \in Blanks
  BY DEF Blanks
<1>4. CASE c = NL
  <2>1. PutNewline(s, t)
    BY <1>1, <1>2, <1>4, PutcNewline
  <2>2. t \in OnScreen /\ t.y >= s.y /\ Pos(t) \in Int
    BY <2>1, Fields DEF PutNewline, OnScreen
  <2>3. CASE t.cells = s.cells /\ Pos(t) > Pos(s)
    <3>1. BlankFrom(t)
      BY <1>1, <2>2, <2>3, Sizes DEF Good, BlankFrom
    <3>. QED  BY <1>1, <1>2, <2>2, <2>3, <3>1, Sizes DEF Further, Good
  <2>4. CASE t.cells = Scrolled(s.cells) /\ Pos(t) = Bottom
    <3>1. BlankFrom(t)
      BY <1>1, <1>3, <2>4, ScrolledCells, Sizes DEF BlankFrom
    <3>. QED  BY <1>1, <1>2, <2>2, <2>4, <3>1, Sizes DEF Further, Good
  <2>. QED  BY <2>1, <2>3, <2>4 DEF PutNewline
<1>5. CASE c # NL
  <2>0. c \in Glyphs /\ c # NUL
    BY <1>5, NoNul DEF Chars, Glyphs, Blanks
  <2>1. PutChar(s, c, t) /\ CellsWith(s, c) \in [0..(Size - 1) -> Glyphs]
    BY <1>1, <1>2, <1>5, <2>0, PutcChar, WrittenChanges
  <2>2. t \in OnScreen /\ t.y >= s.y /\ Pos(t) \in Int
    BY <2>1, Fields DEF PutChar, OnScreen
  <2>3. CASE t.cells = CellsWith(s, c) /\ Pos(t) = Pos(s) + 1
    <3>1. \A k \in 0..(Size - 1) : k # Pos(s) => t.cells[k] = s.cells[k]
      BY <1>1, <2>3 DEF CellsWith
    <3>2. \A k \in 0..(Size - 1) : k >= Pos(t) => k >= Pos(s) /\ k # Pos(s)
      BY <1>1, <2>3, Sizes
    <3>3. BlankFrom(t)
      BY <3>1, <3>2 DEF Good, BlankFrom
    <3>. QED  BY <1>1, <1>2, <2>2, <2>3, <3>3, Sizes DEF Further, Good
  <2>4. CASE t.cells = Scrolled(CellsWith(s, c)) /\ Pos(t) = Bottom
    <3>1. BlankFrom(t)
      BY <1>3, <2>1, <2>4, ScrolledCells, Sizes DEF BlankFrom
    <3>. QED  BY <1>1, <1>2, <2>2, <2>4, <3>1, Sizes DEF Further, Good
  <2>. QED  BY <2>1, <2>3, <2>4 DEF PutChar
<1>. QED  BY <1>4, <1>5

\* backspace blanks what it leaves behind the cursor, which goes back by at most a cell.
LEMMA BackspaceGood ==
  ASSUME NEW s, Good(s), Pos(s) >= 1 \/ s.y >= 1
  PROVE  Good(backspace(s)) /\ Pos(backspace(s)) >= Pos(s) - 1 /\ backspace(s).y = s.y
<1>1. s \in Screens /\ Pos(s) \in Int /\ Pos(s) >= 0 /\ Pos(s) < Size
      /\ s.cells \in [0..(Size - 1) -> Glyphs]
      /\ s.x \in Int /\ s.x > -NUM_COLS /\ s.y \in 0..(NUM_ROWS - 1) /\ Pos(s) = NUM_COLS * s.y + s.x
  BY Fields DEF Good, OnScreen
<1>2. PICK t : t = backspace(s)
  OBVIOUS
<1>3. Backspaced(s, t)
  BY <1>1, <1>2, BackspaceMoves
<1>4. Pos(t) \in Int /\ Pos(t) >= Pos(s) - 1
  <2>1. Pos(t) = Pos(s) + NUM_COLS - 1 \/ Pos(t) = Pos(s) - 1
    BY <1>3 DEF Backspaced
  <2>. QED  BY <1>1, <2>1, Sizes
<1>5. Pos(t) >= 0
  <2>1. CASE Pos(s) >= 1
    BY <1>1, <1>4, <2>1
  <2>2. CASE s.y >= 1
    <3>1. PICK m : m = NUM_COLS * s.y
      OBVIOUS
    <3>2. m \in Nat /\ m >= NUM_COLS
      BY <1>1, <2>2, <3>1, RowsFit
    <3>3. Pos(s) >= 1
      BY <1>1, <3>1, <3>2, Sizes
    <3>. QED  BY <1>1, <1>4, <3>3
  <2>. QED  BY <2>1, <2>2
<1>6. t \in OnScreen /\ t.y = s.y /\ t.cells = [s.cells EXCEPT ![Pos(t)] = NUL]
  BY <1>3, <1>5 DEF Backspaced, OnScreen
<1>7. BlankFrom(t)
  <2>1. \A k \in 0..(Size - 1) : t.cells[k] = IF k = Pos(t) THEN NUL ELSE s.cells[k]
    BY <1>1, <1>6
  <2>2. NUL \in Blanks
    BY DEF Blanks
  <2>3. ASSUME NEW k \in 0..(Size - 1), k >= Pos(t), k # Pos(t) PROVE k >= Pos(s)
    BY <1>1, <1>4, <2>3, Sizes
  <2>. QED  BY <2>1, <2>2, <2>3 DEF Good, BlankFrom
<1>. QED  BY <1>2, <1>4, <1>6, <1>7 DEF Good

\* Printing a text leaves nothing behind the cursor, which moves on by the length of the
\* text at least, as far as that is above the last row.
LEMMA PutAllGood ==
  ASSUME NEW s, Good(s), NEW text \in Seq(Chars)
  PROVE  /\ Good(PutAll(s, text))
         /\ PutAll(s, text).y >= s.y
         /\ \A m \in Nat : m <= Bottom /\ m <= Pos(s) + Len(text) => m <= Pos(PutAll(s, text))
<1>1. s \in OnScreen /\ s \in Screens
  BY DEF Good, OnScreen
<1>2. PICK f : Prints(f, s, text)
  BY <1>1, PutAllPrints
<1>3. PICK N : N = Len(text)
  OBVIOUS
<1>4. N \in Nat /\ (\A j \in 1..N : text[j] \in Chars) /\ f[0] = s
      /\ (\A j \in 1..N : f[j] = putc(f[j - 1], text[j])) /\ PutAll(s, text) = f[N]
  BY <1>2, <1>3 DEF Prints, PrintsIn
<1>5. Pos(s) \in Int /\ Pos(s) >= 0 /\ s.y \in Nat
  BY <1>1, Fields DEF OnScreen
<1>. DEFINE After(j) == /\ Good(f[j]) /\ f[j].y >= s.y
                        /\ \A m \in Nat : m <= Bottom /\ m <= Pos(s) + j => m <= Pos(f[j])
            T == {j \in Nat : j <= N => After(j)}
<1>6. 0 \in T
  BY <1>4, <1>5
<1>7. ASSUME NEW j \in Nat, j \in T PROVE j + 1 \in T
  <2>. SUFFICES ASSUME j + 1 <= N PROVE After(j + 1)
    OBVIOUS
  <2>1. j + 1 \in 1..N /\ j + 1 - 1 = j /\ j <= N
    BY <1>4
  <2>2. After(j)
    BY <1>7, <2>1
  <2>3. f[j + 1] = putc(f[j], text[j + 1]) /\ text[j + 1] \in Chars
    BY <1>4, <2>1
  <2>4. PICK a, b : a = f[j] /\ b = f[j + 1]
    OBVIOUS
  <2>5. Further(a, b)
    BY <2>2, <2>3, <2>4, PutcGood
  <2>6. a \in Screens /\ b \in Screens
    BY <2>2, <2>4, <2>5 DEF Further, Good, OnScreen
  <2>7. a.y \in Nat /\ b.y \in Nat /\ Pos(a) \in Int /\ Pos(b) \in Int
    BY <2>6, Fields
  <2>8. Good(b) /\ b.y >= s.y
    BY <1>5, <2>2, <2>4, <2>5, <2>7 DEF Further
  <2>9. ASSUME NEW m \in Nat, m <= Bottom, m <= Pos(s) + (j + 1) PROVE m <= Pos(b)
    <3>1. m <= Pos(a) + 1
      <4>1. CASE m = 0
        BY <2>2, <2>4, <2>7, <4>1 DEF Good, OnScreen
      <4>2. CASE m # 0
        <5>1. m - 1 \in Nat /\ m - 1 <= Bottom /\ m - 1 <= Pos(s) + j
          BY <1>5, <2>9, <4>2, Sizes
        <5>2. m - 1 <= Pos(a)
          BY <2>2, <2>4, <5>1
        <5>. QED  BY <2>7, <5>2
      <4>. QED  BY <4>1, <4>2
    <3>. QED  BY <2>5, <2>9, <3>1 DEF Further
  <2>. QED  BY <2>4, <2>8, <2>9
<1>. HIDE DEF T
<1>8. N \in T
  BY <1>4, <1>6, <1>7, SetInduction
<1>9. After(N)
  BY <1>4, <1>8 DEF T
<1>. QED  BY <1>3, <1>4, <1>9

\* Erasing no more than is in front of the cursor leaves nothing behind the cursor.
LEMMA EraseGood ==
  ASSUME NEW s, Good(s), NEW n \in Nat, n <= Pos(s) \/ s.y >= 1
  PROVE  Good(Erase(s, n)) /\ Erase(s, n).y = s.y /\ Pos(Erase(s, n)) >= Pos(s) - n
<1>1. s \in Screens
  BY DEF Good, OnScreen
<1>2. PICK f : Erases(f, s, n)
  BY <1>1, EraseErases
<1>3. f[0] = s /\ (\A j \in 1..n : f[j] = backspace(f[j - 1])) /\ Erase(s, n) = f[n]
  BY <1>2 DEF Erases, ErasesIn
<1>4. Pos(s) \in Int
  BY <1>1, Fields
<1>. DEFINE After(j) == Good(f[j]) /\ f[j].y = s.y /\ Pos(f[j]) >= Pos(s) - j
            T == {j \in Nat : j <= n => After(j)}
<1>5. 0 \in T
  BY <1>3, <1>4
<1>6. ASSUME NEW j \in Nat, j \in T PROVE j + 1 \in T
  <2>. SUFFICES ASSUME j + 1 <= n PROVE After(j + 1)
    OBVIOUS
  <2>1. j + 1 \in 1..n /\ j + 1 - 1 = j /\ j <= n
    OBVIOUS
  <2>2. After(j)
    BY <1>6, <2>1
  <2>3. f[j + 1] = backspace(f[j])
    BY <1>3, <2>1
  <2>4. PICK a, b : a = f[j] /\ b = f[j + 1]
    OBVIOUS
  <2>5. a \in Screens /\ Pos(a) \in Int
    BY <2>2, <2>4, Fields DEF Good, OnScreen
  <2>6. Pos(a) >= 1 \/ a.y >= 1
    BY <1>4, <2>1, <2>2, <2>4, <2>5
  <2>7. Good(b) /\ Pos(b) >= Pos(a) - 1 /\ b.y = a.y
    BY <2>2, <2>3, <2>4, <2>6, BackspaceGood
  <2>8. Pos(b) \in Int
    BY <2>7, Fields DEF Good, OnScreen
  <2>9. Pos(b) >= Pos(s) - (j + 1)
    BY <1>4, <2>2, <2>4, <2>5, <2>7, <2>8
  <2>. QED  BY <2>2, <2>4, <2>7, <2>9
<1>. HIDE DEF T
<1>7. n \in T
  BY <1>5, <1>6, SetInduction
<1>8. After(n)
  BY <1>7 DEF T
<1>. QED  BY <1>3, <1>8

-----------------------------------------------------------------------------
(* The same with the cursor in front of video memory, where keys without a  *)
(* character can bring it.                                                  *)

AllChars == Chars \cup {NUL}
BlankScreens == {s \in Screens : BlankFrom(s)}

\* A newline brings the cursor back, with nothing behind it.
LEMMA NewlineGood ==
  ASSUME NEW s \in BlankScreens
  PROVE  Good(putc(s, NL))
<1>1. s \in Screens /\ BlankFrom(s) /\ Pos(s) \in Int /\ s.cells \in [0..(Size - 1) -> Glyphs]
  BY Fields DEF BlankScreens
<1>2. PICK t : t = putc(s, NL)
  OBVIOUS
<1>3. PutNewline(s, t)
  BY <1>1, <1>2, PutcNewline
<1>4. t \in OnScreen /\ Pos(t) \in Int
  BY <1>3, Fields DEF PutNewline, OnScreen
<1>5. CASE t.cells = s.cells /\ Pos(t) > Pos(s)
  <2>1. BlankFrom(t)
    BY <1>1, <1>4, <1>5, Sizes DEF BlankFrom
  <2>. QED  BY <1>2, <1>4, <2>1 DEF Good
<1>6. CASE t.cells = Scrolled(s.cells) /\ Pos(t) = Bottom
  <2>1. SPACE \in Blanks
    BY DEF Blanks
  <2>2. BlankFrom(t)
    BY <1>1, <1>6, <2>1, ScrolledCells, Sizes DEF BlankFrom
  <2>. QED  BY <1>2, <1>4, <2>2 DEF Good
<1>. QED  BY <1>3, <1>5, <1>6 DEF PutNewline

\* A character written in front of video memory is not seen.
LEMMA PutcInFront ==
  ASSUME NEW s \in BlankScreens, Pos(s) < 0, NEW c \in Chars, c # NL
  PROVE  putc(s, c) \in BlankScreens
<1>1. s \in Screens /\ BlankFrom(s)
  BY DEF BlankScreens
<1>2. PICK x, y, cells : x = s.x /\ y = s.y /\ cells = s.cells
  OBVIOUS
<1>3. x \in Int /\ x > -NUM_COLS /\ x < NUM_COLS /\ y \in 0..(NUM_ROWS - 1) /\ y \in Nat
      /\ Pos(s) = NUM_COLS * y + x /\ cells \in [0..(Size - 1) -> Glyphs] /\ Pos(s) \in Int
  BY <1>1, <1>2, Fields
<1>4. x < 0
  <2>1. PICK m : m = NUM_COLS * y
    OBVIOUS
  <2>2. m \in Nat /\ Pos(s) = m + x
    BY <1>3, <2>1, RowsFit
  <2>. QED  BY <1>3, <2>2
<1>5. Pos(s) \notin DOMAIN s.cells /\ c # NUL
  <2>1. DOMAIN s.cells = 0..(Size - 1)
    BY <1>2, <1>3
  <2>2. Pos(s) \notin 0..(Size - 1)
    BY <1>3, Sizes
  <2>. QED  BY <2>1, <2>2, NoNul
<1>6. Written(s, c) = s /\ s = [cells |-> cells, x |-> x, y |-> y]
  BY <1>1, <1>2, <1>5 DEF Written, Screens
<1>7. Advanced(s, c) = [cells |-> cells, x |-> x + 1, y |-> y]
  BY <1>6 DEF Advanced
<1>8. x + 1 \in Int /\ x + 1 > -NUM_COLS /\ x + 1 < NUM_COLS /\ ~(x + 1 >= NUM_COLS) /\ ~(y >= NUM_ROWS)
  BY <1>3, <1>4, Sizes
<1>9. putc(s, c) = [cells |-> cells, x |-> x + 1, y |-> y]
  <2>1. WrapRow(Advanced(s, c)) = [cells |-> cells, x |-> x + 1, y |-> y]
    BY <1>7, <1>8 DEF WrapRow
  <2>. QED  BY <1>5, <1>8, <2>1 DEF putc, ScrollRow
<1>10. putc(s, c) \in Screens /\ putc(s, c).cells = cells
  BY <1>3, <1>8, <1>9, ScreenOf
<1>11. \A k \in 0..(Size - 1) : cells[k] \in Blanks
  <2>1. \A k \in 0..(Size - 1) : k >= Pos(s)
    BY <1>3, Sizes
  <2>. QED  BY <1>1, <1>2, <2>1 DEF BlankFrom
<1>. QED  BY <1>10, <1>11 DEF BlankScreens, BlankFrom

\* Whatever is printed and wherever the cursor is, nothing is left behind it.
LEMMA PutcBlank == PutcIn(BlankScreens, AllChars)
<1>. SUFFICES ASSUME NEW s \in BlankScreens, NEW c \in AllChars PROVE putc(s, c) \in BlankScreens
  BY DEF PutcIn
<1>0. s \in Screens /\ BlankFrom(s) /\ Pos(s) \in Int
  BY Fields DEF BlankScreens
<1>1. CASE c = NUL
  BY <1>1, NoNul
<1>2. CASE c = NL
  BY <1>2, NewlineGood DEF BlankScreens, Good, OnScreen
<1>3. CASE c \in Chars /\ c # NL /\ Pos(s) < 0
  BY <1>3, PutcInFront
<1>4. CASE c \in Chars /\ ~(Pos(s) < 0)
  <2>1. Good(s)
    BY <1>0, <1>4 DEF Good, OnScreen
  <2>2. Good(putc(s, c))
    BY <1>4, <2>1, PutcGood DEF Further
  <2>. QED  BY <2>2 DEF BlankScreens, Good, OnScreen
<1>. QED  BY <1>1, <1>2, <1>3, <1>4 DEF AllChars

\* Nor is by backspace, wherever the cursor is.
LEMMA BackspaceBlank == BackspaceIn(BlankScreens)
<1>. SUFFICES ASSUME NEW s \in BlankScreens PROVE backspace(s) \in BlankScreens
  BY DEF BackspaceIn
<1>1. s \in Screens /\ BlankFrom(s) /\ Pos(s) \in Int /\ s.cells \in [0..(Size - 1) -> Glyphs]
  BY Fields DEF BlankScreens
<1>2. PICK t : t = backspace(s)
  OBVIOUS
<1>3. Backspaced(s, t)
  BY <1>1, <1>2, BackspaceMoves
<1>4. t \in Screens /\ Pos(t) \in Int /\ t.cells \in [0..(Size - 1) -> Glyphs]
  BY <1>3, Fields DEF Backspaced
<1>5. Pos(t) >= Pos(s) - 1
  <2>1. Pos(t) = Pos(s) + NUM_COLS - 1 \/ Pos(t) = Pos(s) - 1
    BY <1>3 DEF Backspaced
  <2>. QED  BY <1>1, <2>1, Sizes
<1>6. CASE Pos(t) >= 0
  <2>1. t.cells = [s.cells EXCEPT ![Pos(t)] = NUL]
    BY <1>3, <1>6 DEF Backspaced
  <2>2. \A k \in 0..(Size - 1) : t.cells[k] = IF k = Pos(t) THEN NUL ELSE s.cells[k]
    BY <1>1, <2>1
  <2>3. NUL \in Blanks
    BY DEF Blanks
  <2>4. ASSUME NEW k \in 0..(Size - 1), k >= Pos(t), k # Pos(t) PROVE k >= Pos(s)
    BY <1>1, <1>4, <1>5, <2>4, Sizes
  <2>5. BlankFrom(t)
    BY <1>1, <2>2, <2>3, <2>4 DEF BlankFrom
  <2>. QED  BY <1>2, <1>4, <2>5 DEF BlankScreens
<1>7. CASE Pos(t) < 0
  <2>0. ~(Pos(t) >= 0)
    BY <1>4, <1>7
  <2>1. t.cells = s.cells
    BY <1>3, <2>0 DEF Backspaced
  <2>2. \A k \in 0..(Size - 1) : k >= Pos(t) => k >= Pos(s)
    BY <1>1, <1>4, <1>5, <1>7, Sizes
  <2>3. BlankFrom(t)
    BY <1>1, <2>1, <2>2 DEF BlankFrom
  <2>. QED  BY <1>2, <1>4, <2>3 DEF BlankScreens
<1>. QED  BY <1>4, <1>6, <1>7

\* So for texts, and for any number of backspaces.
LEMMA PutAllBlank ==
  ASSUME NEW s \in BlankScreens, NEW text \in Seq(AllChars)
  PROVE  PutAll(s, text) \in BlankScreens
<1>1. PICK f : PrintsIn(BlankScreens, f, s, text)
  BY PutcBlank, PutAllIn, Zenon
<1>2. Len(text) \in 0..Len(text)
  OBVIOUS
<1>. QED  BY <1>1, <1>2 DEF PrintsIn

LEMMA EraseBlank ==
  ASSUME NEW s \in BlankScreens, NEW n \in Nat
  PROVE  Erase(s, n) \in BlankScreens
<1>1. PICK f : ErasesIn(BlankScreens, f, s, n)
  BY BackspaceBlank, EraseIn, Zenon
<1>2. n \in 0..n
  OBVIOUS
<1>. QED  BY <1>1, <1>2 DEF ErasesIn

\* A part of a sequence.
LEMMA PartOf ==
  ASSUME NEW S, NEW l \in Seq(S), NEW m \in Nat, NEW n \in Nat, m >= 1, m <= n + 1, n <= Len(l)
  PROVE  /\ SubSeq(l, m, n) \in Seq(S)
         /\ Len(SubSeq(l, m, n)) = n + 1 - m
         /\ \A i \in 1..(n + 1 - m) : SubSeq(l, m, n)[i] = l[m + i - 1]
<1>1. \A i \in m..n : l[i] \in S
  OBVIOUS
<1>2. /\ SubSeq(l, m, n) \in Seq(S)
      /\ Len(SubSeq(l, m, n)) = IF m <= n THEN n - m + 1 ELSE 0
      /\ \A i \in 1..(n - m + 1) : SubSeq(l, m, n)[i] = l[m + i - 1]
  BY <1>1, SubSeqProperties
<1>. QED  BY <1>2

-----------------------------------------------------------------------------
(* The cursor and what is behind it.                                        *)

\* What is known of the screen, the line and the history together: a line on a cleared
\* screen can still be erased because the cursor is not in the first row.
Fits(s, l, t) ==
  /\ Good(s)
  /\ l \in Seq(Letters) /\ Len(l) <= MaxLine
  /\ t \in {"no", "printed", "cleared"}
  /\ t # "cleared" => Len(l) <= Pos(s)
  /\ t = "cleared" => s.y >= 1
  /\ t # "no" => l # <<>>

\* What is known of a line without a key that has no character.
LineInv == Fits(scr, line, touched) /\ buf_idx = Len(line)

\* What is known of every line.
AnyLineInv == TypeOK /\ BlankFrom(scr)

ScreenInv == AnyLineInv /\ (touched # "dead" => LineInv)

\* All that is printed are characters that putc knows.
LEMMA Texts ==
  /\ Letters \subseteq Chars /\ Output \subseteq Chars /\ NL \in Chars
  /\ Seq(Letters) \subseteq Seq(Chars) /\ Prompt \in Seq(Chars)
<1>1. Letters \subseteq Chars /\ Output \subseteq Chars /\ NL \in Chars
  BY DEF Chars
<1>2. Seq(Letters) \subseteq Seq(Chars) /\ Seq(Output) \subseteq Seq(Chars)
  BY <1>1, SeqMonotonic
<1>. QED  BY <1>1, <1>2, ScreenAssumption

\* What follows at once from the invariant.
LEMMA FitsFacts ==
  ASSUME NEW s, NEW l, NEW t, Fits(s, l, t)
  PROVE  /\ Good(s) /\ s \in OnScreen /\ s \in Screens /\ Pos(s) \in Nat /\ s.y \in Nat
         /\ l \in Seq(Letters) /\ Len(l) \in Nat /\ Len(l) <= MaxLine /\ Len(l) <= Bottom
         /\ Len(l) <= Pos(s) \/ s.y >= 1
<1>1. Good(s) /\ s \in OnScreen /\ s \in Screens
  BY DEF Fits, Good, OnScreen
<1>2. Pos(s) \in Nat /\ s.y \in Nat
  BY <1>1, Fields DEF OnScreen
<1>3. l \in Seq(Letters) /\ Len(l) \in Nat /\ Len(l) <= MaxLine /\ Len(l) <= Bottom
  BY Sizes DEF Fits
<1>. QED  BY <1>1, <1>2, <1>3 DEF Fits

\* A line of letters is a string of its own length.
LEMMA StringOfLetters ==
  ASSUME NEW l \in Seq(Letters)
  PROVE  strlen(l) = Len(l) /\ String(l) = l
<1>1. Len(l) \in Nat /\ \A k \in 1..Len(l) : l[k] # NUL
  BY ScreenAssumption
<1>. DEFINE Ends(n) == (\A k \in 1..n : l[k] # NUL) /\ (n = Len(l) \/ l[n + 1] = NUL)
<1>2. Len(l) \in 0..Len(l) /\ Ends(Len(l))
  BY <1>1
<1>3. ASSUME NEW n \in 0..Len(l), Ends(n) PROVE n = Len(l)
  <2>1. CASE n # Len(l)
    <3>1. n + 1 \in 1..Len(l)
      BY <1>1, <2>1
    <3>. QED  BY <1>1, <1>3, <2>1, <3>1
  <2>. QED  BY <2>1
<1>4. strlen(l) = Len(l)
  <2>1. strlen(l) = CHOOSE n \in 0..Len(l) : Ends(n)
    BY DEF strlen
  <2>. HIDE DEF Ends
  <2>. QED  BY <1>2, <1>3, <2>1
<1>5. SubSeq(l, 1, Len(l)) = l
  OBVIOUS
<1>. QED  BY <1>4, <1>5 DEF String

\* A cleared screen is blank, with the cursor at its beginning.
LEMMA ClearedGood == Good(Cleared) /\ Cleared \in OnScreen /\ Pos(Cleared) = 0 /\ Cleared.x = 0 /\ Cleared.y = 0
<1>1. PICK cells : cells = [k \in 0..(Size - 1) |-> SPACE]
  OBVIOUS
<1>2. cells \in [0..(Size - 1) -> Glyphs] /\ \A k \in 0..(Size - 1) : cells[k] \in Blanks
  BY <1>1 DEF Glyphs, Blanks
<1>3. Cleared = [cells |-> cells, x |-> 0, y |-> 0]
  BY <1>1 DEF Cleared
<1>4. 0 \in 0..(NUM_ROWS - 1) /\ 0 > -NUM_COLS /\ 0 < NUM_COLS /\ NUM_COLS * 0 + 0 = 0
  BY Sizes
<1>5. Cleared \in Screens /\ Cleared.cells = cells /\ Cleared.x = 0 /\ Cleared.y = 0 /\ Pos(Cleared) = 0
  BY <1>2, <1>3, <1>4, ScreenOf
<1>. QED  BY <1>2, <1>5 DEF Good, OnScreen, BlankFrom

\* A good screen with room for the line in front of the cursor is all that is needed.
LEMMA FitsBy ==
  ASSUME NEW s, Good(s), NEW l \in Seq(Letters), Len(l) <= MaxLine, Len(l) <= Pos(s),
         NEW t \in {"no", "printed", "cleared"}, t # "no" => l # <<>>, t = "cleared" => s.y >= 1
  PROVE  Fits(s, l, t)
  BY DEF Fits

\* The same on a cleared screen.
LEMMA FitsCleared ==
  ASSUME NEW s, Good(s), NEW l \in Seq(Letters), Len(l) <= MaxLine, l # <<>>, s.y >= 1
  PROVE  Fits(s, l, "cleared")
  BY DEF Fits

\* A typed letter is printed and counted.
LEMMA TypeLetterFits == ASSUME LineInv, NEW c \in Letters, TypeLetter(c) PROVE LineInv'
<1>1. PICK s, l, t : s = scr /\ l = line /\ t = touched
  OBVIOUS
<1>2. Fits(s, l, t)
  BY <1>1 DEF LineInv
<1>3. Len(l) < MaxLine /\ scr' = putc(s, c) /\ line' = Append(l, c) /\ touched' = t
      /\ buf_idx' = Len(l) + 1
  BY <1>1 DEF TypeLetter, Added, LineInv
<1>4. Further(s, putc(s, c))
  BY <1>2, PutcGood, Texts DEF Fits
<1>5. Append(l, c) \in Seq(Letters) /\ Len(Append(l, c)) = Len(l) + 1 /\ Append(l, c) # <<>>
  BY <1>2 DEF Fits
<1>6. Len(l) + 1 <= MaxLine /\ Len(l) + 1 \in Nat /\ Len(l) + 1 <= Bottom
  <2>1. Len(l) \in Nat /\ Len(l) < MaxLine
    BY <1>2, <1>3, FitsFacts
  <2>. QED  BY <2>1, Sizes
<1>7. t # "cleared" => Len(l) + 1 <= Pos(putc(s, c))
  <2>1. Pos(s) \in Nat /\ Len(l) \in Nat /\ (t # "cleared" => Len(l) <= Pos(s))
    BY <1>2, FitsFacts DEF Fits
  <2>2. Len(l) <= Pos(s) => Len(l) + 1 <= Pos(s) + 1
    BY <2>1
  <2>. QED  BY <1>4, <1>6, <2>1, <2>2 DEF Further
<1>8. t = "cleared" => putc(s, c).y >= 1
  <2>1. putc(s, c) \in Screens
    BY <1>4 DEF Further, Good, OnScreen
  <2>2. putc(s, c).y \in Nat /\ putc(s, c).y >= s.y /\ s.y \in Nat
    BY <1>2, <1>4, <2>1, Fields, FitsFacts DEF Further
  <2>. QED  BY <1>2, <2>2 DEF Fits
<1>9. Fits(putc(s, c), Append(l, c), t)
  BY <1>2, <1>4, <1>5, <1>6, <1>7, <1>8 DEF Fits, Further
<1>. QED  BY <1>3, <1>5, <1>9 DEF LineInv

\* Backspace takes a character off the line and moves the cursor back by a cell at most.
LEMMA BackspaceFits == ASSUME LineInv, Backspace PROVE LineInv'
<1>1. PICK s, l, t, b, m : s = scr /\ l = line /\ t = touched /\ b = backspace(scr) /\ m = Front(line)
  OBVIOUS
<1>2. Fits(s, l, t)
  BY <1>1 DEF LineInv
<1>0. t # "dead" /\ buf_idx = Len(l) /\ Len(l) \in Nat /\ l \in Seq(Letters)
  BY <1>1, <1>2, FitsFacts DEF Fits, LineInv
<1>3. l # <<>> /\ scr' = b /\ line' = m /\ touched' = Touch(t, m) /\ buf_idx' = Len(l) - 1
  BY <1>0, <1>1 DEF Backspace, Deleted
<1>4. m \in Seq(Letters) /\ Len(m) = Len(l) - 1 /\ Len(l) >= 1 /\ Len(l) \in Nat
  <2>1. l \in Seq(Letters) /\ Len(l) \in Nat
    BY <1>2, FitsFacts
  <2>2. Len(l) >= 1
    BY <1>3, <2>1
  <2>3. m = SubSeq(l, 1, Len(l) - 1)
    BY <1>1 DEF Front
  <2>4. PICK n : n = Len(l) - 1
    OBVIOUS
  <2>5. n \in Nat /\ 1 \in Nat /\ 1 >= 1 /\ 1 <= n + 1 /\ n <= Len(l)
    BY <2>1, <2>2, <2>4
  <2>6. m \in Seq(Letters) /\ Len(m) = n + 1 - 1
    BY <2>1, <2>3, <2>4, <2>5, PartOf
  <2>. QED  BY <2>1, <2>2, <2>4, <2>5, <2>6
<1>5. Pos(s) >= 1 \/ s.y >= 1
  BY <1>2, <1>4, FitsFacts
<1>6. Good(b) /\ Pos(b) >= Pos(s) - 1 /\ b.y = s.y
  BY <1>1, <1>2, <1>5, BackspaceGood, FitsFacts
<1>7. Pos(b) \in Nat
  BY <1>6, Fields DEF Good, OnScreen
<1>8. Len(m) <= MaxLine /\ (t # "cleared" => Len(m) <= Pos(b))
  <2>1. Len(l) <= MaxLine /\ Pos(s) \in Nat /\ (t # "cleared" => Len(l) <= Pos(s))
    BY <1>2, FitsFacts DEF Fits
  <2>2. Len(m) <= MaxLine
    BY <1>4, <2>1, Sizes
  <2>3. Len(l) <= Pos(s) => Len(m) <= Pos(b)
    BY <1>4, <1>6, <1>7, <2>1
  <2>. QED  BY <2>1, <2>2, <2>3
<1>9. CASE m = <<>>
  <2>1. Touch(t, m) = "no" /\ Len(m) = 0
    BY <1>0, <1>1, <1>9 DEF Touch
  <2>2. Len(m) <= Pos(b)
    BY <1>7, <2>1
  <2>3. Fits(b, m, "no")
    BY <1>4, <1>6, <1>8, <2>2, FitsBy
  <2>. QED  BY <1>3, <1>4, <2>1, <2>3 DEF LineInv
<1>10. CASE m # <<>>
  <2>1. Touch(t, m) = t
    BY <1>1, <1>10 DEF Touch
  <2>2. Fits(b, m, t)
    BY <1>2, <1>4, <1>6, <1>8, <1>10 DEF Fits
  <2>. QED  BY <1>3, <1>4, <2>1, <2>2 DEF LineInv
<1>. QED  BY <1>9, <1>10

\* Enter begins a new line, whatever was in the old one.
LEMMA ReturnFits == ASSUME AnyLineInv, keyboard_return PROVE LineInv'
<1>1. PICK s : s = scr
  OBVIOUS
<1>2. Good(putc(s, NL))
  BY <1>1, NewlineGood DEF AnyLineInv, TypeOK, BlankScreens
<1>3. scr' = putc(s, NL) /\ line' = <<>> /\ touched' = "no" /\ buf_idx' = 0
  BY <1>1 DEF keyboard_return
<1>4. Pos(putc(s, NL)) \in Nat
  BY <1>2, Fields DEF Good, OnScreen
<1>5. Fits(putc(s, NL), <<>>, "no")
  BY <1>2, <1>4, Sizes DEF Fits
<1>. QED  BY <1>3, <1>5 DEF LineInv

\* A recalled line takes the place of the one that is erased.
LEMMA MoveFits == ASSUME LineInv, NEW l \in Recalled, MoveInHistory(l) PROVE LineInv'
<1>1. PICK s, k, t, e, p : s = scr /\ k = line /\ t = touched /\ e = Erase(s, Len(k)) /\ p = PutAll(e, l)
  OBVIOUS
<1>2. Fits(s, k, t)
  BY <1>1 DEF LineInv
<1>3. scr' = p /\ line' = l /\ touched' = Touch(t, l) /\ buf_idx' = Len(l) /\ touched # "dead"
  BY <1>1, <1>2 DEF MoveInHistory, LineErased, LineInv, Fits
<1>4. l \in Seq(Letters) /\ Len(l) \in Nat /\ Len(l) <= MaxLine /\ Len(l) <= Bottom /\ l \in Seq(Chars)
  BY ScreenAssumption, Sizes, Texts
<1>5. Good(e) /\ e.y = s.y
  BY <1>1, <1>2, EraseGood, FitsFacts
<1>6. Pos(e) \in Nat /\ e.y \in Nat
  BY <1>5, Fields DEF Good, OnScreen
<1>7. Good(p) /\ p.y >= e.y /\ \A m \in Nat : m <= Bottom /\ m <= Pos(e) + Len(l) => m <= Pos(p)
  BY <1>1, <1>4, <1>5, PutAllGood
<1>8. Len(l) <= Pos(p) /\ Len(l) <= Pos(e) + Len(l) /\ p.y \in Nat
  <2>1. Len(l) <= Pos(e) + Len(l)
    BY <1>4, <1>6
  <2>2. p.y \in Nat
    BY <1>7, Fields DEF Good, OnScreen
  <2>. QED  BY <1>4, <1>7, <2>1, <2>2
<1>9. Touch(t, l) \in {"no", "printed", "cleared"} /\ (Touch(t, l) # "no" => l # <<>>)
      /\ (Touch(t, l) = "cleared" => t = "cleared")
  BY <1>2, <1>3 DEF Touch, Fits
<1>10. t = "cleared" => p.y >= 1
  BY <1>2, <1>5, <1>6, <1>7, <1>8 DEF Fits
<1>11. Fits(p, l, Touch(t, l))
  BY <1>4, <1>7, <1>8, <1>9, <1>10, FitsBy
<1>. QED  BY <1>3, <1>11 DEF LineInv

\* What completion does to a line of letters: it adds to its end.
LEMMA CompletedLine ==
  ASSUME line \in Seq(Letters), NEW i, NEW suffix \in Completions, autocomplete(i, suffix)
  PROVE  LET new == line \o suffix IN
         /\ Len(new) <= MaxLine /\ line' = new /\ buf_idx' = Len(new) /\ touched' = touched
         /\ scr' = PutAll(Erase(scr, Len(line) - 1 - i), SubSeq(new, i + 2, Len(new)))
<1>1. PICK new : new = line \o suffix
  OBVIOUS
<1>2. String(line) = line
  BY StringOfLetters
<1>3. Len(new) >= Len(line)
  <2>1. suffix \in Seq(Letters)
    BY ScreenAssumption
  <2>. QED  BY <1>1, <2>1
<1>4. line' = new
  BY <1>1, <1>2, <1>3 DEF autocomplete
<1>. QED  BY <1>1, <1>2, <1>4 DEF autocomplete

\* Completion erases a part of the line and prints it again with what it adds.
LEMMA AutocompleteFits ==
  ASSUME LineInv, NEW i \in 0..(strlen(line) - 1), NEW suffix \in Completions, autocomplete(i, suffix)
  PROVE  LineInv'
<1>1. PICK s, l, t, new, n : /\ s = scr /\ l = line /\ t = touched /\ new = l \o suffix
                             /\ n = Len(l) - 1 - i
  OBVIOUS
<1>2. PICK e, rest : e = Erase(s, n) /\ rest = SubSeq(new, i + 2, Len(new))
  OBVIOUS
<1>3. PICK p : p = PutAll(e, rest)
  OBVIOUS
<1>4. Fits(s, l, t)
  BY <1>1 DEF LineInv
<1>5. scr' = p /\ line' = new /\ touched' = t /\ Len(new) <= MaxLine /\ buf_idx' = Len(new)
  BY <1>1, <1>2, <1>3, CompletedLine DEF LineInv, Fits
<1>6. l \in Seq(Letters) /\ Len(l) \in Nat /\ i \in Nat /\ i <= Len(l) - 1
  <2>1. l \in Seq(Letters) /\ Len(l) \in Nat
    BY <1>4, FitsFacts
  <2>. QED  BY <1>1, <2>1, StringOfLetters
<1>7. n \in Nat /\ n <= Len(l)
  BY <1>1, <1>6
<1>8. suffix \in Seq(Letters)
  BY ScreenAssumption
<1>9. new \in Seq(Letters) /\ Len(new) = Len(l) + Len(suffix) /\ Len(new) \in Nat
  BY <1>1, <1>6, <1>8
<1>10. Len(suffix) \in Nat
  BY <1>8
<1>11. rest \in Seq(Letters) /\ Len(rest) = Len(new) + 1 - (i + 2)
  <2>1. i + 2 \in Nat /\ i + 2 >= 1 /\ i + 2 <= Len(new) + 1
    BY <1>6, <1>9, <1>10
  <2>. QED  BY <1>2, <1>9, <2>1, PartOf
<1>12. n <= Pos(s) \/ s.y >= 1
  BY <1>4, <1>6, <1>7, FitsFacts
<1>13. Good(e) /\ e.y = s.y /\ Pos(e) >= Pos(s) - n
  BY <1>2, <1>4, <1>7, <1>12, EraseGood, FitsFacts
<1>14. Pos(e) \in Nat /\ e.y \in Nat
  BY <1>13, Fields DEF Good, OnScreen
<1>15. Good(p) /\ p.y >= e.y /\ \A m \in Nat : m <= Bottom /\ m <= Pos(e) + Len(rest) => m <= Pos(p)
  BY <1>3, <1>11, <1>13, PutAllGood, Texts
<1>16. p.y \in Nat
  BY <1>15, Fields DEF Good, OnScreen
<1>17. ASSUME Len(l) <= Pos(s) PROVE Len(new) <= Pos(p)
  <2>1. Pos(s) \in Nat
    BY <1>4, FitsFacts
  <2>2. Len(new) <= Pos(e) + Len(rest)
    BY <1>1, <1>6, <1>9, <1>11, <1>13, <1>14, <1>17, <2>1
  <2>3. Len(new) <= Bottom
    BY <1>5, <1>9, Sizes
  <2>. QED  BY <1>9, <1>15, <2>2, <2>3
<1>18. t = "cleared" => p.y >= 1
  BY <1>4, <1>13, <1>14, <1>15, <1>16 DEF Fits
<1>19. new # <<>>
  BY <1>6, <1>9, <1>10
<1>20. Fits(p, new, t)
  BY <1>4, <1>5, <1>9, <1>15, <1>17, <1>18, <1>19 DEF Fits
<1>. QED  BY <1>5, <1>20 DEF LineInv

\* A line that is printed last stands in front of the cursor.
LEMMA PrintedLineFits ==
  ASSUME NEW s, Good(s), NEW a \in Seq(Chars), NEW l \in Seq(Letters), Len(l) <= MaxLine
  PROVE  Fits(PutAll(s, a \o l), l, "no")
<1>1. PICK text, p : text = a \o l /\ p = PutAll(s, text)
  OBVIOUS
<1>2. l \in Seq(Chars) /\ Len(l) \in Nat /\ Len(a) \in Nat /\ Len(l) <= Bottom
  BY Texts, Sizes
<1>3. text \in Seq(Chars) /\ Len(text) = Len(a) + Len(l)
  BY <1>1, <1>2
<1>4. Pos(s) \in Nat
  BY Fields DEF Good, OnScreen
<1>5. Good(p) /\ \A m \in Nat : m <= Bottom /\ m <= Pos(s) + Len(text) => m <= Pos(p)
  BY <1>1, <1>3, PutAllGood
<1>6. Len(l) <= Pos(s) + Len(text)
  BY <1>2, <1>3, <1>4
<1>7. Len(l) <= Pos(p)
  BY <1>2, <1>5, <1>6
<1>. QED  BY <1>1, <1>5, <1>7, FitsBy

\* The listing of the matches prints the line again.
LEMMA ListFits == ASSUME LineInv, NEW c \in Output, ListMatches(<<c>>) PROVE LineInv'
<1>1. PICK s, l, a : s = scr /\ l = line /\ a = <<NL>> \o <<c>> \o <<NL>> \o Prompt
  OBVIOUS
<1>2. Fits(s, l, touched)
  BY <1>1 DEF LineInv
<1>3. <<NL>> \in Seq(Chars) /\ <<c>> \in Seq(Chars) /\ Prompt \in Seq(Chars)
  BY Texts
<1>4. a \in Seq(Chars)
  BY <1>1, <1>3
<1>5. scr' = PutAll(s, a \o l) /\ line' = l /\ touched' = "no" /\ buf_idx' = buf_idx
  BY <1>1, <1>2 DEF ListMatches, Touch, Fits
<1>6. Fits(PutAll(s, a \o l), l, "no")
  BY <1>2, <1>4, FitsFacts, PrintedLineFits
<1>. QED  BY <1>1, <1>5, <1>6 DEF LineInv

\* Ctrl+L prints the line again on a cleared screen.
LEMMA CtrlLFits == ASSUME LineInv, CtrlL PROVE LineInv'
<1>1. PICK l : l = line
  OBVIOUS
<1>2. Fits(scr, l, touched)
  BY <1>1 DEF LineInv
<1>0. String(l) = l
  BY <1>2, FitsFacts, StringOfLetters
<1>3. PICK a \in {Prompt, <<>>} : scr' = PutAll(Cleared, a \o l)
  BY <1>0, <1>1 DEF CtrlL
<1>4. a \in Seq(Chars)
  <2>1. <<>> \in Seq(Chars)
    OBVIOUS
  <2>. QED  BY <1>3, <2>1, Texts
<1>5. line' = l /\ touched' = "no" /\ buf_idx' = buf_idx
  BY <1>1, <1>2 DEF CtrlL, Touch, Fits
<1>6. Fits(PutAll(Cleared, a \o l), l, "no")
  BY <1>2, <1>4, ClearedGood, FitsFacts, PrintedLineFits
<1>. QED  BY <1>1, <1>3, <1>5, <1>6 DEF LineInv

\* Output of a program moves the cursor on.
LEMMA WriteFits == ASSUME LineInv, NEW text \in Seq(Chars), terminal_write(text) PROVE LineInv'
<1>1. PICK s, l, t, p : s = scr /\ l = line /\ t = touched /\ p = PutAll(s, text)
  OBVIOUS
<1>2. Fits(s, l, t)
  BY <1>1 DEF LineInv
<1>3. scr' = p /\ line' = l /\ touched' = IF t = "cleared" THEN t ELSE Touch("printed", l)
  BY <1>1 DEF terminal_write
<1>0. buf_idx' = Len(l) /\ touched # "dead"
  BY <1>1, <1>2 DEF terminal_write, LineInv, Fits
<1>4. Good(p) /\ p.y >= s.y /\ \A m \in Nat : m <= Bottom /\ m <= Pos(s) + Len(text) => m <= Pos(p)
  BY <1>1, <1>2, FitsFacts, PutAllGood
<1>5. CASE t = "cleared"
  <2>1. p.y \in Nat /\ s.y \in Nat
    BY <1>2, <1>4, Fields, FitsFacts DEF Good, OnScreen
  <2>2. p.y >= 1
    BY <1>2, <1>4, <1>5, <2>1 DEF Fits
  <2>3. l # <<>>
    BY <1>2, <1>5 DEF Fits
  <2>4. Fits(p, l, "cleared")
    BY <1>2, <1>4, <2>2, <2>3, FitsCleared, FitsFacts
  <2>. QED  BY <1>0, <1>3, <1>5, <2>4 DEF LineInv
<1>6. CASE t # "cleared"
  <2>1. Len(l) \in Nat /\ Len(l) <= Bottom /\ Pos(s) \in Nat /\ Len(text) \in Nat
    BY <1>2, FitsFacts
  <2>2. Len(l) <= Pos(s)
    BY <1>2, <1>6 DEF Fits
  <2>3. Len(l) <= Pos(s) + Len(text)
    BY <2>1, <2>2
  <2>4. Len(l) <= Pos(p)
    BY <1>4, <2>1, <2>3
  <2>5. PICK w : w = Touch("printed", l)
    OBVIOUS
  <2>6. w \in {"no", "printed"} /\ (w # "no" => l # <<>>)
    BY <1>0, <2>5 DEF Touch
  <2>7. Fits(p, l, w)
    BY <1>2, <1>4, <2>4, <2>6, FitsBy, FitsFacts
  <2>. QED  BY <1>0, <1>3, <1>6, <2>5, <2>7 DEF LineInv
<1>. QED  BY <1>5, <1>6

\* The exception of another terminal's program leaves the line, but not the first row.
LEMMA ExceptionFits == ASSUME LineInv, ForeignException PROVE LineInv'
<1>1. PICK l, p : l = line /\ p = putc(Cleared, NL)
  OBVIOUS
<1>2. Fits(scr, l, touched)
  BY <1>1 DEF LineInv
<1>3. scr' = p /\ line' = l /\ touched' = Touch("cleared", l)
  BY <1>1 DEF ForeignException
<1>0. buf_idx' = Len(l) /\ touched # "dead"
  BY <1>1, <1>2 DEF ForeignException, LineInv, Fits
<1>4. Further(Cleared, p) /\ PutNewline(Cleared, p)
  BY <1>1, ClearedGood, PutcGood, PutcNewline, Texts DEF OnScreen
<1>5. CASE l = <<>>
  <2>1. Touch("cleared", l) = "no" /\ Len(l) = 0
    BY <1>0, <1>5 DEF Touch
  <2>2. Pos(p) \in Nat
    BY <1>4, Fields DEF Further, Good, OnScreen
  <2>3. Len(l) <= Pos(p)
    BY <2>1, <2>2
  <2>4. Fits(p, l, "no")
    BY <1>2, <1>4, <2>3, FitsBy, FitsFacts DEF Further
  <2>. QED  BY <1>0, <1>3, <2>1, <2>4 DEF LineInv
<1>6. CASE l # <<>>
  <2>1. Touch("cleared", l) = "cleared"
    BY <1>0, <1>6 DEF Touch
  <2>2. Len(l) >= 1 /\ Len(l) <= Bottom /\ Len(l) \in Nat
    BY <1>2, <1>6, FitsFacts
  <2>3. NUM_ROWS >= 2
    <3>1. CASE NUM_ROWS = 1
      <4>1. Bottom = NUM_COLS * 0
        BY <3>1, Sizes
      <4>2. NUM_COLS * 0 = 0
        BY Sizes
      <4>. QED  BY <2>2, <4>1, <4>2
    <3>. QED  BY <3>1, Sizes
  <2>4. p.y >= 1
    <3>1. p.y >= 1 \/ p.y = NUM_ROWS - 1
      BY <1>4 DEF PutNewline
    <3>. QED  BY <2>3, <3>1, Sizes
  <2>5. Fits(p, l, "cleared")
    BY <1>2, <1>4, <1>6, <2>4, FitsCleared, FitsFacts DEF Further
  <2>. QED  BY <1>0, <1>3, <2>1, <2>5 DEF LineInv
<1>. QED  BY <1>5, <1>6

-----------------------------------------------------------------------------
(* Any line, keys without a character included.                             *)

Histories == {"no", "printed", "cleared", "dead"}

\* A buffer with an index in it.
Buffer(l, n) == l \in Seq(BufferChars) /\ Len(l) <= MaxLine /\ n \in 0..Len(l)

LEMMA AnyLine == AnyLineInv <=> scr \in BlankScreens /\ Buffer(line, buf_idx) /\ touched \in Histories
  BY DEF AnyLineInv, TypeOK, BlankScreens, Buffer, BufferChars, Histories

LEMMA AnyLineNext ==
  ASSUME scr' \in BlankScreens, Buffer(line', buf_idx'), touched' \in Histories
  PROVE  AnyLineInv'
  BY DEF AnyLineInv, TypeOK, BlankScreens, Buffer, BufferChars, Histories

LEMMA Touched ==
  ASSUME touched \in Histories, NEW w \in Histories, NEW l
  PROVE  Touch(w, l) \in Histories
  BY DEF Touch, Histories

\* All that is printed are characters, or NULs that are skipped.
LEMMA AnyTexts ==
  /\ Letters \subseteq BufferChars /\ NUL \in BufferChars /\ NUL \in AllChars /\ NL \in AllChars
  /\ Letters \subseteq AllChars /\ Output \subseteq AllChars
  /\ Seq(Letters) \subseteq Seq(BufferChars) /\ Seq(BufferChars) \subseteq Seq(AllChars)
  /\ Seq(Chars) \subseteq Seq(AllChars) /\ Prompt \in Seq(AllChars) /\ <<>> \in Seq(AllChars)
<1>1. /\ Letters \subseteq BufferChars /\ NUL \in BufferChars /\ NUL \in AllChars /\ NL \in AllChars
      /\ Letters \subseteq AllChars /\ Output \subseteq AllChars
      /\ BufferChars \subseteq AllChars /\ Chars \subseteq AllChars
  BY DEF BufferChars, AllChars, Chars
<1>2. /\ Seq(Letters) \subseteq Seq(BufferChars) /\ Seq(BufferChars) \subseteq Seq(AllChars)
      /\ Seq(Chars) \subseteq Seq(AllChars)
  BY <1>1, SeqMonotonic
<1>3. <<>> \in Seq(AllChars)
  OBVIOUS
<1>. QED  BY <1>1, <1>2, <1>3, Texts

\* strlen stops at the first NUL, or at the end.
LEMMA StringOf ==
  ASSUME NEW l \in Seq(BufferChars)
  PROVE  /\ strlen(l) \in 0..Len(l)
         /\ String(l) \in Seq(BufferChars) /\ Len(String(l)) = strlen(l)
<1>. DEFINE Ends(n) == (\A k \in 1..n : l[k] # NUL) /\ (n = Len(l) \/ l[n + 1] = NUL)
<1>. DEFINE S == {n \in 0..Len(l) : n = Len(l) \/ l[n + 1] = NUL}
<1>0. Len(l) \in Nat
  OBVIOUS
<1>1. S \subseteq Nat /\ S # {}
  <2>1. Len(l) \in S
    BY <1>0
  <2>. QED  BY <1>0, <2>1
<1>2. PICK m \in S : \A k \in S : m <= k
  <2>. HIDE DEF S
  <2>. QED  BY <1>1, LeastNatural, Zenon
<1>3. m \in 0..Len(l) /\ m \in Nat /\ (m = Len(l) \/ l[m + 1] = NUL)
  BY <1>0, <1>2
<1>4. ASSUME NEW k \in 1..m PROVE l[k] # NUL
  <2>1. k - 1 \in 0..Len(l) /\ k - 1 + 1 = k /\ ~(m <= k - 1)
    BY <1>0, <1>3
  <2>2. k - 1 \notin S
    BY <1>2, <2>1
  <2>. QED  BY <2>1, <2>2
<1>5. Ends(m)
  BY <1>3, <1>4
<1>6. strlen(l) \in 0..Len(l)
  <2>1. strlen(l) = CHOOSE n \in 0..Len(l) : Ends(n)
    BY DEF strlen
  <2>. HIDE DEF Ends, S
  <2>. QED  BY <1>3, <1>5, <2>1
<1>7. PICK n : n = strlen(l)
  OBVIOUS
<1>8. n \in Nat /\ 1 \in Nat /\ 1 >= 1 /\ 1 <= n + 1 /\ n <= Len(l) /\ n + 1 - 1 = n
  BY <1>0, <1>6, <1>7
<1>9. SubSeq(l, 1, n) \in Seq(BufferChars) /\ Len(SubSeq(l, 1, n)) = n + 1 - 1
  BY <1>8, PartOf
<1>. QED  BY <1>6, <1>7, <1>8, <1>9 DEF String

LEMMA Joined ==
  ASSUME NEW S, NEW a \in Seq(S), NEW b \in Seq(S)
  PROVE  /\ a \o b \in Seq(S) /\ Len(a \o b) = Len(a) + Len(b)
         /\ \A j \in 1..Len(a) : (a \o b)[j] = a[j]
         /\ \A k \in 1..Len(b) : (a \o b)[Len(a) + k] = b[k]
  OBVIOUS

\* Typing stores a character at the index, and shows it unless it is a NUL.
LEMMA TypeAny ==
  ASSUME AnyLineInv, NEW c \in BufferChars, buf_idx < MaxLine, line' = Added(c),
         buf_idx' = buf_idx + 1, scr' = putc(scr, c), touched' \in Histories
  PROVE  AnyLineInv'
<1>1. PICK s, l, n, m : s = scr /\ l = line /\ n = buf_idx /\ m = Added(c)
  OBVIOUS
<1>2. s \in BlankScreens /\ Buffer(l, n)
  BY <1>1, AnyLine
<1>3. c \in AllChars
  BY AnyTexts DEF BufferChars
<1>4. putc(s, c) \in BlankScreens
  BY <1>2, <1>3, PutcBlank DEF PutcIn
<1>5. l \in Seq(BufferChars) /\ Len(l) \in Nat /\ Len(l) <= MaxLine /\ n \in 0..Len(l) /\ n < MaxLine
  BY <1>1, <1>2 DEF Buffer
<1>6. m = IF n = Len(l) THEN Append(l, c) ELSE [l EXCEPT ![n + 1] = c]
  BY <1>1 DEF Added
<1>7. CASE n = Len(l)
  <2>1. m \in Seq(BufferChars) /\ Len(m) = Len(l) + 1
    BY <1>5, <1>6, <1>7
  <2>2. Len(m) <= MaxLine /\ n + 1 \in 0..Len(m)
    BY <1>5, <1>7, <2>1, Sizes
  <2>3. Buffer(m, n + 1)
    BY <2>1, <2>2 DEF Buffer
  <2>. QED  BY <1>1, <1>4, <2>3, AnyLineNext
<1>8. CASE n # Len(l)
  <2>1. n + 1 \in 1..Len(l) /\ n + 1 \in 0..Len(l)
    BY <1>5, <1>8
  <2>2. m = [l EXCEPT ![n + 1] = c]
    BY <1>6, <1>8
  <2>3. m \in Seq(BufferChars) /\ Len(m) = Len(l)
    BY <1>5, <2>1, <2>2
  <2>4. Buffer(m, n + 1)
    BY <1>5, <2>1, <2>3 DEF Buffer
  <2>. QED  BY <1>1, <1>4, <2>4, AnyLineNext
<1>. QED  BY <1>7, <1>8

\* Backspace takes the character in front of the index, if there is an index to take back.
LEMMA BackspaceAny == ASSUME AnyLineInv, Backspace PROVE AnyLineInv'
<1>1. PICK s, l, n, m : s = scr /\ l = line /\ n = buf_idx /\ m = Deleted
  OBVIOUS
<1>2. s \in BlankScreens /\ Buffer(l, n) /\ touched \in Histories
  BY <1>1, AnyLine
<1>3. n > 0 /\ scr' = backspace(s) /\ line' = m /\ buf_idx' = n - 1 /\ touched' \in Histories
  BY <1>1, <1>2, Touched DEF Backspace
<1>4. backspace(s) \in BlankScreens
  BY <1>2, BackspaceBlank DEF BackspaceIn
<1>5. l \in Seq(BufferChars) /\ Len(l) \in Nat /\ Len(l) <= MaxLine /\ n \in 0..Len(l)
  BY <1>2 DEF Buffer
<1>6. m = IF n = Len(l) THEN Front(l) ELSE [l EXCEPT ![n] = NUL]
  BY <1>1 DEF Deleted
<1>7. CASE n = Len(l)
  <2>1. PICK j : j = Len(l) - 1
    OBVIOUS
  <2>2. j \in Nat /\ 1 \in Nat /\ 1 >= 1 /\ 1 <= j + 1 /\ j <= Len(l) /\ j + 1 - 1 = j /\ n - 1 = j
    BY <1>3, <1>5, <1>7, <2>1
  <2>3. m = SubSeq(l, 1, j)
    BY <1>6, <1>7, <2>1 DEF Front
  <2>4. m \in Seq(BufferChars) /\ Len(m) = j
    BY <1>5, <2>2, <2>3, PartOf
  <2>5. Len(m) <= MaxLine /\ j \in 0..Len(m)
    BY <1>5, <2>2, <2>4, Sizes
  <2>6. Buffer(m, n - 1)
    BY <2>2, <2>4, <2>5 DEF Buffer
  <2>. QED  BY <1>3, <1>4, <2>6, AnyLineNext
<1>8. CASE n # Len(l)
  <2>1. n \in 1..Len(l) /\ n - 1 \in 0..Len(l)
    BY <1>3, <1>5
  <2>2. m = [l EXCEPT ![n] = NUL]
    BY <1>6, <1>8
  <2>3. m \in Seq(BufferChars) /\ Len(m) = Len(l)
    BY <1>5, <2>1, <2>2, AnyTexts
  <2>4. Buffer(m, n - 1)
    BY <1>5, <2>1, <2>3 DEF Buffer
  <2>. QED  BY <1>3, <1>4, <2>4, AnyLineNext
<1>. QED  BY <1>7, <1>8

\* Enter empties the buffer.
LEMMA ReturnAny == ASSUME AnyLineInv, keyboard_return PROVE AnyLineInv'
<1>1. scr \in BlankScreens
  BY AnyLine
<1>2. Good(putc(scr, NL))
  BY <1>1, NewlineGood
<1>3. putc(scr, NL) \in BlankScreens
  BY <1>2 DEF Good, OnScreen, BlankScreens
<1>4. Buffer(<<>>, 0) /\ "no" \in Histories
  BY Sizes DEF Buffer, Histories
<1>. QED  BY <1>3, <1>4, AnyLineNext DEF keyboard_return

\* Up and Down put a line of letters in the place of the buffer.
LEMMA MoveAny == ASSUME AnyLineInv, NEW l \in Recalled, MoveInHistory(l) PROVE AnyLineInv'
<1>1. PICK s, n, e, p : s = scr /\ n = buf_idx /\ e = Erase(s, n) /\ p = PutAll(e, l)
  OBVIOUS
<1>2. s \in BlankScreens /\ Buffer(line, n) /\ touched \in Histories
  BY <1>1, AnyLine
<1>3. n \in Nat
  BY <1>2 DEF Buffer
<1>4. scr' = p /\ line' = l /\ buf_idx' = Len(l) /\ touched' \in Histories
  BY <1>1, <1>2, Touched DEF MoveInHistory, LineErased
<1>5. l \in Seq(Letters) /\ Len(l) <= MaxLine
  BY ScreenAssumption
<1>6. l \in Seq(BufferChars) /\ l \in Seq(AllChars)
  BY <1>5, AnyTexts
<1>7. p \in BlankScreens
  BY <1>1, <1>2, <1>3, <1>6, EraseBlank, PutAllBlank
<1>8. Buffer(l, Len(l))
  BY <1>5, <1>6 DEF Buffer
<1>. QED  BY <1>4, <1>7, <1>8, AnyLineNext

\* TAB ends the string with a NUL of its own and leaves what stands behind it.
LEMMA AutocompleteAny ==
  ASSUME AnyLineInv, NEW i \in 0..(strlen(line) - 1), NEW suffix \in Completions, autocomplete(i, suffix)
  PROVE  AnyLineInv'
<1>1. PICK s, l, n, old, new : s = scr /\ l = line /\ n = strlen(l) /\ old = String(l) /\ new = old \o suffix
  OBVIOUS
<1>2. s \in BlankScreens /\ Buffer(l, buf_idx) /\ touched \in Histories
  BY <1>1, AnyLine
<1>3. l \in Seq(BufferChars) /\ Len(l) \in Nat /\ Len(l) <= MaxLine
  BY <1>2 DEF Buffer
<1>4. n \in 0..Len(l) /\ old \in Seq(BufferChars) /\ Len(old) = n
  BY <1>1, <1>3, StringOf
<1>5. suffix \in Seq(BufferChars) /\ Len(suffix) \in Nat
  <2>1. suffix \in Seq(Letters)
    BY ScreenAssumption
  <2>. QED  BY <2>1, AnyTexts
<1>6. new \in Seq(BufferChars) /\ Len(new) = n + Len(suffix) /\ Len(new) \in Nat
  <2>1. new = old \o suffix
    BY <1>1
  <2>2. new \in Seq(BufferChars) /\ Len(new) = Len(old) + Len(suffix)
    BY <1>4, <1>5, <2>1, Joined
  <2>. QED  BY <1>4, <1>5, <2>2
<1>7. PICK m : m = IF Len(new) >= Len(l) THEN new
                   ELSE new \o <<NUL>> \o SubSeq(l, Len(new) + 2, Len(l))
  OBVIOUS
<1>8. PICK e, rest : e = Erase(s, n - 1 - i) /\ rest = SubSeq(m, i + 2, Len(m))
  OBVIOUS
<1>9. Len(new) <= MaxLine /\ line' = m
  BY <1>1, <1>7 DEF autocomplete
<1>10. buf_idx' = Len(new) /\ touched' = touched /\ scr' = PutAll(e, rest)
  BY <1>1, <1>4, <1>8, <1>9 DEF autocomplete
<1>11. m \in Seq(BufferChars) /\ Len(m) <= MaxLine /\ Len(new) <= Len(m)
  <2>1. CASE Len(new) >= Len(l)
    BY <1>6, <1>7, <1>9, <2>1
  <2>2. CASE ~(Len(new) >= Len(l))
    <3>1. PICK a, tail : a = new \o <<NUL>> /\ tail = SubSeq(l, Len(new) + 2, Len(l))
      OBVIOUS
    <3>2. Len(new) + 2 \in Nat /\ Len(new) + 2 >= 1 /\ Len(new) + 2 <= Len(l) + 1
      BY <1>3, <1>6, <2>2
    <3>3. tail \in Seq(BufferChars) /\ Len(tail) = Len(l) + 1 - (Len(new) + 2)
      BY <1>3, <3>1, <3>2, PartOf
    <3>4. <<NUL>> \in Seq(BufferChars) /\ Len(<<NUL>>) = 1
      BY AnyTexts
    <3>5. a \in Seq(BufferChars) /\ Len(a) = Len(new) + 1
      BY <1>6, <3>1, <3>4
    <3>6. m = a \o tail
      BY <1>7, <2>2, <3>1
    <3>7. m \in Seq(BufferChars) /\ Len(m) = Len(a) + Len(tail)
      <4>1. tail \in Seq(BufferChars) /\ a \in Seq(BufferChars)
        BY <3>3, <3>5
      <4>. QED  BY <3>6, <4>1, Joined
    <3>8. Len(m) = Len(l)
      <4>1. PICK x, y, z : x = Len(new) /\ y = Len(l) /\ z = Len(m)
        OBVIOUS
      <4>2. x \in Nat /\ y \in Nat /\ z = x + 1 + (y + 1 - (x + 2))
        BY <1>3, <1>6, <3>3, <3>5, <3>7, <4>1
      <4>3. z = y
        BY <4>2
      <4>. QED  BY <4>1, <4>3
    <3>. QED  BY <1>3, <1>6, <2>2, <3>7, <3>8
  <2>. QED  BY <2>1, <2>2
<1>12. i \in Nat /\ n - 1 - i \in Nat /\ i + 2 <= n + 1
  BY <1>1, <1>3, <1>4
<1>13. rest \in Seq(BufferChars)
  <2>1. i + 2 \in Nat /\ i + 2 >= 1 /\ i + 2 <= Len(m) + 1 /\ Len(m) \in Nat /\ Len(m) <= Len(m)
    BY <1>4, <1>5, <1>6, <1>11, <1>12
  <2>. QED  BY <1>8, <1>11, <2>1, PartOf
<1>14. rest \in Seq(AllChars) /\ e \in BlankScreens
  BY <1>2, <1>8, <1>12, <1>13, AnyTexts, EraseBlank
<1>15. PutAll(e, rest) \in BlankScreens
  BY <1>14, PutAllBlank
<1>16. Buffer(m, Len(new))
  BY <1>6, <1>11 DEF Buffer
<1>. QED  BY <1>2, <1>9, <1>10, <1>15, <1>16, AnyLineNext

\* What only prints leaves nothing behind the cursor.
LEMMA PrintAny ==
  ASSUME AnyLineInv, NEW s \in BlankScreens, NEW text \in Seq(AllChars), scr' = PutAll(s, text),
         UNCHANGED <<line, buf_idx>>, touched' \in Histories
  PROVE  AnyLineInv'
<1>1. PutAll(s, text) \in BlankScreens
  BY PutAllBlank
<1>2. Buffer(line, buf_idx)
  BY AnyLine
<1>. QED  BY <1>1, <1>2, AnyLineNext

LEMMA ListAny == ASSUME AnyLineInv, NEW c \in Output, ListMatches(<<c>>) PROVE AnyLineInv'
<1>1. scr \in BlankScreens /\ Buffer(line, buf_idx) /\ touched \in Histories
  BY AnyLine
<1>2. PICK l : l = line
  OBVIOUS
<1>3. <<NL>> \in Seq(AllChars) /\ <<c>> \in Seq(AllChars) /\ Prompt \in Seq(AllChars) /\ l \in Seq(AllChars)
  BY <1>1, <1>2, AnyTexts DEF Buffer
<1>4. PICK text : text = <<NL>> \o <<c>> \o <<NL>> \o Prompt \o l
  OBVIOUS
<1>5. text \in Seq(AllChars)
  BY <1>3, <1>4
<1>6. scr' = PutAll(scr, text) /\ UNCHANGED <<line, buf_idx>>
  BY <1>2, <1>4 DEF ListMatches
<1>7. touched' \in Histories
  BY <1>1, Touched DEF ListMatches, Histories
<1>. QED  BY <1>1, <1>5, <1>6, <1>7, PrintAny

LEMMA CtrlLAny == ASSUME AnyLineInv, CtrlL PROVE AnyLineInv'
<1>1. Buffer(line, buf_idx) /\ touched \in Histories
  BY AnyLine
<1>2. PICK str : str = String(line)
  OBVIOUS
<1>3. str \in Seq(AllChars)
  BY <1>1, <1>2, AnyTexts, StringOf DEF Buffer
<1>4. PICK a \in {Prompt, <<>>} : scr' = PutAll(Cleared, a \o str)
  BY <1>2 DEF CtrlL
<1>5. a \in Seq(AllChars)
  BY <1>4, AnyTexts
<1>6. a \o str \in Seq(AllChars)
  BY <1>3, <1>5
<1>7. Cleared \in BlankScreens
  BY ClearedGood DEF BlankScreens, Good, OnScreen
<1>8. touched' \in Histories /\ UNCHANGED <<line, buf_idx>>
  BY <1>1, Touched DEF CtrlL, Histories
<1>. QED  BY <1>4, <1>6, <1>7, <1>8, PrintAny

LEMMA WriteAny == ASSUME AnyLineInv, NEW text \in Seq(Chars), terminal_write(text) PROVE AnyLineInv'
<1>1. scr \in BlankScreens /\ touched \in Histories
  BY AnyLine
<1>2. text \in Seq(AllChars)
  BY AnyTexts
<1>3. Touch("printed", line) \in Histories
  BY <1>1, Touched DEF Histories
<1>4. scr' = PutAll(scr, text) /\ UNCHANGED <<line, buf_idx>> /\ touched' \in Histories
  BY <1>1, <1>3 DEF terminal_write
<1>. QED  BY <1>1, <1>2, <1>4, PrintAny

LEMMA ExceptionAny == ASSUME AnyLineInv, ForeignException PROVE AnyLineInv'
<1>1. Buffer(line, buf_idx) /\ touched \in Histories
  BY AnyLine
<1>2. Cleared \in BlankScreens
  BY ClearedGood DEF BlankScreens, Good, OnScreen
<1>3. putc(Cleared, NL) \in BlankScreens
  BY <1>2, NewlineGood DEF BlankScreens, Good, OnScreen
<1>4. Touch("cleared", line) \in Histories
  BY <1>1, Touched DEF Histories
<1>. QED  BY <1>1, <1>3, <1>4, AnyLineNext DEF ForeignException

\* A key without a character stays noted until Enter.
LEMMA DeadStays ==
  ASSUME touched = "dead", [Next]_vars, ~keyboard_return
  PROVE  touched' = "dead"
  BY DEF Next, vars, TypeLetter, TypeDeadKey, Backspace, MoveInHistory, autocomplete, ListMatches, CtrlL,
         terminal_write, ForeignException, Touch

\* Every step keeps what is known of every line.
LEMMA StepAny == ASSUME AnyLineInv, [Next]_vars PROVE AnyLineInv'
<1>0. touched \in Histories
  BY AnyLine
<1>1. ASSUME NEW c \in Letters, TypeLetter(c) PROVE AnyLineInv'
  <2>1. c \in BufferChars
    BY AnyTexts
  <2>. QED  BY <1>0, <1>1, <2>1, TypeAny DEF TypeLetter
<1>2. CASE TypeDeadKey
  <2>1. NUL \in BufferChars /\ "dead" \in Histories
    BY AnyTexts DEF Histories
  <2>. QED  BY <1>2, <2>1, TypeAny DEF TypeDeadKey
<1>3. ASSUME NEW c \in Output \cup {NL}, terminal_write(<<c>>) PROVE AnyLineInv'
  <2>1. <<c>> \in Seq(Chars)
    BY Texts
  <2>. QED  BY <1>3, <2>1, WriteAny
<1>4. CASE terminal_write(Prompt)
  BY <1>4, Texts, WriteAny
<1>5. CASE UNCHANGED vars
  <2>1. scr' = scr /\ line' = line /\ buf_idx' = buf_idx /\ touched' = touched
    BY <1>5 DEF vars
  <2>. QED  BY <2>1, AnyLine, AnyLineNext
<1>. QED  BY <1>1, <1>2, <1>3, <1>4, <1>5, BackspaceAny, ReturnAny, MoveAny, AutocompleteAny, ListAny,
             CtrlLAny, ExceptionAny DEF Next

\* Every step keeps what is known of a line without such a key.
LEMMA StepFits ==
  ASSUME LineInv, [Next]_vars, touched' # "dead"
  PROVE  LineInv'
<1>0. ASSUME keyboard_return PROVE AnyLineInv
  <2>1. Good(scr) /\ line \in Seq(Letters) /\ Len(line) <= MaxLine /\ buf_idx = Len(line) /\ Len(line) \in Nat
    BY FitsFacts DEF LineInv
  <2>2. line \in Seq(BufferChars) /\ buf_idx \in 0..Len(line)
    BY <2>1, AnyTexts
  <2>3. scr \in BlankScreens
    BY <2>1 DEF Good, OnScreen, BlankScreens
  <2>4. touched \in Histories
    BY DEF LineInv, Fits, Histories
  <2>. QED  BY <2>1, <2>2, <2>3, <2>4, AnyLine DEF Buffer
<1>1. ASSUME NEW c \in Output \cup {NL}, terminal_write(<<c>>) PROVE LineInv'
  <2>1. <<c>> \in Seq(Chars)
    BY Texts
  <2>. QED  BY <1>1, <2>1, WriteFits
<1>2. CASE terminal_write(Prompt)
  BY <1>2, Texts, WriteFits
<1>3. CASE UNCHANGED vars
  <2>1. scr' = scr /\ line' = line /\ buf_idx' = buf_idx /\ touched' = touched
    BY <1>3 DEF vars
  <2>. QED  BY <2>1 DEF LineInv
<1>4. CASE TypeDeadKey
  BY <1>4 DEF TypeDeadKey
<1>5. CASE keyboard_return
  BY <1>0, <1>5, ReturnFits
<1>. QED  BY <1>1, <1>2, <1>3, <1>4, <1>5, TypeLetterFits, BackspaceFits, MoveFits, AutocompleteFits,
             ListFits, CtrlLFits, ExceptionFits DEF Next

\* The invariant holds in every reachable state.
THEOREM ScreenInvariant == Spec => []ScreenInv
<1>1. Init => ScreenInv
  <2>. SUFFICES ASSUME Init PROVE ScreenInv
    OBVIOUS
  <2>1. scr = Cleared /\ line = <<>> /\ buf_idx = 0 /\ touched = "no"
    BY DEF Init
  <2>2. Fits(Cleared, <<>>, "no") /\ Len(<<>>) = 0
    BY ClearedGood, Sizes DEF Fits
  <2>3. LineInv
    BY <2>1, <2>2 DEF LineInv
  <2>4. Buffer(<<>>, 0) /\ "no" \in Histories
    BY Sizes DEF Buffer, Histories
  <2>5. Cleared \in BlankScreens
    BY ClearedGood DEF BlankScreens, Good, OnScreen
  <2>6. AnyLineInv
    BY <2>1, <2>4, <2>5, AnyLine
  <2>. QED  BY <2>3, <2>6 DEF ScreenInv
<1>2. ScreenInv /\ [Next]_vars => ScreenInv'
  <2>. SUFFICES ASSUME ScreenInv, [Next]_vars PROVE ScreenInv'
    OBVIOUS
  <2>1. AnyLineInv /\ AnyLineInv'
    BY StepAny DEF ScreenInv
  <2>2. ASSUME touched' # "dead" PROVE LineInv'
    <3>1. CASE keyboard_return
      BY <2>1, <3>1, ReturnFits
    <3>2. CASE ~keyboard_return
      <4>1. LineInv
        BY <2>2, <3>2, DeadStays DEF ScreenInv
      <4>. QED  BY <2>2, <4>1, StepFits
    <3>. QED  BY <3>1, <3>2
  <2>. QED  BY <2>1, <2>2 DEF ScreenInv
<1>. QED  BY <1>1, <1>2, PTL DEF Spec

\* The state has its type, with keys without a character too: the column is never
\* negative by a whole row.
THEOREM TypeCorrect == Spec => []TypeOK
<1>1. ScreenInv => TypeOK
  BY DEF ScreenInv, AnyLineInv
<1>. QED  BY <1>1, ScreenInvariant, PTL

\* For every size of the screen: the cursor never leaves it at the end, and never at the
\* beginning while the line holds no key without a character; unless the screen was
\* cleared under the line there is then a cell in front of the cursor for every character
\* that can still be erased.
THEOREM CursorStaysOnScreen == Spec => []CursorOnScreen
<1>1. ScreenInv => CursorOnScreen
  <2>. SUFFICES ASSUME ScreenInv PROVE CursorOnScreen
    OBVIOUS
  <2>1. scr \in Screens
    BY DEF ScreenInv, AnyLineInv, TypeOK
  <2>2. Pos(scr) < Size
    BY <2>1, Fields
  <2>3. touched # "dead" => Pos(scr) >= 0
    BY DEF ScreenInv, LineInv, Fits, Good, OnScreen
  <2>4. touched \notin {"cleared", "dead"} => buf_idx <= Pos(scr)
    BY DEF ScreenInv, LineInv, Fits
  <2>. QED  BY <2>2, <2>3, <2>4 DEF CursorOnScreen
<1>. QED  BY <1>1, ScreenInvariant, PTL

\* For every size of the screen: whatever is typed, erased, printed or scrolled away,
\* keys without a character included, the cells from the cursor on are blank.
THEOREM NothingStale == Spec => []BlankAfterCursor
<1>1. ScreenInv => BlankAfterCursor
  <2>. SUFFICES ASSUME ScreenInv PROVE BlankAfterCursor
    OBVIOUS
  <2>1. scr \in Screens /\ BlankFrom(scr)
    BY DEF ScreenInv, AnyLineInv, TypeOK
  <2>2. DOMAIN scr.cells = 0..(Size - 1)
    BY <2>1, Fields
  <2>. QED  BY <2>1, <2>2 DEF BlankAfterCursor, BlankFrom
<1>. QED  BY <1>1, ScreenInvariant, PTL

-----------------------------------------------------------------------------
(* The line in front of the cursor.                                         *)

\* The line l stands right in front of the cursor.
Shown(s, l) ==
  /\ Len(l) <= Pos(s)
  /\ \A k \in 1..Len(l) : s.cells[Pos(s) - Len(l) + k - 1] = l[k]

\* n characters ago the cursor was in column col, of this row or of the one before.
Column(s, n, col) == s.x - n = col \/ s.x - n = col - NUM_COLS

\* The line is displayed and can be erased: it begins no further right than after the
\* prompt, in the row of the cursor or in the one before.
Echo(s, l) ==
  /\ Good(s)
  /\ l \in Seq(Letters) /\ Len(l) <= MaxLine
  /\ Shown(s, l)
  /\ \E col \in 0..Len(Prompt) : Column(s, Len(l), col)

\* The remainder of a column.
LEMMA ColumnRemainder ==
  ASSUME NEW x \in Int, x > -NUM_COLS, x < NUM_COLS
  PROVE  x % NUM_COLS = IF x >= 0 THEN x ELSE x + NUM_COLS
<1>1. NUM_COLS \in Nat /\ NUM_COLS > 0
  BY Sizes
<1>2. CASE x >= 0
  BY <1>1, <1>2
<1>3. CASE x < 0
  BY <1>1, <1>3
<1>. QED  BY <1>2, <1>3

\* The prompt and a line after it end within the second row.
LEMMA PromptLength == Len(Prompt) \in Nat /\ Len(Prompt) + MaxLine < 2 * NUM_COLS
  BY ScreenAssumption

\* The column after another character: at most one row has ended since the line began.
LEMMA PutColumn ==
  ASSUME NEW s \in OnScreen, NEW c \in Glyphs, c # NL, c # NUL, NEW n \in Nat, NEW col \in Nat,
         n + 1 + col < 2 * NUM_COLS, Column(s, n, col)
  PROVE  Column(putc(s, c), n + 1, col)
<1>1. putc(s, c).x = IF s.x + 1 < NUM_COLS THEN s.x + 1 ELSE 0
  BY PutcChar DEF PutChar
<1>2. s.x \in Int /\ s.x < NUM_COLS
  BY Fields DEF OnScreen
<1>3. PICK x, z : x = s.x /\ z = putc(s, c).x
  OBVIOUS
<1>4. (x - n = col \/ x - n = col - NUM_COLS) /\ z = IF x + 1 < NUM_COLS THEN x + 1 ELSE 0
  BY <1>1, <1>3 DEF Column
<1>5. z - (n + 1) = col \/ z - (n + 1) = col - NUM_COLS
  BY <1>2, <1>3, <1>4, Sizes
<1>. QED  BY <1>3, <1>5 DEF Column

\* The character joins the line on the screen, also when everything moves up by a row.
LEMMA PutShown ==
  ASSUME NEW s \in OnScreen, NEW l \in Seq(Letters), NEW c \in Letters, Shown(s, l),
         Len(l) + 1 <= Bottom
  PROVE  Shown(putc(s, c), Append(l, c))
<1>0. c \in Glyphs /\ c # NL /\ c # NUL
  BY ScreenAssumption DEF Glyphs
<1>1. PICK t, n, w, p : t = putc(s, c) /\ n = Len(l) /\ w = CellsWith(s, c) /\ p = Pos(s)
  OBVIOUS
<1>2. PutChar(s, c, t) /\ w \in [0..(Size - 1) -> Glyphs]
  BY <1>0, <1>1, PutcChar, WrittenChanges
<1>3. p \in Nat /\ p < Size /\ n \in Nat /\ n <= p /\ s.cells \in [0..(Size - 1) -> Glyphs]
  BY <1>1, Fields DEF OnScreen, Shown
<1>4. Append(l, c) \in Seq(Letters) /\ Len(Append(l, c)) = n + 1
      /\ \A k \in 1..(n + 1) : Append(l, c)[k] = IF k = n + 1 THEN c ELSE l[k]
  BY <1>1
<1>5. ASSUME NEW k \in 1..(n + 1)
      PROVE  p - n + k - 1 \in 0..(Size - 1) /\ w[p - n + k - 1] = Append(l, c)[k]
  <2>1. p - n + k - 1 \in 0..(Size - 1)
    BY <1>3, Sizes
  <2>2. w[p - n + k - 1] = IF p - n + k - 1 = p THEN c ELSE s.cells[p - n + k - 1]
    BY <1>1, <1>3, <2>1 DEF CellsWith
  <2>3. CASE k = n + 1
    <3>1. p - n + k - 1 = p
      BY <1>3, <2>3
    <3>. QED  BY <1>4, <2>1, <2>2, <2>3, <3>1
  <2>4. CASE k # n + 1
    <3>1. k \in 1..n /\ p - n + k - 1 # p
      BY <1>3, <2>4
    <3>2. \A j \in 1..n : s.cells[p - n + j - 1] = l[j]
      BY <1>1 DEF Shown
    <3>3. s.cells[p - n + k - 1] = l[k]
      BY <3>1, <3>2
    <3>. QED  BY <1>4, <2>1, <2>2, <2>4, <3>1, <3>3
  <2>. QED  BY <2>3, <2>4
<1>6. CASE t.cells = w /\ Pos(t) = p + 1
  <2>1. ASSUME NEW k \in 1..(n + 1) PROVE t.cells[Pos(t) - (n + 1) + k - 1] = Append(l, c)[k]
    <3>1. Pos(t) - (n + 1) + k - 1 = p - n + k - 1
      BY <1>3, <1>6
    <3>. QED  BY <1>5, <1>6, <3>1
  <2>2. n + 1 <= Pos(t)
    BY <1>3, <1>6
  <2>. QED  BY <1>1, <1>4, <2>1, <2>2 DEF Shown
<1>7. CASE t.cells = Scrolled(w) /\ Pos(t) = Bottom /\ p + 1 = Size
  <2>1. ASSUME NEW k \in 1..(n + 1) PROVE t.cells[Pos(t) - (n + 1) + k - 1] = Append(l, c)[k]
    <3>1. PICK i : i = Pos(t) - (n + 1) + k - 1
      OBVIOUS
    <3>2. i \in 0..(Size - 1) /\ i < Bottom /\ i + NUM_COLS = p - n + k - 1
      <4>1. i = Bottom - (n + 1) + k - 1 /\ n + 1 <= Bottom
        BY <1>1, <1>7, <3>1
      <4>2. Bottom = Size - NUM_COLS /\ NUM_COLS \in Nat /\ Bottom \in Nat /\ Size \in Nat
        BY Sizes DEF Bottom
      <4>. QED  BY <1>3, <1>7, <4>1, <4>2
    <3>3. t.cells[i] = w[i + NUM_COLS]
      BY <1>2, <1>7, <3>2, ScrolledCells
    <3>. QED  BY <1>5, <3>1, <3>2, <3>3
  <2>2. n + 1 <= Pos(t)
    BY <1>1, <1>7
  <2>. QED  BY <1>1, <1>4, <2>1, <2>2 DEF Shown
<1>. QED  BY <1>1, <1>2, <1>6, <1>7 DEF PutChar

\* Typing keeps the line displayed.
LEMMA EchoPut ==
  ASSUME NEW s, NEW l, Echo(s, l), NEW c \in Letters, Len(l) < MaxLine
  PROVE  Echo(putc(s, c), Append(l, c))
<1>1. Good(s) /\ s \in OnScreen /\ l \in Seq(Letters) /\ Len(l) \in Nat /\ Shown(s, l)
  BY DEF Echo, Good
<1>2. c \in Glyphs /\ c # NL /\ c # NUL /\ c \in Chars
  BY ScreenAssumption, Texts DEF Glyphs
<1>3. PICK col \in 0..Len(Prompt) : Column(s, Len(l), col)
  BY DEF Echo
<1>4. Len(l) + 1 <= Bottom /\ col \in Nat /\ Len(l) + 1 + col < 2 * NUM_COLS /\ Len(l) + 1 <= MaxLine
  BY <1>1, Sizes, PromptLength
<1>5. Append(l, c) \in Seq(Letters) /\ Len(Append(l, c)) = Len(l) + 1
  BY <1>1
<1>6. Shown(putc(s, c), Append(l, c))
  BY <1>1, <1>4, PutShown
<1>7. Column(putc(s, c), Len(l) + 1, col)
  BY <1>1, <1>2, <1>3, <1>4, PutColumn
<1>8. Good(putc(s, c))
  BY <1>1, <1>2, PutcGood DEF Further
<1>. QED  BY <1>4, <1>5, <1>6, <1>7, <1>8 DEF Echo

\* A backspace takes the last character of the line off the screen and no other.
LEMMA EchoBack ==
  ASSUME NEW s, NEW l, Echo(s, l), NEW m, m \in Seq(Letters), Len(l) = Len(m) + 1,
         \A k \in 1..Len(m) : m[k] = l[k]
  PROVE  Echo(backspace(s), m)
<1>1. Good(s) /\ s \in OnScreen /\ s \in Screens /\ l \in Seq(Letters) /\ Len(l) <= MaxLine
      /\ Shown(s, l)
  BY DEF Echo, Good, OnScreen
<1>2. PICK t, n, p, x : t = backspace(s) /\ n = Len(m) /\ p = Pos(s) /\ x = s.x
  OBVIOUS
<1>3. n \in Nat /\ p \in Nat /\ p < Size /\ n + 1 <= p /\ x \in Int /\ x > -NUM_COLS
      /\ s.cells \in [0..(Size - 1) -> Glyphs]
  BY <1>1, <1>2, Fields DEF OnScreen, Shown
<1>4. Good(t)
  BY <1>1, <1>2, <1>3, BackspaceGood
<1>5. Backspaced(s, t)
  BY <1>1, <1>2, BackspaceMoves
<1>6. PICK col \in 0..Len(Prompt) : Column(s, n + 1, col)
  BY <1>2 DEF Echo
<1>7. col \in Nat
  BY <1>6, PromptLength
<1>8. Pos(t) >= 0
  BY <1>4 DEF Good, OnScreen
<1>9. Len(m) <= MaxLine
  BY <1>1, <1>2, <1>3, Sizes
<1>10. CASE x = 1 - NUM_COLS
  <2>1. n = 0
    <3>1. x - (n + 1) = col \/ x - (n + 1) = col - NUM_COLS
      BY <1>2, <1>6 DEF Column
    <3>2. PICK c \in Nat : c = NUM_COLS
      BY Sizes
    <3>3. n \in Nat /\ x = 1 - c /\ c >= 2
      BY <1>3, <1>10, <3>2, Sizes
    <3>. QED  BY <1>7, <3>1, <3>2, <3>3
  <2>2. Shown(t, m)
    BY <1>2, <1>8, <2>1 DEF Shown
  <2>3. t.x = 0
    BY <1>2, <1>5, <1>10 DEF Backspaced
  <2>4. Column(t, Len(m), 0) /\ 0 \in 0..Len(Prompt)
    BY <1>2, <2>1, <2>3, PromptLength DEF Column
  <2>. QED  BY <1>2, <1>4, <1>9, <2>2, <2>4 DEF Echo
<1>11. CASE x # 1 - NUM_COLS
  <2>1. t.x = x - 1 /\ Pos(t) = p - 1 /\ t.cells = [s.cells EXCEPT ![Pos(t)] = NUL]
    BY <1>2, <1>5, <1>8, <1>11 DEF Backspaced
  <2>2. ASSUME NEW k \in 1..n PROVE t.cells[Pos(t) - n + k - 1] = m[k]
    <3>1. PICK i : i = p - (n + 1) + k - 1
      OBVIOUS
    <3>2. Pos(t) - n + k - 1 = i /\ i \in 0..(Size - 1) /\ i # Pos(t) /\ k \in 1..(n + 1)
      BY <1>3, <2>1, <3>1, Sizes
    <3>3. s.cells[i] = l[k]
      BY <1>1, <1>2, <3>1, <3>2 DEF Shown
    <3>4. t.cells[i] = s.cells[i]
      BY <1>3, <2>1, <3>2
    <3>. QED  BY <1>2, <3>2, <3>3, <3>4
  <2>3. Shown(t, m)
    <3>1. n <= Pos(t)
      BY <1>3, <2>1
    <3>. QED  BY <1>2, <2>2, <3>1 DEF Shown
  <2>4. Column(t, n, col)
    <3>1. x - (n + 1) = col \/ x - (n + 1) = col - NUM_COLS
      BY <1>2, <1>6 DEF Column
    <3>2. x - (n + 1) = (x - 1) - n
      BY <1>3
    <3>. QED  BY <2>1, <3>1, <3>2 DEF Column
  <2>. QED  BY <1>2, <1>4, <1>6, <1>9, <2>3, <2>4 DEF Echo
<1>. QED  BY <1>10, <1>11

\* A part is extended by the next element.
LEMMA NextPart ==
  ASSUME NEW S, NEW u \in Seq(S), NEW l \in Seq(S), NEW j \in Nat, j < Len(u)
  PROVE  /\ u[j + 1] \in S
         /\ l \o SubSeq(u, 1, j) \in Seq(S) /\ Len(l \o SubSeq(u, 1, j)) = Len(l) + j
         /\ l \o SubSeq(u, 1, j + 1) = Append(l \o SubSeq(u, 1, j), u[j + 1])
<1>1. PICK a, b : a = SubSeq(u, 1, j) /\ b = SubSeq(u, 1, j + 1)
  OBVIOUS
<1>2. Len(u) \in Nat /\ j + 1 \in Nat /\ j + 1 \in 1..Len(u) /\ 1 <= j + 1 /\ j <= Len(u)
      /\ 1 <= j + 1 + 1 /\ j + 1 <= Len(u) /\ j + 1 - 1 = j /\ j + 1 + 1 - 1 = j + 1 /\ 1 \in Nat /\ 1 >= 1
  OBVIOUS
<1>3. a \in Seq(S) /\ Len(a) = j /\ \A i \in 1..j : a[i] = u[i]
  <2>1. a \in Seq(S) /\ Len(a) = j + 1 - 1 /\ \A i \in 1..(j + 1 - 1) : a[i] = u[1 + i - 1]
    BY <1>1, <1>2, PartOf
  <2>. QED  BY <1>2, <2>1
<1>4. b \in Seq(S) /\ Len(b) = j + 1 /\ \A i \in 1..(j + 1) : b[i] = u[i]
  <2>1. b \in Seq(S) /\ Len(b) = j + 1 + 1 - 1 /\ \A i \in 1..(j + 1 + 1 - 1) : b[i] = u[1 + i - 1]
    BY <1>1, <1>2, PartOf
  <2>. QED  BY <1>2, <2>1
<1>5. u[j + 1] \in S
  BY <1>2
<1>6. l \o a \in Seq(S) /\ Len(l \o a) = Len(l) + j
  <2>1. a \in Seq(S) /\ Len(a) = j
    BY <1>3
  <2>. QED  BY <2>1
<1>7. b = Append(a, u[j + 1])
  BY <1>3, <1>4, <1>5
<1>8. l \o b = Append(l \o a, u[j + 1])
  BY <1>3, <1>4, <1>5, <1>7
<1>. QED  BY <1>1, <1>5, <1>6, <1>8

\* Printing letters appends them to the line that is displayed.
LEMMA EchoPutAll ==
  ASSUME NEW s, NEW l, Echo(s, l), NEW u \in Seq(Letters), Len(l) + Len(u) <= MaxLine
  PROVE  Echo(PutAll(s, u), l \o u)
<1>1. s \in OnScreen /\ l \in Seq(Letters) /\ u \in Seq(Chars)
  BY Texts DEF Echo, Good
<1>2. PICK f : Prints(f, s, u)
  BY <1>1, PutAllPrints
<1>3. PICK N : N = Len(u)
  OBVIOUS
<1>4. N \in Nat /\ Len(l) \in Nat /\ f[0] = s /\ (\A j \in 1..N : f[j] = putc(f[j - 1], u[j]))
      /\ PutAll(s, u) = f[N]
  BY <1>1, <1>2, <1>3 DEF Prints, PrintsIn
<1>. DEFINE T == {j \in Nat : j <= N => Echo(f[j], l \o SubSeq(u, 1, j))}
<1>5. 0 \in T
  <2>1. SubSeq(u, 1, 0) = <<>> /\ l \o <<>> = l
    BY <1>1, SubSeqEmpty
  <2>. QED  BY <1>4, <2>1
<1>6. ASSUME NEW j \in Nat, j \in T PROVE j + 1 \in T
  <2>. SUFFICES ASSUME j + 1 <= N PROVE Echo(f[j + 1], l \o SubSeq(u, 1, j + 1))
    OBVIOUS
  <2>1. j + 1 \in 1..N /\ j + 1 - 1 = j /\ j <= N /\ j < Len(u)
    BY <1>3, <1>4
  <2>2. Echo(f[j], l \o SubSeq(u, 1, j))
    BY <1>6, <2>1
  <2>3. f[j + 1] = putc(f[j], u[j + 1])
    BY <1>4, <2>1
  <2>4. PICK a, b, k : a = f[j] /\ b = l \o SubSeq(u, 1, j) /\ k = u[j + 1]
    OBVIOUS
  <2>5. k \in Letters /\ Len(b) = Len(l) + j /\ l \o SubSeq(u, 1, j + 1) = Append(b, k)
    BY <1>1, <2>1, <2>4, NextPart
  <2>6. Len(b) < MaxLine
    BY <1>3, <1>4, <2>1, <2>5, Sizes
  <2>7. Echo(putc(a, k), Append(b, k))
    BY <2>2, <2>4, <2>5, <2>6, EchoPut
  <2>. QED  BY <2>3, <2>4, <2>5, <2>7
<1>. HIDE DEF T
<1>7. N \in T
  BY <1>4, <1>5, <1>6, SetInduction
<1>8. Echo(f[N], l \o SubSeq(u, 1, N))
  BY <1>4, <1>7 DEF T
<1>9. SubSeq(u, 1, N) = u
  BY <1>3, SubSeqFull
<1>. QED  BY <1>4, <1>8, <1>9

\* Erasing takes characters off the end of the line that is displayed.
LEMMA EchoErase ==
  ASSUME NEW s, NEW l, Echo(s, l), NEW n \in Nat, n <= Len(l)
  PROVE  Echo(Erase(s, n), SubSeq(l, 1, Len(l) - n))
<1>1. s \in Screens /\ l \in Seq(Letters)
  BY DEF Echo, Good, OnScreen
<1>2. PICK f : Erases(f, s, n)
  BY <1>1, EraseErases
<1>3. PICK N : N = Len(l)
  OBVIOUS
<1>4. N \in Nat /\ f[0] = s /\ (\A j \in 1..n : f[j] = backspace(f[j - 1])) /\ Erase(s, n) = f[n]
  BY <1>1, <1>2, <1>3 DEF Erases, ErasesIn
<1>. DEFINE T == {j \in Nat : j <= n => Echo(f[j], SubSeq(l, 1, N - j))}
<1>5. 0 \in T
  <2>1. N - 0 = Len(l) /\ SubSeq(l, 1, Len(l)) = l
    BY <1>1, <1>3, <1>4, SubSeqFull
  <2>. QED  BY <1>4, <2>1
<1>6. ASSUME NEW j \in Nat, j \in T PROVE j + 1 \in T
  <2>. SUFFICES ASSUME j + 1 <= n PROVE Echo(f[j + 1], SubSeq(l, 1, N - (j + 1)))
    OBVIOUS
  <2>1. j + 1 \in 1..n /\ j + 1 - 1 = j /\ j <= n
    OBVIOUS
  <2>2. Echo(f[j], SubSeq(l, 1, N - j)) /\ f[j + 1] = backspace(f[j])
    BY <1>4, <1>6, <2>1
  <2>3. PICK d : d = N - (j + 1)
    OBVIOUS
  <2>4. d \in Nat /\ N - j = d + 1 /\ d + 1 \in Nat /\ d + 1 <= Len(l) /\ d <= Len(l) /\ 1 \in Nat /\ 1 >= 1
        /\ 1 <= d + 1 /\ 1 <= d + 1 + 1
    BY <1>3, <1>4, <2>3
  <2>5. PICK a, k, m : a = f[j] /\ k = SubSeq(l, 1, d + 1) /\ m = SubSeq(l, 1, d)
    OBVIOUS
  <2>6. Len(k) = d + 1 + 1 - 1 /\ \A i \in 1..(d + 1 + 1 - 1) : k[i] = l[1 + i - 1]
    BY <1>1, <2>4, <2>5, PartOf
  <2>7. m \in Seq(Letters) /\ Len(m) = d + 1 - 1 /\ \A i \in 1..(d + 1 - 1) : m[i] = l[1 + i - 1]
    BY <1>1, <2>4, <2>5, PartOf
  <2>8. Len(k) = Len(m) + 1 /\ \A i \in 1..Len(m) : m[i] = k[i]
    BY <2>4, <2>6, <2>7
  <2>9. Echo(a, k)
    BY <2>2, <2>4, <2>5
  <2>10. Echo(backspace(a), m)
    BY <2>7, <2>8, <2>9, EchoBack
  <2>. QED  BY <2>2, <2>3, <2>5, <2>10
<1>. HIDE DEF T
<1>7. n \in T
  BY <1>5, <1>6, SetInduction
<1>8. Echo(f[n], SubSeq(l, 1, N - n))
  BY <1>7 DEF T
<1>. QED  BY <1>3, <1>4, <1>8

\* Printing one text after another is printing both.
LEMMA PutAllConcat ==
  ASSUME NEW s \in OnScreen, NEW a \in Seq(Chars), NEW b \in Seq(Chars)
  PROVE  PutAll(s, a) \in OnScreen /\ PutAll(s, a \o b) = PutAll(PutAll(s, a), b)
<1>1. PICK g : Prints(g, s, a)
  BY PutAllPrints
<1>2. PICK A, B, r : A = Len(a) /\ B = Len(b) /\ r = PutAll(s, a)
  OBVIOUS
<1>3. A \in Nat /\ B \in Nat /\ a \o b \in Seq(Chars) /\ Len(a \o b) = A + B
      /\ (\A j \in 1..A : (a \o b)[j] = a[j]) /\ (\A j \in 1..B : (a \o b)[A + j] = b[j])
  BY <1>2
<1>4. g[0] = s /\ (\A j \in 1..A : g[j] = putc(g[j - 1], a[j])) /\ r = g[A] /\ r \in OnScreen
  BY <1>1, <1>2, <1>3 DEF Prints, PrintsIn
<1>5. PICK f : Prints(f, s, a \o b)
  BY <1>3, PutAllPrints
<1>6. f[0] = s /\ (\A j \in 1..(A + B) : f[j] = putc(f[j - 1], (a \o b)[j])) /\ PutAll(s, a \o b) = f[A + B]
  BY <1>3, <1>5 DEF Prints, PrintsIn
<1>7. PICK h : Prints(h, r, b)
  BY <1>4, PutAllPrints
<1>8. h[0] = r /\ (\A j \in 1..B : h[j] = putc(h[j - 1], b[j])) /\ PutAll(r, b) = h[B]
  BY <1>2, <1>7 DEF Prints, PrintsIn
<1>9. f[A] = g[A]
  <2>. DEFINE T == {j \in Nat : j <= A => f[j] = g[j]}
  <2>1. 0 \in T
    BY <1>4, <1>6
  <2>2. ASSUME NEW j \in Nat, j \in T PROVE j + 1 \in T
    <3>. SUFFICES ASSUME j + 1 <= A PROVE f[j + 1] = g[j + 1]
      OBVIOUS
    <3>1. j + 1 \in 1..A /\ j + 1 \in 1..(A + B) /\ j + 1 - 1 = j /\ f[j] = g[j]
      BY <1>3, <2>2
    <3>. QED  BY <1>3, <1>4, <1>6, <3>1
  <2>. HIDE DEF T
  <2>3. A \in T
    BY <1>3, <2>1, <2>2, SetInduction
  <2>. QED  BY <1>3, <2>3 DEF T
<1>10. f[A + B] = h[B]
  <2>. DEFINE T == {j \in Nat : j <= B => f[A + j] = h[j]}
  <2>1. 0 \in T
    <3>1. A + 0 = A
      BY <1>3
    <3>. QED  BY <1>4, <1>8, <1>9, <3>1
  <2>2. ASSUME NEW j \in Nat, j \in T PROVE j + 1 \in T
    <3>. SUFFICES ASSUME j + 1 <= B PROVE f[A + (j + 1)] = h[j + 1]
      OBVIOUS
    <3>0. j + 1 \in 1..B /\ A + (j + 1) \in 1..(A + B) /\ j + 1 - 1 = j /\ A + (j + 1) - 1 = A + j
          /\ j <= B
      BY <1>3
    <3>1. j + 1 \in 1..B /\ A + (j + 1) \in 1..(A + B) /\ j + 1 - 1 = j /\ A + (j + 1) - 1 = A + j
          /\ f[A + j] = h[j]
      BY <2>2, <3>0
    <3>2. PICK i : i = A + (j + 1)
      OBVIOUS
    <3>3. i \in 1..(A + B) /\ i - 1 = A + j
      BY <1>3, <3>1, <3>2
    <3>4. f[i] = putc(f[i - 1], (a \o b)[i])
      BY <1>6, <3>3
    <3>5. h[j + 1] = putc(h[j + 1 - 1], b[j + 1]) /\ (a \o b)[i] = b[j + 1]
      BY <1>3, <1>8, <3>1, <3>2
    <3>. QED  BY <3>1, <3>2, <3>3, <3>4, <3>5
  <2>. HIDE DEF T
  <2>3. B \in T
    BY <1>3, <2>1, <2>2, SetInduction
  <2>. QED  BY <1>3, <2>3 DEF T
<1>. QED  BY <1>2, <1>4, <1>6, <1>8, <1>10

\* Printing one character.
LEMMA PutAllOne == ASSUME NEW s \in OnScreen, NEW c \in Chars PROVE PutAll(s, <<c>>) = putc(s, c)
<1>1. <<c>> \in Seq(Chars) /\ Len(<<c>>) = 1 /\ <<c>>[1] = c
  OBVIOUS
<1>2. PICK f : Prints(f, s, <<c>>)
  BY <1>1, PutAllPrints
<1>3. f[0] = s /\ f[1] = putc(f[1 - 1], <<c>>[1]) /\ PutAll(s, <<c>>) = f[1]
  BY <1>1, <1>2 DEF Prints, PrintsIn
<1>. QED  BY <1>1, <1>3

\* An empty line is displayed wherever one may begin.
LEMMA EchoEmpty ==
  ASSUME NEW s, Good(s), NEW col \in 0..Len(Prompt), Column(s, 0, col)
  PROVE  Echo(s, <<>>)
<1>1. Pos(s) \in Nat
  BY Fields DEF Good, OnScreen
<1>2. Shown(s, <<>>)
  BY <1>1 DEF Shown
<1>3. <<>> \in Seq(Letters) /\ Len(<<>>) = 0 /\ 0 <= MaxLine
  BY Sizes
<1>. QED  BY <1>2, <1>3 DEF Echo

\* The column after the prompt, printed from the beginning of a row.
LEMMA AfterPrompt ==
  ASSUME NEW s, Good(s), s.x = 0, NEW p \in Seq(Output), Len(p) <= Len(Prompt)
  PROVE  Echo(PutAll(s, p), <<>>)
<1>1. s \in OnScreen
  BY DEF Good
<1>2. PICK N : N = Len(p)
  OBVIOUS
<1>3. N \in Nat /\ p \in Seq(Chars) /\ N <= Len(Prompt) /\ N < 2 * NUM_COLS /\ N \in 0..Len(Prompt)
  <2>1. p \in Seq(Chars)
    BY Texts, SeqMonotonic
  <2>. QED  BY <1>2, <2>1, PromptLength, Sizes
<1>4. PICK f : Prints(f, s, p)
  BY <1>1, <1>3, PutAllPrints
<1>5. f[0] = s /\ (\A j \in 1..N : f[j] = putc(f[j - 1], p[j])) /\ PutAll(s, p) = f[N]
      /\ \A j \in 0..N : f[j] \in OnScreen
  BY <1>2, <1>4 DEF Prints, PrintsIn
<1>6. \A j \in 1..N : p[j] \in Glyphs /\ p[j] # NL /\ p[j] # NUL
  <2>1. \A j \in 1..N : p[j] \in Output
    BY <1>2
  <2>. QED  BY <2>1, ScreenAssumption DEF Glyphs
<1>. DEFINE T == {j \in Nat : j <= N => Column(f[j], j, 0)}
<1>7. 0 \in T
  BY <1>5 DEF Column
<1>8. ASSUME NEW j \in Nat, j \in T PROVE j + 1 \in T
  <2>. SUFFICES ASSUME j + 1 <= N PROVE Column(f[j + 1], j + 1, 0)
    OBVIOUS
  <2>1. j + 1 \in 1..N /\ j + 1 - 1 = j /\ j \in 0..N /\ j + 1 + 0 < 2 * NUM_COLS /\ 0 \in Nat
    BY <1>3, Sizes
  <2>2. Column(f[j], j, 0)
    BY <1>8, <2>1
  <2>3. f[j + 1] = putc(f[j], p[j + 1]) /\ f[j] \in OnScreen
    BY <1>5, <2>1
  <2>4. PICK a, c : a = f[j] /\ c = p[j + 1]
    OBVIOUS
  <2>5. c \in Glyphs /\ c # NL /\ c # NUL
    BY <1>6, <2>1, <2>4
  <2>6. Column(putc(a, c), j + 1, 0)
    BY <2>1, <2>2, <2>3, <2>4, <2>5, PutColumn
  <2>. QED  BY <2>3, <2>4, <2>6
<1>. HIDE DEF T
<1>9. N \in T
  BY <1>3, <1>7, <1>8, SetInduction
<1>10. Column(f[N], N, 0)
  BY <1>3, <1>9 DEF T
<1>11. f[N].x \in Int
  BY <1>3, <1>5, Fields DEF OnScreen
<1>12. Column(f[N], 0, N)
  <2>1. PICK x : x = f[N].x
    OBVIOUS
  <2>2. x - N = 0 \/ x - N = 0 - NUM_COLS
    BY <1>10, <2>1 DEF Column
  <2>3. x - 0 = N \/ x - 0 = N - NUM_COLS
    BY <1>3, <1>11, <2>1, <2>2, Sizes
  <2>. QED  BY <2>1, <2>3 DEF Column
<1>13. Good(f[N])
  BY <1>3, <1>5, PutAllGood
<1>. QED  BY <1>3, <1>5, <1>12, <1>13, EchoEmpty

\* A line printed anew after a prompt at the beginning of a row is displayed.
LEMMA FreshLine ==
  ASSUME NEW s, Good(s), s.x = 0, NEW p \in Seq(Output), Len(p) <= Len(Prompt),
         NEW l \in Seq(Letters), Len(l) <= MaxLine
  PROVE  Echo(PutAll(s, p \o l), l)
<1>1. s \in OnScreen /\ p \in Seq(Chars) /\ l \in Seq(Chars)
  BY Texts, SeqMonotonic DEF Good
<1>2. PICK r : r = PutAll(s, p)
  OBVIOUS
<1>3. PutAll(s, p \o l) = PutAll(r, l)
  BY <1>1, <1>2, PutAllConcat
<1>4. Echo(r, <<>>)
  BY <1>2, AfterPrompt
<1>5. Len(<<>>) + Len(l) <= MaxLine /\ <<>> \o l = l
  BY Sizes
<1>. QED  BY <1>3, <1>4, <1>5, EchoPutAll

EchoInv == touched = "no" /\ line # <<>> => Echo(scr, line)

\* The line is displayed before a key is added to it.
LEMMA EchoBefore ==
  ASSUME ~StartAnywhere, LineInv, EchoInv, touched = "no", MayBegin
  PROVE  Echo(scr, line)
<1>1. CASE line # <<>>
  BY <1>1 DEF EchoInv
<1>2. CASE line = <<>>
  <2>1. PICK x, col : x = scr.x /\ col = x % NUM_COLS
    OBVIOUS
  <2>2. Good(scr) /\ scr \in Screens
    BY FitsFacts DEF LineInv
  <2>3. x \in Int /\ x > -NUM_COLS /\ x < NUM_COLS
    BY <2>1, <2>2, Fields
  <2>4. col = IF x >= 0 THEN x ELSE x + NUM_COLS
    BY <2>1, <2>3, ColumnRemainder
  <2>5. col <= Len(Prompt)
    <3>1. ~(buf_idx > 0)
      BY <1>2 DEF LineInv
    <3>. QED  BY <2>1, <3>1 DEF MayBegin
  <2>6. col \in 0..Len(Prompt) /\ (x - 0 = col \/ x - 0 = col - NUM_COLS)
    BY <2>3, <2>4, <2>5, PromptLength, Sizes
  <2>. QED  BY <1>2, <2>1, <2>2, <2>6, EchoEmpty DEF Column
<1>. QED  BY <1>1, <1>2

\* A typed letter is displayed behind the line.
LEMMA TypeLetterEchoes ==
  ASSUME ~StartAnywhere, LineInv, EchoInv, NEW c \in Letters, TypeLetter(c) PROVE EchoInv'
<1>. SUFFICES ASSUME touched' = "no" PROVE Echo(scr, line)'
  BY DEF EchoInv
<1>1. MayBegin /\ touched = "no" /\ Len(line) < MaxLine
  BY DEF TypeLetter, LineInv
<1>2. Echo(scr, line)
  BY <1>1, EchoBefore
<1>3. PICK s, l : s = scr /\ l = line
  OBVIOUS
<1>4. Echo(putc(s, c), Append(l, c))
  BY <1>1, <1>2, <1>3, EchoPut
<1>5. scr' = putc(s, c) /\ line' = Append(l, c)
  BY <1>3 DEF TypeLetter, Added, LineInv
<1>. QED  BY <1>4, <1>5

\* What a backspace leaves of the line stays displayed.
LEMMA BackspaceEchoes == ASSUME LineInv, EchoInv, Backspace PROVE EchoInv'
<1>. SUFFICES ASSUME touched' = "no", line' # <<>> PROVE Echo(scr, line)'
  BY DEF EchoInv
<1>1. PICK s, l, m, n : s = scr /\ l = line /\ m = Front(line) /\ n = Len(line) - 1
  OBVIOUS
<1>2. l # <<>> /\ scr' = backspace(s) /\ line' = m /\ touched = "no"
  <2>1. buf_idx = Len(l) /\ l \in Seq(Letters) /\ touched # "dead"
    BY <1>1 DEF LineInv, Fits
  <2>2. buf_idx > 0 /\ scr' = backspace(s) /\ line' = Deleted /\ touched' = Touch(touched, line')
    BY <1>1 DEF Backspace
  <2>3. line' = m
    BY <1>1, <2>1, <2>2 DEF Deleted
  <2>4. l # <<>>
    BY <2>1, <2>2
  <2>5. touched = "no"
    BY <2>1, <2>2 DEF Touch
  <2>. QED  BY <2>2, <2>3, <2>4, <2>5
<1>3. Echo(s, l) /\ l \in Seq(Letters) /\ Len(l) \in Nat
  BY <1>1, <1>2 DEF EchoInv, Echo
<1>4. n \in Nat /\ 1 \in Nat /\ 1 >= 1 /\ 1 <= n + 1 /\ n <= Len(l) /\ Len(l) = n + 1
  BY <1>1, <1>2, <1>3
<1>5. m = SubSeq(l, 1, n)
  BY <1>1 DEF Front
<1>6. m \in Seq(Letters) /\ Len(m) = n + 1 - 1 /\ \A i \in 1..(n + 1 - 1) : m[i] = l[1 + i - 1]
  BY <1>3, <1>4, <1>5, PartOf
<1>7. Len(l) = Len(m) + 1 /\ \A i \in 1..Len(m) : m[i] = l[i]
  BY <1>4, <1>6
<1>8. Echo(backspace(s), m)
  BY <1>3, <1>6, <1>7, EchoBack
<1>. QED  BY <1>2, <1>8

\* A recalled line is displayed in the place of the old one.
LEMMA MoveEchoes ==
  ASSUME ~StartAnywhere, LineInv, EchoInv, NEW l \in Recalled, MoveInHistory(l) PROVE EchoInv'
<1>. SUFFICES ASSUME touched' = "no", line' # <<>> PROVE Echo(scr, line)'
  BY DEF EchoInv
<1>1. PICK s, k, n : s = scr /\ k = line /\ n = Len(line)
  OBVIOUS
<1>2. PICK e : e = Erase(s, n)
  OBVIOUS
<1>3. MayBegin /\ scr' = PutAll(e, l) /\ line' = l /\ touched = "no"
  <2>1. buf_idx = n /\ touched # "dead"
    BY <1>1 DEF LineInv, Fits
  <2>. QED  BY <1>1, <1>2, <2>1 DEF MoveInHistory, LineErased, Touch
<1>4. Echo(s, k) /\ k \in Seq(Letters) /\ n \in Nat /\ n <= n
  BY <1>1, <1>3, EchoBefore DEF Echo
<1>5. Echo(e, SubSeq(k, 1, n - n))
  BY <1>1, <1>2, <1>4, EchoErase
<1>6. SubSeq(k, 1, n - n) = <<>>
  BY <1>4, SubSeqEmpty
<1>7. l \in Seq(Letters) /\ Len(<<>>) + Len(l) <= MaxLine /\ <<>> \o l = l
  BY ScreenAssumption, Sizes
<1>8. Echo(PutAll(e, l), <<>> \o l)
  BY <1>5, <1>6, <1>7, EchoPutAll
<1>. QED  BY <1>3, <1>7, <1>8

\* What completion erases and prints again makes the new line.
LEMMA AutocompleteEchoes ==
  ASSUME LineInv, EchoInv, NEW i \in 0..(strlen(line) - 1), NEW suffix \in Completions,
         autocomplete(i, suffix)
  PROVE  EchoInv'
<1>. SUFFICES ASSUME touched' = "no" PROVE Echo(scr, line)'
  BY DEF EchoInv
<1>1. PICK s, l, new, n : s = scr /\ l = line /\ new = l \o suffix /\ n = Len(l) - 1 - i
  OBVIOUS
<1>2. PICK e, rest : e = Erase(s, n) /\ rest = SubSeq(new, i + 2, Len(new))
  OBVIOUS
<1>3. scr' = PutAll(e, rest) /\ line' = new /\ touched = "no" /\ Len(new) <= MaxLine
  BY <1>1, <1>2, CompletedLine DEF LineInv, Fits
<1>4. l \in Seq(Letters) /\ Len(l) \in Nat /\ i \in Nat /\ i <= Len(l) - 1
  <2>1. l \in Seq(Letters) /\ Len(l) \in Nat
    BY <1>1, FitsFacts DEF LineInv
  <2>. QED  BY <1>1, <2>1, StringOfLetters
<1>5. n \in Nat /\ n <= Len(l) /\ Len(l) - n = i + 1 /\ l # <<>>
  BY <1>1, <1>4
<1>6. Echo(s, l)
  BY <1>1, <1>3, <1>5 DEF EchoInv
<1>7. PICK kept : kept = SubSeq(l, 1, i + 1)
  OBVIOUS
<1>8. Echo(e, kept)
  <2>1. Echo(e, SubSeq(l, 1, Len(l) - n))
    BY <1>2, <1>5, <1>6, EchoErase
  <2>. QED  BY <1>5, <1>7, <2>1
<1>9. suffix \in Seq(Letters) /\ Len(suffix) \in Nat
  BY ScreenAssumption
<1>10. new \in Seq(Letters) /\ Len(new) = Len(l) + Len(suffix) /\ Len(new) \in Nat
       /\ \A j \in 1..Len(l) : new[j] = l[j]
  BY <1>1, <1>4, <1>9
<1>11. rest \in Seq(Letters) /\ Len(rest) = Len(new) + 1 - (i + 2)
       /\ \A j \in 1..(Len(new) + 1 - (i + 2)) : rest[j] = new[i + 2 + j - 1]
  <2>1. i + 2 \in Nat /\ i + 2 >= 1 /\ i + 2 <= Len(new) + 1
    BY <1>4, <1>9, <1>10
  <2>. QED  BY <1>2, <1>10, <2>1, PartOf
<1>12. kept \in Seq(Letters) /\ Len(kept) = i + 1 /\ \A j \in 1..(i + 1) : kept[j] = l[j]
  <2>1. i + 1 \in Nat /\ 1 \in Nat /\ 1 >= 1 /\ 1 <= i + 1 + 1 /\ i + 1 <= Len(l)
    BY <1>4
  <2>2. kept \in Seq(Letters) /\ Len(kept) = i + 1 + 1 - 1 /\ \A j \in 1..(i + 1 + 1 - 1) : kept[j] = l[1 + j - 1]
    BY <1>4, <1>7, <2>1, PartOf
  <2>. QED  BY <1>4, <2>2
<1>13. Len(kept) + Len(rest) = Len(new)
  BY <1>4, <1>10, <1>11, <1>12
<1>14. kept \o rest = new
  <2>1. PICK both : both = kept \o rest
    OBVIOUS
  <2>0. /\ both \in Seq(Letters) /\ Len(both) = Len(kept) + Len(rest)
        /\ \A j \in 1..Len(kept) : both[j] = kept[j]
        /\ \A j \in 1..Len(rest) : both[Len(kept) + j] = rest[j]
    <3>1. kept \in Seq(Letters) /\ rest \in Seq(Letters)
      BY <1>11, <1>12
    <3>. QED  BY <2>1, <3>1, Joined
  <2>2. both \in Seq(Letters) /\ Len(both) = Len(new)
    BY <1>13, <2>0
  <2>3. ASSUME NEW j \in 1..Len(new) PROVE both[j] = new[j]
    <3>1. CASE j <= i + 1
      <4>1. j \in 1..(i + 1) /\ j \in 1..Len(l)
        BY <1>4, <3>1
      <4>2. both[j] = kept[j]
        BY <1>12, <2>0, <4>1
      <4>. QED  BY <1>10, <1>12, <4>1, <4>2
    <3>2. CASE ~(j <= i + 1)
      <4>1. PICK k : k = j - (i + 1)
        OBVIOUS
      <4>2. k \in 1..(Len(new) + 1 - (i + 2)) /\ k \in 1..Len(rest) /\ i + 2 + k - 1 = j
            /\ Len(kept) + k = j
        BY <1>4, <1>10, <1>11, <1>12, <3>2, <4>1
      <4>3. both[j] = rest[k]
        BY <2>0, <4>2
      <4>. QED  BY <1>11, <4>2, <4>3
    <3>. QED  BY <3>1, <3>2
  <2>. QED  BY <1>10, <2>1, <2>2, <2>3, SeqEqual
<1>15. Len(kept) + Len(rest) <= MaxLine
  BY <1>3, <1>13
<1>16. Echo(PutAll(e, rest), kept \o rest)
  BY <1>8, <1>11, <1>15, EchoPutAll
<1>. QED  BY <1>3, <1>14, <1>16

\* The listing of the matches ends with the prompt and the line.
LEMMA ListEchoes == ASSUME LineInv, NEW c \in Output, ListMatches(<<c>>) PROVE EchoInv'
<1>. SUFFICES ASSUME TRUE PROVE Echo(scr, line)'
  BY DEF EchoInv
<1>1. PICK s, l : s = scr /\ l = line
  OBVIOUS
<1>2. Good(s) /\ s \in OnScreen /\ l \in Seq(Letters) /\ Len(l) <= MaxLine /\ l \in Seq(Chars)
  BY <1>1, FitsFacts, Texts DEF LineInv
<1>3. PICK a, b, p : a = <<NL>> \o <<c>> /\ b = a \o <<NL>> /\ p = Prompt \o l
  OBVIOUS
<1>4. Prompt \in Seq(Output) /\ Prompt \in Seq(Chars) /\ Len(Prompt) <= Len(Prompt)
  BY ScreenAssumption, Texts, PromptLength
<1>5. <<NL>> \in Seq(Chars) /\ <<c>> \in Seq(Chars) /\ NL \in Chars
  BY Texts
<1>6. a \in Seq(Chars) /\ b \in Seq(Chars) /\ p \in Seq(Chars)
  BY <1>2, <1>3, <1>4, <1>5
<1>7. a \o <<NL>> \o Prompt \o l = b \o p
  <2>1. \A x, y, z \in Seq(Chars) : (x \o y) \o z = x \o (y \o z)
    BY ConcatAssociative
  <2>2. Prompt \in Seq(Chars) /\ l \in Seq(Chars) /\ b \in Seq(Chars)
    BY <1>2, <1>4, <1>6
  <2>3. b \o Prompt \o l = b \o (Prompt \o l)
    BY <2>1, <2>2, Zenon
  <2>. QED  BY <1>3, <2>3
<1>8. PICK q, r : q = PutAll(s, a) /\ r = PutAll(s, b)
  OBVIOUS
<1>9. q \in OnScreen /\ r = PutAll(q, <<NL>>) /\ PutAll(s, b \o p) = PutAll(r, p)
  BY <1>2, <1>3, <1>5, <1>6, <1>8, PutAllConcat
<1>10. r = putc(q, NL) /\ r.x = 0
  <2>1. r = putc(q, NL)
    BY <1>5, <1>9, PutAllOne
  <2>2. q \in Screens
    BY <1>9 DEF OnScreen
  <2>3. PutNewline(q, r)
    BY <2>1, <2>2, PutcNewline
  <2>. QED  BY <2>1, <2>3 DEF PutNewline
<1>11. Good(r)
  BY <1>2, <1>6, <1>8, PutAllGood
<1>12. Echo(PutAll(r, p), l)
  BY <1>2, <1>3, <1>4, <1>10, <1>11, FreshLine
<1>13. scr' = PutAll(s, a \o <<NL>> \o Prompt \o l) /\ line' = l
  BY <1>1, <1>3 DEF ListMatches
<1>. QED  BY <1>7, <1>9, <1>12, <1>13

\* Ctrl+L prints the line anew.
LEMMA CtrlLEchoes == ASSUME LineInv, CtrlL PROVE EchoInv'
<1>. SUFFICES ASSUME TRUE PROVE Echo(scr, line)'
  BY DEF EchoInv
<1>1. PICK l : l = line
  OBVIOUS
<1>2. l \in Seq(Letters) /\ Len(l) <= MaxLine
  BY <1>1, FitsFacts DEF LineInv
<1>0. String(l) = l
  BY <1>2, StringOfLetters
<1>3. PICK p \in {Prompt, <<>>} : scr' = PutAll(Cleared, p \o l)
  BY <1>0, <1>1 DEF CtrlL
<1>4. p \in Seq(Output) /\ Len(p) <= Len(Prompt)
  <2>1. <<>> \in Seq(Output) /\ Len(<<>>) = 0
    OBVIOUS
  <2>2. CASE p = Prompt
    BY <2>2, ScreenAssumption, PromptLength
  <2>3. CASE p = <<>>
    BY <2>1, <2>3, PromptLength
  <2>. QED  BY <1>3, <2>2, <2>3
<1>5. Echo(PutAll(Cleared, p \o l), l)
  BY <1>2, <1>4, ClearedGood, FreshLine
<1>6. line' = l
  BY <1>1 DEF CtrlL
<1>. QED  BY <1>3, <1>5, <1>6

\* Other output is noted, unless the line is empty.
LEMMA OutputNoted ==
  ASSUME keyboard_return \/ ForeignException \/ \E text \in Seq(Chars) : terminal_write(text)
  PROVE  EchoInv'
<1>1. CASE keyboard_return
  BY <1>1 DEF keyboard_return, EchoInv
<1>2. CASE ForeignException
  <2>1. line' # <<>> => touched' \in {"cleared", "dead"}
    BY <1>2 DEF ForeignException, Touch
  <2>. QED  BY <2>1 DEF EchoInv
<1>3. ASSUME NEW text, terminal_write(text) PROVE EchoInv'
  <2>1. line' # <<>> => touched' \in {"cleared", "printed", "dead"}
    BY <1>3 DEF terminal_write, Touch
  <2>. QED  BY <2>1 DEF EchoInv
<1>. QED  BY <1>1, <1>2, <1>3

\* Every step keeps the line displayed.
LEMMA StepEchoes == ASSUME ~StartAnywhere, LineInv, EchoInv, [Next]_vars PROVE EchoInv'
<1>1. ASSUME NEW c \in Output \cup {NL}, terminal_write(<<c>>) PROVE EchoInv'
  <2>1. <<c>> \in Seq(Chars)
    BY Texts
  <2>. QED  BY <1>1, <2>1, OutputNoted
<1>2. CASE terminal_write(Prompt)
  BY <1>2, Texts, OutputNoted
<1>3. CASE UNCHANGED vars
  <2>1. scr' = scr /\ line' = line /\ touched' = touched
    BY <1>3 DEF vars
  <2>. QED  BY <2>1 DEF EchoInv
<1>4. CASE TypeDeadKey
  BY <1>4 DEF TypeDeadKey, EchoInv
<1>5. CASE ForeignException \/ keyboard_return
  BY <1>5, OutputNoted
<1>. QED  BY <1>1, <1>2, <1>3, <1>4, <1>5, TypeLetterEchoes, BackspaceEchoes, MoveEchoes,
             AutocompleteEchoes, ListEchoes, CtrlLEchoes DEF Next

\* What is displayed is what will be read, for every size of the screen and every prompt
\* after which a line ends within the second row: the line stands right before the cursor
\* unless something else was printed into it or a key without a character was typed, if
\* lines begin no further to the right than where the prompt ends.
THEOREM LineIsDisplayed == ASSUME ~StartAnywhere PROVE Spec => []EchoShown
<1>1. Init => EchoInv
  BY DEF Init, EchoInv
<1>2. ScreenInv /\ EchoInv /\ [Next]_vars => EchoInv'
  <2>. SUFFICES ASSUME ScreenInv, EchoInv, [Next]_vars PROVE EchoInv'
    OBVIOUS
  <2>1. CASE touched # "dead"
    BY <2>1, StepEchoes DEF ScreenInv
  <2>2. CASE keyboard_return
    BY <2>2, OutputNoted
  <2>3. CASE touched = "dead" /\ ~keyboard_return
    <3>1. touched' = "dead"
      BY <2>3, DeadStays
    <3>. QED  BY <3>1 DEF EchoInv
  <2>. QED  BY <2>1, <2>2, <2>3
<1>3. ScreenInv /\ EchoInv => EchoShown
  <2>. SUFFICES ASSUME ScreenInv, EchoInv, touched = "no",
                       NEW k \in 1..buf_idx
                PROVE  /\ Pos(scr) - buf_idx + k - 1 \in DOMAIN scr.cells
                       /\ scr.cells[Pos(scr) - buf_idx + k - 1] = line[k]
    BY DEF EchoShown
  <2>1. line \in Seq(Letters) /\ Len(line) \in Nat /\ scr \in Screens /\ buf_idx = Len(line)
    BY FitsFacts DEF ScreenInv, LineInv
  <2>2. line # <<>> /\ k \in 1..Len(line)
    BY <2>1
  <2>3. Shown(scr, line)
    BY <2>2 DEF EchoInv, Echo
  <2>4. Pos(scr) \in Int /\ Pos(scr) < Size /\ DOMAIN scr.cells = 0..(Size - 1)
    BY <2>1, Fields
  <2>5. Pos(scr) - Len(line) + k - 1 \in 0..(Size - 1)
    BY <2>1, <2>2, <2>3, <2>4, Sizes DEF Shown
  <2>. QED  BY <2>1, <2>2, <2>3, <2>4, <2>5 DEF Shown
<1>. QED  BY <1>1, <1>2, <1>3, ScreenInvariant, PTL DEF Spec
=============================================================================
