------------------------------- MODULE Screen -------------------------------
(* The screen of the terminal on display and the line being edited on it:   *)
(* putc, vert_scroll, backspace and clear (lib.c), and what the keys print  *)
(* and erase (keyboard.c).  The handler is atomic and so is terminal_write. *)
(* When a reader takes the line is the subject of Terminal; which line a    *)
(* key recalls or completes is the subject of History and Completion.       *)
EXTENDS Integers, Sequences, SequencesExt

NL == "\n"
NUL == "0"
SPACE == " "

CONSTANTS
    NUM_COLS, NUM_ROWS, \* 80 and 25 in the code
    MaxLine,            \* KEYBOARD_BUF_SIZE - 1
    Letters,            \* the characters typed
    Output,             \* the characters written by programs and in listings
    Prompt,             \* "391OS> ", as a sequence
    Recalled,           \* the lines that history may bring back
    Completions,        \* what completion may add
    StartAnywhere       \* may a line begin right of where the prompt ends?

ASSUME ScreenAssumption ==
    /\ NUM_COLS \in Nat \ {0, 1} /\ NUM_ROWS \in Nat \ {0}
    /\ MaxLine \in Nat
    /\ MaxLine <= (NUM_ROWS - 1) * NUM_COLS
    /\ Len(Prompt) + MaxLine < 2 * NUM_COLS
    /\ Prompt \in Seq(Output) /\ NL \notin Letters \cup Output /\ NUL \notin Letters \cup Output
    /\ \A l \in Recalled : l \in Seq(Letters) /\ Len(l) <= MaxLine
    /\ \A l \in Completions : l \in Seq(Letters)
    /\ StartAnywhere \in BOOLEAN

VARIABLES
    scr,        \* the cells of video memory and the terminal's term_x and term_y
    line,       \* keyboard_buf, but for the NULs behind buf_idx that end it
    buf_idx,
    touched     \* history: what else has happened to the screen since the line began

vars == <<scr, line, buf_idx, touched>>

Size == NUM_ROWS * NUM_COLS
Blanks == {NUL, SPACE}
Glyphs == Letters \cup Output \cup Blanks

\* The offset of the cursor in video memory.
Pos(s) == NUM_COLS * s.y + s.x

\* The column is negative after a backspace over the beginning of a row, never by a
\* whole row.
Screens == [cells : [0..(Size - 1) -> Glyphs],
            x : (1 - NUM_COLS)..(NUM_COLS - 1),
            y : 0..(NUM_ROWS - 1)]

TypeOK ==
    /\ scr \in Screens
    /\ line \in Seq(Letters \cup {NUL})
    /\ Len(line) <= MaxLine
    /\ buf_idx \in 0..Len(line)
    /\ touched \in {"no", "printed", "cleared", "dead"}

-----------------------------------------------------------------------------
(* lib.c                                                                    *)

Cleared == [cells |-> [k \in 0..(Size - 1) |-> SPACE], x |-> 0, y |-> 0]

\* A write outside of video memory changes nothing that is displayed.
Written(s, c) ==
    IF Pos(s) \in DOMAIN s.cells THEN [s EXCEPT !.cells[Pos(s)] = c] ELSE s

\* Mutant: the last row is not cleared.
ScrolledUncleared(cells) ==
    [k \in DOMAIN cells |-> IF k < Size - NUM_COLS THEN cells[k + NUM_COLS] ELSE cells[k]]

\* vert_scroll.
Scrolled(cells) ==
    [k \in DOMAIN cells |-> IF k < Size - NUM_COLS THEN cells[k + NUM_COLS] ELSE SPACE]

\* The first half of putc: write and move right, or go to the next line.
Advanced(s, c) ==
    IF c = NL THEN [s EXCEPT !.x = 0, !.y = @ + 1]
    ELSE [Written(s, c) EXCEPT !.x = @ + 1]

WrapRow(s) == IF s.x >= NUM_COLS THEN [s EXCEPT !.x = 0, !.y = @ + 1] ELSE s

\* Mutant: the test for the last row is off by one.
ScrollLate(s) ==
    IF s.y > NUM_ROWS
    THEN [cells |-> Scrolled(s.cells), x |-> 0, y |-> NUM_ROWS - 1]
    ELSE s

ScrollRow(s) ==
    IF s.y >= NUM_ROWS
    THEN [cells |-> Scrolled(s.cells), x |-> 0, y |-> NUM_ROWS - 1]
    ELSE s

putc(s, c) == IF c = NUL THEN s ELSE ScrollRow(WrapRow(Advanced(s, c)))

\* The characters of text, one after the other.
PutAll(s, text) ==
    LET put[j \in 0..Len(text)] == IF j = 0 THEN s ELSE putc(put[j - 1], text[j])
    IN  put[Len(text)]

\* C's remainder takes the sign of its first operand; both divisions truncate.
Rem(a) == IF a <= -NUM_COLS THEN a + NUM_COLS ELSE a

\* Mutant: backspace stops at the beginning of a row.
StayInRow(a) == IF a > 0 THEN a - 1 ELSE 0

\* "term_x--; term_x %= NUM_COLS": term_x / NUM_COLS is then 0 and the row stays.
ColumnBefore(a) == Rem(a - 1)

backspace(s) == Written([s EXCEPT !.x = ColumnBefore(@)], NUL)

Erase(s, n) ==
    LET erased[j \in 0..n] == IF j = 0 THEN s ELSE backspace(erased[j - 1])
    IN  erased[n]

-----------------------------------------------------------------------------
(* keyboard.c, on the screen.                                               *)

Init ==
    /\ scr = Cleared
    /\ line = <<>> /\ buf_idx = 0
    /\ touched = "no"

\* Nothing can happen to an empty line.  A line with a key without a character in it
\* counts as one until Enter, whatever else happens to it.
Touch(what, l) ==
    IF touched = "dead" THEN touched ELSE IF l = <<>> THEN "no" ELSE what

\* The buffer as a string: what is in front of its first NUL.
strlen(l) ==
    CHOOSE n \in 0..Len(l) : (\A k \in 1..n : l[k] # NUL) /\ (n = Len(l) \/ l[n + 1] = NUL)
String(l) == SubSeq(l, 1, strlen(l))

\* Where a line may begin: the shell has just printed its prompt, or Ctrl+L or a
\* program has left the cursor no further to the right.
MayBegin == buf_idx > 0 \/ StartAnywhere \/ scr.x % NUM_COLS <= Len(Prompt)

\* add_to_buf and delete_from_buf.
Added(c) ==
    IF buf_idx = Len(line) THEN Append(line, c) ELSE [line EXCEPT ![buf_idx + 1] = c]
Deleted == IF buf_idx = Len(line) THEN Front(line) ELSE [line EXCEPT ![buf_idx] = NUL]

\* process_key, for a key with a character.
TypeLetter(c) ==
    /\ MayBegin
    /\ buf_idx < MaxLine
    /\ line' = Added(c) /\ buf_idx' = buf_idx + 1
    /\ scr' = putc(scr, c)
    /\ UNCHANGED touched

\* process_key, for one without (Esc, a function key): a NUL is stored, nothing is shown.
TypeDeadKey ==
    /\ MayBegin
    /\ buf_idx < MaxLine
    /\ line' = Added(NUL) /\ buf_idx' = buf_idx + 1
    /\ scr' = putc(scr, NUL)
    /\ touched' = "dead"

\* The case BACKSPACE of keyboard_handler.
Backspace ==
    /\ buf_idx > 0
    /\ line' = Deleted /\ buf_idx' = buf_idx - 1
    /\ scr' = backspace(scr)
    /\ touched' = Touch(touched, line')

\* keyboard_return; a reader takes the line before the next key.
keyboard_return ==
    /\ line' = <<>> /\ buf_idx' = 0
    /\ scr' = putc(scr, NL)
    /\ touched' = "no"

\* The loop "for(i = buf_idx-1; i >= 0; i--) backspace()".
LineErased == Erase(scr, buf_idx)

\* move_up_history and move_down_history.
MoveInHistory(l) ==
    /\ MayBegin
    /\ line' = l /\ buf_idx' = Len(l)
    /\ scr' = PutAll(LineErased, l)
    /\ touched' = Touch(touched, l)

\* autocomplete, for a last word that begins at index old_idx: all of the word but its
\* first character is erased, the rest of the name is stored with its NUL, and the
\* buffer is printed from old_idx + 1, to its end.
autocomplete(old_idx, suffix) ==
    LET old == String(line)
        new == old \o suffix
    IN  /\ Len(new) <= MaxLine
        /\ line' = IF Len(new) >= Len(line) THEN new
                   ELSE new \o <<NUL>> \o SubSeq(line, Len(new) + 2, Len(line))
        /\ buf_idx' = Len(new)
        /\ scr' = PutAll(Erase(scr, Len(old) - 1 - old_idx), SubSeq(line', old_idx + 2, Len(line')))
        /\ UNCHANGED touched

\* autocomplete, repeated where it can add nothing: the matches are listed, one
\* below the other, and prompt and buffer are printed again.
ListMatches(name) ==
    /\ strlen(line) > 0
    /\ scr' = PutAll(scr, <<NL>> \o name \o <<NL>> \o Prompt \o line)
    /\ touched' = Touch("no", line)
    /\ UNCHANGED <<line, buf_idx>>

\* Ctrl+L; the prompt is printed while a shell runs, the line as a string.
CtrlL ==
    /\ \E p \in {Prompt, <<>>} : scr' = PutAll(Cleared, p \o String(line))
    /\ touched' = Touch("no", line)
    /\ UNCHANGED <<line, buf_idx>>

\* terminal_write, whether or not a line is being edited.
terminal_write(text) ==
    /\ scr' = PutAll(scr, text)
    /\ touched' = IF touched = "cleared" THEN touched ELSE Touch("printed", line)
    /\ UNCHANGED <<line, buf_idx>>

\* handle_exception clears the terminal on display and prints there, whichever
\* terminal the program belongs to.
ForeignException ==
    /\ scr' = putc(Cleared, NL)
    /\ touched' = Touch("cleared", line)
    /\ UNCHANGED <<line, buf_idx>>

Next ==
    \/ \E c \in Letters : TypeLetter(c)
    \/ TypeDeadKey
    \/ Backspace
    \/ keyboard_return
    \/ \E l \in Recalled : MoveInHistory(l)
    \/ \E old_idx \in 0..(strlen(line) - 1), suffix \in Completions : autocomplete(old_idx, suffix)
    \/ \E c \in Output : ListMatches(<<c>>)
    \/ CtrlL
    \/ \E c \in Output \cup {NL} : terminal_write(<<c>>)
    \/ terminal_write(Prompt)
    \/ ForeignException

Spec == Init /\ [][Next]_vars

-----------------------------------------------------------------------------
(* Properties.                                                              *)

\* What is displayed is what will be read: the line stands right before the cursor,
\* over row ends and after scrolling, however it was typed, erased, recalled or
\* completed, unless something else was printed into it or a key without a character
\* typed (keyboard.c:117-120, 367-379, 575-592; lib.c:176-218, 535-544).
EchoShown ==
    touched = "no" => \A k \in 1..buf_idx :
                 /\ Pos(scr) - buf_idx + k - 1 \in DOMAIN scr.cells
                 /\ scr.cells[Pos(scr) - buf_idx + k - 1] = line[k]

\* Even when output is mixed into a line, there is a cell on the screen for every
\* character that can still be erased: backspace never writes in front of video
\* memory, and putc never behind it.  (handle_exception clears the screen without
\* printing the line again.  A key without a character counts in buf_idx and not on
\* the screen: for a line that has one, only the second half is promised.)
CursorOnScreen ==
    /\ Pos(scr) < Size
    /\ touched # "dead" => Pos(scr) >= 0
    /\ touched \notin {"cleared", "dead"} => buf_idx <= Pos(scr)

\* Nothing erased or scrolled away is left at or after the cursor, where it would be
\* taken for part of the line, keys without a character included.
BlankAfterCursor ==
    \A k \in DOMAIN scr.cells : k >= Pos(scr) => scr.cells[k] \in Blanks
=============================================================================
