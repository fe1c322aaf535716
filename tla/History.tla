------------------------------- MODULE History -------------------------------
(* The command history of one terminal and the line being edited            *)
(* (keyboard.c): keyboard_return stores lines, the arrow keys recall them,  *)
(* TAB completes them.  Each is one run of the keyboard handler.  Editing   *)
(* by letters and backspace is abstracted to the line it leads to; buffer   *)
(* and reader are the subject of Terminal, the screen of Screen.            *)
EXTENDS Completion

CONSTANTS
    HISTORY_ROWS,       \* 100 in the code
    SEARCH_ROWS,        \* 1000 in the code: where the search for an empty row gives up
    KEYBOARD_BUF_SIZE,  \* 128 in the code
    Typed,              \* the lines that are typed
    Directories         \* the lists of file names an image may have

\* autocomplete does not look whether the buffer has room for the completed line.
ASSUME HistoryAssumption ==
    /\ HISTORY_ROWS \in Nat \ {0} /\ SEARCH_ROWS \in Nat /\ SEARCH_ROWS > HISTORY_ROWS
    /\ <<>> \in Typed
    /\ \A names \in Directories, line \in Typed :
          Len(Completed(names, line)) < KEYBOARD_BUF_SIZE

VARIABLES
    names,                  \* the directory of the image that was loaded
    line,                   \* keyboard_buf up to its NUL
    history,                \* the rows
    history_idx,            \* the row on display
    absolute_history_idx,   \* the row of the newest line, not yet entered
    ac_repeats,             \* how often TAB could not add anything, up to 2
    pending                 \* history: the newest line when the user last moved up from it

vars == <<names, line, history, history_idx, absolute_history_idx, ac_repeats, pending>>

Rows == 0..(HISTORY_ROWS - 1)
Line == Typed \cup {Completed(d, l) : d \in Directories, l \in Typed}

\* The index leaves the array by what the search for an empty row finds behind it.
Indices == 0..(SEARCH_ROWS - 1)

TypeOK ==
    /\ names \in Directories
    /\ line \in Line
    /\ history \in [Rows -> Line]
    /\ history_idx \in Indices /\ absolute_history_idx \in Indices
    /\ history_idx <= absolute_history_idx
    /\ ac_repeats \in 0..2
    /\ pending \in Line

\* initial_boot; absolute_history_idx and the rows are taken from fresh memory.
Init ==
    /\ names \in Directories
    /\ line = <<>>
    /\ history = [r \in Rows |-> <<>>]
    /\ history_idx = 0
    /\ absolute_history_idx = 0
    /\ ac_repeats = 0
    /\ pending = <<>>

-----------------------------------------------------------------------------

\* Letters, and backspaces, which reset the counter.
Edit(l) ==
    /\ line' = l
    /\ ac_repeats' \in {0, ac_repeats}
    /\ UNCHANGED <<names, history, history_idx, absolute_history_idx, pending>>

\* autocomplete.
autocomplete ==
    /\ line' = Completed(names, line)
    /\ ac_repeats' =
          IF line # <<>> /\ ~ExactMatch(names, line) /\ Len(Matches(names, line)) > 1
          THEN IF Ambiguous(names, line) THEN Min({2, ac_repeats + 1}) ELSE 0
          ELSE ac_repeats
    /\ UNCHANGED <<names, history, history_idx, absolute_history_idx, pending>>

\* Mutant: the next row is taken to be empty.
RowAfter(rows) == {history_idx + 1}

\* Where the search for an empty row, which does not stop at the end of the array,
\* can end: anywhere behind the array, where the next terminal's record and the rest
\* of the kernel's data lie.  (That no row up to SEARCH_ROWS begins with a NUL is left
\* out: most of that data is zero.)
EmptyRow(rows) ==
    LET empty == {r \in Rows : rows[r] = <<>>}
    IN  IF empty # {} THEN {Min(empty)} ELSE HISTORY_ROWS..(SEARCH_ROWS - 1)

\* keyboard_return, with a reader that takes the line.  Behind the array nothing is saved.
keyboard_return ==
    /\ IF history_idx < HISTORY_ROWS
       THEN /\ history' = [history EXCEPT ![history_idx] = line]
            /\ history_idx' \in EmptyRow(history')
            /\ absolute_history_idx' = history_idx'
       ELSE UNCHANGED <<history, history_idx, absolute_history_idx>>
    /\ line' = <<>>
    /\ pending' = <<>>
    /\ ac_repeats' = 0
    /\ UNCHANGED names

AtNewest == history_idx = absolute_history_idx

\* The rows that move_up_history may show in row r; behind the array, whatever is there.
Shown(r) == IF r \in Rows THEN {history'[r]} ELSE Typed

\* Mutant: the line that is left is not stored.
RowsUnsaved == history

\* The line that is left is stored if it is the newest.  Behind the array the copy
\* overwrites the next terminal's record.
RowsSaved ==
    IF AtNewest /\ history_idx \in Rows THEN [history EXCEPT ![history_idx] = line] ELSE history

move_up_history ==
    /\ history' = RowsSaved
    /\ pending' = IF AtNewest THEN line ELSE pending
    /\ history_idx' = Max({0, history_idx - 1})
    /\ line' \in Shown(history_idx')
    /\ UNCHANGED <<names, absolute_history_idx, ac_repeats>>

CanMoveDown ==
    /\ absolute_history_idx >= history_idx + 1
    /\ history_idx + 1 < HISTORY_ROWS

move_down_history ==
    /\ CanMoveDown
    /\ history_idx' = history_idx + 1
    /\ line' = history[history_idx']
    /\ UNCHANGED <<names, history, absolute_history_idx, ac_repeats, pending>>

Next ==
    \/ \E l \in Typed : Edit(l)
    \/ autocomplete
    \/ keyboard_return
    \/ move_up_history
    \/ move_down_history

Spec == Init /\ [][Next]_vars

-----------------------------------------------------------------------------
(* Properties.                                                              *)

\* No gap can stop the user on the way up: every row before the newest one holds a
\* line, also after an old line was recalled, changed or emptied and entered again
\* (keyboard.c:323-331); and the array is left only when all its rows are in use.
NoGapInHistory ==
    \A r \in Rows : r < absolute_history_idx => history[r] # <<>>

\* The line the user was typing comes back: moving up, however far and whatever is
\* edited there, and down again to the newest row shows it unchanged
\* (keyboard.c:355-357, 387-409).
PendingComesBack ==
    [][(move_down_history /\ history_idx' = absolute_history_idx) => line' = pending]_vars

\* TAB extends the last word exactly as far as all matching names agree, although the
\* code compares only neighbours and never a first character (keyboard.c:482-548).
CompletesToCommonPrefix ==
    line = <<>> \/ Last(line) = SPACE \/ Completed(names, line) = Expected(names, line)
=============================================================================
