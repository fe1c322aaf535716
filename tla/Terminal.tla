------------------------------ MODULE Terminal ------------------------------
(* Keyboard input of 391OS: the per-terminal keyboard buffer that the       *)
(* keyboard interrupt fills (keyboard.c) and terminal_read empties          *)
(* (terminal.c).  The keyboard handler is atomic; terminal_read runs with   *)
(* interrupts on, so each of its memory accesses that matters is a step:    *)
(* the test of key_flag, the two strlen calls, every byte copied, every     *)
(* byte cleared, the reset of buf_idx and the reset of key_flag.            *)
(* A process only runs while its own terminal is scheduled, so its          *)
(* "terminals[scheduled_process]" is its own terminal t.                    *)
(* Of the command history the rows are kept and not their order, which      *)
(* History models: Up and Down may recall any row stored so far.            *)
EXTENDS Integers, Sequences, FiniteSets

CONSTANTS
    Terminals,          \* the terminal numbers
    KEYBOARD_BUF_SIZE,  \* 128 in the code
    NewlineCode,        \* the byte '\n' as a number, 10 in the code
    Letters,            \* the characters typed, other than '\n'
    ReadSizes,          \* the nbytes programs pass to read
    TypeAhead,          \* may keys, Ctrl+C included, arrive between Enter and the end
                        \* of the read that takes the line?
    DeadKeys,           \* may keys without a character (Esc, a lone F1...) be typed?
    Completions,        \* what TAB adds to a word
    LongCompletions,    \* may it be more than the buffer holds?
    MaxRows             \* a bound on the distinct rows of a history

NL == "\n"
NUL == "0"
IndexByte == "#"        \* the low byte of buf_idx, read as if it were a character
NoLine == <<"no line">>

ASSUME TerminalAssumption ==
    /\ KEYBOARD_BUF_SIZE \in Nat
    /\ NewlineCode \in 1..(KEYBOARD_BUF_SIZE - 1)
    /\ NL \notin Letters /\ NUL \notin Letters /\ IndexByte \notin Letters
    /\ ReadSizes \subseteq Nat
    /\ TypeAhead \in BOOLEAN
    /\ DeadKeys \in BOOLEAN
    /\ Completions \subseteq Seq(Letters) \ {<<>>}
    /\ LongCompletions \in BOOLEAN

VARIABLES
    curr_term,      \* the terminal on display, which gets the keys
    keyboard_buf,   \* each terminal's buffer
    buf_idx,        \* where the next character goes
    key_flag,       \* 1 from Enter until the reader resets it
    history,        \* the rows each terminal's history has held
    ahead,          \* has a key ever found Enter already pressed?
    spoilt,         \* the key whose handler has written past the low byte of buf_idx:
                    \* this ends what is modelled of the terminal
    pc,             \* where each terminal's process is in terminal_read
    nbytes,         \* the argument of that call
    len,            \* the value of the first strlen
    bytes,          \* how much it will copy
    i,              \* its loop index, for the copy and for the clearing
    user_buf,       \* what it has copied so far
    got             \* what the last finished call copied

past == <<history, ahead, spoilt>>
keyboard == <<curr_term, keyboard_buf, buf_idx, key_flag, past>>
reader == <<pc, nbytes, len, bytes, i, user_buf, got>>
vars == <<keyboard, reader>>

Indices == 0..(KEYBOARD_BUF_SIZE - 1)
Cells == Letters \cup {NL, NUL}
Rows == {row \in Seq(Letters \cup {NL}) : Len(row) <= KEYBOARD_BUF_SIZE}
Steps == {"user", "wait", "strlen", "min", "memcpy", "clear", "reset", "flag"}

\* Where nothing was written past the index byte, buf_idx is at most two behind the last
\* cell, and what a reader gets is made of characters, of newlines and of that byte.
TypeOK ==
    /\ curr_term \in Terminals
    /\ keyboard_buf \in [Terminals -> [Indices -> Cells]]
    /\ buf_idx \in [Terminals -> 0..(KEYBOARD_BUF_SIZE + 1)]
    /\ key_flag \in [Terminals -> {0, 1}]
    /\ history \in [Terminals -> SUBSET Rows]
    /\ ahead \in [Terminals -> BOOLEAN]
    /\ spoilt \in [Terminals -> {"no", "Enter", "TAB"}]
    /\ pc \in [Terminals -> Steps]
    /\ nbytes \in [Terminals -> ReadSizes \cup {0}]
    /\ len \in [Terminals -> 0..(KEYBOARD_BUF_SIZE + 1)]
    /\ bytes \in [Terminals -> 0..(KEYBOARD_BUF_SIZE + 1)]
    /\ i \in [Terminals -> 0..(KEYBOARD_BUF_SIZE + 1)]
    /\ user_buf \in [Terminals -> Seq(Cells \cup {IndexByte})]
    /\ got \in [Terminals -> Seq(Cells \cup {IndexByte})]

Init ==
    /\ curr_term \in Terminals
    /\ keyboard_buf = [t \in Terminals |-> [k \in Indices |-> NUL]]
    /\ buf_idx = [t \in Terminals |-> 0]
    /\ key_flag = [t \in Terminals |-> 0]
    /\ history = [t \in Terminals |-> {<<>>}]
    /\ ahead = [t \in Terminals |-> FALSE]
    /\ spoilt = [t \in Terminals |-> "no"]
    /\ pc = [t \in Terminals |-> "user"]
    /\ nbytes = [t \in Terminals |-> 0]
    /\ len = [t \in Terminals |-> 0]
    /\ bytes = [t \in Terminals |-> 0]
    /\ i = [t \in Terminals |-> 0]
    /\ user_buf = [t \in Terminals |-> <<>>]
    /\ got = [t \in Terminals |-> <<>>]

-----------------------------------------------------------------------------
(* The keyboard interrupt.                                                  *)

\* The byte k of keyboard_buf as strlen sees it, past its end too.
Byte(t, k) ==
    IF k < KEYBOARD_BUF_SIZE THEN keyboard_buf[t][k]
    ELSE IF k = KEYBOARD_BUF_SIZE /\ buf_idx[t] # 0 THEN IndexByte
    ELSE NUL

strlen(t) ==
    CHOOSE k \in 0..(KEYBOARD_BUF_SIZE + 1) :
        Byte(t, k) = NUL /\ \A j \in 0..(k - 1) : Byte(t, j) # NUL

\* Keys go to the terminal on display.
Listening(t) ==
    /\ t = curr_term
    /\ spoilt[t] = "no"
    /\ TypeAhead \/ key_flag[t] = 0
    /\ ahead' = [ahead EXCEPT ![t] = @ \/ key_flag[t] = 1]

\* Mutant: the check is off by one.
HasRoomForLast(t) == buf_idx[t] <= KEYBOARD_BUF_SIZE - 1

\* process_key's check, repeated in add_to_buf.
HasRoom(t) == buf_idx[t] <= KEYBOARD_BUF_SIZE - 2

\* add_to_buf; a key without a character adds a NUL.
add_to_buf(t, letter) ==
    /\ Listening(t)
    /\ HasRoom(t)
    /\ keyboard_buf' = [keyboard_buf EXCEPT ![t][buf_idx[t]] = letter]
    /\ buf_idx' = [buf_idx EXCEPT ![t] = @ + 1]
    /\ UNCHANGED <<curr_term, key_flag, history, spoilt, reader>>

TypeLetter(t) == \E letter \in Letters : add_to_buf(t, letter)
TypeDeadKey(t) == DeadKeys /\ add_to_buf(t, NUL)

\* Backspace.  At index 0 the write lands on a byte that is already zero; two behind the
\* last cell it lands on the low byte of the decremented index.
delete_from_buf(t) ==
    /\ Listening(t)
    /\ buf_idx[t] > 0
    /\ IF buf_idx[t] <= KEYBOARD_BUF_SIZE
       THEN /\ keyboard_buf' = [keyboard_buf EXCEPT ![t][buf_idx[t] - 1] = NUL]
            /\ buf_idx' = [buf_idx EXCEPT ![t] = @ - 1]
       ELSE /\ buf_idx' = [buf_idx EXCEPT ![t] = 0]
            /\ UNCHANGED keyboard_buf
    /\ UNCHANGED <<curr_term, key_flag, history, spoilt, reader>>

\* The row strncpy makes of the buffer: the characters before the first NUL, or all.
Smaller(m, n) == IF m < n THEN m ELSE n
Row(t) == [k \in 1..Smaller(strlen(t), KEYBOARD_BUF_SIZE) |-> keyboard_buf[t][k - 1]]

\* The history takes the buffer's row, unless it is full or its newest row is not shown.
Remember(t) ==
    \/ /\ Cardinality(history[t]) < MaxRows
       /\ history' = [history EXCEPT ![t] = @ \cup {Row(t)}]
    \/ UNCHANGED history

\* Enter.  Nothing bounds buf_idx here.  The cell after the buffer is the low byte of
\* buf_idx itself, which then becomes '\n' before it is incremented; the one after that
\* is its second byte.
keyboard_return(t) ==
    /\ Listening(t)
    /\ Remember(t)
    /\ \/ /\ buf_idx[t] < KEYBOARD_BUF_SIZE
          /\ keyboard_buf' = [keyboard_buf EXCEPT ![t][buf_idx[t]] = NL]
          /\ buf_idx' = [buf_idx EXCEPT ![t] = @ + 1]
          /\ UNCHANGED spoilt
       \/ /\ buf_idx[t] = KEYBOARD_BUF_SIZE
          /\ buf_idx' = [buf_idx EXCEPT ![t] = NewlineCode + 1]
          /\ UNCHANGED <<keyboard_buf, spoilt>>
       \/ /\ buf_idx[t] > KEYBOARD_BUF_SIZE
          /\ spoilt' = [spoilt EXCEPT ![t] = "Enter"]
          /\ UNCHANGED <<keyboard_buf, buf_idx>>
    /\ key_flag' = [key_flag EXCEPT ![t] = 1]
    /\ UNCHANGED <<curr_term, reader>>

\* Up and Down copy a row over the buffer, all of its cells.  buf_idx becomes the length
\* of the string, which for a row without a NUL takes in the byte of buf_idx.
Recall(t, row) ==
    /\ keyboard_buf' = [keyboard_buf EXCEPT ![t] =
                           [k \in Indices |-> IF k < Len(row) THEN row[k + 1] ELSE NUL]]
    /\ buf_idx' = [buf_idx EXCEPT ![t] =
                      IF Len(row) = KEYBOARD_BUF_SIZE /\ @ # 0 THEN Len(row) + 1 ELSE Len(row)]

MoveInHistory(t) ==
    /\ Listening(t)
    /\ Remember(t)
    /\ \E row \in history'[t] : Recall(t, row)
    /\ UNCHANGED <<curr_term, key_flag, spoilt, reader>>

\* TAB adds the rest of a word and a NUL behind it, without looking at the buffer's end.
\* A word with a newline in it is the beginning of no file name.
autocomplete(t, suffix) ==
    /\ Listening(t)
    /\ strlen(t) > 0
    /\ Byte(t, strlen(t) - 1) # NL
    /\ \/ /\ strlen(t) + Len(suffix) < KEYBOARD_BUF_SIZE
          /\ keyboard_buf' = [keyboard_buf EXCEPT ![t] =
                 [k \in Indices |->
                     IF k \in strlen(t)..(strlen(t) + Len(suffix) - 1)
                     THEN suffix[k - strlen(t) + 1]
                     ELSE IF k = strlen(t) + Len(suffix) THEN NUL ELSE @[k]]]
          /\ buf_idx' = [buf_idx EXCEPT ![t] = strlen(t) + Len(suffix)]
          /\ UNCHANGED spoilt
       \/ /\ LongCompletions
          /\ strlen(t) + Len(suffix) >= KEYBOARD_BUF_SIZE
          /\ spoilt' = [spoilt EXCEPT ![t] = "TAB"]
          /\ UNCHANGED <<keyboard_buf, buf_idx>>
    /\ UNCHANGED <<curr_term, key_flag, history, reader>>

switch_terminals(t) ==
    /\ curr_term # t
    /\ curr_term' = t
    /\ UNCHANGED <<keyboard_buf, buf_idx, key_flag, past, reader>>

-----------------------------------------------------------------------------
(* terminal_read, by the process of terminal t.                             *)

At(t, step) == spoilt[t] = "no" /\ pc[t] = step
Goto(t, from, to) == At(t, from) /\ pc' = [pc EXCEPT ![t] = to]

\* The arguments and locals of the call are gone once it is over.
Forget(t) ==
    /\ nbytes' = [nbytes EXCEPT ![t] = 0]
    /\ len' = [len EXCEPT ![t] = 0]
    /\ bytes' = [bytes EXCEPT ![t] = 0]
    /\ i' = [i EXCEPT ![t] = 0]
    /\ user_buf' = [user_buf EXCEPT ![t] = <<>>]
    /\ UNCHANGED got

Call(t, n) ==
    /\ n > 0
    /\ Goto(t, "user", "wait")
    /\ nbytes' = [nbytes EXCEPT ![t] = n]
    /\ UNCHANGED <<keyboard, len, bytes, i, user_buf, got>>

\* Mutant: the reader looks for the newline at the end of the buffer, not at the flag.
PressedLast(t) == buf_idx[t] > 0 /\ Byte(t, buf_idx[t] - 1) = NL

\* Mutant: the flag of the terminal on display is the one tested.
PressedOnDisplay(t) == key_flag[curr_term] = 1

\* The loop condition of the busy wait.
Pressed(t) == key_flag[t] = 1

Wait(t) ==
    /\ Pressed(t)
    /\ Goto(t, "wait", "strlen")
    /\ UNCHANGED <<keyboard, nbytes, len, bytes, i, user_buf, got>>

\* "strlen < nbytes ? strlen : nbytes" calls strlen twice.
FirstStrlen(t) ==
    /\ Goto(t, "strlen", "min")
    /\ len' = [len EXCEPT ![t] = strlen(t)]
    /\ UNCHANGED <<keyboard, nbytes, bytes, i, user_buf, got>>

CopyLength(t) == IF len[t] < nbytes[t] THEN strlen(t) ELSE nbytes[t]

SecondStrlen(t) ==
    /\ Goto(t, "min", "memcpy")
    /\ bytes' = [bytes EXCEPT ![t] = CopyLength(t)]
    /\ i' = [i EXCEPT ![t] = 0]
    /\ UNCHANGED <<keyboard, nbytes, len, user_buf, got>>

CopyByte(t) ==
    /\ At(t, "memcpy")
    /\ i[t] < bytes[t]
    /\ user_buf' = [user_buf EXCEPT ![t] = Append(@, Byte(t, i[t]))]
    /\ i' = [i EXCEPT ![t] = @ + 1]
    /\ UNCHANGED <<keyboard, pc, nbytes, len, bytes, got>>

CopyDone(t) ==
    /\ i[t] = bytes[t]
    /\ Goto(t, "memcpy", "clear")
    /\ got' = [got EXCEPT ![t] = user_buf[t]]
    /\ i' = [i EXCEPT ![t] = 0]
    /\ UNCHANGED <<keyboard, nbytes, len, bytes, user_buf>>

\* Mutant: clearing stops at the length of the copy.
LeftToClearCopied(t) == i[t] < bytes[t]

\* The loop condition of clear_keyboard_buf.
LeftToClear(t) == i[t] < KEYBOARD_BUF_SIZE

ClearByte(t) ==
    /\ At(t, "clear")
    /\ LeftToClear(t)
    /\ keyboard_buf' = [keyboard_buf EXCEPT ![t][i[t]] = NUL]
    /\ i' = [i EXCEPT ![t] = @ + 1]
    /\ UNCHANGED <<curr_term, buf_idx, key_flag, past, pc, nbytes, len, bytes, user_buf, got>>

ClearDone(t) ==
    /\ ~LeftToClear(t)
    /\ Goto(t, "clear", "reset")
    /\ UNCHANGED <<keyboard, nbytes, len, bytes, i, user_buf, got>>

\* Mutant: the index is not reset.
KeepIndex(t) ==
    /\ Goto(t, "reset", "flag")
    /\ UNCHANGED <<keyboard, nbytes, len, bytes, i, user_buf, got>>

ResetIndex(t) ==
    /\ Goto(t, "reset", "flag")
    /\ buf_idx' = [buf_idx EXCEPT ![t] = 0]
    /\ UNCHANGED <<curr_term, keyboard_buf, key_flag, past, nbytes, len, bytes, i, user_buf, got>>

ResetFlag(t) ==
    /\ Goto(t, "flag", "user")
    /\ key_flag' = [key_flag EXCEPT ![t] = 0]
    /\ Forget(t)
    /\ UNCHANGED <<curr_term, keyboard_buf, buf_idx, past>>

\* Ctrl+C ends the process of terminal t inside its read; its parent reads next.
Cancel(t) ==
    /\ spoilt[t] = "no"
    /\ TypeAhead \/ pc[t] = "wait"
    /\ pc[t] # "user"
    /\ pc' = [pc EXCEPT ![t] = "user"]
    /\ Forget(t)
    /\ UNCHANGED keyboard

terminal_read(t) ==
    \/ Wait(t) \/ FirstStrlen(t) \/ SecondStrlen(t) \/ CopyByte(t) \/ CopyDone(t)
    \/ ClearByte(t) \/ ClearDone(t) \/ ResetIndex(t) \/ ResetFlag(t)

Keys(t) ==
    \/ TypeLetter(t) \/ TypeDeadKey(t) \/ delete_from_buf(t) \/ keyboard_return(t)
    \/ MoveInHistory(t)
    \/ \E suffix \in Completions : autocomplete(t, suffix)
    \/ switch_terminals(t)

Next == \E t \in Terminals :
    \/ Keys(t)
    \/ \E n \in ReadSizes : Call(t, n)
    \/ terminal_read(t)
    \/ Cancel(t)

Spec == Init /\ [][Next]_vars

\* The scheduler gives every terminal's process the CPU again and again.
FairSpec == Spec /\ \A t \in Terminals : WF_vars(terminal_read(t))

-----------------------------------------------------------------------------
(* The promise of LineInput, and what of it the code keeps.                 *)

Contents(t) == [k \in 1..buf_idx[t] |-> keyboard_buf[t][k - 1]]
Consumed(t) == pc[t] \in {"clear", "reset", "flag"}

Promise == INSTANCE LineInput WITH
    MaxLine <- KEYBOARD_BUF_SIZE - 1,
    line <- [t \in Terminals |-> IF key_flag[t] = 1 THEN <<>> ELSE Contents(t)],
    ready <- [t \in Terminals |->
                 IF key_flag[t] = 1 /\ ~Consumed(t) THEN Contents(t) ELSE NoLine],
    earlier <- history

\* When no key arrives between Enter and the end of the read, completions fit and
\* programs ask for at most KEYBOARD_BUF_SIZE bytes, keyboard.c and terminal_read
\* implement LineInput: a read returns the line that was typed, recalled or completed,
\* once, although it copies and clears the buffer byte by byte while other terminals run
\* and the display changes.
LinesDelivered == Promise!Spec

\* An Enter waiting in a buffer can be seen by its reader: a '\n' that was inserted
\* by keyboard_return has key_flag set until terminal_read has cleared it.
EnterNotLost ==
    \A t \in Terminals :
        (\E k \in Indices : keyboard_buf[t][k] = NL) => key_flag[t] = 1

\* Without type-ahead no key but TAB writes past the end of the buffer: whatever is typed,
\* erased, recalled and completed, there is a cell left for the newline whenever Enter can
\* be pressed, and buf_idx (keyboard.c:338, 375, 409, 588) stays that of a cell or, after
\* a full line, the next.
IndexKept ==
    \A t \in Terminals : ~ahead[t] =>
        /\ spoilt[t] # "Enter"
        /\ buf_idx[t] <= KEYBOARD_BUF_SIZE
        /\ key_flag[t] = 0 => buf_idx[t] < KEYBOARD_BUF_SIZE

\* A reader that finds Enter pressed on its own terminal returns to its program,
\* whatever is displayed and typed meanwhile, unless a key has overwritten buf_idx.
ReadReturns ==
    \A t \in Terminals :
        (pc[t] = "wait" /\ key_flag[t] = 1) ~> (pc[t] = "user" \/ spoilt[t] # "no")
=============================================================================
