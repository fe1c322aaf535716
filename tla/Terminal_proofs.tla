--------------------------- MODULE Terminal_proofs ---------------------------
(* Machine-checked proofs about Terminal, for any number of terminals and   *)
(* any size of the keyboard buffer.                                         *)
EXTENDS Terminal, NatFacts

-----------------------------------------------------------------------------
(* Type correctness, in every environment.                                  *)

\* strlen stops inside the buffer, or at one of the two bytes after it, at the first
\* zero byte.
LEMMA StrlenStops ==
  ASSUME NEW t \in Terminals
  PROVE  /\ strlen(t) \in 0..(KEYBOARD_BUF_SIZE + 1)
         /\ Byte(t, strlen(t)) = NUL
         /\ \A j \in 0..(strlen(t) - 1) : Byte(t, j) # NUL
<1>. USE TerminalAssumption
<1>. DEFINE Zeros == {k \in 0..(KEYBOARD_BUF_SIZE + 1) : Byte(t, k) = NUL}
<1>1. Byte(t, KEYBOARD_BUF_SIZE + 1) = NUL
  BY DEF Byte
<1>2. KEYBOARD_BUF_SIZE + 1 \in Zeros /\ Zeros \subseteq Nat
  BY <1>1
<1>3. PICK m \in Zeros : \A k \in Zeros : m <= k
  BY <1>2, LeastNatural
<1>4. \A j \in 0..(m - 1) : Byte(t, j) # NUL
  BY <1>3
<1>. QED  BY <1>3, <1>4 DEF strlen

LEMMA SizesAreNat == ReadSizes \cup {0} \subseteq Nat
<1>1. ReadSizes \subseteq Nat
  BY TerminalAssumption
<1>2. {0} \subseteq Nat
  OBVIOUS
<1>. QED  BY <1>1, <1>2

\* Nothing is a row of letters and newlines, too.
LEMMA EmptyRow == <<>> \in Rows
<1>1. <<>> \in Seq(Letters \cup {NL}) /\ Len(<<>>) = 0
  OBVIOUS
<1>. QED  BY <1>1, TerminalAssumption DEF Rows

LEMMA TypeInit == Init => TypeOK
<1>. SUFFICES ASSUME Init PROVE TypeOK
  OBVIOUS
<1>1. history \in [Terminals -> SUBSET Rows]
  <2>1. {<<>>} \in SUBSET Rows
    BY EmptyRow
  <2>. QED  BY <2>1 DEF Init
<1>2. /\ curr_term \in Terminals /\ keyboard_buf \in [Terminals -> [Indices -> Cells]]
      /\ buf_idx \in [Terminals -> 0..(KEYBOARD_BUF_SIZE + 1)]
      /\ key_flag \in [Terminals -> {0, 1}] /\ ahead \in [Terminals -> BOOLEAN]
      /\ spoilt \in [Terminals -> {"no", "Enter", "TAB"}]
  BY TerminalAssumption DEF Init, Cells
<1>3. /\ pc \in [Terminals -> Steps] /\ nbytes \in [Terminals -> ReadSizes \cup {0}]
      /\ len \in [Terminals -> 0..(KEYBOARD_BUF_SIZE + 1)]
      /\ bytes \in [Terminals -> 0..(KEYBOARD_BUF_SIZE + 1)]
      /\ i \in [Terminals -> 0..(KEYBOARD_BUF_SIZE + 1)]
      /\ user_buf \in [Terminals -> Seq(Cells \cup {IndexByte})]
      /\ got \in [Terminals -> Seq(Cells \cup {IndexByte})]
  BY TerminalAssumption DEF Init, Steps
<1>. QED  BY <1>1, <1>2, <1>3 DEF TypeOK

\* The type invariant in three parts: the keyboard's state, the reader's numbers and what
\* it has copied.
KeyboardType ==
    /\ curr_term \in Terminals
    /\ keyboard_buf \in [Terminals -> [Indices -> Cells]]
    /\ buf_idx \in [Terminals -> 0..(KEYBOARD_BUF_SIZE + 1)]
    /\ key_flag \in [Terminals -> {0, 1}]
    /\ history \in [Terminals -> SUBSET Rows]
    /\ ahead \in [Terminals -> BOOLEAN]
    /\ spoilt \in [Terminals -> {"no", "Enter", "TAB"}]

ReaderType ==
    /\ pc \in [Terminals -> Steps]
    /\ nbytes \in [Terminals -> ReadSizes \cup {0}]
    /\ len \in [Terminals -> 0..(KEYBOARD_BUF_SIZE + 1)]
    /\ bytes \in [Terminals -> 0..(KEYBOARD_BUF_SIZE + 1)]
    /\ i \in [Terminals -> 0..(KEYBOARD_BUF_SIZE + 1)]

CopyType ==
    /\ user_buf \in [Terminals -> Seq(Cells \cup {IndexByte})]
    /\ got \in [Terminals -> Seq(Cells \cup {IndexByte})]

LEMMA TypeParts == TypeOK <=> KeyboardType /\ ReaderType /\ CopyType
  BY DEF TypeOK, KeyboardType, ReaderType, CopyType

\* The buffer's string: its characters before the first NUL, none of them NUL.
LEMMA RowOfBuffer ==
  ASSUME KeyboardType, NEW t \in Terminals
  PROVE  /\ Row(t) \in Rows
         /\ Row(t) \in Seq(Letters \cup {NL})
         /\ Len(Row(t)) = Smaller(strlen(t), KEYBOARD_BUF_SIZE)
         /\ \A k \in 1..Len(Row(t)) : /\ k - 1 \in Indices
                                      /\ Row(t)[k] = keyboard_buf[t][k - 1]
                                      /\ Row(t)[k] # NUL
<1>. USE TerminalAssumption
<1>0. PICK n : n = Smaller(strlen(t), KEYBOARD_BUF_SIZE)
  OBVIOUS
<1>1. /\ strlen(t) \in 0..(KEYBOARD_BUF_SIZE + 1)
      /\ \A j \in 0..(strlen(t) - 1) : Byte(t, j) # NUL
  BY StrlenStops
<1>2. n \in 0..KEYBOARD_BUF_SIZE /\ n <= strlen(t)
  BY <1>0, <1>1 DEF Smaller
<1>3. \A k \in 1..n : /\ k - 1 \in Indices /\ keyboard_buf[t][k - 1] # NUL
                      /\ keyboard_buf[t][k - 1] \in Letters \cup {NL}
  <2>. SUFFICES ASSUME NEW k \in 1..n
                PROVE  /\ k - 1 \in Indices /\ keyboard_buf[t][k - 1] # NUL
                       /\ keyboard_buf[t][k - 1] \in Letters \cup {NL}
    OBVIOUS
  <2>1. k - 1 \in Indices /\ k - 1 \in 0..(strlen(t) - 1) /\ k - 1 < KEYBOARD_BUF_SIZE
    BY <1>1, <1>2 DEF Indices
  <2>2. keyboard_buf[t][k - 1] # NUL
    BY <1>1, <2>1 DEF Byte
  <2>3. keyboard_buf[t][k - 1] \in Cells
    BY <2>1 DEF KeyboardType
  <2>. QED  BY <2>1, <2>2, <2>3 DEF Cells
<1>4. Row(t) = [k \in 1..n |-> keyboard_buf[t][k - 1]]
  BY <1>0 DEF Row
<1>5. Row(t) \in [1..n -> Letters \cup {NL}]
  BY <1>3, <1>4
<1>6. Row(t) \in Seq(Letters \cup {NL}) /\ Len(Row(t)) = n
  BY <1>2, <1>5
<1>7. Row(t) \in Rows
  BY <1>2, <1>6 DEF Rows
<1>. QED  BY <1>0, <1>3, <1>4, <1>6, <1>7

\* A history keeps rows.
LEMMA RememberRows ==
  ASSUME KeyboardType, NEW t \in Terminals, Remember(t)
  PROVE  /\ history' \in [Terminals -> SUBSET Rows]
         /\ \A u \in Terminals : u # t => history'[u] = history[u]
         /\ \A row \in history'[t] : row \in history[t] \/ row = Row(t)
         /\ history[t] \subseteq history'[t]
<1>1. Row(t) \in Rows
  BY RowOfBuffer
<1>2. CASE UNCHANGED history
  BY <1>2 DEF KeyboardType
<1>3. CASE history' = [history EXCEPT ![t] = @ \cup {Row(t)}]
  <2>1. history[t] \cup {Row(t)} \in SUBSET Rows
    BY <1>1 DEF KeyboardType
  <2>2. history'[t] = history[t] \cup {Row(t)}
    BY <1>3 DEF KeyboardType
  <2>3. history' \in [Terminals -> SUBSET Rows]
    BY <1>3, <2>1 DEF KeyboardType
  <2>4. \A u \in Terminals : u # t => history'[u] = history[u]
    BY <1>3 DEF KeyboardType
  <2>. QED  BY <2>2, <2>3, <2>4
<1>. QED  BY <1>2, <1>3 DEF Remember

\* The buffer after Up, Down or TAB, for its cells.
RecalledCells(row) == [k \in Indices |-> IF k < Len(row) THEN row[k + 1] ELSE NUL]
CompletedCells(b, n, suffix) ==
    [k \in Indices |-> IF k \in n..(n + Len(suffix) - 1) THEN suffix[k - n + 1]
                       ELSE IF k = n + Len(suffix) THEN NUL ELSE b[k]]

LEMMA RecalledType ==
  ASSUME NEW row \in Seq(Letters \cup {NL})
  PROVE  /\ RecalledCells(row) \in [Indices -> Cells]
         /\ \A k \in Indices : k < Len(row) => k + 1 \in 1..Len(row)
<1>1. Len(row) \in Nat /\ \A k \in 1..Len(row) : row[k] \in Cells
  BY DEF Cells
<1>2. \A k \in Indices : k < Len(row) => k + 1 \in 1..Len(row)
  BY <1>1 DEF Indices
<1>3. \A k \in Indices : (IF k < Len(row) THEN row[k + 1] ELSE NUL) \in Cells
  BY <1>1, <1>2 DEF Cells
<1>. QED  BY <1>2, <1>3 DEF RecalledCells

LEMMA CompletedType ==
  ASSUME NEW b \in [Indices -> Cells], NEW n \in Nat, NEW suffix \in Seq(Letters)
  PROVE  /\ CompletedCells(b, n, suffix) \in [Indices -> Cells]
         /\ \A k \in n..(n + Len(suffix) - 1) : suffix[k - n + 1] \in Letters
<1>1. Len(suffix) \in Nat /\ \A k \in 1..Len(suffix) : suffix[k] \in Letters
  OBVIOUS
<1>2. \A k \in n..(n + Len(suffix) - 1) : k - n + 1 \in 1..Len(suffix)
  BY <1>1
<1>3. \A k \in n..(n + Len(suffix) - 1) : suffix[k - n + 1] \in Letters
  BY <1>1, <1>2
<1>4. Letters \subseteq Cells /\ NUL \in Cells
  BY DEF Cells
<1>5. \A k \in Indices : CompletedCells(b, n, suffix)[k] \in Cells
  BY <1>3, <1>4 DEF CompletedCells
<1>. QED  BY <1>3, <1>5 DEF CompletedCells

\* Up and Down put a row of the history, or the one just stored, in the buffer.
LEMMA RecallStep ==
  ASSUME KeyboardType, NEW t \in Terminals, MoveInHistory(t)
  PROVE  \E row \in Rows :
             /\ row \in history'[t]
             /\ row \in history[t] \/ row = Row(t)
             /\ keyboard_buf' = [keyboard_buf EXCEPT ![t] = RecalledCells(row)]
             /\ buf_idx' = [buf_idx EXCEPT ![t] =
                    IF Len(row) = KEYBOARD_BUF_SIZE /\ buf_idx[t] # 0
                    THEN Len(row) + 1 ELSE Len(row)]
<1>1. PICK row \in history'[t] : Recall(t, row)
  BY DEF MoveInHistory
<1>2. /\ history' \in [Terminals -> SUBSET Rows]
      /\ row \in history[t] \/ row = Row(t)
  BY RememberRows DEF MoveInHistory
<1>3. row \in Rows
  BY <1>2
<1>4. keyboard_buf' = [keyboard_buf EXCEPT ![t] = RecalledCells(row)]
  BY <1>1 DEF Recall, RecalledCells
<1>5. buf_idx' = [buf_idx EXCEPT ![t] =
                    IF Len(row) = KEYBOARD_BUF_SIZE /\ buf_idx[t] # 0
                    THEN Len(row) + 1 ELSE Len(row)]
  BY <1>1 DEF Recall
<1>. QED  BY <1>1, <1>2, <1>3, <1>4, <1>5

\* TAB puts letters and a NUL in the buffer, or writes behind it.
CompletionStep(t, suffix) ==
    \/ /\ strlen(t) + Len(suffix) < KEYBOARD_BUF_SIZE
       /\ keyboard_buf' = [keyboard_buf EXCEPT ![t] =
                              CompletedCells(keyboard_buf[t], strlen(t), suffix)]
       /\ buf_idx' = [buf_idx EXCEPT ![t] = strlen(t) + Len(suffix)]
       /\ UNCHANGED spoilt
    \/ /\ LongCompletions
       /\ UNCHANGED <<keyboard_buf, buf_idx>>
       /\ spoilt' = [spoilt EXCEPT ![t] = "TAB"]

LEMMA CompletionSteps ==
  ASSUME KeyboardType, NEW t \in Terminals, NEW suffix, autocomplete(t, suffix)
  PROVE  CompletionStep(t, suffix)
  BY DEF autocomplete, CompletionStep, CompletedCells

\* A key writes inside the buffer, and moves the index by one, to the end of a string or to
\* just after the newline.
LEMMA KeyboardStep ==
  ASSUME KeyboardType, NEW t \in Terminals, Keys(t)
  PROVE  KeyboardType' /\ UNCHANGED reader
<1>. USE TerminalAssumption
<1>0. ASSUME Listening(t) PROVE ahead' \in [Terminals -> BOOLEAN]
  BY <1>0 DEF Listening, KeyboardType
<1>1. ASSUME NEW letter \in Letters \cup {NUL}, add_to_buf(t, letter)
      PROVE  KeyboardType' /\ UNCHANGED reader
  BY <1>0, <1>1 DEF add_to_buf, HasRoom, KeyboardType, Indices, Cells
<1>2. ASSUME delete_from_buf(t) PROVE KeyboardType' /\ UNCHANGED reader
  <2>0. /\ UNCHANGED <<curr_term, key_flag, history, spoilt>> /\ UNCHANGED reader
        /\ ahead' \in [Terminals -> BOOLEAN] /\ buf_idx[t] > 0
    BY <1>0, <1>2 DEF delete_from_buf
  <2>1. CASE buf_idx[t] <= KEYBOARD_BUF_SIZE
    <3>1. /\ keyboard_buf' = [keyboard_buf EXCEPT ![t][buf_idx[t] - 1] = NUL]
          /\ buf_idx' = [buf_idx EXCEPT ![t] = buf_idx[t] - 1]
      BY <1>2, <2>1 DEF delete_from_buf
    <3>2. keyboard_buf' \in [Terminals -> [Indices -> Cells]]
      BY <2>0, <2>1, <3>1 DEF KeyboardType, Indices, Cells
    <3>3. buf_idx' \in [Terminals -> 0..(KEYBOARD_BUF_SIZE + 1)]
      BY <2>0, <3>1 DEF KeyboardType
    <3>. QED  BY <2>0, <3>2, <3>3 DEF KeyboardType
  <2>2. CASE ~(buf_idx[t] <= KEYBOARD_BUF_SIZE)
    <3>1. keyboard_buf' = keyboard_buf /\ buf_idx' = [buf_idx EXCEPT ![t] = 0]
      BY <1>2, <2>2 DEF delete_from_buf
    <3>2. buf_idx' \in [Terminals -> 0..(KEYBOARD_BUF_SIZE + 1)]
      BY <3>1 DEF KeyboardType
    <3>. QED  BY <2>0, <3>1, <3>2 DEF KeyboardType
  <2>. QED  BY <2>1, <2>2
<1>3. ASSUME keyboard_return(t) PROVE KeyboardType' /\ UNCHANGED reader
  <2>1. /\ curr_term' = curr_term /\ UNCHANGED reader
        /\ key_flag' = [key_flag EXCEPT ![t] = 1] /\ Listening(t) /\ Remember(t)
    BY <1>3 DEF keyboard_return
  <2>2. /\ key_flag' \in [Terminals -> {0, 1}] /\ ahead' \in [Terminals -> BOOLEAN]
        /\ history' \in [Terminals -> SUBSET Rows] /\ curr_term' \in Terminals
    BY <1>0, <2>1, RememberRows DEF KeyboardType
  <2>3. CASE buf_idx[t] < KEYBOARD_BUF_SIZE
    <3>1. /\ keyboard_buf' = [keyboard_buf EXCEPT ![t][buf_idx[t]] = NL]
          /\ buf_idx' = [buf_idx EXCEPT ![t] = @ + 1] /\ spoilt' = spoilt
      BY <1>3, <2>3 DEF keyboard_return, KeyboardType
    <3>2. keyboard_buf' \in [Terminals -> [Indices -> Cells]]
      BY <2>3, <3>1 DEF KeyboardType, Indices, Cells
    <3>3. buf_idx' \in [Terminals -> 0..(KEYBOARD_BUF_SIZE + 1)]
      BY <2>3, <3>1 DEF KeyboardType
    <3>. QED  BY <2>1, <2>2, <3>1, <3>2, <3>3 DEF KeyboardType
  <2>4. CASE buf_idx[t] = KEYBOARD_BUF_SIZE
    <3>1. /\ keyboard_buf' = keyboard_buf /\ spoilt' = spoilt
          /\ buf_idx' = [buf_idx EXCEPT ![t] = NewlineCode + 1]
      BY <1>3, <2>4 DEF keyboard_return
    <3>2. buf_idx' \in [Terminals -> 0..(KEYBOARD_BUF_SIZE + 1)]
      BY <3>1 DEF KeyboardType
    <3>. QED  BY <2>1, <2>2, <3>1, <3>2 DEF KeyboardType
  <2>5. CASE buf_idx[t] > KEYBOARD_BUF_SIZE
    <3>1. /\ keyboard_buf' = keyboard_buf /\ buf_idx' = buf_idx
          /\ spoilt' = [spoilt EXCEPT ![t] = "Enter"]
      BY <1>3, <2>5 DEF keyboard_return, KeyboardType
    <3>. QED  BY <2>1, <2>2, <3>1 DEF KeyboardType
  <2>6. buf_idx[t] \in 0..(KEYBOARD_BUF_SIZE + 1)
    BY DEF KeyboardType
  <2>. QED  BY <2>3, <2>4, <2>5, <2>6
<1>4. ASSUME switch_terminals(t) PROVE KeyboardType' /\ UNCHANGED reader
  BY <1>4 DEF switch_terminals, KeyboardType, past
<1>5. ASSUME MoveInHistory(t) PROVE KeyboardType' /\ UNCHANGED reader
  <2>1. /\ Listening(t) /\ Remember(t) /\ UNCHANGED <<curr_term, key_flag, spoilt>>
        /\ UNCHANGED reader
    BY <1>5 DEF MoveInHistory
  <2>2. /\ ahead' \in [Terminals -> BOOLEAN] /\ history' \in [Terminals -> SUBSET Rows]
    BY <1>0, <2>1, RememberRows
  <2>3. PICK row \in Rows :
             /\ keyboard_buf' = [keyboard_buf EXCEPT ![t] = RecalledCells(row)]
             /\ buf_idx' = [buf_idx EXCEPT ![t] =
                    IF Len(row) = KEYBOARD_BUF_SIZE /\ buf_idx[t] # 0
                    THEN Len(row) + 1 ELSE Len(row)]
    BY <1>5, RecallStep
  <2>4. row \in Seq(Letters \cup {NL}) /\ Len(row) \in 0..KEYBOARD_BUF_SIZE
    BY DEF Rows
  <2>5. keyboard_buf' \in [Terminals -> [Indices -> Cells]]
    <3>1. RecalledCells(row) \in [Indices -> Cells]
      BY <2>4, RecalledType
    <3>. QED  BY <2>3, <3>1 DEF KeyboardType
  <2>6. buf_idx' \in [Terminals -> 0..(KEYBOARD_BUF_SIZE + 1)]
    BY <2>3, <2>4 DEF KeyboardType
  <2>. QED  BY <2>1, <2>2, <2>5, <2>6 DEF KeyboardType
<1>6. ASSUME NEW suffix \in Completions, autocomplete(t, suffix)
      PROVE  KeyboardType' /\ UNCHANGED reader
  <2>1. /\ Listening(t) /\ UNCHANGED <<curr_term, key_flag, history>> /\ UNCHANGED reader
    BY <1>6 DEF autocomplete
  <2>2. ahead' \in [Terminals -> BOOLEAN]
    BY <1>0, <2>1
  <2>3. CompletionStep(t, suffix)
    BY <1>6, CompletionSteps
  <2>4. PICK n \in Nat : n = strlen(t)
    BY StrlenStops
  <2>5. suffix \in Seq(Letters) /\ Len(suffix) \in Nat
    OBVIOUS
  <2>6. ASSUME n + Len(suffix) < KEYBOARD_BUF_SIZE, UNCHANGED spoilt,
               keyboard_buf' = [keyboard_buf EXCEPT ![t] =
                                   CompletedCells(keyboard_buf[t], n, suffix)],
               buf_idx' = [buf_idx EXCEPT ![t] = n + Len(suffix)]
        PROVE  KeyboardType' /\ UNCHANGED reader
    <3>2. CompletedCells(keyboard_buf[t], n, suffix) \in [Indices -> Cells]
      BY <2>5, CompletedType DEF KeyboardType
    <3>3. keyboard_buf' \in [Terminals -> [Indices -> Cells]]
      BY <2>6, <3>2 DEF KeyboardType
    <3>4. buf_idx' \in [Terminals -> 0..(KEYBOARD_BUF_SIZE + 1)]
      BY <2>5, <2>6 DEF KeyboardType
    <3>. QED  BY <2>1, <2>2, <2>6, <3>3, <3>4 DEF KeyboardType
  <2>7. CASE UNCHANGED <<keyboard_buf, buf_idx>> /\ spoilt' = [spoilt EXCEPT ![t] = "TAB"]
    BY <2>1, <2>2, <2>7 DEF KeyboardType
  <2>. QED  BY <2>3, <2>4, <2>6, <2>7 DEF CompletionStep
<1>. QED
  BY <1>1, <1>2, <1>3, <1>4, <1>5, <1>6 DEF Keys, TypeLetter, TypeDeadKey

\* A read clears inside the buffer.
LEMMA ReadStep ==
  ASSUME KeyboardType, ReaderType, NEW t \in Terminals,
         terminal_read(t) \/ Cancel(t) \/ \E n \in ReadSizes : Call(t, n)
  PROVE  KeyboardType' /\ ReaderType'
<1>. USE TerminalAssumption
<1>1. ASSUME NEW n \in ReadSizes, Call(t, n) PROVE KeyboardType' /\ ReaderType'
  BY <1>1 DEF Call, Goto, keyboard, past, KeyboardType, ReaderType, Steps
<1>2. CASE Wait(t) \/ ClearDone(t)
  BY <1>2 DEF Wait, ClearDone, Goto, keyboard, past, KeyboardType, ReaderType, Steps
<1>3. CASE FirstStrlen(t)
  BY <1>3, StrlenStops DEF FirstStrlen, Goto, keyboard, past, KeyboardType, ReaderType, Steps
<1>4. CASE SecondStrlen(t)
  <2>1. nbytes[t] \in Nat
    BY SizesAreNat DEF ReaderType
  <2>2. CopyLength(t) \in 0..(KEYBOARD_BUF_SIZE + 1)
    BY <2>1, StrlenStops DEF CopyLength, ReaderType
  <2>3. KeyboardType'
    BY <1>4 DEF SecondStrlen, keyboard, past, KeyboardType
  <2>4. 0 \in 0..(KEYBOARD_BUF_SIZE + 1) /\ "memcpy" \in Steps
    BY DEF Steps
  <2>5. /\ pc' = [pc EXCEPT ![t] = "memcpy"] /\ bytes' = [bytes EXCEPT ![t] = CopyLength(t)]
        /\ i' = [i EXCEPT ![t] = 0] /\ UNCHANGED <<nbytes, len>>
    BY <1>4 DEF SecondStrlen, Goto
  <2>6. ReaderType'
    BY <2>2, <2>4, <2>5 DEF ReaderType
  <2>. QED  BY <2>3, <2>6
<1>5. CASE CopyByte(t)
  <2>1. /\ UNCHANGED <<pc, nbytes, len, bytes>> /\ UNCHANGED keyboard
        /\ i' = [i EXCEPT ![t] = i[t] + 1] /\ i[t] < bytes[t]
    BY <1>5 DEF CopyByte
  <2>2. i[t] + 1 \in 0..(KEYBOARD_BUF_SIZE + 1)
    BY <2>1 DEF ReaderType
  <2>3. ReaderType'
    BY <2>1, <2>2 DEF ReaderType
  <2>4. KeyboardType'
    BY <2>1 DEF KeyboardType, keyboard, past
  <2>. QED  BY <2>3, <2>4
<1>6. CASE CopyDone(t)
  BY <1>6 DEF CopyDone, Goto, keyboard, past, KeyboardType, ReaderType, Steps
<1>7. CASE ClearByte(t)
  <2>1. KeyboardType'
    BY <1>7 DEF ClearByte, LeftToClear, past, KeyboardType, ReaderType, Indices, Cells
  <2>2. ReaderType'
    BY <1>7 DEF ClearByte, LeftToClear, ReaderType
  <2>. QED  BY <2>1, <2>2
<1>8. CASE ResetIndex(t)
  BY <1>8 DEF ResetIndex, Goto, past, KeyboardType, ReaderType, Steps
<1>9. CASE ResetFlag(t)
  BY <1>9 DEF ResetFlag, Goto, Forget, past, KeyboardType, ReaderType, Steps
<1>10. CASE Cancel(t)
  BY <1>10 DEF Cancel, Forget, keyboard, past, KeyboardType, ReaderType, Steps
<1>. QED
  BY <1>1, <1>2, <1>3, <1>4, <1>5, <1>6, <1>7, <1>8, <1>9, <1>10 DEF terminal_read

\* What is copied is made of bytes.
LEMMA CopyStep ==
  ASSUME KeyboardType, ReaderType, CopyType, NEW t \in Terminals,
         terminal_read(t) \/ Cancel(t) \/ \E n \in ReadSizes : Call(t, n)
  PROVE  CopyType'
<1>. DEFINE B == Cells \cup {IndexByte}
<1>1. CASE CopyByte(t)
  <2>. DEFINE c == Byte(t, i[t])
  <2>1. c \in B
    BY TerminalAssumption DEF Byte, KeyboardType, ReaderType, Indices, Cells
  <2>2. user_buf' = [user_buf EXCEPT ![t] = Append(@, c)] /\ got' = got
    BY <1>1 DEF CopyByte
  <2>. HIDE DEF c, B
  <2>3. Append(user_buf[t], c) \in Seq(B)
    BY <2>1 DEF CopyType, B
  <2>. QED  BY <2>2, <2>3 DEF CopyType, B
<1>2. CASE CopyDone(t)
  BY <1>2 DEF CopyDone, CopyType
<1>3. CASE ResetFlag(t) \/ Cancel(t)
  <2>1. user_buf' = [user_buf EXCEPT ![t] = <<>>] /\ got' = got
    BY <1>3 DEF ResetFlag, Cancel, Forget
  <2>2. <<>> \in Seq(B)
    OBVIOUS
  <2>. HIDE DEF B
  <2>. QED  BY <2>1, <2>2 DEF CopyType, B
<1>4. CASE UNCHANGED <<user_buf, got>>
  BY <1>4 DEF CopyType
<1>. QED
  BY <1>1, <1>2, <1>3, <1>4
     DEF terminal_read, Call, Wait, FirstStrlen, SecondStrlen, ClearByte, ClearDone, ResetIndex

\* Every step keeps the types.
LEMMA TypeStep == ASSUME TypeOK, [Next]_vars PROVE TypeOK'
<1>. USE TypeParts
<1>1. KeyboardType /\ ReaderType /\ CopyType
  OBVIOUS
<1>2. ASSUME NEW t \in Terminals, Keys(t) PROVE KeyboardType' /\ ReaderType' /\ CopyType'
  BY <1>1, <1>2, KeyboardStep DEF reader, ReaderType, CopyType
<1>3. ASSUME NEW t \in Terminals,
             terminal_read(t) \/ Cancel(t) \/ \E n \in ReadSizes : Call(t, n)
      PROVE  KeyboardType' /\ ReaderType' /\ CopyType'
  BY <1>1, <1>3, ReadStep, CopyStep
<1>4. CASE UNCHANGED vars
  BY <1>4 DEF vars, keyboard, past, reader, TypeOK
<1>5. ASSUME Next PROVE KeyboardType' /\ ReaderType' /\ CopyType'
  BY <1>2, <1>3, <1>5 DEF Next
<1>6. KeyboardType' /\ ReaderType' /\ CopyType' => TypeOK'
  BY DEF TypeOK, KeyboardType, ReaderType, CopyType
<1>. QED  BY <1>4, <1>5, <1>6

\* Whatever is typed, recalled, completed and read, until a key overwrites more of buf_idx
\* than its low byte: the buffer index leaves the buffer by at most two, every copy ends
\* within two bytes of the buffer, and a reader gets characters, newlines and at most the
\* index byte (keyboard.c:257-414, 575-591, terminal.c:30-57).
THEOREM TypeCorrect == Spec => []TypeOK
  BY TypeInit, TypeStep, PTL DEF Spec
-----------------------------------------------------------------------------
(* As long as no key finds Enter already pressed: in every environment.     *)

\* The step concerns the buffer and the reader of terminal t only.
OnlyTerm(t) ==
    \A u \in Terminals : u # t =>
        /\ keyboard_buf'[u] = keyboard_buf[u] /\ buf_idx'[u] = buf_idx[u]
        /\ key_flag'[u] = key_flag[u] /\ history'[u] = history[u]
        /\ ahead'[u] = ahead[u] /\ spoilt'[u] = spoilt[u]
        /\ pc'[u] = pc[u] /\ nbytes'[u] = nbytes[u]
        /\ len'[u] = len[u] /\ bytes'[u] = bytes[u] /\ i'[u] = i[u]
        /\ user_buf'[u] = user_buf[u]

LEMMA KeysOnly ==
  ASSUME TypeOK, NEW t \in Terminals, Keys(t)
  PROVE  switch_terminals(t) \/ (OnlyTerm(t) /\ Listening(t))
<1>1. KeyboardType
  BY TypeParts
<1>2. UNCHANGED <<pc, nbytes, len, bytes, i, user_buf, got>>
  BY <1>1, KeyboardStep DEF reader
<1>3. ASSUME Listening(t) PROVE \A u \in Terminals : u # t => ahead'[u] = ahead[u]
  BY <1>1, <1>3 DEF Listening, KeyboardType
<1>4. ASSUME NEW letter, add_to_buf(t, letter) PROVE OnlyTerm(t) /\ Listening(t)
  <2>1. Listening(t)
    BY <1>4 DEF add_to_buf
  <2>2. /\ \A u \in Terminals : u # t => keyboard_buf'[u] = keyboard_buf[u]
        /\ \A u \in Terminals : u # t => buf_idx'[u] = buf_idx[u]
        /\ UNCHANGED <<key_flag, history, spoilt>>
    BY <1>1, <1>4 DEF add_to_buf, KeyboardType
  <2>. QED  BY <1>2, <1>3, <2>1, <2>2 DEF OnlyTerm
<1>5. CASE delete_from_buf(t)
  <2>1. Listening(t)
    BY <1>5 DEF delete_from_buf
  <2>2. /\ \A u \in Terminals : u # t => keyboard_buf'[u] = keyboard_buf[u]
        /\ \A u \in Terminals : u # t => buf_idx'[u] = buf_idx[u]
        /\ UNCHANGED <<key_flag, history, spoilt>>
    BY <1>1, <1>5 DEF delete_from_buf, KeyboardType
  <2>. QED  BY <1>2, <1>3, <2>1, <2>2 DEF OnlyTerm
<1>6. CASE keyboard_return(t)
  <2>1. Listening(t) /\ Remember(t)
    BY <1>6 DEF keyboard_return
  <2>2. /\ \A u \in Terminals : u # t => keyboard_buf'[u] = keyboard_buf[u]
        /\ \A u \in Terminals : u # t => buf_idx'[u] = buf_idx[u]
        /\ \A u \in Terminals : u # t => spoilt'[u] = spoilt[u]
        /\ \A u \in Terminals : u # t => key_flag'[u] = key_flag[u]
    BY <1>1, <1>6 DEF keyboard_return, KeyboardType
  <2>3. \A u \in Terminals : u # t => history'[u] = history[u]
    BY <1>1, <2>1, RememberRows
  <2>. QED  BY <1>2, <1>3, <2>1, <2>2, <2>3 DEF OnlyTerm
<1>7. CASE MoveInHistory(t)
  <2>1. Listening(t) /\ Remember(t) /\ UNCHANGED <<key_flag, spoilt>>
    BY <1>7 DEF MoveInHistory
  <2>2. /\ \A u \in Terminals : u # t => keyboard_buf'[u] = keyboard_buf[u]
        /\ \A u \in Terminals : u # t => buf_idx'[u] = buf_idx[u]
    BY <1>1, <1>7, RecallStep DEF KeyboardType
  <2>3. \A u \in Terminals : u # t => history'[u] = history[u]
    BY <1>1, <2>1, RememberRows
  <2>. QED  BY <1>2, <1>3, <2>1, <2>2, <2>3 DEF OnlyTerm
<1>8. ASSUME NEW suffix, autocomplete(t, suffix) PROVE OnlyTerm(t) /\ Listening(t)
  <2>1. Listening(t) /\ UNCHANGED <<key_flag, history>>
    BY <1>8 DEF autocomplete
  <2>2. /\ \A u \in Terminals : u # t => keyboard_buf'[u] = keyboard_buf[u]
        /\ \A u \in Terminals : u # t => buf_idx'[u] = buf_idx[u]
        /\ \A u \in Terminals : u # t => spoilt'[u] = spoilt[u]
    <3>1. CompletionStep(t, suffix)
      BY <1>1, <1>8, CompletionSteps
    <3>. QED  BY <1>1, <3>1 DEF CompletionStep, KeyboardType
  <2>. QED  BY <1>2, <1>3, <2>1, <2>2 DEF OnlyTerm
<1>. QED
  BY <1>4, <1>5, <1>6, <1>7, <1>8 DEF Keys, TypeLetter, TypeDeadKey

LEMMA KeysOnlyTerm == ASSUME TypeOK, NEW t \in Terminals, Keys(t) PROVE OnlyTerm(t)
  BY KeysOnly DEF switch_terminals, past, reader, OnlyTerm

LEMMA ReadOnly ==
  ASSUME TypeOK, NEW t \in Terminals,
         terminal_read(t) \/ Cancel(t) \/ \E n \in ReadSizes : Call(t, n)
  PROVE  OnlyTerm(t) /\ UNCHANGED <<curr_term, history, ahead, spoilt>>
<1>1. KeyboardType /\ ReaderType /\ CopyType
  BY TypeParts
<1>. USE <1>1 DEF KeyboardType, ReaderType, CopyType, OnlyTerm, keyboard, past, Goto
<1>2. CASE \E n \in ReadSizes : Call(t, n)
  BY <1>2 DEF Call
<1>3. CASE Wait(t) \/ FirstStrlen(t)
  BY <1>3 DEF Wait, FirstStrlen
<1>4. CASE SecondStrlen(t) \/ CopyByte(t)
  BY <1>4 DEF SecondStrlen, CopyByte
<1>5. CASE CopyDone(t)
  BY <1>5 DEF CopyDone
<1>6. CASE ClearByte(t) \/ ClearDone(t) \/ ResetIndex(t)
  <2>1. CASE ClearByte(t)
    BY <2>1 DEF ClearByte
  <2>2. CASE ClearDone(t) \/ ResetIndex(t)
    BY <2>2 DEF ClearDone, ResetIndex
  <2>. QED  BY <1>6, <2>1, <2>2
<1>7. CASE ResetFlag(t)
  BY <1>7 DEF ResetFlag, Forget
<1>8. CASE Cancel(t)
  BY <1>8 DEF Cancel, Forget
<1>. QED  BY <1>2, <1>3, <1>4, <1>5, <1>6, <1>7, <1>8 DEF terminal_read

\* While the flag is down there is a cell left for the newline, the string ends before it
\* and holds no other newline; a reader past the wait has the flag up; the clearing leaves
\* zeros behind it; and the history holds lines that leave room for a newline, too.
Calm(t) ==
    /\ key_flag[t] = 0 => pc[t] \in {"user", "wait"}
    /\ key_flag[t] = 0 => buf_idx[t] < KEYBOARD_BUF_SIZE
    /\ key_flag[t] = 0 => keyboard_buf[t][KEYBOARD_BUF_SIZE - 1] = NUL
    /\ key_flag[t] = 0 => \A k \in Indices : keyboard_buf[t][k] # NL
    /\ pc[t] = "clear" => \A k \in Indices : k < i[t] => keyboard_buf[t][k] = NUL
    /\ pc[t] \in {"reset", "flag"} => \A k \in Indices : keyboard_buf[t][k] = NUL
    /\ pc[t] = "flag" => buf_idx[t] = 0
    /\ buf_idx[t] <= KEYBOARD_BUF_SIZE
    /\ \A row \in history[t] : row \in Seq(Letters) /\ Len(row) < KEYBOARD_BUF_SIZE
    /\ spoilt[t] # "Enter"

CalmInv == \A t \in Terminals : ~ahead[t] => Calm(t)

LEMMA CalmElsewhere ==
  ASSUME CalmInv, NEW t \in Terminals, OnlyTerm(t), ~ahead'[t] => Calm(t)'
  PROVE  CalmInv'
<1>1. \A u \in Terminals : u # t => (~ahead'[u] => Calm(u)')
  BY DEF CalmInv, Calm, OnlyTerm
<1>. QED  BY <1>1 DEF CalmInv

\* The row made of such a buffer is a line with room for its newline.
LEMMA RowIsALine ==
  ASSUME KeyboardType, NEW t \in Terminals, keyboard_buf[t][KEYBOARD_BUF_SIZE - 1] = NUL,
         \A k \in Indices : keyboard_buf[t][k] # NL
  PROVE  Row(t) \in Seq(Letters) /\ Len(Row(t)) < KEYBOARD_BUF_SIZE
<1>. USE TerminalAssumption
<1>0. PICK n : n = strlen(t)
  OBVIOUS
<1>1. n \in 0..(KEYBOARD_BUF_SIZE + 1) /\ \A j \in 0..(n - 1) : Byte(t, j) # NUL
  BY <1>0, StrlenStops
<1>2. n < KEYBOARD_BUF_SIZE
  <2>1. Byte(t, KEYBOARD_BUF_SIZE - 1) = NUL
    BY DEF Byte
  <2>2. ~(KEYBOARD_BUF_SIZE - 1 \in 0..(n - 1))
    BY <1>1, <2>1
  <2>. QED  BY <1>1, <2>2
<1>3. PICK row : row = Row(t)
  OBVIOUS
<1>4. /\ row \in Seq(Letters \cup {NL}) /\ Len(row) = n
      /\ \A k \in 1..Len(row) : k - 1 \in Indices /\ row[k] = keyboard_buf[t][k - 1]
  BY <1>0, <1>1, <1>2, <1>3, RowOfBuffer DEF Smaller
<1>5. \A k \in 1..Len(row) : row[k] \in Letters
  <2>1. \A k \in 1..Len(row) : row[k] # NL
    BY <1>4
  <2>. QED  BY <1>4, <2>1
<1>6. row \in Seq(Letters)
  BY <1>4, <1>5
<1>. QED  BY <1>2, <1>3, <1>4, <1>6

\* A key that finds the flag down leaves the buffer calm.
LEMMA CalmKeys ==
  ASSUME TypeOK, CalmInv, NEW t \in Terminals, Keys(t)
  PROVE  CalmInv'
<1>. USE TerminalAssumption
<1>1. KeyboardType
  BY TypeParts
<1>2. UNCHANGED <<pc, i>>
  BY <1>1, KeyboardStep DEF reader
<1>3. CASE switch_terminals(t)
  BY <1>2, <1>3 DEF switch_terminals, past, CalmInv, Calm
<1>. SUFFICES ASSUME OnlyTerm(t), Listening(t), ~ahead'[t] PROVE Calm(t)'
  BY <1>3, KeysOnly, CalmElsewhere
<1>4. ~ahead[t] /\ key_flag[t] = 0
  BY <1>1 DEF Listening, KeyboardType
<1>5. PICK b : b = keyboard_buf[t]
  OBVIOUS
<1>6. /\ pc[t] \in {"user", "wait"} /\ buf_idx[t] \in Indices
      /\ b[KEYBOARD_BUF_SIZE - 1] = NUL /\ \A k \in Indices : b[k] # NL
      /\ \A row \in history[t] : row \in Seq(Letters) /\ Len(row) < KEYBOARD_BUF_SIZE
      /\ spoilt[t] # "Enter"
  BY <1>1, <1>4, <1>5 DEF CalmInv, Calm, KeyboardType, Indices
<1>7. KEYBOARD_BUF_SIZE - 1 \in Indices
  BY DEF Indices
<1>8. ASSUME NEW n \in Indices, NEW x, keyboard_buf' = [keyboard_buf EXCEPT ![t][n] = x]
      PROVE  \A k \in Indices : keyboard_buf'[t][k] = IF k = n THEN x ELSE b[k]
  BY <1>1, <1>5, <1>8 DEF KeyboardType
<1>9. ASSUME NEW letter \in Letters \cup {NUL}, add_to_buf(t, letter) PROVE Calm(t)'
  <2>1. /\ keyboard_buf' = [keyboard_buf EXCEPT ![t][buf_idx[t]] = letter]
        /\ buf_idx'[t] = buf_idx[t] + 1 /\ buf_idx[t] <= KEYBOARD_BUF_SIZE - 2
        /\ UNCHANGED <<key_flag, history, spoilt>>
    BY <1>1, <1>9 DEF add_to_buf, HasRoom, KeyboardType
  <2>2. \A k \in Indices : keyboard_buf'[t][k] = IF k = buf_idx[t] THEN letter ELSE b[k]
    BY <1>1, <1>5, <1>6, <2>1 DEF KeyboardType
  <2>3. letter # NL /\ KEYBOARD_BUF_SIZE - 1 # buf_idx[t] /\ buf_idx'[t] < KEYBOARD_BUF_SIZE
    BY <1>6, <2>1 DEF NL, NUL, Indices
  <2>4. buf_idx'[t] <= KEYBOARD_BUF_SIZE
    BY <1>6, <2>1 DEF Indices
  <2>. QED  BY <1>2, <1>4, <1>6, <1>7, <2>1, <2>2, <2>3, <2>4 DEF Calm
<1>10. CASE delete_from_buf(t)
  <2>1. /\ keyboard_buf' = [keyboard_buf EXCEPT ![t][buf_idx[t] - 1] = NUL]
        /\ buf_idx'[t] = buf_idx[t] - 1 /\ buf_idx[t] - 1 \in Indices
        /\ UNCHANGED <<key_flag, history, spoilt>>
    BY <1>1, <1>6, <1>10 DEF delete_from_buf, KeyboardType, Indices
  <2>2. \A k \in Indices : keyboard_buf'[t][k] = IF k = buf_idx[t] - 1 THEN NUL ELSE b[k]
    BY <1>8, <2>1
  <2>3. buf_idx'[t] <= KEYBOARD_BUF_SIZE /\ buf_idx'[t] < KEYBOARD_BUF_SIZE
    BY <1>6, <2>1 DEF Indices
  <2>4. NUL # NL
    BY DEF NL, NUL
  <2>. QED  BY <1>2, <1>4, <1>6, <1>7, <2>1, <2>2, <2>3, <2>4 DEF Calm
<1>11. ASSUME Remember(t)
       PROVE  \A row \in history'[t] : row \in Seq(Letters) /\ Len(row) < KEYBOARD_BUF_SIZE
  <2>1. Row(t) \in Seq(Letters) /\ Len(Row(t)) < KEYBOARD_BUF_SIZE
    BY <1>1, <1>5, <1>6, RowIsALine
  <2>. QED  BY <1>1, <1>6, <1>11, <2>1, RememberRows
<1>12. CASE keyboard_return(t)
  <2>1. /\ buf_idx'[t] = buf_idx[t] + 1 /\ key_flag'[t] = 1 /\ spoilt' = spoilt /\ Remember(t)
    BY <1>1, <1>6, <1>12 DEF keyboard_return, KeyboardType, Indices
  <2>2. buf_idx'[t] <= KEYBOARD_BUF_SIZE
    BY <1>6, <2>1 DEF Indices
  <2>. QED  BY <1>2, <1>6, <1>11, <2>1, <2>2 DEF Calm
<1>13. CASE MoveInHistory(t)
  <2>1. UNCHANGED <<key_flag, spoilt>> /\ Remember(t)
    BY <1>13 DEF MoveInHistory
  <2>2. PICK row \in Rows :
          /\ row \in history'[t]
          /\ keyboard_buf' = [keyboard_buf EXCEPT ![t] = RecalledCells(row)]
          /\ buf_idx' = [buf_idx EXCEPT ![t] =
                 IF Len(row) = KEYBOARD_BUF_SIZE /\ buf_idx[t] # 0
                 THEN Len(row) + 1 ELSE Len(row)]
    BY <1>1, <1>13, RecallStep
  <2>3. row \in Seq(Letters) /\ Len(row) \in 0..(KEYBOARD_BUF_SIZE - 1)
    BY <1>11, <2>1, <2>2
  <2>4. keyboard_buf'[t] = RecalledCells(row) /\ buf_idx'[t] = Len(row)
    BY <1>1, <2>2, <2>3 DEF KeyboardType
  <2>5. \A k \in Indices : keyboard_buf'[t][k] # NL
    <3>1. \A k \in Indices : k < Len(row) => row[k + 1] \in Letters
      BY <2>3 DEF Indices
    <3>. QED  BY <2>4, <3>1 DEF RecalledCells, NL, NUL
  <2>6. keyboard_buf'[t][KEYBOARD_BUF_SIZE - 1] = NUL
    BY <1>7, <2>3, <2>4 DEF RecalledCells
  <2>7. buf_idx'[t] <= KEYBOARD_BUF_SIZE /\ buf_idx'[t] < KEYBOARD_BUF_SIZE
    BY <2>3, <2>4
  <2>. QED  BY <1>2, <1>6, <1>11, <2>1, <2>5, <2>6, <2>7 DEF Calm
<1>14. ASSUME NEW suffix \in Completions, autocomplete(t, suffix) PROVE Calm(t)'
  <2>1. UNCHANGED <<key_flag, history>> /\ CompletionStep(t, suffix)
    BY <1>1, <1>14, CompletionSteps DEF autocomplete
  <2>2. ASSUME UNCHANGED <<keyboard_buf, buf_idx>>, spoilt' = [spoilt EXCEPT ![t] = "TAB"]
        PROVE  Calm(t)'
    <3>1. spoilt'[t] = "TAB"
      BY <1>1, <2>2 DEF KeyboardType
    <3>. QED  BY <1>2, <1>4, <2>1, <2>2, <3>1 DEF CalmInv, Calm
  <2>3. PICK n \in Nat : n = strlen(t)
    BY StrlenStops
  <2>4. PICK m \in Nat : m = Len(suffix)
    OBVIOUS
  <2>5. ASSUME n + m < KEYBOARD_BUF_SIZE, spoilt' = spoilt,
               keyboard_buf' = [keyboard_buf EXCEPT ![t] = CompletedCells(b, n, suffix)],
               buf_idx' = [buf_idx EXCEPT ![t] = n + m]
        PROVE  Calm(t)'
    <3>1. keyboard_buf'[t] = CompletedCells(b, n, suffix) /\ buf_idx'[t] = n + m
      BY <1>1, <2>5 DEF KeyboardType
    <3>2. \A k \in n..(n + m - 1) : suffix[k - n + 1] \in Letters
      <4>1. suffix \in Seq(Letters) /\ b \in [Indices -> Cells]
        BY <1>1, <1>5 DEF KeyboardType
      <4>. QED  BY <2>4, <4>1, CompletedType
    <3>3. \A k \in Indices : CompletedCells(b, n, suffix)[k] # NL
      BY <1>6, <2>4, <3>2 DEF CompletedCells, NL, NUL
    <3>4. CompletedCells(b, n, suffix)[KEYBOARD_BUF_SIZE - 1] = NUL
      BY <1>6, <1>7, <2>4, <2>5 DEF CompletedCells
    <3>5. buf_idx'[t] <= KEYBOARD_BUF_SIZE /\ buf_idx'[t] < KEYBOARD_BUF_SIZE
      BY <2>5, <3>1
    <3>. QED  BY <1>2, <1>6, <2>1, <2>5, <3>1, <3>3, <3>4, <3>5 DEF Calm
  <2>. QED  BY <1>5, <2>1, <2>2, <2>3, <2>4, <2>5 DEF CompletionStep
<1>. QED
  BY <1>9, <1>10, <1>12, <1>13, <1>14
     DEF Keys, TypeLetter, TypeDeadKey, switch_terminals, Listening

\* A read takes the flag down only after it has cleared the buffer and its index.
LEMMA CalmRead ==
  ASSUME TypeOK, CalmInv, NEW t \in Terminals,
         terminal_read(t) \/ Cancel(t) \/ \E n \in ReadSizes : Call(t, n)
  PROVE  CalmInv'
<1>. USE TerminalAssumption
<1>1. KeyboardType /\ ReaderType
  BY TypeParts
<1>2. OnlyTerm(t) /\ UNCHANGED <<history, ahead, spoilt>>
  BY ReadOnly
<1>. SUFFICES ASSUME ~ahead'[t] PROVE Calm(t)'
  BY <1>2, CalmElsewhere
<1>3. Calm(t)
  BY <1>2 DEF CalmInv
<1>4. key_flag[t] \in {0, 1} /\ i[t] \in Nat
  BY <1>1 DEF KeyboardType, ReaderType
<1>5. ASSUME UNCHANGED <<keyboard_buf, buf_idx, key_flag>>,
             pc'[t] \in {"user", "wait"} \/ (key_flag[t] = 1 /\ pc'[t] \in {"strlen", "min", "memcpy"})
      PROVE  Calm(t)'
  BY <1>2, <1>3, <1>5 DEF Calm
<1>6. ASSUME pc[t] \in {"strlen", "min", "memcpy", "clear", "reset", "flag"} PROVE key_flag[t] = 1
  BY <1>3, <1>4, <1>6 DEF Calm
<1>7. CASE \E n \in ReadSizes : Call(t, n)
  BY <1>1, <1>5, <1>7 DEF Call, Goto, At, keyboard, ReaderType
<1>8. CASE Cancel(t)
  BY <1>1, <1>5, <1>8 DEF Cancel, keyboard, ReaderType
<1>9. CASE Wait(t)
  BY <1>1, <1>5, <1>9 DEF Wait, Pressed, Goto, At, keyboard, ReaderType
<1>10. CASE FirstStrlen(t) \/ SecondStrlen(t)
  BY <1>1, <1>5, <1>6, <1>10 DEF FirstStrlen, SecondStrlen, Goto, At, keyboard, ReaderType
<1>11. CASE CopyByte(t)
  BY <1>5, <1>6, <1>11 DEF CopyByte, At, keyboard
<1>12. CASE CopyDone(t)
  <2>1. /\ UNCHANGED <<keyboard_buf, buf_idx, key_flag>> /\ key_flag[t] = 1
        /\ pc'[t] = "clear" /\ i'[t] = 0
    BY <1>1, <1>6, <1>12 DEF CopyDone, Goto, At, keyboard, ReaderType
  <2>2. \A k \in Indices : ~(k < 0)
    BY DEF Indices
  <2>. QED  BY <1>2, <1>3, <2>1, <2>2 DEF Calm
<1>13. CASE ClearByte(t)
  <2>1. pc[t] = "clear" /\ i[t] \in Indices /\ key_flag[t] = 1
    BY <1>4, <1>6, <1>13 DEF ClearByte, At, LeftToClear, Indices
  <2>2. /\ keyboard_buf' = [keyboard_buf EXCEPT ![t][i[t]] = NUL]
        /\ i'[t] = i[t] + 1 /\ UNCHANGED <<pc, key_flag, buf_idx>>
    BY <1>1, <1>13 DEF ClearByte, ReaderType
  <2>3. \A k \in Indices : keyboard_buf'[t][k] = IF k = i[t] THEN NUL ELSE keyboard_buf[t][k]
    BY <1>1, <2>1, <2>2 DEF KeyboardType
  <2>4. \A k \in Indices : k < i'[t] => k = i[t] \/ k < i[t]
    BY <2>1, <2>2 DEF Indices
  <2>5. \A k \in Indices : k < i'[t] => keyboard_buf'[t][k] = NUL
    BY <1>3, <2>1, <2>3, <2>4 DEF Calm
  <2>. QED  BY <1>2, <1>3, <2>1, <2>2, <2>5 DEF Calm
<1>14. CASE ClearDone(t)
  <2>1. /\ UNCHANGED <<keyboard_buf, buf_idx, key_flag>> /\ pc[t] = "clear"
        /\ ~(i[t] < KEYBOARD_BUF_SIZE) /\ pc'[t] = "reset"
    BY <1>1, <1>14 DEF ClearDone, LeftToClear, Goto, At, keyboard, ReaderType
  <2>2. \A k \in Indices : k < i[t]
    BY <1>4, <2>1 DEF Indices
  <2>3. key_flag[t] = 1 /\ \A k \in Indices : keyboard_buf[t][k] = NUL
    BY <1>3, <1>6, <2>1, <2>2 DEF Calm
  <2>. QED  BY <1>2, <1>3, <2>1, <2>3 DEF Calm
<1>15. CASE ResetIndex(t)
  <2>1. /\ UNCHANGED <<keyboard_buf, key_flag>> /\ pc[t] = "reset" /\ pc'[t] = "flag"
        /\ buf_idx'[t] = 0
    BY <1>1, <1>15 DEF ResetIndex, Goto, At, KeyboardType, ReaderType
  <2>. QED  BY <1>2, <1>3, <1>6, <2>1 DEF Calm
<1>16. CASE ResetFlag(t)
  <2>1. /\ UNCHANGED <<keyboard_buf, buf_idx>> /\ pc[t] = "flag" /\ pc'[t] = "user"
    BY <1>1, <1>16 DEF ResetFlag, Goto, At, ReaderType
  <2>2. buf_idx[t] = 0 /\ \A k \in Indices : keyboard_buf[t][k] = NUL
    BY <1>3, <2>1 DEF Calm
  <2>3. KEYBOARD_BUF_SIZE - 1 \in Indices /\ 0 < KEYBOARD_BUF_SIZE /\ NUL # NL
    BY DEF Indices, NL, NUL
  <2>. QED  BY <1>2, <1>3, <2>1, <2>2, <2>3 DEF Calm
<1>. QED
  BY <1>7, <1>8, <1>9, <1>10, <1>11, <1>12, <1>13, <1>14, <1>15, <1>16 DEF terminal_read

LEMMA CalmInit == Init => CalmInv
<1>. SUFFICES ASSUME Init, NEW t \in Terminals PROVE Calm(t)
  BY DEF CalmInv
<1>1. /\ \A k \in Indices : keyboard_buf[t][k] = NUL
      /\ buf_idx[t] = 0 /\ key_flag[t] = 0 /\ pc[t] = "user" /\ history[t] = {<<>>}
      /\ spoilt[t] = "no"
  BY DEF Init
<1>2. KEYBOARD_BUF_SIZE - 1 \in Indices /\ 0 < KEYBOARD_BUF_SIZE /\ NUL # NL
  BY TerminalAssumption DEF Indices, NL, NUL
<1>3. \A row \in history[t] : row \in Seq(Letters) /\ Len(row) < KEYBOARD_BUF_SIZE
  <2>1. <<>> \in Seq(Letters) /\ Len(<<>>) = 0
    OBVIOUS
  <2>. QED  BY <1>1, <1>2, <2>1
<1>4. 0 <= KEYBOARD_BUF_SIZE
  BY TerminalAssumption
<1>. QED  BY <1>1, <1>2, <1>3, <1>4 DEF Calm

LEMMA CalmHolds == Spec => [](TypeOK /\ CalmInv)
<1>1. Init => TypeOK /\ CalmInv
  BY TypeInit, CalmInit
<1>2. TypeOK /\ CalmInv /\ [Next]_vars => TypeOK' /\ CalmInv'
  <2>. SUFFICES ASSUME TypeOK, CalmInv, [Next]_vars PROVE CalmInv'
    BY TypeStep
  <2>1. CASE UNCHANGED vars
    BY <2>1 DEF vars, keyboard, past, reader, CalmInv, Calm
  <2>. QED  BY <2>1, CalmKeys, CalmRead DEF Next
<1>. QED  BY <1>1, <1>2, PTL DEF Spec

\* In every environment, for any number of terminals and any buffer size: as long as no
\* key finds Enter already pressed on a terminal, whatever is typed, erased, recalled from
\* the history, completed and read there, no key but TAB writes behind the buffer, and
\* there is a cell for the newline whenever Enter can be pressed (keyboard.c:117-124,
\* 245-274, 311-414, 575-591).
THEOREM IndexStaysInBuffer == Spec => []IndexKept
<1>1. TypeOK /\ CalmInv => IndexKept
  BY DEF CalmInv, Calm, IndexKept
<1>. QED  BY <1>1, CalmHolds, PTL
-----------------------------------------------------------------------------
(* Enter is not lost, when no key arrives between Enter and the end of the  *)
(* read that takes the line.                                                *)

\* What CalmInv says when no key ever finds Enter pressed.
FlagInv == \A t \in Terminals : ~ahead[t] /\ Calm(t)

LEMMA FlagHolds == ~TypeAhead => (Spec => [](TypeOK /\ FlagInv))
<1>. SUFFICES ASSUME ~TypeAhead PROVE Spec => [](TypeOK /\ FlagInv)
  OBVIOUS
<1>. DEFINE NotAhead == \A t \in Terminals : ~ahead[t]
<1>1. Init => NotAhead
  BY DEF Init
<1>2. TypeOK /\ NotAhead /\ [Next]_vars => NotAhead'
  <2>. SUFFICES ASSUME TypeOK, NotAhead, [Next]_vars PROVE NotAhead'
    OBVIOUS
  <2>1. ASSUME NEW t \in Terminals, Keys(t) PROVE NotAhead'
    <3>1. CASE switch_terminals(t)
      BY <3>1 DEF switch_terminals, past
    <3>2. CASE OnlyTerm(t) /\ Listening(t)
      <4>1. ahead'[t] = FALSE
        BY <3>2 DEF Listening, TypeOK
      <4>. QED  BY <3>2, <4>1 DEF OnlyTerm
    <3>. QED  BY <2>1, <3>1, <3>2, KeysOnly
  <2>2. ASSUME NEW t \in Terminals,
               terminal_read(t) \/ Cancel(t) \/ \E n \in ReadSizes : Call(t, n)
        PROVE  NotAhead'
    BY <2>2, ReadOnly
  <2>3. CASE UNCHANGED vars
    BY <2>3 DEF vars, keyboard, past
  <2>. QED  BY <2>1, <2>2, <2>3 DEF Next
<1>3. CalmInv /\ NotAhead => FlagInv
  BY DEF CalmInv, FlagInv
<1>. HIDE DEF NotAhead
<1>. QED  BY <1>1, <1>2, <1>3, CalmHolds, PTL DEF Spec

\* For any number of terminals and any buffer size, if no key arrives between Enter and
\* the end of the read that takes the line, an Enter in a buffer can be seen by its
\* reader: key_flag is up until terminal_read has cleared the newline, although it copies
\* and clears byte by byte and lines are recalled from a history (keyboard.c:311-414,
\* terminal.c:30-57).
THEOREM EnterIsSeen == ~TypeAhead => (Spec => []EnterNotLost)
<1>1. TypeOK /\ FlagInv => EnterNotLost
  BY DEF TypeOK, FlagInv, Calm, EnterNotLost
<1>. QED  BY <1>1, FlagHolds, PTL
-----------------------------------------------------------------------------
(* The driver implements LineInput, when besides programs ask for at most   *)
(* KEYBOARD_BUF_SIZE bytes, only keys with a character are typed and        *)
(* completions fit.                                                         *)

LinesOnly ==
    /\ ~TypeAhead
    /\ ~DeadKeys
    /\ ~LongCompletions
    /\ \A n \in ReadSizes : n <= KEYBOARD_BUF_SIZE

\* The first n cells of a buffer, as a sequence.
Take(b, n) == [k \in 1..n |-> b[k - 1]]

LEMMA TakeIsSeq ==
  ASSUME NEW b \in [Indices -> Cells], NEW n \in 0..KEYBOARD_BUF_SIZE
  PROVE  /\ Take(b, n) \in Seq(Cells)
         /\ Len(Take(b, n)) = n
         /\ \A k \in 1..n : Take(b, n)[k] = b[k - 1]
<1>. USE TerminalAssumption DEF Indices
<1>1. Take(b, n) \in [1..n -> Cells]
  BY DEF Take
<1>2. Take(b, n) \in Seq(Cells)
  BY <1>1
<1>. QED  BY <1>1, <1>2 DEF Take

\* Copying one more byte.
LEMMA TakeAppend ==
  ASSUME NEW b \in [Indices -> Cells], NEW n \in Indices
  PROVE  Append(Take(b, n), b[n]) = Take(b, n + 1)
<1>. USE TerminalAssumption DEF Indices
<1>1. n \in 0..KEYBOARD_BUF_SIZE /\ n + 1 \in 0..KEYBOARD_BUF_SIZE
  OBVIOUS
<1>2. Take(b, n) \in Seq(Cells) /\ Len(Take(b, n)) = n
  BY <1>1, TakeIsSeq
<1>3. Take(b, n + 1) \in Seq(Cells) /\ Len(Take(b, n + 1)) = n + 1
  BY <1>1, TakeIsSeq
<1>4. b[n] \in Cells
  OBVIOUS
<1>5. Append(Take(b, n), b[n]) \in Seq(Cells) /\ Len(Append(Take(b, n), b[n])) = n + 1
  BY <1>2, <1>4
<1>6. \A k \in 1..(n + 1) : Append(Take(b, n), b[n])[k] = Take(b, n + 1)[k]
  BY <1>2, <1>4 DEF Take
<1>. QED  BY <1>3, <1>5, <1>6

\* A shorter copy is the beginning of a longer one.
LEMMA TakeSubSeq ==
  ASSUME NEW b \in [Indices -> Cells], NEW m \in 0..KEYBOARD_BUF_SIZE, NEW n \in 0..m
  PROVE  SubSeq(Take(b, m), 1, n) = Take(b, n)
<1>. USE TerminalAssumption
<1>1. Take(b, m) \in Seq(Cells) /\ Len(Take(b, m)) = m
  BY TakeIsSeq
<1>2. SubSeq(Take(b, m), 1, n) = [k \in 1..n |-> Take(b, m)[k]]
  BY <1>1
<1>3. \A k \in 1..n : Take(b, m)[k] = b[k - 1]
  BY DEF Take
<1>. QED  BY <1>2, <1>3 DEF Take

\* Cells that agree give the same copy.
LEMMA TakeSame ==
  ASSUME NEW n \in Nat, NEW b, NEW c, \A k \in 0..(n - 1) : b[k] = c[k]
  PROVE  Take(b, n) = Take(c, n)
<1>1. \A k \in 1..n : b[k - 1] = c[k - 1]
  OBVIOUS
<1>. QED  BY <1>1 DEF Take

\* A buffer in which a line is being edited, and one in which it has been ended by Enter.
Editing(t) ==
    /\ buf_idx[t] < KEYBOARD_BUF_SIZE
    /\ \A k \in Indices : k < buf_idx[t] => keyboard_buf[t][k] \in Letters
    /\ \A k \in Indices : k >= buf_idx[t] => keyboard_buf[t][k] = NUL

Entered(t) ==
    /\ buf_idx[t] > 0 /\ buf_idx[t] <= KEYBOARD_BUF_SIZE
    /\ \A k \in Indices : k < buf_idx[t] - 1 => keyboard_buf[t][k] \in Letters
    /\ keyboard_buf[t][buf_idx[t] - 1] = NL
    /\ \A k \in Indices : k >= buf_idx[t] => keyboard_buf[t][k] = NUL

\* strlen of a line that Enter ended: a line that fills the buffer is one byte longer,
\* for the byte of buf_idx follows it.
LineLength(t) == IF buf_idx[t] < KEYBOARD_BUF_SIZE THEN buf_idx[t] ELSE KEYBOARD_BUF_SIZE + 1

LEMMA StrlenOfLine ==
  ASSUME KeyboardType, NEW t \in Terminals, Entered(t)
  PROVE  strlen(t) = LineLength(t)
<1>. USE TerminalAssumption
<1>. DEFINE n == strlen(t)
<1>1. /\ n \in 0..(KEYBOARD_BUF_SIZE + 1) /\ Byte(t, n) = NUL
      /\ \A j \in 0..(n - 1) : Byte(t, j) # NUL
  BY StrlenStops
<1>. HIDE DEF n
<1>2. buf_idx[t] \in 1..KEYBOARD_BUF_SIZE
  BY DEF KeyboardType, Entered
<1>3. \A k \in 0..(buf_idx[t] - 1) : Byte(t, k) # NUL
  <2>. SUFFICES ASSUME NEW k \in 0..(buf_idx[t] - 1) PROVE Byte(t, k) # NUL
    OBVIOUS
  <2>1. k \in Indices /\ k < KEYBOARD_BUF_SIZE
    BY <1>2 DEF Indices
  <2>2. CASE k < buf_idx[t] - 1
    BY <2>1, <2>2 DEF Byte, Entered
  <2>3. CASE ~(k < buf_idx[t] - 1)
    <3>1. k = buf_idx[t] - 1
      BY <1>2, <2>3
    <3>. QED  BY <2>1, <3>1 DEF Byte, Entered, NL, NUL
  <2>. QED  BY <2>2, <2>3
<1>4. n >= buf_idx[t]
  BY <1>1, <1>2, <1>3
<1>5. CASE buf_idx[t] < KEYBOARD_BUF_SIZE
  <2>1. Byte(t, buf_idx[t]) = NUL
    BY <1>2, <1>5 DEF Byte, Entered, Indices
  <2>2. ~(buf_idx[t] < n)
    BY <1>1, <1>2, <2>1
  <2>. QED  BY <1>1, <1>2, <1>4, <1>5, <2>2 DEF LineLength, n
<1>6. CASE ~(buf_idx[t] < KEYBOARD_BUF_SIZE)
  <2>1. Byte(t, KEYBOARD_BUF_SIZE) # NUL
    BY <1>2, <1>6 DEF Byte, IndexByte, NUL
  <2>2. n # KEYBOARD_BUF_SIZE
    BY <1>1, <2>1
  <2>. QED  BY <1>1, <1>2, <1>4, <1>6, <2>2 DEF LineLength, n
<1>. QED  BY <1>5, <1>6

\* What the buffer holds at each stage, and what the reader has copied of it, for one
\* terminal and for all.
LineOK(t) ==
    /\ key_flag[t] = 0 => Editing(t)
    /\ key_flag[t] = 1 /\ ~Consumed(t) => Entered(t)
    /\ pc[t] = "flag" => buf_idx[t] = 0

CopyOK(t) ==
    /\ pc[t] # "user" => nbytes[t] \in ReadSizes
    /\ pc[t] \in {"user", "wait", "strlen", "min"} => user_buf[t] = <<>>
    /\ pc[t] = "min" => len[t] = LineLength(t)
    /\ pc[t] = "memcpy" => /\ bytes[t] = Smaller(nbytes[t], buf_idx[t])
                           /\ i[t] <= bytes[t]
                           /\ user_buf[t] = Take(keyboard_buf[t], i[t])

LineInv == \A t \in Terminals : LineOK(t)
CopyInv == \A t \in Terminals : CopyOK(t)

\* One cell of one buffer is written.
Writes(t, k, x) ==
    /\ \A u \in Terminals : u # t => keyboard_buf'[u] = keyboard_buf[u]
    /\ \A j \in Indices : keyboard_buf'[t][j] = IF j = k THEN x ELSE keyboard_buf[t][j]

LEMMA WriteCell ==
  ASSUME KeyboardType, NEW t \in Terminals, NEW k \in Indices, NEW x,
         keyboard_buf' = [keyboard_buf EXCEPT ![t][k] = x]
  PROVE  Writes(t, k, x)
<1>1. \A u \in Terminals : u # t => keyboard_buf'[u] = keyboard_buf[u]
  BY DEF KeyboardType
<1>2. \A j \in Indices : keyboard_buf'[t][j] = IF j = k THEN x ELSE keyboard_buf[t][j]
  BY DEF KeyboardType
<1>. QED  BY <1>1, <1>2 DEF Writes

LEMMA OnlyTermIsEnough ==
  ASSUME LineInv, CopyInv, NEW t \in Terminals, OnlyTerm(t), LineOK(t)', CopyOK(t)'
  PROVE  LineInv' /\ CopyInv'
<1>1. \A u \in Terminals : u # t => LineOK(u)'
  BY DEF LineInv, LineOK, OnlyTerm, Editing, Entered, Consumed
<1>2. \A u \in Terminals : u # t => CopyOK(u)'
  BY DEF CopyInv, CopyOK, OnlyTerm, LineLength
<1>3. \A u \in Terminals : LineOK(u)' /\ CopyOK(u)'
  BY <1>1, <1>2
<1>. QED  BY <1>3 DEF LineInv, CopyInv, LineOK, CopyOK

\* The two variables LineInput sees through the driver's state, for one terminal.
LineOf(t) == IF key_flag[t] = 1 THEN <<>> ELSE Contents(t)
ReadyOf(t) == IF key_flag[t] = 1 /\ ~Consumed(t) THEN Contents(t) ELSE NoLine
TheLines == [t \in Terminals |-> LineOf(t)]
TheReady == [t \in Terminals |-> ReadyOf(t)]

LEMMA OnlyTermMaps ==
  ASSUME NEW t \in Terminals, OnlyTerm(t)
  PROVE  /\ TheLines' = [TheLines EXCEPT ![t] = LineOf(t)']
         /\ TheReady' = [TheReady EXCEPT ![t] = ReadyOf(t)']
<1>1. \A u \in Terminals : u # t => LineOf(u)' = LineOf(u) /\ ReadyOf(u)' = ReadyOf(u)
  BY DEF OnlyTerm, LineOf, ReadyOf, Contents, Consumed
<1>. QED  BY <1>1 DEF TheLines, TheReady

\* What a reader or writer is handed is never mistaken for "no line": it ends in '\n'.
LEMMA EnteredIsALine ==
  ASSUME KeyboardType, NEW t \in Terminals, Entered(t)
  PROVE  Contents(t) # NoLine
<1>1. buf_idx[t] \in Nat /\ buf_idx[t] > 0
  BY TerminalAssumption DEF KeyboardType, Entered
<1>2. Contents(t)[buf_idx[t]] = NL /\ DOMAIN Contents(t) = 1..buf_idx[t]
  BY <1>1 DEF Contents, Entered
<1>3. DOMAIN NoLine = 1..1 /\ NoLine[1] = "no line"
  BY DEF NoLine
<1>4. ASSUME Contents(t) = NoLine PROVE FALSE
  <2>1. buf_idx[t] = 1
    <3>1. 1..buf_idx[t] = 1..1
      BY <1>2, <1>3, <1>4
    <3>2. buf_idx[t] \in 1..buf_idx[t]
      BY <1>1
    <3>. QED  BY <3>1, <3>2
  <2>. QED  BY <1>2, <1>3, <1>4, <2>1 DEF NL
<1>. QED  BY <1>4

\* The steps of LineInput, seen through the mapping.
Types(t, c) ==
    /\ TheReady[t] = NoLine
    /\ Len(TheLines[t]) < KEYBOARD_BUF_SIZE - 1
    /\ TheLines' = [TheLines EXCEPT ![t] = Append(@, c)]
    /\ UNCHANGED <<TheReady, history, got>>

Erases(t) ==
    /\ TheLines[t] # <<>>
    /\ TheLines' = [TheLines EXCEPT ![t] = SubSeq(@, 1, Len(@) - 1)]
    /\ UNCHANGED <<TheReady, history, got>>

Keeps(t) ==
    \/ history' = [history EXCEPT ![t] = @ \cup {TheLines[t]}]
    \/ UNCHANGED history

Recalls(t) ==
    /\ TheReady[t] = NoLine
    /\ Keeps(t)
    /\ \E old \in history'[t] : TheLines' = [TheLines EXCEPT ![t] = old]
    /\ UNCHANGED <<TheReady, got>>

Completes(t, suffix) ==
    /\ TheReady[t] = NoLine
    /\ TheLines[t] # <<>>
    /\ Len(TheLines[t]) + Len(suffix) <= KEYBOARD_BUF_SIZE - 1
    /\ TheLines' = [TheLines EXCEPT ![t] = @ \o suffix]
    /\ UNCHANGED <<TheReady, history, got>>

Enters(t) ==
    /\ TheReady[t] = NoLine
    /\ Keeps(t)
    /\ TheReady' = [TheReady EXCEPT ![t] = Append(TheLines[t], NL)]
    /\ TheLines' = [TheLines EXCEPT ![t] = <<>>]
    /\ UNCHANGED got

Reads(t, n) ==
    /\ TheReady[t] # NoLine
    /\ got' = [got EXCEPT ![t] = SubSeq(TheReady[t], 1, Smaller(n, Len(TheReady[t])))]
    /\ TheReady' = [TheReady EXCEPT ![t] = NoLine]
    /\ UNCHANGED <<TheLines, history>>

Stutters == UNCHANGED <<TheLines, TheReady, history, got>>

LineStep(t) ==
    \/ \E c \in Letters : Types(t, c)
    \/ Erases(t)
    \/ Recalls(t)
    \/ \E suffix \in Completions : Completes(t, suffix)
    \/ Enters(t)
    \/ \E n \in ReadSizes : Reads(t, n)
    \/ Stutters

\* The string of a buffer that is being edited is its line.
LEMMA EditedRow ==
  ASSUME KeyboardType, NEW t \in Terminals, Editing(t), key_flag[t] = 0
  PROVE  strlen(t) = buf_idx[t] /\ Row(t) = LineOf(t)
<1>. USE TerminalAssumption
<1>0. PICK n, m : n = strlen(t) /\ m = buf_idx[t]
  OBVIOUS
<1>1. /\ n \in 0..(KEYBOARD_BUF_SIZE + 1) /\ Byte(t, n) = NUL
      /\ \A j \in 0..(n - 1) : Byte(t, j) # NUL
  BY <1>0, StrlenStops
<1>2. m \in 0..(KEYBOARD_BUF_SIZE - 1)
  BY <1>0 DEF KeyboardType, Editing
<1>3. Byte(t, m) = NUL
  BY <1>0, <1>2 DEF Byte, Editing, Indices
<1>4. \A k \in 0..(m - 1) : Byte(t, k) # NUL
  <2>. SUFFICES ASSUME NEW k \in 0..(m - 1) PROVE Byte(t, k) # NUL
    OBVIOUS
  <2>1. k \in Indices /\ k < KEYBOARD_BUF_SIZE /\ k < m
    BY <1>2 DEF Indices
  <2>2. keyboard_buf[t][k] \in Letters
    BY <1>0, <2>1 DEF Editing
  <2>. QED  BY <2>1, <2>2 DEF Byte
<1>5. n = m
  <2>1. ~(n < m)
    BY <1>1, <1>2, <1>4
  <2>2. ~(m < n)
    BY <1>1, <1>2, <1>3
  <2>. QED  BY <1>1, <1>2, <2>1, <2>2
<1>6. Smaller(strlen(t), KEYBOARD_BUF_SIZE) = buf_idx[t]
  BY <1>0, <1>2, <1>5 DEF Smaller
<1>. QED  BY <1>0, <1>5, <1>6 DEF Row, LineOf, Contents

\* A typed letter is appended to the line.
LEMMA TypeLetterLine ==
  ASSUME TypeOK, FlagInv, LineInv, CopyInv, LinesOnly, NEW t \in Terminals,
         NEW letter \in Letters, add_to_buf(t, letter)
  PROVE  LineInv' /\ CopyInv' /\ Types(t, letter)
<1>. USE TerminalAssumption
<1>0. PICK n : n = buf_idx[t]
  OBVIOUS
<1>1. KeyboardType /\ ReaderType
  BY TypeParts
<1>2. /\ key_flag[t] = 0 /\ n \in 0..(KEYBOARD_BUF_SIZE - 2) /\ n \in Indices
      /\ pc[t] \in {"user", "wait"}
  BY <1>0, <1>1 DEF add_to_buf, Listening, HasRoom, LinesOnly, KeyboardType, Indices, FlagInv, Calm
<1>3. /\ keyboard_buf' = [keyboard_buf EXCEPT ![t][n] = letter]
      /\ buf_idx' = [buf_idx EXCEPT ![t] = n + 1]
      /\ UNCHANGED <<key_flag, history, pc, nbytes, len, bytes, i, user_buf, got>>
  BY <1>0 DEF add_to_buf, reader
<1>4. /\ \A u \in Terminals : u # t => keyboard_buf'[u] = keyboard_buf[u]
      /\ \A j \in Indices : keyboard_buf'[t][j] = IF j = n THEN letter ELSE keyboard_buf[t][j]
  <2>1. Writes(t, n, letter)
    BY <1>1, <1>2, <1>3, WriteCell
  <2>. QED  BY <2>1 DEF Writes
<1>5. buf_idx'[t] = n + 1 /\ \A u \in Terminals : u # t => buf_idx'[u] = buf_idx[u]
  BY <1>1, <1>3 DEF KeyboardType
<1>6. OnlyTerm(t)
  BY KeysOnlyTerm DEF Keys, TypeLetter
<1>7. Editing(t)
  BY <1>2 DEF LineInv, LineOK
<1>8. LineOK(t)'
  BY <1>0, <1>2, <1>3, <1>4, <1>5, <1>7 DEF LineOK, Editing, Indices
<1>9. CopyOK(t)'
  BY <1>2, <1>3 DEF CopyInv, CopyOK
<1>10. LineInv' /\ CopyInv'
  BY <1>6, <1>8, <1>9, OnlyTermIsEnough
<1>11. keyboard_buf[t] \in [Indices -> Cells] /\ keyboard_buf'[t] \in [Indices -> Cells]
  BY <1>1, KeyboardStep DEF KeyboardType, Keys, TypeLetter
<1>12. LineOf(t) = Take(keyboard_buf[t], n) /\ LineOf(t)' = Take(keyboard_buf'[t], n + 1)
  <2>1. Contents(t) = Take(keyboard_buf[t], buf_idx[t])
    BY DEF Contents, Take
  <2>2. Contents(t)' = Take(keyboard_buf'[t], buf_idx'[t])
    BY DEF Contents, Take
  <2>. QED  BY <1>0, <1>2, <1>3, <1>5, <2>1, <2>2 DEF LineOf
<1>13. Take(keyboard_buf'[t], n) = Take(keyboard_buf[t], n)
  <2>1. \A k \in 0..(n - 1) : keyboard_buf'[t][k] = keyboard_buf[t][k]
    BY <1>2, <1>4 DEF Indices
  <2>2. n \in Nat
    BY <1>2
  <2>. QED  BY <2>1, <2>2, TakeSame, Zenon
<1>14. keyboard_buf'[t][n] = letter
  BY <1>2, <1>4
<1>15. Append(Take(keyboard_buf'[t], n), keyboard_buf'[t][n]) = Take(keyboard_buf'[t], n + 1)
  BY <1>2, <1>11, TakeAppend
<1>16. LineOf(t)' = Append(LineOf(t), letter)
  BY <1>12, <1>13, <1>14, <1>15
<1>17. Len(LineOf(t)) = n
  <2>1. n \in 0..KEYBOARD_BUF_SIZE
    BY <1>2
  <2>2. Len(Take(keyboard_buf[t], n)) = n
    BY <1>11, <2>1, TakeIsSeq
  <2>. QED  BY <1>12, <2>2
<1>18. ReadyOf(t) = NoLine /\ ReadyOf(t)' = NoLine
  BY <1>2, <1>3 DEF ReadyOf
<1>19. TheLines[t] = LineOf(t) /\ TheReady[t] = ReadyOf(t)
  BY DEF TheLines, TheReady
<1>20. TheReady' = TheReady
  BY <1>6, <1>18, <1>19, OnlyTermMaps DEF TheReady
<1>21. Types(t, letter)
  BY <1>2, <1>3, <1>6, <1>16, <1>17, <1>18, <1>19, <1>20, OnlyTermMaps DEF Types
<1>. QED  BY <1>10, <1>21

\* Backspace takes the last letter away.
LEMMA EraseLine ==
  ASSUME TypeOK, FlagInv, LineInv, CopyInv, LinesOnly, NEW t \in Terminals, delete_from_buf(t)
  PROVE  LineInv' /\ CopyInv' /\ Erases(t)
<1>. USE TerminalAssumption
<1>0. PICK n : n = buf_idx[t] - 1
  OBVIOUS
<1>1. KeyboardType /\ ReaderType
  BY TypeParts
<1>2. Editing(t) /\ key_flag[t] = 0 /\ pc[t] \in {"user", "wait"}
  BY <1>1 DEF delete_from_buf, Listening, LinesOnly, KeyboardType, FlagInv, Calm, LineInv, LineOK
<1>3. n \in Indices /\ n + 1 \in Indices /\ buf_idx[t] = n + 1
  BY <1>0, <1>1, <1>2 DEF delete_from_buf, Editing, KeyboardType, Indices
<1>4. /\ keyboard_buf' = [keyboard_buf EXCEPT ![t][n] = NUL]
      /\ buf_idx' = [buf_idx EXCEPT ![t] = n]
      /\ UNCHANGED <<key_flag, history, pc, nbytes, len, bytes, i, user_buf, got>>
  BY <1>0, <1>3 DEF delete_from_buf, reader, Indices
<1>5. /\ \A u \in Terminals : u # t => keyboard_buf'[u] = keyboard_buf[u]
      /\ \A j \in Indices : keyboard_buf'[t][j] = IF j = n THEN NUL ELSE keyboard_buf[t][j]
  <2>1. Writes(t, n, NUL)
    BY <1>1, <1>3, <1>4, WriteCell
  <2>. QED  BY <2>1 DEF Writes
<1>6. buf_idx'[t] = n /\ \A u \in Terminals : u # t => buf_idx'[u] = buf_idx[u]
  BY <1>1, <1>4 DEF KeyboardType
<1>7. OnlyTerm(t)
  BY KeysOnlyTerm DEF Keys
<1>8. LineOK(t)'
  <2>1. Editing(t)'
    BY <1>2, <1>3, <1>5, <1>6 DEF Editing, Indices
  <2>. QED  BY <1>2, <1>4, <2>1 DEF LineOK
<1>9. CopyOK(t)'
  BY <1>2, <1>4 DEF CopyInv, CopyOK
<1>10. LineInv' /\ CopyInv'
  BY <1>7, <1>8, <1>9, OnlyTermIsEnough
<1>11. keyboard_buf[t] \in [Indices -> Cells]
  BY <1>1 DEF KeyboardType
<1>12. LineOf(t) = Take(keyboard_buf[t], n + 1) /\ LineOf(t)' = Take(keyboard_buf'[t], n)
  <2>1. Contents(t) = Take(keyboard_buf[t], buf_idx[t])
    BY DEF Contents, Take
  <2>2. Contents(t)' = Take(keyboard_buf'[t], buf_idx'[t])
    BY DEF Contents, Take
  <2>. QED  BY <1>2, <1>3, <1>4, <1>6, <2>1, <2>2 DEF LineOf
<1>13. Take(keyboard_buf'[t], n) = Take(keyboard_buf[t], n)
  <2>1. \A k \in 0..(n - 1) : keyboard_buf'[t][k] = keyboard_buf[t][k]
    BY <1>3, <1>5 DEF Indices
  <2>2. n \in Nat
    BY <1>3 DEF Indices
  <2>. QED  BY <2>1, <2>2, TakeSame, Zenon
<1>14. n + 1 \in 0..KEYBOARD_BUF_SIZE /\ n \in 0..(n + 1)
  BY <1>3 DEF Indices
<1>15. Len(LineOf(t)) = n + 1
  BY <1>11, <1>12, <1>14, TakeIsSeq
<1>16. LineOf(t)' = SubSeq(LineOf(t), 1, Len(LineOf(t)) - 1)
  <2>1. SubSeq(Take(keyboard_buf[t], n + 1), 1, n) = Take(keyboard_buf[t], n)
    BY <1>11, <1>14, TakeSubSeq
  <2>2. Len(LineOf(t)) - 1 = n
    BY <1>14, <1>15
  <2>. QED  BY <1>12, <1>13, <2>1, <2>2
<1>17. LineOf(t) # <<>>
  BY <1>14, <1>15
<1>18. ReadyOf(t) = NoLine /\ ReadyOf(t)' = NoLine
  BY <1>2, <1>4 DEF ReadyOf
<1>19. TheLines[t] = LineOf(t) /\ TheReady[t] = ReadyOf(t)
  BY DEF TheLines, TheReady
<1>20. TheReady' = TheReady
  BY <1>7, <1>18, <1>19, OnlyTermMaps DEF TheReady
<1>21. Erases(t)
  BY <1>4, <1>7, <1>16, <1>17, <1>19, <1>20, OnlyTermMaps DEF Erases
<1>. QED  BY <1>10, <1>21

\* Enter hands the line over with its newline: there is a cell left for it.
LEMMA EnterLine ==
  ASSUME TypeOK, FlagInv, LineInv, CopyInv, LinesOnly, NEW t \in Terminals, keyboard_return(t)
  PROVE  LineInv' /\ CopyInv' /\ Enters(t)
<1>. USE TerminalAssumption
<1>0. PICK n : n = buf_idx[t]
  OBVIOUS
<1>1. KeyboardType /\ ReaderType
  BY TypeParts
<1>2. Editing(t) /\ key_flag[t] = 0 /\ pc[t] \in {"user", "wait"}
  BY <1>1 DEF keyboard_return, Listening, LinesOnly, KeyboardType, FlagInv, Calm, LineInv, LineOK
<1>3. n \in Indices /\ n < KEYBOARD_BUF_SIZE
  BY <1>0, <1>1, <1>2 DEF Editing, KeyboardType, Indices
<1>4. /\ keyboard_buf' = [keyboard_buf EXCEPT ![t][n] = NL]
      /\ buf_idx' = [buf_idx EXCEPT ![t] = n + 1]
      /\ key_flag' = [key_flag EXCEPT ![t] = 1]
      /\ UNCHANGED <<pc, nbytes, len, bytes, i, user_buf, got>>
  BY <1>0, <1>3 DEF keyboard_return, reader, Indices
<1>5. /\ \A u \in Terminals : u # t => keyboard_buf'[u] = keyboard_buf[u]
      /\ \A j \in Indices : keyboard_buf'[t][j] = IF j = n THEN NL ELSE keyboard_buf[t][j]
  <2>1. Writes(t, n, NL)
    BY <1>1, <1>3, <1>4, WriteCell
  <2>. QED  BY <2>1 DEF Writes
<1>6. /\ buf_idx'[t] = n + 1 /\ key_flag'[t] = 1
      /\ \A u \in Terminals : u # t => buf_idx'[u] = buf_idx[u] /\ key_flag'[u] = key_flag[u]
  BY <1>1, <1>4 DEF KeyboardType
<1>7. OnlyTerm(t)
  BY KeysOnlyTerm DEF Keys
<1>8. LineOK(t)'
  <2>1. /\ n + 1 > 0 /\ (n + 1) - 1 = n
        /\ \A k \in Indices : k < n => keyboard_buf'[t][k] \in Letters
        /\ keyboard_buf'[t][n] = NL
        /\ \A k \in Indices : k >= n + 1 => keyboard_buf'[t][k] = NUL
    BY <1>0, <1>2, <1>3, <1>5 DEF Editing, Indices
  <2>2. Entered(t)'
    BY <1>3, <1>6, <2>1 DEF Entered, Indices
  <2>. QED  BY <1>2, <1>4, <1>6, <2>2 DEF LineOK
<1>9. CopyOK(t)'
  BY <1>2, <1>4 DEF CopyInv, CopyOK
<1>10. LineInv' /\ CopyInv'
  BY <1>7, <1>8, <1>9, OnlyTermIsEnough
<1>11. keyboard_buf[t] \in [Indices -> Cells] /\ keyboard_buf'[t] \in [Indices -> Cells]
  BY <1>1, KeyboardStep DEF KeyboardType, Keys
<1>12. LineOf(t) = Take(keyboard_buf[t], n) /\ Contents(t)' = Take(keyboard_buf'[t], n + 1)
  <2>1. Contents(t) = Take(keyboard_buf[t], buf_idx[t])
    BY DEF Contents, Take
  <2>2. Contents(t)' = Take(keyboard_buf'[t], buf_idx'[t])
    BY DEF Contents, Take
  <2>. QED  BY <1>0, <1>2, <1>6, <2>1, <2>2 DEF LineOf
<1>13. Take(keyboard_buf'[t], n) = Take(keyboard_buf[t], n)
  <2>1. \A k \in 0..(n - 1) : keyboard_buf'[t][k] = keyboard_buf[t][k]
    BY <1>3, <1>5 DEF Indices
  <2>2. n \in Nat
    BY <1>3 DEF Indices
  <2>. QED  BY <2>1, <2>2, TakeSame, Zenon
<1>14. Append(Take(keyboard_buf'[t], n), keyboard_buf'[t][n]) = Take(keyboard_buf'[t], n + 1)
  BY <1>3, <1>11, TakeAppend
<1>15. keyboard_buf'[t][n] = NL
  BY <1>3, <1>5
<1>16. Contents(t)' = Append(LineOf(t), NL)
  BY <1>12, <1>13, <1>14, <1>15
<1>17. ReadyOf(t) = NoLine /\ ReadyOf(t)' = Contents(t)' /\ LineOf(t)' = <<>>
  BY <1>2, <1>4, <1>6 DEF ReadyOf, LineOf, Consumed
<1>18. TheLines[t] = LineOf(t) /\ TheReady[t] = ReadyOf(t)
  BY DEF TheLines, TheReady
<1>19. Keeps(t)
  BY <1>1, <1>2, <1>18, EditedRow DEF keyboard_return, Remember, Keeps
<1>20. Enters(t)
  BY <1>4, <1>7, <1>16, <1>17, <1>18, <1>19, OnlyTermMaps DEF Enters
<1>. QED  BY <1>10, <1>20

\* Up and Down put a line in the buffer that was there before.
LEMMA RecallLine ==
  ASSUME TypeOK, FlagInv, LineInv, CopyInv, LinesOnly, NEW t \in Terminals, MoveInHistory(t)
  PROVE  LineInv' /\ CopyInv' /\ Recalls(t)
<1>. USE TerminalAssumption
<1>1. KeyboardType /\ ReaderType
  BY TypeParts
<1>2. /\ Listening(t) /\ Remember(t)
      /\ UNCHANGED <<key_flag, pc, nbytes, len, bytes, i, user_buf, got>>
  BY DEF MoveInHistory, reader
<1>3. Editing(t) /\ key_flag[t] = 0 /\ pc[t] \in {"user", "wait"}
  BY <1>1, <1>2 DEF Listening, LinesOnly, KeyboardType, FlagInv, Calm, LineInv, LineOK
<1>4. PICK row \in Rows :
          /\ row \in history'[t]
          /\ row \in history[t] \/ row = Row(t)
          /\ keyboard_buf' = [keyboard_buf EXCEPT ![t] = RecalledCells(row)]
          /\ buf_idx' = [buf_idx EXCEPT ![t] =
                 IF Len(row) = KEYBOARD_BUF_SIZE /\ buf_idx[t] # 0
                 THEN Len(row) + 1 ELSE Len(row)]
  BY <1>1, RecallStep
<1>5. row \in Seq(Letters) /\ Len(row) \in 0..(KEYBOARD_BUF_SIZE - 1)
  <2>1. CASE row \in history[t]
    BY <2>1 DEF FlagInv, Calm
  <2>2. CASE row = Row(t)
    BY <1>1, <1>3, <2>2, RowIsALine DEF FlagInv, Calm
  <2>. QED  BY <1>4, <2>1, <2>2
<1>6. keyboard_buf'[t] = RecalledCells(row) /\ buf_idx'[t] = Len(row)
  BY <1>1, <1>4, <1>5 DEF KeyboardType
<1>7. OnlyTerm(t)
  BY KeysOnlyTerm DEF Keys
<1>8. Editing(t)'
  <2>1. \A k \in Indices : k < Len(row) => row[k + 1] \in Letters
    BY <1>5 DEF Indices
  <2>. QED  BY <1>5, <1>6, <2>1 DEF Editing, RecalledCells, Indices
<1>9. LineOK(t)'
  BY <1>2, <1>3, <1>8 DEF LineOK
<1>10. CopyOK(t)'
  BY <1>2, <1>3 DEF CopyInv, CopyOK
<1>11. LineInv' /\ CopyInv'
  BY <1>7, <1>9, <1>10, OnlyTermIsEnough
<1>12. LineOf(t)' = row
  <2>1. Contents(t)' = [k \in 1..Len(row) |-> RecalledCells(row)[k - 1]]
    BY <1>6 DEF Contents
  <2>2. \A k \in 1..Len(row) : RecalledCells(row)[k - 1] = row[k]
    BY <1>5 DEF RecalledCells, Indices
  <2>3. row = [k \in 1..Len(row) |-> row[k]]
    BY <1>5
  <2>. QED  BY <1>2, <1>3, <2>1, <2>2, <2>3 DEF LineOf
<1>13. ReadyOf(t) = NoLine /\ ReadyOf(t)' = NoLine
  BY <1>2, <1>3 DEF ReadyOf
<1>14. TheLines[t] = LineOf(t) /\ TheReady[t] = ReadyOf(t)
  BY DEF TheLines, TheReady
<1>15. TheReady' = TheReady
  BY <1>7, <1>13, <1>14, OnlyTermMaps DEF TheReady
<1>16. Keeps(t)
  BY <1>1, <1>2, <1>3, <1>14, EditedRow DEF Remember, Keeps
<1>17. TheLines' = [TheLines EXCEPT ![t] = row]
  BY <1>7, <1>12, OnlyTermMaps
<1>18. Recalls(t)
  BY <1>2, <1>4, <1>13, <1>14, <1>15, <1>16, <1>17 DEF Recalls
<1>. QED  BY <1>11, <1>18

LEMMA Joined ==
  ASSUME NEW C, NEW a \in Seq(C), NEW b \in Seq(C)
  PROVE  /\ a \o b \in Seq(C) /\ Len(a \o b) = Len(a) + Len(b)
         /\ \A k \in 1..Len(a) : (a \o b)[k] = a[k]
         /\ \A k \in (Len(a) + 1)..(Len(a) + Len(b)) : (a \o b)[k] = b[k - Len(a)]
  OBVIOUS

\* TAB adds letters to the line and leaves zeros behind it.
LEMMA CompleteLine ==
  ASSUME TypeOK, FlagInv, LineInv, CopyInv, LinesOnly, NEW t \in Terminals,
         NEW suffix \in Completions, autocomplete(t, suffix)
  PROVE  LineInv' /\ CopyInv' /\ Completes(t, suffix)
<1>. USE TerminalAssumption
<1>0. PICK n, b : n = buf_idx[t] /\ b = keyboard_buf[t]
  OBVIOUS
<1>1. KeyboardType /\ ReaderType
  BY TypeParts
<1>2. /\ Listening(t) /\ strlen(t) > 0
      /\ UNCHANGED <<key_flag, history, pc, nbytes, len, bytes, i, user_buf, got>>
  BY DEF autocomplete, reader
<1>3. Editing(t) /\ key_flag[t] = 0 /\ pc[t] \in {"user", "wait"}
  BY <1>1, <1>2 DEF Listening, LinesOnly, KeyboardType, FlagInv, Calm, LineInv, LineOK
<1>4. strlen(t) = n /\ LineOf(t) = Take(b, n)
  BY <1>0, <1>1, <1>3, EditedRow DEF LineOf, Contents, Take
<1>5. PICK m \in Nat : m = Len(suffix) /\ suffix \in [1..m -> Letters]
  OBVIOUS
<1>6. /\ n + m < KEYBOARD_BUF_SIZE
      /\ keyboard_buf' = [keyboard_buf EXCEPT ![t] = CompletedCells(b, n, suffix)]
      /\ buf_idx' = [buf_idx EXCEPT ![t] = n + m]
  BY <1>0, <1>1, <1>4, <1>5, CompletionSteps DEF CompletionStep, LinesOnly
<1>7. keyboard_buf'[t] = CompletedCells(b, n, suffix) /\ buf_idx'[t] = n + m
  BY <1>1, <1>6 DEF KeyboardType
<1>8. n \in 0..(KEYBOARD_BUF_SIZE - 1) /\ b \in [Indices -> Cells] /\ n > 0
  BY <1>0, <1>1, <1>2, <1>3, <1>4 DEF KeyboardType, Editing
<1>9. OnlyTerm(t)
  BY KeysOnlyTerm DEF Keys
<1>10. \A k \in n..(n + m - 1) : suffix[k - n + 1] \in Letters
  BY <1>5, <1>8
<1>11. Editing(t)'
  <2>1. \A k \in Indices : k < n + m => CompletedCells(b, n, suffix)[k] \in Letters
    <3>1. \A k \in Indices : k < n => b[k] \in Letters
      BY <1>0, <1>3 DEF Editing
    <3>. QED  BY <1>5, <1>8, <1>10, <3>1 DEF CompletedCells, Indices
  <2>2. \A k \in Indices : k >= n + m => CompletedCells(b, n, suffix)[k] = NUL
    <3>1. \A k \in Indices : k >= n => b[k] = NUL
      BY <1>0, <1>3 DEF Editing
    <3>. QED  BY <1>5, <1>8, <3>1 DEF CompletedCells, Indices
  <2>. QED  BY <1>6, <1>7, <2>1, <2>2 DEF Editing
<1>12. LineOK(t)'
  BY <1>2, <1>3, <1>11 DEF LineOK
<1>13. CopyOK(t)'
  BY <1>2, <1>3 DEF CopyInv, CopyOK
<1>14. LineInv' /\ CopyInv'
  BY <1>9, <1>12, <1>13, OnlyTermIsEnough
<1>15. LineOf(t)' = LineOf(t) \o suffix
  <2>1. LineOf(t)' = Take(CompletedCells(b, n, suffix), n + m)
    BY <1>2, <1>3, <1>7 DEF LineOf, Contents, Take
  <2>2. LineOf(t) \in Seq(Cells) /\ Len(LineOf(t)) = n
    BY <1>4, <1>8, TakeIsSeq
  <2>3. LineOf(t) \o suffix = [k \in 1..(n + m) |->
            IF k <= n THEN LineOf(t)[k] ELSE suffix[k - n]]
    <3>1. PICK s, C : s = LineOf(t) /\ C = Cells
      OBVIOUS
    <3>2. suffix \in Seq(C) /\ s \in Seq(C) /\ Len(s) = n /\ Len(suffix) = m
      BY <1>5, <2>2, <3>1 DEF Cells
    <3>3. PICK d : d = s \o suffix
      OBVIOUS
    <3>4. /\ d \in Seq(C) /\ Len(d) = n + m
          /\ \A k \in 1..(n + m) : d[k] = IF k <= n THEN s[k] ELSE suffix[k - n]
      <4>1. /\ d \in Seq(C) /\ Len(d) = Len(s) + Len(suffix)
            /\ \A k \in 1..Len(s) : d[k] = s[k]
            /\ \A k \in (Len(s) + 1)..(Len(s) + Len(suffix)) : d[k] = suffix[k - Len(s)]
        <5>1. /\ s \o suffix \in Seq(C) /\ Len(s \o suffix) = Len(s) + Len(suffix)
              /\ \A k \in 1..Len(s) : (s \o suffix)[k] = s[k]
              /\ \A k \in (Len(s) + 1)..(Len(s) + Len(suffix)) : (s \o suffix)[k] = suffix[k - Len(s)]
          BY <3>2, Joined
        <5>. QED  BY <3>3, <5>1, Zenon
      <4>. QED  BY <1>5, <1>8, <3>2, <4>1
    <3>5. d = [k \in 1..(n + m) |-> d[k]]
      BY <1>5, <1>8, <3>4
    <3>. QED  BY <3>1, <3>3, <3>4, <3>5
  <2>4. \A k \in 1..(n + m) : CompletedCells(b, n, suffix)[k - 1] =
            IF k <= n THEN LineOf(t)[k] ELSE suffix[k - n]
    <3>. SUFFICES ASSUME NEW k \in 1..(n + m)
                  PROVE  CompletedCells(b, n, suffix)[k - 1] =
                             IF k <= n THEN LineOf(t)[k] ELSE suffix[k - n]
      OBVIOUS
    <3>1. k - 1 \in Indices
      BY <1>5, <1>6, <1>8 DEF Indices
    <3>2. CASE k <= n
      <4>1. LineOf(t)[k] = b[k - 1]
        BY <1>4, <1>8, <3>2 DEF Take
      <4>. QED  BY <1>5, <1>8, <3>1, <3>2, <4>1 DEF CompletedCells
    <3>3. CASE ~(k <= n)
      <4>1. k - 1 \in n..(n + m - 1) /\ (k - 1) - n + 1 = k - n
        BY <1>5, <1>8, <3>3
      <4>. QED  BY <1>5, <3>1, <3>3, <4>1 DEF CompletedCells
    <3>. QED  BY <3>2, <3>3
  <2>. QED  BY <2>1, <2>3, <2>4 DEF Take
<1>16. LineOf(t) # <<>> /\ Len(LineOf(t)) + Len(suffix) <= KEYBOARD_BUF_SIZE - 1
  <2>1. LineOf(t) \in Seq(Cells) /\ Len(LineOf(t)) = n
    BY <1>4, <1>8, TakeIsSeq
  <2>. QED  BY <1>5, <1>6, <1>8, <2>1
<1>17. ReadyOf(t) = NoLine /\ ReadyOf(t)' = NoLine
  BY <1>2, <1>3 DEF ReadyOf
<1>18. TheLines[t] = LineOf(t) /\ TheReady[t] = ReadyOf(t)
  BY DEF TheLines, TheReady
<1>19. TheReady' = TheReady
  BY <1>9, <1>17, <1>18, OnlyTermMaps DEF TheReady
<1>20. TheLines' = [TheLines EXCEPT ![t] = @ \o suffix]
  BY <1>9, <1>15, <1>18, OnlyTermMaps
<1>21. Completes(t, suffix)
  BY <1>2, <1>16, <1>17, <1>18, <1>19, <1>20 DEF Completes
<1>. QED  BY <1>14, <1>21

\* A step that LineInput does not see.
LEMMA StutterMaps ==
  ASSUME NEW t \in Terminals, OnlyTerm(t), got' = got,
         LineOf(t)' = LineOf(t), ReadyOf(t)' = ReadyOf(t), history' = history
  PROVE  Stutters
<1>1. TheLines[t] = LineOf(t) /\ TheReady[t] = ReadyOf(t)
  BY DEF TheLines, TheReady
<1>2. TheLines' = [TheLines EXCEPT ![t] = TheLines[t]] /\ TheReady' = [TheReady EXCEPT ![t] = TheReady[t]]
  BY <1>1, OnlyTermMaps
<1>3. TheLines' = TheLines /\ TheReady' = TheReady
  BY <1>2 DEF TheLines, TheReady
<1>. QED  BY <1>3 DEF Stutters

\* A step of the reader that leaves the buffer and the flag alone, and does not pass from
\* the copy to the clearing.
LEMMA ReaderStutters ==
  ASSUME LineInv, NEW t \in Terminals, OnlyTerm(t), got' = got,
         keyboard_buf' = keyboard_buf, buf_idx' = buf_idx, key_flag' = key_flag,
         history' = history, Consumed(t)' <=> Consumed(t), pc'[t] # "flag"
  PROVE  LineOK(t)' /\ Stutters
<1>1. LineOK(t)'
  BY DEF LineInv, LineOK, Editing, Entered
<1>2. LineOf(t)' = LineOf(t) /\ ReadyOf(t)' = ReadyOf(t)
  BY DEF LineOf, ReadyOf, Contents
<1>. QED  BY <1>1, <1>2, StutterMaps

\* Calling read, finding the flag up, measuring the line and copying a byte of it are
\* steps LineInput does not see.
LEMMA CallLine ==
  ASSUME TypeOK, LineInv, CopyInv, NEW t \in Terminals, NEW n \in ReadSizes, Call(t, n)
  PROVE  LineInv' /\ CopyInv' /\ Stutters
<1>1. KeyboardType /\ ReaderType
  BY TypeParts
<1>2. /\ pc[t] = "user" /\ pc' = [pc EXCEPT ![t] = "wait"]
      /\ nbytes' = [nbytes EXCEPT ![t] = n]
      /\ UNCHANGED <<keyboard_buf, buf_idx, key_flag, history, ahead, spoilt, len, bytes, i, user_buf, got>>
  BY DEF Call, Goto, At, keyboard, past
<1>3. pc'[t] = "wait" /\ nbytes'[t] = n /\ OnlyTerm(t)
  BY <1>1, <1>2 DEF ReaderType, OnlyTerm
<1>4. Consumed(t)' <=> Consumed(t)
  BY <1>2, <1>3 DEF Consumed
<1>5. LineOK(t)' /\ Stutters
  BY <1>2, <1>3, <1>4, ReaderStutters
<1>6. CopyOK(t)'
  BY <1>2, <1>3 DEF CopyInv, CopyOK
<1>. QED  BY <1>3, <1>5, <1>6, OnlyTermIsEnough

LEMMA WaitLine ==
  ASSUME TypeOK, LineInv, CopyInv, NEW t \in Terminals, Wait(t)
  PROVE  LineInv' /\ CopyInv' /\ Stutters
<1>1. KeyboardType /\ ReaderType
  BY TypeParts
<1>2. /\ pc[t] = "wait" /\ pc' = [pc EXCEPT ![t] = "strlen"]
      /\ UNCHANGED <<keyboard_buf, buf_idx, key_flag, history, ahead, spoilt, nbytes, len, bytes, i, user_buf, got>>
  BY DEF Wait, Goto, At, keyboard, past
<1>3. pc'[t] = "strlen" /\ OnlyTerm(t)
  BY <1>1, <1>2 DEF ReaderType, OnlyTerm
<1>4. Consumed(t)' <=> Consumed(t)
  BY <1>2, <1>3 DEF Consumed
<1>5. LineOK(t)' /\ Stutters
  BY <1>2, <1>3, <1>4, ReaderStutters
<1>6. CopyOK(t)'
  BY <1>2, <1>3 DEF CopyInv, CopyOK
<1>. QED  BY <1>3, <1>5, <1>6, OnlyTermIsEnough

\* A reader past its wait has a whole line in its buffer.
LEMMA LineThere ==
  ASSUME TypeOK, FlagInv, LineInv, NEW t \in Terminals, pc[t] \in {"strlen", "min", "memcpy"}
  PROVE  key_flag[t] = 1 /\ ~Consumed(t) /\ Entered(t)
<1>1. key_flag[t] \in {0, 1}
  BY DEF TypeOK
<1>2. key_flag[t] = 1
  BY <1>1 DEF FlagInv, Calm
<1>. QED  BY <1>2 DEF LineInv, LineOK, Consumed

LEMMA FirstStrlenLine ==
  ASSUME TypeOK, FlagInv, LineInv, CopyInv, NEW t \in Terminals, FirstStrlen(t)
  PROVE  LineInv' /\ CopyInv' /\ Stutters
<1>1. KeyboardType /\ ReaderType
  BY TypeParts
<1>2. /\ pc[t] = "strlen" /\ pc' = [pc EXCEPT ![t] = "min"]
      /\ len' = [len EXCEPT ![t] = strlen(t)]
      /\ UNCHANGED <<keyboard_buf, buf_idx, key_flag, history, ahead, spoilt, nbytes, bytes, i, user_buf, got>>
  BY DEF FirstStrlen, Goto, At, keyboard, past
<1>3. pc'[t] = "min" /\ len'[t] = strlen(t) /\ OnlyTerm(t)
  BY <1>1, <1>2 DEF ReaderType, OnlyTerm
<1>4. Consumed(t)' <=> Consumed(t)
  BY <1>2, <1>3 DEF Consumed
<1>5. LineOK(t)' /\ Stutters
  BY <1>2, <1>3, <1>4, ReaderStutters
<1>6. strlen(t) = LineLength(t)
  BY <1>1, <1>2, LineThere, StrlenOfLine
<1>7. LineLength(t)' = LineLength(t)
  BY <1>2 DEF LineLength
<1>8. CopyOK(t)'
  BY <1>2, <1>3, <1>6, <1>7 DEF CopyInv, CopyOK
<1>. QED  BY <1>3, <1>5, <1>8, OnlyTermIsEnough

LEMMA SecondStrlenLine ==
  ASSUME TypeOK, FlagInv, LineInv, CopyInv, LinesOnly, NEW t \in Terminals, SecondStrlen(t)
  PROVE  LineInv' /\ CopyInv' /\ Stutters
<1>. USE TerminalAssumption
<1>1. KeyboardType /\ ReaderType
  BY TypeParts
<1>2. /\ pc[t] = "min" /\ pc' = [pc EXCEPT ![t] = "memcpy"]
      /\ bytes' = [bytes EXCEPT ![t] = CopyLength(t)]
      /\ i' = [i EXCEPT ![t] = 0]
      /\ UNCHANGED <<keyboard_buf, buf_idx, key_flag, history, ahead, spoilt, nbytes, len, user_buf, got>>
  BY DEF SecondStrlen, Goto, At, keyboard, past
<1>3. pc'[t] = "memcpy" /\ bytes'[t] = CopyLength(t) /\ i'[t] = 0 /\ OnlyTerm(t)
  BY <1>1, <1>2 DEF ReaderType, OnlyTerm
<1>4. Consumed(t)' <=> Consumed(t)
  BY <1>2, <1>3 DEF Consumed
<1>5. LineOK(t)' /\ Stutters
  BY <1>2, <1>3, <1>4, ReaderStutters
<1>6. strlen(t) = LineLength(t) /\ buf_idx[t] > 0
  BY <1>1, <1>2, LineThere, StrlenOfLine DEF Entered
<1>7. /\ nbytes[t] \in ReadSizes /\ nbytes[t] \in Nat /\ nbytes[t] <= KEYBOARD_BUF_SIZE
      /\ len[t] = LineLength(t) /\ user_buf[t] = <<>>
      /\ buf_idx[t] \in 0..KEYBOARD_BUF_SIZE
  <2>1. buf_idx[t] \in 0..KEYBOARD_BUF_SIZE
    BY <1>1 DEF KeyboardType, FlagInv, Calm
  <2>2. nbytes[t] \in ReadSizes /\ len[t] = LineLength(t) /\ user_buf[t] = <<>>
    BY <1>2 DEF CopyInv, CopyOK
  <2>. QED  BY <2>1, <2>2 DEF LinesOnly
<1>8. CopyLength(t) = Smaller(nbytes[t], buf_idx[t])
  BY <1>6, <1>7 DEF CopyLength, LineLength, Smaller
<1>9. 0 <= Smaller(nbytes[t], buf_idx[t])
  BY <1>7 DEF Smaller
<1>10. Take(keyboard_buf[t], 0) = <<>>
  BY DEF Take
<1>11. CopyOK(t)'
  BY <1>2, <1>3, <1>7, <1>8, <1>9, <1>10 DEF CopyOK
<1>. QED  BY <1>3, <1>5, <1>11, OnlyTermIsEnough

LEMMA CopyByteLine ==
  ASSUME TypeOK, FlagInv, LineInv, CopyInv, LinesOnly, NEW t \in Terminals, CopyByte(t)
  PROVE  LineInv' /\ CopyInv' /\ Stutters
<1>. USE TerminalAssumption
<1>0. PICK n : n = i[t]
  OBVIOUS
<1>1. KeyboardType /\ ReaderType /\ CopyType
  BY TypeParts
<1>2. /\ pc[t] = "memcpy" /\ n < bytes[t] /\ UNCHANGED pc
      /\ user_buf' = [user_buf EXCEPT ![t] = Append(@, Byte(t, n))]
      /\ i' = [i EXCEPT ![t] = n + 1]
      /\ UNCHANGED <<keyboard_buf, buf_idx, key_flag, history, ahead, spoilt, nbytes, len, bytes, got>>
  BY <1>0 DEF CopyByte, At, keyboard, past
<1>3. user_buf'[t] = Append(user_buf[t], Byte(t, n)) /\ i'[t] = n + 1 /\ OnlyTerm(t)
  BY <1>1, <1>2 DEF ReaderType, CopyType, OnlyTerm
<1>4. (Consumed(t)' <=> Consumed(t)) /\ pc'[t] # "flag"
  BY <1>2 DEF Consumed
<1>5. LineOK(t)' /\ Stutters
  BY <1>2, <1>3, <1>4, ReaderStutters
<1>6. /\ nbytes[t] \in ReadSizes /\ nbytes[t] \in Nat /\ n \in Nat
      /\ bytes[t] = Smaller(nbytes[t], buf_idx[t]) /\ bytes[t] \in Nat
      /\ user_buf[t] = Take(keyboard_buf[t], n)
      /\ buf_idx[t] \in 0..KEYBOARD_BUF_SIZE
  <2>1. /\ nbytes[t] \in ReadSizes /\ bytes[t] = Smaller(nbytes[t], buf_idx[t])
        /\ user_buf[t] = Take(keyboard_buf[t], n)
    BY <1>0, <1>2 DEF CopyInv, CopyOK
  <2>2. n \in Nat /\ bytes[t] \in Nat /\ buf_idx[t] \in 0..KEYBOARD_BUF_SIZE
    BY <1>0, <1>1 DEF KeyboardType, ReaderType, FlagInv, Calm
  <2>. QED  BY <2>1, <2>2
<1>7. bytes[t] <= buf_idx[t]
  BY <1>6 DEF Smaller
<1>8. n \in Indices /\ n < KEYBOARD_BUF_SIZE
  BY <1>2, <1>6, <1>7 DEF Indices
<1>9. Byte(t, n) = keyboard_buf[t][n]
  BY <1>8 DEF Byte
<1>10. keyboard_buf[t] \in [Indices -> Cells]
  BY <1>1 DEF KeyboardType
<1>11. Append(Take(keyboard_buf[t], n), keyboard_buf[t][n]) = Take(keyboard_buf[t], n + 1)
  BY <1>8, <1>10, TakeAppend
<1>12. n + 1 <= bytes[t]
  BY <1>2, <1>6
<1>13. CopyOK(t)'
  BY <1>2, <1>3, <1>6, <1>9, <1>11, <1>12 DEF CopyOK
<1>. QED  BY <1>3, <1>5, <1>13, OnlyTermIsEnough

\* The end of the copy is the read of LineInput: the reader has the whole line or its
\* first nbytes characters.
LEMMA CopyDoneLine ==
  ASSUME TypeOK, FlagInv, LineInv, CopyInv, LinesOnly, NEW t \in Terminals, CopyDone(t)
  PROVE  LineInv' /\ CopyInv' /\ \E n \in ReadSizes : Reads(t, n)
<1>. USE TerminalAssumption
<1>0. PICK n, m : n = nbytes[t] /\ m = buf_idx[t]
  OBVIOUS
<1>1. KeyboardType /\ ReaderType /\ CopyType
  BY TypeParts
<1>2. /\ pc[t] = "memcpy" /\ i[t] = bytes[t] /\ pc' = [pc EXCEPT ![t] = "clear"]
      /\ got' = [got EXCEPT ![t] = user_buf[t]]
      /\ i' = [i EXCEPT ![t] = 0]
      /\ UNCHANGED <<keyboard_buf, buf_idx, key_flag, history, ahead, spoilt, nbytes, len, bytes, user_buf>>
  BY DEF CopyDone, Goto, At, keyboard, past
<1>3. pc'[t] = "clear" /\ OnlyTerm(t)
  BY <1>1, <1>2 DEF ReaderType, OnlyTerm
<1>4. key_flag[t] = 1 /\ ~Consumed(t) /\ Entered(t) /\ Consumed(t)'
  BY <1>2, <1>3, LineThere DEF Consumed
<1>5. n \in ReadSizes /\ user_buf[t] = Take(keyboard_buf[t], Smaller(n, m))
  BY <1>0, <1>2 DEF CopyInv, CopyOK
<1>6. LineOK(t)'
  BY <1>2, <1>3, <1>4 DEF LineOK
<1>7. CopyOK(t)'
  BY <1>0, <1>2, <1>3, <1>5 DEF CopyOK
<1>8. LineInv' /\ CopyInv'
  BY <1>3, <1>6, <1>7, OnlyTermIsEnough
<1>9. ReadyOf(t) = Contents(t) /\ ReadyOf(t)' = NoLine /\ LineOf(t) = <<>> /\ LineOf(t)' = <<>>
  BY <1>2, <1>4 DEF ReadyOf, LineOf
<1>10. Contents(t) = Take(keyboard_buf[t], m)
  BY <1>0 DEF Contents, Take
<1>11. keyboard_buf[t] \in [Indices -> Cells] /\ m \in 0..KEYBOARD_BUF_SIZE /\ n \in Nat
  BY <1>0, <1>1, <1>5 DEF KeyboardType, FlagInv, Calm
<1>12. Len(Contents(t)) = m
  BY <1>10, <1>11, TakeIsSeq
<1>13. Smaller(n, m) \in 0..m
  BY <1>11 DEF Smaller
<1>14. SubSeq(Contents(t), 1, Smaller(n, m)) = Take(keyboard_buf[t], Smaller(n, m))
  BY <1>10, <1>11, <1>13, TakeSubSeq
<1>15. TheLines[t] = LineOf(t) /\ TheReady[t] = ReadyOf(t)
  BY DEF TheLines, TheReady
<1>16. TheReady[t] # NoLine
  BY <1>1, <1>4, <1>9, <1>15, EnteredIsALine
<1>17. TheLines' = TheLines
  BY <1>3, <1>9, <1>15, OnlyTermMaps DEF TheLines
<1>18. got' = [got EXCEPT ![t] = SubSeq(TheReady[t], 1, Smaller(n, Len(TheReady[t])))]
  BY <1>2, <1>5, <1>9, <1>12, <1>14, <1>15
<1>19. TheReady' = [TheReady EXCEPT ![t] = NoLine]
  BY <1>3, <1>9, OnlyTermMaps
<1>20. Reads(t, n)
  BY <1>2, <1>16, <1>17, <1>18, <1>19 DEF Reads
<1>. QED  BY <1>5, <1>8, <1>20

\* Once the line is copied, clearing the buffer and its index is not seen: the flag is up
\* and the line is no longer on offer.
LEMMA ConsumedStutters ==
  ASSUME NEW t \in Terminals, OnlyTerm(t), got' = got, key_flag[t] = 1, key_flag'[t] = 1,
         Consumed(t), Consumed(t)', pc'[t] = "flag" => buf_idx'[t] = 0, history' = history
  PROVE  LineOK(t)' /\ Stutters
<1>1. LineOK(t)'
  BY DEF LineOK
<1>2. LineOf(t)' = LineOf(t) /\ ReadyOf(t)' = ReadyOf(t)
  BY DEF LineOf, ReadyOf
<1>. QED  BY <1>1, <1>2, StutterMaps

LEMMA ClearLine ==
  ASSUME TypeOK, FlagInv, LineInv, CopyInv, NEW t \in Terminals,
         ClearByte(t) \/ ClearDone(t) \/ ResetIndex(t)
  PROVE  LineInv' /\ CopyInv' /\ Stutters
<1>. USE TerminalAssumption
<1>1. KeyboardType /\ ReaderType
  BY TypeParts
<1>2. pc[t] \in {"clear", "reset"} /\ key_flag[t] = 1
  <2>1. pc[t] \in {"clear", "reset"}
    BY DEF ClearByte, past, ClearDone, ResetIndex, past, Goto, At
  <2>2. key_flag[t] \in {0, 1}
    BY <1>1 DEF KeyboardType
  <2>. QED  BY <2>1, <2>2 DEF FlagInv, Calm
<1>3. /\ UNCHANGED <<key_flag, history, nbytes, user_buf, got>>
      /\ pc'[t] \in {"clear", "reset", "flag"} /\ (pc'[t] = "flag" => buf_idx'[t] = 0)
      /\ OnlyTerm(t)
  <2>1. CASE ClearByte(t)
    <3>1. pc[t] = "clear"
      BY <2>1 DEF ClearByte, past, At
    <3>. QED  BY <1>1, <2>1, <3>1 DEF ClearByte, past, At, OnlyTerm, KeyboardType, ReaderType
  <2>2. CASE ClearDone(t)
    BY <1>1, <2>2 DEF ClearDone, Goto, At, keyboard, past, OnlyTerm, KeyboardType, ReaderType
  <2>3. CASE ResetIndex(t)
    BY <1>1, <2>3 DEF ResetIndex, past, Goto, At, OnlyTerm, KeyboardType, ReaderType
  <2>. QED  BY <2>1, <2>2, <2>3
<1>4. Consumed(t) /\ Consumed(t)'
  BY <1>2, <1>3 DEF Consumed
<1>5. LineOK(t)' /\ Stutters
  BY <1>2, <1>3, <1>4, ConsumedStutters
<1>6. CopyOK(t)'
  BY <1>2, <1>3 DEF CopyInv, CopyOK
<1>. QED  BY <1>3, <1>5, <1>6, OnlyTermIsEnough

\* When the flag comes down the next line is empty.
LEMMA ResetFlagLine ==
  ASSUME TypeOK, FlagInv, LineInv, CopyInv, NEW t \in Terminals, ResetFlag(t)
  PROVE  LineInv' /\ CopyInv' /\ Stutters
<1>. USE TerminalAssumption
<1>1. KeyboardType /\ ReaderType /\ CopyType
  BY TypeParts
<1>2. /\ pc[t] = "flag" /\ pc' = [pc EXCEPT ![t] = "user"]
      /\ key_flag' = [key_flag EXCEPT ![t] = 0]
      /\ UNCHANGED <<keyboard_buf, buf_idx, history, ahead, spoilt, got>>
      /\ Forget(t)
  BY DEF ResetFlag, past, Goto, At, Forget
<1>3. pc'[t] = "user" /\ key_flag'[t] = 0 /\ user_buf'[t] = <<>> /\ OnlyTerm(t)
  BY <1>1, <1>2 DEF Forget, KeyboardType, ReaderType, CopyType, OnlyTerm
<1>4. buf_idx[t] = 0 /\ key_flag[t] = 1 /\ Consumed(t)
  <2>1. key_flag[t] \in {0, 1}
    BY <1>1 DEF KeyboardType
  <2>. QED  BY <1>2, <2>1 DEF LineInv, LineOK, FlagInv, Calm, Consumed
<1>5. \A k \in Indices : keyboard_buf[t][k] = NUL
  BY <1>2 DEF FlagInv, Calm
<1>6. LineOK(t)'
  BY <1>2, <1>3, <1>4, <1>5 DEF LineOK, Editing, Indices
<1>7. CopyOK(t)'
  BY <1>3 DEF CopyOK
<1>8. Contents(t)' = <<>>
  BY <1>2, <1>4 DEF Contents
<1>9. LineOf(t)' = LineOf(t) /\ ReadyOf(t)' = ReadyOf(t)
  BY <1>3, <1>4, <1>8 DEF LineOf, ReadyOf
<1>10. Stutters
  BY <1>2, <1>3, <1>9, StutterMaps
<1>. QED  BY <1>3, <1>6, <1>7, <1>10, OnlyTermIsEnough

\* A reader ended by Ctrl+C while it waits leaves the line to the next one.
LEMMA CancelLine ==
  ASSUME TypeOK, LineInv, CopyInv, LinesOnly, NEW t \in Terminals, Cancel(t)
  PROVE  LineInv' /\ CopyInv' /\ Stutters
<1>1. KeyboardType /\ ReaderType /\ CopyType
  BY TypeParts
<1>2. /\ pc[t] = "wait" /\ pc' = [pc EXCEPT ![t] = "user"]
      /\ UNCHANGED <<keyboard_buf, buf_idx, key_flag, history, ahead, spoilt, got>>
      /\ Forget(t)
  BY DEF Cancel, Forget, keyboard, past, LinesOnly
<1>3. pc'[t] = "user" /\ user_buf'[t] = <<>> /\ OnlyTerm(t)
  BY <1>1, <1>2 DEF Forget, ReaderType, CopyType, OnlyTerm
<1>4. Consumed(t)' <=> Consumed(t)
  BY <1>2, <1>3 DEF Consumed
<1>5. LineOK(t)' /\ Stutters
  BY <1>2, <1>3, <1>4, ReaderStutters
<1>6. CopyOK(t)'
  BY <1>3 DEF CopyOK
<1>. QED  BY <1>3, <1>5, <1>6, OnlyTermIsEnough

\* Changing the display, and doing nothing, change no line.
LEMMA DisplayLine ==
  ASSUME LineInv, CopyInv, UNCHANGED <<keyboard_buf, buf_idx, key_flag, history, reader>>
  PROVE  LineInv' /\ CopyInv' /\ Stutters
<1>1. LineInv' /\ CopyInv'
  BY DEF reader, LineInv, CopyInv, LineOK, CopyOK, Editing, Entered, Consumed, LineLength
<1>2. Stutters
  BY DEF reader, Stutters, TheLines, TheReady, LineOf, ReadyOf, Contents, Consumed
<1>. QED  BY <1>1, <1>2

\* Every step of the driver keeps the invariants and is a step of LineInput, or none.
LEMMA LineStepHolds ==
  ASSUME TypeOK, FlagInv, LineInv, CopyInv, LinesOnly, [Next]_vars
  PROVE  LineInv' /\ CopyInv' /\ (Stutters \/ \E t \in Terminals : LineStep(t))
<1>1. CASE UNCHANGED vars
  BY <1>1, DisplayLine DEF vars, keyboard, past, reader
<1>2. ASSUME NEW t \in Terminals, Keys(t)
      PROVE  LineInv' /\ CopyInv' /\ LineStep(t)
  <2>1. CASE TypeLetter(t)
    BY <2>1, TypeLetterLine DEF TypeLetter, LineStep
  <2>2. CASE delete_from_buf(t)
    BY <2>2, EraseLine DEF LineStep
  <2>3. CASE keyboard_return(t)
    BY <2>3, EnterLine DEF LineStep
  <2>4. CASE switch_terminals(t)
    BY <2>4, DisplayLine DEF switch_terminals, past, LineStep
  <2>5. CASE MoveInHistory(t)
    BY <2>5, RecallLine DEF LineStep
  <2>6. ASSUME NEW suffix \in Completions, autocomplete(t, suffix)
        PROVE  LineInv' /\ CopyInv' /\ LineStep(t)
    BY <2>6, CompleteLine DEF LineStep
  <2>. QED  BY <1>2, <2>1, <2>2, <2>3, <2>4, <2>5, <2>6 DEF Keys, TypeDeadKey, LinesOnly
<1>3. ASSUME NEW t \in Terminals,
             terminal_read(t) \/ Cancel(t) \/ \E n \in ReadSizes : Call(t, n)
      PROVE  LineInv' /\ CopyInv' /\ LineStep(t)
  <2>1. CASE CopyDone(t)
    BY <2>1, CopyDoneLine DEF LineStep
  <2>2. CASE ClearByte(t) \/ ClearDone(t) \/ ResetIndex(t)
    BY <2>2, ClearLine DEF LineStep
  <2>3. CASE Wait(t) \/ FirstStrlen(t) \/ SecondStrlen(t) \/ CopyByte(t)
    BY <2>3, WaitLine, FirstStrlenLine, SecondStrlenLine, CopyByteLine DEF LineStep
  <2>4. CASE ResetFlag(t) \/ Cancel(t)
    BY <2>4, ResetFlagLine, CancelLine DEF LineStep
  <2>5. CASE \E n \in ReadSizes : Call(t, n)
    BY <2>5, CallLine DEF LineStep
  <2>. QED  BY <1>3, <2>1, <2>2, <2>3, <2>4, <2>5 DEF terminal_read
<1>. QED  BY <1>1, <1>2, <1>3 DEF Next

LEMMA LineInit == Init => LineInv /\ CopyInv /\ Promise!Init
<1>. SUFFICES ASSUME Init PROVE LineInv /\ CopyInv /\ Promise!Init
  OBVIOUS
<1>1. /\ \A t \in Terminals : \A k \in Indices : keyboard_buf[t][k] = NUL
      /\ \A t \in Terminals : buf_idx[t] = 0 /\ key_flag[t] = 0 /\ pc[t] = "user"
      /\ \A t \in Terminals : user_buf[t] = <<>>
      /\ got = [t \in Terminals |-> <<>>] /\ history = [t \in Terminals |-> {<<>>}]
  BY DEF Init
<1>2. LineInv /\ CopyInv
  BY <1>1, TerminalAssumption DEF LineInv, LineOK, CopyInv, CopyOK, Editing, Indices
<1>3. \A t \in Terminals : Contents(t) = <<>>
  <2>. SUFFICES ASSUME NEW t \in Terminals PROVE Contents(t) = <<>>
    OBVIOUS
  <2>1. buf_idx[t] = 0
    BY <1>1
  <2>. QED  BY <2>1 DEF Contents
<1>4. Promise!Init
  BY <1>1, <1>3 DEF Promise!Init
<1>. QED  BY <1>2, <1>4

\* For any number of terminals, any buffer size and any characters: when no key arrives
\* between Enter and the end of the read, only keys with a character are typed,
\* completions fit and programs ask for at most KEYBOARD_BUF_SIZE bytes, the keyboard
\* handler and terminal_read implement LineInput.  Every read returns, once, the line that
\* was edited, recalled or completed, however the byte-wise copying and clearing of one
\* terminal interleaves with the typing and the reads on the others (keyboard.c:257-414,
\* 424-591, terminal.c:30-57).
THEOREM DriverImplementsLineInput == LinesOnly => (Spec => LinesDelivered)
<1>. SUFFICES ASSUME LinesOnly PROVE Spec => LinesDelivered
  OBVIOUS
<1>1. Init => LineInv /\ CopyInv /\ Promise!Init
  BY LineInit
<1>2. TypeOK /\ FlagInv /\ LineInv /\ CopyInv /\ [Next]_vars
      => LineInv' /\ CopyInv' /\ [Promise!Next]_(Promise!vars)
  <2>. SUFFICES ASSUME TypeOK, FlagInv, LineInv, CopyInv, [Next]_vars
                PROVE  LineInv' /\ CopyInv' /\ [Promise!Next]_(Promise!vars)
    OBVIOUS
  <2>1. LineInv' /\ CopyInv' /\ (Stutters \/ \E t \in Terminals : LineStep(t))
    BY LineStepHolds
  <2>2. CASE Stutters
    BY <2>1, <2>2 DEF Stutters, TheLines, TheReady, LineOf, ReadyOf, Promise!vars
  <2>3. ASSUME NEW t \in Terminals, LineStep(t), ~Stutters PROVE Promise!Next
    <3>1. ASSUME NEW c \in Letters, Types(t, c) PROVE Promise!Type(t, c)
      BY <3>1 DEF Types, TheLines, TheReady, LineOf, ReadyOf, Promise!Type
    <3>2. Erases(t) => Promise!Erase(t)
      BY DEF Erases, TheLines, TheReady, LineOf, ReadyOf, Promise!Erase
    <3>3. Keeps(t) => Promise!Keep(t)
      BY DEF Keeps, TheLines, LineOf, Promise!Keep
    <3>5. Enters(t) => Promise!Enter(t)
      BY <3>3 DEF Enters, TheLines, TheReady, LineOf, ReadyOf, Promise!Enter
    <3>6. Recalls(t) => Promise!Recall(t)
      BY <3>3 DEF Recalls, TheLines, TheReady, LineOf, ReadyOf, Promise!Recall
    <3>7. ASSUME NEW suffix \in Completions, Completes(t, suffix)
          PROVE  Promise!Complete(t, suffix)
      BY <3>7 DEF Completes, TheLines, TheReady, LineOf, ReadyOf, Promise!Complete
    <3>4. ASSUME NEW n \in ReadSizes, Reads(t, n) PROVE Promise!Read(t, n)
      BY <3>4 DEF Reads, TheLines, TheReady, LineOf, ReadyOf, Smaller, Promise!Smaller, Promise!Read
    <3>. QED  BY <2>3, <3>1, <3>2, <3>4, <3>5, <3>6, <3>7 DEF LineStep, Promise!Next
  <2>. QED  BY <2>1, <2>2, <2>3
<1>3. Spec => [](TypeOK /\ FlagInv)
  BY FlagHolds DEF LinesOnly
<1>. QED  BY <1>1, <1>2, <1>3, PTL DEF Spec, LinesDelivered, Promise!Spec
=============================================================================
