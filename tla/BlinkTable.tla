------------------------------ MODULE BlinkTable ------------------------------
(* What blink.S promises: a list of at most SLOTS blinkers, newest first,   *)
(* each with the ticks that its present character has left.                 *)
EXTENDS Integers, FiniteSetsExt, SequencesExt

CONSTANTS SLOTS, CELLS

VARIABLES table, screen

table_vars == <<table, screen>>

Init == table = <<>> /\ screen = [c \in 0..(CELLS - 1) |-> " "]

\* The cells with a blinker, and the newest one in a cell.
Occupied == {b.location : b \in ToSet(table)}
Newest(cell) == SelectInSeq(table, LAMBDA b : b.location = cell)

Add ==
    /\ Len(table) < SLOTS
    /\ Len(table') = Len(table) + 1
    /\ Tail(table') = table
    /\ LET b == Head(table') IN
       /\ b.on
       /\ b.left = b.on_length
       /\ screen' = [screen EXCEPT ![b.location] = b.on_char]

Drop(cell) ==
    /\ table' = RemoveAt(table, Newest(cell))
    /\ UNCHANGED screen

\* The destination takes the source's lengths and its phase, and shows its off character.
Sync(source, destination) ==
    LET s == table[Newest(source)]
        d == table[Newest(destination)]
    IN  /\ table' = [table EXCEPT ![Newest(destination)] =
               [s EXCEPT !.location = destination,
                         !.on_char = d.on_char, !.off_char = d.off_char]]
        /\ screen' = [screen EXCEPT ![destination] = d.off_char]

\* A blinker whose last tick this is changes its character.
After(b) ==
    IF b.left > 1 THEN [b EXCEPT !.left = @ - 1]
    ELSE [b EXCEPT !.on = ~@, !.left = IF b.on THEN b.off_length ELSE b.on_length]

Tick ==
    /\ table' = [k \in DOMAIN table |-> After(table[k])]
    /\ screen' = [c \in DOMAIN screen |->
           LET changing == {k \in DOMAIN table : table[k].location = c /\ table[k].left <= 1}
               b == table'[Max(changing)]
           IN  IF changing = {} THEN screen[c]
               ELSE IF b.on THEN b.on_char ELSE b.off_char]

Next ==
    \/ Add \/ Tick
    \/ \E cell \in Occupied :
          Drop(cell) \/ \E destination \in Occupied : Sync(cell, destination)

Spec == Init /\ [][Next]_table_vars
=============================================================================
