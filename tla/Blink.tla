-------------------------------- MODULE Blink --------------------------------
(* The blinking-character table of the fish program: blink.S, with the      *)
(* allocator that fish.c gives it.  Slots of blink_array are numbered from  *)
(* 1, and 0 is the null pointer; a slot whose location is 0 is free, so the *)
(* cell 0 of the screen cannot be used.                                     *)
EXTENDS Integers, FiniteSetsExt, SequencesExt

CONSTANTS
    SLOTS,          \* elements of blink_array, 80*25
    CELLS,          \* characters on the screen, 80*25
    WORD,           \* values of a 16-bit field, 2^16
    CHARS           \* values of a char

ASSUME BlinkAssumption ==
    /\ SLOTS \in Nat \ {0} /\ CELLS \in Nat \ {0}
    /\ WORD \in Nat \ {0} /\ WORD % 2 = 0

ASSUME CharsAssumption == "nul" \in CHARS /\ " " \in CHARS

VARIABLES
    blink_array,    \* struct mp1_blink_struct in each slot
    mp1_list_head,
    screen,         \* the characters in video memory
    synced          \* <<source, destination>> of the last sync, while it is in force (history)

blink_vars == <<blink_array, mp1_list_head, screen, synced>>

Slots == 1..SLOTS
Word == 0..(WORD - 1)
Struct == [location : Word, on_char : CHARS, off_char : CHARS, on_length : Word,
           off_length : Word, countdown : Word, status : {0, 1}, next : 0..SLOTS]
Zeroed == [location |-> 0, on_char |-> "nul", off_char |-> "nul", on_length |-> 0,
           off_length |-> 0, countdown |-> 0, status |-> 0, next |-> 0]

BlinkInit ==
    /\ blink_array = [s \in Slots |-> Zeroed]
    /\ mp1_list_head = 0
    /\ screen = [c \in 0..(CELLS - 1) |-> " "]
    /\ synced = {}

mp1_malloc ==
    LET free == {s \in Slots : blink_array[s].location = 0} IN
    IF free = {} THEN 0 ELSE Min(free)

\* The slot that a walk along the list is at after n steps, and the steps at which it
\* is at an element: the pointers are followed until null.
Following == [s \in 0..SLOTS |-> IF s = 0 THEN 0 ELSE blink_array[s].next]
Node[n \in 0..SLOTS] == IF n = 0 THEN mp1_list_head ELSE Following[Node[n - 1]]
Steps == {n \in 0..SLOTS : Node[n] # 0}

\* The first element with that location, or 0.
mp1_find_helper(location) ==
    LET found == {n \in Steps : blink_array[Node[n]].location = location} IN
    IF found = {} THEN 0 ELSE Node[Min(found)]

mp1_poke(char, location) == screen' = [screen EXCEPT ![location] = char]

\* Mutant: the new element's next pointer is not set, and the rest of the list is lost.
AddForgetsNext(blink) ==
    LET slot == mp1_malloc IN
    IF blink.location >= CELLS \/ slot = 0 THEN UNCHANGED blink_vars
    ELSE /\ blink_array' = [blink_array EXCEPT ![slot] =
                [blink EXCEPT !.status = 1, !.countdown = blink.on_length, !.next = 0]]
         /\ mp1_list_head' = slot
         /\ mp1_poke(blink.on_char, blink.location)
         /\ UNCHANGED synced

\* The caller's status, countdown and next are overwritten.
mp1_ioctl_add(blink) ==
    LET slot == mp1_malloc IN
    IF blink.location >= CELLS \/ slot = 0 THEN UNCHANGED blink_vars
    ELSE /\ blink_array' = [blink_array EXCEPT ![slot] =
                [blink EXCEPT !.status = 1, !.countdown = blink.on_length,
                              !.next = mp1_list_head]]
         /\ mp1_list_head' = slot
         /\ mp1_poke(blink.on_char, blink.location)
         /\ UNCHANGED synced

\* mp1_free: the slot is zeroed and whatever pointed to it points past it.
mp1_ioctl_remove(location) ==
    LET slot == mp1_find_helper(location)
        next == blink_array[slot].next
    IN  IF slot = 0 THEN UNCHANGED blink_vars
        ELSE /\ mp1_list_head' = IF mp1_list_head = slot THEN next ELSE mp1_list_head
             /\ blink_array' = [s \in Slots |->
                    IF s = slot THEN Zeroed
                    ELSE IF blink_array[s].next = slot
                    THEN [blink_array[s] EXCEPT !.next = next]
                    ELSE blink_array[s]]
             /\ synced' = {pair \in synced : slot \notin {pair[1], pair[2]}}
             /\ UNCHANGED screen

\* Mutant: the phase is not copied.
SyncForgetsCountdown(source, destination) ==
    LET from == mp1_find_helper(source)
        to == mp1_find_helper(destination)
    IN  IF from = 0 \/ to = 0 THEN UNCHANGED blink_vars
        ELSE /\ blink_array' = [blink_array EXCEPT
                    ![to].on_length = blink_array[from].on_length,
                    ![to].off_length = blink_array[from].off_length,
                    ![to].status = blink_array[from].status]
             /\ mp1_poke(blink_array[to].off_char, blink_array[to].location)
             /\ synced' = {<<from, to>>}
             /\ UNCHANGED mp1_list_head

\* The off character is shown whatever the copied status: cmovl tests the sign and
\* the overflow of the status's lowest bit, which testb clears.
mp1_ioctl_sync(source, destination) ==
    LET from == mp1_find_helper(source)
        to == mp1_find_helper(destination)
    IN  IF from = 0 \/ to = 0 THEN UNCHANGED blink_vars
        ELSE /\ blink_array' = [blink_array EXCEPT
                    ![to].on_length = blink_array[from].on_length,
                    ![to].off_length = blink_array[from].off_length,
                    ![to].countdown = blink_array[from].countdown,
                    ![to].status = blink_array[from].status]
             /\ mp1_poke(blink_array[to].off_char, blink_array[to].location)
             /\ synced' = {<<from, to>>}
             /\ UNCHANGED mp1_list_head

\* decw and jg: the decremented countdown is compared as a signed 16-bit number.
Decremented(slot) == (blink_array[slot].countdown + WORD - 1) % WORD
Expires(slot) == ~(Decremented(slot) > 0 /\ 2 * Decremented(slot) < WORD)

Toggled(blink) ==
    IF blink.status % 2 = 1
    THEN [blink EXCEPT !.countdown = blink.off_length, !.status = blink.status - 1]
    ELSE [blink EXCEPT !.countdown = blink.on_length, !.status = blink.status + 1]

\* The character that the tasklet's toggle of the element shows.
Shown(blink) == IF blink.status % 2 = 1 THEN blink.off_char ELSE blink.on_char

\* The elements are visited in the order of the list: of two in one cell the later
\* one's character stays.
mp1_rtc_tasklet ==
    LET expired(c) == {n \in Steps :
            Expires(Node[n]) /\ blink_array[Node[n]].location = c}
    IN  /\ blink_array' = [s \in Slots |->
               IF \A n \in Steps : Node[n] # s THEN blink_array[s]
               ELSE IF Expires(s) THEN Toggled(blink_array[s])
               ELSE [blink_array[s] EXCEPT !.countdown = Decremented(s)]]
        /\ screen' = [c \in DOMAIN screen |->
               IF expired(c) = {} THEN screen[c]
               ELSE Shown(blink_array[Node[Max(expired(c))]])]
        /\ UNCHANGED <<mp1_list_head, synced>>

-----------------------------------------------------------------------------
(* What the table promises: BlinkTable, with the list read off in order.    *)

\* A length that is no positive signed 16-bit number lasts one tick, except the smallest,
\* which is positive once it is decremented.
Ticks(length) == IF 0 < length /\ 2 * length <= WORD THEN length ELSE 1

Blinker(blink) ==
    [location |-> blink.location, on_char |-> blink.on_char, off_char |-> blink.off_char,
     on_length |-> Ticks(blink.on_length), off_length |-> Ticks(blink.off_length),
     left |-> Ticks(blink.countdown), on |-> blink.status = 1]

Table == [k \in 1..Cardinality(Steps) |-> Blinker(blink_array[Node[k - 1]])]

Abstract == INSTANCE BlinkTable WITH table <- Table

\* The linked list in blink_array behaves as a list of blinkers, newest first, each
\* showing its characters for their lengths: allocation, unlinking and the 16-bit
\* countdown lose, repeat and delay nothing (blink.S:49-300).
TableImplemented == Abstract!Spec

\* Two blinkers that were synced toggle together until one of them is removed or another
\* sync is made, whatever is added and removed in between (blink.S:240-300).
SyncedTogether ==
    \A pair \in synced :
        LET from == blink_array[pair[1]]
            to == blink_array[pair[2]]
        IN  /\ from.countdown = to.countdown
            /\ from.status = to.status
            /\ from.on_length = to.on_length
            /\ from.off_length = to.off_length
=============================================================================
