----------------------------- MODULE Fish_proofs -----------------------------
(* Proofs about the fish program: a read of the clock returns after an      *)
(* interrupt of its own, the linked list of blink.S is a table of blinkers  *)
(* in which the synced ones stay together, and the frames become blinkers.  *)
EXTENDS Fish, NatFacts, FiniteSetTheorems

(* The clock.                                                               *)

\* A raised flag has been raised during every read that waits: each read lowers it first.
ClockInv ==
    /\ pc \in [Procs -> {"user", "wait"}]
    /\ ticked \in [Procs -> BOOLEAN]
    /\ \A p \in Procs : pc[p] = "wait" /\ rtc_interrupt_occurred = 1 => ticked[p] = TRUE

\* What any step of the program or of another process does to the clock.
ClockStep ==
    \/ UNCHANGED <<pc, ticked, rtc_interrupt_occurred>>
    \/ \E p \in Procs : rtc_read(p) \/ ReadReturns(p)
    \/ rtc_handler

LEMMA StepsOfTheClock == [FishNext]_all_vars => ClockStep
<1>. SUFFICES ASSUME [FishNext]_all_vars PROVE ClockStep
  OBVIOUS
<1>. USE FishAssumption DEF ClockStep, vars, rtc_vars
<1>1. CASE program = "fish" /\ main
  BY <1>1 DEF main, OpenClock, rtc_open, OpenFrames, add_frames, SetRate, rtc_write,
              ReadClock, Tick, Ioctl, Exit
<1>2. CASE program = "any" /\ (mp1_ioctl \/ mp1_rtc_tasklet) /\ UNCHANGED <<fish_vars, rtc_vars>>
  BY <1>2
<1>3. CASE (\E p \in Procs \ {FISH} : AnyCall(p)) \/ rtc_handler
  BY <1>3 DEF AnyCall, rtc_open, rtc_write
<1>4. CASE UNCHANGED all_vars
  BY <1>4 DEF all_vars
<1>. QED  BY <1>1, <1>2, <1>3, <1>4 DEF FishNext

LEMMA ClockPreserved == ASSUME ClockInv, ClockStep PROVE ClockInv'
<1>1. CASE UNCHANGED <<pc, ticked, rtc_interrupt_occurred>>
  BY <1>1 DEF ClockInv
<1>2. ASSUME NEW p \in Procs, rtc_read(p) PROVE ClockInv'
  BY <1>2 DEF ClockInv, rtc_read
<1>3. ASSUME NEW p \in Procs, ReadReturns(p) PROVE ClockInv'
  BY <1>3 DEF ClockInv, ReadReturns
<1>4. CASE rtc_handler
  BY <1>4 DEF ClockInv, rtc_handler
<1>. QED  BY <1>1, <1>2, <1>3, <1>4 DEF ClockStep

LEMMA ReturnIsLate ==
  ASSUME ClockInv, ClockStep, NEW p \in Procs, pc[p] = "wait", pc'[p] = "user"
  PROVE  ticked[p]
<1>1. CASE UNCHANGED <<pc, ticked, rtc_interrupt_occurred>>
  BY <1>1
<1>2. ASSUME NEW r \in Procs, rtc_read(r) PROVE FALSE
  BY <1>2 DEF ClockInv, rtc_read
<1>3. ASSUME NEW r \in Procs, ReadReturns(r) PROVE ticked[p]
  BY <1>3 DEF ClockInv, ReadReturns
<1>4. CASE rtc_handler
  BY <1>4 DEF rtc_handler
<1>. QED  BY <1>1, <1>2, <1>3, <1>4 DEF ClockStep

\* rtc_read returns only after an interrupt that came after the call, although every
\* process's read lowers and polls one flag, whatever rates the processes set
\* (rtc.c:74-79).
THEOREM ReadsAreTimed == FishSpec => ReturnsAfterInterrupt
<1>1. FishInit => ClockInv
  BY DEF FishInit, Init, ClockInv
<1>2. ClockInv /\ [FishNext]_all_vars => ClockInv'
  BY ClockPreserved, StepsOfTheClock
<1>3. ClockInv /\ [FishNext]_all_vars
      => [\A p \in Procs : pc[p] = "wait" /\ pc'[p] = "user" => ticked[p]]_vars
  BY ReturnIsLate, StepsOfTheClock
<1>. QED  BY <1>1, <1>2, <1>3, PTL DEF FishSpec, ReturnsAfterInterrupt

-----------------------------------------------------------------------------
(* Linked lists.  The elements of a list are given by a function q on 1..L, *)
(* from the head on.                                                        *)

\* The head h and the next pointers in a lead through q[1], ..., q[L] to null.
Links(q, L, a, h) ==
    /\ q \in [1..L -> Slots]
    /\ \A j, k \in 1..L : q[j] = q[k] => j = k
    /\ h = IF L = 0 THEN 0 ELSE q[1]
    /\ \A k \in 1..L : a[q[k]].next = IF k = L THEN 0 ELSE q[k + 1]

\* Blink's walk and table, of an array a and a head h.
FollowingOf(a) == [s \in 0..SLOTS |-> IF s = 0 THEN 0 ELSE a[s].next]
NodeOf(a, h) ==
    CHOOSE f : f = [n \in 0..SLOTS |-> IF n = 0 THEN h ELSE FollowingOf(a)[f[n - 1]]]
StepsOf(a, h) == {n \in 0..SLOTS : NodeOf(a, h)[n] # 0}
TableOf(a, h) == [k \in 1..Cardinality(StepsOf(a, h)) |-> Blinker(a[NodeOf(a, h)[k - 1]])]

LEMMA OfTheState ==
  /\ Node = NodeOf(blink_array, mp1_list_head)
  /\ Steps = StepsOf(blink_array, mp1_list_head)
  /\ Table = TableOf(blink_array, mp1_list_head)
  /\ Node' = NodeOf(blink_array', mp1_list_head')
  /\ Steps' = StepsOf(blink_array', mp1_list_head')
  /\ Table' = TableOf(blink_array', mp1_list_head')
<1>1. Node = NodeOf(blink_array, mp1_list_head)
  BY DEF Node, Following, NodeOf, FollowingOf
<1>2. Node' = NodeOf(blink_array', mp1_list_head')
  BY DEF Node, Following, NodeOf, FollowingOf
<1>. QED  BY <1>1, <1>2 DEF Steps, StepsOf, Table, TableOf

\* A list has no more elements than there are slots to take them from.
LEMMA ListFits ==
  ASSUME NEW L \in Nat, NEW T, IsFiniteSet(T), NEW q \in [1..L -> T],
         \A j, k \in 1..L : q[j] = q[k] => j = k
  PROVE  L <= Cardinality(T)
<1>1. IsFiniteSet(1..L) /\ Cardinality(1..L) = L
  BY FS_Interval
<1>2. Cardinality(T) \in Nat
  BY FS_CardinalityType
<1>3. ~(Cardinality(T) < Cardinality(1..L))
  BY <1>1, FS_PigeonHole
<1>. QED  BY <1>1, <1>2, <1>3

\* The walk visits the elements of the list in order and then stays at null.
LEMMA WalkVisits ==
  ASSUME NEW L \in Nat, L <= SLOTS, NEW q, NEW a, NEW h, Links(q, L, a, h)
  PROVE  NodeOf(a, h) = [n \in 0..SLOTS |-> IF n < L THEN q[n + 1] ELSE 0]
<1>. USE BlinkAssumption
<1>0. PICK w : w = [n \in 0..SLOTS |-> IF n < L THEN q[n + 1] ELSE 0]
  OBVIOUS
<1>1. PICK F : F = FollowingOf(a)
  OBVIOUS
<1>2. F[0] = 0 /\ \A k \in 1..L : F[q[k]] = IF k = L THEN 0 ELSE q[k + 1]
  BY <1>1 DEF FollowingOf, Links, Slots
<1>3. w[0] = h
  BY <1>0 DEF Links
<1>4. ASSUME NEW n \in 1..SLOTS PROVE w[n] = F[w[n - 1]]
  <2>1. CASE n - 1 < L
    <3>1. w[n - 1] = q[n] /\ n \in 1..L
      BY <1>0, <2>1
    <3>. QED  BY <1>0, <1>2, <3>1
  <2>2. CASE ~(n - 1 < L)
    BY <1>0, <1>2, <2>2
  <2>. QED  BY <2>1, <2>2
<1>5. w = [n \in 0..SLOTS |-> IF n = 0 THEN h ELSE F[w[n - 1]]]
  <2>1. \A n \in 0..SLOTS : w[n] = IF n = 0 THEN h ELSE F[w[n - 1]]
    BY <1>3, <1>4
  <2>2. w = [n \in 0..SLOTS |-> w[n]]
    BY <1>0
  <2>. QED  BY <2>1, <2>2
<1>6. PICK g : g = NodeOf(a, h)
  OBVIOUS
<1>7. g = [n \in 0..SLOTS |-> IF n = 0 THEN h ELSE F[g[n - 1]]]
  BY <1>1, <1>5, <1>6 DEF NodeOf
<1>. DEFINE I == {n \in Nat : n <= SLOTS => g[n] = w[n]}
<1>8. 0 \in I
  BY <1>3, <1>7
<1>9. ASSUME NEW n \in Nat, n \in I PROVE n + 1 \in I
  <2>. SUFFICES ASSUME n + 1 <= SLOTS PROVE g[n + 1] = w[n + 1]
    OBVIOUS
  <2>1. g[n + 1] = F[g[n]]
    BY <1>7
  <2>2. w[n + 1] = F[w[n]]
    BY <1>4
  <2>. QED  BY <1>9, <2>1, <2>2
<1>. HIDE DEF I
<1>10. Nat \subseteq I
  BY <1>8, <1>9, SetInduction
<1>11. \A n \in 0..SLOTS : g[n] = w[n]
  BY <1>10 DEF I
<1>. QED  BY <1>0, <1>6, <1>7, <1>11

\* So the table is the elements' blinkers in the order of the list.
LEMMA TableReads ==
  ASSUME NEW L \in Nat, L <= SLOTS, NEW q, NEW a, NEW h, Links(q, L, a, h)
  PROVE  /\ StepsOf(a, h) = 0..(L - 1)
         /\ \A n \in 0..(L - 1) : NodeOf(a, h)[n] = q[n + 1]
         /\ TableOf(a, h) = [k \in 1..L |-> Blinker(a[q[k]])]
<1>. USE BlinkAssumption
<1>1. \A n \in 0..SLOTS : NodeOf(a, h)[n] = IF n < L THEN q[n + 1] ELSE 0
  BY WalkVisits
<1>2. \A n \in 0..(L - 1) : q[n + 1] \in Slots
  BY DEF Links
<1>3. StepsOf(a, h) = 0..(L - 1)
  BY <1>1, <1>2 DEF StepsOf, Slots
<1>4. Cardinality(StepsOf(a, h)) = L
  BY <1>3, FS_Interval
<1>5. \A n \in 0..(L - 1) : NodeOf(a, h)[n] = q[n + 1]
  BY <1>1
<1>6. \A k \in 1..L : NodeOf(a, h)[k - 1] = q[k]
  BY <1>5
<1>. QED  BY <1>3, <1>4, <1>5, <1>6 DEF TableOf

-----------------------------------------------------------------------------
(* The table.                                                               *)

BlinkTypes == blink_array \in [Slots -> Struct] /\ screen \in [0..(CELLS - 1) -> CHARS]

\* The list holds the slots q[1], ..., q[L], which are the ones that do not look free.
Chain(q, L) ==
    /\ Links(q, L, blink_array, mp1_list_head)
    /\ \A k \in 1..L : blink_array[q[k]].location \in 1..(CELLS - 1)
    /\ \A s \in Slots : (\A k \in 1..L : q[k] # s) => blink_array[s].location = 0

\* The elements of the list that are in a cell.
InCell(q, L, cell) == {k \in 1..L : blink_array[q[k]].location = cell}

LEMMA StateReads ==
  ASSUME NEW L \in Nat, L <= SLOTS, NEW q, Chain(q, L)
  PROVE  /\ Steps = 0..(L - 1)
         /\ \A n \in 0..(L - 1) : Node[n] = q[n + 1]
         /\ Table = [k \in 1..L |-> Blinker(blink_array[q[k]])]
BY TableReads, OfTheState DEF Chain

\* mp1_find_helper finds the newest element in a cell.
LEMMA FindFinds ==
  ASSUME NEW L \in Nat, L <= SLOTS, NEW q, Chain(q, L), NEW cell
  PROVE  mp1_find_helper(cell)
         = IF InCell(q, L, cell) = {} THEN 0 ELSE q[Min(InCell(q, L, cell))]
<1>0. PICK found : found = {n \in Steps : blink_array[Node[n]].location = cell}
  OBVIOUS
<1>1. mp1_find_helper(cell) = IF found = {} THEN 0 ELSE Node[Min(found)]
  BY <1>0 DEF mp1_find_helper
<1>2. PICK K : K = InCell(q, L, cell)
  OBVIOUS
<1>3. \A n \in 0..(L - 1) : n \in found <=> n + 1 \in K
  BY <1>0, <1>2, StateReads DEF InCell
<1>4. found \subseteq 0..(L - 1) /\ K \subseteq 1..L
  BY <1>0, <1>2, StateReads DEF InCell
<1>5. \A k \in K : k - 1 \in found
  BY <1>3, <1>4
<1>8. found \subseteq Nat /\ K \subseteq Nat
  BY <1>4
<1>6. CASE K = {}
  BY <1>1, <1>2, <1>3, <1>4, <1>6
<1>7. CASE K # {}
  <2>1. found # {}
    BY <1>5, <1>7
  <2>2. Min(K) \in K /\ \A k \in K : Min(K) <= k
    BY <1>7, <1>8, MinIsLeast
  <2>3. Min(found) \in found /\ \A n \in found : Min(found) <= n
    BY <1>8, <2>1, MinIsLeast
  <2>4. Min(found) + 1 \in K /\ Min(K) - 1 \in found
    BY <1>3, <1>4, <1>5, <2>2, <2>3
  <2>5. Min(K) = Min(found) + 1
    <3>. Min(K) \in Nat /\ Min(found) \in Nat
      BY <1>8, <2>2, <2>3
    <3>. QED  BY <2>2, <2>3, <2>4
  <2>6. Node[Min(found)] = q[Min(found) + 1]
    BY <1>4, <2>3, StateReads
  <2>. QED  BY <1>1, <1>2, <1>7, <2>1, <2>5, <2>6
<1>. QED  BY <1>6, <1>7

\* BlinkTable finds the same one.
LEMMA NewestIs ==
  ASSUME NEW L \in Nat, L <= SLOTS, NEW q, Chain(q, L), NEW cell
  PROVE  /\ Abstract!Newest(cell)
            = IF InCell(q, L, cell) = {} THEN 0 ELSE Min(InCell(q, L, cell))
         /\ Abstract!Occupied = {blink_array[q[k]].location : k \in 1..L}
<1>0. PICK t : t = Table
  OBVIOUS
<1>1. t = [k \in 1..L |-> Blinker(blink_array[q[k]])]
  BY <1>0, StateReads
<1>2. \A k \in 1..L : t[k].location = blink_array[q[k]].location
  BY <1>1 DEF Blinker
<1>3. Len(t) = L /\ DOMAIN t = 1..L
  BY <1>1
<1>4. InCell(q, L, cell) = {k \in 1..Len(t) : t[k].location = cell}
  BY <1>2, <1>3 DEF InCell
<1>5. Abstract!Newest(cell)
      = IF {k \in 1..Len(t) : t[k].location = cell} # {}
        THEN Min({k \in 1..Len(t) : t[k].location = cell}) ELSE 0
  BY <1>0 DEF Abstract!Newest, Abstract!SelectInSeq, Abstract!Min, Min
<1>6. Abstract!Occupied = {b.location : b \in {t[k] : k \in 1..L}}
  BY <1>0, <1>3 DEF Abstract!Occupied, Abstract!ToSet
<1>. QED  BY <1>2, <1>4, <1>5, <1>6

\* The elements of a pair in synced are in the list, and in the same phase.
InPhase(x, y) ==
    /\ x.countdown = y.countdown /\ x.status = y.status
    /\ x.on_length = y.on_length /\ x.off_length = y.off_length
SyncedIn(q, L) ==
    \A pair \in synced : \E j, k \in 1..L :
        pair = <<q[j], q[k]>> /\ InPhase(blink_array[q[j]], blink_array[q[k]])

BlinkInv ==
    /\ BlinkTypes
    /\ \E L \in 0..SLOTS : \E q : Chain(q, L) /\ SyncedIn(q, L)

\* A step of BlinkTable, or none.
TableStep == Abstract!Next \/ UNCHANGED <<Table, screen>>

LEMMA ZeroedIsStruct == Zeroed \in Struct
<1>1. 0 \in Word /\ 0 \in 0..SLOTS
  BY BlinkAssumption DEF Word
<1>2. "nul" \in CHARS
  BY CharsAssumption
<1>. QED  BY <1>1, <1>2 DEF Zeroed, Struct

LEMMA NothingHappens ==
  ASSUME BlinkInv, UNCHANGED blink_vars PROVE BlinkInv' /\ TableStep
<1>1. /\ blink_array' = blink_array /\ mp1_list_head' = mp1_list_head
      /\ screen' = screen /\ synced' = synced
  BY DEF blink_vars
<1>2. BlinkInv'
  BY <1>1 DEF BlinkInv, BlinkTypes, Chain, SyncedIn
<1>3. Table' = Table
  BY <1>1, OfTheState
<1>. QED  BY <1>1, <1>2, <1>3 DEF TableStep

\* A free slot is not in the list, and leaves room in it.
LEMMA Allocated ==
  ASSUME BlinkTypes, NEW L \in 0..SLOTS, NEW q, Chain(q, L), mp1_malloc # 0
  PROVE  /\ mp1_malloc \in Slots
         /\ \A k \in 1..L : q[k] # mp1_malloc
         /\ L < SLOTS
<1>. USE BlinkAssumption
<1>0. PICK free : free = {s \in Slots : blink_array[s].location = 0}
  OBVIOUS
<1>1. free # {} /\ mp1_malloc = Min(free)
  BY <1>0 DEF mp1_malloc
<1>2. free \subseteq Nat
  BY <1>0 DEF Slots
<1>3. mp1_malloc \in free
  BY <1>1, <1>2, MinIsLeast
<1>4. PICK s : s = mp1_malloc
  OBVIOUS
<1>5. s \in Slots /\ blink_array[s].location = 0
  BY <1>0, <1>3, <1>4
<1>6. \A k \in 1..L : q[k] # s
  BY <1>5 DEF Chain
<1>7. PICK T : T = Slots \ {s}
  OBVIOUS
<1>8. IsFiniteSet(Slots) /\ Cardinality(Slots) = SLOTS
  BY FS_Interval DEF Slots
<1>9. IsFiniteSet(T) /\ Cardinality(T) = SLOTS - 1
  BY <1>5, <1>7, <1>8, FS_RemoveElement
<1>10. q \in [1..L -> T] /\ \A j, k \in 1..L : q[j] = q[k] => j = k
  BY <1>6, <1>7 DEF Chain, Links
<1>11. L <= SLOTS - 1
  BY <1>9, <1>10, ListFits
<1>. QED  BY <1>4, <1>5, <1>6, <1>11

\* While the list is shorter than the array, there is a free slot.
LEMMA RoomLeft ==
  ASSUME BlinkInv, Len(Table) < SLOTS PROVE mp1_malloc # 0
<1>. USE BlinkAssumption
<1>1. PICK L \in 0..SLOTS : \E q : Chain(q, L) /\ SyncedIn(q, L)
  BY DEF BlinkInv
<1>0. IsFiniteSet(1..L) /\ Cardinality(1..L) = L /\ Cardinality(Slots) = SLOTS
  <2>1. L \in Int /\ 1 \in Int /\ SLOTS \in Int /\ L >= 0 /\ SLOTS >= 1
    OBVIOUS
  <2>2. IsFiniteSet(1..L) /\ Cardinality(1..L) = IF 1 > L THEN 0 ELSE L - 1 + 1
    BY <2>1, FS_Interval
  <2>3. Cardinality(1..SLOTS) = IF 1 > SLOTS THEN 0 ELSE SLOTS - 1 + 1
    BY <2>1, FS_Interval
  <2>. QED  BY <2>1, <2>2, <2>3 DEF Slots
<1>2. PICK q : Chain(q, L)
  BY <1>1
<1>3. PICK t : t = Table
  OBVIOUS
<1>4. t = [k \in 1..L |-> Blinker(blink_array[q[k]])]
  BY <1>2, <1>3, StateReads
<1>5. Len(t) = L
  BY <1>4
<1>6. L < SLOTS /\ q \in [1..L -> Slots]
  BY <1>2, <1>3, <1>5 DEF Chain, Links
<1>7. PICK s \in Slots : \A k \in 1..L : q[k] # s
  <2>. SUFFICES ASSUME \A s \in Slots : \E k \in 1..L : q[k] = s PROVE FALSE
    OBVIOUS
  <2>1. q \in Surjection(1..L, Slots)
    BY <1>6 DEF Surjection
  <2>2. Cardinality(Slots) <= Cardinality(1..L)
    BY <1>0, <2>1, FS_Surjection
  <2>. QED  BY <1>0, <1>6, <2>2
<1>8. blink_array[s].location = 0
  BY <1>2, <1>7 DEF Chain
<1>9. PICK free : free = {x \in Slots : blink_array[x].location = 0}
  OBVIOUS
<1>10. free # {} /\ free \subseteq Nat
  BY <1>8, <1>9 DEF Slots
<1>11. Min(free) \in free
  BY <1>10, MinIsLeast
<1>. QED  BY <1>9, <1>10, <1>11 DEF mp1_malloc, Slots

\* The table has a new blinker in front.
InFront(blink) ==
    /\ Len(Table) \in Nat /\ DOMAIN Table = 1..Len(Table)
    /\ Len(Table') = Len(Table) + 1 /\ DOMAIN Table' = 1..(Len(Table) + 1)
    /\ \A k \in 1..Len(Table) : Table'[k + 1] = Table[k]
    /\ Table'[1].location = blink.location
    /\ Table'[1].on_char = blink.on_char /\ Table'[1].off_char = blink.off_char

LEMMA AddStep ==
  ASSUME BlinkInv, NEW blink \in Struct, blink.location # 0, mp1_ioctl_add(blink)
  PROVE  /\ BlinkInv' /\ TableStep
         /\ blink.location < CELLS /\ mp1_malloc # 0 => InFront(blink)
<1>. USE BlinkAssumption
<1>1. PICK s : s = mp1_malloc
  OBVIOUS
<1>2. CASE blink.location >= CELLS \/ s = 0
  <2>1. BlinkInv' /\ TableStep
    BY <1>1, <1>2, NothingHappens DEF mp1_ioctl_add
  <2>2. ~(blink.location < CELLS /\ mp1_malloc # 0)
    BY <1>1, <1>2 DEF Struct, Word
  <2>. QED  BY <2>1, <2>2
<1>3. CASE ~(blink.location >= CELLS \/ s = 0)
  <2>0. BlinkTypes
    BY DEF BlinkInv
  <2>1. PICK L \in 0..SLOTS : \E q : Chain(q, L) /\ SyncedIn(q, L)
    BY DEF BlinkInv
  <2>2. PICK q : Chain(q, L) /\ SyncedIn(q, L)
    BY <2>1
  <2>3. s \in Slots /\ L < SLOTS /\ \A k \in 1..L : q[k] # s
    BY <1>1, <1>3, <2>0, <2>2, Allocated
  <2>4. PICK n : n = [blink EXCEPT !.status = 1, !.countdown = blink.on_length,
                                   !.next = mp1_list_head]
    OBVIOUS
  <2>5. /\ blink_array' = [blink_array EXCEPT ![s] = n]
        /\ mp1_list_head' = s
        /\ screen' = [screen EXCEPT ![blink.location] = blink.on_char]
        /\ synced' = synced
    BY <1>1, <1>3, <2>4 DEF mp1_ioctl_add, mp1_poke
  <2>6. /\ q \in [1..L -> Slots]
        /\ mp1_list_head = IF L = 0 THEN 0 ELSE q[1]
    BY <2>2 DEF Chain, Links
  <2>7. n \in Struct /\ n.location = blink.location /\ n.next = mp1_list_head
        /\ n.status = 1 /\ n.countdown = n.on_length /\ n.on_char = blink.on_char
        /\ n.off_char = blink.off_char
    <3>1. mp1_list_head \in 0..SLOTS
      BY <2>6 DEF Slots
    <3>. QED  BY <2>4, <3>1 DEF Struct
  <2>8. blink.location \in 1..(CELLS - 1)
    BY <1>3 DEF Struct, Word
  <2>9. BlinkTypes'
    BY <2>0, <2>3, <2>5, <2>7, <2>8 DEF BlinkTypes, Struct
  <2>10. /\ blink_array'[s] = n
         /\ \A k \in 1..L : blink_array'[q[k]] = blink_array[q[k]]
    BY <2>0, <2>3, <2>5, <2>6 DEF BlinkTypes
  <2>11. PICK r : r = [k \in 1..(L + 1) |-> IF k = 1 THEN s ELSE q[k - 1]]
    OBVIOUS
  <2>12. r[1] = s /\ \A k \in 1..L : r[k + 1] = q[k]
    BY <2>11
  <2>13. \A k \in 1..(L + 1) : k = 1 \/ (k - 1 \in 1..L /\ r[k] = q[k - 1])
    BY <2>11
  <2>14. Links(r, L + 1, blink_array', mp1_list_head')
    <3>1. r \in [1..(L + 1) -> Slots]
      BY <2>3, <2>6, <2>11
    <3>2. \A j, k \in 1..(L + 1) : r[j] = r[k] => j = k
      <4>1. \A j, k \in 1..L : q[j] = q[k] => j = k
        BY <2>2 DEF Chain, Links
      <4>. QED  BY <2>3, <2>12, <2>13, <4>1
    <3>3. ASSUME NEW k \in 1..(L + 1)
          PROVE  blink_array'[r[k]].next = IF k = L + 1 THEN 0 ELSE r[k + 1]
      <4>1. CASE k = 1
        BY <2>6, <2>7, <2>10, <2>12, <4>1
      <4>2. CASE k # 1
        <5>1. k - 1 \in 1..L /\ r[k] = q[k - 1]
          BY <2>13, <4>2
        <5>2. blink_array[q[k - 1]].next = IF k - 1 = L THEN 0 ELSE q[k]
          BY <2>2, <5>1 DEF Chain, Links
        <5>3. k <= L => r[k + 1] = q[k]
          BY <2>12
        <5>. QED  BY <2>10, <5>1, <5>2, <5>3
      <4>. QED  BY <4>1, <4>2
    <3>. QED  BY <2>5, <2>12, <3>1, <3>2, <3>3 DEF Links
  <2>15. Chain(r, L + 1)'
    <3>1. ASSUME NEW k \in 1..(L + 1)
          PROVE  blink_array'[r[k]].location \in 1..(CELLS - 1)
      <4>1. CASE k = 1
        BY <2>7, <2>8, <2>10, <2>12, <4>1
      <4>2. CASE k # 1
        BY <2>2, <2>10, <2>13, <4>2 DEF Chain
      <4>. QED  BY <4>1, <4>2
    <3>2. ASSUME NEW x \in Slots, \A k \in 1..(L + 1) : r[k] # x
          PROVE  blink_array'[x].location = 0
      <4>1. x # s /\ \A k \in 1..L : q[k] # x
        BY <2>12, <3>2
      <4>2. blink_array'[x] = blink_array[x]
        BY <2>0, <2>5, <4>1 DEF BlinkTypes
      <4>. QED  BY <2>2, <4>1, <4>2 DEF Chain
    <3>. QED  BY <2>14, <3>1, <3>2 DEF Chain
  <2>16. SyncedIn(r, L + 1)'
    <3>1. ASSUME NEW pair \in synced
          PROVE  \E j, k \in 1..(L + 1) : pair = <<r[j], r[k]>>
                     /\ InPhase(blink_array'[r[j]], blink_array'[r[k]])
      <4>1. PICK j \in 1..L, k \in 1..L : pair = <<q[j], q[k]>>
                /\ InPhase(blink_array[q[j]], blink_array[q[k]])
        BY <2>2 DEF SyncedIn
      <4>2. j + 1 \in 1..(L + 1) /\ k + 1 \in 1..(L + 1)
            /\ r[j + 1] = q[j] /\ r[k + 1] = q[k]
        BY <2>12
      <4>. QED  BY <2>10, <4>1, <4>2
    <3>. QED  BY <2>5, <3>1 DEF SyncedIn
  <2>17. BlinkInv'
    <3>. L + 1 \in 0..SLOTS
      BY <2>3
    <3>. QED  BY <2>9, <2>15, <2>16 DEF BlinkInv
  <2>18. Table = [k \in 1..L |-> Blinker(blink_array[q[k]])]
    BY <2>2, StateReads
  <2>19. Table' = [k \in 1..(L + 1) |-> Blinker(blink_array'[r[k]])]
    BY <2>3, <2>14, TableReads, OfTheState
  <2>20. PICK t : t = Table
    OBVIOUS
  <2>21. PICK u : u = Table'
    OBVIOUS
  <2>22. Len(t) = L /\ Len(u) = L + 1
    BY <2>18, <2>19, <2>20, <2>21
  <2>23. Tail(u) = t
    BY <2>10, <2>12, <2>18, <2>19, <2>20, <2>21
  <2>24. Head(u) = Blinker(n)
    BY <2>10, <2>12, <2>19, <2>21
  <2>25. Blinker(n).on /\ Blinker(n).left = Blinker(n).on_length
         /\ Blinker(n).location = blink.location /\ Blinker(n).on_char = blink.on_char
    BY <2>7 DEF Blinker
  <2>26. Abstract!Add
    BY <2>3, <2>5, <2>20, <2>21, <2>22, <2>23, <2>24, <2>25 DEF Abstract!Add
  <2>27. InFront(blink)
    <3>1. u[1] = Blinker(n) /\ \A k \in 1..L : u[k + 1] = t[k]
      BY <2>10, <2>12, <2>18, <2>19, <2>20, <2>21
    <3>2. Blinker(n).off_char = blink.off_char
      BY <2>7 DEF Blinker
    <3>3. DOMAIN t = 1..L /\ DOMAIN u = 1..(L + 1) /\ L \in Nat
      BY <2>18, <2>19, <2>20, <2>21
    <3>. QED  BY <2>20, <2>21, <2>22, <2>25, <3>1, <3>2, <3>3 DEF InFront
  <2>. QED  BY <2>17, <2>26, <2>27 DEF TableStep, Abstract!Next
<1>. QED  BY <1>2, <1>3

\* Without its m-th element a sequence has the later ones one place earlier.
LEMMA RemoveAtIs ==
  ASSUME NEW S, NEW t \in Seq(S), NEW m \in 1..Len(t)
  PROVE  RemoveAt(t, m) = [k \in 1..(Len(t) - 1) |-> IF k < m THEN t[k] ELSE t[k + 1]]
<1>1. PICK a : a = SubSeq(t, 1, m - 1)
  OBVIOUS
<1>2. PICK b : b = SubSeq(t, m + 1, Len(t))
  OBVIOUS
<1>3. a \in Seq(S) /\ Len(a) = m - 1 /\ \A k \in 1..(m - 1) : a[k] = t[k]
  BY <1>1
<1>4. b \in Seq(S) /\ Len(b) = Len(t) - m /\ \A k \in 1..(Len(t) - m) : b[k] = t[m + k]
  BY <1>2
<1>5. PICK d : d = a \o b
  OBVIOUS
<1>6. d \in Seq(S) /\ Len(d) = Len(t) - 1
  BY <1>3, <1>4, <1>5
<1>7. ASSUME NEW k \in 1..(Len(t) - 1)
      PROVE  d[k] = IF k < m THEN t[k] ELSE t[k + 1]
  <2>1. CASE k < m
    BY <1>3, <1>4, <1>5, <2>1
  <2>2. CASE ~(k < m)
    <3>1. k - (m - 1) \in 1..(Len(t) - m)
      BY <2>2
    <3>2. d[k] = b[k - (m - 1)]
      BY <1>3, <1>4, <1>5, <2>2
    <3>3. b[k - (m - 1)] = t[m + (k - (m - 1))] /\ m + (k - (m - 1)) = k + 1
      BY <1>4, <3>1
    <3>. QED  BY <2>2, <3>2, <3>3
  <2>. QED  BY <2>1, <2>2
<1>8. d = [k \in 1..(Len(t) - 1) |-> d[k]]
  BY <1>6
<1>. QED  BY <1>1, <1>2, <1>5, <1>7, <1>8 DEF RemoveAt

LEMMA RemoveStep ==
  ASSUME BlinkInv, NEW location, mp1_ioctl_remove(location)
  PROVE  BlinkInv' /\ TableStep
<1>. USE BlinkAssumption
<1>0. BlinkTypes
  BY DEF BlinkInv
<1>1. PICK L \in 0..SLOTS : \E q : Chain(q, L) /\ SyncedIn(q, L)
  BY DEF BlinkInv
<1>2. PICK q : Chain(q, L) /\ SyncedIn(q, L)
  BY <1>1
<1>3. PICK s : s = mp1_find_helper(location)
  OBVIOUS
<1>4. PICK K : K = InCell(q, L, location)
  OBVIOUS
<1>5. s = IF K = {} THEN 0 ELSE q[Min(K)]
  BY <1>2, <1>3, <1>4, FindFinds
<1>6. CASE K = {}
  BY <1>3, <1>5, <1>6, NothingHappens DEF mp1_ioctl_remove
<1>7. CASE K # {}
  <2>1. PICK m : m = Min(K)
    OBVIOUS
  <2>2. m \in 1..L /\ blink_array[q[m]].location = location /\ s = q[m]
    <3>1. K \subseteq Nat
      BY <1>4 DEF InCell
    <3>2. m \in K
      BY <1>7, <2>1, <3>1, MinIsLeast
    <3>. QED  BY <1>4, <1>5, <1>7, <2>1, <3>2 DEF InCell
  <2>3. /\ q \in [1..L -> Slots]
        /\ \A j, k \in 1..L : q[j] = q[k] => j = k
        /\ mp1_list_head = q[1]
        /\ \A k \in 1..L : blink_array[q[k]].next = IF k = L THEN 0 ELSE q[k + 1]
    BY <1>2, <2>2 DEF Chain, Links
  <2>4. PICK n : n = blink_array[s].next
    OBVIOUS
  <2>5. s \in Slots /\ s # 0 /\ n = IF m = L THEN 0 ELSE q[m + 1]
    BY <2>2, <2>3, <2>4 DEF Slots
  <2>6. /\ mp1_list_head' = IF mp1_list_head = s THEN n ELSE mp1_list_head
        /\ blink_array' = [x \in Slots |->
               IF x = s THEN Zeroed
               ELSE IF blink_array[x].next = s THEN [blink_array[x] EXCEPT !.next = n]
               ELSE blink_array[x]]
        /\ synced' = {pair \in synced : s \notin {pair[1], pair[2]}}
        /\ screen' = screen
    BY <1>3, <2>4, <2>5 DEF mp1_ioctl_remove
  <2>7. BlinkTypes'
    <3>1. Zeroed \in Struct
      BY ZeroedIsStruct
    <3>2. n \in 0..SLOTS
      BY <2>2, <2>3, <2>5 DEF Slots
    <3>3. \A x \in Slots : blink_array[x] \in Struct
          /\ [blink_array[x] EXCEPT !.next = n] \in Struct
      BY <1>0, <3>2 DEF BlinkTypes, Struct
    <3>. QED  BY <1>0, <2>6, <3>1, <3>3 DEF BlinkTypes
  \* The elements that stay keep everything but the pointer to the one removed.
  <2>8. ASSUME NEW k \in 1..L, k # m
        PROVE  /\ blink_array'[q[k]].next
                  = IF k + 1 = m THEN n ELSE blink_array[q[k]].next
               /\ blink_array'[q[k]].location = blink_array[q[k]].location
               /\ Blinker(blink_array'[q[k]]) = Blinker(blink_array[q[k]])
               /\ blink_array'[q[k]].countdown = blink_array[q[k]].countdown
               /\ blink_array'[q[k]].status = blink_array[q[k]].status
               /\ blink_array'[q[k]].on_length = blink_array[q[k]].on_length
               /\ blink_array'[q[k]].off_length = blink_array[q[k]].off_length
    <3>1. PICK x : x = blink_array[q[k]]
      OBVIOUS
    <3>2. q[k] \in Slots /\ q[k] # s /\ x \in Struct
      BY <1>0, <2>2, <2>3, <2>8, <3>1 DEF BlinkTypes
    <3>3. x.next = s <=> k + 1 = m
      BY <2>2, <2>3, <2>5, <3>1
    <3>4. blink_array'[q[k]] = IF k + 1 = m THEN [x EXCEPT !.next = n] ELSE x
      BY <2>6, <3>1, <3>2, <3>3
    <3>5. CASE k + 1 = m
      BY <3>1, <3>2, <3>4, <3>5 DEF Struct, Blinker
    <3>6. CASE k + 1 # m
      BY <3>1, <3>4, <3>6
    <3>. QED  BY <3>5, <3>6
  <2>9. PICK r : r = [k \in 1..(L - 1) |-> IF k < m THEN q[k] ELSE q[k + 1]]
    OBVIOUS
  <2>10. PICK i2 : i2 = [k \in 1..(L - 1) |-> IF k < m THEN k ELSE k + 1]
    OBVIOUS
  <2>11. \A k \in 1..(L - 1) : r[k] = q[i2[k]] /\ i2[k] \in 1..L /\ i2[k] # m
    BY <2>2, <2>9, <2>10
  <2>12. \A j, k \in 1..(L - 1) : i2[j] = i2[k] => j = k
    BY <2>2, <2>10
  <2>13. Links(r, L - 1, blink_array', mp1_list_head')
    <3>1. r \in [1..(L - 1) -> Slots]
      BY <2>2, <2>3, <2>9
    <3>2. ASSUME NEW j \in 1..(L - 1), NEW k \in 1..(L - 1), r[j] = r[k] PROVE j = k
      <4>1. i2[j] \in 1..L /\ i2[k] \in 1..L /\ q[i2[j]] = q[i2[k]]
        BY <2>11, <3>2
      <4>2. i2[j] = i2[k]
        BY <2>3, <4>1
      <4>. QED  BY <2>12, <4>2
    <3>3. mp1_list_head' = IF L - 1 = 0 THEN 0 ELSE r[1]
      <4>1. CASE m = 1
        BY <2>2, <2>3, <2>5, <2>6, <2>9, <4>1
      <4>2. CASE m # 1
        BY <2>2, <2>3, <2>6, <2>9, <4>2
      <4>. QED  BY <4>1, <4>2
    <3>4. ASSUME NEW k \in 1..(L - 1)
          PROVE  blink_array'[r[k]].next = IF k = L - 1 THEN 0 ELSE r[k + 1]
      <4>1. CASE k + 1 < m
        <5>1. r[k] = q[k] /\ r[k + 1] = q[k + 1] /\ k \in 1..L /\ k # m /\ k # L - 1
          BY <2>2, <2>9, <4>1
        <5>. QED  BY <2>3, <2>8, <4>1, <5>1
      <4>2. CASE k + 1 = m
        <5>1. r[k] = q[k] /\ k \in 1..L /\ k # m
          BY <2>2, <2>9, <4>2
        <5>2. k # L - 1 => r[k + 1] = q[m + 1]
          BY <2>2, <2>9, <4>2
        <5>. QED  BY <2>2, <2>5, <2>8, <4>2, <5>1, <5>2
      <4>3. CASE ~(k < m)
        <5>1. r[k] = q[k + 1] /\ k + 1 \in 1..L /\ k + 1 # m /\ k + 2 # m
          BY <2>2, <2>9, <4>3
        <5>2. k # L - 1 => r[k + 1] = q[k + 2]
          BY <2>2, <2>9, <4>3
        <5>3. blink_array'[q[k + 1]].next = blink_array[q[k + 1]].next
          BY <2>8, <5>1
        <5>. QED  BY <2>3, <5>1, <5>2, <5>3
      <4>. QED  BY <2>2, <4>1, <4>2, <4>3
    <3>. QED  BY <3>1, <3>2, <3>3, <3>4 DEF Links
  <2>13a. ASSUME NEW j \in 1..L, j # m PROVE \E y \in 1..(L - 1) : r[y] = q[j]
    <3>1. CASE j < m
      BY <2>2, <2>9, <3>1
    <3>2. CASE ~(j < m)
      <4>. j - 1 \in 1..(L - 1) /\ ~(j - 1 < m)
        BY <2>2, <2>13a, <3>2
      <4>. QED  BY <2>9
    <3>. QED  BY <3>1, <3>2
  <2>14. Chain(r, L - 1)'
    <3>1. \A k \in 1..(L - 1) : blink_array'[r[k]].location \in 1..(CELLS - 1)
      BY <1>2, <2>8, <2>11 DEF Chain
    <3>2. ASSUME NEW x \in Slots, \A k \in 1..(L - 1) : r[k] # x
          PROVE  blink_array'[x].location = 0
      <4>1. CASE x = s
        BY <2>6, <4>1 DEF Zeroed
      <4>2. CASE x # s
        <5>1. \A k \in 1..L : q[k] # x
          BY <2>2, <2>13a, <3>2, <4>2
        <5>2. blink_array[x].location = 0
          BY <1>2, <5>1 DEF Chain
        <5>3. blink_array[x] \in Struct
          BY <1>0 DEF BlinkTypes
        <5>4. blink_array'[x] = blink_array[x]
              \/ blink_array'[x] = [blink_array[x] EXCEPT !.next = n]
          BY <2>6, <4>2
        <5>. QED  BY <5>2, <5>3, <5>4 DEF Struct
      <4>. QED  BY <4>1, <4>2
    <3>. QED  BY <2>13, <3>1, <3>2 DEF Chain
  <2>15. SyncedIn(r, L - 1)'
    <3>1. ASSUME NEW pair \in synced, s \notin {pair[1], pair[2]}
          PROVE  \E j, k \in 1..(L - 1) : pair = <<r[j], r[k]>>
                     /\ InPhase(blink_array'[r[j]], blink_array'[r[k]])
      <4>1. PICK j \in 1..L, k \in 1..L : pair = <<q[j], q[k]>>
                /\ InPhase(blink_array[q[j]], blink_array[q[k]])
        BY <1>2 DEF SyncedIn
      <4>2. j # m /\ k # m
        BY <2>2, <3>1, <4>1
      <4>3. InPhase(blink_array'[q[j]], blink_array'[q[k]])
        BY <2>8, <4>1, <4>2 DEF InPhase
      <4>4. (\E y \in 1..(L - 1) : r[y] = q[j]) /\ (\E y \in 1..(L - 1) : r[y] = q[k])
        BY <2>13a, <4>2
      <4>. QED  BY <4>1, <4>3, <4>4
    <3>. QED  BY <2>6, <3>1 DEF SyncedIn
  <2>16. BlinkInv'
    <3>. L - 1 \in 0..SLOTS
      BY <2>2
    <3>. QED  BY <2>7, <2>14, <2>15 DEF BlinkInv
  <2>17. PICK t : t = Table
    OBVIOUS
  <2>18. t = [k \in 1..L |-> Blinker(blink_array[q[k]])]
    BY <1>2, <2>17, StateReads
  <2>19. Table' = [k \in 1..(L - 1) |-> Blinker(blink_array'[r[k]])]
    <3>. L - 1 \in Nat /\ L - 1 <= SLOTS
      BY <2>2
    <3>. QED  BY <2>13, TableReads, OfTheState
  <2>20. Table' = [k \in 1..(L - 1) |-> IF k < m THEN t[k] ELSE t[k + 1]]
    <3>1. \A k \in 1..(L - 1) :
              Blinker(blink_array'[r[k]]) = IF k < m THEN t[k] ELSE t[k + 1]
      <4>1. \A k \in 1..(L - 1) : Blinker(blink_array'[r[k]]) = t[i2[k]]
        BY <2>8, <2>11, <2>18
      <4>. QED  BY <2>10, <4>1
    <3>. QED  BY <2>19, <3>1
  <2>21. Table' = Abstract!RemoveAt(t, m)
    <3>1. PICK S : S = {Blinker(blink_array[q[k]]) : k \in 1..L}
      OBVIOUS
    <3>2. t \in Seq(S) /\ Len(t) = L
      BY <2>18, <3>1
    <3>3. Table' = RemoveAt(t, m)
      BY <2>2, <2>20, <3>2, RemoveAtIs
    <3>. QED  BY <3>3 DEF RemoveAt, Abstract!RemoveAt
  <2>22. Abstract!Newest(location) = m /\ location \in Abstract!Occupied
    BY <1>2, <1>4, <1>7, <2>1, <2>2, NewestIs
  <2>23. Abstract!Drop(location)
    BY <2>6, <2>17, <2>21, <2>22 DEF Abstract!Drop
  <2>. QED  BY <2>16, <2>22, <2>23 DEF TableStep, Abstract!Next
<1>. QED  BY <1>6, <1>7

\* A blinker's record, and what two kinds of update do to it.
Fields(a, b, c1, d, e, f, g) ==
    [location |-> a, on_char |-> b, off_char |-> c1, on_length |-> d, off_length |-> e,
     left |-> f, on |-> g]

Move(r, x, y, z) == [r EXCEPT !.location = x, !.on_char = y, !.off_char = z]
Flip(r, x, y) == [r EXCEPT !.on = x, !.left = y]

LEMMA Moved ==
  ASSUME NEW a, NEW b, NEW c1, NEW d, NEW e, NEW f, NEW g, NEW x, NEW y, NEW z
  PROVE  Move(Fields(a, b, c1, d, e, f, g), x, y, z) = Fields(x, y, z, d, e, f, g)
<1>0. PICK r : r = Fields(a, b, c1, d, e, f, g)
  OBVIOUS
<1>1. PICK s : s = [r EXCEPT !.location = x, !.on_char = y, !.off_char = z]
  OBVIOUS
<1>2. /\ s.location = x /\ s.on_char = y /\ s.off_char = z /\ s.on_length = d
      /\ s.off_length = e /\ s.left = f /\ s.on = g
  BY <1>0, <1>1 DEF Fields
<1>3. s = Fields(x, y, z, d, e, f, g)
  BY <1>0, <1>1, <1>2 DEF Fields
<1>. QED  BY <1>0, <1>1, <1>3 DEF Move

LEMMA Flipped ==
  ASSUME NEW a, NEW b, NEW c1, NEW d, NEW e, NEW f, NEW g, NEW x, NEW y
  PROVE  Flip(Fields(a, b, c1, d, e, f, g), x, y) = Fields(a, b, c1, d, e, y, x)
<1>0. PICK r : r = Fields(a, b, c1, d, e, f, g)
  OBVIOUS
<1>1. PICK s : s = [r EXCEPT !.on = x, !.left = y]
  OBVIOUS
<1>2. /\ s.location = a /\ s.on_char = b /\ s.off_char = c1 /\ s.on_length = d
      /\ s.off_length = e /\ s.left = y /\ s.on = x
  BY <1>0, <1>1 DEF Fields
<1>3. s = Fields(a, b, c1, d, e, y, x)
  BY <1>0, <1>1, <1>2 DEF Fields
<1>. QED  BY <1>0, <1>1, <1>3 DEF Flip

LEMMA SyncStep ==
  ASSUME BlinkInv, NEW source, NEW destination, mp1_ioctl_sync(source, destination)
  PROVE  BlinkInv' /\ TableStep
<1>. USE BlinkAssumption
<1>0. BlinkTypes
  BY DEF BlinkInv
<1>1. PICK L \in 0..SLOTS : \E q : Chain(q, L) /\ SyncedIn(q, L)
  BY DEF BlinkInv
<1>2. PICK q : Chain(q, L) /\ SyncedIn(q, L)
  BY <1>1
<1>3. PICK from : from = mp1_find_helper(source)
  OBVIOUS
<1>4. PICK to : to = mp1_find_helper(destination)
  OBVIOUS
<1>5. CASE from = 0 \/ to = 0
  BY <1>3, <1>4, <1>5, NothingHappens DEF mp1_ioctl_sync
<1>6. CASE ~(from = 0 \/ to = 0)
  <2>1. PICK a : a = Min(InCell(q, L, source))
    OBVIOUS
  <2>2. PICK b : b = Min(InCell(q, L, destination))
    OBVIOUS
  <2>3. a \in 1..L /\ blink_array[q[a]].location = source /\ from = q[a]
        /\ InCell(q, L, source) # {}
    <3>1. from = q[a] /\ InCell(q, L, source) # {}
      BY <1>2, <1>3, <1>6, <2>1, FindFinds
    <3>2. InCell(q, L, source) \subseteq Nat
      BY DEF InCell
    <3>3. a \in InCell(q, L, source)
      BY <2>1, <3>1, <3>2, MinIsLeast
    <3>. QED  BY <3>1, <3>3 DEF InCell
  <2>4. b \in 1..L /\ blink_array[q[b]].location = destination /\ to = q[b]
        /\ InCell(q, L, destination) # {}
    <3>1. to = q[b] /\ InCell(q, L, destination) # {}
      BY <1>2, <1>4, <1>6, <2>2, FindFinds
    <3>2. InCell(q, L, destination) \subseteq Nat
      BY DEF InCell
    <3>3. b \in InCell(q, L, destination)
      BY <2>2, <3>1, <3>2, MinIsLeast
    <3>. QED  BY <3>1, <3>3 DEF InCell
  <2>5. /\ q \in [1..L -> Slots]
        /\ \A j, k \in 1..L : q[j] = q[k] => j = k
    BY <1>2 DEF Chain, Links
  <2>6. PICK x : x = blink_array[from]
    OBVIOUS
  <2>7. PICK y : y = blink_array[to]
    OBVIOUS
  <2>8. PICK z : z = [y EXCEPT !.on_length = x.on_length, !.off_length = x.off_length,
                               !.countdown = x.countdown, !.status = x.status]
    OBVIOUS
  <2>9. x \in Struct /\ y \in Struct /\ from \in Slots /\ to \in Slots
    BY <1>0, <2>3, <2>4, <2>5, <2>6, <2>7 DEF BlinkTypes
  <2>10. /\ z \in Struct
         /\ z.location = y.location /\ z.next = y.next
         /\ z.on_char = y.on_char /\ z.off_char = y.off_char
         /\ z.on_length = x.on_length /\ z.off_length = x.off_length
         /\ z.countdown = x.countdown /\ z.status = x.status
    BY <2>8, <2>9 DEF Struct
  <2>11. /\ blink_array' = [blink_array EXCEPT
                ![to].on_length = blink_array[from].on_length,
                ![to].off_length = blink_array[from].off_length,
                ![to].countdown = blink_array[from].countdown,
                ![to].status = blink_array[from].status]
         /\ screen' = [screen EXCEPT ![y.location] = y.off_char]
         /\ synced' = {<<from, to>>}
         /\ mp1_list_head' = mp1_list_head
    BY <1>3, <1>4, <1>6, <2>7 DEF mp1_ioctl_sync, mp1_poke
  <2>12. blink_array' = [blink_array EXCEPT ![to] = z]
    BY <1>0, <2>6, <2>7, <2>8, <2>9, <2>11 DEF BlinkTypes, Struct
  <2>13. blink_array'[to] = z /\ \A s \in Slots : s # to => blink_array'[s] = blink_array[s]
    BY <1>0, <2>9, <2>12 DEF BlinkTypes
  <2>14. BlinkTypes'
    <3>1. y.location \in 0..(CELLS - 1)
      BY <1>2, <2>4, <2>7 DEF Chain
    <3>2. y.off_char \in CHARS
      BY <2>9 DEF Struct
    <3>3. screen' \in [0..(CELLS - 1) -> CHARS]
      BY <1>0, <2>11, <3>1, <3>2 DEF BlinkTypes
    <3>4. blink_array' \in [Slots -> Struct]
      BY <1>0, <2>10, <2>12 DEF BlinkTypes
    <3>. QED  BY <3>3, <3>4 DEF BlinkTypes
  <2>15. \A s \in Slots : blink_array'[s].next = blink_array[s].next
             /\ blink_array'[s].location = blink_array[s].location
    BY <2>7, <2>10, <2>13
  <2>16. Links(q, L, blink_array', mp1_list_head')
    BY <1>2, <2>5, <2>11, <2>15 DEF Chain, Links
  <2>17. Chain(q, L)'
    BY <1>2, <2>5, <2>15, <2>16 DEF Chain
  <2>18. SyncedIn(q, L)'
    <3>1. InPhase(blink_array'[from], blink_array'[to])
      <4>1. CASE from = to
        BY <4>1 DEF InPhase
      <4>2. CASE from # to
        BY <2>6, <2>9, <2>10, <2>13, <4>2 DEF InPhase
      <4>. QED  BY <4>1, <4>2
    <3>. QED  BY <2>3, <2>4, <2>11, <3>1 DEF SyncedIn
  <2>19. BlinkInv'
    BY <2>14, <2>17, <2>18 DEF BlinkInv
  <2>20. PICK t : t = Table
    OBVIOUS
  <2>21. t = [k \in 1..L |-> Blinker(blink_array[q[k]])]
    BY <1>2, <2>20, StateReads
  <2>22. Table' = [k \in 1..L |-> Blinker(blink_array'[q[k]])]
    BY <2>16, TableReads, OfTheState
  <2>23. \A k \in 1..L : k # b => Blinker(blink_array'[q[k]]) = t[k]
    BY <2>4, <2>5, <2>13, <2>21
  <2>24. Blinker(z) = [t[a] EXCEPT !.location = destination, !.on_char = t[b].on_char,
                                   !.off_char = t[b].off_char]
    <3>1. t[a] = Blinker(x) /\ t[b] = Blinker(y) /\ y.location = destination
      BY <2>3, <2>4, <2>6, <2>7, <2>21
    <3>2. Blinker(z) = [Blinker(x) EXCEPT !.location = destination,
                            !.on_char = Blinker(y).on_char, !.off_char = Blinker(y).off_char]
      <4>1. PICK e : e = (x.status = 1)
        OBVIOUS
      <4>2. Blinker(x)
            = Fields(x.location, x.on_char, x.off_char,
                     Ticks(x.on_length), Ticks(x.off_length), Ticks(x.countdown), e)
        BY <4>1, Zenon DEF Blinker, Fields
      <4>3. Blinker(z)
            = Fields(destination, y.on_char, y.off_char,
                     Ticks(x.on_length), Ticks(x.off_length), Ticks(x.countdown), e)
        BY <2>10, <3>1, <4>1, Zenon DEF Blinker, Fields
      <4>4. Blinker(y).on_char = y.on_char /\ Blinker(y).off_char = y.off_char
        BY DEF Blinker
      <4>5. Move(Blinker(x), destination, y.on_char, y.off_char)
            = Fields(destination, y.on_char, y.off_char,
                     Ticks(x.on_length), Ticks(x.off_length), Ticks(x.countdown), e)
        <5>1. Move(Fields(x.location, x.on_char, x.off_char, Ticks(x.on_length),
                          Ticks(x.off_length), Ticks(x.countdown), e),
                   destination, y.on_char, y.off_char)
              = Fields(destination, y.on_char, y.off_char,
                       Ticks(x.on_length), Ticks(x.off_length), Ticks(x.countdown), e)
          BY Moved
        <5>. QED  BY <4>2, <5>1, Zenon
      <4>. QED  BY <4>3, <4>4, <4>5, Zenon DEF Move
    <3>. QED  BY <3>1, <3>2
  <2>25. Table' = [t EXCEPT ![b] = Blinker(z)]
    BY <2>4, <2>13, <2>21, <2>22, <2>23
  <2>26. /\ Abstract!Newest(source) = a /\ source \in Abstract!Occupied
         /\ Abstract!Newest(destination) = b /\ destination \in Abstract!Occupied
    BY <1>2, <2>1, <2>2, <2>3, <2>4, NewestIs
  <2>27. t[b].off_char = y.off_char /\ y.location = destination
    BY <2>4, <2>7, <2>21 DEF Blinker
  <2>28. Abstract!Sync(source, destination)
    BY <2>11, <2>20, <2>24, <2>25, <2>26, <2>27 DEF Abstract!Sync
  <2>. QED  BY <2>19, <2>26, <2>28 DEF TableStep, Abstract!Next
<1>. QED  BY <1>5, <1>6

\* The element in slot s after a tick.
Ticked(s) ==
    IF Expires(s) THEN Toggled(blink_array[s])
    ELSE [blink_array[s] EXCEPT !.countdown = Decremented(s)]

\* The signed 16-bit countdown runs for as many ticks as Ticks says.
LEMMA Countdown ==
  ASSUME NEW s, blink_array[s] \in Struct
  PROVE  /\ Decremented(s) \in Word
         /\ Expires(s) <=> Ticks(blink_array[s].countdown) <= 1
         /\ ~Expires(s) => Ticks(Decremented(s)) = Ticks(blink_array[s].countdown) - 1
         /\ Ticks(blink_array[s].countdown) \in Nat
<1>. USE BlinkAssumption
<1>1. PICK h \in Nat : WORD = 2 * h /\ h >= 1
  OBVIOUS
<1>2. PICK n : n = blink_array[s].countdown
  OBVIOUS
<1>3. n \in 0..(WORD - 1)
  BY <1>2 DEF Struct, Word
<1>4. PICK d : d = Decremented(s)
  OBVIOUS
<1>5. d = IF n = 0 THEN WORD - 1 ELSE n - 1
  <2>1. d = (n + WORD - 1) % WORD
    BY <1>2, <1>4 DEF Decremented
  <2>2. CASE n = 0
    BY <1>3, <2>1, <2>2
  <2>3. CASE n # 0
    <3>1. n + WORD - 1 = WORD + (n - 1) /\ n - 1 \in 0..(WORD - 1)
      BY <1>3, <2>3
    <3>2. (WORD + (n - 1)) % WORD = n - 1
      BY <3>1
    <3>. QED  BY <2>1, <2>3, <3>1, <3>2
  <2>. QED  BY <2>2, <2>3
<1>6. Expires(s) <=> ~(d > 0 /\ 2 * d < WORD)
  BY <1>4 DEF Expires
<1>7. Ticks(n) = IF 0 < n /\ 2 * n <= WORD THEN n ELSE 1
  BY DEF Ticks
<1>8. Ticks(d) = IF 0 < d /\ 2 * d <= WORD THEN d ELSE 1
  BY DEF Ticks
<1>9. d \in Word
  BY <1>3, <1>5 DEF Word
<1>10. Expires(s) <=> Ticks(n) <= 1
  BY <1>1, <1>3, <1>5, <1>6, <1>7
<1>11. ~Expires(s) => Ticks(d) = Ticks(n) - 1
  BY <1>1, <1>3, <1>5, <1>6, <1>7, <1>8
<1>12. Ticks(n) \in Nat
  BY <1>3, <1>7
<1>. QED  BY <1>2, <1>4, <1>9, <1>10, <1>11, <1>12

\* A tick of an element is a tick of its blinker.
LEMMA TickOfOne ==
  ASSUME NEW s, blink_array[s] \in Struct
  PROVE  /\ Ticked(s) \in Struct
         /\ Ticked(s).location = blink_array[s].location
         /\ Ticked(s).next = blink_array[s].next
         /\ Blinker(Ticked(s)) = Abstract!After(Blinker(blink_array[s]))
         /\ Expires(s) <=> Blinker(blink_array[s]).left <= 1
         /\ Expires(s) => Shown(blink_array[s])
                = IF Blinker(Ticked(s)).on THEN Blinker(Ticked(s)).on_char
                  ELSE Blinker(Ticked(s)).off_char
<1>1. PICK x : x = blink_array[s]
  OBVIOUS
<1>2. x \in Struct
  BY <1>1
<1>3. /\ Decremented(s) \in Word
      /\ Expires(s) <=> Ticks(x.countdown) <= 1
      /\ ~Expires(s) => Ticks(Decremented(s)) = Ticks(x.countdown) - 1
      /\ Ticks(x.countdown) \in Nat
  BY <1>1, Countdown
<1>4. Blinker(x).left = Ticks(x.countdown)
  BY DEF Blinker
<1>5. Expires(s) <=> ~(Blinker(x).left > 1)
  BY <1>3, <1>4
<1>6. CASE ~Expires(s)
  <2>1. Ticked(s) = [x EXCEPT !.countdown = Decremented(s)]
    BY <1>1, <1>6 DEF Ticked
  <2>2. Abstract!After(Blinker(x)) = [Blinker(x) EXCEPT !.left = Ticks(x.countdown) - 1]
    BY <1>4, <1>5, <1>6 DEF Abstract!After
  <2>3. Ticks(Decremented(s)) = Ticks(x.countdown) - 1
    BY <1>3, <1>6
  <2>4. Blinker(Ticked(s)) = [Blinker(x) EXCEPT !.left = Ticks(Decremented(s))]
    BY <1>2, <2>1 DEF Blinker, Struct
  <2>5. Ticked(s) \in Struct /\ Ticked(s).location = x.location /\ Ticked(s).next = x.next
    BY <1>2, <1>3, <2>1 DEF Struct
  <2>. QED  BY <1>1, <1>3, <1>4, <1>6, <2>2, <2>3, <2>4, <2>5
<1>7. CASE Expires(s) /\ x.status = 1
  <2>1. Ticked(s) = [x EXCEPT !.countdown = x.off_length, !.status = 0]
    BY <1>1, <1>7 DEF Ticked, Toggled
  <2>2. Blinker(x).on = TRUE /\ Blinker(x).off_length = Ticks(x.off_length)
    BY <1>7 DEF Blinker
  <2>3. Abstract!After(Blinker(x))
        = [Blinker(x) EXCEPT !.on = FALSE, !.left = Ticks(x.off_length)]
    BY <1>5, <1>7, <2>2 DEF Abstract!After
  <2>4. Blinker(Ticked(s)) = [Blinker(x) EXCEPT !.on = FALSE, !.left = Ticks(x.off_length)]
    <3>1. PICK y : y = Ticked(s)
      OBVIOUS
    <3>2. /\ y.location = x.location /\ y.on_char = x.on_char /\ y.off_char = x.off_char
          /\ y.on_length = x.on_length /\ y.off_length = x.off_length
          /\ y.countdown = x.off_length
      BY <1>2, <2>1, <3>1 DEF Struct
    <3>3. (y.status = 1) = FALSE /\ (x.status = 1) = TRUE
      BY <1>2, <1>7, <2>1, <3>1 DEF Struct
    <3>4. Blinker(x)
          = Fields(x.location, x.on_char, x.off_char,
                   Ticks(x.on_length), Ticks(x.off_length), Ticks(x.countdown), TRUE)
      BY <3>3, Zenon DEF Blinker, Fields
    <3>5. Blinker(y)
          = Fields(x.location, x.on_char, x.off_char,
                   Ticks(x.on_length), Ticks(x.off_length), Ticks(x.off_length), FALSE)
      BY <3>2, <3>3, Zenon DEF Blinker, Fields
    <3>6. \A before, after :
              Flip(Fields(x.location, x.on_char, x.off_char, Ticks(x.on_length),
                          Ticks(x.off_length), Ticks(x.countdown), before),
                   after, Ticks(x.off_length))
              = Fields(x.location, x.on_char, x.off_char, Ticks(x.on_length),
                       Ticks(x.off_length), Ticks(x.off_length), after)
      BY Flipped
    <3>7. Flip(Blinker(x), FALSE, Ticks(x.off_length)) = Blinker(y)
      BY <3>4, <3>5, <3>6, Zenon
    <3>. QED  BY <3>1, <3>7, Zenon DEF Flip
  <2>5. Ticked(s) \in Struct /\ Ticked(s).location = x.location /\ Ticked(s).next = x.next
    BY <1>2, <2>1 DEF Struct
  <2>6. Shown(x) = x.off_char
    BY <1>7 DEF Shown
  <2>7. Blinker(Ticked(s)).on = FALSE /\ Blinker(Ticked(s)).off_char = x.off_char
    BY <2>4 DEF Blinker
  <2>. QED  BY <1>1, <1>3, <1>4, <1>7, <2>3, <2>4, <2>5, <2>6, <2>7
<1>8. CASE Expires(s) /\ x.status = 0
  <2>1. Ticked(s) = [x EXCEPT !.countdown = x.on_length, !.status = 1]
    BY <1>1, <1>8 DEF Ticked, Toggled
  <2>2. Blinker(x).on = FALSE /\ Blinker(x).on_length = Ticks(x.on_length)
    <3>1. (x.status = 1) = FALSE
      BY <1>8
    <3>. QED  BY <3>1 DEF Blinker
  <2>3. Abstract!After(Blinker(x))
        = [Blinker(x) EXCEPT !.on = TRUE, !.left = Ticks(x.on_length)]
    BY <1>5, <1>8, <2>2 DEF Abstract!After
  <2>4. Blinker(Ticked(s)) = [Blinker(x) EXCEPT !.on = TRUE, !.left = Ticks(x.on_length)]
    <3>1. PICK y : y = Ticked(s)
      OBVIOUS
    <3>2. /\ y.location = x.location /\ y.on_char = x.on_char /\ y.off_char = x.off_char
          /\ y.on_length = x.on_length /\ y.off_length = x.off_length
          /\ y.countdown = x.on_length
      BY <1>2, <2>1, <3>1 DEF Struct
    <3>3. (y.status = 1) = TRUE /\ (x.status = 1) = FALSE
      BY <1>2, <1>8, <2>1, <3>1 DEF Struct
    <3>4. Blinker(x)
          = Fields(x.location, x.on_char, x.off_char,
                   Ticks(x.on_length), Ticks(x.off_length), Ticks(x.countdown), FALSE)
      BY <3>3, Zenon DEF Blinker, Fields
    <3>5. Blinker(y)
          = Fields(x.location, x.on_char, x.off_char,
                   Ticks(x.on_length), Ticks(x.off_length), Ticks(x.on_length), TRUE)
      BY <3>2, <3>3, Zenon DEF Blinker, Fields
    <3>6. \A before, after :
              Flip(Fields(x.location, x.on_char, x.off_char, Ticks(x.on_length),
                          Ticks(x.off_length), Ticks(x.countdown), before),
                   after, Ticks(x.on_length))
              = Fields(x.location, x.on_char, x.off_char, Ticks(x.on_length),
                       Ticks(x.off_length), Ticks(x.on_length), after)
      BY Flipped
    <3>7. Flip(Blinker(x), TRUE, Ticks(x.on_length)) = Blinker(y)
      BY <3>4, <3>5, <3>6, Zenon
    <3>. QED  BY <3>1, <3>7, Zenon DEF Flip
  <2>5. Ticked(s) \in Struct /\ Ticked(s).location = x.location /\ Ticked(s).next = x.next
    BY <1>2, <2>1 DEF Struct
  <2>6. Shown(x) = x.on_char
    BY <1>8 DEF Shown
  <2>7. Blinker(Ticked(s)).on = TRUE /\ Blinker(Ticked(s)).on_char = x.on_char
    BY <1>2, <2>1 DEF Blinker, Struct
  <2>. QED  BY <1>1, <1>3, <1>4, <1>8, <2>3, <2>4, <2>5, <2>6, <2>7
<1>. QED  BY <1>2, <1>6, <1>7, <1>8 DEF Struct

\* Two elements in the same phase stay so.
LEMMA PhaseKept ==
  ASSUME NEW s, NEW r, blink_array[s] \in Struct, blink_array[r] \in Struct,
         InPhase(blink_array[s], blink_array[r])
  PROVE  InPhase(Ticked(s), Ticked(r))
<1>1. PICK x : x = blink_array[s]
  OBVIOUS
<1>2. PICK y : y = blink_array[r]
  OBVIOUS
<1>3. x \in Struct /\ y \in Struct
      /\ x.countdown = y.countdown /\ x.status = y.status
      /\ x.on_length = y.on_length /\ x.off_length = y.off_length
  BY <1>1, <1>2 DEF InPhase
<1>4. Decremented(s) = Decremented(r) /\ (Expires(s) <=> Expires(r))
  <2>1. Decremented(s) = (x.countdown + WORD - 1) % WORD
    BY <1>1 DEF Decremented
  <2>2. Decremented(r) = (y.countdown + WORD - 1) % WORD
    BY <1>2 DEF Decremented
  <2>3. Decremented(s) = Decremented(r)
    BY <1>3, <2>1, <2>2
  <2>. QED  BY <2>3 DEF Expires
<1>5. CASE ~Expires(s)
  <2>1. Ticked(s) = [x EXCEPT !.countdown = Decremented(s)]
    BY <1>1, <1>5 DEF Ticked
  <2>2. Ticked(r) = [y EXCEPT !.countdown = Decremented(s)]
    BY <1>2, <1>4, <1>5 DEF Ticked
  <2>. QED  BY <1>3, <2>1, <2>2 DEF InPhase, Struct
<1>6. CASE Expires(s) /\ x.status = 1
  <2>1. Ticked(s) = [x EXCEPT !.countdown = x.off_length, !.status = 0]
    BY <1>1, <1>6 DEF Ticked, Toggled
  <2>2. Ticked(r) = [y EXCEPT !.countdown = x.off_length, !.status = 0]
    BY <1>2, <1>3, <1>4, <1>6 DEF Ticked, Toggled
  <2>. QED  BY <1>3, <2>1, <2>2 DEF InPhase, Struct
<1>7. CASE Expires(s) /\ x.status = 0
  <2>1. Ticked(s) = [x EXCEPT !.countdown = x.on_length, !.status = 1]
    BY <1>1, <1>7 DEF Ticked, Toggled
  <2>2. Ticked(r) = [y EXCEPT !.countdown = x.on_length, !.status = 1]
    BY <1>2, <1>3, <1>4, <1>7 DEF Ticked, Toggled
  <2>. QED  BY <1>3, <2>1, <2>2 DEF InPhase, Struct
<1>. QED  BY <1>3, <1>5, <1>6, <1>7 DEF Struct

\* The greatest element moves with its set.
LEMMA ShiftedMax ==
  ASSUME NEW L \in Nat, NEW E, E \subseteq 0..(L - 1), NEW K, K \subseteq 1..L,
         \A n \in 0..(L - 1) : n \in E <=> n + 1 \in K, E # {}
  PROVE  K # {} /\ Max(E) \in E /\ Max(K) = Max(E) + 1
<1>1. L - 1 \in Nat
  <2>1. PICK n : n \in E
    OBVIOUS
  <2>2. n \in 0..(L - 1)
    BY <2>1
  <2>. QED  BY <2>2
<1>2. Max(E) \in E /\ \A n \in E : n <= Max(E)
  BY <1>1, MaxIsGreatest
<1>3. Max(E) + 1 \in K
  BY <1>2
<1>4. K \subseteq 0..L /\ K # {}
  BY <1>3
<1>5. Max(K) \in K /\ \A k \in K : k <= Max(K)
  BY <1>4, MaxIsGreatest
<1>6. \A k \in K : k - 1 \in E
  BY <1>1
<1>7. PICK x : x = Max(K)
  OBVIOUS
<1>8. PICK y : y = Max(E)
  OBVIOUS
<1>9. x \in K /\ y \in E /\ y + 1 \in K /\ x - 1 \in E
      /\ (\A n \in E : n <= y) /\ (\A k \in K : k <= x)
  BY <1>2, <1>3, <1>5, <1>6, <1>7, <1>8
<1>10. x \in Nat /\ y \in Nat /\ y + 1 <= x /\ x - 1 <= y
  BY <1>9
<1>. QED  BY <1>4, <1>7, <1>8, <1>9, <1>10

LEMMA TaskletStep ==
  ASSUME BlinkInv, mp1_rtc_tasklet PROVE BlinkInv' /\ TableStep
<1>. USE BlinkAssumption
<1>0. BlinkTypes
  BY DEF BlinkInv
<1>1. PICK L \in 0..SLOTS : \E q : Chain(q, L) /\ SyncedIn(q, L)
  BY DEF BlinkInv
<1>2. PICK q : Chain(q, L) /\ SyncedIn(q, L)
  BY <1>1
<1>3. q \in [1..L -> Slots]
  BY <1>2 DEF Chain, Links
<1>4. Steps = 0..(L - 1) /\ \A n \in 0..(L - 1) : Node[n] = q[n + 1]
  BY <1>2, StateReads
<1>5. blink_array' = [s \in Slots |->
          IF \A n \in Steps : Node[n] # s THEN blink_array[s]
          ELSE IF Expires(s) THEN Toggled(blink_array[s])
          ELSE [blink_array[s] EXCEPT !.countdown = Decremented(s)]]
      /\ mp1_list_head' = mp1_list_head /\ synced' = synced
  BY DEF mp1_rtc_tasklet
<1>6. \A k \in 1..L : k - 1 \in Steps /\ Node[k - 1] = q[k]
  BY <1>4
<1>7. \A k \in 1..L : blink_array[q[k]] \in Struct /\ blink_array'[q[k]] = Ticked(q[k])
  <2>1. ASSUME NEW k \in 1..L PROVE blink_array'[q[k]] = Ticked(q[k])
    <3>1. q[k] \in Slots /\ ~(\A n \in Steps : Node[n] # q[k])
      BY <1>3, <1>6
    <3>. QED  BY <1>5, <3>1 DEF Ticked
  <2>. QED  BY <1>0, <1>3, <2>1 DEF BlinkTypes
<1>8. \A s \in Slots : blink_array'[s] \in Struct
  <2>1. \A s \in Slots : blink_array[s] \in Struct
    BY <1>0 DEF BlinkTypes
  <2>2. \A s \in Slots : Ticked(s) \in Struct
    BY <2>1, TickOfOne
  <2>3. \A s \in Slots : blink_array'[s] = blink_array[s] \/ blink_array'[s] = Ticked(s)
    BY <1>5 DEF Ticked
  <2>. QED  BY <2>1, <2>2, <2>3
<1>9. \A k \in 1..L : /\ blink_array'[q[k]].location = blink_array[q[k]].location
                      /\ blink_array'[q[k]].next = blink_array[q[k]].next
                      /\ Blinker(blink_array'[q[k]])
                         = Abstract!After(Blinker(blink_array[q[k]]))
  BY <1>7, TickOfOne
<1>10. Links(q, L, blink_array', mp1_list_head')
  BY <1>2, <1>5, <1>9 DEF Chain, Links
<1>11. Chain(q, L)'
  <2>1. ASSUME NEW s \in Slots, \A k \in 1..L : q[k] # s
        PROVE  blink_array'[s].location = 0
    <3>1. \A n \in Steps : Node[n] # s
      <4>1. \A n \in 0..(L - 1) : n + 1 \in 1..L
        OBVIOUS
      <4>. QED  BY <1>4, <2>1, <4>1
    <3>2. blink_array'[s] = blink_array[s]
      BY <1>5, <3>1
    <3>. QED  BY <1>2, <2>1, <3>2 DEF Chain
  <2>. QED  BY <1>2, <1>9, <1>10, <2>1 DEF Chain
<1>12. SyncedIn(q, L)'
  <2>1. ASSUME NEW pair \in synced
        PROVE  \E j, k \in 1..L : pair = <<q[j], q[k]>>
                   /\ InPhase(blink_array'[q[j]], blink_array'[q[k]])
    <3>1. PICK j \in 1..L, k \in 1..L : pair = <<q[j], q[k]>>
              /\ InPhase(blink_array[q[j]], blink_array[q[k]])
      BY <1>2 DEF SyncedIn
    <3>2. InPhase(Ticked(q[j]), Ticked(q[k]))
      BY <1>7, <3>1, PhaseKept
    <3>. QED  BY <1>7, <3>1, <3>2
  <2>. QED  BY <1>5, <2>1 DEF SyncedIn
<1>13. PICK t : t = Table
  OBVIOUS
<1>14. t = [k \in 1..L |-> Blinker(blink_array[q[k]])] /\ DOMAIN t = 1..L
  BY <1>2, <1>13, StateReads
<1>15. PICK u : u = Table'
  OBVIOUS
<1>16. u = [k \in 1..L |-> Blinker(blink_array'[q[k]])]
  BY <1>10, <1>15, TableReads, OfTheState
<1>17. u = [k \in DOMAIN t |-> Abstract!After(t[k])]
  BY <1>9, <1>14, <1>16
\* What a cell shows after the tick.
<1>18. ASSUME NEW cell \in DOMAIN screen
       PROVE  LET changing == {k \in DOMAIN t : t[k].location = cell /\ t[k].left <= 1}
                  b == u[Max(changing)]
              IN  /\ screen'[cell] = IF changing = {} THEN screen[cell]
                                     ELSE IF b.on THEN b.on_char ELSE b.off_char
                  /\ screen'[cell] \in CHARS
  <2>0. PICK K : K = {k \in DOMAIN t : t[k].location = cell /\ t[k].left <= 1}
    OBVIOUS
  <2>1. PICK E : E = {n \in Steps : Expires(Node[n]) /\ blink_array[Node[n]].location = cell}
    OBVIOUS
  <2>2. screen'[cell] = IF E = {} THEN screen[cell] ELSE Shown(blink_array[Node[Max(E)]])
    BY <2>1 DEF mp1_rtc_tasklet
  <2>3. \A k \in 1..L : /\ t[k].location = blink_array[q[k]].location
                        /\ t[k].left <= 1 <=> Expires(q[k])
    <3>1. \A k \in 1..L : t[k] = Blinker(blink_array[q[k]])
      BY <1>14
    <3>2. \A k \in 1..L : Blinker(blink_array[q[k]]).location = blink_array[q[k]].location
      BY DEF Blinker
    <3>3. \A k \in 1..L : Expires(q[k]) <=> Blinker(blink_array[q[k]]).left <= 1
      BY <1>7, TickOfOne
    <3>. QED  BY <3>1, <3>2, <3>3
  <2>4. \A k \in 1..L : k \in K <=> Expires(q[k]) /\ blink_array[q[k]].location = cell
    BY <1>14, <2>0, <2>3
  <2>5. \A n \in 0..(L - 1) : n \in E <=> n + 1 \in K
    <3>1. ASSUME NEW n \in 0..(L - 1) PROVE n \in E <=> n + 1 \in K
      <4>1. n + 1 \in 1..L /\ Node[n] = q[n + 1] /\ n \in Steps
        BY <1>4
      <4>. QED  BY <2>1, <2>4, <4>1
    <3>. QED  BY <3>1
  <2>6. E \subseteq 0..(L - 1) /\ K \subseteq 1..L
    BY <1>4, <1>14, <2>0, <2>1
  <2>7. CASE E = {}
    <3>1. K = {}
      <4>1. \A k \in K : k - 1 \in 0..(L - 1) /\ (k - 1) + 1 = k
        BY <2>6
      <4>. QED  BY <2>5, <2>7, <4>1
    <3>2. screen[cell] \in CHARS
      BY <1>0 DEF BlinkTypes
    <3>. QED  BY <2>0, <2>2, <2>7, <3>1, <3>2
  <2>8. CASE E # {}
    <3>1. K # {} /\ Max(E) \in E /\ Max(K) = Max(E) + 1
      <4>1. L \in Nat
        OBVIOUS
      <4>. QED  BY <2>5, <2>6, <2>8, <4>1, ShiftedMax, Zenon
    <3>2. PICK m : m = Max(K)
      OBVIOUS
    <3>3. m \in K /\ m \in 1..L /\ Node[Max(E)] = q[m]
      <4>1. PICK n : n = Max(E)
        OBVIOUS
      <4>2. n \in 0..(L - 1) /\ n \in E /\ m = n + 1
        BY <2>6, <3>1, <3>2, <4>1
      <4>. QED  BY <1>4, <2>5, <4>1, <4>2
    <3>4. Expires(q[m]) /\ blink_array[q[m]] \in Struct
      BY <1>7, <2>4, <3>3
    <3>5. Shown(blink_array[q[m]])
          = IF Blinker(Ticked(q[m])).on THEN Blinker(Ticked(q[m])).on_char
            ELSE Blinker(Ticked(q[m])).off_char
      BY <3>4, TickOfOne
    <3>6. u[m] = Blinker(Ticked(q[m]))
      BY <1>7, <1>16, <3>3
    <3>7. Shown(blink_array[q[m]]) \in CHARS
      BY <3>4 DEF Shown, Struct
    <3>. QED  BY <2>0, <2>2, <2>8, <3>1, <3>2, <3>3, <3>5, <3>6, <3>7
  <2>. QED  BY <2>7, <2>8
<1>19. screen' = [cell \in DOMAIN screen |-> screen'[cell]]
  BY DEF mp1_rtc_tasklet
<1>20. BlinkTypes'
  <2>1. blink_array' = [s \in Slots |-> blink_array'[s]]
    BY <1>5
  <2>2. DOMAIN screen = 0..(CELLS - 1)
    BY <1>0 DEF BlinkTypes
  <2>3. \A cell \in DOMAIN screen : screen'[cell] \in CHARS
    BY <1>18
  <2>. QED  BY <1>8, <1>19, <2>1, <2>2, <2>3 DEF BlinkTypes
<1>21. BlinkInv'
  BY <1>11, <1>12, <1>20 DEF BlinkInv
<1>22. Abstract!Tick
  <2>1. \A S : Abstract!Max(S) = Max(S)
    BY DEF Abstract!Max, Max
  <2>2. screen' = [cell \in DOMAIN screen |->
            LET changing == {k \in DOMAIN t : t[k].location = cell /\ t[k].left <= 1}
                b == u[Abstract!Max(changing)]
            IN  IF changing = {} THEN screen[cell]
                ELSE IF b.on THEN b.on_char ELSE b.off_char]
    BY <1>18, <1>19, <2>1
  <2>. QED  BY <1>13, <1>15, <1>17, <2>2 DEF Abstract!Tick
<1>. QED  BY <1>21, <1>22 DEF TableStep, Abstract!Next

-----------------------------------------------------------------------------
(* The frames.                                                              *)

\* The newlines before the k-th character.
Newlines(file, k) == {j \in 1..(k - 1) : file[j] = NL}

LEMMA FirstPlace ==
  ASSUME NEW file PROVE Line(file, 1) = 0 /\ Place(file, 1) = 0
<1>1. {j \in 1..(1 - 1) : file[j] = NL} = {}
  OBVIOUS
<1>2. Line(file, 1) = 0
  BY <1>1, FS_EmptySet DEF Line
<1>3. {0} \cup {j \in 1..(1 - 1) : file[j] = NL} = {0}
  BY <1>1
<1>4. Max({0}) = 0
  BY DEF Max
<1>5. Place(file, 1) = 1 - 1 - Max({0})
  BY <1>3 DEF Place
<1>. QED  BY <1>2, <1>4, <1>5

\* Each character is one place further, and the first one of a line at its beginning.
LEMMA NextPlace ==
  ASSUME NEW file, NEW k \in Nat, k >= 1
  PROVE  /\ Line(file, k) \in Nat /\ Place(file, k) \in Nat
         /\ file[k] = NL => Line(file, k + 1) = Line(file, k) + 1 /\ Place(file, k + 1) = 0
         /\ file[k] # NL => Line(file, k + 1) = Line(file, k)
                            /\ Place(file, k + 1) = Place(file, k) + 1
<1>0. PICK A : A = Newlines(file, k)
  OBVIOUS
<1>1. PICK B : B = Newlines(file, k + 1)
  OBVIOUS
<1>2. A \subseteq 1..(k - 1) /\ B \subseteq 1..k
  BY <1>0, <1>1 DEF Newlines
<1>3. Line(file, k) = Cardinality(A) /\ Line(file, k + 1) = Cardinality(B)
  BY <1>0, <1>1 DEF Line, Newlines
<1>4. Place(file, k) = k - 1 - Max({0} \cup A) /\ Place(file, k + 1) = k - Max({0} \cup B)
  <2>1. (k + 1) - 1 = k
    OBVIOUS
  <2>. QED  BY <1>0, <1>1, <2>1 DEF Place, Newlines
<1>5. IsFiniteSet(A)
  <2>1. IsFiniteSet(1..(k - 1)) /\ A \in SUBSET (1..(k - 1))
    BY <1>2, FS_Interval
  <2>. QED  BY <2>1, FS_Subset
<1>6. Cardinality(A) \in Nat
  BY <1>5, FS_CardinalityType
<1>7. Max({0} \cup A) \in 0..(k - 1)
  <2>1. {0} \cup A \subseteq 0..(k - 1) /\ {0} \cup A # {} /\ k - 1 \in Nat
    BY <1>2
  <2>2. Max({0} \cup A) \in {0} \cup A
    BY <2>1, MaxIsGreatest
  <2>. QED  BY <2>1, <2>2
<1>8. CASE file[k] = NL
  <2>1. B = A \cup {k} /\ k \notin A
    BY <1>0, <1>1, <1>2, <1>8 DEF Newlines
  <2>2. Cardinality(B) = Cardinality(A) + 1
    BY <1>5, <2>1, FS_AddElement
  <2>3. Max({0} \cup B) = k
    <3>1. PICK M : M = {0} \cup B
      OBVIOUS
    <3>2. M \subseteq 0..k /\ M # {} /\ k \in M
      BY <1>2, <2>1, <3>1
    <3>3. Max(M) \in M /\ \A j \in M : j <= Max(M)
      BY <3>2, MaxIsGreatest
    <3>4. Max(M) \in 0..k /\ k <= Max(M)
      BY <3>2, <3>3
    <3>. QED  BY <3>1, <3>4
  <2>. QED  BY <1>3, <1>4, <1>6, <1>7, <1>8, <2>2, <2>3
<1>9. CASE file[k] # NL
  <2>1. B = A
    BY <1>0, <1>1, <1>2, <1>9 DEF Newlines
  <2>. QED  BY <1>3, <1>4, <1>6, <1>7, <1>9, <2>1
<1>. QED  BY <1>8, <1>9

\* What is read of a file that can be opened is a sequence of characters, the foreign
\* byte of an empty file included.
LEMMA ReadingsType == Readings \subseteq [Both -> {MISSING} \cup Seq(CHARS)]
<1>. SUFFICES ASSUME NEW pair \in Readings PROVE pair \in [Both -> {MISSING} \cup Seq(CHARS)]
  OBVIOUS
<1>1. PICK files \in FramePairs :
        /\ pair \in [Both -> Delivered(files[0]) \cup Delivered(files[1])]
        /\ \A f \in Both : pair[f] \in Delivered(files[f])
  BY DEF Readings
<1>2. files \in [Both -> {MISSING} \cup Seq(CHARS)]
  BY FishAssumption
<1>3. ASSUME NEW f \in Both PROVE pair[f] \in {MISSING} \cup Seq(CHARS)
  <2>1. CASE files[f] = <<>>
    <3>1. PICK byte \in FOREIGN : pair[f] = <<byte>>
      BY <1>1, <2>1 DEF Delivered
    <3>2. byte \in CHARS
      BY FishAssumption
    <3>. QED  BY <3>1, <3>2
  <2>2. CASE files[f] # <<>>
    BY <1>1, <1>2, <2>2 DEF Delivered
  <2>. QED  BY <2>1, <2>2
<1>. QED  BY <1>1, <1>3

\* While add_frames reads, a file whose line goes on is at the place that row and col say,
\* and one whose line is over at the beginning of the next; a file that has ended counts
\* as a line that is over.
FileAt(f) ==
    /\ frames[f] # MISSING
    /\ frames[f] \in Seq(CHARS) /\ off[f] \in 0..Len(frames[f])
    /\ eof[f] => c[f] = NL
    /\ c[f] # NL => /\ row = Line(frames[f], off[f] + 1)
                    /\ col = Place(frames[f], off[f] + 1)
    /\ c[f] = NL /\ ~eof[f] => /\ row + 1 = Line(frames[f], off[f] + 1)
                               /\ 0 = Place(frames[f], off[f] + 1)
ReadInv ==
    /\ program = "fish" => frames \in Readings
    /\ at \in {"start", "files"} =>
          /\ c = [f \in Both |-> "0"] /\ off = [f \in Both |-> 0]
          /\ eof = [f \in Both |-> FALSE] /\ row = 0 /\ col = 0
    /\ at = "frames" => row \in Nat /\ col \in Nat /\ \A f \in Both : FileAt(f)
    /\ program \in {"fish", "any"}

\* One read of a file that add_frames has come to: what it finds and where it leaves it.
LEMMA OneRead ==
  ASSUME NEW f \in Both, FileAt(f), row \in Nat, col \in Nat
  PROVE  LET read == Character(f) IN
         /\ read.char = NL \/ read.char \in CHARS
         /\ read.off \in 0..Len(frames[f])
         /\ read.eof => read.char = NL
         /\ read.char # NL =>
               /\ off[f] + 1 \in DOMAIN frames[f] /\ read.char = frames[f][off[f] + 1]
               /\ row = Line(frames[f], off[f] + 1) /\ col = Place(frames[f], off[f] + 1)
               /\ row = Line(frames[f], read.off + 1) /\ col + 1 = Place(frames[f], read.off + 1)
         /\ read.char = NL /\ ~read.eof =>
               row + 1 = Line(frames[f], read.off + 1) /\ 0 = Place(frames[f], read.off + 1)
<1>. DEFINE read == Character(f)
<1>0. /\ frames[f] \in Seq(CHARS) /\ off[f] \in 0..Len(frames[f])
      /\ eof[f] => c[f] = NL
      /\ c[f] # NL => /\ row = Line(frames[f], off[f] + 1)
                      /\ col = Place(frames[f], off[f] + 1)
      /\ c[f] = NL /\ ~eof[f] => /\ row + 1 = Line(frames[f], off[f] + 1)
                                 /\ 0 = Place(frames[f], off[f] + 1)
  BY DEF FileAt
<1>1. CASE c[f] = NL
  <2>1. read.char = NL /\ read.off = off[f] /\ (read.eof <=> eof[f])
    BY <1>1 DEF Character
  <2>. QED  BY <1>0, <1>1, <2>1
<1>2. CASE c[f] # NL /\ off[f] = Len(frames[f])
  <2>1. read.char = NL /\ read.off = off[f] /\ read.eof
    BY <1>2 DEF Character
  <2>. QED  BY <1>0, <1>2, <2>1
<1>3. CASE c[f] # NL /\ off[f] # Len(frames[f])
  <2>1. read.char = frames[f][off[f] + 1] /\ read.off = off[f] + 1 /\ (read.eof <=> eof[f])
    BY <1>3 DEF Character
  <2>2. PICK k : k = off[f] + 1
    OBVIOUS
  <2>3. k \in Nat /\ k >= 1 /\ k \in 1..Len(frames[f]) /\ k \in DOMAIN frames[f]
    BY <1>0, <1>3, <2>2
  <2>4. /\ frames[f][k] = NL => Line(frames[f], k + 1) = Line(frames[f], k) + 1
                                /\ Place(frames[f], k + 1) = 0
        /\ frames[f][k] # NL => Line(frames[f], k + 1) = Line(frames[f], k)
                                /\ Place(frames[f], k + 1) = Place(frames[f], k) + 1
    BY <2>3, NextPlace
  <2>5. frames[f][k] \in CHARS
    BY <1>0, <2>3
  <2>6. ~eof[f] /\ row = Line(frames[f], k) /\ col = Place(frames[f], k)
    BY <1>0, <1>3, <2>2
  <2>. QED  BY <2>1, <2>2, <2>3, <2>4, <2>5, <2>6
<1>. QED  BY <1>1, <1>2, <1>3

\* The round of add_frames keeps each file's place.
LEMMA RoundReads ==
  ASSUME ReadInv, add_frames PROVE ReadInv'
<1>0. at = "frames" /\ row \in Nat /\ col \in Nat /\ \A f \in Both : FileAt(f)
  BY DEF ReadInv, add_frames
<1>1. PICK read : read = [f \in Both |-> Character(f)]
  OBVIOUS
<1>2. /\ off' = [f \in Both |-> read[f].off]
      /\ eof' = [f \in Both |-> read[f].eof]
      /\ IF \A f \in Both : read[f].char = NL THEN RowEnd(read) ELSE Column(read)
      /\ program' = program /\ frames' = frames
  BY <1>1 DEF add_frames
<1>3. ASSUME NEW f \in Both
      PROVE  /\ read[f].off \in 0..Len(frames[f])
             /\ read[f].eof => read[f].char = NL
             /\ read[f].char # NL => row = Line(frames[f], read[f].off + 1)
                                     /\ col + 1 = Place(frames[f], read[f].off + 1)
             /\ read[f].char = NL /\ ~read[f].eof =>
                   row + 1 = Line(frames[f], read[f].off + 1)
                   /\ 0 = Place(frames[f], read[f].off + 1)
             /\ off'[f] = read[f].off /\ eof'[f] = read[f].eof
             /\ frames[f] \in Seq(CHARS) /\ frames[f] # MISSING
  <2>1. read[f] = Character(f)
    BY <1>1
  <2>2. FileAt(f)
    BY <1>0
  <2>3. frames[f] \in Seq(CHARS) /\ frames[f] # MISSING
    BY <2>2 DEF FileAt
  <2>4. off'[f] = read[f].off /\ eof'[f] = read[f].eof
    BY <1>2
  <2>. QED  BY <1>0, <2>1, <2>2, <2>3, <2>4, OneRead
<1>4. CASE \A f \in Both : read[f].char = NL
  <2>1. /\ c' = [f \in Both |-> IF read[f].eof THEN NL ELSE "0"]
        /\ at' = IF \A f \in Both : read[f].eof THEN "rate" ELSE at
        /\ row' = row + 1 /\ col' = 0
    BY <1>2, <1>4 DEF RowEnd
  <2>2. ASSUME NEW f \in Both PROVE FileAt(f)'
    <3>1. CASE read[f].eof
      <4>1. c'[f] = NL
        BY <2>1, <3>1
      <4>. QED  BY <1>2, <1>3, <3>1, <4>1 DEF FileAt
    <3>2. CASE ~read[f].eof
      <4>1. c'[f] = "0" /\ "0" # NL
        BY <2>1, <3>2 DEF NL
      <4>. QED  BY <1>2, <1>3, <1>4, <2>1, <3>2, <4>1 DEF FileAt
    <3>. QED  BY <3>1, <3>2
  <2>3. row' \in Nat /\ col' \in Nat /\ at' \notin {"start", "files"}
    BY <1>0, <2>1
  <2>. QED  BY <1>2, <2>2, <2>3 DEF ReadInv
<1>5. CASE ~(\A f \in Both : read[f].char = NL)
  <2>1. /\ c' = [f \in Both |-> read[f].char]
        /\ at' = at /\ row' = row /\ col' = col + 1
    BY <1>2, <1>5 DEF Column
  <2>2. ASSUME NEW f \in Both PROVE FileAt(f)'
    <3>1. c'[f] = read[f].char
      BY <2>1
    <3>. QED  BY <1>2, <1>3, <2>1, <3>1 DEF FileAt
  <2>3. row' \in Nat /\ col' \in Nat /\ at' = "frames"
    BY <1>0, <2>1
  <2>. QED  BY <1>2, <2>2, <2>3 DEF ReadInv
<1>. QED  BY <1>4, <1>5

\* The struct that add_frames fills for a place of the frames.
FrameBlink(read) == [Zeroed EXCEPT
    !.location = (row * COLS + col + OFFSET) % WORD,
    !.on_char = Blank(read[0].char), !.off_char = Blank(read[1].char),
    !.on_length = FRAME_LENGTH, !.off_length = FRAME_LENGTH]

\* The location of a place whose cell fits in a word is the cell.
LEMMA CellFits ==
  ASSUME NEW r \in Nat, NEW k \in Nat, Cell(<<r, k>>) < WORD, OFFSET # 0
  PROVE  LET l == (r * COLS + k + OFFSET) % WORD IN
         l \in Word /\ l # 0 /\ l = Cell(<<r, k>>)
<1>. USE BlinkAssumption
<1>0. COLS \in Nat /\ OFFSET \in Nat
  BY FishAssumption
<1>1. PICK n : n = r * COLS
  OBVIOUS
<1>2. n \in Nat
  BY <1>0, <1>1
<1>3. Cell(<<r, k>>) = OFFSET + n + k
  BY <1>1 DEF Cell
<1>4. n + k + OFFSET \in 1..(WORD - 1) /\ Cell(<<r, k>>) = n + k + OFFSET
  BY <1>0, <1>2, <1>3
<1>5. (n + k + OFFSET) % WORD = n + k + OFFSET
  BY <1>4
<1>. QED  BY <1>1, <1>4, <1>5 DEF Word

\* What add_frames gives to mp1_ioctl_add is a struct for the place's cell, not the cell 0.
LEMMA FrameBlinkIs ==
  ASSUME CellZeroUnused, ReadInv, program = "fish", at = "frames",
         NEW read, read = [f \in Both |-> Character(f)],
         ~(\A f \in Both : Blank(read[f].char) = " ")
  PROVE  /\ FrameBlink(read) \in Struct
         /\ FrameBlink(read).location = Cell(<<row, col>>)
         /\ FrameBlink(read).location # 0
         /\ FrameBlink(read).on_char = Blank(read[0].char)
         /\ FrameBlink(read).off_char = Blank(read[1].char)
<1>. USE BlinkAssumption, FishAssumption
<1>0. row \in Nat /\ col \in Nat /\ (\A f \in Both : FileAt(f)) /\ frames \in Readings
  BY DEF ReadInv
<1>4. PICK f \in Both : Blank(read[f].char) # " "
  OBVIOUS
<1>5. read[f].char # NL
  BY <1>4 DEF Blank
<1>6. /\ off[f] + 1 \in DOMAIN frames[f] /\ read[f].char = frames[f][off[f] + 1]
      /\ row = Line(frames[f], off[f] + 1) /\ col = Place(frames[f], off[f] + 1)
  <2>1. read[f] = Character(f)
    OBVIOUS
  <2>2. FileAt(f)
    BY <1>0
  <2>. QED  BY <1>0, <1>5, <2>1, <2>2, OneRead
<1>7. Cell(<<row, col>>) < WORD
  <2>1. frames[f] # MISSING => \A j \in DOMAIN frames[f] : frames[f][j] # NL =>
            Cell(<<Line(frames[f], j), Place(frames[f], j)>>) < WORD
    BY <1>0 DEF CellZeroUnused
  <2>2. frames[f] # MISSING
    BY <1>0 DEF FileAt
  <2>. QED  BY <1>5, <1>6, <2>1, <2>2
<1>8. OFFSET # 0
  BY DEF CellZeroUnused
<1>11. PICK l : l = (row * COLS + col + OFFSET) % WORD
  OBVIOUS
<1>12. l \in Word /\ l # 0 /\ l = Cell(<<row, col>>)
  BY <1>0, <1>7, <1>8, <1>11, CellFits
<1>13. \A g \in Both : Blank(read[g].char) \in CHARS
  <2>1. ASSUME NEW g \in Both PROVE Blank(read[g].char) \in CHARS
    <3>1. read[g] = Character(g) /\ FileAt(g)
      BY <1>0
    <3>2. read[g].char = NL \/ read[g].char \in CHARS
      BY <1>0, <3>1, OneRead
    <3>. QED  BY <3>2, CharsAssumption DEF Blank
  <2>. QED  BY <2>1
<1>14. PICK x : x = Blank(read[0].char)
  OBVIOUS
<1>15. PICK y : y = Blank(read[1].char)
  OBVIOUS
<1>16. x \in CHARS /\ y \in CHARS /\ FRAME_LENGTH \in Word
  BY <1>13, <1>14, <1>15 DEF Both
<1>17. FrameBlink(read) = [Zeroed EXCEPT !.location = l, !.on_char = x, !.off_char = y,
                               !.on_length = FRAME_LENGTH, !.off_length = FRAME_LENGTH]
  BY <1>11, <1>14, <1>15 DEF FrameBlink
<1>18. Zeroed \in Struct
  BY ZeroedIsStruct
<1>19. /\ FrameBlink(read) \in Struct /\ FrameBlink(read).location = l
       /\ FrameBlink(read).on_char = x /\ FrameBlink(read).off_char = y
  BY <1>12, <1>16, <1>17, <1>18 DEF Struct
<1>. QED  BY <1>12, <1>14, <1>15, <1>19

LEMMA RoundAdds ==
  ASSUME CellZeroUnused, ReadInv, BlinkInv, program = "fish", add_frames
  PROVE  BlinkInv' /\ TableStep
<1>1. PICK read : read = [f \in Both |-> Character(f)]
  OBVIOUS
<1>2. at = "frames" /\ IF \A f \in Both : read[f].char = NL THEN RowEnd(read) ELSE Column(read)
  BY <1>1 DEF add_frames
<1>3. CASE UNCHANGED blink_vars
  BY <1>3, NothingHappens
<1>4. CASE ~UNCHANGED blink_vars
  <2>1. Column(read)
    BY <1>2, <1>4 DEF RowEnd
  <2>2. ~(\A f \in Both : Blank(read[f].char) = " ") /\ mp1_ioctl_add(FrameBlink(read))
    BY <1>4, <2>1 DEF Column, FrameBlink
  <2>3. FrameBlink(read) \in Struct /\ FrameBlink(read).location # 0
    BY <1>1, <1>2, <2>2, FrameBlinkIs
  <2>. QED  BY <2>2, <2>3, AddStep
<1>. QED  BY <1>3, <1>4

\* Any other step does not read the frames.
LEMMA FramesStay ==
  ASSUME ReadInv, [FishNext]_all_vars PROVE ReadInv'
<1>. USE FishAssumption
<1>1. CASE program = "fish" /\ OpenFrames
  <2>1. program' = program /\ frames' = frames /\ frames \in Readings
        /\ at = "files" /\ UNCHANGED reading
    BY <1>1 DEF OpenFrames, ReadInv
  <2>2. /\ c' = [f \in Both |-> "0"] /\ off' = [f \in Both |-> 0]
        /\ eof' = [f \in Both |-> FALSE] /\ row' = 0 /\ col' = 0
    BY <2>1 DEF ReadInv, reading
  <2>3. CASE at' = "frames"
    <3>1. \A f \in Both : frames[f] # MISSING
      BY <1>1, <2>3 DEF OpenFrames
    <3>2. ASSUME NEW f \in Both PROVE FileAt(f)'
      <4>1. frames[f] \in Seq(CHARS)
        BY <2>1, <3>1, ReadingsType
      <4>2. c'[f] = "0" /\ off'[f] = 0 /\ eof'[f] = FALSE
        BY <2>2
      <4>3. Line(frames[f], 1) = 0 /\ Place(frames[f], 1) = 0
        BY FirstPlace
      <4>4. Len(frames[f]) \in Nat /\ "0" # NL
        BY <4>1 DEF NL
      <4>. QED  BY <2>1, <2>2, <3>1, <4>1, <4>2, <4>3, <4>4 DEF FileAt
    <3>. QED  BY <2>1, <2>2, <2>3, <3>2 DEF ReadInv
  <2>4. CASE at' # "frames"
    <3>1. at' = "done"
      BY <1>1, <2>4 DEF OpenFrames
    <3>. QED  BY <2>1, <3>1 DEF ReadInv
  <2>. QED  BY <2>3, <2>4
<1>2. CASE add_frames
  BY <1>2, RoundReads
<1>3. CASE program = "fish" /\ OpenClock
  <2>1. UNCHANGED <<program, frames, reading>> /\ at = "start" /\ at' = "files"
    BY <1>3 DEF OpenClock
  <2>. QED  BY <2>1 DEF ReadInv, reading
<1>4. CASE SetRate \/ ReadClock \/ Tick \/ Ioctl \/ Exit
  <2>1. UNCHANGED <<program, frames>> /\ at' \in {"read", "tick", "ioctl", "done"}
    BY <1>4 DEF SetRate, ReadClock, Tick, Ioctl, Exit
  <2>. QED  BY <2>1 DEF ReadInv
<1>5. CASE UNCHANGED fish_vars
  <2>1. UNCHANGED <<program, frames, at, c, off, eof, row, col>>
    BY <1>5 DEF fish_vars
  <2>. QED  BY <2>1 DEF ReadInv, FileAt
<1>. QED  BY <1>1, <1>2, <1>3, <1>4, <1>5 DEF FishNext, main, all_vars

\* Every step of the program is a step of the table, or none.
LEMMA StepsOfTheTable ==
  ASSUME CellZeroUnused, ReadInv, BlinkInv, [FishNext]_all_vars
  PROVE  BlinkInv' /\ TableStep
<1>. USE FishAssumption
<1>1. CASE program = "fish" /\ add_frames
  BY <1>1, RoundAdds
<1>2. CASE Tick
  BY <1>2, TaskletStep DEF Tick
<1>3. CASE Ioctl
  <2>1. EXTRA \in Struct /\ EXTRA.location # 0
    BY DEF CellZeroUnused
  <2>2. CASE mp1_ioctl_add(EXTRA)
    BY <2>1, <2>2, AddStep
  <2>3. CASE mp1_ioctl_sync(OFFSET, EXTRA.location)
    BY <2>3, SyncStep
  <2>4. CASE mp1_ioctl_remove(EXTRA.location)
    BY <2>4, RemoveStep
  <2>. QED  BY <1>3, <2>2, <2>3, <2>4 DEF Ioctl
<1>4. CASE mp1_ioctl
  <2>1. ASSUME NEW blink \in AnyBlinks, mp1_ioctl_add(blink) PROVE BlinkInv' /\ TableStep
    <3>1. blink \in Struct /\ blink.location # 0
      BY DEF CellZeroUnused
    <3>. QED  BY <2>1, <3>1, AddStep
  <2>2. ASSUME NEW location \in AnyLocations, mp1_ioctl_remove(location)
        PROVE  BlinkInv' /\ TableStep
    BY <2>2, RemoveStep
  <2>3. ASSUME NEW location \in AnyLocations, NEW destination \in AnyLocations,
               mp1_ioctl_sync(location, destination)
        PROVE  BlinkInv' /\ TableStep
    BY <2>3, SyncStep
  <2>. QED  BY <1>4, <2>1, <2>2, <2>3 DEF mp1_ioctl
<1>5. CASE mp1_rtc_tasklet
  BY <1>5, TaskletStep
<1>6. CASE UNCHANGED blink_vars
  BY <1>6, NothingHappens
<1>. QED  BY <1>1, <1>2, <1>3, <1>4, <1>5, <1>6
          DEF FishNext, main, OpenClock, OpenFrames, SetRate, ReadClock, Exit, all_vars

LEMMA TableBegins == FishInit => ReadInv /\ BlinkInv /\ Abstract!Init
<1>. SUFFICES ASSUME FishInit PROVE ReadInv /\ BlinkInv /\ Abstract!Init
  OBVIOUS
<1>. USE BlinkAssumption
<1>0. /\ blink_array = [s \in Slots |-> Zeroed] /\ mp1_list_head = 0 /\ synced = {}
      /\ screen = [cell \in 0..(CELLS - 1) |-> " "]
  BY DEF FishInit, BlinkInit
<1>1. ReadInv
  <2>1. program = "fish" => frames \in Readings
    BY DEF FishInit
  <2>. QED  BY <2>1 DEF FishInit, ReadInv
<1>2. PICK q : q = [k \in 1..0 |-> 1]
  OBVIOUS
<1>3. Links(q, 0, blink_array, mp1_list_head)
  <2>1. \A k \in 1..0 : FALSE
    OBVIOUS
  <2>2. q \in [1..0 -> Slots]
    BY <1>2, <2>1
  <2>. QED  BY <1>0, <2>1, <2>2 DEF Links
<1>4. Chain(q, 0) /\ SyncedIn(q, 0)
  <2>1. \A k \in 1..0 : FALSE
    OBVIOUS
  <2>2. Chain(q, 0)
    BY <1>0, <1>3, <2>1 DEF Chain, Zeroed
  <2>3. SyncedIn(q, 0)
    BY <1>0 DEF SyncedIn
  <2>. QED  BY <2>2, <2>3
<1>5. BlinkTypes
  <2>1. blink_array \in [Slots -> Struct]
    BY <1>0, ZeroedIsStruct
  <2>2. screen \in [0..(CELLS - 1) -> CHARS]
    BY <1>0, CharsAssumption
  <2>. QED  BY <2>1, <2>2 DEF BlinkTypes
<1>6. BlinkInv
  BY <1>4, <1>5 DEF BlinkInv
<1>7. Table = <<>>
  BY <1>4, StateReads
<1>. QED  BY <1>0, <1>1, <1>6, <1>7 DEF Abstract!Init

\* Blinkers that were synced toggle together until one is removed or another sync is made,
\* whatever is added, removed and freed in between: the slots of a pair stay in the list,
\* are given to nobody else, and every tick treats them alike (blink.S:49-300).
THEOREM SyncedStayTogether == CellZeroUnused => (FishSpec => []SyncedTogether)
<1>. SUFFICES ASSUME CellZeroUnused PROVE FishSpec => []SyncedTogether
  OBVIOUS
<1>1. FishInit => ReadInv /\ BlinkInv
  BY TableBegins
<1>2. ReadInv /\ BlinkInv /\ [FishNext]_all_vars => ReadInv' /\ BlinkInv'
  BY FramesStay, StepsOfTheTable
<1>3. BlinkInv => SyncedTogether
  <2>. SUFFICES ASSUME BlinkInv, NEW pair \in synced
                PROVE  InPhase(blink_array[pair[1]], blink_array[pair[2]])
    BY DEF SyncedTogether, InPhase
  <2>1. PICK L \in 0..SLOTS : \E q : Chain(q, L) /\ SyncedIn(q, L)
    BY DEF BlinkInv
  <2>. QED  BY <2>1 DEF SyncedIn
<1>. QED  BY <1>1, <1>2, <1>3, PTL DEF FishSpec

\* The linked list in blink_array implements the table of BlinkTable: allocation, unlinking
\* and the 16-bit signed countdown lose, repeat and delay no blinker, for any number of
\* slots and any calls, when none is for the cell 0 (blink.S:49-300).
THEOREM ListImplementsTable == CellZeroUnused => (FishSpec => TableImplemented)
<1>. SUFFICES ASSUME CellZeroUnused PROVE FishSpec => TableImplemented
  OBVIOUS
<1>1. FishInit => ReadInv /\ BlinkInv /\ Abstract!Init
  BY TableBegins
<1>2. ReadInv /\ BlinkInv /\ [FishNext]_all_vars => ReadInv' /\ BlinkInv'
  BY FramesStay, StepsOfTheTable
<1>3. ReadInv /\ BlinkInv /\ [FishNext]_all_vars
      => [Abstract!Next]_(Abstract!table_vars)
  <2>1. TableStep => [Abstract!Next]_(Abstract!table_vars)
    BY DEF TableStep, Abstract!table_vars
  <2>. QED  BY <2>1, StepsOfTheTable
<1>. QED  BY <1>1, <1>2, <1>3, PTL DEF FishSpec, TableImplemented, Abstract!Spec

-----------------------------------------------------------------------------
(* The frames become blinkers.                                              *)

\* The place in line r, column k comes before the one in line s, column m.
Before(r, k, s, m) == r < s \/ (r = s /\ k < m)

\* Of two characters of a file the later one has the later place.
LEMMA PlacesGrow ==
  ASSUME NEW file, NEW j \in Nat, j >= 1, NEW k \in Nat, j < k
  PROVE  /\ Before(Line(file, j), Place(file, j), Line(file, k), Place(file, k))
         /\ Line(file, j) \in Nat /\ Place(file, j) \in Nat
         /\ Line(file, k) \in Nat /\ Place(file, k) \in Nat
<1>. DEFINE I == {n \in Nat : Before(Line(file, j), Place(file, j),
                                     Line(file, j + 1 + n), Place(file, j + 1 + n))}
<1>1. \A n \in Nat : n >= 1 => Line(file, n) \in Nat /\ Place(file, n) \in Nat
  BY NextPlace
<1>2. 0 \in I
  <2>1. \/ Line(file, j + 1) = Line(file, j) + 1
        \/ Line(file, j + 1) = Line(file, j) /\ Place(file, j + 1) = Place(file, j) + 1
    BY NextPlace
  <2>2. j + 1 + 0 = j + 1
    OBVIOUS
  <2>. QED  BY <1>1, <2>1, <2>2 DEF Before
<1>3. ASSUME NEW n \in Nat, n \in I PROVE n + 1 \in I
  <2>1. PICK m : m = j + 1 + n
    OBVIOUS
  <2>2. m \in Nat /\ m >= 1 /\ j + 1 + (n + 1) = m + 1
    BY <2>1
  <2>3. Before(Line(file, j), Place(file, j), Line(file, m), Place(file, m))
    BY <1>3, <2>1
  <2>4. \/ Line(file, m + 1) = Line(file, m) + 1
        \/ Line(file, m + 1) = Line(file, m) /\ Place(file, m + 1) = Place(file, m) + 1
    BY <2>2, NextPlace
  <2>5. Line(file, j) \in Nat /\ Place(file, j) \in Nat
        /\ Line(file, m) \in Nat /\ Place(file, m) \in Nat
    BY <1>1, <2>2
  <2>6. Before(Line(file, j), Place(file, j), Line(file, m + 1), Place(file, m + 1))
    BY <2>3, <2>4, <2>5 DEF Before
  <2>. QED  BY <2>2, <2>6
<1>. HIDE DEF I
<1>4. Nat \subseteq I
  BY <1>2, <1>3, SetInduction
<1>5. PICK n \in Nat : k = j + 1 + n
  <2>1. k - (j + 1) \in Nat /\ k = j + 1 + (k - (j + 1))
    OBVIOUS
  <2>. QED  BY <2>1
<1>6. n \in I
  BY <1>4
<1>7. Before(Line(file, j), Place(file, j), Line(file, k), Place(file, k))
  BY <1>5, <1>6 DEF I
<1>. QED  BY <1>1, <1>7

\* What comes after a newline is in a later line.
LEMMA LinesGrow ==
  ASSUME NEW file, NEW j \in Nat, j >= 1, file[j] = NL, NEW k \in Nat, j < k
  PROVE  Line(file, j) + 1 <= Line(file, k)
<1>1. Line(file, j + 1) = Line(file, j) + 1 /\ Line(file, j) \in Nat
  BY NextPlace
<1>2. CASE k = j + 1
  BY <1>1, <1>2
<1>3. CASE j + 1 < k
  <2>1. Before(Line(file, j + 1), Place(file, j + 1), Line(file, k), Place(file, k))
        /\ Line(file, j + 1) \in Nat /\ Line(file, k) \in Nat
    BY <1>3, PlacesGrow
  <2>. QED  BY <1>1, <2>1 DEF Before
<1>. QED  BY <1>2, <1>3

\* What a file draws at a place: the character there, or nothing.
LEMMA AtOf ==
  ASSUME NEW file \in Seq(CHARS)
  PROVE  /\ \A k \in 1..Len(file) : file[k] # NL =>
               At(file, Line(file, k), Place(file, k)) = file[k]
         /\ \A r, m : (\A j \in 1..Len(file) : file[j] # NL =>
                          ~(Line(file, j) = r /\ Place(file, j) = m))
               => At(file, r, m) = " "
<1>0. DOMAIN file = 1..Len(file) /\ Len(file) \in Nat
  OBVIOUS
<1>1. ASSUME NEW k \in 1..Len(file), file[k] # NL
      PROVE  At(file, Line(file, k), Place(file, k)) = file[k]
  <2>1. PICK T : T = {j \in DOMAIN file : file[j] # NL /\ Line(file, j) = Line(file, k)
                                          /\ Place(file, j) = Place(file, k)}
    OBVIOUS
  <2>2. T = {k}
    <3>1. k \in T
      BY <1>0, <1>1, <2>1
    <3>2. ASSUME NEW j \in T PROVE j = k
      <4>1. j \in Nat /\ j >= 1 /\ k \in Nat /\ k >= 1
            /\ Line(file, j) = Line(file, k) /\ Place(file, j) = Place(file, k)
        BY <1>0, <2>1
      <4>2. ~(j < k)
        BY <4>1, PlacesGrow DEF Before
      <4>3. ~(k < j)
        BY <4>1, PlacesGrow DEF Before
      <4>. QED  BY <4>1, <4>2, <4>3
    <3>. QED  BY <3>1, <3>2
  <2>3. At(file, Line(file, k), Place(file, k))
        = IF T = {} THEN " " ELSE file[CHOOSE j \in T : TRUE]
    BY <2>1 DEF At
  <2>4. (CHOOSE j \in T : TRUE) = k
    BY <2>2
  <2>. QED  BY <2>2, <2>3, <2>4
<1>2. ASSUME NEW r, NEW m, \A j \in 1..Len(file) : file[j] # NL =>
                               ~(Line(file, j) = r /\ Place(file, j) = m)
      PROVE  At(file, r, m) = " "
  <2>1. PICK T : T = {j \in DOMAIN file : file[j] # NL /\ Line(file, j) = r
                                          /\ Place(file, j) = m}
    OBVIOUS
  <2>2. T = {}
    BY <1>0, <1>2, <2>1
  <2>3. At(file, r, m) = IF T = {} THEN " " ELSE file[CHOOSE j \in T : TRUE]
    BY <2>1 DEF At
  <2>. QED  BY <2>2, <2>3
<1>. QED  BY <1>1, <1>2

\* A file whose line is over has nothing more before the place that add_frames is at, and
\* one that has ended has nothing more.
FileRead(f) ==
    /\ eof[f] => off[f] = Len(frames[f])
    /\ c[f] = NL => \A j \in 1..off[f] : frames[f][j] # NL =>
          Before(Line(frames[f], j), Place(frames[f], j), row, col)

\* One read of a file, and where the other characters of the file are: the ones that were
\* read come before row and col, the others after; if the line is over, in later lines.
LEMMA LineOver ==
  ASSUME NEW f \in Both, FileAt(f), FileRead(f), row \in Nat, col \in Nat,
         NEW read, read = Character(f), read.char = NL
  PROVE  /\ read.eof => read.off = Len(frames[f])
         /\ \A j \in 1..Len(frames[f]) : frames[f][j] # NL =>
               /\ j <= read.off => Before(Line(frames[f], j), Place(frames[f], j), row, col)
               /\ j > read.off => row + 1 <= Line(frames[f], j)
<1>. DEFINE file == frames[f]
<1>0. /\ file \in Seq(CHARS) /\ off[f] \in 0..Len(file) /\ Len(file) \in Nat
      /\ eof[f] => c[f] = NL
      /\ c[f] # NL => row = Line(file, off[f] + 1) /\ col = Place(file, off[f] + 1)
      /\ c[f] = NL /\ ~eof[f] => row + 1 = Line(file, off[f] + 1)
                                 /\ 0 = Place(file, off[f] + 1)
  BY DEF FileAt
<1>1. /\ eof[f] => off[f] = Len(file)
      /\ c[f] = NL => \A j \in 1..off[f] : file[j] # NL =>
            Before(Line(file, j), Place(file, j), row, col)
  BY DEF FileRead
<1>2. PICK n : n = off[f] + 1
  OBVIOUS
<1>3. n \in Nat /\ n >= 1 /\ Line(file, n) \in Nat /\ Place(file, n) \in Nat
  <2>1. n \in Nat /\ n >= 1
    BY <1>0, <1>2
  <2>. QED  BY <2>1, NextPlace
<1>4. ASSUME c[f] # NL, NEW j \in 1..Len(file), j <= off[f]
      PROVE  Before(Line(file, j), Place(file, j), row, col)
  <2>1. j \in Nat /\ j >= 1 /\ j < n
    BY <1>0, <1>2, <1>4
  <2>2. Before(Line(file, j), Place(file, j), Line(file, n), Place(file, n))
    BY <1>3, <2>1, PlacesGrow
  <2>. QED  BY <1>0, <1>2, <1>4, <2>2
<1>5. CASE c[f] = NL
  <2>1. read.off = off[f] /\ (read.eof <=> eof[f])
    BY <1>5 DEF Character
  <2>2. ASSUME NEW j \in 1..Len(file), file[j] # NL, j > off[f]
        PROVE  row + 1 <= Line(file, j)
    <3>1. ~eof[f] /\ j \in Nat /\ (j = n \/ n < j) /\ row + 1 = Line(file, n)
      BY <1>0, <1>1, <1>2, <1>5, <2>2
    <3>2. CASE j = n
      BY <1>3, <3>1, <3>2
    <3>3. CASE n < j
      <4>1. Before(Line(file, n), Place(file, n), Line(file, j), Place(file, j))
            /\ Line(file, j) \in Nat
        BY <1>3, <3>1, <3>3, PlacesGrow
      <4>. QED  BY <1>3, <3>1, <4>1 DEF Before
    <3>. QED  BY <3>1, <3>2, <3>3
  <2>3. ASSUME NEW j \in 1..Len(file), file[j] # NL, j <= off[f]
        PROVE  Before(Line(file, j), Place(file, j), row, col)
    <3>1. j \in 1..off[f]
      BY <1>0, <2>3
    <3>. QED  BY <1>1, <1>5, <2>3, <3>1
  <2>. QED  BY <1>1, <2>1, <2>2, <2>3
<1>6. CASE c[f] # NL /\ off[f] = Len(file)
  <2>1. read.off = off[f]
    BY <1>6 DEF Character
  <2>2. \A j \in 1..Len(file) : j <= off[f] /\ ~(j > off[f])
    BY <1>0, <1>6
  <2>. QED  BY <1>4, <1>6, <2>1, <2>2
<1>7. CASE c[f] # NL /\ off[f] # Len(file)
  <2>1. read.off = n /\ read.char = file[n] /\ (read.eof <=> eof[f])
    BY <1>2, <1>7 DEF Character
  <2>2. ASSUME NEW j \in 1..Len(file), file[j] # NL, j <= n
        PROVE  Before(Line(file, j), Place(file, j), row, col)
    <3>1. j # n
      BY <2>1, <2>2
    <3>2. j <= off[f]
      BY <1>0, <1>2, <2>2, <3>1
    <3>. QED  BY <1>4, <1>7, <3>2
  <2>3. ASSUME NEW j \in 1..Len(file), j > n PROVE row + 1 <= Line(file, j)
    <3>1. j \in Nat /\ n < j
      BY <1>3, <2>3
    <3>2. Line(file, n) + 1 <= Line(file, j)
      BY <1>3, <2>1, <3>1, LinesGrow
    <3>. QED  BY <1>0, <1>2, <1>7, <3>2
  <2>4. ~read.eof
    BY <1>0, <1>7, <2>1
  <2>. QED  BY <2>1, <2>2, <2>3, <2>4
<1>. QED  BY <1>5, <1>6, <1>7

\* A character that was read is at row and col, and nothing else of the file is.
LEMMA LineGoesOn ==
  ASSUME NEW f \in Both, FileAt(f), row \in Nat, col \in Nat,
         NEW read, read = Character(f), read.char # NL
  PROVE  /\ off[f] + 1 \in 1..Len(frames[f]) /\ read.char = frames[f][off[f] + 1]
         /\ row = Line(frames[f], off[f] + 1) /\ col = Place(frames[f], off[f] + 1)
         /\ ~read.eof
<1>1. /\ off[f] + 1 \in DOMAIN frames[f] /\ read.char = frames[f][off[f] + 1]
      /\ row = Line(frames[f], off[f] + 1) /\ col = Place(frames[f], off[f] + 1)
      /\ read.eof => read.char = NL
  BY OneRead
<1>2. DOMAIN frames[f] = 1..Len(frames[f])
  BY DEF FileAt
<1>. QED  BY <1>1, <1>2

\* What a read finds is what the file draws at row and col.
LEMMA ThisPlace ==
  ASSUME NEW f \in Both, FileAt(f), FileRead(f), row \in Nat, col \in Nat,
         NEW read, read = Character(f)
  PROVE  /\ At(frames[f], row, col) = Blank(read.char)
         /\ <<row, col>> \in Drawn(frames[f]) <=> Blank(read.char) # " "
<1>0. PICK file : file = frames[f]
  OBVIOUS
<1>1. file \in Seq(CHARS) /\ DOMAIN file = 1..Len(file) /\ Len(file) \in Nat
  BY <1>0 DEF FileAt
<1>2. ASSUME <<row, col>> \in Drawn(file)
      PROVE  \E j \in 1..Len(file) : /\ file[j] \notin {NL, " "}
                                     /\ row = Line(file, j) /\ col = Place(file, j)
  <2>1. PICK j \in DOMAIN file : file[j] \notin {NL, " "}
                                 /\ <<row, col>> = <<Line(file, j), Place(file, j)>>
    BY <1>2 DEF Drawn
  <2>. QED  BY <1>1, <2>1
<1>3. CASE read.char = NL
  <2>1. ASSUME NEW j \in 1..Len(file), file[j] # NL
        PROVE  ~(Line(file, j) = row /\ Place(file, j) = col)
    <3>1. \/ Before(Line(file, j), Place(file, j), row, col)
          \/ row + 1 <= Line(file, j)
      <4>1. /\ j <= read.off => Before(Line(file, j), Place(file, j), row, col)
            /\ j > read.off => row + 1 <= Line(file, j)
        BY <1>0, <1>3, <2>1, LineOver
      <4>2. read.off \in 0..Len(file)
        BY <1>0, OneRead
      <4>3. j <= read.off \/ j > read.off
        BY <1>1, <4>2
      <4>. QED  BY <4>1, <4>3
    <3>2. j \in Nat /\ j >= 1
      BY <1>1
    <3>3. Line(file, j) \in Nat /\ Place(file, j) \in Nat
      BY <3>2, NextPlace
    <3>. QED  BY <3>1, <3>3 DEF Before
  <2>2. At(file, row, col) = " "
    BY <1>1, <2>1, AtOf
  <2>3. <<row, col>> \notin Drawn(file)
    BY <1>2, <2>1
  <2>. QED  BY <1>0, <1>3, <2>2, <2>3 DEF Blank
<1>4. CASE read.char # NL
  <2>1. PICK n : n = off[f] + 1
    OBVIOUS
  <2>2. /\ n \in 1..Len(file) /\ read.char = file[n]
        /\ row = Line(file, n) /\ col = Place(file, n)
    BY <1>0, <1>4, <2>1, LineGoesOn
  <2>3. At(file, row, col) = file[n]
    <3>1. At(file, Line(file, n), Place(file, n)) = file[n]
      BY <1>1, <1>4, <2>2, AtOf
    <3>. QED  BY <2>2, <3>1
  <2>4. ASSUME file[n] # " " PROVE <<row, col>> \in Drawn(file)
    BY <1>1, <1>4, <2>2, <2>4 DEF Drawn
  <2>5. ASSUME <<row, col>> \in Drawn(file) PROVE file[n] # " "
    <3>1. PICK j \in 1..Len(file) : /\ file[j] \notin {NL, " "}
                                    /\ row = Line(file, j) /\ col = Place(file, j)
      BY <1>2, <2>5
    <3>2. At(file, Line(file, j), Place(file, j)) = file[j]
      BY <1>1, <3>1, AtOf
    <3>. QED  BY <2>3, <3>1, <3>2
  <2>6. Blank(read.char) = file[n]
    BY <1>4, <2>2 DEF Blank
  <2>. QED  BY <1>0, <2>3, <2>4, <2>5, <2>6
<1>. QED  BY <1>3, <1>4

\* The places on the screen that come before row and col, and their blinkers.
Seen(r, k) == {p \in OnScreen(frames) : Before(p[1], p[2], r, k)}
BlinkerAt(p) == <<Cell(p), At(frames[0], p[1], p[2]), At(frames[1], p[1], p[2])>>
TableHas(V) ==
    /\ Len(Table) = Cardinality(V)
    /\ {<<b.location, b.on_char, b.off_char>> : b \in ToSet(Table)} = {BlinkerAt(p) : p \in V}

\* The place of a character is a pair of naturals.
LEMMA DrawnAre ==
  ASSUME NEW file \in Seq(CHARS), NEW p \in Drawn(file)
  PROVE  \E j \in 1..Len(file) :
            /\ file[j] # NL /\ p = <<Line(file, j), Place(file, j)>>
            /\ p[1] = Line(file, j) /\ p[2] = Place(file, j)
            /\ p[1] \in Nat /\ p[2] \in Nat /\ p = <<p[1], p[2]>>
<1>1. PICK j \in DOMAIN file : file[j] \notin {NL, " "}
                               /\ p = <<Line(file, j), Place(file, j)>>
  BY DEF Drawn
<1>2. j \in 1..Len(file) /\ j \in Nat /\ j >= 1
  OBVIOUS
<1>3. Line(file, j) \in Nat /\ Place(file, j) \in Nat
  BY <1>2, NextPlace
<1>. QED  BY <1>1, <1>2, <1>3

LEMMA DrawnFinite ==
  ASSUME NEW file \in Seq(CHARS) PROVE IsFiniteSet(Drawn(file))
<1>1. PICK D : D = {j \in DOMAIN file : file[j] \notin {NL, " "}}
  OBVIOUS
<1>2. IsFiniteSet(D)
  <2>1. Len(file) \in Int /\ DOMAIN file = 1..Len(file) /\ 1 \in Int
    OBVIOUS
  <2>2. IsFiniteSet(1..Len(file))
    BY <2>1, FS_Interval
  <2>3. D \in SUBSET (1..Len(file))
    BY <1>1, <2>1
  <2>. QED  BY <2>2, <2>3, FS_Subset
<1>3. PICK g : g = [j \in D |-> <<Line(file, j), Place(file, j)>>]
  OBVIOUS
<1>4. Drawn(file) = {<<Line(file, j), Place(file, j)>> : j \in D}
  BY <1>1 DEF Drawn
<1>5. g \in Surjection(D, Drawn(file))
  <2>1. g \in [D -> Drawn(file)]
    BY <1>3, <1>4
  <2>2. \A p \in Drawn(file) : \E j \in D : g[j] = p
    BY <1>3, <1>4
  <2>. QED  BY <2>1, <2>2 DEF Surjection
<1>. QED  BY <1>2, <1>5, FS_Surjection

LEMMA OnScreenFinite ==
  ASSUME \A f \in Both : FileAt(f)
  PROVE  IsFiniteSet(OnScreen(frames)) /\ Cardinality(OnScreen(frames)) \in Nat
<1>1. frames[0] \in Seq(CHARS) /\ frames[1] \in Seq(CHARS)
  BY DEF FileAt, Both
<1>2. IsFiniteSet(Drawn(frames[0])) /\ IsFiniteSet(Drawn(frames[1]))
  BY <1>1, DrawnFinite
<1>3. IsFiniteSet(Drawn(frames[0]) \cup Drawn(frames[1]))
  BY <1>2, FS_Union
<1>4. OnScreen(frames) \in SUBSET (Drawn(frames[0]) \cup Drawn(frames[1]))
  BY DEF OnScreen
<1>. QED  BY <1>3, <1>4, FS_Subset, FS_CardinalityType

\* What add_frames keeps while it reads.
Round(read) ==
    /\ row \in Nat /\ col \in Nat
    /\ \A f \in Both : FileAt(f) /\ FileRead(f)
    /\ read = [f \in Both |-> Character(f)]

\* A place on the screen is one that a file draws in.
LEMMA OnScreenIs ==
  ASSUME NEW read, Round(read), NEW p \in OnScreen(frames)
  PROVE  \E f \in Both : p \in Drawn(frames[f]) /\ FileAt(f) /\ FileRead(f)
                         /\ frames[f] \in Seq(CHARS) /\ read[f] = Character(f)
<1>1. PICK f \in Both : p \in Drawn(frames[f])
  BY DEF OnScreen, Both
<1>2. FileAt(f) /\ FileRead(f) /\ read[f] = Character(f)
  BY DEF Round
<1>. QED  BY <1>1, <1>2 DEF FileAt

\* At the end of a row nothing of it is left, and at the end of both files nothing at all.
LEMMA RowSeen ==
  ASSUME NEW read, Round(read), \A f \in Both : read[f].char = NL
  PROVE  /\ Seen(row + 1, 0) = Seen(row, col)
         /\ (\A f \in Both : read[f].eof) => Seen(row, col) = OnScreen(frames)
<1>0. row \in Nat /\ col \in Nat
  BY DEF Round
<1>1. ASSUME NEW p \in OnScreen(frames)
      PROVE  /\ Before(p[1], p[2], row + 1, 0) <=> Before(p[1], p[2], row, col)
             /\ (\A f \in Both : read[f].eof) => Before(p[1], p[2], row, col)
  <2>1. PICK f \in Both : p \in Drawn(frames[f]) /\ FileAt(f) /\ FileRead(f)
                          /\ frames[f] \in Seq(CHARS) /\ read[f] = Character(f)
    BY OnScreenIs
  <2>2. PICK j \in 1..Len(frames[f]) :
            /\ frames[f][j] # NL /\ p[1] = Line(frames[f], j) /\ p[2] = Place(frames[f], j)
            /\ p[1] \in Nat /\ p[2] \in Nat
    BY <2>1, DrawnAre
  <2>3. /\ read[f].eof => read[f].off = Len(frames[f])
        /\ j <= read[f].off => Before(p[1], p[2], row, col)
        /\ j > read[f].off => row + 1 <= p[1]
    <3>1. read[f].char = NL
      OBVIOUS
    <3>. QED  BY <1>0, <2>1, <2>2, <3>1, LineOver
  <2>4. read[f].off \in 0..Len(frames[f]) /\ Len(frames[f]) \in Nat
    <3>1. read[f].off \in 0..Len(frames[f])
      BY <1>0, <2>1, OneRead
    <3>. QED  BY <2>1, <3>1
  <2>5. Before(p[1], p[2], row, col) \/ (j > read[f].off /\ row + 1 <= p[1])
    BY <2>3, <2>4
  <2>6. Before(p[1], p[2], row + 1, 0) <=> Before(p[1], p[2], row, col)
    BY <1>0, <2>2, <2>5 DEF Before
  <2>7. read[f].eof => Before(p[1], p[2], row, col)
    BY <2>3, <2>4
  <2>. QED  BY <2>6, <2>7
<1>. QED  BY <1>1 DEF Seen

\* In a column the place itself is seen, if a file draws in it, and no other.
LEMMA ColumnSeen ==
  ASSUME NEW read, Round(read)
  PROVE  /\ Seen(row, col + 1) = Seen(row, col) \cup ({<<row, col>>} \cap OnScreen(frames))
         /\ <<row, col>> \notin Seen(row, col)
         /\ <<row, col>> \in OnScreen(frames) <=>
               /\ Cell(<<row, col>>) < CELLS
               /\ ~(\A f \in Both : Blank(read[f].char) = " ")
         /\ BlinkerAt(<<row, col>>)
            = <<Cell(<<row, col>>), Blank(read[0].char), Blank(read[1].char)>>
<1>0. row \in Nat /\ col \in Nat
  BY DEF Round
<1>1. ASSUME NEW f \in Both
      PROVE  /\ At(frames[f], row, col) = Blank(read[f].char)
             /\ <<row, col>> \in Drawn(frames[f]) <=> Blank(read[f].char) # " "
  <2>1. FileAt(f) /\ FileRead(f) /\ read[f] = Character(f)
    BY DEF Round
  <2>. QED  BY <1>0, <2>1, ThisPlace
<1>2. ASSUME NEW p \in OnScreen(frames)
      PROVE  Before(p[1], p[2], row, col + 1)
             <=> Before(p[1], p[2], row, col) \/ p = <<row, col>>
  <2>1. PICK f \in Both : p \in Drawn(frames[f]) /\ frames[f] \in Seq(CHARS)
    BY OnScreenIs
  <2>2. p[1] \in Nat /\ p[2] \in Nat /\ p = <<p[1], p[2]>>
    BY <2>1, DrawnAre
  <2>3. p = <<row, col>> <=> p[1] = row /\ p[2] = col
    BY <2>2
  <2>. QED  BY <1>0, <2>2, <2>3 DEF Before
<1>3. ~Before(row, col, row, col)
  BY <1>0 DEF Before
<1>4. Seen(row, col + 1) = Seen(row, col) \cup ({<<row, col>>} \cap OnScreen(frames))
  BY <1>2 DEF Seen
<1>5. <<row, col>> \notin Seen(row, col)
  BY <1>3 DEF Seen
<1>6. <<row, col>> \in OnScreen(frames) <=>
               /\ Cell(<<row, col>>) < CELLS
               /\ ~(\A f \in Both : Blank(read[f].char) = " ")
  BY <1>1 DEF OnScreen, Both
<1>7. BlinkerAt(<<row, col>>)
      = <<Cell(<<row, col>>), Blank(read[0].char), Blank(read[1].char)>>
  <2>1. At(frames[0], row, col) = Blank(read[0].char)
        /\ At(frames[1], row, col) = Blank(read[1].char)
    BY <1>1 DEF Both
  <2>2. <<row, col>>[1] = row /\ <<row, col>>[2] = col
    OBVIOUS
  <2>. QED  BY <2>1, <2>2 DEF BlinkerAt
<1>. QED  BY <1>4, <1>5, <1>6, <1>7

\* The blinkers that a table with one more in front has.
LEMMA FrontHas ==
  ASSUME NEW blink, InFront(blink), NEW V, IsFiniteSet(V), NEW p, p \notin V,
         TableHas(V), UNCHANGED frames,
         BlinkerAt(p) = <<blink.location, blink.on_char, blink.off_char>>
  PROVE  TableHas(V \cup {p})'
<1>1. PICK t : t = Table
  OBVIOUS
<1>2. PICK u : u = Table'
  OBVIOUS
<1>3. /\ Len(t) \in Nat /\ DOMAIN t = 1..Len(t)
      /\ Len(u) = Len(t) + 1 /\ DOMAIN u = 1..(Len(t) + 1)
      /\ \A k \in 1..Len(t) : u[k + 1] = t[k]
      /\ u[1].location = blink.location
      /\ u[1].on_char = blink.on_char /\ u[1].off_char = blink.off_char
  BY <1>1, <1>2 DEF InFront
<1>4. Len(u) = Cardinality(V \cup {p})
  <2>1. Len(t) = Cardinality(V)
    BY <1>1 DEF TableHas
  <2>2. Cardinality(V \cup {p}) = Cardinality(V) + 1
    BY FS_AddElement
  <2>. QED  BY <1>3, <2>1, <2>2
<1>5. ToSet(u) = ToSet(t) \cup {u[1]}
  <2>1. ASSUME NEW k \in 1..(Len(t) + 1) PROVE u[k] \in ToSet(t) \cup {u[1]}
    <3>1. CASE k = 1
      BY <3>1
    <3>2. CASE k # 1
      <4>1. k - 1 \in 1..Len(t) /\ (k - 1) + 1 = k
        BY <1>3, <3>2
      <4>2. u[k] = t[k - 1]
        BY <1>3, <4>1
      <4>. QED  BY <1>3, <4>1, <4>2 DEF ToSet
    <3>. QED  BY <3>1, <3>2
  <2>2. ASSUME NEW k \in 1..Len(t) PROVE t[k] \in ToSet(u)
    <3>1. k + 1 \in 1..(Len(t) + 1)
      BY <1>3
    <3>. QED  BY <1>3, <3>1 DEF ToSet
  <2>3. u[1] \in ToSet(u)
    <3>1. 1 \in 1..(Len(t) + 1)
      BY <1>3
    <3>. QED  BY <1>3, <3>1 DEF ToSet
  <2>. QED  BY <1>3, <2>1, <2>2, <2>3 DEF ToSet
<1>6. {<<b.location, b.on_char, b.off_char>> : b \in ToSet(t)} = {BlinkerAt(x) : x \in V}
  BY <1>1 DEF TableHas
<1>7. <<u[1].location, u[1].on_char, u[1].off_char>> = BlinkerAt(p)
  BY <1>3
<1>8. {<<b.location, b.on_char, b.off_char>> : b \in ToSet(u)}
      = {BlinkerAt(x) : x \in V \cup {p}}
  <2>1. {<<b.location, b.on_char, b.off_char>> : b \in ToSet(u)}
        = {<<b.location, b.on_char, b.off_char>> : b \in ToSet(t)}
          \cup {<<u[1].location, u[1].on_char, u[1].off_char>>}
    BY <1>5
  <2>2. {BlinkerAt(x) : x \in V \cup {p}} = {BlinkerAt(x) : x \in V} \cup {BlinkerAt(p)}
    OBVIOUS
  <2>. QED  BY <1>6, <1>7, <2>1, <2>2
<1>. QED  BY <1>2, <1>4, <1>8 DEF TableHas, BlinkerAt

\* What the program has made of the frames so far.
FramesInv ==
    /\ program # "fish" => at = "start"
    /\ program = "fish" /\ at \in {"start", "files"} => Table = <<>>
    /\ program = "fish" /\ at = "files" => open = {rtc_fd}
    /\ program = "fish" /\ at = "frames" =>
          /\ open \ Both = {rtc_fd}
          /\ \A f \in Both : FileRead(f)
          /\ TableHas(Seen(row, col))
    /\ at = "rate" => open = {rtc_fd} /\ TableHas(OnScreen(frames))

\* The table that a round of add_frames leaves.
LEMMA RoundTable ==
  ASSUME CellZeroUnused, SlotsSuffice, ReadInv, BlinkInv, program = "fish", at = "frames",
         NEW read, Round(read), Column(read), frames' = frames, TableHas(Seen(row, col))
  PROVE  TableHas(Seen(row, col))'
<1>. USE BlinkAssumption
<1>1. PICK p : p = <<row, col>>
  OBVIOUS
<1>2. PICK V : V = Seen(row, col)
  OBVIOUS
<1>0. PICK S : S = Seen(row, col + 1)
  OBVIOUS
<1>3. /\ S = V \cup ({p} \cap OnScreen(frames)) /\ p \notin V
      /\ p \in OnScreen(frames) <=> /\ Cell(p) < CELLS
                                    /\ ~(\A f \in Both : Blank(read[f].char) = " ")
      /\ BlinkerAt(p) = <<Cell(p), Blank(read[0].char), Blank(read[1].char)>>
  BY <1>0, <1>1, <1>2, ColumnSeen
<1>4. \A f \in Both : FileAt(f)
  BY DEF Round
<1>5. IsFiniteSet(OnScreen(frames)) /\ Cardinality(OnScreen(frames)) \in Nat
  BY <1>4, OnScreenFinite
<1>6. V \in SUBSET OnScreen(frames) /\ IsFiniteSet(V)
  <2>1. V \in SUBSET OnScreen(frames)
    BY <1>2 DEF Seen
  <2>. QED  BY <1>5, <2>1, FS_Subset
<1>9. Seen(row, col)' = S
  BY <1>0 DEF Column, Seen, OnScreen
<1>7. CASE \A f \in Both : Blank(read[f].char) = " "
  <2>1. UNCHANGED blink_vars
    BY <1>7 DEF Column
  <2>2. S = V
    BY <1>3, <1>7
  <2>3. Table' = Table
    BY <2>1, OfTheState DEF blink_vars
  <2>4. TableHas(V)'
    BY <1>2, <2>3 DEF TableHas, BlinkerAt
  <2>. QED  BY <1>9, <2>2, <2>4
<1>8. CASE ~(\A f \in Both : Blank(read[f].char) = " ")
  <2>1. PICK blink : blink = FrameBlink(read)
    OBVIOUS
  <2>2. mp1_ioctl_add(blink)
    BY <1>8, <2>1 DEF Column, FrameBlink
  <2>3. /\ blink \in Struct /\ blink.location = Cell(p) /\ blink.location # 0
        /\ blink.on_char = Blank(read[0].char) /\ blink.off_char = Blank(read[1].char)
    BY <1>1, <1>8, <2>1, FrameBlinkIs DEF Round
  <2>4. blink.location \in Nat
    BY <2>3 DEF Struct, Word
  <2>5. CASE Cell(p) >= CELLS
    <3>1. UNCHANGED blink_vars
      BY <2>2, <2>3, <2>5 DEF mp1_ioctl_add
    <3>5. ~(Cell(p) < CELLS)
      BY <2>3, <2>4, <2>5
    <3>2. S = V
      BY <1>3, <3>5
    <3>3. Table' = Table
      BY <3>1, OfTheState DEF blink_vars
    <3>4. TableHas(V)'
      BY <1>2, <3>3 DEF TableHas, BlinkerAt
    <3>. QED  BY <1>9, <3>2, <3>4
  <2>6. CASE Cell(p) < CELLS
    <3>1. p \in OnScreen(frames) /\ S = V \cup {p}
      BY <1>3, <1>8, <2>6
    <3>2. Cardinality(V) < Cardinality(OnScreen(frames)) /\ Cardinality(V) \in Nat
      <4>1. Cardinality(V) <= Cardinality(OnScreen(frames))
            /\ (Cardinality(OnScreen(frames)) = Cardinality(V) => OnScreen(frames) = V)
        BY <1>5, <1>6, FS_Subset
      <4>2. Cardinality(V) \in Nat
        BY <1>6, FS_CardinalityType
      <4>3. Cardinality(OnScreen(frames)) # Cardinality(V)
        BY <1>3, <3>1, <4>1
      <4>. QED  BY <1>5, <4>1, <4>2, <4>3
    <3>3. Cardinality(OnScreen(frames)) <= SLOTS
      <4>1. frames \in Readings /\ \A f \in Both : frames[f] # MISSING
        BY <1>4 DEF ReadInv, FileAt
      <4>. QED  BY <4>1 DEF SlotsSuffice
    <3>4. Len(Table) < SLOTS
      <4>1. Len(Table) = Cardinality(V)
        BY <1>2 DEF TableHas
      <4>. QED  BY <1>5, <3>2, <3>3, <4>1
    <3>5. mp1_malloc # 0
      BY <3>4, RoomLeft
    <3>6. InFront(blink)
      BY <2>2, <2>3, <2>6, <3>5, AddStep
    <3>7. BlinkerAt(p) = <<blink.location, blink.on_char, blink.off_char>>
      BY <1>3, <2>3
    <3>8. TableHas(V \cup {p})'
      BY <1>2, <1>3, <1>6, <3>6, <3>7, FrontHas
    <3>. QED  BY <1>9, <3>1, <3>8
  <2>. QED  BY <2>3, <2>4, <2>5, <2>6
<1>. QED  BY <1>7, <1>8

\* A round of add_frames makes the blinkers of the places that it leaves behind.
LEMMA RoundMakes ==
  ASSUME CellZeroUnused, SlotsSuffice, ReadInv, BlinkInv, FramesInv,
         program = "fish", add_frames
  PROVE  FramesInv'
<1>0. /\ at = "frames" /\ open \ Both = {rtc_fd} /\ TableHas(Seen(row, col))
      /\ program' = "fish" /\ frames' = frames
  BY DEF FramesInv, add_frames
<1>1. PICK read : read = [f \in Both |-> Character(f)]
  OBVIOUS
<1>2. Round(read)
  BY <1>0, <1>1 DEF FramesInv, ReadInv, Round
<1>3. row \in Nat /\ col \in Nat /\ \A f \in Both : FileAt(f) /\ FileRead(f)
                                       /\ read[f] = Character(f)
  BY <1>2 DEF Round
<1>4. /\ off' = [f \in Both |-> read[f].off]
      /\ eof' = [f \in Both |-> read[f].eof]
      /\ IF \A f \in Both : read[f].char = NL THEN RowEnd(read) ELSE Column(read)
  BY <1>1 DEF add_frames
<1>5. ASSUME NEW f \in Both
      PROVE  off'[f] = read[f].off /\ eof'[f] = read[f].eof
  BY <1>4
<1>6. ASSUME NEW f \in Both, read[f].char = NL, NEW j \in 1..read[f].off,
             frames[f][j] # NL
      PROVE  /\ Before(Line(frames[f], j), Place(frames[f], j), row, col + 1)
             /\ Before(Line(frames[f], j), Place(frames[f], j), row + 1, 0)
  <2>1. FileAt(f) /\ FileRead(f) /\ read[f] = Character(f)
    BY <1>3
  <2>2. read[f].off \in 0..Len(frames[f]) /\ Len(frames[f]) \in Nat
    <3>1. read[f].off \in 0..Len(frames[f])
      BY <1>3, <2>1, OneRead
    <3>. QED  BY <2>1, <3>1 DEF FileAt
  <2>3. j \in 1..Len(frames[f]) /\ j <= read[f].off /\ j \in Nat /\ j >= 1
    BY <2>2
  <2>4. Before(Line(frames[f], j), Place(frames[f], j), row, col)
    BY <1>3, <1>6, <2>1, <2>3, LineOver
  <2>5. Line(frames[f], j) \in Nat /\ Place(frames[f], j) \in Nat
    BY <2>3, NextPlace
  <2>. QED  BY <1>3, <2>4, <2>5 DEF Before
<1>7. ASSUME NEW f \in Both, read[f].eof
      PROVE  read[f].char = NL /\ read[f].off = Len(frames[f])
  <2>1. FileAt(f) /\ FileRead(f) /\ read[f] = Character(f)
    BY <1>3
  <2>2. read[f].char = NL
    BY <1>3, <1>7, <2>1, OneRead
  <2>. QED  BY <1>3, <1>7, <2>1, <2>2, LineOver
<1>8. CASE \A f \in Both : read[f].char = NL
  <2>1. /\ c' = [f \in Both |-> IF read[f].eof THEN NL ELSE "0"]
        /\ open' = open \ {f \in Both : read[f].eof}
        /\ at' = IF \A f \in Both : read[f].eof THEN "rate" ELSE at
        /\ row' = row + 1 /\ col' = 0 /\ UNCHANGED blink_vars
    BY <1>4, <1>8 DEF RowEnd
  <2>2. Table' = Table
    BY <2>1, OfTheState DEF blink_vars
  <2>3. /\ Seen(row + 1, 0) = Seen(row, col)
        /\ (\A f \in Both : read[f].eof) => Seen(row, col) = OnScreen(frames)
    BY <1>2, <1>8, RowSeen
  <2>4. PICK V : V = Seen(row, col)
    OBVIOUS
  <2>5. TableHas(V)'
    BY <1>0, <2>2, <2>4 DEF TableHas, BlinkerAt
  <2>6. CASE \A f \in Both : read[f].eof
    <3>1. at' = "rate" /\ open' = {rtc_fd}
      BY <1>0, <2>1, <2>6
    <3>2. OnScreen(frames)' = V
      BY <1>0, <2>3, <2>4, <2>6 DEF OnScreen
    <3>. QED  BY <1>0, <2>5, <3>1, <3>2 DEF FramesInv
  <2>7. CASE ~(\A f \in Both : read[f].eof)
    <3>1. at' = "frames" /\ open' \ Both = {rtc_fd}
      BY <1>0, <2>1, <2>7
    <3>2. Seen(row, col)' = V
      BY <1>0, <2>1, <2>3, <2>4 DEF Seen, OnScreen
    <3>3. ASSUME NEW f \in Both PROVE FileRead(f)'
      <4>1. ASSUME NEW j \in 1..read[f].off, frames[f][j] # NL
            PROVE  Before(Line(frames[f], j), Place(frames[f], j), row + 1, 0)
        BY <1>6, <1>8, <4>1
      <4>2. read[f].eof => read[f].off = Len(frames[f])
        BY <1>7
      <4>. QED  BY <1>0, <1>5, <2>1, <4>1, <4>2 DEF FileRead
    <3>. QED  BY <1>0, <2>5, <3>1, <3>2, <3>3 DEF FramesInv
  <2>. QED  BY <2>6, <2>7
<1>9. CASE ~(\A f \in Both : read[f].char = NL)
  <2>1. /\ Column(read) /\ c' = [f \in Both |-> read[f].char]
        /\ at' = "frames" /\ row' = row /\ col' = col + 1 /\ open' = open
    BY <1>0, <1>4, <1>9 DEF Column
  <2>2. TableHas(Seen(row, col))'
    BY <1>0, <1>2, <2>1, RoundTable
  <2>3. ASSUME NEW f \in Both PROVE FileRead(f)'
    <3>1. c'[f] = read[f].char
      BY <2>1
    <3>2. ASSUME read[f].char = NL, NEW j \in 1..read[f].off, frames[f][j] # NL
          PROVE  Before(Line(frames[f], j), Place(frames[f], j), row, col + 1)
      BY <1>6, <3>2
    <3>3. read[f].eof => read[f].off = Len(frames[f])
      BY <1>7
    <3>. QED  BY <1>0, <1>5, <2>1, <3>1, <3>2, <3>3 DEF FileRead
  <2>. QED  BY <1>0, <2>1, <2>2, <2>3 DEF FramesInv
<1>. QED  BY <1>8, <1>9

\* The other steps leave the frames and the table alone while the frames are read.
LEMMA FramesKept ==
  ASSUME CellZeroUnused, SlotsSuffice, ReadInv, BlinkInv, FramesInv, [FishNext]_all_vars
  PROVE  FramesInv'
<1>1. CASE program = "fish" /\ add_frames
  BY <1>1, RoundMakes
<1>2. CASE program = "fish" /\ OpenClock
  <2>1. /\ at = "start" /\ at' = "files" /\ open' = {rtc_fd}
        /\ program' = "fish" /\ UNCHANGED blink_vars
    BY <1>2 DEF OpenClock
  <2>2. Table' = Table
    BY <2>1, OfTheState DEF blink_vars
  <2>. QED  BY <1>2, <2>1, <2>2 DEF FramesInv
<1>3. CASE program = "fish" /\ OpenFrames
  <2>1. /\ at = "files" /\ program' = "fish" /\ frames' = frames
        /\ UNCHANGED reading /\ UNCHANGED blink_vars /\ Table = <<>> /\ open = {rtc_fd}
    BY <1>3 DEF OpenFrames, FramesInv
  <2>2. Table' = <<>>
    BY <2>1, OfTheState DEF blink_vars
  <2>3. CASE at' = "done"
    BY <2>1, <2>3 DEF FramesInv
  <2>4. CASE at' # "done"
    <3>1. at' = "frames" /\ open' = open \cup Both
      BY <1>3, <2>4 DEF OpenFrames
    <3>2. open' \ Both = {rtc_fd}
      BY <2>1, <3>1 DEF rtc_fd, Both
    <3>3. /\ c' = [f \in Both |-> "0"] /\ off' = [f \in Both |-> 0]
          /\ eof' = [f \in Both |-> FALSE] /\ row' = 0 /\ col' = 0
      BY <2>1 DEF ReadInv, reading
    <3>4. ASSUME NEW f \in Both PROVE FileRead(f)'
      <4>1. c'[f] = "0" /\ off'[f] = 0 /\ eof'[f] = FALSE /\ "0" # NL
        BY <3>3 DEF NL
      <4>. QED  BY <4>1 DEF FileRead
    <3>5. Seen(row, col)' = {}
      <4>1. ASSUME NEW p \in OnScreen(frames) PROVE ~Before(p[1], p[2], 0, 0)
        <5>1. PICK f \in Both : p \in Drawn(frames[f])
          BY DEF OnScreen, Both
        <5>2. frames[f] \in Seq(CHARS)
          <6>1. ReadInv' /\ at' = "frames"
            BY <3>1, FramesStay
          <6>2. frames'[f] \in Seq(CHARS)
            BY <6>1 DEF ReadInv, FileAt
          <6>. QED  BY <2>1, <6>2
        <5>3. p[1] \in Nat /\ p[2] \in Nat
          BY <5>1, <5>2, DrawnAre
        <5>. QED  BY <5>3 DEF Before
      <4>2. OnScreen(frames)' = OnScreen(frames)
        BY <2>1 DEF OnScreen
      <4>. QED  BY <3>3, <4>1, <4>2 DEF Seen
    <3>6. TableHas({})'
      <4>1. Len(<<>>) = 0 /\ DOMAIN <<>> = {}
        OBVIOUS
      <4>2. ToSet(<<>>) = {}
        BY <4>1 DEF ToSet
      <4>3. Cardinality({}) = 0
        BY FS_EmptySet
      <4>. QED  BY <2>2, <4>1, <4>2, <4>3 DEF TableHas
    <3>. QED  BY <2>1, <3>1, <3>2, <3>4, <3>5, <3>6 DEF FramesInv
  <2>. QED  BY <2>3, <2>4
<1>4. CASE program = "fish" /\ (SetRate \/ ReadClock \/ Tick \/ Ioctl \/ Exit)
  <2>1. program' = "fish" /\ at' \in {"read", "tick", "ioctl", "done"}
    BY <1>4 DEF SetRate, ReadClock, Tick, Ioctl, Exit
  <2>. QED  BY <2>1 DEF FramesInv
<1>5. CASE program = "any" /\ UNCHANGED fish_vars
  <2>1. program' = "any" /\ at' = "start"
    BY <1>5 DEF fish_vars, FramesInv
  <2>. QED  BY <2>1 DEF FramesInv
<1>6. CASE UNCHANGED fish_vars /\ UNCHANGED blink_vars
  <2>1. UNCHANGED <<program, frames, at, c, off, eof, row, col, open>>
    BY <1>6 DEF fish_vars
  <2>2. Table' = Table
    BY <1>6, OfTheState DEF blink_vars
  <2>. QED  BY <2>1, <2>2 DEF FramesInv, FileRead, TableHas, Seen, OnScreen, BlinkerAt
<1>. QED  BY <1>1, <1>2, <1>3, <1>4, <1>5, <1>6 DEF FishNext, main, all_vars

\* When both files are read there is one blinker for each place on the screen that either
\* draws in, with the characters of both, and both files are closed, whatever the files
\* hold (fish.c:98-147), if the array has the slots; of a file of no bytes one foreign
\* character is read, and drawn (filesystem.c:288).
THEOREM FramesBecomeBlinkers ==
  CellZeroUnused /\ SlotsSuffice => (FishSpec => []FramesAdded)
<1>. SUFFICES ASSUME CellZeroUnused, SlotsSuffice PROVE FishSpec => []FramesAdded
  OBVIOUS
<1>1. FishInit => ReadInv /\ BlinkInv /\ FramesInv
  <2>1. FishInit => Table = <<>>
    BY TableBegins DEF Abstract!Init
  <2>2. FishInit => FramesInv
    BY <2>1 DEF FishInit, FramesInv
  <2>. QED  BY <2>2, TableBegins
<1>2. ReadInv /\ BlinkInv /\ FramesInv /\ [FishNext]_all_vars
      => ReadInv' /\ BlinkInv' /\ FramesInv'
  BY FramesStay, StepsOfTheTable, FramesKept
<1>3. FramesInv => FramesAdded
  BY DEF FramesInv, FramesAdded, TableHas, BlinkerAt
<1>. QED  BY <1>1, <1>2, <1>3, PTL DEF FishSpec
=============================================================================
