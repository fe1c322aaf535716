-------------------------------- MODULE Video --------------------------------
(* Video memory: the display page at 0xB8000, one backing page per          *)
(* terminal behind it, the kernel's output (putc, clear in lib.c), the      *)
(* switch of the display (switch_terminals in terminal.c) and the page that *)
(* user programs reach at 132 MB (paging.c).  A page is abstracted to the   *)
(* last thing written on it: by which terminal's process, and what.         *)
EXTENDS Integers

CONSTANTS
    MAX_TERMINALS,      \* 3 in the code
    Glyphs,             \* what can be written
    Blank,              \* what clear leaves
    SwitchWhileDrawing, \* may the display change while a program that uses vidmap has the CPU?
    VidmapInBackground, \* may a program call vidmap while its terminal is not displayed?
    FaultInBackground   \* may a program fault while its terminal is not displayed?

Terms == 0..(MAX_TERMINALS - 1)

ASSUME VideoAssumption ==
    /\ MAX_TERMINALS \in Nat \ {0}
    /\ Blank \notin Terms \X Glyphs
    /\ SwitchWhileDrawing \in BOOLEAN
    /\ VidmapInBackground \in BOOLEAN
    /\ FaultInBackground \in BOOLEAN

VARIABLES
    curr_term,          \* the terminal on display
    scheduled_process,  \* the terminal whose process has the CPU
    page,               \* page 0 is the display, page t + 1 the backing page of terminal t
    vidmap_page,        \* the page mapped at 132 MB
    drawing             \* has the process of each terminal called vidmap?

vars == <<curr_term, scheduled_process, page, vidmap_page, drawing>>

Pages == 0..MAX_TERMINALS
Contents == (Terms \X Glyphs) \cup {Blank}

\* Only the display and the backing pages are ever mapped or written.
TypeOK ==
    /\ curr_term \in Terms
    /\ scheduled_process \in Terms
    /\ page \in [Pages -> Contents]
    /\ vidmap_page \in Pages
    /\ drawing \in [Terms -> BOOLEAN]

\* initial_boot and the first scheduling_vidmap.
Init ==
    /\ curr_term = 0
    /\ scheduled_process = 0
    /\ page = [k \in Pages |-> Blank]
    /\ vidmap_page = 0
    /\ drawing = [t \in Terms |-> FALSE]

\* Mutant: everything goes to the display.
PlaceOnDisplay(t) == 0

\* Where the output of terminal t belongs.
Place(t) == IF t = curr_term THEN 0 ELSE t + 1

-----------------------------------------------------------------------------

\* putc and vert_scroll, for terminal_write and for the echo of a key.
putc(t, c) ==
    /\ page' = [page EXCEPT ![Place(t)] = <<t, c>>]
    /\ UNCHANGED <<curr_term, scheduled_process, vidmap_page, drawing>>

terminal_write(c) == putc(scheduled_process, c)
Echo(c) == putc(curr_term, c)

\* clear() erases the display, then printf and putc fill it for the displayed terminal.
clear(left) == page' = [page EXCEPT ![0] = left]

\* Ctrl+L: the prompt, if a shell runs anywhere, and the line typed so far.
CtrlL ==
    /\ \E left \in {Blank} \cup ({curr_term} \X Glyphs) : clear(left)
    /\ UNCHANGED <<curr_term, scheduled_process, vidmap_page, drawing>>

(* handle_exception clears the display and prints there what it knows of the  *)
(* fault, whichever terminal's process has faulted.  Then it halts the        *)
(* process, or stays in its loop with interrupts off: nothing follows that.   *)
handle_exception(c) ==
    /\ FaultInBackground \/ scheduled_process = curr_term
    /\ clear(<<scheduled_process, c>>)
    /\ drawing' = [drawing EXCEPT ![scheduled_process] = FALSE]
    /\ UNCHANGED <<curr_term, scheduled_process, vidmap_page>>

\* Mutant: the outgoing screen is not saved.
PagesNotSaved(next) == [page EXCEPT ![0] = page[next + 1]]

\* The two copies of switch_terminals.
PagesSwitched(next) == [page EXCEPT ![curr_term + 1] = page[0], ![0] = page[next + 1]]

switch_terminals(next) ==
    /\ next # curr_term
    /\ SwitchWhileDrawing \/ ~drawing[scheduled_process]
    /\ page' = PagesSwitched(next)
    /\ curr_term' = next
    /\ UNCHANGED <<scheduled_process, vidmap_page, drawing>>

\* Mutant: the mapping of the process that has just lost the CPU.
MappingOfOld(next) == Place(scheduled_process)

\* scheduling_vidmap(next, curr_term).
scheduling_vidmap(next) == Place(next)

\* schedule(), booting and switching.
schedule ==
    LET next == (scheduled_process + 1) % MAX_TERMINALS
    IN  /\ scheduled_process' = next
        /\ vidmap_page' = scheduling_vidmap(next)
        /\ UNCHANGED <<curr_term, page, drawing>>

\* sys_vidmap, and map_vidmem: the display, whoever calls.
sys_vidmap ==
    /\ VidmapInBackground \/ scheduled_process = curr_term
    /\ vidmap_page' = 0
    /\ drawing' = [drawing EXCEPT ![scheduled_process] = TRUE]
    /\ UNCHANGED <<curr_term, scheduled_process, page>>

\* The program writes through its mapping.
Draw(c) ==
    /\ drawing[scheduled_process]
    /\ page' = [page EXCEPT ![vidmap_page] = <<scheduled_process, c>>]
    /\ UNCHANGED <<curr_term, scheduled_process, vidmap_page, drawing>>

\* The program ends; the mapping is not touched.
Halt ==
    /\ drawing' = [drawing EXCEPT ![scheduled_process] = FALSE]
    /\ UNCHANGED <<curr_term, scheduled_process, page, vidmap_page>>

Next ==
    \/ \E c \in Glyphs : terminal_write(c) \/ Echo(c) \/ Draw(c) \/ handle_exception(c)
    \/ CtrlL
    \/ \E next \in Terms : switch_terminals(next)
    \/ schedule
    \/ sys_vidmap
    \/ Halt

Spec == Init /\ [][Next]_vars

-----------------------------------------------------------------------------
(* Properties.                                                              *)

\* What the user of terminal t sees, now or when t is next displayed.
Shows(t) == page[Place(t)]

\* Every terminal shows only what its own processes and its own keyboard wrote, and
\* what was said of its own processes' faults (lib.c:187-194, terminal.c:116-122,
\* paging.c:162-173, exceptions.c:38-54).
OwnScreens == \A t \in Terms : Shows(t) = Blank \/ Shows(t)[1] = t

\* Changing the display changes no terminal's screen: nothing is lost in the copies
\* and nothing appears on another terminal (terminal.c:116-125).
SwitchKeepsScreens ==
    [][curr_term' # curr_term =>
          \A t \in Terms : page'[IF t = curr_term' THEN 0 ELSE t + 1] = Shows(t)]_vars

\* A program that draws has its own screen mapped (schedule.c:175-177).
MappedToOwnScreen == drawing[scheduled_process] => vidmap_page = Place(scheduled_process)

\* The inductive invariant of the proof.
VideoInv == TypeOK /\ OwnScreens /\ MappedToOwnScreen

\* The environment under which screens are kept apart.
Disciplined == ~SwitchWhileDrawing /\ ~VidmapInBackground /\ ~FaultInBackground
=============================================================================
