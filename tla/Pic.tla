--------------------------------- MODULE Pic ---------------------------------
(* The two cascaded 8259 interrupt controllers (i8259.c) and the handlers   *)
(* that must tell them when they are done: PIT_handler, keyboard_handler    *)
(* and rtc_handler, through the wrappers of interrupt_helper.S.  A handler  *)
(* runs with interrupts off, but requests arrive all the time.  Lines 0 to  *)
(* 7 are the master's, 8 to 15 the slave's, which hangs on master line 2.   *)
EXTENDS Integers

CONSTANTS
    PrefixCodes     \* may the keyboard send a scancode above 0xD8, as the cursor keys do first?

ASSUME PicAssumption == PrefixCodes \in BOOLEAN

PIT_IRQ == 0
KEYBOARD_IRQ_LINE == 1
CASCADE == 2
RTC_IRQ == 8
Devices == {PIT_IRQ, KEYBOARD_IRQ_LINE, RTC_IRQ}
Lines == 0..15
None == -1

Stages == {"reset", "i8259_init", "rtc_init", "keyboard_init", "init_PIT"}

VARIABLES
    stage,      \* the last step of the kernel's set-up that is done
    mask,       \* the lines masked
    irr,        \* the lines with a request that has not been accepted
    isr,        \* the lines in service, on either chip
    running,    \* the line whose handler has the CPU, or None
    int_on,     \* the CPU's interrupt flag
    done,       \* has the running handler done all but leave?
    dropped     \* history: has a key's interrupt been left without an EOI?

pic_vars == <<stage, mask, irr, isr, running, int_on, done, dropped>>

\* Only the three devices ask and are served, through line 2 for the clock.
PicTypeOK ==
    /\ stage \in Stages
    /\ mask \subseteq Lines
    /\ irr \subseteq Devices
    /\ isr \subseteq Devices \cup {CASCADE}
    /\ running \in Devices \cup {None}
    /\ int_on \in BOOLEAN
    /\ done \in BOOLEAN
    /\ dropped \in BOOLEAN

\* entry() starts with interrupts off.
PicInit ==
    /\ stage = "reset"
    /\ mask = {} /\ irr = {} /\ isr = {}
    /\ running = None
    /\ int_on = FALSE
    /\ done = FALSE
    /\ dropped = FALSE

-----------------------------------------------------------------------------
(* i8259.c                                                                  *)

enable_irq(masked, irq_num) == masked \ {irq_num}

\* The masks that i8259_init leaves.
InitialMask == enable_irq(Lines, CASCADE)

\* Mutant: the master is not told of an interrupt that came through the slave.
EoiToOneChip(irq_num) == {irq_num}

\* The in-service bits that send_eoi clears.
EoiClears(irq_num) == IF irq_num < 8 THEN {irq_num} ELSE {irq_num, CASCADE}

send_eoi(irq_num) == isr' = isr \ EoiClears(irq_num)

-----------------------------------------------------------------------------
(* The chips (external) and the CPU.                                        *)

\* A device asks again only once its handler has answered it: the timer's period is
\* longer than PIT_handler, the keyboard waits until its port is read, the clock
\* until register C is.
Raise(l) ==
    /\ stage # "reset"
    /\ l \notin irr
    /\ running = l => done
    /\ irr' = irr \cup {l}
    /\ UNCHANGED <<stage, mask, isr, running, int_on, done, dropped>>

\* ICW3: the slave's requests come in on line 2 of the master.
MasterLine(l) == IF l < 8 THEN l ELSE CASCADE

\* Fully nested: a line in service holds back itself and all lower priorities.
Eligible(l) ==
    /\ l \in irr \ mask
    /\ MasterLine(l) \notin mask
    /\ \A k \in isr :
          IF k < 8 THEN MasterLine(l) < k ELSE l < 8 \/ l < k

\* The gate turns interrupts off.
Accept(l) ==
    /\ int_on /\ running = None
    /\ Eligible(l)
    /\ \A k \in Devices : Eligible(k) => MasterLine(l) <= MasterLine(k)
    /\ irr' = irr \ {l}
    /\ isr' = isr \cup {l, MasterLine(l)}
    /\ running' = l
    /\ int_on' = FALSE
    /\ UNCHANGED <<stage, mask, done, dropped>>

-----------------------------------------------------------------------------
(* Set-up, in the order of entry(); init_PIT turns interrupts on.           *)

i8259_init ==
    /\ stage = "reset"
    /\ stage' = "i8259_init"
    /\ mask' = InitialMask
    /\ irr' = {} /\ isr' = {}
    /\ UNCHANGED <<running, int_on, done, dropped>>

rtc_init ==
    /\ stage = "i8259_init"
    /\ stage' = "rtc_init"
    /\ mask' = enable_irq(mask, RTC_IRQ)
    /\ UNCHANGED <<irr, isr, running, int_on, done, dropped>>

keyboard_init ==
    /\ stage = "rtc_init"
    /\ stage' = "keyboard_init"
    /\ mask' = enable_irq(mask, KEYBOARD_IRQ_LINE)
    /\ UNCHANGED <<irr, isr, running, int_on, done, dropped>>

init_PIT ==
    /\ stage = "keyboard_init"
    /\ stage' = "init_PIT"
    /\ mask' = enable_irq(mask, PIT_IRQ)
    /\ int_on' = TRUE
    /\ UNCHANGED <<irr, isr, running, done, dropped>>

SetUp == i8259_init \/ rtc_init \/ keyboard_init \/ init_PIT

-----------------------------------------------------------------------------
(* The handlers.                                                            *)

\* The body of the handler of line l, up to the point where nothing of it is left
\* but to leave.
Handle(l) ==
    /\ running = l
    /\ ~done
    /\ done' = TRUE
    /\ UNCHANGED <<stage, mask, irr, running, int_on>>

\* Mutant: the EOI is left to the frame that schedule() switches away from.
TickUnacknowledged ==
    /\ Handle(PIT_IRQ)
    /\ UNCHANGED <<isr, dropped>>

\* send_eoi comes before schedule(), which does not come back.
PIT_handler ==
    /\ Handle(PIT_IRQ)
    /\ send_eoi(PIT_IRQ)
    /\ UNCHANGED dropped

\* Mutant: when a key ends a program, the EOI comes after the sys_halt that never returns.
KeyUnacknowledged ==
    /\ Handle(KEYBOARD_IRQ_LINE)
    /\ send_eoi(KEYBOARD_IRQ_LINE) \/ UNCHANGED isr
    /\ UNCHANGED dropped

\* Any scancode up to 0xD8: the EOI comes before the sys_halt of Ctrl+C.
Key ==
    /\ Handle(KEYBOARD_IRQ_LINE)
    /\ send_eoi(KEYBOARD_IRQ_LINE)
    /\ UNCHANGED dropped

\* The early return for larger scancodes skips the EOI.
PrefixCode ==
    /\ PrefixCodes
    /\ Handle(KEYBOARD_IRQ_LINE)
    /\ dropped' = TRUE
    /\ UNCHANGED isr

rtc_handler ==
    /\ Handle(RTC_IRQ)
    /\ send_eoi(RTC_IRQ)
    /\ UNCHANGED dropped

\* The end of a wrapper, or the iret or jump by which schedule(), sys_execute or
\* sys_halt leaves a handler for good: interrupts are on again.
Leave ==
    /\ done
    /\ done' = FALSE
    /\ running' = None
    /\ int_on' = TRUE
    /\ UNCHANGED <<stage, mask, irr, isr, dropped>>

Handler == PIT_handler \/ Key \/ PrefixCode \/ rtc_handler \/ Leave

\* A system call's cli and sti (terminal_write, sys_execute, rtc_write).
cli ==
    /\ stage = "init_PIT"
    /\ running = None
    /\ int_on
    /\ int_on' = FALSE
    /\ UNCHANGED <<stage, mask, irr, isr, running, done, dropped>>

sti ==
    /\ stage = "init_PIT"
    /\ running = None
    /\ ~int_on
    /\ int_on' = TRUE
    /\ UNCHANGED <<stage, mask, irr, isr, running, done, dropped>>

PicNext ==
    \/ SetUp
    \/ \E l \in Devices : Raise(l) \/ Accept(l)
    \/ Handler
    \/ cli
    \/ sti

PicSpec == PicInit /\ [][PicNext]_pic_vars

\* Set-up, handlers and critical sections end, and the CPU accepts a request that it
\* finds again and again with interrupts on.
FairSpec ==
    /\ PicSpec
    /\ WF_pic_vars(SetUp)
    /\ WF_pic_vars(Handler)
    /\ WF_pic_vars(sti)
    /\ \A l \in Devices : SF_pic_vars(Accept(l))

-----------------------------------------------------------------------------
(* Properties.                                                              *)

\* Between handlers nothing is in service, and in a handler only what it serves: its
\* send_eoi names the right bits of both chips (i8259.c:129-144).  The one exception
\* is the keyboard's line after the early return of keyboard.c:66.
InServiceMatches ==
    LET served == IF running = None \/ done THEN {} ELSE {running, MasterLine(running)}
    IN  /\ served \subseteq isr
        /\ isr \subseteq served \cup (IF dropped THEN {KEYBOARD_IRQ_LINE} ELSE {})

\* Every tick of the timer gets to PIT_handler, whatever the keyboard sends and
\* whichever request was never acknowledged: scheduling cannot be starved.
TimerServed == (PIT_IRQ \in irr) ~> (running = PIT_IRQ)

\* Interrupts are on and nothing more urgent than line l is waiting.
Calm(l) ==
    /\ running = None
    /\ int_on
    /\ \A k \in irr : MasterLine(l) <= MasterLine(k)

\* Keys and clock interrupts get to their handlers, too, those that came while the
\* kernel was setting up included, as long as every key has been acknowledged and
\* more urgent devices leave the CPU some time.
RequestsServed ==
    \A l \in Devices :
        ([]<>Calm(l)) => ((l \in irr) ~> (running = l \/ dropped))

\* The inductive invariant of the proof: interrupts are off and no handler runs until
\* set-up is over, and only a running handler can be about to leave.
PicInv ==
    /\ PicTypeOK
    /\ InServiceMatches
    /\ running = None => ~done
    /\ stage # "init_PIT" => running = None /\ ~int_on
=============================================================================
