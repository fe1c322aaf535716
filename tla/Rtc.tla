--------------------------------- MODULE Rtc ---------------------------------
(* The real-time clock driver (rtc.c): one hardware rate and one interrupt  *)
(* flag shared by all processes.  rtc_read runs with interrupts on, so its  *)
(* reset of the flag and the exit of its busy wait are separate steps; the  *)
(* register accesses of set_rtcFrequency are a critical section.            *)
EXTENDS Integers

CONSTANTS
    Procs,          \* the processes that use the device
    Frequencies     \* what they write to it

ASSUME RtcAssumption == Frequencies \subseteq Int

VARIABLES
    rate,                       \* the low half of register A
    divider,                    \* the high half: "kept" as the BIOS set it, or "changed"
    reg_c,                      \* 1 while an interrupt has not been acknowledged
    rtc_interrupt_occurred,
    pc,                         \* "user", or "wait" in rtc_read's loop
    ret,                        \* what each process's last call returned
    ticked                      \* has an interrupt come since the call? (history)

vars == <<rate, divider, reg_c, rtc_interrupt_occurred, pc, ret, ticked>>
device == <<rate, divider, reg_c>>

\* The rate fits the low half of register A, and calls return 0 or -1 (rtc.c:90-140).
TypeOK ==
    /\ rate \in 0..15
    /\ divider \in {"kept", "changed"}
    /\ reg_c \in {0, 1}
    /\ rtc_interrupt_occurred \in {0, 1}
    /\ pc \in [Procs -> {"user", "wait"}]
    /\ ret \in [Procs -> {-1, 0}]
    /\ ticked \in [Procs -> BOOLEAN]

\* rtc_init: 2 Hz, register C read once.
Init ==
    /\ rate = 15
    /\ divider = "kept"
    /\ reg_c = 0
    /\ rtc_interrupt_occurred = 0
    /\ pc = [p \in Procs |-> "user"]
    /\ ret = [p \in Procs |-> 0]
    /\ ticked = [p \in Procs |-> FALSE]

\* The table of set_rtcFrequency: the rate r gives 32768 >> (r - 1) interrupts a second.
RateOf(frequency) == {r \in 6..15 : 2^(16 - r) = frequency}

\* A frequency between 2 and 1024 that is not in the table leaves the local variable
\* "rate" uninitialised: any bits may be or'ed into register A.
set_rtcFrequency(frequency) ==
    IF RateOf(frequency) # {}
    THEN rate' \in RateOf(frequency) /\ UNCHANGED divider
    ELSE rate' \in 0..15 /\ divider' \in {divider, "changed"}

rtc_open(p) ==
    /\ pc[p] = "user"
    /\ set_rtcFrequency(2)
    /\ ret' = [ret EXCEPT ![p] = 0]
    /\ UNCHANGED <<reg_c, rtc_interrupt_occurred, pc, ticked>>

rtc_write(p, frequency) ==
    /\ pc[p] = "user"
    /\ IF frequency < 2 \/ frequency > 1024
       THEN ret' = [ret EXCEPT ![p] = -1] /\ UNCHANGED <<rate, divider>>
       ELSE ret' = [ret EXCEPT ![p] = 0] /\ set_rtcFrequency(frequency)
    /\ UNCHANGED <<reg_c, rtc_interrupt_occurred, pc, ticked>>

\* Mutant: the flag of an earlier interrupt is not reset.
ReadWithoutReset(p) ==
    /\ pc[p] = "user"
    /\ pc' = [pc EXCEPT ![p] = "wait"]
    /\ ticked' = [ticked EXCEPT ![p] = FALSE]
    /\ UNCHANGED <<device, rtc_interrupt_occurred, ret>>

rtc_read(p) ==
    /\ pc[p] = "user"
    /\ pc' = [pc EXCEPT ![p] = "wait"]
    /\ rtc_interrupt_occurred' = 0
    /\ ticked' = [ticked EXCEPT ![p] = FALSE]
    /\ UNCHANGED <<device, ret>>

\* The loop sees the flag and the read returns.
ReadReturns(p) ==
    /\ pc[p] = "wait"
    /\ rtc_interrupt_occurred = 1
    /\ pc' = [pc EXCEPT ![p] = "user"]
    /\ ret' = [ret EXCEPT ![p] = 0]
    /\ UNCHANGED <<device, rtc_interrupt_occurred, ticked>>

\* Rate 0 and any divider but the BIOS's stop the device.
Running == rate # 0 /\ divider = "kept"

\* Mutant: register C is not read, so the device stays silent.
HandlerNoAcknowledge ==
    /\ Running
    /\ reg_c = 0
    /\ reg_c' = 1
    /\ rtc_interrupt_occurred' = 1
    /\ ticked' = [p \in Procs |-> TRUE]
    /\ UNCHANGED <<rate, divider, pc, ret>>

\* The device interrupts while it runs, and only when register C has been read since
\* the last time; the handler reads it.
rtc_handler ==
    /\ Running
    /\ reg_c = 0
    /\ reg_c' = 0
    /\ rtc_interrupt_occurred' = 1
    /\ ticked' = [p \in Procs |-> TRUE]
    /\ UNCHANGED <<rate, divider, pc, ret>>

\* A process that makes any calls.
AnyCall(p) ==
    \/ rtc_open(p) \/ rtc_read(p) \/ ReadReturns(p)
    \/ \E frequency \in Frequencies : rtc_write(p, frequency)

Next == (\E p \in Procs : AnyCall(p)) \/ rtc_handler

Spec == Init /\ [][Next]_vars

\* The device keeps interrupting while it runs.  A waiting process polls the flag throughout each of
\* its time slices, and the interrupts do not all fall outside of them.
FairSpec ==
    /\ Spec
    /\ WF_vars(rtc_handler)
    /\ \A p \in Procs : SF_vars(ReadReturns(p))

-----------------------------------------------------------------------------
(* Properties.                                                              *)

\* rtc_read returns "only after interrupt has occured": one that came after the call,
\* although all processes share one flag.
ReturnsAfterInterrupt ==
    [][\A p \in Procs : pc[p] = "wait" /\ pc'[p] = "user" => ticked[p]]_vars

\* Every rtc_read returns, although another process's rtc_read may reset the flag that
\* was set for it, unless a frequency that is not in the table has stopped the device.
EveryReadReturns == \A p \in Procs : pc[p] = "wait" ~> (pc[p] = "user" \/ ~Running)
=============================================================================
