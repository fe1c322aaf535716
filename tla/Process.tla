------------------------------ MODULE Process ------------------------------
(* Process management of 391OS: the pid table, the process control blocks,  *)
(* the three terminals' scheduling slots, the PIT scheduler (schedule.c),   *)
(* sys_execute and sys_halt (syscall.c), user exceptions (exceptions.c) and *)
(* the part of the keyboard handler that cancels or switches (keyboard.c).  *)
(*                                                                          *)
(* Interrupt handlers, sys_execute and sys_halt all run with interrupts     *)
(* off, so each is one atomic step.  A kernel stack is named by the pid it  *)
(* belongs to: 0x800000 - pid * 0x2000.  A saved esp is abstracted to the   *)
(* stack it points into; saved[p] says which activation stack p really      *)
(* holds, so that resuming the wrong one can be told from resuming the      *)
(* right one.                                                               *)
EXTENDS Integers

CONSTANTS
    MAX_TERMINALS,      \* number of terminals; the code's "pid <= 2" is pid < MAX_TERMINALS
    MAX_NUM_PIDS,       \* size of the pid table
    Statuses,           \* the halt statuses programs pass, a subset of 0..255
    FrameBit,           \* bit 2 of ESP in handle_exception, as the build lays out its frame
    ExecInBackground,   \* may a program execute while its terminal is not displayed?
    ExecDuringBoot      \* may a program execute before every terminal has its shell?

ASSUME ProcessAssumption ==
    /\ MAX_TERMINALS \in Nat \ {0}
    /\ MAX_NUM_PIDS \in Nat
    /\ MAX_TERMINALS <= MAX_NUM_PIDS
    /\ Statuses \subseteq 0..255
    /\ FrameBit \in {0, 1}
    /\ ExecInBackground \in BOOLEAN
    /\ ExecDuringBoot \in BOOLEAN

Pids == 0..(MAX_NUM_PIDS - 1)
Terms == 0..(MAX_TERMINALS - 1)

UNUSED == 0
USED == 1

NoPid == -1         \* an entry of scheduling_array whose terminal has not been booted
NoFrame == -1       \* an esp that points at a fresh stack: nothing to return into

VARIABLES
    pid_array,          \* UNUSED or USED, for each pid
    pcb,                \* the fields of each control block that sys_execute sets for good
    schedule_esp,       \* the field that schedule() rewrites at every switch
    scheduling_array,   \* the foreground pid of each terminal
    scheduled_process,  \* the terminal whose process has the CPU
    curr_term,          \* the terminal on display
    curr_pid,           \* the pid the kernel believes is running
    tss_esp0,           \* whose kernel stack the next entry from user mode uses
    user_page,          \* whose program is mapped at 128 MB
    kesp,               \* whose kernel stack the running code uses
    saved,              \* the suspended activation on each kernel stack
    running_flag,
    call_halt,
    exception_flag,
    eax,                \* what the last sys_execute to return gave its caller
    ended,              \* how the last process to end ended (not in the code: history)
    machine             \* "run"; "frozen" in while(1); "wild" once a wrong frame is resumed

control == <<scheduled_process, curr_term>>
vars == <<pid_array, pcb, schedule_esp, scheduling_array, scheduled_process, curr_term, curr_pid,
          tss_esp0, user_page, kesp, saved, running_flag, call_halt,
          exception_flag, eax, ended, machine>>

Activations == {"none", "schedule", "execute"}
Endings == {"normal", "exception"}

Pcb == [parent_pid : Pids \cup {NoPid}, term_id : Terms, old_esp : Pids]

\* What the fields hold must make sense: every process, terminal and stack named exists.
TypeOK ==
    /\ pid_array \in [Pids -> {UNUSED, USED}]
    /\ pcb \in [Pids -> Pcb]
    /\ schedule_esp \in [Pids -> Pids \cup {NoFrame}]
    /\ scheduling_array \in [Terms -> Pids \cup {NoPid}]
    /\ scheduled_process \in Terms
    /\ curr_term \in Terms
    /\ curr_pid \in Pids \cup {NoPid}
    /\ tss_esp0 \in Pids \cup {NoPid}
    /\ user_page \in Pids \cup {NoPid}
    /\ kesp \in Pids
    /\ saved \in [Pids -> Activations]
    /\ running_flag \in {0, 1}
    /\ call_halt \in {0, 1}
    /\ exception_flag \in {0, 1}
    /\ eax \in -1..256
    /\ ended \in Endings
    /\ machine \in {"run", "wild", "frozen"}

-----------------------------------------------------------------------------
(* Initialisation: syscall_init, initial_boot and the boot stack at 8 MB,   *)
(* which is the stack pid 0 will use.                                       *)

Init ==
    /\ pid_array = [p \in Pids |-> UNUSED]
    /\ pcb = [p \in Pids |-> [parent_pid |-> 0, term_id |-> 0, old_esp |-> 0]]
    /\ schedule_esp = [p \in Pids |-> NoFrame]
    /\ scheduling_array = [t \in Terms |-> NoPid]
    /\ scheduled_process = 0
    /\ curr_term = 0
    /\ curr_pid = 0
    /\ tss_esp0 = 0
    /\ user_page = 0
    /\ kesp = 0
    /\ saved = [p \in Pids |-> "none"]
    /\ running_flag = 0
    /\ call_halt = 0
    /\ exception_flag = 0
    /\ eax = 0
    /\ ended = "normal"
    /\ machine = "run"

Booted(t) == scheduling_array[t] # NoPid
AllBooted == \A t \in Terms : Booted(t)

-----------------------------------------------------------------------------
(* sys_execute, from the search for a pid to the iret into the program.     *)

\* p is where the search loop stops when it is run on the table pa.
IsFirstUnused(p, pa) ==
    /\ pa[p] = UNUSED
    /\ \A q \in Pids : q < p => pa[q] # UNUSED

\* "pid <= 2": such a process is taken to be the first shell of a terminal.
IsFirstShell(pid) == pid < MAX_TERMINALS

\* Mutant: the terminal on display, for every process.
TermOnDisplay(pid) == curr_term'

\* The terminal a new process is put on.
TermOf(pid) == IF IsFirstShell(pid) THEN scheduled_process' ELSE curr_term'

\* Mutant: parent_pid is left as init_pcb set it.
NoParent(pid) == 0

\* Whom a new process takes for its caller.
ParentOf(pid) == IF IsFirstShell(pid) THEN 0 ELSE scheduling_array[TermOf(pid)]

\* Called on kernel stack "stack", with the pid table pa, the saved
\* frame addresses frames, the suspended activations sv and running_flag rf that the caller has
\* left.  With no process on that terminal, the parent's control block would lie
\* outside the kernel's memory.
Launch(pid, pa, frames, stack, sv, rf) ==
    /\ pid_array' = [pa EXCEPT ![pid] = USED]
    /\ running_flag' = IF pid # 0 THEN 1 ELSE rf
    /\ pcb' = [pcb EXCEPT ![pid] =
                 [parent_pid |-> ParentOf(pid), term_id |-> TermOf(pid), old_esp |-> stack]]
    /\ schedule_esp' = [frames EXCEPT ![pid] = IF IsFirstShell(pid) THEN stack ELSE NoFrame]
    /\ scheduling_array' = [scheduling_array EXCEPT ![TermOf(pid)] = pid]
    /\ saved' = [sv EXCEPT ![pid] = "none"]
    /\ curr_pid' = pid
    /\ tss_esp0' = pid
    /\ user_page' = pid
    /\ kesp' = pid
    /\ machine' = IF ParentOf(pid) # NoPid THEN machine ELSE "wild"

\* The whole of sys_execute for a command that names an executable file.
Execute ==
    /\ machine = "run"
    /\ Booted(0)
    /\ ExecInBackground \/ curr_term = scheduled_process
    /\ ExecDuringBoot \/ AllBooted
    /\ UNCHANGED <<control, call_halt, exception_flag, eax, ended>>
    /\ \E pid \in Pids :
          /\ IsFirstUnused(pid, pid_array)
          /\ Launch(pid, pid_array, schedule_esp, kesp, [saved EXCEPT ![kesp] = "execute"], running_flag)

\* The early returns of sys_execute: 0 for an empty line, -1 for a name that is
\* not an executable file, -1 for a full pid table.
ExecuteReturns(value) ==
    /\ machine = "run"
    /\ Booted(0)
    /\ eax' = value
    /\ UNCHANGED <<pid_array, pcb, schedule_esp, scheduling_array, control, curr_pid, tss_esp0, user_page,
                   kesp, saved, running_flag, call_halt, exception_flag, ended, machine>>

ExecuteEmpty == ExecuteReturns(0)
ExecuteBadFile == ExecuteReturns(-1)
ExecuteNoPid == (\A p \in Pids : pid_array[p] = USED) /\ ExecuteReturns(-1)

-----------------------------------------------------------------------------
(* sys_halt.                                                                *)

\* Mutants: the pid is not given back; the caller's pid is given back.
PidsNotFreed == pid_array
PidsFreedOfParent == [pid_array EXCEPT ![pcb[curr_pid].parent_pid] = UNUSED]

\* The pid table once the running process has given its pid back.
PidsFreed == [pid_array EXCEPT ![curr_pid] = UNUSED]

\* A terminal's first shell has no caller to return to: a new shell is started
\* on the spot, in the pid just given up.
RestartShell(rf) ==
    /\ \E pid \in Pids :
          IsFirstUnused(pid, PidsFreed) /\ Launch(pid, PidsFreed, schedule_esp, kesp, saved, rf)
    /\ UNCHANGED eax

\* Any other process gives the CPU back to its caller, which is suspended in
\* sys_execute.  The jump to RETURN_FROM_HALT is only defined if the stack that
\* old_esp points into still holds that activation and belongs to the process
\* whose page, kernel stack and pid have just been restored.
ReturnToParent(value, rf) ==
    LET me == pcb[curr_pid]
    IN  /\ pid_array' = PidsFreed
        /\ tss_esp0' = me.parent_pid
        /\ user_page' = me.parent_pid
        /\ scheduling_array' = [scheduling_array EXCEPT ![me.term_id] = me.parent_pid]
        /\ curr_pid' = me.parent_pid
        /\ kesp' = me.old_esp
        /\ saved' = [saved EXCEPT ![me.old_esp] = "none"]
        /\ machine' = IF saved[me.old_esp] = "execute" /\ me.old_esp = me.parent_pid
                      THEN machine ELSE "wild"
        /\ eax' = value
        /\ running_flag' = rf
        /\ UNCHANGED <<pcb, schedule_esp>>

\* Mutant: one pid too many.
RestartsTooMany == curr_pid <= MAX_TERMINALS

\* Whether the running process is restarted rather than returned from.
Restarts == curr_pid < MAX_TERMINALS

\* Mutant: exception_flag is not cleared.
HaltKeepsFlag(flag, status, rf, ending) ==
    /\ exception_flag' = flag
    /\ ended' = ending
    /\ UNCHANGED scheduled_process
    /\ IF Restarts
       THEN RestartShell(rf)
       ELSE ReturnToParent(IF flag = 1 THEN 256 ELSE status, rf)

\* sys_halt(status) when exception_flag holds flag and running_flag holds rf.
sys_halt(flag, status, rf, ending) ==
    /\ exception_flag' = 0
    /\ ended' = ending
    /\ UNCHANGED scheduled_process
    /\ IF Restarts
       THEN RestartShell(rf)
       ELSE ReturnToParent(IF flag = 1 THEN 256 ELSE status, rf)

\* The halt system call.
Halt(status) ==
    /\ machine = "run"
    /\ Booted(0)
    /\ UNCHANGED <<curr_term, call_halt>>
    /\ sys_halt(exception_flag, status, running_flag, "normal")

-----------------------------------------------------------------------------
(* handle_exception, for an exception raised by the running program.  The   *)
(* handler decides that the fault came from user mode by bit 2 of its own   *)
(* ESP.  An error code pushed by the CPU moves ESP by 4, so the two kinds   *)
(* of exception always disagree on that bit.                                *)

ExceptionHalts(errorCode) == (FrameBit + errorCode) % 2 = 1

Exception(errorCode) ==
    /\ machine = "run"
    /\ Booted(0)
    /\ ExceptionHalts(errorCode)
    /\ UNCHANGED <<curr_term, call_halt>>
    /\ sys_halt(1, 255, running_flag, "exception")

\* Otherwise: while(1) with interrupts off.
ExceptionFreezes(errorCode) ==
    /\ machine = "run"
    /\ Booted(0)
    /\ ~ExceptionHalts(errorCode)
    /\ machine' = "frozen"
    /\ UNCHANGED <<pid_array, pcb, schedule_esp, scheduling_array, control, curr_pid, tss_esp0, user_page,
                   kesp, saved, running_flag, call_halt, exception_flag, eax, ended>>

\* The loop itself.
Spin == machine = "frozen" /\ UNCHANGED vars

-----------------------------------------------------------------------------
(* schedule(), called on every PIT interrupt.                               *)

\* Mutants: the frame's address is not saved; it is saved for the terminal on display.
FramesNotSaved == schedule_esp
FramesSavedOnDisplay == [schedule_esp EXCEPT ![scheduling_array[curr_term]] = kesp]

\* What schedule() has saved before it goes on: its frame is on stack kesp and
\* the address of that frame is in the control block of the scheduled terminal.
FramesSaved == [schedule_esp EXCEPT ![scheduling_array[scheduled_process]] = kesp]
StacksSaved == [saved EXCEPT ![kesp] = "schedule"]

\* The first tick: the shell of terminal 0, on the boot stack, nothing saved.
BootFirst ==
    /\ machine = "run"
    /\ ~Booted(0)
    /\ UNCHANGED <<control, call_halt, exception_flag, eax, ended>>
    /\ \E pid \in Pids :
          IsFirstUnused(pid, pid_array) /\ Launch(pid, pid_array, schedule_esp, kesp, saved, running_flag)

\* The tick that finds terminal t the lowest one without a shell.  The stack is
\* chosen by the terminal's number, before sys_execute chooses the pid.
BootNext(t) ==
    /\ machine = "run"
    /\ t > 0
    /\ Booted(scheduled_process)
    /\ ~Booted(t)
    /\ \A u \in Terms : u < t => Booted(u)
    /\ scheduled_process' = t
    /\ UNCHANGED <<curr_term, call_halt, exception_flag, eax, ended>>
    /\ \E pid \in Pids :
          /\ IsFirstUnused(pid, pid_array)
          /\ Launch(pid, pid_array, FramesSaved, t, [StacksSaved EXCEPT ![t] = "none"], running_flag)

\* The same tick with the pid table full: sys_execute returns -1 and schedule()
\* returns into whatever is at the top of the fresh stack.
BootNextFails(t) ==
    /\ machine = "run"
    /\ t > 0
    /\ Booted(scheduled_process)
    /\ ~Booted(t)
    /\ \A u \in Terms : u < t => Booted(u)
    /\ \A p \in Pids : pid_array[p] = USED
    /\ scheduled_process' = t
    /\ schedule_esp' = FramesSaved
    /\ saved' = [StacksSaved EXCEPT ![t] = "none"]
    /\ kesp' = t
    /\ eax' = -1
    /\ machine' = "wild"
    /\ UNCHANGED <<pid_array, pcb, scheduling_array, curr_term, curr_pid, tss_esp0, user_page,
                   running_flag, call_halt, exception_flag, ended>>

\* A tick while the scheduled terminal has no process: schedule() saves its frame
\* in the control block of pid -1, outside the kernel's memory.
TickNoPcb ==
    /\ machine = "run"
    /\ Booted(0)
    /\ ~Booted(scheduled_process)
    /\ machine' = "wild"
    /\ UNCHANGED <<pid_array, pcb, schedule_esp, scheduling_array, control, curr_pid, tss_esp0, user_page,
                   kesp, saved, running_flag, call_halt, exception_flag, eax, ended>>

\* Mutant: the round robin starts from the terminal on display.
NextAfterDisplay == (curr_term + 1) % MAX_TERMINALS

next_scheduling_term == (scheduled_process + 1) % MAX_TERMINALS

\* Every other tick: the next terminal's foreground process gets the CPU.
SwitchNext ==
    LET next == scheduling_array[next_scheduling_term]
        frame == FramesSaved[next]
    IN  /\ machine = "run"
        /\ AllBooted
        /\ scheduled_process' = next_scheduling_term
        /\ schedule_esp' = FramesSaved
        /\ curr_pid' = next
        /\ tss_esp0' = next
        /\ user_page' = next
        /\ IF frame # NoFrame /\ frame = next /\ StacksSaved[frame] = "schedule"
           THEN /\ saved' = [StacksSaved EXCEPT ![frame] = "none"]
                /\ kesp' = frame
                /\ UNCHANGED machine
           ELSE /\ saved' = StacksSaved
                /\ kesp' = next
                /\ machine' = "wild"
        /\ UNCHANGED <<pid_array, pcb, scheduling_array, curr_term, running_flag, call_halt,
                       exception_flag, eax, ended>>

Tick ==
    \/ BootFirst
    \/ \E t \in Terms : BootNext(t) \/ BootNextFails(t)
    \/ TickNoPcb
    \/ SwitchNext

-----------------------------------------------------------------------------
(* keyboard_handler, as far as processes are concerned.                     *)

\* The end of the handler, when call_halt holds ch: the cancellation, if it is
\* due, hits the process that has the CPU.
KeyboardTail(ch) ==
    IF running_flag = 1 /\ ch = 1
    THEN /\ call_halt' = 0
         /\ sys_halt(exception_flag, 255, 0, "normal")
    ELSE /\ call_halt' = ch
         /\ UNCHANGED <<pid_array, pcb, schedule_esp, scheduling_array, scheduled_process, curr_pid, tss_esp0,
                        user_page, kesp, saved, running_flag, exception_flag, eax, ended, machine>>

CtrlC ==
    /\ machine = "run"
    /\ UNCHANGED curr_term
    /\ KeyboardTail(1)

OtherKey ==
    /\ machine = "run"
    /\ UNCHANGED curr_term
    /\ KeyboardTail(call_halt)

\* Alt+F1..F3: switch_terminals.
SwitchTerm(t) ==
    /\ machine = "run"
    /\ curr_term' = t
    /\ KeyboardTail(call_halt)

-----------------------------------------------------------------------------

Next ==
    \/ Tick
    \/ Execute
    \/ ExecuteEmpty
    \/ ExecuteBadFile
    \/ ExecuteNoPid
    \/ \E status \in Statuses : Halt(status)
    \/ \E errorCode \in {0, 1} : Exception(errorCode) \/ ExceptionFreezes(errorCode)
    \/ CtrlC
    \/ OtherKey
    \/ \E t \in Terms : SwitchTerm(t)
    \/ Spin

Spec == Init /\ [][Next]_vars

\* The PIT interrupts 20 times a second for ever, and every system call and
\* handler turns interrupts back on when it returns to user mode.
FairSpec == Spec /\ WF_vars(Tick)
-----------------------------------------------------------------------------
(* Properties.                                                              *)

Used(p) == pid_array[p] = USED

\* The five places that say which process is running always agree: curr_pid, the
\* scheduled terminal's slot, the TSS stack, the mapped program and the kernel
\* stack in use (schedule.c:180-206, syscall.c:89-108, 273-315).
Coherent ==
    Booted(0) /\ machine = "run" =>
        /\ Booted(scheduled_process)
        /\ curr_pid = scheduling_array[scheduled_process]
        /\ tss_esp0 = curr_pid
        /\ user_page = curr_pid
        /\ kesp = curr_pid

\* The process that has the CPU holds its pid, whatever the environment does: no
\* other sys_execute can be given the same stack, page and control block.
RunningPidUsed == Booted(0) /\ machine = "run" => Used(curr_pid)

\* No switch and no halt ever resumes a stack that does not hold the activation
\* the saved esp stands for (schedule.c:200-207, syscall.c:113-124).
NeverWild == machine # "wild"

\* A process that was executed was executed by its parent: the frame sys_halt
\* will return into is the parent's, it is still suspended in sys_execute (so the
\* argument string on that stack is intact too), and both are on one terminal
\* (syscall.c:288-305).
ParentIsCaller ==
    machine = "run" =>
        \A p \in Pids : Used(p) /\ ~IsFirstShell(p) =>
            LET parent == pcb[p].parent_pid
            IN  /\ parent = pcb[p].old_esp
                /\ Used(parent)
                /\ saved[parent] = "execute"
                /\ pcb[parent].term_id = pcb[p].term_id

\* No pid is leaked: every used pid is on a terminal's slot or is the caller of
\* another used pid, so it can still run and end (syscall.c:73, 222-232).
NoLeakedPid ==
    machine = "run" =>
        \A p \in Pids : Used(p) =>
            \/ \E t \in Terms : scheduling_array[t] = p
            \/ \E q \in Pids : Used(q) /\ ~IsFirstShell(q) /\ pcb[q].old_esp = p

\* Whoever is suspended in sys_execute has a process that will come back to it
\* (syscall.c:131-137): exactly one.
CallersGetAnAnswer ==
    machine = "run" =>
        \A p \in Pids : saved[p] = "execute" =>
            \E q \in Pids : /\ Used(q) /\ ~IsFirstShell(q) /\ pcb[q].old_esp = p
                            /\ \A r \in Pids : Used(r) /\ ~IsFirstShell(r) /\ pcb[r].old_esp = p => r = q

\* A terminal that is waiting for the CPU can be resumed: its slot holds a used
\* pid of that terminal, whose own stack holds the frame its control block names.
WaitingTerminalsResumable ==
    machine = "run" =>
        \A t \in Terms : Booted(t) /\ t # scheduled_process =>
            LET p == scheduling_array[t]
            IN  /\ Used(p)
                /\ pcb[p].term_id = t
                /\ schedule_esp[p] = p
                /\ saved[p] = "schedule"

\* A terminal once booted keeps the pid of its first shell alive for ever, even
\* through halts, exceptions and cancellations of that shell (syscall.c:83-87).
ShellKept == \A t \in Terms : Booted(t) /\ machine = "run" => Used(t) /\ pcb[t].term_id = t

\* A process that ends gives its caller 256 if and only if it died by an exception:
\* the flag one exception sets never colours a later halt (syscall.c:54-60).
StatusNotStale ==
    [][\A p \in Pids : Used(p) /\ pid_array'[p] = UNUSED =>
          (eax' = 256 <=> ended' = "exception")]_vars

\* The CPU is taken from a process only by the tick or by the process itself: a
\* halt or an execute leaves the other terminals' stacks as they were.
OtherStacksUntouched ==
    [][\A t \in Terms \ {scheduled_process, scheduled_process'} :
          Booted(t) => /\ saved'[scheduling_array[t]] = saved[scheduling_array[t]]
                       /\ schedule_esp'[scheduling_array[t]] = schedule_esp[scheduling_array[t]]]_vars

\* Boot ends: every terminal gets its shell, unless an exception froze the kernel.
BootCompletes == <>(AllBooted \/ machine = "frozen")

\* Round robin: every terminal is scheduled again and again, whatever programs and
\* keys do, unless an exception froze the kernel.
EveryTerminalScheduled ==
    \A t \in Terms : []<>((scheduled_process = t /\ Booted(t)) \/ machine = "frozen")

-----------------------------------------------------------------------------
(* The inductive invariant.  The properties above are not inductive: they   *)
(* need the order in which boot hands out pids, so that the pid sys_execute *)
(* finds is the terminal's number, what a slot holds, and that nobody has   *)
(* two callees.                                                             *)

BootOrder ==
    /\ ~Booted(0) => /\ scheduled_process = 0
                     /\ kesp = 0
                     /\ running_flag = 0
                     /\ \A p \in Pids : ~Used(p) /\ saved[p] = "none"
    /\ \A t, u \in Terms : t < u /\ Booted(u) => Booted(t)
    /\ \A t \in Terms : Used(t) => Booted(t)
    /\ ~AllBooted => \A p \in Pids : Used(p) => IsFirstShell(p)

Foreground ==
    \A t \in Terms : Booted(t) =>
        LET p == scheduling_array[t]
        IN  Used(p) /\ pcb[p].term_id = t /\ saved[p] # "execute"

OneCallee ==
    \A p, q \in Pids :
        /\ Used(p) /\ ~IsFirstShell(p)
        /\ Used(q) /\ ~IsFirstShell(q)
        /\ pcb[p].old_esp = pcb[q].old_esp
        => p = q

\* What the proofs carry from step to step: pid order at boot, slots, callers and
\* callees (syscall.c:222-305, schedule.c:93-171).
IInv ==
    /\ TypeOK
    /\ NeverWild
    /\ machine = "run" =>
          /\ BootOrder
          /\ Foreground
          /\ OneCallee
          /\ Coherent
          /\ ParentIsCaller
          /\ WaitingTerminalsResumable
          /\ ShellKept

\* The environment under which the kernel is correct: programs execute only while
\* their terminal is displayed, and not before boot is over.
Disciplined == ~ExecInBackground /\ ~ExecDuringBoot
=============================================================================
