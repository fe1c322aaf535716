--------------------------- MODULE Process_proofs ---------------------------
(* Machine-checked proofs about Process, for every number of terminals and  *)
(* pids.                                                                    *)
EXTENDS Process, TLAPS

-----------------------------------------------------------------------------
(* Type correctness, in every environment.                                  *)

\* While the machine runs, the running pid and every parent are real pids: the only
\* code that records pid -1 as a parent has left the kernel's memory.
RealPids ==
    machine = "run" => /\ curr_pid \in Pids
                       /\ \A p \in Pids : pcb[p].parent_pid \in Pids

TypeInv == TypeOK /\ RealPids

\* Terminal numbers are pids: the boot code uses one as the other.
LEMMA TermsArePids == /\ Terms \subseteq Pids
                      /\ 0 \in Terms
                      /\ Terms \subseteq Nat
                      /\ Pids \subseteq Nat
                      /\ NoPid \notin Pids
                      /\ NoFrame = NoPid
  BY ProcessAssumption, SMT DEF Terms, Pids, NoPid, NoFrame

\* The launch of a program keeps the types, whatever its caller left behind.
LEMMA LaunchType ==
  ASSUME TypeInv, machine = "run",
         scheduled_process' \in Terms, curr_term' \in Terms,
         NEW pid \in Pids, NEW stack \in Pids, NEW rf \in {0, 1},
         NEW pa \in [Pids -> {UNUSED, USED}],
         NEW frames \in [Pids -> Pids \cup {NoFrame}],
         NEW sv \in [Pids -> Activations],
         call_halt' \in {0, 1}, exception_flag' \in {0, 1},
         eax' \in -1..256, ended' \in Endings,
         Launch(pid, pa, frames, stack, sv, rf)
  PROVE  TypeInv'
<1>. USE TermsArePids
<1>. DEFINE block == [parent_pid |-> ParentOf(pid), term_id |-> TermOf(pid), old_esp |-> stack]
<1>1. TermOf(pid) \in Terms
  BY DEF TermOf
<1>2. ParentOf(pid) \in Pids \cup {NoPid}
  BY <1>1 DEF ParentOf, TypeInv, TypeOK
<1>3. block \in Pcb
  BY <1>1, <1>2 DEF Pcb
<1>4. pcb' = [pcb EXCEPT ![pid] = block]
  BY DEF Launch
<1>5. pcb' \in [Pids -> Pcb]
  BY <1>3, <1>4 DEF TypeInv, TypeOK
<1>6. TypeOK'
  BY <1>1, <1>5 DEF Launch, TypeInv, TypeOK, UNUSED, USED, Activations
<1>7. RealPids'
  <2>. SUFFICES ASSUME machine' = "run"
       PROVE  curr_pid' \in Pids /\ \A p \in Pids : pcb'[p].parent_pid \in Pids
    BY DEF RealPids
  <2>1. ParentOf(pid) \in Pids
    BY <1>2 DEF Launch
  <2>2. \A p \in Pids : pcb'[p].parent_pid \in Pids
    BY <2>1, <1>4 DEF TypeInv, TypeOK, RealPids
  <2>. QED  BY <2>2 DEF Launch
<1>. QED  BY <1>6, <1>7 DEF TypeInv

\* Neither do sys_halt and the frames schedule() saves leave the types.
LEMMA HaltType ==
  ASSUME TypeInv, machine = "run", curr_term' \in Terms, call_halt' \in {0, 1},
         NEW flag \in {0, 1}, NEW status \in 0..255, NEW rf \in {0, 1},
         NEW ending \in Endings, sys_halt(flag, status, rf, ending)
  PROVE  TypeInv'
<1>. USE TermsArePids
<1>1. /\ exception_flag' \in {0, 1}
      /\ ended' \in Endings
      /\ scheduled_process' \in Terms
      /\ curr_pid \in Pids
  BY DEF sys_halt, TypeInv, TypeOK, RealPids
<1>2. PidsFreed \in [Pids -> {UNUSED, USED}]
  BY <1>1 DEF PidsFreed, TypeInv, TypeOK, UNUSED, USED
<1>3. CASE Restarts
  <2>1. RestartShell(rf)
    BY <1>3 DEF sys_halt
  <2>2. PICK pid \in Pids : Launch(pid, PidsFreed, schedule_esp, kesp, saved, rf)
    BY <2>1 DEF RestartShell
  <2>3. eax' \in -1..256
    BY <2>1 DEF RestartShell, TypeInv, TypeOK
  <2>4. schedule_esp \in [Pids -> Pids \cup {NoFrame}] /\ kesp \in Pids
        /\ saved \in [Pids -> Activations]
    BY DEF TypeInv, TypeOK
  <2>. QED  BY <1>1, <1>2, <2>2, <2>3, <2>4, LaunchType
<1>4. CASE ~Restarts
  <2>. DEFINE me == pcb[curr_pid]
              value == IF flag = 1 THEN 256 ELSE status
  <2>1. ReturnToParent(value, rf)
    BY <1>4 DEF sys_halt
  <2>2. me \in Pcb /\ me.parent_pid \in Pids /\ value \in -1..256
    BY <1>1 DEF TypeInv, TypeOK, RealPids
  <2>3. me.term_id \in Terms /\ me.old_esp \in Pids
    BY <2>2 DEF Pcb
  <2>4. TypeOK'
    BY <1>1, <1>2, <2>1, <2>2, <2>3 DEF ReturnToParent, TypeInv, TypeOK, Activations
  <2>5. RealPids'
    BY <2>1, <2>2 DEF ReturnToParent, TypeInv, RealPids
  <2>. QED  BY <2>4, <2>5 DEF TypeInv
<1>. QED  BY <1>3, <1>4 DEF TypeInv, TypeOK

LEMMA SavedType ==
  ASSUME TypeInv, machine = "run", Booted(scheduled_process)
  PROVE  /\ FramesSaved \in [Pids -> Pids \cup {NoFrame}]
         /\ StacksSaved \in [Pids -> Activations]
BY DEF FramesSaved, StacksSaved, TypeInv, TypeOK, Booted, Activations

\* A key, whatever it does before the end of the handler.
LEMMA KeyType ==
  ASSUME TypeInv, machine = "run", curr_term' \in Terms,
         NEW ch \in {0, 1}, KeyboardTail(ch)
  PROVE  TypeInv'
<1>1. CASE running_flag = 1 /\ ch = 1
  <2>1. call_halt' = 0 /\ sys_halt(exception_flag, 255, 0, "normal")
    BY <1>1 DEF KeyboardTail
  <2>2. exception_flag \in {0, 1} /\ 255 \in 0..255 /\ "normal" \in Endings
    BY DEF TypeInv, TypeOK, Endings
  <2>. QED  BY <2>1, <2>2, HaltType
<1>2. CASE ~(running_flag = 1 /\ ch = 1)
  BY <1>2 DEF KeyboardTail, TypeInv, TypeOK, RealPids
<1>. QED  BY <1>1, <1>2

\* Every step keeps the types.
LEMMA TypeStep == ASSUME TypeInv, [Next]_vars PROVE TypeInv'
<1>. USE TermsArePids
<1>1. CASE BootFirst
  <2>1. PICK pid \in Pids : Launch(pid, pid_array, schedule_esp, kesp, saved, running_flag)
    BY <1>1 DEF BootFirst
  <2>2. /\ scheduled_process' \in Terms /\ curr_term' \in Terms
        /\ call_halt' \in {0, 1} /\ exception_flag' \in {0, 1}
        /\ eax' \in -1..256 /\ ended' \in Endings /\ machine = "run"
    BY <1>1 DEF BootFirst, control, TypeInv, TypeOK
  <2>3. /\ pid_array \in [Pids -> {UNUSED, USED}] /\ kesp \in Pids
        /\ schedule_esp \in [Pids -> Pids \cup {NoFrame}]
        /\ saved \in [Pids -> Activations] /\ running_flag \in {0, 1}
    BY DEF TypeInv, TypeOK
  <2>. QED  BY <2>1, <2>2, <2>3, LaunchType
<1>2. ASSUME NEW t \in Terms, BootNext(t) PROVE TypeInv'
  <2>. DEFINE sv == [StacksSaved EXCEPT ![t] = "none"]
  <2>1. PICK pid \in Pids : Launch(pid, pid_array, FramesSaved, t, sv, running_flag)
    BY <1>2 DEF BootNext
  <2>2. sv \in [Pids -> Activations]
    BY <1>2, SavedType DEF BootNext, Activations
  <2>3. /\ scheduled_process' \in Terms /\ curr_term' \in Terms
        /\ call_halt' \in {0, 1} /\ exception_flag' \in {0, 1}
        /\ eax' \in -1..256 /\ ended' \in Endings /\ machine = "run"
    BY <1>2 DEF BootNext, TypeInv, TypeOK
  <2>4. /\ pid_array \in [Pids -> {UNUSED, USED}] /\ t \in Pids
        /\ FramesSaved \in [Pids -> Pids \cup {NoFrame}] /\ running_flag \in {0, 1}
    BY <1>2, SavedType DEF BootNext, TypeInv, TypeOK
  <2>. HIDE DEF sv
  <2>. QED  BY <2>1, <2>2, <2>3, <2>4, LaunchType
<1>3. ASSUME NEW t \in Terms, BootNextFails(t) PROVE TypeInv'
  <2>1. [StacksSaved EXCEPT ![t] = "none"] \in [Pids -> Activations]
    BY <1>3, SavedType DEF BootNextFails, Activations
  <2>. QED
    BY <1>3, <2>1, SavedType DEF BootNextFails, TypeInv, TypeOK, RealPids
<1>4. CASE TickNoPcb
  BY <1>4 DEF TickNoPcb, control, TypeInv, TypeOK, RealPids
<1>5. CASE SwitchNext
  <2>. DEFINE next == scheduling_array[next_scheduling_term]
              frame == FramesSaved[next]
  <2>1. next_scheduling_term \in Terms
    BY ProcessAssumption DEF next_scheduling_term, TypeInv, TypeOK, Terms
  <2>2. next \in Pids /\ Booted(scheduled_process)
    BY <1>5, <2>1 DEF SwitchNext, AllBooted, Booted, TypeInv, TypeOK
  <2>3. frame \in Pids \cup {NoFrame}
    BY <1>5, <2>2, SavedType DEF SwitchNext
  <2>4. kesp' \in Pids
    BY <1>5, <2>2, <2>3 DEF SwitchNext
  <2>5. saved' \in [Pids -> Activations]
    BY <1>5, <2>2, <2>3, SavedType DEF SwitchNext, Activations
  <2>6. machine' \in {"run", "wild", "frozen"}
    BY <1>5 DEF SwitchNext, TypeInv, TypeOK
  <2>7. schedule_esp' = FramesSaved /\ pcb' = pcb
    BY <1>5 DEF SwitchNext
  <2>8. TypeOK'
    BY <1>5, <2>1, <2>2, <2>4, <2>5, <2>6, <2>7, SavedType DEF SwitchNext, TypeInv, TypeOK
  <2>9. RealPids'
    BY <1>5, <2>2, <2>7 DEF SwitchNext, TypeInv, RealPids
  <2>. QED  BY <2>8, <2>9 DEF TypeInv
<1>6. CASE Execute
  <2>. DEFINE sv == [saved EXCEPT ![kesp] = "execute"]
  <2>1. PICK pid \in Pids : Launch(pid, pid_array, schedule_esp, kesp, sv, running_flag)
    BY <1>6 DEF Execute
  <2>2. sv \in [Pids -> Activations]
    BY DEF TypeInv, TypeOK, Activations
  <2>3. /\ scheduled_process' \in Terms /\ curr_term' \in Terms
        /\ call_halt' \in {0, 1} /\ exception_flag' \in {0, 1}
        /\ eax' \in -1..256 /\ ended' \in Endings /\ machine = "run"
    BY <1>6 DEF Execute, control, TypeInv, TypeOK
  <2>4. /\ pid_array \in [Pids -> {UNUSED, USED}] /\ kesp \in Pids
        /\ schedule_esp \in [Pids -> Pids \cup {NoFrame}] /\ running_flag \in {0, 1}
    BY DEF TypeInv, TypeOK
  <2>. HIDE DEF sv
  <2>. QED  BY <2>1, <2>2, <2>3, <2>4, LaunchType
<1>7. CASE ExecuteEmpty \/ ExecuteBadFile \/ ExecuteNoPid
  BY <1>7 DEF ExecuteEmpty, ExecuteBadFile, ExecuteNoPid, ExecuteReturns, control,
              TypeInv, TypeOK, RealPids
<1>8. ASSUME NEW status \in Statuses, Halt(status) PROVE TypeInv'
  <2>1. sys_halt(exception_flag, status, running_flag, "normal") /\ machine = "run"
    BY <1>8 DEF Halt
  <2>2. /\ exception_flag \in {0, 1}
        /\ status \in 0..255
        /\ running_flag \in {0, 1}
        /\ "normal" \in Endings
        /\ curr_term' \in Terms
        /\ call_halt' \in {0, 1}
    BY <1>8, ProcessAssumption DEF Halt, TypeInv, TypeOK, Endings
  <2>. QED  BY <2>1, <2>2, HaltType
<1>9. ASSUME NEW errorCode \in {0, 1}, Exception(errorCode) PROVE TypeInv'
  <2>1. sys_halt(1, 255, running_flag, "exception") /\ machine = "run"
    BY <1>9 DEF Exception
  <2>2. /\ 1 \in {0, 1}
        /\ 255 \in 0..255
        /\ running_flag \in {0, 1}
        /\ "exception" \in Endings
        /\ curr_term' \in Terms
        /\ call_halt' \in {0, 1}
    BY <1>9 DEF Exception, TypeInv, TypeOK, Endings
  <2>. QED  BY <2>1, <2>2, HaltType
<1>10. ASSUME NEW errorCode \in {0, 1}, ExceptionFreezes(errorCode) PROVE TypeInv'
  BY <1>10 DEF ExceptionFreezes, control, TypeInv, TypeOK, RealPids
<1>11. CASE CtrlC
  BY <1>11, KeyType DEF CtrlC, TypeInv, TypeOK
<1>12. CASE OtherKey
  BY <1>12, KeyType DEF OtherKey, TypeInv, TypeOK
<1>13. ASSUME NEW t \in Terms, SwitchTerm(t) PROVE TypeInv'
  BY <1>13, KeyType DEF SwitchTerm, TypeInv, TypeOK
<1>14. CASE Spin \/ UNCHANGED vars
  BY <1>14 DEF Spin, vars, TypeInv, TypeOK, RealPids
<1>. QED
  BY <1>1, <1>2, <1>3, <1>4, <1>5, <1>6, <1>7, <1>8, <1>9, <1>10, <1>11, <1>12, <1>13, <1>14
     DEF Next, Tick

\* Type correctness of process management in every environment: no step makes a slot,
\* a control block, the TSS or a stack name a process or terminal that does not exist
\* (syscall.c:47-374, schedule.c:83-210, keyboard.c:135-141).
THEOREM TypeCorrect == Spec => []TypeOK
<1>1. Init => TypeInv
  BY TermsArePids DEF Init, TypeInv, TypeOK, RealPids, Pcb, Activations, Endings, UNUSED, USED
<1>2. TypeInv => TypeOK
  BY DEF TypeInv
<1>. QED  BY <1>1, <1>2, TypeStep, PTL DEF Spec
-----------------------------------------------------------------------------
(* The safety invariants, when programs execute only from the terminal on   *)
(* display and after boot.                                                  *)

Core ==
    /\ BootOrder
    /\ Foreground
    /\ OneCallee
    /\ Coherent
    /\ ParentIsCaller
    /\ WaitingTerminalsResumable
    /\ ShellKept

core == <<pid_array, pcb, schedule_esp, scheduling_array, scheduled_process, curr_pid,
          tss_esp0, user_page, kesp, saved, running_flag>>

\* The pids that count as first shells are the terminal numbers.
LEMMA FirstShells == \A p \in Pids : IsFirstShell(p) <=> p \in Terms
  BY ProcessAssumption DEF IsFirstShell, Pids, Terms

\* A step that leaves the core state alone keeps the core invariant.
LEMMA CoreUnchanged ==
  ASSUME Core, machine = "run", UNCHANGED core
  PROVE  Core'
<1>1. BootOrder'
  BY DEF Core, core, BootOrder, Booted, AllBooted, Used
<1>2. Foreground' /\ OneCallee'
  BY DEF Core, core, Foreground, OneCallee, Booted, Used
<1>3. Coherent' /\ ParentIsCaller'
  BY DEF Core, core, Coherent, ParentIsCaller, Booted, Used
<1>4. WaitingTerminalsResumable' /\ ShellKept'
  BY DEF Core, core, WaitingTerminalsResumable, ShellKept, Booted, Used
<1>. QED  BY <1>1, <1>2, <1>3, <1>4 DEF Core

\* The pid sys_execute finds when terminal t is booted is t.
LEMMA BootPid ==
  ASSUME TypeInv, Core, machine = "run",
         NEW t \in Terms, ~Booted(t), \A u \in Terms : u < t => Booted(u),
         NEW pid \in Pids, IsFirstUnused(pid, pid_array)
  PROVE  pid = t
<1>1. ~Used(t)
  BY DEF Core, BootOrder
<1>2. \A u \in Terms : u < t => Used(u)
  BY DEF Core, ShellKept
<1>3. pid_array[t] = UNUSED
  BY <1>1, TermsArePids DEF Used, TypeInv, TypeOK
<1>4. pid <= t
  BY <1>3, TermsArePids DEF IsFirstUnused
<1>5. pid < t => pid \in Terms
  BY ProcessAssumption DEF Pids, Terms
<1>6. ~(pid < t)
  BY <1>2, <1>5 DEF IsFirstUnused, Used, UNUSED, USED
<1>. QED  BY <1>4, <1>6, TermsArePids

\* The pid found when a first shell is restarted is the one it has just given back,
\* which is the number of its terminal.
LEMMA RestartPid ==
  ASSUME TypeInv, Core, machine = "run", Booted(0), Restarts,
         NEW pid \in Pids, IsFirstUnused(pid, PidsFreed)
  PROVE  pid = curr_pid /\ curr_pid = scheduled_process
<1>1. curr_pid \in Terms /\ Used(curr_pid) /\ pcb[curr_pid].term_id = scheduled_process
  <2>1. curr_pid = scheduling_array[scheduled_process] /\ Booted(scheduled_process)
    BY DEF Core, Coherent
  <2>2. curr_pid \in Pids /\ scheduled_process \in Terms
    BY DEF TypeInv, TypeOK, RealPids
  <2>3. curr_pid \in Terms
    BY <2>2, FirstShells DEF Restarts, IsFirstShell
  <2>. QED  BY <2>1, <2>2, <2>3 DEF Core, Foreground
<1>2. Booted(curr_pid)
  BY <1>1 DEF Core, BootOrder
<1>3. curr_pid = scheduled_process
  BY <1>1, <1>2 DEF Core, ShellKept
<1>4. \A u \in Terms : u < curr_pid => Used(u)
  BY <1>1, <1>2 DEF Core, BootOrder, ShellKept
<1>5. PidsFreed[curr_pid] = UNUSED /\ \A q \in Pids : q # curr_pid => PidsFreed[q] = pid_array[q]
  BY <1>1, TermsArePids DEF PidsFreed, TypeInv, TypeOK
<1>6. pid <= curr_pid
  BY <1>1, <1>5, TermsArePids DEF IsFirstUnused
<1>7. pid < curr_pid => pid \in Terms
  BY <1>1, ProcessAssumption DEF Pids, Terms
<1>8. ~(pid < curr_pid)
  BY <1>1, <1>4, <1>5, <1>7, TermsArePids DEF IsFirstUnused, Used, UNUSED, USED
<1>. QED  BY <1>1, <1>3, <1>6, <1>8, TermsArePids

\* Once every terminal has its shell, sys_execute finds a pid that is no terminal's.
LEMMA ExecutePid ==
  ASSUME TypeInv, Core, machine = "run", AllBooted,
         NEW pid \in Pids, IsFirstUnused(pid, pid_array)
  PROVE  pid \notin Terms /\ ~Used(pid)
  BY DEF Core, AllBooted, ShellKept, IsFirstUnused, Used, UNUSED, USED
\* The first tick.
LEMMA BootFirstCore ==
  ASSUME TypeInv, Core, BootFirst
  PROVE  Core' /\ machine' = "run"
<1>. USE TermsArePids, FirstShells
<1>1. machine = "run" /\ ~Booted(0) /\ scheduled_process = 0 /\ kesp = 0
  BY DEF BootFirst, Core, BootOrder
<1>2. PICK pid \in Pids : /\ IsFirstUnused(pid, pid_array)
                          /\ Launch(pid, pid_array, schedule_esp, kesp, saved, running_flag)
  BY DEF BootFirst
<1>3. pid = 0
  BY <1>1, <1>2, BootPid
<1>4. scheduled_process' = 0 /\ TermOf(0) = 0 /\ ParentOf(0) = 0
  BY <1>1 DEF BootFirst, control, TermOf, ParentOf
<1>5. /\ pid_array' = [pid_array EXCEPT ![0] = USED]
      /\ pcb' = [pcb EXCEPT ![0] = [parent_pid |-> 0, term_id |-> 0, old_esp |-> 0]]
      /\ scheduling_array' = [scheduling_array EXCEPT ![0] = 0]
      /\ saved' = [saved EXCEPT ![0] = "none"]
      /\ curr_pid' = 0 /\ tss_esp0' = 0 /\ user_page' = 0 /\ kesp' = 0
      /\ machine' = "run"
  BY <1>1, <1>2, <1>3, <1>4 DEF Launch, NoPid
<1>6. /\ \A t \in Terms : ~Booted(t)
      /\ \A p \in Pids : ~Used(p)
  BY <1>1 DEF Core, BootOrder
<1>7. /\ \A t \in Terms : Booted(t)' <=> t = 0
      /\ \A p \in Pids : Used(p)' <=> p = 0
      /\ scheduling_array'[0] = 0
  BY <1>5, <1>6 DEF Booted, Used, TypeInv, TypeOK
<1>8. pcb'[0].term_id = 0 /\ saved'[0] = "none"
  BY <1>5 DEF TypeInv, TypeOK
<1>9. BootOrder'
  BY <1>7 DEF BootOrder, IsFirstShell
<1>10. Foreground' /\ OneCallee'
  BY <1>7, <1>8 DEF Foreground, OneCallee
<1>11. Coherent' /\ ParentIsCaller'
  BY <1>4, <1>5, <1>7 DEF Coherent, ParentIsCaller
<1>12. WaitingTerminalsResumable' /\ ShellKept'
  BY <1>4, <1>7, <1>8 DEF WaitingTerminalsResumable, ShellKept
<1>. QED  BY <1>5, <1>9, <1>10, <1>11, <1>12 DEF Core

\* The ticks that boot the other terminals.
LEMMA BootNextCore ==
  ASSUME TypeInv, Core, NEW t \in Terms, BootNext(t)
  PROVE  Core' /\ machine' = "run"
<1>. USE TermsArePids, FirstShells
<1>. DEFINE old == scheduling_array[scheduled_process]
<1>1. /\ machine = "run" /\ t > 0 /\ Booted(scheduled_process) /\ ~Booted(t)
      /\ \A u \in Terms : u < t => Booted(u)
      /\ scheduled_process' = t
  BY DEF BootNext
<1>2. PICK pid \in Pids :
        /\ IsFirstUnused(pid, pid_array)
        /\ Launch(pid, pid_array, FramesSaved, t, [StacksSaved EXCEPT ![t] = "none"], running_flag)
  BY DEF BootNext
<1>3. pid = t
  BY <1>1, <1>2, BootPid
<1>4. TermOf(t) = t /\ ParentOf(t) = 0
  BY <1>1 DEF TermOf, ParentOf
<1>5. /\ scheduled_process \in Terms /\ scheduled_process # t
      /\ old \in Pids /\ Used(old) /\ kesp = old /\ pcb[old].term_id = scheduled_process
      /\ Booted(0)
  BY <1>1 DEF TypeInv, TypeOK, Booted, Core, Foreground, Coherent
<1>6. ~Used(t) /\ old # t
  BY <1>1, <1>5 DEF Core, BootOrder
<1>7. /\ pid_array' = [pid_array EXCEPT ![t] = USED]
      /\ pcb' = [pcb EXCEPT ![t] = [parent_pid |-> 0, term_id |-> t, old_esp |-> t]]
      /\ schedule_esp' = [FramesSaved EXCEPT ![t] = t]
      /\ scheduling_array' = [scheduling_array EXCEPT ![t] = t]
      /\ saved' = [[StacksSaved EXCEPT ![t] = "none"] EXCEPT ![t] = "none"]
      /\ curr_pid' = t /\ tss_esp0' = t /\ user_page' = t /\ kesp' = t
      /\ machine' = "run"
  BY <1>1, <1>2, <1>3, <1>4 DEF Launch, NoPid
<1>8. /\ \A p \in Pids : Used(p)' <=> Used(p) \/ p = t
      /\ \A u \in Terms : Booted(u)' <=> Booted(u) \/ u = t
      /\ \A u \in Terms : u # t => scheduling_array'[u] = scheduling_array[u]
      /\ scheduling_array'[t] = t
  BY <1>7 DEF Used, Booted, TypeInv, TypeOK
<1>9. /\ \A p \in Pids : p # t => pcb'[p] = pcb[p]
      /\ pcb'[t].term_id = t
  BY <1>7 DEF TypeInv, TypeOK
<1>10. /\ saved'[t] = "none" /\ saved'[old] = "schedule" /\ schedule_esp'[old] = old
       /\ \A p \in Pids : p # t /\ p # old => saved'[p] = saved[p]
                                           /\ schedule_esp'[p] = schedule_esp[p]
  BY <1>5, <1>6, <1>7 DEF StacksSaved, FramesSaved, TypeInv, TypeOK
<1>11. \A p \in Pids : Used(p) => p \in Terms
  BY <1>1 DEF Core, BootOrder, AllBooted
<1>12. \A u \in Terms : Booted(u) => /\ scheduling_array[u] \in Pids
                                     /\ scheduling_array[u] # t
                                     /\ u # scheduled_process => scheduling_array[u] # old
  BY <1>5, <1>6 DEF Core, Foreground, Booted, TypeInv, TypeOK
<1>13. BootOrder'
  <2>1. Booted(0)'
    BY <1>5, <1>8
  <2>2. \A u, v \in Terms : u < v /\ Booted(v)' => Booted(u)'
    BY <1>1, <1>8 DEF Core, BootOrder
  <2>3. \A u \in Terms : Used(u)' => Booted(u)'
    BY <1>8 DEF Core, BootOrder
  <2>4. \A p \in Pids : Used(p)' => IsFirstShell(p)
    BY <1>8, <1>11
  <2>. QED  BY <2>1, <2>2, <2>3, <2>4 DEF BootOrder, IsFirstShell
<1>14. Foreground'
  <2>. SUFFICES ASSUME NEW u \in Terms, Booted(u)'
       PROVE  /\ Used(scheduling_array[u])'
              /\ pcb'[scheduling_array'[u]].term_id = u
              /\ saved'[scheduling_array'[u]] # "execute"
    BY DEF Foreground
  <2>1. CASE u = t
    BY <2>1, <1>7, <1>8, <1>9, <1>10 DEF Used, TypeInv, TypeOK
  <2>2. CASE u # t
    <3>1. Booted(u) /\ scheduling_array'[u] = scheduling_array[u]
      BY <2>2, <1>8
    <3>2. Used(scheduling_array[u])'
      BY <3>1, <1>8, <1>12, <1>7 DEF Core, Foreground, Used
    <3>3. pcb'[scheduling_array'[u]].term_id = u
      BY <3>1, <1>9, <1>12 DEF Core, Foreground
    <3>4. saved'[scheduling_array'[u]] # "execute"
      BY <3>1, <1>10, <1>12 DEF Core, Foreground
    <3>. QED  BY <3>2, <3>3, <3>4
  <2>. QED  BY <2>1, <2>2
<1>15. OneCallee' /\ ParentIsCaller'
  BY <1>8, <1>11 DEF OneCallee, ParentIsCaller, IsFirstShell
<1>16. Coherent'
  BY <1>1, <1>7, <1>8 DEF Coherent
<1>17. WaitingTerminalsResumable'
  <2>. SUFFICES ASSUME NEW u \in Terms, Booted(u)', u # t
       PROVE  /\ Used(scheduling_array[u])'
              /\ pcb'[scheduling_array'[u]].term_id = u
              /\ schedule_esp'[scheduling_array'[u]] = scheduling_array'[u]
              /\ saved'[scheduling_array'[u]] = "schedule"
    BY <1>1 DEF WaitingTerminalsResumable
  <2>1. Booted(u) /\ scheduling_array'[u] = scheduling_array[u]
    BY <1>8
  <2>2. Used(scheduling_array[u])' /\ pcb'[scheduling_array'[u]].term_id = u
    BY <2>1, <1>8, <1>14 DEF Foreground
  <2>3. CASE u = scheduled_process
    BY <2>1, <2>2, <2>3, <1>10
  <2>4. CASE u # scheduled_process
    <3>1. schedule_esp[scheduling_array[u]] = scheduling_array[u]
          /\ saved[scheduling_array[u]] = "schedule"
      BY <2>1, <2>4, <1>1 DEF Core, WaitingTerminalsResumable
    <3>2. schedule_esp'[scheduling_array[u]] = schedule_esp[scheduling_array[u]]
          /\ saved'[scheduling_array[u]] = saved[scheduling_array[u]]
      BY <2>1, <2>4, <1>10, <1>12
    <3>. QED  BY <2>1, <2>2, <3>1, <3>2
  <2>. QED  BY <2>3, <2>4
<1>18. ShellKept'
  <2>. SUFFICES ASSUME NEW u \in Terms, Booted(u)'
       PROVE  Used(u)' /\ pcb'[u].term_id = u
    BY DEF ShellKept
  <2>1. u # t => Used(u) /\ pcb[u].term_id = u
    BY <1>1, <1>8 DEF Core, ShellKept
  <2>. QED  BY <2>1, <1>8, <1>9
<1>. QED  BY <1>7, <1>13, <1>14, <1>15, <1>16, <1>17, <1>18 DEF Core
\* The switch to the next terminal: the frame it resumes is the right one.
LEMMA SwitchNextCore ==
  ASSUME TypeInv, Core, SwitchNext
  PROVE  Core' /\ machine' = "run"
<1>. USE TermsArePids DEF Used
<1>. DEFINE s == scheduled_process
            t == next_scheduling_term
            old == scheduling_array[s]
            next == scheduling_array[t]
            frame == FramesSaved[next]
<1>1. machine = "run" /\ AllBooted /\ s \in Terms
  BY DEF SwitchNext, TypeInv, TypeOK
<1>2. t \in Terms
  BY ProcessAssumption DEF next_scheduling_term, TypeInv, TypeOK, Terms
<1>3. /\ \A u \in Terms : Booted(u) /\ scheduling_array[u] \in Pids
      /\ kesp = old
  BY <1>1 DEF AllBooted, Booted, TypeInv, TypeOK, Core, Coherent
<1>4. \A u, v \in Terms : scheduling_array[u] = scheduling_array[v] => u = v
  BY <1>3 DEF Core, Foreground
<1>5. /\ FramesSaved[old] = old /\ StacksSaved[old] = "schedule"
      /\ \A p \in Pids : p # old => FramesSaved[p] = schedule_esp[p] /\ StacksSaved[p] = saved[p]
  BY <1>1, <1>3 DEF FramesSaved, StacksSaved, TypeInv, TypeOK
<1>6. \A u \in Terms : LET p == scheduling_array[u]
                       IN  FramesSaved[p] = p /\ StacksSaved[p] = "schedule"
  <2>. SUFFICES ASSUME NEW u \in Terms
       PROVE  /\ FramesSaved[scheduling_array[u]] = scheduling_array[u]
              /\ StacksSaved[scheduling_array[u]] = "schedule"
    OBVIOUS
  <2>1. CASE u = s
    BY <2>1, <1>5
  <2>2. CASE u # s
    <3>1. schedule_esp[scheduling_array[u]] = scheduling_array[u]
          /\ saved[scheduling_array[u]] = "schedule"
      BY <2>2, <1>1, <1>3 DEF Core, WaitingTerminalsResumable
    <3>. QED  BY <2>2, <3>1, <1>1, <1>3, <1>4, <1>5
  <2>. QED  BY <2>1, <2>2
<1>7. /\ pid_array' = pid_array /\ pcb' = pcb /\ scheduling_array' = scheduling_array
      /\ scheduled_process' = t /\ curr_pid' = next /\ tss_esp0' = next /\ user_page' = next
      /\ running_flag' = running_flag
      /\ schedule_esp' = FramesSaved
  BY DEF SwitchNext
<1>8. frame # NoFrame /\ frame = next /\ StacksSaved[frame] = "schedule"
  BY <1>2, <1>3, <1>6
<1>9. saved' = [StacksSaved EXCEPT ![next] = "none"] /\ kesp' = next /\ machine' = "run"
  BY <1>1, <1>8 DEF SwitchNext
<1>10. /\ \A p \in Pids : Used(p)' <=> Used(p)
       /\ \A u \in Terms : Booted(u)' <=> Booted(u)
  BY <1>7 DEF Used, Booted
<1>11. /\ saved'[next] = "none"
       /\ \A p \in Pids : p # next => saved'[p] = StacksSaved[p]
  BY <1>2, <1>3, <1>9, SavedType, <1>1 DEF TypeInv, TypeOK
<1>12. \A p \in Pids : saved[p] = "execute" => saved'[p] = "execute"
  <2>1. saved[old] # "execute" /\ saved[next] # "execute"
    BY <1>1, <1>2, <1>3 DEF Core, Foreground
  <2>. QED  BY <2>1, <1>5, <1>11
<1>13. BootOrder'
  BY <1>1, <1>7, <1>10 DEF Core, BootOrder, AllBooted
<1>14. Foreground'
  BY <1>2, <1>3, <1>6, <1>7, <1>10, <1>11 DEF Core, Foreground, Used
<1>15. OneCallee' /\ ShellKept'
  BY <1>1, <1>7, <1>10 DEF Core, OneCallee, ShellKept, Used
<1>16. Coherent'
  BY <1>2, <1>3, <1>7, <1>9, <1>10 DEF Coherent
<1>17. ParentIsCaller'
  <2>. SUFFICES ASSUME NEW p \in Pids, Used(p)', ~IsFirstShell(p)
       PROVE  /\ pcb'[p].parent_pid = pcb'[p].old_esp
              /\ pid_array'[pcb'[p].parent_pid] = USED
              /\ saved'[pcb'[p].parent_pid] = "execute"
              /\ pcb'[pcb'[p].parent_pid].term_id = pcb'[p].term_id
    BY DEF ParentIsCaller, IsFirstShell
  <2>1. /\ pcb[p].parent_pid = pcb[p].old_esp /\ Used(pcb[p].parent_pid)
        /\ saved[pcb[p].parent_pid] = "execute"
        /\ pcb[pcb[p].parent_pid].term_id = pcb[p].term_id
    BY <1>1, <1>10 DEF Core, ParentIsCaller
  <2>2. pcb[p].parent_pid \in Pids
    BY <1>1 DEF TypeInv, RealPids
  <2>. QED  BY <2>1, <2>2, <1>7, <1>10, <1>12
<1>18. WaitingTerminalsResumable'
  <2>. SUFFICES ASSUME NEW u \in Terms, u # t
       PROVE  /\ Used(scheduling_array[u])
              /\ pcb[scheduling_array[u]].term_id = u
              /\ FramesSaved[scheduling_array[u]] = scheduling_array[u]
              /\ saved'[scheduling_array[u]] = "schedule"
    BY <1>7 DEF WaitingTerminalsResumable, Used
  <2>1. Used(scheduling_array[u]) /\ pcb[scheduling_array[u]].term_id = u
    BY <1>3 DEF Core, Foreground
  <2>2. scheduling_array[u] # next
    BY <1>2, <1>4
  <2>. QED  BY <2>1, <2>2, <1>3, <1>6, <1>11
<1>. QED  BY <1>9, <1>13, <1>14, <1>15, <1>16, <1>17, <1>18 DEF Core

\* A program executed from the terminal on display, after boot.
LEMMA ExecuteCore ==
  ASSUME TypeInv, Core, Execute, Disciplined
  PROVE  Core' /\ machine' = "run"
<1>. USE TermsArePids, FirstShells DEF Used
<1>. DEFINE s == scheduled_process
            me == scheduling_array[s]
            sv == [saved EXCEPT ![kesp] = "execute"]
<1>1. /\ machine = "run" /\ AllBooted /\ s \in Terms /\ curr_term = s
      /\ scheduled_process' = s /\ curr_term' = s
  BY DEF Execute, Disciplined, control, TypeInv, TypeOK
<1>2. PICK pid \in Pids : /\ IsFirstUnused(pid, pid_array)
                          /\ Launch(pid, pid_array, schedule_esp, kesp, sv, running_flag)
  BY DEF Execute
<1>3. pid \notin Terms /\ ~Used(pid) /\ ~IsFirstShell(pid)
  BY <1>1, <1>2, ExecutePid
<1>4. /\ \A u \in Terms : Booted(u) /\ scheduling_array[u] \in Pids
      /\ kesp = me
      /\ Used(me) /\ pcb[me].term_id = s /\ saved[me] # "execute" /\ me # pid
  BY <1>1, <1>3 DEF AllBooted, Booted, TypeInv, TypeOK, Core, Coherent, Foreground
<1>5. TermOf(pid) = s /\ ParentOf(pid) = me
  BY <1>1, <1>3 DEF TermOf, ParentOf
<1>6. /\ pid_array' = [pid_array EXCEPT ![pid] = USED]
      /\ pcb' = [pcb EXCEPT ![pid] = [parent_pid |-> me, term_id |-> s, old_esp |-> me]]
      /\ schedule_esp' = [schedule_esp EXCEPT ![pid] = NoFrame]
      /\ scheduling_array' = [scheduling_array EXCEPT ![s] = pid]
      /\ saved' = [sv EXCEPT ![pid] = "none"]
      /\ curr_pid' = pid /\ tss_esp0' = pid /\ user_page' = pid /\ kesp' = pid
      /\ machine' = "run"
  BY <1>1, <1>2, <1>3, <1>4, <1>5 DEF Launch
<1>7. /\ \A p \in Pids : Used(p)' <=> Used(p) \/ p = pid
      /\ \A u \in Terms : Booted(u)' /\ (u # s => scheduling_array'[u] = scheduling_array[u])
      /\ scheduling_array'[s] = pid
  BY <1>1, <1>4, <1>6 DEF Used, Booted, TypeInv, TypeOK
<1>8. /\ \A p \in Pids : p # pid => pcb'[p] = pcb[p] /\ schedule_esp'[p] = schedule_esp[p]
      /\ pcb'[pid].parent_pid = me /\ pcb'[pid].term_id = s /\ pcb'[pid].old_esp = me
  BY <1>6 DEF TypeInv, TypeOK
<1>9. /\ saved'[me] = "execute" /\ saved'[pid] = "none"
      /\ \A p \in Pids : p # pid /\ p # me => saved'[p] = saved[p]
  BY <1>1, <1>4, <1>6 DEF TypeInv, TypeOK
<1>10. \A u \in Terms : scheduling_array[u] # pid /\ (u # s => scheduling_array[u] # me)
  BY <1>1, <1>3, <1>4 DEF Core, Foreground
<1>11. \A p \in Pids : Used(p) /\ p \notin Terms =>
         /\ pcb[p].parent_pid = pcb[p].old_esp
         /\ pcb[p].old_esp \in Pids
         /\ Used(pcb[p].parent_pid)
         /\ saved[pcb[p].parent_pid] = "execute"
         /\ pcb[p].old_esp # me
         /\ pcb[pcb[p].parent_pid].term_id = pcb[p].term_id
  BY <1>1, <1>4 DEF Core, ParentIsCaller, TypeInv, RealPids
<1>12. BootOrder'
  BY <1>1, <1>4, <1>7, <1>3 DEF BootOrder, AllBooted
<1>13. Foreground'
  <2>. SUFFICES ASSUME NEW u \in Terms
       PROVE  /\ pid_array'[scheduling_array'[u]] = USED
              /\ pcb'[scheduling_array'[u]].term_id = u
              /\ saved'[scheduling_array'[u]] # "execute"
    BY DEF Foreground
  <2>1. CASE u = s
    BY <2>1, <1>6, <1>7, <1>8, <1>9 DEF Used, TypeInv, TypeOK
  <2>2. CASE u # s
    <3>1. /\ Used(scheduling_array[u]) /\ pcb[scheduling_array[u]].term_id = u
          /\ saved[scheduling_array[u]] # "execute"
      BY <1>4 DEF Core, Foreground
    <3>2. pid_array'[scheduling_array'[u]] = USED
      BY <2>2, <3>1, <1>4, <1>6, <1>7, <1>10 DEF Used, TypeInv, TypeOK
    <3>3. /\ scheduling_array[u] \in Pids
          /\ scheduling_array[u] # pid /\ scheduling_array[u] # me
          /\ scheduling_array'[u] = scheduling_array[u]
      BY <2>2, <1>4, <1>7, <1>10
    <3>4. /\ pcb'[scheduling_array[u]] = pcb[scheduling_array[u]]
          /\ saved'[scheduling_array[u]] = saved[scheduling_array[u]]
      BY <3>3, <1>8, <1>9
    <3>. QED  BY <3>1, <3>2, <3>3, <3>4
  <2>. QED  BY <2>1, <2>2
<1>14. OneCallee'
  <2>. SUFFICES ASSUME NEW p \in Pids, NEW q \in Pids,
                       Used(p)', p \notin Terms, Used(q)', q \notin Terms,
                       pcb'[p].old_esp = pcb'[q].old_esp
       PROVE  p = q
    BY DEF OneCallee, IsFirstShell
  <2>1. CASE p # pid /\ q # pid
    BY <2>1, <1>7, <1>8 DEF Core, OneCallee
  <2>2. CASE p = pid \/ q = pid
    BY <2>2, <1>7, <1>8, <1>11
  <2>. QED  BY <2>1, <2>2
<1>15. Coherent'
  BY <1>1, <1>6, <1>7 DEF Coherent
<1>16. ParentIsCaller'
  <2>. SUFFICES ASSUME NEW p \in Pids, Used(p)', p \notin Terms
       PROVE  /\ pcb'[p].parent_pid = pcb'[p].old_esp
              /\ pid_array'[pcb'[p].parent_pid] = USED
              /\ saved'[pcb'[p].parent_pid] = "execute"
              /\ pcb'[pcb'[p].parent_pid].term_id = pcb'[p].term_id
    BY DEF ParentIsCaller, IsFirstShell
  <2>1. CASE p = pid
    <3>1. pid_array'[me] = USED /\ pcb'[me] = pcb[me]
      BY <1>1, <1>4, <1>7, <1>8
    <3>. QED  BY <2>1, <3>1, <1>4, <1>8, <1>9
  <2>2. CASE p # pid
    <3>1. pcb[p].parent_pid # pid /\ pcb[p].parent_pid # me /\ pcb[p].parent_pid \in Pids
      BY <2>2, <1>3, <1>7, <1>11
    <3>2. /\ pcb'[p] = pcb[p]
          /\ pcb'[pcb[p].parent_pid] = pcb[pcb[p].parent_pid]
          /\ saved'[pcb[p].parent_pid] = saved[pcb[p].parent_pid]
      BY <2>2, <3>1, <1>8, <1>9
    <3>3. /\ pcb[p].parent_pid = pcb[p].old_esp
          /\ Used(pcb[p].parent_pid)
          /\ saved[pcb[p].parent_pid] = "execute"
          /\ pcb[pcb[p].parent_pid].term_id = pcb[p].term_id
      BY <2>2, <1>7, <1>11
    <3>4. pid_array'[pcb[p].parent_pid] = USED
      BY <3>1, <3>3, <1>7
    <3>. QED  BY <3>2, <3>3, <3>4
  <2>. QED  BY <2>1, <2>2
<1>17. WaitingTerminalsResumable'
  <2>. SUFFICES ASSUME NEW u \in Terms, u # s
       PROVE  /\ pid_array'[scheduling_array'[u]] = USED
              /\ pcb'[scheduling_array'[u]].term_id = u
              /\ schedule_esp'[scheduling_array'[u]] = scheduling_array'[u]
              /\ saved'[scheduling_array'[u]] = "schedule"
    BY <1>1 DEF WaitingTerminalsResumable
  <2>1. pid_array'[scheduling_array'[u]] = USED /\ pcb'[scheduling_array'[u]].term_id = u
    BY <1>7, <1>13 DEF Foreground
  <2>2. schedule_esp[scheduling_array[u]] = scheduling_array[u]
        /\ saved[scheduling_array[u]] = "schedule"
    BY <1>1, <1>4 DEF Core, WaitingTerminalsResumable
  <2>3. /\ scheduling_array[u] \in Pids
        /\ scheduling_array[u] # pid /\ scheduling_array[u] # me
        /\ scheduling_array'[u] = scheduling_array[u]
    BY <1>4, <1>7, <1>10
  <2>4. /\ schedule_esp'[scheduling_array[u]] = schedule_esp[scheduling_array[u]]
        /\ saved'[scheduling_array[u]] = saved[scheduling_array[u]]
    BY <2>3, <1>8, <1>9
  <2>. QED  BY <2>1, <2>2, <2>3, <2>4
<1>18. ShellKept'
  BY <1>1, <1>3, <1>4, <1>7, <1>8 DEF Core, ShellKept
<1>. QED  BY <1>6, <1>12, <1>13, <1>14, <1>15, <1>16, <1>17, <1>18 DEF Core
\* The restart of a first shell: it comes back with the same pid on the same terminal.
LEMMA RestartCore ==
  ASSUME TypeInv, Core, machine = "run", Booted(0), Restarts,
         NEW rf \in {0, 1}, RestartShell(rf), scheduled_process' = scheduled_process
  PROVE  Core' /\ machine' = "run"
<1>. USE TermsArePids, FirstShells DEF Used
<1>. DEFINE s == scheduled_process
<1>1. PICK pid \in Pids : /\ IsFirstUnused(pid, PidsFreed)
                          /\ Launch(pid, PidsFreed, schedule_esp, kesp, saved, rf)
  BY DEF RestartShell
<1>2. pid = curr_pid /\ curr_pid = s /\ s \in Terms
  BY <1>1, RestartPid DEF TypeInv, TypeOK
<1>3. TermOf(s) = s /\ ParentOf(s) = 0
  BY <1>2 DEF TermOf, ParentOf
<1>4. Booted(s) /\ scheduling_array[s] = s /\ kesp = s /\ Used(s) /\ saved[s] # "execute"
  BY <1>2 DEF Core, Coherent, Foreground
<1>5. /\ pid_array' = [PidsFreed EXCEPT ![s] = USED]
      /\ pcb' = [pcb EXCEPT ![s] = [parent_pid |-> 0, term_id |-> s, old_esp |-> s]]
      /\ schedule_esp' = [schedule_esp EXCEPT ![s] = s]
      /\ scheduling_array' = [scheduling_array EXCEPT ![s] = s]
      /\ saved' = [saved EXCEPT ![s] = "none"]
      /\ curr_pid' = s /\ tss_esp0' = s /\ user_page' = s /\ kesp' = s
      /\ machine' = "run"
  BY <1>1, <1>2, <1>3, <1>4 DEF Launch, NoPid
<1>6. /\ pid_array' = pid_array /\ scheduling_array' = scheduling_array
  BY <1>2, <1>4, <1>5 DEF PidsFreed, TypeInv, TypeOK, UNUSED, USED
<1>7. /\ \A p \in Pids : p # s => /\ pcb'[p] = pcb[p]
                                  /\ schedule_esp'[p] = schedule_esp[p]
                                  /\ saved'[p] = saved[p]
      /\ pcb'[s].term_id = s /\ saved'[s] = "none"
  BY <1>2, <1>5 DEF TypeInv, TypeOK
<1>8. \A u \in Terms : /\ Booted(u)' <=> Booted(u)
                       /\ u # s /\ Booted(u) => /\ scheduling_array[u] \in Pids
                                                /\ scheduling_array[u] # s
  BY <1>2, <1>4, <1>6 DEF Booted, Core, Foreground, TypeInv, TypeOK
<1>9. \A p \in Pids : pcb'[p].term_id = pcb[p].term_id
  BY <1>2, <1>4, <1>7 DEF Core, Foreground
<1>10. BootOrder'
  BY <1>6, <1>8 DEF Core, BootOrder, AllBooted
<1>11. Foreground'
  <2>. SUFFICES ASSUME NEW u \in Terms, Booted(u)
       PROVE  /\ pid_array[scheduling_array[u]] = USED
              /\ pcb'[scheduling_array[u]].term_id = u
              /\ saved'[scheduling_array[u]] # "execute"
    BY <1>6, <1>8 DEF Foreground
  <2>1. /\ Used(scheduling_array[u]) /\ pcb[scheduling_array[u]].term_id = u
        /\ saved[scheduling_array[u]] # "execute"
    BY DEF Core, Foreground
  <2>2. CASE u = s
    BY <2>1, <2>2, <1>4, <1>7
  <2>3. CASE u # s
    BY <2>1, <2>3, <1>7, <1>8
  <2>. QED  BY <2>2, <2>3
<1>12. OneCallee'
  <2>. SUFFICES ASSUME NEW p \in Pids, NEW q \in Pids,
                       Used(p), p \notin Terms, Used(q), q \notin Terms,
                       pcb'[p].old_esp = pcb'[q].old_esp
       PROVE  p = q
    BY <1>6 DEF OneCallee, IsFirstShell
  <2>. QED  BY <1>2, <1>7 DEF Core, OneCallee
<1>13. Coherent'
  BY <1>2, <1>4, <1>5, <1>6, <1>8 DEF Coherent
<1>14. ParentIsCaller'
  <2>. SUFFICES ASSUME NEW p \in Pids, Used(p), p \notin Terms
       PROVE  /\ pcb'[p].parent_pid = pcb'[p].old_esp
              /\ pid_array[pcb'[p].parent_pid] = USED
              /\ saved'[pcb'[p].parent_pid] = "execute"
              /\ pcb'[pcb'[p].parent_pid].term_id = pcb'[p].term_id
    BY <1>6 DEF ParentIsCaller, IsFirstShell
  <2>1. /\ pcb[p].parent_pid = pcb[p].old_esp /\ Used(pcb[p].parent_pid)
        /\ saved[pcb[p].parent_pid] = "execute" /\ pcb[p].parent_pid \in Pids
        /\ pcb[pcb[p].parent_pid].term_id = pcb[p].term_id
    BY DEF Core, ParentIsCaller, TypeInv, RealPids
  <2>2. pcb[p].parent_pid # s
    BY <2>1, <1>4
  <2>. QED  BY <2>1, <2>2, <1>2, <1>7
<1>15. WaitingTerminalsResumable'
  <2>. SUFFICES ASSUME NEW u \in Terms, Booted(u), u # s
       PROVE  /\ pid_array[scheduling_array[u]] = USED
              /\ pcb'[scheduling_array[u]].term_id = u
              /\ schedule_esp'[scheduling_array[u]] = scheduling_array[u]
              /\ saved'[scheduling_array[u]] = "schedule"
    BY <1>6, <1>8 DEF WaitingTerminalsResumable
  <2>1. /\ Used(scheduling_array[u]) /\ pcb[scheduling_array[u]].term_id = u
        /\ schedule_esp[scheduling_array[u]] = scheduling_array[u]
        /\ saved[scheduling_array[u]] = "schedule"
    BY DEF Core, WaitingTerminalsResumable
  <2>. QED  BY <2>1, <1>7, <1>8
<1>16. ShellKept'
  BY <1>6, <1>8, <1>9 DEF Core, ShellKept
<1>. QED  BY <1>5, <1>10, <1>11, <1>12, <1>13, <1>14, <1>15, <1>16 DEF Core

\* The return to the caller: the frame sys_halt jumps into is the caller's.
LEMMA ReturnCore ==
  ASSUME TypeInv, Core, machine = "run", Booted(0), ~Restarts,
         NEW value, NEW rf \in {0, 1}, ReturnToParent(value, rf),
         scheduled_process' = scheduled_process
  PROVE  Core' /\ machine' = "run"
<1>. USE TermsArePids, FirstShells DEF Used
<1>. DEFINE s == scheduled_process
            me == curr_pid
            up == pcb[me].parent_pid
<1>1. /\ s \in Terms /\ Booted(s) /\ scheduling_array[s] = me
      /\ me \in Pids /\ Used(me) /\ pcb[me].term_id = s /\ saved[me] # "execute"
  BY DEF TypeInv, TypeOK, RealPids, Core, Coherent, Foreground
<1>2. ~IsFirstShell(me) /\ me \notin Terms
  BY <1>1 DEF Restarts, IsFirstShell
<1>3. /\ up = pcb[me].old_esp /\ up \in Pids /\ Used(up) /\ saved[up] = "execute"
      /\ pcb[up].term_id = s /\ up # me
  BY <1>1, <1>2 DEF Core, ParentIsCaller, TypeInv, RealPids
<1>4. /\ pid_array' = PidsFreed
      /\ scheduling_array' = [scheduling_array EXCEPT ![s] = up]
      /\ saved' = [saved EXCEPT ![up] = "none"]
      /\ curr_pid' = up /\ tss_esp0' = up /\ user_page' = up /\ kesp' = up
      /\ pcb' = pcb /\ schedule_esp' = schedule_esp
      /\ machine' = "run"
  BY <1>1, <1>3 DEF ReturnToParent
<1>5. \A p \in Pids : pid_array'[p] = USED <=> Used(p) /\ p # me
  BY <1>1, <1>4 DEF PidsFreed, TypeInv, TypeOK, UNUSED, USED
<1>6. /\ \A u \in Terms : Booted(u)' <=> Booted(u)
      /\ \A u \in Terms : u # s => scheduling_array'[u] = scheduling_array[u]
      /\ scheduling_array'[s] = up
  BY <1>1, <1>3, <1>4 DEF Booted, TypeInv, TypeOK
<1>7. saved'[up] = "none" /\ \A p \in Pids : p # up => saved'[p] = saved[p]
  BY <1>3, <1>4 DEF TypeInv, TypeOK
<1>8. \A u \in Terms : u # s /\ Booted(u) => /\ scheduling_array[u] \in Pids
                                             /\ scheduling_array[u] # me
                                             /\ scheduling_array[u] # up
  BY <1>1, <1>3 DEF Booted, Core, Foreground, TypeInv, TypeOK
<1>9. BootOrder'
  <2>1. Booted(0)' /\ (AllBooted' <=> AllBooted)
    BY <1>6 DEF AllBooted
  <2>2. \A u \in Terms : pid_array'[u] = USED => Used(u)
    BY <1>5
  <2>. QED  BY <2>1, <2>2, <1>5, <1>6 DEF Core, BootOrder, IsFirstShell
<1>10. Foreground'
  <2>. SUFFICES ASSUME NEW u \in Terms, Booted(u)
       PROVE  /\ pid_array'[scheduling_array'[u]] = USED
              /\ pcb[scheduling_array'[u]].term_id = u
              /\ saved'[scheduling_array'[u]] # "execute"
    BY <1>4, <1>6 DEF Foreground
  <2>1. CASE u = s
    BY <2>1, <1>3, <1>5, <1>6, <1>7
  <2>2. CASE u # s
    <3>1. /\ Used(scheduling_array[u]) /\ pcb[scheduling_array[u]].term_id = u
          /\ saved[scheduling_array[u]] # "execute"
      BY DEF Core, Foreground
    <3>2. scheduling_array'[u] = scheduling_array[u]
      BY <2>2, <1>6
    <3>3. scheduling_array[u] \in Pids /\ scheduling_array[u] # me
          /\ scheduling_array[u] # up
      BY <2>2, <1>8
    <3>. QED  BY <3>1, <3>2, <3>3, <1>5, <1>7
  <2>. QED  BY <2>1, <2>2
<1>11. OneCallee'
  <2>. SUFFICES ASSUME NEW p \in Pids, NEW q \in Pids,
                       Used(p), p \notin Terms, Used(q), q \notin Terms,
                       pcb[p].old_esp = pcb[q].old_esp
       PROVE  p = q
    BY <1>4, <1>5 DEF OneCallee, IsFirstShell
  <2>. QED  BY DEF Core, OneCallee
<1>12. Coherent'
  BY <1>1, <1>3, <1>4, <1>6 DEF Coherent, Booted
<1>13. ParentIsCaller'
  <2>. SUFFICES ASSUME NEW p \in Pids, Used(p), p # me, p \notin Terms
       PROVE  /\ pcb[p].parent_pid = pcb[p].old_esp
              /\ pid_array'[pcb[p].parent_pid] = USED
              /\ saved'[pcb[p].parent_pid] = "execute"
              /\ pcb[pcb[p].parent_pid].term_id = pcb[p].term_id
    BY <1>4, <1>5 DEF ParentIsCaller, IsFirstShell
  <2>1. /\ pcb[p].parent_pid = pcb[p].old_esp /\ Used(pcb[p].parent_pid)
        /\ saved[pcb[p].parent_pid] = "execute" /\ pcb[p].parent_pid \in Pids
        /\ pcb[pcb[p].parent_pid].term_id = pcb[p].term_id
    BY DEF Core, ParentIsCaller, TypeInv, RealPids
  <2>2. pcb[p].parent_pid # up
    BY <2>1, <1>1, <1>2, <1>3 DEF Core, OneCallee
  <2>3. pcb[p].parent_pid # me
    BY <2>1, <1>1
  <2>. QED  BY <2>1, <2>2, <2>3, <1>5, <1>7
<1>14. WaitingTerminalsResumable'
  <2>. SUFFICES ASSUME NEW u \in Terms, Booted(u), u # s
       PROVE  /\ pid_array'[scheduling_array[u]] = USED
              /\ pcb[scheduling_array[u]].term_id = u
              /\ schedule_esp[scheduling_array[u]] = scheduling_array[u]
              /\ saved'[scheduling_array[u]] = "schedule"
    BY <1>4, <1>6 DEF WaitingTerminalsResumable
  <2>1. /\ Used(scheduling_array[u]) /\ pcb[scheduling_array[u]].term_id = u
        /\ schedule_esp[scheduling_array[u]] = scheduling_array[u]
        /\ saved[scheduling_array[u]] = "schedule"
    BY DEF Core, WaitingTerminalsResumable
  <2>. QED  BY <2>1, <1>5, <1>7, <1>8
<1>15. ShellKept'
  BY <1>2, <1>4, <1>5, <1>6 DEF Core, ShellKept
<1>. QED  BY <1>4, <1>9, <1>10, <1>11, <1>12, <1>13, <1>14, <1>15 DEF Core

LEMMA HaltCore ==
  ASSUME TypeInv, Core, machine = "run", Booted(0),
         NEW flag, NEW status, NEW rf \in {0, 1}, NEW ending,
         sys_halt(flag, status, rf, ending)
  PROVE  Core' /\ machine' = "run"
<1>1. scheduled_process' = scheduled_process
  BY DEF sys_halt
<1>2. CASE Restarts
  BY <1>1, <1>2, RestartCore DEF sys_halt
<1>3. CASE ~Restarts
  BY <1>1, <1>3, ReturnCore DEF sys_halt
<1>. QED  BY <1>2, <1>3

\* A key ends a process only after boot has begun: running_flag is clear before.
LEMMA KeyCore ==
  ASSUME TypeInv, Core, machine = "run", NEW ch, KeyboardTail(ch)
  PROVE  Core' /\ machine' = "run"
<1>1. CASE running_flag = 1 /\ ch = 1
  <2>1. Booted(0)
    BY <1>1 DEF Core, BootOrder
  <2>2. sys_halt(exception_flag, 255, 0, "normal")
    BY <1>1 DEF KeyboardTail
  <2>. QED  BY <2>1, <2>2, HaltCore
<1>2. CASE ~(running_flag = 1 /\ ch = 1)
  <2>1. UNCHANGED core /\ machine' = machine
    BY <1>2 DEF KeyboardTail, core
  <2>. QED  BY <2>1, CoreUnchanged
<1>. QED  BY <1>1, <1>2

\* Every step keeps the core invariant, and no step resumes a wrong frame.
LEMMA CoreStep ==
  ASSUME Disciplined, TypeInv, NeverWild, machine = "run" => Core, [Next]_vars
  PROVE  NeverWild' /\ (machine' = "run" => Core')
<1>. USE TermsArePids
<1>. SUFFICES (machine' = "run" /\ Core') \/ machine' = "frozen"
               \/ (machine' = machine /\ machine # "run")
  BY DEF NeverWild
<1>1. CASE BootFirst
  BY <1>1, BootFirstCore DEF BootFirst
<1>2. ASSUME NEW t \in Terms, BootNext(t) PROVE Core' /\ machine' = "run"
  BY <1>2, BootNextCore DEF BootNext
<1>3. ASSUME NEW t \in Terms, BootNextFails(t) PROVE FALSE
  BY <1>3 DEF BootNextFails, Core, BootOrder, Used
<1>4. CASE TickNoPcb
  BY <1>4 DEF TickNoPcb, Core, Coherent
<1>5. CASE SwitchNext
  BY <1>5, SwitchNextCore DEF SwitchNext
<1>6. CASE Execute
  BY <1>6, ExecuteCore DEF Execute
<1>7. CASE ExecuteEmpty \/ ExecuteBadFile \/ ExecuteNoPid
  <2>1. machine = "run" /\ machine' = machine /\ UNCHANGED core
    BY <1>7 DEF ExecuteEmpty, ExecuteBadFile, ExecuteNoPid, ExecuteReturns, control, core
  <2>. QED  BY <2>1, CoreUnchanged
<1>8. ASSUME NEW status \in Statuses, Halt(status) PROVE Core' /\ machine' = "run"
  <2>1. machine = "run" /\ Booted(0) /\ running_flag \in {0, 1}
        /\ sys_halt(exception_flag, status, running_flag, "normal")
    BY <1>8 DEF Halt, TypeInv, TypeOK
  <2>. QED  BY <2>1, HaltCore
<1>9. ASSUME NEW errorCode \in {0, 1}, Exception(errorCode) PROVE Core' /\ machine' = "run"
  <2>1. machine = "run" /\ Booted(0) /\ running_flag \in {0, 1}
        /\ sys_halt(1, 255, running_flag, "exception")
    BY <1>9 DEF Exception, TypeInv, TypeOK
  <2>. QED  BY <2>1, HaltCore
<1>10. ASSUME NEW errorCode \in {0, 1}, ExceptionFreezes(errorCode) PROVE machine' = "frozen"
  BY <1>10 DEF ExceptionFreezes
<1>11. CASE CtrlC
  BY <1>11, KeyCore DEF CtrlC
<1>12. CASE OtherKey
  BY <1>12, KeyCore DEF OtherKey
<1>13. ASSUME NEW t \in Terms, SwitchTerm(t) PROVE Core' /\ machine' = "run"
  BY <1>13, KeyCore DEF SwitchTerm
<1>14. CASE Spin
  BY <1>14 DEF Spin, vars
<1>15. CASE UNCHANGED vars
  <2>1. UNCHANGED core /\ machine' = machine
    BY <1>15 DEF vars, core
  <2>. QED  BY <2>1, CoreUnchanged
<1>. QED
  BY <1>1, <1>2, <1>3, <1>4, <1>5, <1>6, <1>7, <1>8, <1>9, <1>10, <1>11, <1>12, <1>13, <1>14,
     <1>15 DEF Next, Tick

LEMMA CoreInit == Init => TypeInv /\ NeverWild /\ Core
<1>. SUFFICES ASSUME Init PROVE TypeInv /\ NeverWild /\ Core
  OBVIOUS
<1>. USE TermsArePids
<1>1. TypeInv /\ NeverWild
  BY DEF Init, TypeInv, TypeOK, RealPids, NeverWild, Pcb, Activations, Endings, UNUSED, USED
<1>2. (\A t \in Terms : ~Booted(t)) /\ \A p \in Pids : ~Used(p)
  BY DEF Init, Booted, Used, UNUSED, USED
<1>3. BootOrder
  BY <1>2 DEF BootOrder, Init
<1>4. Foreground /\ OneCallee /\ Coherent
  BY <1>2 DEF Foreground, OneCallee, Coherent
<1>5. ParentIsCaller /\ WaitingTerminalsResumable /\ ShellKept
  BY <1>2 DEF ParentIsCaller, WaitingTerminalsResumable, ShellKept
<1>. QED  BY <1>1, <1>3, <1>4, <1>5 DEF Core

\* For any number of terminals and pids: as long as programs execute only from the
\* terminal on display and after boot, the whole inductive invariant holds
\* (schedule.c:83-210, syscall.c:47-374).
THEOREM InvariantHolds == Disciplined => (Spec => []IInv)
<1>. SUFFICES ASSUME Disciplined PROVE Spec => []IInv
  OBVIOUS
<1>. DEFINE J == TypeInv /\ NeverWild /\ (machine = "run" => Core)
<1>1. Init => J
  BY CoreInit
<1>2. J /\ [Next]_vars => J'
  BY TypeStep, CoreStep
<1>3. J => IInv
  BY DEF IInv, TypeInv, Core
<1>. QED  BY <1>1, <1>2, <1>3, PTL DEF Spec

\* Under the same assumption no switch and no halt ever resumes a stale stack
\* (schedule.c:200-207, syscall.c:113-124).
THEOREM FramesAreRight == Disciplined => (Spec => []NeverWild)
<1>1. IInv => NeverWild
  BY DEF IInv
<1>. QED  BY <1>1, InvariantHolds, PTL

\* Under the same assumption curr_pid, the slot, the TSS, the page and the stack agree
\* (schedule.c:180-206, syscall.c:89-108, 307-315).
THEOREM AllViewsAgree == Disciplined => (Spec => []Coherent)
<1>1. IInv => Coherent
  BY DEF IInv, Coherent
<1>. QED  BY <1>1, InvariantHolds, PTL

\* Under the same assumption every executed process returns to the process that
\* executed it, still suspended in sys_execute (syscall.c:288-305).
THEOREM ReturnsToCaller == Disciplined => (Spec => []ParentIsCaller)
<1>1. IInv => ParentIsCaller
  BY DEF IInv, ParentIsCaller
<1>. QED  BY <1>1, InvariantHolds, PTL

-----------------------------------------------------------------------------
(* Who waits for whom: the calls between processes.  On top of the          *)
(* inductive invariant, no pid is ever leaked, everybody suspended in       *)
(* sys_execute has exactly one process that will come back to it, a stale   *)
(* exception never colours a later halt, and a step leaves the stacks of    *)
(* the terminals it does not schedule alone.                                *)

\* q is a process that p called with sys_execute and that has not ended.
Callee(q, p) == Used(q) /\ ~IsFirstShell(q) /\ pcb[q].old_esp = p

\* A used pid is in the foreground of a terminal or waits for a callee.
Held(p) == (\E t \in Terms : scheduling_array[t] = p) \/ \E q \in Pids : Callee(q, p)

\* What is added to the invariant: no pid without a holder, no call without an answer,
\* and no exception left over.
Calls ==
    /\ \A p \in Pids : Used(p) => Held(p)
    /\ \A p \in Pids : saved[p] = "execute" => \E q \in Pids : Callee(q, p)

\* A step that starts no call and ends none.
KeepsCalls ==
    /\ \A p \in Pids : Used(p) => pid_array'[p] = USED
    /\ \A p \in Pids : pid_array'[p] = USED => Used(p) \/ \E t \in Terms : scheduling_array'[t] = p
    /\ \A t \in Terms : Booted(t) => scheduling_array'[t] = scheduling_array[t]
    /\ \A q \in Pids : Used(q) /\ ~IsFirstShell(q) => pcb'[q].old_esp = pcb[q].old_esp
    /\ \A p \in Pids : saved'[p] = "execute" => saved[p] = "execute"

\* No pid is given back.
NoneFreed == \A p \in Pids : Used(p) => pid_array'[p] = USED

\* The stacks of the terminals that neither lose nor get the CPU stay as they were.
OthersKept ==
    \A t \in Terms \ {scheduled_process, scheduled_process'} :
        Booted(t) => /\ saved'[scheduling_array[t]] = saved[scheduling_array[t]]
                     /\ schedule_esp'[scheduling_array[t]] = schedule_esp[scheduling_array[t]]

\* Such a step keeps the calls.
LEMMA KeepsCallsIsEnough ==
  ASSUME TypeInv, Calls, KeepsCalls
  PROVE  Calls'
<1>. USE TermsArePids
<1>1. \A p, q \in Pids : Callee(q, p) => Callee(q, p)'
  BY DEF Callee, KeepsCalls, Used, IsFirstShell
<1>2. ASSUME NEW p \in Pids, Used(p)' PROVE Held(p)'
  <2>1. CASE \E t \in Terms : scheduling_array'[t] = p
    BY <2>1 DEF Held
  <2>2. CASE Used(p)
    <3>1. Held(p)
      BY <2>2 DEF Calls
    <3>2. CASE \E t \in Terms : scheduling_array[t] = p
      BY <3>2 DEF Held, KeepsCalls, Booted
    <3>3. CASE \E q \in Pids : Callee(q, p)
      BY <3>3, <1>1 DEF Held
    <3>. QED  BY <3>1, <3>2, <3>3 DEF Held
  <2>. QED  BY <1>2, <2>1, <2>2 DEF KeepsCalls, Used
<1>3. ASSUME NEW p \in Pids, saved'[p] = "execute" PROVE \E q \in Pids : Callee(q, p)'
  BY <1>1, <1>3 DEF Calls, KeepsCalls
<1>. QED  BY <1>2, <1>3 DEF Calls

\* The slots hold different pids, so a change to the stack of one is no change to another's.
LEMMA SlotsDiffer ==
  ASSUME TypeInv, Core
  PROVE  /\ \A t \in Terms : Booted(t) => scheduling_array[t] \in Pids
         /\ \A t, u \in Terms :
                Booted(t) /\ Booted(u) /\ scheduling_array[t] = scheduling_array[u] => t = u
  BY DEF Core, Foreground, Booted, TypeInv, TypeOK

LEMMA BootFirstCalls ==
  ASSUME TypeInv, Core, BootFirst
  PROVE  KeepsCalls /\ OthersKept
<1>. USE TermsArePids, FirstShells
<1>1. machine = "run" /\ ~Booted(0) /\ scheduled_process = 0 /\ kesp = 0
  BY DEF BootFirst, Core, BootOrder
<1>2. PICK pid \in Pids : /\ IsFirstUnused(pid, pid_array)
                          /\ Launch(pid, pid_array, schedule_esp, kesp, saved, running_flag)
  BY DEF BootFirst
<1>3. pid = 0 /\ TermOf(0) = 0
  BY <1>1, <1>2, BootPid DEF BootFirst, control, TermOf
<1>4. /\ pid_array' = [pid_array EXCEPT ![0] = USED]
      /\ scheduling_array' = [scheduling_array EXCEPT ![0] = 0]
      /\ saved' = [saved EXCEPT ![0] = "none"]
  BY <1>2, <1>3 DEF Launch
<1>5. (\A t \in Terms : ~Booted(t)) /\ \A p \in Pids : ~Used(p)
  BY <1>1 DEF Core, BootOrder
<1>6. \A p \in Pids : (pid_array'[p] = USED => p = 0) /\ saved'[p] # "execute"
  BY <1>1, <1>4, <1>5 DEF Used, Core, BootOrder, TypeInv, TypeOK
<1>7. scheduling_array'[0] = 0
  BY <1>4 DEF TypeInv, TypeOK
<1>8. KeepsCalls
  BY <1>5, <1>6, <1>7 DEF KeepsCalls
<1>9. OthersKept
  BY <1>5 DEF OthersKept
<1>. QED  BY <1>8, <1>9

LEMMA BootNextCalls ==
  ASSUME TypeInv, Core, NEW t \in Terms, BootNext(t)
  PROVE  KeepsCalls /\ OthersKept
<1>. USE TermsArePids, FirstShells
<1>. DEFINE old == scheduling_array[scheduled_process]
<1>1. /\ machine = "run" /\ Booted(scheduled_process) /\ ~Booted(t)
      /\ \A u \in Terms : u < t => Booted(u)
      /\ scheduled_process' = t /\ scheduled_process \in Terms
  BY DEF BootNext, TypeInv, TypeOK
<1>2. PICK pid \in Pids :
        /\ IsFirstUnused(pid, pid_array)
        /\ Launch(pid, pid_array, FramesSaved, t, [StacksSaved EXCEPT ![t] = "none"], running_flag)
  BY DEF BootNext
<1>3. pid = t /\ TermOf(t) = t
  BY <1>1, <1>2, BootPid DEF TermOf
<1>4. old \in Pids /\ kesp = old /\ ~Used(t)
  BY <1>1, SlotsDiffer DEF Core, Coherent, BootOrder
<1>5. /\ pid_array' = [pid_array EXCEPT ![t] = USED]
      /\ schedule_esp' = [FramesSaved EXCEPT ![t] = IF IsFirstShell(t) THEN t ELSE NoFrame]
      /\ scheduling_array' = [scheduling_array EXCEPT ![t] = t]
      /\ saved' = [[StacksSaved EXCEPT ![t] = "none"] EXCEPT ![t] = "none"]
      /\ \A p \in Pids : p # t => pcb'[p] = pcb[p]
  BY <1>2, <1>3 DEF Launch, TypeInv, TypeOK
<1>6. /\ \A p \in Pids : pid_array'[p] = USED <=> Used(p) \/ p = t
      /\ \A u \in Terms : u # t => scheduling_array'[u] = scheduling_array[u]
      /\ scheduling_array'[t] = t
  BY <1>5 DEF Used, TypeInv, TypeOK
<1>7. /\ saved'[t] = "none" /\ (old # t => saved'[old] = "schedule")
      /\ \A p \in Pids : p # t /\ p # old => saved'[p] = saved[p]
                                          /\ schedule_esp'[p] = schedule_esp[p]
  BY <1>4, <1>5 DEF StacksSaved, FramesSaved, TypeInv, TypeOK
<1>8. KeepsCalls
  BY <1>1, <1>4, <1>5, <1>6, <1>7 DEF KeepsCalls
<1>9. \A u \in Terms : Booted(u) => scheduling_array[u] # t
  BY <1>1, <1>4 DEF Core, Foreground
<1>10. OthersKept
  BY <1>1, <1>7, <1>9, SlotsDiffer DEF OthersKept
<1>. QED  BY <1>8, <1>10

LEMMA SwitchNextCalls ==
  ASSUME TypeInv, Core, SwitchNext
  PROVE  KeepsCalls /\ OthersKept
<1>. USE TermsArePids
<1>. DEFINE s == scheduled_process
            t == next_scheduling_term
            old == scheduling_array[s]
            next == scheduling_array[t]
<1>1. machine = "run" /\ AllBooted /\ s \in Terms /\ scheduled_process' = t
  BY DEF SwitchNext, TypeInv, TypeOK
<1>2. t \in Terms
  BY ProcessAssumption DEF next_scheduling_term, TypeInv, TypeOK, Terms
<1>3. kesp = old /\ old \in Pids /\ next \in Pids
  BY <1>1, <1>2, SlotsDiffer DEF AllBooted, Core, Coherent
<1>4. /\ schedule_esp' = FramesSaved /\ pid_array' = pid_array /\ pcb' = pcb
      /\ scheduling_array' = scheduling_array
  BY DEF SwitchNext
<1>5. /\ \A p \in Pids : p # old /\ p # next => saved'[p] = saved[p]
      /\ \A p \in Pids : p = old \/ p = next => saved'[p] \in {saved[p], "schedule", "none"}
  BY <1>1, <1>3 DEF SwitchNext, StacksSaved, FramesSaved, TypeInv, TypeOK
<1>6. \A p \in Pids : p # old => schedule_esp'[p] = schedule_esp[p]
  BY <1>3, <1>4 DEF FramesSaved, TypeInv, TypeOK
<1>7. KeepsCalls
  BY <1>4, <1>5 DEF KeepsCalls, Used
<1>8. OthersKept
  BY <1>1, <1>2, <1>5, <1>6, SlotsDiffer DEF OthersKept, AllBooted
<1>. QED  BY <1>7, <1>8

LEMMA RestartCalls ==
  ASSUME TypeInv, Core, machine = "run", Booted(0), Restarts,
         NEW rf, RestartShell(rf), scheduled_process' = scheduled_process
  PROVE  KeepsCalls /\ OthersKept
<1>. USE TermsArePids, FirstShells
<1>. DEFINE s == scheduled_process
<1>1. PICK pid \in Pids : /\ IsFirstUnused(pid, PidsFreed)
                          /\ Launch(pid, PidsFreed, schedule_esp, kesp, saved, rf)
  BY DEF RestartShell
<1>2. pid = curr_pid /\ curr_pid = s /\ s \in Terms /\ TermOf(pid) = s
  BY <1>1, RestartPid DEF TypeInv, TypeOK, TermOf
<1>3. Booted(s) /\ scheduling_array[s] = s /\ Used(s)
  BY <1>2 DEF Core, Coherent, Foreground
<1>4. /\ pid_array' = [PidsFreed EXCEPT ![s] = USED]
      /\ scheduling_array' = [scheduling_array EXCEPT ![s] = s]
      /\ \A p \in Pids : p # s => /\ saved'[p] = saved[p]
                                  /\ schedule_esp'[p] = schedule_esp[p]
                                  /\ pcb'[p] = pcb[p]
      /\ saved'[s] = "none"
  BY <1>1, <1>2 DEF Launch, TypeInv, TypeOK
<1>5. pid_array' = pid_array /\ scheduling_array' = scheduling_array
  BY <1>2, <1>3, <1>4 DEF PidsFreed, Used, TypeInv, TypeOK, UNUSED, USED
<1>6. KeepsCalls
  BY <1>2, <1>4, <1>5 DEF KeepsCalls, Used
<1>7. OthersKept
  BY <1>2, <1>3, <1>4, SlotsDiffer DEF OthersKept
<1>. QED  BY <1>6, <1>7

\* A program is executed: the caller leaves the foreground and waits for the new pid.
LEMMA ExecuteCalls ==
  ASSUME TypeInv, Core, Calls, Execute, Disciplined
  PROVE  Calls' /\ NoneFreed /\ OthersKept
<1>. USE TermsArePids, FirstShells DEF Used
<1>. DEFINE s == scheduled_process
            me == scheduling_array[s]
            sv == [saved EXCEPT ![kesp] = "execute"]
<1>1. /\ machine = "run" /\ AllBooted /\ s \in Terms /\ curr_term = s
      /\ scheduled_process' = s /\ curr_term' = s
  BY DEF Execute, Disciplined, control, TypeInv, TypeOK
<1>2. PICK pid \in Pids : /\ IsFirstUnused(pid, pid_array)
                          /\ Launch(pid, pid_array, schedule_esp, kesp, sv, running_flag)
  BY DEF Execute
<1>3. pid \notin Terms /\ ~Used(pid) /\ ~IsFirstShell(pid)
  BY <1>1, <1>2, ExecutePid
<1>4. kesp = me /\ me \in Pids /\ Used(me) /\ me # pid
  BY <1>1, <1>3, SlotsDiffer DEF AllBooted, Core, Coherent, Foreground
<1>5. TermOf(pid) = s
  BY <1>1, <1>3 DEF TermOf
<1>6. /\ pid_array' = [pid_array EXCEPT ![pid] = USED]
      /\ pcb' = [pcb EXCEPT ![pid] = [parent_pid |-> ParentOf(pid), term_id |-> s, old_esp |-> me]]
      /\ schedule_esp' = [schedule_esp EXCEPT ![pid] = NoFrame]
      /\ scheduling_array' = [scheduling_array EXCEPT ![s] = pid]
      /\ saved' = [sv EXCEPT ![pid] = "none"]
  BY <1>2, <1>3, <1>4, <1>5 DEF Launch
<1>7. /\ \A p \in Pids : Used(p)' <=> Used(p) \/ p = pid
      /\ \A u \in Terms : u # s => scheduling_array'[u] = scheduling_array[u]
      /\ scheduling_array'[s] = pid
  BY <1>1, <1>6 DEF TypeInv, TypeOK
<1>8. /\ \A p \in Pids : p # pid => pcb'[p] = pcb[p] /\ schedule_esp'[p] = schedule_esp[p]
      /\ pcb'[pid].old_esp = me
  BY <1>6 DEF TypeInv, TypeOK
<1>9. /\ saved'[pid] = "none"
      /\ \A p \in Pids : p # pid /\ p # me => saved'[p] = saved[p]
  BY <1>4, <1>6 DEF TypeInv, TypeOK
<1>10. \A p, q \in Pids : Callee(q, p) => Callee(q, p)'
  BY <1>3, <1>7, <1>8 DEF Callee, IsFirstShell
<1>11. \A p \in Pids : p = me => Callee(pid, p)'
  BY <1>3, <1>7, <1>8 DEF Callee, IsFirstShell
<1>12. ASSUME NEW p \in Pids, Used(p)' PROVE Held(p)'
  <2>1. CASE p = pid
    BY <2>1, <1>1, <1>7 DEF Held
  <2>2. CASE p = me
    BY <2>2, <1>11 DEF Held
  <2>3. CASE p # pid /\ p # me
    <3>1. Used(p) /\ Held(p)
      BY <2>3, <1>7, <1>12 DEF Calls
    <3>2. CASE \E u \in Terms : scheduling_array[u] = p
      BY <2>3, <3>2, <1>7 DEF Held
    <3>3. CASE \E q \in Pids : Callee(q, p)
      BY <3>3, <1>10 DEF Held
    <3>. QED  BY <3>1, <3>2, <3>3 DEF Held
  <2>. QED  BY <2>1, <2>2, <2>3
<1>13. ASSUME NEW p \in Pids, saved'[p] = "execute" PROVE \E q \in Pids : Callee(q, p)'
  <2>1. CASE p = me
    BY <2>1, <1>11
  <2>2. CASE p # me
    BY <2>2, <1>9, <1>10, <1>13 DEF Calls
  <2>. QED  BY <2>1, <2>2
<1>14. Calls'
  BY <1>12, <1>13 DEF Calls
<1>15. NoneFreed
  BY <1>7 DEF NoneFreed
<1>16. \A u \in Terms : Booted(u) => scheduling_array[u] # pid
  BY <1>3 DEF Core, Foreground
<1>17. OthersKept
  BY <1>1, <1>8, <1>9, <1>16, SlotsDiffer DEF OthersKept, AllBooted
<1>. QED  BY <1>14, <1>15, <1>17

\* A process returns: its caller, which waited for nobody else, is back in the foreground.
LEMMA ReturnCalls ==
  ASSUME TypeInv, Core, Calls, machine = "run", Booted(0), ~Restarts,
         NEW value, NEW rf, ReturnToParent(value, rf),
         scheduled_process' = scheduled_process
  PROVE  Calls' /\ OthersKept /\ eax' = value
<1>. USE TermsArePids, FirstShells DEF Used
<1>. DEFINE s == scheduled_process
            me == curr_pid
            up == pcb[me].parent_pid
<1>1. /\ s \in Terms /\ Booted(s) /\ scheduling_array[s] = me
      /\ me \in Pids /\ Used(me) /\ pcb[me].term_id = s
  BY DEF TypeInv, TypeOK, RealPids, Core, Coherent, Foreground
<1>2. ~IsFirstShell(me)
  BY DEF Restarts, IsFirstShell
<1>3. up = pcb[me].old_esp /\ up \in Pids /\ saved[up] = "execute" /\ Used(up)
  BY <1>1, <1>2 DEF Core, ParentIsCaller, TypeInv, RealPids
<1>4. /\ pid_array' = PidsFreed
      /\ scheduling_array' = [scheduling_array EXCEPT ![s] = up]
      /\ saved' = [saved EXCEPT ![up] = "none"]
      /\ pcb' = pcb /\ schedule_esp' = schedule_esp
      /\ eax' = value
  BY <1>1, <1>3 DEF ReturnToParent
<1>5. \A p \in Pids : Used(p)' <=> Used(p) /\ p # me
  BY <1>1, <1>4 DEF PidsFreed, TypeInv, TypeOK, UNUSED, USED
<1>6. /\ \A u \in Terms : u # s => scheduling_array'[u] = scheduling_array[u]
      /\ scheduling_array'[s] = up
  BY <1>1, <1>4 DEF TypeInv, TypeOK
<1>7. saved'[up] = "none" /\ \A p \in Pids : p # up => saved'[p] = saved[p]
  BY <1>3, <1>4 DEF TypeInv, TypeOK
<1>8. \A p, q \in Pids : Callee(q, p) /\ p # up => Callee(q, p)'
  BY <1>3, <1>4, <1>5 DEF Callee, IsFirstShell
<1>9. ASSUME NEW p \in Pids, Used(p)' PROVE Held(p)'
  <2>1. CASE p = up
    BY <2>1, <1>1, <1>6 DEF Held
  <2>2. CASE p # up
    <3>1. Held(p) /\ p # me
      BY <1>5, <1>9 DEF Calls
    <3>2. CASE \E u \in Terms : scheduling_array[u] = p
      BY <3>1, <3>2, <1>1, <1>6 DEF Held
    <3>3. CASE \E q \in Pids : Callee(q, p)
      BY <2>2, <3>3, <1>8 DEF Held
    <3>. QED  BY <3>1, <3>2, <3>3 DEF Held
  <2>. QED  BY <2>1, <2>2
<1>10. ASSUME NEW p \in Pids, saved'[p] = "execute" PROVE \E q \in Pids : Callee(q, p)'
  BY <1>7, <1>8, <1>10 DEF Calls
<1>11. Calls'
  BY <1>9, <1>10 DEF Calls
<1>12. \A u \in Terms : Booted(u) => scheduling_array[u] # up
  BY <1>3 DEF Core, Foreground
<1>13. OthersKept
  BY <1>4, <1>7, <1>12, SlotsDiffer DEF OthersKept
<1>. QED  BY <1>4, <1>11, <1>13

\* What is left over of the last exception, and what a step does to the status.
NoFlag == exception_flag = 0
StatusRight ==
    \A p \in Pids : Used(p) /\ pid_array'[p] = UNUSED => (eax' = 256 <=> ended' = "exception")

\* What one step of the disciplined kernel does to the calls.
StepKeeps == Calls' /\ OthersKept /\ StatusRight

LEMMA QuietStep ==
  ASSUME TypeInv, Calls, KeepsCalls, OthersKept
  PROVE  StepKeeps
<1>1. Calls'
  BY KeepsCallsIsEnough
<1>2. StatusRight
  BY DEF KeepsCalls, StatusRight, UNUSED, USED
<1>. QED  BY <1>1, <1>2 DEF StepKeeps

LEMMA UnchangedCalls ==
  ASSUME TypeInv, Calls, UNCHANGED core
  PROVE  StepKeeps
<1>1. KeepsCalls
  BY DEF core, KeepsCalls, Used
<1>2. OthersKept
  BY DEF core, OthersKept
<1>. QED  BY <1>1, <1>2, QuietStep

\* sys_halt gives 256 exactly when the flag is up.
LEMMA HaltCalls ==
  ASSUME TypeInv, Core, Calls, machine = "run", Booted(0),
         NEW flag, NEW status \in 0..255, NEW rf, NEW ending,
         flag = 1 <=> ending = "exception",
         sys_halt(flag, status, rf, ending)
  PROVE  StepKeeps
<1>1. scheduled_process' = scheduled_process /\ ended' = ending
  BY DEF sys_halt
<1>2. CASE Restarts
  BY <1>1, <1>2, RestartCalls, QuietStep DEF sys_halt
<1>3. CASE ~Restarts
  <2>. DEFINE value == IF flag = 1 THEN 256 ELSE status
  <2>1. ReturnToParent(value, rf)
    BY <1>3 DEF sys_halt
  <2>. HIDE DEF value
  <2>2. Calls' /\ OthersKept /\ eax' = value
    BY <1>1, <1>3, <2>1, ReturnCalls
  <2>3. value = 256 <=> ending = "exception"
    BY DEF value
  <2>. QED  BY <1>1, <2>2, <2>3 DEF StepKeeps, StatusRight
<1>. QED  BY <1>2, <1>3

LEMMA KeyCalls ==
  ASSUME TypeInv, Core, Calls, NoFlag, machine = "run", NEW ch, KeyboardTail(ch)
  PROVE  StepKeeps
<1>1. CASE running_flag = 1 /\ ch = 1
  <2>1. Booted(0)
    BY <1>1 DEF Core, BootOrder
  <2>2. sys_halt(exception_flag, 255, 0, "normal")
    BY <1>1 DEF KeyboardTail
  <2>3. exception_flag # 1
    BY DEF NoFlag
  <2>4. PICK status \in 0..255 : \E rf : sys_halt(exception_flag, status, rf, "normal")
    BY <2>2
  <2>5. PICK rf : sys_halt(exception_flag, status, rf, "normal")
    BY <2>4
  <2>. QED  BY <2>1, <2>3, <2>5, HaltCalls
<1>2. CASE ~(running_flag = 1 /\ ch = 1)
  <2>1. UNCHANGED core
    BY <1>2 DEF KeyboardTail, core
  <2>. QED  BY <2>1, UnchangedCalls
<1>. QED  BY <1>1, <1>2

\* The flag handle_exception raises is down again when sys_halt is done, in every
\* environment.
LEMMA FlagStep == ASSUME NoFlag, [Next]_vars PROVE NoFlag'
  BY DEF NoFlag, Next, vars, Tick, BootFirst, BootNext, BootNextFails, TickNoPcb, SwitchNext,
         Execute, ExecuteEmpty, ExecuteBadFile, ExecuteNoPid, ExecuteReturns, Halt, Exception,
         ExceptionFreezes, CtrlC, OtherKey, SwitchTerm, KeyboardTail, sys_halt, Spin

LEMMA CallsStep ==
  ASSUME Disciplined, TypeInv, NeverWild, NoFlag, machine = "run" => Core /\ Calls, [Next]_vars
  PROVE  machine' = "run" => StepKeeps
<1>. USE TermsArePids
<1>. SUFFICES ASSUME machine' = "run" PROVE StepKeeps
  OBVIOUS
<1>1. CASE BootFirst
  BY <1>1, BootFirstCalls, QuietStep DEF BootFirst
<1>2. ASSUME NEW t \in Terms, BootNext(t) PROVE StepKeeps
  BY <1>2, BootNextCalls, QuietStep DEF BootNext
<1>3. ASSUME NEW t \in Terms, BootNextFails(t) PROVE FALSE
  BY <1>3 DEF BootNextFails
<1>4. CASE TickNoPcb
  BY <1>4 DEF TickNoPcb
<1>5. CASE SwitchNext
  BY <1>5, SwitchNextCalls, QuietStep DEF SwitchNext
<1>6. CASE Execute
  <2>1. Calls' /\ NoneFreed /\ OthersKept
    BY <1>6, ExecuteCalls DEF Execute
  <2>2. StatusRight
    BY <2>1 DEF NoneFreed, StatusRight, UNUSED, USED
  <2>. QED  BY <2>1, <2>2 DEF StepKeeps
<1>7. CASE ExecuteEmpty \/ ExecuteBadFile \/ ExecuteNoPid
  <2>1. machine = "run" /\ UNCHANGED core
    BY <1>7 DEF ExecuteEmpty, ExecuteBadFile, ExecuteNoPid, ExecuteReturns, control, core
  <2>. QED  BY <2>1, UnchangedCalls
<1>8. ASSUME NEW status \in Statuses, Halt(status) PROVE StepKeeps
  <2>1. /\ machine = "run" /\ Booted(0) /\ status \in 0..255
        /\ sys_halt(exception_flag, status, running_flag, "normal")
        /\ exception_flag # 1
    BY <1>8, ProcessAssumption DEF Halt, NoFlag
  <2>. QED  BY <2>1, HaltCalls
<1>9. ASSUME NEW errorCode \in {0, 1}, Exception(errorCode) PROVE StepKeeps
  <2>1. /\ machine = "run" /\ Booted(0) /\ 255 \in 0..255
        /\ sys_halt(1, 255, running_flag, "exception")
    BY <1>9 DEF Exception
  <2>. QED  BY <2>1, HaltCalls
<1>10. ASSUME NEW errorCode \in {0, 1}, ExceptionFreezes(errorCode) PROVE FALSE
  BY <1>10 DEF ExceptionFreezes
<1>11. CASE CtrlC
  BY <1>11, KeyCalls DEF CtrlC
<1>12. CASE OtherKey
  BY <1>12, KeyCalls DEF OtherKey
<1>13. ASSUME NEW t \in Terms, SwitchTerm(t) PROVE StepKeeps
  BY <1>13, KeyCalls DEF SwitchTerm
<1>14. CASE Spin
  BY <1>14 DEF Spin, vars
<1>15. CASE UNCHANGED vars
  <2>1. UNCHANGED core /\ machine = "run"
    BY <1>15 DEF vars, core
  <2>. QED  BY <2>1, UnchangedCalls
<1>. QED
  BY <1>1, <1>2, <1>3, <1>4, <1>5, <1>6, <1>7, <1>8, <1>9, <1>10, <1>11, <1>12, <1>13, <1>14,
     <1>15 DEF Next, Tick

\* The one step after which a disciplined kernel does not run is the exception that
\* freezes it, which changes nothing else; then it spins.
LEMMA CoreStepStops ==
  ASSUME Disciplined, TypeInv, NeverWild, NoFlag, machine = "run" => Core /\ Calls, Next,
         machine' # "run"
  PROVE  pid_array' = pid_array /\ saved' = saved /\ schedule_esp' = schedule_esp
<1>. USE TermsArePids
<1>1. CASE machine = "run"
  <2>1. NeverWild'
    BY CoreStep DEF vars
  <2>2. machine' = "frozen"
    BY <2>1, TypeStep DEF NeverWild, TypeInv, TypeOK
  <2>3. CASE \E errorCode \in {0, 1} : ExceptionFreezes(errorCode)
    BY <2>3 DEF ExceptionFreezes
  <2>4. ~Spin /\ ~TickNoPcb /\ \A t \in Terms : ~BootNextFails(t)
    BY <1>1, <2>2 DEF Spin, TickNoPcb, BootNextFails
  <2>5. \A t \in Terms : ~BootNext(t) /\ ~SwitchTerm(t)
    BY <1>1, <2>2, BootNextCore, KeyCore DEF SwitchTerm
  <2>6. ~BootFirst /\ ~SwitchNext /\ ~Execute
    BY <1>1, <2>2, BootFirstCore, SwitchNextCore, ExecuteCore
  <2>7. ~ExecuteEmpty /\ ~ExecuteBadFile /\ ~ExecuteNoPid /\ ~CtrlC /\ ~OtherKey
    BY <1>1, <2>2, KeyCore
       DEF CtrlC, OtherKey, ExecuteEmpty, ExecuteBadFile, ExecuteNoPid, ExecuteReturns
  <2>8. ASSUME NEW status \in Statuses, Halt(status) PROVE FALSE
    <3>1. Booted(0) /\ sys_halt(exception_flag, status, running_flag, "normal")
          /\ running_flag \in {0, 1}
      BY <2>8 DEF Halt, TypeInv, TypeOK
    <3>. QED  BY <1>1, <2>2, <3>1, HaltCore
  <2>9. ASSUME NEW errorCode \in {0, 1}, Exception(errorCode) PROVE FALSE
    <3>1. Booted(0) /\ sys_halt(1, 255, running_flag, "exception") /\ running_flag \in {0, 1}
      BY <2>9 DEF Exception, TypeInv, TypeOK
    <3>. QED  BY <1>1, <2>2, <3>1, HaltCore
  <2>. QED  BY <2>3, <2>4, <2>5, <2>6, <2>7, <2>8, <2>9 DEF Next, Tick
<1>2. CASE machine # "run"
  <2>1. Spin
    BY <1>2 DEF Next, Tick, BootFirst, BootNext, BootNextFails, TickNoPcb, SwitchNext, Execute,
         ExecuteEmpty, ExecuteBadFile, ExecuteNoPid, ExecuteReturns, Halt, Exception,
         ExceptionFreezes, CtrlC, OtherKey, SwitchTerm
  <2>. QED  BY <2>1 DEF Spin, vars
<1>. QED  BY <1>1, <1>2

\* What the process table satisfies at every step of a disciplined system.
Callers == /\ TypeInv
           /\ NeverWild
           /\ NoFlag
           /\ machine = "run" => Core /\ Calls

\* Under the discipline, the callers' invariant holds for ever.
LEMMA CallersHold == Disciplined => (Spec => []Callers)
<1>. SUFFICES ASSUME Disciplined PROVE Spec => []Callers
  OBVIOUS
<1>1. Init => Callers
  <2>1. Init => Calls /\ NoFlag
    BY DEF Init, Calls, NoFlag, Used, UNUSED, USED
  <2>. QED  BY <2>1, CoreInit DEF Callers
<1>2. Callers /\ [Next]_vars => Callers'
  BY TypeStep, CoreStep, FlagStep, CallsStep DEF Callers, StepKeeps
<1>. QED  BY <1>1, <1>2, PTL DEF Spec

\* For any number of terminals and pids, if programs execute only from the terminal on
\* display and after boot, no pid is ever lost: each used one is in the foreground of a
\* terminal or waits for a callee (syscall.c:73, 222-232).
THEOREM PidsNotLeaked == Disciplined => (Spec => []NoLeakedPid)
<1>1. Callers => NoLeakedPid
  BY DEF Callers, Calls, NoLeakedPid, Held, Callee
<1>. QED  BY <1>1, CallersHold, PTL

\* Under the same assumption whoever is suspended in sys_execute has exactly one process
\* that will come back to it (syscall.c:113-137, 288-305).
THEOREM EveryCallAnswered == Disciplined => (Spec => []CallersGetAnAnswer)
<1>1. Callers => CallersGetAnAnswer
  <2>. SUFFICES ASSUME Callers, machine = "run", NEW p \in Pids, saved[p] = "execute"
       PROVE  \E q \in Pids : /\ Used(q) /\ ~IsFirstShell(q) /\ pcb[q].old_esp = p
                              /\ \A r \in Pids : Used(r) /\ ~IsFirstShell(r)
                                                   /\ pcb[r].old_esp = p => r = q
    BY DEF CallersGetAnAnswer
  <2>1. PICK q \in Pids : Callee(q, p)
    BY DEF Callers, Calls
  <2>2. \A r \in Pids : Callee(r, p) => r = q
    BY <2>1 DEF Callers, Core, OneCallee, Callee
  <2>. QED  BY <2>1, <2>2 DEF Callee
<1>. QED  BY <1>1, CallersHold, PTL

\* Under the same assumption a booted terminal keeps the pid of its first shell for ever
\* (syscall.c:83-87).
THEOREM ShellsSurvive == Disciplined => (Spec => []ShellKept)
<1>1. Callers => ShellKept
  BY DEF Callers, Core, ShellKept
<1>. QED  BY <1>1, CallersHold, PTL

\* Under the same assumption the caller of a process that ended is given 256 if and only
\* if the process died by an exception (syscall.c:54-60, exceptions.c:24-31).
THEOREM StatusIsRight == Disciplined => (Spec => StatusNotStale)
<1>. SUFFICES ASSUME Disciplined PROVE Spec => StatusNotStale
  OBVIOUS
<1>1. Callers /\ [Next]_vars => [StatusRight]_vars
  <2>. SUFFICES ASSUME Callers, Next PROVE StatusRight \/ UNCHANGED vars
    OBVIOUS
  <2>1. CASE machine' = "run"
    BY <2>1, CallsStep DEF Callers, StepKeeps
  <2>2. CASE machine' # "run"
    <3>1. pid_array' = pid_array
      BY <2>2, CoreStepStops DEF Callers
    <3>. QED  BY <3>1 DEF StatusRight, Used, UNUSED, USED
  <2>. QED  BY <2>1, <2>2
<1>. QED  BY <1>1, CallersHold, PTL DEF Spec, StatusNotStale, StatusRight

\* Under the same assumption only the terminals that lose or get the CPU have their
\* stacks and frame addresses changed (schedule.c:146-158, 200-207, syscall.c:288-315).
THEOREM OthersUntouched == Disciplined => (Spec => OtherStacksUntouched)
<1>. SUFFICES ASSUME Disciplined PROVE Spec => OtherStacksUntouched
  OBVIOUS
<1>1. Callers /\ [Next]_vars => [OthersKept]_vars
  <2>. SUFFICES ASSUME Callers, Next PROVE OthersKept \/ UNCHANGED vars
    OBVIOUS
  <2>1. CASE machine' = "run"
    BY <2>1, CallsStep DEF Callers, StepKeeps
  <2>2. CASE machine' # "run"
    BY <2>2, CoreStepStops DEF Callers, OthersKept
  <2>. QED  BY <2>1, <2>2
<1>. QED  BY <1>1, CallersHold, PTL DEF Spec, OtherStacksUntouched, OthersKept
-----------------------------------------------------------------------------
(* What holds in every environment, also when programs execute in the       *)
(* background or during boot: the process that runs holds its pid.          *)

\* Nobody is suspended on the stack of a pid that has been given back, and the running
\* process is on its own stack, which holds nothing that could be resumed.
Holders ==
    /\ \A p \in Pids : saved[p] # "none" => Used(p)
    /\ Booted(0) => Used(curr_pid) /\ kesp = curr_pid /\ saved[curr_pid] = "none"
    /\ ~Booted(0) => /\ scheduled_process = 0
                     /\ running_flag = 0
                     /\ \A p \in Pids : saved[p] = "none" /\ ~Used(p)

\* A program started in a pid that was free holds it.
LEMMA LaunchHolders ==
  ASSUME TypeInv, NEW pid \in Pids, NEW stack, NEW rf, NEW frames,
         NEW pa \in [Pids -> {UNUSED, USED}], NEW sv \in [Pids -> Activations],
         \A p \in Pids : sv[p] # "none" => pa[p] = USED,
         Launch(pid, pa, frames, stack, sv, rf), TermOf(pid) \in Terms,
         Booted(0) \/ TermOf(pid) = 0
  PROVE  Holders'
<1>. USE TermsArePids
<1>1. /\ pid_array' = [pa EXCEPT ![pid] = USED] /\ saved' = [sv EXCEPT ![pid] = "none"]
      /\ curr_pid' = pid /\ kesp' = pid
      /\ scheduling_array' = [scheduling_array EXCEPT ![TermOf(pid)] = pid]
  BY DEF Launch
<1>2. \A p \in Pids : saved'[p] # "none" => pid_array'[p] = USED
  BY <1>1
<1>3. scheduling_array'[0] \in Pids \/ (scheduling_array'[0] = scheduling_array[0] /\ Booted(0))
  BY <1>1 DEF TypeInv, TypeOK
<1>4. Booted(0)'
  BY <1>3 DEF Booted, NoPid
<1>. QED  BY <1>1, <1>2, <1>4 DEF Holders, Used

\* The halt of the running process: nothing was suspended on the stack it gives back.
LEMMA HaltHolders ==
  ASSUME TypeInv, Holders, machine = "run", Booted(0), machine' = "run",
         curr_term' \in Terms,
         NEW flag, NEW status, NEW rf, NEW ending, sys_halt(flag, status, rf, ending)
  PROVE  Holders'
<1>. USE TermsArePids
<1>. DEFINE me == pcb[curr_pid]
<1>1. /\ curr_pid \in Pids /\ saved[curr_pid] = "none" /\ kesp = curr_pid
      /\ scheduled_process' \in Terms
  BY DEF Holders, TypeInv, TypeOK, RealPids, sys_halt
<1>2. PidsFreed \in [Pids -> {UNUSED, USED}] /\ saved \in [Pids -> Activations]
  BY <1>1 DEF PidsFreed, TypeInv, TypeOK, UNUSED, USED
<1>3. \A p \in Pids : saved[p] # "none" => PidsFreed[p] = USED
  BY <1>1 DEF PidsFreed, Holders, Used, TypeInv, TypeOK
<1>4. CASE Restarts
  <2>1. PICK pid \in Pids : Launch(pid, PidsFreed, schedule_esp, kesp, saved, rf)
    BY <1>4 DEF sys_halt, RestartShell
  <2>2. TermOf(pid) \in Terms
    BY <1>1 DEF TermOf
  <2>. QED  BY <1>2, <1>3, <2>1, <2>2, LaunchHolders
<1>5. CASE ~Restarts
  <2>. DEFINE value == IF flag = 1 THEN 256 ELSE status
  <2>1. ReturnToParent(value, rf)
    BY <1>5 DEF sys_halt
  <2>2. me.old_esp = me.parent_pid /\ saved[me.old_esp] = "execute" /\ me.parent_pid \in Pids
        /\ me.term_id \in Terms
    BY <1>1, <2>1 DEF ReturnToParent, TypeInv, TypeOK, RealPids, Pcb
  <2>3. /\ pid_array' = PidsFreed /\ curr_pid' = me.parent_pid /\ kesp' = me.parent_pid
        /\ saved' = [saved EXCEPT ![me.parent_pid] = "none"]
        /\ scheduling_array' = [scheduling_array EXCEPT ![me.term_id] = me.parent_pid]
    BY <2>1, <2>2 DEF ReturnToParent
  <2>4. PidsFreed[me.parent_pid] = USED
    BY <1>3, <2>2
  <2>5. saved'[me.parent_pid] = "none" /\ \A p \in Pids : saved'[p] # "none" => saved[p] # "none"
    BY <2>2, <2>3 DEF TypeInv, TypeOK
  <2>6. scheduling_array'[0] \in {scheduling_array[0], me.parent_pid}
    BY <2>2, <2>3 DEF TypeInv, TypeOK
  <2>7. Booted(0)'
    BY <2>2, <2>6 DEF Booted
  <2>. QED  BY <1>3, <2>3, <2>4, <2>5, <2>7 DEF Holders, Used
<1>. QED  BY <1>4, <1>5

LEMMA KeyHolders ==
  ASSUME TypeInv, Holders, machine = "run", machine' = "run", curr_term' \in Terms,
         NEW ch, KeyboardTail(ch)
  PROVE  Holders'
<1>1. CASE running_flag = 1 /\ ch = 1
  <2>1. Booted(0)
    BY <1>1 DEF Holders
  <2>2. PICK status, rf : sys_halt(exception_flag, status, rf, "normal")
    BY <1>1 DEF KeyboardTail
  <2>. QED  BY <2>1, <2>2, HaltHolders
<1>2. CASE ~(running_flag = 1 /\ ch = 1)
  BY <1>2 DEF KeyboardTail, Holders, Booted, Used
<1>. QED  BY <1>1, <1>2

\* Every step after which the machine still runs keeps the pid of the running process.
LEMMA HoldersStep ==
  ASSUME TypeInv, machine = "run" => Holders, [Next]_vars, machine' = "run"
  PROVE  Holders'
<1>. USE TermsArePids
<1>1. CASE BootFirst
  <2>1. PICK pid \in Pids : /\ IsFirstUnused(pid, pid_array)
                            /\ Launch(pid, pid_array, schedule_esp, kesp, saved, running_flag)
    BY <1>1 DEF BootFirst
  <2>2. /\ Holders /\ ~Booted(0) /\ scheduled_process' = 0 /\ \A p \in Pids : ~Used(p)
        /\ pid_array \in [Pids -> {UNUSED, USED}] /\ saved \in [Pids -> Activations]
    BY <1>1 DEF BootFirst, Holders, control, TypeInv, TypeOK
  <2>3. pid = 0
    BY <2>1, <2>2 DEF IsFirstUnused, Used, TypeInv, TypeOK
  <2>4. TermOf(pid) = 0
    BY <2>2, <2>3, FirstShells DEF TermOf
  <2>5. \A p \in Pids : saved[p] # "none" => pid_array[p] = USED
    BY <2>2 DEF Holders
  <2>. QED  BY <2>1, <2>2, <2>4, <2>5, LaunchHolders
<1>2. ASSUME NEW t \in Terms, BootNext(t) PROVE Holders'
  <2>. DEFINE sv == [StacksSaved EXCEPT ![t] = "none"]
  <2>1. PICK pid \in Pids : Launch(pid, pid_array, FramesSaved, t, sv, running_flag)
    BY <1>2 DEF BootNext
  <2>2. /\ Holders /\ Booted(0) /\ machine = "run" /\ Booted(scheduled_process)
        /\ pid_array \in [Pids -> {UNUSED, USED}]
        /\ scheduled_process' \in Terms /\ curr_term' \in Terms
    BY <1>2 DEF BootNext, TypeInv, TypeOK
  <2>3. sv \in [Pids -> Activations]
    BY <2>2, SavedType DEF Activations
  <2>4. \A p \in Pids : sv[p] # "none" => pid_array[p] = USED
    BY <2>2 DEF StacksSaved, Holders, Used, TypeInv, TypeOK
  <2>5. TermOf(pid) \in Terms
    BY <2>2 DEF TermOf
  <2>. HIDE DEF sv
  <2>. QED  BY <2>1, <2>2, <2>3, <2>4, <2>5, LaunchHolders
<1>3. ASSUME NEW t \in Terms, BootNextFails(t) PROVE FALSE
  BY <1>3 DEF BootNextFails
<1>4. CASE TickNoPcb
  BY <1>4 DEF TickNoPcb
<1>5. CASE SwitchNext
  <2>. DEFINE next == scheduling_array[next_scheduling_term]
              frame == FramesSaved[next]
  <2>1. next_scheduling_term \in Terms
    BY ProcessAssumption DEF next_scheduling_term, TypeInv, TypeOK, Terms
  <2>2. Holders /\ Booted(0) /\ next \in Pids
    BY <1>5, <2>1 DEF SwitchNext, AllBooted, Booted, TypeInv, TypeOK
  <2>3. frame = next /\ StacksSaved[frame] = "schedule"
    BY <1>5 DEF SwitchNext
  <2>4. /\ saved' = [StacksSaved EXCEPT ![frame] = "none"] /\ kesp' = frame /\ curr_pid' = next
        /\ pid_array' = pid_array /\ scheduling_array' = scheduling_array
    BY <1>5, <2>3 DEF SwitchNext
  <2>5. \A p \in Pids : StacksSaved[p] # "none" => Used(p)
    BY <2>2 DEF StacksSaved, Holders, TypeInv, TypeOK
  <2>6. saved'[next] = "none" /\ \A p \in Pids : saved'[p] # "none" => StacksSaved[p] # "none"
    BY <2>2, <2>3, <2>4 DEF StacksSaved, TypeInv, TypeOK
  <2>7. Used(next)
    BY <2>2, <2>3, <2>5
  <2>. QED  BY <2>2, <2>3, <2>4, <2>5, <2>6, <2>7 DEF Holders, Used, Booted
<1>6. CASE Execute
  <2>. DEFINE sv == [saved EXCEPT ![kesp] = "execute"]
  <2>1. PICK pid \in Pids : Launch(pid, pid_array, schedule_esp, kesp, sv, running_flag)
    BY <1>6 DEF Execute
  <2>2. /\ Holders /\ Booted(0) /\ pid_array \in [Pids -> {UNUSED, USED}]
        /\ sv \in [Pids -> Activations]
        /\ scheduled_process' \in Terms /\ curr_term' \in Terms
    BY <1>6 DEF Execute, control, TypeInv, TypeOK, Activations
  <2>3. \A p \in Pids : sv[p] # "none" => pid_array[p] = USED
    BY <2>2 DEF Holders, Used, TypeInv, TypeOK
  <2>4. TermOf(pid) \in Terms
    BY <2>2 DEF TermOf
  <2>. HIDE DEF sv
  <2>. QED  BY <2>1, <2>2, <2>3, <2>4, LaunchHolders
<1>7. CASE ExecuteEmpty \/ ExecuteBadFile \/ ExecuteNoPid
  BY <1>7 DEF ExecuteEmpty, ExecuteBadFile, ExecuteNoPid, ExecuteReturns, control,
              Holders, Booted, Used
<1>8. ASSUME NEW status \in Statuses, Halt(status) PROVE Holders'
  <2>1. /\ machine = "run" /\ Booted(0) /\ curr_term' \in Terms
        /\ sys_halt(exception_flag, status, running_flag, "normal")
    BY <1>8 DEF Halt, TypeInv, TypeOK
  <2>. QED  BY <2>1, HaltHolders
<1>9. ASSUME NEW errorCode \in {0, 1}, Exception(errorCode) PROVE Holders'
  <2>1. /\ machine = "run" /\ Booted(0) /\ curr_term' \in Terms
        /\ sys_halt(1, 255, running_flag, "exception")
    BY <1>9 DEF Exception, TypeInv, TypeOK
  <2>. QED  BY <2>1, HaltHolders
<1>10. ASSUME NEW errorCode \in {0, 1}, ExceptionFreezes(errorCode) PROVE FALSE
  BY <1>10 DEF ExceptionFreezes
<1>11. CASE CtrlC
  BY <1>11, KeyHolders DEF CtrlC, TypeInv, TypeOK
<1>12. CASE OtherKey
  BY <1>12, KeyHolders DEF OtherKey, TypeInv, TypeOK
<1>13. ASSUME NEW t \in Terms, SwitchTerm(t) PROVE Holders'
  BY <1>13, KeyHolders DEF SwitchTerm, TypeInv, TypeOK
<1>14. CASE Spin
  BY <1>14 DEF Spin, vars
<1>15. CASE UNCHANGED vars
  BY <1>15 DEF vars, Holders, Booted, Used
<1>. QED
  BY <1>1, <1>2, <1>3, <1>4, <1>5, <1>6, <1>7, <1>8, <1>9, <1>10, <1>11, <1>12, <1>13, <1>14,
     <1>15 DEF Next, Tick

\* In every environment, with any number of terminals and pids: the process that has the
\* CPU holds its pid, so no sys_execute can be given the same stack, page and control
\* block (syscall.c:73, 222-232, schedule.c:180-207).
THEOREM RunningPidHeld == Spec => []RunningPidUsed
<1>. DEFINE K == TypeInv /\ (machine = "run" => Holders)
<1>1. Init => K
  BY CoreInit, TermsArePids DEF Init, Holders, Booted, Used, UNUSED, USED
<1>2. K /\ [Next]_vars => K'
  BY TypeStep, HoldersStep
<1>3. K => RunningPidUsed
  BY DEF Holders, RunningPidUsed
<1>. QED  BY <1>1, <1>2, <1>3, PTL DEF Spec
=============================================================================
