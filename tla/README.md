# 391OS in TLA+

Models, model-checking runs and proofs for the kernel in `src/student-distrib`
and the programs that run on it: a small x86 operating system with three text
terminals, at most six processes, a round-robin scheduler on the timer
interrupt, a read-only file system, a keyboard, a real-time clock and eight
system calls.  Paths below are relative to `src/student-distrib` unless they say
otherwise; `ece391*` files are in `src/syscalls`, `fish.c` and `blink.S` in
`src/fish`.

## 1. Inventory

| Component | State it keeps | Operations | Interacts with |
|---|---|---|---|
| processes (`syscall.c`) | `pid_array`, control blocks, `scheduling_array`, `curr_pid`, `running_flag`, `exception_flag` | `sys_execute`, `sys_halt` | scheduler (slots, saved stack pointers), paging, TSS |
| scheduler (`schedule.c`) | `scheduled_process`, `schedule_esp`/`ebp` of each control block | `PIT_handler`, `schedule`, `initial_boot` | boots the shells through `sys_execute`, remaps user page and video |
| exceptions (`exceptions.c`) | `exception_flag` | `handle_exception` | `sys_halt(255)` or an endless loop |
| keyboard (`keyboard.c`) | `keyboard_buf`, `buf_idx`, `key_flag`, modifiers, history per terminal; `call_halt` | handler, `add_to_buf`, `delete_from_buf`, `keyboard_return`, Ctrl+C, Ctrl+L, Alt+Fn, history, completion | terminal driver, `sys_halt`, `switch_terminals`, screen |
| terminal driver (`terminal.c`) | none of its own | `terminal_read`, `terminal_write`, `switch_terminals` | keyboard buffer, video pages |
| file system (`filesystem.c`) | the image; `global_file_index` | `read_dentry_by_name`, `read_dentry_by_index`, `read_data`, `file_read`, `dir_read` | descriptors |
| descriptors (`syscall.c`) | `fda` in each control block | `sys_open`, `sys_read`, `sys_write`, `sys_close` | file system, RTC, terminal |
| real-time clock (`rtc.c`) | register A, `rtc_interrupt_occurred` | `rtc_open`, `rtc_read`, `rtc_write`, `rtc_handler` | the chip |
| video (`lib.c`, `paging.c`, `terminal.c`) | display page, one backing page per terminal, the user mapping at 132 MB, cursors | `putc`, `clear`, `backspace`, `scheduling_vidmap`, `map_vidmem` | scheduler, keyboard echo, programs |
| screen (`lib.c`) | cells, `term_x`, `term_y` | `putc`, `vert_scroll`, `backspace`, `clear` | every key, `terminal_write`, `handle_exception` |
| history and completion (`keyboard.c`) | `history`, its two indices, `ac_repeats` | `keyboard_return`, `move_up_history`, `move_down_history`, `autocomplete` | keyboard buffer, directory, screen |
| interrupt controller (`i8259.c`) | masks, requests, in-service bits | `i8259_init`, `enable_irq`, `send_eoi` | every handler |
| command line (`syscall.c`, `ece391emulate.c`) | `args` in the control block | parsing in `sys_execute`, `sys_getargs`, and the emulator's versions | processes, programs |
| blink table (`blink.S`, `fish.c`) | `blink_array`, `mp1_list_head`, the screen | add, remove, find, sync, the tasklet, `mp1_malloc` | fish |
| programs (`fish.c`, `ece391cat.c`, `ls`, `grep`, `syserr`) | their variables and open descriptors | `main` | descriptors, clock |
| boot, descriptor tables, linkage (`kernel.c`, `*.S`, `idt_setup.c`) | tables | set-up | |

**Concurrency.**  Interrupt gates turn interrupts off, so handlers (timer,
keyboard, clock) are atomic.  `sys_execute` and `sys_halt` turn them off
themselves.  All other system calls run with interrupts on and can be
preempted between any two instructions, with shared state (the keyboard
buffers, `global_file_index`, `rtc_interrupt_occurred`) unprotected.

**What is hard, and what makes each part correct.**

- Context switches jump into frames whose addresses were saved long before.
  Correct when the stack named still holds that frame (`NeverWild`), when all
  places that say who is running agree (`Coherent`), and when a process that
  ends returns to the process that executed it (`ParentIsCaller`).
- pids double as terminal numbers while the kernel boots; a shell that ends
  must come back on its own terminal (`ShellKept`, `NoLeakedPid`).
- `terminal_read` copies and clears a buffer that the interrupt handler fills
  (`LinesDelivered`, `EnterNotLost`, `ReadReturns`).
- The index of that buffer is set by six operations, by counting and by `strlen`, is
  checked in one of them, and lies right behind the buffer (`IndexKept`).
- `read_data` walks words and blocks by hand (`PiecesMakeTheFile`), and the end
  of a file must be told by 0 and only by 0 (`ZeroMeansEnd`).
- The directory position and the clock's flag are single globals
  (`ListingIsComplete`, `ReturnsAfterInterrupt`, `EveryReadReturns`).
- Programs combine many such calls and share descriptors, directory position and
  clock with others: `cat`, `ls`, `grep` and `syserr` must still do what they are
  for (`ProgramsDoTheirWork`), and fish must come to its end (`FishEnds`).
- fish reads two files of different shapes in step (`FramesAdded`) into a list
  whose nodes are slots of an array, with 16-bit countdowns (`TableImplemented`,
  `SyncedTogether`).
- A line typed with any spacing must reach the program as its arguments, in the
  kernel and under the emulator (`ArgumentsDelivered`).
- Three terminals share one display (`OwnScreens`, `SwitchKeepsScreens`).
- The cursor runs backwards over row ends with C's remainder, and programs print
  into the line being edited (`EchoShown`, `CursorOnScreen`, `BlankAfterCursor`).
- The unfinished line is parked in the history while older lines are recalled,
  changed and entered (`PendingComesBack`, `NoGapInHistory`); completion compares
  only neighbouring names (`CompletesToCommonPrefix`).
- A handler that leaves through `schedule` or `sys_halt` does not come back to
  acknowledge its interrupt (`InServiceMatches`, `TimerServed`, `RequestsServed`).

## 2. Modules

| Module | Models |
|---|---|
| `Process` | pids, control blocks, `sys_execute`, `sys_halt`, exceptions, `schedule`, Ctrl+C and Alt+Fn |
| `Process_proofs` | its theorems: types, the inductive invariant, who waits for whom |
| `LineInput` | abstract: what a line-oriented terminal promises a reader |
| `Terminal` | keyboard buffer and `terminal_read`; implements `LineInput` |
| `Terminal_proofs` | its theorems, the refinement included |
| `FileSystem` | the image and its three readers, as operators |
| `Files` | descriptors, `file_read`, `dir_read`, over `FileSystem` |
| `Programs` | `cat`, `ls`, `grep`, `syserr` and fish's reading of a file, over `Files` |
| `Programs_proofs` | theorems of `FileSystem`, `Files` and `Programs` |
| `Rtc` | the clock driver and the chip's interrupt |
| `BlinkTable` | abstract: a list of blinkers, newest first |
| `Blink` | `blink.S` and its allocator; implements `BlinkTable` |
| `Fish` | the fish program, composed of `Rtc` and `Blink` |
| `Fish_proofs` | theorems of `Rtc`, `Blink` (the refinement included) and `Fish` |
| `Video` | display, backing pages, user mapping |
| `Pic` | both interrupt controllers, the set-up of the devices' lines, acknowledgement by the handlers |
| `Hardware_proofs` | theorems of `Video` and `Pic` |
| `Screen` | cells and cursor of the terminal on display, and the line edited on it |
| `Screen_proofs` | its theorems |
| `Completion` | `autocomplete` as operators, and what it should compute |
| `History` | command history and line of one terminal, over `Completion` |
| `History_proofs` | theorems of `History`, `Completion` and `CommandLine` |
| `CommandLine` | what becomes of that line in `execute` and `getargs`, in the kernel and in the emulator |
| `NatFacts` | lemmas about the naturals that several proofs use |
| `MC*` | small instances for TLC |

Definitions whose comment starts with "Mutant" are faulty variants of the
definition that follows them.  Each property is shown to notice one of them.

### Process

`pcb`, `schedule_esp`, `scheduling_array`, `pid_array`, `curr_pid`,
`running_flag`, `call_halt` and `exception_flag` are the code's variables.  An
esp is abstracted to the pid whose kernel stack it points into, and `saved[p]`
records what that stack really holds: nothing, a frame of `schedule`, or a frame
of `sys_execute`.  The jumps of `schedule` (`SwitchNext`) and `sys_halt`
(`ReturnToParent`) compare the two; `machine = "wild"` marks a jump into
anything else.  `machine = "frozen"` is the `while(1)` of `handle_exception`.
`ended` is a history variable.  Command line parsing is abstracted to its
outcomes: launch, empty line, not an executable, no pid.

| Action | Code |
|---|---|
| `BootFirst`, `BootNext`, `BootNextFails`, `TickNoPcb`, `SwitchNext` | the branches of `schedule` |
| `Execute`, `ExecuteEmpty`, `ExecuteBadFile`, `ExecuteNoPid` | `sys_execute` and its early returns |
| `Halt`, `Exception`, `ExceptionFreezes`, `Spin` | `sys_halt`, `handle_exception` |
| `CtrlC`, `OtherKey`, `SwitchTerm` | the end of `keyboard_handler`, after Ctrl+C, any key, Alt+Fn |

Two constants describe the environment.  `ExecInBackground`: may a program
execute while another terminal is displayed?  `ExecDuringBoot`: may one execute
before every terminal has its shell?  Neither is prevented by the code; most
properties need both to be false (`Disciplined`), and §5 says what happens
otherwise.  `FrameBit` is the bit of ESP that `handle_exception` tests, which
depends on the build; both values are run.

### Terminal and LineInput

`LineInput` has a line being edited, a line handed over by Enter, and a read
that takes it whole or up to n bytes.  `Terminal` has the real buffer, index and
flag, and `terminal_read` in nine steps: test of the flag, two `strlen` calls,
every byte copied, every byte cleared, reset of the index, reset of the flag.
Keys come between any two.  The byte after the buffer is the low byte of
`buf_idx`, and is modelled as such.  A key that writes further than that is
recorded in `spoilt` and ends what is modelled of the terminal.  In the refinement
the line is consumed when the copy ends.  `TypeAhead` and `DeadKeys` say whether
keys may come between Enter and the end of the read, and whether keys without a
character are typed; `ahead` is a history variable, whether the former has happened
on a terminal.  `Cancel` is Ctrl+C inside a read.

Up, Down and TAB rewrite buffer and index too (`MoveInHistory`, `autocomplete`).
Of the history the rows are kept (at most `MaxRows` different ones) and not their
order, so that Up and Down recall any of them; which one it is, is the subject of
`History`.  TAB adds one of `Completions`, and with `LongCompletions` also when that
is more than the buffer holds.  In `LineInput` they are `Keep`, `Recall` and
`Complete`, with the lines that may come back in `earlier`.

### FileSystem and Files

A byte of the image is named by its place (block, offset), so that a byte from
the wrong place is told from the right one.  `read_data` is given in closed form:
the word index and the block number after k bytes.  `Files` keeps each process's
`fda` and runs `dir_read` in its separate accesses to `global_file_index` (look-up,
load, store).  `given` is a history variable: what a descriptor has returned.
`Orderly` restricts the processes: while one has begun a listing, no other reads
the directory, and who has begun reads to the end before closing.

### Programs

One process, `RUNNER`, runs a program of its own choice to the end while the
others make any calls (`AnyCall`); a step is a system call and what the program
does with its result.  `Start`, `Open`, `ReadFile`, `ReadDirectory`, `Write` are
shared by the programs whose loops have the same form; `SearchOpen`, `SearchRead`,
`SearchClose` are grep's `do_one_file`, whose text search is left out, so that its
read sizes are any of `GrepSizes`.  `syserr`'s eight tests are sequences of calls
(`err_neg_fd` and so on) that `TestCall` makes one by one; `Verdict` is what a test
returns and what `main` adds up.

### Rtc

`rtc_read` is two steps (reset, exit of the loop).  A frequency that is in range
but not in the table leaves `rate` uninitialised: any value may reach register A
and stop the chip (`Running`).  `ticked` is a history variable.

### Blink, BlinkTable and Fish

`Blink` keeps `blink_array` with its pointers as slot numbers.  `Node` walks the
list as the code does; the refinement to `BlinkTable` reads it off in order and
turns a 16-bit countdown into the ticks that are left: a length that is zero or
negative as a signed number lasts one tick, but 0x8000, which is positive once
decremented, lasts 32768.  `synced` is a history
variable: the elements that the last sync made alike.  In `Fish` a step is a
system call or a call of `blink.S` and what follows it, and one round of
`add_frames`' inner loop.  The process `FISH` runs fish on one of several pairs
of frame files, or (`program = "any"`) any sequence of ioctls and ticks, which
exercises the table beyond what fish does.  What fish reads of a file is what
`file_read` delivers (`Delivered`, `Readings`): the file, or for an empty one a single byte
of `FOREIGN`, which belongs to another file.  `CellZeroUnused` and `SlotsSuffice` say
what the table expects of its users: no blinker is for the cell 0, and the array
has a slot for every place that the frames draw in.  The other processes use the clock as
they like.

### Video

A page is abstracted to the last thing written on it, by whose process and what.
`Place(t)` is where `putc` writes for terminal t.  `CtrlL` clears the display and prints
the prompt; `handle_exception` clears it and prints what has happened, there as well and
not on the terminal of the process that faulted.  `SwitchWhileDrawing`,
`VidmapInBackground` and `FaultInBackground` describe the environment: whether the display
changes under a drawing program, and whether a program calls `vidmap`, or faults, while its
terminal is not displayed.

### Pic

`mask`, `irr` and `isr` are the registers of both chips as sets of lines; the
chips' priorities (`Eligible`, `Accept`) and the devices (`Raise`) are external.
A handler is two steps, its body with `send_eoi` and its departure with
interrupts on again, because requests arrive in between.  `PrefixCode` is the
early return of `keyboard_handler`, and `dropped` remembers it.  A device asks
again only after its handler has answered it.

### Screen

`scr` holds the cells, `term_x` and `term_y`; `putc` and `backspace` are
operators on it, folded over the text that an action prints or erases.  `line` and
`buf_idx` are the keyboard buffer; a reader takes it with Enter.  `Recalled`
and `Completions` stand for what `History` and `Completion` compute.  A key without
a character (`TypeDeadKey`) puts a NUL into the buffer and nothing on the screen, so
that later backspaces erase something else.  `touched` is a history variable:
whether something was printed into the line, the screen cleared by an exception, or
such a key typed (`"dead"`, until Enter), since the line began.  `StartAnywhere` says whether a
line may begin right of the prompt's end (§5).

### Completion and History

`Completion` gives each stage of `autocomplete` its operator, with indices from 0
as in the code, and `Expected` as the reference.  In `History` letters and
backspaces are abstracted to the line they lead to; enter, up, down and TAB are
one action each.  `EmptyRow` does not stop at the end of the array, as in the
code, which looks at 1000 rows of an array of 100 (`SEARCH_ROWS`) and takes what
lies behind the array for rows.  `pending` is a history variable.  `initial_boot` copies a record that it
initialises only in part: `absolute_history_idx` and the rows are whatever the
boot stack holds, taken to be zero.

### CommandLine

Operators only: `Parsed` splits a line as `sys_execute` does, `sys_getargs` copies
with `strncpy`; `ece391_execute` and `ece391_getargs` are the emulator's.  They are
evaluated on every line that `History` reaches, as it is, with its spaces doubled,
and with spaces at both ends.  `ArgumentsDelivered` has two halves: `Delivered`, what the
kernel does with a line, and `SameInEmulator`.

## 3. Runs

| Run | Instance | What it shows |
|---|---|---|
| `process` | 3 terminals, 5 pids, disciplined | every property of `Process`, the inductive invariant `IInv`, boot completes, round robin is fair |
| `process_any_environment` | same, anything goes | the running process always holds its pid |
| `terminal_lines` | 2 terminals, buffer of 3, no type-ahead, recalled and completed lines | `Terminal` implements `LineInput`; no Enter is lost; reads return |
| `terminal_any_keys` | 1 terminal, buffer of 2, type-ahead, dead keys, long reads, recalled lines, completions of any length | the index stays in the buffer until something is typed ahead; reads return |
| `programs` | 2 processes, 2 free descriptors each, a file of 3 blocks, every program | the programs do their work; pieces make the file, 0 means the end, orderly listings are complete |
| `fish` | 2 processes, legal, illegal and odd frequencies; 3 slots, 5 cells in two columns, words of 6 values, 4 pairs of frames | the blink table implements its abstract list; frames become blinkers; reads return, and only after an interrupt of their own; fish ends |
| `video` | 3 terminals, 2 glyphs, disciplined | terminals show only their own output and faults; switching loses nothing |
| `pic` | all devices, prefix codes included | acknowledgements are right; the timer is always served, the others unless a key went unacknowledged |
| `screen` | 3 by 3 cells, lines of 3, prompt of 1, dead keys | the line shown is the line that will be read; the cursor stays on the screen; nothing stale behind it |
| `history` | 3 rows, 5 typed lines, 4 directories, `getargs` buffers of 0, 2 and 8 bytes | no gaps, the unfinished line comes back, completion is the common prefix, arguments arrive as typed |
| `execute_in_background` | `ExecInBackground` | violates `ParentIsCaller` |
| `enter_lost` | `TypeAhead` | violates `EnterNotLost` |

**Bounds.**  Three terminals and the table of five pids leave two pids besides
the shells: two nested programs on one terminal, one on each of two, and a full
table all occur.  The code has six; the theorems are for every number.  A buffer
of three cells has an empty, a partial and a full line, one cell being kept for
the newline; reads of two and three bytes cut a full line short or take it
whole.  `terminal_any_keys` has a smaller buffer because keys arrive at every
step, and reads of one byte and of more than the buffer.  Two rows of history are
the empty one and any other, a full buffer without a NUL included.  `NewlineCode` must be
an index of the buffer, as 10 is of 128.  The image has blocks of two words, so
that a read of 12 bytes starts at a block's beginning or middle, crosses block
boundaries, and ends at the file's end.  Two glyphs tell a screen's old contents
from its new.  The clock's frequencies are both ends of the legal range, their
neighbours outside, and 3, which is in the range but not in the table.

Two free descriptors are as many as grep needs at once, so that one left open is
noticed with the next file.  `syserr` is run with all tests, one test, and an
invalid number.  The screen of `fish` has two columns; frames have lines of
different lengths, blanks, an empty line, an end with and without a newline,
places behind the end of the screen, an empty file (read as one foreign byte) and a
missing one.  Three slots
are filled and freed in every order; a word of 6 values has lengths that are zero,
ordinary, negative as a signed number, and the smallest such number.  TLC evaluates
`CellZeroUnused` and `SlotsSuffice` on the instance.

On the small screen, as on the real one, prompt and full line are longer than one row
and shorter than two, and everything but the last row holds a full line; some
characters are typed and never printed.  Three keys without a character and as many
backspaces run over the prompt.  Three rows of history let the user move two rows
up, fill the array and go beyond it.  The directories have one, two and three
matches, in orders where the neighbours that differ first come first or last, and
a name that is a prefix of others.

**Deadlock** is checked except in `process_any_environment`, where a wild jump
ends the modelled behaviour, in `terminal_any_keys` and `enter_lost`, where a key that
overwrites `buf_idx` does (`spoilt`), and in `fish`, where all processes wait for ever
once the device has been stopped, or fish is done.  `TimerServed` takes handlers to end:
the endless loop of `handle_exception`, which stops the timer for good, is an outcome of
`Process` (`machine = "frozen"`) and no part of `Pic`.

**Fairness.**  `Process`: weak fairness of `Tick`; the timer is periodic, its
handler acknowledges it, and every other entry into the kernel modelled there
returns to user mode, where interrupts are on.  `Terminal`: weak fairness of each
terminal's `terminal_read`, which `EveryTerminalScheduled` justifies; none for
keys, nor for calling read.  `Rtc`: weak fairness of the interrupt; strong
fairness of a waiting process's exit from its loop, because another process's
read may reset the flag between interrupts: a process polls all through its
slice, and some interrupt falls into it without a reset in between.  `Fish` adds
weak fairness of fish's own steps (a process that is ready is scheduled again and
again) and assumes in `FishEnds` that the clock is running from some time on.  `Pic`: weak
fairness of set-up, handlers and `sti`, all straight-line code; strong fairness of
accepting a request, which the CPU does as soon as it finds one with interrupts
on.  That more urgent devices leave it time is an assumption of `RequestsServed`.

## 4. Proofs

TLAPS proves, for every value of the constants that satisfies the assumptions
named in the modules (`ProcessAssumption`, `VideoAssumption`, `TerminalAssumption`,
`HistoryAssumption`, `RtcAssumption`, `BlinkAssumption`, `CharsAssumption`,
`FishAssumption`, `ScreenAssumption`, `FileSystemAssumption`, `FilesAssumption`,
`ProgramsAssumption`; TLC evaluates each on the instances):

| Theorem | Statement |
|---|---|
| `Process_proofs!TypeCorrect` | `Spec => []TypeOK`, in every environment |
| `Process_proofs!InvariantHolds` | `Disciplined => (Spec => []IInv)` |
| `Process_proofs!FramesAreRight` | ... `[]NeverWild` |
| `Process_proofs!AllViewsAgree` | ... `[]Coherent` |
| `Process_proofs!ReturnsToCaller` | ... `[]ParentIsCaller` |
| `Process_proofs!PidsNotLeaked` | ... `[]NoLeakedPid` |
| `Process_proofs!EveryCallAnswered` | ... `[]CallersGetAnAnswer` |
| `Process_proofs!ShellsSurvive` | ... `[]ShellKept` |
| `Process_proofs!StatusIsRight` | ... `StatusNotStale` |
| `Process_proofs!OthersUntouched` | ... `OtherStacksUntouched` |
| `Process_proofs!RunningPidHeld` | `Spec => []RunningPidUsed`, in every environment |
| `Terminal_proofs!TypeCorrect` | `Spec => []TypeOK`, with type-ahead, dead keys and completions of any length, until a key writes past the low byte of `buf_idx` |
| `Terminal_proofs!IndexStaysInBuffer` | `Spec => []IndexKept`: for every terminal on which nothing was typed ahead, dead keys and long completions included |
| `Terminal_proofs!EnterIsSeen` | `~TypeAhead => (Spec => []EnterNotLost)` |
| `Terminal_proofs!DriverImplementsLineInput` | `LinesOnly => (Spec => LinesDelivered)`: the refinement of `LineInput` |
| `History_proofs!NoGaps` | `Spec => []NoGapInHistory` |
| `History_proofs!PendingLineKept` | `Spec => PendingComesBack` |
| `History_proofs!CompletionCorrect` | `Spec => []CompletesToCommonPrefix`, for distinct names without NUL |
| `Fish_proofs!ReadsAreTimed` | `FishSpec => ReturnsAfterInterrupt` |
| `Fish_proofs!ListImplementsTable` | `CellZeroUnused => (FishSpec => TableImplemented)`: the refinement of `BlinkTable` |
| `Fish_proofs!SyncedStayTogether` | `CellZeroUnused => (FishSpec => []SyncedTogether)` |
| `Fish_proofs!FramesBecomeBlinkers` | `CellZeroUnused /\ SlotsSuffice => (FishSpec => []FramesAdded)` |
| `Screen_proofs!TypeCorrect` | `Spec => []TypeOK` |
| `Screen_proofs!CursorStaysOnScreen` | `Spec => []CursorOnScreen`, wherever lines begin; of a line with a key without a character, that the cursor does not leave the screen at its end |
| `Screen_proofs!NothingStale` | `Spec => []BlankAfterCursor`, wherever lines begin and with keys without a character |
| `Screen_proofs!LineIsDisplayed` | `~StartAnywhere => (Spec => []EchoShown)`: of lines without such a key, with nothing printed into them |
| `Programs_proofs!TypeCorrect` | `ProgSpec => []TypeOK`, in every environment |
| `Programs_proofs!FilesReadRight` | `WholeWords => (ProgSpec => []PiecesMakeTheFile)` |
| `Programs_proofs!ZeroAtEndOnly` | `RoomForReads => (ProgSpec => ZeroMeansEnd)` |
| `Programs_proofs!ListingsAreComplete` | `Orderly => (ProgSpec => ListingIsComplete)` |
| `Programs_proofs!WorkIsDone` | `Orderly /\ WholeWords => (ProgSpec => []ProgramsDoTheirWork)` |
| `History_proofs!ArgumentsArrive` | `Delivered(l)` for every line l without NUL that the kernel's buffers hold (127 characters, the longest a terminal delivers): the kernel half of `ArgumentsDelivered` |
| `Hardware_proofs!NothingLeftInService` | `PicSpec => []InServiceMatches`, with and without prefix codes |
| `Hardware_proofs!TypeCorrect` | `Spec => []TypeOK`, in every environment |
| `Hardware_proofs!ScreensStayApart` | `Disciplined => (Spec => []OwnScreens)`, where programs fault on the terminal displayed |
| `Hardware_proofs!MappingIsOwn` | `Disciplined => (Spec => []MappedToOwnScreen)` |
| `Hardware_proofs!SwitchingKeepsScreens` | `Spec => SwitchKeepsScreens`, in every environment |

The hypotheses are those under which the runs check the same properties.
`Disciplined` and `LinesOnly` exclude what §5 reports.  `CellZeroUnused` is what
`fish.c:164` needs (§5), and asks of the frames only that their cells are numbers
of 16 bits.  `SlotsSuffice` is about frames whose lines run over the end of a row,
for there are as many slots as cells.

`StartAnywhere`, `Orderly` and `WholeWords` exclude what §5 reports of `lib.c:537`,
`filesystem.c:343` and `filesystem.c:153`.  `WholeWords` asks that `cat` and the other
processes read multiples of four bytes; fish's single bytes and grep's odd sizes are in
the model besides.  `RoomForReads` keeps every file one read away from the largest size,
at which `read_data` answers 0 (`filesystem.c:165`); `ProgramsAssumption` asks the same
for cat's reads.  The rest of `ProgramsAssumption` is what the image builder provides:
one directory, called ".", and names that differ.  `ScreenAssumption` has the geometry
of the real screen: at least two columns, a full line fits above the last row, and
prompt and line end within two rows (80 columns, 25 rows, lines of 127, prompt of 7);
recalled lines fit the buffer, and newline and NUL are kept apart from the other characters.

*Process.*  The type invariant alone is not inductive: a halt copies
`parent_pid` and `curr_pid` into places that need real pids, so the proof carries
`TypeInv`.  `NeverWild` and `ParentIsCaller` need `IInv`: the order in which boot
hands out pids (`BootOrder`), so that the pid `sys_execute` finds is the
terminal's number (`BootPid`, `RestartPid`); what a terminal's slot holds
(`Foreground`); that nobody has two callees (`OneCallee`), so that a halt leaves
every other parent suspended; and that waiting terminals are resumable.  One
lemma per action shows that it keeps the core of the invariant.

The calls between processes are a second invariant, on top
of `IInv`: every used pid is in a foreground or has a callee, everybody suspended in
`sys_execute` has one (`Calls`), and no exception flag is left over (`NoFlag`).  It is
kept because an execute turns a foreground process into a caller and a halt turns it
back; any other step starts no call and ends none (`KeepsCalls`).  In every environment,
where `IInv` fails, `Holders` still holds: nobody is suspended on the stack of a pid
that has been given back.

*Terminal.*  `Calm(t)`: a newline is in the buffer only while the flag is up, a reader
past its wait has the flag up, cells already cleared are zero, no row of the history fills
the buffer, and a key finds a cell free behind the string and behind the index.  `CalmInv`
has it of every terminal on which nothing was typed ahead, in every environment, and is
what `IndexKept` needs: Up and Down set the index from a row, TAB from the string, and
neither looks at the buffer's end.  `FlagInv`, without type-ahead, has it of all.  The refinement adds
what the buffer holds at each of the nine steps of the read (`LineInv`: `Editing` or
`Entered`) and that what has been copied is the beginning of the line (`CopyInv`), so
that the end of the copy is the read of `LineInput` and every other step of the reader
a stutter.  `StrlenOfLine` says where `strlen` stops: one byte later for a line that
fills the buffer, because the byte of `buf_idx` follows it.

*History and Completion.*  `HistoryInv` adds to `NoGapInHistory` the ranges of the two
indices and that the newest row holds the pending line while an older one is shown.
For the completion, `MatchesAre` says what the scan of the directory collects,
`NeighboursPart` that two names that begin alike part at an index the inner loop looks
at, `NeighboursSuffice` that comparing neighbours is enough, and `LongestIsWhereTheyPart`
that the longest common prefix of the reference ends there.

*Command line.*  `Places` names where `Parsed` cuts a line: the beginning of the
command, the space after it, the beginning of the arguments.  `ParsePlaces` shows that
every line has such places, the ends of the line included, and `Whole` that the pieces put
together again are the line.  What getargs copies ends at the first NUL of the buffer,
which is where the arguments end, because no typed character is one.

*Screen.*  `CursorOnScreen` is not inductive: a backspace needs a cell before the
cursor, and blanks behind it.  `ScreenInv` has two parts.  `AnyLineInv` is of every line:
types, the cursor before the end of the screen, blanks behind it (`PutcBlank`,
`BackspaceBlank`), even where the column is negative.  `LineInv` is of lines without a
dead key: the cursor is on the screen (`Good`), the line is no longer
than what stands before it, and a screen cleared under a line
(`handle_exception`) has its cursor below the first row, which is why erasing that line
does not leave the screen either.  `PutcGood`, `PutcNewline` and `BackspaceGood` are the
lemmas about one character, carried over texts by induction on the recursive functions
that `PutAll` and `Erase` use; `Further` says how far printing brings the cursor: one
cell on, or to the last row when it scrolls.  For `EchoShown` the invariant `Echo` also
remembers the column in which the line begins, in the cursor's row or the row above: C's
remainder then brings the column to 0 only when the whole line has been erased.

*Files and Programs.*  `FilesInv` is the type of the descriptors with `Positions` (the
position of an open file is the number of bytes it gave) and `Looking` (who is in
`dir_read` has the directory open).  Every step changes at most one descriptor
(`OneChanged`), or none and only the directory's position; `StepsAreEffects` shows that
once, and each invariant looks at these effects only.  `PiecesInv` adds that pieces end at
words, where the block and word counters of `read_data` agree with the byte's place.
`ListInv`: either nobody is listing and the position is 0, or exactly one process is,
and the position is the number of entries it has been given; its copies of the
position are up to date.  `WorkInv` says what RUNNER has open at each label and what it
has written (`ReadInv`, `Collected`), and how many calls of a test of `syserr` have failed
(`TestInv`: `err_open_lots` holds descriptors 2 to k while it opens, and gives them back in
the same order).  It needs that the steps of other processes leave RUNNER's
descriptors alone, and one lemma per action.

*Rtc, Blink and Fish.*  `ClockInv`: while a process that has not been ticked waits, the
flag is down.  For the list, `Chain(q, L)` names the slots on it in order: the pointers
lead through them to null, they are different, and they are exactly the slots that do
not look free.  This is what makes allocation take a slot off the list (`Allocated`),
finding and unlinking hit the newest element of a cell (`FindFinds`, `RemoveStep`), and
the walk of the tasklet the whole list (`WalkVisits`).  `Countdown` is the arithmetic of
`decw` and `jg` against the ticks that are left.  For the frames, `ReadInv` says where
each file is when add_frames is at row and col, `FileRead` that a file whose line is
over has nothing more in that row, and `FramesInv` that the table holds the blinkers of
exactly the places before row and col.

*Induction.*  The provers cannot instantiate a theorem with a predicate for its
parameter.  `NatFacts` states induction, least elements and recursion for sets and
functions instead, which they can: this is what the walk along the list, the scan of
the directory and the places in a file rest on.

*Video.*  `VideoInv` adds to `OwnScreens` that a drawing program has its own
screen mapped; different terminals have different places (`PlacesDiffer`), and
the two copies of `switch_terminals` only move screens (`SwitchKeeps`).  What is
printed after the display was cleared is its own terminal's (`OwnClear`).

*Pic.*  `PicInv` adds that no handler runs before set-up is over and that only a
running handler can be about to leave; without the latter a handler could start
with its acknowledgement already counted.  `EoiSuffices` covers all three
acknowledging handlers at once.

Only model-checked: liveness under fairness (`BootCompletes`,
`EveryTerminalScheduled`, `ReadReturns`, `EveryReadReturns`, `TimerServed`,
`RequestsServed`, `FishEnds`), which is out of the prover's reach; and of
`ArgumentsDelivered` the emulator's half (`SameInEmulator`) and the respaced `Variants` of a
line, whose operators split and fold sequences with community modules about which there are
no lemmas to cite.  `TypeOK` of `Rtc` and `History` documents the ranges of
their variables and holds in the instances of the runs.

## 5. Where the code departs from what it says

Shown by runs:

- `syscall.c:289`: for pid > 2 the parent and terminal of a new process are those
  of the terminal on display, not the caller's.
- `terminal.c:54`: an Enter between the clearing of the buffer and the reset of
  `key_flag` leaves a newline that no reader is told of.

Seen in the models, and excluded from the passing runs by the constants named:

- `filesystem.c:153`: the word index advances after every fourth byte *read*, so
  after a read of a size that is no multiple of four the next one returns bytes of
  the wrong word.  `ece391grep.c` reads such sizes, so `PiecesMakeTheFile` leaves it
  out: a line that crosses the end of its buffer is searched in wrong bytes.
- `filesystem.c:343`: one directory position for all processes, not reset by open.
- `terminal.c:102`: after Alt+Fn and until the next tick a drawing program writes
  on the terminal that was switched to.
- `syscall.c:273` (`ExecDuringBoot`): a program executed before all shells run
  gets a shell's pid, is restarted when it ends, and never answers its caller.
- `keyboard.c:136`: Ctrl+C ends the process that has the CPU, which may be a
  first shell on a terminal that is not displayed; `keyboard.c:193`: a Ctrl+C that
  cannot be used stays pending and strikes with the next key.
- `exceptions.c:59`: bit 2 of ESP does not tell user mode from kernel mode; an
  error code moves ESP by 4, so one of the two kinds of exception freezes the
  kernel (`BootCompletes` and `EveryTerminalScheduled` except that outcome).
- `terminal.c:46` (`TypeAhead`): `strlen` is called twice; a key in between can
  make the copy longer than nbytes.  Keys after Enter are returned after the
  newline.  A read longer than a full buffer includes a byte of `buf_idx`.
- `keyboard.c:247` (`DeadKeys`): a key without a character adds a NUL, which ends
  the line for `strlen`.
- `keyboard.c:338` (`TypeAhead`): Enter does not look at the buffer's end.  127
  characters and Enter fill the buffer; a second Enter with no reader stores a row
  without a NUL and overwrites `buf_idx`; Up then sets it to 129 (`keyboard.c:375`), and
  the next Enter overwrites its second byte (`spoilt`).
- `keyboard.c:119`, `lib.c:177` (`touched = "dead"`): Backspace erases a cell for a key
  that has none.  After 'a', Esc, Backspace the screen has lost the 'a' that the buffer
  keeps.  With the prompt in the first row, eight such keys and eight backspaces bring
  the cursor in front of video memory.
- `filesystem.c:141`: reads do not stop at the end of the file (properties about
  the file's bytes are limited to its length), and `ece391cat.c` prints what was
  read past it; `filesystem.c:288`: an empty file
  gives one byte, of a block that is not its own, before it ends, and fish draws it
  (`FOREIGN`); `filesystem.c:165`: the read that ends a file of the maximal size
  returns 0.
- `filesystem.c:61`: a name of more than 32 characters is never found, although
  the test at `tests.c:217` expects it to be.
- `rtc.c:106`: a frequency outside the table programs an uninitialised rate.
- `keyboard.c:66` (`dropped`): a scancode above 0xD8, such as the prefix of the grey
  cursor keys, is not acknowledged; keyboard and clock stay silent from then on.
- `keyboard.c:325`: with 100 lines stored the search for an empty row ends behind
  the array, and moving up then writes the line there, into the next terminal's
  record.  An empty line entered on a recalled row opens that row for the next
  line, so that lines are no longer in the order they were entered.
- `keyboard.c:575` (`LongCompletions`, `HistoryAssumption`): a completed line longer
  than the buffer is written over `buf_idx`; `keyboard.c:469`: a word of more than 33
  characters over the stack.
- `lib.c:537` (`StartAnywhere`): erasing back over a whole row from column 0 brings
  the column to 0 again, so a line that begins so far right that it ends in its
  third row cannot be erased correctly.
- `exceptions.c:38` (`touched`): an exception on any terminal clears the one on
  display without printing its unfinished line again.
- `exceptions.c:39` (`FaultInBackground`): what is printed of an exception appears on
  the terminal displayed, whichever terminal's process faulted.
- `paging.c:141` (`VidmapInBackground`): `map_vidmem` maps the display, whichever
  terminal the caller is on.

- `syscall.c:517` says that `getargs` returns "-1 if no arguments or if arguments
  and a terminal null do not fit in the buffer"; the code cuts them off without a
  NUL and returns 0 (`sys_getargs`).  A command word of 127 characters leaves
  `cmd` without a NUL; `read_dentry_by_name` rejects it by its length.
- `ece391emulate.c`: the emulator takes a leading space for an empty command,
  replaces runs of spaces in the arguments by one and drops those behind them, and
  `getargs` without arguments succeeds with an empty string.  Programs see the same
  as in the kernel only for lines with single spaces (`ArgumentsDelivered`).
- `blink.S:281`: after `testb`, `cmovl` never moves, so sync shows the off character
  of an element that is on, until its next toggle (`mp1_ioctl_sync`).
- `fish.c:164`: an element in cell 0 leaves its slot marked free; the next add takes
  the slot again, and the list becomes a cycle (`CellZeroUnused`).  fish uses no cell below 40.

## 6. Not modelled, and the plan

Not modelled: boot and the descriptor tables (straight-line set-up), assembly
linkage beyond what it means for interrupts and for the number of a call, the
other string and print routines, the in-kernel tests, grep's search within a line,
and what of the emulator passes calls on to Linux.  The shell, hello, counter,
pingpong, testprint and sigtest are environment: loops of single calls that
`Process`, `Terminal` and `Rtc` allow at any time.

Order of the work:

1. *Done:* processes and scheduler with their core theorems; terminal input
   against its abstract specification; files; clock; video and the interrupt
   controller with their theorems; screen, history and completion.
2. *Done:* the programs that combine system calls over several steps, on top of
   `Files` and `Rtc`; fish's blink table against its abstract specification;
   command line and `getargs`.
3. *Done:* theorems for the remaining safety properties of `Process`; the refinements
   of `LineInput` and `BlinkTable`; clock, history, completion and frames.
   Then screen and cursor; the word and block arithmetic of `read_data`, listings and
   the programs; the kernel's command line.
   *Left:* the emulator's half of `ArgumentsDelivered`.
4. An abstract process specification (per-terminal stacks of programs) that
   `Process` implements.
