--------------------------------- MODULE Fish ---------------------------------
(* The fish program (fish.c): it turns two frame files into blinkers and    *)
(* lets the real-time clock drive them, while other processes use the clock *)
(* as they like.  The process FISH runs fish, or some other program linked  *)
(* with blink.S that makes any ioctls.                                      *)
EXTENDS Rtc, Blink

CONSTANTS
    FISH,
    FramePairs,     \* what frame0.txt and frame1.txt may hold
    FOREIGN,        \* what the byte may be that is read of an empty file
    MISSING,        \* a file that cannot be opened
    COLS,           \* 80
    OFFSET,         \* 40
    WAIT,           \* reads of the clock in each loop of main, 100
    FRAME_LENGTH,   \* on_length and off_length of the frames' blinkers, 15
    EXTRA,          \* main's own blink_struct
    AnyBlinks, AnyLocations     \* the arguments of the other program's ioctls

Both == {0, 1}          \* the frames, and their descriptors

ASSUME FishAssumption ==
    /\ FISH \in Procs /\ WAIT \in Nat \ {0}
    /\ COLS \in Nat /\ OFFSET \in Nat /\ FRAME_LENGTH \in Word
    /\ AnyBlinks \cup {EXTRA} \subseteq Struct
    /\ FramePairs \subseteq [Both -> {MISSING} \cup Seq(CHARS)]
    /\ FOREIGN \subseteq CHARS

VARIABLES
    program,        \* what FISH runs: "fish" or "any"
    frames,         \* what can be read of the two files
    at,             \* where main and add_frames are
    c, off, eof,    \* add_frames: c0 and c1, the read positions, eof0 and eof1
    row, col,
    open,           \* the open descriptors
    loop, i,        \* main: which of the four loops, and its counter
    status          \* what the program returned

fish_vars == <<program, frames, at, c, off, eof, row, col, open, loop, i, status>>
rtc_vars == vars
all_vars == <<fish_vars, rtc_vars, blink_vars>>

NL == "newline"
rtc_fd == 2

(* What file_read delivers of a file, byte after byte.  It lets a file of no  *)
(* bytes through to read_data, which gives one byte of a block that is not    *)
(* the file's, and only then the end.                                         *)
Delivered(file) == IF file = <<>> THEN {<<byte>> : byte \in FOREIGN} ELSE {file}
Readings ==
    UNION {{pair \in [Both -> Delivered(files[0]) \cup Delivered(files[1])] :
               \A f \in Both : pair[f] \in Delivered(files[f])} : files \in FramePairs}

FishInit ==
    /\ Init /\ BlinkInit
    /\ program \in {"fish", "any"}
    /\ frames \in IF program = "fish" THEN Readings ELSE {[f \in Both |-> MISSING]}
    /\ at = "start"
    /\ c = [f \in Both |-> "0"]
    /\ off = [f \in Both |-> 0]
    /\ eof = [f \in Both |-> FALSE]
    /\ row = 0 /\ col = 0
    /\ open = {}
    /\ loop = 1 /\ i = 0
    /\ status = 0

reading == <<c, off, eof, row, col>>

\* vidmap takes the address of a variable in the user page and does not fail.
OpenClock ==
    /\ at = "start"
    /\ rtc_open(FISH)
    /\ at' = "files"
    /\ open' = {rtc_fd}
    /\ UNCHANGED <<program, frames, reading, loop, i, status, blink_vars>>

\* A file that is missing ends the program through halt(-1).
OpenFrames ==
    /\ at = "files"
    /\ IF \E f \in Both : frames[f] = MISSING
       THEN at' = "done" /\ status' = 255 /\ open' = {}
       ELSE at' = "frames" /\ open' = open \cup Both /\ UNCHANGED status
    /\ UNCHANGED <<program, frames, reading, loop, i, rtc_vars, blink_vars>>

\* One read of one byte, unless this line of the file is over; none left is the end.
Character(f) ==
    IF c[f] = NL THEN [char |-> NL, off |-> off[f], eof |-> eof[f]]
    ELSE IF off[f] = Len(frames[f]) THEN [char |-> NL, off |-> off[f], eof |-> TRUE]
    ELSE [char |-> frames[f][off[f] + 1], off |-> off[f] + 1, eof |-> eof[f]]

Blank(char) == IF char = NL THEN " " ELSE char

\* Both lines are over: the files that have ended are closed (again, if they were).
RowEnd(read) ==
    /\ c' = [f \in Both |-> IF read[f].eof THEN NL ELSE "0"]
    /\ open' = open \ {f \in Both : read[f].eof}
    /\ at' = IF \A f \in Both : read[f].eof THEN "rate" ELSE at
    /\ row' = row + 1
    /\ col' = 0
    /\ UNCHANGED blink_vars

\* Mutant: only the first file decides whether the cell blinks.
ColumnOfFirst(read) ==
    /\ IF Blank(read[0].char) = " " THEN UNCHANGED blink_vars
       ELSE mp1_ioctl_add([Zeroed EXCEPT
                !.location = (row * COLS + col + OFFSET) % WORD,
                !.on_char = Blank(read[0].char), !.off_char = Blank(read[1].char),
                !.on_length = FRAME_LENGTH, !.off_length = FRAME_LENGTH])
    /\ c' = [f \in Both |-> read[f].char]
    /\ col' = col + 1
    /\ UNCHANGED <<at, open, row>>

Column(read) ==
    /\ IF \A f \in Both : Blank(read[f].char) = " " THEN UNCHANGED blink_vars
       ELSE mp1_ioctl_add([Zeroed EXCEPT
                !.location = (row * COLS + col + OFFSET) % WORD,
                !.on_char = Blank(read[0].char), !.off_char = Blank(read[1].char),
                !.on_length = FRAME_LENGTH, !.off_length = FRAME_LENGTH])
    /\ c' = [f \in Both |-> read[f].char]
    /\ col' = col + 1
    /\ UNCHANGED <<at, open, row>>

\* One round of add_frames' inner loop.
add_frames ==
    /\ at = "frames"
    /\ LET read == [f \in Both |-> Character(f)] IN
       /\ off' = [f \in Both |-> read[f].off]
       /\ eof' = [f \in Both |-> read[f].eof]
       /\ IF \A f \in Both : read[f].char = NL THEN RowEnd(read) ELSE Column(read)
    /\ UNCHANGED <<program, frames, loop, i, status, rtc_vars>>

SetRate ==
    /\ at = "rate"
    /\ rtc_write(FISH, 32)
    /\ at' = "read"
    /\ UNCHANGED <<program, frames, reading, open, loop, i, status, blink_vars>>

ReadClock ==
    /\ at = "read"
    /\ rtc_read(FISH)
    /\ at' = "tick"
    /\ UNCHANGED <<program, frames, reading, open, loop, i, status, blink_vars>>

Tick ==
    /\ at = "tick"
    /\ ReadReturns(FISH)
    /\ mp1_rtc_tasklet
    /\ i' = (i + 1) % WAIT
    /\ at' = IF i + 1 = WAIT THEN "ioctl" ELSE "read"
    /\ UNCHANGED <<program, frames, reading, open, loop, status>>

\* What main does after each of its loops.
Ioctl ==
    /\ at = "ioctl"
    /\ \/ loop = 1 /\ mp1_ioctl_add(EXTRA)
       \/ loop = 2 /\ mp1_ioctl_sync(OFFSET, EXTRA.location)
       \/ loop = 3 /\ mp1_ioctl_remove(EXTRA.location)
    /\ loop' = loop + 1
    /\ at' = "read"
    /\ UNCHANGED <<program, frames, reading, open, i, status, rtc_vars>>

Exit ==
    /\ at = "ioctl"
    /\ loop = 4
    /\ open' = open \ {rtc_fd}
    /\ at' = "done"
    /\ status' = 0
    /\ UNCHANGED <<program, frames, reading, loop, i, rtc_vars, blink_vars>>

main == OpenClock \/ OpenFrames \/ add_frames \/ SetRate \/ ReadClock \/ Tick \/ Ioctl \/ Exit

\* The other program; mp1_ioctl_find changes nothing.
mp1_ioctl ==
    \/ \E blink \in AnyBlinks : mp1_ioctl_add(blink)
    \/ \E location \in AnyLocations :
          \/ mp1_ioctl_remove(location)
          \/ \E destination \in AnyLocations : mp1_ioctl_sync(location, destination)

FishNext ==
    \/ program = "fish" /\ main
    \/ program = "any" /\ (mp1_ioctl \/ mp1_rtc_tasklet) /\ UNCHANGED <<fish_vars, rtc_vars>>
    \/ /\ program = "fish"
       /\ (\E p \in Procs \ {FISH} : AnyCall(p)) \/ rtc_handler
       /\ UNCHANGED <<fish_vars, blink_vars>>

FishSpec == FishInit /\ [][FishNext]_all_vars

\* The fairness of Rtc, and a running program goes on.
FairFishSpec ==
    /\ FishSpec
    /\ WF_all_vars(program = "fish" /\ rtc_handler /\ UNCHANGED <<fish_vars, blink_vars>>)
    /\ WF_all_vars(program = "fish" /\ main)
    /\ SF_all_vars(program = "fish" /\ Tick)
    /\ \A p \in Procs \ {FISH} :
          SF_all_vars(program = "fish" /\ ReadReturns(p) /\ UNCHANGED <<fish_vars, blink_vars>>)

-----------------------------------------------------------------------------
(* Properties.                                                              *)

\* The place of the k-th character of a file, if it is not a newline.
Line(file, k) == Cardinality({j \in 1..(k - 1) : file[j] = NL})
Place(file, k) == k - 1 - Max({0} \cup {j \in 1..(k - 1) : file[j] = NL})
At(file, r, k) ==
    LET there == {j \in DOMAIN file : file[j] # NL /\ Line(file, j) = r /\ Place(file, j) = k} IN
    IF there = {} THEN " " ELSE file[CHOOSE j \in there : TRUE]

\* The places where a file draws something, and the cells of the screen they are in.
Drawn(file) ==
    {<<Line(file, j), Place(file, j)>> : j \in {j \in DOMAIN file : file[j] \notin {NL, " "}}}
Cell(place) == OFFSET + place[1] * COLS + place[2]
OnScreen(pair) == {p \in Drawn(pair[0]) \cup Drawn(pair[1]) : Cell(p) < CELLS}

\* Once the frames are read there is one blinker for each place on the screen that
\* either file draws in, with the two files' characters, and both files are closed:
\* lines and files of different lengths, blank ones, a last line without a newline and
\* lines below the screen included.  A file of no bytes draws the one foreign character
\* that is read of it (fish.c:98-147, filesystem.c:288).
FramesAdded ==
    at = "rate" =>
        LET drawn == OnScreen(frames) IN
        /\ open = {rtc_fd}
        /\ Len(Table) = Cardinality(drawn)
        /\ {<<b.location, b.on_char, b.off_char>> : b \in ToSet(Table)}
           = {<<Cell(p), At(frames[0], p[1], p[2]), At(frames[1], p[1], p[2])>> : p \in drawn}

\* What the table expects of its users, a slot with the location 0 being a free one: no
\* blinker is for the cell 0, which with 16-bit locations takes lines short and few enough.
CellZeroUnused ==
    /\ OFFSET # 0
    /\ \A blink \in AnyBlinks \cup {EXTRA} : blink.location # 0
    /\ \A pair \in Readings : \A f \in Both : pair[f] # MISSING =>
          \A j \in DOMAIN pair[f] :
             pair[f][j] # NL => Cell(<<Line(pair[f], j), Place(pair[f], j)>>) < WORD

\* The array has a slot for every place that either frame draws in.
SlotsSuffice ==
    \A pair \in Readings : (\A f \in Both : pair[f] # MISSING) =>
        Cardinality(OnScreen(pair)) <= SLOTS

\* While the clock keeps running, fish comes to its end, whatever the other processes
\* do to the clock's rate and to its flag (fish.c:41-76).
FishEnds == program = "fish" /\ <>[]Running => <>(at = "done" /\ open = {})
=============================================================================
