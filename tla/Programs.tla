------------------------------- MODULE Programs -------------------------------
(* User programs on top of the file descriptors: cat, ls, grep, syserr and  *)
(* the way fish reads its frames.  The process RUNNER runs one of them to   *)
(* its end, or makes any calls, while the other processes make any calls.   *)
(* A step is a system call and what the program does with its result.       *)
EXTENDS Files, SequencesExt

CONSTANTS
    RUNNER,
    Arguments,      \* what cat's command line may hold after the name
    CAT_SIZE,       \* 1024 in the code
    GrepSizes,      \* BUFSIZE - last, for the line that was left over
    Selections,     \* the test numbers typed to syserr
    WrongNames      \* names that differ from a file's by a character, and ""

DOT == <<".">>
Exists(name) == \E d \in 1..Len(direntries) : direntries[d].filename = name

\* The image has one directory, ".", its names differ, and its files are not so long
\* that the last read of one runs off the block table.
ASSUME ProgramsAssumption ==
    /\ RUNNER \in Procs
    /\ FDA_SIZE > 3
    /\ CAT_SIZE \in Nat \ {0} /\ GrepSizes \subseteq Nat \ {0}
    /\ Selections \subseteq Nat
    /\ Exists(DOT)
    /\ \A d \in 1..Len(direntries) :
          /\ direntries[d].filetype = "dir" <=> direntries[d].filename = DOT
          /\ \A e \in 1..Len(direntries) : direntries[d].filename = direntries[e].filename => d = e
    /\ \A n \in Inodes : inodes[n].length + CAT_SIZE <= NUM_DATA_BLOCKS * BLOCK_SIZE
    /\ Len(WrongNames) \in Nat /\ DOMAIN WrongNames = 1..Len(WrongNames)
    /\ \A j \in DOMAIN WrongNames : ~Exists(WrongNames[j])

VARIABLES
    program,        \* what RUNNER runs
    args,           \* its argument; <<>> is none
    at,             \* where it is
    file,           \* the descriptor of the file it reads, or of grep's directory
    inner,          \* grep: the descriptor in do_one_file
    out,            \* what it has written; for grep the files searched, for fish the bytes read
    select,         \* syserr: the number typed, 0 for all tests
    test, k, cnt,   \* ... the test, its next call, and how many of its calls failed
    status          \* the return value of main

prog_vars == <<program, args, at, file, inner, out, select, test, k, cnt, status>>
syserr_vars == <<select, test, k, cnt>>

ProgInit ==
    /\ Init
    /\ program \in {"cat", "ls", "grep", "syserr", "fish", "any"}
    /\ args \in CASE program = "cat" -> Arguments
                  [] program = "fish" -> Arguments \ {<<>>, DOT}
                  [] program = "grep" -> {<<>>, DOT}
                  [] OTHER -> {<<>>}
    /\ at = "start"
    /\ file = 0 /\ inner = 0
    /\ out = <<>>
    /\ select \in IF program = "syserr" THEN Selections ELSE {0}
    /\ test = IF select = 0 THEN 1 ELSE select
    /\ k = 1 /\ cnt = 0
    /\ status = 0

\* main returns; _start passes the value to halt.
Return(value) == at' = "exit" /\ status' = value
GoOn(label) == at' = label /\ UNCHANGED status

\* getargs, which fails when there are none; syserr reads the number instead.
Start ==
    /\ at = "start"
    /\ IF program \in {"cat", "grep"} /\ args = <<>> THEN Return(3)
       ELSE IF program = "syserr" /\ select > 8 THEN Return(0)
       ELSE GoOn(IF program = "syserr" THEN "test" ELSE "open")
    /\ UNCHANGED <<vars, program, args, file, inner, out, syserr_vars>>

\* cat and fish open their file, ls and grep the directory.
Open ==
    /\ at = "open"
    /\ sys_open(RUNNER, IF program \in {"cat", "fish"} THEN args ELSE DOT)
    /\ file' = ret'
    /\ IF ret' # -1 THEN GoOn("read") ELSE Return(IF program = "fish" THEN 255 ELSE 2)
    /\ UNCHANGED <<program, args, inner, out, syserr_vars>>

\* What the result of a read of "file" leads to.
AfterRead(label) ==
    IF ret' = 0 THEN Return(0) ELSE IF ret' = -1 THEN Return(3) ELSE GoOn(label)

ReadSize == IF program = "fish" THEN 1 ELSE CAT_SIZE

\* A file's bytes arrive with the call that reads them, ...
ReadFile ==
    /\ at = "read"
    /\ ~Listing(RUNNER, file)
    /\ sys_read(RUNNER, file, ReadSize)
    /\ out' = out \o SubSeq(given'[RUNNER][file], Len(given[RUNNER][file]) + 1, Len(given'[RUNNER][file]))
    /\ AfterRead(IF program = "fish" THEN "read" ELSE "write")
    /\ UNCHANGED <<program, args, file, inner, syserr_vars>>

\* ... a directory entry's name when dir_read returns; grep passes over names with a dot.
ReadDirectory ==
    /\ at = "read"
    /\ Listing(RUNNER, file)
    /\ sys_read(RUNNER, file, FILENAME_LEN)
    /\ UNCHANGED prog_vars

DirReadReturns ==
    /\ \/ /\ DirStore(RUNNER)
          /\ LET d == test_dentry[RUNNER] IN
             IF program # "grep" THEN out' = Append(out, d) /\ AfterRead("write")
             ELSE IF direntries[d].filename[1] = "." THEN UNCHANGED out /\ AfterRead("read")
             ELSE out' = Append(out, d) /\ AfterRead("search")
       \/ DirReset(RUNNER) /\ UNCHANGED out /\ AfterRead("read")
    /\ UNCHANGED <<program, args, file, inner, syserr_vars>>

Write ==
    /\ at = "write"
    /\ sys_write(RUNNER, 1)
    /\ IF ret' = -1 THEN Return(3) ELSE GoOn("read")
    /\ UNCHANGED <<program, args, file, inner, out, syserr_vars>>

\* grep's do_one_file, for the entry read last: the search itself is left out.
SearchOpen ==
    /\ at = "search"
    /\ sys_open(RUNNER, direntries[Last(out)].filename)
    /\ inner' = ret'
    /\ IF ret' # -1 THEN GoOn("searching") ELSE Return(3)
    /\ UNCHANGED <<program, args, file, out, syserr_vars>>

SearchRead ==
    /\ at = "searching"
    /\ \E n \in GrepSizes : sys_read(RUNNER, inner, n)
    /\ IF ret' = -1 THEN Return(3) ELSE GoOn(IF ret' = 0 THEN "searched" ELSE "searching")
    /\ UNCHANGED <<program, args, file, inner, out, syserr_vars>>

\* Mutant: the file is not closed.
SearchLeavesOpen ==
    /\ at = "searched"
    /\ GoOn("read")
    /\ UNCHANGED <<vars, program, args, file, inner, out, syserr_vars>>

SearchClose ==
    /\ at = "searched"
    /\ sys_close(RUNNER, inner)
    /\ IF ret' = -1 THEN Return(3) ELSE GoOn("read")
    /\ UNCHANGED <<program, args, file, inner, out, syserr_vars>>

-----------------------------------------------------------------------------
(* syserr.  A test makes its calls and counts those that failed.            *)

Call(name, arg) == [call |-> name, arg |-> arg]
Each(name, arguments) == [j \in DOMAIN arguments |-> Call(name, arguments[j])]
From(first, last) == [j \in 1..(last - first + 1) |-> first + j - 1]

err_neg_fd == <<Call("read", -1), Call("write", -1), Call("close", -1)>>
err_big_fd == <<Call("read", FDA_SIZE), Call("write", FDA_SIZE), Call("close", FDA_SIZE)>>
err_open_lots ==
    Each("open", [j \in 1..(FDA_SIZE - 1) |-> DOT]) \o Each("close", From(2, FDA_SIZE - 1))
err_open == Each("open", WrongNames)
err_unopened ==
    Each("close", From(0, FDA_SIZE - 1)) \o Each("read", From(2, FDA_SIZE - 1))
    \o Each("write", From(2, FDA_SIZE - 1))
err_vidmap == Each("vidmap", <<"null", "kernel">>)
err_stdin_out == <<Call("write", 0), Call("read", 1)>>
err_syscall_num == Each("number", <<9, -1, 0>>)

Tests == <<err_neg_fd, err_big_fd, err_open_lots, err_open, err_unopened, err_vidmap,
           err_stdin_out, err_syscall_num>>

\* err_open_lots counts only its opens, and expects one to fail.
Counts(c) == test = 3 => c.call = "open"
Expected(t) == IF t = 3 THEN 1 ELSE Len(Tests[t])

\* vidmap takes addresses in the user page, and the system calls have the numbers 1 to 8.
sys_vidmap(pointer) == JustReturns(IF pointer = "user" THEN 0 ELSE -1)
SYSTEM_CALL_WRAPPER(number) == number \notin 1..8 /\ JustReturns(-1)

Make(c) ==
    \/ c.call = "open" /\ sys_open(RUNNER, c.arg)
    \/ c.call = "close" /\ sys_close(RUNNER, c.arg)
    \/ c.call = "read" /\ sys_read(RUNNER, c.arg, CAT_SIZE)
    \/ c.call = "write" /\ sys_write(RUNNER, c.arg)
    \/ c.call = "vidmap" /\ sys_vidmap(c.arg)
    \/ c.call = "number" /\ SYSTEM_CALL_WRAPPER(c.arg)

TestCall ==
    /\ at = "test"
    /\ k <= Len(Tests[test])
    /\ LET c == Tests[test][k] IN
       /\ Make(c)
       /\ cnt' = IF ret' = -1 /\ Counts(c) THEN cnt + 1 ELSE cnt
    /\ k' = k + 1
    /\ UNCHANGED <<program, args, at, file, inner, out, select, test, status>>

Verdict ==
    /\ at = "test"
    /\ k > Len(Tests[test])
    /\ status' = IF cnt = Expected(test) THEN status ELSE status + 2
    /\ IF select = 0 /\ test < 8 THEN test' = test + 1 /\ UNCHANGED at
       ELSE at' = "exit" /\ UNCHANGED test
    /\ k' = 1 /\ cnt' = 0
    /\ UNCHANGED <<vars, program, args, file, inner, out, select>>

-----------------------------------------------------------------------------

Exit ==
    /\ at = "exit"
    /\ Halt(RUNNER)
    /\ at' = "done"
    /\ UNCHANGED <<program, args, file, inner, out, syserr_vars, status>>

Main ==
    \/ Start \/ Open \/ ReadFile \/ ReadDirectory \/ Write
    \/ DirCopy(RUNNER) /\ UNCHANGED prog_vars
    \/ DirReadReturns
    \/ SearchOpen \/ SearchRead \/ SearchClose
    \/ TestCall \/ Verdict
    \/ Exit

ProgNext ==
    \/ program # "any" /\ Main
    \/ \E p \in Procs :
          /\ p = RUNNER => program = "any"
          /\ AnyCall(p)
          /\ UNCHANGED prog_vars

ProgSpec == ProgInit /\ [][ProgNext]_<<vars, prog_vars>>

-----------------------------------------------------------------------------
(* Properties.                                                              *)

\* Reading a file piece by piece gives the file: the bytes a descriptor has returned
\* since open are the file's own, in order, up to its end, across block boundaries and
\* whatever else is opened, closed and read in between (filesystem.c:284-297).  The pieces
\* are whole words or single bytes; grep's reads of other sizes are left out.
PiecesMakeTheFile ==
    \A p \in Procs, fd \in Fds :
        OpenFile(p, fd) /\ ~(p = RUNNER /\ program = "grep") =>
            \A j \in 1..Len(given[p][fd]) :
                j <= LengthOf(p, fd) => given[p][fd][j] = FileByte(fda[p][fd].inode, j - 1)

Named(name) == CHOOSE d \in 1..Len(direntries) : direntries[d].filename = name
FileOf(name) ==
    LET d == direntries[Named(name)] IN
    IF d.filetype = "file" THEN [j \in 1..inodes[d.inode_num].length |-> FileByte(d.inode_num, j - 1)]
    ELSE <<>>
All == [d \in 1..Len(direntries) |-> d]

\* The programs do their work, whatever the other processes do: cat and fish get the
\* whole file (fish nothing more, if there is anything in it), ls lists all names in
\* order, grep comes past every file without running out of descriptors, and syserr's
\* eight tests pass; cat's status tells a missing argument from a missing file
\* (ece391cat.c, ece391ls.c, ece391grep.c, ece391syserr.c, fish.c:91-116).
ProgramsDoTheirWork ==
    at \in {"exit", "done"} =>
        /\ program \in {"cat", "grep"} /\ args = <<>> => status = 3
        /\ program \in {"cat", "fish"} /\ args # <<>> /\ ~Exists(args) => status \in {2, 255}
        /\ program = "cat" /\ args # DOT /\ Exists(args) => status = 0 /\ IsPrefix(FileOf(args), out)
        /\ program = "fish" /\ Exists(args) =>
              status = 0 /\ (FileOf(args) # <<>> => out = FileOf(args))
        /\ program = "ls" \/ (program = "cat" /\ args = DOT) => status = 0 /\ out = All
        /\ program = "grep" /\ args # <<>> =>
              /\ status = 0
              /\ Range(out) = {d \in Range(All) : direntries[d].filename[1] # "."}
              /\ \A i, j \in 1..Len(out) : i < j => out[i] < out[j]
        /\ program = "syserr" => status = 0
=============================================================================
