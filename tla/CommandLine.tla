----------------------------- MODULE CommandLine -----------------------------
(* From the line that the shell passes to execute to the string that the    *)
(* program gets from getargs: the kernel's way (syscall.c) and that of the  *)
(* emulator (ece391emulate.c), under which the same programs run on Linux.  *)
(* The shell has cut off the newline.  The lines are those that History     *)
(* reaches, with spaces added.                                              *)
EXTENDS History

CONSTANT BufferSizes    \* the nbytes programs pass to getargs

ASSUME CommandLineAssumption == BufferSizes \subseteq Int

\* The first index from k on whose character is not (is) a space; the end at the latest.
PastSpaces(l, k) == Min({j \in k..Len(l) : CharAt(l, j) # SPACE})
ToSpace(l, k) == Min({j \in k..Len(l) : CharAt(l, j) \in {SPACE, NUL}})

\* Mutant: only one space is skipped before the arguments.
ParsedOneSpace(l) ==
    LET word == PastSpaces(l, 0)
        space == ToSpace(l, word)
    IN  [cmd |-> SubSeq(l, word + 1, space), args |-> SubSeq(l, space + 2, Len(l))]

\* sys_execute's parsing.
Parsed(l) ==
    LET word == PastSpaces(l, 0)
        space == ToSpace(l, word)
    IN  [cmd |-> SubSeq(l, word + 1, space),
         args |-> SubSeq(l, PastSpaces(l, space) + 1, Len(l))]

\* The bytes in the buffer after the call; the rest of them is set to zero.
strncpy(src, n) == [j \in 1..n |-> CharAt(src, j - 1)]

FAILED == [ret |-> -1, buf |-> <<>>]

\* A string that does not fit is cut off without a NUL, and the call succeeds.
sys_getargs(args, nbytes) ==
    IF nbytes <= 0 \/ args = <<>> THEN FAILED
    ELSE [ret |-> 0, buf |-> strncpy(args, nbytes)]

-----------------------------------------------------------------------------
(* The emulator.  A leading space makes the command empty.                  *)

\* The words of a line, each from a character that begins one to the next space.
Words(l) ==
    LET begins == SelectSeq([j \in 1..Len(l) |-> j], LAMBDA j :
                      l[j] # SPACE /\ (j = 1 \/ l[j - 1] = SPACE))
    IN  [w \in DOMAIN begins |-> SubSeq(l, begins[w], ToSpace(l, begins[w] - 1))]

ece391_execute(l) ==
    LET space == ToSpace(l, 0) IN
    [cmd |-> SubSeq(l, 1, space), argv |-> Words(SubSeq(l, space + 2, Len(l)))]

\* The words with single spaces in between.
Joined(argv) == FoldLeft(LAMBDA s, w : IF s = <<>> THEN w ELSE s \o <<SPACE>> \o w, <<>>, argv)

\* No words are no failure here, and a string that does not fit is one.
ece391_getargs(argv, nbytes) ==
    IF Len(Joined(argv)) >= nbytes THEN FAILED
    ELSE [ret |-> 0, buf |-> Append(Joined(argv), NUL)]

-----------------------------------------------------------------------------
(* Properties.                                                              *)

\* What a C program reads from a buffer.
String(buf) == SubSeq(buf, 1, Min({j \in 1..Len(buf) : buf[j] = NUL}) - 1)

Blanks(n) == [j \in 1..n |-> SPACE]

\* The line as it is, with every space doubled, and with spaces at both ends.
Variants(l) ==
    LET doubled == FlattenSeq([j \in DOMAIN l |-> IF l[j] = SPACE THEN Blanks(2) ELSE <<l[j]>>])
    IN  {l, doubled, Blanks(1) \o doubled \o Blanks(2)}

\* The kernel's way: the command is the first word, and a program that is given a large
\* enough buffer gets what was typed after it (syscall.c:162-186, 521-539).
Delivered(l) ==
    LET p == Parsed(l) IN
    /\ SPACE \notin Range(p.cmd)
    /\ p.cmd = <<>> => p.args = <<>>
    /\ p.args # <<>> => p.args[1] # SPACE
    /\ \E before, between \in 0..Len(l) :
          l = Blanks(before) \o p.cmd \o Blanks(between) \o p.args
    /\ \A n \in BufferSizes : n > Len(p.args) /\ p.args # <<>> =>
          sys_getargs(p.args, n).ret = 0 /\ String(sys_getargs(p.args, n).buf) = p.args

\* The emulator's way gives the same if the words are separated by single spaces
\* (ece391emulate.c:67-157).
SameInEmulator(l) ==
    LET p == Parsed(l)
        e == ece391_execute(l)
    IN  \A n \in BufferSizes :
          /\ n > Len(p.args) /\ p.args # <<>>
          /\ p.cmd \o <<SPACE>> \o Joined(Words(p.args)) = l
          => /\ e.cmd = p.cmd
             /\ ece391_getargs(e.argv, n).ret = 0
             /\ String(ece391_getargs(e.argv, n).buf) = p.args

\* A program gets what was typed after the command, however many spaces stand before,
\* between and behind the words; and it gets the same in the kernel and in the emulator
\* if the words are separated by single spaces.
ArgumentsDelivered == \A l \in Variants(line) : Delivered(l) /\ SameInEmulator(l)
=============================================================================
