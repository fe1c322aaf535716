--------------------------- MODULE Programs_proofs ---------------------------
(* Proofs about the file descriptors and the programs that use them, for    *)
(* every image, every number of processes and descriptors and every size of *)
(* the programs' buffers.                                                   *)
EXTENDS Programs, NatFacts, SequenceTheorems

-----------------------------------------------------------------------------
(* What a system call can do to the descriptors.                            *)

\* Only the return value changes.
Returned == ret' \in Int /\ UNCHANGED <<fda, global_file_index, dir_locals, given>>

\* sys_open has found the entry d and the first free descriptor fd.
Opened(p, fd, d) ==
    /\ pc[p] = "user"
    /\ fd \in FreeFds(p) /\ d \in 1..Len(direntries)
    /\ \A g \in FreeFds(p) : fd <= g
    /\ fda' = [fda EXCEPT ![p][fd] = NewEntry(p, fd, direntries[d])]
    /\ given' = [given EXCEPT ![p][fd] = <<>>]
    /\ ret' = fd
    /\ UNCHANGED <<global_file_index, dir_locals>>

\* sys_close has closed fd.
Closed(p, fd) ==
    /\ pc[p] = "user"
    /\ fd \in Fds \ {0, 1} /\ InUse(p, fd) /\ MayLeave(p, fd)
    /\ fda' = [fda EXCEPT ![p][fd].flags = NOT_IN_USE]
    /\ given' = [given EXCEPT ![p][fd] = <<>>]
    /\ ret' = 0
    /\ UNCHANGED <<global_file_index, dir_locals>>

\* file_read has called read_data.
FileRead(p, fd, n) ==
    /\ pc[p] = "user"
    /\ fd \in Fds /\ OpenFile(p, fd)
    /\ ~AtEnd(fda[p][fd], LengthOf(p, fd))
    /\ LET bytes == read_data(fda[p][fd].inode, fda[p][fd].file_position, n) IN
       /\ fda' = [fda EXCEPT ![p][fd].file_position = fda[p][fd].file_position + Len(bytes)]
       /\ given' = [given EXCEPT ![p][fd] = given[p][fd] \o bytes]
       /\ ret' = Len(bytes)
    /\ UNCHANGED <<global_file_index, dir_locals>>

\* dir_read has looked up an entry.
Looked(p, fd) == pc[p] = "user" /\ fd \in Fds /\ Listing(p, fd) /\ dir_read(p, fd)

\* The sizes of the reads that matter: of open files.
Sizes(p) ==
    IF p = RUNNER /\ program = "fish" THEN {1}
    ELSE IF p = RUNNER /\ program = "grep" THEN GrepSizes \cup {CAT_SIZE}
    ELSE ReadSizes \cup {CAT_SIZE}

Effect(p) ==
    \/ Returned
    \/ \E fd, d : Opened(p, fd, d)
    \/ \E fd : Closed(p, fd)
    \/ \E fd : \E n \in Sizes(p) : FileRead(p, fd, n)
    \/ \E fd : Looked(p, fd)
    \/ DirCopy(p) \/ DirStore(p) \/ DirReset(p)
    \/ Halt(p)

\* The look-up by name finds an entry of that name, if there is one.
LEMMA LookUp ==
  ASSUME NEW name
  PROVE  /\ read_dentry_by_name(name) # 0 => /\ read_dentry_by_name(name) \in 1..Len(direntries)
                                             /\ direntries[read_dentry_by_name(name)].filename = name
         /\ Exists(name) => read_dentry_by_name(name) # 0
<1>. DEFINE found == {d \in 1..Len(direntries) : direntries[d].filename = name}
<1>1. Len(direntries) \in Nat /\ found \subseteq Nat
  BY FileSystemAssumption
<1>2. CASE name = <<>> \/ found = {}
  <2>1. read_dentry_by_name(name) = 0
    BY <1>2 DEF read_dentry_by_name
  <2>2. ~Exists(name)
    <3>1. CASE found = {}
      BY <3>1 DEF Exists
    <3>2. CASE name = <<>>
      <4>1. \A d \in 1..Len(direntries) : Len(direntries[d].filename) # 0
        BY FileSystemAssumption
      <4>. QED  BY <3>2, <4>1 DEF Exists
    <3>. QED  BY <1>2, <3>1, <3>2
  <2>. QED  BY <2>1, <2>2
<1>3. CASE name # <<>> /\ found # {}
  <2>1. \E d \in found : \A e \in found : d <= e
    BY <1>1, <1>3, LeastNatural, Zenon
  <2>2. PICK c : c = CHOOSE d \in found : \A e \in found : d <= e
    OBVIOUS
  <2>3. c \in found
    BY <2>1, <2>2
  <2>4. read_dentry_by_name(name) = c
    BY <1>3, <2>2 DEF read_dentry_by_name
  <2>5. c # 0
    BY <2>3
  <2>. QED  BY <2>3, <2>4, <2>5
<1>. QED  BY <1>2, <1>3

\* sys_open fails for want of an entry or of a descriptor.
LEMMA OpenEffect ==
  ASSUME NEW p \in Procs, NEW name, sys_open(p, name)
  PROVE  IF Exists(name) /\ FreeFds(p) # {}
         THEN \E fd, d : Opened(p, fd, d) /\ direntries[d].filename = name
         ELSE Returned /\ ret' = -1
<1>1. PICK d : d = read_dentry_by_name(name)
  OBVIOUS
<1>2. CASE d = 0 \/ FreeFds(p) = {}
  <2>1. JustReturns(-1)
    BY <1>1, <1>2 DEF sys_open
  <2>2. ~(Exists(name) /\ FreeFds(p) # {})
    BY <1>1, <1>2, LookUp
  <2>. QED  BY <2>1, <2>2 DEF JustReturns, Returned
<1>3. CASE ~(d = 0 \/ FreeFds(p) = {})
  <2>1. d \in 1..Len(direntries) /\ direntries[d].filename = name
    BY <1>1, <1>3, LookUp
  <2>2. Exists(name)
    BY <2>1 DEF Exists
  <2>3. FreeFds(p) \subseteq Nat
    BY FilesAssumption DEF FreeFds, Fds
  <2>4. \E f \in FreeFds(p) : \A g \in FreeFds(p) : f <= g
    BY <1>3, <2>3, LeastNatural, Zenon
  <2>5. PICK fd : fd = CHOOSE f \in FreeFds(p) : \A g \in FreeFds(p) : f <= g
    OBVIOUS
  <2>6. fd \in FreeFds(p) /\ \A g \in FreeFds(p) : fd <= g
    BY <2>4, <2>5
  <2>7. Opened(p, fd, d)
    BY <1>1, <1>3, <2>1, <2>5, <2>6 DEF sys_open, Opened
  <2>. QED  BY <1>3, <2>1, <2>2, <2>7
<1>. QED  BY <1>2, <1>3

\* sys_close fails for the terminal's descriptors and those that are not open.
LEMMA CloseEffect ==
  ASSUME NEW p \in Procs, NEW fd, sys_close(p, fd)
  PROVE  IF fd \in Fds \ {0, 1} /\ InUse(p, fd) THEN Closed(p, fd) ELSE Returned /\ ret' = -1
BY DEF sys_close, Closed, Returned, JustReturns, FreeFds

\* sys_write changes nothing; only the terminal's output and the clock can be written.
LEMMA WriteEffect ==
  ASSUME NEW p \in Procs, NEW fd, sys_write(p, fd)
  PROVE  /\ Returned
         /\ ret' = IF fd \in Fds /\ InUse(p, fd) /\ fda[p][fd].fops_ptr \in {"std_out", "rtc"}
                   THEN 0 ELSE -1
BY DEF sys_write, Returned, JustReturns

\* What sys_read does, for each kind of descriptor.
LEMMA ReadEffect ==
  ASSUME NEW p \in Procs, NEW fd, NEW n \in Nat, sys_read(p, fd, n)
  PROVE  /\ pc[p] = "user"
         /\ \/ /\ Returned
               /\ fd \notin Fds \/ ~InUse(p, fd) \/ fda[p][fd].fops_ptr \notin {"file", "dir", "std_in", "rtc"}
               /\ ret' = -1
            \/ /\ Returned
               /\ fd \in Fds /\ InUse(p, fd) /\ fda[p][fd].fops_ptr = "rtc"
               /\ ret' = 0
            \/ /\ Returned
               /\ fd \in Fds /\ InUse(p, fd) /\ fda[p][fd].fops_ptr = "std_in"
            \/ /\ Returned
               /\ fd \in Fds /\ OpenFile(p, fd) /\ AtEnd(fda[p][fd], LengthOf(p, fd))
               /\ ret' = 0
            \/ FileRead(p, fd, n)
            \/ Looked(p, fd)
<1>1. pc[p] = "user"
  BY DEF sys_read
<1>2. CASE fd \notin Fds \/ ~InUse(p, fd)
  <2>1. JustReturns(-1)
    BY <1>2 DEF sys_read
  <2>. QED  BY <1>1, <1>2, <2>1 DEF JustReturns, Returned
<1>3. CASE fd \in Fds /\ InUse(p, fd)
  <2>1. CASE fda[p][fd].fops_ptr = "file"
    <3>1. file_read(p, fd, n)
      BY <1>3, <2>1 DEF sys_read
    <3>2. OpenFile(p, fd)
      BY <1>3, <2>1 DEF OpenFile
    <3>3. CASE AtEnd(fda[p][fd], LengthOf(p, fd))
      <4>1. JustReturns(0)
        BY <3>1, <3>3 DEF file_read, LengthOf
      <4>. QED  BY <1>1, <1>3, <3>2, <3>3, <4>1 DEF JustReturns, Returned
    <3>4. CASE ~AtEnd(fda[p][fd], LengthOf(p, fd))
      <4>1. FileRead(p, fd, n)
        BY <1>1, <1>3, <3>1, <3>2, <3>4 DEF file_read, LengthOf, FileRead, Advance
      <4>. QED  BY <1>1, <4>1
    <3>. QED  BY <3>3, <3>4
  <2>2. CASE fda[p][fd].fops_ptr = "dir"
    BY <1>1, <1>3, <2>2 DEF sys_read, Looked, Listing
  <2>3. CASE fda[p][fd].fops_ptr = "std_in"
    BY <1>1, <1>3, <2>3 DEF sys_read, JustReturns, Returned
  <2>4. CASE fda[p][fd].fops_ptr = "rtc"
    BY <1>1, <1>3, <2>4 DEF sys_read, JustReturns, Returned
  <2>5. CASE fda[p][fd].fops_ptr \notin {"file", "dir", "std_in", "rtc"}
    BY <1>1, <1>3, <2>5 DEF sys_read, JustReturns, Returned
  <2>. QED  BY <2>1, <2>2, <2>3, <2>4, <2>5
<1>. QED  BY <1>2, <1>3

\* The assumptions that say what kind of thing each parameter is.
LEMMA Parameters ==
  /\ RUNNER \in Procs
  /\ FDA_SIZE \in Nat /\ FDA_SIZE > 3
  /\ CAT_SIZE \in Nat \ {0} /\ GrepSizes \subseteq Nat \ {0} /\ ReadSizes \subseteq Nat \ {0}
BY FilesAssumption, ProgramsAssumption, Zenon

\* Only grep searches and only syserr tests.
Labels ==
    /\ at \in {"search", "searching", "searched"} => program = "grep"
    /\ at = "test" => program = "syserr"

\* The programs keep to their labels.
LEMMA LabelsHold == ProgSpec => []Labels
<1>1. ProgInit => Labels
  BY DEF ProgInit, Labels
<1>2. Labels /\ [ProgNext]_<<vars, prog_vars>> => Labels'
  <2>. SUFFICES ASSUME Labels, [ProgNext]_<<vars, prog_vars>> PROVE Labels'
    OBVIOUS
  <2>. USE DEF Labels
  <2>1. CASE Start
    BY <2>1 DEF Start, Return, GoOn
  <2>2. CASE Open
    BY <2>2 DEF Open, Return, GoOn
  <2>3. CASE ReadFile
    BY <2>3 DEF ReadFile, AfterRead, Return, GoOn
  <2>4. CASE ReadDirectory
    BY <2>4 DEF ReadDirectory, prog_vars
  <2>5. CASE DirReadReturns
    BY <2>5 DEF DirReadReturns, AfterRead, Return, GoOn
  <2>6. CASE Write
    BY <2>6 DEF Write, Return, GoOn
  <2>7. CASE SearchOpen
    BY <2>7 DEF SearchOpen, Return, GoOn
  <2>8. CASE SearchRead
    BY <2>8 DEF SearchRead, Return, GoOn
  <2>9. CASE SearchClose
    BY <2>9 DEF SearchClose, Return, GoOn
  <2>10. CASE TestCall
    BY <2>10 DEF TestCall
  <2>11. CASE Verdict
    BY <2>11 DEF Verdict
  <2>12. CASE Exit
    BY <2>12 DEF Exit
  <2>13. CASE UNCHANGED prog_vars
    BY <2>13 DEF prog_vars
  <2>. QED  BY <2>1, <2>2, <2>3, <2>4, <2>5, <2>6, <2>7, <2>8, <2>9, <2>10, <2>11, <2>12, <2>13
            DEF ProgNext, Main
<1>. QED  BY <1>1, <1>2, PTL DEF ProgSpec

\* Every read of an open file has one of the sizes; the rest of sys_read does not depend
\* on the size.
LEMMA SizedRead ==
  ASSUME NEW p \in Procs, NEW fd, NEW n \in Nat, sys_read(p, fd, n), n \in Sizes(p) \/ Listing(p, fd)
  PROVE  Effect(p)
<1>1. CASE FileRead(p, fd, n)
  <2>1. n \in Sizes(p)
    BY <1>1 DEF FileRead, OpenFile, Listing
  <2>. QED  BY <1>1, <2>1 DEF Effect
<1>2. CASE Looked(p, fd)
  BY <1>2 DEF Effect
<1>3. CASE Returned
  BY <1>3 DEF Effect
<1>. QED  BY <1>1, <1>2, <1>3, ReadEffect

\* The sizes are positive.
LEMMA SizesPositive ==
  ASSUME NEW p \in Procs
  PROVE  Sizes(p) \subseteq Nat \ {0}
BY Parameters DEF Sizes

\* sys_open has one of the effects.
LEMMA OpenIsEffect ==
  ASSUME NEW p \in Procs, NEW name, sys_open(p, name)
  PROVE  Effect(p)
BY OpenEffect DEF Effect

\* So have sys_close and sys_write.
LEMMA CloseIsEffect ==
  ASSUME NEW p \in Procs, NEW fd, sys_close(p, fd)
  PROVE  Effect(p)
BY CloseEffect DEF Effect

LEMMA WriteIsEffect ==
  ASSUME NEW p \in Procs, NEW fd, sys_write(p, fd)
  PROVE  Effect(p)
BY WriteEffect DEF Effect

\* So has whatever a process calls that runs none of the programs.
LEMMA AnyCallIsEffect ==
  ASSUME NEW p \in Procs, p = RUNNER => program = "any", AnyCall(p)
  PROVE  Effect(p)
<1>1. ReadSizes \subseteq Sizes(p) /\ ReadSizes \subseteq Nat
  BY FilesAssumption DEF Sizes
<1>2. ASSUME NEW name \in OpenNames, sys_open(p, name) PROVE Effect(p)
  BY <1>2, OpenIsEffect
<1>3. ASSUME NEW fd, sys_close(p, fd) \/ sys_write(p, fd) PROVE Effect(p)
  BY <1>3, CloseIsEffect, WriteIsEffect
<1>4. ASSUME NEW fd, NEW n \in ReadSizes, sys_read(p, fd, n) PROVE Effect(p)
  BY <1>1, <1>4, SizedRead
<1>5. ASSUME DirCopy(p) \/ DirStore(p) \/ DirReset(p) \/ Halt(p) PROVE Effect(p)
  BY <1>5 DEF Effect
<1>. QED  BY <1>2, <1>3, <1>4, <1>5, Zenon DEF AnyCall

\* A step is what one system call does, or the programs' own work.
LEMMA StepsAreEffects ==
  ASSUME Labels, [ProgNext]_<<vars, prog_vars>>
  PROVE  /\ (\E p \in Procs : Effect(p)) \/ UNCHANGED vars
         /\ UNCHANGED program
<1>. USE Parameters, OpenIsEffect, CloseIsEffect, WriteIsEffect
<1>1. CASE Start
  BY <1>1 DEF Start
<1>2. CASE Open
  BY <1>2 DEF Open
<1>3. CASE ReadFile
  <2>1. program # "grep" => ReadSize \in Sizes(RUNNER)
    BY DEF ReadSize, Sizes
  <2>2. program = "grep" => ReadSize = CAT_SIZE /\ CAT_SIZE \in Sizes(RUNNER)
    BY DEF ReadSize, Sizes
  <2>3. ReadSize \in Sizes(RUNNER) /\ ReadSize \in Nat
    BY <2>1, <2>2, SizesPositive
  <2>4. Effect(RUNNER)
    BY <1>3, <2>3, SizedRead DEF ReadFile
  <2>. QED  BY <1>3, <2>4 DEF ReadFile
<1>4. CASE ReadDirectory
  <2>1. FILENAME_LEN \in Nat
    BY FileSystemAssumption
  <2>2. Effect(RUNNER)
    BY <1>4, <2>1, SizedRead DEF ReadDirectory
  <2>. QED  BY <1>4, <2>2 DEF ReadDirectory, prog_vars
<1>5. CASE DirReadReturns
  BY <1>5 DEF DirReadReturns, Effect
<1>6. CASE Write
  BY <1>6 DEF Write
<1>7. CASE SearchOpen
  BY <1>7 DEF SearchOpen
<1>8. CASE SearchRead
  <2>1. program = "grep"
    BY <1>8 DEF SearchRead, Labels
  <2>2. PICK n \in GrepSizes : sys_read(RUNNER, inner, n)
    BY <1>8 DEF SearchRead
  <2>3. n \in Sizes(RUNNER) /\ n \in Nat
    BY <2>1 DEF Sizes
  <2>4. Effect(RUNNER)
    BY <2>2, <2>3, SizedRead
  <2>. QED  BY <1>8, <2>4 DEF SearchRead
<1>9. CASE SearchClose
  BY <1>9 DEF SearchClose
<1>10. CASE TestCall
  <2>1. program = "syserr"
    BY <1>10 DEF TestCall, Labels
  <2>2. CAT_SIZE \in Sizes(RUNNER) /\ CAT_SIZE \in Nat
    BY <2>1 DEF Sizes
  <2>3. PICK c : Make(c)
    BY <1>10 DEF TestCall
  <2>4. CASE sys_open(RUNNER, c.arg)
    BY <1>10, <2>4 DEF TestCall
  <2>5. CASE sys_close(RUNNER, c.arg)
    BY <1>10, <2>5 DEF TestCall
  <2>6. CASE sys_read(RUNNER, c.arg, CAT_SIZE)
    BY <1>10, <2>2, <2>6, SizedRead DEF TestCall
  <2>7. CASE sys_write(RUNNER, c.arg)
    BY <1>10, <2>7 DEF TestCall
  <2>8. CASE sys_vidmap(c.arg) \/ SYSTEM_CALL_WRAPPER(c.arg)
    <3>1. Returned
      BY <2>8 DEF sys_vidmap, SYSTEM_CALL_WRAPPER, JustReturns, Returned
    <3>. QED  BY <1>10, <3>1 DEF TestCall, Effect
  <2>. QED  BY <2>3, <2>4, <2>5, <2>6, <2>7, <2>8 DEF Make
<1>11. CASE Verdict
  BY <1>11 DEF Verdict
<1>12. CASE Exit
  BY <1>12 DEF Exit, Effect
<1>13. CASE DirCopy(RUNNER) /\ UNCHANGED prog_vars
  BY <1>13 DEF Effect, prog_vars
<1>14. ASSUME NEW p \in Procs, p = RUNNER => program = "any", AnyCall(p), UNCHANGED prog_vars
       PROVE  (\E q \in Procs : Effect(q)) /\ UNCHANGED program
  BY <1>14, AnyCallIsEffect DEF prog_vars
<1>15. CASE UNCHANGED <<vars, prog_vars>>
  BY <1>15 DEF prog_vars
<1>16. CASE Main
  BY <1>1, <1>2, <1>3, <1>4, <1>5, <1>6, <1>7, <1>8, <1>9, <1>10, <1>11, <1>12, <1>13, <1>16 DEF Main
<1>. QED  BY <1>14, <1>15, <1>16 DEF ProgNext

-----------------------------------------------------------------------------
(* Arithmetic of blocks and words.                                          *)

\* Division with remainder.
LEMMA DivMod ==
  ASSUME NEW a \in Nat, NEW b \in Nat, b > 0
  PROVE  a \div b \in Nat /\ a % b \in 0..(b - 1) /\ a = b * (a \div b) + (a % b)
<1>1. a \div b \in Nat
  OBVIOUS
<1>2. a % b \in 0..(b - 1)
  OBVIOUS
<1>3. PICK x, y : x = a \div b /\ y = a % b
  BY Zenon
<1>4. x \in Int /\ y \in Int
  BY <1>1, <1>2, <1>3
<1>5. a = b * x + y
  BY <1>3, <1>4
<1>6. a = b * (a \div b) + (a % b)
  BY <1>3, <1>5, Zenon
<1>. QED  BY <1>1, <1>2, <1>6, Zenon

\* Quotient and remainder are determined by the division.
LEMMA DivModUnique ==
  ASSUME NEW b \in Nat, b > 0, NEW q \in Nat, NEW r \in 0..(b - 1)
  PROVE  (b * q + r) \div b = q /\ (b * q + r) % b = r
<1>1. PICK m \in Nat : m = b * q
  OBVIOUS
<1>2. PICK a \in Nat : a = m + r
  OBVIOUS
<1>3. PICK x, y : x = a \div b /\ y = a % b
  OBVIOUS
<1>4. x \in Nat /\ y \in 0..(b - 1) /\ a = b * x + y
  BY <1>3, DivMod
<1>5. b * (x - q) = r - y
  BY <1>1, <1>2, <1>4
<1>6. x = q
  <2>1. CASE x > q
    <3>1. b * (x - q) >= b
      BY <1>4, <2>1
    <3>. QED  BY <1>4, <1>5, <3>1
  <2>2. CASE x < q
    <3>1. PICK z \in Nat : z = q - x /\ z >= 1
      BY <1>4, <2>2
    <3>2. b * z >= b
      BY <3>1
    <3>3. b * (x - q) = -(b * z)
      BY <1>4, <3>1
    <3>. QED  BY <1>4, <1>5, <3>2, <3>3
  <2>. QED  BY <1>4, <2>1, <2>2
<1>. QED  BY <1>1, <1>2, <1>3, <1>4, <1>5, <1>6

\* A block is a whole number of words.
LEMMA WholeBlocks ==
  /\ BLOCK_SIZE \in Nat /\ WordsPerBlock \in Nat
  /\ WordsPerBlock > 0 /\ BLOCK_SIZE = 4 * WordsPerBlock
<1>1. PICK b : b = BLOCK_SIZE
  OBVIOUS
<1>2. b \in Nat /\ b > 0 /\ b % 4 = 0
  BY <1>1, FileSystemAssumption
<1>3. b = 4 * (b \div 4)
  BY <1>2
<1>. QED  BY <1>1, <1>2, <1>3 DEF WordsPerBlock

\* Where the loop of read_data is before byte i of a read from offset: v and y bytes past
\* a word that has the number it counts.
LoopAt(offset, i, v, y) ==
    /\ num_data_block(offset, i) \in Nat
    /\ position_in_file(offset, i) \in 0..(WordsPerBlock - 1)
    /\ offset + i = BLOCK_SIZE * num_data_block(offset, i) + 4 * position_in_file(offset, i) + v + y

LEMMA LoopPlace ==
  ASSUME NEW offset \in Nat, NEW i \in Nat
  PROVE  /\ offset % 4 \in 0..3 /\ i % 4 \in 0..3
         /\ LoopAt(offset, i, offset % 4, i % 4)
<1>. USE WholeBlocks
<1>0. 4 \in Nat /\ 4 > 0
  OBVIOUS
<1>1. PICK w \in Nat, v \in 0..3 : offset = 4 * w + v /\ v = offset % 4
  <2>1. offset \div 4 \in Nat /\ offset % 4 \in 0..(4 - 1) /\ offset = 4 * (offset \div 4) + (offset % 4)
    BY <1>0, DivMod, Zenon
  <2>. QED  BY <2>1
<1>2. PICK x \in Nat, y \in 0..3 : i = 4 * x + y /\ y = i % 4
  <2>1. i \div 4 \in Nat /\ i % 4 \in 0..(4 - 1) /\ i = 4 * (i \div 4) + (i % 4)
    BY <1>0, DivMod, Zenon
  <2>. QED  BY <2>1
<1>3. PICK W \in Nat, B \in Nat : W = WordsPerBlock /\ B = BLOCK_SIZE /\ W > 0 /\ B = 4 * W
  OBVIOUS
<1>4. PICK q \in Nat, r \in 0..(W - 1) : w = W * q + r
  <2>1. w \div W \in Nat /\ w % W \in 0..(W - 1) /\ w = W * (w \div W) + (w % W)
    BY <1>3, DivMod
  <2>. QED  BY <2>1
<1>5. PICK q2 \in Nat, r2 \in 0..(W - 1) : r + x = W * q2 + r2
  <2>1. PICK a \in Nat : a = r + x
    BY <1>3
  <2>2. a \div W \in Nat /\ a % W \in 0..(W - 1) /\ a = W * (a \div W) + (a % W)
    BY <1>3, DivMod
  <2>. QED  BY <2>1, <2>2
<1>6. offset \div B = q /\ offset % B = 4 * r + v
  <2>1. PICK t : t = 4 * r + v
    OBVIOUS
  <2>2. t \in 0..(B - 1)
    BY <1>3, <2>1
  <2>3. PICK m \in Nat : m = W * q
    BY <1>3
  <2>4. B * q = 4 * m
    BY <1>3, <2>3
  <2>5. offset = B * q + t
    BY <1>1, <1>4, <2>1, <2>3, <2>4
  <2>6. (B * q + t) \div B = q /\ (B * q + t) % B = t
    BY <1>3, <2>2, DivModUnique
  <2>. QED  BY <2>1, <2>5, <2>6
<1>7. Words(offset, i) = r + x
  <2>1. (4 * r + v) \div 4 = r
    BY <1>3
  <2>2. i \div 4 = x
    BY <1>2
  <2>. QED  BY <1>3, <1>6, <2>1, <2>2 DEF Words
<1>8. num_data_block(offset, i) = q + q2 /\ position_in_file(offset, i) = r2
  <2>1. (W * q2 + r2) \div W = q2 /\ (W * q2 + r2) % W = r2
    BY <1>3, DivModUnique
  <2>. QED  BY <1>3, <1>5, <1>6, <1>7, <2>1 DEF num_data_block, position_in_file
<1>9. offset + i = B * (q + q2) + 4 * r2 + v + y
  <2>1. PICK m \in Nat, m2 \in Nat : m = W * q /\ m2 = W * q2
    BY <1>3
  <2>2. B * (q + q2) = 4 * m + 4 * m2
    BY <1>3, <2>1
  <2>. QED  BY <1>1, <1>2, <1>4, <1>5, <2>1, <2>2
<1>10. q + q2 \in Nat
  OBVIOUS
<1>. QED  BY <1>1, <1>2, <1>3, <1>8, <1>9, <1>10 DEF LoopAt

\* The loop is in the right place if the read began at a word, and at its first byte.
LEMMA RightPlace ==
  ASSUME NEW offset \in Nat, NEW i \in Nat, offset % 4 = 0 \/ i = 0
  PROVE  /\ num_data_block(offset, i) = (offset + i) \div BLOCK_SIZE
         /\ 4 * position_in_file(offset, i) + ((offset + i) % 4) = (offset + i) % BLOCK_SIZE
<1>1. PICK Q, r, v, y : /\ Q = num_data_block(offset, i) /\ r = position_in_file(offset, i)
                        /\ v = offset % 4 /\ y = i % 4
  BY Zenon
<1>2. PICK B, W : B = BLOCK_SIZE /\ W = WordsPerBlock
  BY Zenon
<1>3. B \in Nat /\ W \in Nat /\ W > 0 /\ B = 4 * W
  BY <1>2, WholeBlocks
<1>4. v \in 0..3 /\ y \in 0..3 /\ Q \in Nat /\ r \in 0..(W - 1) /\ offset + i = B * Q + 4 * r + v + y
  BY <1>1, <1>2, LoopPlace DEF LoopAt
<1>5. v = 0 \/ y = 0
  BY <1>1
<1>6. PICK u \in 0..3 : u = v + y
  BY <1>4, <1>5
<1>7. PICK t : t = 4 * r + u
  OBVIOUS
<1>8. t \in 0..(B - 1)
  BY <1>3, <1>4, <1>7
<1>9. offset + i = B * Q + t
  BY <1>3, <1>4, <1>6, <1>7
<1>10. (B * Q + t) \div B = Q /\ (B * Q + t) % B = t
  BY <1>3, <1>4, <1>8, DivModUnique
<1>11. (offset + i) % 4 = u
  <2>1. PICK m \in Nat : m = W * Q
    BY <1>3, <1>4
  <2>2. B * Q = 4 * m
    BY <1>3, <1>4, <2>1
  <2>3. PICK z \in Nat : z = m + r
    BY <1>3, <1>4
  <2>4. offset + i = 4 * z + u
    BY <1>3, <1>4, <1>7, <1>9, <2>2, <2>3
  <2>. QED  BY <2>4
<1>. QED  BY <1>1, <1>2, <1>7, <1>9, <1>10, <1>11

\* The block number is within the table as long as the byte is.
LEMMA WithinTable ==
  ASSUME NEW offset \in Nat, NEW i \in Nat, offset + i < NUM_DATA_BLOCKS * BLOCK_SIZE
  PROVE  num_data_block(offset, i) < NUM_DATA_BLOCKS
<1>1. PICK Q, B, N : Q = num_data_block(offset, i) /\ B = BLOCK_SIZE /\ N = NUM_DATA_BLOCKS
  BY Zenon
<1>2. B \in Nat /\ B > 0 /\ N \in Nat
  BY <1>1, FileSystemAssumption
<1>3. Q \in Nat /\ B * Q <= offset + i
  <2>1. PICK r, v, y : /\ r = position_in_file(offset, i) /\ v = offset % 4 /\ y = i % 4
    BY Zenon
  <2>2. v \in 0..3 /\ y \in 0..3 /\ Q \in Nat /\ r \in Nat /\ offset + i = B * Q + 4 * r + v + y
    <3>1. PICK W : W = WordsPerBlock /\ W \in Nat
      BY WholeBlocks
    <3>2. r \in 0..(W - 1)
      BY <2>1, <3>1, LoopPlace DEF LoopAt
    <3>. QED  BY <1>1, <2>1, <3>1, <3>2, LoopPlace DEF LoopAt
  <2>3. PICK m \in Nat : m = B * Q
    BY <1>2, <2>2
  <2>. QED  BY <2>2, <2>3
<1>4. offset + i < N * B
  BY <1>1
<1>5. CASE Q >= N
  <2>1. PICK d \in Nat : Q = N + d
    BY <1>2, <1>3, <1>5
  <2>2. B * Q = N * B + B * d
    BY <1>2, <2>1
  <2>3. B * d >= 0
    BY <1>2, <2>1
  <2>4. PICK x \in Int, y \in Int, z \in Int : x = B * Q /\ y = N * B /\ z = B * d
    BY <1>2, <1>3, <2>1
  <2>. QED  BY <1>3, <1>4, <2>2, <2>3, <2>4
<1>. QED  BY <1>1, <1>2, <1>3, <1>5

-----------------------------------------------------------------------------
(* The invariant of the descriptors, in every environment.                  *)

\* What a descriptor can have given: bytes of data blocks, and directory entries.
Places == {inodes[i].data_block_num[b] : i \in Inodes, b \in Nat} \X Nat
Item == Nat \cup Places

\* The position of an open file is the number of bytes it has given.
Positions ==
    \A p \in Procs, fd \in Fds :
        OpenFile(p, fd) => /\ fda[p][fd].inode \in Inodes
                           /\ fda[p][fd].file_position = Len(given[p][fd])

\* A process in dir_read has the directory open, and cannot close it.
Looking == \A p \in Procs : pc[p] # "user" => Listing(p, dir_fd[p])

FilesInv ==
    /\ TypeOK
    /\ given \in [Procs -> [Fds -> Seq(Item)]]
    /\ \A p \in Procs : pc[p] \in {"copy", "store"} => test_dentry[p] # 0
    /\ Positions
    /\ Looking

\* read_data stores all the bytes or none.
LEMMA ReadData ==
  ASSUME NEW inode \in Inodes, NEW offset \in Nat, NEW n \in Nat
  PROVE  /\ read_data(inode, offset, n) \in Seq(Item)
         /\ \/ Len(read_data(inode, offset, n)) = 0
            \/ /\ Len(read_data(inode, offset, n)) = n
               /\ \A j \in 1..n : read_data(inode, offset, n)[j] = ByteRead(inode, offset, j - 1)
<1>1. PICK s : s = read_data(inode, offset, n)
  BY Zenon
<1>2. CASE s = <<>>
  BY <1>1, <1>2
<1>3. CASE s = [j \in 1..n |-> ByteRead(inode, offset, j - 1)]
  <2>1. ASSUME NEW j \in 1..n PROVE ByteRead(inode, offset, j - 1) \in Item
    <3>1. j - 1 \in Nat
      OBVIOUS
    <3>2. PICK Q, r, v : /\ Q = num_data_block(offset, j - 1) /\ r = position_in_file(offset, j - 1)
                         /\ v = (offset + (j - 1)) % 4
      BY Zenon
    <3>3. Q \in Nat /\ r \in Nat
      BY <3>1, <3>2, LoopPlace, WholeBlocks DEF LoopAt
    <3>4. v \in Nat
      BY <3>1, <3>2
    <3>5. 4 * r + v \in Nat
      BY <3>3, <3>4
    <3>6. <<inodes[inode].data_block_num[Q], 4 * r + v>> \in Places
      BY <3>3, <3>5 DEF Places
    <3>. QED  BY <3>2, <3>6 DEF ByteRead, Item
  <2>2. s \in [1..n -> Item]
    BY <1>3, <2>1
  <2>3. s \in Seq(Item) /\ Len(s) = n
    BY <2>2
  <2>4. \A j \in 1..n : s[j] = ByteRead(inode, offset, j - 1)
    BY <1>3
  <2>. QED  BY <1>1, <2>3, <2>4
<1>. QED  BY <1>1, <1>2, <1>3 DEF read_data

\* The initial state.
LEMMA FilesInit == ProgInit => FilesInv
<1>. SUFFICES ASSUME ProgInit PROVE FilesInv
  OBVIOUS
<1>. USE Parameters DEF ProgInit, Init
<1>1. FreshFda \in [Fds -> files_t]
  BY DEF FreshFda, files_t, Ops, IN_USE, NOT_IN_USE
<1>2. 0 \in Fds /\ 1 \in Fds
  BY DEF Fds
<1>3. /\ FreshFda[0].fops_ptr = "std_in" /\ FreshFda[0].flags = IN_USE
      /\ FreshFda[1].fops_ptr = "std_out" /\ FreshFda[1].flags = IN_USE
  BY <1>2 DEF FreshFda
<1>4. TypeOK
  BY <1>1, <1>2, <1>3, FileSystemAssumption DEF TypeOK
<1>5. given \in [Procs -> [Fds -> Seq(Item)]]
  OBVIOUS
<1>6. Positions
  BY <1>1 DEF Positions, OpenFile, InUse, FreshFda, IN_USE, NOT_IN_USE
<1>7. Looking
  BY DEF Looking
<1>. QED  BY <1>4, <1>5, <1>6, <1>7 DEF FilesInv

\* An update of one descriptor, and of what it has given.
OneChanged(p, fd, entry, got) ==
    /\ fda'[p][fd] = entry /\ given'[p][fd] = got
    /\ \A q \in Procs, h \in Fds :
          q # p \/ h # fd => fda'[q][h] = fda[q][h] /\ given'[q][h] = given[q][h]
    /\ fda' \in [Procs -> [Fds -> files_t]]
    /\ given' \in [Procs -> [Fds -> Seq(Item)]]

LEMMA OneChange ==
  ASSUME FilesInv, NEW p \in Procs, NEW fd \in Fds, NEW entry \in files_t, NEW got \in Seq(Item),
         fda' = [fda EXCEPT ![p][fd] = entry], given' = [given EXCEPT ![p][fd] = got]
  PROVE  OneChanged(p, fd, entry, got)
BY DEF FilesInv, TypeOK, OneChanged

\* sys_open makes an entry for the file it has found.
LEMMA OpenedChanges ==
  ASSUME FilesInv, NEW p \in Procs, NEW fd, NEW d, Opened(p, fd, d)
  PROVE  /\ fd \in Fds \ {0, 1} /\ ~InUse(p, fd) /\ d \in 1..Len(direntries)
         /\ OneChanged(p, fd, NewEntry(p, fd, direntries[d]), <<>>)
         /\ NewEntry(p, fd, direntries[d]) \in files_t
         /\ direntries[d].inode_num \in Inodes
<1>1. fd \in Fds \ {0, 1} /\ ~InUse(p, fd) /\ d \in 1..Len(direntries)
  BY DEF Opened, FreeFds
<1>2. direntries[d].filetype \in {"rtc", "dir", "file"} /\ direntries[d].inode_num \in Inodes
  BY <1>1, FileSystemAssumption, Zenon
<1>3. PICK e : e = NewEntry(p, fd, direntries[d])
  OBVIOUS
<1>4. e \in files_t
  BY <1>2, <1>3 DEF NewEntry, files_t, Ops
<1>5. <<>> \in Seq(Item)
  OBVIOUS
<1>6. OneChanged(p, fd, e, <<>>)
  BY <1>1, <1>3, <1>4, <1>5, OneChange DEF Opened
<1>. QED  BY <1>1, <1>2, <1>3, <1>4, <1>6

\* The entry that sys_close leaves.
LEMMA ClosedChanges ==
  ASSUME FilesInv, NEW p \in Procs, NEW fd, Closed(p, fd)
  PROVE  /\ fd \in Fds \ {0, 1}
         /\ \E e \in files_t : /\ e.flags = NOT_IN_USE /\ e.file_position = fda[p][fd].file_position
                               /\ OneChanged(p, fd, e, <<>>)
<1>1. fd \in Fds \ {0, 1}
  BY DEF Closed
<1>2. fda[p][fd] \in files_t
  BY <1>1 DEF FilesInv, TypeOK
<1>3. PICK e : e = [fda[p][fd] EXCEPT !.flags = NOT_IN_USE]
  OBVIOUS
<1>4. e \in files_t /\ e.flags = NOT_IN_USE /\ e.file_position = fda[p][fd].file_position
  BY <1>2, <1>3 DEF files_t
<1>5. fda' = [fda EXCEPT ![p][fd] = e]
  BY <1>1, <1>3 DEF Closed, FilesInv, TypeOK
<1>6. <<>> \in Seq(Item)
  OBVIOUS
<1>7. OneChanged(p, fd, e, <<>>)
  BY <1>1, <1>4, <1>5, <1>6, OneChange DEF Closed
<1>. QED  BY <1>1, <1>4, <1>7

\* A read of a file moves its position by what it gives.
LEMMA FileReadChanges ==
  ASSUME FilesInv, NEW p \in Procs, NEW fd, NEW n \in Nat, FileRead(p, fd, n)
  PROVE  \E e \in files_t, bytes \in Seq(Item) :
            /\ fd \in Fds /\ fda[p][fd].inode \in Inodes
            /\ bytes = read_data(fda[p][fd].inode, Len(given[p][fd]), n)
            /\ Len(bytes) \in Nat
            /\ e.fops_ptr = "file" /\ e.flags = IN_USE /\ e.inode = fda[p][fd].inode
            /\ e.file_position = Len(given[p][fd]) + Len(bytes)
            /\ Len(given[p][fd] \o bytes) = Len(given[p][fd]) + Len(bytes)
            /\ OneChanged(p, fd, e, given[p][fd] \o bytes)
            /\ ret' = Len(bytes)
<1>1. fd \in Fds /\ OpenFile(p, fd)
  BY DEF FileRead
<1>2. fda[p][fd].inode \in Inodes /\ fda[p][fd].file_position = Len(given[p][fd])
  BY <1>1 DEF FilesInv, Positions
<1>3. fda[p][fd] \in files_t /\ given[p][fd] \in Seq(Item)
  BY <1>1 DEF FilesInv, TypeOK
<1>4. Len(given[p][fd]) \in Nat
  BY <1>3
<1>5. PICK bytes : bytes = read_data(fda[p][fd].inode, Len(given[p][fd]), n)
  OBVIOUS
<1>6. bytes \in Seq(Item)
  BY <1>2, <1>4, <1>5, ReadData
<1>7. Len(bytes) \in Nat
  BY <1>6
<1>8. PICK e : e = [fda[p][fd] EXCEPT !.file_position = Len(given[p][fd]) + Len(bytes)]
  OBVIOUS
<1>9. e \in files_t /\ e.flags = fda[p][fd].flags /\ e.inode = fda[p][fd].inode
      /\ e.fops_ptr = fda[p][fd].fops_ptr /\ e.file_position = Len(given[p][fd]) + Len(bytes)
  BY <1>3, <1>4, <1>7, <1>8 DEF files_t
<1>10. given[p][fd] \o bytes \in Seq(Item) /\ Len(given[p][fd] \o bytes) = Len(given[p][fd]) + Len(bytes)
  BY <1>3, <1>6
<1>11. /\ fda' = [fda EXCEPT ![p][fd].file_position = Len(given[p][fd]) + Len(bytes)]
       /\ given' = [given EXCEPT ![p][fd] = given[p][fd] \o bytes]
       /\ ret' = Len(bytes)
  BY <1>2, <1>5 DEF FileRead
<1>12. fda' = [fda EXCEPT ![p][fd] = e]
  BY <1>1, <1>8, <1>11 DEF FilesInv, TypeOK
<1>13. OneChanged(p, fd, e, given[p][fd] \o bytes)
  BY <1>1, <1>9, <1>10, <1>11, <1>12, OneChange
<1>14. e.fops_ptr = "file" /\ e.flags = IN_USE
  BY <1>1, <1>9 DEF OpenFile, InUse
<1>. QED  BY <1>1, <1>2, <1>5, <1>6, <1>7, <1>9, <1>10, <1>11, <1>13, <1>14

\* One descriptor changes, and nothing of the directory.
LEMMA OneChangeKeeps ==
  ASSUME FilesInv, NEW p \in Procs, NEW fd \in Fds, NEW e \in files_t, NEW got \in Seq(Item),
         pc[p] = "user", OneChanged(p, fd, e, got),
         UNCHANGED <<global_file_index, dir_locals>>, ret' \in Int,
         fd = 0 \/ fd = 1 => e.fops_ptr = fda[p][fd].fops_ptr /\ e.flags = fda[p][fd].flags,
         e.flags = IN_USE /\ e.fops_ptr = "file" => e.inode \in Inodes /\ e.file_position = Len(got)
  PROVE  FilesInv'
<1>1. 0 \in Fds /\ 1 \in Fds
  BY Parameters DEF Fds
<1>2. TypeOK'
  <2>1. \A q \in Procs : /\ fda'[q][0].fops_ptr = "std_in" /\ fda'[q][0].flags = IN_USE
                         /\ fda'[q][1].fops_ptr = "std_out" /\ fda'[q][1].flags = IN_USE
    <3>1. ASSUME NEW q \in Procs, NEW h \in {0, 1}
          PROVE  fda'[q][h].fops_ptr = fda[q][h].fops_ptr /\ fda'[q][h].flags = fda[q][h].flags
      <4>1. CASE q = p /\ h = fd
        BY <4>1 DEF OneChanged
      <4>2. CASE q # p \/ h # fd
        BY <1>1, <4>2 DEF OneChanged
      <4>. QED  BY <4>1, <4>2
    <3>. QED  BY <3>1 DEF FilesInv, TypeOK
  <2>. QED  BY <2>1 DEF FilesInv, TypeOK, OneChanged, dir_locals
<1>3. Positions'
  <2>1. ASSUME NEW q \in Procs, NEW h \in Fds, fda'[q][h].flags = IN_USE, fda'[q][h].fops_ptr = "file"
        PROVE  fda'[q][h].inode \in Inodes /\ fda'[q][h].file_position = Len(given'[q][h])
    <3>1. CASE q = p /\ h = fd
      BY <2>1, <3>1 DEF OneChanged
    <3>2. CASE q # p \/ h # fd
      <4>1. fda'[q][h] = fda[q][h] /\ given'[q][h] = given[q][h]
        BY <2>1, <3>2 DEF OneChanged
      <4>. QED  BY <2>1, <4>1 DEF FilesInv, Positions, OpenFile, InUse
    <3>. QED  BY <3>1, <3>2
  <2>. QED  BY <2>1 DEF Positions, OpenFile, InUse
<1>4. Looking'
  <2>1. ASSUME NEW q \in Procs, pc'[q] # "user"
        PROVE  fda'[q][dir_fd'[q]].flags = IN_USE /\ fda'[q][dir_fd'[q]].fops_ptr = "dir"
    <3>1. q # p /\ dir_fd'[q] = dir_fd[q] /\ dir_fd[q] \in Fds
      BY <2>1 DEF dir_locals, FilesInv, TypeOK
    <3>2. fda'[q][dir_fd[q]] = fda[q][dir_fd[q]]
      BY <3>1 DEF OneChanged
    <3>. QED  BY <2>1, <3>1, <3>2 DEF FilesInv, Looking, Listing, InUse, dir_locals
  <2>. QED  BY <2>1 DEF Looking, Listing, InUse
<1>. QED  BY <1>2, <1>3, <1>4 DEF FilesInv, OneChanged, dir_locals

\* The steps of dir_read.
LEMMA DirKeeps ==
  ASSUME FilesInv, NEW p \in Procs, DirCopy(p) \/ DirStore(p) \/ DirReset(p) \/ \E fd : Looked(p, fd)
  PROVE  FilesInv'
<1>0. 0 \in Fds /\ Len(direntries) \in Nat
  BY Parameters, FileSystemAssumption DEF Fds
<1>1. CASE DirCopy(p)
  BY <1>1 DEF DirCopy, FilesInv, TypeOK, Positions, OpenFile, Looking, Listing, InUse
<1>2. CASE DirStore(p) \/ DirReset(p)
  <2>1. dir_fd[p] \in Fds /\ test_dentry[p] \in 0..Len(direntries) /\ register[p] \in Nat
    BY DEF FilesInv, TypeOK
  <2>2. PICK got \in Seq(Item) : given' = [given EXCEPT ![p][dir_fd[p]] = got]
    <3>1. CASE DirReset(p)
      <4>1. <<>> \in Seq(Item) /\ given' = [given EXCEPT ![p][dir_fd[p]] = <<>>]
        BY <3>1 DEF DirReset
      <4>. QED  BY <4>1
    <3>2. CASE DirStore(p)
      <4>1. test_dentry[p] \in Item
        BY <2>1 DEF Item
      <4>2. Append(given[p][dir_fd[p]], test_dentry[p]) \in Seq(Item)
        BY <2>1, <4>1 DEF FilesInv
      <4>. QED  BY <3>2, <4>2 DEF DirStore
    <3>. QED  BY <1>2, <3>1, <3>2
  <2>3. given' \in [Procs -> [Fds -> Seq(Item)]]
    BY <2>1, <2>2 DEF FilesInv
  <2>4. ret' \in Int
    <3>1. CASE DirReset(p)
      BY <3>1 DEF DirReset
    <3>2. CASE DirStore(p)
      <4>1. test_dentry[p] \in 1..Len(direntries)
        BY <1>0, <2>1, <3>2 DEF DirStore, FilesInv
      <4>2. Len(direntries[test_dentry[p]].filename) \in 1..FILENAME_LEN
        BY <4>1, FileSystemAssumption, Zenon
      <4>. QED  BY <3>2, <4>2, FileSystemAssumption DEF DirStore
    <3>. QED  BY <1>2, <3>1, <3>2
  <2>5. global_file_index' \in Nat
    BY <1>2, <2>1 DEF DirStore, DirReset
  <2>6. fda' = fda
    BY <1>2 DEF DirStore, DirReset
  <2>7. LeaveDirRead(p)
    BY <1>2 DEF DirStore, DirReset
  <2>8. TypeOK'
    BY <1>0, <2>4, <2>5, <2>6, <2>7 DEF LeaveDirRead, FilesInv, TypeOK
  <2>9. \A q \in Procs : pc'[q] \in {"copy", "store"} => test_dentry'[q] # 0
    BY <2>7 DEF LeaveDirRead, FilesInv, TypeOK
  <2>10. Positions'
    <3>1. fda[p][dir_fd[p]].fops_ptr = "dir"
      BY <1>2 DEF DirStore, DirReset, FilesInv, Looking, Listing
    <3>2. ASSUME NEW q \in Procs, NEW h \in Fds, fda[q][h].flags = IN_USE, fda[q][h].fops_ptr = "file"
          PROVE  fda[q][h].inode \in Inodes /\ fda[q][h].file_position = Len(given'[q][h])
      <4>1. given'[q][h] = given[q][h]
        BY <2>1, <2>2, <3>1, <3>2 DEF FilesInv
      <4>. QED  BY <3>2, <4>1 DEF FilesInv, Positions, OpenFile, InUse
    <3>. QED  BY <2>6, <3>2 DEF Positions, OpenFile, InUse
  <2>11. Looking'
    BY <2>6, <2>7 DEF LeaveDirRead, FilesInv, TypeOK, Looking, Listing, InUse
  <2>. QED  BY <2>3, <2>8, <2>9, <2>10, <2>11 DEF FilesInv
<1>3. ASSUME NEW fd, Looked(p, fd) PROVE FilesInv'
  <2>1. PICK d : d = read_dentry_by_index(global_file_index)
    OBVIOUS
  <2>2. d \in 0..Len(direntries)
    BY <1>0, <2>1 DEF read_dentry_by_index, FilesInv, TypeOK
  <2>3. /\ fd \in Fds /\ Listing(p, fd)
        /\ pc' = [pc EXCEPT ![p] = IF d # 0 THEN "copy" ELSE "reset"]
        /\ dir_fd' = [dir_fd EXCEPT ![p] = fd]
        /\ test_dentry' = [test_dentry EXCEPT ![p] = d]
        /\ UNCHANGED <<fda, global_file_index, register, ret, given>>
    BY <1>3, <2>1 DEF Looked, dir_read
  <2>4. TypeOK'
    BY <2>2, <2>3 DEF FilesInv, TypeOK
  <2>5. \A q \in Procs : pc'[q] \in {"copy", "store"} => test_dentry'[q] # 0
    BY <2>3 DEF FilesInv, TypeOK
  <2>6. Positions'
    BY <2>3 DEF FilesInv, Positions, OpenFile, InUse
  <2>7. Looking'
    BY <2>3 DEF FilesInv, TypeOK, Looking, Listing, InUse
  <2>. QED  BY <2>3, <2>4, <2>5, <2>6, <2>7 DEF FilesInv
<1>. QED  BY <1>1, <1>2, <1>3

\* The end of a process.
LEMMA HaltKeeps ==
  ASSUME FilesInv, NEW p \in Procs, Halt(p)
  PROVE  FilesInv'
<1>1. FreshFda \in [Fds -> files_t] /\ 0 \in Fds /\ 1 \in Fds
  BY Parameters DEF FreshFda, files_t, Ops, IN_USE, NOT_IN_USE, Fds
<1>2. /\ FreshFda[0].fops_ptr = "std_in" /\ FreshFda[0].flags = IN_USE
      /\ FreshFda[1].fops_ptr = "std_out" /\ FreshFda[1].flags = IN_USE
  BY <1>1 DEF FreshFda
<1>3. \A fd \in Fds : FreshFda[fd].fops_ptr # "file"
  BY DEF FreshFda
<1>4. PICK none : none = [fd \in Fds |-> <<>>]
  OBVIOUS
<1>5. none \in [Fds -> Seq(Item)]
  BY <1>4
<1>6. /\ fda' = [fda EXCEPT ![p] = FreshFda] /\ given' = [given EXCEPT ![p] = none]
      /\ LeaveDirRead(p) /\ UNCHANGED <<global_file_index, ret>>
  BY <1>4 DEF Halt
<1>7. TypeOK'
  <2>1. 0 \in 0..Len(direntries)
    BY FileSystemAssumption
  <2>. QED  BY <1>1, <1>2, <1>6, <2>1 DEF LeaveDirRead, FilesInv, TypeOK
<1>8. Positions'
  BY <1>1, <1>3, <1>6 DEF FilesInv, TypeOK, Positions, OpenFile, InUse
<1>9. Looking'
  BY <1>6 DEF LeaveDirRead, FilesInv, TypeOK, Looking, Listing, InUse
<1>10. \A q \in Procs : pc'[q] \in {"copy", "store"} => test_dentry'[q] # 0
  BY <1>6 DEF LeaveDirRead, FilesInv, TypeOK
<1>11. given' \in [Procs -> [Fds -> Seq(Item)]]
  BY <1>5, <1>6 DEF FilesInv
<1>. QED  BY <1>7, <1>8, <1>9, <1>10, <1>11 DEF FilesInv

\* No system call breaks the invariant.
LEMMA EffectKeeps ==
  ASSUME FilesInv, NEW p \in Procs, Effect(p)
  PROVE  FilesInv'
<1>1. CASE Returned
  BY <1>1 DEF Returned, dir_locals, FilesInv, TypeOK, Positions, OpenFile, Looking, Listing, InUse
<1>2. ASSUME NEW fd, NEW d, Opened(p, fd, d) PROVE FilesInv'
  <2>1. PICK e : e = NewEntry(p, fd, direntries[d])
    OBVIOUS
  <2>2. e.flags = IN_USE /\ e.inode = direntries[d].inode_num /\ e.file_position = 0
    BY <2>1 DEF NewEntry
  <2>3. fd \in Fds \ {0, 1} /\ e \in files_t /\ OneChanged(p, fd, e, <<>>) /\ e.inode \in Inodes
    BY <1>2, <2>1, <2>2, OpenedChanges
  <2>4. <<>> \in Seq(Item) /\ Len(<<>>) = 0
    OBVIOUS
  <2>5. UNCHANGED <<global_file_index, dir_locals>> /\ ret' \in Int /\ pc[p] = "user"
    BY <1>2, <2>3, Parameters DEF Opened, Fds
  <2>. QED  BY <2>2, <2>3, <2>4, <2>5, OneChangeKeeps
<1>3. ASSUME NEW fd, Closed(p, fd) PROVE FilesInv'
  <2>1. fd \in Fds \ {0, 1}
    BY <1>3, ClosedChanges
  <2>2. PICK e \in files_t : e.flags = NOT_IN_USE /\ OneChanged(p, fd, e, <<>>)
    BY <1>3, ClosedChanges
  <2>3. UNCHANGED <<global_file_index, dir_locals>> /\ ret' \in Int /\ pc[p] = "user"
    BY <1>3 DEF Closed
  <2>4. <<>> \in Seq(Item)
    OBVIOUS
  <2>5. e.flags # IN_USE
    BY <2>2 DEF IN_USE, NOT_IN_USE
  <2>. QED  BY <2>1, <2>2, <2>3, <2>4, <2>5, OneChangeKeeps
<1>4. ASSUME NEW fd, NEW n \in Sizes(p), FileRead(p, fd, n) PROVE FilesInv'
  <2>1. n \in Nat
    BY SizesPositive
  <2>2. PICK e \in files_t, bytes \in Seq(Item) :
            /\ fd \in Fds /\ fda[p][fd].inode \in Inodes
            /\ bytes = read_data(fda[p][fd].inode, Len(given[p][fd]), n)
            /\ Len(bytes) \in Nat
            /\ e.fops_ptr = "file" /\ e.flags = IN_USE /\ e.inode = fda[p][fd].inode
            /\ e.file_position = Len(given[p][fd]) + Len(bytes)
            /\ Len(given[p][fd] \o bytes) = Len(given[p][fd]) + Len(bytes)
            /\ OneChanged(p, fd, e, given[p][fd] \o bytes)
            /\ ret' = Len(bytes)
    BY <1>4, <2>1, FileReadChanges
  <2>3. PICK got : got = given[p][fd] \o bytes
    OBVIOUS
  <2>4. got \in Seq(Item) /\ e.file_position = Len(got) /\ OneChanged(p, fd, e, got)
    BY <2>2, <2>3 DEF FilesInv
  <2>5. UNCHANGED <<global_file_index, dir_locals>> /\ ret' \in Int /\ pc[p] = "user" /\ OpenFile(p, fd)
    BY <1>4, <2>2 DEF FileRead
  <2>6. e.fops_ptr = fda[p][fd].fops_ptr /\ e.flags = fda[p][fd].flags
    BY <2>2, <2>5 DEF OpenFile, InUse
  <2>. QED  BY <2>2, <2>4, <2>5, <2>6, OneChangeKeeps
<1>5. CASE DirCopy(p) \/ DirStore(p) \/ DirReset(p) \/ \E fd : Looked(p, fd)
  BY <1>5, DirKeeps
<1>6. CASE Halt(p)
  BY <1>6, HaltKeeps
<1>. QED  BY <1>1, <1>2, <1>3, <1>4, <1>5, <1>6, Zenon DEF Effect

\* The invariant of the descriptors holds whatever the programs do.
LEMMA FilesInvariant == ProgSpec => []FilesInv
<1>1. ProgInit => FilesInv
  BY FilesInit
<1>2. Labels /\ FilesInv /\ [ProgNext]_<<vars, prog_vars>> => FilesInv'
  <2>. SUFFICES ASSUME Labels, FilesInv, [ProgNext]_<<vars, prog_vars>> PROVE FilesInv'
    OBVIOUS
  <2>1. CASE UNCHANGED vars
    BY <2>1 DEF vars, FilesInv, TypeOK, Positions, OpenFile, Looking, Listing, InUse
  <2>2. CASE \E p \in Procs : Effect(p)
    BY <2>2, EffectKeeps
  <2>. QED  BY <2>1, <2>2, StepsAreEffects
<1>. QED  BY <1>1, <1>2, LabelsHold, PTL DEF ProgSpec

\* Every descriptor is of a known kind with a position in its file, and 0 and 1 are always
\* the terminal's, in every environment.
THEOREM TypeCorrect == ProgSpec => []TypeOK
<1>1. FilesInv => TypeOK
  BY DEF FilesInv
<1>. QED  BY <1>1, FilesInvariant, PTL

-----------------------------------------------------------------------------
(* Reading a file in pieces.                                                *)

\* The pieces are whole words; fish's single bytes are allowed besides.
WholeWords == CAT_SIZE % 4 = 0 /\ \A n \in ReadSizes : n % 4 = 0

\* What an open file has given is the beginning of the file, and ends at a word.
GoodPieces(p, entry, got) ==
    entry.flags = IN_USE /\ entry.fops_ptr = "file" /\ ~(p = RUNNER /\ program = "grep") =>
        /\ \A j \in 1..Len(got) : got[j] = FileByte(entry.inode, j - 1)
        /\ ~(p = RUNNER /\ program = "fish") => Len(got) % 4 = 0

PiecesInv == \A p \in Procs, fd \in Fds : GoodPieces(p, fda[p][fd], given[p][fd])

\* It is enough to look at the descriptor that changes.
LEMMA OneChangePieces ==
  ASSUME PiecesInv, NEW p \in Procs, NEW fd \in Fds, NEW e, NEW got, OneChanged(p, fd, e, got),
         UNCHANGED program, GoodPieces(p, e, got)
  PROVE  PiecesInv'
<1>1. ASSUME NEW q \in Procs, NEW h \in Fds PROVE GoodPieces(q, fda[q][h], given[q][h])'
  <2>1. PICK e1, e2, g1, g2 : /\ e1 = fda[q][h] /\ e2 = fda'[q][h]
                              /\ g1 = given[q][h] /\ g2 = given'[q][h]
    BY Zenon
  <2>2. GoodPieces(q, e1, g1)
    BY <2>1 DEF PiecesInv
  <2>3. GoodPieces(q, e2, g2)
    <3>1. CASE q = p /\ h = fd
      BY <2>1, <3>1 DEF OneChanged
    <3>2. CASE q # p \/ h # fd
      BY <2>1, <2>2, <3>2 DEF OneChanged
    <3>. QED  BY <3>1, <3>2
  <2>. QED  BY <2>1, <2>3 DEF GoodPieces
<1>. QED  BY <1>1 DEF PiecesInv

\* And only at files.
LEMMA FilesUnchanged ==
  ASSUME PiecesInv, UNCHANGED program,
         \A q \in Procs, h \in Fds :
            fda'[q][h].fops_ptr = "file" => fda'[q][h] = fda[q][h] /\ given'[q][h] = given[q][h]
  PROVE  PiecesInv'
<1>1. ASSUME NEW q \in Procs, NEW h \in Fds PROVE GoodPieces(q, fda[q][h], given[q][h])'
  <2>1. PICK e1, e2, g1, g2 : /\ e1 = fda[q][h] /\ e2 = fda'[q][h]
                              /\ g1 = given[q][h] /\ g2 = given'[q][h]
    BY Zenon
  <2>2. GoodPieces(q, e1, g1) /\ (e2.fops_ptr = "file" => e2 = e1 /\ g2 = g1)
    BY <2>1 DEF PiecesInv
  <2>3. GoodPieces(q, e2, g2)
    BY <2>2 DEF GoodPieces
  <2>. QED  BY <2>1, <2>3 DEF GoodPieces
<1>. QED  BY <1>1 DEF PiecesInv

\* A read continues where the last one ended.
LEMMA NextPiece ==
  ASSUME WholeWords, NEW p \in Procs, NEW n \in Sizes(p), NEW inode \in Inodes, NEW e, NEW f,
         NEW got \in Seq(Item), NEW bytes \in Seq(Item),
         bytes = read_data(inode, Len(got), n),
         f.flags = IN_USE, f.fops_ptr = "file", f.inode = inode, e.inode = inode,
         GoodPieces(p, f, got)
  PROVE  GoodPieces(p, e, got \o bytes)
<1>. SUFFICES ASSUME ~(p = RUNNER /\ program = "grep")
              PROVE  /\ \A j \in 1..Len(got \o bytes) : (got \o bytes)[j] = FileByte(inode, j - 1)
                     /\ ~(p = RUNNER /\ program = "fish") => Len(got \o bytes) % 4 = 0
  BY DEF GoodPieces
<1>0. PICK m : m = Len(got)
  OBVIOUS
<1>1. m \in Nat /\ n \in Nat
  BY <1>0, SizesPositive
<1>2. (\A j \in 1..m : got[j] = FileByte(inode, j - 1)) /\ (~(p = RUNNER /\ program = "fish") => m % 4 = 0)
  BY <1>0 DEF GoodPieces
<1>3. Len(bytes) = 0 \/ (Len(bytes) = n /\ \A j \in 1..n : bytes[j] = ByteRead(inode, m, j - 1))
  BY <1>0, <1>1, ReadData
<1>4. (p = RUNNER /\ program = "fish" => n = 1) /\ (~(p = RUNNER /\ program = "fish") => n % 4 = 0)
  BY DEF Sizes, WholeWords
<1>5. Len(got \o bytes) = m + Len(bytes) /\ Len(bytes) \in Nat
  BY <1>0
<1>6. ~(p = RUNNER /\ program = "fish") => Len(got \o bytes) % 4 = 0
  <2>. SUFFICES ASSUME ~(p = RUNNER /\ program = "fish") PROVE (m + Len(bytes)) % 4 = 0
    BY <1>5
  <2>1. CASE Len(bytes) = 0
    BY <1>1, <1>2, <2>1
  <2>2. CASE Len(bytes) = n
    BY <1>1, <1>2, <1>4, <2>2
  <2>. QED  BY <1>3, <2>1, <2>2
<1>7. ASSUME NEW j \in 1..(m + Len(bytes)) PROVE (got \o bytes)[j] = FileByte(inode, j - 1)
  <2>1. CASE j <= m
    BY <1>0, <1>1, <1>2, <1>5, <2>1
  <2>2. CASE j > m
    <3>1. PICK i : i = j - m
      OBVIOUS
    <3>2. i \in 1..Len(bytes) /\ j = m + i
      BY <1>1, <1>5, <2>2, <3>1
    <3>3. (got \o bytes)[j] = bytes[i]
      BY <1>0, <1>5, <2>2, <3>1, <3>2
    <3>4. Len(bytes) = n /\ bytes[i] = ByteRead(inode, m, i - 1)
      BY <1>3, <1>5, <3>2
    <3>5. i - 1 \in Nat /\ (m % 4 = 0 \/ i - 1 = 0) /\ m + (i - 1) = j - 1
      BY <1>1, <1>2, <1>4, <3>2, <3>4
    <3>6. /\ num_data_block(m, i - 1) = (m + (i - 1)) \div BLOCK_SIZE
          /\ 4 * position_in_file(m, i - 1) + ((m + (i - 1)) % 4) = (m + (i - 1)) % BLOCK_SIZE
      BY <1>1, <3>5, RightPlace
    <3>7. ByteRead(inode, m, i - 1) = FileByte(inode, j - 1)
      BY <3>5, <3>6 DEF ByteRead, FileByte
    <3>. QED  BY <3>3, <3>4, <3>7
  <2>. QED  BY <1>1, <1>5, <2>1, <2>2
<1>. QED  BY <1>5, <1>6, <1>7

\* No system call breaks the pieces.
LEMMA PiecesKept ==
  ASSUME WholeWords, FilesInv, PiecesInv, NEW p \in Procs, Effect(p), UNCHANGED program
  PROVE  PiecesInv'
<1>1. CASE Returned
  BY <1>1 DEF Returned, PiecesInv, GoodPieces
<1>0. \A q, e : GoodPieces(q, e, <<>>)
  BY DEF GoodPieces
<1>2. ASSUME NEW fd, NEW d, Opened(p, fd, d) PROVE PiecesInv'
  BY <1>0, <1>2, OpenedChanges, OneChangePieces
<1>3. ASSUME NEW fd, Closed(p, fd) PROVE PiecesInv'
  BY <1>0, <1>3, ClosedChanges, OneChangePieces
<1>4. ASSUME NEW fd, NEW n \in Sizes(p), FileRead(p, fd, n) PROVE PiecesInv'
  <2>1. n \in Nat
    BY SizesPositive
  <2>2. PICK e \in files_t, bytes \in Seq(Item) :
            /\ fd \in Fds /\ fda[p][fd].inode \in Inodes
            /\ bytes = read_data(fda[p][fd].inode, Len(given[p][fd]), n)
            /\ e.inode = fda[p][fd].inode
            /\ OneChanged(p, fd, e, given[p][fd] \o bytes)
    BY <1>4, <2>1, FileReadChanges
  <2>3. PICK got, f : got = given[p][fd] /\ f = fda[p][fd]
    BY Zenon
  <2>4. got \in Seq(Item) /\ f.flags = IN_USE /\ f.fops_ptr = "file" /\ GoodPieces(p, f, got)
    BY <1>4, <2>2, <2>3 DEF FilesInv, PiecesInv, FileRead, OpenFile, InUse
  <2>5. GoodPieces(p, e, got \o bytes)
    BY <2>2, <2>3, <2>4, NextPiece
  <2>. QED  BY <2>2, <2>3, <2>5, OneChangePieces
<1>5. CASE DirCopy(p) \/ \E fd : Looked(p, fd)
  <2>1. fda' = fda /\ given' = given
    BY <1>5 DEF DirCopy, Looked, dir_read
  <2>. QED  BY <2>1, FilesUnchanged
<1>6. CASE DirStore(p) \/ DirReset(p)
  <2>1. dir_fd[p] \in Fds /\ fda[p][dir_fd[p]].fops_ptr = "dir"
    BY <1>6 DEF DirStore, DirReset, FilesInv, TypeOK, Looking, Listing
  <2>2. \A q \in Procs, h \in Fds : fda[q][h].fops_ptr = "file" => given'[q][h] = given[q][h]
    <3>1. PICK x : given' = [given EXCEPT ![p][dir_fd[p]] = x]
      BY <1>6 DEF DirStore, DirReset
    <3>. QED  BY <2>1, <3>1 DEF FilesInv
  <2>3. fda' = fda
    BY <1>6 DEF DirStore, DirReset
  <2>. QED  BY <2>2, <2>3, FilesUnchanged
<1>7. CASE Halt(p)
  <2>1. \A h \in Fds : fda'[p][h].fops_ptr # "file"
    BY <1>7 DEF Halt, FreshFda, FilesInv, TypeOK
  <2>2. \A q \in Procs : q # p => fda'[q] = fda[q] /\ given'[q] = given[q]
    BY <1>7 DEF Halt, FilesInv, TypeOK
  <2>. QED  BY <2>1, <2>2, FilesUnchanged
<1>. QED  BY <1>1, <1>2, <1>3, <1>4, <1>5, <1>6, <1>7, Zenon DEF Effect

\* For programs that read whole words, and fish, the invariant of the pieces holds.
LEMMA PiecesInvariant ==
  ASSUME WholeWords
  PROVE  ProgSpec => []PiecesInv
<1>1. ProgInit => PiecesInv
  BY DEF ProgInit, Init, PiecesInv, GoodPieces
<1>2. Labels /\ FilesInv /\ PiecesInv /\ [ProgNext]_<<vars, prog_vars>> => PiecesInv'
  <2>. SUFFICES ASSUME Labels, FilesInv, PiecesInv, [ProgNext]_<<vars, prog_vars>> PROVE PiecesInv'
    OBVIOUS
  <2>1. UNCHANGED program /\ ((\E p \in Procs : Effect(p)) \/ UNCHANGED vars)
    BY StepsAreEffects
  <2>2. CASE UNCHANGED vars
    BY <2>1, <2>2 DEF vars, PiecesInv, GoodPieces
  <2>3. CASE \E p \in Procs : Effect(p)
    BY <2>1, <2>3, PiecesKept
  <2>. QED  BY <2>1, <2>2, <2>3
<1>. QED  BY <1>1, <1>2, LabelsHold, FilesInvariant, PTL DEF ProgSpec

\* For every image and every block size, the pieces read one after the other are the file,
\* whatever other processes open, read and close in between: the block and word counters
\* of read_data restart in the right place for every call.
THEOREM FilesReadRight ==
  ASSUME WholeWords
  PROVE  ProgSpec => []PiecesMakeTheFile
<1>1. PiecesInv => PiecesMakeTheFile
  BY DEF PiecesInv, GoodPieces, PiecesMakeTheFile, OpenFile, InUse
<1>. QED  BY <1>1, PiecesInvariant, PTL

-----------------------------------------------------------------------------
(* The end of a file.                                                       *)

\* No file is so close to the largest size that a read that begins in it leaves the table.
RoomForReads ==
    \A i \in Inodes, n \in ReadSizes : inodes[i].length + n <= NUM_DATA_BLOCKS * BLOCK_SIZE

\* A read that begins in the file and stays in the table stores all its bytes.
LEMMA ReadsAll ==
  ASSUME NEW inode \in Inodes, NEW offset \in Nat, NEW n \in Nat,
         offset <= inodes[inode].length, offset + n < NUM_DATA_BLOCKS * BLOCK_SIZE
  PROVE  Len(read_data(inode, offset, n)) = n
<1>1. NUM_DATA_BLOCKS * BLOCK_SIZE \in Nat /\ NUM_DATA_BLOCKS \in Nat
  BY FileSystemAssumption
<1>2. inodes[inode].length \in Nat
  <2>1. inodes[inode].length \in 0..(NUM_DATA_BLOCKS * BLOCK_SIZE)
    BY FileSystemAssumption, Zenon
  <2>. QED  BY <1>1, <2>1
<1>3. ASSUME NEW i \in 1..n PROVE ~(num_data_block(offset, i) >= NUM_DATA_BLOCKS)
  <2>1. PICK t \in Nat : t = NUM_DATA_BLOCKS * BLOCK_SIZE
    BY <1>1
  <2>2. i \in Nat /\ offset + i < t
    BY <2>1
  <2>3. offset + i < NUM_DATA_BLOCKS * BLOCK_SIZE
    BY <2>1, <2>2, Zenon
  <2>4. num_data_block(offset, i) < NUM_DATA_BLOCKS
    BY <2>2, <2>3, WithinTable
  <2>5. num_data_block(offset, i) \in Nat
    BY <2>2, LoopPlace DEF LoopAt
  <2>. QED  BY <1>1, <2>4, <2>5
<1>4. ~(offset > inodes[inode].length)
  BY <1>2
<1>5. read_data(inode, offset, n) = [j \in 1..n |-> ByteRead(inode, offset, j - 1)]
  BY <1>3, <1>4 DEF read_data
<1>. QED  BY <1>5

\* The position of a file that has been read to its end does not move on.
LEMMA StaysAtEnd ==
  ASSUME FilesInv, NEW q \in Procs, Effect(q), NEW p \in Procs, NEW fd \in Fds,
         OpenFile(p, fd), LengthOf(p, fd) # 0, Len(given[p][fd]) >= LengthOf(p, fd)
  PROVE  fda'[p][fd].file_position <= fda[p][fd].file_position
<1>0. fda[p][fd].file_position \in Nat /\ fda[p][fd].file_position = Len(given[p][fd])
  BY DEF FilesInv, TypeOK, files_t, Positions
<1>1. CASE fda'[p][fd] = fda[p][fd]
  BY <1>0, <1>1
<1>2. CASE Returned \/ DirCopy(q) \/ DirStore(q) \/ DirReset(q) \/ \E f : Looked(q, f)
  BY <1>1, <1>2 DEF Returned, DirCopy, DirStore, DirReset, Looked, dir_read
<1>3. ASSUME NEW f, NEW d, Opened(q, f, d) PROVE fda'[p][fd] = fda[p][fd]
  <2>1. ~InUse(q, f) /\ \E e, got : OneChanged(q, f, e, got)
    BY <1>3, OpenedChanges
  <2>2. q # p \/ f # fd
    BY <2>1 DEF OpenFile
  <2>. QED  BY <2>1, <2>2 DEF OneChanged
<1>4. ASSUME NEW f, Closed(q, f) PROVE fda'[p][fd].file_position = fda[p][fd].file_position
  <2>1. PICK e : e.file_position = fda[q][f].file_position /\ OneChanged(q, f, e, <<>>)
    BY <1>4, ClosedChanges
  <2>. QED  BY <2>1 DEF OneChanged
<1>5. ASSUME NEW f, NEW n \in Sizes(q), FileRead(q, f, n) PROVE fda'[p][fd] = fda[p][fd]
  <2>1. n \in Nat
    BY SizesPositive
  <2>2. \E e, got : OneChanged(q, f, e, got)
    BY <1>5, <2>1, FileReadChanges
  <2>3. q # p \/ f # fd
    BY <1>0, <1>5 DEF FileRead, AtEnd
  <2>. QED  BY <2>2, <2>3 DEF OneChanged
<1>6. CASE Halt(q)
  <2>1. FreshFda[fd].file_position = 0
    BY DEF FreshFda
  <2>2. fda'[p] = IF p = q THEN FreshFda ELSE fda[p]
    BY <1>6 DEF Halt, FilesInv, TypeOK
  <2>. QED  BY <1>0, <2>1, <2>2
<1>7. ASSUME NEW f, Closed(q, f) PROVE fda'[p][fd].file_position <= fda[p][fd].file_position
  BY <1>0, <1>4, <1>7
<1>. QED  BY <1>1, <1>2, <1>3, <1>5, <1>6, <1>7, Zenon DEF Effect

\* A read of a file that has not been read to its end gives bytes.
LEMMA GivesBytes ==
  ASSUME FilesInv, RoomForReads, NEW p \in Procs, NEW fd \in Fds, NEW n \in ReadSizes,
         OpenFile(p, fd), Len(given[p][fd]) < LengthOf(p, fd), sys_read(p, fd, n)
  PROVE  ret' # 0
<1>1. n \in Nat \ {0}
  BY Parameters
<1>2. fda[p][fd].inode \in Inodes /\ fda[p][fd].file_position = Len(given[p][fd])
  BY DEF FilesInv, Positions
<1>3. PICK i, m, len, size : i = fda[p][fd].inode /\ m = Len(given[p][fd]) /\ len = LengthOf(p, fd)
                             /\ size = NUM_DATA_BLOCKS * BLOCK_SIZE
  BY Zenon
<1>4. m \in Nat /\ size \in Nat
  BY <1>3, FileSystemAssumption DEF FilesInv
<1>5. len = inodes[i].length /\ len \in Nat /\ len + n <= size
  <2>1. inodes[i].length \in 0..size
    BY <1>2, <1>3, FileSystemAssumption, Zenon
  <2>2. len = inodes[i].length
    BY <1>3 DEF LengthOf
  <2>3. inodes[i].length + n <= size
    BY <1>2, <1>3, Zenon DEF RoomForReads
  <2>. QED  BY <1>4, <2>1, <2>2, <2>3
<1>6. m < len
  BY <1>3
<1>7. ~AtEnd(fda[p][fd], LengthOf(p, fd))
  BY <1>2, <1>3, <1>4, <1>5, <1>6 DEF AtEnd
<1>8. FileRead(p, fd, n)
  <2>1. InUse(p, fd) /\ fda[p][fd].fops_ptr = "file"
    BY DEF OpenFile
  <2>2. ~Looked(p, fd)
    BY <2>1 DEF Looked, Listing
  <2>. QED  BY <1>1, <1>7, <2>1, <2>2, ReadEffect
<1>9. ret' = Len(read_data(i, m, n))
  BY <1>1, <1>3, <1>8, FileReadChanges
<1>10. m <= inodes[i].length /\ m + n < size
  BY <1>1, <1>4, <1>5, <1>6
<1>11. m + n < NUM_DATA_BLOCKS * BLOCK_SIZE /\ i \in Inodes
  BY <1>2, <1>3, <1>10, Zenon
<1>12. Len(read_data(i, m, n)) = n
  BY <1>1, <1>4, <1>10, <1>11, ReadsAll
<1>. QED  BY <1>1, <1>9, <1>12

\* When no file is of nearly the largest size, a read returns 0 exactly at the end of a
\* file that is not empty, whatever was read before and by whom.
THEOREM ZeroAtEndOnly ==
  ASSUME RoomForReads
  PROVE  ProgSpec => ZeroMeansEnd
<1>. DEFINE Step ==
       \A p \in Procs, fd \in Fds :
          OpenFile(p, fd) /\ LengthOf(p, fd) # 0 =>
              IF Len(given[p][fd]) >= LengthOf(p, fd)
              THEN fda'[p][fd].file_position <= fda[p][fd].file_position
              ELSE ret' = 0 /\ fda' = fda => \A n \in ReadSizes : ~sys_read(p, fd, n)
<1>1. Labels /\ FilesInv /\ [ProgNext]_<<vars, prog_vars>> => [Step]_vars
  <2>. SUFFICES ASSUME Labels, FilesInv, [ProgNext]_<<vars, prog_vars>>, ~UNCHANGED vars
                PROVE  Step
    OBVIOUS
  <2>1. PICK q \in Procs : Effect(q)
    BY StepsAreEffects
  <2>. SUFFICES ASSUME NEW p \in Procs, NEW fd \in Fds, OpenFile(p, fd), LengthOf(p, fd) # 0
                PROVE  IF Len(given[p][fd]) >= LengthOf(p, fd)
                       THEN fda'[p][fd].file_position <= fda[p][fd].file_position
                       ELSE ret' = 0 /\ fda' = fda => \A n \in ReadSizes : ~sys_read(p, fd, n)
    BY Zenon
  <2>2. CASE Len(given[p][fd]) >= LengthOf(p, fd)
    BY <2>1, <2>2, StaysAtEnd
  <2>3. CASE ~(Len(given[p][fd]) >= LengthOf(p, fd))
    <3>1. Len(given[p][fd]) \in Nat /\ LengthOf(p, fd) \in Nat
      <4>1. fda[p][fd].inode \in Inodes /\ Len(given[p][fd]) \in Nat
        BY DEF FilesInv, Positions
      <4>2. NUM_DATA_BLOCKS * BLOCK_SIZE \in Nat
        BY FileSystemAssumption
      <4>3. LengthOf(p, fd) \in 0..(NUM_DATA_BLOCKS * BLOCK_SIZE)
        BY <4>1, FileSystemAssumption, Zenon DEF LengthOf
      <4>. QED  BY <4>1, <4>2, <4>3
    <3>2. Len(given[p][fd]) < LengthOf(p, fd)
      BY <2>3, <3>1
    <3>3. ret' = 0 => \A n \in ReadSizes : ~sys_read(p, fd, n)
      BY <3>2, GivesBytes
    <3>. QED  BY <2>3, <3>3
  <2>. QED  BY <2>2, <2>3
<1>2. ProgSpec => [][Step]_vars
  BY <1>1, LabelsHold, FilesInvariant, PTL DEF ProgSpec
<1>. QED  BY <1>2 DEF ZeroMeansEnd

-----------------------------------------------------------------------------
(* Listing the directory, one process at a time.                            *)

\* The entries 1 to n, in order.
Upto(s, n) == Len(s) = n /\ \A j \in 1..n : s[j] = j

\* A listing is in progress through the descriptor fd of p.
Lister(p, fd) == Listing(p, fd) /\ (given[p][fd] # <<>> \/ (pc[p] # "user" /\ dir_fd[p] = fd))

\* At most this listing is in progress, and the shared position is its own.
ListedBy(p, fd) ==
    /\ Listing(p, fd)
    /\ \A q \in Procs, g \in Fds : Lister(q, g) => q = p /\ g = fd
    /\ Upto(given[p][fd], global_file_index)

NobodyLists == global_file_index = 0 /\ \A q \in Procs, g \in Fds : ~Lister(q, g)

\* What a process in dir_read has found still holds.
UpToDate ==
    \A p \in Procs :
        /\ pc[p] \in {"copy", "store"} => test_dentry[p] = global_file_index + 1
        /\ pc[p] = "store" => register[p] = global_file_index
        /\ pc[p] = "reset" => global_file_index = Len(direntries)

ListInv ==
    /\ global_file_index <= Len(direntries)
    /\ NobodyLists \/ \E p \in Procs, fd \in Fds : ListedBy(p, fd)
    /\ UpToDate

\* Who is in dir_read is the one who lists, and everybody else is not in dir_read.
LEMMA ListsAlone ==
  ASSUME FilesInv, ListInv, NEW p \in Procs, pc[p] # "user"
  PROVE  /\ dir_fd[p] \in Fds /\ ListedBy(p, dir_fd[p])
         /\ \A q \in Procs : q # p => pc[q] = "user"
<1>1. \A q \in Procs : pc[q] # "user" => Lister(q, dir_fd[q]) /\ dir_fd[q] \in Fds
  BY DEF FilesInv, TypeOK, Looking, Lister
<1>2. ~NobodyLists
  BY <1>1 DEF NobodyLists
<1>3. PICK q \in Procs, fd \in Fds : ListedBy(q, fd)
  BY <1>2 DEF ListInv
<1>4. \A r \in Procs : pc[r] # "user" => r = q /\ dir_fd[r] = fd
  BY <1>1, <1>3 DEF ListedBy
<1>. QED  BY <1>1, <1>3, <1>4

\* A listing that is not in progress has not begun.
LEMMA NotBegun ==
  ASSUME NEW p \in Procs, NEW fd \in Fds, ListedBy(p, fd), ~Lister(p, fd)
  PROVE  NobodyLists /\ given[p][fd] = <<>>
<1>1. given[p][fd] = <<>>
  BY DEF ListedBy, Lister
<1>2. global_file_index = 0
  BY <1>1 DEF ListedBy, Upto
<1>3. \A q \in Procs, g \in Fds : ~Lister(q, g)
  BY DEF ListedBy
<1>. QED  BY <1>1, <1>2, <1>3 DEF NobodyLists

\* Descriptors that list nothing may come and go.
LEMMA QuietChange ==
  ASSUME FilesInv, ListInv, NEW p \in Procs, pc[p] = "user",
         UNCHANGED <<global_file_index, pc>>,
         \A q \in Procs : q # p => /\ dir_fd'[q] = dir_fd[q] /\ register'[q] = register[q]
                                   /\ test_dentry'[q] = test_dentry[q],
         \A q \in Procs, g \in Fds :
            \/ fda'[q][g] = fda[q][g] /\ given'[q][g] = given[q][g]
            \/ q = p /\ ~Lister(q, g) /\ (given'[q][g] = <<>> \/ ~Listing(q, g)')
  PROVE  ListInv'
<1>1. ASSUME NEW q \in Procs, NEW g \in Fds, Lister(q, g)'
      PROVE  Lister(q, g) /\ fda'[q][g] = fda[q][g] /\ given'[q][g] = given[q][g]
  BY <1>1 DEF Lister, Listing, InUse
<1>2. NobodyLists => NobodyLists'
  BY <1>1 DEF NobodyLists
<1>3. ASSUME NEW q \in Procs, NEW g \in Fds, ListedBy(q, g) PROVE ListedBy(q, g)' \/ NobodyLists'
  <2>1. CASE Lister(q, g)
    <3>1. fda'[q][g] = fda[q][g] /\ given'[q][g] = given[q][g]
      BY <2>1
    <3>. QED  BY <1>1, <1>3, <3>1 DEF ListedBy, Listing, InUse
  <2>2. CASE ~Lister(q, g)
    BY <1>2, <1>3, <2>2, NotBegun
  <2>. QED  BY <2>1, <2>2
<1>4. UpToDate' /\ (global_file_index <= Len(direntries))'
  BY DEF ListInv, UpToDate
<1>. QED  BY <1>2, <1>3, <1>4 DEF ListInv

\* The steps of a listing.
LEMMA LookedLists ==
  ASSUME Orderly, FilesInv, ListInv, NEW p \in Procs, NEW fd, Looked(p, fd)
  PROVE  ListInv'
<1>1. PICK d : d = read_dentry_by_index(global_file_index)
  OBVIOUS
<1>2. /\ fd \in Fds /\ Listing(p, fd)
      /\ pc' = [pc EXCEPT ![p] = IF d # 0 THEN "copy" ELSE "reset"]
      /\ dir_fd' = [dir_fd EXCEPT ![p] = fd]
      /\ test_dentry' = [test_dentry EXCEPT ![p] = d]
      /\ UNCHANGED <<fda, global_file_index, register, ret, given>>
  BY <1>1 DEF Looked, dir_read
<1>3. /\ \A q \in Procs : pc[q] = "user"
      /\ \A q \in Procs, g \in Fds : Listing(q, g) /\ given[q][g] # <<>> => q = p /\ g = fd
  BY DEF Looked, dir_read, MayList
<1>4. Upto(given[p][fd], global_file_index)
  <2>1. CASE NobodyLists
    <3>1. given[p][fd] = <<>> /\ global_file_index = 0
      BY <1>2, <2>1 DEF NobodyLists, Lister
    <3>. QED  BY <3>1 DEF Upto
  <2>2. ASSUME NEW q \in Procs, NEW g \in Fds, ListedBy(q, g) PROVE Upto(given[p][fd], global_file_index)
    <3>1. CASE Lister(q, g)
      <4>1. Listing(q, g) /\ given[q][g] # <<>>
        BY <1>3, <3>1 DEF Lister
      <4>. QED  BY <1>3, <2>2, <4>1 DEF ListedBy
    <3>2. CASE ~Lister(q, g)
      BY <2>1, <2>2, <3>2, NotBegun
    <3>. QED  BY <3>1, <3>2
  <2>. QED  BY <2>1, <2>2 DEF ListInv
<1>5. ListedBy(p, fd)'
  <2>1. Listing(p, fd)' /\ Upto(given'[p][fd], global_file_index')
    BY <1>2, <1>4 DEF Listing, InUse
  <2>2. ASSUME NEW q \in Procs, NEW g \in Fds, Lister(q, g)' PROVE q = p /\ g = fd
    <3>1. Listing(q, g) /\ (given[q][g] # <<>> \/ (pc'[q] # "user" /\ dir_fd'[q] = g))
      BY <1>2, <2>2 DEF Lister, Listing, InUse
    <3>2. CASE given[q][g] # <<>>
      BY <1>3, <3>1, <3>2
    <3>3. CASE pc'[q] # "user" /\ dir_fd'[q] = g
      BY <1>2, <1>3, <3>3 DEF FilesInv, TypeOK
    <3>. QED  BY <3>1, <3>2, <3>3
  <2>. QED  BY <2>1, <2>2 DEF ListedBy
<1>6. UpToDate'
  <2>1. /\ d # 0 => d = global_file_index + 1
        /\ d = 0 => global_file_index = Len(direntries)
    BY <1>1, FileSystemAssumption DEF read_dentry_by_index, ListInv, FilesInv, TypeOK
  <2>2. \A q \in Procs : q # p => pc'[q] = "user"
    BY <1>2, <1>3 DEF FilesInv, TypeOK
  <2>. QED  BY <1>2, <2>1, <2>2 DEF UpToDate, FilesInv, TypeOK
<1>. QED  BY <1>2, <1>5, <1>6 DEF ListInv

LEMMA DirCopyLists ==
  ASSUME FilesInv, ListInv, NEW p \in Procs, DirCopy(p)
  PROVE  ListInv'
<1>1. /\ pc[p] = "copy" /\ pc' = [pc EXCEPT ![p] = "store"]
      /\ register' = [register EXCEPT ![p] = global_file_index]
      /\ UNCHANGED <<fda, global_file_index, dir_fd, test_dentry, ret, given>>
  BY DEF DirCopy
<1>2. /\ dir_fd[p] \in Fds /\ ListedBy(p, dir_fd[p])
      /\ \A q \in Procs : q # p => pc[q] = "user"
  BY <1>1, ListsAlone
<1>3. ListedBy(p, dir_fd[p])'
  <2>1. \A q \in Procs, g \in Fds : Lister(q, g)' => Lister(q, g)
    BY <1>1 DEF Lister, Listing, InUse, FilesInv, TypeOK
  <2>. QED  BY <1>1, <1>2, <2>1 DEF ListedBy, Listing, InUse
<1>4. UpToDate'
  BY <1>1, <1>2 DEF UpToDate, ListInv, FilesInv, TypeOK
<1>5. dir_fd'[p] \in Fds
  BY <1>1, <1>2
<1>. QED  BY <1>1, <1>3, <1>4, <1>5 DEF ListInv

\* The end of dir_read: everybody is back in their programs.
LEMMA DirReturnLists ==
  ASSUME FilesInv, ListInv, NEW p \in Procs, DirStore(p) \/ DirReset(p)
  PROVE  ListInv'
<1>0. PICK fd \in Fds : fd = dir_fd[p]
  BY DEF FilesInv, TypeOK
<1>1. pc[p] \in {"store", "reset"} /\ LeaveDirRead(p) /\ fda' = fda
  BY DEF DirStore, DirReset
<1>2. ListedBy(p, fd) /\ \A q \in Procs : q # p => pc[q] = "user"
  BY <1>0, <1>1, ListsAlone
<1>3. \A q \in Procs : pc'[q] = "user"
  BY <1>1, <1>2 DEF LeaveDirRead, FilesInv, TypeOK
<1>4. UpToDate'
  BY <1>3 DEF UpToDate
<1>5. \A q \in Procs, g \in Fds : q # p \/ g # fd => given'[q][g] = given[q][g]
  <2>1. PICK x : given' = [given EXCEPT ![p][fd] = x]
    BY <1>0 DEF DirStore, DirReset
  <2>. QED  BY <2>1 DEF FilesInv
<1>6. ASSUME NEW q \in Procs, NEW g \in Fds, Lister(q, g)' PROVE q = p /\ g = fd
  <2>. SUFFICES ASSUME q # p \/ g # fd PROVE FALSE
    OBVIOUS
  <2>1. Listing(q, g) /\ given[q][g] # <<>>
    BY <1>1, <1>3, <1>5, <1>6 DEF Lister, Listing, InUse
  <2>. QED  BY <1>2, <2>1 DEF ListedBy, Lister
<1>7. CASE DirStore(p)
  <2>1. pc[p] = "store" /\ global_file_index' = register[p] + 1
    BY <1>7 DEF DirStore
  <2>2. PICK n : n = global_file_index
    OBVIOUS
  <2>3. test_dentry[p] = n + 1 /\ register[p] = n /\ n \in Nat
    BY <2>1, <2>2 DEF ListInv, UpToDate, FilesInv, TypeOK
  <2>4. n + 1 <= Len(direntries)
    BY <2>3, FileSystemAssumption DEF FilesInv, TypeOK
  <2>5. given'[p][fd] = Append(given[p][fd], n + 1)
    BY <1>0, <1>7, <2>3 DEF DirStore, FilesInv
  <2>6. PICK s \in Seq(Item) : s = given[p][fd]
    BY DEF FilesInv
  <2>7. Len(s) = n /\ \A j \in 1..n : s[j] = j
    BY <1>2, <2>2, <2>6 DEF ListedBy, Upto
  <2>8. n + 1 \in Item
    BY <2>3 DEF Item
  <2>9. Upto(Append(s, n + 1), n + 1)
    BY <2>3, <2>7, <2>8 DEF Upto
  <2>10. ListedBy(p, fd)'
    BY <1>1, <1>2, <1>6, <2>1, <2>3, <2>5, <2>6, <2>9 DEF ListedBy, Listing, InUse
  <2>. QED  BY <1>4, <2>1, <2>3, <2>4, <2>10 DEF ListInv
<1>8. CASE DirReset(p)
  <2>1. global_file_index' = 0 /\ given'[p][fd] = <<>>
    BY <1>0, <1>8 DEF DirReset, FilesInv
  <2>2. NobodyLists'
    BY <1>3, <1>6, <2>1 DEF NobodyLists, Lister
  <2>3. 0 <= Len(direntries)
    BY FileSystemAssumption
  <2>. QED  BY <1>4, <2>1, <2>2, <2>3 DEF ListInv
<1>. QED  BY <1>7, <1>8
\* A process that ends is not listing.
LEMMA HaltLists ==
  ASSUME Orderly, FilesInv, ListInv, NEW p \in Procs, Halt(p)
  PROVE  ListInv'
<1>1. \A fd \in Fds : Listing(p, fd) => pc[p] = "user" /\ given[p][fd] = <<>>
  BY DEF Halt, MayLeave
<1>2. pc[p] = "user"
  BY <1>1 DEF FilesInv, TypeOK, Looking
<1>3. pc' = pc
  BY <1>2 DEF Halt, LeaveDirRead, FilesInv, TypeOK
<1>4. \A q \in Procs : q # p => /\ dir_fd'[q] = dir_fd[q] /\ register'[q] = register[q]
                                /\ test_dentry'[q] = test_dentry[q]
                                /\ fda'[q] = fda[q] /\ given'[q] = given[q]
  BY DEF Halt, LeaveDirRead, FilesInv, TypeOK
<1>5. ASSUME NEW g \in Fds PROVE ~Lister(p, g) /\ ~Listing(p, g)'
  <2>1. ~Lister(p, g)
    BY <1>1, <1>2 DEF Lister
  <2>2. fda'[p][g].fops_ptr # "dir"
    BY DEF Halt, FreshFda, FilesInv, TypeOK
  <2>. QED  BY <2>1, <2>2 DEF Listing
<1>6. global_file_index' = global_file_index
  BY DEF Halt
<1>7. \A q \in Procs, g \in Fds :
            \/ fda'[q][g] = fda[q][g] /\ given'[q][g] = given[q][g]
            \/ q = p /\ ~Lister(q, g) /\ (given'[q][g] = <<>> \/ ~Listing(q, g)')
  BY <1>4, <1>5
<1>. QED  BY <1>2, <1>3, <1>4, <1>6, <1>7, QuietChange

\* No system call spoils a listing when processes list one after the other.
LEMMA EffectLists ==
  ASSUME Orderly, FilesInv, ListInv, NEW p \in Procs, Effect(p)
  PROVE  ListInv'
<1>1. ASSUME NEW fd \in Fds, NEW e, NEW got, OneChanged(p, fd, e, got), pc[p] = "user",
             UNCHANGED <<global_file_index, dir_locals>>, ~Lister(p, fd),
             got = <<>> \/ e.flags # IN_USE \/ e.fops_ptr # "dir"
      PROVE  ListInv'
  <2>1. ASSUME NEW q \in Procs, NEW g \in Fds
        PROVE  \/ fda'[q][g] = fda[q][g] /\ given'[q][g] = given[q][g]
               \/ q = p /\ ~Lister(q, g) /\ (given'[q][g] = <<>> \/ ~Listing(q, g)')
    <3>1. CASE q # p \/ g # fd
      BY <1>1, <3>1 DEF OneChanged
    <3>2. CASE q = p /\ g = fd
      <4>1. given'[p][fd] = <<>> \/ fda'[p][fd].flags # IN_USE \/ fda'[p][fd].fops_ptr # "dir"
        BY <1>1 DEF OneChanged
      <4>2. given'[q][g] = <<>> \/ ~Listing(q, g)'
        BY <3>2, <4>1 DEF Listing, InUse
      <4>. QED  BY <1>1, <3>2, <4>2
    <3>. QED  BY <3>1, <3>2
  <2>2. UNCHANGED <<global_file_index, pc, dir_fd, test_dentry, register>>
    BY <1>1 DEF dir_locals
  <2>. QED  BY <1>1, <2>1, <2>2, QuietChange
<1>2. CASE Returned
  <2>1. UNCHANGED <<fda, global_file_index, pc, dir_fd, test_dentry, register, given>>
    BY <1>2 DEF Returned, dir_locals
  <2>2. \A q \in Procs, g \in Fds : Lister(q, g)' <=> Lister(q, g)
    BY <2>1 DEF Lister, Listing, InUse
  <2>3. (NobodyLists' <=> NobodyLists) /\ (UpToDate' <=> UpToDate)
    BY <2>1, <2>2 DEF NobodyLists, UpToDate
  <2>4. \A q \in Procs, g \in Fds : ListedBy(q, g) => ListedBy(q, g)'
    BY <2>1, <2>2 DEF ListedBy, Listing, InUse
  <2>. QED  BY <2>1, <2>3, <2>4 DEF ListInv
<1>3. ASSUME NEW fd, NEW d, Opened(p, fd, d) PROVE ListInv'
  <2>1. PICK e : fd \in Fds /\ ~InUse(p, fd) /\ OneChanged(p, fd, e, <<>>)
    BY <1>3, OpenedChanges
  <2>2. ~Lister(p, fd)
    BY <2>1 DEF Lister, Listing
  <2>3. pc[p] = "user" /\ UNCHANGED <<global_file_index, dir_locals>>
    BY <1>3 DEF Opened
  <2>. QED  BY <1>1, <2>1, <2>2, <2>3
<1>4. ASSUME NEW fd, Closed(p, fd) PROVE ListInv'
  <2>1. PICK e : fd \in Fds /\ OneChanged(p, fd, e, <<>>)
    BY <1>4, ClosedChanges
  <2>2. pc[p] = "user" /\ MayLeave(p, fd) /\ UNCHANGED <<global_file_index, dir_locals>>
    BY <1>4 DEF Closed
  <2>3. ~Lister(p, fd)
    BY <2>2 DEF Lister, MayLeave
  <2>. QED  BY <1>1, <2>1, <2>2, <2>3
<1>5. ASSUME NEW fd, NEW n \in Sizes(p), FileRead(p, fd, n) PROVE ListInv'
  <2>1. n \in Nat
    BY SizesPositive
  <2>2. PICK e, got : fd \in Fds /\ OneChanged(p, fd, e, got) /\ e.fops_ptr = "file"
    BY <1>5, <2>1, FileReadChanges
  <2>3. pc[p] = "user" /\ OpenFile(p, fd) /\ UNCHANGED <<global_file_index, dir_locals>>
    BY <1>5 DEF FileRead
  <2>4. ~Lister(p, fd)
    BY <2>3 DEF Lister, Listing, OpenFile
  <2>. QED  BY <1>1, <2>2, <2>3, <2>4
<1>. QED  BY <1>2, <1>3, <1>4, <1>5, LookedLists, DirCopyLists, DirReturnLists, HaltLists, Zenon DEF Effect

\* When processes list one after the other, the shared position is that of the listing in
\* progress.
LEMMA ListInvariant ==
  ASSUME Orderly
  PROVE  ProgSpec => []ListInv
<1>1. ProgInit => ListInv
  <2>. SUFFICES ASSUME ProgInit PROVE ListInv
    OBVIOUS
  <2>1. Init
    BY DEF ProgInit
  <2>2. \A q \in Procs, g \in Fds : ~Lister(q, g)
    BY <2>1 DEF Init, Lister
  <2>3. 0 <= Len(direntries)
    BY FileSystemAssumption
  <2>. QED  BY <2>1, <2>2, <2>3 DEF Init, ListInv, NobodyLists, UpToDate
<1>2. Labels /\ FilesInv /\ ListInv /\ [ProgNext]_<<vars, prog_vars>> => ListInv'
  <2>. SUFFICES ASSUME Labels, FilesInv, ListInv, [ProgNext]_<<vars, prog_vars>> PROVE ListInv'
    OBVIOUS
  <2>1. CASE UNCHANGED vars
    <3>1. Returned
      BY <2>1 DEF vars, Returned, dir_locals, FilesInv, TypeOK
    <3>2. \E p \in Procs : Effect(p)
      BY <3>1, Parameters DEF Effect
    <3>. QED  BY <3>2, EffectLists
  <2>2. CASE \E p \in Procs : Effect(p)
    BY <2>2, EffectLists
  <2>. QED  BY <2>1, <2>2, StepsAreEffects
<1>. QED  BY <1>1, <1>2, LabelsHold, FilesInvariant, PTL DEF ProgSpec

\* Before dir_read reports the end, it has given everything.
LEMMA AllListed ==
  ASSUME FilesInv, ListInv, NEW p \in Procs, pc[p] = "reset"
  PROVE  given[p][dir_fd[p]] = All /\ Listing(p, dir_fd[p]) /\ dir_fd[p] \in Fds
<1>1. dir_fd[p] \in Fds /\ ListedBy(p, dir_fd[p])
  BY ListsAlone
<1>2. PICK s \in Seq(Item) : s = given[p][dir_fd[p]]
  BY <1>1 DEF FilesInv
<1>3. PICK n \in Nat : n = Len(direntries)
  BY FileSystemAssumption
<1>4. Len(s) = n /\ \A j \in 1..n : s[j] = j
  BY <1>1, <1>2, <1>3 DEF ListedBy, Upto, ListInv, UpToDate
<1>5. s = [d \in 1..n |-> d]
  BY <1>4
<1>. QED  BY <1>1, <1>2, <1>3, <1>5 DEF All, ListedBy

\* For every directory and any number of processes: if they list one after the other, each
\* listing shows all entries in order, although no listing begins by rewinding.
THEOREM ListingsAreComplete ==
  ASSUME Orderly
  PROVE  ProgSpec => ListingIsComplete
<1>. DEFINE Step ==
       \A p \in Procs : pc[p] = "reset" /\ pc'[p] = "user" /\ ret' = 0 =>
          given[p][dir_fd[p]] = [d \in 1..Len(direntries) |-> d]
<1>1. FilesInv /\ ListInv => Step
  BY AllListed DEF All
<1>2. ProgSpec => [][Step]_vars
  BY <1>1, FilesInvariant, ListInvariant, PTL
<1>. QED  BY <1>2 DEF ListingIsComplete

-----------------------------------------------------------------------------
(* The programs.                                                            *)

\* RUNNER has exactly these descriptors open, besides the terminal's.
OnlyOpen(S) == \A fd \in Fds \ {0, 1} : InUse(RUNNER, fd) <=> fd \in S

\* The descriptor fd of RUNNER is open for the directory entry d.
Entry(fd, d) ==
    /\ InUse(RUNNER, fd)
    /\ fda[RUNNER][fd].fops_ptr = direntries[d].filetype
    /\ fda[RUNNER][fd].inode = direntries[d].inode_num

\* What the program opens first.
Target == IF program \in {"cat", "fish"} THEN args ELSE DOT

\* The entries among the first n that grep searches.
Searched(n) == {d \in 1..n : direntries[d].filename[1] # "."}
Increasing(s) == \A i, j \in 1..Len(s) : i < j => s[i] < s[j]

\* What the program has written is what it was given, less what grep skips.
Collected ==
    /\ out \in Seq(Item)
    /\ IF program = "grep" THEN Increasing(out) /\ Range(out) = Searched(Len(given[RUNNER][file]))
       ELSE out = given[RUNNER][file]
    /\ program = "fish" /\ OpenFile(RUNNER, file) /\ LengthOf(RUNNER, file) # 0 =>
          Len(out) <= LengthOf(RUNNER, file)

InSearch == at \in {"searching", "searched"}

\* Between the open and the end: one descriptor is open, and a second in grep's search.
ReadInv ==
    /\ program \in {"cat", "fish", "ls", "grep"}
    /\ args = <<>> => program = "ls"
    /\ file \in Fds \ {0, 1}
    /\ \E d \in 1..Len(direntries) : direntries[d].filename = Target /\ Entry(file, d)
    /\ Collected
    /\ InSearch => inner \in Fds \ {0, 1, file} /\ fda[RUNNER][inner].fops_ptr \in {"file", "rtc"}
    /\ OnlyOpen(IF InSearch THEN {file, inner} ELSE {file})
    /\ at = "search" => out # <<>>

\* In syserr's tests: all calls so far have failed; err_open_lots has opened one
\* descriptor after the other, failed once, and is closing them.
TestInv ==
    /\ test \in 1..8
    /\ k \in 1..(Len(Tests[test]) + 1)
    /\ IF test # 3 THEN cnt = k - 1 /\ OnlyOpen({})
       ELSE IF k < FDA_SIZE THEN cnt = 0 /\ OnlyOpen(2..k)
       ELSE cnt = 1 /\ OnlyOpen((k + 2 - FDA_SIZE)..(FDA_SIZE - 1))

WorkInv ==
    program # "any" =>
        /\ program \in {"cat", "ls", "grep", "syserr", "fish"}
        /\ program = "fish" => args # <<>> /\ args # DOT
        /\ at \in {"start", "open", "test", "read", "write", "search", "searching", "searched",
                   "exit", "done"}
        /\ at \notin {"exit", "done"} => status = 0
        /\ at # "read" => pc[RUNNER] = "user"
        /\ at \in {"start", "open"} => OnlyOpen({}) /\ out = <<>>
        /\ at = "start" /\ program = "syserr" => /\ select \in Nat /\ k = 1 /\ cnt = 0
                                                 /\ test = IF select = 0 THEN 1 ELSE select
        /\ at = "open" => program # "syserr" /\ (args = <<>> => program = "ls")
        /\ at = "test" => TestInv
        /\ at \in {"read", "write", "search", "searching", "searched"} => ReadInv
        /\ ProgramsDoTheirWork

\* A call of one process leaves the descriptors and the locals of another alone.
Untouched(q) ==
    /\ \A h \in Fds : fda'[q][h] = fda[q][h] /\ given'[q][h] = given[q][h]
    /\ pc'[q] = pc[q] /\ dir_fd'[q] = dir_fd[q]

LEMMA OthersApart ==
  ASSUME FilesInv, NEW p \in Procs, NEW q \in Procs, q # p, Effect(p)
  PROVE  Untouched(q)
<1>1. ASSUME NEW fd, NEW e, NEW got, OneChanged(p, fd, e, got), UNCHANGED dir_locals PROVE Untouched(q)
  BY <1>1 DEF OneChanged, dir_locals, Untouched
<1>2. CASE Returned
  BY <1>2 DEF Returned, dir_locals, Untouched
<1>3. ASSUME NEW fd, NEW d, Opened(p, fd, d) PROVE Untouched(q)
  <2>1. UNCHANGED dir_locals
    BY <1>3 DEF Opened
  <2>. QED  BY <1>1, <1>3, <2>1, OpenedChanges
<1>4. ASSUME NEW fd, Closed(p, fd) PROVE Untouched(q)
  <2>1. UNCHANGED dir_locals
    BY <1>4 DEF Closed
  <2>. QED  BY <1>1, <1>4, <2>1, ClosedChanges
<1>5. ASSUME NEW fd, NEW n \in Sizes(p), FileRead(p, fd, n) PROVE Untouched(q)
  <2>1. UNCHANGED dir_locals /\ n \in Nat
    BY <1>5, SizesPositive DEF FileRead
  <2>. QED  BY <1>1, <1>5, <2>1, FileReadChanges
<1>6. ASSUME NEW fd, Looked(p, fd) PROVE Untouched(q)
  BY <1>6 DEF Looked, dir_read, FilesInv, TypeOK, Untouched
<1>7. CASE DirCopy(p)
  BY <1>7 DEF DirCopy, FilesInv, TypeOK, Untouched
<1>8. CASE DirStore(p) \/ DirReset(p)
  <2>1. PICK x : given' = [given EXCEPT ![p][dir_fd[p]] = x]
    BY <1>8 DEF DirStore, DirReset
  <2>2. fda' = fda /\ LeaveDirRead(p)
    BY <1>8 DEF DirStore, DirReset
  <2>. QED  BY <2>1, <2>2 DEF LeaveDirRead, FilesInv, TypeOK, Untouched
<1>9. CASE Halt(p)
  BY <1>9 DEF Halt, LeaveDirRead, FilesInv, TypeOK, Untouched
<1>. QED  BY <1>2, <1>3, <1>4, <1>5, <1>6, <1>7, <1>8, <1>9, Zenon DEF Effect

\* RUNNER's descriptors are as they were.
SameFiles == \A h \in Fds : fda'[RUNNER][h] = fda[RUNNER][h] /\ given'[RUNNER][h] = given[RUNNER][h]

\* Then the same ones are open.
LEMMA SameOpen ==
  ASSUME SameFiles, NEW S
  PROVE  OnlyOpen(S)' <=> OnlyOpen(S)
BY DEF SameFiles, OnlyOpen, InUse

\* ... and reading goes on, from anywhere but grep's search.
LEMMA SameRead ==
  ASSUME ReadInv, SameFiles, UNCHANGED <<program, args, file, inner, out>>,
         at' = at \/ (~InSearch /\ at' \in {"read", "write"})
  PROVE  ReadInv'
<1>1. file \in Fds /\ file' = file /\ out' = out /\ program' = program /\ Target' = Target
  BY DEF ReadInv, Target
<1>2. fda'[RUNNER][file] = fda[RUNNER][file] /\ given'[RUNNER][file] = given[RUNNER][file]
  BY <1>1 DEF SameFiles
<1>3. Collected'
  BY <1>1, <1>2 DEF ReadInv, Collected, OpenFile, LengthOf, InUse
<1>4. \E d \in 1..Len(direntries) : direntries[d].filename = Target' /\ Entry(file, d)'
  <2>1. PICK d \in 1..Len(direntries) : direntries[d].filename = Target /\ Entry(file, d)
    BY DEF ReadInv
  <2>2. Entry(file, d)'
    BY <1>1, <1>2, <2>1 DEF Entry, InUse
  <2>. QED  BY <1>1, <2>1, <2>2
<1>5. InSearch' => InSearch /\ at' = at
  BY DEF InSearch
<1>6. InSearch' => /\ inner' \in Fds \ {0, 1, file'}
                   /\ fda'[RUNNER][inner'].fops_ptr \in {"file", "rtc"}
  BY <1>5 DEF ReadInv, SameFiles
<1>7. InSearch' <=> InSearch
  BY <1>5 DEF InSearch
<1>8. OnlyOpen(IF InSearch THEN {file, inner} ELSE {file})'
  <2>1. PICK S : S = IF InSearch THEN {file, inner} ELSE {file}
    OBVIOUS
  <2>2. OnlyOpen(S)'
    BY <2>1, SameOpen DEF ReadInv
  <2>3. S = IF InSearch' THEN {file', inner'} ELSE {file'}
    BY <1>7, <2>1
  <2>. QED  BY <2>2, <2>3 DEF OnlyOpen
<1>9. at' = "search" => out' # <<>>
  BY DEF ReadInv
<1>. QED  BY <1>1, <1>3, <1>4, <1>6, <1>8, <1>9 DEF ReadInv

\* The result depends on the program's own variables only.
LEMMA SameWork ==
  ASSUME ProgramsDoTheirWork, UNCHANGED <<program, args, out, status>>,
         at' \in {"exit", "done"} => at \in {"exit", "done"}
  PROVE  ProgramsDoTheirWork'
BY DEF ProgramsDoTheirWork

\* Other processes do not disturb the program.
LEMMA OthersKeepWork ==
  ASSUME WorkInv, Untouched(RUNNER), UNCHANGED prog_vars
  PROVE  WorkInv'
<1>1. UNCHANGED <<program, args, at, file, inner, out, select, test, k, cnt, status>>
  BY DEF prog_vars
<1>2. SameFiles /\ pc'[RUNNER] = pc[RUNNER]
  BY DEF Untouched, SameFiles
<1>3. OnlyOpen({}) => OnlyOpen({})'
  BY <1>2, SameOpen
<1>4. TestInv => TestInv'
  <2>1. OnlyOpen(2..k) => OnlyOpen(2..k)'
    <3>1. PICK S : S = 2..k
      OBVIOUS
    <3>. QED  BY <1>1, <1>2, <3>1, SameOpen DEF OnlyOpen
  <2>2. OnlyOpen((k + 2 - FDA_SIZE)..(FDA_SIZE - 1)) => OnlyOpen((k + 2 - FDA_SIZE)..(FDA_SIZE - 1))'
    <3>1. PICK S : S = (k + 2 - FDA_SIZE)..(FDA_SIZE - 1)
      OBVIOUS
    <3>. QED  BY <1>1, <1>2, <3>1, SameOpen DEF OnlyOpen
  <2>. QED  BY <1>1, <1>3, <2>1, <2>2, Zenon DEF TestInv
<1>5. ReadInv => ReadInv'
  BY <1>1, <1>2, SameRead
<1>6. ProgramsDoTheirWork => ProgramsDoTheirWork'
  BY <1>1, SameWork
<1>. QED  BY <1>1, <1>2, <1>3, <1>4, <1>5, <1>6 DEF WorkInv

\* The directory.
LEMMA Directory ==
  /\ Exists(DOT)
  /\ \A d \in 1..Len(direntries) :
        /\ direntries[d].filetype \in {"rtc", "dir", "file"}
        /\ direntries[d].inode_num \in Inodes
        /\ direntries[d].filetype = "dir" <=> direntries[d].filename = DOT
        /\ Named(direntries[d].filename) = d
<1>1. Exists(DOT)
  BY ProgramsAssumption, Zenon
<1>2. ASSUME NEW d \in 1..Len(direntries)
      PROVE  /\ direntries[d].filetype \in {"rtc", "dir", "file"}
             /\ direntries[d].inode_num \in Inodes
  BY FileSystemAssumption, Zenon
<1>3. ASSUME NEW d \in 1..Len(direntries)
      PROVE  /\ direntries[d].filetype = "dir" <=> direntries[d].filename = DOT
             /\ \A e \in 1..Len(direntries) : direntries[d].filename = direntries[e].filename => d = e
  BY ProgramsAssumption, Zenon
<1>4. ASSUME NEW d \in 1..Len(direntries) PROVE Named(direntries[d].filename) = d
  <2>1. PICK e : e = Named(direntries[d].filename)
    OBVIOUS
  <2>2. e \in 1..Len(direntries) /\ direntries[e].filename = direntries[d].filename
    BY <2>1 DEF Named
  <2>. QED  BY <1>3, <2>1, <2>2
<1>. QED  BY <1>1, <1>2, <1>3, <1>4

\* An empty name names nothing.
LEMMA NoName == ~Exists(<<>>)
<1>1. \A d \in 1..Len(direntries) : Len(direntries[d].filename) \in 1..FILENAME_LEN
  BY FileSystemAssumption, Zenon
<1>. QED  BY <1>1 DEF Exists

\* What the reference says of the file of a directory entry.
LEMMA FileOfEntry ==
  ASSUME NEW d \in 1..Len(direntries)
  PROVE  /\ Exists(direntries[d].filename)
         /\ direntries[d].filetype # "file" => FileOf(direntries[d].filename) = <<>>
         /\ direntries[d].filetype = "file" =>
              FileOf(direntries[d].filename) =
                 [j \in 1..inodes[direntries[d].inode_num].length |-> FileByte(direntries[d].inode_num, j - 1)]
<1>1. Exists(direntries[d].filename)
  BY DEF Exists
<1>2. Named(direntries[d].filename) = d
  BY Directory
<1>. QED  BY <1>1, <1>2 DEF FileOf

\* The calls of syserr's tests.
Calls == {Call(name, a) : name \in {"read", "write", "close", "open"}, a \in Int \cup {DOT}}

\* A row of calls, one for each number in a range.
LEMMA EachFrom ==
  ASSUME NEW name, \A x \in Int : Call(name, x) \in Calls,
         NEW a \in Nat, NEW b \in Nat, a <= b + 1
  PROVE  /\ Each(name, From(a, b)) \in Seq(Calls)
         /\ Len(Each(name, From(a, b))) = b - a + 1
         /\ \A j \in 1..(b - a + 1) : Each(name, From(a, b))[j] = Call(name, a + j - 1)
<1>1. PICK n \in Nat : n = b - a + 1
  OBVIOUS
<1>2. PICK f : f = From(a, b)
  OBVIOUS
<1>3. f = [j \in 1..n |-> a + j - 1] /\ DOMAIN f = 1..n
  BY <1>1, <1>2 DEF From
<1>4. PICK s : s = [j \in 1..n |-> Call(name, a + j - 1)]
  OBVIOUS
<1>5. Each(name, f) = s
  BY <1>3, <1>4 DEF Each
<1>6. \A j \in 1..n : Call(name, a + j - 1) \in Calls
  OBVIOUS
<1>7. s \in [1..n -> Calls]
  BY <1>4, <1>6
<1>8. s \in Seq(Calls) /\ Len(s) = n
  BY <1>7
<1>. QED  BY <1>1, <1>2, <1>4, <1>5, <1>8

\* err_open_lots opens until nothing is free, and once more, and closes again.
LEMMA OpenLots ==
  /\ Len(err_open_lots) = 2 * FDA_SIZE - 3
  /\ \A j \in 1..(2 * FDA_SIZE - 3) :
        err_open_lots[j] = IF j < FDA_SIZE THEN Call("open", DOT) ELSE Call("close", j + 2 - FDA_SIZE)
<1>. USE Parameters
<1>1. PICK s : s = Each("open", [j \in 1..(FDA_SIZE - 1) |-> DOT])
  OBVIOUS
<1>2. PICK t : t = Each("close", From(2, FDA_SIZE - 1))
  OBVIOUS
<1>3. s = [j \in 1..(FDA_SIZE - 1) |-> Call("open", DOT)]
  BY <1>1 DEF Each
<1>4. Call("open", DOT) \in Calls
  BY DEF Calls
<1>5. s \in Seq(Calls) /\ Len(s) = FDA_SIZE - 1
  <2>1. s \in [1..(FDA_SIZE - 1) -> Calls]
    BY <1>3, <1>4
  <2>. QED  BY <2>1
<1>6. FDA_SIZE - 1 \in Nat /\ 2 \in Nat /\ 2 <= (FDA_SIZE - 1) + 1
  OBVIOUS
<1>0. \A x \in Int : Call("close", x) \in Calls
  BY DEF Calls
<1>7. /\ t \in Seq(Calls) /\ Len(t) = FDA_SIZE - 1 - 2 + 1
      /\ \A j \in 1..(FDA_SIZE - 1 - 2 + 1) : t[j] = Call("close", 2 + j - 1)
  <2>1. PICK a : a = 2
    OBVIOUS
  <2>2. a \in Nat /\ a <= (FDA_SIZE - 1) + 1 /\ FDA_SIZE - 1 \in Nat
    BY <1>6, <2>1
  <2>3. t = Each("close", From(a, FDA_SIZE - 1))
    BY <1>2, <2>1
  <2>4. /\ t \in Seq(Calls) /\ Len(t) = FDA_SIZE - 1 - a + 1
        /\ \A j \in 1..(FDA_SIZE - 1 - a + 1) : t[j] = Call("close", a + j - 1)
    BY <1>0, <2>2, <2>3, EachFrom, Zenon
  <2>. QED  BY <2>1, <2>4
<1>8. err_open_lots = s \o t
  BY <1>1, <1>2 DEF err_open_lots
<1>9. /\ Len(s \o t) = Len(s) + Len(t)
      /\ \A i \in 1..(Len(s) + Len(t)) : (s \o t)[i] = IF i <= Len(s) THEN s[i] ELSE t[i - Len(s)]
  BY <1>5, <1>7, ConcatProperties, Zenon
<1>10. Len(s) + Len(t) = 2 * FDA_SIZE - 3
  BY <1>5, <1>7, Z3
<1>11. ASSUME NEW j \in 1..(2 * FDA_SIZE - 3)
       PROVE  (s \o t)[j] = IF j < FDA_SIZE THEN Call("open", DOT) ELSE Call("close", j + 2 - FDA_SIZE)
  <2>1. CASE j < FDA_SIZE
    BY <1>3, <1>5, <1>9, <1>10, <2>1
  <2>2. CASE ~(j < FDA_SIZE)
    <3>1. PICK i : i = j - Len(s)
      OBVIOUS
    <3>2. i \in 1..(FDA_SIZE - 1 - 2 + 1) /\ 2 + i - 1 = j + 2 - FDA_SIZE
      BY <1>5, <2>2, <3>1
    <3>3. (s \o t)[j] = t[i]
      BY <1>5, <1>9, <1>10, <2>2, <3>1
    <3>. QED  BY <1>7, <2>2, <3>2, <3>3
  <2>. QED  BY <2>1, <2>2
<1>. QED  BY <1>8, <1>9, <1>10, <1>11

\* err_open passes names that do not exist.
LEMMA WrongOpens ==
  /\ Len(err_open) \in Nat
  /\ \A j \in 1..Len(err_open) : \E name : err_open[j] = Call("open", name) /\ ~Exists(name)
<1>1. /\ Len(WrongNames) \in Nat /\ DOMAIN WrongNames = 1..Len(WrongNames)
      /\ \A j \in DOMAIN WrongNames : ~Exists(WrongNames[j])
  BY ProgramsAssumption, Zenon
<1>2. PICK n \in Nat : n = Len(WrongNames)
  BY <1>1
<1>3. err_open = [j \in 1..n |-> Call("open", WrongNames[j])]
  BY <1>1, <1>2 DEF err_open, Each
<1>4. Len([j \in 1..n |-> Call("open", WrongNames[j])]) = n
  OBVIOUS
<1>. QED  BY <1>1, <1>2, <1>3, <1>4

\* err_unopened closes what cannot be closed, and reads and writes what is not open.
LEMMA Unopened ==
  /\ Len(err_unopened) \in Nat
  /\ \A j \in 1..Len(err_unopened) :
        \/ \E fd \in Fds : err_unopened[j] = Call("close", fd)
        \/ \E fd \in Fds \ {0, 1} : err_unopened[j] = Call("read", fd)
        \/ \E fd \in Fds \ {0, 1} : err_unopened[j] = Call("write", fd)
<1>. USE Parameters
<1>1. PICK s : s = Each("close", From(0, FDA_SIZE - 1))
  OBVIOUS
<1>2. PICK t : t = Each("read", From(2, FDA_SIZE - 1))
  OBVIOUS
<1>3. PICK u : u = Each("write", From(2, FDA_SIZE - 1))
  OBVIOUS
<1>4. FDA_SIZE - 1 \in Nat /\ 0 <= (FDA_SIZE - 1) + 1 /\ 2 <= (FDA_SIZE - 1) + 1 /\ 0 \in Nat /\ 2 \in Nat
  OBVIOUS
<1>0. /\ \A x \in Int : Call("close", x) \in Calls
      /\ \A x \in Int : Call("read", x) \in Calls
      /\ \A x \in Int : Call("write", x) \in Calls
  BY DEF Calls
<1>5. /\ s \in Seq(Calls) /\ Len(s) = FDA_SIZE
      /\ \A j \in 1..FDA_SIZE : s[j] = Call("close", j - 1)
  <2>1. /\ s \in Seq(Calls) /\ Len(s) = FDA_SIZE - 1 - 0 + 1
        /\ \A j \in 1..(FDA_SIZE - 1 - 0 + 1) : s[j] = Call("close", 0 + j - 1)
    BY <1>0, <1>1, <1>4, EachFrom, Zenon
  <2>2. FDA_SIZE - 1 - 0 + 1 = FDA_SIZE /\ \A j \in Nat : 0 + j - 1 = j - 1
    OBVIOUS
  <2>. QED  BY <2>1, <2>2
<1>6. /\ t \in Seq(Calls) /\ Len(t) = FDA_SIZE - 1 - 2 + 1
      /\ \A j \in 1..(FDA_SIZE - 1 - 2 + 1) : t[j] = Call("read", 2 + j - 1)
  <2>1. PICK a : a = 2
    OBVIOUS
  <2>2. a \in Nat /\ a <= (FDA_SIZE - 1) + 1 /\ FDA_SIZE - 1 \in Nat
    BY <1>4, <2>1
  <2>3. t = Each("read", From(a, FDA_SIZE - 1))
    BY <1>2, <2>1
  <2>4. /\ t \in Seq(Calls) /\ Len(t) = FDA_SIZE - 1 - a + 1
        /\ \A j \in 1..(FDA_SIZE - 1 - a + 1) : t[j] = Call("read", a + j - 1)
    BY <1>0, <2>2, <2>3, EachFrom, Zenon
  <2>. QED  BY <2>1, <2>4
<1>7. /\ u \in Seq(Calls) /\ Len(u) = FDA_SIZE - 1 - 2 + 1
      /\ \A j \in 1..(FDA_SIZE - 1 - 2 + 1) : u[j] = Call("write", 2 + j - 1)
  <2>1. PICK a : a = 2
    OBVIOUS
  <2>2. a \in Nat /\ a <= (FDA_SIZE - 1) + 1 /\ FDA_SIZE - 1 \in Nat
    BY <1>4, <2>1
  <2>3. u = Each("write", From(a, FDA_SIZE - 1))
    BY <1>3, <2>1
  <2>4. /\ u \in Seq(Calls) /\ Len(u) = FDA_SIZE - 1 - a + 1
        /\ \A j \in 1..(FDA_SIZE - 1 - a + 1) : u[j] = Call("write", a + j - 1)
    BY <1>0, <2>2, <2>3, EachFrom, Zenon
  <2>. QED  BY <2>1, <2>4
<1>8. PICK w : w = s \o t
  OBVIOUS
<1>9. err_unopened = w \o u
  BY <1>1, <1>2, <1>3, <1>8 DEF err_unopened
<1>10. /\ w \in Seq(Calls) /\ Len(w) = Len(s) + Len(t)
       /\ \A i \in 1..(Len(s) + Len(t)) : w[i] = IF i <= Len(s) THEN s[i] ELSE t[i - Len(s)]
  BY <1>5, <1>6, <1>8, ConcatProperties, Zenon
<1>11. /\ Len(w \o u) = Len(w) + Len(u)
       /\ \A i \in 1..(Len(w) + Len(u)) : (w \o u)[i] = IF i <= Len(w) THEN w[i] ELSE u[i - Len(w)]
  BY <1>7, <1>10, ConcatProperties, Zenon
<1>12. Len(s) + Len(t) = 2 * FDA_SIZE - 2 /\ Len(w) + Len(u) = 3 * FDA_SIZE - 4
  BY <1>5, <1>6, <1>7, <1>10, Z3
<1>13. ASSUME NEW j \in 1..(3 * FDA_SIZE - 4)
       PROVE  \/ \E fd \in Fds : (w \o u)[j] = Call("close", fd)
              \/ \E fd \in Fds \ {0, 1} : (w \o u)[j] = Call("read", fd)
              \/ \E fd \in Fds \ {0, 1} : (w \o u)[j] = Call("write", fd)
  <2>1. CASE j <= FDA_SIZE
    <3>1. (w \o u)[j] = s[j]
      BY <1>5, <1>10, <1>11, <1>12, <2>1
    <3>2. PICK fd : fd = j - 1
      OBVIOUS
    <3>3. s[j] = Call("close", fd) /\ fd \in Fds
      BY <1>5, <2>1, <3>2 DEF Fds
    <3>. QED  BY <3>1, <3>3
  <2>2. CASE j > FDA_SIZE /\ j <= 2 * FDA_SIZE - 2
    <3>1. PICK i : i = j - Len(s)
      OBVIOUS
    <3>2. i \in 1..(FDA_SIZE - 1 - 2 + 1) /\ ~(j <= Len(s)) /\ j <= Len(w)
      BY <1>5, <1>10, <1>12, <2>2, <3>1
    <3>6. w[j] = t[i]
      BY <1>10, <1>12, <2>2, <3>1, <3>2
    <3>7. (w \o u)[j] = w[j]
      BY <1>11, <1>12, <3>2
    <3>3. PICK fd : fd = 2 + i - 1
      OBVIOUS
    <3>4. fd \in Fds \ {0, 1}
      BY <3>2, <3>3 DEF Fds
    <3>5. t[i] = Call("read", fd)
      BY <1>6, <3>2, <3>3
    <3>. QED  BY <3>4, <3>5, <3>6, <3>7, Zenon
  <2>3. CASE j > 2 * FDA_SIZE - 2
    <3>1. PICK i : i = j - Len(w)
      OBVIOUS
    <3>2. i \in 1..(FDA_SIZE - 1 - 2 + 1) /\ (w \o u)[j] = u[i]
      BY <1>10, <1>11, <1>12, <2>3, <3>1
    <3>3. PICK fd : fd = 2 + i - 1
      OBVIOUS
    <3>4. fd \in Fds \ {0, 1}
      BY <3>2, <3>3 DEF Fds
    <3>5. u[i] = Call("write", fd)
      BY <1>7, <3>2, <3>3
    <3>. QED  BY <3>2, <3>4, <3>5, Zenon
  <2>4. j <= FDA_SIZE \/ (j > FDA_SIZE /\ j <= 2 * FDA_SIZE - 2) \/ j > 2 * FDA_SIZE - 2
    OBVIOUS
  <2>. QED  BY <2>1, <2>2, <2>3, <2>4, Zenon
<1>14. Len(w \o u) = 3 * FDA_SIZE - 4
  BY <1>11, <1>12
<1>15. 3 * FDA_SIZE - 4 \in Nat
  OBVIOUS
<1>. QED  BY <1>9, <1>13, <1>14, <1>15, Zenon

\* The tests by their numbers.
LEMMA TestNames ==
  /\ Tests[1] = err_neg_fd /\ Tests[2] = err_big_fd /\ Tests[3] = err_open_lots
  /\ Tests[4] = err_open /\ Tests[5] = err_unopened /\ Tests[6] = err_vidmap
  /\ Tests[7] = err_stdin_out /\ Tests[8] = err_syscall_num
BY DEF Tests

\* They have lengths.
LEMMA TestLengths == \A t \in 1..8 : Len(Tests[t]) \in Nat
<1>2. Len(err_neg_fd) = 3 /\ Len(err_big_fd) = 3 /\ Len(err_stdin_out) = 2
  BY DEF err_neg_fd, err_big_fd, err_stdin_out
<1>3. Len(err_open_lots) \in Nat
  BY OpenLots, Parameters
<1>4. Len(err_open) \in Nat
  BY WrongOpens
<1>5. Len(err_unopened) \in Nat
  BY Unopened
<1>6. Len(err_vidmap) = 2 /\ Len(err_syscall_num) = 3
  BY DEF err_vidmap, err_syscall_num, Each
<1>7. ASSUME NEW t \in 1..8 PROVE Len(Tests[t]) \in Nat
  <2>1. t = 1 \/ t = 2 \/ t = 3 \/ t = 4 \/ t = 5 \/ t = 6 \/ t = 7 \/ t = 8
    OBVIOUS
  <2>. QED  BY <1>2, <1>3, <1>4, <1>5, <1>6, <2>1, TestNames
<1>. QED  BY <1>7

\* getargs, or the number typed to syserr.
LEMMA StartWorks ==
  ASSUME WorkInv, program # "any", Start
  PROVE  WorkInv'
<1>1. /\ at = "start" /\ status = 0
      /\ UNCHANGED <<program, args, file, inner, out, select, test, k, cnt>>
      /\ UNCHANGED <<fda, pc, given>>
  BY DEF WorkInv, Start, vars, syserr_vars
<1>2. SameFiles /\ pc'[RUNNER] = "user"
  BY <1>1 DEF SameFiles, WorkInv
<1>3. OnlyOpen({})' /\ out' = <<>>
  BY <1>1, <1>2, SameOpen DEF WorkInv
<1>4. CASE program \in {"cat", "grep"} /\ args = <<>>
  <2>1. at' = "exit" /\ status' = 3
    BY <1>4 DEF Start, Return
  <2>2. ProgramsDoTheirWork'
    <3>1. args' = <<>> /\ program' = program /\ ~Exists(args')
      BY <1>1, <1>4, NoName
    <3>2. <<>> # DOT
      BY DEF DOT
    <3>. QED  BY <1>4, <2>1, <3>1, <3>2, Zenon DEF ProgramsDoTheirWork
  <2>. QED  BY <1>1, <1>2, <2>1, <2>2 DEF WorkInv
<1>5. CASE program = "syserr" /\ select > 8
  <2>1. at' = "exit" /\ status' = 0
    BY <1>5 DEF Start, Return
  <2>2. ProgramsDoTheirWork'
    BY <1>1, <1>5, <2>1 DEF ProgramsDoTheirWork
  <2>. QED  BY <1>1, <1>2, <2>1, <2>2 DEF WorkInv
<1>6. CASE program = "syserr" /\ ~(select > 8)
  <2>1. at' = "test" /\ status' = 0
    BY <1>1, <1>6 DEF Start, GoOn
  <2>2. ProgramsDoTheirWork'
    BY <2>1 DEF ProgramsDoTheirWork
  <2>3. test \in 1..8 /\ k = 1 /\ cnt = 0
    BY <1>1, <1>6 DEF WorkInv
  <2>4. TestInv'
    <3>1. Len(Tests[test]) \in Nat
      BY <2>3, TestLengths
    <3>2. 2..1 = {} /\ 1 < FDA_SIZE
      BY Parameters
    <3>. QED  BY <1>1, <1>3, <2>3, <3>1, <3>2 DEF TestInv
  <2>. QED  BY <1>1, <1>2, <2>1, <2>2, <2>4 DEF WorkInv
<1>7. CASE ~(program \in {"cat", "grep"} /\ args = <<>>) /\ program # "syserr"
  <2>1. at' = "open" /\ status' = 0
    BY <1>1, <1>7 DEF Start, GoOn
  <2>2. ProgramsDoTheirWork'
    BY <2>1 DEF ProgramsDoTheirWork
  <2>. QED  BY <1>1, <1>2, <1>3, <1>7, <2>1, <2>2 DEF WorkInv
<1>. QED  BY <1>4, <1>5, <1>6, <1>7

\* The program goes on reading, ...
LEMMA GoesOn ==
  ASSUME WorkInv, program # "any", UNCHANGED <<program, args>>, ReadInv', status' = 0,
         at' = "read" \/ (pc'[RUNNER] = "user" /\ at' \in {"write", "search", "searching", "searched"})
  PROVE  WorkInv'
<1>1. ProgramsDoTheirWork'
  BY DEF ProgramsDoTheirWork
<1>. QED  BY <1>1 DEF WorkInv

\* ... or it ends with its work done.
LEMMA Ends ==
  ASSUME WorkInv, program # "any", UNCHANGED <<program, args>>, ProgramsDoTheirWork',
         pc'[RUNNER] = "user", at' \in {"exit", "done"}
  PROVE  WorkInv'
BY DEF WorkInv

\* What open does to RUNNER's descriptors.
LEMMA OpensOne ==
  ASSUME FilesInv, NEW fd, NEW d, Opened(RUNNER, fd, d), NEW S, OnlyOpen(S)
  PROVE  /\ fd \in Fds \ {0, 1} /\ fd \notin S /\ d \in 1..Len(direntries)
         /\ \A g \in Fds \ {0, 1} : g \notin S => fd <= g
         /\ Entry(fd, d)' /\ given'[RUNNER][fd] = <<>>
         /\ OnlyOpen(S \cup {fd})'
         /\ \A h \in Fds : h # fd => fda'[RUNNER][h] = fda[RUNNER][h] /\ given'[RUNNER][h] = given[RUNNER][h]
         /\ ret' = fd /\ pc' = pc
<1>1. /\ fd \in Fds \ {0, 1} /\ ~InUse(RUNNER, fd) /\ d \in 1..Len(direntries)
      /\ OneChanged(RUNNER, fd, NewEntry(RUNNER, fd, direntries[d]), <<>>)
  BY OpenedChanges, Parameters
<1>2. /\ fd \notin S
      /\ \A g \in Fds \ {0, 1} : g \notin S => fd <= g
  BY <1>1 DEF OnlyOpen, Opened, FreeFds
<1>3. /\ \A h \in Fds : h # fd => fda'[RUNNER][h] = fda[RUNNER][h] /\ given'[RUNNER][h] = given[RUNNER][h]
      /\ fda'[RUNNER][fd] = NewEntry(RUNNER, fd, direntries[d]) /\ given'[RUNNER][fd] = <<>>
  BY <1>1, Parameters DEF OneChanged
<1>4. Entry(fd, d)'
  BY <1>3 DEF Entry, InUse, NewEntry
<1>5. OnlyOpen(S \cup {fd})'
  <2>1. InUse(RUNNER, fd)'
    BY <1>4 DEF Entry
  <2>. QED  BY <1>1, <1>3, <2>1 DEF OnlyOpen, InUse
<1>6. ret' = fd /\ pc' = pc
  BY DEF Opened, dir_locals
<1>. QED  BY <1>1, <1>2, <1>3, <1>4, <1>5, <1>6

\* The files have lengths.
LEMMA Lengths ==
  /\ \A i \in Inodes : inodes[i].length \in Nat
  /\ Len(direntries) \in Nat
<1>1. NUM_DATA_BLOCKS * BLOCK_SIZE \in Nat /\ Len(direntries) \in Nat
  BY FileSystemAssumption
<1>2. ASSUME NEW i \in Inodes PROVE inodes[i].length \in Nat
  <2>1. inodes[i].length \in 0..(NUM_DATA_BLOCKS * BLOCK_SIZE)
    BY FileSystemAssumption, Zenon
  <2>. QED  BY <1>1, <2>1
<1>. QED  BY <1>1, <1>2

\* The program opens its file, or ends because there is none.
LEMMA OpenWorks ==
  ASSUME FilesInv, WorkInv, program # "any", Open
  PROVE  WorkInv'
<1>1. /\ at = "open" /\ status = 0 /\ pc[RUNNER] = "user" /\ program # "syserr"
      /\ program \in {"cat", "ls", "grep", "fish"}
      /\ args = <<>> => program = "ls"
      /\ program = "fish" => args # DOT
      /\ OnlyOpen({}) /\ out = <<>>
      /\ UNCHANGED <<program, args, out>>
      /\ sys_open(RUNNER, Target) /\ file' = ret'
  BY DEF WorkInv, Open, Target
<1>2. FreeFds(RUNNER) # {}
  BY <1>1, Parameters DEF OnlyOpen, FreeFds, Fds
<1>3. IF Exists(Target) THEN \E fd, d : Opened(RUNNER, fd, d) /\ direntries[d].filename = Target
      ELSE Returned /\ ret' = -1
  BY <1>1, <1>2, OpenEffect, Parameters
<1>4. ASSUME Exists(Target), NEW fd, NEW d, Opened(RUNNER, fd, d), direntries[d].filename = Target
      PROVE  WorkInv'
  <2>1. /\ fd \in Fds \ {0, 1} /\ d \in 1..Len(direntries) /\ Entry(fd, d)'
        /\ given'[RUNNER][fd] = <<>> /\ OnlyOpen({} \cup {fd})' /\ ret' = fd /\ pc' = pc
    BY <1>1, <1>4, OpensOne
  <2>2. fd # -1
    BY <2>1 DEF Fds
  <2>3. at' = "read" /\ status' = 0 /\ file' = fd
    BY <1>1, <2>1, <2>2 DEF Open, GoOn
  <2>4. Target' = Target
    BY <1>1 DEF Target
  <2>5. Collected'
    <3>1. out' = <<>> /\ out' = given'[RUNNER][file'] /\ Len(out') = 0 /\ out' \in Seq(Item)
      BY <1>1, <2>1, <2>3
    <3>2. Increasing(out') /\ Range(out') = {} /\ Searched(0) = {}
      BY <3>1 DEF Increasing, Range, Searched
    <3>3. LengthOf(RUNNER, file)' \in Nat
      <4>1. fda'[RUNNER][fd].inode \in Inodes
        BY <2>1, Directory DEF Entry
      <4>. QED  BY <2>3, <4>1, Lengths DEF LengthOf
    <3>4. program = "grep" => Increasing(out') /\ Range(out') = Searched(Len(given'[RUNNER][file']))
      BY <3>1, <3>2
    <3>. QED  BY <1>1, <3>1, <3>3, <3>4 DEF Collected
  <2>6. ~InSearch' /\ at' # "search"
    BY <2>3 DEF InSearch
  <2>7. OnlyOpen({file})'
    BY <2>1, <2>3 DEF OnlyOpen
  <2>8. ReadInv'
    BY <1>1, <1>4, <2>1, <2>3, <2>4, <2>5, <2>6, <2>7 DEF ReadInv
  <2>. QED  BY <1>1, <2>3, <2>8, GoesOn
<1>5. CASE ~Exists(Target)
  <2>1. ret' = -1 /\ pc' = pc
    BY <1>3, <1>5 DEF Returned, dir_locals
  <2>2. program \in {"cat", "fish"} /\ ~Exists(args) /\ args # DOT /\ args # <<>>
    BY <1>1, <1>5, Directory DEF Target
  <2>3. at' = "exit" /\ status' \in {2, 255}
    BY <2>1 DEF Open, Return
  <2>4. ProgramsDoTheirWork'
    BY <1>1, <2>2, <2>3, Zenon DEF ProgramsDoTheirWork
  <2>. QED  BY <1>1, <2>1, <2>3, <2>4, Ends
<1>. QED  BY <1>3, <1>4, <1>5

\* A sequence that has the file's bytes, and not fewer than the file, begins with the file.
LEMMA HasFile ==
  ASSUME NEW S, NEW s \in Seq(S), NEW n \in Nat, NEW f, f = [j \in 1..n |-> f[j]],
         Len(s) >= n, \A j \in 1..n : s[j] = f[j]
  PROVE  IsPrefix(f, s) /\ (Len(s) = n => s = f)
<1>1. f \in [1..n -> S]
  OBVIOUS
<1>2. f \in Seq(S) /\ Len(f) = n
  BY <1>1
<1>3. SubSeq(f, 1, n) = [j \in 1..n |-> f[j]]
  BY <1>2
<1>4. SubSeq(s, 1, n) = [j \in 1..n |-> s[j]]
  OBVIOUS
<1>5. [j \in 1..n |-> f[j]] = [j \in 1..n |-> s[j]]
  OBVIOUS
<1>6. IsPrefix(f, s)
  BY <1>2, <1>3, <1>4, <1>5 DEF IsPrefix
<1>. QED  BY <1>2, <1>6

\* What a program that reads a file, not the directory, has open.
LEMMA AtFile ==
  ASSUME FilesInv, WorkInv, program # "any", at \in {"read", "write"}, ~Listing(RUNNER, file)
  PROVE  /\ program \in {"cat", "fish"} /\ Exists(args) /\ args # <<>> /\ args # DOT
         /\ InUse(RUNNER, file) /\ fda[RUNNER][file].fops_ptr \in {"file", "rtc"}
         /\ file \in Fds \ {0, 1} /\ out = given[RUNNER][file] /\ out \in Seq(Item)
         /\ fda[RUNNER][file].fops_ptr = "rtc" => FileOf(args) = <<>>
         /\ OpenFile(RUNNER, file) =>
               FileOf(args) = [j \in 1..LengthOf(RUNNER, file) |-> FileByte(fda[RUNNER][file].inode, j - 1)]
<1>1. ReadInv /\ (program = "fish" => args # DOT)
  BY DEF WorkInv
<1>2. PICK d \in 1..Len(direntries) : direntries[d].filename = Target /\ Entry(file, d)
  BY <1>1 DEF ReadInv
<1>3. direntries[d].filetype \in {"file", "rtc"} /\ Target # DOT
  BY <1>2, Directory DEF Entry, Listing
<1>4. program \in {"cat", "fish"} /\ args = direntries[d].filename
  BY <1>1, <1>2, <1>3 DEF Target, ReadInv
<1>5. args # <<>> /\ args # DOT /\ file \in Fds \ {0, 1} /\ out = given[RUNNER][file] /\ out \in Seq(Item)
  BY <1>1, <1>2, <1>3, <1>4 DEF ReadInv, Collected
<1>6. /\ InUse(RUNNER, file) /\ fda[RUNNER][file].fops_ptr = direntries[d].filetype
      /\ fda[RUNNER][file].inode = direntries[d].inode_num
  BY <1>2 DEF Entry
<1>7. /\ Exists(args)
      /\ direntries[d].filetype # "file" => FileOf(args) = <<>>
      /\ direntries[d].filetype = "file" =>
            FileOf(args) = [j \in 1..inodes[direntries[d].inode_num].length |->
                              FileByte(direntries[d].inode_num, j - 1)]
  BY <1>4, FileOfEntry
<1>8. OpenFile(RUNNER, file) =>
        FileOf(args) = [j \in 1..LengthOf(RUNNER, file) |-> FileByte(fda[RUNNER][file].inode, j - 1)]
  BY <1>6, <1>7 DEF OpenFile, LengthOf
<1>. QED  BY <1>3, <1>4, <1>5, <1>6, <1>7, <1>8

\* cat and fish end with status 0 and the whole file.
LEMMA FileDone ==
  ASSUME program \in {"cat", "fish"}, args # <<>>, args # DOT, Exists(args),
         UNCHANGED <<program, args>>, at' = "exit", status' = 0,
         program = "cat" => IsPrefix(FileOf(args), out'),
         program = "fish" /\ FileOf(args) # <<>> => out' = FileOf(args)
  PROVE  ProgramsDoTheirWork'
<1>1. \/ program' = "cat" /\ program' # "fish" /\ program' # "grep" /\ program' # "ls" /\ program' # "syserr"
      \/ program' = "fish" /\ program' # "cat" /\ program' # "grep" /\ program' # "ls" /\ program' # "syserr"
  OBVIOUS
<1>2. args' = args /\ args' # <<>> /\ args' # DOT /\ Exists(args')
  OBVIOUS
<1>3. program' = "cat" => IsPrefix(FileOf(args'), out')
  BY <1>2
<1>4. program' = "fish" /\ FileOf(args') # <<>> => out' = FileOf(args')
  BY <1>2
<1>5. status' = 0
  OBVIOUS
<1>. QED  BY <1>1, <1>2, <1>3, <1>4, <1>5 DEF ProgramsDoTheirWork

\* Nothing and everything are as the lemma needs them.
LEMMA NothingRead ==
  ASSUME NEW S, NEW s \in Seq(S)
  PROVE  IsPrefix(<<>>, s) /\ s \o SubSeq(s, Len(s) + 1, Len(s)) = s
<1>1. SubSeq(s, Len(s) + 1, Len(s)) = <<>>
  BY SubSeqEmpty
<1>2. s \o <<>> = s
  BY ConcatEmptySeq
<1>3. SubSeq(<<>>, 1, 0) = <<>> /\ SubSeq(s, 1, 0) = <<>>
  BY SubSeqEmpty
<1>4. Len(<<>>) = 0 /\ 0 <= Len(s)
  OBVIOUS
<1>. QED  BY <1>1, <1>2, <1>3, <1>4 DEF IsPrefix

\* A sequence is what was there before and what has been added.
LEMMA Added ==
  ASSUME NEW S, NEW s \in Seq(S), NEW t \in Seq(S)
  PROVE  s \o SubSeq(s \o t, Len(s) + 1, Len(s \o t)) = s \o t
<1>1. PICK u : u = s \o t
  OBVIOUS
<1>2. u \in Seq(S) /\ Len(u) = Len(s) + Len(t) /\ \A i \in 1..Len(t) : u[Len(s) + i] = t[i]
  BY <1>1
<1>3. PICK v : v = SubSeq(u, Len(s) + 1, Len(u))
  OBVIOUS
<1>4. v \in Seq(S) /\ Len(v) = Len(t) /\ \A i \in 1..Len(t) : v[i] = u[Len(s) + i]
  BY <1>2, <1>3
<1>5. v = t
  BY <1>2, <1>4
<1>. QED  BY <1>1, <1>3, <1>5

\* A read of a file before its end gives bytes; nothing else ends the program.
LEMMA CatsRead ==
  ASSUME FilesInv, WorkInv, program # "any", at = "read", ~Listing(RUNNER, file),
         OpenFile(RUNNER, file), FileRead(RUNNER, file, ReadSize)
  PROVE  \E bytes \in Seq(Item), e \in files_t :
            /\ given'[RUNNER][file] = given[RUNNER][file] \o bytes
            /\ OneChanged(RUNNER, file, e, given[RUNNER][file] \o bytes)
            /\ e.fops_ptr = "file" /\ e.flags = IN_USE /\ e.inode = fda[RUNNER][file].inode
            /\ ret' = Len(bytes) /\ Len(bytes) \in {0, ReadSize}
            /\ LengthOf(RUNNER, file) # 0 =>
                  Len(bytes) = ReadSize /\ Len(given[RUNNER][file]) < LengthOf(RUNNER, file)
<1>1. ReadSize \in Nat /\ ReadSize <= CAT_SIZE
  BY Parameters DEF ReadSize
<1>2. PICK e \in files_t, bytes \in Seq(Item) :
            /\ file \in Fds /\ fda[RUNNER][file].inode \in Inodes
            /\ bytes = read_data(fda[RUNNER][file].inode, Len(given[RUNNER][file]), ReadSize)
            /\ Len(bytes) \in Nat
            /\ e.fops_ptr = "file" /\ e.flags = IN_USE /\ e.inode = fda[RUNNER][file].inode
            /\ OneChanged(RUNNER, file, e, given[RUNNER][file] \o bytes)
  BY <1>1, FileReadChanges, Parameters, Zenon
<1>3. PICK i \in Inodes : i = fda[RUNNER][file].inode
  BY <1>2
<1>4. PICK x \in Nat : x = Len(given[RUNNER][file])
  BY <1>2, Parameters DEF FilesInv
<1>5. fda[RUNNER][file].file_position = x
  BY <1>2, <1>4, Parameters DEF FilesInv, Positions
<1>6. ret' = Len(bytes) /\ given'[RUNNER][file] = given[RUNNER][file] \o bytes
  <2>1. given'[RUNNER][file] = given[RUNNER][file] \o bytes
    BY <1>2 DEF OneChanged
  <2>2. bytes = read_data(fda[RUNNER][file].inode, fda[RUNNER][file].file_position, ReadSize)
    BY <1>2, <1>4, <1>5
  <2>. QED  BY <2>1, <2>2 DEF FileRead
<1>7. Len(bytes) \in {0, ReadSize}
  <2>1. PICK n \in Nat : n = ReadSize
    BY <1>1
  <2>2. bytes = read_data(i, x, n)
    BY <1>2, <1>3, <1>4, <2>1
  <2>3. Len(read_data(i, x, n)) = 0 \/ Len(read_data(i, x, n)) = n
    BY <1>3, <1>4, <2>1, ReadData, Zenon
  <2>. QED  BY <2>1, <2>2, <2>3
<1>8. ASSUME LengthOf(RUNNER, file) # 0
      PROVE  Len(bytes) = ReadSize /\ Len(given[RUNNER][file]) < LengthOf(RUNNER, file)
  <2>1. PICK len \in Nat : len = inodes[i].length
    BY Lengths
  <2>2. x < len
    <3>1. ~AtEnd(fda[RUNNER][file], len)
      BY <1>3, <2>1 DEF FileRead, LengthOf
    <3>2. len # 0
      BY <1>3, <1>8, <2>1 DEF LengthOf
    <3>. QED  BY <1>5, <3>1, <3>2 DEF AtEnd
  <2>3. PICK m : m = NUM_DATA_BLOCKS * BLOCK_SIZE
    OBVIOUS
  <2>4. m \in Nat
    BY <2>3, FileSystemAssumption
  <2>5. len + CAT_SIZE <= m
    BY <2>1, <2>3, ProgramsAssumption, Zenon
  <2>6. x + ReadSize < m
    BY <1>1, <2>2, <2>4, <2>5, Parameters
  <2>7. x <= inodes[i].length /\ x + ReadSize < NUM_DATA_BLOCKS * BLOCK_SIZE
    BY <2>1, <2>2, <2>3, <2>6, Z3
  <2>8. Len(read_data(i, x, ReadSize)) = ReadSize
    BY <1>1, <2>7, ReadsAll, Zenon
  <2>. QED  BY <1>2, <1>3, <1>4, <2>1, <2>2, <2>8 DEF LengthOf
<1>. QED  BY <1>2, <1>6, <1>7, <1>8

\* cat and fish read on to the end of the file and end there.
LEMMA ReadFileWorks ==
  ASSUME FilesInv, PiecesMakeTheFile, WorkInv, program # "any", ReadFile
  PROVE  WorkInv'
<1>1. /\ at = "read" /\ ~Listing(RUNNER, file) /\ status = 0 /\ ReadInv
      /\ sys_read(RUNNER, file, ReadSize) /\ pc[RUNNER] = "user"
      /\ UNCHANGED <<program, args, file, inner>>
  BY DEF WorkInv, ReadFile, sys_read
<1>2. /\ program \in {"cat", "fish"} /\ Exists(args) /\ args # <<>> /\ args # DOT
      /\ InUse(RUNNER, file) /\ fda[RUNNER][file].fops_ptr \in {"file", "rtc"}
      /\ file \in Fds \ {0, 1} /\ out = given[RUNNER][file] /\ out \in Seq(Item)
      /\ fda[RUNNER][file].fops_ptr = "rtc" => FileOf(args) = <<>>
      /\ OpenFile(RUNNER, file) =>
            FileOf(args) = [j \in 1..LengthOf(RUNNER, file) |-> FileByte(fda[RUNNER][file].inode, j - 1)]
  BY <1>1, AtFile
<1>3. ReadSize \in Nat /\ ReadSize > 0 /\ (program = "fish" => ReadSize = 1)
  BY Parameters DEF ReadSize
<1>4. CASE Returned /\ fda[RUNNER][file].fops_ptr = "rtc" /\ ret' = 0
  <2>1. at' = "exit" /\ status' = 0 /\ pc' = pc
    BY <1>4 DEF ReadFile, AfterRead, Return, Returned, dir_locals
  <2>2. out' = out \o SubSeq(out, Len(out) + 1, Len(out))
    BY <1>2, <1>4 DEF ReadFile, Returned
  <2>3. out' = out /\ IsPrefix(<<>>, out)
    BY <1>2, <2>2, NothingRead, Zenon
  <2>4. ProgramsDoTheirWork'
    BY <1>1, <1>2, <1>4, <2>1, <2>3, FileDone
  <2>. QED  BY <1>1, <2>1, <2>4, Ends
<1>5. CASE Returned /\ OpenFile(RUNNER, file) /\ AtEnd(fda[RUNNER][file], LengthOf(RUNNER, file)) /\ ret' = 0
  <2>1. at' = "exit" /\ status' = 0 /\ pc' = pc
    BY <1>5 DEF ReadFile, AfterRead, Return, Returned, dir_locals
  <2>2. out' = out \o SubSeq(out, Len(out) + 1, Len(out))
    BY <1>2, <1>5 DEF ReadFile, Returned
  <2>3. out' = out
    BY <1>2, <2>2, NothingRead, Zenon
  <2>4. PICK i \in Inodes, n \in Nat : i = fda[RUNNER][file].inode /\ n = LengthOf(RUNNER, file)
    BY <1>2, <1>5, Lengths, Parameters DEF FilesInv, Positions, LengthOf
  <2>5. Len(out) >= n /\ n # 0
    BY <1>2, <1>5, <2>4, Parameters DEF FilesInv, Positions, AtEnd
  <2>6. \A j \in 1..n : out[j] = FileByte(i, j - 1)
    <3>1. \A j \in 1..Len(out) : j <= n => out[j] = FileByte(i, j - 1)
      BY <1>2, <1>5, <2>4, Parameters DEF PiecesMakeTheFile
    <3>. QED  BY <1>2, <2>5, <3>1
  <2>7. PICK f : f = [j \in 1..n |-> FileByte(i, j - 1)]
    OBVIOUS
  <2>8. f = [j \in 1..n |-> f[j]] /\ \A j \in 1..n : out[j] = f[j]
    BY <2>6, <2>7
  <2>9. IsPrefix(f, out) /\ (Len(out) = n => out = f)
    BY <1>2, <2>5, <2>8, HasFile
  <2>10. FileOf(args) = f
    BY <1>2, <1>5, <2>4, <2>7
  <2>11. program = "fish" => Len(out) = n
    <3>1. program = "fish" => Len(out) <= n
      BY <1>1, <1>5, <2>4, <2>5 DEF ReadInv, Collected
    <3>. QED  BY <1>2, <2>5, <3>1
  <2>12. ProgramsDoTheirWork'
    BY <1>1, <1>2, <2>1, <2>3, <2>9, <2>10, <2>11, FileDone
  <2>. QED  BY <1>1, <2>1, <2>12, Ends
<1>6. CASE FileRead(RUNNER, file, ReadSize)
  <2>0. OpenFile(RUNNER, file) /\ pc' = pc
    BY <1>6 DEF FileRead, dir_locals
  <2>1. PICK bytes \in Seq(Item), e \in files_t :
            /\ given'[RUNNER][file] = given[RUNNER][file] \o bytes
            /\ OneChanged(RUNNER, file, e, given[RUNNER][file] \o bytes)
            /\ e.fops_ptr = "file" /\ e.flags = IN_USE /\ e.inode = fda[RUNNER][file].inode
            /\ ret' = Len(bytes) /\ Len(bytes) \in {0, ReadSize}
            /\ LengthOf(RUNNER, file) # 0 =>
                  Len(bytes) = ReadSize /\ Len(given[RUNNER][file]) < LengthOf(RUNNER, file)
    BY <1>1, <1>6, <2>0, CatsRead, Zenon
  <2>2. out' = out \o SubSeq(out \o bytes, Len(out) + 1, Len(out \o bytes))
    BY <1>2, <2>1 DEF ReadFile
  <2>3. out' = out \o bytes
    <3>1. out \in Seq(Item) /\ bytes \in Seq(Item)
      BY <1>2, <2>1
    <3>. QED  BY <2>2, <3>1, Added, Zenon
  <2>4. out' \in Seq(Item) /\ Len(out') = Len(out) + Len(bytes)
    BY <1>2, <2>1, <2>3
  <2>5. PICK n \in Nat : n = LengthOf(RUNNER, file)
    BY <1>2, <2>0, Lengths, Parameters DEF FilesInv, Positions, LengthOf
  <2>6. CASE Len(bytes) = 0
    <3>1. n = 0
      BY <1>3, <2>1, <2>5, <2>6
    <3>2. FileOf(args) = <<>>
      BY <1>2, <2>0, <2>5, <3>1
    <3>3. at' = "exit" /\ status' = 0
      BY <2>1, <2>6 DEF ReadFile, AfterRead, Return
    <3>4. IsPrefix(<<>>, out')
      BY <2>4, NothingRead, Zenon
    <3>5. ProgramsDoTheirWork'
      BY <1>1, <1>2, <3>2, <3>3, <3>4, FileDone
    <3>. QED  BY <1>1, <2>0, <3>3, <3>5, Ends
  <2>7. CASE Len(bytes) = ReadSize
    <3>1. ret' # 0 /\ ret' # -1
      BY <1>3, <2>1, <2>7
    <3>2. at' \in {"read", "write"} /\ status' = 0
      BY <1>1, <3>1 DEF ReadFile, AfterRead, GoOn
    <3>3. fda'[RUNNER][file] = e /\ \A h \in Fds : h # file => fda'[RUNNER][h] = fda[RUNNER][h]
      BY <2>1, Parameters DEF OneChanged
    <3>4. OnlyOpen({file})'
      <4>1. OnlyOpen({file})
        BY <1>1 DEF ReadInv, InSearch
      <4>. QED  BY <1>1, <2>1, <3>3, <4>1 DEF OnlyOpen, InUse
    <3>5. \E d \in 1..Len(direntries) : direntries[d].filename = Target' /\ Entry(file, d)'
      <4>1. PICK d \in 1..Len(direntries) : direntries[d].filename = Target /\ Entry(file, d)
        BY <1>1 DEF ReadInv
      <4>2. Entry(file, d)'
        BY <1>1, <2>0, <2>1, <3>3, <4>1 DEF Entry, InUse, OpenFile
      <4>3. Target' = Target
        BY <1>1 DEF Target
      <4>. QED  BY <4>1, <4>2, <4>3
    <3>6. Collected'
      <4>1. out' = given'[RUNNER][file'] /\ program' # "grep"
        BY <1>1, <1>2, <2>1, <2>3
      <4>2. LengthOf(RUNNER, file)' = n
        BY <1>1, <2>1, <2>5, <3>3 DEF LengthOf
      <4>3. program' = "fish" /\ n # 0 => Len(out') <= n
        BY <1>1, <1>2, <1>3, <2>1, <2>4, <2>5, <2>7
      <4>. QED  BY <2>4, <4>1, <4>2, <4>3 DEF Collected
    <3>7. ~InSearch' /\ at' # "search"
      BY <3>2 DEF InSearch
    <3>8. ReadInv'
      BY <1>1, <1>2, <3>4, <3>5, <3>6, <3>7 DEF ReadInv
    <3>. QED  BY <1>1, <2>0, <3>2, <3>8, GoesOn
  <2>. QED  BY <2>1, <2>6, <2>7
<1>7. ~Looked(RUNNER, file)
  BY <1>1 DEF Looked
<1>. QED  BY <1>1, <1>2, <1>3, <1>4, <1>5, <1>6, <1>7, ReadEffect, Parameters

\* dir_read, up to its return, leaves the descriptors alone.
LEMMA DirReadWorks ==
  ASSUME FilesInv, WorkInv, program # "any", ReadDirectory \/ (DirCopy(RUNNER) /\ UNCHANGED prog_vars)
  PROVE  WorkInv'
<1>1. at = "read"
  BY DEF ReadDirectory, DirCopy, WorkInv
<1>2. UNCHANGED <<program, args, at, file, inner, out, status>>
  BY DEF ReadDirectory, prog_vars
<1>3. fda' = fda /\ given' = given
  <2>1. CASE DirCopy(RUNNER)
    BY <2>1 DEF DirCopy
  <2>2. CASE ReadDirectory
    <3>1. file \in Fds
      BY <1>1 DEF WorkInv, ReadInv
    <3>2. dir_read(RUNNER, file)
      BY <2>2, <3>1 DEF ReadDirectory, sys_read, Listing
    <3>. QED  BY <3>2 DEF dir_read
  <2>. QED  BY <2>1, <2>2
<1>4. SameFiles
  BY <1>3 DEF SameFiles
<1>5. ReadInv'
  BY <1>1, <1>2, <1>4, SameRead DEF WorkInv
<1>. QED  BY <1>1, <1>2, <1>5, GoesOn DEF WorkInv

\* A program in dir_read reads the directory through the descriptor it has opened.
LEMMA AtDirectory ==
  ASSUME FilesInv, WorkInv, program # "any", pc[RUNNER] # "user"
  PROVE  /\ at = "read" /\ status = 0 /\ ReadInv /\ dir_fd[RUNNER] = file /\ Listing(RUNNER, file)
         /\ file \in Fds \ {0, 1}
         /\ program \in {"cat", "ls", "grep"} /\ (program = "cat" => args = DOT)
         /\ (args = <<>> => program = "ls")
<1>1. at = "read" /\ status = 0 /\ ReadInv /\ (program = "fish" => args # DOT)
  BY DEF WorkInv
<1>2. dir_fd[RUNNER] \in Fds /\ Listing(RUNNER, dir_fd[RUNNER])
  BY Parameters DEF FilesInv, TypeOK, Looking
<1>3. dir_fd[RUNNER] # 0 /\ dir_fd[RUNNER] # 1
  BY <1>2, Parameters DEF FilesInv, TypeOK, Listing
<1>4. OnlyOpen({file}) /\ file \in Fds \ {0, 1}
  BY <1>1 DEF ReadInv, InSearch
<1>5. dir_fd[RUNNER] = file
  BY <1>2, <1>3, <1>4 DEF OnlyOpen, Listing
<1>6. PICK d \in 1..Len(direntries) : direntries[d].filename = Target /\ Entry(file, d)
  BY <1>1 DEF ReadInv
<1>7. Target = DOT
  <2>1. fda[RUNNER][file].fops_ptr = "dir"
    BY <1>2, <1>5 DEF Listing
  <2>. QED  BY <1>6, <2>1, Directory DEF Entry
<1>8. program \in {"cat", "ls", "grep"} /\ (program = "cat" => args = DOT)
  BY <1>1, <1>7 DEF Target, ReadInv
<1>9. args = <<>> => program = "ls"
  BY <1>1 DEF ReadInv
<1>. QED  BY <1>1, <1>2, <1>4, <1>5, <1>8, <1>9

\* One more entry.
LEMMA NextSearched ==
  ASSUME NEW n \in Nat
  PROVE  Searched(n + 1) = Searched(n) \cup (IF direntries[n + 1].filename[1] # "." THEN {n + 1} ELSE {})
<1>1. 1..(n + 1) = (1..n) \cup {n + 1}
  OBVIOUS
<1>. QED  BY <1>1, Zenon DEF Searched

\* grep adds the entry to those it has searched.
LEMMA AddsEntry ==
  ASSUME NEW S, NEW s \in Seq(S), NEW n \in Nat, Increasing(s), Range(s) \subseteq 1..n, n + 1 \in S
  PROVE  /\ Append(s, n + 1) \in Seq(S) /\ Append(s, n + 1) # <<>>
         /\ Increasing(Append(s, n + 1))
         /\ Range(Append(s, n + 1)) = Range(s) \cup {n + 1}
<1>1. PICK t : t = Append(s, n + 1)
  OBVIOUS
<1>2. PICK m \in Nat : m = Len(s)
  OBVIOUS
<1>3. /\ t \in Seq(S) /\ Len(t) = m + 1 /\ DOMAIN t = 1..(m + 1) /\ DOMAIN s = 1..m
      /\ t[m + 1] = n + 1 /\ \A j \in 1..m : t[j] = s[j]
  BY <1>1, <1>2
<1>4. \A j \in 1..m : s[j] \in 1..n
  BY <1>3 DEF Range
<1>5. Increasing(t)
  <2>1. ASSUME NEW i \in 1..(m + 1), NEW j \in 1..(m + 1), i < j PROVE t[i] < t[j]
    <3>1. i \in 1..m /\ t[i] = s[i] /\ s[i] \in 1..n
      BY <1>3, <1>4, <2>1
    <3>2. CASE j = m + 1
      BY <1>3, <3>1, <3>2
    <3>3. CASE j # m + 1
      <4>1. j \in 1..m /\ t[j] = s[j]
        BY <1>3, <3>3
      <4>. QED  BY <1>2, <2>1, <3>1, <4>1 DEF Increasing
    <3>. QED  BY <3>2, <3>3
  <2>. QED  BY <1>3, <2>1 DEF Increasing
<1>6. Range(t) = Range(s) \cup {n + 1}
  <2>1. Range(t) \subseteq Range(s) \cup {n + 1}
    <3>1. ASSUME NEW j \in 1..(m + 1) PROVE t[j] \in Range(s) \cup {n + 1}
      <4>1. j \in 1..m \/ j = m + 1
        OBVIOUS
      <4>. QED  BY <1>3, <4>1 DEF Range
    <3>. QED  BY <1>3, <3>1 DEF Range
  <2>2. Range(s) \subseteq Range(t)
    <3>1. ASSUME NEW j \in 1..m PROVE s[j] \in Range(t)
      <4>1. j \in 1..(m + 1)
        OBVIOUS
      <4>. QED  BY <1>3, <4>1 DEF Range
    <3>. QED  BY <1>3, <3>1 DEF Range
  <2>3. n + 1 \in Range(t)
    <3>1. m + 1 \in 1..(m + 1)
      OBVIOUS
    <3>. QED  BY <1>3, <3>1 DEF Range
  <2>. QED  BY <2>1, <2>2, <2>3
<1>7. t # <<>>
  BY <1>3
<1>. QED  BY <1>1, <1>3, <1>5, <1>6, <1>7

\* dir_read returns the next name, and the program has it.
LEMMA DirStoreWorks ==
  ASSUME FilesInv, ListInv, WorkInv, program # "any", DirReadReturns, DirStore(RUNNER)
  PROVE  WorkInv'
<1>0. pc[RUNNER] = "store" /\ RUNNER \in Procs
  BY Parameters DEF DirStore
<1>1. /\ at = "read" /\ status = 0 /\ ReadInv /\ dir_fd[RUNNER] = file /\ Listing(RUNNER, file)
      /\ file \in Fds \ {0, 1} /\ program \in {"cat", "ls", "grep"}
      /\ UNCHANGED <<program, args, file, inner>>
  BY <1>0, AtDirectory DEF DirReadReturns
<1>2. PICK n \in Nat, g \in Seq(Item) :
         n = global_file_index /\ g = given[RUNNER][file] /\ Len(g) = n /\ test_dentry[RUNNER] = n + 1
  <2>1. ListedBy(RUNNER, file)
    BY <1>0, <1>1, ListsAlone
  <2>2. global_file_index \in Nat /\ given[RUNNER][file] \in Seq(Item)
    BY <1>0, <1>1 DEF FilesInv, TypeOK
  <2>3. test_dentry[RUNNER] = global_file_index + 1
    BY <1>0 DEF ListInv, UpToDate
  <2>. QED  BY <2>1, <2>2, <2>3 DEF ListedBy, Upto
<1>3. n + 1 \in 1..Len(direntries) /\ n + 1 \in Item
  <2>1. test_dentry[RUNNER] \in 0..Len(direntries)
    BY <1>0 DEF FilesInv, TypeOK
  <2>. QED  BY <1>2, <2>1, Lengths DEF Item
<1>4. given'[RUNNER][file] = Append(g, n + 1) /\ fda' = fda /\ pc'[RUNNER] = "user"
  <2>1. given[RUNNER] \in [Fds -> Seq(Item)] /\ given \in [Procs -> [Fds -> Seq(Item)]]
    BY <1>0 DEF FilesInv
  <2>2. given' = [given EXCEPT ![RUNNER][file] = Append(@, n + 1)]
    BY <1>1, <1>2 DEF DirStore
  <2>3. given'[RUNNER][file] = Append(g, n + 1)
    BY <1>0, <1>1, <1>2, <2>1, <2>2
  <2>4. pc'[RUNNER] = "user"
    BY <1>0 DEF DirStore, LeaveDirRead, FilesInv, TypeOK
  <2>. QED  BY <2>3, <2>4 DEF DirStore
<1>5. ret' # 0 /\ ret' # -1
  <2>1. ret' = Len(direntries[n + 1].filename)
    BY <1>2 DEF DirStore
  <2>2. Len(direntries[n + 1].filename) \in 1..FILENAME_LEN
    BY <1>3, FileSystemAssumption, Zenon
  <2>. QED  BY <2>1, <2>2
<1>6. /\ Append(g, n + 1) \in Seq(Item) /\ Len(Append(g, n + 1)) = n + 1
  BY <1>2, <1>3
<1>7. /\ at' \in {"read", "write", "search"} /\ status' = 0 /\ (at' = "search" => out' = Append(out, n + 1))
      /\ program # "grep" => out' = Append(out, n + 1)
      /\ program = "grep" => out' = IF direntries[n + 1].filename[1] = "." THEN out ELSE Append(out, n + 1)
  BY <1>0, <1>1, <1>2, <1>5 DEF DirReadReturns, DirReset, AfterRead, GoOn
<1>8. Collected'
  <2>1. CASE program # "grep"
    <3>1. out = g
      BY <1>1, <1>2, <2>1 DEF ReadInv, Collected
    <3>2. out' = given'[RUNNER][file'] /\ out' \in Seq(Item)
      BY <1>1, <1>4, <1>6, <1>7, <2>1, <3>1
    <3>. QED  BY <1>1, <2>1, <3>2 DEF Collected
  <2>2. CASE program = "grep"
    <3>1. out \in Seq(Item) /\ Increasing(out) /\ Range(out) = Searched(n)
      BY <1>1, <1>2, <2>2 DEF ReadInv, Collected
    <3>2. Range(out) \subseteq 1..n
      BY <3>1 DEF Searched
    <3>3. /\ Append(out, n + 1) \in Seq(Item) /\ Increasing(Append(out, n + 1))
          /\ Range(Append(out, n + 1)) = Range(out) \cup {n + 1}
      BY <1>3, <3>1, <3>2, AddsEntry
    <3>4. Searched(n + 1) = Searched(n) \cup (IF direntries[n + 1].filename[1] # "." THEN {n + 1} ELSE {})
      BY NextSearched
    <3>5. out' \in Seq(Item) /\ Increasing(out') /\ Range(out') = Searched(n + 1)
      <4>1. CASE direntries[n + 1].filename[1] = "."
        <5>1. Searched(n + 1) = Searched(n)
          BY <3>4, <4>1
        <5>2. out' = out
          BY <1>7, <2>2, <4>1
        <5>. QED  BY <3>1, <5>1, <5>2
      <4>2. CASE direntries[n + 1].filename[1] # "."
        <5>1. Searched(n + 1) = Searched(n) \cup {n + 1}
          BY <3>4, <4>2
        <5>2. out' = Append(out, n + 1)
          BY <1>7, <2>2, <4>2
        <5>. QED  BY <3>1, <3>3, <5>1, <5>2
      <4>. QED  BY <4>1, <4>2
    <3>6. Len(given'[RUNNER][file']) = n + 1
      BY <1>1, <1>4, <1>6
    <3>. QED  BY <1>1, <2>2, <3>5, <3>6 DEF Collected
  <2>. QED  BY <2>1, <2>2
<1>9. at' = "search" => out' # <<>>
  <2>1. PICK s \in Seq(Item) : s = out
    BY <1>1 DEF ReadInv, Collected
  <2>2. Append(s, n + 1) # <<>>
    BY <2>1
  <2>. QED  BY <1>7, <2>1, <2>2
<1>10. \E d \in 1..Len(direntries) : direntries[d].filename = Target' /\ Entry(file, d)'
  <2>1. Target' = Target
    BY <1>1 DEF Target
  <2>2. PICK d \in 1..Len(direntries) : direntries[d].filename = Target /\ Entry(file, d)
    BY <1>1 DEF ReadInv
  <2>3. Entry(file, d)'
    BY <1>1, <1>4, <2>2 DEF Entry, InUse
  <2>. QED  BY <2>1, <2>2, <2>3
<1>11. ~InSearch /\ ~InSearch'
  BY <1>1, <1>7 DEF InSearch
<1>12. OnlyOpen({file})'
  BY <1>1, <1>4, <1>11 DEF ReadInv, OnlyOpen, InUse
<1>13. ReadInv'
  BY <1>1, <1>8, <1>9, <1>10, <1>11, <1>12 DEF ReadInv
<1>. QED  BY <1>1, <1>4, <1>7, <1>13, GoesOn

\* At the end of the directory the program has everything.
LEMMA DirResetWorks ==
  ASSUME FilesInv, ListInv, WorkInv, program # "any", DirReadReturns, DirReset(RUNNER)
  PROVE  WorkInv'
<1>0. pc[RUNNER] = "reset" /\ RUNNER \in Procs
  BY Parameters DEF DirReset
<1>1. /\ at = "read" /\ status = 0 /\ ReadInv /\ dir_fd[RUNNER] = file
      /\ program \in {"cat", "ls", "grep"} /\ (program = "cat" => args = DOT)
      /\ (args = <<>> => program = "ls")
      /\ UNCHANGED <<program, args, file, inner>>
  BY <1>0, AtDirectory DEF DirReadReturns
<1>2. given[RUNNER][file] = All
  BY <1>0, <1>1, AllListed
<1>3. out' = out /\ at' = "exit" /\ status' = 0 /\ pc'[RUNNER] = "user"
  BY <1>0, <1>1 DEF DirReadReturns, DirStore, DirReset, AfterRead, Return, LeaveDirRead, FilesInv, TypeOK
<1>4. program # "grep" => out = All
  BY <1>1, <1>2 DEF ReadInv, Collected
<1>5. Len(All) = Len(direntries) /\ Range(All) = 1..Len(direntries)
  BY Lengths DEF All, Range
<1>6. program = "grep" => /\ Range(out) = {d \in Range(All) : direntries[d].filename[1] # "."}
                          /\ \A i, j \in 1..Len(out) : i < j => out[i] < out[j]
  BY <1>1, <1>2, <1>5 DEF ReadInv, Collected, Increasing, Searched
<1>7. ProgramsDoTheirWork'
  BY <1>1, <1>3, <1>4, <1>6, Directory, Zenon DEF ProgramsDoTheirWork
<1>. QED  BY <1>1, <1>3, <1>7, Ends

\* The terminal takes everything.
LEMMA WriteWorks ==
  ASSUME FilesInv, WorkInv, program # "any", Write
  PROVE  WorkInv'
<1>1. /\ at = "write" /\ status = 0 /\ ReadInv /\ sys_write(RUNNER, 1)
      /\ UNCHANGED <<program, args, file, inner, out>>
  BY DEF Write, WorkInv
<1>2. 1 \in Fds /\ InUse(RUNNER, 1) /\ fda[RUNNER][1].fops_ptr = "std_out"
  BY Parameters DEF Fds, FilesInv, TypeOK, InUse
<1>3. Returned /\ ret' = 0
  BY <1>1, <1>2, WriteEffect, Parameters
<1>4. at' = "read" /\ status' = 0
  BY <1>1, <1>3 DEF Write, GoOn
<1>5. SameFiles /\ ~InSearch
  BY <1>1, <1>3 DEF Returned, SameFiles, InSearch
<1>6. ReadInv'
  BY <1>1, <1>4, <1>5, SameRead
<1>. QED  BY <1>1, <1>4, <1>6, GoesOn

\* grep keeps its directory while it opens, reads and closes a file.
LEMMA SearchKeeps ==
  ASSUME ReadInv, UNCHANGED <<program, args, file, out>>,
         fda'[RUNNER][file] = fda[RUNNER][file], given'[RUNNER][file] = given[RUNNER][file],
         \/ at' = "read" /\ OnlyOpen({file})'
         \/ /\ at' \in {"searching", "searched"} /\ OnlyOpen({file, inner})'
            /\ inner' \in Fds \ {0, 1, file} /\ fda'[RUNNER][inner'].fops_ptr \in {"file", "rtc"}
  PROVE  ReadInv'
<1>1. Target' = Target
  BY DEF Target
<1>2. PICK d \in 1..Len(direntries) : direntries[d].filename = Target /\ Entry(file, d)
  BY DEF ReadInv
<1>3. Entry(file, d)'
  BY <1>2 DEF Entry, InUse
<1>4. Collected'
  BY DEF ReadInv, Collected, OpenFile, LengthOf, InUse
<1>5. OnlyOpen(IF InSearch THEN {file, inner} ELSE {file})'
  BY DEF InSearch
<1>6. InSearch' => inner' \in Fds \ {0, 1, file'} /\ fda'[RUNNER][inner'].fops_ptr \in {"file", "rtc"}
  BY DEF InSearch
<1>7. at' # "search"
  OBVIOUS
<1>8. \E x \in 1..Len(direntries) : direntries[x].filename = Target' /\ Entry(file, x)'
  BY <1>1, <1>2, <1>3
<1>. QED  BY <1>4, <1>5, <1>6, <1>7, <1>8 DEF ReadInv

\* grep finds a descriptor for the file whose name it has just read.
LEMMA SearchOpenWorks ==
  ASSUME FilesInv, ListInv, Labels, WorkInv, program # "any", SearchOpen
  PROVE  WorkInv'
<1>1. /\ at = "search" /\ program = "grep" /\ status = 0 /\ ReadInv /\ pc[RUNNER] = "user"
      /\ sys_open(RUNNER, direntries[Last(out)].filename) /\ inner' = ret'
      /\ UNCHANGED <<program, args, file, out>>
  BY DEF SearchOpen, WorkInv, Labels
<1>2. PICK g \in Seq(Item), n \in Nat : g = given[RUNNER][file] /\ n = Len(g)
  BY <1>1, Parameters DEF FilesInv, ReadInv
<1>3. out \in Seq(Item) /\ out # <<>> /\ Range(out) = Searched(n) /\ file \in Fds \ {0, 1}
  BY <1>1, <1>2 DEF ReadInv, Collected
<1>4. PICK x : x = Last(out)
  OBVIOUS
<1>5. x \in Searched(n)
  <2>1. Len(out) \in 1..Len(out) /\ DOMAIN out = 1..Len(out)
    BY <1>3
  <2>. QED  BY <1>3, <1>4, <2>1 DEF Last, Range
<1>6. x \in 1..n /\ direntries[x].filename[1] # "."
  BY <1>5 DEF Searched
<1>7. Listing(RUNNER, file)
  <2>1. PICK d \in 1..Len(direntries) : direntries[d].filename = Target /\ Entry(file, d)
    BY <1>1 DEF ReadInv
  <2>2. direntries[d].filetype = "dir"
    BY <1>1, <2>1, Directory DEF Target
  <2>. QED  BY <2>1, <2>2 DEF Entry, Listing
<1>8. n <= Len(direntries)
  <2>1. g # <<>>
    BY <1>2, <1>6
  <2>2. Lister(RUNNER, file)
    BY <1>2, <1>7, <2>1 DEF Lister
  <2>3. ~NobodyLists
    BY <1>3, <2>2, Parameters DEF NobodyLists
  <2>4. ListedBy(RUNNER, file)
    BY <1>3, <2>2, <2>3, Parameters DEF ListInv, ListedBy
  <2>. QED  BY <1>2, <2>4 DEF ListedBy, Upto, ListInv
<1>9. x \in 1..Len(direntries) /\ direntries[x].filename # DOT
  <2>1. x \in 1..Len(direntries)
    BY <1>6, <1>8, Lengths
  <2>2. DOT[1] = "."
    BY DEF DOT
  <2>. QED  BY <1>6, <2>1, <2>2
<1>10. Exists(direntries[x].filename)
  BY <1>9 DEF Exists
<1>11. OnlyOpen({file})
  BY <1>1 DEF ReadInv, InSearch
<1>12. FreeFds(RUNNER) # {}
  <2>0. 2 \in Fds \ {0, 1} /\ 3 \in Fds \ {0, 1} /\ 2 # 3
    BY Parameters DEF Fds
  <2>1. \E fd \in Fds \ {0, 1} : fd # file
    BY <2>0
  <2>. QED  BY <1>11, <2>1 DEF OnlyOpen, FreeFds
<1>13. PICK fd, d : Opened(RUNNER, fd, d) /\ direntries[d].filename = direntries[x].filename
  BY <1>1, <1>4, <1>10, <1>12, OpenEffect, Parameters
<1>0. PICK S : S = {file}
  OBVIOUS
<1>14. /\ fd \in Fds \ {0, 1} /\ fd # file /\ d \in 1..Len(direntries) /\ Entry(fd, d)'
       /\ OnlyOpen(S \cup {fd})' /\ ret' = fd /\ pc' = pc
       /\ fda'[RUNNER][file] = fda[RUNNER][file] /\ given'[RUNNER][file] = given[RUNNER][file]
  <2>1. OnlyOpen(S)
    BY <1>0, <1>11
  <2>2. /\ fd \in Fds \ {0, 1} /\ fd \notin S /\ d \in 1..Len(direntries) /\ Entry(fd, d)'
        /\ OnlyOpen(S \cup {fd})' /\ ret' = fd /\ pc' = pc
        /\ \A h \in Fds : h # fd => fda'[RUNNER][h] = fda[RUNNER][h] /\ given'[RUNNER][h] = given[RUNNER][h]
    BY <1>13, <2>1, OpensOne, Zenon
  <2>. QED  BY <1>0, <1>3, <2>2
<1>15. fda'[RUNNER][fd].fops_ptr \in {"file", "rtc"}
  BY <1>9, <1>13, <1>14, Directory DEF Entry
<1>16. at' = "searching" /\ status' = 0 /\ inner' = fd
  <2>1. fd # -1
    BY <1>14 DEF Fds
  <2>. QED  BY <1>1, <1>14, <2>1 DEF SearchOpen, GoOn
<1>17. OnlyOpen({file, inner})'
  <2>1. S \cup {fd} = {file', inner'}
    BY <1>0, <1>1, <1>16
  <2>. QED  BY <1>14, <2>1 DEF OnlyOpen
<1>18. ReadInv'
  BY <1>1, <1>14, <1>15, <1>16, <1>17, SearchKeeps
<1>. QED  BY <1>1, <1>14, <1>16, <1>18, GoesOn

\* ... reads it to its end, whatever the pieces, ...
LEMMA SearchReadWorks ==
  ASSUME FilesInv, WorkInv, program # "any", SearchRead
  PROVE  WorkInv'
<1>1. /\ at = "searching" /\ status = 0 /\ ReadInv /\ InSearch /\ pc[RUNNER] = "user"
      /\ UNCHANGED <<program, args, file, inner, out>>
  BY DEF SearchRead, WorkInv, InSearch
<1>2. PICK n \in GrepSizes : sys_read(RUNNER, inner, n)
  BY DEF SearchRead
<1>3. /\ inner \in Fds \ {0, 1, file} /\ file \in Fds \ {0, 1} /\ OnlyOpen({file, inner})
      /\ fda[RUNNER][inner].fops_ptr \in {"file", "rtc"}
  BY <1>1 DEF ReadInv
<1>4. InUse(RUNNER, inner)
  BY <1>3 DEF OnlyOpen
<1>5. n \in Nat
  BY Parameters
<1>6. (Returned /\ ret' = 0) \/ FileRead(RUNNER, inner, n)
  <2>1. ~Looked(RUNNER, inner)
    BY <1>3 DEF Looked, Listing
  <2>. QED  BY <1>2, <1>3, <1>4, <1>5, <2>1, ReadEffect, Parameters
<1>7. /\ \A h \in Fds : h # inner => fda'[RUNNER][h] = fda[RUNNER][h] /\ given'[RUNNER][h] = given[RUNNER][h]
      /\ InUse(RUNNER, inner)' /\ fda'[RUNNER][inner].fops_ptr = fda[RUNNER][inner].fops_ptr
      /\ ret' # -1 /\ pc' = pc
  <2>1. CASE Returned /\ ret' = 0
    BY <1>1, <1>4, <2>1 DEF Returned, dir_locals, InUse
  <2>2. CASE FileRead(RUNNER, inner, n)
    <3>1. PICK e, got : /\ e.fops_ptr = "file" /\ e.flags = IN_USE /\ OneChanged(RUNNER, inner, e, got)
      BY <1>5, <2>2, FileReadChanges, Parameters
    <3>2. fda[RUNNER][inner].fops_ptr = "file" /\ pc' = pc
      BY <2>2 DEF FileRead, OpenFile, dir_locals
    <3>3. ret' # -1
      <4>1. PICK i \in Inodes, x \in Nat : i = fda[RUNNER][inner].inode /\ x = fda[RUNNER][inner].file_position
        BY <1>3, <2>2, Parameters DEF FileRead, FilesInv, Positions, TypeOK, files_t
      <4>2. ret' = Len(read_data(i, x, n))
        BY <2>2, <4>1 DEF FileRead
      <4>3. Len(read_data(i, x, n)) \in {0, n}
        BY <1>5, ReadData
      <4>. QED  BY <1>5, <4>2, <4>3
    <3>. QED  BY <1>1, <3>1, <3>2, <3>3, Parameters DEF OneChanged, InUse
  <2>. QED  BY <1>6, <2>1, <2>2
<1>8. at' \in {"searching", "searched"} /\ status' = 0
  BY <1>1, <1>7 DEF SearchRead, GoOn
<1>9. OnlyOpen({file, inner})'
  BY <1>1, <1>3, <1>4, <1>7 DEF OnlyOpen, InUse
<1>10. fda'[RUNNER][file] = fda[RUNNER][file] /\ given'[RUNNER][file] = given[RUNNER][file]
  BY <1>3, <1>7
<1>11. ReadInv'
  BY <1>1, <1>3, <1>7, <1>8, <1>9, <1>10, SearchKeeps
<1>. QED  BY <1>1, <1>7, <1>8, <1>11, GoesOn

\* ... and gives the descriptor back.
LEMMA SearchCloseWorks ==
  ASSUME FilesInv, WorkInv, program # "any", SearchClose
  PROVE  WorkInv'
<1>1. /\ at = "searched" /\ status = 0 /\ ReadInv /\ InSearch /\ pc[RUNNER] = "user"
      /\ UNCHANGED <<program, args, file, inner, out>> /\ sys_close(RUNNER, inner)
  BY DEF SearchClose, WorkInv, InSearch
<1>2. inner \in Fds \ {0, 1, file} /\ file \in Fds \ {0, 1} /\ OnlyOpen({file, inner})
  BY <1>1 DEF ReadInv
<1>3. Closed(RUNNER, inner)
  BY <1>1, <1>2, CloseEffect, Parameters DEF OnlyOpen
<1>4. PICK e : e.flags = NOT_IN_USE /\ OneChanged(RUNNER, inner, e, <<>>)
  BY <1>3, ClosedChanges, Parameters
<1>5. ret' = 0 /\ pc' = pc
  BY <1>3 DEF Closed, dir_locals
<1>6. at' = "read" /\ status' = 0
  BY <1>1, <1>5 DEF SearchClose, GoOn
<1>7. /\ \A h \in Fds : h # inner => fda'[RUNNER][h] = fda[RUNNER][h] /\ given'[RUNNER][h] = given[RUNNER][h]
      /\ fda'[RUNNER][inner] = e
  BY <1>4, Parameters DEF OneChanged
<1>8. OnlyOpen({file})'
  BY <1>1, <1>2, <1>4, <1>7 DEF OnlyOpen, InUse, NOT_IN_USE, IN_USE
<1>9. ReadInv'
  BY <1>1, <1>2, <1>6, <1>7, <1>8, SearchKeeps
<1>. QED  BY <1>1, <1>5, <1>6, <1>9, GoesOn

\* The program ends, with its result as it was.
LEMMA ExitWorks ==
  ASSUME FilesInv, WorkInv, program # "any", Exit
  PROVE  WorkInv'
<1>1. at = "exit" /\ at' = "done" /\ UNCHANGED <<program, args, out, status>> /\ Halt(RUNNER)
  BY DEF Exit
<1>2. pc'[RUNNER] = "user"
  BY <1>1, Parameters DEF Halt, LeaveDirRead, FilesInv, TypeOK
<1>3. ProgramsDoTheirWork'
  BY <1>1, SameWork DEF WorkInv
<1>. QED  BY <1>1, <1>2, <1>3, Ends

\* syserr goes on with its tests.
LEMMA TestsGoOn ==
  ASSUME WorkInv, program = "syserr", UNCHANGED <<program, args, status>>, at = "test", at' = "test",
         pc'[RUNNER] = "user", TestInv'
  PROVE  WorkInv'
<1>1. ProgramsDoTheirWork'
  BY DEF ProgramsDoTheirWork
<1>. QED  BY <1>1 DEF WorkInv

\* At the end of a test as many calls have failed as it expects.
LEMMA VerdictWorks ==
  ASSUME FilesInv, Labels, WorkInv, program # "any", Verdict
  PROVE  WorkInv'
<1>1. /\ at = "test" /\ program = "syserr" /\ status = 0 /\ pc[RUNNER] = "user" /\ TestInv
      /\ k > Len(Tests[test]) /\ k' = 1 /\ cnt' = 0 /\ UNCHANGED <<program, args, fda, given, pc>>
  BY DEF Verdict, WorkInv, Labels, vars
<1>2. test \in 1..8 /\ k \in 1..(Len(Tests[test]) + 1) /\ Len(Tests[test]) \in Nat
  BY <1>1, TestLengths DEF TestInv
<1>3. k = Len(Tests[test]) + 1
  BY <1>1, <1>2
<1>4. cnt = Expected(test) /\ OnlyOpen({})
  <2>1. CASE test # 3
    BY <1>1, <1>2, <1>3, <2>1 DEF TestInv, Expected
  <2>2. CASE test = 3
    <3>1. k = 2 * FDA_SIZE - 2
      BY <1>3, <2>2, OpenLots, TestNames, Parameters
    <3>2. ~(k < FDA_SIZE) /\ (k + 2 - FDA_SIZE)..(FDA_SIZE - 1) = {}
      BY <3>1, Parameters
    <3>3. cnt = 1 /\ OnlyOpen((k + 2 - FDA_SIZE)..(FDA_SIZE - 1))
      BY <1>1, <2>2, <3>2 DEF TestInv
    <3>. QED  BY <2>2, <3>2, <3>3 DEF Expected
  <2>. QED  BY <2>1, <2>2
<1>5. status' = 0
  BY <1>1, <1>4 DEF Verdict
<1>6. CASE select = 0 /\ test < 8
  <2>1. test' = test + 1 /\ at' = at
    BY <1>6 DEF Verdict
  <2>2. test' \in 1..8
    BY <1>2, <1>6, <2>1
  <2>3. Len(Tests[test']) \in Nat
    BY <2>2, TestLengths
  <2>4. OnlyOpen({})'
    BY <1>1, <1>4 DEF OnlyOpen, InUse
  <2>5. 2..1 = {} /\ 1 < FDA_SIZE
    BY Parameters
  <2>6. TestInv'
    BY <1>1, <2>2, <2>3, <2>4, <2>5 DEF TestInv
  <2>. QED  BY <1>1, <1>5, <2>1, <2>6, TestsGoOn
<1>7. CASE ~(select = 0 /\ test < 8)
  <2>1. at' = "exit"
    BY <1>7 DEF Verdict
  <2>2. ProgramsDoTheirWork'
    BY <1>1, <1>5 DEF ProgramsDoTheirWork
  <2>. QED  BY <1>1, <2>1, <2>2, Ends
<1>. QED  BY <1>6, <1>7

\* Calls that fail when nothing is open but the terminal.
Wrong(c) ==
    \/ \E fd \in Int \ {0} : c = Call("read", fd)
    \/ \E fd \in Int \ {1} : c = Call("write", fd)
    \/ \E fd \in Int : c = Call("close", fd)
    \/ \E name : c = Call("open", name) /\ ~Exists(name)
    \/ \E pointer : c = Call("vidmap", pointer) /\ pointer # "user"
    \/ \E number : c = Call("number", number)

LEMMA WrongFails ==
  ASSUME FilesInv, OnlyOpen({}), NEW c, Wrong(c), Make(c)
  PROVE  Returned /\ ret' = -1
<1>0. RUNNER \in Procs /\ CAT_SIZE \in Nat
  BY Parameters
<1>1. ASSUME NEW fd \in Int \ {0}, c = Call("read", fd) PROVE Returned /\ ret' = -1
  <2>1. sys_read(RUNNER, fd, CAT_SIZE)
    BY <1>1 DEF Make, Call
  <2>2. fd \notin Fds \/ ~InUse(RUNNER, fd) \/ fda[RUNNER][fd].fops_ptr = "std_out"
    BY <1>0 DEF OnlyOpen, FilesInv, TypeOK
  <2>3. ~FileRead(RUNNER, fd, CAT_SIZE) /\ ~Looked(RUNNER, fd)
    BY <2>2 DEF FileRead, OpenFile, Looked, Listing
  <2>. QED  BY <1>0, <2>1, <2>2, <2>3, ReadEffect DEF OpenFile
<1>2. ASSUME NEW fd \in Int \ {1}, c = Call("write", fd) PROVE Returned /\ ret' = -1
  <2>1. sys_write(RUNNER, fd)
    BY <1>2 DEF Make, Call
  <2>2. fd \notin Fds \/ ~InUse(RUNNER, fd) \/ fda[RUNNER][fd].fops_ptr = "std_in"
    BY <1>0 DEF OnlyOpen, FilesInv, TypeOK
  <2>. QED  BY <1>0, <2>1, <2>2, WriteEffect
<1>3. ASSUME NEW fd \in Int, c = Call("close", fd) PROVE Returned /\ ret' = -1
  <2>1. sys_close(RUNNER, fd)
    BY <1>3 DEF Make, Call
  <2>. QED  BY <1>0, <2>1, CloseEffect DEF OnlyOpen
<1>4. ASSUME NEW name, c = Call("open", name), ~Exists(name) PROVE Returned /\ ret' = -1
  <2>1. sys_open(RUNNER, name)
    BY <1>4 DEF Make, Call
  <2>. QED  BY <1>0, <1>4, <2>1, OpenEffect
<1>5. ASSUME NEW pointer, c = Call("vidmap", pointer), pointer # "user" PROVE Returned /\ ret' = -1
  <2>1. sys_vidmap(pointer)
    BY <1>5 DEF Make, Call
  <2>. QED  BY <1>5, <2>1 DEF sys_vidmap, JustReturns, Returned
<1>6. ASSUME NEW number, c = Call("number", number) PROVE Returned /\ ret' = -1
  <2>1. SYSTEM_CALL_WRAPPER(number)
    BY <1>6 DEF Make, Call
  <2>. QED  BY <2>1 DEF SYSTEM_CALL_WRAPPER, JustReturns, Returned
<1>. QED  BY <1>1, <1>2, <1>3, <1>4, <1>5, <1>6, Zenon DEF Wrong

\* All calls of the tests are such, except those of err_open_lots.
LEMMA TestsAreWrong ==
  ASSUME NEW t \in 1..8, t # 3, NEW j \in 1..Len(Tests[t])
  PROVE  Wrong(Tests[t][j])
<1>0. t = 1 \/ t = 2 \/ t = 4 \/ t = 5 \/ t = 6 \/ t = 7 \/ t = 8
  OBVIOUS
<1>. USE TestNames
<1>1. CASE t = 1
  <2>1. /\ Len(err_neg_fd) = 3 /\ err_neg_fd[1] = Call("read", -1)
        /\ err_neg_fd[2] = Call("write", -1) /\ err_neg_fd[3] = Call("close", -1)
    BY DEF err_neg_fd
  <2>6. Len(Tests[t]) = 3
    BY <1>1, <2>1
  <2>3. j \in 1..3
    BY <2>6
  <2>2. -1 \in Int \ {0} /\ -1 \in Int \ {1} /\ -1 \in Int
    OBVIOUS
  <2>4. j = 1 \/ j = 2 \/ j = 3
    BY <2>3
  <2>5. Tests[t][j] \in {Call("read", -1), Call("write", -1), Call("close", -1)}
    BY <1>1, <2>1, <2>4
  <2>. QED  BY <2>2, <2>5 DEF Wrong
<1>2. CASE t = 2
  <2>1. /\ Len(err_big_fd) = 3 /\ err_big_fd[1] = Call("read", FDA_SIZE)
        /\ err_big_fd[2] = Call("write", FDA_SIZE) /\ err_big_fd[3] = Call("close", FDA_SIZE)
    BY DEF err_big_fd
  <2>6. Len(Tests[t]) = 3
    BY <1>2, <2>1
  <2>3. j \in 1..3
    BY <2>6
  <2>2. FDA_SIZE \in Int \ {0} /\ FDA_SIZE \in Int \ {1} /\ FDA_SIZE \in Int
    BY Parameters
  <2>4. j = 1 \/ j = 2 \/ j = 3
    BY <2>3
  <2>5. Tests[t][j] \in {Call("read", FDA_SIZE), Call("write", FDA_SIZE), Call("close", FDA_SIZE)}
    BY <1>2, <2>1, <2>4
  <2>. QED  BY <2>2, <2>5 DEF Wrong
<1>3. CASE t = 4
  <2>1. \E name : err_open[j] = Call("open", name) /\ ~Exists(name)
    BY <1>3, WrongOpens
  <2>. QED  BY <1>3, <2>1 DEF Wrong
<1>4. CASE t = 5
  <2>1. \/ \E fd \in Fds : err_unopened[j] = Call("close", fd)
        \/ \E fd \in Fds \ {0, 1} : err_unopened[j] = Call("read", fd)
        \/ \E fd \in Fds \ {0, 1} : err_unopened[j] = Call("write", fd)
    BY <1>4, Unopened
  <2>2. Fds \subseteq Int /\ Fds \ {0, 1} \subseteq Int \ {0} /\ Fds \ {0, 1} \subseteq Int \ {1}
    BY Parameters DEF Fds
  <2>. QED  BY <1>4, <2>1, <2>2 DEF Wrong
<1>5. CASE t = 6
  <2>1. err_vidmap[j] = Call("vidmap", "null") \/ err_vidmap[j] = Call("vidmap", "kernel")
    <3>1. /\ Len(err_vidmap) = 2 /\ err_vidmap[1] = Call("vidmap", "null")
          /\ err_vidmap[2] = Call("vidmap", "kernel")
      BY DEF err_vidmap, Each
    <3>2. j \in 1..2
      BY <1>5, <3>1
    <3>3. j = 1 \/ j = 2
      BY <3>2
    <3>. QED  BY <3>1, <3>3
  <2>. QED  BY <1>5, <2>1 DEF Wrong
<1>6. CASE t = 7
  <2>1. err_stdin_out[j] = Call("write", 0) \/ err_stdin_out[j] = Call("read", 1)
    <3>1. /\ Len(err_stdin_out) = 2 /\ err_stdin_out[1] = Call("write", 0)
          /\ err_stdin_out[2] = Call("read", 1)
      BY DEF err_stdin_out
    <3>2. j \in 1..2
      BY <1>6, <3>1
    <3>3. j = 1 \/ j = 2
      BY <3>2
    <3>. QED  BY <3>1, <3>3
  <2>2. 0 \in Int \ {1} /\ 1 \in Int \ {0}
    OBVIOUS
  <2>. QED  BY <1>6, <2>1, <2>2 DEF Wrong
<1>7. CASE t = 8
  <2>1. \E number : err_syscall_num[j] = Call("number", number)
    <3>1. /\ Len(err_syscall_num) = 3 /\ err_syscall_num[1] = Call("number", 9)
          /\ err_syscall_num[2] = Call("number", -1) /\ err_syscall_num[3] = Call("number", 0)
      BY DEF err_syscall_num, Each
    <3>2. j \in 1..3
      BY <1>7, <3>1
    <3>3. j = 1 \/ j = 2 \/ j = 3
      BY <3>2
    <3>. QED  BY <3>1, <3>3
  <2>. QED  BY <1>7, <2>1 DEF Wrong
<1>. QED  BY <1>0, <1>1, <1>2, <1>3, <1>4, <1>5, <1>6, <1>7

\* A call of err_open_lots: opens one more, fails once, or closes the next one.
LEMMA OpenLotsWorks ==
  ASSUME FilesInv, TestInv, test = 3, k <= Len(Tests[test]), Make(Tests[test][k]), k' = k + 1, test' = test,
         cnt' = IF ret' = -1 /\ Counts(Tests[test][k]) THEN cnt + 1 ELSE cnt
  PROVE  TestInv' /\ pc' = pc
<1>0. RUNNER \in Procs /\ FDA_SIZE \in Nat /\ FDA_SIZE > 3
  BY Parameters
<1>1. Tests[3] = err_open_lots /\ Len(err_open_lots) = 2 * FDA_SIZE - 3
  BY TestNames, OpenLots
<1>2. k \in 1..(2 * FDA_SIZE - 3) /\ k' \in 1..(Len(Tests[3]) + 1)
  BY <1>0, <1>1 DEF TestInv
<1>3. CASE k < FDA_SIZE
  <2>1. Tests[test][k] = Call("open", DOT)
    BY <1>1, <1>2, <1>3, OpenLots
  <2>2. sys_open(RUNNER, DOT) /\ Counts(Tests[test][k])
    BY <2>1 DEF Make, Call, Counts
  <2>3. cnt = 0 /\ OnlyOpen(2..k)
    BY <1>3 DEF TestInv
  <2>4. PICK S : S = 2..k
    OBVIOUS
  <2>5. CASE k < FDA_SIZE - 1
    <3>1. k + 1 \in Fds \ {0, 1} /\ k + 1 \notin S
      BY <1>0, <1>2, <2>4, <2>5 DEF Fds
    <3>2. FreeFds(RUNNER) # {}
      BY <2>3, <2>4, <3>1 DEF FreeFds, OnlyOpen
    <3>3. PICK fd, d : Opened(RUNNER, fd, d)
      BY <1>0, <2>2, <3>2, OpenEffect, Directory
    <3>4. /\ fd \in Fds \ {0, 1} /\ fd \notin S
          /\ \A g \in Fds \ {0, 1} : g \notin S => fd <= g
          /\ OnlyOpen(S \cup {fd})' /\ ret' = fd /\ pc' = pc
      BY <2>3, <2>4, <3>3, OpensOne, Zenon
    <3>5. fd = k + 1
      <4>1. fd <= k + 1
        BY <3>1, <3>4
      <4>2. fd \in Int /\ fd >= 2 /\ ~(fd \in 2..k)
        BY <1>0, <2>4, <3>4 DEF Fds
      <4>. QED  BY <1>2, <4>1, <4>2
    <3>6. S \cup {fd} = 2..k'
      BY <1>2, <2>4, <3>5
    <3>7. OnlyOpen(2..k)'
      BY <3>4, <3>6 DEF OnlyOpen
    <3>8. cnt' = 0 /\ k' < FDA_SIZE
      BY <1>0, <1>2, <2>3, <2>5, <3>4, <3>5
    <3>. QED  BY <1>2, <3>4, <3>7, <3>8 DEF TestInv
  <2>6. CASE k = FDA_SIZE - 1
    <3>1. FreeFds(RUNNER) = {}
      <4>1. \A fd \in Fds \ {0, 1} : fd \in 2..k
        BY <1>0, <2>6 DEF Fds
      <4>. QED  BY <2>3, <4>1 DEF FreeFds, OnlyOpen
    <3>2. Returned /\ ret' = -1
      BY <1>0, <2>2, <3>1, OpenEffect
    <3>3. cnt' = 1 /\ pc' = pc /\ SameFiles
      BY <2>2, <2>3, <3>2 DEF Returned, dir_locals, SameFiles
    <3>4. ~(k' < FDA_SIZE) /\ S = (k' + 2 - FDA_SIZE)..(FDA_SIZE - 1)
      BY <1>0, <2>4, <2>6
    <3>5. OnlyOpen(S)'
      BY <2>3, <2>4, <3>3, SameOpen
    <3>6. OnlyOpen((k + 2 - FDA_SIZE)..(FDA_SIZE - 1))'
      BY <3>4, <3>5 DEF OnlyOpen
    <3>. QED  BY <1>2, <3>3, <3>4, <3>6 DEF TestInv
  <2>. QED  BY <1>0, <1>2, <1>3, <2>5, <2>6
<1>4. CASE ~(k < FDA_SIZE)
  <2>0. PICK f : f = k + 2 - FDA_SIZE
    OBVIOUS
  <2>1. Tests[test][k] = Call("close", f)
    BY <1>1, <1>2, <1>4, <2>0, OpenLots
  <2>2. sys_close(RUNNER, f) /\ ~Counts(Tests[test][k])
    BY <2>1 DEF Make, Call, Counts
  <2>3. cnt = 1 /\ OnlyOpen(f..(FDA_SIZE - 1))
    BY <1>4, <2>0 DEF TestInv
  <2>4. f \in Fds \ {0, 1} /\ f \in f..(FDA_SIZE - 1)
    BY <1>0, <1>2, <1>4, <2>0 DEF Fds
  <2>5. Closed(RUNNER, f)
    BY <1>0, <2>2, <2>3, <2>4, CloseEffect DEF OnlyOpen
  <2>6. PICK e : e.flags = NOT_IN_USE /\ OneChanged(RUNNER, f, e, <<>>)
    BY <1>0, <2>5, ClosedChanges
  <2>7. PICK T : T = (f + 1)..(FDA_SIZE - 1)
    OBVIOUS
  <2>8. \A h \in Fds \ {0, 1} : h \in T <=> h # f /\ h \in f..(FDA_SIZE - 1)
    BY <1>0, <2>4, <2>7 DEF Fds
  <2>9. OnlyOpen(T)'
    <3>1. fda'[RUNNER][f] = e /\ \A h \in Fds : h # f => fda'[RUNNER][h] = fda[RUNNER][h]
      BY <1>0, <2>6 DEF OneChanged
    <3>2. PICK U : U = f..(FDA_SIZE - 1)
      OBVIOUS
    <3>3. \A h \in Fds \ {0, 1} : (InUse(RUNNER, h) <=> h \in U) /\ (h \in T <=> h # f /\ h \in U)
      BY <2>3, <2>8, <3>2 DEF OnlyOpen
    <3>. QED  BY <2>6, <3>1, <3>3 DEF OnlyOpen, InUse, NOT_IN_USE, IN_USE
  <2>10. ~(k' < FDA_SIZE) /\ T = (k' + 2 - FDA_SIZE)..(FDA_SIZE - 1)
    BY <1>0, <1>2, <1>4, <2>0, <2>7
  <2>11. OnlyOpen((k + 2 - FDA_SIZE)..(FDA_SIZE - 1))'
    BY <2>9, <2>10 DEF OnlyOpen
  <2>12. cnt' = 1 /\ pc' = pc
    BY <2>2, <2>3, <2>5 DEF Closed, dir_locals
  <2>. QED  BY <1>2, <2>10, <2>11, <2>12 DEF TestInv
<1>. QED  BY <1>3, <1>4

\* Every call of the other tests fails.
LEMMA TestCallWorks ==
  ASSUME FilesInv, Labels, WorkInv, program # "any", TestCall
  PROVE  WorkInv'
<1>1. /\ at = "test" /\ program = "syserr" /\ TestInv /\ pc[RUNNER] = "user"
      /\ k <= Len(Tests[test]) /\ Make(Tests[test][k]) /\ k' = k + 1
      /\ cnt' = IF ret' = -1 /\ Counts(Tests[test][k]) THEN cnt + 1 ELSE cnt
      /\ UNCHANGED <<program, args, at, test, status>>
  BY DEF TestCall, WorkInv, Labels
<1>2. TestInv' /\ pc' = pc
  <2>1. CASE test = 3
    BY <1>1, <2>1, OpenLotsWorks
  <2>2. CASE test # 3
    <3>1. test \in 1..8 /\ k \in 1..Len(Tests[test]) /\ k' \in 1..(Len(Tests[test]) + 1)
      <4>1. test \in 1..8 /\ k \in 1..(Len(Tests[test]) + 1)
        BY <1>1 DEF TestInv
      <4>2. PICK n \in Nat : n = Len(Tests[test])
        BY <4>1, TestLengths
      <4>. QED  BY <1>1, <4>1, <4>2
    <3>2. cnt = k - 1 /\ OnlyOpen({})
      BY <1>1, <2>2 DEF TestInv
    <3>3. Wrong(Tests[test][k])
      BY <2>2, <3>1, TestsAreWrong
    <3>4. Returned /\ ret' = -1
      BY <1>1, <3>2, <3>3, WrongFails
    <3>5. cnt' = k' - 1
      BY <1>1, <2>2, <3>1, <3>2, <3>4 DEF Counts
    <3>6. SameFiles /\ pc' = pc
      BY <3>4 DEF Returned, dir_locals, SameFiles
    <3>7. OnlyOpen({})'
      BY <3>2, <3>6, SameOpen
    <3>. QED  BY <1>1, <2>2, <3>1, <3>5, <3>6, <3>7 DEF TestInv
  <2>. QED  BY <2>1, <2>2
<1>. QED  BY <1>1, <1>2, TestsGoOn

\* For every image, any number of processes and any sizes: if they list the directory one
\* after the other and the pieces are whole words, each program does its work.
THEOREM WorkIsDone ==
  ASSUME Orderly, WholeWords
  PROVE  ProgSpec => []ProgramsDoTheirWork
<1>1. ProgInit => WorkInv
  <2>. SUFFICES ASSUME ProgInit, program # "any" PROVE WorkInv
    BY DEF WorkInv
  <2>1. /\ Init /\ program \in {"cat", "ls", "grep", "syserr", "fish"} /\ at = "start" /\ out = <<>>
        /\ k = 1 /\ cnt = 0 /\ status = 0 /\ test = IF select = 0 THEN 1 ELSE select
    BY DEF ProgInit
  <2>2. program = "fish" => args # <<>> /\ args # DOT
    BY DEF ProgInit
  <2>3. select \in Nat
    <3>1. Selections \subseteq Nat
      BY ProgramsAssumption, Zenon
    <3>. QED  BY <3>1 DEF ProgInit
  <2>4. OnlyOpen({}) /\ pc[RUNNER] = "user"
    <3>1. \A fd \in Fds \ {0, 1} : FreshFda[fd].flags = NOT_IN_USE
      BY Parameters DEF FreshFda, Fds
    <3>. QED  BY <2>1, <3>1, Parameters DEF Init, OnlyOpen, InUse, NOT_IN_USE, IN_USE
  <2>5. ProgramsDoTheirWork
    BY <2>1 DEF ProgramsDoTheirWork
  <2>. QED  BY <2>1, <2>2, <2>3, <2>4, <2>5 DEF WorkInv
<1>2. Labels /\ FilesInv /\ PiecesMakeTheFile /\ ListInv /\ WorkInv /\ [ProgNext]_<<vars, prog_vars>> => WorkInv'
  <2>. SUFFICES ASSUME Labels, FilesInv, PiecesMakeTheFile, ListInv, WorkInv, [ProgNext]_<<vars, prog_vars>>
                PROVE  WorkInv'
    OBVIOUS
  <2>1. CASE UNCHANGED <<vars, prog_vars>>
    <3>1. Untouched(RUNNER)
      BY <2>1 DEF vars, Untouched
    <3>. QED  BY <2>1, <3>1, OthersKeepWork
  <2>2. ASSUME program # "any", Main PROVE WorkInv'
    <3>1. CASE DirReadReturns
      BY <2>2, <3>1, DirStoreWorks, DirResetWorks DEF DirReadReturns
    <3>2. CASE ~DirReadReturns
      BY <2>2, <3>2, StartWorks, OpenWorks, ReadFileWorks, DirReadWorks, WriteWorks, SearchOpenWorks,
         SearchReadWorks, SearchCloseWorks, TestCallWorks, VerdictWorks, ExitWorks, Zenon DEF Main
    <3>. QED  BY <3>1, <3>2
  <2>3. ASSUME NEW p \in Procs, p = RUNNER => program = "any", AnyCall(p), UNCHANGED prog_vars
        PROVE  WorkInv'
    <3>1. CASE program = "any"
      BY <2>3, <3>1 DEF WorkInv, prog_vars
    <3>2. CASE program # "any"
      <4>1. Untouched(RUNNER)
        BY <2>3, <3>2, OthersApart, AnyCallIsEffect, Parameters
      <4>. QED  BY <2>3, <4>1, OthersKeepWork
    <3>. QED  BY <3>1, <3>2
  <2>. QED  BY <2>1, <2>2, <2>3, Zenon DEF ProgNext
<1>3. WorkInv => ProgramsDoTheirWork
  BY DEF WorkInv, ProgramsDoTheirWork
<1>. QED  BY <1>1, <1>2, <1>3, LabelsHold, FilesInvariant, FilesReadRight, ListInvariant, PTL DEF ProgSpec
=============================================================================
