-------------------------------- MODULE Files --------------------------------
(* File descriptors: sys_open, sys_read, sys_write, sys_close and the       *)
(* closing done by sys_halt (syscall.c), file_read and dir_read             *)
(* (filesystem.c).  System calls run with interrupts on.  All but dir_read  *)
(* touch only the caller's control block and the read-only image, so they   *)
(* are single steps; dir_read uses global_file_index, shared by all         *)
(* processes, and takes a step for every access to it.                      *)
EXTENDS FileSystem

CONSTANTS
    Procs,          \* the processes, one per terminal
    FDA_SIZE,       \* 8 in the code
    OpenNames,      \* the file names programs pass to open
    ReadSizes,      \* the nbytes they pass to read
    Orderly         \* TRUE: one process at a time lists the directory, to its end

ASSUME FilesAssumption ==
    /\ FDA_SIZE \in Nat /\ FDA_SIZE > 2
    /\ ReadSizes \subseteq Nat \ {0}
    /\ Orderly \in BOOLEAN

VARIABLES
    fda,                \* each process's descriptor table
    global_file_index,  \* the directory position
    pc,                 \* where each process is in dir_read
    dir_fd,             \* the descriptor it reads
    test_dentry,        \* the entry it found
    register,           \* global_file_index, loaded to be incremented
    ret,                \* what the last system call to return gave its caller
    given               \* what each descriptor has given since it was opened (history)

vars == <<fda, global_file_index, pc, dir_fd, test_dentry, register, ret, given>>
dir_locals == <<pc, dir_fd, test_dentry, register>>

Fds == 0..(FDA_SIZE - 1)
Ops == {"bad", "std_in", "std_out", "rtc", "dir", "file"}
IN_USE == 1
NOT_IN_USE == 0

files_t == [fops_ptr : Ops, inode : Inodes \cup {-1}, file_position : Nat, flags : {IN_USE, NOT_IN_USE}]

\* Descriptors have a table that fits their use: 0 and 1 are always the terminal's and
\* are never closed or replaced (syscall.c:492-495, 603-607).
TypeOK ==
    /\ fda \in [Procs -> [Fds -> files_t]]
    /\ \A p \in Procs : /\ fda[p][0].fops_ptr = "std_in" /\ fda[p][0].flags = IN_USE
                        /\ fda[p][1].fops_ptr = "std_out" /\ fda[p][1].flags = IN_USE
    /\ global_file_index \in Nat
    /\ pc \in [Procs -> {"user", "copy", "store", "reset"}]
    /\ dir_fd \in [Procs -> Fds]
    /\ test_dentry \in [Procs -> 0..Len(direntries)]
    /\ register \in [Procs -> Nat]
    /\ ret \in Int

\* The table init_pcb makes.
FreshFda ==
    [fd \in Fds |->
        [fops_ptr |-> CASE fd = 0 -> "std_in" [] fd = 1 -> "std_out" [] OTHER -> "bad",
         inode |-> -1, file_position |-> 0,
         flags |-> IF fd < 2 THEN IN_USE ELSE NOT_IN_USE]]

Init ==
    /\ fda = [p \in Procs |-> FreshFda]
    /\ global_file_index = 0
    /\ pc = [p \in Procs |-> "user"]
    /\ dir_fd = [p \in Procs |-> 0]
    /\ test_dentry = [p \in Procs |-> 0]
    /\ register = [p \in Procs |-> 0]
    /\ ret = 0
    /\ given = [p \in Procs |-> [fd \in Fds |-> <<>>]]

InUse(p, fd) == fda[p][fd].flags = IN_USE
FreeFds(p) == {fd \in Fds \ {0, 1} : ~InUse(p, fd)}
Listing(p, fd) == InUse(p, fd) /\ fda[p][fd].fops_ptr = "dir"

\* A call that changes nothing but the value it returns.
JustReturns(value) ==
    ret' = value /\ UNCHANGED <<fda, global_file_index, dir_locals, given>>

-----------------------------------------------------------------------------

\* Mutant: the position of the descriptor's last use is kept.
EntryKeptPosition(p, fd, dentry) ==
    [fops_ptr |-> dentry.filetype, inode |-> dentry.inode_num,
     file_position |-> fda[p][fd].file_position, flags |-> IN_USE]

\* The entry sys_open makes.
NewEntry(p, fd, dentry) ==
    [fops_ptr |-> dentry.filetype, inode |-> dentry.inode_num, file_position |-> 0, flags |-> IN_USE]

sys_open(p, filename) ==
    LET d == read_dentry_by_name(filename)
    IN  /\ pc[p] = "user"
        /\ IF d = 0 \/ FreeFds(p) = {} THEN JustReturns(-1)
           ELSE LET fd == CHOOSE f \in FreeFds(p) : \A g \in FreeFds(p) : f <= g
                IN  /\ fda' = [fda EXCEPT ![p][fd] = NewEntry(p, fd, direntries[d])]
                    /\ given' = [given EXCEPT ![p][fd] = <<>>]
                    /\ ret' = fd
                    /\ UNCHANGED <<global_file_index, dir_locals>>

\* The discipline: may p read the directory now, and may it stop listing?
MayList(p, fd) ==
    Orderly => \A q \in Procs :
        pc[q] = "user" /\ \A g \in Fds : Listing(q, g) /\ given[q][g] # <<>> => <<q, g>> = <<p, fd>>
MayLeave(p, fd) == Orderly /\ Listing(p, fd) => pc[p] = "user" /\ given[p][fd] = <<>>

sys_close(p, fd) ==
    /\ pc[p] = "user"
    /\ fd \in Fds => MayLeave(p, fd)
    /\ IF fd \notin Fds \ {0, 1} \/ fd \in FreeFds(p) THEN JustReturns(-1)
       ELSE /\ fda' = [fda EXCEPT ![p][fd].flags = NOT_IN_USE]
            /\ given' = [given EXCEPT ![p][fd] = <<>>]
            /\ ret' = 0
            /\ UNCHANGED <<global_file_index, dir_locals>>

\* The locals of dir_read are gone once p is back in its program.
LeaveDirRead(p) ==
    /\ pc' = [pc EXCEPT ![p] = "user"]
    /\ dir_fd' = [dir_fd EXCEPT ![p] = 0]
    /\ test_dentry' = [test_dentry EXCEPT ![p] = 0]
    /\ register' = [register EXCEPT ![p] = 0]

\* sys_halt closes everything; the next process of that pid starts from init_pcb.
Halt(p) ==
    /\ \A fd \in Fds : MayLeave(p, fd)
    /\ fda' = [fda EXCEPT ![p] = FreshFda]
    /\ given' = [given EXCEPT ![p] = [fd \in Fds |-> <<>>]]
    /\ LeaveDirRead(p)
    /\ UNCHANGED <<global_file_index, ret>>

\* file_read's own test; it leaves out the empty file.
AtEnd(file, length) == file.file_position >= length /\ length # 0

Advance(file, bytes) == file.file_position + Len(bytes)

file_read(p, fd, nbytes) ==
    LET file == fda[p][fd]
        bytes == read_data(file.inode, file.file_position, nbytes)
    IN  IF AtEnd(file, inodes[file.inode].length) THEN JustReturns(0)
        ELSE /\ fda' = [fda EXCEPT ![p][fd].file_position = Advance(file, bytes)]
             /\ given' = [given EXCEPT ![p][fd] = @ \o bytes]
             /\ ret' = Len(bytes)
             /\ UNCHANGED <<global_file_index, dir_locals>>

\* dir_read: the look-up, which is the first read of global_file_index.
dir_read(p, fd) ==
    LET d == read_dentry_by_index(global_file_index)
    IN  /\ MayList(p, fd)
        /\ pc' = [pc EXCEPT ![p] = IF d # 0 THEN "copy" ELSE "reset"]
        /\ dir_fd' = [dir_fd EXCEPT ![p] = fd]
        /\ test_dentry' = [test_dentry EXCEPT ![p] = d]
        /\ UNCHANGED <<fda, global_file_index, register, ret, given>>

\* ... the name is copied; the load of "global_file_index++".
DirCopy(p) ==
    /\ pc[p] = "copy"
    /\ pc' = [pc EXCEPT ![p] = "store"]
    /\ register' = [register EXCEPT ![p] = global_file_index]
    /\ UNCHANGED <<fda, global_file_index, dir_fd, test_dentry, ret, given>>

\* ... its store, and the return.
DirStore(p) ==
    /\ pc[p] = "store"
    /\ global_file_index' = register[p] + 1
    /\ given' = [given EXCEPT ![p][dir_fd[p]] = Append(@, test_dentry[p])]
    /\ ret' = Len(direntries[test_dentry[p]].filename)
    /\ LeaveDirRead(p)
    /\ UNCHANGED fda

\* Mutant: the end of the directory does not rewind it.
NoRewind(p) ==
    /\ pc[p] = "reset"
    /\ given' = [given EXCEPT ![p][dir_fd[p]] = <<>>]
    /\ ret' = 0
    /\ LeaveDirRead(p)
    /\ UNCHANGED <<fda, global_file_index>>

\* ... or the end of the directory: the listing is over.
DirReset(p) ==
    /\ pc[p] = "reset"
    /\ global_file_index' = 0
    /\ given' = [given EXCEPT ![p][dir_fd[p]] = <<>>]
    /\ ret' = 0
    /\ LeaveDirRead(p)
    /\ UNCHANGED fda

\* The terminal's and the RTC's own reads are in other modules; they change no
\* descriptor.
sys_read(p, fd, nbytes) ==
    /\ pc[p] = "user"
    /\ IF fd \notin Fds \/ ~InUse(p, fd) THEN JustReturns(-1)
       ELSE CASE fda[p][fd].fops_ptr = "file" -> file_read(p, fd, nbytes)
              [] fda[p][fd].fops_ptr = "dir" -> dir_read(p, fd)
              [] fda[p][fd].fops_ptr = "std_in" -> JustReturns(nbytes)
              [] fda[p][fd].fops_ptr = "rtc" -> JustReturns(0)
              [] OTHER -> JustReturns(-1)

\* Files and directories are read-only.
sys_write(p, fd) ==
    /\ pc[p] = "user"
    /\ IF fd \notin Fds \/ ~InUse(p, fd) THEN JustReturns(-1)
       ELSE JustReturns(IF fda[p][fd].fops_ptr \in {"std_out", "rtc"} THEN 0 ELSE -1)

\* A process that makes any calls.
AnyCall(p) ==
    \/ \E name \in OpenNames : sys_open(p, name)
    \/ \E fd \in -1..FDA_SIZE : \/ sys_close(p, fd)
                                \/ sys_write(p, fd)
                                \/ \E n \in ReadSizes : sys_read(p, fd, n)
    \/ DirCopy(p) \/ DirStore(p) \/ DirReset(p)
    \/ Halt(p)

Next == \E p \in Procs : AnyCall(p)

Spec == Init /\ [][Next]_vars

-----------------------------------------------------------------------------
(* Properties.                                                              *)

OpenFile(p, fd) == InUse(p, fd) /\ fda[p][fd].fops_ptr = "file"
LengthOf(p, fd) == inodes[fda[p][fd].inode].length

\* 0 means the end, and the end is reported: a read of an open file returns 0 exactly
\* when the whole file has been returned before, for a file that is not empty
\* (filesystem.c:284-297).
ZeroMeansEnd ==
    [][\A p \in Procs, fd \in Fds :
          OpenFile(p, fd) /\ LengthOf(p, fd) # 0 =>
              IF Len(given[p][fd]) >= LengthOf(p, fd)
              THEN fda'[p][fd].file_position <= fda[p][fd].file_position
              ELSE ret' = 0 /\ fda' = fda => \A n \in ReadSizes : ~sys_read(p, fd, n)]_vars

\* A listing that ends has shown every directory entry once, in order, although the
\* position is one for all processes and is not reset by open (filesystem.c:335-349).
ListingIsComplete ==
    [][\A p \in Procs : pc[p] = "reset" /\ pc'[p] = "user" /\ ret' = 0 =>
          given[p][dir_fd[p]] = [d \in 1..Len(direntries) |-> d]]_vars

=============================================================================
