----------------------------- MODULE FileSystem -----------------------------
(* The read-only file system image and the three functions that read it     *)
(* (filesystem.c): read_dentry_by_name, read_dentry_by_index, read_data.    *)
(* A byte of the image is named by its place, <<data block, offset>>, so    *)
(* that a byte from the wrong place can be told from the right one.         *)
EXTENDS Integers, Sequences

CONSTANTS
    BLOCK_SIZE,         \* 4096 in the code
    NUM_DATA_BLOCKS,    \* entries of an inode's block table, 1023 in the code
    FILENAME_LEN,       \* 32 in the code
    direntries,         \* the directory: records [filename, filetype, inode_num], in order
    inodes              \* for each inode its [length, data_block_num]

Inodes == DOMAIN inodes
DataBlocks == 0..(NUM_DATA_BLOCKS - 1)

ASSUME FileSystemAssumption ==
    /\ BLOCK_SIZE \in Nat \ {0}
    /\ BLOCK_SIZE % 4 = 0
    /\ NUM_DATA_BLOCKS \in Nat \ {0}
    /\ FILENAME_LEN \in Nat \ {0}
    /\ \A n \in Inodes :
          /\ inodes[n].length \in 0..(NUM_DATA_BLOCKS * BLOCK_SIZE)
          /\ inodes[n].data_block_num \in [DataBlocks -> Nat]
    /\ Len(direntries) \in Nat
    /\ \A d \in 1..Len(direntries) :
          /\ direntries[d].filetype \in {"rtc", "dir", "file"}
          /\ direntries[d].inode_num \in Inodes
          /\ Len(direntries[d].filename) \in 1..FILENAME_LEN

-----------------------------------------------------------------------------
(* Directory entries.  Position 0 stands for the return value -1.           *)

\* The first entry with the name; a name on disk has at most FILENAME_LEN characters.
read_dentry_by_name(fname) ==
    LET found == {d \in 1..Len(direntries) : direntries[d].filename = fname}
    IN  IF fname = <<>> \/ found = {} THEN 0
        ELSE CHOOSE d \in found : \A e \in found : d <= e

\* index counts from 0.
read_dentry_by_index(index) == IF index < Len(direntries) THEN index + 1 ELSE 0

-----------------------------------------------------------------------------
(* read_data.  The loop keeps a word index into the current block, advanced *)
(* after every fourth byte READ, and the number of that block in the inode, *)
(* advanced when the word index reaches the end of the block.               *)

WordsPerBlock == BLOCK_SIZE \div 4

\* Words from the start of the first block, when k bytes have been read.
Words(offset, k) == ((offset % BLOCK_SIZE) \div 4) + (k \div 4)

position_in_file(offset, k) == Words(offset, k) % WordsPerBlock

\* Mutant: the block number is not advanced.
FirstBlockOnly(offset, k) == offset \div BLOCK_SIZE

num_data_block(offset, k) == (offset \div BLOCK_SIZE) + (Words(offset, k) \div WordsPerBlock)

\* The k-th byte, from 0, that read_data stores into buf.
ByteRead(inode, offset, k) ==
    <<inodes[inode].data_block_num[num_data_block(offset, k)],
      (4 * position_in_file(offset, k)) + ((offset + k) % 4)>>

\* The bytes that read_data stores and reports.  It reports none when offset is beyond
\* the end of the file, and none when the block number runs off the inode's table.
\* Nothing else stops it: not the end of the file.
read_data(inode, offset, length) ==
    IF offset > inodes[inode].length
       \/ \E k \in 1..length : num_data_block(offset, k) >= NUM_DATA_BLOCKS
    THEN <<>>
    ELSE [k \in 1..length |-> ByteRead(inode, offset, k - 1)]

-----------------------------------------------------------------------------
(* The reference: byte x of a file.                                         *)

FileByte(inode, x) ==
    <<inodes[inode].data_block_num[x \div BLOCK_SIZE], x % BLOCK_SIZE>>
=============================================================================
