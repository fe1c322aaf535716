----------------------------- MODULE MCPrograms -----------------------------
(* A small image: blocks of two words, inodes of five blocks.  Inode 1 is a *)
(* file of three blocks, out of order, that two reads of 12 bytes return;   *)
(* each of them crosses a block boundary and the second ends at the end of  *)
(* the file.  Unused entries of a block table are 0.                        *)
EXTENDS Programs

MCFile == [filename |-> <<"f", "g">>, filetype |-> "file", inode_num |-> 1]
MCDot == [filename |-> <<".">>, filetype |-> "dir", inode_num |-> 0]
MCRtc == [filename |-> <<"r">>, filetype |-> "rtc", inode_num |-> 0]
MCDirectory == <<MCDot, MCFile, MCRtc>>

MCBlocks == <<4, 2, 7, 0, 0>>
MCInodes ==
    [n \in {0, 1} |->
        [length |-> IF n = 0 THEN 0 ELSE 24,
         data_block_num |-> [b \in DataBlocks |-> IF n = 0 THEN 0 ELSE MCBlocks[b + 1]]]]

MCNames == {<<".">>, <<"f", "g">>, <<"x">>}
MCArguments == MCNames \cup {<<>>, <<"r">>}
MCWrongNames == <<<<"f", "g", "g">>, <<"f">>, <<>>>>
=============================================================================
