-------------------------- MODULE MCVirtualMemory --------------------------
(* Six user pages of two blocks under three first-level entries, and three *)
(* processes.  The programs begin on a page or inside one, lie at aligned  *)
(* and unaligned places of their files, cross a page and a first-level     *)
(* entry; one has two segments that meet in one page and a header of       *)
(* another kind behind them, one such a header before its segment.  The    *)
(* words that unmmap and copy_mem_img take for entries are zeros, or one of *)
(* them names a frame.                                                     *)
EXTENDS VirtualMemory

Segment(vaddr, offset, memsz) ==
    [load |-> TRUE, vaddr |-> vaddr, offset |-> offset, memsz |-> memsz]
OtherHeader == [load |-> FALSE, vaddr |-> 0, offset |-> 0, memsz |-> 1]

MCImages ==
    {<<OtherHeader, Segment(0, 16, 9)>>, <<Segment(5, 13, 18)>>,
     <<Segment(2, 2, 8), Segment(12, 12, 14), OtherHeader>>}

Zeroes == [j \in 0..(L2 - 1) |-> NONE]
MCLowWords == {Zeroes, [Zeroes EXCEPT ![0] = 2]}
=============================================================================
