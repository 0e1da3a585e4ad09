------------------------------- MODULE MCBoot -------------------------------
(* A card of nine blocks of four bytes: the MBR, six blocks of ELF image    *)
(* and two of data; pages of two blocks.                                    *)
EXTENDS Boot

MCMemory == 0..67
MCFirstImage == [b \in 0..35 |-> b + 1]
\* One starts inside a sector and crosses a page, the other is page aligned.
MCSegment == << [offset |-> 9, paddr |-> 13, filesz |-> 6],
                [offset |-> 16, paddr |-> 24, filesz |-> 6] >>
\* A read that crosses two pages, a write, and a load to the pages 56 and 48.
MCKernelCalls ==
    { [fn |-> "sd_dma_spin_read", pa |-> 52, count |-> 4, offset |-> 2, pages |-> <<>>],
      [fn |-> "sd_dma_spin_write", pa |-> 52, count |-> 2, offset |-> 7, pages |-> <<>>],
      [fn |-> "sd_dma_spin_load", pa |-> 0, count |-> 3, offset |-> 1, pages |-> <<56, 48>>] }

\* The timer is read in delays only; the last address and response of the
\* controller and the count of the engine matter in calls only.
view == <<IF Waiting THEN gtc_vars ELSE <<>>,
          IF Idle THEN <<[host EXCEPT !.addr = 0, !.resp0 = "none", !.count = 0],
                         [engine EXCEPT !.moved = 0]>>
          ELSE <<host, engine>>,
          card, memory, disk, call, ret, faults, at, seg, read_ok>>
=============================================================================
