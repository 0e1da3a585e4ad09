------------------------------ MODULE FileStore -----------------------------
(***************************************************************************)
(* What the file system promises its callers (doc/Haoming Xing/report.md,  *)
(* section 6, and the comments of kern/fs/fs_manage.c): files are          *)
(* append-only sequences of blocks, a read returns the first blocks of a   *)
(* file, a checkpoint keeps all files, and a restart resumes at the last   *)
(* checkpoint.                                                             *)
(***************************************************************************)
EXTENDS Naturals, Sequences, SequencesExt

CONSTANTS Blocks, Fds, Data, MaxSize

VARIABLES up,           \* the file system can be called
          op,           \* the last write or read of blocks, with its data
          store, free,  \* the files and the number of free blocks
          saved,        \* a checkpoint has been taken
          kept, kept_free
vars == <<up, op, store, free, saved, kept, kept_free>>

NoFiles == [fd \in {} |-> <<>>]
NoOp == [call |-> "none", fd |-> 0, data |-> <<>>, n |-> 0]
Op(call, fd, n, data) == op' = [call |-> call, fd |-> fd, data |-> data, n |-> n]

Init ==
    /\ up = TRUE /\ op = NoOp /\ store = NoFiles /\ free = Blocks
    /\ saved = FALSE /\ kept = NoFiles /\ kept_free = 0

Create ==
    /\ up
    /\ \E fd \in Fds \ DOMAIN store :
          store' = [x \in DOMAIN store \cup {fd} |-> IF x = fd THEN <<>> ELSE store[x]]
    /\ op' = NoOp
    /\ UNCHANGED <<up, free, saved, kept, kept_free>>

\* What the transfers of a write deliver is added to the file, and nothing else.
Append_ ==
    /\ up
    /\ \E fd \in DOMAIN store, n \in 1..MaxSize : \E buf \in [1..n -> Data] :
          /\ n <= free
          /\ free' = free - n
          /\ store' = [store EXCEPT ![fd] = @ \o buf]
          /\ Op("write", fd, n, buf)
    /\ UNCHANGED <<up, saved, kept, kept_free>>

\* A read of n blocks returns as many as the file has, or none if it is refused.
Read ==
    /\ up
    /\ \E fd \in Fds, n \in 0..MaxSize :
          \/ Op("read", fd, n, <<>>)
          \/ fd \in DOMAIN store /\ \E k \in 0..n :
                /\ k = n \/ (k < n /\ k = Len(store[fd]))
                /\ k <= Len(store[fd])
                /\ Op("read", fd, n, [i \in 1..k |-> store[fd][i]])
    /\ UNCHANGED <<up, store, free, saved, kept, kept_free>>

\* A call that moves no blocks.
Other == op' = NoOp /\ UNCHANGED <<up, store, free, saved, kept, kept_free>>

\* A refused append may lose the blocks it had taken.
Lose ==
    /\ up /\ op' = NoOp
    /\ \E n \in 1..MaxSize : n <= free /\ free' = free - n
    /\ UNCHANGED <<up, store, saved, kept, kept_free>>

Checkpoint ==
    /\ up /\ op' = NoOp
    /\ saved' = TRUE /\ kept' = store /\ kept_free' = free
    /\ UNCHANGED <<up, store, free>>

\* The kernel hangs or is switched off.
Stop ==
    /\ up' = FALSE /\ op' = NoOp /\ store' = NoFiles /\ free' = 0
    /\ UNCHANGED <<saved, kept, kept_free>>

Resume ==
    /\ saved
    /\ up' = TRUE /\ op' = NoOp /\ store' = kept /\ free' = kept_free
    /\ UNCHANGED <<saved, kept, kept_free>>

\* A card that has never held a checkpoint is formatted.
Format ==
    /\ ~saved
    /\ up' = TRUE /\ op' = NoOp /\ store' = NoFiles /\ free' = Blocks
    /\ UNCHANGED <<saved, kept, kept_free>>

Next == Create \/ Append_ \/ Read \/ Other \/ Lose \/ Checkpoint \/ Stop \/ Resume \/ Format

Spec == Init /\ [][Next]_vars
=============================================================================
