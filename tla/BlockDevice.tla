----------------------------- MODULE BlockDevice ----------------------------
(***************************************************************************)
(* What a transfer promises (the comment of sd_dma_spin_read): between the *)
(* call and its return sectors go one by one, in order, between the blocks *)
(* of the card and the bytes of memory that the request names, 0 is        *)
(* returned only when all have, and nothing else changes, least of all     *)
(* after the return.                                                       *)
(***************************************************************************)
EXTENDS Integers, Sequences

CONSTANTS SECTOR      \* bytes of a block

VARIABLES memory, disk,
          request,     \* what is asked for; dir is "none" between requests
          done,        \* sectors that have gone
          result       \* what the driver last returned
vars == <<memory, disk, request, done, result>>

\* request.bytes[i]: the address of the i-th byte of the transfer.
Idle == [dir |-> "none", bytes |-> <<>>, offset |-> 0]
Sectors(r) == Len(r.bytes) \div SECTOR

Init == request = Idle /\ done = 0 /\ result = 0

Request ==
    /\ request = Idle
    /\ request'.dir \in {"read", "write"}
    /\ done' = 0
    /\ UNCHANGED <<memory, disk, result>>

\* The places of a sector's bytes, in memory and on the card.
Place(r, n) == {<<r.bytes[n * SECTOR + i], (r.offset + n) * SECTOR + i - 1>> : i \in 1..SECTOR}

Read ==
    /\ request.dir = "read" /\ done < Sectors(request)
    /\ memory' = [a \in DOMAIN memory |->
                    IF \E p \in Place(request, done) : p[1] = a
                    THEN disk[(CHOOSE p \in Place(request, done) : p[1] = a)[2]]
                    ELSE memory[a]]
    /\ done' = done + 1
    /\ UNCHANGED <<disk, request, result>>

Write ==
    /\ request.dir = "write" /\ done < Sectors(request)
    /\ disk' = [b \in DOMAIN disk |->
                  IF \E p \in Place(request, done) : p[2] = b
                  THEN memory[(CHOOSE p \in Place(request, done) : p[2] = b)[1]]
                  ELSE disk[b]]
    /\ done' = done + 1
    /\ UNCHANGED <<memory, request, result>>

Return ==
    /\ request # Idle
    /\ result' \in {0, -1, -2, -3}
    /\ result' = 0 => done = Sectors(request)
    /\ request' = Idle
    /\ done' = 0
    /\ UNCHANGED <<memory, disk>>

\* The driver's other functions return something.
Other == request = Idle /\ result' \in -9..1 /\ UNCHANGED <<memory, disk, request, done>>

Next == Request \/ Read \/ Write \/ Return \/ Other

Spec == Init /\ [][Next]_vars
=============================================================================
