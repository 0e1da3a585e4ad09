------------------------------- MODULE MCSlab -------------------------------
(* Slab on pages of 32 bytes.  The requests are a queue element, a word,   *)
(* and a block with an alignment of its own; kmalloc's share the cache of  *)
(* the descriptors.                                                        *)
EXTENDS Slab

MCRequests == {<<8, 0>>, <<4, 0>>, <<16, 16>>}
=============================================================================
