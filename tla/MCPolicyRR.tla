----------------------------- MODULE MCPolicyRR -----------------------------
(***************************************************************************)
(* PolicyRR for TLC: four interchangeable PCBs and one list element more  *)
(* than PCBs, so that every queue can be empty, hold one element, and hold *)
(* a middle element that is unlinked from between two others.              *)
(***************************************************************************)
EXTENDS PolicyRR, TLC

PcbSymmetry == Permutations(Pcb)
=============================================================================
