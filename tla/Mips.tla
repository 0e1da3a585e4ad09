-------------------------------- MODULE Mips --------------------------------
(***************************************************************************)
(* The MIPS64 port: start-up on an IDE disk, or the initialisation of the  *)
(* ports of an AHCI adapter.                                               *)
(***************************************************************************)
EXTENDS MipsBoot, Ahci

VARIABLE subject
vars == <<subject, mips_vars, ahci_vars>>

Init == subject \in {"boot", "ahci"} /\ MipsInit /\ AhciInit
        /\ (subject = "boot" => \A p, q \in Ports : device[p] = device[q] /\ port[p].cmd = {})

Boot == subject = "boot" /\ MipsNext /\ UNCHANGED <<subject, ahci_vars>>
Disk == subject = "ahci" /\ AhciNext /\ UNCHANGED <<subject, mips_vars>>
Next == Boot \/ Disk

\* The CPU executes, and the adapter and its devices do what they were told.
Fairness ==
    /\ WF_vars(subject = "boot" /\ MipsStep /\ UNCHANGED <<subject, ahci_vars>>)
    /\ WF_vars(subject = "ahci" /\ ahci_init_port /\ UNCHANGED <<subject, mips_vars>>)
    /\ \A p \in Ports : WF_vars(subject = "ahci" /\ AdapterStep(p) /\ UNCHANGED <<subject, mips_vars>>)

Spec == Init /\ [][Next]_vars
FairSpec == Spec /\ Fairness

\* Every wait ends when the devices answer without error: the second changes,
\* the disk interrupts, and each port is initialised or found without device.
WaitsEnd ==
    /\ (at = "ehdr") ~> (at \in {"break", "garbage", "wild", "error", "finished"})
    /\ \A p \in Ports : (subject = "ahci") ~> (result[p] \in {"0", "ENODEV"} \/ \E q \in Ports : port[q].err)
=============================================================================
