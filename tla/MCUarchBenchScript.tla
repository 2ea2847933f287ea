------------------------- MODULE MCUarchBenchScript -------------------------
(* Values for TLC of the constants of UarchBenchScript. *)
EXTENDS UarchBenchScript

MCHost(in_vm, intel, pstate, msrtools) ==
  [in_vm |-> in_vm, intel |-> intel, pstate |-> pstate, msrtools |-> msrtools]

IntelPstate == MCHost(FALSE, TRUE, TRUE, FALSE)
IntelMsr == MCHost(FALSE, TRUE, FALSE, TRUE)
IntelNoMsrTools == MCHost(FALSE, TRUE, FALSE, FALSE)
Amd == MCHost(FALSE, FALSE, FALSE, FALSE)
Guest == MCHost(TRUE, TRUE, FALSE, FALSE)

RestorableHosts == {IntelPstate, Amd, Guest}
AllHosts == RestorableHosts \union {IntelMsr, IntelNoMsrTools}
MsrHosts == {IntelMsr}
PstateHosts == {IntelPstate}
=============================================================================
