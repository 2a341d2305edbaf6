---------------------------- MODULE MCFaultQueue ----------------------------
(***************************************************************************)
(* Instance of FaultQueue for TLC.  Two faults are enough to tell a record *)
(* from the one before it; more of them than the queue has room for are    *)
(* raised, so that it wraps and overflows.                                 *)
(***************************************************************************)
EXTENDS FaultQueue

CONSTANTS loadFault, storeFault, blank

MCFaults == {loadFault, storeFault}

=============================================================================
