--------------------------- MODULE MCCommandQueue ---------------------------
(***************************************************************************)
(* Instance of CommandQueue for TLC.  One builder stands for each way in   *)
(* which the IOMMU treats a command: executed silently, executed with a    *)
(* completion interrupt, rejected.                                         *)
(***************************************************************************)
EXTENDS CommandQueue

CONSTANTS iotinval, iofence, fault, blank

MCCommands == {iotinval, iofence, fault}
MCIllegal  == {fault}
MCFences   == {iofence}

=============================================================================
