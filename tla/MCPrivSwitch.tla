---------------------------- MODULE MCPrivSwitch ----------------------------
(***************************************************************************)
(* Instances of PrivSwitch for TLC.  The first leaves out HU to VS, which  *)
(* the second adds to the requests.                                        *)
(***************************************************************************)
EXTENDS PrivSwitch

MCSupported == (Priv \X Priv) \ {<<HU, VS>>}
MCEvery     == Priv \X Priv

=============================================================================
