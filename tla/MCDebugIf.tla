------------------------------ MODULE MCDebugIf ------------------------------
(* DebugIf with the device of plat_dma.c and pages of each kind. *)
EXTENDS DebugIf

\* The ID 10 by its bits.
MCDevices == {{1, 3}}

\* The pages of dbg_interface, and one that is switched.
MCPages == {"TWO_STAGE_W4K", "TEST_2MIB", "TEST_1GIB", "MSI_W2", "SWITCH1"}

=============================================================================
