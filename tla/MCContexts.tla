----------------------------- MODULE MCContexts -----------------------------
(* Contexts with two devices, and two kinds of transfers. *)
EXTENDS Contexts

MCDevices  == {1, 2}
MCCalls    == {"iohgatp_sv39x4", "iohgatp_bare", "msi_flat"}
MCRequests == {[src |-> "r", dest |-> "w", num_bytes |-> 8],
               [src |-> "w", dest |-> "r", num_bytes |-> 8]}

\* By address.
MCReadOrder == <<"tc", "iohgatp", "ta", "fsc", "msiptp", "msi_addr_mask", "msi_addr_pattern">>

=============================================================================
