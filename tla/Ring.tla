-------------------------------- MODULE Ring --------------------------------
(***************************************************************************)
(* Index arithmetic of the in-memory queues that the driver shares with    *)
(* the IOMMU.  The command queue and the fault queue are arrays of         *)
(* CQ_N_ENTRIES and FQ_N_ENTRIES slots (64 of them in the build), each     *)
(* addressed by a head and a tail register.  A queue whose two registers   *)
(* are equal is empty, so a queue of Entries slots holds Entries - 1.      *)
(***************************************************************************)
EXTENDS Integers

CONSTANT Entries        \* number of slots of the queue

ASSUME EntriesAssumption == Entries \in Nat /\ Entries > 1

Index == 0 .. Entries - 1

\* With a bug: the register keeps bits beyond the index.
WrapNot(v) == v

(***************************************************************************)
(* What an index register keeps of a value up to Entries written to it.    *)
(* The driver increments an index and writes it back without reducing it:  *)
(* only the bits below log2(Entries) of the register are writable.         *)
(***************************************************************************)
Wrap(v) == IF v >= Entries THEN v - Entries ELSE v

\* The number of occupied slots of a queue with this head and this tail.
Dist(head, tail) == IF tail >= head THEN tail - head ELSE tail - head + Entries

=============================================================================
