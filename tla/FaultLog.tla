------------------------------ MODULE FaultLog ------------------------------
(***************************************************************************)
(* What the fault queue promises to a caller of rv_iommu_fq_read_record:   *)
(* the records come out whole and in the order in which the IOMMU logged   *)
(* them, and a fault is left out only if the overflow flag says so.        *)
(***************************************************************************)
EXTENDS Integers, Sequences

CONSTANTS
  Records,      \* the records that a slot of the queue can hold
  Capacity      \* how many records may wait at once

VARIABLES
  logged,       \* the records logged so far, in order
  delivered,    \* the records the software has read, in order
  overflow      \* a fault was dropped

vars == <<logged, delivered, overflow>>

Init ==
  /\ logged = << >>
  /\ delivered = << >>
  /\ overflow = FALSE

Log(r) ==
  /\ Len(logged) - Len(delivered) < Capacity
  /\ logged' = Append(logged, r)
  /\ UNCHANGED <<delivered, overflow>>

\* Only a full log drops a fault, unless it has already dropped one.
Drop ==
  /\ Len(logged) - Len(delivered) = Capacity \/ overflow
  /\ overflow' = TRUE
  /\ UNCHANGED <<logged, delivered>>

Deliver ==
  /\ Len(delivered) < Len(logged)
  /\ delivered' = Append(delivered, logged[Len(delivered) + 1])
  /\ UNCHANGED <<logged, overflow>>

Next == (\E r \in Records : Log(r)) \/ Drop \/ Deliver

Spec == Init /\ [][Next]_vars

=============================================================================
