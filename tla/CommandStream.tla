--------------------------- MODULE CommandStream ----------------------------
(***************************************************************************)
(* What the command queue promises to the code that calls the driver: the  *)
(* IOMMU consumes the commands handed to rv_iommu_write_command_in_queue   *)
(* in the order of the calls, each one once and whole, and it consumes     *)
(* nothing else.  An illegal command suspends consumption until the        *)
(* software has acknowledged it.                                           *)
(***************************************************************************)
EXTENDS Integers, Sequences

CONSTANTS
  Slots,        \* the command words a queue slot can hold
  Illegal,      \* those that the IOMMU rejects
  Capacity      \* how many commands may wait at once

VARIABLES
  sent,         \* the commands published so far, in order
  consumed,     \* the commands the IOMMU has taken, in order
  halted        \* an illegal command has stopped the queue

vars == <<sent, consumed, halted>>

Init ==
  /\ sent = << >>
  /\ consumed = << >>
  /\ halted = FALSE

Submit(s) ==
  /\ Len(sent) - Len(consumed) < Capacity
  /\ sent' = Append(sent, s)
  /\ UNCHANGED <<consumed, halted>>

Consume ==
  /\ ~halted
  /\ Len(consumed) < Len(sent)
  /\ consumed' = Append(consumed, sent[Len(consumed) + 1])
  /\ UNCHANGED sent
  /\ halted' = (sent[Len(consumed) + 1] \in Illegal)

\* A queue that keeps an illegal command at its head halts on it unconsumed.
Balk ==
  /\ ~halted
  /\ Len(consumed) < Len(sent)
  /\ sent[Len(consumed) + 1] \in Illegal
  /\ halted' = TRUE
  /\ UNCHANGED <<sent, consumed>>

Acknowledge ==
  /\ halted
  /\ halted' = FALSE
  /\ UNCHANGED <<sent, consumed>>

Next ==
  \/ \E s \in Slots : Submit(s)
  \/ Consume
  \/ Balk
  \/ Acknowledge

Spec == Init /\ [][Next]_vars

=============================================================================
