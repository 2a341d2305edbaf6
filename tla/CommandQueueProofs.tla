------------------------- MODULE CommandQueueProofs -------------------------
(***************************************************************************)
(* The safety of the command queue for every queue size, every window that *)
(* leaves a slot free, every set of commands and any number of them, and   *)
(* its implementation of CommandStream.                                    *)
(***************************************************************************)
EXTENDS CommandQueue, RingProofs

USE DEF registers, local, history, vars

\* A step that changes nothing preserves the invariant.
LEMMA QueueStutter ==
  ASSUME QueueInv, UNCHANGED vars
  PROVE  QueueInv'
  BY DEF QueueInv, TypeOK, InOrder, Accounting, WaitingIntact, NoSpuriousInterrupt,
         LocalAgreement, Index, Slot, Dword, Wrap, Dist

\* The invariant holds in every state the driver may start from.
LEMMA QueueInit == Init => QueueInv
  <1> SUFFICES ASSUME Init PROVE QueueInv
    OBVIOUS
  <1>1. TypeOK
    BY EntriesAssumption DEF Init, TypeOK, Index, Slot, Dword, Event
  <1>2. InOrder /\ Accounting /\ WaitingIntact /\ NoSpuriousInterrupt
    BY DEF Init, InOrder, Accounting, WaitingIntact, NoSpuriousInterrupt
  <1>3. LocalAgreement
    BY CommandAssumption DEF Init, LocalAgreement
  <1> QED BY <1>1, <1>2, <1>3 DEF QueueInv

\* The steps of rv_iommu_cq_init preserve the invariant.
LEMMA QueueSetup ==
  ASSUME QueueInv, Setup
  PROVE  QueueInv'
  <1>1. CASE InitTail
    <2>1. Dist(cqh, cqh) = 0
      BY DEF Dist, QueueInv, TypeOK, Index
    <2> QED
      BY <1>1, <2>1 DEF InitTail, QueueInv, TypeOK, InOrder, Accounting, WaitingIntact,
         NoSpuriousInterrupt, LocalAgreement, Index
  <1>2. CASE InitEnable
    BY <1>2 DEF InitEnable, QueueInv, TypeOK, InOrder, Accounting, WaitingIntact,
       NoSpuriousInterrupt, LocalAgreement
  <1>3. CASE InitPoll
    BY <1>3 DEF InitPoll, QueueInv, TypeOK, InOrder, Accounting, WaitingIntact,
       NoSpuriousInterrupt, LocalAgreement
  <1> QED BY <1>1, <1>2, <1>3 DEF Setup

(***************************************************************************)
(* The slots of the waiting commands, counted from the head: the driver's  *)
(* slot is not one of them, and the queue has room for it.                 *)
(***************************************************************************)
LEMMA WaitingSlots ==
  ASSUME QueueInv, pc # "init"
  PROVE  /\ Len(sent) \in Nat /\ Len(consumed) \in Nat
         /\ Dist(cqh, cqt) \in Index
         /\ \A i \in Index : Wrap(cqh + i) \in Index
         /\ \A i \in Index : i < Dist(cqh, cqt) => Wrap(cqh + i) # cqt
         /\ pc \in {"lo", "hi", "tail"} => Dist(cqh, cqt) < Entries - 1
         /\ Dist(cqh, cqt) = 0 <=> cqh = cqt
  <1>1. cqh \in Index /\ cqt \in Index
    BY DEF QueueInv, TypeOK
  <1>2. Len(sent) \in Nat /\ Len(consumed) \in Nat
    BY DEF QueueInv, TypeOK
  <1>3. pc \in {"lo", "hi", "tail"} => Len(sent) - Len(consumed) < Window
    BY DEF QueueInv, LocalAgreement
  <1>4. Len(sent) = Len(consumed) + Dist(cqh, cqt)
    BY DEF QueueInv, Accounting
  <1>5. Dist(cqh, cqt) \in Index /\ (Dist(cqh, cqt) = 0 <=> cqh = cqt)
    BY <1>1, DistInIndex
  <1>6. pc \in {"lo", "hi", "tail"} => Dist(cqh, cqt) < Entries - 1
    BY <1>2, <1>3, <1>4, <1>5, CommandAssumption, EntriesAssumption DEF Index
  <1>7. \A i \in Index : Wrap(cqh + i) \in Index
    BY <1>1, WrapInIndex
  <1>8. \A i \in Index : i < Dist(cqh, cqt) => Wrap(cqh + i) # cqt
    BY <1>1, TailIsFree
  <1> QED BY <1>2, <1>5, <1>6, <1>7, <1>8

\* Reading the tail leaves the shared state alone.
LEMMA QueueReadTail ==
  ASSUME QueueInv, NEW c \in Commands, ReadTail(c)
  PROVE  QueueInv'
  <1>1. TypeOK'
    BY EntriesAssumption DEF ReadTail, QueueInv, TypeOK, Index, Dword
  <1>2. InOrder' /\ Accounting' /\ WaitingIntact' /\ NoSpuriousInterrupt'
    BY DEF ReadTail, QueueInv, InOrder, Accounting, WaitingIntact, NoSpuriousInterrupt
  <1>3. LocalAgreement'
    BY DEF ReadTail, QueueInv, LocalAgreement
  <1> QED BY <1>1, <1>2, <1>3 DEF QueueInv

\* Writing either half of the driver's slot leaves the waiting ones alone.
LEMMA QueueWriteSlot ==
  ASSUME QueueInv, WriteLo \/ WriteHi
  PROVE  QueueInv'
  <1>1. tail = cqt /\ tail \in Index /\ new_cmd \in Dword /\ new_cmd \in Commands
    BY DEF WriteLo, WriteHi, QueueInv, TypeOK, LocalAgreement
  <1>2. command_queue \in [Index -> Slot]
    BY DEF QueueInv, TypeOK
  <1>3. /\ command_queue' \in [Index -> Slot]
        /\ \A j \in Index : j # tail => command_queue'[j] = command_queue[j]
    BY <1>1, <1>2 DEF WriteLo, WriteHi, Slot
  <1>4. TypeOK'
    BY <1>3 DEF WriteLo, WriteHi, QueueInv, TypeOK
  <1>5. WaitingIntact'
    <2>1. pc # "init"
      BY DEF WriteLo, WriteHi
    <2>2. \A i \in Index : i < Dist(cqh, cqt) =>
             command_queue'[Wrap(cqh + i)] = command_queue[Wrap(cqh + i)]
      BY <1>1, <1>3, <2>1, WaitingSlots
    <2> QED BY <2>1, <2>2 DEF WriteLo, WriteHi, QueueInv, WaitingIntact, Dist
  <1>6. InOrder' /\ Accounting' /\ NoSpuriousInterrupt'
    BY DEF WriteLo, WriteHi, QueueInv, InOrder, Accounting, NoSpuriousInterrupt
  <1>7. /\ pc' \in {"hi", "tail"} => command_queue'[tail'].lo = new_cmd'
        /\ pc' = "tail" => command_queue'[tail'].hi = new_cmd'
    BY <1>1, <1>2 DEF WriteLo, WriteHi, QueueInv, LocalAgreement, Slot
  <1>8. LocalAgreement'
    BY <1>7 DEF WriteLo, WriteHi, QueueInv, LocalAgreement
  <1> QED BY <1>4, <1>5, <1>6, <1>8 DEF QueueInv

\* Moving the tail adds the driver's slot, now whole, to the waiting ones.
LEMMA QueuePublish ==
  ASSUME QueueInv, Publish
  PROVE  QueueInv'
  <1> DEFINE d == Dist(cqh, cqt)
  <1>1. /\ tail = cqt /\ new_cmd \in Commands /\ cqh \in Index /\ cqt \in Index
        /\ command_queue \in [Index -> Slot] /\ command_queue[cqt] = Whole(new_cmd)
    BY DEF Publish, QueueInv, TypeOK, LocalAgreement, Slot, Whole
  <1>2. /\ d \in Index /\ d < Entries - 1 /\ Len(sent) \in Nat /\ Len(consumed) \in Nat
        /\ Len(sent) = Len(consumed) + d
    BY WaitingSlots DEF Publish, QueueInv, Accounting
  <1>3. Dist(cqh, Wrap(cqt + 1)) = d + 1
    BY <1>1, <1>2, DistTail
  <1>4. /\ sent \in Seq(Words) /\ consumed \in Seq(Slot) /\ Whole(new_cmd) \in Words
        /\ sent' = Append(sent, Whole(new_cmd))
    BY <1>1 DEF Publish, QueueInv, TypeOK, Words
  <1>5. /\ Len(sent') = Len(sent) + 1
        /\ \A k \in 1 .. Len(sent) : sent'[k] = sent[k]
        /\ sent'[Len(sent) + 1] = Whole(new_cmd)
    BY <1>4
  <1>6. TypeOK'
    <2>1. cqt' \in Index /\ tail' \in 0 .. Entries
      BY <1>1, WrapInIndex, EntriesAssumption DEF Publish, Index, Wrap
    <2>2. sent' \in Seq(Words)
      BY <1>4
    <2> QED BY <2>1, <2>2 DEF Publish, QueueInv, TypeOK
  <1>7. InOrder'
    <2>1. consumed' = consumed
      BY DEF Publish
    <2>2. \A k \in 1 .. Len(consumed) : k \in 1 .. Len(sent)
      BY <1>2 DEF QueueInv, InOrder, Index
    <2> QED BY <1>2, <1>5, <2>1, <2>2 DEF QueueInv, InOrder, Index
  <1>8. Accounting'
    BY <1>1, <1>2, <1>3, <1>5 DEF Publish, Accounting, Index, Dist
  <1>9. WaitingIntact'
    <2> SUFFICES ASSUME NEW i \in Index, i < d + 1
                 PROVE  command_queue[Wrap(cqh + i)] = sent'[Len(consumed) + 1 + i]
      BY <1>1, <1>3 DEF Publish, WaitingIntact, Dist
    <2>1. CASE i < d
      <3>1. command_queue[Wrap(cqh + i)] = sent[Len(consumed) + 1 + i]
        BY <2>1 DEF Publish, QueueInv, WaitingIntact
      <3>2. Len(consumed) + 1 + i \in 1 .. Len(sent)
        BY <1>2, <2>1 DEF Index
      <3> QED BY <1>5, <3>1, <3>2
    <2>2. CASE i = d
      <3>1. Wrap(cqh + i) = cqt
        BY <1>1, <2>2, TailIsFree
      <3>2. Len(consumed) + 1 + i = Len(sent) + 1
        BY <1>2, <2>2 DEF Index
      <3> QED BY <1>1, <1>5, <3>1, <3>2
    <2> QED BY <1>2, <2>1, <2>2 DEF Index
  <1>10. NoSpuriousInterrupt'
    BY DEF Publish, QueueInv, NoSpuriousInterrupt
  <1>11. LocalAgreement'
    BY <1>2, <1>5, CommandAssumption, EntriesAssumption
       DEF Publish, QueueInv, LocalAgreement, Index
  <1> QED BY <1>6, <1>7, <1>8, <1>9, <1>10, <1>11 DEF QueueInv

\* Acknowledging touches cqcsr and ipsr only.
LEMMA QueueAck ==
  ASSUME QueueInv, ReadCsr \/ Clear
  PROVE  QueueInv'
  <1>1. UNCHANGED <<command_queue, cqh, cqt, cqen, cqon, cie, new_cmd, tail, history>>
    BY DEF Clear, ReadCsr, WriteCsr, ClearIpsr
  <1>2. pc \in {"ready", "ack", "clear"} /\ pc' \in {"ready", "ack", "clear"}
    BY DEF Clear, ReadCsr, WriteCsr, ClearIpsr
  <1>3. TypeOK'
    BY DEF Clear, ReadCsr, WriteCsr, ClearIpsr, QueueInv, TypeOK
  <1>4. InOrder' /\ Accounting' /\ WaitingIntact' /\ LocalAgreement'
    BY <1>1, <1>2 DEF QueueInv, InOrder, Accounting, WaitingIntact, LocalAgreement, Dist
  <1>5. NoSpuriousInterrupt'
    BY DEF Clear, ReadCsr, WriteCsr, ClearIpsr, QueueInv, NoSpuriousInterrupt
  <1> QED BY <1>3, <1>4, <1>5 DEF QueueInv

\* Turning the queue on and raising the interrupt leave the queue alone.
LEMMA QueueSignals ==
  ASSUME QueueInv, TurnOn \/ Raise
  PROVE  QueueInv'
  <1>1. TypeOK'
    BY DEF TurnOn, Raise, QueueInv, TypeOK
  <1>2. InOrder' /\ Accounting' /\ WaitingIntact' /\ NoSpuriousInterrupt'
    BY DEF TurnOn, Raise, QueueInv, InOrder, Accounting, WaitingIntact, NoSpuriousInterrupt, Dist
  <1>3. LocalAgreement'
    BY DEF TurnOn, Raise, QueueInv, LocalAgreement
  <1> QED BY <1>1, <1>2, <1>3 DEF QueueInv

(***************************************************************************)
(* The slot that the IOMMU fetches holds the oldest waiting command, whole.*)
(***************************************************************************)
LEMMA FetchedWhole ==
  ASSUME QueueInv, Fetching
  PROVE  /\ pc # "init"
         /\ Len(sent) \in Nat /\ Len(consumed) \in Nat
         /\ Len(consumed) + 1 \in 1 .. Len(sent)
         /\ command_queue[cqh] = sent[Len(consumed) + 1]
         /\ command_queue[cqh] \in Words
         /\ command_queue[cqh] \in Slot
  <1>1. pc # "init"
    BY DEF Fetching, QueueInv, LocalAgreement
  <1>2. /\ Len(sent) \in Nat /\ Len(consumed) \in Nat
        /\ 0 \in Index /\ 0 < Dist(cqh, cqt)
        /\ Len(sent) = Len(consumed) + Dist(cqh, cqt)
        /\ Dist(cqh, cqt) \in Nat
    BY <1>1, WaitingSlots, EntriesAssumption DEF Fetching, QueueInv, Accounting, Index
  <1>3. cqh \in Index /\ Wrap(cqh + 0) = cqh
    BY EntriesAssumption DEF QueueInv, TypeOK, Wrap, Index
  <1>4. Len(consumed) + 1 \in 1 .. Len(sent)
    BY <1>2
  <1>5. command_queue[cqh] = sent[Len(consumed) + 1]
    <2>1. command_queue[Wrap(cqh + 0)] = sent[Len(consumed) + 1 + 0]
      BY <1>1, <1>2 DEF QueueInv, WaitingIntact
    <2> QED BY <1>2, <1>3, <2>1
  <1>6. sent[Len(consumed) + 1] \in Words
    BY <1>4 DEF QueueInv, TypeOK
  <1>7. command_queue[cqh] \in Slot
    BY <1>3 DEF QueueInv, TypeOK
  <1> QED BY <1>1, <1>2, <1>4, <1>5, <1>6, <1>7

\* Moving the head past the fetched command leaves the others waiting.
LEMMA QueueAdvance ==
  ASSUME QueueInv, Fetching,
         consumed' = Append(consumed, command_queue[cqh]),
         cqh' = Wrap(cqh + 1),
         events' \in SUBSET Event, events \subseteq events',
         UNCHANGED <<command_queue, cqt, cqen, cqon, cie, cip, pc, local, sent>>
  PROVE  QueueInv'
  <1> DEFINE d == Dist(cqh, cqt)
             n == Len(consumed)
  <1>1. /\ pc # "init" /\ n \in Nat /\ Len(sent) \in Nat
        /\ n + 1 \in 1 .. Len(sent)
        /\ command_queue[cqh] = sent[n + 1] /\ command_queue[cqh] \in Slot
    BY FetchedWhole
  <1>2. /\ cqh \in Index /\ cqt \in Index /\ cqh # cqt /\ cqh' \in Index
        /\ Wrap(cqh + 1) \in Index /\ consumed \in Seq(Slot)
    <2>1. cqh \in Index
      BY DEF QueueInv, TypeOK
    <2> QED BY <2>1, WrapInIndex DEF Fetching, QueueInv, TypeOK
  <1>3. d \in Index /\ Dist(Wrap(cqh + 1), cqt) = d - 1 /\ Len(sent) = n + d
    BY <1>1, <1>2, DistHead, DistInIndex DEF QueueInv, Accounting
  <1>4. /\ consumed' \in Seq(Slot)
        /\ Len(consumed') = n + 1
        /\ \A k \in 1 .. n : consumed'[k] = consumed[k]
        /\ consumed'[n + 1] = command_queue[cqh]
    BY <1>1, <1>2
  <1>5. TypeOK'
    BY <1>2, <1>4 DEF QueueInv, TypeOK
  <1>6. InOrder'
    BY <1>1, <1>4 DEF QueueInv, InOrder
  <1>7. Accounting'
    <2>1. Dist(cqh, cqt)' = Dist(Wrap(cqh + 1), cqt)
      BY DEF Dist
    <2>2. Len(sent') = Len(consumed') + (d - 1)
      BY <1>1, <1>3, <1>4 DEF Index
    <2> QED BY <1>3, <2>1, <2>2 DEF Accounting
  <1>8. WaitingIntact'
    <2> SUFFICES ASSUME NEW i \in Index, i < d - 1
                 PROVE  command_queue[Wrap(Wrap(cqh + 1) + i)] = sent[n + 1 + 1 + i]
      BY <1>2, <1>3, <1>4 DEF WaitingIntact, Dist
    <2>1. i + 1 \in Index /\ i + 1 < d
      BY <1>3, EntriesAssumption DEF Index
    <2>2. Wrap(Wrap(cqh + 1) + i) = Wrap(cqh + (i + 1))
      BY <1>2, <2>1, WrapShift
    <2>3. command_queue[Wrap(cqh + (i + 1))] = sent[n + 1 + (i + 1)]
      BY <1>1, <2>1 DEF QueueInv, WaitingIntact
    <2>4. n + 1 + (i + 1) = n + 1 + 1 + i
      BY <1>1 DEF Index
    <2> QED BY <2>2, <2>3, <2>4
  <1>9. NoSpuriousInterrupt'
    BY DEF QueueInv, NoSpuriousInterrupt
  <1>10. LocalAgreement'
    BY <1>1, <1>4, CommandAssumption, EntriesAssumption
       DEF QueueInv, LocalAgreement, Fetching
  <1> QED BY <1>5, <1>6, <1>7, <1>8, <1>9, <1>10 DEF QueueInv

\* Executing or rejecting the command at the head preserves the invariant.
LEMMA QueueExecute ==
  ASSUME QueueInv, Execute \/ Reject
  PROVE  QueueInv'
  <1>1. events' \in SUBSET Event /\ events \subseteq events'
    BY DEF Execute, Reject, QueueInv, TypeOK, Event
  <1>2. CASE Execute
    BY <1>1, <1>2, QueueAdvance DEF Execute
  <1>3. CASE Reject /\ SkipIllegal
    BY <1>1, <1>3, QueueAdvance DEF Reject
  <1>4. CASE Reject /\ ~SkipIllegal
    <2>1. UNCHANGED <<command_queue, cqh, cqt, cqen, cqon, cie, cip, pc, local, history>>
      BY <1>4 DEF Reject
    <2>2. TypeOK'
      BY <1>1, <2>1 DEF QueueInv, TypeOK
    <2>3. InOrder' /\ Accounting' /\ WaitingIntact' /\ LocalAgreement'
      BY <2>1 DEF QueueInv, InOrder, Accounting, WaitingIntact, LocalAgreement, Dist
    <2>4. NoSpuriousInterrupt'
      BY <1>1, <2>1 DEF QueueInv, NoSpuriousInterrupt
    <2> QED BY <2>2, <2>3, <2>4 DEF QueueInv
  <1> QED BY <1>2, <1>3, <1>4

\* Every step of the driver and of the IOMMU preserves the invariant.
LEMMA QueueStep == QueueInv /\ [Next]_vars => QueueInv'
  <1> SUFFICES ASSUME QueueInv, [Next]_vars PROVE QueueInv'
    OBVIOUS
  <1>1. CASE UNCHANGED vars   BY <1>1, QueueStutter
  <1>2. CASE Setup            BY <1>2, QueueSetup
  <1>3. CASE \E c \in Commands : ReadTail(c)
    BY <1>3, QueueReadTail
  <1>4. CASE Write            BY <1>4, QueueWriteSlot, QueuePublish DEF Write
  <1>5. CASE ReadCsr \/ Clear BY <1>5, QueueAck
  <1>6. CASE IOMMU            BY <1>6, QueueSignals, QueueExecute DEF IOMMU
  <1> QED BY <1>1, <1>2, <1>3, <1>4, <1>5, <1>6 DEF Next

(***************************************************************************)
(* The invariant of the command queue holds in every behaviour, whatever   *)
(* the size of the queue and the interleaving of driver and IOMMU.         *)
(***************************************************************************)
THEOREM QueueInvariant == Spec => []QueueInv
  BY QueueInit, QueueStep, PTL DEF Spec

(***************************************************************************)
(* What rv_iommu_write_command_in_queue publishes is what the IOMMU        *)
(* executes: in order, whole, once; and no interrupt stays without cause.  *)
(***************************************************************************)
THEOREM QueueSafety ==
  Spec => [](TypeOK /\ InOrder /\ Accounting /\ WaitingIntact /\ NoSpuriousInterrupt)
  <1>1. QueueInv => TypeOK /\ InOrder /\ Accounting /\ WaitingIntact /\ NoSpuriousInterrupt
    BY DEF QueueInv
  <1> QED BY <1>1, QueueInvariant, PTL

-----------------------------------------------------------------------------
(***************************************************************************)
(* The queue implements the stream.                                        *)
(***************************************************************************)

\* A slot that holds a whole command is rejected just when the command is.
LEMMA WholeRejected ==
  ASSUME NEW w \in Words
  PROVE  w.lo \in Commands /\ (w \in Rejected <=> w.lo \in Illegal)
  BY CommandAssumption DEF Words, Rejected, Whole

\* Executing a command consumes the oldest one; rejecting it halts the stream.
LEMMA FetchImplements ==
  ASSUME QueueInv, Execute \/ Reject
  PROVE  Stream!Consume \/ Stream!Balk
  <1>1. /\ ~halted /\ Len(consumed) < Len(sent)
        /\ command_queue[cqh] = sent[Len(consumed) + 1] /\ command_queue[cqh] \in Words
    BY FetchedWhole DEF Execute, Reject, Fetching, halted
  <1>2. /\ command_queue[cqh].lo \in Commands
        /\ command_queue[cqh] \in Rejected <=> command_queue[cqh].lo \in Illegal
    BY <1>1, WholeRejected
  <1>3. CASE Execute
    <2>1. command_queue[cqh] \notin Rejected /\ ~halted'
      BY <1>1, <1>2, <1>3 DEF Execute, halted
    <2>2. halted' = (sent[Len(consumed) + 1] \in Rejected)
      BY <1>1, <2>1 DEF halted
    <2>3. consumed' = Append(consumed, sent[Len(consumed) + 1]) /\ sent' = sent
      BY <1>1, <1>3 DEF Execute
    <2> QED BY <1>1, <2>2, <2>3 DEF Stream!Consume
  <1>4. CASE Reject
    <2>1. command_queue[cqh] \in Rejected /\ halted'
      BY <1>2, <1>4 DEF Reject, halted
    <2>2. halted' = (sent[Len(consumed) + 1] \in Rejected) /\ halted' = TRUE
      BY <1>1, <2>1 DEF halted
    <2>3. CASE SkipIllegal
      <3>1. consumed' = Append(consumed, sent[Len(consumed) + 1]) /\ sent' = sent
        BY <1>1, <1>4, <2>3 DEF Reject
      <3> QED BY <1>1, <2>2, <3>1 DEF Stream!Consume
    <2>4. CASE ~SkipIllegal
      <3>1. UNCHANGED <<sent, consumed>>
        BY <1>4, <2>4 DEF Reject
      <3> QED BY <1>1, <2>1, <2>2, <3>1 DEF Stream!Balk
    <2> QED BY <2>3, <2>4
  <1> QED BY <1>3, <1>4

\* Every step of the queue is a step of the stream or leaves it unchanged.
LEMMA StepImplements ==
  ASSUME QueueInv, [Next]_vars
  PROVE  [Stream!Next]_Stream!vars
  <1> USE DEF Stream!vars
  <1>1. CASE UNCHANGED <<sent, consumed, events>>
    BY <1>1 DEF halted
  <1>2. CASE Publish
    <2>1. Whole(new_cmd) \in Words /\ Len(sent) - Len(consumed) < Window
      BY <1>2 DEF Publish, QueueInv, LocalAgreement, Words
    <2>2. Stream!Submit(Whole(new_cmd))
      BY <1>2, <2>1 DEF Publish, Stream!Submit, halted
    <2> QED BY <2>1, <2>2 DEF Stream!Next
  <1>3. CASE WriteCsr
    <2>1. UNCHANGED <<sent, consumed>> /\ (halted' => halted)
      BY <1>3 DEF WriteCsr, halted
    <2>2. halted' = halted \/ (halted /\ halted' = FALSE)
      BY <2>1 DEF halted
    <2> QED BY <2>1, <2>2 DEF Stream!Next, Stream!Acknowledge
  <1>4. CASE Execute \/ Reject
    BY <1>4, FetchImplements DEF Stream!Next
  <1>5. UNCHANGED <<sent, consumed, events>> \/ Publish \/ WriteCsr \/ Execute \/ Reject
    BY DEF Next, Setup, InitTail, InitEnable, InitPoll, ReadTail, Write, WriteLo, WriteHi,
       Clear, ReadCsr, ClearIpsr, IOMMU, TurnOn, Raise
  <1> QED BY <1>1, <1>2, <1>3, <1>4, <1>5

(***************************************************************************)
(* Driver and IOMMU together implement the stream of commands: whatever    *)
(* the interleaving, a caller may think of                                 *)
(* rv_iommu_write_command_in_queue as appending to a sequence that the     *)
(* IOMMU consumes from its front.                                          *)
(***************************************************************************)
THEOREM QueueImplementsStream == Spec => ImplementsStream
  <1>1. Init => Stream!Init
    BY DEF Init, Stream!Init, halted
  <1>2. QueueInv /\ [Next]_vars => [Stream!Next]_Stream!vars
    BY StepImplements
  <1> QED BY <1>1, <1>2, QueueInvariant, PTL DEF Spec, ImplementsStream, Stream!Spec

=============================================================================
