-------------------------- MODULE FaultQueueProofs --------------------------
(***************************************************************************)
(* The safety of the fault queue for every queue size, every set of faults *)
(* and any number of them, and its implementation of FaultLog.             *)
(***************************************************************************)
EXTENDS FaultQueue, RingProofs

USE DEF registers, engine, local, history, vars

\* The invariant holds in every state the driver may start from.
LEMMA FaultInit == Init => QueueInv
  <1> SUFFICES ASSUME Init PROVE QueueInv
    OBVIOUS
  <1>1. TypeOK
    BY EntriesAssumption DEF Init, TypeOK, Index, Slot, Dword, Whole, Dwords
  <1>2. DeliveredInOrder /\ EmptyIsTrue /\ UnreadIntact
    BY DEF Init, DeliveredInOrder, EmptyIsTrue, UnreadIntact
  <1>3. LocalAgreement
    BY DEF Init, LocalAgreement
  <1> QED BY <1>1, <1>2, <1>3 DEF QueueInv

\* The numbers that the other lemmas calculate with.
LEMMA FaultNumbers ==
  ASSUME QueueInv
  PROVE  /\ Len(logged) \in Nat /\ Len(delivered) \in Nat /\ seen \in Nat
         /\ fqh \in Index /\ fqt \in Index /\ limit \in Index
         /\ Dist(fqh, fqt) \in Index /\ (Dist(fqh, fqt) = 0 <=> fqh = fqt)
         /\ Dist(head, limit) \in Int
         /\ pc = "compare" => Dist(head, limit) \in Index /\ (Dist(head, limit) = 0 <=> head = limit)
  <1>1. /\ Len(logged) \in Nat /\ Len(delivered) \in Nat /\ seen \in Nat
        /\ fqh \in Index /\ fqt \in Index /\ limit \in Index /\ head \in 0 .. Entries
    BY DEF QueueInv, TypeOK
  <1>2. pc = "compare" => head = fqh
    BY DEF QueueInv, LocalAgreement
  <1>3. Dist(head, limit) \in Int
    BY <1>1, EntriesAssumption DEF Dist, Index
  <1> QED BY <1>1, <1>2, <1>3, DistInIndex

\* The steps of rv_iommu_fq_init preserve the invariant.
LEMMA FaultSetup ==
  ASSUME QueueInv, Setup
  PROVE  QueueInv'
  <1>1. Dist(fqt, fqt) = 0
    BY FaultNumbers DEF Dist, Index
  <1>2. UNCHANGED <<fault_queue, fqt, fqof, engine, local, history>> /\ (fqh' = fqh \/ fqh' = fqt)
    BY DEF Setup, InitHead, InitEnable, InitPoll
  <1>3. TypeOK'
    BY DEF Setup, InitHead, InitEnable, InitPoll, QueueInv, TypeOK
  <1>4. DeliveredInOrder'
    BY <1>2 DEF QueueInv, DeliveredInOrder
  <1>5. EmptyIsTrue'
    BY <1>2 DEF Setup, InitHead, InitEnable, InitPoll, QueueInv, EmptyIsTrue, LocalAgreement
  <1>6. UnreadIntact'
    <2>1. CASE InitHead
      BY <1>1, <2>1 DEF InitHead, QueueInv, UnreadIntact, LocalAgreement, Index
    <2>2. CASE InitEnable \/ InitPoll
      BY <2>2 DEF InitEnable, InitPoll, QueueInv, UnreadIntact, Dist
    <2> QED BY <2>1, <2>2 DEF Setup
  <1>7. LocalAgreement'
    BY <1>2 DEF Setup, InitHead, InitEnable, InitPoll, QueueInv, LocalAgreement, Full
  <1> QED BY <1>3, <1>4, <1>5, <1>6, <1>7 DEF QueueInv

(***************************************************************************)
(* The steps of a read that do not move the head leave the queue alone.    *)
(***************************************************************************)
LEMMA FaultReadSteps ==
  ASSUME QueueInv, ReadHead \/ ReadTail \/ ReturnEmpty \/ ReadDword
  PROVE  QueueInv'
  <1>1. /\ UNCHANGED <<fault_queue, registers, engine, raised, logged, delivered>>
        /\ pc \in {"ready", "tail", "compare"} /\ pc' \in {"ready", "tail", "compare"}
    BY DEF ReadHead, ReadTail, ReturnEmpty, ReadDword
  <1>2. DeliveredInOrder' /\ UnreadIntact'
    BY <1>1 DEF QueueInv, DeliveredInOrder, UnreadIntact, Dist
  <1>3. CASE ReadHead
    <2>1. TypeOK'
      BY <1>3, EntriesAssumption DEF ReadHead, QueueInv, TypeOK, Index
    <2>2. EmptyIsTrue' /\ LocalAgreement'
      BY <1>3 DEF ReadHead, QueueInv, EmptyIsTrue, LocalAgreement, Full
    <2> QED BY <1>2, <2>1, <2>2 DEF QueueInv
  <1>4. CASE ReadTail
    <2>1. head = fqh /\ limit' = fqt /\ head' = head /\ seen' = Len(logged)
      BY <1>4 DEF ReadTail, QueueInv, LocalAgreement
    <2>2. Len(logged) = Len(delivered) + Dist(fqh, fqt)
      BY <1>4 DEF ReadTail, QueueInv, UnreadIntact
    <2>3. TypeOK'
      BY <1>4, FaultNumbers DEF ReadTail, QueueInv, TypeOK
    <2>4. EmptyIsTrue'
      BY <1>4, <2>1, <2>2, FaultNumbers DEF ReadTail, QueueInv, EmptyIsTrue, DeliveredInOrder, Index
    <2>5. seen' = Len(delivered') + Dist(head', limit')
      BY <1>1, <2>1, <2>2
    <2>6. LocalAgreement'
      <3>1. \A k \in Dwords : ~(k < next')
        BY <1>4 DEF ReadTail, QueueInv, LocalAgreement, Dwords
      <3>2. Dist(head, limit)' = Dist(head', limit')
        BY DEF Dist
      <3> QED BY <1>1, <1>4, <2>1, <2>5, <3>1, <3>2, FaultNumbers
              DEF ReadTail, QueueInv, LocalAgreement, Full
    <2> QED BY <1>2, <2>3, <2>4, <2>6 DEF QueueInv
  <1>5. CASE ReturnEmpty
    <2>1. TypeOK' /\ EmptyIsTrue'
      BY <1>5 DEF ReturnEmpty, QueueInv, TypeOK, EmptyIsTrue
    <2>2. LocalAgreement'
      BY <1>5 DEF ReturnEmpty, QueueInv, LocalAgreement, Full
    <2> QED BY <1>2, <2>1, <2>2 DEF QueueInv
  <1>6. CASE ReadDword
    <2>1. /\ buf \in Slot /\ next \in Dwords /\ head \in Index /\ fault_queue[head] \in Slot
          /\ fault_queue[head][next] \in Dword
      BY <1>6 DEF ReadDword, QueueInv, TypeOK, LocalAgreement, Slot
    <2>2. buf' \in Slot /\ buf'[next] = fault_queue[head][next]
          /\ \A k \in Dwords : k # next => buf'[k] = buf[k]
      BY <1>6, <2>1 DEF ReadDword, Slot
    <2>3. TypeOK' /\ EmptyIsTrue'
      BY <1>6, <2>1, <2>2 DEF ReadDword, QueueInv, TypeOK, EmptyIsTrue, Dwords
    <2>4. \A k \in Dwords : k < next' => buf'[k] = fault_queue[head][k]
      BY <1>6, <2>1, <2>2 DEF ReadDword, QueueInv, LocalAgreement, Dwords
    <2>5. LocalAgreement'
      BY <1>1, <1>6, <2>4 DEF ReadDword, QueueInv, LocalAgreement, Full
    <2> QED BY <1>2, <2>3, <2>5 DEF QueueInv
  <1> QED BY <1>3, <1>4, <1>5, <1>6

(***************************************************************************)
(* When the head moves, the buffer holds the oldest unread record, whole.  *)
(***************************************************************************)
LEMMA BufferWhole ==
  ASSUME QueueInv, WriteHead
  PROVE  /\ Len(delivered) + 1 \in 1 .. Len(logged)
         /\ buf = logged[Len(delivered) + 1]
         /\ fqh # fqt /\ head = fqh /\ Len(delivered) < seen
  <1> DEFINE n == Len(delivered)
  <1>1. /\ head = fqh /\ head # limit /\ next \notin Dwords /\ next \in 0 .. 4
        /\ seen = n + Dist(head, limit) /\ seen <= Len(logged)
        /\ \A k \in Dwords : k < next => buf[k] = fault_queue[head][k]
    BY DEF WriteHead, QueueInv, TypeOK, LocalAgreement
  <1>2. /\ Dist(head, limit) \in Nat /\ Dist(head, limit) > 0
        /\ Dist(fqh, fqt) \in Nat /\ Len(logged) = n + Dist(fqh, fqt)
        /\ n \in Nat /\ Len(logged) \in Nat
    BY <1>1, FaultNumbers DEF WriteHead, QueueInv, UnreadIntact, Index
  <1>3. n + 1 \in 1 .. Len(logged) /\ 0 < Dist(fqh, fqt) /\ n < seen
    BY <1>1, <1>2
  <1>4. fqh # fqt
    BY <1>3, FaultNumbers
  <1>5. fault_queue[fqh] = logged[n + 1]
    <2>1. 0 \in Index /\ Wrap(fqh + 0) = fqh
      BY FaultNumbers, EntriesAssumption DEF Wrap, Index
    <2>2. fault_queue[Wrap(fqh + 0)] = logged[n + 1 + 0]
      BY <1>3, <2>1 DEF WriteHead, QueueInv, UnreadIntact
    <2> QED BY <1>2, <2>1, <2>2
  <1>6. buf = fault_queue[head]
    <2>1. buf \in Slot /\ fault_queue[head] \in Slot
      BY <1>1 DEF QueueInv, TypeOK
    <2>2. \A k \in Dwords : buf[k] = fault_queue[head][k]
      BY <1>1 DEF Dwords
    <2> QED BY <2>1, <2>2 DEF Slot
  <1> QED BY <1>1, <1>3, <1>4, <1>5, <1>6

\* Moving the head hands the oldest unread record over and keeps the others.
LEMMA FaultWriteHead ==
  ASSUME QueueInv, WriteHead
  PROVE  QueueInv'
  <1> DEFINE d == Dist(fqh, fqt)
             n == Len(delivered)
  <1>1. /\ n + 1 \in 1 .. Len(logged) /\ buf = logged[n + 1]
        /\ fqh # fqt /\ head = fqh /\ n < seen /\ pc # "init"
    BY BufferWhole DEF WriteHead
  <1>2. /\ n \in Nat /\ Len(logged) \in Nat /\ fqh \in Index /\ fqt \in Index /\ d \in Index
        /\ seen \in Nat /\ buf \in Slot /\ delivered \in Seq(Slot)
    BY FaultNumbers DEF QueueInv, TypeOK
  <1>3. /\ Wrap(fqh + 1) \in Index /\ Dist(Wrap(fqh + 1), fqt) = d - 1
        /\ Len(logged) = n + d /\ fqh' = Wrap(fqh + 1) /\ fqt' = fqt
    BY <1>1, <1>2, WrapInIndex, DistHead DEF WriteHead, QueueInv, UnreadIntact
  <1>4. /\ delivered' \in Seq(Slot) /\ Len(delivered') = n + 1
        /\ \A k \in 1 .. n : delivered'[k] = delivered[k]
        /\ delivered'[n + 1] = buf
    BY <1>2 DEF WriteHead
  <1>5. TypeOK'
    BY <1>1, <1>2, <1>3, <1>4, EntriesAssumption DEF WriteHead, QueueInv, TypeOK, Index
  <1>6. DeliveredInOrder'
    BY <1>1, <1>2, <1>4 DEF WriteHead, QueueInv, DeliveredInOrder
  <1>7. EmptyIsTrue'
    BY <1>1, <1>2, <1>4 DEF WriteHead, QueueInv, EmptyIsTrue
  <1>8. UnreadIntact'
    <2>1. Dist(fqh, fqt)' = d - 1
      BY <1>3 DEF Dist
    <2>2. Len(logged') = Len(delivered') + (d - 1)
      BY <1>2, <1>3, <1>4 DEF WriteHead, Index
    <2>3. ASSUME NEW i \in Index, i < d - 1
          PROVE  fault_queue[Wrap(Wrap(fqh + 1) + i)] = logged[n + 1 + 1 + i]
      <3>1. i + 1 \in Index /\ i + 1 < d /\ n + 1 + (i + 1) = n + 1 + 1 + i
        BY <1>2, <2>3, EntriesAssumption DEF Index
      <3>2. fault_queue[Wrap(fqh + (i + 1))] = logged[n + 1 + (i + 1)]
        BY <1>1, <3>1 DEF QueueInv, UnreadIntact
      <3>3. Wrap(Wrap(fqh + 1) + i) = Wrap(fqh + (i + 1))
        BY <1>2, <3>1, WrapShift
      <3> QED BY <3>1, <3>2, <3>3
    <2>4. \A i \in Index : i < d - 1 =>
             fault_queue'[Wrap(fqh' + i)] = logged'[Len(delivered') + 1 + i]
      BY <1>3, <1>4, <2>3 DEF WriteHead
    <2> QED BY <2>1, <2>2, <2>4 DEF UnreadIntact
  <1>9. LocalAgreement'
    <2>1. record' # Blank => ~Full'
      BY <1>2, <1>3 DEF WriteHead, QueueInv, LocalAgreement, Full, Index, Dist
    <2> QED BY <1>1, <2>1 DEF WriteHead, QueueInv, LocalAgreement
  <1> QED BY <1>5, <1>6, <1>7, <1>8, <1>9 DEF QueueInv

\* Turning the queue on and raising a fault leave the queue alone.
LEMMA FaultRaise ==
  ASSUME QueueInv, TurnOn \/ Drop \/ \E f \in Faults : Raise(f)
  PROVE  QueueInv'
  <1>1. UNCHANGED <<fault_queue, fqh, fqt, fqen, stored, pc, local, logged, delivered, seen>>
    BY DEF TurnOn, Raise, Drop, engine, registers
  <1>2. TypeOK'
    <2>1. CASE TurnOn
      BY <2>1 DEF TurnOn, QueueInv, TypeOK
    <2>2. ASSUME NEW f \in Faults, Raise(f) PROVE TypeOK'
      BY <2>2 DEF Raise, registers, QueueInv, TypeOK, Dword
    <2>3. CASE Drop
      BY <2>3 DEF Drop, engine, QueueInv, TypeOK
    <2> QED BY <2>1, <2>2, <2>3
  <1>3. DeliveredInOrder' /\ EmptyIsTrue' /\ UnreadIntact'
    BY <1>1 DEF QueueInv, DeliveredInOrder, EmptyIsTrue, UnreadIntact, Dist
  <1>4. LocalAgreement'
    <2>1. record' # Blank => ~Full' /\ \A k \in Dwords : k < stored' => fault_queue'[fqt'][k] = record'
      BY <1>1 DEF TurnOn, Raise, Drop, QueueInv, LocalAgreement, Full, Dwords
    <2>2. ~fqon' => record' = Blank /\ Len(logged') = 0
      BY DEF TurnOn, Raise, Drop, QueueInv, LocalAgreement
    <2>3. ~fqen' => ~fqon'
      BY DEF TurnOn, Raise, Drop, QueueInv, LocalAgreement
    <2>4. record' = Blank => stored' = 0
      BY <1>1 DEF TurnOn, Raise, Drop, QueueInv, LocalAgreement
    <2> QED BY <1>1, <2>1, <2>2, <2>3, <2>4 DEF QueueInv, LocalAgreement
  <1> QED BY <1>2, <1>3, <1>4 DEF QueueInv

\* Storing a double word of a new record leaves the unread ones alone.
LEMMA FaultStore ==
  ASSUME QueueInv, Store
  PROVE  QueueInv'
  <1>1. /\ fqt \in Index /\ fqh \in Index /\ fault_queue \in [Index -> Slot]
        /\ stored \in Dwords /\ record \in Dword /\ record # Blank
    BY DEF Store, QueueInv, TypeOK
  <1>2. UNCHANGED <<registers, record, pc, local, history>>
    BY DEF Store
  <1>3. fqon /\ pc # "init" /\ ~Full
    BY <1>1 DEF QueueInv, LocalAgreement
  <1>4. /\ fault_queue' \in [Index -> Slot]
        /\ \A j \in Index : j # fqt => fault_queue'[j] = fault_queue[j]
        /\ fault_queue'[fqt][stored] = record
        /\ \A k \in Dwords : k # stored => fault_queue'[fqt][k] = fault_queue[fqt][k]
    BY <1>1 DEF Store, Slot
  <1>5. TypeOK'
    BY <1>1, <1>2, <1>4 DEF Store, QueueInv, TypeOK, Dwords
  <1>6. DeliveredInOrder' /\ EmptyIsTrue'
    BY <1>2 DEF QueueInv, DeliveredInOrder, EmptyIsTrue
  <1>7. UnreadIntact'
    <2>1. \A i \in Index : i < Dist(fqh, fqt) =>
             fault_queue'[Wrap(fqh + i)] = fault_queue[Wrap(fqh + i)]
      <3>1. \A i \in Index : i < Dist(fqh, fqt) => Wrap(fqh + i) # fqt
        BY <1>1, TailIsFree
      <3>2. \A i \in Index : Wrap(fqh + i) \in Index
        BY <1>1, WrapInIndex
      <3> QED BY <1>4, <3>1, <3>2
    <2> QED BY <1>2, <1>3, <2>1 DEF QueueInv, UnreadIntact, Dist
  <1>8. LocalAgreement'
    <2>1. \A k \in Dwords : k < stored' => fault_queue'[fqt'][k] = record'
      BY <1>1, <1>2, <1>4 DEF Store, QueueInv, LocalAgreement, Dwords
    <2>2. pc = "compare" /\ head # limit => head # fqt /\ head \in Index
      <3>1. pc = "compare" /\ head # limit => Dist(fqh, fqt) > 0
        BY FaultNumbers DEF QueueInv, LocalAgreement, UnreadIntact, Index
      <3> QED BY <1>1, <3>1, FaultNumbers DEF QueueInv, LocalAgreement
    <2>3. pc = "compare" /\ head # limit =>
             \A k \in Dwords : k < next => buf[k] = fault_queue'[head][k]
      BY <1>4, <2>2 DEF QueueInv, LocalAgreement
    <2>4. ~Full' /\ record' # Blank
      BY <1>1, <1>2, <1>3 DEF Full, Dist
    <2> QED BY <1>2, <2>1, <2>3, <2>4 DEF QueueInv, LocalAgreement
  <1> QED BY <1>5, <1>6, <1>7, <1>8 DEF QueueInv

\* Moving the tail adds a record, now whole, to the unread ones.
LEMMA FaultAdvance ==
  ASSUME QueueInv, Advance
  PROVE  QueueInv'
  <1> DEFINE d == Dist(fqh, fqt)
             n == Len(delivered)
  <1>1. /\ fqt \in Index /\ fqh \in Index /\ fault_queue \in [Index -> Slot] /\ d \in Index
        /\ n \in Nat /\ Len(logged) \in Nat /\ seen \in Nat /\ raised \in Nat
        /\ record \in Faults /\ record # Blank /\ stored = 4
    BY FaultNumbers DEF Advance, QueueInv, TypeOK, Dword, Dwords
  <1>2. UNCHANGED <<fault_queue, fqh, fqen, fqon, fqof, pc, local, raised, delivered, seen>>
    BY DEF Advance
  <1>3. /\ fqon /\ pc # "init" /\ ~Full
        /\ \A k \in Dwords : fault_queue[fqt][k] = record
    BY <1>1 DEF QueueInv, LocalAgreement, Dwords
  <1>4. d < Entries - 1 /\ Dist(fqh, Wrap(fqt + 1)) = d + 1 /\ Wrap(fqt + 1) \in Index
    <2>1. d < Entries - 1
      BY <1>1, <1>3, EntriesAssumption DEF Full, Index
    <2> QED BY <1>1, <2>1, DistTail, WrapInIndex
  <1>5. fault_queue[fqt] = Whole(record) /\ Whole(record) \in Words
    BY <1>1, <1>3 DEF Whole, Words, Slot
  <1>6. Len(logged) = n + d
    BY <1>3 DEF QueueInv, UnreadIntact
  <1>7. /\ logged' = Append(logged, Whole(record)) /\ logged \in Seq(Words)
        /\ fqt' = Wrap(fqt + 1) /\ record' = Blank /\ stored' = 0
    BY DEF Advance, QueueInv, TypeOK
  <1>8. /\ logged' \in Seq(Words) /\ Len(logged') = Len(logged) + 1
        /\ \A k \in 1 .. Len(logged) : logged'[k] = logged[k]
        /\ logged'[Len(logged) + 1] = Whole(record)
    BY <1>5, <1>7
  <1>9. TypeOK'
    BY <1>2, <1>4, <1>7, <1>8 DEF QueueInv, TypeOK, Dword
  <1>10. DeliveredInOrder'
    BY <1>1, <1>2, <1>8 DEF QueueInv, DeliveredInOrder
  <1>11. EmptyIsTrue'
    BY <1>2 DEF QueueInv, EmptyIsTrue
  <1>12. UnreadIntact'
    <2>1. Dist(fqh, fqt)' = d + 1
      BY <1>2, <1>4, <1>7 DEF Dist
    <2>2. Len(logged') = Len(delivered') + (d + 1)
      BY <1>1, <1>2, <1>6, <1>8 DEF Index
    <2>3. ASSUME NEW i \in Index, i < d + 1
          PROVE  fault_queue[Wrap(fqh + i)] = logged'[n + 1 + i]
      <3>1. CASE i < d
        <4>1. fault_queue[Wrap(fqh + i)] = logged[n + 1 + i]
          BY <1>3, <3>1 DEF QueueInv, UnreadIntact
        <4>2. n + 1 + i \in 1 .. Len(logged)
          BY <1>1, <1>6, <3>1 DEF Index
        <4> QED BY <1>8, <4>1, <4>2
      <3>2. CASE i = d
        <4>1. Wrap(fqh + i) = fqt
          BY <1>1, <3>2, TailIsFree
        <4>2. n + 1 + i = Len(logged) + 1
          BY <1>1, <1>6, <3>2 DEF Index
        <4> QED BY <1>5, <1>8, <4>1, <4>2
      <3> QED BY <1>1, <2>3, <3>1, <3>2 DEF Index
    <2> QED BY <1>2, <2>1, <2>2, <2>3 DEF UnreadIntact
  <1>13. LocalAgreement'
    BY <1>1, <1>2, <1>3, <1>7, <1>8 DEF QueueInv, LocalAgreement
  <1> QED BY <1>9, <1>10, <1>11, <1>12, <1>13 DEF QueueInv

\* Every step of the driver and of the IOMMU preserves the invariant.
LEMMA FaultStep == QueueInv /\ [Next]_vars => QueueInv'
  <1> SUFFICES ASSUME QueueInv, [Next]_vars PROVE QueueInv'
    OBVIOUS
  <1>1. CASE UNCHANGED vars
    BY <1>1 DEF QueueInv, TypeOK, DeliveredInOrder, EmptyIsTrue, UnreadIntact,
       LocalAgreement, Full, Dist
  <1>2. CASE Setup
    BY <1>2, FaultSetup
  <1>3. CASE ReadHead \/ Read
    BY <1>3, FaultReadSteps, FaultWriteHead DEF Read
  <1>4. CASE IOMMU
    BY <1>4, FaultRaise, FaultStore, FaultAdvance DEF IOMMU
  <1> QED BY <1>1, <1>2, <1>3, <1>4 DEF Next

(***************************************************************************)
(* The invariant of the fault queue holds in every behaviour, whatever the *)
(* size of the queue and the interleaving of driver and IOMMU.             *)
(***************************************************************************)
THEOREM FaultInvariant == Spec => []QueueInv
  BY FaultInit, FaultStep, PTL DEF Spec

(***************************************************************************)
(* rv_iommu_fq_read_record delivers the logged records whole and in order, *)
(* says "none" only when there was none, and leaves those not yet read as  *)
(* the IOMMU wrote them.                                                   *)
(***************************************************************************)
THEOREM FaultSafety ==
  Spec => [](TypeOK /\ DeliveredInOrder /\ EmptyIsTrue /\ UnreadIntact)
  <1>1. QueueInv => TypeOK /\ DeliveredInOrder /\ EmptyIsTrue /\ UnreadIntact
    BY DEF QueueInv
  <1> QED BY <1>1, FaultInvariant, PTL

-----------------------------------------------------------------------------
(***************************************************************************)
(* The queue implements the log.                                           *)
(***************************************************************************)

\* A full queue holds Entries - 1 records that were not delivered.
LEMMA FullIsCapacity ==
  ASSUME QueueInv, fqon
  PROVE  /\ Full => Len(logged) - Len(delivered) = Entries - 1
         /\ ~Full => Len(logged) - Len(delivered) < Entries - 1
  <1>1. pc # "init"
    BY DEF QueueInv, LocalAgreement
  <1>2. Len(logged) = Len(delivered) + Dist(fqh, fqt)
    BY <1>1 DEF QueueInv, UnreadIntact
  <1> QED BY <1>2, FaultNumbers, EntriesAssumption DEF Full, Index

\* Every step of the queue is a step of the log or leaves it unchanged.
LEMMA FaultStepImplements ==
  ASSUME QueueInv, [Next]_vars
  PROVE  [Log!Next]_Log!vars
  <1> USE DEF Log!vars
  <1>1. CASE UNCHANGED <<logged, delivered, fqof>>
    BY <1>1
  <1>2. CASE WriteHead
    <2>1. Len(delivered) < Len(logged)
      BY <1>2, BufferWhole, FaultNumbers
    <2>2. Log!Deliver
      BY <1>2, <2>1, BufferWhole DEF WriteHead, Log!Deliver
    <2> QED BY <2>2 DEF Log!Next
  <1>3. CASE Advance
    <2>1. record \in Faults /\ fqon /\ ~Full
      BY <1>3 DEF Advance, QueueInv, TypeOK, Dword, LocalAgreement
    <2>2. Log!Log(Whole(record)) /\ Whole(record) \in Words
      BY <1>3, <2>1, FullIsCapacity DEF Advance, Log!Log, Words
    <2> QED BY <2>2 DEF Log!Next
  <1>4. CASE Drop
    <2>1. Len(logged) - Len(delivered) = Entries - 1 \/ fqof
      BY <1>4, FullIsCapacity DEF Drop
    <2> QED BY <1>4, <2>1 DEF Drop, Log!Next, Log!Drop
  <1>5. \/ UNCHANGED <<logged, delivered, fqof>>
        \/ WriteHead \/ Advance \/ Drop
    BY DEF Next, Setup, InitHead, InitEnable, InitPoll, Read, ReadHead, ReadTail,
       ReturnEmpty, ReadDword, IOMMU, TurnOn, Raise, Store
  <1> QED BY <1>1, <1>2, <1>3, <1>4, <1>5

(***************************************************************************)
(* Driver and IOMMU together implement the log of faults: whatever the     *)
(* interleaving, a caller may think of rv_iommu_fq_read_record as taking   *)
(* the first element of a sequence to which the IOMMU appends.             *)
(***************************************************************************)
THEOREM FaultImplementsLog == Spec => ImplementsLog
  <1>1. Init => Log!Init
    BY DEF Init, Log!Init
  <1>2. QueueInv /\ [Next]_vars => [Log!Next]_Log!vars
    BY FaultStepImplements
  <1> QED BY <1>1, <1>2, FaultInvariant, PTL DEF Spec, ImplementsLog, Log!Spec

=============================================================================
