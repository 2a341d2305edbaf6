----------------------------- MODULE FaultQueue -----------------------------
(***************************************************************************)
(* The fault queue: the IOMMU writes records to the array fault_queue and  *)
(* moves fqt, rv_iommu_fq_read_record reads a record by double words and   *)
(* moves fqh.  A fault may be raised at any moment, in particular between  *)
(* any two accesses of a read.                                             *)
(***************************************************************************)
EXTENDS Ring, Sequences

CONSTANTS
  Faults,         \* what a record tells: the cause, with all that goes with it
  Blank,          \* a double word of the array that was never written
  Budget          \* bound on the number of faults of a behaviour

ASSUME FaultAssumption ==
  /\ Blank \notin Faults
  /\ Budget \in Nat

VARIABLES
  fault_queue,  \* the array: the double words of each slot
  fqh, fqt,     \* head and tail registers
  fqen, fqon,   \* fqcsr: enable request and "queue is on"
  fqof,         \* fqcsr: overflow, which the driver never clears
  record,       \* the fault the IOMMU is logging, Blank if none
  stored,       \* how many double words of it are in memory
  pc,           \* the driver's next access
  head, limit,  \* the driver's copies of fqh and fqt
  buf,          \* the caller's buffer
  next,         \* the next double word to read
  ret,          \* what the last call returned, 1 before the first
  raised,       \* history: how many faults were raised
  logged,       \* history: the records made visible by moving fqt
  delivered,    \* history: the records handed to callers
  seen          \* history: Len(logged) when fqt was last read

registers == <<fqh, fqt, fqen, fqon, fqof>>
engine    == <<record, stored>>
local     == <<head, limit, buf, next, ret>>
history   == <<raised, logged, delivered, seen>>
vars      == <<fault_queue, registers, engine, pc, local, history>>

Dwords == 0 .. 3        \* of a record of 32 bytes
Dword  == Faults \cup {Blank}
Slot   == [Dwords -> Dword]

Whole(f) == [k \in Dwords |-> f]
Words    == {Whole(f) : f \in Faults}

Init ==
  /\ fault_queue = [i \in Index |-> Whole(Blank)]
  /\ fqh \in Index
  /\ fqt \in Index
  /\ fqen = FALSE
  /\ fqon = FALSE
  /\ fqof = FALSE
  /\ record = Blank
  /\ stored = 0
  /\ pc = "init"
  /\ head = 0
  /\ limit = 0
  /\ buf = Whole(Blank)
  /\ next = 0
  /\ ret = 1
  /\ raised = 0
  /\ logged = << >>
  /\ delivered = << >>
  /\ seen = 0

-----------------------------------------------------------------------------
(* rv_iommu_fq_init *)

\* With a bug: fqh starts at zero, as the comment in init_iommu has it.
InitHeadZero ==
  /\ pc = "init"
  /\ fqh' = 0
  /\ pc' = "enable"
  /\ UNCHANGED <<fault_queue, fqt, fqen, fqon, fqof, engine, local, history>>

InitHead ==
  /\ pc = "init"
  /\ fqh' = fqt
  /\ pc' = "enable"
  /\ UNCHANGED <<fault_queue, fqt, fqen, fqon, fqof, engine, local, history>>

InitEnable ==
  /\ pc = "enable"
  /\ fqen' = TRUE
  /\ pc' = "poll"
  /\ UNCHANGED <<fault_queue, fqh, fqt, fqon, fqof, engine, local, history>>

InitPoll ==
  /\ pc = "poll"
  /\ fqon
  /\ pc' = "ready"
  /\ UNCHANGED <<fault_queue, registers, engine, local, history>>

-----------------------------------------------------------------------------
(* rv_iommu_fq_read_record *)

ReadHead ==
  /\ pc = "ready"
  /\ head' = fqh
  /\ pc' = "tail"
  /\ UNCHANGED <<fault_queue, registers, engine, limit, buf, next, ret, history>>

\* With a bug: the value of fqt read by an earlier call is used.
ReadTailStale ==
  /\ pc = "tail"
  /\ seen' = Len(logged)
  /\ pc' = "compare"
  /\ UNCHANGED <<fault_queue, registers, engine, head, limit, buf, next, ret, raised, logged,
                 delivered>>

ReadTail ==
  /\ pc = "tail"
  /\ limit' = fqt
  /\ seen' = Len(logged)
  /\ pc' = "compare"
  /\ UNCHANGED <<fault_queue, registers, engine, head, buf, next, ret, raised, logged, delivered>>

ReturnEmpty ==
  /\ pc = "compare"
  /\ head = limit
  /\ ret' = -1
  /\ pc' = "ready"
  /\ UNCHANGED <<fault_queue, registers, engine, head, limit, buf, next, history>>

\* With a bug: the record at fqt is read.
ReadDwordAtTail ==
  /\ pc = "compare"
  /\ head # limit
  /\ next \in Dwords
  /\ buf' = [buf EXCEPT ![next] = fault_queue[limit][next]]
  /\ next' = next + 1
  /\ UNCHANGED <<fault_queue, registers, engine, pc, head, limit, ret, history>>

ReadDword ==
  /\ pc = "compare"
  /\ head # limit
  /\ next \in Dwords
  /\ buf' = [buf EXCEPT ![next] = fault_queue[head][next]]
  /\ next' = next + 1
  /\ UNCHANGED <<fault_queue, registers, engine, pc, head, limit, ret, history>>

\* With a bug: fqh is written back as it was read.
WriteHeadUnmoved ==
  /\ pc = "compare"
  /\ head # limit
  /\ next \notin Dwords
  /\ next' = 0
  /\ ret' = 0
  /\ delivered' = Append(delivered, buf)
  /\ pc' = "ready"
  /\ UNCHANGED <<fault_queue, registers, engine, head, limit, buf, raised, logged, seen>>

\* With a bug: the records after the one read are skipped.
WriteHeadToTail ==
  /\ pc = "compare"
  /\ head # limit
  /\ next \notin Dwords
  /\ fqh' = limit
  /\ next' = 0
  /\ ret' = 0
  /\ delivered' = Append(delivered, buf)
  /\ pc' = "ready"
  /\ UNCHANGED <<fault_queue, fqt, fqen, fqon, fqof, engine, head, limit, buf, raised, logged,
                 seen>>

WriteHead ==
  /\ pc = "compare"
  /\ head # limit
  /\ next \notin Dwords
  /\ head' = head + 1
  /\ fqh' = Wrap(head + 1)
  /\ next' = 0
  /\ ret' = 0
  /\ delivered' = Append(delivered, buf)
  /\ pc' = "ready"
  /\ UNCHANGED <<fault_queue, fqt, fqen, fqon, fqof, engine, limit, buf, raised, logged, seen>>

-----------------------------------------------------------------------------
(* The IOMMU *)

TurnOn ==
  /\ fqen
  /\ ~fqon
  /\ fqon' = TRUE
  /\ UNCHANGED <<fault_queue, fqh, fqt, fqen, fqof, engine, pc, local, history>>

Full == Dist(fqh, fqt) = Entries - 1

\* A fault is raised and the IOMMU starts to log it.
Raise(f) ==
  /\ fqon
  /\ record = Blank
  /\ raised < Budget
  /\ ~Full
  /\ raised' = raised + 1
  /\ record' = f
  /\ UNCHANGED <<fault_queue, registers, stored, pc, local, logged, delivered, seen>>

\* A fault is raised and finds no room.  The driver never clears fqof and
\* relies on nothing once it is set: logging may then go on or stay suspended.
Drop ==
  /\ fqon
  /\ record = Blank
  /\ raised < Budget
  /\ Full \/ fqof
  /\ raised' = raised + 1
  /\ fqof' = TRUE
  /\ UNCHANGED <<fault_queue, fqh, fqt, fqen, fqon, engine, pc, local, logged, delivered, seen>>

Store ==
  /\ record # Blank
  /\ stored \in Dwords
  /\ fault_queue' = [fault_queue EXCEPT ![fqt] = [@ EXCEPT ![stored] = record]]
  /\ stored' = stored + 1
  /\ UNCHANGED <<registers, record, pc, local, history>>

Advance ==
  /\ record # Blank
  /\ stored \notin Dwords
  /\ fqt' = Wrap(fqt + 1)
  /\ logged' = Append(logged, Whole(record))
  /\ record' = Blank
  /\ stored' = 0
  /\ UNCHANGED <<fault_queue, fqh, fqen, fqon, fqof, pc, local, raised, delivered, seen>>

-----------------------------------------------------------------------------
Setup == InitHead \/ InitEnable \/ InitPoll
Read  == ReadTail \/ ReturnEmpty \/ ReadDword \/ WriteHead
IOMMU == TurnOn \/ (\E f \in Faults : Raise(f)) \/ Drop \/ Store \/ Advance

Next == Setup \/ ReadHead \/ Read \/ IOMMU

Spec == Init /\ [][Next]_vars

(***************************************************************************)
(* The IOMMU finishes what it started, and so does the hart that is in     *)
(* rv_iommu_fq_read_record.  No fairness makes a test call that function:  *)
(* each one reads as many records as it expects, and may leave others.     *)
(***************************************************************************)
FairSpec ==
  /\ Spec
  /\ WF_vars(Setup)
  /\ WF_vars(Read)
  /\ WF_vars(TurnOn) /\ WF_vars(Store) /\ WF_vars(Advance)

-----------------------------------------------------------------------------
(* Every variable has its type. *)
TypeOK ==
  /\ fault_queue \in [Index -> Slot]
  /\ fqh \in Index
  /\ fqt \in Index
  /\ fqen \in BOOLEAN
  /\ fqon \in BOOLEAN
  /\ fqof \in BOOLEAN
  /\ record \in Dword
  /\ stored \in 0 .. 4
  /\ pc \in {"init", "enable", "poll", "ready", "tail", "compare"}
  /\ head \in 0 .. Entries
  /\ limit \in Index
  /\ buf \in Slot
  /\ next \in 0 .. 4
  /\ ret \in {-1, 0, 1}
  /\ raised \in Nat
  /\ logged \in Seq(Words)
  /\ delivered \in Seq(Slot)
  /\ seen \in Nat

(* Callers get the records that were logged, in order, each one once and    *)
(* whole, although faults are raised while a record is being read.          *)
DeliveredInOrder ==
  /\ Len(delivered) <= Len(logged)
  /\ \A k \in 1 .. Len(delivered) : delivered[k] = logged[k]

(* rv_iommu_fq_read_record says "no record" only when all that were logged  *)
(* by the time it read fqt have been delivered, and otherwise delivers one  *)
(* that was there at that time.                                             *)
EmptyIsTrue ==
  /\ pc = "ready" /\ ret = -1 => Len(delivered) = seen
  /\ pc = "compare" /\ head = limit => Len(delivered) = seen
  /\ Len(delivered) <= seen

(* The records between the two registers are those not yet delivered, each  *)
(* one intact: the IOMMU never writes to a slot that was not read.          *)
UnreadIntact ==
  pc # "init" =>
    /\ Len(logged) = Len(delivered) + Dist(fqh, fqt)
    /\ \A i \in Index :
         i < Dist(fqh, fqt) =>
           fault_queue[Wrap(fqh + i)] = logged[Len(delivered) + 1 + i]

(* What the two sides hold between two accesses agrees with the queue.      *)
LocalAgreement ==
  /\ pc \in {"init", "enable", "poll"} => seen = 0 /\ Len(delivered) = 0
  /\ pc \in {"init", "enable"} => ~fqen
  /\ ~fqen => ~fqon
  /\ ~fqon => record = Blank /\ Len(logged) = 0
  /\ seen <= Len(logged)
  /\ pc \in {"tail", "compare"} => head = fqh
  /\ pc = "compare" =>
       /\ seen = Len(delivered) + Dist(head, limit)
       /\ head # limit => \A k \in Dwords : k < next => buf[k] = fault_queue[head][k]
  /\ pc # "compare" => next = 0
  /\ pc = "compare" /\ head = limit => next = 0
  /\ record = Blank => stored = 0
  /\ record # Blank =>
       /\ ~Full
       /\ \A k \in Dwords : k < stored => fault_queue[fqt][k] = record

(* All of the above together are preserved by every step: a read is right   *)
(* because the record it reads stays in place, and that stays in place      *)
(* because the IOMMU fills the slot after the unread ones.                  *)
QueueInv ==
  /\ TypeOK
  /\ DeliveredInOrder
  /\ EmptyIsTrue
  /\ UnreadIntact
  /\ LocalAgreement

(* A call ends, whatever the IOMMU logs meanwhile, and one made while a      *)
(* record waits delivers a record: as many calls as records empty the queue. *)
CallsDeliver ==
  /\ pc = "tail" ~> pc = "ready"
  /\ \A k \in 0 .. Budget - 1 :
       (pc = "tail" /\ Len(delivered) = k /\ Len(logged) > k) ~> Len(delivered) > k

Log == INSTANCE FaultLog WITH Records <- Words, Capacity <- Entries - 1,
                              overflow <- fqof

(* The queue implements the log. *)
ImplementsLog == Log!Spec

=============================================================================
