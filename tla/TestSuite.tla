------------------------------ MODULE TestSuite ------------------------------
(***************************************************************************)
(* main() runs the registered tests one after the other on one IOMMU, and  *)
(* nothing puts the IOMMU back between two of them: TEST_END resets the    *)
(* hart only.  The device contexts in memory, what the IOMMU caches of     *)
(* them, its queues and its registers carry over.  This module runs        *)
(* TestPrograms step by step against the IOMMU as the tests rely on it.    *)
(*                                                                         *)
(* The IOMMU executes commands on its own.  When it lags it may do so at   *)
(* any time after they were queued; else before the hart's next step.      *)
(***************************************************************************)
EXTENDS TestPages, TestPrograms

CONSTANTS
  Starts,        \* the tests that run, where cqh stands when init_iommu runs,
                 \* and whether the hart can overtake the command queue
  LogLevel,      \* LOG_LEVEL
  CqEntries      \* CQ_N_ENTRIES

LOG_INFO == 2
LOG_DETAIL == 3
LOG_VERBOSE == 5

\* TEST_REGISTER defines a name of its own for each test: none is there twice.
ASSUME SuiteAssumption ==
  /\ \A s \in Starts :
       /\ s.suite \in Seq(DOMAIN Program) /\ s.head \in 0 .. CqEntries - 1 /\ s.lag \in BOOLEAN
       /\ \A i, j \in DOMAIN s.suite : s.suite[i] = s.suite[j] => i = j
  /\ LogLevel \in 0 .. 6
  /\ CqEntries \in Nat \ {0}

VARIABLES
  suite, index,            \* main: the test table and the loop's i
  lag,                     \* whether the command queue may lag behind the hart
  status,                  \* "main", "running", "error" or "done"
  pc,                      \* the next step of the test that runs
  ddtp, dc,                \* ddtp.mode and the device context in memory
  ddtc, iotlb,             \* what the IOMMU caches of memory
  swapped,                 \* stages whose switch entries are exchanged
  cq, cqh,                 \* commands that wait, and the head register
  events, csr,             \* sticky bits of cqcsr; the value last read
  cqhRead,                 \* the value of cqh last read
  ipsr, igs,               \* pending interrupts; fctl: "wsi" or "msi"
  masked, held,            \* causes whose vector is masked; messages it holds back
  fq, record,              \* records not read yet; the one last read
  armed, overflowed,       \* counters at their limit; those with OF set
  response,                \* of the debug interface
  mem,                     \* the words of memory that were written
  test_status, num_total_tests, num_succ_tests,
  verdicts,                \* what TEST_END printed
  falsified,               \* history: the assertions that failed
  excused,                 \* history: tests that met what an earlier one left in
                           \* the IOMMU, or a cqh about to wrap
  overtook                 \* history: tests that went on while commands waited

main    == <<suite, index, status>>
caches  == <<ddtc, iotlb>>
queue   == <<cq, cqh, events>>
reads   == <<csr, cqhRead, record, response>>
irq     == <<ipsr, held>>
control == <<igs, masked>>
count   == <<armed, overflowed>>
results == <<test_status, num_total_tests, num_succ_tests, verdicts, falsified>>
vars == <<main, lag, pc, ddtp, dc, caches, swapped, queue, reads, irq, control, fq, count,
          mem, results, excused, overtook>>

NoContext == [s1 |-> "none", s2 |-> "none", msi |-> "none"]
NoAddress == <<"none", "none">>
Junk == "junk"

test == suite[index]
Step == Program[test][pc]

\* What stands in memory at a; nobody knows what was never written.
At(m, a) == IF a \in DOMAIN m THEN m[a] ELSE Junk

\* Memory m once x is stored at a.
Put(m, a, x) ==
  IF a \in DOMAIN m THEN [m EXCEPT ![a] = x]
  ELSE [b \in DOMAIN m \cup {a} |-> IF b = a THEN x ELSE m[b]]

-----------------------------------------------------------------------------
(***************************************************************************)
(* After init_iommu: the command queue is empty wherever cqh was, the CQ   *)
(* vector starts masked (MSI_VCTL_CQ), mrif_init has cleared both bits.    *)
(***************************************************************************)
Init ==
  /\ \E s \in Starts : suite = s.suite /\ cqh = s.head /\ lag = s.lag
  /\ index = 0 /\ status = "main" /\ pc = 1
  /\ ddtp = "off"
  /\ dc = [s1 |-> "bare", s2 |-> "bare", msi |-> "off"]
  /\ ddtc = NoContext /\ iotlb = {}
  /\ swapped = {}
  /\ cq = << >> /\ events = {}
  /\ csr = {} /\ cqhRead = 0
  /\ ipsr = {} /\ held = {}
  /\ igs = "wsi" /\ masked = {"cip"}
  /\ fq = << >> /\ record = [cause |-> "none", iova |-> NoAddress, by |-> "none"]
  /\ armed = {} /\ overflowed = {}
  /\ response = NoAddress
  /\ mem = [a \in {word("INT_IP_1"), word("INT_IP_2")} |-> "0"]
  /\ test_status = TRUE /\ num_total_tests = 0 /\ num_succ_tests = 0
  /\ verdicts = << >> /\ falsified = {} /\ excused = {} /\ overtook = {}

-----------------------------------------------------------------------------
(* Interrupts *)

MsiWord == [cip |-> word("MSI_ADDR_CQ"), fip |-> word("MSI_ADDR_FQ"),
            pmip |-> word("MSI_ADDR_HPM")]
MsiData == [cip |-> "MSI_DATA_CQ", fip |-> "MSI_DATA_FQ", pmip |-> "MSI_DATA_HPM"]

\* Memory m with the messages of these causes.
WithMessages(m, causes) ==
  LET told == {MsiWord[c] : c \in causes}
  IN IF causes = {} THEN m
     ELSE [a \in DOMAIN m \cup told |->
             IF a \in told THEN MsiData[CHOOSE c \in causes : MsiWord[c] = a] ELSE m[a]]

\* The causes become pending and memory becomes m, with the messages of
\* those that were not pending yet.
Pend(causes, m) ==
  LET new == IF igs = "msi" THEN causes \ ipsr ELSE {}
  IN /\ ipsr' = ipsr \cup causes
     /\ held' = held \cup (new \cap masked)
     /\ mem' = WithMessages(m, new \ masked)

-----------------------------------------------------------------------------
(* The IOMMU's own steps *)

Fetching   == cq # << >> /\ "cmd_ill" \notin events
Signalling == events # {} /\ "cip" \notin ipsr

\* With a bug: IODIR.INVAL_DDT leaves the cached context.
InvalidateKeepsContext(command) ==
  /\ ddtc' = ddtc
  /\ iotlb' = CASE command = "vma"  -> {e \in iotlb : e.s1 # "sv39"}
                [] command = "gvma" -> {e \in iotlb : e.s2 # "sv39x4"}
                [] OTHER -> iotlb

\* With a bug: IOTINVAL.GVMA names a GSCID that no context has.
InvalidateMissesGvma(command) ==
  /\ ddtc' = IF command = "ddt_inval" THEN NoContext ELSE ddtc
  /\ iotlb' = IF command = "vma" THEN {e \in iotlb : e.s1 # "sv39"} ELSE iotlb

\* What is left of the caches after an invalidation command.  The commands
\* name the one GSCID and the one PSCID that every device context has.
Invalidate(command) ==
  /\ ddtc' = IF command = "ddt_inval" THEN NoContext ELSE ddtc
  /\ iotlb' = CASE command = "vma"  -> {e \in iotlb : e.s1 # "sv39"}
                [] command = "gvma" -> {e \in iotlb : e.s2 # "sv39x4"}
                [] OTHER -> iotlb

Consume == cq' = Tail(cq) /\ cqh' = (cqh + 1) % CqEntries

\* The IOFENCE.C of the tests sets its WSI bit, which is reserved while fctl
\* does not select wired interrupts: the IOMMU may then report the completion
\* in fence_w_ip, complete without a word, or reject the command.
Reserved(command) == command = "iofence" /\ igs = "msi"

Execute ==
  /\ Fetching
  /\ Head(cq) # "illegal"
  /\ Consume
  /\ Invalidate(Head(cq))
  /\ \/ /\ Head(cq) = "iofence"
        /\ events' = events \cup {"fence_w_ip"}
     \/ /\ Head(cq) # "iofence" \/ Reserved(Head(cq))
        /\ UNCHANGED events
  /\ mem' = IF Head(cq) = "iofence" THEN Put(mem, word("IOFENCE_ADDR"), "IOFENCE_DATA") ELSE mem
  /\ UNCHANGED <<main, pc, ddtp, dc, swapped, reads, irq, control, fq, count, results, excused, lag, overtook>>

\* The tests never repair or skip the command they had rejected and go on
\* using the queue: they rely on cqh moving past it.
Reject ==
  /\ Fetching
  /\ Head(cq) = "illegal" \/ Reserved(Head(cq))
  /\ Consume
  /\ events' = events \cup {"cmd_ill"}
  /\ UNCHANGED <<main, pc, ddtp, dc, caches, swapped, reads, irq, control, fq, count, mem,
                 results, excused, lag, overtook>>

Signal ==
  /\ Signalling
  /\ Pend({"cip"}, mem)
  /\ UNCHANGED <<main, pc, ddtp, dc, caches, swapped, queue, reads, control, fq, count,
                 results, excused, lag, overtook>>

CyclesOverflow ==
  /\ "cycles" \in armed
  /\ armed' = armed \ {"cycles"}
  /\ overflowed' = overflowed \cup {"cycles"}
  /\ Pend({"pmip"}, mem)
  /\ UNCHANGED <<main, pc, ddtp, dc, caches, swapped, queue, reads, control, fq, results, excused, lag, overtook>>

IOMMU == Execute \/ Reject \/ Signal \/ CyclesOverflow

-----------------------------------------------------------------------------
(* The hart: one action per kind of step *)

Behind  == cq # << >> \/ Signalling
Settled == lag \/ ~(Fetching \/ Signalling)

Doing(op) ==
  /\ status = "running"
  /\ pc <= Len(Program[test])
  /\ Step.op = op
  /\ Settled
  /\ pc' = pc + 1
  /\ overtook' = IF Behind THEN overtook \cup {test} ELSE overtook
  /\ UNCHANGED lag

SetDdtp ==
  /\ Doing("ddtp")
  /\ ddtp' = Step.mode
  /\ UNCHANGED <<main, dc, caches, swapped, queue, reads, irq, control, fq, count, mem,
                 results, excused>>

\* With a bug: every mode is written to DC.fsc.
SetContextFsc ==
  /\ Doing("context")
  /\ dc' = [dc EXCEPT !.s1 = Step.mode]
  /\ UNCHANGED <<main, ddtp, caches, swapped, queue, reads, irq, control, fq, count, mem,
                 results, excused>>

SetContext ==
  /\ Doing("context")
  /\ dc' = [dc EXCEPT ![Step.field] = Step.mode]
  /\ UNCHANGED <<main, ddtp, caches, swapped, queue, reads, irq, control, fq, count, mem,
                 results, excused>>

SetIgs ==
  /\ Doing("igs")
  /\ igs' = Step.mode
  /\ UNCHANGED <<main, ddtp, dc, caches, swapped, queue, reads, irq, masked, fq, count, mem,
                 results, excused>>

WriteCommand ==
  /\ Doing("command")
  /\ cq' = Append(cq, Step.command)
  /\ excused' = IF Reserved(Step.command) THEN excused \cup {test} ELSE excused
  /\ UNCHANGED <<main, ddtp, dc, caches, swapped, cqh, events, reads, irq, control, fq,
                 count, mem, results>>

WriteMemory ==
  /\ Doing("store")
  /\ mem' = Put(mem, Step.at, Step.value)
  /\ UNCHANGED <<main, ddtp, dc, caches, swapped, queue, reads, irq, control, fq, count,
                 results, excused>>

SwitchTables ==
  /\ Doing("switch")
  /\ swapped' = (swapped \ {Step.stage}) \cup ({Step.stage} \ swapped)
  /\ UNCHANGED <<main, ddtp, dc, caches, queue, reads, irq, control, fq, count, mem,
                 results, excused>>

\* With a bug: the counter stays inhibited.
ArmCounterInhibited ==
  /\ Doing("arm")
  /\ overflowed' = overflowed \ ({Step.counter} \cap {"cycles"})
  /\ UNCHANGED <<main, ddtp, dc, caches, swapped, queue, reads, irq, control, fq, armed, mem,
                 results, excused>>

\* Arming the cycle counter writes iohpmcycles, whose top bit is its OF; the
\* OF bit of an event counter is in iohpmevt and stays.
ArmCounter ==
  /\ Doing("arm")
  /\ armed' = armed \cup {Step.counter}
  /\ overflowed' = overflowed \ ({Step.counter} \cap {"cycles"})
  /\ UNCHANGED <<main, ddtp, dc, caches, swapped, queue, reads, irq, control, fq, mem,
                 results, excused>>

\* The loop on iohpmcycles ends once its top bit is set.
LeavePoll ==
  /\ Doing("poll")
  /\ "cycles" \in overflowed
  /\ UNCHANGED <<main, ddtp, dc, caches, swapped, queue, reads, irq, control, fq, count, mem,
                 results, excused>>

ReadCqh ==
  /\ Doing("cqh")
  /\ cqhRead' = cqh
  /\ excused' = IF cqh = CqEntries - 1 THEN excused \cup {test} ELSE excused
  /\ UNCHANGED <<main, ddtp, dc, caches, swapped, queue, csr, record, response, irq, control,
                 fq, count, mem, results>>

ReadCsr ==
  /\ Doing("cqcsr")
  /\ csr' = events
  /\ UNCHANGED <<main, ddtp, dc, caches, swapped, queue, cqhRead, record, response, irq,
                 control, fq, count, mem, results, excused>>

WriteCsr ==
  /\ Doing("set_cqcsr")
  /\ events' = events \ csr
  /\ UNCHANGED <<main, ddtp, dc, caches, swapped, cq, cqh, reads, irq, control, fq, count,
                 mem, results, excused>>

\* With a bug: the function clears what its name says.
ClearedFip == {"fip"}

\* It writes 7, so every cause is cleared and not fip alone.
Cleared == {"cip", "fip", "pmip"}

ClearIpsrFip ==
  /\ Doing("clear_ipsr")
  /\ ipsr' = ipsr \ Cleared
  /\ UNCHANGED <<main, ddtp, dc, caches, swapped, queue, reads, held, control, fq, count, mem,
                 results, excused>>

Unmask ==
  /\ Doing("unmask")
  /\ masked' = masked \ {"cip"}
  /\ held' = held \ {"cip"}
  /\ mem' = WithMessages(mem, held \cap {"cip"})
  /\ UNCHANGED <<main, ddtp, dc, caches, swapped, queue, reads, ipsr, igs, fq, count,
                 results, excused>>

-----------------------------------------------------------------------------
(* What the IOMMU makes of an address *)

\* The context it translates with: a cached one is used until it is
\* invalidated, whatever was written to the device context meanwhile.
InUse == IF ddtc # NoContext THEN ddtc ELSE dc
Stale == ddtp = "1lvl" /\ InUse # dc

Hits(a, access, tlb) ==
  {e \in tlb : e.iova = a /\ e.access = access /\ e.s1 = InUse.s1 /\ e.s2 = InUse.s2}

Translated(a, access, tlb) ==
  CASE ddtp = "off"  -> Fault("ALL_INB_TRANSACTIONS_DISALLOWED")
    [] ddtp = "bare" -> Reached(a)
    [] ddtp = "1lvl" -> LET hits == Hits(a, access, tlb)
                        IN IF hits # {} THEN Reached((CHOOSE e \in hits : TRUE).to)
                                        ELSE Walk(a, access, InUse, swapped)

\* A translation that succeeds is cached, one to an MSI page is not.
Filled(a, access, tlb) ==
  LET r == Translated(a, access, tlb)
  IN IF ddtp = "1lvl" /\ r.ok /\ r.to[1] # "msi"
     THEN tlb \cup {[iova |-> a, access |-> access, s1 |-> InUse.s1, s2 |-> InUse.s2,
                     to |-> r.to]}
     ELSE tlb

WalksStage1(a, access, tlb) ==
  ddtp = "1lvl" /\ InUse.s1 = "sv39" /\ Hits(a, access, tlb) = {}

\* mrif_init: where the pending bit of each identity is, and which one is
\* enabled.  The interface discards every other identity.
PendingBit == [INT_ID_1 |-> word("INT_IP_1"), INT_ID_2 |-> word("INT_IP_2")]
EnabledIds == {"INT_ID_1"}

InMrif(m, id, notice) ==
  CASE id \notin DOMAIN PendingBit -> m
    [] id \in EnabledIds -> Put(Put(m, notice, "NOTICE_DATA"), PendingBit[id], "1")
    [] id \in DOMAIN PendingBit \ EnabledIds -> Put(m, PendingBit[id], "1")

ThroughMsiEntry(m, entry, data) ==
  CASE entry.mode = "basic"  -> Put(m, entry.file, data)
    [] entry.mode = "mrif"   -> InMrif(m, data, entry.notice)
    [] entry.mode = "custom" -> m

\* Memory after data was written to an address that translation reached.
\* There is no memory at a virtual page that no stage translated.
Written(m, a, data) ==
  CASE a[1] = "v"   -> m
    [] a[1] = "msi" -> ThroughMsiEntry(m, MsiEntry(a[2]), data)
    [] a[1] \notin {"v", "msi"} -> Put(m, a, data)

\* The fault of a result, if any, as the records to append to the queue.
FaultRecord(r, a) ==
  IF ~r.ok THEN <<[cause |-> r.cause, iova |-> a, by |-> test]>> ELSE << >>

\* A write to a misconfigured entry of msi_pt faults there.
MsiChecked(r) ==
  IF r.ok /\ r.to[1] = "msi" /\ MsiEntry(r.to[2]).mode = "custom"
  THEN Fault("MSI_PTE_INVALID") ELSE r

-----------------------------------------------------------------------------
(***************************************************************************)
(* idma_setup and idma_exec_transfer: the device reads, then writes what   *)
(* it read, or whatever it has when the read failed, and the call returns  *)
(* when both are done.                                                     *)
(***************************************************************************)
DmaTransfer ==
  LET src   == Step.src
      dst   == Step.dst
      r     == Translated(src, "read", iotlb)
      tlb   == Filled(src, "read", iotlb)
      w     == MsiChecked(Translated(dst, "write", tlb))
      faults == FaultRecord(r, src) \o FaultRecord(w, dst)
      counted == /\ "iohpmctr3" \in armed
                 /\ WalksStage1(src, "read", iotlb) \/ WalksStage1(dst, "write", tlb)
      data  == IF r.ok THEN At(mem, r.to) ELSE Junk
  IN /\ Doing("transfer")
     /\ ddtc' = IF ddtp = "1lvl" THEN InUse ELSE ddtc
     /\ iotlb' = Filled(dst, "write", tlb)
     /\ fq' = fq \o faults
     /\ armed' = IF counted THEN armed \ {"iohpmctr3"} ELSE armed
     /\ overflowed' = IF counted THEN overflowed \cup {"iohpmctr3"} ELSE overflowed
     /\ Pend((IF faults # << >> THEN {"fip"} ELSE {}) \cup
               (IF counted /\ "iohpmctr3" \notin overflowed THEN {"pmip"} ELSE {}),
             IF w.ok THEN Written(mem, w.to, data) ELSE mem)
     /\ excused' = IF Stale THEN excused \cup {test} ELSE excused
     /\ UNCHANGED <<main, ddtp, dc, swapped, queue, reads, control, results>>

\* rv_iommu_dbg_set_iova to the end of the wait for the request: a write is
\* translated, and an MSI page is refused.
DebugTranslate ==
  LET a == Step.iova
      t == Translated(a, "write", iotlb)
      r == IF t.ok /\ t.to[1] = "msi" THEN Fault("TRANS_TYPE_DISALLOWED") ELSE t
  IN /\ Doing("translate")
     /\ response' = IF r.ok THEN r.to ELSE NoAddress
     /\ ddtc' = IF ddtp = "1lvl" THEN InUse ELSE ddtc
     /\ iotlb' = Filled(a, "write", iotlb)
     /\ fq' = fq \o FaultRecord(r, a)
     /\ Pend(IF r.ok THEN {} ELSE {"fip"}, mem)
     /\ excused' = IF Stale THEN excused \cup {test} ELSE excused
     /\ UNCHANGED <<main, ddtp, dc, swapped, queue, csr, cqhRead, record, control, count, results>>

\* With a bug: fqh is not moved past the record.
ReadFaultRecordAgain ==
  /\ Doing("record")
  /\ IF fq = << >>
     THEN status' = "error" /\ UNCHANGED record
     ELSE record' = Head(fq) /\ UNCHANGED status
  /\ UNCHANGED <<suite, index, ddtp, dc, caches, swapped, queue, csr, cqhRead, response, irq,
                 control, fq, count, mem, results, excused>>

\* rv_iommu_fq_read_record; ERROR freezes the hart when there is none.
ReadFaultRecord ==
  /\ Doing("record")
  /\ IF fq = << >>
     THEN status' = "error" /\ UNCHANGED <<fq, record>>
     ELSE fq' = Tail(fq) /\ record' = Head(fq) /\ UNCHANGED status
  /\ UNCHANGED <<suite, index, ddtp, dc, caches, swapped, queue, csr, cqhRead, response, irq,
                 control, count, mem, results, excused>>

-----------------------------------------------------------------------------
(* TEST_ASSERT, TEST_END and main *)

Holds(c) ==
  CASE c.kind = "memory"   -> \A w \in c.words : At(mem, w[1]) = w[2]
    [] c.kind = "ipsr"     -> ipsr \cap c.mask = c.bits
    [] c.kind = "cqh"      -> cqh = cqhRead + 1
    [] c.kind = "cqcsr"    -> c.event \in csr
    [] c.kind = "record"   -> record[c.field] = c.value
    [] c.kind = "overflow" -> c.counter \in overflowed
    [] c.kind = "response" -> response = c.to
    [] c.kind = "response_fault" -> response = NoAddress

\* With a bug: the last assertion decides.
CheckAssertionLast ==
  LET holds == Holds(Step.holds)
  IN /\ Doing("assert")
     /\ test_status' = holds
     /\ IF LogLevel >= LOG_DETAIL
        THEN /\ num_total_tests' = num_total_tests + 1
             /\ num_succ_tests' = num_succ_tests + (IF holds THEN 1 ELSE 0)
        ELSE UNCHANGED <<num_total_tests, num_succ_tests>>
     /\ falsified' = IF holds THEN falsified ELSE falsified \cup {<<test, pc>>}
     /\ UNCHANGED <<main, ddtp, dc, caches, swapped, queue, reads, irq, control, fq, count,
                    mem, verdicts, excused>>

\* The macro counts only where it prints.
CheckAssertion ==
  LET holds == Holds(Step.holds)
  IN /\ Doing("assert")
     /\ test_status' = (test_status /\ holds)
     /\ IF LogLevel >= LOG_DETAIL
        THEN /\ num_total_tests' = num_total_tests + 1
             /\ num_succ_tests' = num_succ_tests + (IF holds THEN 1 ELSE 0)
        ELSE UNCHANGED <<num_total_tests, num_succ_tests>>
     /\ falsified' = IF holds THEN falsified ELSE falsified \cup {<<test, pc>>}
     /\ UNCHANGED <<main, ddtp, dc, caches, swapped, queue, reads, irq, control, fq, count,
                    mem, verdicts, excused>>

EndTest ==
  /\ Doing("end")
  /\ status' = "main"
  /\ verdicts' = IF LOG_INFO <= LogLevel /\ LogLevel < LOG_VERBOSE
                 THEN Append(verdicts, [name |-> test, passed |-> test_status])
                 ELSE verdicts
  /\ UNCHANGED <<suite, index, ddtp, dc, caches, swapped, queue, reads, irq, control, fq,
                 count, mem, test_status, num_total_tests, num_succ_tests, falsified, excused>>

\* A test function without TEST_END returns where its text ends.
FallOff ==
  /\ status = "running"
  /\ pc > Len(Program[test])
  /\ status' = "main"
  /\ UNCHANGED <<suite, index, pc, ddtp, dc, caches, swapped, queue, reads, irq, control, fq,
                 count, mem, results, excused, lag, overtook>>

\* The next round of main's loop, and TEST_START.
CallTest ==
  /\ status = "main"
  /\ index < Len(suite)
  /\ index' = index + 1
  /\ status' = "running"
  /\ pc' = 1
  /\ test_status' = TRUE
  /\ excused' = IF ipsr # {} \/ fq # << >> THEN excused \cup {suite[index + 1]} ELSE excused
  /\ overtook' = IF Behind THEN overtook \cup {suite[index + 1]} ELSE overtook
  /\ UNCHANGED <<suite, lag, ddtp, dc, caches, swapped, queue, reads, irq, control, fq, count, mem,
                 num_total_tests, num_succ_tests, verdicts, falsified>>

Summary ==
  /\ status = "main"
  /\ index = Len(suite)
  /\ status' = "done"
  /\ UNCHANGED <<suite, index, pc, ddtp, dc, caches, swapped, queue, reads, irq, control, fq,
                 count, mem, results, excused, lag, overtook>>

Hart ==
  \/ SetDdtp \/ SetContext \/ SetIgs \/ WriteCommand \/ WriteMemory \/ SwitchTables
  \/ ArmCounter \/ LeavePoll \/ ReadCqh \/ ReadCsr \/ WriteCsr \/ ClearIpsrFip \/ Unmask
  \/ DmaTransfer \/ DebugTranslate \/ ReadFaultRecord
  \/ CheckAssertion \/ EndTest \/ FallOff \/ CallTest \/ Summary

Next == IOMMU \/ Hart

\* The hart keeps running, and each thing the IOMMU has begun it finishes.
Spec ==
  /\ Init /\ [][Next]_vars
  /\ WF_vars(Hart)
  /\ WF_vars(Execute) /\ WF_vars(Reject) /\ WF_vars(Signal) /\ WF_vars(CyclesOverflow)

-----------------------------------------------------------------------------
(* Every variable has its type; what was counted as passed was counted.    *)
TypeOK ==
  /\ suite \in Seq(DOMAIN Program) /\ lag \in BOOLEAN /\ index \in 0 .. Len(suite)
  /\ status \in {"main", "running", "error", "done"}
  /\ ddtp \in {"off", "bare", "1lvl"}
  /\ \A c \in {dc, ddtc} \ {NoContext} :
       c \in [s1 : {"bare", "sv39"}, s2 : {"bare", "sv39x4"}, msi : {"off", "flat"}]
  /\ cqh \in 0 .. CqEntries - 1
  /\ ipsr \subseteq {"cip", "fip", "pmip"} /\ held \subseteq masked
  /\ igs \in {"wsi", "msi"}
  /\ num_succ_tests \in 0 .. num_total_tests

(* Every run ends, in END or in ERROR: no test polls for ever.             *)
Completes == <>(status \in {"done", "error"})

(* A test fails, by an assertion or by ERROR, only when an earlier test    *)
(* left it something, a device context that the IOMMU still caches, an     *)
(* interrupt still pending, a fault record or, before an IOFENCE.C that    *)
(* asks for a wired interrupt, fctl set to messages; when it overtook the  *)
(* command queue; or when cqh wraps between the two times it is read.      *)
FailuresExplained ==
  /\ \A f \in falsified : f[1] \in excused \cup overtook
  /\ status = "error" => test \in excused \cup overtook

(* A test that invalidates the cached context before it first uses a       *)
(* virtual address, or that translates with none, and that selects wired   *)
(* interrupts itself before it asks for one, passes after any others when  *)
(* the command queue keeps up: what they leave in the IOMMU cannot reach   *)
(* it.                                                                     *)
UsesContext(s) ==
  (s.op = "transfer" /\ "v" \in {s.src[1], s.dst[1]}) \/ s.op = "translate"

BringsContext(t) ==
  \A i \in DOMAIN Program[t] :
    UsesContext(Program[t][i]) =>
      \E j \in 1 .. i : Program[t][j] \in {Command("ddt_inval"), Ddtp("off"), Ddtp("bare")}

BringsWires(t) ==
  \A i \in DOMAIN Program[t] :
    Program[t][i] = Command("iofence") => \E j \in 1 .. i : Program[t][j] = Igs("wsi")

SelfContained(t) == BringsContext(t) /\ BringsWires(t)

SelfContainedPass ==
  ~lag => /\ \A f \in falsified : ~SelfContained(f[1])
          /\ status = "error" => ~SelfContained(test)

Has(t, step) == \E i \in DOMAIN Program[t] : Program[t][i] = step

\* A test whose first stage is bare leaves a context cached that those without
\* one of their own must not meet, unless another one replaces it; one that
\* reads records and clears no interrupt leaves it pending.
LeavesOneStage(t) == Has(t, Context("s1", "bare")) /\ ~Has(t, Context("s1", "sv39"))
LeavesTwoStages(t) == Has(t, Command("ddt_inval")) /\ Has(t, Context("s1", "sv39"))
LeavesInterrupt(t) == Has(t, ReadRecord) /\ ~Has(t, ClearIpsr)

\* This is the kind of interrupts that test t selects last.
LeavesIgs(t, mode) ==
  \E i \in DOMAIN Program[t] :
    /\ Program[t][i] = Igs(mode)
    /\ \A j \in DOMAIN Program[t] : j > i => Program[t][j].op # "igs"

Compatible(s) ==
  \A i, n \in DOMAIN s :
    i < n =>
      /\ ~SelfContained(s[n]) /\ LeavesOneStage(s[i]) =>
           \E j \in i + 1 .. n - 1 : LeavesTwoStages(s[j])
      /\ ~SelfContained(s[n]) /\ LeavesInterrupt(s[i]) =>
           \E j \in i + 1 .. n - 1 : Has(s[j], ClearIpsr)
      /\ ~BringsWires(s[n]) /\ LeavesIgs(s[i], "msi") =>
           \E j \in i + 1 .. n - 1 : LeavesIgs(s[j], "wsi")

(* No assertion of a test fails and ERROR is never reached in a run whose  *)
(* tests are compatible in their order when the command queue keeps up     *)
(* with them, as they are in the order of the README and each alone; in    *)
(* the order of test_register.c iofence comes after msi_generation, which  *)
(* leaves fctl set to messages.                                            *)
AllHold == falsified # {} \/ status = "error" => lag \/ ~Compatible(suite)

(* Every fault record a test reads is of a fault it caused itself: as long *)
(* as no test overtakes the queue, each takes all its records out before   *)
(* the next one runs.                                                      *)
OwnRecords ==
  overtook = {} =>
    \A i \in DOMAIN fq : status \in {"running", "error"} /\ fq[i].by = test

(* The verdict a test prints, and the summary, are about all its           *)
(* assertions: one that failed is not forgotten when a later one holds.    *)
VerdictsTruthful ==
  /\ \A i \in DOMAIN verdicts :
       verdicts[i].passed <=> \A f \in falsified : f[1] # verdicts[i].name
  /\ status = "done" => (num_succ_tests = num_total_tests <=> falsified = {})

\* The assertions of test t of this kind hold whenever they are checked.
AlwaysHolds(t, kind) ==
  \A f \in falsified : ~(f[1] = t /\ Program[t][f[2]].holds.kind = kind)

(* "Memory transfer before PTEs swap" and the later checks of iotinval      *)
(* hold: its transfers follow the tables it has set up.                    *)
TransfersFollowTables == AlwaysHolds("iotinval", "memory")

(* "cqh was incremented" of iofence holds: the command is executed by the  *)
(* time cqh is read again.                                                 *)
CqhWasIncremented == AlwaysHolds("iofence", "cqh")

(* num_total_tests counts the checks of a run and num_succ_tests those     *)
(* that succeeded: a run with one that failed does not end as "passed".    *)
SummaryCounts == status = "done" /\ falsified # {} => num_succ_tests # num_total_tests

=============================================================================
