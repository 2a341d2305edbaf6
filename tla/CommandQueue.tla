---------------------------- MODULE CommandQueue ----------------------------
(***************************************************************************)
(* The command queue: the driver in rv_iommu.c fills slots of the array    *)
(* command_queue and moves cqt; the IOMMU reads slots from memory, executes*)
(* them and moves cqh.  The two run concurrently and share only memory and *)
(* the registers cqh, cqt, cqcsr and ipsr, one access of which is one step *)
(* here.                                                                   *)
(*                                                                         *)
(* The driver never compares cqt with cqh before it writes a slot.  Window *)
(* is the number of commands its callers let wait at once; that it is      *)
(* smaller than the queue is the callers' obligation, not a check made by  *)
(* the code.                                                               *)
(***************************************************************************)
EXTENDS Ring, Sequences

CONSTANTS
  Commands,     \* what the command builders of the driver build
  Illegal,      \* those that the IOMMU rejects
  Fences,       \* those that ask for a completion interrupt
  Blank,        \* a double word of the array that was never written
  Window,       \* commands that callers let wait at once
  Budget,       \* bound on the number of commands of a behaviour
  SkipIllegal   \* whether cqh moves past a command that is rejected

ASSUME CommandAssumption ==
  /\ Illegal \subseteq Commands
  /\ Fences \subseteq Commands \ Illegal
  /\ Blank \notin Commands
  /\ Window \in 1 .. Entries - 1
  /\ Budget \in Nat
  /\ SkipIllegal \in BOOLEAN

VARIABLES
  command_queue,  \* the array, one pair of double words per slot
  cqh, cqt,       \* head and tail registers
  cqen, cqon,     \* cqcsr: enable request and "queue is on"
  cie,            \* cqcsr: interrupts enabled
  events,         \* cqcsr: the sticky bits cmd_ill and fence_w_ip
  cip,            \* ipsr: command-queue interrupt pending
  pc,             \* the driver's next access
  new_cmd,        \* the command the driver is writing
  tail,           \* the driver's copy of cqt
  csr,            \* the sticky bits of the cqcsr value last read
  sent,           \* history: the commands published, as whole slots
  consumed        \* history: the slots the IOMMU has executed or skipped

registers == <<cqh, cqt, cqen, cqon, cie, events, cip>>
local     == <<new_cmd, tail, csr>>
history   == <<sent, consumed>>
vars      == <<command_queue, registers, pc, local, history>>

Dword == Commands \cup {Blank}
Slot  == [lo : Dword, hi : Dword]

Whole(c) == [lo |-> c, hi |-> c]
Words    == {Whole(c) : c \in Commands}
Rejected == {Whole(c) : c \in Illegal}

Event == {"cmd_ill", "fence_w_ip"}

(***************************************************************************)
(* The array is static, hence zero.  Nothing is assumed of cqh and cqt: a  *)
(* boot loader or an earlier run may have moved them.                      *)
(***************************************************************************)
Init ==
  /\ command_queue = [i \in Index |-> [lo |-> Blank, hi |-> Blank]]
  /\ cqh \in Index
  /\ cqt \in Index
  /\ cqen = FALSE
  /\ cqon = FALSE
  /\ cie = FALSE
  /\ events = {}
  /\ cip = FALSE
  /\ pc = "init"
  /\ new_cmd = Blank
  /\ tail = 0
  /\ csr = {}
  /\ sent = << >>
  /\ consumed = << >>

-----------------------------------------------------------------------------
(* rv_iommu_cq_init *)

\* With a bug: cqt starts at zero, as the comment in init_iommu has it.
InitTailZero ==
  /\ pc = "init"
  /\ cqt' = 0
  /\ pc' = "enable"
  /\ UNCHANGED <<command_queue, cqh, cqen, cqon, cie, events, cip, local, history>>

\* The queue is off: reading cqh and writing cqt need not be told apart.
InitTail ==
  /\ pc = "init"
  /\ cqt' = cqh
  /\ pc' = "enable"
  /\ UNCHANGED <<command_queue, cqh, cqen, cqon, cie, events, cip, local, history>>

InitEnable ==
  /\ pc = "enable"
  /\ cqen' = TRUE
  /\ cie' = TRUE
  /\ pc' = "poll"
  /\ UNCHANGED <<command_queue, cqh, cqt, cqon, events, cip, local, history>>

InitPoll ==
  /\ pc = "poll"
  /\ cqon
  /\ pc' = "ready"
  /\ UNCHANGED <<command_queue, registers, local, history>>

-----------------------------------------------------------------------------
(* rv_iommu_write_command_in_queue *)

\* With a bug: callers let any number of commands wait.
ReadTailAnyway(c) ==
  /\ pc = "ready"
  /\ Len(sent) < Budget
  /\ new_cmd' = c
  /\ tail' = cqt
  /\ pc' = "lo"
  /\ UNCHANGED <<command_queue, registers, csr, history>>

ReadTail(c) ==
  /\ pc = "ready"
  /\ Len(sent) < Budget
  /\ Len(sent) - Len(consumed) < Window
  /\ new_cmd' = c
  /\ tail' = cqt
  /\ pc' = "lo"
  /\ UNCHANGED <<command_queue, registers, csr, history>>

\* With a bug: the second double word is never written.
WriteLoOnly ==
  /\ pc = "lo"
  /\ command_queue' = [command_queue EXCEPT ![tail].lo = new_cmd]
  /\ pc' = "tail"
  /\ UNCHANGED <<registers, local, history>>

WriteLo ==
  /\ pc = "lo"
  /\ command_queue' = [command_queue EXCEPT ![tail].lo = new_cmd]
  /\ pc' = "hi"
  /\ UNCHANGED <<registers, local, history>>

\* With a bug: the second double word goes to the next slot.
WriteHiNext ==
  /\ pc = "hi"
  /\ command_queue' = [command_queue EXCEPT ![Wrap(tail + 1)].hi = new_cmd]
  /\ pc' = "tail"
  /\ UNCHANGED <<registers, local, history>>

WriteHi ==
  /\ pc = "hi"
  /\ command_queue' = [command_queue EXCEPT ![tail].hi = new_cmd]
  /\ pc' = "tail"
  /\ UNCHANGED <<registers, local, history>>

\* With a bug: cqt is written back as it was read.
PublishUnmoved ==
  /\ pc = "tail"
  /\ tail' = tail + 1
  /\ cqt' = tail
  /\ sent' = Append(sent, Whole(new_cmd))
  /\ pc' = "ready"
  /\ UNCHANGED <<command_queue, cqh, cqen, cqon, cie, events, cip, new_cmd, csr, consumed>>

Publish ==
  /\ pc = "tail"
  /\ tail' = tail + 1
  /\ cqt' = Wrap(tail + 1)
  /\ sent' = Append(sent, Whole(new_cmd))
  /\ pc' = "ready"
  /\ UNCHANGED <<command_queue, cqh, cqen, cqon, cie, events, cip, new_cmd, csr, consumed>>

-----------------------------------------------------------------------------
(***************************************************************************)
(* How the tests acknowledge: they read cqcsr, check it, write the value   *)
(* they read back (the sticky bits are write-1-to-clear and the enables    *)
(* keep their values), then clear ipsr.                                    *)
(***************************************************************************)
ReadCsr ==
  /\ pc = "ready"
  /\ csr' = events
  /\ pc' = "ack"
  /\ UNCHANGED <<command_queue, registers, new_cmd, tail, history>>

\* With a bug: ipsr is not cleared after cqcsr.
WriteCsrOnly ==
  /\ pc = "ack"
  /\ events' = events \ csr
  /\ pc' = "ready"
  /\ UNCHANGED <<command_queue, cqh, cqt, cqen, cqon, cie, cip, local, history>>

WriteCsr ==
  /\ pc = "ack"
  /\ events' = events \ csr
  /\ pc' = "clear"
  /\ UNCHANGED <<command_queue, cqh, cqt, cqen, cqon, cie, cip, local, history>>

ClearIpsr ==
  /\ pc = "clear"
  /\ cip' = FALSE
  /\ pc' = "ready"
  /\ UNCHANGED <<command_queue, cqh, cqt, cqen, cqon, cie, events, local, history>>

-----------------------------------------------------------------------------
(* The IOMMU *)

TurnOn ==
  /\ cqen
  /\ ~cqon
  /\ cqon' = TRUE
  /\ UNCHANGED <<command_queue, cqh, cqt, cqen, cie, events, cip, pc, local, history>>

Fetching == cqon /\ cqh # cqt /\ "cmd_ill" \notin events

Execute ==
  /\ Fetching
  /\ command_queue[cqh].lo \in Commands \ Illegal
  /\ consumed' = Append(consumed, command_queue[cqh])
  /\ cqh' = Wrap(cqh + 1)
  /\ events' = IF command_queue[cqh].lo \in Fences
               THEN events \cup {"fence_w_ip"} ELSE events
  /\ UNCHANGED <<command_queue, cqt, cqen, cqon, cie, cip, pc, local, sent>>

\* The opcode is in the low double word: a blank one is no command either.
Reject ==
  /\ Fetching
  /\ command_queue[cqh].lo \notin Commands \ Illegal
  /\ events' = events \cup {"cmd_ill"}
  /\ IF SkipIllegal
     THEN /\ consumed' = Append(consumed, command_queue[cqh])
          /\ cqh' = Wrap(cqh + 1)
     ELSE UNCHANGED <<cqh, consumed>>
  /\ UNCHANGED <<command_queue, cqt, cqen, cqon, cie, cip, pc, local, sent>>

\* A sticky bit that is set raises ipsr.cip, again after it was cleared.
Raise ==
  /\ cie
  /\ events # {}
  /\ ~cip
  /\ cip' = TRUE
  /\ UNCHANGED <<command_queue, cqh, cqt, cqen, cqon, cie, events, pc, local, history>>

-----------------------------------------------------------------------------
Setup == InitTail \/ InitEnable \/ InitPoll
Write == WriteLo \/ WriteHi \/ Publish
Clear == WriteCsr \/ ClearIpsr
IOMMU == TurnOn \/ Execute \/ Reject \/ Raise

Next == Setup \/ (\E c \in Commands : ReadTail(c)) \/ Write \/ ReadCsr \/ Clear \/ IOMMU

Spec == Init /\ [][Next]_vars

(***************************************************************************)
(* The IOMMU makes progress, and so does the single hart that runs the     *)
(* driver: it ends what it has begun.  No fairness makes the callers send  *)
(* a command, and none makes them read cqcsr to acknowledge an event: the  *)
(* tests do so at fixed places, or not at all.                             *)
(***************************************************************************)
FairSpec ==
  /\ Spec
  /\ WF_vars(Setup)
  /\ WF_vars(Write)
  /\ WF_vars(Clear)
  /\ WF_vars(TurnOn) /\ WF_vars(Execute) /\ WF_vars(Reject) /\ WF_vars(Raise)

-----------------------------------------------------------------------------
(* Every variable has its type. *)
TypeOK ==
  /\ command_queue \in [Index -> Slot]
  /\ cqh \in Index
  /\ cqt \in Index
  /\ cqen \in BOOLEAN
  /\ cqon \in BOOLEAN
  /\ cie \in BOOLEAN
  /\ events \in SUBSET Event
  /\ cip \in BOOLEAN
  /\ pc \in {"init", "enable", "poll", "ready", "lo", "hi", "tail", "ack", "clear"}
  /\ new_cmd \in Dword
  /\ tail \in 0 .. Entries
  /\ csr \in SUBSET Event
  /\ sent \in Seq(Words)
  /\ consumed \in Seq(Slot)

(* The IOMMU executes exactly the commands that were published, in the     *)
(* order of the calls to rv_iommu_write_command_in_queue, each one whole:  *)
(* never a slot half written, never a stale one, none twice, none skipped. *)
InOrder ==
  /\ Len(consumed) <= Len(sent)
  /\ \A k \in 1 .. Len(consumed) : consumed[k] = sent[k]

(* The distance between the two registers is the number of commands that   *)
(* wait: publishing never makes a full queue look empty, and cq_init       *)
(* leaves nothing between them for the IOMMU to execute.                   *)
Accounting ==
  pc # "init" => Len(sent) = Len(consumed) + Dist(cqh, cqt)

(* A waiting command stays in its slot as it was published until the       *)
(* IOMMU has executed it, whatever the driver writes meanwhile.            *)
WaitingIntact ==
  pc # "init" =>
    \A i \in Index :
      i < Dist(cqh, cqt) =>
        command_queue[Wrap(cqh + i)] = sent[Len(consumed) + 1 + i]

(* An interrupt that stays pending has a cause: once ipsr has been cleared *)
(* after cqcsr, cip is set only if cqcsr still shows an event.             *)
NoSpuriousInterrupt == cip => events # {} \/ pc = "clear"

(* What the driver holds between two accesses still agrees with the shared  *)
(* state: its copy of cqt is current, the slot it fills is the one after    *)
(* the waiting commands, and the IOMMU stays off until cq_init is done.     *)
LocalAgreement ==
  /\ pc \in {"init", "enable", "poll"} => Len(sent) = 0 /\ Len(consumed) = 0
  /\ pc \in {"init", "enable"} => ~cqen
  /\ ~cqen => ~cqon
  /\ Len(sent) - Len(consumed) <= Window
  /\ pc \in {"lo", "hi", "tail"} =>
       /\ tail = cqt
       /\ new_cmd \in Commands
       /\ Len(sent) - Len(consumed) < Window
  /\ pc \in {"hi", "tail"} => command_queue[tail].lo = new_cmd
  /\ pc = "tail" => command_queue[tail].hi = new_cmd

(* All of the above together are preserved by every step: the commands      *)
(* executed are right because those waiting are intact, and those are       *)
(* intact because the slot being filled is not one of them.                 *)
QueueInv ==
  TypeOK /\ InOrder /\ Accounting /\ WaitingIntact /\ NoSpuriousInterrupt /\ LocalAgreement

(* Everything published is executed in the end, however few of the events   *)
(* anybody acknowledges: fence_w_ip and cip may stay set for good and hold  *)
(* nothing up.  Only a rejected command does, whose cmd_ill nobody clears.  *)
Drains == <>[](consumed = sent) \/ <>[]("cmd_ill" \in events)

\* The abstract stream of commands that this queue implements.
halted == "cmd_ill" \in events
Stream == INSTANCE CommandStream WITH Slots <- Words, Illegal <- Rejected,
                                      Capacity <- Window

(* The queue implements the stream of commands. *)
ImplementsStream == Stream!Spec

=============================================================================
