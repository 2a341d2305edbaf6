# A TLA+ model of the RISC-V IOMMU test application

The program in this repository boots one RISC-V hart, builds the in-memory data
structures of an IOMMU (device directory, two stages of page tables, an MSI page
table, an MRIF, a command queue and a fault queue), and runs a table of test
functions that drive a DMA engine through the IOMMU and check what came out.
This directory models the driver, the tests and the trap code in TLA+, checks
them with TLC and proves the most important properties with TLAPS.

To repeat a check: `tlc -config CommandQueue.cfg MCCommandQueue.tla`; to repeat
the proofs: `tlapm CommandQueueProofs.tla`. `PROJECT.json` lists runs, theorems,
the source lines of every definition, and for each property a bug in the code
that breaks it (the operators commented "With a bug").

## The system

Paths are relative to the repository root; `rv_iommu.c` and the like are under
`src/`.

| Component | Where | State it keeps | Operations |
|---|---|---|---|
| Command queue | `rv_iommu.c` 201-345, `rv_iommu_cq.h` | array `command_queue` in memory; registers cqb, cqh, cqt, cqcsr | init, write a command, builders (IOTINVAL, IODIR, IOFENCE, an illegal one), read/clear cqcsr |
| Fault queue | `rv_iommu.c` 347-398, `rv_iommu_fq.h` | array `fault_queue`; fqb, fqh, fqt, fqcsr | init, `rv_iommu_fq_read_record` |
| Device contexts and mode | `rv_iommu.c` 112-199, 400-425, `rv_iommu_dc.*` | `root_ddt`, ddtp; the IOMMU's copy of a context | off/bare/1LVL, set iosatp, iohgatp, MSI mode |
| Page tables | `page_tables.c/.h` | `s1pt`, `s2pt`, `msi_pt`, `test_page_perm_table` | build, exchange two leaf entries, MSI entries |
| MRIF | `page_tables.c` 333-349 | pending and enable bits | init |
| Interrupts | `rv_iommu.c` 77-110, 427-452 | ipsr, fctl.wsi, icvec, MSI configuration table | init, masks, clear ipsr |
| Performance monitor | `rv_iommu.c` 454-502 | iocountinh, iohpmcycles, event counters | configure, enable, overflow |
| Debug interface | `rv_iommu.c` 504-605 | tr_req_iova, tr_req_ctl, tr_response | request, go, poll, read |
| iDMA driver | `idma.c`, `plat_dma.c` | the DMA engine's registers | set up, execute and poll |
| Test functions | `rv_iommu_tests.c`, `test_register.c` | payloads in memory | twelve registered tests |
| Test framework | `rvh_test.h`, `main.c` | `test_status`, two counters, the test table | TEST_START, TEST_ASSERT, TEST_END, ERROR, END, the loop |
| Privilege switching | `rvh_test.c` | `curr_priv`, `real_priv`, `ecall_args`, the stack | `goto_priv`, `lower_priv`, three handlers |
| Trap entry and exit | `asm/handlers.S` | stack frames of 31 slots | SAVE_CONTEXT, RESTORE_CONTEXT |
| Hart reset, boot, platform | `rvh_test.c` `reset_state`, `boot.S`, `platform/` | CSRs, UART | set up, print |

**How they interact.** One hart runs everything; there are no software threads.
Concurrency is between the hart and the IOMMU, which share memory (the arrays
and tables) and memory-mapped registers, and between both and the DMA device,
for which the hart waits. There are no callbacks except trap handlers, which
nest on the hart's own stack. Nothing resets the IOMMU between two tests:
`TEST_END` calls `reset_state`, which is about the hart only.

**What is hard here.** The two in-memory queues are lock-free single-producer
rings read and written by separate accesses on both sides. Indices are written
back unreduced and wrap in the register. Sticky bits in cqcsr and ipsr must be
cleared in the right order. `goto_priv` recurses through trap handlers with three
records of the privilege mode. The tests share one IOMMU with caches that they
sometimes invalidate. The list of hazards, each at its line and with the
properties aimed at it, is `hazards` in `PROJECT.json`.

**What makes each component correct.**

- *Command queue*: every command is executed once, whole, in order; no waiting
  command is overwritten; an acknowledged interrupt does not come back by itself; the
  queue drains unless a rejected command halts it.
- *Fault queue*: every logged record is delivered once, whole, in order; "none"
  is true when it is said; a call ends, and with a record if one waits.
- *Privilege switching*: `goto_priv` ends in the mode that was asked for with
  both records of it right, and mode-dependent code runs in its mode.
- *Traps*: the interrupted code gets its registers back.
- *Test suite*: assertions hold wherever no test meets what another left; a failure under another selection has a nameable cause; tests read their own fault records; verdicts
  and the summary tell the truth.
- *Device contexts and DMA*: a transfer is translated with a context that some call
  has made, never with half of one, and the driver waits for the transfer it launched.
- *Page tables*: every test page is where its name says, with the permissions of the
  table, in every mode and whether entries are exchanged or not; nothing overlaps.
- *Debug interface*: the response read is that of the access described, and only
  `rv_iommu_dbg_set_go` starts a request.
- *MRIF*: each identity has a bit of its own, where the IOMMU looks for it.
- *Interrupts, monitor*: through what the tests assert of them.

## Modules

| Module | Models |
|---|---|
| `Ring` | index arithmetic of both queues |
| `CommandStream` | what the command queue promises (abstract) |
| `CommandQueue`, `MCCommandQueue` | driver and IOMMU at the command queue, access by access |
| `FaultLog` | what the fault queue promises (abstract) |
| `FaultQueue`, `MCFaultQueue` | driver and IOMMU at the fault queue, access by access |
| `AtomicCalls` | what callers take for granted of contexts and transfers (abstract) |
| `Contexts`, `MCContexts` | `root_ddt` store by store, the iDMA driver, the IOMMU's reads |
| `PageTables` | both stages' tables entry by entry, and the walk |
| `DebugIf`, `MCDebugIf` | the registers of the debug interface, access by access |
| `RingProofs`, `CommandQueueProofs`, `FaultQueueProofs`, `PrivSwitchProofs`, `TrapContextProofs`, `ContextsProofs`, `DebugIfProofs`, `TestSuiteProofs` | theorems |
| `PrivSwitch`, `MCPrivSwitch` | `goto_priv`, `lower_priv`, the handlers |
| `TrapContext` | the save and restore macros |
| `TestPages` | what an address translates to, per test page |
| `TestPrograms` | the twelve tests as sequences of steps |
| `TestSuite`, `MCTestSuite` | `main` running them on one IOMMU |

### CommandQueue

The array has a pair of double words per slot (`command_t`), and `cqh`, `cqt`,
`cqen`/`cqon`/`cie`, the sticky `events` and `cip` are the registers.
`rv_iommu_cq_init` is `InitTail` (`cqt := cqh`), `InitEnable`, `InitPoll`.
`rv_iommu_write_command_in_queue` is `ReadTail`, `WriteLo`, `WriteHi`, `Publish`:
one step per access, so the IOMMU may act between any two. The tests'
acknowledgement is `ReadCsr`, `WriteCsr` (the value read is written back to the
write-1-to-clear bits), `ClearIpsr`. `TurnOn`, `Execute`, `Reject`, `Raise` are
the IOMMU, which is not in the repository: they say what the driver relies on.
Commands are model values told apart by how they are treated: executed, executed
with a completion interrupt, rejected.

Assumptions, each visible in the module:

- *Callers let at most `Window < Entries` commands wait.* The code never compares
  cqt with cqh before it writes. The bug operator `ReadTailAnyway` drops the
  obligation and shows what then happens.
- *Turning the queue on leaves cqh where it is.* The code reads cqh, copies it to
  cqt and then enables. The comment at `rv_iommu.c:636` says to set cqt to zero,
  which empties the queue only if cqh is zero as well; `Init` assumes neither.
- *Stores of the hart reach memory and device in program order.* There is no
  fence before the store to cqt; the accesses are volatile.
- *After a rejected command, cqh either moves past it or not* (`SkipIllegal`). The
  tests queue further commands without repairing the rejected one and so rely on
  the first; the safety theorems hold for both.

### FaultQueue

The mirror image: the IOMMU writes four double words of a record one by one
(`Store`) and then moves fqt (`Advance`); `rv_iommu_fq_read_record` is `ReadHead`,
`ReadTail`, then `ReturnEmpty` or four `ReadDword` and `WriteHead`. `Raise` and
`Drop` happen at any moment. `Drop` sets fqof; whether logging then goes on when
there is room again, or is suspended, is left open at every fault, since the
driver never clears fqof and relies on neither. That faults may be lost so is a
matter of the hardware: nothing in the code looks at fqof.

### PrivSwitch

`stack` holds the calls of `goto_priv` and the handlers in progress; a step is one
call, trap or return. `Enter` is the detour through M between user modes,
`AlreadyThere`, `Ecall`, `LowerPriv`/`RefuseLower` are the branches of `goto_priv`,
`Handle` and `ReturnFromException` the handlers' path for ecalls. `Delegate` is
how `reset_state` delegates ecalls, `ReturnsTo` what mret and sret do after
`set_prev_priv` wrote the previous-mode fields. `Request` is a test that asks.

### TrapContext

One frame of slots per trap. `SaveSlot` and `RestoreSlot` are the offsets in the
two macros, and differ for x31. `Compute` is any code of the trapped program or
of the handler. Only `Live` registers are kept.

### Contexts

Each `rv_iommu_set_*` call walks over the entries of `root_ddt` and writes two or
three double words of each: `CallContexts` starts a call, `Store` is one store, with
the loop's next step or its end (`LastEntry`). `Stores` is the table of what each
call writes where; `rv_iommu_set_msi_flat` writes the mask to `msi_addr_pattern` and
then the pattern over it, and never writes `msi_addr_mask`. `Init` is inside
`rv_iommu_ddt_init`. `idma_setup` and `idma_setup_addr` set the device's registers,
`Launch` reads `next_transfer_id`, `Poll` is the last read of
`last_transfer_id_complete`; `Refused` is the zero that ends in ERROR. The IOMMU reads
a context that it has not cached one double word at a time (`ReadField`, in an order
that is a constant), and the transfer then runs (`Transfer`); `Execute` carries out a
queued IODIR.INVAL_DDT at any time. The modes and identifiers in a double word are
one symbolic value; identifiers wrap at `MaxId`.

`AtomicCalls` says what callers rely on: a call changes all contexts at once, and
`idma_exec_transfer` ends after one transfer, the one that was set up, translated
with one context. `Contexts` implements it with the directory as it was before the
call in progress.

### PageTables, DebugIf

`PageTables` transcribes `s1pt_init` and `s2pt_init` as functions from an index to a
leaf, a pointer or an invalid entry, with addresses as page numbers, the exchange of
two entries (`Moved`), and a walk that knows superpages and their alignment.
`TestPages` speaks of the same pages by name, and is what `TestSuite` uses;
`TablesAgree` relates the two for every page, access, mode and exchange. The MRIF is here
too, with the shifts and masks that find the word and bit of an identity.

`DebugIf` has the three registers. A setter is `ReadCtl` then `WriteCtl`; `Merged` is
what it writes, with the device ID ORed in. `Poll` is the read of the go bit that ends
the wait, with the condition as it binds in C, and `ReadResponse` decodes
`tr_response`, superpage size included. `Answer` is the IOMMU: it walks `PageTables`
and encodes the result. Setters are called in any order, more than the test does.

### TestPages, TestPrograms, TestSuite

`TestPrograms` transcribes each test function as its sequence of driver calls,
stores, transfers and assertions. `TestSuite` has one action per kind of step, so
that a call is one action with all its effects, and the IOMMU's own steps
(`Execute`, `Reject`, `Signal`, `CyclesOverflow`). The IOMMU caches the device
context (`ddtc`) and translations (`iotlb`) until they are invalidated. An
interrupt bit of ipsr is set, and a message sent, only when it rises; a masked
vector holds its message back. `TestPages` gives the translation of each test page
under the tables as built, with permissions, exchanged entries and MSI entries.
Where `lag` is false the IOMMU executes a command before the hart's next step; where it
is true, at any later time, and `overtook` records which tests went on meanwhile.

The IOMMU is not in the repository, and where the tests depend on its reading of the
RISC-V IOMMU specification (which `src/README.md:18` says they conform to) the model
leaves open what that specification leaves open. One such case is the WSI bit of
IOFENCE.C, which the tests always set: completion is told in `fence_w_ip` by a wired
interrupt, and while fctl selects messages the bit is reserved (`Reserved`). The modelled
IOMMU may then report the completion all the same, complete without a word, or reject
the command and halt the queue; nothing is proved that needs one of these.

Simplifications: a transfer is one step (the hart polls until it is done) and
fault records are visible when it ends; all device IDs share one context value,
since the tests write the same context for each; memory is by page or word and
payloads are names; a saved assertion result does not change, so evaluating the
condition once is enough.

## Runs

| Run | States | Bounds | Shows |
|---|---|---|---|
| `CommandQueue` | 154 204 | 4 slots, 3 waiting, 5 commands, 3 kinds | `InOrder`, `Accounting`, `WaitingIntact`, `NoSpuriousInterrupt`, the inductive `QueueInv`; implements `CommandStream`; `Drains`: all is executed in the end though nobody acknowledges, or `cmd_ill` stays set |
| `FaultQueue` | 246 404 | 4 slots, 6 faults, 2 kinds | `DeliveredInOrder`, `EmptyIsTrue`, `QueueInv`; implements `FaultLog`; `CallsDeliver`: every call ends, with a record if one waited |
| `PrivSwitch_supported` | 223 | all 25 pairs of modes but HU to VS, stack of 12 | `Arrived`, `RightMode`, `RefusesOnlyGuestToHostUser`, the inductive `SwitchInv`, `GotoPrivEnds` |
| `TrapContext_below` | 17 968 | x1, x29, x30, x31, two values, nesting 2 | `TransparentBelowX30`, the inductive `TrapInv` |
| `TestSuite_selections` | 166 605 | both directions of the table: up to 3 tests or at least 11, queue of 16; with a lagging queue up to 2 tests, starting at 0 or 15, or 3 with `second_stage_only` between two others, or the four of the example below | `AllHold`, `FailuresExplained`, `SelfContainedPass`, `OwnRecords`, `VerdictsTruthful`, `Completes` |
| `DebugIf` | 27 040 | the device of `plat_dma.c`, five pages: 4 KiB, 2 MiB, 1 GiB, MSI, exchanged | the inductive `DebugInv`, `ResponseMatches`, `TablesAgree`, `NoAccidentalRequest`, `Answered` |
| `Contexts` | 668 672 | 2 devices, 2 device IDs, 3 calls, 2 requests, identifiers 1 and 2 | the inductive `ContextInv`, `WholeContexts`; implements `AtomicCalls`; `Returns` |

Why these bounds are enough to be interesting. Five commands on four slots wrap
the ring from every start of `cqh` (all are initial states) and fill it to its
capacity of three; six faults on four slots fill it, overflow, drain and wrap.
Two kinds of fault suffice to tell a record from its predecessor; three kinds of
command are all the IOMMU tells apart. A supported privilege switch needs a stack
of fewer than 12 frames, for otherwise `status = "overflow"` would falsify
`GotoPrivEnds`. Registers below x29 are saved alike, so x1 stands for them. What
one test leaves for another needs two tests, and a third to come between them, so
selections of up to three show every interaction of a pair; those of 11 and 12 are the
builds that leave one test out or none. With a lagging queue the third test matters where
one overtakes the queue and leaves something to another that does not: only
`second_stage_only` then faults more often than it reads records. No test queues more than 16 commands, so a queue
of 16 wraps as one of 64 does, and a head of 15 makes it wrap at once. Two device IDs
make the loop over the directory end somewhere else than it began, two identifiers
wrap after two transfers, and two devices suffice to have one at rest while the other
works; the three calls write one field twice, a field with another's value in
between, and contexts that differ. The pages of `DebugIf` are those of
`dbg_interface` and an exchanged one; `TablesAgree` quantifies over all named pages.

Runs that are expected to find a disagreement (`findings` in `PROJECT.json`):

- `PrivSwitch_every`: asked for VS in HU, `goto_priv` and its handlers nest until
  the stack is full.
- `TrapContext_all`: `SAVE_CONTEXT` stores x31 over x30's slot and
  `RESTORE_CONTEXT` loads x31 from a slot never written. So x30 comes back with the
  value x31 had, and x31 with what stood in that slot; which of the two changes
  depends on the values (the shortest trace may show only x31 changing). The `asm`
  statement of `ecall` declares no register clobbered.
- `TestSuite_stale`: the README says that all tests can be individually enabled or
  disabled, but `iotinval` after `both_stages_bare` alone uses the context that
  test left cached.
- `TestSuite_lag`: `iofence` asserts that cqh has moved without waiting for it,
  and an IOMMU that takes its time makes the assertion fail.
- `TestSuite_info`: at the default `LOG_INFO` no assertion is counted, and a run
  with failures is summarised as passed.

The run of selections also meets, and `excused` records, a second way for an
earlier test to reach a later one: `dbg_interface` leaves ipsr.fip set, so that
`msi_generation` right after it finds no new edge and no message. A third is `fctl`:
`msi_generation` leaves it at messages (`rv_iommu_tests.c:747`), and `iofence`, which
`test_register.c` runs right after it, asks for a wired interrupt and asserts
`fence_w_ip` (:706) and `cip` (:709) without calling `set_ig_wsi` (see the IOFENCE.C
below). With the lagging queue it meets a fourth: `iotinval`, `second_stage_only`, `wsi_generation`,
`dbg_interface` in this order let the second overtake its invalidation and fault three
times, unread, and the last, which overtakes nothing, reads a record of these. And a
fifth: `msi_generation` reads cqcsr before its illegal command is
rejected, writes back what it read, and leaves `cmd_ill` set and the queue halted for
every later test.

### Fairness

- `CommandQueue`, `FaultQueue`: weak fairness of the driver's steps, because the
  one hart runs straight-line code between its polls, and of each of the IOMMU's
  steps, because hardware makes progress. The driver ends what it has begun: the
  initialisation, the writing of a command, an acknowledgement once cqcsr has been
  read, a call of `rv_iommu_fq_read_record`. No fairness makes callers send commands,
  acknowledge events or read records, or faults happen: the tests do each a fixed
  number of times, or not at all. So an event may stay set, a rejected command may
  leave the queue halted and records may stay unread for good; `Drains` and
  `CallsDeliver` allow for it.
- `PrivSwitch`: weak fairness of the code once called, none of requests.
- `TestSuite`: weak fairness of the hart and of each of the IOMMU's steps: the loop
  in `hpm` ends because the counter overflows.
- `DebugIf`: the IOMMU clears the go bit of a request, and the hart goes on with a
  setter, a poll or a read it has begun; it need not make requests.
- `Contexts`: a call in progress and a poll go on, and the IOMMU and the devices
  go on with a transfer; nothing is assumed of new calls or of IODIR.INVAL_DDT.

Deadlock is checked for both queues, for traps and for the debug interface. A suite
stops at END or ERROR, and a privilege switch or a refused transfer may stop in ERROR,
which freezes the hart: their runs do not check deadlock.

## Proofs

All constants are arbitrary within the named assumptions: `EntriesAssumption` (a
queue has more than one slot), `CommandAssumption` (rejected and fence commands
are commands, they are disjoint, the window is smaller than the queue),
`FaultAssumption`, `RequestAssumption` (requests are pairs of modes) and
`LiveAssumption` (live registers are among those saved), `DeviceAssumption` (one DMA
device, as `N_DMA` is 1, whose ID lies in `DID_MIN .. DID_MAX`), `PageAssumption` (pages
asked for are among those named), `ContextsAssumption` (devices have contexts, calls are
those of the table of stores, identifiers are at least two, the IOMMU reads every field),
`SuiteAssumption` (what runs are registered tests, none twice: `TEST_REGISTER` defines a
name for each, and would define it again). `Budget` bounds behaviours but is
arbitrary as well.

| Theorem | States |
|---|---|
| `QueueInvariant` | `CommandQueue`'s `Spec => []QueueInv` |
| `QueueSafety` | `TypeOK`, `InOrder`, `Accounting`, `WaitingIntact`, `NoSpuriousInterrupt` |
| `QueueImplementsStream` | `Spec => ImplementsStream` |
| `FaultInvariant` | `FaultQueue`'s `Spec => []QueueInv` |
| `FaultSafety` | `TypeOK`, `DeliveredInOrder`, `EmptyIsTrue`, `UnreadIntact` |
| `FaultImplementsLog` | `Spec => ImplementsLog` |
| `SwitchInvariant` | `PrivSwitch`'s `Spec => []SwitchInv` |
| `SwitchSafety` | `TypeOK`, `Arrived`, `RightMode`, `RefusesOnlyGuestToHostUser` |
| `TrapInvariant` | `TrapContext`'s `Spec => []TrapInv` |
| `TrapsTransparentBelowX30` | `TypeOK`, `TransparentBelowX30` |
| `DebugInvariant` | `DebugIf`'s `Spec => []DebugInv` |
| `OnlyGoRequests` | `Spec => NoAccidentalRequest` |
| `ResponsesMatch` | `Spec => []ResponseMatches` |
| `TablesAsNamed` | `Spec => []TablesAgree` |
| `IdentitiesApart` | of `PageTables`: interrupt identities have separate bits in the MRIF |
| `ContextInvariant` | `Contexts`' `Spec => []ContextInv` |
| `CachedContextsWhole` | `Spec => []WholeContexts` |
| `ContextsImplementAtomicCalls` | `Spec => ImplementsAtomicCalls` |
| `SuiteTyped` | `TestSuite`'s `Spec => []TypeOK` |
| `RecordsAreOwn` | `Spec => []OwnRecords` |
| `FailuresAreExplained` | `Spec => []FailuresExplained` |
| `SelfContainedTestsPass` | `Spec => []SelfContainedPass` |
| `CompatibleSuitesPass` | `HeadRoom` implies `Spec => []AllHold` |
| `ShippedSuitesCompatible` | `Compatible` of the order of the README and of each test alone, and not of that of `test_register.c` |
| `VerdictsAreTruthful` | `Spec => []VerdictsTruthful`, if assertions are counted |

*Command queue.* `InOrder` alone is not inductive: executing the slot at cqh is
right only if that slot still holds what was published (`WaitingIntact`), which is
preserved only if the slot being filled is not one of the waiting ones. That needs
`Accounting` (the distance of the registers is the number waiting, which `Window`
keeps below `Entries`) and `LocalAgreement` (the driver's copy of cqt is still
current, and the halves written so far are in place). `QueueInv` is their
conjunction with the type invariant. The IOMMU's steps only shrink the waiting
range from the front; the driver's stores hit the free slot after it; `Publish`
extends the range by a slot that is whole. The facts about the ring (the tail is
free, moving the head or tail changes the distance by one, waiting slots are
distinct) are the lemmas of `RingProofs`, for every size. The refinement maps
`halted` to the sticky bit `cmd_ill` and leaves both histories as they are; each
step is shown to be a step of `CommandStream` or a stutter, under `QueueInv`.

*Fault queue.* The roles are exchanged: the record being read lies in the unread
range, and the IOMMU fills the slot after it, which exists because it starts to log
only when the queue is not full. `LocalAgreement` adds that the double words read
so far equal the slot's, so that the buffer is whole when the fourth is read.

*Privilege switching.* `Arrived` speaks of the empty stack, so it says nothing of
the recursion that leads there. `SwitchInv` describes that recursion: the stack is a
tower with one `aim` (the mode asked for, or M while a detour between user modes is
under way), all of whose frames but the innermost wait to return. While the tower
grows, curr_priv is still the mode it started in, which lies below the aim, so the
innermost `goto_priv` can only make an ecall or find itself there; when it finds
itself there, hart, curr_priv and real_priv are all the aim, and every return keeps
them so, because no mode of a handler is a user mode. Hence `lower_priv` is reached
with a single call on the stack only, where all modes agree. The theorem covers HU to
VS: the switch does not end then, but no wrong mode is ever reached.

*Traps.* What a return loads is right if the frame is, so `TrapInv` adds that every
pending frame still holds, in the slot each register below x30 is loaded from, the
value at its trap. It rests on a lemma about the two tables of offsets: such a slot
belongs to one register.

*Debug interface.* `DebugInv` adds to "what is read answers what was asked" that the
register holds what the calls describe, but for the field being written
(`FieldsApart`). With one device the ORed ID is harmless, because the register holds
no ID or that one: this is where `DeviceAssumption` is used. While the hart polls, only
the IOMMU writes the register, and only the go bit, which the result does not depend
on; so the go bit is off whenever a setter reads, and no setter writes it back.
`ResponseMatches` and `TablesAgree` are about the tables. The proofs follow the walk level
by level: which entry a page number finds at each level (`NamedFound`), what the leaf
grants (`NamedThrough`, `Walk2MiB`, `Walk1GiB`), and that this is what `TestPages` says of
the page, for every page and whatever has been exchanged; bit by bit, that the mask
selects exactly the MSI pages; and that `Decode` gets back what the encoding of a page
of each size put into the register (`RoundTrip`). That no two places coincide, `IOFENCE_ADDR` among
them, follows from the areas they lie in; the words of the MRIF are placed by the linker.

*Contexts.* `WholeContexts` speaks of the caches only. It is inductive with `Excluded`
(a device works only while the hart polls it, and then no call is in progress; what the
IOMMU has read so far is still what the directory holds) and `Progress`, which says
how far a call has come: entries below the loop's index are as the call makes them,
those above as they were, and in the entry at the index each field is either final or
about to be written again. So when the loop ends all entries are as made, by lemmas
about the table of stores, of which the last one to a field decides; what a call makes
of a whole context is whole, for `msi_flat` because the mask was right before. That a
poll ends with the right transfer follows from `id = NextId(last)`: with two identifiers
or more the one launched is never the one complete before. For the refinement, all
stores of a call but the last map to stutters, and so do the reads of a context.

*Fault records.* `OwnRecords` becomes inductive with the number of records that a test
has caused and not yet read at each of its steps (`Due`): none has any due at its
end. So a transfer may fault only where records are due after it (`Budget`). That the
others do not fault holds in *every* context and whatever has been exchanged, because the
permissions of both stages grant what those tests do (`WalkAllowed`): a stale context does
no harm here. There are two exceptions. With translation off everything faults, so
`Translating` says that each test but `iommu_off` has turned it on. And the pages of
`second_stage_only` have no first-stage permission, so `Fresh` says that its transfers
meet no cached context: the command that invalidates it has been executed, unless the hart
overtook it. A cached translation never faults, as none to an MSI page is cached
(`PlainCache`). The hypothesis of `OwnRecords` is about all tests so far: if
`second_stage_only` overtakes its invalidation, its three faults stay in the queue for a
later test that overtakes nothing.

*Verdicts.* While a test runs, `test_status` is false exactly if an assertion of it has
failed; at its end this becomes the verdict, and no later test adds to its failures.
The counters differ exactly if some assertion has failed.

*Which tests fail.* Neither `FailuresExplained` nor `SelfContainedPass` says what an
assertion finds; `PassInv` does, and both follow from it.
- `Facts` gives, for each test and each of its steps, what holds while the test is
  *on track*: nothing an earlier test left matters to it, and it has waited for its own
  commands. That is which words of memory stand as stored or as copied, which records
  are due and which was read last, which interrupts are pending or told, what the caches
  hold of its own pages, what the last translation gave.
- A test is on track when it is called and stays so until `excused` or `overtook` says
  otherwise: an interrupt pending or a record unread at its call, a stale context met by
  a translation, an IOFENCE.C queued while fctl selects messages, or cqh at the end of the queue when it is read. The tests in
  `Independent` mind none of the first four while no test has overtaken the queue.
- `Frame` is what every test preserves, on track or not, and what the next one
  starts from: the table mode and context of the step reached; that a cached
  translation is what a walk yields (`Sound`), except for the two pages whose entries
  `iotinval` exchanges; and that only `iotinval` and `hpm` touch the exchanges, those
  pages and the armed counters (`Untouched`).
- `Waiting` names the one command that may wait at a step. A test that executes one
  meets its effect later: what the facts say before and after it differ by that step of
  the IOMMU, which is why they look at `cq`.
- `Explained` is the goal with the tests that may not fail at all made explicit, and
  `KeepsUp` says that without lag nothing is overtaken, and how a rejected command stops
  the queue until the test that queued it, `msi_generation` or `iofence`, clears cqcsr.

Each step of the hart leads from the facts at one step of a program to those at the
next, each step of the IOMMU keeps them, and each assertion holds where the facts do
(`AssertionsHold`). `SelfContained` is a condition on the text of a test; that it names
only tests of `Independent` is a lemma (`SelfContainedTests`). Where `iofence` compares
cqh with the value it read, the facts need cqh not to be at the end of the queue; that
is the case `excused` has for it.

*Which suites pass.* `Compatible` is a condition on the text of the tests and their order,
evaluated without running any: between a test that leaves a context of one stage, or an
interrupt pending, and a later one that is not self-contained there must stand one that
replaces the context, or clears the interrupts; and between one that leaves fctl at
messages and one that asks for a wired interrupt, as `iofence` does, one that selects
those. `AllHold` says that such a suite passes
when the command queue keeps up. `FailuresExplained` alone does not give that: it has to
be shown that nothing is `excused`.
- `TidyEvents`: between two tests no event of the queue is pending and `cip` is clear;
  within `iofence` and `msi_generation` they are pending at known steps.
- `Tidy`: only tests of `Independent` have been excused; the cached context is none, the one
  of two stages, or one that somebody left (`ContextLeft`); fip is pending only where
  somebody left it (`InterruptLeft`) or in a test that will clear it; pmip and an armed
  event counter only in `hpm`; fctl is at messages only where somebody left it (`MsiLeft`)
  or in a test that will select wires.
- `ContextLeft`, `InterruptLeft` and `MsiLeft` are about the tests run so far; that they are false
  when a test is called that depends on it is what `Compatible` is for (`NoContextLeft`,
  `NoInterruptLeft`, `NoMsiLeft`).
- `Straight` is about `iofence`, whose comparison of cqh with the value it read is the one
  assertion that depends on where the queue starts: cqh does not wrap as long as there is
  room for the commands that wait and those still to come (`Unsent`), and each test that
  runs takes its own from these.

The last needs `HeadRoom`: cqh starts at least nine entries before the end, as the twelve
tests queue eight commands between them. In the code the queue has 64 entries and cqh is
zero after a reset (the comment at `rv_iommu.c:636` takes it for that). The compatible suites are
far more than the one of the README (with or without `mrif_support` and `dbg_interface`,
which it does not list), which `ShippedSuitesCompatible` shows to be among them. The order
of `test_register.c` is not compatible: `iofence` comes right after `msi_generation`.

**Only model-checked:** liveness (`Drains`, `CallsDeliver`, `GotoPrivEnds`,
`Completes`, `Answered`, `Returns`), which is out of the prover's reach here. Every
invariant of a run, every action property and every refinement that a passing run checks is
stated by a theorem.

## Not modelled, and why

- Boot code, CSR macros, UART and C-library hooks: no state that a property is about.
- The path of the handlers for exceptions other than ecalls: no registered test
  raises one.
- `idma_only`, `idma_only_multiple_beats`, and what `latency_test` measures: not
  registered.
- Event counters other than the two that are armed.
- Stores of one hart that overtake each other, and memory that is warm at boot.
- The layout of the image, and the text that is printed.

## Plan

What is left, in this order:

1. `Hpm` and `Interrupts`: counters of their real width with what each event counts,
   and ipsr, vectors, masks and messages on their own, access by access, with an abstract
   specification "one overflow, one interrupt" and a warm start of memory.
2. Variants of `CommandQueue`: stores that overtake each other, and the words of each
   command builder (`rv_iommu_iofence_c` leaves one unset if `av` is false, which no call does).
3. The path of the handlers for expected exceptions, nested with `goto_priv`.

`TestSuite` composes the abstractions of these modules; the queues, contexts and the
debug interface stay as they are.
