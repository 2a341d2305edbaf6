---------------------------- MODULE TrapContext -----------------------------
(***************************************************************************)
(* SAVE_CONTEXT and RESTORE_CONTEXT (asm/handlers.S): what a trap leaves   *)
(* in the registers of the code it interrupts.  A trap makes a frame of 31 *)
(* slots on the stack, stores every register but x2 (the stack pointer) in *)
(* its slot, runs a handler that may use all of them, and loads them back. *)
(* Handlers are trapped into again: their ecalls nest.                     *)
(***************************************************************************)
EXTENDS Integers, SequencesExt

CONSTANTS
  Live,         \* the registers that the interrupted code relies on
  Values,       \* what a register may hold
  MaxNesting    \* bound on the number of nested traps

Registers == (1 .. 31) \ {2}
Slots     == 0 .. 30

ASSUME LiveAssumption ==
  /\ Live \subseteq Registers
  /\ MaxNesting \in Nat

VARIABLES
  regs,         \* the live registers
  frames,       \* the frames of the traps being handled
  entry,        \* history: the live registers at each of these traps
  resumed       \* history: those at the last trap handled, none at first

vars == <<regs, frames, entry, resumed>>

\* With a bug: the store of x30 lands on x29 as well.
SaveSlotShifted(r) == IF r >= 30 THEN r - 2 ELSE r - 1

\* x31 is stored where x30 was.
SaveSlot(r) == IF r = 31 THEN 29 ELSE r - 1

\* With a bug: the offsets of the loads are those of the register before.
RestoreSlotBefore(r) == r - 2

RestoreSlot(r) == r - 1

\* The stores are made in the order of the register numbers: the last one wins.
LastSaved(s) == {r \in Live : SaveSlot(r) = s /\ \A q \in Live : SaveSlot(q) = s => q <= r}

Used == {SaveSlot(r) : r \in Live} \cup {RestoreSlot(r) : r \in Live}

Init ==
  /\ regs \in [Live -> Values]
  /\ frames = << >>
  /\ entry = << >>
  /\ resumed = << >>

\* Ordinary code, a handler's included, writes any of its registers.
Compute(r, v) ==
  /\ resumed = << >>
  /\ regs' = [regs EXCEPT ![r] = v]
  /\ UNCHANGED <<frames, entry, resumed>>

\* SAVE_CONTEXT: a slot that no register is stored in holds anything.
Save(v) ==
  /\ resumed = << >>
  /\ Len(frames) < MaxNesting
  /\ frames' = Append(frames, [s \in Used |->
                  IF LastSaved(s) = {} THEN v
                  ELSE regs[CHOOSE r \in LastSaved(s) : TRUE]])
  /\ entry' = Append(entry, regs)
  /\ UNCHANGED <<regs, resumed>>

\* With a bug: the frame stays on the stack.
RestoreInPlace ==
  /\ resumed = << >>
  /\ frames # << >>
  /\ regs' = [r \in Live |-> Last(frames)[RestoreSlot(r)]]
  /\ entry' = Front(entry)
  /\ resumed' = <<Last(entry)>>
  /\ UNCHANGED frames

\* RESTORE_CONTEXT, and the return to the interrupted code.
Restore ==
  /\ resumed = << >>
  /\ frames # << >>
  /\ regs' = [r \in Live |-> Last(frames)[RestoreSlot(r)]]
  /\ frames' = Front(frames)
  /\ entry' = Front(entry)
  /\ resumed' = <<Last(entry)>>

\* The interrupted code goes on.
Resume ==
  /\ resumed # << >>
  /\ resumed' = << >>
  /\ UNCHANGED <<regs, frames, entry>>

Next ==
  \/ \E r \in Live, v \in Values : Compute(r, v)
  \/ \E v \in Values : Save(v)
  \/ Restore
  \/ Resume

Spec == Init /\ [][Next]_vars

-----------------------------------------------------------------------------
(* Every variable has its type. *)
TypeOK ==
  /\ regs \in [Live -> Values]
  /\ frames \in Seq([Used -> Values])
  /\ entry \in Seq([Live -> Values])
  /\ Len(frames) = Len(entry)

(* A trap is transparent to the code it interrupts: every register comes   *)
(* back as it was, as the asm statement of ecall promises the compiler     *)
(* (rvh_test.c:33 lists memory, and no register, as changed).              *)
Transparent == resumed # << >> => regs = resumed[1]

(* Whatever is nested inside a trap, and whatever its handler does, the    *)
(* registers below x30 come back as they were.                             *)
TransparentBelowX30 ==
  resumed # << >> => \A r \in Live : r < 30 => regs[r] = resumed[1][r]

(* The frames on the stack keep what they were made of until their trap     *)
(* returns, for the registers below x30.  With this, what is given back is  *)
(* right at any depth: the inductive invariant of the traps.                *)
FramesIntact ==
  \A k \in 1 .. Len(entry) : \A r \in Live :
    r < 30 => frames[k][RestoreSlot(r)] = entry[k][r]

TrapInv == TypeOK /\ FramesIntact /\ TransparentBelowX30

=============================================================================
