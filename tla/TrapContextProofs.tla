------------------------- MODULE TrapContextProofs --------------------------
(***************************************************************************)
(* Traps give back the registers below x30, whatever registers the         *)
(* interrupted code uses, whatever they hold and however deep traps nest.  *)
(***************************************************************************)
EXTENDS TrapContext, TLAPS

\* The slot of a register below x30 is stored to for that register only.
LEMMA SlotIsOwn ==
  ASSUME NEW r \in Live, r < 30
  PROVE  RestoreSlot(r) \in Used /\ LastSaved(RestoreSlot(r)) = {r}
  <1>1. \A q \in Live : q \in Int /\ (SaveSlot(q) = RestoreSlot(r) <=> q = r)
    BY LiveAssumption DEF Registers, SaveSlot, RestoreSlot
  <1>2. LastSaved(RestoreSlot(r)) = {r}
    BY <1>1 DEF LastSaved
  <1> QED BY <1>2 DEF Used

\* What one trap saves is a frame that holds every register below x30.
LEMMA FrameHolds ==
  ASSUME regs \in [Live -> Values], NEW v \in Values,
         NEW f, f = [s \in Used |-> IF LastSaved(s) = {} THEN v
                                    ELSE regs[CHOOSE r \in LastSaved(s) : TRUE]]
  PROVE  /\ f \in [Used -> Values]
         /\ \A r \in Live : r < 30 => f[RestoreSlot(r)] = regs[r]
  <1>1. \A s \in Used : LastSaved(s) # {} => (CHOOSE r \in LastSaved(s) : TRUE) \in Live
    BY DEF LastSaved
  <1>2. f \in [Used -> Values]
    BY <1>1
  <1>3. ASSUME NEW r \in Live, r < 30 PROVE f[RestoreSlot(r)] = regs[r]
    <2>1. LastSaved(RestoreSlot(r)) = {r} /\ RestoreSlot(r) \in Used
      BY <1>3, SlotIsOwn
    <2>2. (CHOOSE q \in LastSaved(RestoreSlot(r)) : TRUE) = r
      BY <2>1
    <2> QED BY <2>1, <2>2
  <1> QED BY <1>2, <1>3

LEMMA TrapInit == Init => TrapInv
  BY DEF Init, TrapInv, TypeOK, FramesIntact, TransparentBelowX30

\* A trap adds a frame to those of the traps it interrupts.
LEMMA TrapSave ==
  ASSUME TrapInv, NEW v \in Values, Save(v)
  PROVE  TrapInv'
  <1> DEFINE f == [s \in Used |-> IF LastSaved(s) = {} THEN v
                                  ELSE regs[CHOOSE r \in LastSaved(s) : TRUE]]
  <1>1. /\ regs \in [Live -> Values]
        /\ frames \in Seq([Used -> Values])
        /\ entry \in Seq([Live -> Values])
        /\ Len(frames) = Len(entry)
    BY DEF TrapInv, TypeOK
  <1>2. f \in [Used -> Values] /\ \A r \in Live : r < 30 => f[RestoreSlot(r)] = regs[r]
    BY <1>1, FrameHolds
  <1>3. frames' = Append(frames, f) /\ entry' = Append(entry, regs) /\ UNCHANGED <<regs, resumed>>
    BY DEF Save
  <1> HIDE DEF f
  <1>4. TypeOK'
    BY <1>1, <1>2, <1>3 DEF TypeOK
  <1>5. FramesIntact'
    <2> SUFFICES ASSUME NEW k \in 1 .. Len(entry'), NEW r \in Live, r < 30
                 PROVE  frames'[k][RestoreSlot(r)] = entry'[k][r]
      BY DEF FramesIntact
    <2>1. CASE k = Len(entry) + 1
      BY <1>1, <1>2, <1>3, <2>1
    <2>2. CASE k \in 1 .. Len(entry)
      BY <1>1, <1>2, <1>3, <2>2 DEF TrapInv, FramesIntact
    <2> QED BY <1>1, <1>3, <2>1, <2>2
  <1>6. TransparentBelowX30'
    BY <1>3 DEF TrapInv, TransparentBelowX30
  <1> QED BY <1>4, <1>5, <1>6 DEF TrapInv

\* The return from a trap takes its frame off and loads the registers from it.
LEMMA TrapRestore ==
  ASSUME TrapInv, Restore
  PROVE  TrapInv'
  <1> DEFINE n == Len(entry)
  <1>1. /\ frames \in Seq([Used -> Values])
        /\ entry \in Seq([Live -> Values])
        /\ Len(frames) = n /\ n \in Nat /\ n > 0
    BY DEF Restore, TrapInv, TypeOK
  <1>2. /\ regs' = [r \in Live |-> frames[n][RestoreSlot(r)]]
        /\ frames' = SubSeq(frames, 1, n - 1)
        /\ entry' = SubSeq(entry, 1, n - 1)
        /\ resumed' = <<entry[n]>>
    BY <1>1 DEF Restore, Front, Last
  <1>3. \A r \in Live : RestoreSlot(r) \in Used
    BY DEF Used
  <1>4. TypeOK'
    <2>1. frames[n] \in [Used -> Values]
      BY <1>1
    <2>2. regs' \in [Live -> Values]
      BY <1>2, <1>3, <2>1
    <2> QED BY <1>1, <1>2, <2>2 DEF TypeOK
  <1>5. FramesIntact'
    <2>1. Len(entry') = n - 1
      BY <1>1, <1>2
    <2>2. \A k \in 1 .. n - 1 : frames'[k] = frames[k] /\ entry'[k] = entry[k]
      BY <1>1, <1>2
    <2>3. \A k \in 1 .. n - 1 : k \in 1 .. n
      BY <1>1
    <2> QED BY <2>1, <2>2, <2>3 DEF TrapInv, FramesIntact
  <1>6. TransparentBelowX30'
    BY <1>1, <1>2 DEF TrapInv, FramesIntact, TransparentBelowX30
  <1> QED BY <1>4, <1>5, <1>6 DEF TrapInv

LEMMA TrapStep == TrapInv /\ [Next]_vars => TrapInv'
  <1> SUFFICES ASSUME TrapInv, [Next]_vars PROVE TrapInv'
    OBVIOUS
  <1>1. CASE UNCHANGED vars
    BY <1>1 DEF vars, TrapInv, TypeOK, FramesIntact, TransparentBelowX30
  <1>2. ASSUME NEW r \in Live, NEW v \in Values, Compute(r, v) PROVE TrapInv'
    BY <1>2 DEF Compute, TrapInv, TypeOK, FramesIntact, TransparentBelowX30
  <1>3. ASSUME NEW v \in Values, Save(v) PROVE TrapInv'
    BY <1>3, TrapSave
  <1>4. CASE Restore
    BY <1>4, TrapRestore
  <1>5. CASE Resume
    BY <1>5 DEF Resume, TrapInv, TypeOK, FramesIntact, TransparentBelowX30
  <1> QED BY <1>1, <1>2, <1>3, <1>4, <1>5 DEF Next

\* Every pending frame is intact, and the return from a trap was right.
THEOREM TrapInvariant == Spec => []TrapInv
  BY TrapInit, TrapStep, PTL DEF Spec

(***************************************************************************)
(* However deep traps nest and whatever their handlers do, the interrupted *)
(* code finds the registers below x30 as it left them.                     *)
(***************************************************************************)
THEOREM TrapsTransparentBelowX30 == Spec => [](TypeOK /\ TransparentBelowX30)
  <1>1. TrapInv => TypeOK /\ TransparentBelowX30
    BY DEF TrapInv
  <1> QED BY <1>1, TrapInvariant, PTL

=============================================================================
