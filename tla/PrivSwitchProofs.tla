-------------------------- MODULE PrivSwitchProofs --------------------------
(***************************************************************************)
(* goto_priv ends in the mode asked for and no step is made in a mode that *)
(* is not up to it: for every sequence of requests and every stack.        *)
(***************************************************************************)
EXTENDS PrivSwitch, TLAPS

\* The five modes, as numbers.
LEMMA Modes == Priv = {VU, HU, VS, HS, M} /\ Priv \subseteq Int
  BY DEF Priv, VU, HU, VS, HS, M

-----------------------------------------------------------------------------
(* The stack *)

\* The innermost call or handler moves on; those around it stay.
LEMMA MoveTop ==
  ASSUME stack \in Seq(Frame), stack # << >>,
         NEW a \in {"entry", "compare", "return"}
  PROVE  /\ Move(a) \in Seq(Frame)
         /\ Len(Move(a)) = Len(stack)
         /\ \A k \in 1 .. Len(stack) : k # Len(stack) => Move(a)[k] = stack[k]
         /\ Move(a)[Len(stack)] = [fn |-> top.fn, at |-> a, target |-> top.target]
  <1>1. Len(stack) \in 1 .. Len(stack) /\ stack[Len(stack)] \in Frame
    OBVIOUS
  <1>2. [stack[Len(stack)] EXCEPT !.at = a] =
          [fn |-> top.fn, at |-> a, target |-> top.target]
    BY <1>1 DEF Frame, Last, top
  <1>3. [fn |-> top.fn, at |-> a, target |-> top.target] \in Frame
    BY <1>1 DEF Frame, Last, top
  <1> QED BY <1>1, <1>2, <1>3 DEF Move, top

\* A call or a handler returns to the one around it.
LEMMA PopTop ==
  ASSUME stack \in Seq(Frame), stack # << >>
  PROVE  /\ Front(stack) \in Seq(Frame)
         /\ Len(Front(stack)) = Len(stack) - 1
         /\ \A k \in 1 .. Len(stack) - 1 : Front(stack)[k] = stack[k]
  BY DEF Front

\* A call or a trap is put on a stack that has room for it.
LEMMA PushFrame ==
  ASSUME NEW base \in Seq(Frame), NEW frame \in Frame
  PROVE  /\ Append(base, frame) \in Seq(Frame)
         /\ Len(Append(base, frame)) = Len(base) + 1
         /\ \A k \in 1 .. Len(base) : Append(base, frame)[k] = base[k]
         /\ Append(base, frame)[Len(base) + 1] = frame
  OBVIOUS

\* What goto_priv and a trap put on the stack.
LEMMA FrameTypes ==
  ASSUME NEW t \in Priv
  PROVE  Call(t) \in Frame /\ Trap \in Frame
  BY Modes DEF Call, Trap, Frame

\* What holds of the innermost frame of a running program.
LEMMA TopFacts ==
  ASSUME SwitchInv, status = "running", stack # << >>
  PROVE  /\ Len(stack) \in Nat /\ Len(stack) > 0 /\ top = stack[Len(stack)]
         /\ Len(stack) = 1 <=> ~(Len(stack) > 1)
         /\ top \in Frame /\ aim \in Priv
         /\ Len(stack) = 1 => top.fn = "goto_priv" /\ top.target = goal /\ aim = goal
         /\ Len(stack) > 1 /\ top.fn = "goto_priv" => top.target = aim
  <1>1. /\ stack \in Seq(Frame) /\ goal \in Priv
        /\ Len(stack) \in Nat /\ Len(stack) > 0 /\ top = stack[Len(stack)]
    BY DEF SwitchInv, TypeOK, Last, top
  <1>2. top \in Frame /\ aim \in Priv
    BY <1>1, Modes DEF aim
  <1>3. \A k \in 1 .. Len(stack) :
          /\ k = 1 => stack[k].fn = "goto_priv" /\ stack[k].target = goal
          /\ k > 1 /\ stack[k].fn = "goto_priv" => stack[k].target = aim
    BY DEF SwitchInv, Tower
  <1>4. Len(stack) \in 1 .. Len(stack)
    BY <1>1
  <1>5. Len(stack) = 1 <=> ~(Len(stack) > 1)
    <2> DEFINE n == Len(stack)
    <2>1. n \in Nat /\ n > 0
      BY <1>1
    <2> HIDE DEF n
    <2>2. n = 1 <=> ~(n > 1)
      BY <2>1
    <2> QED BY <2>2 DEF n
  <1> QED BY <1>1, <1>2, <1>3, <1>4, <1>5 DEF aim

-----------------------------------------------------------------------------
(* Towers unwind, and grow *)

\* When an inner frame is gone and all modes are the aim, so is the rest right.
LEMMA Unwind ==
  ASSUME SwitchInv, status = "running", stack # << >>,
         stack' = Front(stack), UNCHANGED <<ecall_target, status, goal>>,
         hart' = aim, curr_priv' = aim, real_priv' = aim,
         Len(stack) > 1 => ~is_user(aim)
  PROVE  SwitchInv'
  <1> DEFINE n == Len(stack)
  <1>1. /\ stack \in Seq(Frame) /\ goal \in Priv /\ ecall_target \in Priv
        /\ n \in Nat /\ n > 0 /\ aim \in Priv /\ Tower
    BY TopFacts DEF SwitchInv, TypeOK
  <1>2. /\ stack' \in Seq(Frame) /\ Len(stack') = n - 1
        /\ \A k \in 1 .. n - 1 : stack'[k] = stack[k]
    BY <1>1, PopTop
  <1>3. TypeOK'
    BY <1>1, <1>2 DEF SwitchInv, TypeOK
  <1>4. RefusesOnlyGuestToHostUser'
    BY DEF RefusesOnlyGuestToHostUser
  <1>5. CASE n = 1
    <2>1. stack' = << >> /\ aim = goal
      BY <1>1, <1>2, <1>5, TopFacts
    <2> QED BY <1>3, <1>4, <2>1 DEF SwitchInv, Tower, AtBase, Growing, Unwinding, top
  <1>6. CASE n = 2
    <2>1. /\ Len(stack') = 1 /\ stack'[1] = stack[1] /\ top' = stack[1] /\ stack' # << >>
          /\ stack[1].fn = "goto_priv" /\ stack[1].target = goal
          /\ stack[1].at \in {"compare", "return"}
          /\ stack[1].at = "compare" => aim = M
          /\ stack[1].at = "return" => aim = goal
          /\ aim' = goal
      <3>1. Len(stack') = 1 /\ stack'[1] = stack[1] /\ stack' # << >>
        BY <1>2, <1>6
      <3>2. 1 \in 1 .. Len(stack) /\ 1 < Len(stack)
        BY <1>6
      <3>3. /\ stack[1].fn = "goto_priv" /\ stack[1].target = goal
            /\ stack[1].at \in {"compare", "return"}
        BY <1>1, <3>2 DEF Tower
      <3>4. top' = stack[1]
        BY <3>1 DEF top, Last
      <3> QED BY <1>6, <3>1, <3>3, <3>4 DEF aim
    <2>2. ~is_user(aim) /\ (aim = M => ~is_user(M))
      BY <1>6
    <2>3. Tower' /\ AtBase'
      BY <2>1 DEF Tower, AtBase
    <2>4. Growing'
      BY <2>1, <2>2 DEF Growing, is_user
    <2>5. Unwinding'
      BY <2>1, <2>2 DEF Unwinding, is_user
    <2> QED BY <1>3, <1>4, <2>3, <2>4, <2>5 DEF SwitchInv
  <1>7. CASE n > 2
    <2>1. /\ Len(stack') = n - 1 /\ n - 1 > 1 /\ stack'[1] = stack[1] /\ aim' = aim
          /\ top' = stack[n - 1] /\ stack[n - 1].at = "return"
          /\ stack' # << >>
      BY <1>1, <1>2, <1>7 DEF Tower, aim, Last, top
    <2>2. Tower'
      BY <1>1, <1>2, <1>7, <2>1 DEF Tower
    <2>3. AtBase' /\ Growing'
      BY <2>1 DEF AtBase, Growing
    <2>4. Unwinding'
      BY <1>7, <2>1 DEF Unwinding, is_user
    <2> QED BY <1>3, <1>4, <2>2, <2>3, <2>4 DEF SwitchInv
  <1>8. n = 1 \/ n = 2 \/ n > 2
    <2>1. n \in Nat /\ n > 0
      BY <1>1
    <2> HIDE DEF n
    <2> QED BY <2>1
  <1> QED BY <1>5, <1>6, <1>7, <1>8

-----------------------------------------------------------------------------
(* The actions *)

\* With no room left, the program is over and nothing is claimed of it.
LEMMA Overflow ==
  ASSUME TypeOK', status' = "overflow"
  PROVE  SwitchInv'
  BY DEF SwitchInv, RefusesOnlyGuestToHostUser

LEMMA SwitchInit == Init => SwitchInv
  BY Modes DEF Init, SwitchInv, TypeOK, RefusesOnlyGuestToHostUser,
               Tower, AtBase, Growing, Unwinding

\* A request starts from a hart whose modes all agree.
LEMMA SwitchRequest ==
  ASSUME SwitchInv, NEW t \in Priv, Request(t)
  PROVE  SwitchInv'
  <1>1. /\ stack = << >> /\ goal' = t /\ Push(stack, Call(t)) /\ status = "running"
        /\ UNCHANGED <<hart, curr_priv, real_priv, ecall_target>>
    BY DEF Request
  <1>2. hart = curr_priv /\ real_priv = curr_priv /\ TypeOK
    BY <1>1 DEF SwitchInv, AtBase
  <1>3. CASE stack' = Append(stack, Call(t)) /\ UNCHANGED status
    <2>1. stack' \in Seq(Frame) /\ Len(stack') = 1 /\ stack'[1] = Call(t) /\ stack' # << >>
      BY <1>1, <1>3, FrameTypes
    <2>2. top' = Call(t) /\ aim' = t
      BY <1>1, <2>1 DEF top, Last, aim
    <2>3. TypeOK'
      BY <1>1, <1>2, <1>3, <2>1 DEF TypeOK
    <2>4. Tower' /\ AtBase'
      BY <1>1, <1>2, <2>1, <2>2 DEF Tower, AtBase, Call
    <2>5. Growing' /\ Unwinding'
      BY <2>1, <2>2 DEF Growing, Unwinding, Call
    <2> QED BY <1>1, <1>3, <2>3, <2>4, <2>5 DEF SwitchInv, RefusesOnlyGuestToHostUser
  <1>4. CASE stack' = stack /\ status' = "overflow"
    <2>1. TypeOK'
      BY <1>1, <1>2, <1>4 DEF TypeOK
    <2> QED BY <1>4, <2>1, Overflow
  <1> QED BY <1>1, <1>3, <1>4 DEF Push

\* Entering goto_priv: a detour through M starts at the base only.
LEMMA SwitchEnter ==
  ASSUME SwitchInv, Enter
  PROVE  SwitchInv'
  <1> DEFINE n == Len(stack)
             moved == Move("compare")
  <1>1. /\ status = "running" /\ stack # << >> /\ top.fn = "goto_priv" /\ top.at = "entry"
        /\ UNCHANGED <<hart, curr_priv, real_priv, ecall_target, goal>>
    BY DEF Enter, At
  <1>2. /\ TypeOK /\ Tower /\ AtBase /\ Growing /\ stack \in Seq(Frame)
        /\ curr_priv \in Priv /\ goal \in Priv
    BY <1>1 DEF SwitchInv, TypeOK
  <1>3. /\ n \in Nat /\ n > 0 /\ aim \in Priv /\ top \in Frame
        /\ n = 1 => top.target = goal
        /\ n > 1 => top.target = aim
    BY <1>1, TopFacts
  <1>4. /\ moved \in Seq(Frame) /\ Len(moved) = n
        /\ \A k \in 1 .. n : k # n => moved[k] = stack[k]
        /\ moved[n] = [fn |-> "goto_priv", at |-> "compare", target |-> top.target]
    BY <1>1, <1>2, MoveTop
  <1> HIDE DEF moved
  <1>5. CASE is_user(top.target) /\ is_user(curr_priv)
    <2>1. n = 1
      <3>1. ~(n > 1)
        BY <1>1, <1>2, <1>3, <1>5 DEF Growing
      <3> QED BY <1>1, <3>1, TopFacts
    <2>2. Push(moved, Call(M))
      BY <1>5 DEF Enter, moved
    <2>3. CASE stack' = Append(moved, Call(M)) /\ UNCHANGED status
      <3>1. /\ stack' \in Seq(Frame) /\ Len(stack') = 2 /\ stack'[1] = moved[1]
            /\ stack'[2] = Call(M) /\ stack' # << >>
        <4>1. Call(M) \in Frame
          BY FrameTypes, Modes
        <4>2. Len(moved) = 1 /\ moved \in Seq(Frame)
          BY <1>4, <2>1
        <4>3. /\ stack' \in Seq(Frame) /\ Len(stack') = 2
              /\ stack'[1] = moved[1] /\ stack'[2] = Call(M)
          BY <2>3, <4>1, <4>2
        <4> QED BY <4>3
      <3>2. top' = Call(M) /\ aim' = M
        BY <1>4, <2>1, <3>1 DEF top, Last, aim
      <3>3. curr_priv < M /\ ~is_user(M)
        BY <1>5 DEF is_user, VU, HU, M
      <3>4. TypeOK'
        BY <1>1, <1>2, <2>3, <3>1 DEF TypeOK
      <3>5. Tower'
        BY <1>1, <1>3, <1>4, <1>5, <2>1, <3>1, <3>2 DEF Tower, Call
      <3>6. AtBase'
        BY <1>1, <1>2, <3>1, <3>2 DEF AtBase, Call
      <3>7. Growing' /\ Unwinding'
        BY <1>1, <3>1, <3>2, <3>3 DEF Growing, Unwinding, Call
      <3> QED BY <1>1, <2>3, <3>4, <3>5, <3>6, <3>7 DEF SwitchInv, RefusesOnlyGuestToHostUser
    <2>4. CASE stack' = moved /\ status' = "overflow"
      <3>1. TypeOK'
        BY <1>1, <1>2, <1>4, <2>4 DEF TypeOK
      <3> QED BY <2>4, <3>1, Overflow
    <2> QED BY <2>2, <2>3, <2>4 DEF Push
  <1>6. CASE ~(is_user(top.target) /\ is_user(curr_priv))
    <2>1. stack' = moved /\ UNCHANGED status
      BY <1>6 DEF Enter, moved
    <2>2. stack' # << >> /\ top' = [fn |-> "goto_priv", at |-> "compare", target |-> top.target]
      BY <1>3, <1>4, <2>1 DEF top, Last
    <2>3. aim' = aim
      BY <1>1, <1>3, <1>4, <2>1 DEF aim
    <2>4. TypeOK'
      BY <1>1, <1>2, <1>4, <2>1 DEF TypeOK
    <2>5. Tower'
      BY <1>1, <1>2, <1>3, <1>4, <2>1, <2>3 DEF Tower
    <2>6. AtBase'
      BY <1>1, <1>2, <1>4, <2>1, <2>2 DEF AtBase
    <2>7. Growing' /\ Unwinding'
      BY <1>1, <1>2, <1>3, <1>4, <1>6, <2>1, <2>2, <2>3 DEF Growing, Unwinding, is_user
    <2> QED BY <1>1, <2>1, <2>4, <2>5, <2>6, <2>7 DEF SwitchInv, RefusesOnlyGuestToHostUser
  <1> QED BY <1>5, <1>6

\* A mode that is reached ends the growth of the tower.
LEMMA SwitchAlreadyThere ==
  ASSUME SwitchInv, AlreadyThere
  PROVE  SwitchInv'
  <1>1. /\ status = "running" /\ stack # << >> /\ top.fn = "goto_priv" /\ top.at = "compare"
        /\ real_priv = top.target /\ curr_priv' = top.target /\ stack' = Front(stack)
        /\ UNCHANGED <<hart, real_priv, ecall_target, status, goal>>
    BY DEF AlreadyThere, At
  <1>2. AtBase /\ Growing
    BY <1>1 DEF SwitchInv
  <1>3. top.target = aim
    BY <1>1, TopFacts
  <1>4. hart' = aim /\ curr_priv' = aim /\ real_priv' = aim
    BY <1>1, <1>2, <1>3 DEF AtBase
  <1>5. Len(stack) > 1 => ~is_user(aim)
    BY <1>1, <1>2 DEF Growing
  <1> QED BY <1>1, <1>4, <1>5, Unwind

\* The ecall puts a handler on the tower.
LEMMA SwitchEcall ==
  ASSUME SwitchInv, Ecall
  PROVE  SwitchInv'
  <1> DEFINE n == Len(stack)
             moved == Move("return")
  <1>1. /\ status = "running" /\ stack # << >> /\ top.fn = "goto_priv" /\ top.at = "compare"
        /\ top.target > curr_priv /\ ecall_target' = top.target /\ hart' = Delegate(hart)
        /\ Push(moved, Trap) /\ UNCHANGED <<curr_priv, real_priv, goal>>
    BY DEF Ecall, At
  <1>2. /\ TypeOK /\ Tower /\ Growing /\ stack \in Seq(Frame)
        /\ hart \in Priv /\ curr_priv \in Priv /\ goal \in Priv
    BY <1>1 DEF SwitchInv, TypeOK
  <1>3. /\ n \in Nat /\ n > 0 /\ aim \in Priv /\ top \in Frame
        /\ n = 1 => top.target = goal /\ aim = goal
        /\ n > 1 => top.target = aim
    BY <1>1, TopFacts
  <1>4. /\ moved \in Seq(Frame) /\ Len(moved) = n
        /\ \A k \in 1 .. n : k # n => moved[k] = stack[k]
        /\ moved[n] = [fn |-> "goto_priv", at |-> "return", target |-> top.target]
    BY <1>1, <1>2, MoveTop
  <1> HIDE DEF moved
  <1>5. top.target = aim
    BY <1>1, TopFacts
  <1>6. ~is_user(aim) /\ curr_priv < aim /\ top.target \in Priv
    <2>1. ~(is_user(aim) /\ is_user(curr_priv)) /\ curr_priv < aim
      BY <1>1, <1>2, <1>5, <1>3, Modes DEF Growing
    <2> QED BY <1>2, <1>3, <1>5, <2>1, Modes DEF is_user, VU, HU, VS, HS, M
  <1>7. Delegate(hart) \in Priv
    BY <1>2, Modes DEF Delegate, VU, HU, VS, HS, M
  <1>8. CASE stack' = Append(moved, Trap) /\ UNCHANGED status
    <2>1. /\ stack' \in Seq(Frame) /\ Len(stack') = n + 1 /\ stack' # << >>
          /\ \A k \in 1 .. n : stack'[k] = moved[k]
          /\ stack'[n + 1] = Trap
      <3>1. Trap \in Frame
        BY <1>3, FrameTypes
      <3>2. /\ stack' \in Seq(Frame) /\ Len(stack') = n + 1
            /\ \A k \in 1 .. n : stack'[k] = moved[k]
            /\ stack'[n + 1] = Trap
        BY <1>3, <1>4, <1>8, <3>1, PushFrame
      <3> QED BY <1>3, <3>2
    <2>2. top' = Trap
      BY <2>1 DEF top, Last
    <2>3. aim' = aim
      <3>1. CASE n = 1
        BY <1>1, <1>3, <1>4, <2>1, <3>1 DEF aim
      <3>2. CASE n > 1
        <4>1. Len(stack') > 1 /\ stack'[1] = stack[1]
          BY <1>3, <1>4, <2>1, <3>2
        <4> QED BY <1>1, <3>2, <4>1 DEF aim
      <3>3. n = 1 \/ n > 1
        BY <1>1, TopFacts
      <3> QED BY <3>1, <3>2, <3>3
    <2>4. TypeOK'
      BY <1>1, <1>2, <1>6, <1>7, <1>8, <2>1 DEF TypeOK
    <2>5. Tower'
      <3> SUFFICES ASSUME NEW k \in 1 .. n + 1
                   PROVE  /\ k = 1 => stack'[k].fn = "goto_priv" /\ stack'[k].target = goal
                          /\ k > 1 /\ stack'[k].fn = "goto_priv" => stack'[k].target = aim
                          /\ stack'[k].fn = "handler" => stack'[k].at # "compare"
                          /\ k < n + 1 => \/ stack'[k].at = "return"
                                          \/ k = 1 /\ stack'[k].at = "compare" /\ is_user(goal)
        BY <1>1, <2>1, <2>3 DEF Tower
      <3>1. CASE k = n + 1
        BY <1>3, <2>1, <3>1 DEF Trap
      <3>2. CASE k = n
        BY <1>3, <1>4, <1>5, <2>1, <3>2
      <3>3. CASE k # n /\ k # n + 1
        <4>1. k \in 1 .. n /\ k < n /\ stack'[k] = stack[k]
          BY <1>3, <1>4, <2>1, <3>3
        <4> QED BY <1>2, <1>3, <4>1 DEF Tower
      <3> QED BY <3>1, <3>2, <3>3
    <2>6. AtBase' /\ Unwinding'
      BY <2>1, <2>2 DEF AtBase, Unwinding, Trap
    <2>7. Growing'
      BY <1>1, <1>5, <1>6, <2>2, <2>3 DEF Growing, Trap, is_user
    <2> QED BY <1>1, <1>8, <2>4, <2>5, <2>6, <2>7 DEF SwitchInv, RefusesOnlyGuestToHostUser
  <1>9. CASE stack' = moved /\ status' = "overflow"
    <2>1. TypeOK'
      BY <1>1, <1>2, <1>4, <1>6, <1>7, <1>9 DEF TypeOK
    <2> QED BY <1>9, <2>1, Overflow
  <1> QED BY <1>1, <1>8, <1>9 DEF Push

\* lower_priv is reached at the base only, with all modes in agreement.
LEMMA BaseLowers ==
  ASSUME SwitchInv, Lowers
  PROVE  /\ status = "running" /\ stack # << >> /\ Len(stack) = 1
         /\ top.target = goal /\ aim = goal /\ goal \in Priv /\ hart \in Priv
         /\ curr_priv = hart /\ real_priv = hart /\ goal < hart
         /\ ~(is_user(goal) /\ is_user(hart))
  <1>1. /\ status = "running" /\ stack # << >> /\ top.fn = "goto_priv" /\ top.at = "compare"
        /\ real_priv # top.target /\ top.target <= curr_priv
    BY DEF Lowers, At
  <1>2. AtBase /\ Growing /\ goal \in Priv /\ hart \in Priv /\ curr_priv \in Priv
    BY <1>1 DEF SwitchInv, TypeOK
  <1>3. /\ Len(stack) \in Nat /\ Len(stack) > 0 /\ aim \in Priv
        /\ Len(stack) = 1 => top.target = goal /\ aim = goal
        /\ Len(stack) > 1 => top.target = aim
    BY <1>1, TopFacts
  <1>4. Len(stack) = 1
    <2>1. ~(Len(stack) > 1)
      BY <1>1, <1>2, <1>3, Modes DEF Growing
    <2> QED BY <1>1, <2>1, TopFacts
  <1>5. curr_priv = hart /\ real_priv = hart /\ top.target = goal
    BY <1>1, <1>2, <1>3, <1>4 DEF AtBase
  <1> QED BY <1>1, <1>2, <1>3, <1>4, <1>5, Modes DEF Growing

\* The return that lower_priv makes leads to the mode asked for.
LEMMA SwitchLower ==
  ASSUME SwitchInv, LowerPriv
  PROVE  SwitchInv'
  <1>1. /\ Lowers /\ ~Refuses /\ curr_priv' = top.target /\ stack' = Front(stack)
        /\ UNCHANGED <<ecall_target, status, goal>>
    BY DEF LowerPriv
  <1>2. hart' = goal /\ real_priv' = goal
    <2>1. hart' = ReturnsTo(hart, goal) /\ real_priv' = goal
      BY <1>1, BaseLowers, Modes DEF LowerPriv
    <2>2. ~(hart = VS /\ goal = HU) /\ ~is_user(hart)
      BY <1>1, BaseLowers, Modes DEF Refuses
    <2>3. ReturnsTo(hart, goal) = goal
      BY <1>1, <2>2, BaseLowers, Modes DEF ReturnsTo, is_user, VU, HU, VS, HS, M
    <2> QED BY <2>1, <2>3
  <1>3. ~(Len(stack) > 1)
    BY <1>1, BaseLowers, TopFacts
  <1> QED BY <1>1, <1>2, <1>3, BaseLowers, Unwind

\* ERROR is reached on the way from a guest to the host's user mode only.
LEMMA SwitchRefuse ==
  ASSUME SwitchInv, RefuseLower
  PROVE  SwitchInv'
  <1>1. /\ Lowers /\ Refuses /\ status' = "error"
        /\ UNCHANGED <<hart, curr_priv, real_priv, ecall_target, stack, goal>>
    BY DEF RefuseLower
  <1>2. curr_priv = VS /\ goal = HU
    BY <1>1, BaseLowers, Modes DEF Refuses, is_user, VU, HU, VS, HS, M
  <1> QED BY <1>1, <1>2 DEF SwitchInv, TypeOK, RefusesOnlyGuestToHostUser

\* The handler calls goto_priv with the aim of the tower.
LEMMA SwitchHandle ==
  ASSUME SwitchInv, Handle
  PROVE  SwitchInv'
  <1> DEFINE n == Len(stack)
             moved == Move("return")
  <1>1. /\ status = "running" /\ stack # << >> /\ top.fn = "handler" /\ top.at = "entry"
        /\ real_priv' = hart /\ Push(moved, Call(ecall_target))
        /\ UNCHANGED <<hart, curr_priv, ecall_target, goal>>
    BY DEF Handle, At
  <1>2. /\ TypeOK /\ Tower /\ Growing /\ stack \in Seq(Frame) /\ ecall_target \in Priv
    BY <1>1 DEF SwitchInv, TypeOK
  <1>3. n \in Nat /\ n > 1 /\ aim \in Priv /\ top \in Frame
    BY <1>1, TopFacts
  <1>4. /\ moved \in Seq(Frame) /\ Len(moved) = n
        /\ \A k \in 1 .. n : k # n => moved[k] = stack[k]
        /\ moved[n] = [fn |-> "handler", at |-> "return", target |-> top.target]
    BY <1>1, <1>2, MoveTop
  <1> HIDE DEF moved
  <1>5. ecall_target = aim /\ curr_priv < aim /\ ~is_user(aim)
    BY <1>1, <1>2, <1>3 DEF Growing
  <1>6. CASE stack' = Append(moved, Call(ecall_target)) /\ UNCHANGED status
    <2>1. /\ stack' \in Seq(Frame) /\ Len(stack') = n + 1 /\ stack' # << >>
          /\ \A k \in 1 .. n : stack'[k] = moved[k]
          /\ stack'[n + 1] = Call(aim)
      <3>1. Call(aim) \in Frame
        BY <1>3, FrameTypes
      <3>2. /\ stack' \in Seq(Frame) /\ Len(stack') = n + 1
            /\ \A k \in 1 .. n : stack'[k] = moved[k]
            /\ stack'[n + 1] = Call(aim)
        BY <1>3, <1>4, <1>5, <1>6, <3>1, PushFrame
      <3> QED BY <1>3, <3>2
    <2>2. top' = Call(aim)
      BY <2>1 DEF top, Last
    <2>3. aim' = aim
      <3>1. Len(stack') > 1 /\ stack'[1] = stack[1]
        BY <1>3, <1>4, <2>1
      <3> QED BY <1>1, <1>3, <3>1 DEF aim
    <2>4. TypeOK'
      BY <1>1, <1>2, <1>6, <2>1 DEF TypeOK
    <2>5. Tower'
      <3> SUFFICES ASSUME NEW k \in 1 .. n + 1
                   PROVE  /\ k = 1 => stack'[k].fn = "goto_priv" /\ stack'[k].target = goal
                          /\ k > 1 /\ stack'[k].fn = "goto_priv" => stack'[k].target = aim
                          /\ stack'[k].fn = "handler" => stack'[k].at # "compare"
                          /\ k < n + 1 => \/ stack'[k].at = "return"
                                          \/ k = 1 /\ stack'[k].at = "compare" /\ is_user(goal)
        BY <1>1, <2>1, <2>3 DEF Tower
      <3>1. CASE k = n + 1
        BY <1>3, <2>1, <3>1 DEF Call
      <3>2. CASE k = n
        BY <1>3, <1>4, <2>1, <3>2
      <3>3. CASE k # n /\ k # n + 1
        <4>1. k \in 1 .. n /\ k < n /\ stack'[k] = stack[k]
          BY <1>3, <1>4, <2>1, <3>3
        <4> QED BY <1>2, <1>3, <4>1 DEF Tower
      <3> QED BY <3>1, <3>2, <3>3
    <2>6. AtBase'
      BY <1>1, <1>3, <2>1, <2>2 DEF AtBase, Call
    <2>7. Growing' /\ Unwinding'
      BY <1>1, <1>5, <2>1, <2>2, <2>3 DEF Growing, Unwinding, Call, is_user
    <2> QED BY <1>1, <1>6, <2>4, <2>5, <2>6, <2>7 DEF SwitchInv, RefusesOnlyGuestToHostUser
  <1>7. CASE stack' = moved /\ status' = "overflow"
    <2>1. TypeOK'
      BY <1>1, <1>2, <1>4, <1>7 DEF TypeOK
    <2> QED BY <1>7, <2>1, Overflow
  <1> QED BY <1>1, <1>6, <1>7 DEF Push

\* goto_priv and the handlers return in the mode that is the aim.
LEMMA SwitchReturn ==
  ASSUME SwitchInv, Return \/ ReturnFromException
  PROVE  SwitchInv'
  <1>1. /\ status = "running" /\ stack # << >> /\ top.at = "return" /\ stack' = Front(stack)
        /\ UNCHANGED <<curr_priv, ecall_target, status, goal>>
        /\ \/ UNCHANGED <<hart, real_priv>>
           \/ hart' = ReturnsTo(real_priv, curr_priv) /\ real_priv' = curr_priv
    BY DEF Return, ReturnFromException, At
  <1>2. hart = aim /\ curr_priv = aim /\ real_priv = aim /\ ~is_user(aim) /\ aim \in Priv
    BY <1>1, TopFacts DEF SwitchInv, Unwinding
  <1>3. ReturnsTo(aim, aim) = aim
    BY <1>2, Modes DEF ReturnsTo, is_user, VU, HU, VS, HS, M
  <1> QED BY <1>1, <1>2, <1>3, Unwind

LEMMA SwitchStep == SwitchInv /\ [Next]_vars => SwitchInv'
  <1> SUFFICES ASSUME SwitchInv, [Next]_vars PROVE SwitchInv'
    OBVIOUS
  <1>1. CASE UNCHANGED vars
    BY <1>1 DEF vars, SwitchInv, TypeOK, RefusesOnlyGuestToHostUser, Tower, AtBase,
                Growing, Unwinding, aim, top
  <1>2. CASE \E t \in Priv : Request(t)
    BY <1>2, SwitchRequest
  <1>3. CASE Run
    BY <1>3, SwitchEnter, SwitchAlreadyThere, SwitchEcall, SwitchLower, SwitchRefuse,
       SwitchReturn, SwitchHandle DEF Run
  <1> QED BY <1>1, <1>2, <1>3 DEF Next

-----------------------------------------------------------------------------
(***************************************************************************)
(* The modes and the stack agree, in every behaviour.                      *)
(***************************************************************************)
THEOREM SwitchInvariant == Spec => []SwitchInv
  BY SwitchInit, SwitchStep, PTL DEF Spec

(***************************************************************************)
(* Whatever is asked of goto_priv, HU to VS included: when it returns, it  *)
(* has reached the mode; on the way, code runs in the mode it needs; and   *)
(* it gives up between a guest and the host's user mode only.              *)
(***************************************************************************)
THEOREM SwitchSafety == Spec => [](TypeOK /\ Arrived /\ RightMode /\ RefusesOnlyGuestToHostUser)
  <1>1. SwitchInv => TypeOK /\ Arrived /\ RefusesOnlyGuestToHostUser
    BY DEF SwitchInv, AtBase, Arrived
  <1>2. SwitchInv => RightMode
    <2> SUFFICES ASSUME SwitchInv PROVE RightMode
      OBVIOUS
    <2>1. At("handler", "return") => real_priv = hart
      BY DEF At, SwitchInv, Unwinding
    <2>2. ASSUME At("goto_priv", "compare"), real_priv # top.target, top.target < curr_priv
          PROVE  curr_priv = hart
      <3>1. stack # << >> /\ status = "running"
        BY <2>2 DEF At
      <3>2. top.target \in Int /\ curr_priv \in Int
        BY <3>1, TopFacts, Modes DEF SwitchInv, TypeOK, Frame
      <3>3. Lowers
        BY <2>2, <3>2 DEF Lowers
      <3> QED BY <3>3, BaseLowers
    <2> QED BY <2>1, <2>2 DEF RightMode
  <1> QED BY <1>1, <1>2, SwitchInvariant, PTL

=============================================================================
