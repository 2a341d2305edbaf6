----------------------------- MODULE PrivSwitch -----------------------------
(***************************************************************************)
(* Changing the privilege mode of the hart (rvh_test.c).  goto_priv lowers *)
(* the mode with mret or sret and raises it with an ecall whose handler    *)
(* calls goto_priv again; a handler that is not privileged enough makes an *)
(* ecall of its own, and all of them return in the mode finally reached.   *)
(* One step is one call, one trap or one return.                           *)
(***************************************************************************)
EXTENDS Integers, SequencesExt

CONSTANTS
  Requests,     \* the <<mode, target>> pairs that the tests ask for
  MaxDepth      \* how many calls and traps the stack has room for

(***************************************************************************)
(* The numbering of enum priv, which goto_priv compares.                   *)
(***************************************************************************)
VU == 0
HU == 1
VS == 2
HS == 3
M  == 4
Priv == VU .. M

ASSUME RequestAssumption ==
  /\ Requests \subseteq Priv \X Priv
  /\ MaxDepth \in Nat

VARIABLES
  hart,         \* the mode the hart is in
  curr_priv,    \* the mode the software believes it will be in
  real_priv,    \* the mode the software believes it is in
  ecall_target, \* ecall_args[1]
  stack,        \* calls of goto_priv and trap handlers, innermost last
  status,       \* "running", "error" (ERROR froze it) or "overflow"
  goal          \* history: the target last asked for

vars == <<hart, curr_priv, real_priv, ecall_target, stack, status, goal>>

is_user(p) == p \in {VU, HU}

\* Calls and handlers, with the point they have reached.
Call(t)  == [fn |-> "goto_priv", at |-> "entry", target |-> t]
Trap     == [fn |-> "handler", at |-> "entry", target |-> M]
Frame    == [fn : {"goto_priv", "handler"},
             at : {"entry", "compare", "return"}, target : Priv]

top      == Last(stack)
At(f, a) == status = "running" /\ stack # << >> /\ top.fn = f /\ top.at = a
Move(a)  == [stack EXCEPT ![Len(stack)].at = a]

\* A call or a trap that finds no room runs over the end of the stack.
Push(base, frame) ==
  IF Len(base) < MaxDepth
  THEN stack' = Append(base, frame) /\ UNCHANGED status
  ELSE stack' = base /\ status' = "overflow"

Init ==
  /\ hart = M
  /\ curr_priv = M
  /\ real_priv = M
  /\ ecall_target = M
  /\ stack = << >>
  /\ status = "running"
  /\ goal = M

-----------------------------------------------------------------------------
(* Hardware *)

\* With a bug: ecalls from HS are delegated to HS.
DelegateToSelf(p) ==
  CASE p = VU -> VS
    [] p \in {HU, VS, HS} -> HS
    [] p = M -> M

\* The mode that handles an ecall made in mode p, as reset_state delegates.
Delegate(p) ==
  CASE p = VU -> VS
    [] p \in {HU, VS} -> HS
    [] p \in {HS, M} -> M

(***************************************************************************)
(* Where mret or sret leads after the code for mode "from" has written the *)
(* previous-mode fields for mode "to".  mstatus can name every mode; from  *)
(* HS no return leads to M, and from VS none leads out of the guest.       *)
(***************************************************************************)
ReturnsTo(from, to) ==
  CASE from = M  -> to
    [] from = HS -> IF to = M THEN HU ELSE to
    [] from = VS -> IF to \in {VS, HS} THEN VS ELSE VU

-----------------------------------------------------------------------------
(* goto_priv *)

Request(t) ==
  /\ status = "running"
  /\ stack = << >>
  /\ <<hart, t>> \in Requests
  /\ goal' = t
  /\ Push(stack, Call(t))
  /\ UNCHANGED <<hart, curr_priv, real_priv, ecall_target>>

\* With a bug: there is no detour between the user modes.
EnterDirectly ==
  /\ At("goto_priv", "entry")
  /\ stack' = Move("compare")
  /\ UNCHANGED <<hart, curr_priv, real_priv, ecall_target, status, goal>>

\* From one user mode to another the way leads through M.
Enter ==
  /\ At("goto_priv", "entry")
  /\ IF is_user(top.target) /\ is_user(curr_priv)
     THEN Push(Move("compare"), Call(M))
     ELSE stack' = Move("compare") /\ UNCHANGED status
  /\ UNCHANGED <<hart, curr_priv, real_priv, ecall_target, goal>>

\* With a bug: curr_priv is left as it was.
AlreadyThereStale ==
  /\ At("goto_priv", "compare")
  /\ real_priv = top.target
  /\ stack' = Front(stack)
  /\ UNCHANGED <<hart, curr_priv, real_priv, ecall_target, status, goal>>

AlreadyThere ==
  /\ At("goto_priv", "compare")
  /\ real_priv = top.target
  /\ curr_priv' = top.target
  /\ stack' = Front(stack)
  /\ UNCHANGED <<hart, real_priv, ecall_target, status, goal>>

\* With a bug: the argument is the mode after the one asked for.
EcallNext ==
  /\ At("goto_priv", "compare")
  /\ real_priv # top.target
  /\ top.target > curr_priv
  /\ ecall_target' = top.target + 1
  /\ hart' = Delegate(hart)
  /\ Push(Move("return"), Trap)
  /\ UNCHANGED <<curr_priv, real_priv, goal>>

\* The call returns when the handler of its ecall has.
Ecall ==
  /\ At("goto_priv", "compare")
  /\ real_priv # top.target
  /\ top.target > curr_priv
  /\ ecall_target' = top.target
  /\ hart' = Delegate(hart)
  /\ Push(Move("return"), Trap)
  /\ UNCHANGED <<curr_priv, real_priv, goal>>

Lowers == At("goto_priv", "compare") /\ real_priv # top.target /\ top.target <= curr_priv

\* No return from a trap leads from a guest to the host's user mode.
Refuses == \/ curr_priv = VS /\ top.target = HU
           \/ is_user(curr_priv) /\ top.target # curr_priv

\* With a bug: lower_priv does not note that the mode has changed.
LowerPrivUnrecorded ==
  /\ Lowers
  /\ ~Refuses
  /\ hart' = IF top.target = curr_priv THEN hart ELSE ReturnsTo(curr_priv, top.target)
  /\ curr_priv' = top.target
  /\ stack' = Front(stack)
  /\ UNCHANGED <<real_priv, ecall_target, status, goal>>

\* lower_priv: the return that it makes lands after it, in the lower mode.
LowerPriv ==
  /\ Lowers
  /\ ~Refuses
  /\ IF top.target = curr_priv
     THEN UNCHANGED <<hart, real_priv>>
     ELSE hart' = ReturnsTo(curr_priv, top.target) /\ real_priv' = top.target
  /\ curr_priv' = top.target
  /\ stack' = Front(stack)
  /\ UNCHANGED <<ecall_target, status, goal>>

RefuseLower ==
  /\ Lowers
  /\ Refuses
  /\ status' = "error"
  /\ UNCHANGED <<hart, curr_priv, real_priv, ecall_target, stack, goal>>

Return ==
  /\ At("goto_priv", "return")
  /\ stack' = Front(stack)
  /\ UNCHANGED <<hart, curr_priv, real_priv, ecall_target, status, goal>>

-----------------------------------------------------------------------------
(* mhandler, hshandler, vshandler: the one the trap entered sets real_priv *)

\* With a bug: every handler notes the mode that mhandler runs in.
HandleAsM ==
  /\ At("handler", "entry")
  /\ real_priv' = M
  /\ Push(Move("return"), Call(ecall_target))
  /\ UNCHANGED <<hart, curr_priv, ecall_target, goal>>

Handle ==
  /\ At("handler", "entry")
  /\ real_priv' = hart
  /\ Push(Move("return"), Call(ecall_target))
  /\ UNCHANGED <<hart, curr_priv, ecall_target, goal>>

\* return_from_exception, in the mode that the inner goto_priv has reached.
ReturnFromException ==
  /\ At("handler", "return")
  /\ hart' = ReturnsTo(real_priv, curr_priv)
  /\ real_priv' = curr_priv
  /\ stack' = Front(stack)
  /\ UNCHANGED <<curr_priv, ecall_target, status, goal>>

-----------------------------------------------------------------------------
Run == \/ Enter \/ AlreadyThere \/ Ecall \/ LowerPriv \/ RefuseLower \/ Return
       \/ Handle \/ ReturnFromException

Next == (\E t \in Priv : Request(t)) \/ Run

Spec == Init /\ [][Next]_vars /\ WF_vars(Run)

-----------------------------------------------------------------------------
(* Every variable has its type. *)
TypeOK ==
  /\ {hart, curr_priv, real_priv, ecall_target, goal} \subseteq Priv
  /\ stack \in Seq(Frame)
  /\ status \in {"running", "error", "overflow"}

(* When goto_priv has returned, the hart is in the mode that was asked for *)
(* and both of the software's records of the mode agree with it.           *)
Arrived ==
  status = "running" /\ stack = << >> =>
    hart = goal /\ curr_priv = goal /\ real_priv = goal

(* Mode-dependent code runs in the mode it is written for: real_priv names *)
(* the mode of the hart whenever a handler returns, and curr_priv does     *)
(* whenever lower_priv writes the previous-mode fields, so no step touches *)
(* a register its mode may not touch.                                      *)
RightMode ==
  /\ At("handler", "return") => real_priv = hart
  /\ At("goto_priv", "compare") /\ real_priv # top.target /\ top.target < curr_priv
       => curr_priv = hart

(* goto_priv gives up only where the architecture has no way to go.         *)
RefusesOnlyGuestToHostUser == status = "error" => curr_priv = VS /\ goal = HU

(* A goto_priv ends: its nested traps unwind, or ERROR freezes the program.  *)
GotoPrivEnds == stack # << >> ~> (stack = << >> \/ status = "error")

(***************************************************************************)
(* Why it works.  A way to a higher mode is a tower of calls and handlers  *)
(* with one aim: the mode asked for, or M on the way from one user mode to *)
(* another.  curr_priv stays the mode it started in while the tower grows, *)
(* and names the aim, as the hart and real_priv do, while it unwinds.      *)
(***************************************************************************)
aim == IF Len(stack) > 1 /\ stack[1].at = "compare" THEN M ELSE goal

Tower ==
  \A k \in 1 .. Len(stack) :
    /\ k = 1 => stack[k].fn = "goto_priv" /\ stack[k].target = goal
    /\ k > 1 /\ stack[k].fn = "goto_priv" => stack[k].target = aim
    /\ stack[k].fn = "handler" => stack[k].at # "compare"
    /\ k < Len(stack) => \/ stack[k].at = "return"
                         \/ k = 1 /\ stack[k].at = "compare" /\ is_user(goal)

AtBase ==
  /\ stack = << >> => hart = goal /\ curr_priv = goal /\ real_priv = goal
  /\ stack # << >> /\ top.fn = "goto_priv" /\ top.at # "return" =>
       /\ hart = real_priv
       /\ Len(stack) = 1 => curr_priv = hart

Growing ==
  stack # << >> /\ top.at # "return" =>
    /\ Len(stack) > 1 => curr_priv < aim /\ ~is_user(aim)
    /\ top.at = "compare" => ~(is_user(top.target) /\ is_user(curr_priv))
    /\ top.fn = "handler" => ecall_target = aim

Unwinding ==
  stack # << >> /\ top.at = "return" =>
    hart = aim /\ curr_priv = aim /\ real_priv = aim /\ ~is_user(aim)

(* The modes and the stack agree at every step of a switch, whatever modes  *)
(* are asked for and however much room the stack has.                      *)
SwitchInv ==
  /\ TypeOK
  /\ RefusesOnlyGuestToHostUser
  /\ status = "running" => Tower /\ AtBase /\ Growing /\ Unwinding

=============================================================================
