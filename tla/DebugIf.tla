------------------------------- MODULE DebugIf -------------------------------
(***************************************************************************)
(* The debug interface: the hart describes an access in two registers, by  *)
(* one read-modify-write of tr_req_ctl per field, sets the go bit, polls   *)
(* until the IOMMU has cleared it, and reads from tr_response which page   *)
(* the access reaches.  The IOMMU answers at a time of its own by walking  *)
(* PageTables.  A device ID is the set of its bits.                        *)
(***************************************************************************)
EXTENDS PageTables

CONSTANTS
  Devices,   \* idma_ids
  Pages      \* the virtual pages asked for

\* N_DMA is 1; DID_MIN .. DID_MAX are the IDs of four bits, not all zero.
ASSUME DeviceAssumption ==
  /\ Devices \subseteq (SUBSET (0 .. 3)) \ {{}}
  /\ \A d, e \in Devices : d = e
ASSUME PageAssumption == Pages # {} /\ Pages \subseteq Tested

VARIABLES
  swapped,    \* stages whose switch entries earlier tests have exchanged
  iova,       \* tr_req_iova
  ctl,        \* tr_req_ctl
  response,   \* tr_response
  pc,         \* what the hart does next
  tmp, field, \* ctl_tmp, and the field that the setter writes
  got,        \* what the hart has made of the response
  asked       \* history: the access that the calls describe

regs   == <<iova, ctl, response>>
vars   == <<swapped, regs, pc, tmp, field, got, asked>>

Flags == {"pv", "priv", "nw", "exe", "go"}
Ctl   == [did : SUBSET (0 .. 3), pv : BOOLEAN, priv : BOOLEAN, nw : BOOLEAN, exe : BOOLEAN,
          go : BOOLEAN]
NoTranslation == [fault |-> TRUE, sp |-> FALSE, ppn |-> 0]
Unread == [fault |-> FALSE, sp |-> FALSE, ppn |-> 0, x |-> 0]

\* The registers after reset; a flag may have been left set.
Init ==
  /\ swapped = {}
  /\ iova \in Pages
  /\ ctl \in {c \in Ctl : c.did = {} /\ ~c.go}
  /\ response = NoTranslation
  /\ pc = "setup"
  /\ tmp = ctl /\ field = "none"
  /\ got = Unread
  /\ asked = [iova |-> iova, ctl |-> ctl]

-----------------------------------------------------------------------------
(* The IOMMU *)

\* Every device of DID_MIN .. DID_MAX has both stages and MSI translation on.
Configured(did) == did # {}
TwoStage == [s1 |-> "sv39", s2 |-> "sv39x4", msi |-> "flat"]

Rights2(c) == {IF c.exe THEN "X" ELSE "R"} \cup (IF c.nw THEN {} ELSE {"W"})

\* The walk of the access, which an MSI address ends.
Result(t, c) ==
  LET n     == page_base(<<"v", t>>)
      first == Through("s1", n, Rights2(c), swapped)
  IN IF ~Configured(c.did) \/ (first.ok /\ MatchesMsi(first.page)) THEN NoPage
     ELSE Walked(n, Rights2(c), TwoStage, swapped)

\* The size of a superpage is told by the ones at the end of its number.
Encode(r) ==
  CASE ~r.ok -> NoTranslation
    [] r.ok /\ r.size = 1 -> [fault |-> FALSE, sp |-> FALSE, ppn |-> r.page]
    [] OTHER -> [fault |-> FALSE, sp |-> TRUE,
                 ppn |-> r.page - (r.page % r.size) + (r.size \div 2) - 1]

ClearGo == ctl.go /\ ctl' = [ctl EXCEPT !.go = FALSE]

Answer ==
  /\ ClearGo
  /\ response' = Encode(Result(iova, ctl))
  /\ UNCHANGED <<swapped, iova, pc, tmp, field, got, asked>>

-----------------------------------------------------------------------------
(* The hart *)

\* Before the test: s1pt_switch and s2pt_switch.
Switch(stage) ==
  /\ pc = "setup"
  /\ swapped' = (swapped \ {stage}) \cup ({stage} \ swapped)
  /\ UNCHANGED <<regs, pc, tmp, field, got, asked>>

\* The test begins: set_iommu_1lvl and the device contexts.
Setup ==
  /\ pc = "setup"
  /\ pc' = "idle"
  /\ UNCHANGED <<swapped, regs, tmp, field, got, asked>>

SetIova ==
  \E t \in Pages :
    /\ pc = "idle"
    /\ iova' = t
    /\ asked' = [asked EXCEPT !.iova = t]
    /\ got' = Unread
    /\ UNCHANGED <<swapped, ctl, response, pc, tmp, field>>

\* A setter of field f reads the register and then writes it back; asked is
\* what the caller means by it.
ReadCtl(f, x) ==
  /\ pc = "idle"
  /\ pc' = "write"
  /\ tmp' = ctl /\ field' = f
  /\ asked' = [asked EXCEPT !.ctl[f] = x]
  /\ got' = Unread
  /\ UNCHANGED <<swapped, regs>>

CallSetter ==
  \/ \E d \in Devices : ReadCtl("did", d)
  \/ \E f \in Flags \ {"go"}, b \in BOOLEAN : ReadCtl(f, b)
  \/ ReadCtl("go", TRUE)

\* With a bug: a flag is never cleared.
MergedSticky ==
  IF field = "did" THEN [tmp EXCEPT !.did = @ \cup asked.ctl.did]
  ELSE [tmp EXCEPT ![field] = @ \/ asked.ctl[field]]

\* ctl_tmp with the field in it: the ID is ORed into what was there.
Merged ==
  IF field = "did" THEN [tmp EXCEPT !.did = @ \cup asked.ctl.did]
  ELSE [tmp EXCEPT ![field] = asked.ctl[field]]

WriteCtl ==
  /\ pc = "write"
  /\ ctl' = Merged /\ tmp' = Merged
  /\ field' = "none"
  /\ pc' = IF field = "go" THEN "poll" ELSE "idle"
  /\ UNCHANGED <<swapped, iova, response, got, asked>>

\* With a bug: the request counts as complete at once.
CompleteAlways == TRUE

\* The condition masks ctl_tmp with GO != 0, that is with 1, where the bit is.
Complete == ~ctl.go

\* The loop on rv_iommu_dbg_req_is_complete ends.
Poll ==
  /\ pc = "poll"
  /\ Complete
  /\ pc' = "read"
  /\ asked' = [asked EXCEPT !.ctl.go = FALSE]
  /\ UNCHANGED <<swapped, regs, tmp, field, got>>

\* The loop stops at the first zero bit.
ppn_encode_x(ppn) ==
  CHOOSE x \in 0 .. 44 : Bit(ppn, x) = 0 /\ \A y \in 0 .. x - 1 : Bit(ppn, y) = 1

\* The test masks off the ones that tell the size.
Decode(r) ==
  LET x == IF r.sp THEN ppn_encode_x(r.ppn) ELSE 0
  IN [fault |-> r.fault, sp |-> r.sp, ppn |-> r.ppn - (2^x - 1), x |-> x]

\* With a bug: a fault is taken for an answer that has not come yet.
ReadResponseRetry ==
  /\ pc = "read"
  /\ pc' = IF response.fault THEN "poll" ELSE "idle"
  /\ got' = IF response.fault THEN Unread ELSE Decode(response)
  /\ UNCHANGED <<swapped, regs, tmp, field, asked>>

ReadResponse ==
  /\ pc = "read"
  /\ pc' = "idle"
  /\ got' = Decode(response)
  /\ UNCHANGED <<swapped, regs, tmp, field, asked>>

Hart == CallSetter \/ SetIova \/ WriteCtl \/ Poll \/ ReadResponse
Boot == Setup \/ \E s \in {"s1", "s2"} : Switch(s)

Next == Answer \/ Hart \/ Boot

\* The IOMMU answers, and the hart that polls goes on; a hart that is idle
\* need not ask.
Spec == Init /\ [][Next]_vars /\ WF_ctl(ClearGo) /\ WF_vars(WriteCtl \/ Poll \/ ReadResponse)

-----------------------------------------------------------------------------
TypeOK ==
  /\ swapped \subseteq {"s1", "s2"}
  /\ iova \in Pages /\ ctl \in Ctl
  /\ pc \in {"setup", "idle", "write", "poll", "read"}
  /\ tmp \in Ctl /\ field \in Flags \cup {"did", "none"}
  /\ asked \in [iova : Pages, ctl : Ctl]

\* The setters keep the fields apart: tr_req_ctl is what the calls mean, but
\* for the field that is being written and for the go bit.
FieldsApart ==
  /\ iova = asked.iova
  /\ ctl.did \in {{}} \cup Devices
  /\ pc \in {"setup", "idle", "read"} => ctl = asked.ctl /\ ~ctl.go
  /\ pc = "write" => /\ ~ctl.go /\ tmp = ctl
                     /\ field \in Flags \cup {"did"}
                     /\ asked.ctl = [ctl EXCEPT ![field] = asked.ctl[field]]
                     /\ field = "did" => asked.ctl.did \in Devices
                     /\ field = "go" => asked.ctl.go
  /\ pc = "poll" => asked.ctl = [ctl EXCEPT !.go = TRUE]

\* What is read is the answer to what was asked last.
OwnAnswer ==
  LET own == Encode(Result(asked.iova, asked.ctl))
  IN /\ (pc = "poll" /\ ~ctl.go) \/ pc = "read" => response = own
     /\ got # Unread => pc = "idle" /\ got = Decode(own)

(* The registers hold the access that the calls describe, whatever calls   *)
(* came before, and the response read is the answer to that access.        *)
DebugInv == TypeOK /\ FieldsApart /\ OwnAnswer

Expected(t, c) ==
  LET to == Switched(Switched(t, "s1" \in swapped), "s2" \in swapped)
  IN IF /\ c.did # {}
        /\ Rights2(c) \subseteq Stage1Perm(t) \cap Stage2Perm(t)
        /\ ~IsMsi(<<"v", to>>)
     THEN [fault |-> FALSE, sp |-> t \in Superpages, ppn |-> page_base(<<"p", to>>),
           x |-> CASE t = "TEST_2MIB" -> 8 [] t = "TEST_1GIB" -> 17 [] OTHER -> 0]
     ELSE Decode(NoTranslation)

(* What the test reads of a page is its physical page and its size, or a   *)
(* fault if the access is not granted or the page is an MSI page: across   *)
(* the calls, the walk through the tables and the encoding of superpages.  *)
ResponseMatches == got # Unread => got = Expected(asked.iova, asked.ctl)

(* The tables of page_tables.c, as built and as earlier tests left them,   *)
(* hold what TestPages says by name of every page and mode; only the named *)
(* MSI pages lie under the MSI mask; no two places that tests look at      *)
(* share a physical page; and the MRIF has one identity enabled, in the    *)
(* word and bit where the IOMMU looks for it.                              *)
TablesAgree ==
  pc = "setup" => SamePages(swapped) /\ SameMsi /\ DistinctPlaces /\ OwnBits

(* A request is started by rv_iommu_dbg_set_go only: no setter writes the  *)
(* go bit back that it has read.                                           *)
NoAccidentalRequest == [][ctl'.go /\ ~ctl.go => pc = "write" /\ field = "go"]_vars

(* Every request is answered, and the answer is read.                      *)
Answered == pc = "poll" ~> got # Unread

=============================================================================
