---------------------------- MODULE DebugIfProofs ----------------------------
(***************************************************************************)
(* The setters of tr_req_ctl keep its fields apart and the response read   *)
(* is the answer to the access the calls describe, for any pages and       *)
(* whatever the tables are.  Then the tables: the walk by number through   *)
(* the entries of page_tables.c reaches the pages that TestPages names,    *)
(* stage by stage, and what is read of the response decodes to that page.  *)
(***************************************************************************)
EXTENDS DebugIf, TLAPS

Inv == TypeOK /\ FieldsApart /\ OwnAnswer

LEMMA CtlType ==
  ASSUME NEW c \in Ctl, NEW f \in Flags, NEW b \in BOOLEAN
  PROVE  [c EXCEPT ![f] = b] \in Ctl
BY DEF Ctl, Flags

LEMMA CtlDid ==
  ASSUME NEW c \in Ctl, NEW d \in SUBSET (0 .. 3)
  PROVE  [c EXCEPT !.did = d] \in Ctl
BY DEF Ctl

LEMMA DeviceBits == ASSUME NEW d \in Devices PROVE d \in SUBSET (0 .. 3) /\ d # {}
BY DeviceAssumption

\* Whether go is set makes no difference to the answer.
LEMMA ResultIgnoresGo ==
  ASSUME NEW t, NEW c \in Ctl, NEW b \in BOOLEAN
  PROVE  Result(t, [c EXCEPT !.go = b]) = Result(t, c)
<1> DEFINE e == [c EXCEPT !.go = b]
<1>1. e.did = c.did /\ e.exe = c.exe /\ e.nw = c.nw
  BY DEF Ctl
<1>2. Rights2(e) = Rights2(c)
  BY <1>1 DEF Rights2
<1> HIDE DEF e
<1>3. Result(t, e) = Result(t, c)
  BY <1>1, <1>2, Zenon DEF Result
<1> QED BY <1>3 DEF e

\* The answer changes with the request only, once the tables are set up.
LEMMA AnswerPrime ==
  swapped' = swapped =>
    (Encode(Result(asked.iova, asked.ctl)))' = Encode(Result(asked'.iova, asked'.ctl))
BY Zenon DEF Result

LEMMA InitInv == Init => Inv
<1> SUFFICES ASSUME Init PROVE Inv
  OBVIOUS
<1>1. TypeOK
  BY DEF Init, TypeOK, Ctl
<1>2. FieldsApart
  BY DEF Init, FieldsApart
<1>3. OwnAnswer
  BY DEF Init, OwnAnswer
<1> QED BY <1>1, <1>2, <1>3 DEF Inv

LEMMA AnswerStep == Inv /\ Answer => Inv'
<1> SUFFICES ASSUME Inv, Answer PROVE Inv'
  OBVIOUS
<1> USE DEF Answer, ClearGo
<1>1. ctl \in Ctl /\ asked.ctl \in Ctl
  BY DEF Inv, TypeOK
<1>2. pc = "poll" /\ asked.ctl = [ctl EXCEPT !.go = TRUE] /\ iova = asked.iova
  BY <1>1 DEF Inv, TypeOK, FieldsApart, Ctl
<1>3. ctl' \in Ctl /\ asked.ctl = [ctl' EXCEPT !.go = TRUE] /\ asked.ctl = ctl
  BY <1>1, <1>2 DEF Ctl
<1>4. TypeOK'
  BY <1>3 DEF Inv, TypeOK
<1>5. FieldsApart'
  BY <1>2, <1>3 DEF Inv, FieldsApart, Ctl
<1>6. OwnAnswer'
  <2>1. response' = Encode(Result(asked.iova, asked.ctl))
    BY <1>2, <1>3
  <2>2. (Encode(Result(asked.iova, asked.ctl)))' = Encode(Result(asked.iova, asked.ctl))
    BY AnswerPrime
  <2>3. got = Unread
    BY <1>2 DEF Inv, OwnAnswer
  <2> QED BY <2>1, <2>2, <2>3 DEF OwnAnswer
<1> QED BY <1>4, <1>5, <1>6 DEF Inv

LEMMA BootStep == Inv /\ Boot => Inv'
<1> SUFFICES ASSUME Inv, Boot PROVE Inv'
  OBVIOUS
<1>1. pc = "setup" /\ got = Unread
  BY DEF Boot, Setup, Switch, Inv, OwnAnswer
<1>2. TypeOK'
  BY DEF Inv, TypeOK, Boot, Setup, Switch, regs
<1>3. FieldsApart' /\ pc' \in {"setup", "idle"} /\ got' = Unread
  BY <1>1 DEF Inv, FieldsApart, Boot, Setup, Switch, regs
<1>4. OwnAnswer'
  BY <1>3 DEF OwnAnswer
<1> QED BY <1>2, <1>3, <1>4 DEF Inv

LEMMA SetIovaStep == Inv /\ SetIova => Inv'
<1> SUFFICES ASSUME Inv, NEW t \in Pages, pc = "idle", iova' = t,
                    asked' = [asked EXCEPT !.iova = t], got' = Unread,
                    UNCHANGED <<swapped, ctl, response, pc, tmp, field>>
             PROVE  Inv'
  BY DEF SetIova
<1>1. asked'.iova = t /\ asked'.ctl = asked.ctl /\ asked' \in [iova : Pages, ctl : Ctl]
  BY DEF Inv, TypeOK
<1>2. TypeOK'
  BY <1>1 DEF Inv, TypeOK
<1>3. FieldsApart'
  BY <1>1 DEF Inv, FieldsApart
<1>4. OwnAnswer'
  BY DEF OwnAnswer
<1> QED BY <1>2, <1>3, <1>4 DEF Inv

LEMMA ReadCtlStep ==
  ASSUME Inv, NEW f \in Flags \cup {"did"}, NEW x, ReadCtl(f, x),
         f = "did" => x \in Devices, f \in Flags => x \in BOOLEAN, f = "go" => x = TRUE
  PROVE  Inv'
<1> USE DEF ReadCtl, regs
<1>1. ctl \in Ctl /\ asked.ctl = ctl /\ asked.iova = iova /\ ~ctl.go /\ iova \in Pages
      /\ asked \in [iova : Pages, ctl : Ctl]
  BY DEF Inv, TypeOK, FieldsApart
<1>2. asked'.iova = iova /\ asked'.ctl = [ctl EXCEPT ![f] = x]
  BY <1>1
<1>3. asked'.ctl \in Ctl
  <2>1. CASE f = "did"
    BY <1>1, <1>2, <2>1, DeviceBits, CtlDid
  <2>2. CASE f \in Flags
    BY <1>1, <1>2, <2>2, CtlType
  <2> QED BY <2>1, <2>2
<1>4. asked' \in [iova : Pages, ctl : Ctl]
  BY <1>1, <1>2, <1>3
<1>5. TypeOK'
  BY <1>1, <1>4 DEF Inv, TypeOK
<1>6. asked'.ctl = [ctl EXCEPT ![f] = asked'.ctl[f]] /\ asked'.ctl[f] = x
  BY <1>1, <1>2 DEF Ctl, Flags
<1>7. FieldsApart'
  <2>1. f = "did" => asked'.ctl.did \in Devices
    BY <1>6
  <2>2. f = "go" => asked'.ctl.go
    BY <1>6
  <2> QED BY <1>1, <1>2, <1>6, <2>1, <2>2 DEF Inv, FieldsApart
<1>8. OwnAnswer'
  BY DEF OwnAnswer
<1> QED BY <1>5, <1>7, <1>8 DEF Inv

LEMMA CallSetterStep == Inv /\ CallSetter => Inv'
<1> SUFFICES ASSUME Inv, CallSetter PROVE Inv'
  OBVIOUS
<1>1. ASSUME NEW d \in Devices, ReadCtl("did", d) PROVE Inv'
  <2>1. "did" \in Flags \cup {"did"} /\ "did" \notin Flags
    BY DEF Flags
  <2> QED BY <1>1, <2>1, ReadCtlStep
<1>2. ASSUME NEW f \in Flags \ {"go"}, NEW b \in BOOLEAN, ReadCtl(f, b) PROVE Inv'
  <2>1. f \in Flags \cup {"did"} /\ f # "did" /\ f # "go"
    BY DEF Flags
  <2> QED BY <1>2, <2>1, ReadCtlStep
<1>3. CASE ReadCtl("go", TRUE)
  <2>1. "go" \in Flags \cup {"did"} /\ "go" # "did"
    BY DEF Flags
  <2> QED BY <1>3, <2>1, ReadCtlStep
<1> QED BY <1>1, <1>2, <1>3 DEF CallSetter

LEMMA WriteCtlStep == Inv /\ WriteCtl => Inv'
<1> SUFFICES ASSUME Inv, WriteCtl PROVE Inv'
  OBVIOUS
<1> USE DEF WriteCtl
<1>1. /\ ctl \in Ctl /\ asked.ctl \in Ctl /\ tmp = ctl /\ ~ctl.go
      /\ field \in Flags \cup {"did"}
      /\ asked.ctl = [ctl EXCEPT ![field] = asked.ctl[field]]
      /\ field = "did" => asked.ctl.did \in Devices
      /\ field = "go" => asked.ctl.go
      /\ iova = asked.iova /\ ctl.did \in {{}} \cup Devices
  BY DEF Inv, TypeOK, FieldsApart
<1>2. Merged = asked.ctl
  <2>1. CASE field = "did"
    <3>1. ctl.did \cup asked.ctl.did = asked.ctl.did
      BY <1>1, <2>1, DeviceAssumption
    <3> QED BY <1>1, <2>1, <3>1 DEF Merged, Ctl
  <2>2. CASE field # "did"
    BY <1>1, <2>2 DEF Merged
  <2> QED BY <2>1, <2>2
<1>3. ctl' = asked.ctl /\ tmp' = asked.ctl
  BY <1>2
<1>4. TypeOK'
  BY <1>1, <1>3 DEF Inv, TypeOK
<1>5. ctl'.did \in {{}} \cup Devices
  <2>1. field # "did" => asked.ctl.did = ctl.did
    BY <1>1 DEF Ctl, Flags
  <2> QED BY <1>1, <1>3, <2>1
<1>6. field # "go" => ~ctl'.go
  BY <1>1, <1>3 DEF Ctl, Flags
<1>7. field = "go" => asked.ctl = [ctl' EXCEPT !.go = TRUE]
  BY <1>1, <1>3 DEF Ctl
<1>8. FieldsApart'
  BY <1>1, <1>3, <1>5, <1>6, <1>7 DEF Inv, FieldsApart
<1>9. OwnAnswer'
  <2>1. got = Unread
    BY DEF Inv, OwnAnswer
  <2>2. (pc' = "poll" => ctl'.go) /\ pc' # "read"
    BY <1>1, <1>3
  <2> QED BY <2>1, <2>2 DEF OwnAnswer
<1> QED BY <1>4, <1>8, <1>9 DEF Inv

LEMMA PollStep == Inv /\ Poll => Inv'
<1> SUFFICES ASSUME Inv, Poll PROVE Inv'
  OBVIOUS
<1> USE DEF Poll, Complete, regs
<1>1. ctl \in Ctl /\ asked \in [iova : Pages, ctl : Ctl] /\ ~ctl.go
      /\ asked.ctl = [ctl EXCEPT !.go = TRUE] /\ asked.iova = iova /\ got = Unread
      /\ ctl.did \in {{}} \cup Devices
  BY DEF Inv, TypeOK, FieldsApart, OwnAnswer
<1>2. asked'.iova = asked.iova /\ asked'.ctl = [asked.ctl EXCEPT !.go = FALSE]
  BY <1>1
<1>3. asked'.ctl = ctl
  BY <1>1, <1>2 DEF Ctl
<1>4. TypeOK'
  BY <1>1, <1>2, <1>3 DEF Inv, TypeOK
<1>5. FieldsApart'
  BY <1>1, <1>2, <1>3 DEF FieldsApart
<1>6. OwnAnswer'
  <2>1. response = Encode(Result(asked.iova, asked.ctl))
    BY <1>1 DEF Inv, OwnAnswer
  <2>2. Result(asked.iova, [asked.ctl EXCEPT !.go = FALSE]) = Result(asked.iova, asked.ctl)
    BY <1>1, ResultIgnoresGo
  <2>3. (Encode(Result(asked.iova, asked.ctl)))' = Encode(Result(asked'.iova, asked'.ctl))
    BY AnswerPrime
  <2> QED BY <1>1, <1>2, <2>1, <2>2, <2>3 DEF OwnAnswer
<1> QED BY <1>4, <1>5, <1>6 DEF Inv

LEMMA ReadResponseStep == Inv /\ ReadResponse => Inv'
<1> SUFFICES ASSUME Inv, ReadResponse PROVE Inv'
  OBVIOUS
<1> USE DEF ReadResponse, regs
<1>1. TypeOK'
  BY DEF Inv, TypeOK
<1>2. FieldsApart'
  BY DEF Inv, FieldsApart
<1>3. OwnAnswer'
  <2>1. response = Encode(Result(asked.iova, asked.ctl))
    BY DEF Inv, OwnAnswer
  <2>2. (Encode(Result(asked.iova, asked.ctl)))' = Encode(Result(asked.iova, asked.ctl))
    BY AnswerPrime
  <2> QED BY <2>1, <2>2 DEF OwnAnswer
<1> QED BY <1>1, <1>2, <1>3 DEF Inv

LEMMA StutterStep == Inv /\ UNCHANGED vars => Inv'
<1> SUFFICES ASSUME Inv, UNCHANGED vars PROVE Inv'
  OBVIOUS
<1> USE DEF vars, regs
<1>1. TypeOK'
  BY DEF Inv, TypeOK
<1>2. FieldsApart'
  BY DEF Inv, FieldsApart
<1>3. OwnAnswer'
  <2>1. (Encode(Result(asked.iova, asked.ctl)))' = Encode(Result(asked.iova, asked.ctl))
    BY AnswerPrime
  <2> QED BY <2>1 DEF Inv, OwnAnswer
<1> QED BY <1>1, <1>2, <1>3 DEF Inv

LEMMA NextInv == Inv /\ [Next]_vars => Inv'
BY AnswerStep, BootStep, SetIovaStep, CallSetterStep, WriteCtlStep, PollStep,
   ReadResponseStep, StutterStep DEF Next, Hart

(* tr_req_ctl and tr_req_iova hold the access that the calls since the     *)
(* last request describe, whatever calls came before, and the response     *)
(* read is the answer to that access.                                      *)
THEOREM DebugInvariant == Spec => []DebugInv
<1>1. DebugInv <=> Inv
  BY DEF DebugInv, Inv
<1> QED BY <1>1, InitInv, NextInv, PTL DEF Spec

(* A setter never writes back a go bit that it has read: only              *)
(* rv_iommu_dbg_set_go starts a request.                                   *)
THEOREM OnlyGoRequests == Spec => NoAccidentalRequest
<1>1. Inv /\ [Next]_vars => [ctl'.go /\ ~ctl.go => pc = "write" /\ field = "go"]_vars
  <2> SUFFICES ASSUME Inv, Next, ctl'.go, ~ctl.go
               PROVE  pc = "write" /\ field = "go"
    OBVIOUS
  <2>1. CASE WriteCtl
    <3>1. ctl \in Ctl /\ tmp = ctl /\ field \in Flags \cup {"did"}
      BY <2>1 DEF Inv, TypeOK, FieldsApart, WriteCtl
    <3>2. field # "go" => Merged.go = ctl.go
      BY <3>1 DEF Merged, Ctl, Flags
    <3> QED BY <2>1, <3>2 DEF WriteCtl
  <2>2. CASE Answer
    BY <2>2 DEF Answer, ClearGo
  <2>3. CASE ~WriteCtl /\ ~Answer
    BY <2>3 DEF Next, Hart, Boot, Setup, Switch, SetIova, CallSetter, ReadCtl, Poll,
       ReadResponse, regs
  <2> QED BY <2>1, <2>2, <2>3
<1> QED BY <1>1, InitInv, NextInv, PTL DEF Spec, NoAccidentalRequest

-----------------------------------------------------------------------------
(* The tables hold what their names say *)

LEMMA Bases ==
  /\ GiB = 262144 /\ MiB2 = 512 /\ MEM_BASE = 524288 /\ MEM_SIZE = 65536
  /\ TEST_VPAGE_BASE = 1048576 /\ TEST_PPAGE_BASE = 557056
BY DEF GiB, MiB2, MEM_BASE, MEM_SIZE, TEST_VPAGE_BASE, TEST_PPAGE_BASE

LEMMA NumberDomain == DOMAIN Number = {"MSI_W1", "MSI_W2", "MSI_W3", "MSI_W4", "MSI_W5"}
BY DEF Number

LEMMA OrderDomain == DOMAIN InOrder = 1 .. 29
BY DEF InOrder

LEMMA Unnumbered ==
  ASSUME NEW k \in 1 .. 29
  PROVE  /\ InOrder[k] \notin DOMAIN Number
         /\ \A j \in 1 .. 29 : InOrder[j] = InOrder[k] => j = k
BY DEF InOrder, Number

\* A page of the enumeration, and one with a number of its own.
LEMMA InOrderPage ==
  ASSUME NEW k \in 1 .. 29
  PROVE  test_page(InOrder[k]) = k - 1
<1>1. (CHOOSE j \in DOMAIN InOrder : InOrder[j] = InOrder[k]) = k
  BY Unnumbered, OrderDomain
<1> QED BY <1>1, Unnumbered DEF test_page

LEMMA NumberedPage ==
  ASSUME NEW t \in DOMAIN Number
  PROVE  /\ test_page(t) = Number[t]
         /\ Number[t] \in 258 .. 390
         /\ \A u \in DOMAIN Number : Number[u] = Number[t] => u = t
BY NumberDomain DEF test_page, Number

LEMMA TestPageRange ==
  ASSUME NEW t \in Named
  PROVE  /\ test_page(t) \in 0 .. 390
         /\ test_page(t) < 29 \/ test_page(t) > 257
         /\ t \in DOMAIN Number <=> test_page(t) > 257
         /\ t \notin Superpages
<1>1. CASE t \in DOMAIN Number
  <2>1. t \notin Superpages
    BY <1>1, NumberDomain DEF Superpages
  <2> QED BY <1>1, <2>1, NumberedPage
<1>2. CASE \E k \in 1 .. 29 : t = InOrder[k]
  <2>1. PICK k \in 1 .. 29 : t = InOrder[k]
    BY <1>2
  <2>2. t \notin Superpages
    BY <2>1 DEF InOrder, Superpages
  <2> QED BY <2>1, <2>2, InOrderPage, Unnumbered
<1> QED BY <1>1, <1>2, OrderDomain DEF Named

\* Each page has an index of its own.
LEMMA TestPageInjective ==
  ASSUME NEW t \in Named, NEW u \in Named, test_page(t) = test_page(u)
  PROVE  t = u
<1>1. CASE t \in DOMAIN Number
  BY <1>1, TestPageRange, NumberedPage
<1>2. CASE t \notin DOMAIN Number
  <2>1. PICK k \in 1 .. 29 : t = InOrder[k]
    BY <1>2, OrderDomain DEF Named
  <2>2. u \notin DOMAIN Number
    BY <1>2, TestPageRange
  <2>3. PICK j \in 1 .. 29 : u = InOrder[j]
    BY <2>2, OrderDomain DEF Named
  <2> QED BY <2>1, <2>3, InOrderPage
<1> QED BY <1>1, <1>2

\* The two ranges of named indices, apart from that of the stress mappings.
LEMMA PermInOrder ==
  ASSUME NEW i \in 0 .. 28
  PROVE  /\ PermAt(i, "s1") = Stage1Perm(InOrder[i + 1])
         /\ PermAt(i, "s2") = Stage2Perm(InOrder[i + 1])
<1>1. i \notin STRESS_START .. STRESS_START + N_MAPPINGS - 1 /\ i < STRESS_START
  BY DEF STRESS_START, N_MAPPINGS
<1>2. i \notin {Number[t] : t \in DOMAIN Number}
  BY NumberedPage
<1> QED BY <1>1, <1>2, Zenon DEF PermAt

LEMMA PermNumbered ==
  ASSUME NEW t \in DOMAIN Number
  PROVE  /\ PermAt(Number[t], "s1") = Stage1Perm(t)
         /\ PermAt(Number[t], "s2") = Stage2Perm(t)
<1>1. Number[t] \notin STRESS_START .. STRESS_START + N_MAPPINGS - 1 /\ ~(Number[t] < STRESS_START)
  BY NumberedPage DEF STRESS_START, N_MAPPINGS
<1>2. (CHOOSE u \in DOMAIN Number : Number[u] = Number[t]) = t
  BY NumberedPage
<1>3. Number[t] \in {Number[u] : u \in DOMAIN Number}
  OBVIOUS
<1> QED BY <1>1, <1>2, <1>3, Zenon DEF PermAt

LEMMA PermByName ==
  ASSUME NEW t \in Named
  PROVE  /\ PermAt(test_page(t), "s1") = Stage1Perm(t)
         /\ PermAt(test_page(t), "s2") = Stage2Perm(t)
<1>1. CASE t \in DOMAIN Number
  BY <1>1, NumberedPage, PermNumbered
<1>2. CASE t \notin DOMAIN Number
  <2>1. PICK k \in 1 .. 29 : t = InOrder[k]
    BY <1>2, OrderDomain DEF Named
  <2>2. k - 1 \in 0 .. 28 /\ (k - 1) + 1 = k
    OBVIOUS
  <2>3. test_page(t) = k - 1
    BY <2>1, InOrderPage
  <2> QED BY <2>1, <2>2, <2>3, PermInOrder
<1> QED BY <1>1, <1>2

LEMMA SwitchPages ==
  /\ "SWITCH1" \in Named /\ "SWITCH2" \in Named
  /\ test_page("SWITCH1") # test_page("SWITCH2")
  /\ \A t \in {"SWITCH1", "SWITCH2"} : Stage1Perm(t) = Full /\ Stage2Perm(t) = Full
<1>1. InOrder[28] = "SWITCH1" /\ InOrder[29] = "SWITCH2"
  BY DEF InOrder
<1>2. test_page("SWITCH1") = 27 /\ test_page("SWITCH2") = 28
  BY <1>1, InOrderPage
<1>3. "SWITCH1" \in Named /\ "SWITCH2" \in Named
  BY <1>1, OrderDomain DEF Named
<1>4. \A t \in {"SWITCH1", "SWITCH2"} : Stage1Perm(t) = Full /\ Stage2Perm(t) = Full
  BY DEF Stage1Perm, Stage2Perm, Full
<1> QED BY <1>2, <1>3, <1>4

\* What stands at a page's index after an exchange, by name and by index.
LEMMA MovedByName ==
  ASSUME NEW t \in Named, NEW odd \in BOOLEAN
  PROVE  /\ Switched(t, odd) \in Named
         /\ Moved(test_page(t), odd) = test_page(Switched(t, odd))
         /\ Stage1Perm(Switched(t, odd)) = Stage1Perm(t)
         /\ Stage2Perm(Switched(t, odd)) = Stage2Perm(t)
BY SwitchPages, TestPageInjective DEF Switched, Moved

-----------------------------------------------------------------------------
(* The walk by number finds what the names say *)

LEMMA NamedIndices ==
  ASSUME NEW i \in 0 .. 390
  PROVE  LET n == TEST_VPAGE_BASE + i
         IN /\ n \in Nat /\ n < 512 * GiB /\ n < 2048 * GiB
            /\ n \div GiB = 4 /\ (n \div MiB2) % 512 = 0 /\ n % 512 = i
BY Bases

LEMMA NamedEntries ==
  ASSUME NEW i \in 0 .. 390, NEW odd
  PROVE  /\ s1pt(0, 4, odd) = To(2) /\ s1pt(2, 0, odd) = To(3)
         /\ s1pt(3, i, odd) = Leaf(TEST_VPAGE_BASE + Moved(i, odd), PermAt(Moved(i, odd), "s1"))
         /\ s2pt(0, 4, odd) = To(2) /\ s2pt(2, 0, odd) = To(3)
         /\ s2pt(3, i, odd) = Leaf(TEST_PPAGE_BASE + Moved(i, odd), PermAt(Moved(i, odd), "s2"))
<1>1. i # PT_TOP
  BY DEF PT_TOP
<1>2. s1pt(0, 4, odd) = To(2) /\ s1pt(2, 0, odd) = To(3)
  BY DEF s1pt, To
<1>3. s1pt(3, i, odd) = Leaf(TEST_VPAGE_BASE + Moved(i, odd), PermAt(Moved(i, odd), "s1"))
  BY DEF s1pt
<1>4. s2pt(0, 4, odd) = To(2) /\ s2pt(2, 0, odd) = To(3)
  BY DEF s2pt, To
<1>5. s2pt(3, i, odd) = Leaf(TEST_PPAGE_BASE + Moved(i, odd), PermAt(Moved(i, odd), "s2"))
  BY <1>1 DEF s2pt
<1> QED BY <1>2, <1>3, <1>4, <1>5

\* A walk that ends at a leaf of the last level.
LEMMA GrantedLeaf ==
  ASSUME NEW page \in Nat, NEW perm, NEW n \in Nat, NEW rights, rights # {}
  PROVE  Granted([entry |-> Leaf(page, perm), size |-> 1], n, rights)
           = IF rights \subseteq perm THEN [ok |-> TRUE, page |-> page, size |-> 1] ELSE NoPage
<1>1. page % 1 = 0 /\ page + (n % 1) = page
  OBVIOUS
<1>2. CASE perm = {}
  BY <1>2 DEF Granted, Leaf
<1>3. CASE perm # {}
  BY <1>1, <1>3 DEF Granted, Leaf
<1> QED BY <1>2, <1>3

LEMMA NamedFound ==
  ASSUME NEW i \in 0 .. 390, NEW sw
  PROVE  /\ Found("s1", TEST_VPAGE_BASE + i, sw)
              = [entry |-> s1pt(3, i, "s1" \in sw), size |-> 1]
         /\ Found("s2", TEST_VPAGE_BASE + i, sw)
              = [entry |-> s2pt(3, i, "s2" \in sw), size |-> 1]
<1> DEFINE n == TEST_VPAGE_BASE + i
           o1 == "s1" \in sw
           o2 == "s2" \in sw
<1>1. /\ n < 512 * GiB /\ n < 2048 * GiB
      /\ n \div GiB = 4 /\ (n \div MiB2) % 512 = 0 /\ n % 512 = i
  BY NamedIndices
<1>2. /\ Entry("s1", 0, 4, sw) = s1pt(0, 4, o1) /\ Entry("s1", 2, 0, sw) = s1pt(2, 0, o1)
      /\ Entry("s1", 3, i, sw) = s1pt(3, i, o1)
      /\ Entry("s2", 0, 4, sw) = s2pt(0, 4, o2) /\ Entry("s2", 2, 0, sw) = s2pt(2, 0, o2)
      /\ Entry("s2", 3, i, sw) = s2pt(3, i, o2)
  BY Zenon DEF Entry
<1> HIDE DEF n, o1, o2
<1>3. /\ Entry("s1", 0, 4, sw) = To(2) /\ Entry("s1", 2, 0, sw) = To(3)
      /\ Entry("s2", 0, 4, sw) = To(2) /\ Entry("s2", 2, 0, sw) = To(3)
  BY <1>2, NamedEntries
<1>4. \A k : To(k).kind = "table" /\ To(k).table = k
  BY DEF To
<1>5. ASSUME NEW stage \in {"s1", "s2"}
      PROVE  Found(stage, n, sw) = [entry |-> Entry(stage, 3, i, sw), size |-> 1]
  <2>1. Level0(stage, To(3), n, sw) = [entry |-> Entry(stage, 3, i, sw), size |-> 1]
    <3>1. Level0(stage, To(3), n, sw) = [entry |-> Entry(stage, To(3).table, n % 512, sw), size |-> 1]
      BY <1>4 DEF Level0
    <3> QED BY <1>1, <1>4, <3>1
  <2>2. Level1(stage, To(2), n, sw) = Level0(stage, To(3), n, sw)
    BY <1>1, <1>3, <1>4 DEF Level1
  <2>3. Found(stage, n, sw) = Level1(stage, To(2), n, sw)
    BY <1>1, <1>3 DEF Found
  <2> QED BY <2>1, <2>2, <2>3
<1>6. Found("s1", n, sw) = [entry |-> s1pt(3, i, o1), size |-> 1]
  BY <1>2, <1>5
<1>7. Found("s2", n, sw) = [entry |-> s2pt(3, i, o2), size |-> 1]
  BY <1>2, <1>5
<1> QED BY <1>6, <1>7, Zenon DEF n, o1, o2

\* One stage on a named page: the page whose entry stands there, if it grants.
LEMMA NamedThrough ==
  ASSUME NEW t \in Named, NEW sw, NEW rights, rights # {}
  PROVE  /\ Through("s1", TEST_VPAGE_BASE + test_page(t), rights, sw)
              = IF rights \subseteq Stage1Perm(t)
                THEN [ok |-> TRUE, size |-> 1,
                      page |-> TEST_VPAGE_BASE + test_page(Switched(t, "s1" \in sw))]
                ELSE NoPage
         /\ Through("s2", TEST_VPAGE_BASE + test_page(t), rights, sw)
              = IF rights \subseteq Stage2Perm(t)
                THEN [ok |-> TRUE, size |-> 1,
                      page |-> TEST_PPAGE_BASE + test_page(Switched(t, "s2" \in sw))]
                ELSE NoPage
<1> DEFINE i == test_page(t)
           n == TEST_VPAGE_BASE + i
           o1 == "s1" \in sw
           o2 == "s2" \in sw
           t1 == Switched(t, o1)
           t2 == Switched(t, o2)
<1>1. i \in 0 .. 390 /\ n \in Nat
  BY TestPageRange, Bases
<1>2. o1 \in BOOLEAN /\ o2 \in BOOLEAN
  OBVIOUS
<1>3. /\ Found("s1", n, sw) = [entry |-> s1pt(3, i, o1), size |-> 1]
      /\ Found("s2", n, sw) = [entry |-> s2pt(3, i, o2), size |-> 1]
  BY <1>1, NamedFound, Zenon
<1> HIDE DEF n, o1, o2
<1>4. /\ t1 \in Named /\ Moved(i, o1) = test_page(t1) /\ Stage1Perm(t1) = Stage1Perm(t)
      /\ t2 \in Named /\ Moved(i, o2) = test_page(t2) /\ Stage2Perm(t2) = Stage2Perm(t)
  BY <1>2, MovedByName
<1> HIDE DEF i, t1, t2
<1>5. TEST_VPAGE_BASE + test_page(t1) \in Nat /\ TEST_PPAGE_BASE + test_page(t2) \in Nat
  BY <1>4, TestPageRange, Bases
<1>6. /\ s1pt(3, i, o1) = Leaf(TEST_VPAGE_BASE + test_page(t1), Stage1Perm(t))
      /\ s2pt(3, i, o2) = Leaf(TEST_PPAGE_BASE + test_page(t2), Stage2Perm(t))
  BY <1>1, <1>4, NamedEntries, PermByName
<1>7. Through("s1", n, rights, sw)
        = IF rights \subseteq Stage1Perm(t)
          THEN [ok |-> TRUE, page |-> TEST_VPAGE_BASE + test_page(t1), size |-> 1] ELSE NoPage
  <2> DEFINE page == TEST_VPAGE_BASE + test_page(t1)
  <2>1. Through("s1", n, rights, sw) = Granted([entry |-> Leaf(page, Stage1Perm(t)), size |-> 1], n, rights)
    BY <1>3, <1>6 DEF Through
  <2>2. page \in Nat
    BY <1>5
  <2> HIDE DEF page
  <2>3. Granted([entry |-> Leaf(page, Stage1Perm(t)), size |-> 1], n, rights)
          = IF rights \subseteq Stage1Perm(t) THEN [ok |-> TRUE, page |-> page, size |-> 1] ELSE NoPage
    BY <1>1, <2>2, GrantedLeaf
  <2> QED BY <2>1, <2>3 DEF page
<1>8. Through("s2", n, rights, sw)
        = IF rights \subseteq Stage2Perm(t)
          THEN [ok |-> TRUE, page |-> TEST_PPAGE_BASE + test_page(t2), size |-> 1] ELSE NoPage
  <2> DEFINE page == TEST_PPAGE_BASE + test_page(t2)
  <2>1. Through("s2", n, rights, sw) = Granted([entry |-> Leaf(page, Stage2Perm(t)), size |-> 1], n, rights)
    BY <1>3, <1>6 DEF Through
  <2>2. page \in Nat
    BY <1>5
  <2> HIDE DEF page
  <2>3. Granted([entry |-> Leaf(page, Stage2Perm(t)), size |-> 1], n, rights)
          = IF rights \subseteq Stage2Perm(t) THEN [ok |-> TRUE, page |-> page, size |-> 1] ELSE NoPage
    BY <1>1, <2>2, GrantedLeaf
  <2> QED BY <2>1, <2>3 DEF page
<1> QED BY <1>7, <1>8, Zenon DEF n, i, t1, t2, o1, o2

\* A walk that ends at an aligned superpage, on its first page.
LEMMA GrantedSuper ==
  ASSUME NEW page \in Nat, NEW n \in Nat, NEW size \in Nat \ {0},
         page % size = 0, n % size = 0, NEW rights \in SUBSET Full
  PROVE  Granted([entry |-> Leaf(page, Full), size |-> size], n, rights)
           = [ok |-> TRUE, page |-> page, size |-> size]
<1> DEFINE f == [entry |-> Leaf(page, Full), size |-> size]
<1>1. /\ f.entry.kind = "leaf" /\ f.entry.page = page /\ f.entry.perm = Full
      /\ f.size = size
  BY DEF Leaf, Full
<1>2. page + 0 = page
  OBVIOUS
<1> HIDE DEF f
<1>3. Granted(f, n, rights) = [ok |-> TRUE, page |-> page + 0, size |-> size]
  BY <1>1, Zenon DEF Granted
<1> QED BY <1>2, <1>3 DEF f

\* The walk ends at the superpage's own entry, in each stage.
LEMMA Walk2MiB ==
  ASSUME NEW sw, NEW rights \in SUBSET Full
  PROVE  /\ Through("s1", 802816, rights, sw) = [ok |-> TRUE, page |-> 802816, size |-> MiB2]
         /\ Through("s2", 802816, rights, sw) = [ok |-> TRUE, page |-> 540672, size |-> MiB2]
<1> DEFINE o1 == "s1" \in sw
           o2 == "s2" \in sw
<1>1. /\ Entry("s1", 0, 3, sw) = s1pt(0, 3, o1) /\ Entry("s1", 1, 32, sw) = s1pt(1, 32, o1)
      /\ Entry("s2", 0, 3, sw) = s2pt(0, 3, o2) /\ Entry("s2", 1, 32, sw) = s2pt(1, 32, o2)
  BY Zenon DEF Entry
<1> HIDE DEF o1, o2
<1>2. 32 < (MEM_SIZE \div MiB2) \div 2 /\ 3 * GiB + 32 * MiB2 = 802816 /\ MEM_BASE + 32 * MiB2 = 540672
  BY Bases, SMT
<1>3. /\ s1pt(0, 3, o1) = To(1) /\ s1pt(1, 32, o1) = Leaf(802816, Full)
      /\ s2pt(0, 3, o2) = To(1) /\ s2pt(1, 32, o2) = Leaf(540672, Full)
  <2>1. s1pt(0, 3, o1) = To(1) /\ s2pt(0, 3, o2) = To(1)
    BY SMT DEF s1pt, s2pt, To
  <2>2. s1pt(1, 32, o1) = Leaf(802816, Full)
    BY <1>2, SMT DEF s1pt
  <2>3. s2pt(1, 32, o2) = Leaf(540672, Full)
    BY <1>2, SMT DEF s2pt
  <2> QED BY <2>1, <2>2, <2>3, SMT
<1>4. /\ 802816 < 512 * GiB /\ 802816 < 2048 * GiB /\ 802816 \div GiB = 3
      /\ (802816 \div MiB2) % 512 = 32 /\ 802816 % MiB2 = 0 /\ 540672 % MiB2 = 0
  BY Bases, SMT
<1>5. \A page : Leaf(page, Full) = [kind |-> "leaf", page |-> page, perm |-> Full]
  BY SMT DEF Leaf, Full
<1>6. \A k : To(k).kind = "table" /\ To(k).table = k
  BY SMT DEF To
<1>7. /\ Found("s1", 802816, sw) = [entry |-> Leaf(802816, Full), size |-> MiB2]
      /\ Found("s2", 802816, sw) = [entry |-> Leaf(540672, Full), size |-> MiB2]
  <2>1. ASSUME NEW stage \in {"s1", "s2"}
        PROVE  Found(stage, 802816, sw) = Level1(stage, To(1), 802816, sw)
    BY <1>1, <1>3, <1>4, SMT DEF Found
  <2>2. ASSUME NEW stage \in {"s1", "s2"}
        PROVE  Level1(stage, To(1), 802816, sw) = Level0(stage, Entry(stage, 1, 32, sw), 802816, sw)
    BY <1>4, <1>6, SMT DEF Level1
  <2>3. \A stage, page : Level0(stage, Leaf(page, Full), 802816, sw)
                            = [entry |-> Leaf(page, Full), size |-> MiB2]
    BY <1>5, SMT DEF Level0
  <2> QED BY <1>1, <1>3, <2>1, <2>2, <2>3, SMT
<1> DEFINE from == 802816
           to   == 540672
<1>8. MiB2 \in Nat \ {0} /\ from \in Nat /\ to \in Nat /\ from % MiB2 = 0 /\ to % MiB2 = 0
  BY <1>4, Bases, SMT
<1>9. /\ Found("s1", from, sw) = [entry |-> Leaf(from, Full), size |-> MiB2]
      /\ Found("s2", from, sw) = [entry |-> Leaf(to, Full), size |-> MiB2]
  BY <1>7, SMT
<1> HIDE DEF from, to
<1>10. /\ Through("s1", from, rights, sw) = Granted([entry |-> Leaf(from, Full), size |-> MiB2], from, rights)
       /\ Through("s2", from, rights, sw) = Granted([entry |-> Leaf(to, Full), size |-> MiB2], from, rights)
  BY <1>9 DEF Through
<1>11. /\ Through("s1", from, rights, sw) = [ok |-> TRUE, page |-> from, size |-> MiB2]
       /\ Through("s2", from, rights, sw) = [ok |-> TRUE, page |-> to, size |-> MiB2]
  BY <1>8, <1>10, GrantedSuper, Zenon
<1> QED BY <1>11, SMT DEF from, to

LEMMA Walk1GiB ==
  ASSUME NEW sw, NEW rights \in SUBSET Full, NEW stage \in {"s1", "s2"}
  PROVE  Through(stage, 524288, rights, sw) = [ok |-> TRUE, page |-> 524288, size |-> GiB]
<1> DEFINE o1 == "s1" \in sw
           o2 == "s2" \in sw
<1>1. Entry("s1", 0, 2, sw) = s1pt(0, 2, o1) /\ Entry("s2", 0, 2, sw) = s2pt(0, 2, o2)
  BY Zenon DEF Entry
<1> HIDE DEF o1, o2
<1>2. 2 * GiB = 524288
  BY Bases, SMT
<1>3. s1pt(0, 2, o1) = Leaf(524288, Full) /\ s2pt(0, 2, o2) = Leaf(524288, Full)
  BY <1>2, SMT DEF s1pt, s2pt
<1>4. /\ 524288 < 512 * GiB /\ 524288 < 2048 * GiB /\ 524288 \div GiB = 2
      /\ 524288 % GiB = 0
  BY Bases, SMT
<1>5. \A page : Leaf(page, Full) = [kind |-> "leaf", page |-> page, perm |-> Full]
  BY SMT DEF Leaf, Full
<1>6. Found(stage, 524288, sw) = [entry |-> Leaf(524288, Full), size |-> GiB]
  BY <1>1, <1>3, <1>4, <1>5, SMT DEF Found, Level1
<1> DEFINE page == 524288
<1>7. GiB \in Nat \ {0} /\ page \in Nat /\ page % GiB = 0
  BY <1>4, Bases, SMT
<1>8. Found(stage, page, sw) = [entry |-> Leaf(page, Full), size |-> GiB]
  BY <1>6, SMT
<1> HIDE DEF page
<1>9. Through(stage, page, rights, sw) = Granted([entry |-> Leaf(page, Full), size |-> GiB], page, rights)
  BY <1>8 DEF Through
<1>10. Through(stage, page, rights, sw) = [ok |-> TRUE, page |-> page, size |-> GiB]
  BY <1>7, <1>9, GrantedSuper, Zenon
<1> QED BY <1>10, SMT DEF page

-----------------------------------------------------------------------------
(* Names and numbers *)

LEMMA NamedBase ==
  ASSUME NEW t \in Named
  PROVE  /\ page_base(<<"v", t>>) = TEST_VPAGE_BASE + test_page(t)
         /\ page_base(<<"p", t>>) = TEST_PPAGE_BASE + test_page(t)
<1>1. t # "TEST_2MIB" /\ t # "TEST_1GIB"
  BY TestPageRange DEF Superpages
<1> QED BY <1>1 DEF page_base

LEMMA SuperBases ==
  /\ page_base(<<"v", "TEST_2MIB">>) = 802816 /\ page_base(<<"p", "TEST_2MIB">>) = 540672
  /\ page_base(<<"v", "TEST_1GIB">>) = 524288 /\ page_base(<<"p", "TEST_1GIB">>) = 524288
<1>1. "TEST_2MIB" \notin Named /\ "TEST_1GIB" \notin Named
  BY TestPageRange DEF Superpages
<1>2. page_base(<<"v", "TEST_2MIB">>) = 3 * GiB + 32 * MiB2
  BY <1>1, SMT DEF page_base
<1>3. page_base(<<"p", "TEST_2MIB">>) = MEM_BASE + 32 * MiB2
  BY <1>1, SMT DEF page_base
<1>4. page_base(<<"v", "TEST_1GIB">>) = MEM_BASE /\ page_base(<<"p", "TEST_1GIB">>) = MEM_BASE
  BY <1>1, SMT DEF page_base
<1> QED BY <1>2, <1>3, <1>4, Bases, SMT

LEMMA Masked == {MaskBits[k] : k \in DOMAIN MaskBits} = {1, 2, 7, 9, 20}
                /\ {MaskBits[k] : k \in 1 .. 5} = {1, 2, 7, 9, 20}
BY SMT DEF MaskBits

\* Outside the mask only bit 8 of the number must be set.
LEMMA MatchesBit8 ==
  ASSUME NEW n \in Nat
  PROVE  MatchesMsi(n) <=>
           /\ n < 2097152
           /\ \A b \in 0 .. 20 : b \notin {1, 2, 7, 9, 20} => Bit(n, b) = IF b = 8 THEN 1 ELSE 0
<1>1. \A b \in 0 .. 20 : b \notin {1, 2, 7, 9, 20} => (b \in PatternBits <=> b = 8)
  BY SMT DEF PatternBits
<1>2. 2^21 = 2097152
  BY SMT
<1> QED BY <1>1, <1>2, Masked, SMT DEF MatchesMsi

LEMMA Bit8 ==
  ASSUME NEW n \in Nat, n % 512 < 256
  PROVE  ~MatchesMsi(n)
<1>1. Bit(n, 8) = 0
  <2>1. 2^8 = 256
    BY SMT
  <2>2. (n \div 256) % 2 = 0
    BY SMT
  <2> QED BY <2>1, <2>2, SMT DEF Bit
<1> QED BY <1>1, MatchesBit8, SMT

LEMMA MsiByName ==
  /\ \A t \in Named : MatchesMsi(TEST_VPAGE_BASE + test_page(t)) <=> IsMsi(<<"v", t>>)
  /\ ~MatchesMsi(802816) /\ ~MatchesMsi(524288)
  /\ \A t \in Superpages : ~IsMsi(<<"v", t>>)
<1>1. ASSUME NEW t \in Named
      PROVE  MatchesMsi(TEST_VPAGE_BASE + test_page(t)) <=> IsMsi(<<"v", t>>)
  <2> DEFINE n == TEST_VPAGE_BASE + test_page(t)
  <2>1. n \in Nat /\ n < 2097152
    BY TestPageRange, Bases, SMT
  <2>2. CASE t \in DOMAIN Number
    <3>1. n = Vpn(t)
      BY <2>2, NumberedPage, Bases, SMT DEF Vpn
    <3> HIDE DEF n
    <3>2. IsMsi(<<"v", t>>) <=> \A b \in 0 .. 20 : b \notin {1, 2, 7, 9, 20} => Bit(n, b) = IF b = 8 THEN 1 ELSE 0
      BY <2>2, <3>1, Masked DEF IsMsi
    <3> QED BY <2>1, <3>2, MatchesBit8, SMT DEF n
  <2>3. CASE t \notin DOMAIN Number
    <3>1. n % 512 < 256
      BY <2>3, TestPageRange, Bases, SMT
    <3> HIDE DEF n
    <3>2. ~IsMsi(<<"v", t>>)
      BY <2>3 DEF IsMsi
    <3>3. ~MatchesMsi(n)
      BY <2>1, <3>1, Bit8, SMT
    <3> QED BY <3>2, <3>3 DEF n
  <2> QED BY <2>2, <2>3, SMT
<1>2. ~MatchesMsi(802816) /\ ~MatchesMsi(524288)
  BY Bit8, SMT
<1>3. \A t \in Superpages : ~IsMsi(<<"v", t>>)
  BY NumberDomain, SMT DEF Superpages, IsMsi
<1> QED BY <1>1, <1>2, <1>3, SMT

-----------------------------------------------------------------------------
(* Encoding and decoding *)

\* The loop finds the zero that the encoding puts below the page's number.
LEMMA SizeBits ==
  ppn_encode_x(540927) = 8 /\ ppn_encode_x(655359) = 17
<1>1. ASSUME NEW n \in Nat, NEW k \in 0 .. 44, Bit(n, k) = 0, \A y \in 0 .. k - 1 : Bit(n, y) = 1
      PROVE  ppn_encode_x(n) = k
  <2>1. ASSUME NEW x \in 0 .. 44, Bit(n, x) = 0, \A y \in 0 .. x - 1 : Bit(n, y) = 1
        PROVE  x = k
    <3>1. ~(x < k)
      BY <1>1, <2>1, SMT
    <3>2. ~(k < x)
      BY <1>1, <2>1, SMT
    <3> QED BY <3>1, <3>2, SMT
  <2> QED BY <1>1, <2>1, SMT DEF ppn_encode_x
<1>2. Bit(540927, 8) = 0
  BY SMT DEF Bit
<1>3. \A y \in 0 .. 7 : Bit(540927, y) = 1
  <2>1. /\ Bit(540927, 0) = 1 /\ Bit(540927, 1) = 1 /\ Bit(540927, 2) = 1
        /\ Bit(540927, 3) = 1 /\ Bit(540927, 4) = 1 /\ Bit(540927, 5) = 1
        /\ Bit(540927, 6) = 1 /\ Bit(540927, 7) = 1
    BY SMT DEF Bit
  <2>2. \A y \in 0 .. 7 : y \in {0, 1, 2, 3, 4, 5, 6, 7}
    BY SMT
  <2> QED BY <2>1, <2>2, SMT
<1>4. Bit(655359, 17) = 0
  BY SMT DEF Bit
<1>5. \A y \in 0 .. 16 : Bit(655359, y) = 1
  <2>1. /\ Bit(655359, 0) = 1 /\ Bit(655359, 1) = 1 /\ Bit(655359, 2) = 1
        /\ Bit(655359, 3) = 1 /\ Bit(655359, 4) = 1 /\ Bit(655359, 5) = 1
        /\ Bit(655359, 6) = 1 /\ Bit(655359, 7) = 1 /\ Bit(655359, 8) = 1
        /\ Bit(655359, 9) = 1 /\ Bit(655359, 10) = 1 /\ Bit(655359, 11) = 1
        /\ Bit(655359, 12) = 1 /\ Bit(655359, 13) = 1 /\ Bit(655359, 14) = 1
        /\ Bit(655359, 15) = 1 /\ Bit(655359, 16) = 1
    BY SMT DEF Bit
  <2>2. \A y \in 0 .. 16 : y \in {0, 1, 2, 3, 4, 5, 6, 7, 8, 9, 10, 11, 12, 13, 14, 15, 16}
    BY SMT
  <2> QED BY <2>1, <2>2, SMT
<1>6. ppn_encode_x(540927) = 8
  <2>1. \A y \in 0 .. 8 - 1 : Bit(540927, y) = 1
    BY <1>3, SMT
  <2> QED BY <1>1, <1>2, <2>1, SMT
<1>7. ppn_encode_x(655359) = 17
  <2>1. \A y \in 0 .. 17 - 1 : Bit(655359, y) = 1
    BY <1>5, SMT
  <2> QED BY <1>1, <1>4, <2>1, SMT
<1> QED BY <1>6, <1>7, SMT

LEMMA DecodePage ==
  ASSUME NEW page \in Nat
  PROVE  Decode([fault |-> FALSE, sp |-> FALSE, ppn |-> page])
           = [fault |-> FALSE, sp |-> FALSE, ppn |-> page, x |-> 0]
<1>1. Decode([fault |-> FALSE, sp |-> FALSE, ppn |-> page])
        = [fault |-> FALSE, sp |-> FALSE, ppn |-> page - (2^0 - 1), x |-> 0]
  BY DEF Decode
<1>2. page - (2^0 - 1) = page
  OBVIOUS
<1> QED BY <1>1, <1>2

\* Zeros below the page's number, then ones that end at a zero, are its size.
LEMMA DecodeSuper ==
  ASSUME NEW page \in Nat, NEW size \in Nat \ {0, 1}, NEW n \in Nat, NEW k \in Nat,
         n = page - (page % size) + (size \div 2) - 1, ppn_encode_x(n) = k, n - (2^k - 1) = page
  PROVE  Decode(Encode([ok |-> TRUE, page |-> page, size |-> size]))
           = [fault |-> FALSE, sp |-> TRUE, ppn |-> page, x |-> k]
<1>1. Encode([ok |-> TRUE, page |-> page, size |-> size]) = [fault |-> FALSE, sp |-> TRUE, ppn |-> n]
  BY DEF Encode
<1>2. Decode([fault |-> FALSE, sp |-> TRUE, ppn |-> n])
        = [fault |-> FALSE, sp |-> TRUE, ppn |-> n - (2^ppn_encode_x(n) - 1), x |-> ppn_encode_x(n)]
  BY DEF Decode
<1> QED BY <1>1, <1>2

\* Each kind of answer comes out of tr_response as it went in.
LEMMA RoundTrip ==
  /\ \A page \in Nat : Decode(Encode([ok |-> TRUE, page |-> page, size |-> 1]))
                         = [fault |-> FALSE, sp |-> FALSE, ppn |-> page, x |-> 0]
  /\ Decode(Encode([ok |-> TRUE, page |-> 540672, size |-> MiB2]))
       = [fault |-> FALSE, sp |-> TRUE, ppn |-> 540672, x |-> 8]
  /\ Decode(Encode([ok |-> TRUE, page |-> 524288, size |-> GiB]))
       = [fault |-> FALSE, sp |-> TRUE, ppn |-> 524288, x |-> 17]
  /\ Decode(Encode(NoPage)) = Decode(NoTranslation)
<1>1. ASSUME NEW page \in Nat
      PROVE  Decode(Encode([ok |-> TRUE, page |-> page, size |-> 1]))
               = [fault |-> FALSE, sp |-> FALSE, ppn |-> page, x |-> 0]
  <2>1. Encode([ok |-> TRUE, page |-> page, size |-> 1]) = [fault |-> FALSE, sp |-> FALSE, ppn |-> page]
    BY DEF Encode
  <2> QED BY <2>1, DecodePage
<1>2. /\ 540927 = 540672 - (540672 % MiB2) + (MiB2 \div 2) - 1 /\ 540927 - (2^8 - 1) = 540672
      /\ MiB2 \in Nat \ {0, 1}
  BY Bases, SMT
<1>3. /\ 655359 = 524288 - (524288 % GiB) + (GiB \div 2) - 1 /\ 655359 - (2^17 - 1) = 524288
      /\ GiB \in Nat \ {0, 1}
  BY Bases, SMT
<1>4. Decode(Encode([ok |-> TRUE, page |-> 540672, size |-> MiB2]))
        = [fault |-> FALSE, sp |-> TRUE, ppn |-> 540672, x |-> 8]
  <2> DEFINE page == 540672
             n    == 540927
             k    == 8
  <2>1. /\ page \in Nat /\ MiB2 \in Nat \ {0, 1} /\ n \in Nat /\ k \in Nat
        /\ n = page - (page % MiB2) + (MiB2 \div 2) - 1 /\ ppn_encode_x(n) = k /\ n - (2^k - 1) = page
    BY <1>2, SizeBits, SMT
  <2> HIDE DEF page, n, k
  <2>2. Decode(Encode([ok |-> TRUE, page |-> page, size |-> MiB2]))
          = [fault |-> FALSE, sp |-> TRUE, ppn |-> page, x |-> k]
    BY <2>1, DecodeSuper, SMT
  <2> QED BY <2>2, SMT DEF page, k
<1>5. Decode(Encode([ok |-> TRUE, page |-> 524288, size |-> GiB]))
        = [fault |-> FALSE, sp |-> TRUE, ppn |-> 524288, x |-> 17]
  <2> DEFINE page == 524288
             n    == 655359
             k    == 17
  <2>1. /\ page \in Nat /\ GiB \in Nat \ {0, 1} /\ n \in Nat /\ k \in Nat
        /\ n = page - (page % GiB) + (GiB \div 2) - 1 /\ ppn_encode_x(n) = k /\ n - (2^k - 1) = page
    BY <1>3, SizeBits, SMT
  <2> HIDE DEF page, n, k
  <2>2. Decode(Encode([ok |-> TRUE, page |-> page, size |-> GiB]))
          = [fault |-> FALSE, sp |-> TRUE, ppn |-> page, x |-> k]
    BY <2>1, DecodeSuper, SMT
  <2> QED BY <2>2, SMT DEF page, k
<1>6. Decode(Encode(NoPage)) = Decode(NoTranslation)
  BY DEF Encode, NoPage
<1> QED BY <1>1, <1>4, <1>5, <1>6, SMT

\* The answer, from what each stage makes of the page.
LEMMA ResultByStages ==
  ASSUME NEW t, NEW c \in Ctl, NEW page1, NEW page2, NEW size, NEW g1 \in BOOLEAN, NEW g2 \in BOOLEAN,
         Through("s1", page_base(<<"v", t>>), Rights2(c), swapped)
           = IF g1 THEN [ok |-> TRUE, page |-> page1, size |-> size] ELSE NoPage,
         Through("s2", page1, Rights2(c), swapped)
           = IF g2 THEN [ok |-> TRUE, page |-> page2, size |-> size] ELSE NoPage
  PROVE  Result(t, c) = IF c.did # {} /\ g1 /\ g2 /\ ~MatchesMsi(page1)
                        THEN [ok |-> TRUE, page |-> page2, size |-> size] ELSE NoPage
<1> DEFINE n     == page_base(<<"v", t>>)
           r     == Rights2(c)
           first == Through("s1", n, r, swapped)
<1>1. Result(t, c) = IF ~Configured(c.did) \/ (first.ok /\ MatchesMsi(first.page)) THEN NoPage
                     ELSE Walked(n, r, TwoStage, swapped)
  BY Zenon DEF Result
<1>2. Walked(n, r, TwoStage, swapped) = Both(first, Through("s2", first.page, r, swapped))
  <2>1. First(n, r, TwoStage, swapped) = first
    BY DEF First, TwoStage
  <2> HIDE DEF first
  <2> QED BY <2>1 DEF Walked, Second, TwoStage
<1>3. first = (IF g1 THEN [ok |-> TRUE, page |-> page1, size |-> size] ELSE NoPage)
  OBVIOUS
<1>4. Through("s2", page1, r, swapped) = (IF g2 THEN [ok |-> TRUE, page |-> page2, size |-> size] ELSE NoPage)
  OBVIOUS
<1> HIDE DEF n, r, first
<1>5. CASE ~g1
  <2>1. first = NoPage
    BY <1>3, <1>5
  <2>2. \A x : Both(NoPage, x) = NoPage
    BY DEF Both, NoPage
  <2> QED BY <1>1, <1>2, <1>5, <2>1, <2>2
<1>6. CASE g1
  <2>1. first = [ok |-> TRUE, page |-> page1, size |-> size]
    BY <1>3, <1>6
  <2>2. Both([ok |-> TRUE, page |-> page1, size |-> size], NoPage) = NoPage
    BY DEF Both, NoPage
  <2>3. Both([ok |-> TRUE, page |-> page1, size |-> size], [ok |-> TRUE, page |-> page2, size |-> size])
          = [ok |-> TRUE, page |-> page2, size |-> size]
    BY DEF Both
  <2>4. Both(first, Through("s2", first.page, r, swapped))
          = IF g2 THEN [ok |-> TRUE, page |-> page2, size |-> size] ELSE NoPage
    BY <1>4, <2>1, <2>2, <2>3
  <2>5. Result(t, c) = IF c.did = {} \/ MatchesMsi(page1) THEN NoPage
                       ELSE IF g2 THEN [ok |-> TRUE, page |-> page2, size |-> size] ELSE NoPage
    BY <1>1, <1>2, <2>1, <2>4 DEF Configured
  <2> QED BY <1>6, <2>5
<1> QED BY <1>5, <1>6

\* What the test expects, once it is known where the exchanges lead.
LEMMA ExpectedAt ==
  ASSUME NEW t, NEW c \in Ctl, NEW to, to = Switched(Switched(t, "s1" \in swapped), "s2" \in swapped)
  PROVE  Expected(t, c)
           = IF c.did # {} /\ Rights2(c) \subseteq Stage1Perm(t) \cap Stage2Perm(t) /\ ~IsMsi(<<"v", to>>)
             THEN [fault |-> FALSE, sp |-> t \in Superpages, ppn |-> page_base(<<"p", to>>),
                   x |-> CASE t = "TEST_2MIB" -> 8 [] t = "TEST_1GIB" -> 17 [] OTHER -> 0]
             ELSE Decode(NoTranslation)
BY Zenon DEF Expected

LEMMA NamedAnswer ==
  ASSUME NEW t \in Named, NEW c \in Ctl
  PROVE  Decode(Encode(Result(t, c))) = Expected(t, c)
<1> DEFINE rights == Rights2(c)
           o1 == "s1" \in swapped
           o2 == "s2" \in swapped
           t1 == Switched(t, o1)
           t2 == Switched(t1, o2)
           page1 == TEST_VPAGE_BASE + test_page(t1)
           page2 == TEST_PPAGE_BASE + test_page(t2)
           g1 == rights \subseteq Stage1Perm(t)
           g2 == rights \subseteq Stage2Perm(t1)
<1>1. rights # {} /\ o1 \in BOOLEAN /\ o2 \in BOOLEAN
  BY DEF Rights2
<1>2. t1 \in Named
  <2> HIDE DEF o1
  <2> QED BY <1>1, MovedByName
<1>3. Through("s1", page_base(<<"v", t>>), rights, swapped)
        = IF g1 THEN [ok |-> TRUE, size |-> 1, page |-> page1] ELSE NoPage
  <2>1. page_base(<<"v", t>>) = TEST_VPAGE_BASE + test_page(t)
    BY NamedBase
  <2>2. Through("s1", TEST_VPAGE_BASE + test_page(t), rights, swapped)
          = IF g1 THEN [ok |-> TRUE, size |-> 1, page |-> page1] ELSE NoPage
    BY <1>1, NamedThrough, Zenon
  <2> QED BY <2>1, <2>2, Zenon
<1>4. Through("s2", page1, rights, swapped)
        = IF g2 THEN [ok |-> TRUE, size |-> 1, page |-> page2] ELSE NoPage
  <2> HIDE DEF t1
  <2> QED BY <1>1, <1>2, NamedThrough, Zenon
<1>5. Expected(t, c)
        = IF c.did # {} /\ rights \subseteq Stage1Perm(t) \cap Stage2Perm(t) /\ ~IsMsi(<<"v", t2>>)
          THEN [fault |-> FALSE, sp |-> t \in Superpages, ppn |-> page_base(<<"p", t2>>),
                x |-> CASE t = "TEST_2MIB" -> 8 [] t = "TEST_1GIB" -> 17 [] OTHER -> 0]
          ELSE Decode(NoTranslation)
  BY ExpectedAt, Zenon
<1> HIDE DEF o1, o2
<1>6. t2 \in Named /\ Stage2Perm(t1) = Stage2Perm(t)
  <2>1. Stage2Perm(t1) = Stage2Perm(t)
    BY <1>1, MovedByName
  <2> HIDE DEF t1
  <2> QED BY <1>1, <1>2, <2>1, MovedByName
<1>7. MatchesMsi(page1) <=> IsMsi(<<"v", t2>>)
  <2>1. MatchesMsi(page1) <=> IsMsi(<<"v", t1>>)
    BY <1>2, MsiByName, SMT
  <2> HIDE DEF t1
  <2>2. t2 = t1 \/ (t1 \notin DOMAIN Number /\ t2 \notin DOMAIN Number)
    BY NumberDomain DEF Switched
  <2>3. \A u : u \notin DOMAIN Number => ~IsMsi(<<"v", u>>)
    BY DEF IsMsi
  <2> QED BY <2>1, <2>2, <2>3, Zenon
<1> HIDE DEF t2
<1>8. page_base(<<"p", t2>>) = page2 /\ page2 \in Nat
  <2>1. page2 \in Nat
    BY <1>6, TestPageRange, Bases, SMT
  <2> QED BY <1>6, <2>1, NamedBase
<1>9. t \notin Superpages /\ t # "TEST_2MIB" /\ t # "TEST_1GIB"
  BY TestPageRange DEF Superpages
<1> HIDE DEF rights, t1, page1, page2
<1>10. Result(t, c) = IF c.did # {} /\ g1 /\ g2 /\ ~MatchesMsi(page1)
                      THEN [ok |-> TRUE, page |-> page2, size |-> 1] ELSE NoPage
  <2>1. g1 \in BOOLEAN /\ g2 \in BOOLEAN
    OBVIOUS
  <2> HIDE DEF g1, g2
  <2> QED BY <1>3, <1>4, <2>1, ResultByStages DEF rights
<1>11. CASE c.did # {} /\ g1 /\ g2 /\ ~MatchesMsi(page1)
  <2>1. rights \subseteq Stage1Perm(t) \cap Stage2Perm(t) /\ ~IsMsi(<<"v", t2>>)
    BY <1>6, <1>7, <1>11
  <2>2. Expected(t, c) = [fault |-> FALSE, sp |-> t \in Superpages, ppn |-> page2,
                          x |-> CASE t = "TEST_2MIB" -> 8 [] t = "TEST_1GIB" -> 17 [] OTHER -> 0]
    BY <1>5, <1>8, <1>11, <2>1, Zenon
  <2>3. Expected(t, c) = [fault |-> FALSE, sp |-> FALSE, ppn |-> page2, x |-> 0]
    <3>1. (CASE t = "TEST_2MIB" -> 8 [] t = "TEST_1GIB" -> 17 [] OTHER -> 0) = 0
      BY <1>9
    <3>2. (t \in Superpages) = FALSE
      BY <1>9
    <3> QED BY <2>2, <3>1, <3>2, Zenon
  <2> QED BY <1>8, <1>10, <1>11, <2>3, RoundTrip, SMT
<1>12. CASE ~(c.did # {} /\ g1 /\ g2 /\ ~MatchesMsi(page1))
  <2>1. Expected(t, c) = Decode(NoTranslation)
    BY <1>5, <1>6, <1>7, <1>12
  <2> QED BY <1>10, <1>12, <2>1, RoundTrip, SMT
<1> QED BY <1>11, <1>12

LEMMA Answer2MiB ==
  ASSUME NEW c \in Ctl
  PROVE  Decode(Encode(Result("TEST_2MIB", c))) = Expected("TEST_2MIB", c)
<1> DEFINE t      == "TEST_2MIB"
           rights == Rights2(c)
           from   == 802816
           to     == 540672
           size   == MiB2
<1>1. rights \in SUBSET Full
  BY DEF Rights2, Full
<1>2. Stage1Perm(t) = Full /\ Stage2Perm(t) = Full /\ t \in Superpages
  BY DEF Stage1Perm, Stage2Perm, Full, Superpages
<1>3. Switched(Switched(t, "s1" \in swapped), "s2" \in swapped) = t
  BY Zenon DEF Switched
<1>4. /\ page_base(<<"v", t>>) = from /\ page_base(<<"p", t>>) = to
      /\ Through("s1", from, rights, swapped) = [ok |-> TRUE, page |-> from, size |-> size]
      /\ Through("s2", from, rights, swapped) = [ok |-> TRUE, page |-> to, size |-> size]
      /\ ~MatchesMsi(from) /\ ~IsMsi(<<"v", t>>)
  BY <1>1, <1>2, SuperBases, Walk2MiB, MsiByName, SMT
<1>5. Decode(Encode([ok |-> TRUE, page |-> to, size |-> size])) = [fault |-> FALSE, sp |-> TRUE, ppn |-> to, x |-> 8]
  BY RoundTrip, SMT
<1> HIDE DEF from, to, size
<1>6. Result(t, c) = IF c.did # {} THEN [ok |-> TRUE, page |-> to, size |-> size] ELSE NoPage
  <2> DEFINE g == TRUE
  <2>1. /\ g \in BOOLEAN
        /\ Through("s1", page_base(<<"v", t>>), Rights2(c), swapped)
             = IF g THEN [ok |-> TRUE, page |-> from, size |-> size] ELSE NoPage
        /\ Through("s2", from, Rights2(c), swapped)
             = IF g THEN [ok |-> TRUE, page |-> to, size |-> size] ELSE NoPage
    BY <1>4
  <2>2. g
    OBVIOUS
  <2> HIDE DEF t, g
  <2>3. Result(t, c) = IF c.did # {} /\ g /\ g /\ ~MatchesMsi(from)
                       THEN [ok |-> TRUE, page |-> to, size |-> size] ELSE NoPage
    BY <2>1, ResultByStages
  <2> QED BY <1>4, <2>2, <2>3
<1>7. Expected(t, c)
        = IF c.did # {} /\ rights \subseteq Stage1Perm(t) \cap Stage2Perm(t) /\ ~IsMsi(<<"v", t>>)
          THEN [fault |-> FALSE, sp |-> t \in Superpages, ppn |-> page_base(<<"p", t>>),
                x |-> CASE t = "TEST_2MIB" -> 8 [] t = "TEST_1GIB" -> 17 [] OTHER -> 0]
          ELSE Decode(NoTranslation)
  BY <1>3, ExpectedAt, Zenon
<1>8. Expected(t, c) = IF c.did # {} THEN [fault |-> FALSE, sp |-> TRUE, ppn |-> to, x |-> 8]
                       ELSE Decode(NoTranslation)
  <2>1. (CASE t = "TEST_2MIB" -> 8 [] t = "TEST_1GIB" -> 17 [] OTHER -> 0) = 8
    OBVIOUS
  <2>2. (t \in Superpages) = TRUE
    BY <1>2
  <2>3. rights \subseteq Stage1Perm(t) \cap Stage2Perm(t)
    BY <1>1, <1>2
  <2> HIDE DEF t
  <2> QED BY <1>4, <1>7, <2>1, <2>2, <2>3, Zenon
<1>9. Decode(Encode(NoPage)) = Decode(NoTranslation)
  BY RoundTrip, SMT
<1> HIDE DEF t
<1> QED BY <1>5, <1>6, <1>8, <1>9 DEF t

LEMMA Answer1GiB ==
  ASSUME NEW c \in Ctl
  PROVE  Decode(Encode(Result("TEST_1GIB", c))) = Expected("TEST_1GIB", c)
<1> DEFINE t      == "TEST_1GIB"
           rights == Rights2(c)
           from   == 524288
           to     == 524288
           size   == GiB
<1>1. rights \in SUBSET Full
  BY DEF Rights2, Full
<1>2. Stage1Perm(t) = Full /\ Stage2Perm(t) = Full /\ t \in Superpages
  BY DEF Stage1Perm, Stage2Perm, Full, Superpages
<1>3. Switched(Switched(t, "s1" \in swapped), "s2" \in swapped) = t
  BY Zenon DEF Switched
<1>4. /\ page_base(<<"v", t>>) = from /\ page_base(<<"p", t>>) = to
      /\ Through("s1", from, rights, swapped) = [ok |-> TRUE, page |-> from, size |-> size]
      /\ Through("s2", from, rights, swapped) = [ok |-> TRUE, page |-> to, size |-> size]
      /\ ~MatchesMsi(from) /\ ~IsMsi(<<"v", t>>)
  BY <1>1, <1>2, SuperBases, Walk1GiB, MsiByName, SMT
<1>5. Decode(Encode([ok |-> TRUE, page |-> to, size |-> size])) = [fault |-> FALSE, sp |-> TRUE, ppn |-> to, x |-> 17]
  BY RoundTrip, SMT
<1> HIDE DEF from, to, size
<1>6. Result(t, c) = IF c.did # {} THEN [ok |-> TRUE, page |-> to, size |-> size] ELSE NoPage
  <2> DEFINE g == TRUE
  <2>1. /\ g \in BOOLEAN
        /\ Through("s1", page_base(<<"v", t>>), Rights2(c), swapped)
             = IF g THEN [ok |-> TRUE, page |-> from, size |-> size] ELSE NoPage
        /\ Through("s2", from, Rights2(c), swapped)
             = IF g THEN [ok |-> TRUE, page |-> to, size |-> size] ELSE NoPage
    BY <1>4
  <2>2. g
    OBVIOUS
  <2> HIDE DEF t, g
  <2>3. Result(t, c) = IF c.did # {} /\ g /\ g /\ ~MatchesMsi(from)
                       THEN [ok |-> TRUE, page |-> to, size |-> size] ELSE NoPage
    BY <2>1, ResultByStages
  <2> QED BY <1>4, <2>2, <2>3
<1>7. Expected(t, c)
        = IF c.did # {} /\ rights \subseteq Stage1Perm(t) \cap Stage2Perm(t) /\ ~IsMsi(<<"v", t>>)
          THEN [fault |-> FALSE, sp |-> t \in Superpages, ppn |-> page_base(<<"p", t>>),
                x |-> CASE t = "TEST_2MIB" -> 8 [] t = "TEST_1GIB" -> 17 [] OTHER -> 0]
          ELSE Decode(NoTranslation)
  BY <1>3, ExpectedAt, Zenon
<1>8. Expected(t, c) = IF c.did # {} THEN [fault |-> FALSE, sp |-> TRUE, ppn |-> to, x |-> 17]
                       ELSE Decode(NoTranslation)
  <2>1. (CASE t = "TEST_2MIB" -> 8 [] t = "TEST_1GIB" -> 17 [] OTHER -> 0) = 17
    OBVIOUS
  <2>2. (t \in Superpages) = TRUE
    BY <1>2
  <2>3. rights \subseteq Stage1Perm(t) \cap Stage2Perm(t)
    BY <1>1, <1>2
  <2> HIDE DEF t
  <2> QED BY <1>4, <1>7, <2>1, <2>2, <2>3, Zenon
<1>9. Decode(Encode(NoPage)) = Decode(NoTranslation)
  BY RoundTrip, SMT
<1> HIDE DEF t
<1> QED BY <1>5, <1>6, <1>8, <1>9 DEF t

\* The answer to any access to any page, by name.
LEMMA AnswerByName ==
  ASSUME NEW t \in Tested, NEW c \in Ctl
  PROVE  Decode(Encode(Result(t, c))) = Expected(t, c)
BY NamedAnswer, Answer2MiB, Answer1GiB DEF Tested, Superpages

(* What the test reads of a page is its physical page and its size, or a   *)
(* fault if the access is not granted or the page is an MSI page: the walk *)
(* through the tables that page_tables.c builds, the encoding of           *)
(* superpages and ppn_encode_x, for any pages and whatever was exchanged.  *)
THEOREM ResponsesMatch == Spec => []ResponseMatches
<1>1. Inv => ResponseMatches
  <2> SUFFICES ASSUME Inv, got # Unread
               PROVE  got = Expected(asked.iova, asked.ctl)
    BY DEF ResponseMatches
  <2>1. asked.iova \in Tested /\ asked.ctl \in Ctl
    BY PageAssumption DEF Inv, TypeOK
  <2>2. got = Decode(Encode(Result(asked.iova, asked.ctl)))
    BY Zenon DEF Inv, OwnAnswer
  <2> QED BY <2>1, <2>2, AnswerByName, Zenon
<1> QED BY <1>1, InitInv, NextInv, PTL DEF Spec

-----------------------------------------------------------------------------
(* The same tables in every mode *)

\* A walk by name, when MSI translation is off.
LEMMA WalkOff ==
  ASSUME NEW a, NEW access, NEW modes \in Modes, NEW sw
  PROVE  Walk(a, access, modes, sw)
           = LET first == IF modes.s1 = "sv39" THEN Stage1(a, access, sw) ELSE Reached(a)
             IN IF first.ok /\ modes.s2 = "sv39x4" THEN Stage2(first.to, access, sw) ELSE first
<1> DEFINE first == IF modes.s1 = "sv39" THEN Stage1(a, access, sw) ELSE Reached(a)
<1>1. modes.msi # "flat"
  BY DEF Modes
<1>2. Walk(a, access, modes, sw)
        = CASE (first.ok /\ modes.msi = "flat" /\ IsMsi(first.to)) -> Reached(<<"msi", InterruptFile(first.to[2])>>)
            [] ~(first.ok /\ modes.msi = "flat" /\ IsMsi(first.to)) /\ first.ok /\ modes.s2 = "sv39x4" ->
                 Stage2(first.to, access, sw)
            [] OTHER -> first
  BY Zenon DEF Walk
<1> HIDE DEF first
<1>3. Walk(a, access, modes, sw) = IF first.ok /\ modes.s2 = "sv39x4" THEN Stage2(first.to, access, sw) ELSE first
  BY <1>1, <1>2, Zenon
<1> QED BY <1>3, Zenon DEF first

Cause1(access) == IF access = "read" THEN "LOAD_PAGE_FAULT" ELSE "STORE_PAGE_FAULT"
Cause2(access) == IF access = "read" THEN "LOAD_GUEST_PAGE_FAULT" ELSE "STORE_GUEST_PAGE_FAULT"

\* One stage by name and by number.
LEMMA NamedStages ==
  ASSUME NEW t \in Named, NEW access, NEW sw
  PROVE  /\ Right(access) \in Stage1Perm(t) =>
              Stage1(<<"v", t>>, access, sw) = Reached(<<"v", Switched(t, "s1" \in sw)>>)
         /\ Right(access) \notin Stage1Perm(t) => Stage1(<<"v", t>>, access, sw) = Fault(Cause1(access))
         /\ Right(access) \in Stage2Perm(t) =>
              Stage2(<<"v", t>>, access, sw) = Reached(<<"p", Switched(t, "s2" \in sw)>>)
         /\ Right(access) \notin Stage2Perm(t) => Stage2(<<"v", t>>, access, sw) = Fault(Cause2(access))
<1> DEFINE a == <<"v", t>>
<1>1. a[1] = "v" /\ a[2] = t /\ t \notin Superpages
  BY TestPageRange
<1> HIDE DEF a
<1>2. Stage1(a, access, sw) = IF Right(access) \in Stage1Perm(t)
         THEN Reached(<<"v", Switched(t, "s1" \in sw)>>)
         ELSE Fault(Cause1(access))
  BY <1>1, Zenon DEF Stage1, Cause1
<1>3. Stage2(a, access, sw) = IF Right(access) \in Stage2Perm(t)
         THEN Reached(<<"p", Switched(t, "s2" \in sw)>>)
         ELSE Fault(Cause2(access))
  BY <1>1, Zenon DEF Stage2, Cause2
<1> QED BY <1>2, <1>3, Zenon DEF a

LEMMA SuperStages ==
  ASSUME NEW t \in Superpages, NEW access, NEW sw
  PROVE  /\ Stage1(<<"v", t>>, access, sw) = Reached(<<"v", t>>)
         /\ Stage2(<<"v", t>>, access, sw) = Reached(<<"p", t>>)
<1> DEFINE a == <<"v", t>>
<1>1. a[1] = "v" /\ a[2] = t
  OBVIOUS
<1> HIDE DEF a
<1>2. Stage1(a, access, sw) = Reached(a) /\ Stage2(a, access, sw) = Reached(<<"p", t>>)
  BY <1>1, Zenon DEF Stage1, Stage2
<1> QED BY <1>2 DEF a

\* Each stage by name, whether it is on or not.
FirstByName(t, access, modes, sw) ==
  IF modes.s1 = "sv39" THEN Stage1(<<"v", t>>, access, sw) ELSE Reached(<<"v", t>>)
SecondByName(t, access, modes, sw) ==
  IF modes.s2 = "sv39x4" THEN Stage2(<<"v", t>>, access, sw) ELSE Reached(<<"v", t>>)

\* Both reach one page, or both fault.
Meet(byName, byNumber) ==
  \/ \E u \in Tested : \E size :
       /\ byName = Reached(<<"v", u>>)
       /\ byNumber = [ok |-> TRUE, page |-> page_base(<<"v", u>>), size |-> size]
  \/ \E c : byName = Fault(c) /\ byNumber = NoPage

LEMMA Met ==
  /\ \A u \in Tested : \A size :
       Meet(Reached(<<"v", u>>), [ok |-> TRUE, page |-> page_base(<<"v", u>>), size |-> size])
  /\ \A c : Meet(Fault(c), NoPage)
BY Zenon DEF Meet

LEMMA Agreed ==
  /\ \A to, size : Same(Reached(to), [ok |-> TRUE, page |-> page_base(to), size |-> size])
  /\ \A c : Same(Fault(c), NoPage)
<1>1. ASSUME NEW to, NEW size
      PROVE  Same(Reached(to), [ok |-> TRUE, page |-> page_base(to), size |-> size])
  <2> DEFINE n == page_base(to)
  <2>1. Reached(to).ok = TRUE /\ page_base(Reached(to).to) = n
    BY DEF Reached
  <2> HIDE DEF n
  <2>2. Same(Reached(to), [ok |-> TRUE, page |-> n, size |-> size])
    BY <2>1 DEF Same
  <2> QED BY <2>2 DEF n
<1>2. ASSUME NEW c PROVE Same(Fault(c), NoPage)
  BY DEF Same, Fault, NoPage
<1> QED BY <1>1, <1>2

\* A superpage is mapped to itself by the first stage and to its physical
\* page by the second.
LEMMA SuperThrough ==
  ASSUME NEW t \in Superpages, NEW rights \in SUBSET Full, NEW sw
  PROVE  /\ \E size : Through("s1", page_base(<<"v", t>>), rights, sw)
                        = [ok |-> TRUE, page |-> page_base(<<"v", t>>), size |-> size]
         /\ \E size : Through("s2", page_base(<<"v", t>>), rights, sw)
                        = [ok |-> TRUE, page |-> page_base(<<"p", t>>), size |-> size]
<1> DEFINE Maps(size) ==
             /\ Through("s1", page_base(<<"v", t>>), rights, sw)
                  = [ok |-> TRUE, page |-> page_base(<<"v", t>>), size |-> size]
             /\ Through("s2", page_base(<<"v", t>>), rights, sw)
                  = [ok |-> TRUE, page |-> page_base(<<"p", t>>), size |-> size]
<1>1. CASE t = "TEST_2MIB"
  <2> DEFINE from == 802816
             to   == 540672
  <2>1. /\ Through("s1", from, rights, sw) = [ok |-> TRUE, page |-> from, size |-> MiB2]
        /\ Through("s2", from, rights, sw) = [ok |-> TRUE, page |-> to, size |-> MiB2]
    BY Walk2MiB, SMT
  <2>2. page_base(<<"v", "TEST_2MIB">>) = from /\ page_base(<<"p", "TEST_2MIB">>) = to
    BY SuperBases, SMT
  <2> HIDE DEF from, to
  <2>3. Maps(MiB2)
    BY <1>1, <2>1, <2>2, Zenon
  <2> QED BY <2>3, Zenon
<1>2. CASE t = "TEST_1GIB"
  <2> DEFINE from == 524288
             to   == 524288
  <2>1. /\ Through("s1", from, rights, sw) = [ok |-> TRUE, page |-> from, size |-> GiB]
        /\ Through("s2", from, rights, sw) = [ok |-> TRUE, page |-> to, size |-> GiB]
    BY Walk1GiB, SMT
  <2>2. page_base(<<"v", "TEST_1GIB">>) = from /\ page_base(<<"p", "TEST_1GIB">>) = to
    BY SuperBases, SMT
  <2> HIDE DEF from, to
  <2>3. Maps(GiB)
    BY <1>2, <2>1, <2>2, Zenon
  <2> QED BY <2>3, Zenon
<1> QED BY <1>1, <1>2, Zenon DEF Superpages

\* The second entry of a leaf's address: where the exchange puts a page.
LEMMA MovedPage ==
  ASSUME NEW t \in Named, NEW sw, NEW s
  PROVE  /\ Switched(t, s \in sw) \in Named
         /\ page_base(<<"v", Switched(t, s \in sw)>>) = TEST_VPAGE_BASE + test_page(Switched(t, s \in sw))
         /\ page_base(<<"p", Switched(t, s \in sw)>>) = TEST_PPAGE_BASE + test_page(Switched(t, s \in sw))
<1> DEFINE o == s \in sw
           u == Switched(t, o)
<1>1. o \in BOOLEAN
  OBVIOUS
<1> HIDE DEF o
<1>2. u \in Named
  BY <1>1, MovedByName
<1> HIDE DEF u
<1>3. page_base(<<"v", u>>) = TEST_VPAGE_BASE + test_page(u) /\ page_base(<<"p", u>>) = TEST_PPAGE_BASE + test_page(u)
  BY <1>2, NamedBase
<1> QED BY <1>2, <1>3, Zenon DEF u, o

\* The first stage by name and by number, whether it is on or not.
LEMMA FirstAgrees ==
  ASSUME NEW t \in Tested, NEW access \in {"read", "write"}, NEW modes, NEW sw
  PROVE  Meet(FirstByName(t, access, modes, sw),
              First(page_base(<<"v", t>>), {Right(access)}, modes, sw))
<1> DEFINE n        == page_base(<<"v", t>>)
           rights   == {Right(access)}
           byName   == FirstByName(t, access, modes, sw)
           byNumber == First(n, rights, modes, sw)
<1>1. rights # {} /\ rights \in SUBSET Full
  BY DEF Right, Full
<1>2. CASE modes.s1 # "sv39"
  <2>1. byName = Reached(<<"v", t>>) /\ byNumber = [ok |-> TRUE, page |-> n, size |-> GiB]
    BY <1>2, Zenon DEF First, FirstByName
  <2> HIDE DEF byName, byNumber
  <2>2. Meet(byName, byNumber)
    BY <2>1, Met, Zenon
  <2> QED BY <2>2 DEF byName, byNumber
<1>3. CASE modes.s1 = "sv39" /\ t \in Named
  <2> DEFINE t1 == Switched(t, "s1" \in sw)
  <2>1. byName = Stage1(<<"v", t>>, access, sw) /\ byNumber = Through("s1", n, rights, sw)
    BY <1>3, Zenon DEF First, FirstByName
  <2>2. n = TEST_VPAGE_BASE + test_page(t)
    BY <1>3, NamedBase
  <2>3. Through("s1", n, rights, sw)
          = IF rights \subseteq Stage1Perm(t)
            THEN [ok |-> TRUE, size |-> 1, page |-> TEST_VPAGE_BASE + test_page(t1)] ELSE NoPage
    BY <1>1, <1>3, <2>2, NamedThrough, Zenon
  <2>4. /\ Right(access) \in Stage1Perm(t) => byName = Reached(<<"v", t1>>)
        /\ Right(access) \notin Stage1Perm(t) => byName = Fault(Cause1(access))
    <3> HIDE DEF byName, byNumber, n, rights
    <3>1. Right(access) \in Stage1Perm(t) => byName = Reached(<<"v", t1>>)
      BY <1>3, <2>1, NamedStages, Zenon
    <3>2. Right(access) \notin Stage1Perm(t) => byName = Fault(Cause1(access))
      BY <1>3, <2>1, NamedStages, Zenon
    <3> QED BY <3>1, <3>2
  <2>5. t1 \in Named /\ page_base(<<"v", t1>>) = TEST_VPAGE_BASE + test_page(t1)
    BY <1>3, MovedPage, Zenon
  <2>6. rights \subseteq Stage1Perm(t) <=> Right(access) \in Stage1Perm(t)
    OBVIOUS
  <2>7. t1 \in Tested
    BY <2>5, Zenon DEF Tested
  <2> HIDE DEF t1, n, byName, byNumber, rights
  <2>8. CASE Right(access) \in Stage1Perm(t)
    <3>1. byNumber = [ok |-> TRUE, page |-> page_base(<<"v", t1>>), size |-> 1]
      BY <2>1, <2>3, <2>5, <2>6, <2>8
    <3> QED BY <2>4, <2>7, <2>8, <3>1, Met, Zenon DEF byName, byNumber, n, rights
  <2>9. CASE Right(access) \notin Stage1Perm(t)
    <3>1. byNumber = NoPage
      BY <2>1, <2>3, <2>6, <2>9
    <3> QED BY <2>4, <2>9, <3>1, Met, Zenon DEF byName, byNumber, n, rights
  <2> QED BY <2>8, <2>9
<1>4. CASE modes.s1 = "sv39" /\ t \in Superpages
  <2>1. byName = Reached(<<"v", t>>) /\ byNumber = Through("s1", n, rights, sw)
    BY <1>4, SuperStages, Zenon DEF First, FirstByName
  <2>2. PICK size : Through("s1", n, rights, sw) = [ok |-> TRUE, page |-> n, size |-> size]
    BY <1>1, <1>4, SuperThrough, Zenon
  <2> HIDE DEF byName, byNumber
  <2>3. Meet(byName, byNumber)
    BY <2>1, <2>2, Met, Zenon
  <2> QED BY <2>3 DEF byName, byNumber
<1> QED BY <1>2, <1>3, <1>4 DEF Tested

\* The second stage, for a page the first one has reached.
LEMMA SecondAgrees ==
  ASSUME NEW t \in Tested, NEW access \in {"read", "write"}, NEW modes, NEW sw, NEW size
  PROVE  Same(SecondByName(t, access, modes, sw),
              Second([ok |-> TRUE, page |-> page_base(<<"v", t>>), size |-> size],
                     {Right(access)}, modes, sw))
<1> DEFINE n        == page_base(<<"v", t>>)
           rights   == {Right(access)}
           r1       == [ok |-> TRUE, page |-> n, size |-> size]
           r2       == Through("s2", n, rights, sw)
           byName   == SecondByName(t, access, modes, sw)
           byNumber == Second(r1, rights, modes, sw)
<1> SUFFICES Same(byName, byNumber)
  OBVIOUS
<1>1. rights # {} /\ rights \in SUBSET Full
  BY DEF Right, Full
<1> HIDE DEF n
<1>2. CASE modes.s2 # "sv39x4"
  <2>1. byName = Reached(<<"v", t>>) /\ byNumber = [ok |-> TRUE, page |-> n, size |-> size]
    BY <1>2, Zenon DEF Second, SecondByName
  <2> HIDE DEF byName, byNumber
  <2> QED BY <2>1, Agreed, Zenon DEF n
<1>3. ASSUME modes.s2 = "sv39x4"
      PROVE  /\ byName = Stage2(<<"v", t>>, access, sw)
             /\ \A page, s : r2 = [ok |-> TRUE, page |-> page, size |-> s] =>
                  \E m : byNumber = [ok |-> TRUE, page |-> page, size |-> m]
             /\ r2 = NoPage => byNumber = NoPage
  <2>1. byName = Stage2(<<"v", t>>, access, sw)
    BY <1>3, Zenon DEF SecondByName
  <2>2. byNumber = Both(r1, r2)
    <3>1. r1.page = n
      OBVIOUS
    <3> HIDE DEF r1, byName
    <3> QED BY <1>3, <3>1, Zenon DEF Second
  <2> HIDE DEF byName, byNumber, r2
  <2>3. ASSUME NEW page, NEW s, r2 = [ok |-> TRUE, page |-> page, size |-> s]
        PROVE  \E m : byNumber = [ok |-> TRUE, page |-> page, size |-> m]
    <3> DEFINE m == IF size < s THEN size ELSE s
    <3>1. byNumber = [ok |-> TRUE, page |-> page, size |-> m]
      BY <2>2, <2>3 DEF Both
    <3> HIDE DEF m, r1
    <3> QED BY <3>1
  <2>4. r2 = NoPage => byNumber = NoPage
    BY <2>2 DEF Both, NoPage
  <2> QED BY <2>1, <2>3, <2>4
<1>4. CASE modes.s2 = "sv39x4" /\ t \in Named
  <2> DEFINE t2 == Switched(t, "s2" \in sw)
  <2>1. n = TEST_VPAGE_BASE + test_page(t)
    BY <1>4, NamedBase DEF n
  <2>2. r2 = IF rights \subseteq Stage2Perm(t)
             THEN [ok |-> TRUE, size |-> 1, page |-> TEST_PPAGE_BASE + test_page(t2)] ELSE NoPage
    BY <1>1, <1>4, <2>1, NamedThrough, Zenon
  <2>3. rights \subseteq Stage2Perm(t) <=> Right(access) \in Stage2Perm(t)
    OBVIOUS
  <2> HIDE DEF byName, byNumber, r1, r2, rights
  <2>4. /\ Right(access) \in Stage2Perm(t) => byName = Reached(<<"p", t2>>)
        /\ Right(access) \notin Stage2Perm(t) => byName = Fault(Cause2(access))
    <3>1. Right(access) \in Stage2Perm(t) => byName = Reached(<<"p", t2>>)
      BY <1>3, <1>4, NamedStages, Zenon
    <3>2. Right(access) \notin Stage2Perm(t) => byName = Fault(Cause2(access))
      BY <1>3, <1>4, NamedStages, Zenon
    <3> QED BY <3>1, <3>2
  <2>5. page_base(<<"p", t2>>) = TEST_PPAGE_BASE + test_page(t2)
    BY <1>4, MovedPage, Zenon
  <2> HIDE DEF t2
  <2>6. CASE Right(access) \in Stage2Perm(t)
    <3>1. r2 = [ok |-> TRUE, page |-> page_base(<<"p", t2>>), size |-> 1]
      BY <2>2, <2>3, <2>5, <2>6
    <3>2. PICK m : byNumber = [ok |-> TRUE, page |-> page_base(<<"p", t2>>), size |-> m]
      BY <1>3, <1>4, <3>1, Zenon
    <3> QED BY <2>4, <2>6, <3>2, Agreed, Zenon
  <2>7. CASE Right(access) \notin Stage2Perm(t)
    <3>1. byNumber = NoPage
      BY <1>3, <1>4, <2>2, <2>3, <2>7, Zenon
    <3> QED BY <2>4, <2>7, <3>1, Agreed, Zenon
  <2> QED BY <2>6, <2>7
<1>5. CASE modes.s2 = "sv39x4" /\ t \in Superpages
  <2>1. PICK s : r2 = [ok |-> TRUE, page |-> page_base(<<"p", t>>), size |-> s]
    BY <1>1, <1>5, SuperThrough, Zenon DEF n
  <2> HIDE DEF r1, r2, byName, byNumber
  <2>2. byName = Reached(<<"p", t>>)
    BY <1>3, <1>5, SuperStages, Zenon
  <2>3. PICK m : byNumber = [ok |-> TRUE, page |-> page_base(<<"p", t>>), size |-> m]
    BY <1>3, <1>5, <2>1, Zenon
  <2> QED BY <2>2, <2>3, Agreed, Zenon
<1> QED BY <1>2, <1>4, <1>5 DEF Tested

\* Every page and access, in every mode, whatever was exchanged.
LEMMA PagesAgree == ASSUME NEW sw PROVE SamePages(sw)
<1> SUFFICES ASSUME NEW t \in Tested, NEW access \in {"read", "write"}, NEW modes \in Modes
             PROVE  Same(Walk(<<"v", t>>, access, modes, sw),
                         Walked(page_base(<<"v", t>>), {Right(access)}, modes, sw))
  BY Zenon DEF SamePages
<1> DEFINE r        == {Right(access)}
           byName   == FirstByName(t, access, modes, sw)
           byNumber == First(page_base(<<"v", t>>), r, modes, sw)
           walk     == Walk(<<"v", t>>, access, modes, sw)
           walked   == Walked(page_base(<<"v", t>>), r, modes, sw)
<1>1. walk = IF byName.ok /\ modes.s2 = "sv39x4" THEN Stage2(byName.to, access, sw) ELSE byName
  BY WalkOff, Zenon DEF FirstByName
<1>2. walked = Second(byNumber, r, modes, sw)
  BY Zenon DEF Walked
<1>3. Meet(byName, byNumber)
  BY FirstAgrees, Zenon
<1> SUFFICES Same(walk, walked)
  OBVIOUS
<1> HIDE DEF r, byName, byNumber, walk, walked
<1>4. ASSUME NEW u \in Tested, NEW size, byName = Reached(<<"v", u>>),
             byNumber = [ok |-> TRUE, page |-> page_base(<<"v", u>>), size |-> size]
      PROVE  Same(walk, walked)
  <2>1. byName.ok = TRUE /\ byName.to = <<"v", u>>
    BY <1>4 DEF Reached
  <2>2. walk = SecondByName(u, access, modes, sw)
    BY <1>1, <1>4, <2>1, Zenon DEF SecondByName
  <2> QED BY <1>2, <1>4, <2>2, SecondAgrees, Zenon DEF r
<1>5. ASSUME NEW c, byName = Fault(c), byNumber = NoPage
      PROVE  Same(walk, walked)
  <2>1. walk = Fault(c)
    BY <1>1, <1>5 DEF Fault
  <2>2. walked = NoPage
    BY <1>2, <1>5 DEF Second, Both, NoPage
  <2> QED BY <2>1, <2>2, Agreed, Zenon
<1> QED BY <1>3, <1>4, <1>5, Zenon DEF Meet

\* The MSI mask selects the MSI pages and no others.
LEMMA MsiAgrees == SameMsi
<1>1. ASSUME NEW t \in Named PROVE MatchesMsi(page_base(<<"v", t>>)) = IsMsi(<<"v", t>>)
  <2> DEFINE n == TEST_VPAGE_BASE + test_page(t)
             a == <<"v", t>>
  <2>1. page_base(a) = n /\ (MatchesMsi(n) <=> IsMsi(a))
    <3>1. page_base(a) = n
      BY NamedBase
    <3>2. MatchesMsi(n) <=> IsMsi(a)
      BY MsiByName, SMT
    <3> QED BY <3>1, <3>2
  <2> HIDE DEF n, a
  <2> QED BY <2>1, Zenon DEF a, MatchesMsi, IsMsi
<1>2. ASSUME NEW t \in Superpages PROVE MatchesMsi(page_base(<<"v", t>>)) = IsMsi(<<"v", t>>)
  <2> DEFINE n == page_base(<<"v", t>>)
             a == <<"v", t>>
  <2>1. ~MatchesMsi(n)
    BY SuperBases, MsiByName, SMT DEF Superpages
  <2>2. ~IsMsi(a)
    BY MsiByName, SMT
  <2> HIDE DEF n, a
  <2> QED BY <2>1, <2>2, Zenon DEF a, n, MatchesMsi, IsMsi
<1> QED BY <1>1, <1>2, Zenon DEF SameMsi, Tested

-----------------------------------------------------------------------------
(* Places and bits *)

\* Bit 20 of a virtual page is always set: the files start at number 16.
LEMMA FileNumbers ==
  ASSUME NEW t \in DOMAIN Number
  PROVE  InterruptFile(t) \in 16 .. 31
<1> DEFINE v == Vpn(t)
<1>1. v \in Nat /\ v \div 1048576 = 1
  BY NumberedPage, SMT DEF Vpn
<1> HIDE DEF v
<1>2. \A n \in Nat, i \in 0 .. 20 : Bit(n, i) = (n \div 2^i) % 2
  BY DEF Bit
<1>3. Bit(v, 20) = 1
  BY <1>1, SMT DEF Bit
<1>4. /\ Bit(v, 1) \in {0, 1} /\ Bit(v, 2) \in {0, 1} /\ Bit(v, 7) \in {0, 1}
      /\ Bit(v, 9) \in {0, 1}
  BY <1>1, SMT DEF Bit
<1>5. InterruptFile(t) = Bit(v, 1) + 2 * Bit(v, 2) + 4 * Bit(v, 7) + 8 * Bit(v, 9) + 16 * Bit(v, 20)
  BY DEF InterruptFile, v
<1> QED BY <1>3, <1>4, <1>5, SMT

\* The first page of the message words.
WordBase == MEM_BASE + 3 * 2^12

LEMMA AreaBases ==
  /\ TEST_PPAGE_BASE = 557056 /\ MSI_BASE_IF = 540672 /\ WordBase = 536576
  /\ page_base(<<"p", "TEST_2MIB">>) = 540672 /\ page_base(<<"p", "TEST_1GIB">>) = 524288
  /\ page_base(<<"fence", "IOFENCE_ADDR">>) = 532480
<1> DEFINE a == <<"fence", "IOFENCE_ADDR">>
<1>1. a[1] = "fence"
  OBVIOUS
<1> HIDE DEF a
<1>2. page_base(a) = MEM_BASE + 2 * 2^12
  BY <1>1, SMT DEF page_base
<1>3. page_base(a) = 532480
  BY <1>2, Bases, SMT
<1>4. MSI_BASE_IF = 540672 /\ WordBase = 536576
  BY Bases, SMT DEF MSI_BASE_IF, WordBase
<1> QED BY <1>3, <1>4, Bases, SuperBases DEF a

\* Where a place lies: the areas do not meet.
Area(x) ==
  \/ \E t \in Named : x = <<"p", t>> /\ page_base(x) = TEST_PPAGE_BASE + test_page(t)
  \/ x = <<"p", "TEST_2MIB">>
  \/ x = <<"p", "TEST_1GIB">>
  \/ \E n \in 16 .. 31 : x = <<"if", n>> /\ page_base(x) = MSI_BASE_IF + n
  \/ \E k \in {1, 2, 3, 9, 10} : x = <<"w", Words[k]>> /\ page_base(x) = WordBase + k - 1
  \/ x = <<"fence", "IOFENCE_ADDR">>

\* The pages of the words that have a name, each with one of its own.
LEMMA WordsAre ==
  /\ DOMAIN Words = 1 .. 10
  /\ \A k \in 1 .. 10 : Words[k] # "" => k \in {1, 2, 3, 9, 10}
  /\ \A j, k \in {1, 2, 3, 9, 10} : Words[j] = Words[k] => j = k
  /\ \A k \in {1, 2, 3, 9, 10} : Words[k] # ""
<1>1. DOMAIN Words = 1 .. 10
  BY DEF Words
<1>2. /\ Words[1] = "MSI_ADDR_CQ" /\ Words[2] = "MSI_ADDR_FQ" /\ Words[3] = "MSI_ADDR_HPM"
      /\ Words[9] = "NOTICE_ADDR_1" /\ Words[10] = "NOTICE_ADDR_2"
  BY DEF Words
<1>3. Words[4] = "" /\ Words[5] = "" /\ Words[6] = "" /\ Words[7] = "" /\ Words[8] = ""
  BY DEF Words
<1>4. \A k \in 1 .. 10 : k \in {1, 2, 3, 4, 5, 6, 7, 8, 9, 10}
  OBVIOUS
<1>5. \A k \in 1 .. 10 : Words[k] # "" => k \in {1, 2, 3, 9, 10}
  BY <1>3, <1>4
<1>6. \A j, k \in {1, 2, 3, 9, 10} : Words[j] = Words[k] => j = k
  BY <1>2
<1>7. \A k \in {1, 2, 3, 9, 10} : Words[k] # ""
  BY <1>2
<1> QED BY <1>1, <1>5, <1>6, <1>7

LEMMA WordPages ==
  ASSUME NEW k \in {1, 2, 3, 9, 10}
  PROVE  page_base(<<"w", Words[k]>>) = WordBase + k - 1
<1> DEFINE a == <<"w", Words[k]>>
           j == CHOOSE j \in DOMAIN Words : Words[j] = a[2]
<1>1. a[1] = "w" /\ a[2] = Words[k]
  OBVIOUS
<1> HIDE DEF a, j
<1>2. k \in DOMAIN Words /\ Words[k] = a[2]
  <2>1. k \in 1 .. 10
    OBVIOUS
  <2> QED BY <1>1, <2>1, WordsAre
<1>3. j \in DOMAIN Words /\ Words[j] = a[2]
  BY <1>2, Zenon DEF j
<1>4. j \in {1, 2, 3, 9, 10}
  BY <1>1, <1>3, WordsAre
<1>5. j = k
  BY <1>1, <1>3, <1>4, WordsAre, Zenon
<1>6. page_base(a) = MEM_BASE + 3 * 2^12 + j - 1
  BY <1>1, SMT DEF page_base, j
<1> QED BY <1>5, <1>6, Bases, SMT DEF a, WordBase

LEMMA FilePages ==
  ASSUME NEW n \in 16 .. 31
  PROVE  page_base(<<"if", n>>) = MSI_BASE_IF + n
<1> DEFINE a == <<"if", n>>
<1>1. a[1] = "if" /\ a[2] = n
  OBVIOUS
<1> HIDE DEF a
<1>2. page_base(a) = MSI_BASE_IF + n
  BY <1>1, SMT DEF page_base
<1> QED BY <1>2 DEF a

LEMMA Areas == ASSUME NEW x \in Places PROVE Area(x)
<1> DEFINE files == {InterruptFile(t) : t \in DOMAIN Number}
           words == {Words[k] : k \in DOMAIN Words} \ {""}
<1>1. ASSUME NEW t \in Named, x = <<"p", t>> PROVE Area(x)
  BY <1>1, NamedBase, Zenon DEF Area
<1>2. ASSUME NEW t \in Superpages, x = <<"p", t>> PROVE Area(x)
  BY <1>2, Zenon DEF Area, Superpages
<1>3. ASSUME NEW n \in files, x = <<"if", n>> PROVE Area(x)
  <2>1. n \in 16 .. 31
    BY FileNumbers
  <2> QED BY <1>3, <2>1, FilePages, Zenon DEF Area
<1>4. ASSUME NEW w \in words, x = <<"w", w>> PROVE Area(x)
  <2>1. PICK k \in 1 .. 10 : w = Words[k] /\ Words[k] # ""
    BY WordsAre
  <2>2. k \in {1, 2, 3, 9, 10}
    BY <2>1, WordsAre
  <2>3. x = <<"w", Words[k]>> /\ page_base(x) = WordBase + k - 1
    BY <1>4, <2>1, <2>2, WordPages, Zenon
  <2> QED BY <2>2, <2>3, Zenon DEF Area
<1>5. x \in ({"p"} \X Tested) \cup ({"if"} \X files) \cup ({"w"} \X words)
             \cup {<<"fence", "IOFENCE_ADDR">>}
  BY DEF Places
<1> HIDE DEF files, words
<1>6. \/ \E t \in Tested : x = <<"p", t>>
      \/ \E n \in files : x = <<"if", n>>
      \/ \E w \in words : x = <<"w", w>>
      \/ x = <<"fence", "IOFENCE_ADDR">>
  BY <1>5
<1>7. CASE x = <<"fence", "IOFENCE_ADDR">>
  BY <1>7, Zenon DEF Area
<1> QED BY <1>1, <1>2, <1>3, <1>4, <1>6, <1>7 DEF Tested

LEMMA PlacesApart == DistinctPlaces
<1> SUFFICES ASSUME NEW x \in Places, NEW y \in Places, page_base(x) = page_base(y)
             PROVE  x = y
  BY DEF DistinctPlaces
<1> DEFINE px == page_base(x)
           py == page_base(y)
<1>0. Area(x) /\ Area(y)
  BY Areas
<1>1. \A t \in Named : test_page(t) \in 0 .. 390
  BY TestPageRange
<1>2. \A t, u \in Named : test_page(t) = test_page(u) => t = u
  BY TestPageInjective
<1> QED BY <1>0, <1>1, <1>2, AreaBases, SMTT(60) DEF Area

LEMMA BitsApart == OwnBits
<1>1. /\ INT_IP_IDX(300) = 8 /\ INT_IP_IDX(600) = 18
      /\ INT_IE_IDX(300) = 9 /\ INT_IE_IDX(600) = 19
  BY DEF INT_IP_IDX, INT_IE_IDX
<1>2. ASSUME NEW id \in Identities
      PROVE  INT_MASK(id) \in mrif[2 * (id \div 64) + 1] <=> id = INT_ID_1
  <2> DEFINE i == 2 * (id \div 64) + 1
  <2>1. i \in 0 .. 63 /\ (i = 9 <=> id \div 64 = 4) /\ i % 2 = 1
    BY DEF Identities
  <2>2. mrif[i] = IF i = 9 THEN {44} ELSE {}
    <3> HIDE DEF i
    <3>1. INT_ID_1 = 300 /\ INT_ID_2 = 600 /\ INT_MASK(300) = 44
      BY DEF INT_ID_1, INT_ID_2, INT_MASK
    <3>2. mrif[i] = CASE i \in {8, 18} -> {} [] i = 19 -> {} [] i = 9 -> {44} [] OTHER -> {}
      BY <1>1, <2>1, <3>1 DEF mrif
    <3> QED BY <2>1, <3>2
  <2>3. id = 64 * (id \div 64) + (id % 64)
    BY DEF Identities
  <2>4. id % 64 = 44 /\ id \div 64 = 4 <=> id = 300
    BY <2>3, SMT DEF Identities
  <2> HIDE DEF i
  <2>5. INT_MASK(id) = id % 64
    BY DEF INT_MASK
  <2> QED BY <2>1, <2>2, <2>4, <2>5 DEF i, INT_ID_1
<1> QED BY <1>1, <1>2 DEF OwnBits, INT_ID_1, INT_ID_2

(* The macros INT_OFFSET and INT_IP_IDX, with their shift and mask, are    *)
(* the word of pending bits of an identity.                                *)
LEMMA PendingWord ==
  ASSUME NEW id \in Nat
  PROVE  INT_IP_IDX(id) = 2 * (id \div 64)
  BY DEF INT_IP_IDX

(* Each interrupt identity has a pending bit of its own, and no enable     *)
(* word is a pending word: for all identities, not only the two in use.    *)
THEOREM IdentitiesApart ==
  ASSUME NEW x \in Nat, NEW y \in Nat
  PROVE  /\ INT_IP_IDX(x) = INT_IP_IDX(y) /\ INT_MASK(x) = INT_MASK(y) => x = y
         /\ INT_IE_IDX(x) # INT_IP_IDX(y)
<1>1. INT_IP_IDX(x) = 2 * (x \div 64) /\ INT_IP_IDX(y) = 2 * (y \div 64)
  BY PendingWord
<1>2. x = 64 * (x \div 64) + (x % 64) /\ y = 64 * (y \div 64) + (y % 64)
  OBVIOUS
<1>3. x \div 64 \in Nat /\ y \div 64 \in Nat
  OBVIOUS
<1> QED
  BY <1>1, <1>2, <1>3 DEF INT_MASK, INT_IE_IDX

(* For any pages and whatever tests have exchanged, the tables of          *)
(* page_tables.c hold what their names say, in every mode; the MSI mask    *)
(* selects the MSI pages only; no two places that tests look at share a    *)
(* physical page; and one identity alone is enabled in the MRIF.           *)
THEOREM TablesAsNamed == Spec => []TablesAgree
<1>1. TablesAgree
  BY PagesAgree, MsiAgrees, PlacesApart, BitsApart DEF TablesAgree
<1> QED BY <1>1, PTL DEF Spec

=============================================================================
