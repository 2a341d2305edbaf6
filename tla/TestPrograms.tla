----------------------------- MODULE TestPrograms -----------------------------
(***************************************************************************)
(* The test functions of rv_iommu_tests.c, each as the sequence of driver  *)
(* calls, transfers and assertions it makes.  The functions have no branch *)
(* but the early return of ERROR, so a sequence of steps says all of them. *)
(* Memory holds payloads by name, "0" being the zero the tests clear with.  *)
(***************************************************************************)
EXTENDS Sequences

v(t) == <<"v", t>>         \* virt_page_base(t)
p(t) == <<"p", t>>         \* phys_page_base(t)
word(x) == <<"w", x>>
file(n) == <<"if", n>>      \* the guest interrupt file n


\* The steps.
Ddtp(m)            == [op |-> "ddtp", mode |-> m]
Context(f, m)      == [op |-> "context", field |-> f, mode |-> m]
Igs(m)             == [op |-> "igs", mode |-> m]
Command(c)         == [op |-> "command", command |-> c]
Store(a, x)        == [op |-> "store", at |-> a, value |-> x]
Transfer(src, dst) == [op |-> "transfer", src |-> src, dst |-> dst]
Switch(s)          == [op |-> "switch", stage |-> s]
Arm(c)             == [op |-> "arm", counter |-> c]
Translate(a)       == [op |-> "translate", iova |-> a]
ReadRecord         == [op |-> "record"]
GetCqh             == [op |-> "cqh"]
GetCqcsr           == [op |-> "cqcsr"]
SetCqcsr           == [op |-> "set_cqcsr"]
ClearIpsr          == [op |-> "clear_ipsr"]
UnmaskCQ           == [op |-> "unmask"]
PollCycles         == [op |-> "poll"]
Expect(c)          == [op |-> "assert", holds |-> c]
TestEnd            == [op |-> "end"]

\* What an assertion compares.
Memory(words)      == [kind |-> "memory", words |-> words]
Ipsr(mask, bits)   == [kind |-> "ipsr", mask |-> mask, bits |-> bits]
CqhMoved           == [kind |-> "cqh"]
Cqcsr(e)           == [kind |-> "cqcsr", event |-> e]
Recorded(f, x)     == [kind |-> "record", field |-> f, value |-> x]
Overflowed(c)      == [kind |-> "overflow", counter |-> c]
Response(a)        == [kind |-> "response", to |-> a]
ResponseFault      == [kind |-> "response_fault"]

-----------------------------------------------------------------------------
OneLevel(s1, s2, msi) ==
  <<Ddtp("1lvl"), Context("s1", s1), Context("s2", s2), Context("msi", msi)>>

TwoStages == OneLevel("sv39", "sv39x4", "flat")

\* rv_iommu_fq_read_record, then the checks of CAUSE and of the IOVA.
CheckRecord(cause, iova) ==
  <<ReadRecord, Expect(Recorded("cause", cause)), Expect(Recorded("iova", iova))>>

iommu_off ==
  <<Ddtp("off"), Transfer(v("IOMMU_OFF_R"), v("IOMMU_OFF_W"))>>
  \o CheckRecord("ALL_INB_TRANSACTIONS_DISALLOWED", v("IOMMU_OFF_R"))
  \o <<ReadRecord, ClearIpsr,
       Expect(Recorded("cause", "ALL_INB_TRANSACTIONS_DISALLOWED")),
       Expect(Recorded("iova", v("IOMMU_OFF_W"))), TestEnd>>

\* It falls off its end: there is no TEST_END.
iommu_bare ==
  <<Ddtp("bare"), Store(p("IOMMU_BARE_R"), "0x10"), Store(p("IOMMU_BARE_W"), "0"),
    Transfer(p("IOMMU_BARE_R"), p("IOMMU_BARE_W")),
    Expect(Memory({<<p("IOMMU_BARE_W"), "0x10">>}))>>

both_stages_bare ==
  <<Ddtp("1lvl"), Context("s1", "bare"), Context("s2", "bare"),
    Store(p("BARE_TRANS_R1"), "0x11"), Store(p("BARE_TRANS_R2"), "0x22"),
    Store(p("BARE_TRANS_W1"), "0"), Store(p("BARE_TRANS_W2"), "0"),
    Transfer(p("BARE_TRANS_R1"), p("BARE_TRANS_W1")),
    Expect(Memory({<<p("BARE_TRANS_W1"), "0x11">>})),
    Transfer(p("BARE_TRANS_R2"), p("BARE_TRANS_W2")),
    Expect(Memory({<<p("BARE_TRANS_W2"), "0x22">>})), TestEnd>>

second_stage_only ==
  OneLevel("bare", "sv39x4", "flat")
  \o <<Command("ddt_inval"),
       Store(p("S2_ONLY_R"), "0x11"), Store(p("MSI_R1"), "0x22"),
       Store(p("S2_ONLY_W"), "0"), Store(file(17), "0"),
       Transfer(v("S2_ONLY_R"), v("S2_ONLY_W")),
       Expect(Memory({<<p("S2_ONLY_W"), "0x11">>})),
       Transfer(v("MSI_R1"), v("MSI_W1")),
       Expect(Memory({<<file(17), "0x22">>})), TestEnd>>

two_stage_translation ==
  TwoStages
  \o <<Command("ddt_inval"),
       Store(p("TWO_STAGE_R4K"), "0x11"), Store(p("TWO_STAGE_R2M"), "0x22"),
       Store(p("TWO_STAGE_R1G"), "0x33"), Store(p("MSI_R2"), "0x44"),
       Store(p("TWO_STAGE_W4K"), "0"), Store(p("TEST_2MIB"), "0"),
       Store(p("TEST_1GIB"), "0"), Store(file(19), "0"),
       Transfer(v("TWO_STAGE_R4K"), v("TWO_STAGE_W4K")),
       Expect(Memory({<<p("TWO_STAGE_W4K"), "0x11">>})),
       Transfer(v("TWO_STAGE_R2M"), v("TEST_2MIB")),
       Expect(Memory({<<p("TEST_2MIB"), "0x22">>})),
       Transfer(v("TWO_STAGE_R1G"), v("TEST_1GIB")),
       Expect(Memory({<<p("TEST_1GIB"), "0x33">>})),
       Transfer(v("MSI_R2"), v("MSI_W2")),
       Expect(Memory({<<file(19), "0x44">>})), TestEnd>>

\* The two transfers of iotinval and what it finds at SWITCH1 and SWITCH2.
BothSwitches(first, second) ==
  <<Transfer(v("IOTINVAL_R1"), v("SWITCH1")), Transfer(v("IOTINVAL_R2"), v("SWITCH2")),
    Expect(Memory({<<p("SWITCH1"), first>>, <<p("SWITCH2"), second>>}))>>

ClearSwitches == <<Store(p("SWITCH1"), "0"), Store(p("SWITCH2"), "0")>>

iotinval ==
  TwoStages
  \o <<Store(p("IOTINVAL_R1"), "0x11"), Store(p("IOTINVAL_R2"), "0x22")>>
  \o ClearSwitches \o BothSwitches("0x11", "0x22")
  \o <<Switch("s1")>> \o ClearSwitches \o <<Command("vma")>> \o BothSwitches("0x22", "0x11")
  \o <<Switch("s2")>> \o ClearSwitches \o <<Command("gvma")>> \o BothSwitches("0x11", "0x22")
  \o <<TestEnd>>

wsi_generation ==
  TwoStages
  \o <<Igs("wsi"), Store(p("WSI_R"), "0x11"), Store(p("WSI_W"), "0"),
       Transfer(v("WSI_R"), v("WSI_W")),
       Expect(Ipsr({"fip"}, {"fip"})), ClearIpsr,
       Expect(Ipsr({"cip", "fip", "pmip"}, {}))>>
  \o CheckRecord("LOAD_PAGE_FAULT", v("WSI_R"))
  \o CheckRecord("STORE_GUEST_PAGE_FAULT", v("WSI_W"))
  \o <<TestEnd>>

iofence ==
  <<Ddtp("1lvl"), GetCqh, Command("iofence"), Expect(CqhMoved),
    GetCqcsr, Expect(Cqcsr("fence_w_ip")), Expect(Ipsr({"cip"}, {"cip"})),
    Expect(Memory({<<word("IOFENCE_ADDR"), "IOFENCE_DATA">>})),
    SetCqcsr, ClearIpsr, TestEnd>>

msi_generation ==
  TwoStages
  \o <<Igs("msi"), Transfer(v("MSI_GEN_R"), v("MSI_GEN_W")), Command("illegal"),
       GetCqcsr, Expect(Cqcsr("cmd_ill")),
       Expect(Ipsr({"cip", "fip"}, {"cip", "fip"})),
       Expect(Memory({<<word("MSI_ADDR_FQ"), "MSI_DATA_FQ">>})),
       SetCqcsr, ClearIpsr, UnmaskCQ,
       Expect(Memory({<<word("MSI_ADDR_CQ"), "MSI_DATA_CQ">>})),
       ReadRecord, ReadRecord, TestEnd>>

\* One overflow of the cycle counter.
CycleOverflow ==
  <<Arm("cycles"), PollCycles, Expect(Overflowed("cycles")), Expect(Ipsr({"pmip"}, {"pmip"}))>>

hpm ==
  TwoStages \o <<Igs("wsi"), ClearIpsr>> \o CycleOverflow
  \o <<ClearIpsr, Igs("msi")>> \o CycleOverflow
  \o <<Expect(Memory({<<word("MSI_ADDR_HPM"), "MSI_DATA_HPM">>})), ClearIpsr,
       Igs("wsi"), Arm("iohpmctr3"), Transfer(v("HPM_R"), v("HPM_W")),
       Expect(Overflowed("iohpmctr3")), Expect(Overflowed("iohpmctr3")),
       Expect(Ipsr({"pmip"}, {"pmip"})), ClearIpsr, TestEnd>>

mrif_support ==
  OneLevel("bare", "sv39x4", "flat")
  \o <<Command("ddt_inval"),
       Store(p("MSI_R3"), "INT_ID_1"), Store(word("NOTICE_ADDR_1"), "0"),
       Transfer(v("MSI_R3"), v("MSI_W3")),
       Expect(Memory({<<word("INT_IP_1"), "1">>})),
       Expect(Memory({<<word("NOTICE_ADDR_1"), "NOTICE_DATA">>})),
       Context("s1", "sv39"), Command("ddt_inval"),
       Store(p("MSI_R4"), "INT_ID_2"), Store(word("NOTICE_ADDR_2"), "0"),
       Transfer(v("MSI_R4"), v("MSI_W4")),
       Expect(Memory({<<word("INT_IP_2"), "1">>})),
       Expect(Memory({<<word("NOTICE_ADDR_2"), "0">>})),
       Transfer(v("MSI_R5"), v("MSI_W5"))>>
  \o CheckRecord("MSI_PTE_INVALID", v("MSI_W5"))
  \o <<ClearIpsr, Store(p("MSI_R3"), "0xFFF"), Store(word("INT_IP_1"), "0"),
       Store(word("NOTICE_ADDR_1"), "0"),
       Transfer(v("MSI_R3"), v("MSI_W3")),
       Expect(Memory({<<word("INT_IP_1"), "0">>})),
       Expect(Memory({<<word("NOTICE_ADDR_1"), "0">>})), TestEnd>>

\* The superpages are checked twice: the translated page, then its size.
dbg_interface ==
  TwoStages
  \o <<Translate(v("TWO_STAGE_W4K")), Expect(Response(p("TWO_STAGE_W4K"))),
       Translate(v("TEST_2MIB")), Expect(Response(p("TEST_2MIB"))),
       Expect(Response(p("TEST_2MIB"))),
       Translate(v("TEST_1GIB")), Expect(Response(p("TEST_1GIB"))),
       Expect(Response(p("TEST_1GIB"))),
       Translate(v("MSI_W2")), Expect(ResponseFault)>>
  \o CheckRecord("TRANS_TYPE_DISALLOWED", v("MSI_W2"))
  \o <<TestEnd>>

Program ==
  [iommu_off |-> iommu_off, iommu_bare |-> iommu_bare,
   both_stages_bare |-> both_stages_bare, second_stage_only |-> second_stage_only,
   two_stage_translation |-> two_stage_translation, iotinval |-> iotinval,
   wsi_generation |-> wsi_generation, iofence |-> iofence,
   msi_generation |-> msi_generation, hpm |-> hpm,
   mrif_support |-> mrif_support, dbg_interface |-> dbg_interface]

\* The lines of test_register.c that are not commented out.
Registered ==
  <<"dbg_interface", "mrif_support", "hpm", "msi_generation", "iofence",
    "wsi_generation", "iotinval", "two_stage_translation", "second_stage_only",
    "both_stages_bare", "iommu_bare", "iommu_off">>

=============================================================================
