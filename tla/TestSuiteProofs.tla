--------------------------- MODULE TestSuiteProofs ---------------------------
(***************************************************************************)
(* What holds of every run of main(), for any tests in any order and any   *)
(* start of the command queue, whether it keeps up with the hart or not:   *)
(* the types, which faults a test's records are of, what is printed of the *)
(* assertions however they turn out, and which tests can fail at all.      *)
(* The last part rests on the invariant RecordInv /\ PassInv /\ KeepsUp.   *)
(* It follows each test through its steps: what every test preserves       *)
(* (Frame), which command waits (Waiting), what a test finds at each of    *)
(* its steps while it depends on nothing left by others (Facts), and who   *)
(* may have failed so far (Explained).                                     *)
(* For the suites of compatible tests TidyEvents, Tidy and Straight add    *)
(* what one test leaves to the next and where cqh stands: none fails.      *)
(***************************************************************************)
EXTENDS TestSuite, SequenceTheorems, FiniteSetTheorems, TLAPS

-----------------------------------------------------------------------------
(* The programs, step by step *)

\* Program is the record of the test functions.
LEMMA ProgramIs ==
  /\ DOMAIN Program = {"iommu_off", "iommu_bare", "both_stages_bare", "second_stage_only",
       "two_stage_translation", "iotinval", "wsi_generation", "iofence", "msi_generation", "hpm",
       "mrif_support", "dbg_interface"}
  /\ Program["iommu_off"] = iommu_off /\ Program["iommu_bare"] = iommu_bare
  /\ Program["both_stages_bare"] = both_stages_bare
  /\ Program["second_stage_only"] = second_stage_only
  /\ Program["two_stage_translation"] = two_stage_translation
  /\ Program["iotinval"] = iotinval /\ Program["wsi_generation"] = wsi_generation
  /\ Program["iofence"] = iofence /\ Program["msi_generation"] = msi_generation
  /\ Program["hpm"] = hpm /\ Program["mrif_support"] = mrif_support
  /\ Program["dbg_interface"] = dbg_interface
BY DEF Program

\* Which step stands where.
LEMMA IommuOffSteps ==
  /\ Len(iommu_off) = 10 /\ iommu_off[1] = Ddtp("off")
  /\ iommu_off[2] = Transfer(v("IOMMU_OFF_R"), v("IOMMU_OFF_W")) /\ iommu_off[3] = ReadRecord
  /\ iommu_off[4] = Expect(Recorded("cause", "ALL_INB_TRANSACTIONS_DISALLOWED"))
  /\ iommu_off[5] = Expect(Recorded("iova", v("IOMMU_OFF_R"))) /\ iommu_off[6] = ReadRecord
  /\ iommu_off[7] = ClearIpsr
  /\ iommu_off[8] = Expect(Recorded("cause", "ALL_INB_TRANSACTIONS_DISALLOWED"))
  /\ iommu_off[9] = Expect(Recorded("iova", v("IOMMU_OFF_W"))) /\ iommu_off[10] = TestEnd
BY SMT DEF iommu_off, CheckRecord

LEMMA IommuBareSteps ==
  /\ Len(iommu_bare) = 5 /\ iommu_bare[1] = Ddtp("bare")
  /\ iommu_bare[2] = Store(p("IOMMU_BARE_R"), "0x10")
  /\ iommu_bare[3] = Store(p("IOMMU_BARE_W"), "0")
  /\ iommu_bare[4] = Transfer(p("IOMMU_BARE_R"), p("IOMMU_BARE_W"))
  /\ iommu_bare[5] = Expect(Memory({<<p("IOMMU_BARE_W"), "0x10">>}))
BY SMT DEF iommu_bare

LEMMA BothStagesBareSteps ==
  /\ Len(both_stages_bare) = 12 /\ both_stages_bare[1] = Ddtp("1lvl")
  /\ both_stages_bare[2] = Context("s1", "bare") /\ both_stages_bare[3] = Context("s2", "bare")
  /\ both_stages_bare[4] = Store(p("BARE_TRANS_R1"), "0x11")
  /\ both_stages_bare[5] = Store(p("BARE_TRANS_R2"), "0x22")
  /\ both_stages_bare[6] = Store(p("BARE_TRANS_W1"), "0")
  /\ both_stages_bare[7] = Store(p("BARE_TRANS_W2"), "0")
  /\ both_stages_bare[8] = Transfer(p("BARE_TRANS_R1"), p("BARE_TRANS_W1"))
  /\ both_stages_bare[9] = Expect(Memory({<<p("BARE_TRANS_W1"), "0x11">>}))
  /\ both_stages_bare[10] = Transfer(p("BARE_TRANS_R2"), p("BARE_TRANS_W2"))
  /\ both_stages_bare[11] = Expect(Memory({<<p("BARE_TRANS_W2"), "0x22">>}))
  /\ both_stages_bare[12] = TestEnd
BY SMT DEF both_stages_bare

LEMMA SecondStageOnlySteps ==
  /\ Len(second_stage_only) = 14 /\ second_stage_only[1] = Ddtp("1lvl")
  /\ second_stage_only[2] = Context("s1", "bare")
  /\ second_stage_only[3] = Context("s2", "sv39x4")
  /\ second_stage_only[4] = Context("msi", "flat") /\ second_stage_only[5] = Command("ddt_inval")
  /\ second_stage_only[6] = Store(p("S2_ONLY_R"), "0x11")
  /\ second_stage_only[7] = Store(p("MSI_R1"), "0x22")
  /\ second_stage_only[8] = Store(p("S2_ONLY_W"), "0")
  /\ second_stage_only[9] = Store(file(17), "0")
  /\ second_stage_only[10] = Transfer(v("S2_ONLY_R"), v("S2_ONLY_W"))
  /\ second_stage_only[11] = Expect(Memory({<<p("S2_ONLY_W"), "0x11">>}))
  /\ second_stage_only[12] = Transfer(v("MSI_R1"), v("MSI_W1"))
  /\ second_stage_only[13] = Expect(Memory({<<file(17), "0x22">>}))
  /\ second_stage_only[14] = TestEnd
BY SMT DEF second_stage_only, OneLevel

LEMMA TwoStageTranslationSteps ==
  /\ Len(two_stage_translation) = 22 /\ two_stage_translation[1] = Ddtp("1lvl")
  /\ two_stage_translation[2] = Context("s1", "sv39")
  /\ two_stage_translation[3] = Context("s2", "sv39x4")
  /\ two_stage_translation[4] = Context("msi", "flat")
  /\ two_stage_translation[5] = Command("ddt_inval")
  /\ two_stage_translation[6] = Store(p("TWO_STAGE_R4K"), "0x11")
  /\ two_stage_translation[7] = Store(p("TWO_STAGE_R2M"), "0x22")
  /\ two_stage_translation[8] = Store(p("TWO_STAGE_R1G"), "0x33")
  /\ two_stage_translation[9] = Store(p("MSI_R2"), "0x44")
  /\ two_stage_translation[10] = Store(p("TWO_STAGE_W4K"), "0")
  /\ two_stage_translation[11] = Store(p("TEST_2MIB"), "0")
  /\ two_stage_translation[12] = Store(p("TEST_1GIB"), "0")
  /\ two_stage_translation[13] = Store(file(19), "0")
  /\ two_stage_translation[14] = Transfer(v("TWO_STAGE_R4K"), v("TWO_STAGE_W4K"))
  /\ two_stage_translation[15] = Expect(Memory({<<p("TWO_STAGE_W4K"), "0x11">>}))
  /\ two_stage_translation[16] = Transfer(v("TWO_STAGE_R2M"), v("TEST_2MIB"))
  /\ two_stage_translation[17] = Expect(Memory({<<p("TEST_2MIB"), "0x22">>}))
  /\ two_stage_translation[18] = Transfer(v("TWO_STAGE_R1G"), v("TEST_1GIB"))
  /\ two_stage_translation[19] = Expect(Memory({<<p("TEST_1GIB"), "0x33">>}))
  /\ two_stage_translation[20] = Transfer(v("MSI_R2"), v("MSI_W2"))
  /\ two_stage_translation[21] = Expect(Memory({<<file(19), "0x44">>}))
  /\ two_stage_translation[22] = TestEnd
BY SMT DEF two_stage_translation, TwoStages, OneLevel

LEMMA IotinvalSteps ==
  /\ Len(iotinval) = 26 /\ iotinval[1] = Ddtp("1lvl") /\ iotinval[2] = Context("s1", "sv39")
  /\ iotinval[3] = Context("s2", "sv39x4") /\ iotinval[4] = Context("msi", "flat")
  /\ iotinval[5] = Store(p("IOTINVAL_R1"), "0x11")
  /\ iotinval[6] = Store(p("IOTINVAL_R2"), "0x22") /\ iotinval[7] = Store(p("SWITCH1"), "0")
  /\ iotinval[8] = Store(p("SWITCH2"), "0")
  /\ iotinval[9] = Transfer(v("IOTINVAL_R1"), v("SWITCH1"))
  /\ iotinval[10] = Transfer(v("IOTINVAL_R2"), v("SWITCH2"))
  /\ iotinval[11] = Expect(Memory({<<p("SWITCH1"), "0x11">>, <<p("SWITCH2"), "0x22">>}))
  /\ iotinval[12] = Switch("s1") /\ iotinval[13] = Store(p("SWITCH1"), "0")
  /\ iotinval[14] = Store(p("SWITCH2"), "0") /\ iotinval[15] = Command("vma")
  /\ iotinval[16] = Transfer(v("IOTINVAL_R1"), v("SWITCH1"))
  /\ iotinval[17] = Transfer(v("IOTINVAL_R2"), v("SWITCH2"))
  /\ iotinval[18] = Expect(Memory({<<p("SWITCH1"), "0x22">>, <<p("SWITCH2"), "0x11">>}))
  /\ iotinval[19] = Switch("s2") /\ iotinval[20] = Store(p("SWITCH1"), "0")
  /\ iotinval[21] = Store(p("SWITCH2"), "0") /\ iotinval[22] = Command("gvma")
  /\ iotinval[23] = Transfer(v("IOTINVAL_R1"), v("SWITCH1"))
  /\ iotinval[24] = Transfer(v("IOTINVAL_R2"), v("SWITCH2"))
  /\ iotinval[25] = Expect(Memory({<<p("SWITCH1"), "0x11">>, <<p("SWITCH2"), "0x22">>}))
  /\ iotinval[26] = TestEnd
BY SMT DEF iotinval, TwoStages, OneLevel, BothSwitches, ClearSwitches

LEMMA WsiGenerationSteps ==
  /\ Len(wsi_generation) = 18 /\ wsi_generation[1] = Ddtp("1lvl")
  /\ wsi_generation[2] = Context("s1", "sv39") /\ wsi_generation[3] = Context("s2", "sv39x4")
  /\ wsi_generation[4] = Context("msi", "flat") /\ wsi_generation[5] = Igs("wsi")
  /\ wsi_generation[6] = Store(p("WSI_R"), "0x11") /\ wsi_generation[7] = Store(p("WSI_W"), "0")
  /\ wsi_generation[8] = Transfer(v("WSI_R"), v("WSI_W"))
  /\ wsi_generation[9] = Expect(Ipsr({"fip"}, {"fip"})) /\ wsi_generation[10] = ClearIpsr
  /\ wsi_generation[11] = Expect(Ipsr({"cip", "fip", "pmip"}, {}))
  /\ wsi_generation[12] = ReadRecord
  /\ wsi_generation[13] = Expect(Recorded("cause", "LOAD_PAGE_FAULT"))
  /\ wsi_generation[14] = Expect(Recorded("iova", v("WSI_R"))) /\ wsi_generation[15] = ReadRecord
  /\ wsi_generation[16] = Expect(Recorded("cause", "STORE_GUEST_PAGE_FAULT"))
  /\ wsi_generation[17] = Expect(Recorded("iova", v("WSI_W"))) /\ wsi_generation[18] = TestEnd
BY SMT DEF wsi_generation, TwoStages, OneLevel, CheckRecord

LEMMA IofenceSteps ==
  /\ Len(iofence) = 11 /\ iofence[1] = Ddtp("1lvl") /\ iofence[2] = GetCqh
  /\ iofence[3] = Command("iofence") /\ iofence[4] = Expect(CqhMoved) /\ iofence[5] = GetCqcsr
  /\ iofence[6] = Expect(Cqcsr("fence_w_ip")) /\ iofence[7] = Expect(Ipsr({"cip"}, {"cip"}))
  /\ iofence[8] = Expect(Memory({<<word("IOFENCE_ADDR"), "IOFENCE_DATA">>}))
  /\ iofence[9] = SetCqcsr /\ iofence[10] = ClearIpsr /\ iofence[11] = TestEnd
BY SMT DEF iofence

LEMMA MsiGenerationSteps ==
  /\ Len(msi_generation) = 18 /\ msi_generation[1] = Ddtp("1lvl")
  /\ msi_generation[2] = Context("s1", "sv39") /\ msi_generation[3] = Context("s2", "sv39x4")
  /\ msi_generation[4] = Context("msi", "flat") /\ msi_generation[5] = Igs("msi")
  /\ msi_generation[6] = Transfer(v("MSI_GEN_R"), v("MSI_GEN_W"))
  /\ msi_generation[7] = Command("illegal") /\ msi_generation[8] = GetCqcsr
  /\ msi_generation[9] = Expect(Cqcsr("cmd_ill"))
  /\ msi_generation[10] = Expect(Ipsr({"cip", "fip"}, {"cip", "fip"}))
  /\ msi_generation[11] = Expect(Memory({<<word("MSI_ADDR_FQ"), "MSI_DATA_FQ">>}))
  /\ msi_generation[12] = SetCqcsr /\ msi_generation[13] = ClearIpsr
  /\ msi_generation[14] = UnmaskCQ
  /\ msi_generation[15] = Expect(Memory({<<word("MSI_ADDR_CQ"), "MSI_DATA_CQ">>}))
  /\ msi_generation[16] = ReadRecord /\ msi_generation[17] = ReadRecord
  /\ msi_generation[18] = TestEnd
BY SMT DEF msi_generation, TwoStages, OneLevel

LEMMA HpmSteps ==
  /\ Len(hpm) = 26 /\ hpm[1] = Ddtp("1lvl") /\ hpm[2] = Context("s1", "sv39")
  /\ hpm[3] = Context("s2", "sv39x4") /\ hpm[4] = Context("msi", "flat") /\ hpm[5] = Igs("wsi")
  /\ hpm[6] = ClearIpsr /\ hpm[7] = Arm("cycles") /\ hpm[8] = PollCycles
  /\ hpm[9] = Expect(Overflowed("cycles")) /\ hpm[10] = Expect(Ipsr({"pmip"}, {"pmip"}))
  /\ hpm[11] = ClearIpsr /\ hpm[12] = Igs("msi") /\ hpm[13] = Arm("cycles")
  /\ hpm[14] = PollCycles /\ hpm[15] = Expect(Overflowed("cycles"))
  /\ hpm[16] = Expect(Ipsr({"pmip"}, {"pmip"}))
  /\ hpm[17] = Expect(Memory({<<word("MSI_ADDR_HPM"), "MSI_DATA_HPM">>})) /\ hpm[18] = ClearIpsr
  /\ hpm[19] = Igs("wsi") /\ hpm[20] = Arm("iohpmctr3")
  /\ hpm[21] = Transfer(v("HPM_R"), v("HPM_W")) /\ hpm[22] = Expect(Overflowed("iohpmctr3"))
  /\ hpm[23] = Expect(Overflowed("iohpmctr3")) /\ hpm[24] = Expect(Ipsr({"pmip"}, {"pmip"}))
  /\ hpm[25] = ClearIpsr /\ hpm[26] = TestEnd
BY SMT DEF hpm, TwoStages, OneLevel, CycleOverflow

LEMMA MrifSupportSteps ==
  /\ Len(mrif_support) = 29 /\ mrif_support[1] = Ddtp("1lvl")
  /\ mrif_support[2] = Context("s1", "bare") /\ mrif_support[3] = Context("s2", "sv39x4")
  /\ mrif_support[4] = Context("msi", "flat") /\ mrif_support[5] = Command("ddt_inval")
  /\ mrif_support[6] = Store(p("MSI_R3"), "INT_ID_1")
  /\ mrif_support[7] = Store(word("NOTICE_ADDR_1"), "0")
  /\ mrif_support[8] = Transfer(v("MSI_R3"), v("MSI_W3"))
  /\ mrif_support[9] = Expect(Memory({<<word("INT_IP_1"), "1">>}))
  /\ mrif_support[10] = Expect(Memory({<<word("NOTICE_ADDR_1"), "NOTICE_DATA">>}))
  /\ mrif_support[11] = Context("s1", "sv39") /\ mrif_support[12] = Command("ddt_inval")
  /\ mrif_support[13] = Store(p("MSI_R4"), "INT_ID_2")
  /\ mrif_support[14] = Store(word("NOTICE_ADDR_2"), "0")
  /\ mrif_support[15] = Transfer(v("MSI_R4"), v("MSI_W4"))
  /\ mrif_support[16] = Expect(Memory({<<word("INT_IP_2"), "1">>}))
  /\ mrif_support[17] = Expect(Memory({<<word("NOTICE_ADDR_2"), "0">>}))
  /\ mrif_support[18] = Transfer(v("MSI_R5"), v("MSI_W5")) /\ mrif_support[19] = ReadRecord
  /\ mrif_support[20] = Expect(Recorded("cause", "MSI_PTE_INVALID"))
  /\ mrif_support[21] = Expect(Recorded("iova", v("MSI_W5"))) /\ mrif_support[22] = ClearIpsr
  /\ mrif_support[23] = Store(p("MSI_R3"), "0xFFF")
  /\ mrif_support[24] = Store(word("INT_IP_1"), "0")
  /\ mrif_support[25] = Store(word("NOTICE_ADDR_1"), "0")
  /\ mrif_support[26] = Transfer(v("MSI_R3"), v("MSI_W3"))
  /\ mrif_support[27] = Expect(Memory({<<word("INT_IP_1"), "0">>}))
  /\ mrif_support[28] = Expect(Memory({<<word("NOTICE_ADDR_1"), "0">>}))
  /\ mrif_support[29] = TestEnd
BY SMT DEF mrif_support, OneLevel, CheckRecord

LEMMA DbgInterfaceSteps ==
  /\ Len(dbg_interface) = 18 /\ dbg_interface[1] = Ddtp("1lvl")
  /\ dbg_interface[2] = Context("s1", "sv39") /\ dbg_interface[3] = Context("s2", "sv39x4")
  /\ dbg_interface[4] = Context("msi", "flat") /\ dbg_interface[5] = Translate(v("TWO_STAGE_W4K"))
  /\ dbg_interface[6] = Expect(Response(p("TWO_STAGE_W4K")))
  /\ dbg_interface[7] = Translate(v("TEST_2MIB"))
  /\ dbg_interface[8] = Expect(Response(p("TEST_2MIB")))
  /\ dbg_interface[9] = Expect(Response(p("TEST_2MIB")))
  /\ dbg_interface[10] = Translate(v("TEST_1GIB"))
  /\ dbg_interface[11] = Expect(Response(p("TEST_1GIB")))
  /\ dbg_interface[12] = Expect(Response(p("TEST_1GIB")))
  /\ dbg_interface[13] = Translate(v("MSI_W2")) /\ dbg_interface[14] = Expect(ResponseFault)
  /\ dbg_interface[15] = ReadRecord
  /\ dbg_interface[16] = Expect(Recorded("cause", "TRANS_TYPE_DISALLOWED"))
  /\ dbg_interface[17] = Expect(Recorded("iova", v("MSI_W2"))) /\ dbg_interface[18] = TestEnd
BY SMT DEF dbg_interface, TwoStages, OneLevel, CheckRecord

-----------------------------------------------------------------------------
(* Types *)

\* The modes that a field of a device context takes, and the steps that set one.
ContextModes == [s1 |-> {"bare", "sv39"}, s2 |-> {"bare", "sv39x4"}, msi |-> {"off", "flat"}]

TypedStep(s) ==
  /\ s.op = "ddtp" => s.mode \in {"off", "bare", "1lvl"}
  /\ s.op = "context" => s.field \in {"s1", "s2", "msi"} /\ s.mode \in ContextModes[s.field]
  /\ s.op = "igs" => s.mode \in {"wsi", "msi"}

LEMMA StepTyped ==
  ASSUME NEW t \in DOMAIN Program, NEW i \in 1 .. Len(Program[t])
  PROVE  TypedStep(Program[t][i])
<1> USE DEF TypedStep, ContextModes, Ddtp, Context, Igs, Command, Store, Transfer, Switch, Arm,
       Translate, ReadRecord, GetCqh, GetCqcsr, SetCqcsr, ClearIpsr, UnmaskCQ, PollCycles, Expect,
       TestEnd
<1>1. CASE t = "iommu_off"
  BY <1>1, ProgramIs, IommuOffSteps, SMT
<1>2. CASE t = "iommu_bare"
  BY <1>2, ProgramIs, IommuBareSteps, SMT
<1>3. CASE t = "both_stages_bare"
  BY <1>3, ProgramIs, BothStagesBareSteps, SMT
<1>4. CASE t = "second_stage_only"
  BY <1>4, ProgramIs, SecondStageOnlySteps, SMT
<1>5. CASE t = "two_stage_translation"
  BY <1>5, ProgramIs, TwoStageTranslationSteps, SMT
<1>6. CASE t = "iotinval"
  BY <1>6, ProgramIs, IotinvalSteps, SMT
<1>7. CASE t = "wsi_generation"
  BY <1>7, ProgramIs, WsiGenerationSteps, SMT
<1>8. CASE t = "iofence"
  BY <1>8, ProgramIs, IofenceSteps, SMT
<1>9. CASE t = "msi_generation"
  BY <1>9, ProgramIs, MsiGenerationSteps, SMT
<1>10. CASE t = "hpm"
  BY <1>10, ProgramIs, HpmSteps, SMT
<1>11. CASE t = "mrif_support"
  BY <1>11, ProgramIs, MrifSupportSteps, SMT
<1>12. CASE t = "dbg_interface"
  BY <1>12, ProgramIs, DbgInterfaceSteps
<1> QED BY <1>1, <1>2, <1>3, <1>4, <1>5, <1>6, <1>7, <1>8, <1>9, <1>10, <1>11, <1>12, ProgramIs

ContextValues == [s1 : {"bare", "sv39"}, s2 : {"bare", "sv39x4"}, msi : {"off", "flat"}]
Causes == {"cip", "fip", "pmip"}

\* main's loop over the test table, and the test that runs.
Table ==
  /\ suite \in Seq(DOMAIN Program) /\ index \in 0 .. Len(suite)
  /\ \A i, j \in DOMAIN suite : suite[i] = suite[j] => i = j
  /\ status \in {"main", "running", "error", "done"}
  /\ status \in {"running", "error"} => index > 0

Loop == Table /\ lag \in BOOLEAN /\ pc \in Nat \ {0}

\* What the hardware registers and the device contexts hold.
Hardware ==
  /\ ddtp \in {"off", "bare", "1lvl"}
  /\ dc \in ContextValues /\ ddtc \in ContextValues \cup {NoContext}
  /\ cqh \in 0 .. CqEntries - 1
  /\ ipsr \subseteq Causes /\ held \subseteq masked
  /\ igs \in {"wsi", "msi"}

Tallies == num_total_tests \in Nat /\ num_succ_tests \in 0 .. num_total_tests

TypeInv == Loop /\ Hardware /\ Tallies

LEMMA TypeInit == Init => TypeInv
<1> SUFFICES ASSUME Init PROVE TypeInv
  OBVIOUS
<1>1. Loop
  BY SuiteAssumption DEF Init, Loop, Table
<1>2. Hardware /\ Tallies
  BY SuiteAssumption DEF Init, Hardware, Tallies, ContextValues
<1> QED BY <1>1, <1>2 DEF TypeInv

\* What runs is one of the programs, and the step is typed.
LEMMA StepOf ==
  ASSUME Loop, NEW op, Doing(op)
  PROVE  /\ test \in DOMAIN Program /\ pc \in 1 .. Len(Program[test])
         /\ Step = Program[test][pc] /\ Step.op = op /\ TypedStep(Step)
         /\ status = "running" /\ index > 0 /\ pc' = pc + 1 /\ lag' = lag
<1>1. status = "running" /\ index > 0 /\ pc' = pc + 1 /\ lag' = lag /\ Step.op = op
      /\ pc <= Len(Program[test])
  BY DEF Doing, Loop, Table
<1>2. test \in DOMAIN Program
  BY <1>1 DEF Loop, Table, test
<1>3. pc \in 1 .. Len(Program[test])
  BY <1>1 DEF Loop, Table
<1> QED BY <1>1, <1>2, <1>3, StepTyped DEF Step

\* Steps that leave main alone.
LEMMA LoopQuiet ==
  ASSUME Loop, UNCHANGED <<suite, index, lag>>, pc' \in Nat \ {0},
         status' = status \/ (status = "running" /\ status' \in {"error", "main"})
                          \/ (status = "main" /\ status' = "done")
  PROVE  Loop'
BY DEF Loop, Table

LEMMA LoopStep ==
  ASSUME Loop, [Next]_vars
  PROVE  Loop'
<1> USE LoopQuiet DEF main
<1>0. pc \in Nat \ {0} /\ pc + 1 \in Nat \ {0}
  BY DEF Loop, Table
<1>1. CASE IOMMU
  BY <1>0, <1>1 DEF IOMMU, Execute, Reject, Signal, CyclesOverflow
<1>2. CASE SetDdtp \/ SetContext \/ SetIgs \/ WriteCommand \/ WriteMemory \/ SwitchTables
  BY <1>0, <1>2 DEF SetDdtp, SetContext, SetIgs, WriteCommand, WriteMemory, SwitchTables, Doing
<1>3. CASE ArmCounter \/ LeavePoll \/ ReadCqh \/ ReadCsr \/ WriteCsr \/ ClearIpsrFip \/ Unmask
  BY <1>0, <1>3 DEF ArmCounter, LeavePoll, ReadCqh, ReadCsr, WriteCsr, ClearIpsrFip, Unmask, Doing
<1>4. CASE DmaTransfer \/ DebugTranslate \/ CheckAssertion
  BY <1>0, <1>4 DEF DmaTransfer, DebugTranslate, CheckAssertion, Doing
<1>5. CASE ReadFaultRecord \/ EndTest \/ FallOff \/ Summary
  BY <1>0, <1>5 DEF ReadFaultRecord, EndTest, FallOff, Summary, Doing
<1>6. CASE CallTest
  BY <1>6 DEF CallTest, Loop, Table
<1>7. CASE UNCHANGED vars
  BY <1>0, <1>7 DEF vars
<1> QED BY <1>1, <1>2, <1>3, <1>4, <1>5, <1>6, <1>7 DEF Next, Hart

\* Causes that become pending.
LEMMA PendTyped ==
  ASSUME Hardware, NEW causes \in SUBSET Causes, NEW m, Pend(causes, m)
  PROVE  ipsr' \subseteq Causes /\ held' \subseteq masked
BY DEF Hardware, Pend

LEMMA HardwareStep ==
  ASSUME Loop, Hardware, [Next]_vars
  PROVE  Hardware'
<1> USE DEF main, caches, queue, irq, control
<1>1. CASE Execute
  <2>1. cqh' \in 0 .. CqEntries - 1
    BY <1>1, SuiteAssumption DEF Hardware, Execute, Consume
  <2>2. ddtc' \in ContextValues \cup {NoContext}
    BY <1>1 DEF Hardware, Execute, Invalidate
  <2> QED BY <1>1, <2>1, <2>2 DEF Hardware, Execute
<1>2. CASE Reject
  <2>1. cqh' \in 0 .. CqEntries - 1
    BY <1>2, SuiteAssumption DEF Hardware, Reject, Consume
  <2> QED BY <1>2, <2>1 DEF Hardware, Reject
<1>3. CASE Signal \/ CyclesOverflow
  <2>1. {"cip"} \subseteq Causes /\ {"pmip"} \subseteq Causes
    BY DEF Causes
  <2>2. ipsr' \subseteq Causes /\ held' \subseteq masked
    BY <1>3, <2>1, PendTyped DEF Signal, CyclesOverflow
  <2> QED BY <1>3, <2>2 DEF Hardware, Signal, CyclesOverflow
<1>4. CASE SetDdtp
  BY <1>4, StepOf DEF SetDdtp, Hardware, TypedStep
<1>5. CASE SetContext
  <2>1. Step.field \in {"s1", "s2", "msi"} /\ Step.mode \in ContextModes[Step.field]
    BY <1>5, StepOf DEF SetContext, TypedStep
  <2>2. dc' \in ContextValues
    BY <1>5, <2>1 DEF SetContext, Hardware, ContextValues, ContextModes
  <2> QED BY <1>5, <2>2 DEF SetContext, Hardware
<1>6. CASE SetIgs
  BY <1>6, StepOf DEF SetIgs, Hardware, TypedStep
<1>7. CASE WriteCommand \/ WriteMemory \/ SwitchTables \/ ArmCounter \/ LeavePoll
  BY <1>7 DEF WriteCommand, WriteMemory, SwitchTables, ArmCounter, LeavePoll, Hardware
<1>8. CASE ReadCqh \/ ReadCsr \/ WriteCsr \/ ClearIpsrFip \/ Unmask
  BY <1>8 DEF ReadCqh, ReadCsr, WriteCsr, ClearIpsrFip, Unmask, Hardware
<1>9. CASE DmaTransfer
  <2>1. PICK faulted \in BOOLEAN, counted \in BOOLEAN : \E m :
          Pend((IF faulted THEN {"fip"} ELSE {}) \cup (IF counted THEN {"pmip"} ELSE {}), m)
    BY <1>9, Zenon DEF DmaTransfer
  <2>2. (IF faulted THEN {"fip"} ELSE {}) \cup (IF counted THEN {"pmip"} ELSE {}) \subseteq Causes
    BY DEF Causes
  <2>3. ipsr' \subseteq Causes /\ held' \subseteq masked
    BY <2>1, <2>2, PendTyped
  <2>4. ddtc' \in {ddtc, dc} /\ UNCHANGED <<ddtp, dc, cqh, igs, masked>>
    BY <1>9 DEF DmaTransfer, InUse
  <2> QED BY <2>3, <2>4 DEF Hardware
<1>10. CASE DebugTranslate
  <2>1. PICK causes \in {{}, {"fip"}} : Pend(causes, mem)
    BY <1>10, Zenon DEF DebugTranslate
  <2>2. ipsr' \subseteq Causes /\ held' \subseteq masked
    BY <2>1, PendTyped DEF Causes
  <2>3. ddtc' \in {ddtc, dc} /\ UNCHANGED <<ddtp, dc, cqh, igs, masked>>
    BY <1>10 DEF DebugTranslate, InUse
  <2> QED BY <2>2, <2>3 DEF Hardware
<1>11. CASE ReadFaultRecord \/ CheckAssertion \/ EndTest
  BY <1>11 DEF ReadFaultRecord, CheckAssertion, EndTest, Hardware
<1>12. CASE FallOff \/ CallTest \/ Summary \/ UNCHANGED vars
  BY <1>12 DEF FallOff, CallTest, Summary, vars, Hardware
<1> QED
  BY <1>1, <1>2, <1>3, <1>4, <1>5, <1>6, <1>7, <1>8, <1>9, <1>10, <1>11, <1>12
     DEF Next, IOMMU, Hart

LEMMA TalliesStep ==
  ASSUME Tallies, [Next]_vars
  PROVE  Tallies'
<1> USE DEF results
<1>1. CASE CheckAssertion
  BY <1>1 DEF CheckAssertion, Tallies
<1>2. CASE EndTest \/ CallTest
  BY <1>2 DEF EndTest, CallTest, Tallies
<1>3. CASE UNCHANGED results
  BY <1>3 DEF Tallies
<1>4. IOMMU => UNCHANGED results
  BY DEF IOMMU, Execute, Reject, Signal, CyclesOverflow
<1>5. SetDdtp \/ SetContext \/ SetIgs \/ WriteCommand \/ WriteMemory \/ SwitchTables
        \/ ArmCounter \/ LeavePoll \/ ReadCqh \/ ReadCsr \/ WriteCsr \/ ClearIpsrFip \/ Unmask
      => UNCHANGED results
  BY DEF SetDdtp, SetContext, SetIgs, WriteCommand, WriteMemory, SwitchTables, ArmCounter,
     LeavePoll, ReadCqh, ReadCsr, WriteCsr, ClearIpsrFip, Unmask
<1>6. DmaTransfer \/ DebugTranslate \/ ReadFaultRecord \/ FallOff \/ Summary
      => UNCHANGED results
  BY DEF DmaTransfer, DebugTranslate, ReadFaultRecord, FallOff, Summary
<1>7. UNCHANGED vars => UNCHANGED results
  BY DEF vars
<1> QED BY <1>1, <1>2, <1>3, <1>4, <1>5, <1>6, <1>7 DEF Next, Hart

(* Registers, contexts and counters hold values of their types whatever    *)
(* tests run: in particular no test writes a mode that its field does not  *)
(* have, and every held-back message belongs to a masked vector.           *)
THEOREM SuiteTyped == Spec => []TypeOK
<1>1. TypeInv /\ [Next]_vars => TypeInv'
  BY LoopStep, HardwareStep, TalliesStep DEF TypeInv
<1>2. TypeInv => TypeOK
  BY DEF TypeInv, Loop, Table, Hardware, Tallies, ContextValues, Causes, TypeOK
<1> QED BY <1>1, <1>2, TypeInit, PTL DEF Spec

-----------------------------------------------------------------------------
(* Verdicts *)

\* TEST_ASSERT counts.
Counting == LogLevel >= LOG_DETAIL

\* Test n of the table has printed its verdict, or will not any more.
Over(n) == n < index \/ (n = index /\ status \in {"main", "done"})

\* Only tests that were called have failed, and test_status is about the one
\* that runs.
Blamed ==
  /\ \A f \in falsified : \E n \in 1 .. index : f[1] = suite[n]
  /\ test_status \in BOOLEAN
  /\ status = "running" => (test_status <=> \A f \in falsified : f[1] # test)

Printed ==
  /\ verdicts \in Seq([name : DOMAIN Program, passed : BOOLEAN])
  /\ \A i \in DOMAIN verdicts :
       /\ \E n \in 1 .. index : Over(n) /\ verdicts[i].name = suite[n]
       /\ verdicts[i].passed <=> \A f \in falsified : f[1] # verdicts[i].name

Counted ==
  /\ num_total_tests \in Nat /\ num_succ_tests \in 0 .. num_total_tests
  /\ num_succ_tests = num_total_tests <=> falsified = {}

VerdictInv == Table /\ Blamed /\ Printed /\ Counted

LEMMA VerdictInit ==
  ASSUME Counting, Init
  PROVE  VerdictInv
<1>1. Table
  BY SuiteAssumption DEF Init, Table
<1>2. Blamed /\ Printed /\ Counted
  BY DEF Init, Blamed, Printed, Counted
<1> QED BY <1>1, <1>2 DEF VerdictInv

\* Steps that neither check nor print nor call.
LEMMA QuietStep ==
  ASSUME VerdictInv, UNCHANGED <<suite, index, results>>,
         status' = status \/ (status = "running" /\ status' \in {"error", "main"})
                          \/ (status = "main" /\ status' = "done")
  PROVE  VerdictInv'
<1>0. UNCHANGED <<test_status, num_total_tests, num_succ_tests, verdicts, falsified>>
  BY DEF results
<1>1. Table'
  BY DEF VerdictInv, Table
<1>2. Blamed'
  BY <1>0 DEF VerdictInv, Blamed, test
<1>3. \A n \in 1 .. index : Over(n) => n < index' \/ (n = index' /\ status' \in {"main", "done"})
  BY DEF Over
<1>4. Printed'
  BY <1>0, <1>3 DEF VerdictInv, Printed, Over
<1>5. Counted'
  BY <1>0 DEF VerdictInv, Counted
<1> QED BY <1>0, <1>1, <1>2, <1>4, <1>5 DEF VerdictInv

\* The test that runs has not printed yet, nor will its verdict change.
LEMMA NotPrinted ==
  ASSUME VerdictInv, status = "running", NEW i \in DOMAIN verdicts
  PROVE  verdicts[i].name # test
BY DEF VerdictInv, Table, Printed, Over, test

LEMMA CheckStep ==
  ASSUME Counting, VerdictInv, CheckAssertion
  PROVE  VerdictInv'
<1> DEFINE holds == Holds(Step.holds)
<1>1. /\ status = "running" /\ UNCHANGED <<suite, index, status, verdicts>>
      /\ test_status' = (test_status /\ holds)
      /\ num_total_tests' = num_total_tests + 1
      /\ num_succ_tests' = num_succ_tests + (IF holds THEN 1 ELSE 0)
      /\ falsified' = IF holds THEN falsified ELSE falsified \cup {<<test, pc>>}
  BY DEF CheckAssertion, Doing, main, Counting
<1> HIDE DEF holds
<1>2. index > 0 /\ index \in 1 .. index /\ test = suite[index] /\ test' = test
  BY <1>1 DEF VerdictInv, Table, test
<1>3. \A f \in falsified' : f \in falsified \/ (~holds /\ f[1] = test)
  BY <1>1
<1>4. ~holds => \E f \in falsified' : f[1] = test
  <2>1. ~holds => <<test, pc>> \in falsified' /\ <<test, pc>>[1] = test
    BY <1>1
  <2> QED BY <2>1
<1>5. falsified \subseteq falsified'
  BY <1>1
<1>6. Table'
  BY <1>1 DEF VerdictInv, Table
<1>7. Blamed'
  <2>1. \A f \in falsified' : \E n \in 1 .. index : f[1] = suite[n]
    BY <1>2, <1>3 DEF VerdictInv, Blamed
  <2>2. test_status' <=> \A f \in falsified' : f[1] # test
    <3>1. CASE holds
      BY <1>1, <3>1 DEF VerdictInv, Blamed
    <3>2. CASE ~holds
      BY <1>1, <1>4, <3>2 DEF VerdictInv, Blamed
    <3> QED BY <3>1, <3>2
  <2>3. test_status' \in BOOLEAN
    BY <1>1
  <2> QED BY <1>1, <1>2, <2>1, <2>2, <2>3 DEF Blamed
<1>8. Printed'
  <2>1. ASSUME NEW i \in DOMAIN verdicts
        PROVE  (\A f \in falsified' : f[1] # verdicts[i].name)
                 <=> (\A f \in falsified : f[1] # verdicts[i].name)
    BY <1>1, <1>3, <1>5, NotPrinted
  <2> QED BY <1>1, <2>1 DEF VerdictInv, Printed, Over
<1>9. Counted'
  <2>1. CASE holds
    BY <1>1, <2>1 DEF VerdictInv, Counted
  <2>2. CASE ~holds
    BY <1>1, <1>4, <2>2 DEF VerdictInv, Counted
  <2> QED BY <2>1, <2>2
<1> QED BY <1>6, <1>7, <1>8, <1>9 DEF VerdictInv

LEMMA EndStep ==
  ASSUME Counting, VerdictInv, EndTest
  PROVE  VerdictInv'
<1>1. /\ status = "running" /\ status' = "main"
      /\ UNCHANGED <<suite, index, test_status, num_total_tests, num_succ_tests, falsified>>
      /\ verdicts' \in {verdicts, Append(verdicts, [name |-> test, passed |-> test_status])}
  BY DEF EndTest, Doing
<1>2. index > 0 /\ index \in 1 .. index /\ test = suite[index] /\ test \in DOMAIN Program
  BY <1>1 DEF VerdictInv, Table, test
<1>3. Table'
  BY <1>1 DEF VerdictInv, Table
<1>4. Blamed'
  BY <1>1 DEF VerdictInv, Blamed
<1>5. \A n \in 1 .. index : Over(n) => n < index' \/ (n = index' /\ status' \in {"main", "done"})
  BY <1>1 DEF Over
<1>6. Printed'
  <2>1. CASE verdicts' = verdicts
    BY <1>1, <1>5, <2>1 DEF VerdictInv, Printed, Over
  <2>2. CASE verdicts' = Append(verdicts, [name |-> test, passed |-> test_status])
    <3>1. /\ verdicts \in Seq([name : DOMAIN Program, passed : BOOLEAN])
          /\ [name |-> test, passed |-> test_status] \in [name : DOMAIN Program, passed : BOOLEAN]
      BY <1>2 DEF VerdictInv, Printed, Blamed
    <3>2. /\ verdicts' \in Seq([name : DOMAIN Program, passed : BOOLEAN])
          /\ DOMAIN verdicts' = DOMAIN verdicts \cup {Len(verdicts) + 1}
          /\ \A i \in DOMAIN verdicts : verdicts'[i] = verdicts[i]
          /\ verdicts'[Len(verdicts) + 1] = [name |-> test, passed |-> test_status]
      BY <2>2, <3>1
    <3>3. test_status <=> \A f \in falsified : f[1] # test
      BY <1>1 DEF VerdictInv, Blamed
    <3>4. ASSUME NEW i \in DOMAIN verdicts'
          PROVE  /\ \E n \in 1 .. index : Over(n)' /\ verdicts'[i].name = suite[n]
                 /\ verdicts'[i].passed <=> \A f \in falsified : f[1] # verdicts'[i].name
      <4>1. CASE i \in DOMAIN verdicts
        BY <1>1, <1>5, <3>2, <4>1 DEF VerdictInv, Printed, Over
      <4>2. CASE i = Len(verdicts) + 1
        BY <1>1, <1>2, <3>2, <3>3, <4>2 DEF Over
      <4> QED BY <3>2, <4>1, <4>2
    <3> QED BY <1>1, <3>2, <3>4 DEF Printed
  <2> QED BY <1>1, <2>1, <2>2
<1>7. Counted'
  BY <1>1 DEF VerdictInv, Counted
<1> QED BY <1>3, <1>4, <1>6, <1>7 DEF VerdictInv

\* A test that is called has not failed yet: it is called once.
LEMMA CallStep ==
  ASSUME Counting, VerdictInv, CallTest
  PROVE  VerdictInv'
<1>1. /\ status = "main" /\ status' = "running" /\ index < Len(suite) /\ index' = index + 1
      /\ test_status' = TRUE
      /\ UNCHANGED <<suite, num_total_tests, num_succ_tests, verdicts, falsified>>
  BY DEF CallTest
<1>2. suite \in Seq(DOMAIN Program) /\ index \in 0 .. Len(suite)
  BY DEF VerdictInv, Table
<1>3. Len(suite) \in Nat /\ DOMAIN suite = 1 .. Len(suite)
  BY <1>2
<1>4. index' \in DOMAIN suite /\ index' \in 0 .. Len(suite) /\ index' > 0
      /\ \A n \in 1 .. index : n \in DOMAIN suite /\ n # index' /\ n < index' /\ n \in 1 .. index'
  BY <1>1, <1>2, <1>3
<1>5. \A n \in 1 .. index : suite[n] # suite[index']
  BY <1>4 DEF VerdictInv, Table
<1>6. Table'
  BY <1>1, <1>2, <1>4 DEF VerdictInv, Table
<1>7. Blamed'
  <2>1. test' = suite[index']
    BY <1>1 DEF test
  <2>2. \A f \in falsified : f[1] # test'
    BY <1>5, <2>1 DEF VerdictInv, Blamed
  <2> QED BY <1>1, <1>4, <2>2 DEF VerdictInv, Blamed
<1>8. Printed'
  BY <1>1, <1>4 DEF VerdictInv, Printed, Over
<1>9. Counted'
  BY <1>1 DEF VerdictInv, Counted
<1> QED BY <1>6, <1>7, <1>8, <1>9 DEF VerdictInv

LEMMA VerdictStep ==
  ASSUME Counting, VerdictInv, [Next]_vars
  PROVE  VerdictInv'
<1>1. CASE IOMMU
  BY <1>1, QuietStep DEF IOMMU, Execute, Reject, Signal, CyclesOverflow, main
<1>2. CASE SetDdtp \/ SetContext \/ SetIgs \/ WriteCommand \/ WriteMemory \/ SwitchTables
  BY <1>2, QuietStep DEF SetDdtp, SetContext, SetIgs, WriteCommand, WriteMemory, SwitchTables, main
<1>3. CASE ArmCounter \/ LeavePoll \/ ReadCqh \/ ReadCsr \/ WriteCsr \/ ClearIpsrFip \/ Unmask
  BY <1>3, QuietStep DEF ArmCounter, LeavePoll, ReadCqh, ReadCsr, WriteCsr, ClearIpsrFip, Unmask, main
<1>4. CASE DmaTransfer \/ DebugTranslate
  BY <1>4, QuietStep DEF DmaTransfer, DebugTranslate, main
<1>5. CASE ReadFaultRecord \/ FallOff \/ Summary
  BY <1>5, QuietStep DEF ReadFaultRecord, FallOff, Summary, Doing
<1>6. CASE CheckAssertion
  BY <1>6, CheckStep
<1>7. CASE EndTest
  BY <1>7, EndStep
<1>8. CASE CallTest
  BY <1>8, CallStep
<1>9. CASE UNCHANGED vars
  BY <1>9, QuietStep DEF vars, main
<1> QED BY <1>1, <1>2, <1>3, <1>4, <1>5, <1>6, <1>7, <1>8, <1>9 DEF Next, Hart

(* However the assertions turn out, the verdict of each test and the       *)
(* summary are about all of them, if TEST_ASSERT counts.                   *)
THEOREM VerdictsAreTruthful ==
  ASSUME Counting
  PROVE  Spec => []VerdictsTruthful
<1>1. Init => VerdictInv
  BY VerdictInit
<1>2. VerdictInv /\ [Next]_vars => VerdictInv'
  BY VerdictStep
<1>3. VerdictInv => VerdictsTruthful
  BY DEF VerdictInv, Printed, Counted, VerdictsTruthful
<1> QED BY <1>1, <1>2, <1>3, PTL DEF Spec

-----------------------------------------------------------------------------
(* Translation of the pages that the tests use *)

\* Addresses that no context with a table faults on, MSI pages that are not
\* misconfigured among them; Stage2Allows is about the second stage alone.
Stage2Allows(a, access) ==
  \/ a[1] = "p"
  \/ a[1] = "v" /\ a[2] \in Superpages
  \/ a[1] = "v" /\ a[2] # "MSI_W5" /\ Right(access) \in Stage2Perm(a[2])

Allows(a, access) ==
  /\ Stage2Allows(a, access)
  /\ a[1] = "v" /\ a[2] \notin Superpages => Right(access) \in Stage1Perm(a[2])

\* The pages of the tests, and how they are used.
LEMMA NumberDomain == DOMAIN Number = {"MSI_W1", "MSI_W2", "MSI_W3", "MSI_W4", "MSI_W5"}
BY DEF Number

LEMMA AllowedPages ==
  /\ \A t \in {"IOTINVAL_R1", "IOTINVAL_R2", "TWO_STAGE_R4K", "TWO_STAGE_R2M", "TWO_STAGE_R1G",
            "MSI_R2", "MSI_R3", "MSI_R4", "MSI_R5", "HPM_R"} :
       Allows(v(t), "read")
  /\ \A t \in {"SWITCH1", "SWITCH2", "TWO_STAGE_W4K", "TEST_2MIB", "TEST_1GIB",
            "MSI_W1", "MSI_W2", "MSI_W3", "MSI_W4", "HPM_W"} :
       Allows(v(t), "write")
  /\ \A t : Allows(p(t), "read") /\ Allows(p(t), "write")
  /\ \A t \in {"TWO_STAGE_W4K", "TEST_2MIB", "TEST_1GIB"} : v(t)[2] \notin DOMAIN Number
  /\ \A t \in {"S2_ONLY_R", "MSI_R1"} : Stage2Allows(v(t), "read")
  /\ \A t \in {"S2_ONLY_W", "MSI_W1"} : Stage2Allows(v(t), "write")
BY NumberDomain, SMT DEF Allows, Stage2Allows, Stage1Perm, Stage2Perm, Superpages, Right, v, p

\* The interrupt files of the pages that are written: only MSI_W5's entry is
\* misconfigured.
LEMMA Files ==
  /\ InterruptFile("MSI_W1") = 17 /\ InterruptFile("MSI_W2") = 19
  /\ InterruptFile("MSI_W3") = 20 /\ InterruptFile("MSI_W4") = 21
<1>1. 2^1 = 2 /\ 2^2 = 4 /\ 2^7 = 128 /\ 2^9 = 512 /\ 2^20 = 1048576
  BY SMT
<1>2. \A n \in Nat : /\ Bit(n, 1) = (n \div 2) % 2 /\ Bit(n, 2) = (n \div 4) % 2
                     /\ Bit(n, 7) = (n \div 128) % 2 /\ Bit(n, 9) = (n \div 512) % 2
                     /\ Bit(n, 20) = (n \div 1048576) % 2
  BY <1>1, SMT DEF Bit
<1>3. /\ Vpn("MSI_W1") = 1048834 /\ Vpn("MSI_W2") = 1048838
      /\ Vpn("MSI_W3") = 1048960 /\ Vpn("MSI_W4") = 1048962
  BY <1>1, SMT DEF Vpn, Number
<1> QED BY <1>2, <1>3, SMT DEF InterruptFile

LEMMA FileEntries ==
  \A t \in DOMAIN Number : t # "MSI_W5" => MsiEntry(InterruptFile(t)).mode # "custom"
BY NumberDomain, Files, SMT DEF MsiEntry

\* What the two stages make of an address that they grant.
LEMMA FirstStage ==
  ASSUME NEW a, NEW access, NEW sw, a[1] = "v",
         a[2] \in Superpages \/ Right(access) \in Stage1Perm(a[2])
  PROVE  /\ Stage1(a, access, sw).ok /\ Stage1(a, access, sw).to[1] = "v"
         /\ Stage1(a, access, sw).to[2] =
              IF a[2] \in Superpages THEN a[2] ELSE Switched(a[2], "s1" \in sw)
<1> DEFINE o == "s1" \in sw
           r == Stage1(a, access, sw)
<1>1. o \in BOOLEAN
  OBVIOUS
<1>2. r = CASE a[1] # "v" -> Reached(a)
            [] a[1] = "v" /\ a[2] \in Superpages -> Reached(a)
            [] a[1] = "v" /\ a[2] \notin Superpages ->
                 IF Right(access) \in Stage1Perm(a[2]) THEN Reached(<<"v", Switched(a[2], o)>>)
                 ELSE Fault(IF access = "read" THEN "LOAD_PAGE_FAULT" ELSE "STORE_PAGE_FAULT")
  BY Zenon DEF Stage1
<1> HIDE DEF o, r
<1>3. r.ok /\ r.to[1] = "v" /\ r.to[2] = IF a[2] \in Superpages THEN a[2] ELSE Switched(a[2], o)
  BY <1>1, <1>2, SMT DEF Reached
<1> QED BY <1>3, Zenon DEF o, r

LEMMA SecondStage ==
  ASSUME NEW a, NEW access, NEW sw, a[1] = "v", NEW r, r = Stage2(a, access, sw),
         a[2] \in Superpages \/ Right(access) \in Stage2Perm(a[2])
  PROVE  r.ok /\ r.to[1] = "p"
<1> DEFINE o == "s2" \in sw
<1>1. o \in BOOLEAN
  OBVIOUS
<1>2. r = CASE a[1] # "v" -> Reached(a)
            [] a[1] = "v" /\ a[2] \in Superpages -> Reached(<<"p", a[2]>>)
            [] a[1] = "v" /\ a[2] \notin Superpages ->
                 IF Right(access) \in Stage2Perm(a[2]) THEN Reached(<<"p", Switched(a[2], o)>>)
                 ELSE Fault(IF access = "read" THEN "LOAD_GUEST_PAGE_FAULT"
                                               ELSE "STORE_GUEST_PAGE_FAULT")
  BY Zenon DEF Stage2
<1> HIDE DEF o
<1> QED BY <1>1, <1>2, SMT DEF Reached

\* What switching the entries of SWITCH1 and SWITCH2 leaves of permissions.
LEMMA SwitchedPerm ==
  ASSUME NEW t, NEW access \in {"read", "write"}, NEW o \in BOOLEAN, t \notin Superpages,
         Right(access) \in Stage2Perm(t)
  PROVE  /\ Switched(t, o) \notin Superpages
         /\ Right(access) \in Stage2Perm(Switched(t, o))
         /\ t # "MSI_W5" => Switched(t, o) # "MSI_W5"
         /\ t \notin DOMAIN Number => Switched(t, o) \notin DOMAIN Number
BY NumberDomain, SMT DEF Switched, Superpages, Stage2Perm, Right
\* An address that is allowed is translated, in every context and whatever
\* has been switched; to no misconfigured MSI page, and to none at all
\* unless it has a number of its own.
LEMMA WalkAllowed ==
  ASSUME NEW c \in ContextValues, NEW a, NEW access \in {"read", "write"}, NEW sw,
         Stage2Allows(a, access), c.s1 = "bare" \/ Allows(a, access)
  PROVE  LET r == Walk(a, access, c, sw)
         IN /\ r.ok
            /\ r.to[1] = "msi" => MsiEntry(r.to[2]).mode # "custom"
            /\ r.to[1] = "msi" => a[2] \in DOMAIN Number
<1> DEFINE first == IF c.s1 = "sv39" THEN Stage1(a, access, sw) ELSE Reached(a)
           isMsi == first.ok /\ c.msi = "flat" /\ IsMsi(first.to)
           r == Walk(a, access, c, sw)
<1>1. r = CASE isMsi -> Reached(<<"msi", InterruptFile(first.to[2])>>)
            [] ~isMsi /\ first.ok /\ c.s2 = "sv39x4" -> Stage2(first.to, access, sw)
            [] OTHER -> first
  BY Zenon DEF Walk
<1>2. CASE a[1] = "p"
  <2>1. Stage1(a, access, sw) = Reached(a) /\ Stage2(a, access, sw) = Reached(a)
    <3>1. Stage1(a, access, sw) = Reached(a)
      BY <1>2, SMT DEF Stage1
    <3>2. Stage2(a, access, sw) = Reached(a)
      BY <1>2, SMT DEF Stage2
    <3> QED BY <3>1, <3>2
  <2>2. first = Reached(a)
    BY <2>1
  <2> HIDE DEF first
  <2>3. first.ok /\ first.to = a /\ ~isMsi
    BY <1>2, <2>2 DEF Reached, IsMsi
  <2> HIDE DEF isMsi, r
  <2>4. r = Reached(a)
    BY <1>1, <2>1, <2>2, <2>3
  <2> QED BY <1>2, <2>4, SMT DEF Reached, r
<1>3. CASE a[1] = "v"
  <2>1. a[2] \in Superpages \/ (a[2] # "MSI_W5" /\ Right(access) \in Stage2Perm(a[2]))
    BY <1>3 DEF Stage2Allows
  <2>2. c.s1 = "sv39" => a[2] \in Superpages \/ Right(access) \in Stage1Perm(a[2])
    BY <1>3 DEF Allows
  <2>3. PICK o \in BOOLEAN : first.ok /\ first.to[1] = "v"
          /\ first.to[2] = IF a[2] \in Superpages THEN a[2] ELSE Switched(a[2], o)
    <3>1. CASE c.s1 = "sv39"
      <4> DEFINE o == "s1" \in sw
      <4>1. first = Stage1(a, access, sw)
        BY <3>1
      <4> HIDE DEF first
      <4>0. a[2] \in Superpages \/ Right(access) \in Stage1Perm(a[2])
        BY <2>2, <3>1
      <4> HIDE DEF isMsi, r
      <4> HIDE DEF o
      <4>5. /\ Stage1(a, access, sw).ok /\ Stage1(a, access, sw).to[1] = "v"
            /\ Stage1(a, access, sw).to[2] =
                 IF a[2] \in Superpages THEN a[2] ELSE Switched(a[2], "s1" \in sw)
        BY <1>3, <4>0, FirstStage, Zenon
      <4>2. /\ first.ok /\ first.to[1] = "v"
            /\ first.to[2] = IF a[2] \in Superpages THEN a[2] ELSE Switched(a[2], o)
        BY <4>1, <4>5, Zenon DEF o
      <4>3. o \in BOOLEAN
        BY DEF o
      <4> QED BY <4>2, <4>3
    <3>2. CASE c.s1 # "sv39"
      <4>1. first = Reached(a)
        BY <3>2
      <4> HIDE DEF first
      <4>2. Switched(a[2], FALSE) = a[2]
        BY DEF Switched
      <4>3. first.ok /\ first.to = a
        BY <4>1 DEF Reached
      <4>4. first.to[2] = IF a[2] \in Superpages THEN a[2] ELSE Switched(a[2], FALSE)
        BY <4>2, <4>3
      <4>5. first.to[1] = "v"
        BY <1>3, <4>3
      <4> QED BY <4>3, <4>4, <4>5
    <3> QED BY <3>1, <3>2
  <2> DEFINE t == first.to[2]
  <2>4. /\ t \in Superpages \/ (t # "MSI_W5" /\ Right(access) \in Stage2Perm(t))
        /\ t \in DOMAIN Number => a[2] \in DOMAIN Number
    <3>1. CASE a[2] \in Superpages
      BY <2>3, <3>1
    <3>2. CASE a[2] \notin Superpages
      BY <2>1, <2>3, <3>2, SwitchedPerm
    <3> QED BY <3>1, <3>2
  <2> HIDE DEF first
  <2>5. t \in Superpages => t \notin DOMAIN Number
    BY NumberDomain, SMT DEF Superpages
  <2>6. isMsi => t \in DOMAIN Number
    BY DEF IsMsi
  <2> HIDE DEF isMsi, t
  <2>7. CASE isMsi
    <3>1. r = Reached(<<"msi", InterruptFile(t)>>)
      BY <1>1, <2>7 DEF t
    <3> HIDE DEF r
    <3>2. MsiEntry(InterruptFile(t)).mode # "custom"
      BY <2>4, <2>5, <2>6, <2>7, FileEntries DEF Superpages
    <3> QED BY <2>4, <2>6, <2>7, <3>1, <3>2, SMT DEF Reached, r
  <2>8. CASE ~isMsi /\ c.s2 = "sv39x4"
    <3>1. r = Stage2(first.to, access, sw)
      BY <1>1, <2>3, <2>8
    <3> HIDE DEF r
    <3>2. r.ok /\ r.to[1] = "p"
      BY <2>3, <2>4, <3>1, SecondStage, Zenon DEF t
    <3> QED BY <3>2 DEF r
  <2>9. CASE ~isMsi /\ c.s2 # "sv39x4"
    <3>1. r = first
      BY <1>1, <2>9
    <3> HIDE DEF r
    <3> QED BY <2>3, <3>1 DEF r
  <2> QED BY <2>7, <2>8, <2>9
<1> QED BY <1>2, <1>3 DEF Stage2Allows

\* No translation to an MSI page is cached.
PlainCache(tlb) == \A e \in tlb : e.to[1] # "msi"

LEMMA FilledPlain ==
  ASSUME NEW a, NEW access, NEW tlb, PlainCache(tlb)
  PROVE  PlainCache(Filled(a, access, tlb))
<1> DEFINE r == Translated(a, access, tlb)
           e == [iova |-> a, access |-> access, s1 |-> InUse.s1, s2 |-> InUse.s2, to |-> r.to]
<1>1. \/ Filled(a, access, tlb) = tlb
      \/ Filled(a, access, tlb) = tlb \cup {e} /\ r.to[1] # "msi"
  BY Zenon DEF Filled
<1>2. e.to = r.to
  OBVIOUS
<1> HIDE DEF e, r
<1> QED BY <1>1, <1>2 DEF PlainCache

\* Once translation is on, what is allowed does not fault.
LEMMA TranslatedAllowed ==
  ASSUME Hardware, ddtp # "off", NEW tlb, PlainCache(tlb), NEW a, NEW access \in {"read", "write"},
         Stage2Allows(a, access), InUse.s1 = "bare" \/ Allows(a, access)
  PROVE  LET r == Translated(a, access, tlb)
         IN r.ok /\ MsiChecked(r).ok /\ (r.to[1] = "msi" => a[2] \in DOMAIN Number)
<1> DEFINE r == Translated(a, access, tlb)
           hits == Hits(a, access, tlb)
           hit == CHOOSE e \in hits : TRUE
<1>1. InUse \in ContextValues
  BY DEF Hardware, InUse
<1>2. r.ok /\ (r.to[1] = "msi" => MsiEntry(r.to[2]).mode # "custom" /\ a[2] \in DOMAIN Number)
  <2>1. CASE ddtp = "bare"
    <3>1. r = Reached(a)
      BY <2>1, Zenon DEF Translated
    <3> HIDE DEF r
    <3>2. a[1] # "msi"
      BY DEF Stage2Allows
    <3> QED BY <3>1, <3>2 DEF Reached, r
  <2>2. CASE ddtp = "1lvl" /\ hits # {}
    <3>1. r = Reached(hit.to)
      BY <2>2, Zenon DEF Translated
    <3>2. hit \in tlb
      BY <2>2 DEF Hits
    <3> HIDE DEF r, hit
    <3>3. hit.to[1] # "msi"
      BY <3>2 DEF PlainCache
    <3> QED BY <3>1, <3>3 DEF Reached, r
  <2>3. CASE ddtp = "1lvl" /\ hits = {}
    <3>1. r = Walk(a, access, InUse, swapped)
      BY <2>3, Zenon DEF Translated
    <3> HIDE DEF r
    <3> QED BY <1>1, <3>1, WalkAllowed, Zenon DEF r
  <2> QED BY <2>1, <2>2, <2>3 DEF Hardware
<1> HIDE DEF r
<1>3. MsiChecked(r) = r
  BY <1>2, Zenon DEF MsiChecked
<1> QED BY <1>2, <1>3, Zenon DEF r

-----------------------------------------------------------------------------
(* Fault records *)

\* Records that test t has caused and not yet read when it stands at step i.
Due(t, i) ==
  CASE t = "iommu_off" /\ i = 3 -> 2
    [] t = "iommu_off" /\ i \in 4 .. 6 -> 1
    [] t = "wsi_generation" /\ i \in 9 .. 12 -> 2
    [] t = "wsi_generation" /\ i \in 13 .. 15 -> 1
    [] t = "msi_generation" /\ i \in 7 .. 16 -> 2
    [] t = "msi_generation" /\ i = 17 -> 1
    [] t = "mrif_support" /\ i = 19 -> 1
    [] t = "dbg_interface" /\ i \in 14 .. 15 -> 1
    [] OTHER -> 0

\* How a step at i changes what is due, and what a test sets up before it.
Budget(t, i, s) ==
  /\ i = 1 <=> s.op = "ddtp"
  /\ s.op = "ddtp" => (s.mode = "off" <=> t = "iommu_off")
  /\ s.op = "record" => Due(t, i) <= Due(t, i + 1) + 1
  /\ s.op # "record" => Due(t, i) <= Due(t, i + 1)
  /\ s.op = "end" => Due(t, i) = 0
  /\ s.op = "translate" =>
       \/ Due(t, i) + 1 <= Due(t, i + 1)
       \/ t # "iommu_off" /\ Allows(s.iova, "write") /\ s.iova[2] \notin DOMAIN Number
  /\ s.op = "transfer" =>
       \/ Due(t, i) + 2 <= Due(t, i + 1)
       \/ /\ t # "iommu_off"
          /\ \/ Allows(s.src, "read") /\ (Due(t, i) + 1 <= Due(t, i + 1) \/ Allows(s.dst, "write"))
             \/ /\ t = "second_stage_only" /\ i > 6
                /\ Stage2Allows(s.src, "read") /\ Stage2Allows(s.dst, "write")
  /\ t = "second_stage_only" =>
       /\ i = 2 => s.op = "context" /\ s.field = "s1" /\ s.mode = "bare"
       /\ s.op = "context" /\ i # 2 => s.field # "s1" /\ i < 5
       /\ i = 5 <=> s.op = "command"
       /\ i = 5 => s.command = "ddt_inval"

LEMMA DueNat == \A t, i : Due(t, i) \in 0 .. 2
BY DEF Due

LEMMA Budgeted ==
  ASSUME NEW t \in DOMAIN Program, NEW i \in 1 .. Len(Program[t])
  PROVE  Budget(t, i, Program[t][i])
<1> USE AllowedPages DEF Budget, Due, Ddtp, Context, Igs, Command, Store, Transfer, Switch, Arm,
       Translate, ReadRecord, GetCqh, GetCqcsr, SetCqcsr, ClearIpsr, UnmaskCQ, PollCycles, Expect,
       TestEnd
<1>1. CASE t = "iommu_off"
  BY <1>1, ProgramIs, IommuOffSteps, SMT
<1>2. CASE t = "iommu_bare"
  BY <1>2, ProgramIs, IommuBareSteps, SMT
<1>3. CASE t = "both_stages_bare"
  BY <1>3, ProgramIs, BothStagesBareSteps, SMT
<1>4. CASE t = "second_stage_only"
  BY <1>4, ProgramIs, SecondStageOnlySteps, SMT
<1>5. CASE t = "two_stage_translation"
  BY <1>5, ProgramIs, TwoStageTranslationSteps, SMT
<1>6. CASE t = "iotinval"
  BY <1>6, ProgramIs, IotinvalSteps, SMT
<1>7. CASE t = "wsi_generation"
  BY <1>7, ProgramIs, WsiGenerationSteps, SMT
<1>8. CASE t = "iofence"
  BY <1>8, ProgramIs, IofenceSteps, SMT
<1>9. CASE t = "msi_generation"
  BY <1>9, ProgramIs, MsiGenerationSteps, SMT
<1>10. CASE t = "hpm"
  BY <1>10, ProgramIs, HpmSteps, SMT
<1>11. CASE t = "mrif_support"
  BY <1>11, ProgramIs, MrifSupportSteps, SMT
<1>12. CASE t = "dbg_interface"
  BY <1>12, ProgramIs, DbgInterfaceSteps, SMT
<1> QED BY <1>1, <1>2, <1>3, <1>4, <1>5, <1>6, <1>7, <1>8, <1>9, <1>10, <1>11, <1>12, ProgramIs

\* A sequence of records of the faults of one test.
AllBy(q, t) == (\E S : q \in Seq(S)) /\ \A i \in DOMAIN q : q[i].by = t

\* What FaultRecord appends, and what appending does.
LEMMA FaultsBy ==
  ASSUME NEW r, NEW a
  PROVE  /\ AllBy(FaultRecord(r, a), test) /\ Len(FaultRecord(r, a)) \in 0 .. 1
         /\ r.ok => Len(FaultRecord(r, a)) = 0
<1> DEFINE x == [cause |-> r.cause, iova |-> a, by |-> test]
<1>1. x.by = test
  OBVIOUS
<1>2. FaultRecord(r, a) = IF ~r.ok THEN <<x>> ELSE << >>
  BY DEF FaultRecord
<1> HIDE DEF x
<1>3. CASE r.ok
  BY <1>2, <1>3 DEF AllBy
<1>4. CASE ~r.ok
  <2>1. <<x>> \in Seq({x}) /\ Len(<<x>>) = 1 /\ DOMAIN <<x>> = {1} /\ <<x>>[1] = x
    OBVIOUS
  <2>2. AllBy(<<x>>, test)
    BY <1>1, <2>1 DEF AllBy
  <2>3. FaultRecord(r, a) = <<x>>
    BY <1>2, <1>4
  <2> QED BY <1>4, <2>1, <2>2, <2>3
<1> QED BY <1>3, <1>4

LEMMA JoinBy ==
  ASSUME NEW q1, NEW q2, NEW t, AllBy(q1, t), AllBy(q2, t)
  PROVE  /\ AllBy(q1 \o q2, t) /\ Len(q1 \o q2) = Len(q1) + Len(q2)
         /\ Len(q1) \in Nat /\ Len(q2) \in Nat
<1>1. PICK S1 : q1 \in Seq(S1)
  BY DEF AllBy
<1>2. PICK S2 : q2 \in Seq(S2)
  BY DEF AllBy
<1> DEFINE S == S1 \cup S2
<1>3. q1 \in Seq(S) /\ q2 \in Seq(S)
  BY <1>1, <1>2
<1> HIDE DEF S
<1>4. q1 \o q2 \in Seq(S) /\ Len(q1 \o q2) = Len(q1) + Len(q2) /\ Len(q1) \in Nat /\ Len(q2) \in Nat
  BY <1>3
<1>5. ASSUME NEW i \in DOMAIN (q1 \o q2)
      PROVE  (q1 \o q2)[i].by = t
  BY <1>3, <1>4 DEF AllBy
<1> QED BY <1>4, <1>5 DEF AllBy

\* The records in the queue are those that the running test has caused and
\* will read before it ends.
Taken ==
  IF status \in {"running", "error"}
  THEN AllBy(fq, test) /\ Len(fq) <= Due(test, pc)
  ELSE fq = << >>

\* Every test but iommu_off has turned translation on before its transfers.
Translating == status = "running" /\ pc > 1 /\ test # "iommu_off" => ddtp # "off"

\* second_stage_only: its transfers are translated by the context it has set
\* up, no cached one.
Fresh ==
  status = "running" /\ test = "second_stage_only" =>
    /\ pc >= 3 => dc.s1 = "bare"
    /\ pc >= 6 => \/ cq = << >> /\ ddtc \in {NoContext, dc}
                  \/ cq = <<"ddt_inval">>

\* All of it as long as no test has overtaken the command queue.
Own == overtook = {} => Taken /\ Translating /\ Fresh

RecordInv == TypeInv /\ PlainCache(iotlb) /\ Own

LEMMA RecordInit == Init => RecordInv
BY TypeInit DEF Init, RecordInv, PlainCache, Own, Taken, Translating, Fresh

\* Where a test stands that has not overtaken the queue.
LEMMA Caught ==
  ASSUME RecordInv, NEW op, Doing(op), overtook' = {}
  PROVE  /\ overtook = {} /\ cq = << >> /\ AllBy(fq, test) /\ Len(fq) \in Nat
         /\ Len(fq) <= Due(test, pc) /\ Translating /\ Fresh /\ Budget(test, pc, Step)
<1>1. ~Behind /\ overtook = {}
  BY DEF Doing
<1>2. cq = << >>
  BY <1>1 DEF Behind
<1>3. status = "running" /\ Budget(test, pc, Step)
  BY StepOf, Budgeted DEF RecordInv, TypeInv
<1>4. AllBy(fq, test) /\ Len(fq) <= Due(test, pc) /\ Translating /\ Fresh
  BY <1>1, <1>3 DEF RecordInv, Own, Taken
<1>5. Len(fq) \in Nat
  BY <1>4 DEF AllBy
<1> QED BY <1>1, <1>2, <1>3, <1>4, <1>5

\* Steps that leave the fault queue and what it depends on alone.
LEMMA QuietOwn ==
  ASSUME RecordInv, NEW op, Doing(op), op \notin {"record", "ddtp", "context", "command"},
         UNCHANGED <<suite, index, status, ddtp, dc, ddtc, cq, fq>>
  PROVE  Own'
<1> SUFFICES ASSUME overtook' = {} PROVE Taken' /\ Translating' /\ Fresh'
  BY DEF Own
<1>1. /\ AllBy(fq, test) /\ Len(fq) \in Nat
      /\ Len(fq) <= Due(test, pc) /\ Translating /\ Fresh /\ Budget(test, pc, Step)
  BY Caught
<1>2. /\ pc' = pc + 1 /\ pc \in Nat \ {0} /\ status = "running" /\ test' = test
      /\ Step.op = op
  BY StepOf DEF RecordInv, TypeInv, Loop, Table, test
<1>3. Due(test, pc) <= Due(test, pc + 1)
  BY <1>1, <1>2 DEF Budget
<1>4. Taken'
  BY <1>1, <1>2, <1>3, DueNat DEF Taken
<1>5. pc # 1 /\ (test = "second_stage_only" => pc # 2 /\ pc # 5)
  BY <1>1, <1>2 DEF Budget
<1>6. Translating'
  BY <1>1, <1>2, <1>5 DEF Translating
<1>7. Fresh'
  BY <1>1, <1>2, <1>5 DEF Fresh
<1> QED BY <1>4, <1>6, <1>7

\* Steps that may fault: they add no more records than the test will read.
LEMMA FaultOwn ==
  ASSUME RecordInv, NEW op \in {"transfer", "translate"}, Doing(op), NEW faults, fq' = fq \o faults,
         AllBy(faults, test), overtook' = {} => Due(test, pc) + Len(faults) <= Due(test, pc + 1),
         ddtc' \in {ddtc, InUse}, UNCHANGED <<suite, index, status, ddtp, dc, cq>>
  PROVE  Own'
<1> SUFFICES ASSUME overtook' = {} PROVE Taken' /\ Translating' /\ Fresh'
  BY DEF Own
<1>1. /\ AllBy(fq, test) /\ Len(fq) \in Nat
      /\ Len(fq) <= Due(test, pc) /\ Translating /\ Fresh /\ Budget(test, pc, Step)
  BY Caught
<1>2. /\ pc' = pc + 1 /\ pc \in Nat \ {0} /\ status = "running" /\ test' = test
      /\ Step.op = op
  BY StepOf DEF RecordInv, TypeInv, Loop, Table, test
<1>3. AllBy(fq', test) /\ Len(fq') = Len(fq) + Len(faults) /\ Len(faults) \in Nat
  BY <1>1, JoinBy
<1>4. Taken'
  BY <1>1, <1>2, <1>3, DueNat DEF Taken
<1>5. pc # 1 /\ (test = "second_stage_only" => pc # 2 /\ pc # 5)
  BY <1>1, <1>2 DEF Budget
<1>6. Translating'
  BY <1>1, <1>2, <1>5 DEF Translating
<1>7. ddtc \in {NoContext, dc} => ddtc' \in {NoContext, dc}
  BY DEF InUse
<1>8. Fresh'
  BY <1>1, <1>2, <1>5, <1>7 DEF Fresh
<1> QED BY <1>4, <1>6, <1>8

\* A transfer that faults is one whose records the test reads.
LEMMA DmaFaults ==
  ASSUME RecordInv, Doing("transfer"), overtook' = {}, NEW tlb, PlainCache(tlb)
  PROVE  LET r == Translated(Step.src, "read", iotlb)
             w == MsiChecked(Translated(Step.dst, "write", tlb))
         IN \/ Due(test, pc) + 2 <= Due(test, pc + 1)
            \/ Due(test, pc) + 1 <= Due(test, pc + 1) /\ r.ok
            \/ Due(test, pc) <= Due(test, pc + 1) /\ r.ok /\ w.ok
<1>1. cq = << >> /\ Translating /\ Fresh /\ Budget(test, pc, Step)
  BY Caught
<1>2. pc \in Nat \ {0} /\ status = "running" /\ Step.op = "transfer"
  BY StepOf DEF RecordInv, TypeInv, Loop, Table
<1>3. pc > 1 /\ Due(test, pc) <= Due(test, pc + 1)
  BY <1>1, <1>2 DEF Budget
<1>4. Hardware /\ PlainCache(iotlb)
  BY DEF RecordInv, TypeInv
<1>5. CASE Due(test, pc) + 2 <= Due(test, pc + 1)
  BY <1>5
<1>6. CASE test # "iommu_off" /\ Allows(Step.src, "read")
           /\ (Due(test, pc) + 1 <= Due(test, pc + 1) \/ Allows(Step.dst, "write"))
  <2>1. ddtp # "off"
    BY <1>1, <1>2, <1>3, <1>6 DEF Translating
  <2>2. /\ Stage2Allows(Step.src, "read")
        /\ Allows(Step.dst, "write") => Stage2Allows(Step.dst, "write")
    BY <1>6 DEF Allows
  <2>3. Translated(Step.src, "read", iotlb).ok
    BY <1>4, <1>6, <2>1, <2>2, TranslatedAllowed, Zenon
  <2>4. Allows(Step.dst, "write") => MsiChecked(Translated(Step.dst, "write", tlb)).ok
    BY <1>4, <2>1, <2>2, TranslatedAllowed, Zenon
  <2> QED BY <1>3, <1>6, <2>3, <2>4
<1>7. CASE test = "second_stage_only" /\ pc > 6
           /\ Stage2Allows(Step.src, "read") /\ Stage2Allows(Step.dst, "write")
  <2>1. ddtp # "off"
    BY <1>1, <1>2, <1>3, <1>7 DEF Translating
  <2>2. InUse.s1 = "bare"
    BY <1>1, <1>2, <1>7 DEF Fresh, InUse
  <2>3. Translated(Step.src, "read", iotlb).ok
    BY <1>4, <1>7, <2>1, <2>2, TranslatedAllowed, Zenon
  <2>4. MsiChecked(Translated(Step.dst, "write", tlb)).ok
    BY <1>4, <1>7, <2>1, <2>2, TranslatedAllowed, Zenon
  <2> QED BY <1>3, <2>3, <2>4
<1> QED BY <1>1, <1>2, <1>5, <1>6, <1>7 DEF Budget

LEMMA DmaOwn ==
  ASSUME RecordInv, DmaTransfer
  PROVE  Own'
<1> DEFINE tlb == Filled(Step.src, "read", iotlb)
           r == Translated(Step.src, "read", iotlb)
           w == MsiChecked(Translated(Step.dst, "write", tlb))
           f1 == FaultRecord(r, Step.src)
           f2 == FaultRecord(w, Step.dst)
<1>1. /\ Doing("transfer") /\ fq' = fq \o (f1 \o f2) /\ ddtc' \in {ddtc, InUse}
      /\ UNCHANGED <<suite, index, status, ddtp, dc, cq>>
  BY DEF DmaTransfer, main, queue
<1>2. PlainCache(tlb)
  BY FilledPlain DEF RecordInv
<1>3. overtook' = {} =>
         \/ Due(test, pc) + 2 <= Due(test, pc + 1)
         \/ Due(test, pc) + 1 <= Due(test, pc + 1) /\ r.ok
         \/ Due(test, pc) <= Due(test, pc + 1) /\ r.ok /\ w.ok
  BY <1>1, <1>2, DmaFaults
<1> HIDE DEF tlb, r, w
<1>4. /\ AllBy(f1, test) /\ Len(f1) \in 0 .. 1 /\ (r.ok => Len(f1) = 0)
      /\ AllBy(f2, test) /\ Len(f2) \in 0 .. 1 /\ (w.ok => Len(f2) = 0)
  BY FaultsBy
<1> HIDE DEF f1, f2
<1>5. AllBy(f1 \o f2, test) /\ Len(f1 \o f2) = Len(f1) + Len(f2)
  BY <1>4, JoinBy
<1>6. overtook' = {} => Due(test, pc) + Len(f1 \o f2) <= Due(test, pc + 1)
  <2> DEFINE m == Due(test, pc)
             n == Due(test, pc + 1)
             k1 == Len(f1)
             k2 == Len(f2)
  <2>1. m \in 0 .. 2 /\ n \in 0 .. 2 /\ k1 \in 0 .. 1 /\ k2 \in 0 .. 1
    BY <1>4, DueNat
  <2>2. overtook' = {} =>
          \/ m + 2 <= n \/ (m + 1 <= n /\ k1 = 0) \/ (m <= n /\ k1 = 0 /\ k2 = 0)
    BY <1>3, <1>4, Zenon
  <2> HIDE DEF m, n, k1, k2
  <2>3. overtook' = {} => m + (k1 + k2) <= n
    BY <2>1, <2>2
  <2> QED BY <1>5, <2>3 DEF m, n, k1, k2
<1> QED BY <1>1, <1>5, <1>6, FaultOwn

LEMMA TranslateOwn ==
  ASSUME RecordInv, DebugTranslate
  PROVE  Own'
<1> DEFINE t == Translated(Step.iova, "write", iotlb)
           r == IF t.ok /\ t.to[1] = "msi" THEN Fault("TRANS_TYPE_DISALLOWED") ELSE t
           f == FaultRecord(r, Step.iova)
<1>1. /\ Doing("translate") /\ fq' = fq \o f /\ ddtc' \in {ddtc, InUse}
      /\ UNCHANGED <<suite, index, status, ddtp, dc, cq>>
  BY DEF DebugTranslate, main, queue
<1>2. pc \in Nat \ {0} /\ status = "running" /\ Step.op = "translate"
  BY <1>1, StepOf DEF RecordInv, TypeInv, Loop, Table
<1>3. ASSUME overtook' = {}
      PROVE  Due(test, pc) + 1 <= Due(test, pc + 1) \/ (Due(test, pc) <= Due(test, pc + 1) /\ r.ok)
  <2>1. Translating /\ Budget(test, pc, Step)
    BY <1>1, <1>3, Caught
  <2>2. pc > 1 /\ Due(test, pc) <= Due(test, pc + 1)
    BY <1>2, <2>1 DEF Budget
  <2>3. CASE test # "iommu_off" /\ Allows(Step.iova, "write") /\ Step.iova[2] \notin DOMAIN Number
    <3>1. ddtp # "off"
      BY <1>2, <2>1, <2>2, <2>3 DEF Translating
    <3>2. Stage2Allows(Step.iova, "write") /\ Hardware /\ PlainCache(iotlb)
      BY <2>3 DEF Allows, RecordInv, TypeInv
    <3>3. t.ok /\ t.to[1] # "msi"
      BY <2>3, <3>1, <3>2, TranslatedAllowed, Zenon
    <3> HIDE DEF t
    <3> QED BY <2>2, <3>3
  <2> QED BY <1>2, <2>1, <2>3 DEF Budget
<1> HIDE DEF r
<1>4. AllBy(f, test) /\ Len(f) \in 0 .. 1 /\ (r.ok => Len(f) = 0)
  BY FaultsBy
<1> HIDE DEF f
<1>5. overtook' = {} => Due(test, pc) + Len(f) <= Due(test, pc + 1)
  <2> DEFINE m == Due(test, pc)
             n == Due(test, pc + 1)
             k == Len(f)
  <2>1. m \in 0 .. 2 /\ n \in 0 .. 2 /\ k \in 0 .. 1
    BY <1>4, DueNat
  <2>2. overtook' = {} => m + 1 <= n \/ (m <= n /\ k = 0)
    BY <1>3, <1>4, Zenon
  <2> HIDE DEF m, n, k
  <2>3. overtook' = {} => m + k <= n
    BY <2>1, <2>2
  <2> QED BY <2>3 DEF m, n, k
<1> QED BY <1>1, <1>4, <1>5, FaultOwn

\* Nothing is due where the text of a test ends.
LEMMA DueOver ==
  ASSUME NEW t \in DOMAIN Program, NEW i \in Nat, i > Len(Program[t])
  PROVE  Due(t, i) = 0
<1>1. /\ Len(Program["iommu_off"]) = 10 /\ Len(Program["wsi_generation"]) = 18
      /\ Len(Program["msi_generation"]) = 18 /\ Len(Program["mrif_support"]) = 29
      /\ Len(Program["dbg_interface"]) = 18
  BY ProgramIs, IommuOffSteps, WsiGenerationSteps, MsiGenerationSteps, MrifSupportSteps,
     DbgInterfaceSteps
<1>2. /\ t = "iommu_off" => i > 10
      /\ t \in {"wsi_generation", "msi_generation", "dbg_interface"} => i > 18
      /\ t = "mrif_support" => i > 29
  BY <1>1
<1> QED BY <1>2, SMT DEF Due

\* Reading a record takes one that is due.
LEMMA RecordOwn ==
  ASSUME RecordInv, ReadFaultRecord
  PROVE  Own'
<1> SUFFICES ASSUME overtook' = {} PROVE Taken' /\ Translating' /\ Fresh'
  BY DEF Own
<1>1. /\ Doing("record") /\ UNCHANGED <<suite, index, ddtp, dc, ddtc, cq>>
      /\ \/ fq = << >> /\ status' = "error" /\ fq' = fq
         \/ fq # << >> /\ fq' = Tail(fq) /\ status' = status
  BY DEF ReadFaultRecord, caches, queue
<1>2. /\ AllBy(fq, test) /\ Len(fq) \in Nat
      /\ Len(fq) <= Due(test, pc) /\ Translating /\ Fresh /\ Budget(test, pc, Step)
  BY <1>1, Caught
<1>3. /\ pc' = pc + 1 /\ pc \in Nat \ {0} /\ status = "running" /\ test' = test
      /\ Step.op = "record"
  BY <1>1, StepOf DEF RecordInv, TypeInv, Loop, Table, test
<1>4. CASE fq = << >>
  <2>1. status' = "error" /\ fq' = << >>
    BY <1>1, <1>4
  <2>2. AllBy(fq', test') /\ Len(fq') = 0
    BY <1>2, <1>3, <1>4, <2>1 DEF AllBy
  <2>3. 0 <= Due(test, pc)' /\ Due(test, pc)' = Due(test', pc')
    BY DueNat
  <2> QED BY <2>1, <2>2, <2>3 DEF Taken, Translating, Fresh
<1>5. CASE fq # << >>
  <2>1. status' = "running" /\ fq' = Tail(fq)
    BY <1>1, <1>3, <1>5
  <2>2. PICK S : fq \in Seq(S)
    BY <1>2 DEF AllBy
  <2>3. /\ Tail(fq) \in Seq(S) /\ Len(Tail(fq)) = Len(fq) - 1
        /\ \A i \in DOMAIN Tail(fq) : i + 1 \in DOMAIN fq /\ Tail(fq)[i] = fq[i + 1]
    BY <1>5, <2>2
  <2>4. AllBy(Tail(fq), test)
    BY <1>2, <2>3 DEF AllBy
  <2>5. Len(Tail(fq)) <= Due(test, pc + 1)
    <3> DEFINE m == Due(test, pc)
               n == Due(test, pc + 1)
    <3>1. m \in 0 .. 2 /\ n \in 0 .. 2 /\ m <= n + 1
      BY <1>2, <1>3, DueNat DEF Budget
    <3>2. Len(fq) <= m
      BY <1>2
    <3> HIDE DEF m, n
    <3>3. Len(fq) - 1 <= n
      BY <1>2, <3>1, <3>2
    <3> QED BY <2>3, <3>3 DEF n
  <2>6. Taken'
    BY <1>3, <2>1, <2>4, <2>5 DEF Taken
  <2>7. pc # 1 /\ (test = "second_stage_only" => pc # 2 /\ pc # 5)
    BY <1>2, <1>3 DEF Budget
  <2>8. Translating'
    BY <1>1, <1>2, <1>3, <2>1, <2>7 DEF Translating
  <2>9. Fresh'
    BY <1>1, <1>2, <1>3, <2>1, <2>7 DEF Fresh
  <2> QED BY <2>6, <2>8, <2>9
<1> QED BY <1>4, <1>5

\* The calls that set up the context, and the commands.
LEMMA SetupOwn ==
  ASSUME RecordInv, SetDdtp \/ SetContext \/ WriteCommand
  PROVE  Own'
<1> SUFFICES ASSUME overtook' = {} PROVE Taken' /\ Translating' /\ Fresh'
  BY DEF Own
<1>1. PICK op \in {"ddtp", "context", "command"} :
        /\ Doing(op) /\ UNCHANGED <<suite, index, status, ddtc, fq>>
        /\ ddtp' = IF op = "ddtp" THEN Step.mode ELSE ddtp
        /\ dc' = IF op = "context" THEN [dc EXCEPT ![Step.field] = Step.mode] ELSE dc
        /\ cq' = IF op = "command" THEN Append(cq, Step.command) ELSE cq
  <2>1. CASE SetDdtp
    BY <2>1 DEF SetDdtp, main, caches, queue
  <2>2. CASE SetContext
    BY <2>2 DEF SetContext, main, caches, queue
  <2>3. CASE WriteCommand
    BY <2>3 DEF WriteCommand, main, caches
  <2> QED BY <2>1, <2>2, <2>3
<1>2. /\ cq = << >> /\ AllBy(fq, test) /\ Len(fq) \in Nat
      /\ Len(fq) <= Due(test, pc) /\ Translating /\ Fresh /\ Budget(test, pc, Step)
  BY <1>1, Caught
<1>3. /\ pc' = pc + 1 /\ pc \in Nat \ {0} /\ status = "running" /\ test' = test
      /\ Step.op = op /\ TypedStep(Step)
  BY <1>1, StepOf DEF RecordInv, TypeInv, Loop, Table, test
<1>4. Taken'
  <2>1. Due(test, pc) <= Due(test, pc + 1)
    BY <1>2, <1>3 DEF Budget
  <2> QED BY <1>1, <1>2, <1>3, <2>1, DueNat DEF Taken
<1>5. Translating'
  <2>1. op = "ddtp" => (Step.mode = "off" <=> test = "iommu_off")
    BY <1>2, <1>3 DEF Budget
  <2>2. op # "ddtp" => pc > 1
    BY <1>2, <1>3 DEF Budget
  <2> QED BY <1>1, <1>2, <1>3, <2>1, <2>2 DEF Translating
<1>6. ASSUME test = "second_stage_only"
      PROVE  /\ pc = 2 => op = "context" /\ Step.field = "s1" /\ Step.mode = "bare"
             /\ op = "context" /\ pc # 2 => Step.field # "s1" /\ pc < 5
             /\ pc = 5 <=> op = "command"
             /\ pc = 5 => Step.command = "ddt_inval"
             /\ pc = 1 <=> op = "ddtp"
  BY <1>2, <1>3, <1>6 DEF Budget
<1>7. Fresh'
  <2> SUFFICES ASSUME test = "second_stage_only"
               PROVE  /\ pc' >= 3 => dc'.s1 = "bare"
                      /\ pc' >= 6 => \/ cq' = << >> /\ ddtc' \in {NoContext, dc'}
                                     \/ cq' = <<"ddt_inval">>
    BY <1>3 DEF Fresh
  <2>1. pc <= 5
    BY <1>1, <1>6, <1>3
  <2>2. pc' >= 3 => dc'.s1 = "bare"
    <3>1. dc \in ContextValues
      BY DEF RecordInv, TypeInv, Hardware
    <3>2. CASE pc = 2
      BY <1>1, <1>6, <3>1, <3>2 DEF ContextValues
    <3>3. CASE pc >= 3 /\ op = "context"
      <4>1. dc.s1 = "bare" /\ Step.field # "s1"
        BY <1>2, <1>3, <1>6, <3>3 DEF Fresh
      <4> QED BY <1>1, <3>1, <3>3, <4>1 DEF ContextValues
    <3>4. CASE pc >= 3 /\ op # "context"
      BY <1>1, <1>2, <1>3, <3>4 DEF Fresh
    <3> QED BY <1>3, <3>2, <3>3, <3>4
  <2>3. pc' >= 6 => cq' = <<"ddt_inval">>
    BY <1>1, <1>2, <1>3, <1>6, <2>1
  <2> QED BY <2>2, <2>3
<1> QED BY <1>4, <1>5, <1>7

\* A test ends with no record left.
LEMMA EndOwn ==
  ASSUME RecordInv, EndTest \/ FallOff
  PROVE  Own'
<1> SUFFICES ASSUME overtook' = {} PROVE Taken' /\ Translating' /\ Fresh'
  BY DEF Own
<1>1. status' = "main" /\ fq' = fq
  BY DEF EndTest, FallOff
<1>2. (\E S : fq \in Seq(S)) /\ Len(fq) <= Due(test, pc) /\ Due(test, pc) = 0
  <2>1. CASE EndTest
    <3>1. Doing("end")
      BY <2>1 DEF EndTest
    <3>2. Budget(test, pc, Step) /\ Step.op = "end"
      BY <3>1, Caught, StepOf DEF RecordInv, TypeInv
    <3>3. Due(test, pc) = 0
      BY <3>2 DEF Budget
    <3> QED BY <3>1, <3>3, Caught DEF AllBy
  <2>2. CASE FallOff
    <3>1. status = "running" /\ pc > Len(Program[test]) /\ overtook = {}
      BY <2>2 DEF FallOff
    <3>2. test \in DOMAIN Program /\ pc \in Nat
      BY <3>1 DEF RecordInv, TypeInv, Loop, Table, test
    <3>3. Taken
      BY <3>1 DEF RecordInv, Own
    <3> QED BY <3>1, <3>2, <3>3, DueOver DEF Taken, AllBy
  <2> QED BY <2>1, <2>2
<1>3. fq = << >>
  BY <1>2
<1> QED BY <1>1, <1>3 DEF Taken, Translating, Fresh

\* An invalidation that waits is executed; nothing else changes.
LEMMA IommuOwn ==
  ASSUME RecordInv, IOMMU
  PROVE  Own'
<1> USE DEF main, caches, queue
<1> SUFFICES ASSUME overtook = {} PROVE Taken' /\ Translating' /\ Fresh'
  BY DEF Own, IOMMU, Execute, Reject, Signal, CyclesOverflow
<1>1. Taken /\ Translating /\ Fresh
  BY DEF RecordInv, Own
<1>2. UNCHANGED <<suite, index, status, pc, fq, ddtp, dc>>
  BY DEF IOMMU, Execute, Reject, Signal, CyclesOverflow
<1>3. test' = test
  BY <1>2 DEF test
<1>4. Taken'
  BY <1>1, <1>2, <1>3 DEF Taken
<1>5. Translating'
  BY <1>1, <1>2, <1>3 DEF Translating
<1>6. cq = <<"ddt_inval">> => Head(cq) = "ddt_inval" /\ Tail(cq) = << >>
  OBVIOUS
<1>7. (cq = << >> /\ ddtc \in {NoContext, dc}) \/ cq = <<"ddt_inval">>
        => (cq' = << >> /\ ddtc' \in {NoContext, dc'}) \/ cq' = <<"ddt_inval">>
  <2>1. CASE Execute
    BY <1>6, <2>1 DEF Execute, Fetching, Consume, Invalidate
  <2>2. CASE Reject
    BY <1>6, <2>2 DEF Reject, Reserved, Fetching
  <2>3. CASE Signal \/ CyclesOverflow
    BY <2>3 DEF Signal, CyclesOverflow
  <2> QED BY <2>1, <2>2, <2>3 DEF IOMMU
<1>8. Fresh'
  BY <1>1, <1>2, <1>3, <1>7 DEF Fresh
<1> QED BY <1>4, <1>5, <1>8

LEMMA OwnStep ==
  ASSUME RecordInv, [Next]_vars
  PROVE  Own'
<1> USE DEF main, caches, queue
<1>1. CASE SetIgs \/ WriteMemory \/ SwitchTables \/ ArmCounter \/ LeavePoll
  BY <1>1, QuietOwn DEF SetIgs, WriteMemory, SwitchTables, ArmCounter, LeavePoll
<1>2. CASE ReadCqh \/ ReadCsr \/ WriteCsr \/ ClearIpsrFip \/ Unmask \/ CheckAssertion
  BY <1>2, QuietOwn DEF ReadCqh, ReadCsr, WriteCsr, ClearIpsrFip, Unmask, CheckAssertion
<1>3. CASE CallTest
  <2> SUFFICES ASSUME overtook' = {} PROVE Taken' /\ Translating' /\ Fresh'
    BY DEF Own
  <2>1. overtook = {} /\ status = "main" /\ status' = "running" /\ pc' = 1 /\ fq' = fq
    BY <1>3 DEF CallTest
  <2>2. fq = << >>
    BY <2>1 DEF RecordInv, Own, Taken
  <2>3. AllBy(fq', test') /\ Len(fq') = 0
    BY <2>1, <2>2 DEF AllBy
  <2>4. 0 <= Due(test', pc')
    BY DueNat
  <2> QED BY <2>1, <2>3, <2>4 DEF Taken, Translating, Fresh
<1>4. CASE Summary
  BY <1>4 DEF Summary, RecordInv, Own, Taken, Translating, Fresh
<1>5. CASE UNCHANGED vars
  BY <1>5 DEF vars, RecordInv, Own, Taken, Translating, Fresh, test
<1> QED
  BY <1>1, <1>2, <1>3, <1>4, <1>5, IommuOwn, SetupOwn, DmaOwn, TranslateOwn, RecordOwn, EndOwn
     DEF Next, Hart

LEMMA PlainStep ==
  ASSUME PlainCache(iotlb), [Next]_vars
  PROVE  PlainCache(iotlb')
<1> USE DEF caches
<1>1. CASE Execute
  BY <1>1 DEF Execute, Invalidate, PlainCache
<1>2. CASE DmaTransfer \/ DebugTranslate
  BY <1>2, FilledPlain DEF DmaTransfer, DebugTranslate
<1>3. CASE Reject \/ Signal \/ CyclesOverflow \/ UNCHANGED vars
  BY <1>3 DEF Reject, Signal, CyclesOverflow, vars
<1>4. CASE SetDdtp \/ SetContext \/ SetIgs \/ WriteCommand \/ WriteMemory \/ SwitchTables
  BY <1>4 DEF SetDdtp, SetContext, SetIgs, WriteCommand, WriteMemory, SwitchTables
<1>5. CASE ArmCounter \/ LeavePoll \/ ReadCqh \/ ReadCsr \/ WriteCsr \/ ClearIpsrFip \/ Unmask
  BY <1>5 DEF ArmCounter, LeavePoll, ReadCqh, ReadCsr, WriteCsr, ClearIpsrFip, Unmask
<1>6. CASE ReadFaultRecord \/ CheckAssertion \/ EndTest \/ FallOff \/ CallTest \/ Summary
  BY <1>6 DEF ReadFaultRecord, CheckAssertion, EndTest, FallOff, CallTest, Summary
<1> QED BY <1>1, <1>2, <1>3, <1>4, <1>5, <1>6 DEF Next, IOMMU, Hart

(* In any suite, however far the command queue lags, every record in the   *)
(* queue is of the test that runs, as long as no test has overtaken the    *)
(* command queue.                                                          *)
THEOREM RecordsAreOwn == Spec => []OwnRecords
<1>1. TypeInv /\ [Next]_vars => TypeInv'
  BY LoopStep, HardwareStep, TalliesStep DEF TypeInv
<1>2. RecordInv /\ [Next]_vars => RecordInv'
  BY <1>1, OwnStep, PlainStep DEF RecordInv
<1>3. RecordInv => OwnRecords
  BY DEF RecordInv, TypeInv, Loop, Table, Own, Taken, AllBy, OwnRecords
<1> QED BY <1>2, <1>3, RecordInit, PTL DEF Spec

-----------------------------------------------------------------------------
(* Which tests pass *)

\* The tests that set up all that they rely on.
Independent ==
  {"iommu_off", "iommu_bare", "both_stages_bare", "second_stage_only", "two_stage_translation",
   "mrif_support"}

\* The test that runs has met nothing of what an earlier one left, or does
\* not mind, and has waited for each command of its own.
Clean ==
  /\ test \notin overtook
  /\ test \in excused => test \in Independent /\ overtook = {}
OnTrack == status = "running" /\ Clean

\* Test t has been called; and it has not, or has not gone past step i.
Ran(t) == \E n \in 1 .. index : suite[n] = t
Before(t, i) == Ran(t) => status = "running" /\ test = t /\ pc <= i

\* The regime and the device context that test t sets up, when it stands at i.
Regime(t) ==
  CASE t = "iommu_off" -> "off" [] t = "iommu_bare" -> "bare"
    [] t \notin {"iommu_off", "iommu_bare"} -> "1lvl"

TwoStageTests ==
  {"two_stage_translation", "iotinval", "wsi_generation", "msi_generation", "hpm", "dbg_interface"}

Wanted1(t, i) == IF t \in TwoStageTests \/ (t = "mrif_support" /\ i >= 12) THEN "sv39" ELSE "bare"
Wanted2(t) == IF t = "both_stages_bare" THEN "bare" ELSE "sv39x4"

Prepared ==
  status = "running" =>
    /\ pc > 1 => ddtp = Regime(test)
    /\ test \notin {"iommu_off", "iommu_bare", "iofence"} =>
         /\ pc >= 3 => dc.s1 = Wanted1(test, pc)
         /\ pc >= 4 => dc.s2 = Wanted2(test)
         /\ pc >= 5 /\ test # "both_stages_bare" => dc.msi = "flat"

\* What the IOTLB holds is what a walk of the tables yields, but for the two
\* pages whose entries iotinval exchanges.
Switches == {"SWITCH1", "SWITCH2"}
WalkAgain(e, sw) == Walk(e.iova, e.access, [s1 |-> e.s1, s2 |-> e.s2, msi |-> "flat"], sw)
Sound(e) ==
  \/ e.iova = p(e.iova[2]) /\ e.to = e.iova
  \/ /\ e.iova = v(e.iova[2])
     /\ e.s2 = "sv39x4" /\ e.iova[2] \notin Switches => Reached(e.to) = WalkAgain(e, {})

OnSwitches(tlb) == {e \in tlb : e.iova[2] \in Switches}
Exchanged(i) == IF i <= 12 THEN {} ELSE IF i <= 19 THEN {"s1"} ELSE {"s1", "s2"}

Flat(c) == c.s2 = "sv39x4" => c.msi = "flat"

\* What iotinval and hpm alone touch.
Untouched ==
  /\ Before("iotinval", 12) => swapped = {}
  /\ status = "running" /\ test = "iotinval" => swapped = Exchanged(pc)
  /\ Before("iotinval", 9) => OnSwitches(iotlb) = {}
  /\ Before("hpm", 21) => \A e \in iotlb : e.iova[2] \notin {"HPM_R", "HPM_W"}
  /\ Before("hpm", 7) => armed = {} /\ overflowed = {}
  /\ Before("hpm", 20) => armed \cup overflowed \subseteq {"cycles"}
  /\ "cycles" \in armed =>
       "cycles" \notin overflowed /\ status = "running" /\ test = "hpm" /\ pc \in {8, 14}

Frame ==
  /\ Flat(ddtc) /\ masked \subseteq {"cip"}
  /\ \A e \in iotlb : Sound(e)
  /\ Prepared /\ Untouched

\* The command that may wait when test t stands at i.
Queued(t, i) ==
  CASE t \in {"second_stage_only", "two_stage_translation", "mrif_support"} /\ i = 6 -> <<"ddt_inval">>
    [] t = "mrif_support" /\ i = 13 -> <<"ddt_inval">>
    [] t = "iotinval" /\ i = 16 -> <<"vma">>
    [] t = "iotinval" /\ i = 23 -> <<"gvma">>
    [] t = "iofence" /\ i = 4 -> <<"iofence">>
    [] t = "msi_generation" /\ i = 8 -> <<"illegal">>
    [] OTHER -> << >>

Waiting == status = "running" /\ test \notin overtook => cq \in {<< >>, Queued(test, pc)}

\* The caches of a test that invalidates.
OwnContext(t, i) ==
  /\ t \in {"second_stage_only", "two_stage_translation", "mrif_support"}
  /\ i >= 6 /\ (t = "mrif_support" => i # 12)
  => cq = <<"ddt_inval">> \/ ddtc \in {NoContext, dc}

OwnEntries(t, i) ==
  t = "iotinval" =>
    /\ i >= 10 => \A e \in OnSwitches(iotlb) : e.s1 = "sv39" /\ e.s2 = "sv39x4"
    /\ i \in (10 .. 12) \cup (17 .. 19) \cup (24 .. 26) =>
         \A e \in OnSwitches(iotlb) : Reached(e.to) = WalkAgain(e, swapped)
    /\ i \in {16, 23} /\ cq = << >> => OnSwitches(iotlb) = {}

\* The events of the command queue.
Fenced == "fence_w_ip" \in events /\ At(mem, word("IOFENCE_ADDR")) = "IOFENCE_DATA"

Events(t, i) ==
  /\ t \notin Independent \cup {"iofence"} /\ (t = "msi_generation" => i <= 7) => events = {}
  /\ t = "msi_generation" /\ i = 8 =>
       IF cq = << >> THEN "cmd_ill" \in events ELSE events = {}
  /\ t = "msi_generation" /\ i \in 9 .. 12 => "cmd_ill" \in events \cap csr
  /\ t = "iofence" =>
       /\ i = 3 \/ (i = 4 /\ cq # << >>) => cqhRead = cqh /\ cqh # CqEntries - 1
       /\ i = 4 /\ cq # << >> => igs = "wsi"
       /\ i = 4 /\ cq = << >> => Fenced /\ cqh = cqhRead + 1
       /\ i \in 5 .. 9 => Fenced
       /\ i \in 6 .. 9 => "fence_w_ip" \in csr

\* Interrupts and their messages.
Told == "cip" \in held \/ At(mem, word("MSI_ADDR_CQ")) = "MSI_DATA_CQ"

Pending(t, i) ==
  /\ t = "wsi_generation" => /\ i \in 9 .. 10 => "fip" \in ipsr
                             /\ i = 11 => ipsr = {}
  /\ t = "msi_generation" =>
       /\ i <= 6 => "fip" \notin ipsr
       /\ i <= 7 \/ (i = 8 /\ cq # << >>) => "cip" \notin ipsr
       /\ i \in 6 .. 8 => igs = "msi"
       /\ i \in 7 .. 13 => "fip" \in ipsr
       /\ i \in 7 .. 11 => At(mem, word("MSI_ADDR_FQ")) = "MSI_DATA_FQ"
       /\ i = 8 /\ cq = << >> => "cip" \notin ipsr \/ Told
       /\ i \in 9 .. 14 => Told
       /\ i = 15 => At(mem, word("MSI_ADDR_CQ")) = "MSI_DATA_CQ"
  /\ t = "hpm" =>
       /\ i \in {7, 12, 13} => "pmip" \notin ipsr
       /\ i \in 13 .. 17 => igs = "msi"
       /\ i \in {8, 14} /\ "cycles" \notin overflowed => "cycles" \in armed /\ "pmip" \notin ipsr
       /\ i \in {8, 9, 14, 15} /\ "cycles" \in overflowed => "pmip" \in ipsr
       /\ i \in {9, 15} => "cycles" \in overflowed
       /\ i \in {10, 16} \cup (22 .. 24) => "pmip" \in ipsr
       /\ (i = 14 /\ "cycles" \in overflowed) \/ i \in 15 .. 17 =>
            At(mem, word("MSI_ADDR_HPM")) = "MSI_DATA_HPM"
       /\ i = 21 => "iohpmctr3" \in armed /\ "iohpmctr3" \notin overflowed
       /\ i \in 22 .. 23 => "iohpmctr3" \in overflowed

\* The fault records of test t, which it has not read at i, and the last read.
Record(c, a, t) == [cause |-> c, iova |-> a, by |-> t]

Faults(t) ==
  CASE t = "iommu_off" -> <<Record("ALL_INB_TRANSACTIONS_DISALLOWED", v("IOMMU_OFF_R"), t),
                            Record("ALL_INB_TRANSACTIONS_DISALLOWED", v("IOMMU_OFF_W"), t)>>
    [] t = "wsi_generation" -> <<Record("LOAD_PAGE_FAULT", v("WSI_R"), t),
                                 Record("STORE_GUEST_PAGE_FAULT", v("WSI_W"), t)>>
    [] t = "msi_generation" -> <<Record("LOAD_PAGE_FAULT", v("MSI_GEN_R"), t),
                                 Record("STORE_GUEST_PAGE_FAULT", v("MSI_GEN_W"), t)>>
    [] t = "mrif_support" -> <<Record("MSI_PTE_INVALID", v("MSI_W5"), t)>>
    [] t = "dbg_interface" -> <<Record("TRANS_TYPE_DISALLOWED", v("MSI_W2"), t)>>
    [] OTHER -> << >>

\* From where on the records stand in the queue, and where each is read.
Caused(t) ==
  CASE t = "iommu_off" -> 3 [] t = "wsi_generation" -> 9 [] t = "msi_generation" -> 7
    [] t = "mrif_support" -> 19 [] t = "dbg_interface" -> 14 [] OTHER -> 100
Read1(t) ==
  CASE t = "iommu_off" -> 4 [] t = "wsi_generation" -> 13 [] t = "msi_generation" -> 17
    [] t = "mrif_support" -> 20 [] t = "dbg_interface" -> 16 [] OTHER -> 100
Read2(t) ==
  CASE t = "iommu_off" -> 7 [] t = "wsi_generation" -> 16 [] t = "msi_generation" -> 18
    [] OTHER -> 100

Recording(t, i) ==
  /\ fq = IF i < Caused(t) THEN << >>
          ELSE IF i < Read1(t) THEN Faults(t)
          ELSE IF i < Read2(t) THEN Tail(Faults(t)) ELSE << >>
  /\ Read1(t) <= i /\ i < Read2(t) => record = Faults(t)[1]
  /\ Read2(t) <= i => record = Faults(t)[2]

Answered(t, i) ==
  t = "dbg_interface" =>
    /\ i = 6 => response = p("TWO_STAGE_W4K")
    /\ i \in 8 .. 9 => response = p("TEST_2MIB")
    /\ i \in 11 .. 12 => response = p("TEST_1GIB")
    /\ i = 14 => response = NoAddress

\* What stands in memory m when test t stands at i.
Words(t, i, m) ==
  /\ t = "iommu_bare" => /\ i \in 3 .. 4 => At(m, p("IOMMU_BARE_R")) = "0x10"
                         /\ i = 5 => At(m, p("IOMMU_BARE_W")) = "0x10"
  /\ t = "both_stages_bare" => /\ i \in 5 .. 8 => At(m, p("BARE_TRANS_R1")) = "0x11"
                               /\ i = 9 => At(m, p("BARE_TRANS_W1")) = "0x11"
                               /\ i \in 6 .. 10 => At(m, p("BARE_TRANS_R2")) = "0x22"
                               /\ i = 11 => At(m, p("BARE_TRANS_W2")) = "0x22"
  /\ t = "second_stage_only" => /\ i \in 7 .. 10 => At(m, p("S2_ONLY_R")) = "0x11"
                                /\ i = 11 => At(m, p("S2_ONLY_W")) = "0x11"
                                /\ i \in 8 .. 12 => At(m, p("MSI_R1")) = "0x22"
                                /\ i = 13 => At(m, file(17)) = "0x22"
  /\ t = "two_stage_translation" => /\ i \in 7 .. 14 => At(m, p("TWO_STAGE_R4K")) = "0x11"
                                    /\ i = 15 => At(m, p("TWO_STAGE_W4K")) = "0x11"
                                    /\ i \in 8 .. 16 => At(m, p("TWO_STAGE_R2M")) = "0x22"
                                    /\ i = 17 => At(m, p("TEST_2MIB")) = "0x22"
                                    /\ i \in 9 .. 18 => At(m, p("TWO_STAGE_R1G")) = "0x33"
                                    /\ i = 19 => At(m, p("TEST_1GIB")) = "0x33"
                                    /\ i \in 10 .. 20 => At(m, p("MSI_R2")) = "0x44"
                                    /\ i = 21 => At(m, file(19)) = "0x44"
  /\ t = "iotinval" =>
       /\ i \in 6 .. 26 => At(m, p("IOTINVAL_R1")) = "0x11"
       /\ i \in 7 .. 26 => At(m, p("IOTINVAL_R2")) = "0x22"
       /\ i \in (10 .. 11) \cup (24 .. 25) => At(m, p("SWITCH1")) = "0x11"
       /\ i \in {11, 25} => At(m, p("SWITCH2")) = "0x22"
       /\ i \in 17 .. 18 => At(m, p("SWITCH2")) = "0x11"
       /\ i = 18 => At(m, p("SWITCH1")) = "0x22"
  /\ t = "mrif_support" =>
       /\ i \in 7 .. 8 => At(m, p("MSI_R3")) = "INT_ID_1"
       /\ i = 9 => At(m, word("INT_IP_1")) = "1"
       /\ i \in 9 .. 10 => At(m, word("NOTICE_ADDR_1")) = "NOTICE_DATA"
       /\ i \in 14 .. 15 => At(m, p("MSI_R4")) = "INT_ID_2"
       /\ i \in 15 .. 17 => At(m, word("NOTICE_ADDR_2")) = "0"
       /\ i = 16 => At(m, word("INT_IP_2")) = "1"
       /\ i \in 24 .. 26 => At(m, p("MSI_R3")) = "0xFFF"
       /\ i \in 25 .. 27 => At(m, word("INT_IP_1")) = "0"
       /\ i \in 26 .. 28 => At(m, word("NOTICE_ADDR_1")) = "0"

Facts(t, i) ==
  /\ OwnContext(t, i) /\ OwnEntries(t, i) /\ Events(t, i) /\ Pending(t, i)
  /\ Recording(t, i) /\ Answered(t, i) /\ Words(t, i, mem)

\* Who may fail.
Explained ==
  /\ \A f \in falsified :
       /\ f[1] \in DOMAIN Program /\ f[1] \in excused \cup overtook
       /\ f[1] \in Independent => overtook # {}
  /\ status = "error" =>
       /\ test \in excused \cup overtook
       /\ test \in Independent => overtook # {}

PassInv == Frame /\ Waiting /\ (OnTrack => Facts(test, pc)) /\ Explained

\* Where a test has had a command rejected and not yet cleared cqcsr.
Rejecting(t, i) ==
  \/ t = "msi_generation" /\ i \in 8 .. 12 /\ (i >= 9 => csr = events)
  \/ t = "iofence" /\ i \in 4 .. 9 /\ (i >= 6 => csr = events)

\* A command queue that keeps up is never overtaken.
KeepsUp ==
  ~lag =>
    /\ overtook = {}
    /\ Behind => status = "running" /\ pc <= Len(Program[test])
    /\ "cmd_ill" \in events => status = "running" /\ cq = << >> /\ Rejecting(test, pc)

\* Addresses of different kinds, or of different things, differ.
LEMMA Places ==
  /\ \A x, y : p(x) = p(y) => x = y
  /\ \A x, y : word(x) = word(y) => x = y
  /\ \A x, y : file(x) = file(y) => x = y
  /\ \A x, y : p(x) # word(y) /\ p(x) # file(y) /\ word(x) # file(y)
  /\ \A x : v(x)[1] = "v" /\ v(x)[2] = x /\ p(x)[1] = "p" /\ p(x)[2] = x
BY SMT DEF v, p, word, file

\* Memory, word by word.
LEMMA PutAt ==
  \A m, a, x, b : At(Put(m, a, x), b) = IF b = a THEN x ELSE At(m, b)
<1> SUFFICES ASSUME NEW m, NEW a, NEW x, NEW b
             PROVE  At(Put(m, a, x), b) = IF b = a THEN x ELSE At(m, b)
  OBVIOUS
<1> DEFINE n == Put(m, a, x)
<1>1. /\ DOMAIN n = DOMAIN m \cup {a}
      /\ \A c \in DOMAIN m \cup {a} : n[c] = IF c = a THEN x ELSE m[c]
  BY DEF Put
<1> HIDE DEF n
<1>2. At(n, b) = IF b = a THEN x ELSE At(m, b)
  BY <1>1 DEF At
<1> QED BY <1>2 DEF n

MessageWords == {word("MSI_ADDR_CQ"), word("MSI_ADDR_FQ"), word("MSI_ADDR_HPM")}

LEMMA MessageWord ==
  /\ MsiWord["cip"] = word("MSI_ADDR_CQ") /\ MsiData["cip"] = "MSI_DATA_CQ"
  /\ MsiWord["fip"] = word("MSI_ADDR_FQ") /\ MsiData["fip"] = "MSI_DATA_FQ"
  /\ MsiWord["pmip"] = word("MSI_ADDR_HPM") /\ MsiData["pmip"] = "MSI_DATA_HPM"
  /\ \A c, d \in Causes : MsiWord[c] = MsiWord[d] => c = d
  /\ \A c \in Causes : MsiWord[c] \in MessageWords
BY Places DEF MsiWord, MsiData, Causes, MessageWords

LEMMA MessagesAt ==
  ASSUME NEW m, NEW causes \in SUBSET Causes
  PROVE  /\ \A a : a \notin MessageWords => At(WithMessages(m, causes), a) = At(m, a)
         /\ \A c \in Causes : At(WithMessages(m, causes), MsiWord[c]) =
              IF c \in causes THEN MsiData[c] ELSE At(m, MsiWord[c])
<1> DEFINE n == WithMessages(m, causes)
           told == {MsiWord[c] : c \in causes}
           data(a) == MsiData[CHOOSE c \in causes : MsiWord[c] = a]
<1>1. CASE causes = {}
  <2>1. n = m
    BY <1>1 DEF WithMessages
  <2> QED BY <1>1, <2>1
<1>2. CASE causes # {}
  <2>1. /\ DOMAIN n = DOMAIN m \cup told
        /\ \A a \in DOMAIN m \cup told : n[a] = IF a \in told THEN data(a) ELSE m[a]
    BY <1>2, Zenon DEF WithMessages
  <2>2. \A c \in causes : data(MsiWord[c]) = MsiData[c]
    BY MessageWord
  <2>3. \A c \in Causes : MsiWord[c] \in told <=> c \in causes
    BY MessageWord
  <2>4. \A a : a \notin MessageWords => a \notin told
    BY MessageWord
  <2> HIDE DEF n, told, data
  <2>5. \A a : a \notin MessageWords => At(n, a) = At(m, a)
    BY <2>1, <2>4 DEF At
  <2>6. ASSUME NEW c \in Causes
        PROVE  At(n, MsiWord[c]) = IF c \in causes THEN MsiData[c] ELSE At(m, MsiWord[c])
    BY <2>1, <2>2, <2>3 DEF At
  <2> QED BY <2>5, <2>6 DEF n
<1> QED BY <1>1, <1>2

\* The five pages with numbers lie in guest interrupt files.
LEMMA MsiPages ==
  ASSUME NEW t \in DOMAIN Number
  PROVE  IsMsi(<<"v", t>>)
<1>1. /\ 2^0 = 1 /\ 2^3 = 8 /\ 2^4 = 16 /\ 2^5 = 32 /\ 2^6 = 64 /\ 2^8 = 256 /\ 2^10 = 1024
      /\ 2^11 = 2048 /\ 2^12 = 4096 /\ 2^13 = 8192 /\ 2^14 = 16384 /\ 2^15 = 32768
      /\ 2^16 = 65536 /\ 2^17 = 131072 /\ 2^18 = 262144 /\ 2^19 = 524288 /\ 2^20 = 1048576
  BY SMT
<1>2. Vpn(t) \in {1048834, 1048838, 1048960, 1048962, 1048966}
  BY <1>1, NumberDomain, SMT DEF Vpn, Number
<1>3. {MaskBits[k] : k \in 1 .. 5} = {1, 2, 7, 9, 20}
  BY SMT DEF MaskBits
<1>4. ASSUME NEW i \in 0 .. 20, i \notin {1, 2, 7, 9, 20}
      PROVE  Bit(Vpn(t), i) = (IF i = 8 THEN 1 ELSE 0)
  <2>1. \A n \in Nat :
            /\ Bit(n, 0) = (n \div 1) % 2 /\ Bit(n, 3) = (n \div 8) % 2
            /\ Bit(n, 4) = (n \div 16) % 2 /\ Bit(n, 5) = (n \div 32) % 2
            /\ Bit(n, 6) = (n \div 64) % 2 /\ Bit(n, 8) = (n \div 256) % 2
            /\ Bit(n, 10) = (n \div 1024) % 2 /\ Bit(n, 11) = (n \div 2048) % 2
            /\ Bit(n, 12) = (n \div 4096) % 2 /\ Bit(n, 13) = (n \div 8192) % 2
            /\ Bit(n, 14) = (n \div 16384) % 2 /\ Bit(n, 15) = (n \div 32768) % 2
            /\ Bit(n, 16) = (n \div 65536) % 2 /\ Bit(n, 17) = (n \div 131072) % 2
            /\ Bit(n, 18) = (n \div 262144) % 2 /\ Bit(n, 19) = (n \div 524288) % 2
    BY <1>1, SMT DEF Bit
  <2> DEFINE n == Vpn(t)
             Rest(m) == /\ Bit(m, 0) = 0 /\ Bit(m, 3) = 0 /\ Bit(m, 4) = 0 /\ Bit(m, 5) = 0
                        /\ Bit(m, 6) = 0 /\ Bit(m, 8) = 1 /\ Bit(m, 10) = 0 /\ Bit(m, 11) = 0
                        /\ Bit(m, 12) = 0 /\ Bit(m, 13) = 0 /\ Bit(m, 14) = 0 /\ Bit(m, 15) = 0
                        /\ Bit(m, 16) = 0 /\ Bit(m, 17) = 0 /\ Bit(m, 18) = 0 /\ Bit(m, 19) = 0
  <2>2. 1048834 \in Nat /\ 1048838 \in Nat /\ 1048960 \in Nat /\ 1048962 \in Nat /\ 1048966 \in Nat
    BY SMT
  <2>3. Rest(1048834)
    BY <2>1, SMT
  <2>4. Rest(1048838)
    BY <2>1, SMT
  <2>5. Rest(1048960)
    BY <2>1, SMT
  <2>6. Rest(1048962)
    BY <2>1, SMT
  <2>7. Rest(1048966)
    BY <2>1, SMT
  <2>8. Rest(n)
    BY <1>2, <2>3, <2>4, <2>5, <2>6, <2>7, SMT
  <2>9. i \in {0, 3, 4, 5, 6, 8, 10, 11, 12, 13, 14, 15, 16, 17, 18, 19}
    BY <1>4, SMT
  <2> HIDE DEF n
  <2> QED BY <2>8, <2>9, SMT DEF n
<1> DEFINE a == <<"v", t>>
<1>5. a[1] = "v" /\ a[2] = t
  OBVIOUS
<1> HIDE DEF a
<1>6. IsMsi(a)
  BY <1>3, <1>4, <1>5, Zenon DEF IsMsi
<1> QED BY <1>6 DEF a

LEMMA NotMsi == \A t : t \notin DOMAIN Number => ~IsMsi(<<"v", t>>)
BY DEF IsMsi

\* The page a virtual page leads to after the first stage, and after both.
Page1(t, c, sw) == IF c.s1 = "sv39" THEN Switched(t, "s1" \in sw) ELSE t
Page2(t, c, sw) == Switched(Page1(t, c, sw), "s2" \in sw)

\* The walk from a virtual page, stage by stage.
LEMMA WalkPage ==
  ASSUME NEW t, t \notin Superpages, NEW access, NEW c, NEW sw, Page1(t, c, sw) \notin Superpages
  PROVE  Walk(v(t), access, c, sw) =
           IF c.s1 = "sv39" /\ Right(access) \notin Stage1Perm(t)
           THEN Fault(IF access = "read" THEN "LOAD_PAGE_FAULT" ELSE "STORE_PAGE_FAULT")
           ELSE IF c.msi = "flat" /\ IsMsi(v(Page1(t, c, sw)))
           THEN Reached(<<"msi", InterruptFile(Page1(t, c, sw))>>)
           ELSE IF c.s2 # "sv39x4" THEN Reached(v(Page1(t, c, sw)))
           ELSE IF Right(access) \in Stage2Perm(Page1(t, c, sw)) THEN Reached(p(Page2(t, c, sw)))
           ELSE Fault(IF access = "read" THEN "LOAD_GUEST_PAGE_FAULT" ELSE "STORE_GUEST_PAGE_FAULT")
<1> DEFINE t1 == Page1(t, c, sw)
           t2 == Page2(t, c, sw)
<1>t. t1 = (IF c.s1 = "sv39" THEN Switched(t, "s1" \in sw) ELSE t) /\ t2 = Switched(t1, "s2" \in sw)
      /\ t1 \notin Superpages
  BY Zenon DEF Page1, Page2
<1> HIDE DEF t1, t2
<1> DEFINE o1 == "s1" \in sw
           o2 == "s2" \in sw
           a == v(t)
           b == v(t1)
           cause1 == IF access = "read" THEN "LOAD_PAGE_FAULT" ELSE "STORE_PAGE_FAULT"
           cause2 == IF access = "read" THEN "LOAD_GUEST_PAGE_FAULT" ELSE "STORE_GUEST_PAGE_FAULT"
           first == IF c.s1 = "sv39" THEN Stage1(a, access, sw) ELSE Reached(a)
           isMsi == first.ok /\ c.msi = "flat" /\ IsMsi(first.to)
           r == Walk(a, access, c, sw)
<1>1. a[1] = "v" /\ a[2] = t /\ b[1] = "v" /\ b[2] = t1 /\ b = <<"v", t1>>
  BY Places DEF v
<1>2. r = CASE isMsi -> Reached(<<"msi", InterruptFile(first.to[2])>>)
            [] ~isMsi /\ first.ok /\ c.s2 = "sv39x4" -> Stage2(first.to, access, sw)
            [] OTHER -> first
  BY Zenon DEF Walk
<1>3. Stage1(a, access, sw) = IF Right(access) \in Stage1Perm(t)
                              THEN Reached(<<"v", Switched(t, o1)>>) ELSE Fault(cause1)
  <2> HIDE DEF a, o1
  <2> QED BY <1>1, Zenon DEF Stage1, o1
<1>4. Stage2(b, access, sw) = IF Right(access) \in Stage2Perm(t1)
                              THEN Reached(<<"p", Switched(t1, o2)>>) ELSE Fault(cause2)
  <2> HIDE DEF b, o2
  <2> QED BY <1>1, <1>t, Zenon DEF Stage2, o2
<1>5. Reached(b).ok = TRUE /\ Reached(b).to = b /\ \A x : Fault(x).ok = FALSE
  BY DEF Reached, Fault
<1>6. CASE c.s1 = "sv39" /\ Right(access) \notin Stage1Perm(t)
  <2>1. first = Fault(cause1)
    BY <1>3, <1>6
  <2> HIDE DEF first
  <2>2. ~first.ok
    BY <1>5, <2>1
  <2>3. ~isMsi
    BY <2>2
  <2> HIDE DEF isMsi, r
  <2>4. r = Fault(cause1)
    BY <1>2, <2>1, <2>2, <2>3
  <2> QED BY <1>6, <2>4 DEF r
<1>7. CASE ~(c.s1 = "sv39" /\ Right(access) \notin Stage1Perm(t))
  <2>1. first = Reached(b)
    BY <1>1, <1>3, <1>7, <1>t
  <2> HIDE DEF first, b
  <2>2. first.ok /\ first.to = b
    BY <1>5, <2>1
  <2>3. isMsi <=> c.msi = "flat" /\ IsMsi(b)
    BY <2>2
  <2> HIDE DEF isMsi
  <2> DEFINE f == InterruptFile(t1)
             q == Switched(t1, o2)
  <2>4. r = IF isMsi THEN Reached(<<"msi", f>>)
            ELSE IF c.s2 # "sv39x4" THEN Reached(b)
            ELSE IF Right(access) \in Stage2Perm(t1) THEN Reached(<<"p", q>>) ELSE Fault(cause2)
    <3>1. CASE isMsi
      BY <1>1, <1>2, <2>2, <3>1, Zenon
    <3>2. CASE ~isMsi /\ c.s2 = "sv39x4"
      BY <1>2, <1>4, <2>2, <3>2, Zenon
    <3>3. CASE ~isMsi /\ c.s2 # "sv39x4"
      BY <1>2, <2>1, <3>3, Zenon
    <3> QED BY <3>1, <3>2, <3>3, Zenon
  <2>5. t2 = q
    BY <1>t
  <2> HIDE DEF r, f, q, cause1, cause2
  <2>6. r = IF c.msi = "flat" /\ IsMsi(b) THEN Reached(<<"msi", f>>)
            ELSE IF c.s2 # "sv39x4" THEN Reached(b)
            ELSE IF Right(access) \in Stage2Perm(t1) THEN Reached(<<"p", t2>>) ELSE Fault(cause2)
    BY <2>3, <2>4, <2>5, Zenon
  <2> QED BY <1>7, <2>6, Zenon DEF r, f, cause2, b, p, t1, t2
<1> QED BY <1>6, <1>7

LEMMA SwitchedPages ==
  /\ \A t, o : t \notin Switches => Switched(t, o) = t
  /\ \A t : Switched(t, FALSE) = t
  /\ Switched("SWITCH1", TRUE) = "SWITCH2" /\ Switched("SWITCH2", TRUE) = "SWITCH1"
BY DEF Switched, Switches

LEMMA WalkSuper ==
  ASSUME NEW t \in Superpages, NEW access, NEW c, NEW sw
  PROVE  Walk(v(t), access, c, sw) = IF c.s2 = "sv39x4" THEN Reached(p(t)) ELSE Reached(v(t))
<1> DEFINE a == v(t)
           first == IF c.s1 = "sv39" THEN Stage1(a, access, sw) ELSE Reached(a)
           isMsi == first.ok /\ c.msi = "flat" /\ IsMsi(first.to)
           r == Walk(a, access, c, sw)
<1>1. a[1] = "v" /\ a[2] = t /\ t \notin DOMAIN Number
  BY Places, NumberDomain, SMT DEF Superpages
<1>2. r = CASE isMsi -> Reached(<<"msi", InterruptFile(first.to[2])>>)
            [] ~isMsi /\ first.ok /\ c.s2 = "sv39x4" -> Stage2(first.to, access, sw)
            [] OTHER -> first
  BY Zenon DEF Walk
<1> HIDE DEF a
<1>3. Stage1(a, access, sw) = Reached(a) /\ Stage2(a, access, sw) = Reached(<<"p", t>>)
  BY <1>1, Zenon DEF Stage1, Stage2
<1>4. first = Reached(a)
  BY <1>3
<1> HIDE DEF first
<1>5. first.ok /\ first.to = a /\ ~isMsi
  BY <1>1, <1>4 DEF Reached, IsMsi
<1> HIDE DEF isMsi, r
<1>6. r = IF c.s2 = "sv39x4" THEN Reached(<<"p", t>>) ELSE Reached(a)
  BY <1>2, <1>3, <1>4, <1>5, Zenon
<1> QED BY <1>6, Zenon DEF r, a, p

LEMMA WalkPhysical ==
  ASSUME NEW t, NEW access, NEW c, NEW sw
  PROVE  Walk(p(t), access, c, sw) = Reached(p(t))
<1> DEFINE a == p(t)
           first == IF c.s1 = "sv39" THEN Stage1(a, access, sw) ELSE Reached(a)
           isMsi == first.ok /\ c.msi = "flat" /\ IsMsi(first.to)
           r == Walk(a, access, c, sw)
<1>1. a[1] = "p"
  BY Places
<1>2. r = CASE isMsi -> Reached(<<"msi", InterruptFile(first.to[2])>>)
            [] ~isMsi /\ first.ok /\ c.s2 = "sv39x4" -> Stage2(first.to, access, sw)
            [] OTHER -> first
  BY Zenon DEF Walk
<1> HIDE DEF a
<1>3. Stage1(a, access, sw) = Reached(a) /\ Stage2(a, access, sw) = Reached(a)
  <2>1. a[1] # "v"
    BY <1>1
  <2> QED BY <2>1, Zenon DEF Stage1, Stage2
<1>4. first = Reached(a)
  BY <1>3
<1> HIDE DEF first
<1>5. first.ok /\ first.to = a /\ ~isMsi
  BY <1>1, <1>4 DEF Reached, IsMsi
<1> HIDE DEF isMsi, r
<1>6. r = Reached(a)
  BY <1>2, <1>3, <1>4, <1>5, Zenon
<1> QED BY <1>6, Zenon DEF r, a

\* Only the walks from SWITCH1 and SWITCH2 depend on what has been exchanged.
LEMMA SamePage ==
  ASSUME NEW t, t \notin Switches, NEW c, NEW sw
  PROVE  Page1(t, c, sw) = t /\ Page2(t, c, sw) = t
<1> DEFINE o1 == "s1" \in sw
           o2 == "s2" \in sw
<1>1. Switched(t, o1) = t /\ Switched(t, o2) = t
  BY SwitchedPages
<1>2. Page1(t, c, sw) = (IF c.s1 = "sv39" THEN Switched(t, o1) ELSE t)
      /\ Page2(t, c, sw) = Switched(Page1(t, c, sw), o2)
  BY Zenon DEF Page1, Page2
<1> HIDE DEF o1, o2
<1> QED BY <1>1, <1>2

\* The walk from a page whose entries stay where they are.
Still(t, access, c) ==
  IF c.s1 = "sv39" /\ Right(access) \notin Stage1Perm(t)
  THEN Fault(IF access = "read" THEN "LOAD_PAGE_FAULT" ELSE "STORE_PAGE_FAULT")
  ELSE IF c.msi = "flat" /\ IsMsi(v(t)) THEN Reached(<<"msi", InterruptFile(t)>>)
  ELSE IF c.s2 # "sv39x4" THEN Reached(v(t))
  ELSE IF Right(access) \in Stage2Perm(t) THEN Reached(p(t))
  ELSE Fault(IF access = "read" THEN "LOAD_GUEST_PAGE_FAULT" ELSE "STORE_GUEST_PAGE_FAULT")

LEMMA WalkStill ==
  ASSUME NEW t, t \notin Superpages, t \notin Switches, NEW access, NEW c, NEW sw
  PROVE  Walk(v(t), access, c, sw) = Still(t, access, c)
<1>1. Page1(t, c, sw) = t /\ Page2(t, c, sw) = t
  BY SamePage, Zenon
<1> DEFINE q1 == Page1(t, c, sw)
           q2 == Page2(t, c, sw)
<1>2. q1 \notin Superpages
  BY <1>1
<1>3. Walk(v(t), access, c, sw) =
           IF c.s1 = "sv39" /\ Right(access) \notin Stage1Perm(t)
           THEN Fault(IF access = "read" THEN "LOAD_PAGE_FAULT" ELSE "STORE_PAGE_FAULT")
           ELSE IF c.msi = "flat" /\ IsMsi(v(q1)) THEN Reached(<<"msi", InterruptFile(q1)>>)
           ELSE IF c.s2 # "sv39x4" THEN Reached(v(q1))
           ELSE IF Right(access) \in Stage2Perm(q1) THEN Reached(p(q2))
           ELSE Fault(IF access = "read" THEN "LOAD_GUEST_PAGE_FAULT" ELSE "STORE_GUEST_PAGE_FAULT")
  BY <1>2, WalkPage, Zenon
<1>4. q1 = t /\ q2 = t
  BY <1>1
<1> HIDE DEF q1, q2
<1> QED BY <1>3, <1>4 DEF Still

LEMMA WalkElsewhere ==
  ASSUME NEW t, t \notin Switches, NEW access, NEW c, NEW sw
  PROVE  Walk(v(t), access, c, sw) = Walk(v(t), access, c, {})
<1>1. CASE t \in Superpages
  BY <1>1, WalkSuper, Zenon
<1>2. CASE t \notin Superpages
  BY <1>2, WalkStill, Zenon
<1> QED BY <1>1, <1>2

\* Where a page that is granted leads when the second stage is on.
LEMMA WalkGranted ==
  ASSUME NEW t, t \notin Switches, NEW access, NEW c, NEW sw, c.s2 = "sv39x4", c.msi = "flat",
         Stage2Allows(v(t), access), c.s1 = "bare" \/ Allows(v(t), access)
  PROVE  Walk(v(t), access, c, sw) =
           IF t \in DOMAIN Number THEN Reached(<<"msi", InterruptFile(t)>>) ELSE Reached(p(t))
<1>1. CASE t \in Superpages
  <2>1. t \notin DOMAIN Number
    BY <1>1, NumberDomain, SMT DEF Superpages
  <2> QED BY <1>1, <2>1, WalkSuper, Zenon
<1>2. CASE t \notin Superpages
  <2>1. v(t)[1] = "v" /\ v(t)[2] = t /\ "v" # "p" /\ "bare" # "sv39"
    BY Places
  <2>2. /\ Right(access) \in Stage2Perm(t)
        /\ c.s1 = "sv39" => Right(access) \in Stage1Perm(t)
    BY <1>2, <2>1, Zenon DEF Stage2Allows, Allows
  <2>3. IsMsi(v(t)) <=> t \in DOMAIN Number
    BY MsiPages, NotMsi, Zenon DEF v
  <2>4. Walk(v(t), access, c, sw) =
           IF c.msi = "flat" /\ IsMsi(v(t)) THEN Reached(<<"msi", InterruptFile(t)>>)
           ELSE IF c.s2 # "sv39x4" THEN Reached(v(t))
           ELSE IF Right(access) \in Stage2Perm(t) THEN Reached(p(t))
           ELSE Fault(IF access = "read" THEN "LOAD_GUEST_PAGE_FAULT" ELSE "STORE_GUEST_PAGE_FAULT")
    BY <1>2, <2>2, WalkStill, Zenon DEF Still
  <2> QED BY <2>2, <2>3, <2>4, Zenon
<1> QED BY <1>1, <1>2

\* The pages that the two exchanged entries lead to.
LEMMA WalkSwitch ==
  ASSUME NEW t \in Switches, NEW c, NEW sw, c.s1 = "sv39", c.s2 = "sv39x4"
  PROVE  Walk(v(t), "write", c, sw) = Reached(p(Page2(t, c, sw)))
<1> DEFINE q1 == Page1(t, c, sw)
           q2 == Page2(t, c, sw)
<1>1. q1 \in Switches
  <2> DEFINE o == "s1" \in sw
  <2>1. o \in BOOLEAN
    OBVIOUS
  <2>2. q1 = (IF c.s1 = "sv39" THEN Switched(t, o) ELSE t)
    BY Zenon DEF Page1
  <2> HIDE DEF o, q1
  <2>3. Switched(t, o) \in Switches
    BY <2>1 DEF Switches, Switched
  <2> QED BY <2>2, <2>3
<1>2. \A u \in Switches : /\ u \notin Superpages /\ u \notin DOMAIN Number
                          /\ Right("write") \in Stage1Perm(u) /\ Right("write") \in Stage2Perm(u)
  BY NumberDomain, SMT DEF Switches, Superpages, Right, Stage1Perm, Stage2Perm
<1>3. ~IsMsi(v(q1))
  BY <1>1, <1>2, NotMsi, Zenon DEF v
<1>4. /\ t \notin Superpages /\ q1 \notin Superpages
      /\ Right("write") \in Stage1Perm(t) /\ Right("write") \in Stage2Perm(q1)
  BY <1>1, <1>2
<1>5. Walk(v(t), "write", c, sw) =
           IF c.s1 = "sv39" /\ Right("write") \notin Stage1Perm(t)
           THEN Fault(IF "write" = "read" THEN "LOAD_PAGE_FAULT" ELSE "STORE_PAGE_FAULT")
           ELSE IF c.msi = "flat" /\ IsMsi(v(q1)) THEN Reached(<<"msi", InterruptFile(q1)>>)
           ELSE IF c.s2 # "sv39x4" THEN Reached(v(q1))
           ELSE IF Right("write") \in Stage2Perm(q1) THEN Reached(p(q2))
           ELSE Fault(IF "write" = "read" THEN "LOAD_GUEST_PAGE_FAULT" ELSE "STORE_GUEST_PAGE_FAULT")
  BY <1>4, WalkPage, Zenon
<1> HIDE DEF q1, q2
<1>6. Walk(v(t), "write", c, sw) = Reached(p(q2))
  BY <1>3, <1>4, <1>5, Zenon
<1> QED BY <1>6 DEF q2

\* The pages that fault.
LEMMA WalkFaults ==
  ASSUME NEW c, NEW sw, c.s1 = "sv39", c.s2 = "sv39x4"
  PROVE  /\ \A t \in {"WSI_R", "MSI_GEN_R"} : Walk(v(t), "read", c, sw) = Fault("LOAD_PAGE_FAULT")
         /\ \A t \in {"WSI_W", "MSI_GEN_W"} :
              Walk(v(t), "write", c, sw) = Fault("STORE_GUEST_PAGE_FAULT")
<1>1. \A t \in {"WSI_R", "MSI_GEN_R", "WSI_W", "MSI_GEN_W"} :
        t \notin Superpages /\ t \notin DOMAIN Number /\ t \notin Switches
  BY NumberDomain, SMT DEF Superpages, Switches
<1>2. /\ \A t \in {"WSI_R", "MSI_GEN_R"} : Right("read") \notin Stage1Perm(t)
      /\ \A t \in {"WSI_W", "MSI_GEN_W"} :
           Right("write") \in Stage1Perm(t) /\ Right("write") \notin Stage2Perm(t)
  BY SMT DEF Right, Stage1Perm, Stage2Perm
<1>3. ASSUME NEW t \in {"WSI_R", "MSI_GEN_R"}
      PROVE  Walk(v(t), "read", c, sw) = Fault("LOAD_PAGE_FAULT")
  <2>1. /\ t \notin Superpages /\ t \notin Switches /\ Right("read") \notin Stage1Perm(t)
    BY <1>1, <1>2, Zenon
  <2> QED BY <2>1, WalkStill, Zenon DEF Still
<1>4. ASSUME NEW t \in {"WSI_W", "MSI_GEN_W"}
      PROVE  Walk(v(t), "write", c, sw) = Fault("STORE_GUEST_PAGE_FAULT")
  <2>1. /\ t \notin Superpages /\ t \notin Switches
        /\ Right("write") \in Stage1Perm(t) /\ Right("write") \notin Stage2Perm(t)
        /\ ~IsMsi(v(t))
    BY <1>1, <1>2, NotMsi, Zenon DEF v
  <2>2. "write" # "read"
    OBVIOUS
  <2> QED BY <2>1, <2>2, WalkStill, Zenon DEF Still
<1> QED BY <1>3, <1>4

\* A walk reaches an address or faults.
LEMMA WalkResult ==
  ASSUME NEW a, NEW access, NEW c, NEW sw, NEW r, r = Walk(a, access, c, sw)
  PROVE  r.ok => r = Reached(r.to)
<1> DEFINE first == IF c.s1 = "sv39" THEN Stage1(a, access, sw) ELSE Reached(a)
           isMsi == first.ok /\ c.msi = "flat" /\ IsMsi(first.to)
           R(x) == (\E b : x = Reached(b)) \/ (\E b : x = Fault(b))
<1>1. r = CASE isMsi -> Reached(<<"msi", InterruptFile(first.to[2])>>)
            [] ~isMsi /\ first.ok /\ c.s2 = "sv39x4" -> Stage2(first.to, access, sw)
            [] OTHER -> first
  BY Zenon DEF Walk
<1>2. \A b : R(Reached(b)) /\ R(Fault(b))
  OBVIOUS
<1>3. R(Stage1(a, access, sw))
  <2>1. CASE a[1] # "v"
    BY <2>1, <1>2, Zenon DEF Stage1
  <2>2. CASE a[1] = "v" /\ a[2] \in Superpages
    BY <2>2, <1>2, Zenon DEF Stage1
  <2>3. CASE a[1] = "v" /\ a[2] \notin Superpages
    <3>1. Stage1(a, access, sw) =
            IF Right(access) \in Stage1Perm(a[2])
            THEN Reached(<<"v", Switched(a[2], "s1" \in sw)>>)
            ELSE Fault(IF access = "read" THEN "LOAD_PAGE_FAULT" ELSE "STORE_PAGE_FAULT")
      BY <2>3, Zenon DEF Stage1
    <3> HIDE DEF R
    <3> QED BY <3>1, <1>2, Zenon
  <2> QED BY <2>1, <2>2, <2>3
<1>4. R(first)
  BY <1>2, <1>3
<1> DEFINE b == first.to
<1>5. R(Stage2(b, access, sw))
  <2> HIDE DEF b
  <2>1. CASE b[1] # "v"
    BY <2>1, <1>2, Zenon DEF Stage2
  <2>2. CASE b[1] = "v" /\ b[2] \in Superpages
    BY <2>2, <1>2, Zenon DEF Stage2
  <2>3. CASE b[1] = "v" /\ b[2] \notin Superpages
    <3>1. Stage2(b, access, sw) =
            IF Right(access) \in Stage2Perm(b[2])
            THEN Reached(<<"p", Switched(b[2], "s2" \in sw)>>)
            ELSE Fault(IF access = "read" THEN "LOAD_GUEST_PAGE_FAULT" ELSE "STORE_GUEST_PAGE_FAULT")
      BY <2>3, Zenon DEF Stage2
    <3> HIDE DEF R
    <3> QED BY <3>1, <1>2, Zenon
  <2> QED BY <2>1, <2>2, <2>3
<1> HIDE DEF R, first, isMsi
<1>6. R(r)
  <2>1. CASE isMsi
    BY <1>1, <1>2, <2>1, Zenon
  <2>2. CASE ~isMsi /\ first.ok /\ c.s2 = "sv39x4"
    BY <1>1, <1>5, <2>2, Zenon DEF b
  <2>3. CASE ~isMsi /\ ~(first.ok /\ c.s2 = "sv39x4")
    BY <1>1, <1>4, <2>3, Zenon
  <2> QED BY <2>1, <2>2, <2>3
<1> QED BY <1>6 DEF R, Reached, Fault

\* What is translated on physical and on virtual addresses, cached or not.
LEMMA TranslatedPhysical ==
  ASSUME ddtp \in {"bare", "1lvl"}, NEW tlb, \A e \in tlb : Sound(e), NEW t, NEW access
  PROVE  Translated(p(t), access, tlb) = Reached(p(t))
<1> DEFINE r == Translated(p(t), access, tlb)
           hits == Hits(p(t), access, tlb)
           hit == CHOOSE e \in hits : TRUE
<1>1. CASE ddtp = "bare"
  BY <1>1, Zenon DEF Translated
<1>2. CASE ddtp = "1lvl" /\ hits # {}
  <2>1. r = Reached(hit.to)
    BY <1>2, Zenon DEF Translated
  <2>2. hit \in hits
    BY <1>2
  <2>3. hit \in tlb /\ hit.iova = p(t)
    BY <2>2 DEF Hits
  <2> HIDE DEF r, hit
  <2>4. hit.to = p(t)
    BY <2>3, Places DEF Sound
  <2> QED BY <2>1, <2>4 DEF r
<1>3. CASE ddtp = "1lvl" /\ hits = {}
  <2>1. r = Walk(p(t), access, InUse, swapped)
    BY <1>3, Zenon DEF Translated
  <2> QED BY <2>1, WalkPhysical, Zenon
<1> QED BY <1>1, <1>2, <1>3

LEMMA TranslatedVirtual ==
  ASSUME ddtp = "1lvl", NEW tlb, \A e \in tlb : Sound(e), NEW t, t \notin Switches, NEW access,
         InUse \in ContextValues, InUse.s2 = "sv39x4", InUse.msi = "flat"
  PROVE  Translated(v(t), access, tlb) = Walk(v(t), access, InUse, {})
<1> DEFINE r == Translated(v(t), access, tlb)
           hits == Hits(v(t), access, tlb)
           hit == CHOOSE e \in hits : TRUE
           c == InUse
<1>1. CASE hits # {}
  <2>1. r = Reached(hit.to)
    BY <1>1, Zenon DEF Translated
  <2>2. hit \in hits
    BY <1>1
  <2>3. hit \in tlb /\ hit.iova = v(t) /\ hit.access = access /\ hit.s1 = c.s1 /\ hit.s2 = c.s2
    BY <2>2 DEF Hits
  <2> HIDE DEF r, hit, c
  <2>4. hit.iova[2] = t /\ hit.iova # p(hit.iova[2])
    BY <2>3, Places, Zenon
  <2>5. Reached(hit.to) = WalkAgain(hit, {})
    BY <2>3, <2>4, Zenon DEF Sound, c
  <2>6. c = [s1 |-> hit.s1, s2 |-> hit.s2, msi |-> "flat"]
    BY <2>3 DEF ContextValues, c
  <2>7. WalkAgain(hit, {}) = Walk(v(t), access, c, {})
    BY <2>3, <2>6, Zenon DEF WalkAgain
  <2> QED BY <2>1, <2>5, <2>7 DEF r, c
<1>2. CASE hits = {}
  <2>1. r = Walk(v(t), access, c, swapped)
    BY <1>2, Zenon DEF Translated
  <2> QED BY <2>1, WalkElsewhere, Zenon
<1> QED BY <1>1, <1>2

\* What is cached follows the tables.
LEMMA FilledSound ==
  ASSUME NEW tlb, \A e \in tlb : Sound(e), NEW t, NEW access, NEW a \in {v(t), p(t)},
         InUse \in ContextValues, ddtp = "1lvl" => Flat(InUse)
  PROVE  \A e \in Filled(a, access, tlb) : Sound(e)
<1> DEFINE r == Translated(a, access, tlb)
           e == [iova |-> a, access |-> access, s1 |-> InUse.s1, s2 |-> InUse.s2, to |-> r.to]
<1>1. \/ Filled(a, access, tlb) = tlb
      \/ Filled(a, access, tlb) = tlb \cup {e} /\ ddtp = "1lvl" /\ r.ok
  BY Zenon DEF Filled
<1>2. ASSUME ddtp = "1lvl", r.ok
      PROVE  Sound(e)
  <2>1. /\ e.iova = a /\ e.access = access /\ e.s1 = InUse.s1 /\ e.s2 = InUse.s2 /\ e.to = r.to
    OBVIOUS
  <2>2. CASE a = p(t)
    <3>1. r = Reached(p(t))
      BY <1>2, <2>2, TranslatedPhysical
    <3> HIDE DEF r, e
    <3>2. e.to = a /\ e.iova[2] = t
      BY <2>1, <2>2, <3>1, Places DEF Reached
    <3> QED BY <2>1, <2>2, <3>2 DEF Sound
  <2>3. CASE a = v(t) /\ t \notin Switches /\ InUse.s2 = "sv39x4"
    <3>1. InUse.msi = "flat"
      BY <1>2, <2>3 DEF Flat
    <3>2. r = Walk(a, access, InUse, {})
      BY <1>2, <2>3, <3>1, TranslatedVirtual, Zenon
    <3> HIDE DEF r, e
    <3>3. r = Reached(r.to)
      BY <1>2, <3>2, WalkResult
    <3>4. InUse = [s1 |-> e.s1, s2 |-> e.s2, msi |-> "flat"]
      BY <2>1, <3>1 DEF ContextValues
    <3>5. Reached(e.to) = WalkAgain(e, {})
      BY <2>1, <3>2, <3>3, <3>4, Zenon DEF WalkAgain
    <3>6. e.iova[2] = t
      BY <2>1, <2>3, Places
    <3> QED BY <2>1, <2>3, <3>5, <3>6 DEF Sound
  <2>4. CASE a = v(t) /\ (t \in Switches \/ InUse.s2 # "sv39x4")
    <3> HIDE DEF r, e
    <3>1. e.iova[2] = t
      BY <2>1, <2>4, Places
    <3> QED BY <2>1, <2>4, <3>1 DEF Sound
  <2> QED BY <2>2, <2>3, <2>4
<1> HIDE DEF r, e
<1> QED BY <1>1, <1>2

-----------------------------------------------------------------------------
(* A step of the hart, variable by variable *)

\* What step op changes, but for what transfers and translations do.
Effects(op) ==
  /\ Doing(op) /\ UNCHANGED <<suite, index, cqh>>
  /\ ddtp' = IF op = "ddtp" THEN Step.mode ELSE ddtp
  /\ dc' = IF op = "context" THEN [dc EXCEPT ![Step.field] = Step.mode] ELSE dc
  /\ igs' = IF op = "igs" THEN Step.mode ELSE igs
  /\ cq' = IF op = "command" THEN Append(cq, Step.command) ELSE cq
  /\ swapped' = IF op = "switch" THEN (swapped \ {Step.stage}) \cup ({Step.stage} \ swapped)
                ELSE swapped
  /\ masked' = IF op = "unmask" THEN masked \ {"cip"} ELSE masked
  /\ cqhRead' = IF op = "cqh" THEN cqh ELSE cqhRead
  /\ csr' = IF op = "cqcsr" THEN events ELSE csr
  /\ events' = IF op = "set_cqcsr" THEN events \ csr ELSE events
  /\ op = "poll" => "cycles" \in overflowed
  /\ op # "assert" => falsified' = falsified
  /\ op = "assert" => falsified' = IF Holds(Step.holds) THEN falsified
                                   ELSE falsified \cup {<<test, pc>>}
  /\ op # "record" => record' = record /\ status' = IF op = "end" THEN "main" ELSE status
  /\ op = "record" =>
       IF fq = << >> THEN status' = "error" /\ fq' = fq /\ record' = record
       ELSE status' = status /\ fq' = Tail(fq) /\ record' = Head(fq)
  /\ op = "cqh" => excused' = IF cqh = CqEntries - 1 THEN excused \cup {test} ELSE excused
  /\ op = "command" => excused' = IF Reserved(Step.command) THEN excused \cup {test} ELSE excused

\* The rest of it, for all other steps.
Calm(op) ==
  /\ UNCHANGED <<ddtc, iotlb, response>>
  /\ ipsr' = IF op = "clear_ipsr" THEN ipsr \ Cleared ELSE ipsr
  /\ held' = IF op = "unmask" THEN held \ {"cip"} ELSE held
  /\ op \notin {"store", "unmask"} => mem' = mem
  /\ op = "store" => mem' = Put(mem, Step.at, Step.value)
  /\ op = "unmask" => mem' = WithMessages(mem, held \cap {"cip"})
  /\ armed' = IF op = "arm" THEN armed \cup {Step.counter} ELSE armed
  /\ overflowed' = IF op = "arm" THEN overflowed \ ({Step.counter} \cap {"cycles"})
                   ELSE overflowed
  /\ op # "record" => fq' = fq
  /\ op \notin {"cqh", "command"} => excused' = excused

Ops == {"ddtp", "context", "igs", "command", "store", "switch", "arm", "poll", "cqh", "cqcsr",
        "set_cqcsr", "clear_ipsr", "unmask", "transfer", "translate", "record", "assert", "end"}

LEMMA HartEffects ==
  ASSUME Hart
  PROVE  \/ CallTest \/ Summary \/ FallOff
         \/ DmaTransfer /\ Effects("transfer")
         \/ DebugTranslate /\ Effects("translate")
         \/ \E op \in Ops \ {"transfer", "translate"} : Effects(op) /\ Calm(op)
<1> USE DEF Effects, Calm, main, caches, queue, reads, irq, control, count, results
<1>1. CASE SetDdtp
  <2>1. Effects("ddtp") /\ Calm("ddtp")
    BY <1>1, SMT DEF SetDdtp
  <2> QED BY <2>1 DEF Ops
<1>2. CASE SetContext
  <2>1. Effects("context") /\ Calm("context")
    BY <1>2, SMT DEF SetContext
  <2> QED BY <2>1 DEF Ops
<1>3. CASE SetIgs
  <2>1. Effects("igs") /\ Calm("igs")
    BY <1>3, SMT DEF SetIgs
  <2> QED BY <2>1 DEF Ops
<1>4. CASE WriteCommand
  <2>1. Effects("command") /\ Calm("command")
    BY <1>4, SMT DEF WriteCommand
  <2> QED BY <2>1 DEF Ops
<1>5. CASE WriteMemory
  <2>1. Effects("store") /\ Calm("store")
    BY <1>5, SMT DEF WriteMemory
  <2> QED BY <2>1 DEF Ops
<1>6. CASE SwitchTables
  <2>1. Effects("switch") /\ Calm("switch")
    BY <1>6, SMT DEF SwitchTables
  <2> QED BY <2>1 DEF Ops
<1>7. CASE ArmCounter
  <2>1. Effects("arm") /\ Calm("arm")
    BY <1>7, SMT DEF ArmCounter
  <2> QED BY <2>1 DEF Ops
<1>8. CASE LeavePoll
  <2>1. Effects("poll") /\ Calm("poll")
    BY <1>8, SMT DEF LeavePoll
  <2> QED BY <2>1 DEF Ops
<1>9. CASE ReadCqh
  <2>1. Effects("cqh") /\ Calm("cqh")
    BY <1>9, SMT DEF ReadCqh
  <2> QED BY <2>1 DEF Ops
<1>10. CASE ReadCsr
  <2>1. Effects("cqcsr") /\ Calm("cqcsr")
    BY <1>10, SMT DEF ReadCsr
  <2> QED BY <2>1 DEF Ops
<1>11. CASE WriteCsr
  <2>1. Effects("set_cqcsr") /\ Calm("set_cqcsr")
    BY <1>11, SMT DEF WriteCsr
  <2> QED BY <2>1 DEF Ops
<1>12. CASE ClearIpsrFip
  <2>1. Effects("clear_ipsr") /\ Calm("clear_ipsr")
    BY <1>12, SMT DEF ClearIpsrFip
  <2> QED BY <2>1 DEF Ops
<1>13. CASE Unmask
  <2>1. Effects("unmask") /\ Calm("unmask")
    BY <1>13, SMT DEF Unmask
  <2> QED BY <2>1 DEF Ops
<1>14. CASE DmaTransfer
  <2>1. Effects("transfer")
    BY <1>14, SMT DEF DmaTransfer
  <2> QED BY <1>14, <2>1
<1>15. CASE DebugTranslate
  <2>1. Effects("translate")
    BY <1>15, SMT DEF DebugTranslate
  <2> QED BY <1>15, <2>1
<1>16. CASE ReadFaultRecord
  <2>1. Effects("record") /\ Calm("record")
    BY <1>16, SMT DEF ReadFaultRecord
  <2> QED BY <2>1 DEF Ops
<1>17. CASE CheckAssertion
  <2>1. Effects("assert") /\ Calm("assert")
    BY <1>17, SMT DEF CheckAssertion
  <2> QED BY <2>1 DEF Ops
<1>18. CASE EndTest
  <2>1. Effects("end") /\ Calm("end")
    BY <1>18, SMT DEF EndTest
  <2> QED BY <2>1 DEF Ops
<1> HIDE DEF Effects, Calm
<1> QED
  BY <1>1, <1>2, <1>3, <1>4, <1>5, <1>6, <1>7, <1>8, <1>9, <1>10, <1>11, <1>12, <1>13, <1>14,
     <1>15, <1>16, <1>17, <1>18 DEF Hart

-----------------------------------------------------------------------------
(* What the programs do where *)

Page(a) == a \in {v(a[2]), p(a[2])}
HpmPages == {"HPM_R", "HPM_W"}
Owners == {"second_stage_only", "two_stage_translation", "mrif_support"}

\* How tests set up the regime and the device context.
SetsUp(t, i, s) ==
  /\ s.op = "ddtp" => s.mode = Regime(t)
  /\ i = 1 => s.op = "ddtp"
  /\ t \notin {"iommu_off", "iommu_bare", "iofence"} =>
       /\ i = 2 => s.op = "context" /\ s.field = "s1"
       /\ i = 3 => s.op = "context" /\ s.field = "s2"
       /\ i = 4 /\ t # "both_stages_bare" => s.op = "context" /\ s.field = "msi"
       /\ s.op \in {"transfer", "translate"} => i >= 5
  /\ s.op \in {"transfer", "translate"} => t # "iofence" /\ i > 1
  /\ s.op = "context" =>
       /\ s.field = "s1" => s.mode = Wanted1(t, i + 1)
       /\ s.field = "s2" => s.mode = Wanted2(t)
       /\ s.field = "msi" => s.mode = "flat"
  /\ ~(s.op = "context" /\ s.field = "s1") /\ i > 1 => Wanted1(t, i + 1) = Wanted1(t, i)

\* Where they queue commands, and what the IOMMU is to keep of a context.
Queues(t, i, s) ==
  /\ s.op = "command" => Queued(t, i + 1) = <<s.command>> /\ i < Len(Program[t])
  /\ s.op = "clear_ipsr" => i < Len(Program[t])
  /\ t \in Owners =>
       /\ s.op = "command" => s.command = "ddt_inval"
       /\ i = 5 \/ (t = "mrif_support" /\ i = 12) => s.op = "command"
       /\ s.op = "context" /\ i >= 5 => t = "mrif_support" /\ i = 11

\* Which pages they use, and where they exchange entries and arm counters.
Touches(t, i, s) ==
  /\ s.op = "transfer" =>
       /\ Page(s.src) /\ Page(s.dst) /\ s.src[2] \notin Switches
       /\ s.dst[2] \in Switches => t = "iotinval" /\ i >= 9
       /\ s.src[2] \in HpmPages \/ s.dst[2] \in HpmPages => t = "hpm" /\ i = 21
  /\ s.op = "translate" => Page(s.iova) /\ s.iova[2] \notin Switches \cup HpmPages
  /\ s.op = "switch" => t = "iotinval" /\ ((i = 12 /\ s.stage = "s1") \/ (i = 19 /\ s.stage = "s2"))
  /\ t = "iotinval" /\ i \in {12, 19} => s.op = "switch"
  /\ s.op = "arm" => /\ t = "hpm" /\ i \in {7, 13, 20}
                     /\ s.counter = IF i = 20 THEN "iohpmctr3" ELSE "cycles"
  /\ t = "hpm" /\ i \in {8, 14} => s.op = "poll"

LEMMA SetsUpRight ==
  ASSUME NEW t \in DOMAIN Program, NEW i \in 1 .. Len(Program[t])
  PROVE  SetsUp(t, i, Program[t][i])
<1> USE DEF SetsUp, Regime, Wanted1, Wanted2, TwoStageTests,
       Ddtp, Context, Igs, Command, Store, Transfer, Switch, Arm,
       Translate, ReadRecord, GetCqh, GetCqcsr, SetCqcsr, ClearIpsr, UnmaskCQ, PollCycles, Expect,
       TestEnd
<1>1. CASE t = "iommu_off"
  BY <1>1, ProgramIs, IommuOffSteps, SMT
<1>2. CASE t = "iommu_bare"
  BY <1>2, ProgramIs, IommuBareSteps, SMT
<1>3. CASE t = "both_stages_bare"
  BY <1>3, ProgramIs, BothStagesBareSteps, SMT
<1>4. CASE t = "second_stage_only"
  BY <1>4, ProgramIs, SecondStageOnlySteps, SMT
<1>5. CASE t = "two_stage_translation"
  BY <1>5, ProgramIs, TwoStageTranslationSteps, SMT
<1>6. CASE t = "iotinval"
  BY <1>6, ProgramIs, IotinvalSteps, SMT
<1>7. CASE t = "wsi_generation"
  BY <1>7, ProgramIs, WsiGenerationSteps, SMT
<1>8. CASE t = "iofence"
  BY <1>8, ProgramIs, IofenceSteps, SMT
<1>9. CASE t = "msi_generation"
  BY <1>9, ProgramIs, MsiGenerationSteps, SMT
<1>10. CASE t = "hpm"
  BY <1>10, ProgramIs, HpmSteps, SMT
<1>11. CASE t = "mrif_support"
  BY <1>11, ProgramIs, MrifSupportSteps, SMT
<1>12. CASE t = "dbg_interface"
  BY <1>12, ProgramIs, DbgInterfaceSteps, SMT
<1> QED BY <1>1, <1>2, <1>3, <1>4, <1>5, <1>6, <1>7, <1>8, <1>9, <1>10, <1>11, <1>12, ProgramIs

LEMMA QueuesRight ==
  ASSUME NEW t \in DOMAIN Program, NEW i \in 1 .. Len(Program[t])
  PROVE  Queues(t, i, Program[t][i])
<1> USE DEF Queues, Queued, Owners,
       Ddtp, Context, Igs, Command, Store, Transfer, Switch, Arm,
       Translate, ReadRecord, GetCqh, GetCqcsr, SetCqcsr, ClearIpsr, UnmaskCQ, PollCycles, Expect,
       TestEnd
<1>1. CASE t = "iommu_off"
  BY <1>1, ProgramIs, IommuOffSteps, SMT
<1>2. CASE t = "iommu_bare"
  BY <1>2, ProgramIs, IommuBareSteps, SMT
<1>3. CASE t = "both_stages_bare"
  BY <1>3, ProgramIs, BothStagesBareSteps, SMT
<1>4. CASE t = "second_stage_only"
  BY <1>4, ProgramIs, SecondStageOnlySteps, SMT
<1>5. CASE t = "two_stage_translation"
  BY <1>5, ProgramIs, TwoStageTranslationSteps, SMT
<1>6. CASE t = "iotinval"
  BY <1>6, ProgramIs, IotinvalSteps, SMTT(30)
<1>7. CASE t = "wsi_generation"
  BY <1>7, ProgramIs, WsiGenerationSteps, SMT
<1>8. CASE t = "iofence"
  BY <1>8, ProgramIs, IofenceSteps, SMT
<1>9. CASE t = "msi_generation"
  BY <1>9, ProgramIs, MsiGenerationSteps, SMT
<1>10. CASE t = "hpm"
  BY <1>10, ProgramIs, HpmSteps, SMTT(30)
<1>11. CASE t = "mrif_support"
  BY <1>11, ProgramIs, MrifSupportSteps, SMTT(30)
<1>12. CASE t = "dbg_interface"
  BY <1>12, ProgramIs, DbgInterfaceSteps, SMT
<1> QED BY <1>1, <1>2, <1>3, <1>4, <1>5, <1>6, <1>7, <1>8, <1>9, <1>10, <1>11, <1>12, ProgramIs

LEMMA TouchesRight ==
  ASSUME NEW t \in DOMAIN Program, NEW i \in 1 .. Len(Program[t])
  PROVE  Touches(t, i, Program[t][i])
<1> USE Places DEF Touches, Page, Switches, HpmPages,
       Ddtp, Context, Igs, Command, Store, Transfer, Switch, Arm,
       Translate, ReadRecord, GetCqh, GetCqcsr, SetCqcsr, ClearIpsr, UnmaskCQ, PollCycles, Expect,
       TestEnd
<1>1. CASE t = "iommu_off"
  BY <1>1, ProgramIs, IommuOffSteps, SMT
<1>2. CASE t = "iommu_bare"
  BY <1>2, ProgramIs, IommuBareSteps, SMT
<1>3. CASE t = "both_stages_bare"
  BY <1>3, ProgramIs, BothStagesBareSteps, SMT
<1>4. CASE t = "second_stage_only"
  BY <1>4, ProgramIs, SecondStageOnlySteps, SMT
<1>5. CASE t = "two_stage_translation"
  BY <1>5, ProgramIs, TwoStageTranslationSteps, SMT
<1>6. CASE t = "iotinval"
  BY <1>6, ProgramIs, IotinvalSteps, SMT
<1>7. CASE t = "wsi_generation"
  BY <1>7, ProgramIs, WsiGenerationSteps, SMT
<1>8. CASE t = "iofence"
  BY <1>8, ProgramIs, IofenceSteps, SMT
<1>9. CASE t = "msi_generation"
  BY <1>9, ProgramIs, MsiGenerationSteps, SMT
<1>10. CASE t = "hpm"
  BY <1>10, ProgramIs, HpmSteps, SMT
<1>11. CASE t = "mrif_support"
  BY <1>11, ProgramIs, MrifSupportSteps, SMT
<1>12. CASE t = "dbg_interface"
  BY <1>12, ProgramIs, DbgInterfaceSteps, SMT
<1> QED BY <1>1, <1>2, <1>3, <1>4, <1>5, <1>6, <1>7, <1>8, <1>9, <1>10, <1>11, <1>12, ProgramIs

-----------------------------------------------------------------------------
(* What holds in every state *)

\* Where a step of the hart stands.
LEMMA Stands ==
  ASSUME TypeInv, NEW op \in Ops, Effects(op)
  PROVE  /\ test \in DOMAIN Program /\ pc \in 1 .. Len(Program[test]) /\ pc \in Nat \ {0}
         /\ Step = Program[test][pc] /\ Step.op = op /\ TypedStep(Step)
         /\ status = "running" /\ pc' = pc + 1 /\ test' = test /\ lag' = lag
         /\ SetsUp(test, pc, Step) /\ Queues(test, pc, Step) /\ Touches(test, pc, Step)
<1>1. Doing(op) /\ UNCHANGED <<suite, index>>
  BY DEF Effects
<1>2. Loop
  BY DEF TypeInv
<1>3. /\ test \in DOMAIN Program /\ pc \in 1 .. Len(Program[test])
      /\ Step = Program[test][pc] /\ Step.op = op /\ TypedStep(Step)
      /\ status = "running" /\ pc' = pc + 1 /\ lag' = lag
  BY <1>1, <1>2, StepOf
<1>4. test' = test
  BY <1>1 DEF test
<1>5. pc \in Nat \ {0}
  BY <1>2 DEF Loop
<1> QED BY <1>3, <1>4, <1>5, SetsUpRight, QueuesRight, TouchesRight

\* A step of the hart in a test.
LEMMA HartOps ==
  ASSUME Hart
  PROVE  CallTest \/ Summary \/ FallOff \/ \E op \in Ops : Effects(op)
BY HartEffects DEF Ops

\* The context in use is never one that translates MSI addresses otherwise.
LEMMA InContext ==
  ASSUME TypeInv, Frame, NEW op \in {"transfer", "translate"}, Effects(op)
  PROVE  /\ ddtp = Regime(test) /\ InUse \in ContextValues
         /\ ddtp = "1lvl" => Flat(dc) /\ Flat(InUse)
<1>1. op \in Ops
  BY DEF Ops
<1>2. /\ SetsUp(test, pc, Step) /\ status = "running" /\ Step.op = op /\ pc \in Nat
  BY <1>1, Stands
<1>3. pc > 1 /\ test # "iofence"
  BY <1>2 DEF SetsUp
<1>4. ddtp = Regime(test)
  BY <1>2, <1>3 DEF Frame, Prepared
<1>5. InUse \in ContextValues /\ InUse \in {dc, ddtc}
  BY DEF TypeInv, Hardware, InUse
<1>6. ASSUME ddtp = "1lvl" PROVE Flat(dc)
  <2>1. test \notin {"iommu_off", "iommu_bare", "iofence"}
    BY <1>3, <1>4, <1>6 DEF Regime
  <2>2. pc >= 5
    BY <1>2, <2>1 DEF SetsUp
  <2>3. dc.s2 = Wanted2(test) /\ (test # "both_stages_bare" => dc.msi = "flat")
    BY <1>2, <2>1, <2>2 DEF Frame, Prepared
  <2> QED BY <2>3 DEF Flat, Wanted2
<1> QED BY <1>4, <1>5, <1>6 DEF Frame

LEMMA FilledBySteps ==
  ASSUME TypeInv, Frame, NEW op \in {"transfer", "translate"}, Effects(op),
         NEW a, Page(a), NEW access, NEW tlb, \A e \in tlb : Sound(e)
  PROVE  \A e \in Filled(a, access, tlb) : Sound(e)
<1> DEFINE t == a[2]
<1>1. a \in {v(t), p(t)}
  BY DEF Page
<1>2. InUse \in ContextValues /\ (ddtp = "1lvl" => Flat(InUse))
  BY InContext
<1> HIDE DEF t
<1> QED BY <1>1, <1>2, FilledSound

LEMMA CachesStep ==
  ASSUME TypeInv, Frame, [Next]_vars
  PROVE  Flat(ddtc') /\ (\A e \in iotlb' : Sound(e)) /\ masked' \subseteq {"cip"}
<1> USE DEF caches, irq, control
<1>0. Flat(ddtc) /\ (\A e \in iotlb : Sound(e)) /\ masked \subseteq {"cip"}
  BY DEF Frame
<1>1. CASE Execute
  <2>1. Flat(ddtc')
    BY <1>0, <1>1 DEF Execute, Invalidate, Flat, NoContext
  <2>2. iotlb' \subseteq iotlb /\ masked' = masked
    BY <1>1 DEF Execute, Invalidate
  <2> QED BY <1>0, <2>1, <2>2
<1>2. CASE Reject \/ Signal \/ CyclesOverflow
  BY <1>0, <1>2 DEF Reject, Signal, CyclesOverflow
<1>3. CASE DmaTransfer
  <2>1. Effects("transfer")
    BY <1>3, SMT DEF Effects, DmaTransfer, main, queue, reads, results
  <2> DEFINE tlb == Filled(Step.src, "read", iotlb)
  <2>2. /\ ddtc' = (IF ddtp = "1lvl" THEN InUse ELSE ddtc)
        /\ iotlb' = Filled(Step.dst, "write", tlb)
    BY <1>3 DEF DmaTransfer
  <2>3. Touches(test, pc, Step) /\ Step.op = "transfer"
    BY <2>1, Stands DEF Ops
  <2>4. Page(Step.src) /\ Page(Step.dst)
    BY <2>3 DEF Touches
  <2>5. \A e \in tlb : Sound(e)
    BY <1>0, <2>1, <2>4, FilledBySteps
  <2> HIDE DEF tlb
  <2>6. \A e \in iotlb' : Sound(e)
    BY <2>1, <2>2, <2>4, <2>5, FilledBySteps
  <2>7. Flat(ddtc')
    BY <1>0, <2>1, <2>2, InContext
  <2> QED BY <1>0, <1>3, <2>6, <2>7 DEF DmaTransfer
<1>4. CASE DebugTranslate
  <2>1. Effects("translate")
    BY <1>4, SMT DEF Effects, DebugTranslate, main, queue, results
  <2>2. /\ ddtc' = (IF ddtp = "1lvl" THEN InUse ELSE ddtc)
        /\ iotlb' = Filled(Step.iova, "write", iotlb)
    BY <1>4 DEF DebugTranslate
  <2>3. Touches(test, pc, Step) /\ Step.op = "translate"
    BY <2>1, Stands DEF Ops
  <2>4. Page(Step.iova)
    BY <2>3 DEF Touches
  <2>5. \A e \in iotlb' : Sound(e)
    BY <1>0, <2>1, <2>2, <2>4, FilledBySteps
  <2>6. Flat(ddtc')
    BY <1>0, <2>1, <2>2, InContext
  <2> QED BY <1>0, <1>4, <2>5, <2>6 DEF DebugTranslate
<1>5. CASE CallTest \/ Summary \/ FallOff \/ UNCHANGED vars
  BY <1>0, <1>5 DEF CallTest, Summary, FallOff, vars
<1>6. CASE \E op \in Ops \ {"transfer", "translate"} : Effects(op) /\ Calm(op)
  BY <1>0, <1>6 DEF Effects, Calm
<1> QED BY <1>1, <1>2, <1>3, <1>4, <1>5, <1>6, HartEffects DEF Next, IOMMU

\* A test goes on with the regime and the context it has set up.
LEMMA PreparedStep ==
  ASSUME TypeInv, Prepared, [Next]_vars
  PROVE  Prepared'
<1>1. CASE IOMMU \/ UNCHANGED vars
  <2>1. UNCHANGED <<suite, index, status, pc, ddtp, dc>>
    BY <1>1 DEF IOMMU, Execute, Reject, Signal, CyclesOverflow, main, vars
  <2> QED BY <2>1 DEF Prepared, test
<1>2. CASE CallTest
  BY <1>2 DEF CallTest, Prepared
<1>3. CASE Summary \/ FallOff
  BY <1>3 DEF Summary, FallOff, Prepared
<1>4. ASSUME NEW op \in Ops, Effects(op)
      PROVE  Prepared'
  <2> SUFFICES ASSUME status' = "running"
               PROVE  /\ ddtp' = Regime(test)
                      /\ test \notin {"iommu_off", "iommu_bare", "iofence"} =>
                           /\ pc + 1 >= 3 => dc'.s1 = Wanted1(test, pc + 1)
                           /\ pc + 1 >= 4 => dc'.s2 = Wanted2(test)
                           /\ pc + 1 >= 5 /\ test # "both_stages_bare" => dc'.msi = "flat"
    BY <1>4, Stands DEF Prepared
  <2>1. /\ SetsUp(test, pc, Step) /\ Step.op = op /\ pc \in Nat \ {0} /\ status = "running"
        /\ TypedStep(Step)
    BY <1>4, Stands
  <2>2. /\ ddtp' = IF op = "ddtp" THEN Step.mode ELSE ddtp
        /\ dc' = IF op = "context" THEN [dc EXCEPT ![Step.field] = Step.mode] ELSE dc
    BY <1>4 DEF Effects
  <2>3. ddtp' = Regime(test)
    <3>1. CASE op = "ddtp"
      BY <2>1, <2>2, <3>1 DEF SetsUp
    <3>2. CASE op # "ddtp"
      BY <2>1, <2>2, <3>2 DEF SetsUp, Prepared
    <3> QED BY <3>1, <3>2
  <2>4. ASSUME test \notin {"iommu_off", "iommu_bare", "iofence"}
        PROVE  /\ pc + 1 >= 3 => dc'.s1 = Wanted1(test, pc + 1)
               /\ pc + 1 >= 4 => dc'.s2 = Wanted2(test)
               /\ pc + 1 >= 5 /\ test # "both_stages_bare" => dc'.msi = "flat"
    <3>1. /\ pc >= 3 => dc.s1 = Wanted1(test, pc)
          /\ pc >= 4 => dc.s2 = Wanted2(test)
          /\ pc >= 5 /\ test # "both_stages_bare" => dc.msi = "flat"
      BY <2>1, <2>4 DEF Prepared
    <3>2. dc \in ContextValues
      BY DEF TypeInv, Hardware
    <3>3. CASE op # "context"
      <4>1. pc # 2 /\ pc # 3 /\ (test # "both_stages_bare" => pc # 4)
        BY <2>1, <2>4, <3>3 DEF SetsUp
      <4>2. pc > 1 => Wanted1(test, pc + 1) = Wanted1(test, pc)
        BY <2>1, <3>3 DEF SetsUp
      <4> QED BY <2>1, <2>2, <3>1, <3>3, <4>1, <4>2
    <3>4. CASE op = "context" /\ Step.field = "s1"
      <4>1. pc # 3 /\ (test # "both_stages_bare" => pc # 4) /\ Step.mode = Wanted1(test, pc + 1)
        BY <2>1, <2>4, <3>4 DEF SetsUp
      <4>2. dc'.s1 = Step.mode /\ dc'.s2 = dc.s2 /\ dc'.msi = dc.msi
        BY <2>2, <3>2, <3>4 DEF ContextValues
      <4> QED BY <2>1, <3>1, <4>1, <4>2
    <3>5. CASE op = "context" /\ Step.field = "s2"
      <4>1. pc # 2 /\ (test # "both_stages_bare" => pc # 4) /\ Step.mode = Wanted2(test)
            /\ (pc > 1 => Wanted1(test, pc + 1) = Wanted1(test, pc))
        BY <2>1, <2>4, <3>5 DEF SetsUp
      <4>2. dc'.s1 = dc.s1 /\ dc'.s2 = Step.mode /\ dc'.msi = dc.msi
        BY <2>2, <3>2, <3>5 DEF ContextValues
      <4> QED BY <2>1, <3>1, <4>1, <4>2
    <3>6. CASE op = "context" /\ Step.field = "msi"
      <4>1. pc # 2 /\ pc # 3 /\ Step.mode = "flat"
            /\ (pc > 1 => Wanted1(test, pc + 1) = Wanted1(test, pc))
        BY <2>1, <2>4, <3>6 DEF SetsUp
      <4>2. dc'.s1 = dc.s1 /\ dc'.s2 = dc.s2 /\ dc'.msi = Step.mode
        BY <2>2, <3>2, <3>6 DEF ContextValues
      <4> QED BY <2>1, <3>1, <4>1, <4>2
    <3> QED BY <2>1, <3>3, <3>4, <3>5, <3>6 DEF TypedStep
  <2> QED BY <2>3, <2>4
<1> QED BY <1>1, <1>2, <1>3, <1>4, HartOps DEF Next

\* Whatever happens, a test that is called has not been called before, and
\* one that has gone past a step does not come back to it.
LEMMA BeforeStep ==
  ASSUME TypeInv, [Next]_vars, NEW t, NEW i \in Nat, Before(t, i)'
  PROVE  /\ Before(t, i)
         /\ \A op \in Ops : Effects(op) /\ test = t => status' = "running" /\ pc + 1 <= i
<1>0. Loop
  BY DEF TypeInv
<1>1. CASE IOMMU \/ UNCHANGED vars
  <2>1. UNCHANGED <<suite, index, status, pc>> /\ (IOMMU => ~\E op : Effects(op))
    <3>1. \A op : Effects(op) => pc' # pc
      BY <1>0 DEF Effects, Doing, Loop
    <3> QED BY <1>1, <3>1 DEF IOMMU, Execute, Reject, Signal, CyclesOverflow, main, vars
  <2>2. \A op : Effects(op) => pc' # pc
    BY <1>0 DEF Effects, Doing, Loop
  <2>3. test' = test /\ (Ran(t)' <=> Ran(t))
    BY <2>1 DEF test, Ran
  <2> QED BY <2>1, <2>2, <2>3 DEF Before
<1>2. CASE CallTest
  <2>1. /\ status = "main" /\ status' = "running" /\ suite' = suite /\ index' = index + 1
        /\ index < Len(suite)
    BY <1>2 DEF CallTest
  <2>2. index \in 0 .. Len(suite) /\ Len(suite) \in Nat /\ DOMAIN suite = 1 .. Len(suite)
        /\ \A m, n \in DOMAIN suite : suite[m] = suite[n] => m = n
    BY <1>0 DEF Loop, Table
  <2>3. ~Ran(t)
    <3> SUFFICES ASSUME NEW n \in 1 .. index, suite[n] = t PROVE FALSE
      BY DEF Ran
    <3>1. n \in 1 .. index' /\ n \in DOMAIN suite /\ index' \in DOMAIN suite /\ n # index'
      BY <2>1, <2>2
    <3>2. Ran(t)'
      BY <2>1, <3>1 DEF Ran
    <3>3. test' = t
      BY <3>2 DEF Before
    <3> QED BY <2>1, <2>2, <3>1, <3>3 DEF test
  <2>4. \A op : ~Effects(op)
    BY <2>1 DEF Effects, Doing
  <2> QED BY <2>3, <2>4 DEF Before
<1>3. CASE Summary \/ FallOff
  <2>1. status' \in {"main", "done"} /\ UNCHANGED <<suite, index>>
    BY <1>3 DEF Summary, FallOff
  <2>2. ~Ran(t)
    BY <2>1 DEF Before, Ran
  <2>3. \A op : Effects(op) => pc' # pc
    BY <1>0 DEF Effects, Doing, Loop
  <2>4. pc' = pc
    BY <1>3 DEF Summary, FallOff
  <2> QED BY <2>2, <2>3, <2>4 DEF Before
<1>4. ASSUME NEW op \in Ops, Effects(op)
      PROVE  Before(t, i) /\ (test = t => status' = "running" /\ pc + 1 <= i)
  <2>1. UNCHANGED <<suite, index>> /\ status = "running" /\ pc' = pc + 1 /\ pc \in Nat \ {0}
        /\ index > 0 /\ index \in Nat /\ test' = test
    BY <1>0, <1>4, Stands, StepOf DEF Effects, Loop, Table
  <2>2. Ran(t)' <=> Ran(t)
    BY <2>1 DEF Ran
  <2>3. test = t => Ran(t)
    BY <2>1 DEF Ran, test
  <2>4. Ran(t) => status' = "running" /\ test = t /\ pc + 1 <= i
    BY <2>1, <2>2 DEF Before
  <2>5. Ran(t) => pc <= i
    BY <2>1, <2>4
  <2> QED BY <2>1, <2>3, <2>4, <2>5 DEF Before
<1> QED BY <1>1, <1>2, <1>3, <1>4, HartOps DEF Next

\* Entries are added for the pages of the step only.
LEMMA FilledPage ==
  ASSUME NEW a, NEW access, NEW tlb, NEW e \in Filled(a, access, tlb)
  PROVE  e \in tlb \/ e.iova = a
<1> DEFINE r == Translated(a, access, tlb)
           x == [iova |-> a, access |-> access, s1 |-> InUse.s1, s2 |-> InUse.s2, to |-> r.to]
<1>1. Filled(a, access, tlb) \subseteq tlb \cup {x}
  BY Zenon DEF Filled
<1>2. x.iova = a
  OBVIOUS
<1> HIDE DEF x
<1> QED BY <1>1, <1>2

LEMMA EntriesAdded ==
  ASSUME TypeInv, [Next]_vars, NEW e \in iotlb', e \notin iotlb
  PROVE  \E op \in {"transfer", "translate"} : Effects(op) /\
           \/ op = "transfer" /\ e.iova \in {Step.src, Step.dst}
           \/ op = "translate" /\ e.iova = Step.iova
<1> USE DEF caches
<1>1. ~IOMMU
  BY DEF IOMMU, Execute, Invalidate, Reject, Signal, CyclesOverflow
<1>2. ~(CallTest \/ Summary \/ FallOff \/ UNCHANGED vars)
  BY DEF CallTest, Summary, FallOff, vars
<1>3. ~\E op : Calm(op)
  BY DEF Calm
<1>4. CASE DmaTransfer /\ Effects("transfer")
  <2> DEFINE tlb == Filled(Step.src, "read", iotlb)
  <2>1. e \in Filled(Step.dst, "write", tlb)
    BY <1>4 DEF DmaTransfer
  <2>2. e \in tlb \/ e.iova = Step.dst
    BY <2>1, FilledPage, Zenon
  <2>3. e \in tlb => e.iova = Step.src
    BY FilledPage, Zenon
  <2> QED BY <1>4, <2>2, <2>3
<1>5. CASE DebugTranslate /\ Effects("translate")
  <2>1. e \in Filled(Step.iova, "write", iotlb)
    BY <1>5 DEF DebugTranslate
  <2> QED BY <1>5, <2>1, FilledPage, Zenon
<1> QED BY <1>1, <1>2, <1>3, <1>4, <1>5, HartEffects DEF Next

\* The counters that a step changes.
LEMMA CountersChanged ==
  ASSUME TypeInv, [Next]_vars
  PROVE  \/ UNCHANGED <<armed, overflowed>>
         \/ /\ Effects("arm") /\ armed' = armed \cup {Step.counter}
            /\ overflowed' = overflowed \ ({Step.counter} \cap {"cycles"})
         \/ /\ "iohpmctr3" \in armed /\ Effects("transfer")
            /\ armed' = armed \ {"iohpmctr3"} /\ overflowed' = overflowed \cup {"iohpmctr3"}
         \/ /\ "cycles" \in armed /\ UNCHANGED <<suite, index, status, pc>>
            /\ armed' = armed \ {"cycles"} /\ overflowed' = overflowed \cup {"cycles"}
<1> USE DEF count
<1>1. CASE CyclesOverflow
  BY <1>1 DEF CyclesOverflow, main
<1>2. CASE Execute \/ Reject \/ Signal \/ CallTest \/ Summary \/ FallOff \/ UNCHANGED vars
  BY <1>2 DEF Execute, Reject, Signal, CallTest, Summary, FallOff, vars
<1>3. CASE DmaTransfer /\ Effects("transfer")
  <2>1. PICK counted \in BOOLEAN :
          /\ counted => "iohpmctr3" \in armed
          /\ armed' = IF counted THEN armed \ {"iohpmctr3"} ELSE armed
          /\ overflowed' = IF counted THEN overflowed \cup {"iohpmctr3"} ELSE overflowed
    BY <1>3, Zenon DEF DmaTransfer
  <2> QED BY <1>3, <2>1
<1>4. CASE DebugTranslate
  BY <1>4 DEF DebugTranslate
<1>5. ASSUME NEW op \in Ops, Effects(op), Calm(op)
      PROVE  \/ UNCHANGED <<armed, overflowed>>
             \/ /\ op = "arm" /\ armed' = armed \cup {Step.counter}
                /\ overflowed' = overflowed \ ({Step.counter} \cap {"cycles"})
  BY <1>5 DEF Calm
<1> QED BY <1>1, <1>2, <1>3, <1>4, <1>5, HartEffects DEF Next, IOMMU

\* The tables that are exchanged.
LEMMA SwappedChanged ==
  ASSUME TypeInv, [Next]_vars
  PROVE  \/ /\ Effects("switch")
            /\ swapped' = (swapped \ {Step.stage}) \cup ({Step.stage} \ swapped)
         \/ swapped' = swapped
<1>1. CASE IOMMU \/ CallTest \/ Summary \/ FallOff \/ UNCHANGED vars
  BY <1>1 DEF IOMMU, Execute, Reject, Signal, CyclesOverflow, CallTest, Summary, FallOff, vars
<1>2. ASSUME NEW op \in Ops, Effects(op)
      PROVE  \/ op = "switch" /\ swapped' = (swapped \ {Step.stage}) \cup ({Step.stage} \ swapped)
             \/ swapped' = swapped
  BY <1>2 DEF Effects
<1> QED BY <1>1, <1>2, HartOps DEF Next

\* The steps that leave main's loop and its test alone.
LEMMA IommuQuiet ==
  ASSUME IOMMU \/ UNCHANGED vars
  PROVE  UNCHANGED <<suite, index, lag, status, pc, test, Ran("iotinval"), Ran("hpm"), ddtp, dc, swapped, igs,
                     masked, csr, cqhRead, record, response, fq, falsified, excused, overtook>>
<1>1. UNCHANGED <<suite, index, lag, status, pc, ddtp, dc, swapped, igs,
                  masked, csr, cqhRead, record, response, fq, falsified, excused, overtook>>
  BY DEF IOMMU, Execute, Reject, Signal, CyclesOverflow, main, reads, results, control, vars
<1>2. UNCHANGED <<test, Ran("iotinval"), Ran("hpm")>>
  BY <1>1 DEF test, Ran
<1> QED BY <1>1, <1>2

LEMMA UntouchedTables ==
  ASSUME TypeInv, Untouched, [Next]_vars
  PROVE  /\ Before("iotinval", 12)' => swapped' = {}
         /\ status' = "running" /\ test' = "iotinval" => swapped' = Exchanged(pc')
<1>1. ASSUME Before("iotinval", 12)'
      PROVE  swapped' = {}
  <2>1. /\ Before("iotinval", 12)
        /\ \A op \in Ops : Effects(op) /\ test = "iotinval" => pc + 1 <= 12
    BY <1>1, BeforeStep
  <2>2. swapped = {}
    BY <2>1 DEF Untouched
  <2>3. ~Effects("switch")
    <3> SUFFICES ASSUME Effects("switch") PROVE FALSE
      OBVIOUS
    <3>1. Touches(test, pc, Step) /\ Step.op = "switch" /\ pc \in Nat
      BY Stands DEF Ops
    <3>2. test = "iotinval" /\ pc \in {12, 19}
      BY <3>1 DEF Touches
    <3> QED BY <2>1, <3>1, <3>2 DEF Ops
  <2> QED BY <2>2, <2>3, SwappedChanged
<1>2. ASSUME status' = "running", test' = "iotinval"
      PROVE  swapped' = Exchanged(pc')
  <2>1. CASE IOMMU \/ UNCHANGED vars
    BY <1>2, <2>1, IommuQuiet DEF Untouched
  <2>2. CASE CallTest
    <3>1. pc' = 1 /\ swapped' = swapped
      BY <2>2 DEF CallTest
    <3>2. Before("iotinval", 12)'
      BY <1>2, <3>1 DEF Before
    <3> QED BY <1>1, <3>1, <3>2 DEF Exchanged
  <2>3. CASE Summary \/ FallOff
    BY <1>2, <2>3 DEF Summary, FallOff
  <2>4. ASSUME NEW op \in Ops, Effects(op)
        PROVE  swapped' = Exchanged(pc')
    <3>1. /\ Touches(test, pc, Step) /\ Step.op = op /\ pc \in Nat /\ pc' = pc + 1
          /\ test = "iotinval" /\ status = "running"
      BY <1>2, <2>4, Stands
    <3>2. swapped = Exchanged(pc)
      BY <3>1 DEF Untouched
    <3>3. swapped' = IF op = "switch" THEN (swapped \ {Step.stage}) \cup ({Step.stage} \ swapped)
                     ELSE swapped
      BY <2>4 DEF Effects
    <3>4. CASE op = "switch"
      <4>1. (pc = 12 /\ Step.stage = "s1") \/ (pc = 19 /\ Step.stage = "s2")
        BY <3>1, <3>4 DEF Touches
      <4> QED BY <3>1, <3>2, <3>3, <3>4, <4>1 DEF Exchanged
    <3>5. CASE op # "switch"
      <4>1. pc # 12 /\ pc # 19
        BY <3>1, <3>5 DEF Touches
      <4> QED BY <3>1, <3>2, <3>3, <3>5, <4>1 DEF Exchanged
    <3> QED BY <3>4, <3>5
  <2> QED BY <2>1, <2>2, <2>3, <2>4, HartOps DEF Next
<1> QED BY <1>1, <1>2

LEMMA UntouchedEntries ==
  ASSUME TypeInv, Untouched, [Next]_vars
  PROVE  /\ Before("iotinval", 9)' => OnSwitches(iotlb') = {}
         /\ Before("hpm", 21)' => \A e \in iotlb' : e.iova[2] \notin {"HPM_R", "HPM_W"}
<1>1. ASSUME NEW e \in iotlb', e \notin iotlb
      PROVE  /\ e.iova[2] \in Switches => \E op \in Ops : Effects(op) /\ test = "iotinval" /\ pc >= 9
             /\ e.iova[2] \in HpmPages => \E op \in Ops : Effects(op) /\ test = "hpm" /\ pc = 21
  <2>1. PICK op \in {"transfer", "translate"} : Effects(op) /\
           \/ op = "transfer" /\ e.iova \in {Step.src, Step.dst}
           \/ op = "translate" /\ e.iova = Step.iova
    BY <1>1, EntriesAdded
  <2>2. op \in Ops
    BY DEF Ops
  <2>3. Touches(test, pc, Step) /\ Step.op = op
    BY <2>1, <2>2, Stands
  <2> QED BY <2>1, <2>2, <2>3 DEF Touches
<1>2. ASSUME Before("iotinval", 9)', NEW e \in iotlb', e.iova[2] \in Switches
      PROVE  FALSE
  <2>1. /\ Before("iotinval", 9)
        /\ \A op \in Ops : Effects(op) /\ test = "iotinval" => pc + 1 <= 9
    BY <1>2, BeforeStep
  <2>2. e \notin iotlb
    BY <1>2, <2>1 DEF Untouched, OnSwitches
  <2>3. pc \in Nat
    BY DEF TypeInv, Loop
  <2> QED BY <1>1, <1>2, <2>1, <2>2, <2>3
<1>3. ASSUME Before("hpm", 21)', NEW e \in iotlb', e.iova[2] \in HpmPages
      PROVE  FALSE
  <2>1. /\ Before("hpm", 21)
        /\ \A op \in Ops : Effects(op) /\ test = "hpm" => pc + 1 <= 21
    BY <1>3, BeforeStep
  <2>2. e \notin iotlb
    BY <1>3, <2>1 DEF Untouched, HpmPages
  <2> QED BY <1>1, <1>3, <2>1, <2>2
<1> QED BY <1>2, <1>3 DEF OnSwitches, HpmPages

LEMMA UntouchedCounters ==
  ASSUME TypeInv, Untouched, [Next]_vars
  PROVE  /\ Before("hpm", 7)' => armed' = {} /\ overflowed' = {}
         /\ Before("hpm", 20)' => armed' \cup overflowed' \subseteq {"cycles"}
         /\ "cycles" \in armed' =>
              "cycles" \notin overflowed' /\ status' = "running" /\ test' = "hpm" /\ pc' \in {8, 14}
<1>0. pc \in Nat
  BY DEF TypeInv, Loop
<1>a. ASSUME Effects("arm")
      PROVE  test = "hpm" /\ pc \in {7, 13, 20}
             /\ Step.counter = (IF pc = 20 THEN "iohpmctr3" ELSE "cycles")
  <2>1. Touches(test, pc, Step) /\ Step.op = "arm"
    BY <1>a, Stands DEF Ops
  <2> QED BY <2>1 DEF Touches
<1>1. ASSUME Before("hpm", 7)'
      PROVE  armed' = {} /\ overflowed' = {}
  <2>1. /\ Before("hpm", 7)
        /\ \A op \in Ops : Effects(op) /\ test = "hpm" => pc + 1 <= 7
    BY <1>1, BeforeStep
  <2>2. armed = {} /\ overflowed = {}
    BY <2>1 DEF Untouched
  <2>3. ~Effects("arm")
    BY <1>0, <1>a, <2>1 DEF Ops
  <2> QED BY <2>2, <2>3, CountersChanged
<1>2. ASSUME Before("hpm", 20)'
      PROVE  armed' \cup overflowed' \subseteq {"cycles"}
  <2>1. /\ Before("hpm", 20)
        /\ \A op \in Ops : Effects(op) /\ test = "hpm" => pc + 1 <= 20
    BY <1>2, BeforeStep
  <2>2. armed \cup overflowed \subseteq {"cycles"}
    BY <2>1 DEF Untouched
  <2>3. Effects("arm") => Step.counter = "cycles"
    BY <1>0, <1>a, <2>1 DEF Ops
  <2> QED BY <2>2, <2>3, CountersChanged
<1>3. ASSUME "cycles" \in armed'
      PROVE  "cycles" \notin overflowed' /\ status' = "running" /\ test' = "hpm" /\ pc' \in {8, 14}
  <2>1. "cycles" \in armed =>
          "cycles" \notin overflowed /\ status = "running" /\ test = "hpm" /\ pc \in {8, 14}
    BY DEF Untouched
  <2>2. ASSUME NEW op \in Ops, Effects(op), "cycles" \in armed
        PROVE  FALSE
    <3>1. Touches(test, pc, Step) /\ Step.op = op
      BY <2>2, Stands
    <3>2. op = "poll"
      BY <2>1, <2>2, <3>1 DEF Touches
    <3>3. "cycles" \in overflowed
      BY <2>2, <3>2 DEF Effects
    <3> QED BY <2>1, <2>2, <3>3
  <2>3. CASE Effects("arm")
    <3>1. "arm" \in Ops
      BY DEF Ops
    <3>2. "cycles" \notin armed
      BY <2>2, <2>3, <3>1
    <3>3. /\ armed' = armed \/ armed' = armed \cup {Step.counter}
                \/ armed' = armed \ {"iohpmctr3"} \/ armed' = armed \ {"cycles"}
      BY CountersChanged
    <3>4. Step.counter = "cycles" /\ pc \in {7, 13}
      BY <1>3, <1>a, <2>3, <3>2, <3>3
    <3>5. overflowed' = overflowed \ ({Step.counter} \cap {"cycles"})
      <4>1. armed' # armed /\ armed' # armed \ {"iohpmctr3"} /\ armed' # armed \ {"cycles"}
        BY <1>3, <3>2
      <4> QED BY <4>1, CountersChanged
    <3>6. pc' = pc + 1 /\ test' = test /\ status' = status /\ status = "running"
      BY <2>3, <3>1, Stands DEF Effects
    <3> QED BY <1>a, <2>3, <3>4, <3>5, <3>6
  <2>4. CASE ~Effects("arm")
    <3>1. "cycles" \in armed /\ UNCHANGED <<armed, overflowed>>
      <4>1. ~Effects("transfer") \/ "cycles" \notin armed
        BY <2>2 DEF Ops
      <4> QED BY <1>3, <2>4, <4>1, CountersChanged
    <3>2. ~\E op \in Ops : Effects(op)
      BY <2>2, <3>1
    <3>3. ~CallTest /\ ~Summary
      BY <2>1, <3>1 DEF CallTest, Summary
    <3>4. ~FallOff
      <4>1. FallOff => pc > Len(Program[test])
        BY DEF FallOff
      <4>2. Len(Program["hpm"]) = 26
        BY ProgramIs, HpmSteps, SMT
      <4>3. (pc = 8 \/ pc = 14) /\ Program[test] = Program["hpm"]
        BY <2>1, <3>1
      <4> DEFINE last == Len(Program[test])
      <4>4. last = 26
        BY <4>2, <4>3
      <4> HIDE DEF last
      <4>5. ~(pc > last)
        BY <4>3, <4>4, SMT
      <4> QED BY <4>1, <4>5 DEF last
    <3>5. UNCHANGED <<status, test, pc>>
      BY <3>2, <3>3, <3>4, HartOps, IommuQuiet DEF Next
    <3> QED BY <2>1, <3>1, <3>5
  <2> QED BY <2>3, <2>4
<1> QED BY <1>1, <1>2, <1>3

LEMMA FrameStep ==
  ASSUME TypeInv, Frame, [Next]_vars
  PROVE  Frame'
<1>1. Untouched /\ Prepared
  BY DEF Frame
<1>2. Untouched'
  BY <1>1, UntouchedTables, UntouchedEntries, UntouchedCounters DEF Untouched, OnSwitches
<1> QED BY <1>1, <1>2, CachesStep, PreparedStep DEF Frame, Flat, Sound

-----------------------------------------------------------------------------
(* The command queue *)

\* Interrupts that are pending stay so, until they are cleared.
LEMMA StayPending ==
  ASSUME Hart, ~Effects("clear_ipsr")
  PROVE  ipsr \subseteq ipsr'
<1>1. CASE CallTest \/ Summary \/ FallOff
  BY <1>1 DEF CallTest, Summary, FallOff, irq
<1>2. CASE DmaTransfer
  <2>1. \E causes, m : Pend(causes, m)
    BY <1>2, Zenon DEF DmaTransfer
  <2> QED BY <2>1 DEF Pend
<1>3. CASE DebugTranslate
  <2>1. \E causes, m : Pend(causes, m)
    BY <1>3, Zenon DEF DebugTranslate
  <2> QED BY <2>1 DEF Pend
<1>4. ASSUME NEW op \in Ops, Effects(op), Calm(op)
      PROVE  ipsr \subseteq ipsr'
  BY <1>4 DEF Calm
<1> QED BY <1>1, <1>2, <1>3, <1>4, HartEffects

LEMMA QueuedOne ==
  ASSUME NEW t, NEW i, NEW q, q = Queued(t, i), q # << >>
  PROVE  /\ Tail(q) = << >>
         /\ Head(q) \in {"ddt_inval", "vma", "gvma", "iofence", "illegal"} /\ q = <<Head(q)>>
         /\ Head(q) = "ddt_inval" => t \in Owners /\ i \in {6, 13}
         /\ Head(q) = "vma" => t = "iotinval" /\ i = 16
         /\ Head(q) = "gvma" => t = "iotinval" /\ i = 23
         /\ Head(q) = "iofence" => t = "iofence" /\ i = 4
         /\ Head(q) = "illegal" => t = "msi_generation" /\ i = 8
<1> DEFINE c1 == t \in {"second_stage_only", "two_stage_translation", "mrif_support"} /\ i = 6
           c2 == t = "mrif_support" /\ i = 13
           c3 == t = "iotinval" /\ i = 16
           c4 == t = "iotinval" /\ i = 23
           c5 == t = "iofence" /\ i = 4
           c6 == t = "msi_generation" /\ i = 8
<1>0. q = CASE c1 -> <<"ddt_inval">> [] c2 -> <<"ddt_inval">> [] c3 -> <<"vma">> [] c4 -> <<"gvma">>
            [] c5 -> <<"iofence">> [] c6 -> <<"illegal">> [] OTHER -> << >>
  BY DEF Queued
<1>a. c1 \/ c2 => t \in Owners /\ (i = 6 \/ i = 13)
  BY DEF Owners
<1>1. \/ q = <<"ddt_inval">> /\ t \in Owners /\ (i = 6 \/ i = 13)
      \/ q = <<"vma">> /\ t = "iotinval" /\ i = 16
      \/ q = <<"gvma">> /\ t = "iotinval" /\ i = 23
      \/ q = <<"iofence">> /\ t = "iofence" /\ i = 4
      \/ q = <<"illegal">> /\ t = "msi_generation" /\ i = 8
  <2> HIDE DEF c1, c2, c3, c4, c5, c6
  <2>1. \/ q = <<"ddt_inval">> /\ (c1 \/ c2)
        \/ q = <<"vma">> /\ c3
        \/ q = <<"gvma">> /\ c4
        \/ q = <<"iofence">> /\ c5
        \/ q = <<"illegal">> /\ c6
    BY <1>0, Zenon
  <2> QED BY <1>a, <2>1 DEF c3, c4, c5, c6
<1>2. ASSUME NEW x, q = <<x>>
      PROVE  Tail(q) = << >> /\ Head(q) = x
  BY <1>2
<1>3. PICK x : q = <<x>>
  BY <1>1
<1>4. Tail(q) = << >> /\ Head(q) = x
  BY <1>2, <1>3
<1>5. \/ x = "ddt_inval" /\ t \in Owners /\ (i = 6 \/ i = 13)
      \/ x = "vma" /\ t = "iotinval" /\ i = 16
      \/ x = "gvma" /\ t = "iotinval" /\ i = 23
      \/ x = "iofence" /\ t = "iofence" /\ i = 4
      \/ x = "illegal" /\ t = "msi_generation" /\ i = 8
  <2>1. \A y : q = <<y>> => x = y
    BY <1>3
  <2> QED BY <1>1, <2>1, Zenon
<1> QED BY <1>3, <1>4, <1>5

\* A command waits only where the test has just queued it.
LEMMA WaitingStep ==
  ASSUME TypeInv, Waiting, [Next]_vars
  PROVE  Waiting'
<1> SUFFICES ASSUME status' = "running", test' \notin overtook'
             PROVE  cq' \in {<< >>, Queued(test', pc')}
  BY DEF Waiting
<1>1. CASE IOMMU \/ UNCHANGED vars
  <2>1. UNCHANGED <<status, test, pc, overtook>>
    BY <1>1, IommuQuiet
  <2>2. cq \in {<< >>, Queued(test, pc)}
    BY <2>1 DEF Waiting
  <2>3. cq' = cq \/ (cq # << >> /\ cq' = Tail(cq))
    BY <1>1 DEF IOMMU, Execute, Reject, Signal, CyclesOverflow, Fetching, Consume, queue, vars
  <2> QED BY <2>1, <2>2, <2>3, QueuedOne
<1>2. CASE CallTest
  <2>1. cq' = cq /\ test' = suite[index + 1]
        /\ (Behind => suite[index + 1] \in overtook')
    BY <1>2 DEF CallTest, queue, test
  <2> QED BY <2>1 DEF Behind
<1>3. CASE Summary \/ FallOff
  BY <1>3 DEF Summary, FallOff
<1>4. ASSUME NEW op \in Ops, Effects(op)
      PROVE  cq' \in {<< >>, Queued(test', pc')}
  <2>1. Queues(test, pc, Step) /\ Step.op = op /\ pc' = pc + 1 /\ test' = test
    BY <1>4, Stands
  <2>2. /\ Behind => test \in overtook'
        /\ cq' = IF op = "command" THEN Append(cq, Step.command) ELSE cq
    BY <1>4 DEF Effects, Doing
  <2>3. cq = << >>
    BY <2>1, <2>2 DEF Behind
  <2>4. \A x : Append(<< >>, x) = <<x>>
    OBVIOUS
  <2> QED BY <2>1, <2>2, <2>3, <2>4 DEF Queues
<1> QED BY <1>1, <1>2, <1>3, <1>4, HartOps DEF Next

LEMMA ProgramLengths ==
  ASSUME NEW t \in DOMAIN Program
  PROVE  Len(Program[t]) \in Nat
<1>1. CASE t = "iommu_off"
  BY <1>1, ProgramIs, IommuOffSteps, SMT
<1>2. CASE t = "iommu_bare"
  BY <1>2, ProgramIs, IommuBareSteps, SMT
<1>3. CASE t = "both_stages_bare"
  BY <1>3, ProgramIs, BothStagesBareSteps, SMT
<1>4. CASE t = "second_stage_only"
  BY <1>4, ProgramIs, SecondStageOnlySteps, SMT
<1>5. CASE t = "two_stage_translation"
  BY <1>5, ProgramIs, TwoStageTranslationSteps, SMT
<1>6. CASE t = "iotinval"
  BY <1>6, ProgramIs, IotinvalSteps, SMT
<1>7. CASE t = "wsi_generation"
  BY <1>7, ProgramIs, WsiGenerationSteps, SMT
<1>8. CASE t = "iofence"
  BY <1>8, ProgramIs, IofenceSteps, SMT
<1>9. CASE t = "msi_generation"
  BY <1>9, ProgramIs, MsiGenerationSteps, SMT
<1>10. CASE t = "hpm"
  BY <1>10, ProgramIs, HpmSteps, SMT
<1>11. CASE t = "mrif_support"
  BY <1>11, ProgramIs, MrifSupportSteps, SMT
<1>12. CASE t = "dbg_interface"
  BY <1>12, ProgramIs, DbgInterfaceSteps, SMT
<1> QED BY <1>1, <1>2, <1>3, <1>4, <1>5, <1>6, <1>7, <1>8, <1>9, <1>10, <1>11, <1>12, ProgramIs

\* Where msi_generation and iofence read and clear cqcsr.
LEMMA CsrSteps ==
  /\ \A i \in 8 .. 12 : Program["msi_generation"][i].op =
       IF i = 8 THEN "cqcsr" ELSE IF i = 12 THEN "set_cqcsr" ELSE "assert"
  /\ \A i \in 4 .. 9 : Program["iofence"][i].op =
       IF i = 5 THEN "cqcsr" ELSE IF i = 9 THEN "set_cqcsr" ELSE "assert"
BY ProgramIs, MsiGenerationSteps, IofenceSteps, SMT DEF Expect, GetCqcsr, SetCqcsr

LEMMA RejectingLengths ==
  Len(Program["msi_generation"]) = 18 /\ Len(Program["iofence"]) = 11
BY ProgramIs, MsiGenerationSteps, IofenceSteps, SMT

\* A queue that keeps up has nothing left to do when the hart goes on.
LEMMA KeptUp ==
  ASSUME KeepsUp, ~lag, NEW op, Doing(op)
  PROVE  ~Behind /\ overtook' = {}
BY DEF KeepsUp, Doing, Settled, Behind, Fetching

LEMMA KeepsUpStep ==
  ASSUME TypeInv, Waiting, KeepsUp, [Next]_vars
  PROVE  KeepsUp'
<1>0. pc \in Nat \ {0}
  BY DEF TypeInv, Loop
<1>1. CASE IOMMU \/ UNCHANGED vars
  <2>1. UNCHANGED <<status, test, pc, lag, overtook, csr>>
    BY <1>1, IommuQuiet
  <2>2. CASE Execute
    <3>1. "cmd_ill" \notin events' /\ cq # << >>
      BY <2>2 DEF Execute, Fetching
    <3> QED BY <2>1, <3>1 DEF KeepsUp, Behind
  <2>3. CASE Reject
    <3> SUFFICES ASSUME ~lag PROVE KeepsUp'
      BY <2>1 DEF KeepsUp
    <3>1. /\ cq # << >> /\ Head(cq) \in {"illegal", "iofence"} /\ cq' = Tail(cq)
          /\ events' = events \cup {"cmd_ill"}
      BY <2>3 DEF Reject, Reserved, Fetching, Consume
    <3>2. overtook = {} /\ status = "running" /\ pc <= Len(Program[test])
      BY <3>1 DEF KeepsUp, Behind
    <3>3. cq = Queued(test, pc)
      BY <3>1, <3>2 DEF Waiting
    <3>4. (test = "msi_generation" /\ pc = 8) \/ (test = "iofence" /\ pc = 4)
      BY <3>1, <3>3, QueuedOne
    <3>5. cq' = << >>
      BY <3>1, <3>3, QueuedOne
    <3>6. Rejecting(test, pc)'
      BY <2>1, <3>4 DEF Rejecting
    <3> QED BY <2>1, <3>2, <3>5, <3>6 DEF KeepsUp
  <2>4. CASE Signal
    BY <2>1, <2>4 DEF KeepsUp, Rejecting, Signal, Behind, queue
  <2>5. CASE CyclesOverflow
    <3>1. ipsr \subseteq ipsr' /\ UNCHANGED <<cq, events>>
      BY <2>5 DEF CyclesOverflow, Pend, queue
    <3> QED BY <2>1, <3>1 DEF KeepsUp, Rejecting, Behind, Signalling
  <2>6. CASE UNCHANGED vars
    BY <2>1, <2>6 DEF KeepsUp, Rejecting, Behind, Signalling, vars, queue, irq
  <2> QED BY <1>1, <2>2, <2>3, <2>4, <2>5, <2>6 DEF IOMMU
<1>2. CASE CallTest \/ Summary \/ FallOff
  <2>1. /\ UNCHANGED <<lag, cq, events, ipsr>>
        /\ status # "running" \/ pc > Len(Program[test])
        /\ overtook' # overtook => Behind
    BY <1>2 DEF CallTest, Summary, FallOff, queue, irq
  <2> SUFFICES ASSUME ~lag PROVE KeepsUp'
    BY <2>1 DEF KeepsUp
  <2>2. ~Behind
    <3> DEFINE last == Len(Program[test])
    <3>1. test \in DOMAIN Program \/ status # "running"
      BY DEF TypeInv, Loop, Table, test
    <3>2. last \in Nat \/ status # "running"
      BY <3>1, ProgramLengths
    <3>3. Behind => status = "running" /\ pc <= last
      BY DEF KeepsUp
    <3> HIDE DEF last
    <3> QED BY <1>0, <2>1, <3>2, <3>3 DEF last
  <2>3. "cmd_ill" \notin events
    <3> SUFFICES ASSUME "cmd_ill" \in events PROVE FALSE
      OBVIOUS
    <3>1. status = "running" /\ Rejecting(test, pc)
      BY DEF KeepsUp
    <3> DEFINE last == Len(Program[test])
    <3>2. pc > last
      BY <2>1, <3>1
    <3>3. (test = "msi_generation" => last = 18) /\ (test = "iofence" => last = 11)
      BY RejectingLengths
    <3> HIDE DEF last
    <3> QED BY <3>1, <3>2, <3>3, SMT DEF Rejecting
  <2>4. ~Behind' /\ overtook' = {}
    BY <2>1, <2>2 DEF KeepsUp, Behind, Signalling
  <2> QED BY <2>1, <2>3, <2>4 DEF KeepsUp
<1>3. ASSUME NEW op \in Ops, Effects(op), Hart
      PROVE  KeepsUp'
  <2>1. /\ Queues(test, pc, Step) /\ Step.op = op /\ pc' = pc + 1 /\ test' = test /\ lag' = lag
        /\ test \in DOMAIN Program /\ Step = Program[test][pc] /\ status = "running"
    BY <1>3, Stands
  <2> SUFFICES ASSUME ~lag PROVE KeepsUp'
    BY <2>1 DEF KeepsUp
  <2>2. /\ Doing(op) /\ (op \notin {"end", "record"} => status' = "running")
        /\ cq' = IF op = "command" THEN Append(cq, Step.command) ELSE cq
        /\ events' = IF op = "set_cqcsr" THEN events \ csr ELSE events
        /\ csr' = IF op = "cqcsr" THEN events ELSE csr
    BY <1>3, <2>1 DEF Effects
  <2>3. cq = << >> /\ ~Signalling /\ overtook' = {}
    BY <2>2, KeptUp DEF Behind
  <2>4. Behind' => status' = "running" /\ pc' <= Len(Program[test])
    <3>1. op = "clear_ipsr" \/ op = "command" => pc < Len(Program[test])
      BY <2>1 DEF Queues
    <3> DEFINE last == Len(Program[test])
    <3>2. last \in Nat
      BY <2>1, ProgramLengths
    <3> HIDE DEF last
    <3>3. op = "clear_ipsr" \/ op = "command" => pc + 1 <= last /\ status' = "running"
      BY <1>0, <2>2, <3>1, <3>2 DEF last
    <3>4. ASSUME op # "clear_ipsr", op # "command" PROVE ~Behind'
      <4>1. ipsr \subseteq ipsr'
        <5>1. ~Effects("clear_ipsr")
          BY <2>1, <3>4, Stands DEF Ops
        <5> QED BY <1>3, <5>1, StayPending
      <4> QED BY <2>2, <2>3, <3>4, <4>1 DEF Behind, Signalling
    <3> QED BY <2>1, <3>3, <3>4 DEF last
  <2>5. ASSUME "cmd_ill" \in events'
        PROVE  status' = "running" /\ cq' = << >> /\ Rejecting(test, pc)'
    <3>1. "cmd_ill" \in events /\ Rejecting(test, pc)
      BY <2>2, <2>5 DEF KeepsUp
    <3>2. ~(op = "set_cqcsr" /\ csr = events)
      BY <2>2, <2>5
    <3>3. ASSUME test = "msi_generation"
          PROVE  /\ pc \in 8 .. 11 /\ op = IF pc = 8 THEN "cqcsr" ELSE "assert"
                 /\ pc >= 9 => csr = events
      <4>1. pc \in 8 .. 12 /\ (pc >= 9 => csr = events)
        BY <3>1, <3>3 DEF Rejecting
      <4>2. op = IF pc = 8 THEN "cqcsr" ELSE IF pc = 12 THEN "set_cqcsr" ELSE "assert"
        BY <2>1, <3>3, <4>1, CsrSteps
      <4> QED BY <3>2, <4>1, <4>2
    <3>4. ASSUME test = "iofence"
          PROVE  /\ pc \in 4 .. 8 /\ op = IF pc = 5 THEN "cqcsr" ELSE "assert"
                 /\ pc >= 6 => csr = events
      <4>1. pc \in 4 .. 9 /\ (pc >= 6 => csr = events)
        BY <3>1, <3>4 DEF Rejecting
      <4>2. op = IF pc = 5 THEN "cqcsr" ELSE IF pc = 9 THEN "set_cqcsr" ELSE "assert"
        BY <2>1, <3>4, <4>1, CsrSteps
      <4> QED BY <3>2, <4>1, <4>2
    <3>5. test \in {"msi_generation", "iofence"}
      BY <3>1 DEF Rejecting
    <3>6. op \in {"cqcsr", "assert"}
      BY <3>3, <3>4, <3>5
    <3>7. status' = "running" /\ cq' = << >> /\ events' = events
      BY <2>2, <2>3, <3>6
    <3>8. /\ test = "msi_generation" => pc + 1 \in 8 .. 12 /\ csr' = events
          /\ test = "iofence" => pc + 1 \in 4 .. 9 /\ (pc + 1 >= 6 => csr' = events)
      BY <2>2, <3>3, <3>4
    <3>9. Rejecting(test, pc)'
      BY <2>1, <3>5, <3>7, <3>8 DEF Rejecting
    <3> QED BY <3>7, <3>9
  <2> QED BY <2>1, <2>3, <2>4, <2>5 DEF KeepsUp
<1> QED BY <1>1, <1>2, <1>3, HartOps DEF Next

-----------------------------------------------------------------------------
(* What a test on track makes of addresses *)

\* Which pages transfers and translations go between, and how they are granted.
Plain == {"iommu_bare", "both_stages_bare"}
Faulting == {"wsi_generation", "msi_generation"}

Granted(t, i, a, access) ==
  /\ a = v(a[2]) /\ a[2] \notin Switches /\ Stage2Allows(a, access)
  /\ access = "read" => a[2] \notin DOMAIN Number
  /\ Wanted1(t, i) = "bare" \/ Allows(a, access)

Goes(t, i, s) ==
  /\ s.op = "translate" => t \notin Plain \cup {"iommu_off"} /\ Granted(t, i, s.iova, "write")
  /\ s.op = "transfer" =>
       /\ t \in Plain => s.src = p(s.src[2]) /\ s.dst = p(s.dst[2])
       /\ t \in Faulting => /\ s.src = v(s.src[2]) /\ s.src[2] \in {"WSI_R", "MSI_GEN_R"}
                            /\ s.dst = v(s.dst[2]) /\ s.dst[2] \in {"WSI_W", "MSI_GEN_W"}
       /\ t \notin Plain \cup Faulting \cup {"iommu_off"} =>
            /\ Granted(t, i, s.src, "read")
            /\ \/ s.dst = v(s.dst[2]) /\ s.dst[2] \in Switches
                  /\ t = "iotinval" /\ i \in {9, 10, 16, 17, 23, 24}
               \/ t = "mrif_support" /\ i = 18 /\ s.dst = v("MSI_W5")
               \/ Granted(t, i, s.dst, "write")

LEMMA GrantedPages ==
  /\ \A t, i : \A x \in {"IOTINVAL_R1", "IOTINVAL_R2", "TWO_STAGE_R4K", "TWO_STAGE_R2M",
                         "TWO_STAGE_R1G", "MSI_R2", "MSI_R3", "MSI_R4", "MSI_R5", "HPM_R"} :
       Granted(t, i, v(x), "read")
  /\ \A t, i : \A x \in {"TWO_STAGE_W4K", "TEST_2MIB", "TEST_1GIB", "MSI_W1", "MSI_W2", "MSI_W3",
                         "MSI_W4", "HPM_W"} :
       Granted(t, i, v(x), "write")
  /\ \A i : \A x \in {"S2_ONLY_R", "MSI_R1"} : Granted("second_stage_only", i, v(x), "read")
  /\ \A i : \A x \in {"S2_ONLY_W", "MSI_W1"} : Granted("second_stage_only", i, v(x), "write")
<1>1. \A i : Wanted1("second_stage_only", i) = "bare"
  BY DEF Wanted1, TwoStageTests
<1>2. \A x : v(x)[2] = x
  BY Places
<1>3. \A x, access : Allows(v(x), access) => Stage2Allows(v(x), access)
  BY DEF Allows
<1> QED BY <1>1, <1>2, <1>3, AllowedPages, NumberDomain DEF Granted, Switches

LEMMA GoesRight ==
  ASSUME NEW t \in DOMAIN Program, NEW i \in 1 .. Len(Program[t])
  PROVE  Goes(t, i, Program[t][i])
<1> USE GrantedPages, Places DEF Goes, Plain, Faulting, Switches,
       Ddtp, Context, Igs, Command, Store, Transfer, Switch, Arm,
       Translate, ReadRecord, GetCqh, GetCqcsr, SetCqcsr, ClearIpsr, UnmaskCQ, PollCycles, Expect,
       TestEnd
<1>1. CASE t = "iommu_off"
  BY <1>1, ProgramIs, IommuOffSteps, SMT
<1>2. CASE t = "iommu_bare"
  BY <1>2, ProgramIs, IommuBareSteps, SMT
<1>3. CASE t = "both_stages_bare"
  BY <1>3, ProgramIs, BothStagesBareSteps, SMT
<1>4. CASE t = "second_stage_only"
  BY <1>4, ProgramIs, SecondStageOnlySteps, SMT
<1>5. CASE t = "two_stage_translation"
  BY <1>5, ProgramIs, TwoStageTranslationSteps, SMT
<1>6. CASE t = "iotinval"
  BY <1>6, ProgramIs, IotinvalSteps, SMT
<1>7. CASE t = "wsi_generation"
  BY <1>7, ProgramIs, WsiGenerationSteps, SMT
<1>8. CASE t = "iofence"
  BY <1>8, ProgramIs, IofenceSteps, SMT
<1>9. CASE t = "msi_generation"
  BY <1>9, ProgramIs, MsiGenerationSteps, SMT
<1>10. CASE t = "hpm"
  BY <1>10, ProgramIs, HpmSteps, SMT
<1>11. CASE t = "mrif_support"
  BY <1>11, ProgramIs, MrifSupportSteps, SMT
<1>12. CASE t = "dbg_interface"
  BY <1>12, ProgramIs, DbgInterfaceSteps, SMT
<1> QED BY <1>1, <1>2, <1>3, <1>4, <1>5, <1>6, <1>7, <1>8, <1>9, <1>10, <1>11, <1>12, ProgramIs

\* The misconfigured entry.
LEMMA MisconfiguredFile == InterruptFile("MSI_W5") = 23
<1>1. 2^1 = 2 /\ 2^2 = 4 /\ 2^7 = 128 /\ 2^9 = 512 /\ 2^20 = 1048576
  BY SMT
<1>2. \A n \in Nat : /\ Bit(n, 1) = (n \div 2) % 2 /\ Bit(n, 2) = (n \div 4) % 2
                     /\ Bit(n, 7) = (n \div 128) % 2 /\ Bit(n, 9) = (n \div 512) % 2
                     /\ Bit(n, 20) = (n \div 1048576) % 2
  BY <1>1, SMT DEF Bit
<1>3. Vpn("MSI_W5") = 1048966
  BY <1>1, SMT DEF Vpn, Number
<1> QED BY <1>2, <1>3, SMT DEF InterruptFile

LEMMA WalkMisconfigured ==
  ASSUME NEW c, NEW sw, c.s1 = "sv39", c.s2 = "sv39x4", c.msi = "flat"
  PROVE  Walk(v("MSI_W5"), "write", c, sw) = Reached(<<"msi", 23>>)
<1>1. /\ "MSI_W5" \notin Superpages /\ "MSI_W5" \notin Switches /\ "MSI_W5" \in DOMAIN Number
      /\ Right("write") \in Stage1Perm("MSI_W5")
  BY NumberDomain, SMT DEF Superpages, Switches, Stage1Perm, Right
<1>2. IsMsi(v("MSI_W5"))
  BY <1>1, MsiPages, Zenon DEF v
<1>3. Walk(v("MSI_W5"), "write", c, sw) = Still("MSI_W5", "write", c)
  BY <1>1, WalkStill, Zenon
<1>4. Still("MSI_W5", "write", c) = Reached(<<"msi", InterruptFile("MSI_W5")>>)
  BY <1>1, <1>2, Zenon DEF Still
<1> QED BY <1>3, <1>4, MisconfiguredFile

\* A test on track translates with the context it has set up.
LEMMA OwnInUse ==
  ASSUME TypeInv, Frame, OnTrack', OwnContext(test, pc), NEW op \in {"transfer", "translate"}, Effects(op),
         excused' = IF Stale THEN excused \cup {test} ELSE excused
  PROVE  /\ ddtp = Regime(test) /\ cq = << >> /\ test # "iofence" /\ pc >= 2
         /\ ddtp = "1lvl" =>
              /\ dc \in ContextValues /\ dc.s1 = Wanted1(test, pc) /\ dc.s2 = Wanted2(test)
              /\ test # "both_stages_bare" => InUse = dc /\ dc.msi = "flat"
<1>0. op \in Ops
  BY DEF Ops
<1>1. /\ SetsUp(test, pc, Step) /\ Queues(test, pc, Step) /\ Step.op = op /\ pc \in Nat \ {0}
      /\ status = "running" /\ test' = test
  BY <1>0, Stands
<1>2. ddtp = Regime(test)
  BY InContext
<1>3. pc > 1 /\ test # "iofence" /\ (test \notin {"iommu_off", "iommu_bare"} => pc >= 5)
  BY <1>1 DEF SetsUp
<1>4. ~Behind /\ (test \in excused' => test \in Independent)
  BY <1>0, <1>1 DEF OnTrack, Clean, Effects, Doing
<1>5. cq = << >>
  BY <1>4 DEF Behind
<1>6. ASSUME ddtp = "1lvl", test # "both_stages_bare"
      PROVE  InUse = dc
  <2>1. test \notin {"iommu_off", "iommu_bare"}
    BY <1>2, <1>6 DEF Regime
  <2>2. CASE test \in Owners
    <3>1. pc # 5 /\ (test = "mrif_support" => pc # 12)
      BY <1>1, <2>2 DEF Queues
    <3>2. ddtc \in {NoContext, dc}
      BY <1>1, <1>3, <1>5, <2>1, <2>2, <3>1 DEF OwnContext, Owners
    <3> QED BY <3>2 DEF InUse
  <2>3. CASE test \notin Owners
    <3>1. test \notin Independent
      BY <1>3, <1>6, <2>1, <2>3 DEF Independent, Owners
    <3>2. ~Stale
      BY <1>1, <1>4, <3>1
    <3> QED BY <1>6, <3>2 DEF Stale
  <2> QED BY <2>2, <2>3
<1>7. ASSUME ddtp = "1lvl"
      PROVE  /\ dc \in ContextValues /\ dc.s1 = Wanted1(test, pc) /\ dc.s2 = Wanted2(test)
             /\ test # "both_stages_bare" => dc.msi = "flat"
  <2>1. test \notin {"iommu_off", "iommu_bare", "iofence"} /\ pc >= 5
    BY <1>2, <1>3, <1>7 DEF Regime
  <2>2. dc \in ContextValues
    BY DEF TypeInv, Hardware
  <2> QED BY <1>1, <2>1, <2>2 DEF Frame, Prepared
<1> QED BY <1>1, <1>2, <1>3, <1>5, <1>6, <1>7

\* Where a page that is granted leads to.
Leads(t) == IF t \in DOMAIN Number THEN Reached(<<"msi", InterruptFile(t)>>) ELSE Reached(p(t))

LEMMA TranslatedGranted ==
  ASSUME ddtp = "1lvl", NEW tlb, \A e \in tlb : Sound(e), NEW t, NEW i, NEW a, NEW access,
         Granted(t, i, a, access), InUse \in ContextValues, InUse.s1 = Wanted1(t, i),
         InUse.s2 = "sv39x4", InUse.msi = "flat"
  PROVE  Translated(a, access, tlb) = Leads(a[2])
<1> DEFINE x == a[2]
           c == InUse
<1>1. a = v(x) /\ x \notin Switches /\ Stage2Allows(v(x), access) /\ (c.s1 = "bare" \/ Allows(v(x), access))
  BY DEF Granted
<1> HIDE DEF x
<1>2. Translated(v(x), access, tlb) = Walk(v(x), access, InUse, {})
  BY <1>1, TranslatedVirtual
<1>3. Walk(v(x), access, c, {}) = IF x \in DOMAIN Number THEN Reached(<<"msi", InterruptFile(x)>>)
                                  ELSE Reached(p(x))
  <2> HIDE DEF c
  <2>1. c.s2 = "sv39x4" /\ c.msi = "flat"
    BY DEF c
  <2> QED BY <1>1, <2>1, WalkGranted
<1> QED BY <1>1, <1>2, <1>3, Zenon DEF Leads, x, c

\* What the two halves of a transfer come to.
ReadTo(t, s) ==
  IF t = "iommu_off" THEN Fault("ALL_INB_TRANSACTIONS_DISALLOWED")
  ELSE IF t \in Faulting THEN Fault("LOAD_PAGE_FAULT")
  ELSE Reached(p(s.src[2]))

WriteTo(t, i, s) ==
  IF t = "iommu_off" THEN Fault("ALL_INB_TRANSACTIONS_DISALLOWED")
  ELSE IF t \in Faulting THEN Fault("STORE_GUEST_PAGE_FAULT")
  ELSE IF t \in Plain THEN Reached(p(s.dst[2]))
  ELSE IF s.dst[2] \in Switches THEN Reached(p(Page2(s.dst[2], dc, Exchanged(i))))
  ELSE IF s.dst[2] = "MSI_W5" THEN Fault("MSI_PTE_INVALID")
  ELSE Leads(s.dst[2])

\* The state of a test on track that is about to translate.
Ready(op) ==
  /\ TypeInv /\ Frame /\ OnTrack' /\ OwnContext(test, pc) /\ OwnEntries(test, pc) /\ Effects(op)
  /\ excused' = IF Stale THEN excused \cup {test} ELSE excused

\* Regimes and contexts by test.
LEMMA OwnRegime ==
  ASSUME NEW op \in {"transfer", "translate"}, Ready(op)
  PROVE  /\ test \in DOMAIN Program /\ Step.op = op /\ Goes(test, pc, Step) /\ Touches(test, pc, Step)
         /\ status = "running" /\ cq = << >> /\ pc >= 2 /\ pc \in Nat
         /\ \A e \in iotlb : Sound(e)
         /\ test = "iommu_off" => ddtp = "off"
         /\ test \in Plain => ddtp \in {"bare", "1lvl"}
         /\ test \notin Plain \cup {"iommu_off"} =>
              /\ ddtp = "1lvl" /\ InUse \in ContextValues /\ InUse = dc
              /\ InUse.s1 = Wanted1(test, pc) /\ InUse.s2 = "sv39x4" /\ InUse.msi = "flat"
         /\ test \in TwoStageTests => Wanted1(test, pc) = "sv39"
         /\ Faulting \subseteq TwoStageTests
<1>1. op \in Ops
  BY DEF Ops
<1>2. /\ TypeInv /\ Frame /\ OnTrack' /\ OwnContext(test, pc) /\ Effects(op)
      /\ excused' = IF Stale THEN excused \cup {test} ELSE excused
  BY DEF Ready
<1>3. /\ test \in DOMAIN Program /\ pc \in 1 .. Len(Program[test]) /\ Step = Program[test][pc]
      /\ Step.op = op /\ Touches(test, pc, Step) /\ pc \in Nat /\ status = "running"
  BY <1>1, <1>2, Stands
<1>4. Goes(test, pc, Step)
  BY <1>3, GoesRight
<1>5. /\ ddtp = Regime(test) /\ test # "iofence" /\ cq = << >> /\ pc >= 2
      /\ ddtp = "1lvl" => /\ dc \in ContextValues
                          /\ dc.s1 = Wanted1(test, pc) /\ dc.s2 = Wanted2(test)
                          /\ test # "both_stages_bare" => InUse = dc /\ dc.msi = "flat"
  BY <1>2, OwnInUse
<1>6. \A e \in iotlb : Sound(e)
  BY <1>2 DEF Frame
<1>7. test = "iommu_off" => ddtp = "off"
  BY <1>5 DEF Regime
<1>8. test \in Plain => ddtp \in {"bare", "1lvl"}
  BY <1>5 DEF Regime, Plain
<1>9. test \notin Plain \cup {"iommu_off"} =>
        /\ ddtp = "1lvl" /\ InUse \in ContextValues /\ InUse = dc
        /\ InUse.s1 = Wanted1(test, pc) /\ InUse.s2 = "sv39x4" /\ InUse.msi = "flat"
  <2> SUFFICES ASSUME test \notin Plain \cup {"iommu_off"}
               PROVE  ddtp = "1lvl" /\ Wanted2(test) = "sv39x4" /\ test # "both_stages_bare"
    BY <1>5
  <2> QED BY <1>5 DEF Regime, Plain, Wanted2
<1>10. test \in TwoStageTests => Wanted1(test, pc) = "sv39"
  BY DEF Wanted1
<1>11. Faulting \subseteq TwoStageTests
  BY DEF Faulting, TwoStageTests
<1> QED BY <1>3, <1>4, <1>5, <1>6, <1>7, <1>8, <1>9, <1>10, <1>11

LEMMA TransferRead ==
  ASSUME Ready("transfer")
  PROVE  Translated(Step.src, "read", iotlb) = ReadTo(test, Step)
<1> DEFINE a == Step.src
           r == Translated(a, "read", iotlb)
<1>1. /\ Step.op = "transfer" /\ Goes(test, pc, Step)
      /\ \A e \in iotlb : Sound(e)
      /\ test = "iommu_off" => ddtp = "off"
      /\ test \in Plain => ddtp \in {"bare", "1lvl"}
      /\ test \notin Plain \cup {"iommu_off"} =>
           /\ ddtp = "1lvl" /\ InUse \in ContextValues
           /\ InUse.s1 = Wanted1(test, pc) /\ InUse.s2 = "sv39x4" /\ InUse.msi = "flat"
      /\ test \in TwoStageTests => Wanted1(test, pc) = "sv39"
      /\ Faulting \subseteq TwoStageTests
  BY OwnRegime
<1>2. CASE test = "iommu_off"
  <2>1. r = Fault("ALL_INB_TRANSACTIONS_DISALLOWED")
    BY <1>1, <1>2, Zenon DEF Translated
  <2> QED BY <1>2, <2>1 DEF ReadTo
<1>3. CASE test \in Faulting
  <2> DEFINE x == a[2]
             c == InUse
  <2>1. a = v(x) /\ x \in {"WSI_R", "MSI_GEN_R"}
    BY <1>1, <1>3 DEF Goes
  <2>2. test \notin Plain \cup {"iommu_off"} /\ test \in TwoStageTests
    BY <1>1, <1>3 DEF Plain, Faulting
  <2>3. x \notin Switches
    BY <2>1 DEF Switches
  <2> HIDE DEF x
  <2>4. Translated(v(x), "read", iotlb) = Walk(v(x), "read", c, {})
    BY <1>1, <2>2, <2>3, TranslatedVirtual
  <2>5. c.s1 = "sv39" /\ c.s2 = "sv39x4"
    BY <1>1, <2>2
  <2> HIDE DEF c
  <2>6. Walk(v(x), "read", c, {}) = Fault("LOAD_PAGE_FAULT")
    BY <2>1, <2>5, WalkFaults
  <2>7. test # "iommu_off"
    BY <2>2
  <2> QED BY <1>3, <2>1, <2>4, <2>6, <2>7, Zenon DEF ReadTo
<1>4. CASE test \in Plain
  <2> DEFINE x == a[2]
  <2>1. a = p(x) /\ ddtp \in {"bare", "1lvl"}
    BY <1>1, <1>4 DEF Goes
  <2> HIDE DEF x
  <2>2. Translated(p(x), "read", iotlb) = Reached(p(x))
    BY <1>1, <2>1, TranslatedPhysical
  <2>3. test # "iommu_off" /\ test \notin Faulting
    BY <1>4 DEF Plain, Faulting
  <2> QED BY <2>1, <2>2, <2>3, Zenon DEF ReadTo, x
<1>5. CASE test \notin Plain \cup Faulting \cup {"iommu_off"}
  <2>1. Granted(test, pc, a, "read") /\ a[2] \notin DOMAIN Number
    BY <1>1, <1>5 DEF Goes, Granted
  <2>2. Translated(a, "read", iotlb) = Leads(a[2])
    BY <1>1, <1>5, <2>1, TranslatedGranted
  <2>3. test # "iommu_off" /\ test \notin Faulting
    BY <1>5
  <2> QED BY <2>1, <2>2, <2>3, Zenon DEF ReadTo, Leads
<1> QED BY <1>2, <1>3, <1>4, <1>5

\* The exchanged pages: what is cached of them at the time follows the tables.
LEMMA TranslatedSwitch ==
  ASSUME Ready("transfer"), NEW tlb, OnSwitches(tlb) = OnSwitches(iotlb), NEW x \in Switches,
         Step.dst = v(x), test = "iotinval", pc \in {9, 10, 16, 17, 23, 24}
  PROVE  /\ Translated(v(x), "write", tlb) = Walk(v(x), "write", InUse, swapped)
         /\ Walk(v(x), "write", InUse, swapped) = Reached(p(Page2(x, dc, Exchanged(pc))))
<1>1. /\ ddtp = "1lvl" /\ InUse \in ContextValues /\ InUse = dc
      /\ InUse.s1 = "sv39" /\ InUse.s2 = "sv39x4" /\ InUse.msi = "flat" /\ status = "running" /\ cq = << >>
  <2>1. test \notin Plain \cup {"iommu_off"} /\ test \in TwoStageTests
    BY DEF Plain, TwoStageTests
  <2> QED BY <2>1, OwnRegime
<1>2. swapped = Exchanged(pc) /\ (pc = 9 => OnSwitches(iotlb) = {})
  <2>1. Untouched
    BY DEF Ready, Frame
  <2>2. pc = 9 => Before("iotinval", 9)
    BY <1>1 DEF Before
  <2> QED BY <1>1, <2>1, <2>2 DEF Untouched
<1> DEFINE c == InUse
           sw == swapped
           r == Translated(v(x), "write", tlb)
           hits == Hits(v(x), "write", tlb)
           hit == CHOOSE e \in hits : TRUE
<1>3. Walk(v(x), "write", c, sw) = Reached(p(Page2(x, c, sw)))
  <2>1. c.s1 = "sv39" /\ c.s2 = "sv39x4"
    BY <1>1
  <2> HIDE DEF c, sw
  <2> QED BY <2>1, WalkSwitch
<1>4. ASSUME NEW e \in hits
      PROVE  Reached(e.to) = WalkAgain(e, swapped)
  <2>1. e \in tlb /\ e.iova = v(x)
    BY DEF Hits
  <2>2. e \in OnSwitches(iotlb)
    BY <2>1, Places DEF OnSwitches
  <2>3. OwnEntries(test, pc)
    BY DEF Ready
  <2>4. pc \in {10, 17, 24}
    BY <1>1, <1>2, <2>2, <2>3 DEF OwnEntries
  <2>5. pc \in (10 .. 12) \cup (17 .. 19) \cup (24 .. 26)
    BY <2>4
  <2> QED BY <2>2, <2>3, <2>5 DEF OwnEntries
<1>5. r = Walk(v(x), "write", InUse, swapped)
  <2>1. CASE hits # {}
    <3>1. r = Reached(hit.to)
      BY <1>1, <2>1, Zenon DEF Translated
    <3>2. hit \in hits
      BY <2>1
    <3>3. Reached(hit.to) = WalkAgain(hit, swapped)
      BY <1>4, <3>2
    <3>4. hit.iova = v(x) /\ hit.access = "write" /\ hit.s1 = c.s1 /\ hit.s2 = c.s2
      BY <3>2 DEF Hits
    <3> HIDE DEF hit, r, c
    <3>5. c = [s1 |-> hit.s1, s2 |-> hit.s2, msi |-> "flat"]
      BY <1>1, <3>4 DEF ContextValues, c
    <3>6. WalkAgain(hit, swapped) = Walk(v(x), "write", c, swapped)
      BY <3>4, <3>5, Zenon DEF WalkAgain
    <3> QED BY <3>1, <3>3, <3>6, Zenon DEF c
  <2>2. CASE hits = {}
    BY <1>1, <2>2, Zenon DEF Translated
  <2> QED BY <2>1, <2>2
<1> QED BY <1>1, <1>2, <1>3, <1>5

LEMMA TransferWrite ==
  ASSUME Ready("transfer"), NEW tlb, tlb = Filled(Step.src, "read", iotlb)
  PROVE  MsiChecked(Translated(Step.dst, "write", tlb)) = WriteTo(test, pc, Step)
<1> DEFINE a == Step.dst
           r == Translated(a, "write", tlb)
           w == MsiChecked(r)
           x == a[2]
<1>1. /\ Step.op = "transfer" /\ Goes(test, pc, Step) /\ Touches(test, pc, Step)
      /\ test = "iommu_off" => ddtp = "off"
      /\ test \in Plain => ddtp \in {"bare", "1lvl"}
      /\ test \notin Plain \cup {"iommu_off"} =>
           /\ ddtp = "1lvl" /\ InUse \in ContextValues
           /\ InUse.s1 = Wanted1(test, pc) /\ InUse.s2 = "sv39x4" /\ InUse.msi = "flat"
      /\ test \in TwoStageTests => Wanted1(test, pc) = "sv39"
      /\ Faulting \subseteq TwoStageTests
  BY OwnRegime
<1>2. TypeInv /\ Frame /\ Effects("transfer") /\ \A e \in iotlb : Sound(e)
  BY DEF Ready, Frame
<1>3. Page(Step.src) /\ Step.src[2] \notin Switches
  BY <1>1 DEF Touches
<1>4. \A e \in tlb : Sound(e)
  BY <1>2, <1>3, FilledBySteps
<1>5. OnSwitches(tlb) = OnSwitches(iotlb)
  <2>1. iotlb \subseteq tlb
    BY Zenon DEF Filled
  <2>2. \A e \in tlb : e \in iotlb \/ e.iova = Step.src
    BY FilledPage, Zenon
  <2> QED BY <1>3, <2>1, <2>2 DEF OnSwitches
<1>6. \A b : Reached(b).ok /\ Reached(b).to = b /\ ~Fault(b).ok
  BY DEF Reached, Fault
<1>7. \A b : /\ MsiChecked(Fault(b)) = Fault(b)
             /\ b[1] # "msi" => MsiChecked(Reached(b)) = Reached(b)
             /\ b[1] = "msi" /\ MsiEntry(b[2]).mode # "custom" => MsiChecked(Reached(b)) = Reached(b)
             /\ b[1] = "msi" /\ MsiEntry(b[2]).mode = "custom" =>
                  MsiChecked(Reached(b)) = Fault("MSI_PTE_INVALID")
  BY <1>6, Zenon DEF MsiChecked
<1>p. \A y : p(y)[1] # "msi"
  BY Places
<1>8. CASE test = "iommu_off"
  <2>1. r = Fault("ALL_INB_TRANSACTIONS_DISALLOWED")
    BY <1>1, <1>8, Zenon DEF Translated
  <2> HIDE DEF r
  <2> QED BY <1>7, <1>8, <2>1, Zenon DEF WriteTo, r
<1>9. CASE test \in Faulting
  <2> DEFINE c == InUse
  <2>1. a = v(x) /\ x \in {"WSI_W", "MSI_GEN_W"}
    BY <1>1, <1>9 DEF Goes
  <2>2. test \notin Plain \cup {"iommu_off"} /\ test \in TwoStageTests
    BY <1>1, <1>9 DEF Plain, Faulting
  <2>3. x \notin Switches
    BY <2>1 DEF Switches
  <2> HIDE DEF x
  <2>4. Translated(v(x), "write", tlb) = Walk(v(x), "write", c, {})
    BY <1>1, <1>4, <2>2, <2>3, TranslatedVirtual
  <2>5. c.s1 = "sv39" /\ c.s2 = "sv39x4"
    BY <1>1, <2>2
  <2> HIDE DEF c
  <2>6. Walk(v(x), "write", c, {}) = Fault("STORE_GUEST_PAGE_FAULT")
    BY <2>1, <2>5, WalkFaults
  <2>7. test # "iommu_off"
    BY <2>2
  <2> QED BY <1>7, <1>9, <2>1, <2>4, <2>6, <2>7, Zenon DEF WriteTo
<1>10. CASE test \in Plain
  <2>1. a = p(x) /\ ddtp \in {"bare", "1lvl"}
    BY <1>1, <1>10 DEF Goes
  <2> HIDE DEF x
  <2>2. Translated(p(x), "write", tlb) = Reached(p(x))
    BY <1>4, <2>1, TranslatedPhysical
  <2>3. test # "iommu_off" /\ test \notin Faulting
    BY <1>10 DEF Plain, Faulting
  <2> QED BY <1>7, <1>p, <1>10, <2>1, <2>2, <2>3, Zenon DEF WriteTo, x
<1>11. CASE test \notin Plain \cup Faulting \cup {"iommu_off"}
  <2>0. test # "iommu_off" /\ test \notin Faulting /\ test \notin Plain
    BY <1>11
  <2>1. CASE a = v(x) /\ x \in Switches /\ test = "iotinval" /\ pc \in {9, 10, 16, 17, 23, 24}
    <3> HIDE DEF x
    <3>1. Translated(v(x), "write", tlb) = Reached(p(Page2(x, dc, Exchanged(pc))))
      BY <1>5, <2>1, TranslatedSwitch, Zenon
    <3> QED BY <1>7, <1>p, <2>0, <2>1, <3>1, Zenon DEF WriteTo, x
  <2>2. CASE test = "mrif_support" /\ pc = 18 /\ a = v("MSI_W5")
    <3> DEFINE c == InUse
    <3>1. Wanted1(test, pc) = "sv39" /\ x = "MSI_W5" /\ x \notin Switches
      BY <2>2, Places DEF Wanted1, Switches
    <3>2. ddtp = "1lvl" /\ c \in ContextValues /\ c.s1 = "sv39" /\ c.s2 = "sv39x4" /\ c.msi = "flat"
      BY <1>1, <1>11, <3>1
    <3>3. Translated(v("MSI_W5"), "write", tlb) = Walk(v("MSI_W5"), "write", c, {})
      BY <1>4, <3>1, <3>2, TranslatedVirtual
    <3> HIDE DEF c, x
    <3>4. Walk(v("MSI_W5"), "write", c, {}) = Reached(<<"msi", 23>>)
      BY <3>2, WalkMisconfigured
    <3>5. MsiEntry(23).mode = "custom"
      BY SMT DEF MsiEntry
    <3> DEFINE b == <<"msi", 23>>
    <3>6. b[1] = "msi" /\ b[2] = 23
      OBVIOUS
    <3>7. r = Reached(b)
      BY <2>2, <3>3, <3>4
    <3> HIDE DEF b, r
    <3>8. w = Fault("MSI_PTE_INVALID")
      BY <1>7, <3>5, <3>6, <3>7
    <3> QED BY <2>0, <3>1, <3>8, Zenon DEF WriteTo, x, r
  <2>3. CASE Granted(test, pc, a, "write")
    <3>1. r = Leads(x) /\ a = v(x) /\ x \notin Switches /\ Stage2Allows(a, "write")
      BY <1>1, <1>4, <1>11, <2>3, TranslatedGranted DEF Granted
    <3>2. x # "MSI_W5"
      BY <3>1, Places, SMT DEF Stage2Allows, Superpages
    <3> HIDE DEF x, r
    <3>3. w = r
      <4>1. CASE x \in DOMAIN Number
        <5> DEFINE b == <<"msi", InterruptFile(x)>>
        <5>1. r = Reached(b) /\ b[1] = "msi" /\ b[2] = InterruptFile(x)
          BY <3>1, <4>1, Zenon DEF Leads
        <5> HIDE DEF b
        <5>2. MsiEntry(b[2]).mode # "custom"
          BY <3>2, <4>1, <5>1, FileEntries
        <5> QED BY <1>7, <5>1, <5>2
      <4>2. CASE x \notin DOMAIN Number
        BY <1>7, <1>p, <3>1, <4>2, Zenon DEF Leads
      <4> QED BY <4>1, <4>2
    <3> QED BY <2>0, <3>1, <3>2, <3>3, Zenon DEF WriteTo, r, x
  <2> QED BY <1>1, <1>11, <2>1, <2>2, <2>3 DEF Goes
<1> QED BY <1>8, <1>9, <1>10, <1>11

-----------------------------------------------------------------------------
(* What stands in memory *)

\* What is delivered to a memory-resident interrupt file.
LEMMA InMrifAt ==
  ASSUME NEW m, NEW x, NEW b
  PROVE  /\ At(InMrif(m, "INT_ID_1", x), b) =
              IF b = word("INT_IP_1") THEN "1" ELSE IF b = x THEN "NOTICE_DATA" ELSE At(m, b)
         /\ At(InMrif(m, "INT_ID_2", x), b) = IF b = word("INT_IP_2") THEN "1" ELSE At(m, b)
         /\ At(InMrif(m, "0xFFF", x), b) = At(m, b)
<1>1. /\ DOMAIN PendingBit = {"INT_ID_1", "INT_ID_2"} /\ PendingBit["INT_ID_1"] = word("INT_IP_1")
      /\ PendingBit["INT_ID_2"] = word("INT_IP_2")
  BY DEF PendingBit
<1>a. /\ "INT_ID_1" \in DOMAIN PendingBit /\ "INT_ID_1" \in EnabledIds
      /\ "INT_ID_2" \in DOMAIN PendingBit /\ "INT_ID_2" \notin EnabledIds
      /\ "0xFFF" \notin DOMAIN PendingBit /\ "0xFFF" \notin EnabledIds
  BY <1>1 DEF EnabledIds
<1>2. InMrif(m, "INT_ID_1", x) = Put(Put(m, x, "NOTICE_DATA"), word("INT_IP_1"), "1")
  BY <1>1, <1>a, Zenon DEF InMrif
<1>3. InMrif(m, "INT_ID_2", x) = Put(m, word("INT_IP_2"), "1")
  BY <1>1, <1>a, Zenon DEF InMrif
<1>4. InMrif(m, "0xFFF", x) = m
  BY <1>a, Zenon DEF InMrif
<1> QED BY <1>2, <1>3, <1>4, PutAt

\* Memory m after the transfer s, where test t stands at i.
Moved(t, i, s, m) ==
  IF t \in Faulting \cup {"iommu_off"} \/ s.dst[2] = "MSI_W5" THEN m
  ELSE IF s.dst[2] = "MSI_W1" THEN Put(m, file(17), At(m, p(s.src[2])))
  ELSE IF s.dst[2] = "MSI_W2" THEN Put(m, file(19), At(m, p(s.src[2])))
  ELSE IF s.dst[2] = "MSI_W3" THEN InMrif(m, At(m, p(s.src[2])), word("NOTICE_ADDR_1"))
  ELSE IF s.dst[2] = "MSI_W4" THEN InMrif(m, At(m, p(s.src[2])), word("NOTICE_ADDR_2"))
  ELSE IF s.dst[2] = "SWITCH1"
       THEN Put(m, p(IF i \in 13 .. 19 THEN "SWITCH2" ELSE "SWITCH1"), At(m, p(s.src[2])))
  ELSE IF s.dst[2] = "SWITCH2"
       THEN Put(m, p(IF i \in 13 .. 19 THEN "SWITCH1" ELSE "SWITCH2"), At(m, p(s.src[2])))
  ELSE Put(m, p(s.dst[2]), At(m, p(s.src[2])))

\* The transfers of the tests.
LEMMA MovedPages ==
  /\ \A i, s, m : \A t \in Faulting \cup {"iommu_off"} : Moved(t, i, s, m) = m
  /\ \A i, m : Moved("iommu_bare", i, Transfer(p("IOMMU_BARE_R"), p("IOMMU_BARE_W")), m) =
       Put(m, p("IOMMU_BARE_W"), At(m, p("IOMMU_BARE_R")))
  /\ \A i, m : Moved("both_stages_bare", i, Transfer(p("BARE_TRANS_R1"), p("BARE_TRANS_W1")), m) =
       Put(m, p("BARE_TRANS_W1"), At(m, p("BARE_TRANS_R1")))
  /\ \A i, m : Moved("both_stages_bare", i, Transfer(p("BARE_TRANS_R2"), p("BARE_TRANS_W2")), m) =
       Put(m, p("BARE_TRANS_W2"), At(m, p("BARE_TRANS_R2")))
  /\ \A i, m : Moved("second_stage_only", i, Transfer(v("S2_ONLY_R"), v("S2_ONLY_W")), m) =
       Put(m, p("S2_ONLY_W"), At(m, p("S2_ONLY_R")))
  /\ \A i, m : Moved("second_stage_only", i, Transfer(v("MSI_R1"), v("MSI_W1")), m) =
       Put(m, file(17), At(m, p("MSI_R1")))
  /\ \A i, m : Moved("two_stage_translation", i, Transfer(v("TWO_STAGE_R4K"), v("TWO_STAGE_W4K")), m) =
       Put(m, p("TWO_STAGE_W4K"), At(m, p("TWO_STAGE_R4K")))
  /\ \A i, m : Moved("two_stage_translation", i, Transfer(v("TWO_STAGE_R2M"), v("TEST_2MIB")), m) =
       Put(m, p("TEST_2MIB"), At(m, p("TWO_STAGE_R2M")))
  /\ \A i, m : Moved("two_stage_translation", i, Transfer(v("TWO_STAGE_R1G"), v("TEST_1GIB")), m) =
       Put(m, p("TEST_1GIB"), At(m, p("TWO_STAGE_R1G")))
  /\ \A i, m : Moved("two_stage_translation", i, Transfer(v("MSI_R2"), v("MSI_W2")), m) =
       Put(m, file(19), At(m, p("MSI_R2")))
  /\ \A i, m : Moved("iotinval", i, Transfer(v("IOTINVAL_R1"), v("SWITCH1")), m) =
       Put(m, p(IF i \in 13 .. 19 THEN "SWITCH2" ELSE "SWITCH1"), At(m, p("IOTINVAL_R1")))
  /\ \A i, m : Moved("iotinval", i, Transfer(v("IOTINVAL_R2"), v("SWITCH2")), m) =
       Put(m, p(IF i \in 13 .. 19 THEN "SWITCH1" ELSE "SWITCH2"), At(m, p("IOTINVAL_R2")))
  /\ \A i, m : Moved("mrif_support", i, Transfer(v("MSI_R3"), v("MSI_W3")), m) =
       InMrif(m, At(m, p("MSI_R3")), word("NOTICE_ADDR_1"))
  /\ \A i, m : Moved("mrif_support", i, Transfer(v("MSI_R4"), v("MSI_W4")), m) =
       InMrif(m, At(m, p("MSI_R4")), word("NOTICE_ADDR_2"))
  /\ \A i, m : Moved("mrif_support", i, Transfer(v("MSI_R5"), v("MSI_W5")), m) =
       m
<1>1. \A t, i, s, m :
        s.dst[2] \notin {"MSI_W1", "MSI_W2", "MSI_W3", "MSI_W4", "MSI_W5", "SWITCH1", "SWITCH2"} =>
        Moved(t, i, s, m) = IF t \in Faulting \cup {"iommu_off"} THEN m
                            ELSE Put(m, p(s.dst[2]), At(m, p(s.src[2])))
  BY SMT DEF Moved
<1>2. \A x, y : Transfer(x, y).src = x /\ Transfer(x, y).dst = y
  BY DEF Transfer
<1>3. \A x : v(x)[2] = x /\ p(x)[2] = x
  BY Places
<1>4. \A x \in {"iommu_bare", "both_stages_bare", "second_stage_only", "two_stage_translation",
                "iotinval", "mrif_support"} : x \notin Faulting \cup {"iommu_off"}
  BY DEF Faulting
<1>5. \A i, s, m : \A t \in Faulting \cup {"iommu_off"} : Moved(t, i, s, m) = m
  BY Zenon DEF Moved
<1>6. ASSUME NEW i, NEW m
      PROVE  Moved("iommu_bare", i, Transfer(p("IOMMU_BARE_R"), p("IOMMU_BARE_W")), m) =
               Put(m, p("IOMMU_BARE_W"), At(m, p("IOMMU_BARE_R")))
  BY <1>1, <1>2, <1>3, <1>4
<1>7. ASSUME NEW i, NEW m
      PROVE  Moved("both_stages_bare", i, Transfer(p("BARE_TRANS_R1"), p("BARE_TRANS_W1")), m) =
               Put(m, p("BARE_TRANS_W1"), At(m, p("BARE_TRANS_R1")))
  BY <1>1, <1>2, <1>3, <1>4
<1>8. ASSUME NEW i, NEW m
      PROVE  Moved("both_stages_bare", i, Transfer(p("BARE_TRANS_R2"), p("BARE_TRANS_W2")), m) =
               Put(m, p("BARE_TRANS_W2"), At(m, p("BARE_TRANS_R2")))
  BY <1>1, <1>2, <1>3, <1>4
<1>9. ASSUME NEW i, NEW m
      PROVE  Moved("second_stage_only", i, Transfer(v("S2_ONLY_R"), v("S2_ONLY_W")), m) =
               Put(m, p("S2_ONLY_W"), At(m, p("S2_ONLY_R")))
  BY <1>1, <1>2, <1>3, <1>4
<1>10. ASSUME NEW i, NEW m
      PROVE  Moved("second_stage_only", i, Transfer(v("MSI_R1"), v("MSI_W1")), m) =
               Put(m, file(17), At(m, p("MSI_R1")))
  BY <1>2, <1>3, <1>4, SMT DEF Moved
<1>11. ASSUME NEW i, NEW m
      PROVE  Moved("two_stage_translation", i, Transfer(v("TWO_STAGE_R4K"), v("TWO_STAGE_W4K")), m) =
               Put(m, p("TWO_STAGE_W4K"), At(m, p("TWO_STAGE_R4K")))
  BY <1>1, <1>2, <1>3, <1>4
<1>12. ASSUME NEW i, NEW m
      PROVE  Moved("two_stage_translation", i, Transfer(v("TWO_STAGE_R2M"), v("TEST_2MIB")), m) =
               Put(m, p("TEST_2MIB"), At(m, p("TWO_STAGE_R2M")))
  BY <1>1, <1>2, <1>3, <1>4
<1>13. ASSUME NEW i, NEW m
      PROVE  Moved("two_stage_translation", i, Transfer(v("TWO_STAGE_R1G"), v("TEST_1GIB")), m) =
               Put(m, p("TEST_1GIB"), At(m, p("TWO_STAGE_R1G")))
  BY <1>1, <1>2, <1>3, <1>4
<1>14. ASSUME NEW i, NEW m
      PROVE  Moved("two_stage_translation", i, Transfer(v("MSI_R2"), v("MSI_W2")), m) =
               Put(m, file(19), At(m, p("MSI_R2")))
  BY <1>2, <1>3, <1>4, SMT DEF Moved
<1>15. ASSUME NEW i, NEW m
      PROVE  Moved("iotinval", i, Transfer(v("IOTINVAL_R1"), v("SWITCH1")), m) =
               Put(m, p(IF i \in 13 .. 19 THEN "SWITCH2" ELSE "SWITCH1"), At(m, p("IOTINVAL_R1")))
  BY <1>2, <1>3, <1>4, SMT DEF Moved
<1>16. ASSUME NEW i, NEW m
      PROVE  Moved("iotinval", i, Transfer(v("IOTINVAL_R2"), v("SWITCH2")), m) =
               Put(m, p(IF i \in 13 .. 19 THEN "SWITCH1" ELSE "SWITCH2"), At(m, p("IOTINVAL_R2")))
  BY <1>2, <1>3, <1>4, SMT DEF Moved
<1>17. ASSUME NEW i, NEW m
      PROVE  Moved("mrif_support", i, Transfer(v("MSI_R3"), v("MSI_W3")), m) =
               InMrif(m, At(m, p("MSI_R3")), word("NOTICE_ADDR_1"))
  BY <1>2, <1>3, <1>4, SMT DEF Moved
<1>18. ASSUME NEW i, NEW m
      PROVE  Moved("mrif_support", i, Transfer(v("MSI_R4"), v("MSI_W4")), m) =
               InMrif(m, At(m, p("MSI_R4")), word("NOTICE_ADDR_2"))
  BY <1>2, <1>3, <1>4, SMT DEF Moved
<1>19. ASSUME NEW i, NEW m
      PROVE  Moved("mrif_support", i, Transfer(v("MSI_R5"), v("MSI_W5")), m) =
               m
  BY <1>2, <1>3, <1>4, SMT DEF Moved
<1> QED BY <1>5, <1>6, <1>7, <1>8, <1>9, <1>10, <1>11, <1>12, <1>13, <1>14, <1>15, <1>16, <1>17, <1>18, <1>19

LEMMA TransferOp == \A x, y : Transfer(x, y).op = "transfer"
BY DEF Transfer

\* What the assertions on memory rely on, step by step.
StaysPut(t, i, s, m) == s.op \notin {"store", "transfer"} /\ Words(t, i, m) => Words(t, i + 1, m)
IsStored(t, i, s, m) == s.op = "store" /\ Words(t, i, m) => Words(t, i + 1, Put(m, s.at, s.value))
IsMoved(t, i, s, m) == s.op = "transfer" /\ Words(t, i, m) => Words(t, i + 1, Moved(t, i, s, m))

LEMMA StaysPutRight ==
  ASSUME NEW t \in DOMAIN Program, NEW i \in 1 .. Len(Program[t]), NEW m
  PROVE  StaysPut(t, i, Program[t][i], m)
<1> USE DEF StaysPut, Words,
       Ddtp, Context, Igs, Command, Store, Transfer, Switch, Arm,
       Translate, ReadRecord, GetCqh, GetCqcsr, SetCqcsr, ClearIpsr, UnmaskCQ, PollCycles, Expect,
       TestEnd
<1>1. CASE t = "iommu_off"
  BY <1>1, ProgramIs, IommuOffSteps, SMT
<1>2. CASE t = "iommu_bare"
  BY <1>2, ProgramIs, IommuBareSteps, SMT
<1>3. CASE t = "both_stages_bare"
  BY <1>3, ProgramIs, BothStagesBareSteps, SMT
<1>4. CASE t = "second_stage_only"
  BY <1>4, ProgramIs, SecondStageOnlySteps, SMT
<1>5. CASE t = "two_stage_translation"
  BY <1>5, ProgramIs, TwoStageTranslationSteps, SMT
<1>6. CASE t = "iotinval"
  BY <1>6, ProgramIs, IotinvalSteps, SMT
<1>7. CASE t = "wsi_generation"
  BY <1>7, ProgramIs, WsiGenerationSteps, SMT
<1>8. CASE t = "iofence"
  BY <1>8, ProgramIs, IofenceSteps, SMT
<1>9. CASE t = "msi_generation"
  BY <1>9, ProgramIs, MsiGenerationSteps, SMT
<1>10. CASE t = "hpm"
  BY <1>10, ProgramIs, HpmSteps, SMT
<1>11. CASE t = "mrif_support"
  BY <1>11, ProgramIs, MrifSupportSteps, SMT
<1>12. CASE t = "dbg_interface"
  BY <1>12, ProgramIs, DbgInterfaceSteps, SMT
<1> QED BY <1>1, <1>2, <1>3, <1>4, <1>5, <1>6, <1>7, <1>8, <1>9, <1>10, <1>11, <1>12, ProgramIs

LEMMA IsStoredRight ==
  ASSUME NEW t \in DOMAIN Program, NEW i \in 1 .. Len(Program[t]), NEW m
  PROVE  IsStored(t, i, Program[t][i], m)
<1> USE PutAt, Places DEF IsStored, Words,
       Ddtp, Context, Igs, Command, Store, Transfer, Switch, Arm,
       Translate, ReadRecord, GetCqh, GetCqcsr, SetCqcsr, ClearIpsr, UnmaskCQ, PollCycles, Expect,
       TestEnd
<1>1. CASE t = "iommu_off"
  BY <1>1, ProgramIs, IommuOffSteps, SMT
<1>2. CASE t = "iommu_bare"
  BY <1>2, ProgramIs, IommuBareSteps, SMT
<1>3. CASE t = "both_stages_bare"
  BY <1>3, ProgramIs, BothStagesBareSteps, SMT
<1>4. CASE t = "second_stage_only"
  BY <1>4, ProgramIs, SecondStageOnlySteps, SMT
<1>5. CASE t = "two_stage_translation"
  BY <1>5, ProgramIs, TwoStageTranslationSteps, SMTT(30)
<1>6. CASE t = "iotinval"
  BY <1>6, ProgramIs, IotinvalSteps, SMT
<1>7. CASE t = "wsi_generation"
  BY <1>7, ProgramIs, WsiGenerationSteps, SMT
<1>8. CASE t = "iofence"
  BY <1>8, ProgramIs, IofenceSteps, SMT
<1>9. CASE t = "msi_generation"
  BY <1>9, ProgramIs, MsiGenerationSteps, SMT
<1>10. CASE t = "hpm"
  BY <1>10, ProgramIs, HpmSteps, SMT
<1>11. CASE t = "mrif_support"
  BY <1>11, ProgramIs, MrifSupportSteps, SMT
<1>12. CASE t = "dbg_interface"
  BY <1>12, ProgramIs, DbgInterfaceSteps, SMT
<1> QED BY <1>1, <1>2, <1>3, <1>4, <1>5, <1>6, <1>7, <1>8, <1>9, <1>10, <1>11, <1>12, ProgramIs

\* The transfers through memory-resident interrupt files.
LEMMA MrifMoved ==
  ASSUME NEW t, t = "mrif_support", NEW i \in 1 .. Len(Program[t]), NEW m
  PROVE  IsMoved(t, i, Program[t][i], m)
<1>0. Program[t][i].op = "transfer" => i \in {8, 15, 18, 26}
  BY ProgramIs, MrifSupportSteps, SMT
     DEF Context, Command, Ddtp, Store, Transfer, ReadRecord, ClearIpsr, Expect, TestEnd
<1>1. CASE i = 8
  <2>1. Program[t][i] = Transfer(v("MSI_R3"), v("MSI_W3"))
    BY <1>1, ProgramIs, MrifSupportSteps, SMT
  <2>2. Moved(t, i, Program[t][i], m) = InMrif(m, At(m, p("MSI_R3")), word("NOTICE_ADDR_1"))
    BY <2>1, MovedPages
  <2>3. Words(t, i, m) => At(m, p("MSI_R3")) = "INT_ID_1"
    BY <1>1, SMT DEF Words
  <2> QED BY <1>1, <2>2, <2>3, InMrifAt, Places, SMT DEF IsMoved, Words
<1>2. CASE i = 15
  <2>1. Program[t][i] = Transfer(v("MSI_R4"), v("MSI_W4"))
    BY <1>2, ProgramIs, MrifSupportSteps, SMT
  <2>2. Moved(t, i, Program[t][i], m) = InMrif(m, At(m, p("MSI_R4")), word("NOTICE_ADDR_2"))
    BY <2>1, MovedPages
  <2>3. Words(t, i, m) => At(m, p("MSI_R4")) = "INT_ID_2" /\ At(m, word("NOTICE_ADDR_2")) = "0"
    BY <1>2, SMT DEF Words
  <2> QED BY <1>2, <2>2, <2>3, InMrifAt, Places, SMT DEF IsMoved, Words
<1>3. CASE i = 18
  <2>1. Program[t][i] = Transfer(v("MSI_R5"), v("MSI_W5"))
    BY <1>3, ProgramIs, MrifSupportSteps, SMT
  <2>2. Moved(t, i, Program[t][i], m) = m
    BY <2>1, MovedPages
  <2> QED BY <1>3, <2>2, SMT DEF IsMoved, Words
<1>4. CASE i = 26
  <2>1. Program[t][i] = Transfer(v("MSI_R3"), v("MSI_W3"))
    BY <1>4, ProgramIs, MrifSupportSteps, SMT
  <2>2. Moved(t, i, Program[t][i], m) = InMrif(m, At(m, p("MSI_R3")), word("NOTICE_ADDR_1"))
    BY <2>1, MovedPages
  <2>3. Words(t, i, m) => /\ At(m, p("MSI_R3")) = "0xFFF" /\ At(m, word("INT_IP_1")) = "0"
                           /\ At(m, word("NOTICE_ADDR_1")) = "0"
    BY <1>4, SMT DEF Words
  <2>4. Words(t, i, m) => \A b : At(Moved(t, i, Program[t][i], m), b) = At(m, b)
    BY <2>2, <2>3, InMrifAt
  <2> QED BY <1>4, <2>3, <2>4, SMT DEF IsMoved, Words
<1> QED BY <1>0, <1>1, <1>2, <1>3, <1>4 DEF IsMoved

LEMMA IsMovedRight ==
  ASSUME NEW t \in DOMAIN Program, NEW i \in 1 .. Len(Program[t]), NEW m
  PROVE  IsMoved(t, i, Program[t][i], m)
<1> USE MovedPages, TransferOp, PutAt, InMrifAt, Places DEF IsMoved, Words, Faulting,
       Ddtp, Context, Igs, Command, Store, Switch, Arm,
       Translate, ReadRecord, GetCqh, GetCqcsr, SetCqcsr, ClearIpsr, UnmaskCQ, PollCycles, Expect,
       TestEnd
<1>1. CASE t = "iommu_off"
  BY <1>1, ProgramIs, IommuOffSteps, SMT
<1>2. CASE t = "iommu_bare"
  BY <1>2, ProgramIs, IommuBareSteps, SMT
<1>3. CASE t = "both_stages_bare"
  BY <1>3, ProgramIs, BothStagesBareSteps, SMT
<1>4. CASE t = "second_stage_only"
  BY <1>4, ProgramIs, SecondStageOnlySteps, SMT
<1>5. CASE t = "two_stage_translation"
  BY <1>5, ProgramIs, TwoStageTranslationSteps, SMT
<1>6. CASE t = "iotinval"
  BY <1>6, ProgramIs, IotinvalSteps, SMT
<1>7. CASE t = "wsi_generation"
  BY <1>7, ProgramIs, WsiGenerationSteps, SMT
<1>8. CASE t = "iofence"
  BY <1>8, ProgramIs, IofenceSteps, SMT
<1>9. CASE t = "msi_generation"
  BY <1>9, ProgramIs, MsiGenerationSteps, SMT
<1>10. CASE t = "hpm"
  BY <1>10, ProgramIs, HpmSteps, SMT
<1>11. CASE t = "mrif_support"
  BY <1>11, MrifMoved
<1>12. CASE t = "dbg_interface"
  BY <1>12, ProgramIs, DbgInterfaceSteps, SMT
<1> QED BY <1>1, <1>2, <1>3, <1>4, <1>5, <1>6, <1>7, <1>8, <1>9, <1>10, <1>11, <1>12, ProgramIs

\* Words that the IOMMU writes of itself are none of them.
LEMMA OtherWords ==
  ASSUME NEW t, NEW i, NEW m, NEW n, Words(t, i, m),
         \A a : a \notin MessageWords \cup {word("IOFENCE_ADDR")} => At(n, a) = At(m, a)
  PROVE  Words(t, i, n)
<1>1. /\ \A x : p(x) \notin MessageWords \cup {word("IOFENCE_ADDR")}
      /\ \A x : file(x) \notin MessageWords \cup {word("IOFENCE_ADDR")}
      /\ \A x \in {"INT_IP_1", "INT_IP_2", "NOTICE_ADDR_1", "NOTICE_ADDR_2"} :
           word(x) \notin MessageWords \cup {word("IOFENCE_ADDR")}
  BY Places DEF MessageWords
<1>2. /\ \A x : At(n, p(x)) = At(m, p(x))
      /\ \A x : At(n, file(x)) = At(m, file(x))
      /\ At(n, word("INT_IP_1")) = At(m, word("INT_IP_1"))
      /\ At(n, word("INT_IP_2")) = At(m, word("INT_IP_2"))
      /\ At(n, word("NOTICE_ADDR_1")) = At(m, word("NOTICE_ADDR_1"))
      /\ At(n, word("NOTICE_ADDR_2")) = At(m, word("NOTICE_ADDR_2"))
  BY <1>1
<1> QED BY <1>2, SMT DEF Words

-----------------------------------------------------------------------------
(* What a transfer does *)

PlainGoes(t, i, s) ==
  s.op = "transfer" /\ t \in Plain => s.dst[2] \notin DOMAIN Number \cup Switches

LEMMA PlainGoesRight ==
  ASSUME NEW t \in DOMAIN Program, NEW i \in 1 .. Len(Program[t])
  PROVE  PlainGoes(t, i, Program[t][i])
<1> USE NumberDomain, Places DEF PlainGoes, Plain, Switches,
       Ddtp, Context, Igs, Command, Store, Transfer, Switch, Arm,
       Translate, ReadRecord, GetCqh, GetCqcsr, SetCqcsr, ClearIpsr, UnmaskCQ, PollCycles, Expect,
       TestEnd
<1>1. CASE t = "iommu_off"
  BY <1>1, ProgramIs, IommuOffSteps, SMT
<1>2. CASE t = "iommu_bare"
  BY <1>2, ProgramIs, IommuBareSteps, SMT
<1>3. CASE t = "both_stages_bare"
  BY <1>3, ProgramIs, BothStagesBareSteps, SMT
<1>4. CASE t = "second_stage_only"
  BY <1>4, ProgramIs, SecondStageOnlySteps, SMT
<1>5. CASE t = "two_stage_translation"
  BY <1>5, ProgramIs, TwoStageTranslationSteps, SMT
<1>6. CASE t = "iotinval"
  BY <1>6, ProgramIs, IotinvalSteps, SMT
<1>7. CASE t = "wsi_generation"
  BY <1>7, ProgramIs, WsiGenerationSteps, SMT
<1>8. CASE t = "iofence"
  BY <1>8, ProgramIs, IofenceSteps, SMT
<1>9. CASE t = "msi_generation"
  BY <1>9, ProgramIs, MsiGenerationSteps, SMT
<1>10. CASE t = "hpm"
  BY <1>10, ProgramIs, HpmSteps, SMT
<1>11. CASE t = "mrif_support"
  BY <1>11, ProgramIs, MrifSupportSteps, SMT
<1>12. CASE t = "dbg_interface"
  BY <1>12, ProgramIs, DbgInterfaceSteps, SMT
<1> QED BY <1>1, <1>2, <1>3, <1>4, <1>5, <1>6, <1>7, <1>8, <1>9, <1>10, <1>11, <1>12, ProgramIs

\* The page behind an exchanged entry.
LEMMA SwitchTarget ==
  ASSUME NEW x \in Switches, NEW c, c.s1 = "sv39", NEW i \in Nat
  PROVE  Page2(x, c, Exchanged(i)) =
           IF i \in 13 .. 19 THEN IF x = "SWITCH1" THEN "SWITCH2" ELSE "SWITCH1" ELSE x
<1>0. "SWITCH1" # "SWITCH2" /\ x \in {"SWITCH1", "SWITCH2"}
  BY DEF Switches
<1>1. CASE i <= 12
  <2>1. Exchanged(i) = {} /\ i \notin 13 .. 19
    BY <1>1 DEF Exchanged
  <2>2. Page2(x, c, {}) = x
    <3>0. ("s1" \in {}) = FALSE /\ ("s2" \in {}) = FALSE
      OBVIOUS
    <3>1. Page1(x, c, {}) = Switched(x, FALSE)
      BY <3>0, Zenon DEF Page1
    <3>2. Page2(x, c, {}) = Switched(Page1(x, c, {}), FALSE)
      BY <3>0, Zenon DEF Page2
    <3> QED BY <3>1, <3>2, SwitchedPages
  <2> QED BY <2>1, <2>2
<1>2. CASE i \in 13 .. 19
  <2>1. Exchanged(i) = {"s1"}
    BY <1>2 DEF Exchanged
  <2>2. ("s1" \in {"s1"}) = TRUE /\ ("s2" \in {"s1"}) = FALSE
    OBVIOUS
  <2>3. Page1(x, c, {"s1"}) = Switched(x, TRUE)
    BY <2>2, Zenon DEF Page1
  <2>4. Page2(x, c, {"s1"}) = Switched(Page1(x, c, {"s1"}), FALSE)
    BY <2>2, Zenon DEF Page2
  <2>5. Page2(x, c, {"s1"}) = IF x = "SWITCH1" THEN "SWITCH2" ELSE "SWITCH1"
    BY <1>0, <2>3, <2>4, SwitchedPages
  <2> QED BY <1>2, <2>1, <2>5
<1>3. CASE i > 19
  <2>1. Exchanged(i) = {"s1", "s2"} /\ i \notin 13 .. 19
    BY <1>3 DEF Exchanged
  <2> DEFINE sw == {"s1", "s2"}
  <2>2. ("s1" \in sw) = TRUE /\ ("s2" \in sw) = TRUE
    OBVIOUS
  <2> HIDE DEF sw
  <2>3. Page1(x, c, sw) = Switched(x, TRUE)
    BY <2>2, Zenon DEF Page1
  <2>4. Page2(x, c, sw) = Switched(Page1(x, c, sw), TRUE)
    BY <2>2, Zenon DEF Page2
  <2>5. Page2(x, c, sw) = x
    BY <1>0, <2>3, <2>4, SwitchedPages
  <2> QED BY <2>1, <2>5 DEF sw
<1> QED BY <1>1, <1>2, <1>3

\* What stands in memory afterwards, but for messages.
LEMMA TransferMemory ==
  ASSUME Ready("transfer"), NEW r, NEW w, r = ReadTo(test, Step), w = WriteTo(test, pc, Step)
  PROVE  (IF w.ok THEN Written(mem, w.to, IF r.ok THEN At(mem, r.to) ELSE Junk) ELSE mem)
           = Moved(test, pc, Step, mem)
<1> DEFINE m1 == IF w.ok THEN Written(mem, w.to, IF r.ok THEN At(mem, r.to) ELSE Junk) ELSE mem
           x == Step.dst[2]
           d == At(mem, p(Step.src[2]))
<1>1. /\ test \in DOMAIN Program /\ Step.op = "transfer" /\ Touches(test, pc, Step) /\ pc \in Nat
      /\ test \notin Plain \cup {"iommu_off"} => InUse = dc /\ InUse.s1 = Wanted1(test, pc)
  BY OwnRegime
<1>2. \A b : Reached(b).ok /\ Reached(b).to = b /\ ~Fault(b).ok
  BY DEF Reached, Fault
<1>p. \A y : p(y)[1] = "p"
  BY Places
<1>3. \A y, z : Written(mem, p(y), z) = Put(mem, p(y), z)
  BY <1>p, SMT DEF Written
<1>4. CASE test \in Faulting \cup {"iommu_off"}
  <2>1. ~w.ok
    BY <1>2, <1>4, Zenon DEF WriteTo
  <2> QED BY <1>4, <2>1, Zenon DEF Moved
<1>5. CASE test \notin Faulting \cup {"iommu_off"}
  <2>1. r = Reached(p(Step.src[2]))
    BY <1>5, Zenon DEF ReadTo
  <2>2. m1 = IF w.ok THEN Written(mem, w.to, d) ELSE mem
    BY <1>2, <2>1, Zenon
  <2> HIDE DEF m1
  <2>3. CASE test \in Plain
    <3>1. x \notin DOMAIN Number \cup Switches
      <4>1. PlainGoes(test, pc, Step)
        <5>1. pc \in 1 .. Len(Program[test]) /\ Step = Program[test][pc]
          BY Stands DEF Ready, Ops
        <5> QED BY <1>1, <5>1, PlainGoesRight
      <4> QED BY <1>1, <2>3, <4>1 DEF PlainGoes
    <3>2. w = Reached(p(x))
      BY <1>5, <2>3, Zenon DEF WriteTo
    <3>3. m1 = Put(mem, p(x), d)
      BY <1>2, <1>3, <2>2, <3>2, ZenonT(30)
    <3>4. x \notin {"MSI_W1", "MSI_W2", "MSI_W3", "MSI_W4", "MSI_W5", "SWITCH1", "SWITCH2"}
      BY <3>1, NumberDomain DEF Switches
    <3> HIDE DEF x, d
    <3> QED BY <1>5, <3>3, <3>4, Zenon DEF Moved, m1, x, d
  <2>4. CASE test \notin Plain /\ x \in Switches
    <3>1. test = "iotinval"
      BY <1>1, <2>4 DEF Touches
    <3>2. dc.s1 = "sv39"
      <4>1. InUse = dc /\ InUse.s1 = Wanted1(test, pc)
        BY <1>1, <1>5, <2>4
      <4>2. Wanted1(test, pc) = "sv39"
        BY <3>1 DEF Wanted1, TwoStageTests
      <4> QED BY <4>1, <4>2
    <3> DEFINE y == Page2(x, dc, Exchanged(pc))
    <3>3. w = Reached(p(y))
      BY <1>5, <2>4, Zenon DEF WriteTo
    <3>4. m1 = Put(mem, p(y), d)
      BY <1>2, <1>3, <2>2, <3>3, Zenon
    <3>5. y = IF pc \in 13 .. 19 THEN IF x = "SWITCH1" THEN "SWITCH2" ELSE "SWITCH1" ELSE x
      BY <1>1, <2>4, <3>2, SwitchTarget
    <3>6. x = "SWITCH1" \/ x = "SWITCH2"
      BY <2>4 DEF Switches
    <3> HIDE DEF x, d, y
    <3>7. /\ x = "SWITCH1" => y = IF pc \in 13 .. 19 THEN "SWITCH2" ELSE "SWITCH1"
          /\ x = "SWITCH2" => y = IF pc \in 13 .. 19 THEN "SWITCH1" ELSE "SWITCH2"
      BY <3>5
    <3> HIDE DEF x, d, y
    <3> QED BY <1>5, <3>4, <3>6, <3>7, SMT DEF Moved, m1, x, d
  <2>5. CASE test \notin Plain /\ x \notin Switches /\ x = "MSI_W5"
    <3>1. w = Fault("MSI_PTE_INVALID")
      BY <1>5, <2>5, Zenon DEF WriteTo
    <3> QED BY <1>2, <2>2, <2>5, <3>1, Zenon DEF Moved, m1
  <2>6. CASE test \notin Plain /\ x \notin Switches /\ x # "MSI_W5"
    <3>1. w = Leads(x)
      BY <1>5, <2>6, Zenon DEF WriteTo
    <3> HIDE DEF x, d
    <3>2. CASE x \notin DOMAIN Number
      <4>1. m1 = Put(mem, p(x), d)
        BY <1>2, <1>3, <2>2, <3>1, <3>2, Zenon DEF Leads
      <4>2. x \notin {"MSI_W1", "MSI_W2", "MSI_W3", "MSI_W4", "MSI_W5", "SWITCH1", "SWITCH2"}
        BY <2>6, <3>2, NumberDomain DEF Switches
      <4> QED BY <1>5, <4>1, <4>2, Zenon DEF Moved, m1, x, d
    <3>3. CASE x \in DOMAIN Number
      <4> DEFINE n == InterruptFile(x)
                 b == <<"msi", n>>
      <4>1. w = Reached(b) /\ b[1] = "msi" /\ b[2] = n
        BY <3>1, <3>3, Zenon DEF Leads
      <4> HIDE DEF b
      <4>2. m1 = ThroughMsiEntry(mem, MsiEntry(n), d)
        <5>1. m1 = Written(mem, b, d)
          BY <1>2, <2>2, <4>1, Zenon
        <5> HIDE DEF n
        <5>2. Written(mem, b, d) = ThroughMsiEntry(mem, MsiEntry(b[2]), d)
          BY <4>1, SMT DEF Written
        <5> QED BY <4>1, <5>1, <5>2
      <4> HIDE DEF n
      <4>3. /\ MsiEntry(17) = [mode |-> "basic", file |-> file(17)]
            /\ MsiEntry(19) = [mode |-> "basic", file |-> file(19)]
            /\ MsiEntry(20) = [mode |-> "mrif", notice |-> word("NOTICE_ADDR_1")]
            /\ MsiEntry(21) = [mode |-> "mrif", notice |-> word("NOTICE_ADDR_2")]
        BY SMT DEF MsiEntry, file, word
      <4>4. /\ \A f : ThroughMsiEntry(mem, [mode |-> "basic", file |-> f], d) = Put(mem, f, d)
            /\ \A f : ThroughMsiEntry(mem, [mode |-> "mrif", notice |-> f], d) = InMrif(mem, d, f)
        BY SMT DEF ThroughMsiEntry
      <4>5. x \in {"MSI_W1", "MSI_W2", "MSI_W3", "MSI_W4"}
        BY <2>6, <3>3, NumberDomain
      <4>6. /\ x = "MSI_W1" => n = 17
            /\ x = "MSI_W2" => n = 19
            /\ x = "MSI_W3" => n = 20
            /\ x = "MSI_W4" => n = 21
        BY Files DEF n
      <4>7. /\ x = "MSI_W1" => m1 = Put(mem, file(17), d)
            /\ x = "MSI_W2" => m1 = Put(mem, file(19), d)
            /\ x = "MSI_W3" => m1 = InMrif(mem, d, word("NOTICE_ADDR_1"))
            /\ x = "MSI_W4" => m1 = InMrif(mem, d, word("NOTICE_ADDR_2"))
        BY <4>2, <4>3, <4>4, <4>6, Zenon
      <4>8. "MSI_W1" # "MSI_W2" /\ "MSI_W3" # "MSI_W4" /\ "MSI_W1" # "MSI_W3"
            /\ "MSI_W1" # "MSI_W4" /\ "MSI_W2" # "MSI_W3" /\ "MSI_W2" # "MSI_W4"
        OBVIOUS
      <4> QED BY <1>5, <2>6, <4>5, <4>7, SMT DEF Moved, m1, x, d
    <3> QED BY <3>2, <3>3
  <2> QED BY <2>3, <2>4, <2>5, <2>6 DEF m1
<1> QED BY <1>4, <1>5

-----------------------------------------------------------------------------
(* What it logs and raises *)

\* The records of a transfer, and of a translation.
TransferFaults(t, s) ==
  IF t = "iommu_off"
  THEN <<Record("ALL_INB_TRANSACTIONS_DISALLOWED", s.src, t),
         Record("ALL_INB_TRANSACTIONS_DISALLOWED", s.dst, t)>>
  ELSE IF t \in Faulting
  THEN <<Record("LOAD_PAGE_FAULT", s.src, t), Record("STORE_GUEST_PAGE_FAULT", s.dst, t)>>
  ELSE IF s.dst[2] = "MSI_W5" THEN <<Record("MSI_PTE_INVALID", s.dst, t)>>
  ELSE << >>

TranslateFaults(t, s) ==
  IF s.iova[2] \in DOMAIN Number THEN <<Record("TRANS_TYPE_DISALLOWED", s.iova, t)>> ELSE << >>

LEMMA Pairs ==
  ASSUME NEW y, NEW z
  PROVE  /\ <<y>> \o <<z>> = <<y, z>> /\ << >> \o << >> = << >>
         /\ << >> \o <<y>> = <<y>> /\ << >> \o <<y, z>> = <<y, z>>
         /\ <<y, z>> \o << >> = <<y, z>> /\ <<y>> \o << >> = <<y>>
         /\ Head(<<y, z>>) = y /\ Tail(<<y, z>>) = <<z>> /\ Head(<<z>>) = z /\ Tail(<<z>>) = << >>
         /\ <<y>> # << >> /\ <<y, z>> # << >>
<1> DEFINE S == {y, z}
<1>1. <<y>> \in Seq(S) /\ <<z>> \in Seq(S) /\ <<y, z>> \in Seq(S) /\ << >> \in Seq(S)
      /\ Len(<<y>>) = 1 /\ Len(<<z>>) = 1 /\ Len(<<y, z>>) = 2 /\ <<y>>[1] = y /\ <<z>>[1] = z
      /\ <<y, z>>[1] = y /\ <<y, z>>[2] = z
  OBVIOUS
<1> HIDE DEF S
<1>2. <<y>> \o <<z>> = <<y, z>>
  <2> DEFINE q1 == <<y>>
             q2 == <<z>>
             q == <<y, z>>
  <2>1. /\ q1 \in Seq(S) /\ q2 \in Seq(S) /\ q \in Seq(S) /\ Len(q1) = 1 /\ Len(q2) = 1 /\ Len(q) = 2
        /\ q1[1] = y /\ q2[1] = z /\ q[1] = y /\ q[2] = z
    BY <1>1
  <2> HIDE DEF q1, q2, q
  <2>2. q1 \o q2 \in Seq(S) /\ Len(q1 \o q2) = 2
    BY <2>1
  <2>3. \A i \in 1 .. Len(q1) + Len(q2) :
          (q1 \o q2)[i] = IF i <= Len(q1) THEN q1[i] ELSE q2[i - Len(q1)]
    BY <2>1, ConcatProperties
  <2>a. /\ 1 \in 1 .. Len(q1) + Len(q2) /\ 2 \in 1 .. Len(q1) + Len(q2) /\ 1 <= Len(q1)
        /\ ~(2 <= Len(q1)) /\ 2 - Len(q1) = 1
    BY <2>1
  <2>b. (q1 \o q2)[1] = q1[1] /\ (q1 \o q2)[2] = q2[1]
    BY <2>3, <2>a, Zenon
  <2>4. (q1 \o q2)[1] = y /\ (q1 \o q2)[2] = z
    BY <2>1, <2>b, Zenon
  <2>5. q1 \o q2 = q
    BY <2>1, <2>2, <2>4
  <2> QED BY <2>5 DEF q1, q2, q
<1>3. << >> \o << >> = << >> /\ << >> \o <<y>> = <<y>> /\ << >> \o <<y, z>> = <<y, z>>
  BY <1>1
<1>4. <<y, z>> \o << >> = <<y, z>> /\ <<y>> \o << >> = <<y>>
  BY <1>1
<1>5. Head(<<y, z>>) = y /\ Tail(<<y, z>>) = <<z>> /\ Head(<<z>>) = z /\ Tail(<<z>>) = << >>
  BY <1>1
<1>6. <<y>> # << >> /\ <<y, z>> # << >>
  BY <1>1
<1> QED BY <1>2, <1>3, <1>4, <1>5, <1>6

LEMMA FaultRecordIs ==
  ASSUME NEW a
  PROVE  /\ \A b : FaultRecord(Reached(b), a) = << >>
         /\ \A c : FaultRecord(Fault(c), a) = <<Record(c, a, test)>>
BY Zenon DEF FaultRecord, Reached, Fault, Record

LEMMA TransferLogged ==
  ASSUME Ready("transfer")
  PROVE  FaultRecord(ReadTo(test, Step), Step.src) \o FaultRecord(WriteTo(test, pc, Step), Step.dst)
           = TransferFaults(test, Step)
<1> DEFINE f1 == FaultRecord(ReadTo(test, Step), Step.src)
           f2 == FaultRecord(WriteTo(test, pc, Step), Step.dst)
           x == Step.dst[2]
<1>0. /\ test \in DOMAIN Program /\ Step.op = "transfer" /\ Touches(test, pc, Step)
      /\ PlainGoes(test, pc, Step)
  <2>1. pc \in 1 .. Len(Program[test]) /\ Step = Program[test][pc]
    BY Stands DEF Ready, Ops
  <2> QED BY <2>1, OwnRegime, PlainGoesRight
<1>1. CASE test = "iommu_off"
  <2>1. /\ f1 = <<Record("ALL_INB_TRANSACTIONS_DISALLOWED", Step.src, test)>>
        /\ f2 = <<Record("ALL_INB_TRANSACTIONS_DISALLOWED", Step.dst, test)>>
    BY <1>1, FaultRecordIs, Zenon DEF ReadTo, WriteTo
  <2> HIDE DEF f1, f2
  <2>2. \A y, z : <<y>> \o <<z>> = <<y, z>>
    BY Pairs, Zenon
  <2> QED BY <1>1, <2>1, <2>2, Zenon DEF TransferFaults, f1, f2
<1>2. CASE test \in Faulting
  <2>0. test # "iommu_off"
    BY <1>2 DEF Faulting
  <2>1. /\ f1 = <<Record("LOAD_PAGE_FAULT", Step.src, test)>>
        /\ f2 = <<Record("STORE_GUEST_PAGE_FAULT", Step.dst, test)>>
    BY <1>2, <2>0, FaultRecordIs, Zenon DEF ReadTo, WriteTo
  <2> HIDE DEF f1, f2
  <2>2. \A y, z : <<y>> \o <<z>> = <<y, z>>
    BY Pairs, Zenon
  <2> QED BY <1>2, <2>0, <2>1, <2>2, Zenon DEF TransferFaults, f1, f2
<1>3. CASE test \notin Faulting \cup {"iommu_off"}
  <2>0. test \notin Faulting /\ test # "iommu_off"
    BY <1>3
  <2>1. f1 = << >>
    BY <2>0, FaultRecordIs, Zenon DEF ReadTo
  <2>2. << >> \o << >> = << >> /\ \A y : << >> \o <<y>> = <<y>>
    OBVIOUS
  <2>3. CASE x = "MSI_W5"
    <3>1. test \notin Plain /\ x \notin Switches
      BY <1>0, <2>3, NumberDomain DEF PlainGoes, Switches
    <3>2. f2 = <<Record("MSI_PTE_INVALID", Step.dst, test)>>
      BY <2>0, <2>3, <3>1, FaultRecordIs, Zenon DEF WriteTo
    <3> HIDE DEF f1, f2
    <3> QED BY <2>0, <2>1, <2>2, <2>3, <3>2, Zenon DEF TransferFaults, f1, f2
  <2>4. CASE x # "MSI_W5"
    <3>1. f2 = << >>
      BY <2>0, <2>4, FaultRecordIs, Zenon DEF WriteTo, Leads
    <3> HIDE DEF f1, f2
    <3> QED BY <2>0, <2>1, <2>2, <2>4, <3>1, Zenon DEF TransferFaults, f1, f2
  <2> QED BY <2>3, <2>4
<1> QED BY <1>1, <1>2, <1>3

LEMMA HpmTransfer ==
  /\ Program["hpm"][21] = Transfer(v("HPM_R"), v("HPM_W"))
  /\ Program["hpm"][21].src = v("HPM_R")
<1>1. Program["hpm"][21] = Transfer(v("HPM_R"), v("HPM_W"))
  BY ProgramIs, HpmSteps, SMT
<1> QED BY <1>1 DEF Transfer

\* All that a transfer of a test on track does.
Becoming(causes) == IF igs = "msi" THEN (causes \ ipsr) \ masked ELSE {}

LEMMA PendIs ==
  ASSUME NEW causes, NEW m, Pend(causes, m)
  PROVE  /\ ipsr' = ipsr \cup causes /\ mem' = WithMessages(m, Becoming(causes))
         /\ held \subseteq held'
<1>1. /\ ipsr' = ipsr \cup causes
      /\ held' = held \cup ((IF igs = "msi" THEN causes \ ipsr ELSE {}) \cap masked)
      /\ mem' = WithMessages(m, (IF igs = "msi" THEN causes \ ipsr ELSE {}) \ masked)
  BY DEF Pend
<1>2. (IF igs = "msi" THEN causes \ ipsr ELSE {}) \ masked = Becoming(causes)
  BY DEF Becoming
<1> QED BY <1>1, <1>2

LEMMA TransferEffects ==
  ASSUME Ready("transfer"), DmaTransfer
  PROVE  /\ fq' = fq \o TransferFaults(test, Step) /\ response' = response
         /\ \E causes \in SUBSET {"fip", "pmip"} :
              /\ ipsr' = ipsr \cup causes /\ held \subseteq held'
              /\ mem' = WithMessages(Moved(test, pc, Step, mem), Becoming(causes))
              /\ "fip" \in causes <=> TransferFaults(test, Step) # << >>
              /\ "iohpmctr3" \notin armed =>
                   "pmip" \notin causes /\ UNCHANGED <<armed, overflowed>>
              /\ test = "hpm" /\ pc = 21 /\ "iohpmctr3" \in armed =>
                   /\ "iohpmctr3" \in overflowed'
                   /\ "iohpmctr3" \notin overflowed => "pmip" \in causes
<1> DEFINE src == Step.src
           dst == Step.dst
           r == Translated(src, "read", iotlb)
           tlb == Filled(src, "read", iotlb)
           w == MsiChecked(Translated(dst, "write", tlb))
           faults == FaultRecord(r, src) \o FaultRecord(w, dst)
           walks == WalksStage1(src, "read", iotlb) \/ WalksStage1(dst, "write", tlb)
           counted == "iohpmctr3" \in armed /\ walks
           data == IF r.ok THEN At(mem, r.to) ELSE Junk
           causes == (IF faults # << >> THEN {"fip"} ELSE {}) \cup
                       (IF counted /\ "iohpmctr3" \notin overflowed THEN {"pmip"} ELSE {})
           m1 == IF w.ok THEN Written(mem, w.to, data) ELSE mem
<1>1. /\ fq' = fq \o faults
      /\ armed' = IF counted THEN armed \ {"iohpmctr3"} ELSE armed
      /\ overflowed' = IF counted THEN overflowed \cup {"iohpmctr3"} ELSE overflowed
      /\ Pend(causes, m1)
      /\ response' = response
  BY Zenon DEF DmaTransfer, reads
<1>2. r = ReadTo(test, Step)
  BY TransferRead
<1>3. w = WriteTo(test, pc, Step)
  BY TransferWrite
<1>4. faults = TransferFaults(test, Step)
  BY <1>2, <1>3, TransferLogged
<1>5. m1 = Moved(test, pc, Step, mem)
  BY <1>2, <1>3, TransferMemory
<1>6. ASSUME test = "hpm", pc = 21
      PROVE  walks
  <2>2. WalksStage1(src, "read", iotlb)
    <3>1. TypeInv /\ Frame /\ Effects("transfer")
      BY DEF Ready
    <3>2. /\ test \in DOMAIN Program /\ pc \in 1 .. Len(Program[test]) /\ Step = Program[test][pc]
          /\ status = "running"
      BY <3>1, Stands DEF Ops
    <3>3. src = v("HPM_R")
      BY <1>6, <3>2, HpmTransfer
    <3>4. Before("hpm", 21)
      BY <1>6, <3>2 DEF Before
    <3>5. \A e \in iotlb : e.iova[2] \notin {"HPM_R", "HPM_W"}
      BY <3>1, <3>4 DEF Frame, Untouched
    <3>6. Hits(src, "read", iotlb) = {}
      BY <3>3, <3>5, Places DEF Hits
    <3>7. ddtp = "1lvl" /\ InUse.s1 = "sv39"
      <4>1. test \notin Plain \cup {"iommu_off"} /\ test \in TwoStageTests
        BY <1>6 DEF Plain, TwoStageTests
      <4> QED BY <4>1, OwnRegime
    <3> HIDE DEF src
    <3> QED BY <3>6, <3>7 DEF WalksStage1
  <2> QED BY <2>2
<1> HIDE DEF r, tlb, w, faults, walks, data, m1
<1>7. ipsr' = ipsr \cup causes /\ mem' = WithMessages(m1, Becoming(causes)) /\ held \subseteq held'
  BY <1>1, PendIs
<1>8. /\ causes \in SUBSET {"fip", "pmip"}
      /\ "fip" \in causes <=> faults # << >>
      /\ "pmip" \in causes <=> counted /\ "iohpmctr3" \notin overflowed
  OBVIOUS
<1>9. "iohpmctr3" \notin armed => "pmip" \notin causes /\ UNCHANGED <<armed, overflowed>>
  BY <1>1, <1>8
<1>10. test = "hpm" /\ pc = 21 /\ "iohpmctr3" \in armed =>
         /\ "iohpmctr3" \in overflowed'
         /\ "iohpmctr3" \notin overflowed => "pmip" \in causes
  BY <1>1, <1>6, <1>8
<1> HIDE DEF causes, counted
<1> QED BY <1>1, <1>4, <1>5, <1>7, <1>8, <1>9, <1>10

-----------------------------------------------------------------------------
LEMMA TranslateEffects ==
  ASSUME Ready("translate"), DebugTranslate
  PROVE  /\ fq' = fq \o TranslateFaults(test, Step)
         /\ response' = IF Step.iova[2] \in DOMAIN Number THEN NoAddress ELSE p(Step.iova[2])
         /\ UNCHANGED <<armed, overflowed>>
         /\ \E causes \in SUBSET {"fip"} :
              /\ ipsr' = ipsr \cup causes /\ held \subseteq held'
              /\ mem' = WithMessages(mem, Becoming(causes))
<1> DEFINE a == Step.iova
           x == a[2]
           t == Translated(a, "write", iotlb)
           r == IF t.ok /\ t.to[1] = "msi" THEN Fault("TRANS_TYPE_DISALLOWED") ELSE t
           causes == IF r.ok THEN {} ELSE {"fip"}
<1>1. /\ fq' = fq \o FaultRecord(r, a) /\ response' = IF r.ok THEN r.to ELSE NoAddress
      /\ UNCHANGED <<armed, overflowed>> /\ Pend(causes, mem)
  BY DEF DebugTranslate, count
<1>2. /\ Goes(test, pc, Step) /\ Step.op = "translate" /\ \A e \in iotlb : Sound(e)
      /\ test \notin Plain \cup {"iommu_off"} =>
           /\ ddtp = "1lvl" /\ InUse \in ContextValues
           /\ InUse.s1 = Wanted1(test, pc) /\ InUse.s2 = "sv39x4" /\ InUse.msi = "flat"
  BY OwnRegime
<1>3. test \notin Plain \cup {"iommu_off"} /\ Granted(test, pc, a, "write")
  BY <1>2 DEF Goes
<1>4. t = Leads(x)
  BY <1>2, <1>3, TranslatedGranted
<1>5. \A b : Reached(b).ok /\ Reached(b).to = b /\ ~Fault(b).ok
  BY DEF Reached, Fault
<1>6. r = IF x \in DOMAIN Number THEN Fault("TRANS_TYPE_DISALLOWED") ELSE Reached(p(x))
  <2> HIDE DEF t, x
  <2>1. \A y : p(y)[1] # "msi"
    BY Places
  <2>2. \A y : <<"msi", y>>[1] = "msi"
    OBVIOUS
  <2> QED BY <1>4, <1>5, <2>1, <2>2, ZenonT(30) DEF Leads
<1> HIDE DEF t, r
<1>7. FaultRecord(r, a) = TranslateFaults(test, Step)
  BY <1>6, FaultRecordIs, Zenon DEF TranslateFaults
<1>8. response' = IF x \in DOMAIN Number THEN NoAddress ELSE p(x)
  BY <1>1, <1>5, <1>6, Zenon
<1>9. ipsr' = ipsr \cup causes /\ mem' = WithMessages(mem, Becoming(causes)) /\ held \subseteq held'
  BY <1>1, PendIs
<1>10. causes \in SUBSET {"fip"}
  OBVIOUS
<1> HIDE DEF causes
<1> QED BY <1>1, <1>7, <1>8, <1>9, <1>10

-----------------------------------------------------------------------------
(* A test on track stays on it *)

\* What explains failures is never forgotten.
LEMMA HartExcuses ==
  ASSUME [Next]_vars
  PROVE  excused \subseteq excused' /\ overtook \subseteq overtook' /\ falsified \subseteq falsified'
<1>1. CASE IOMMU \/ UNCHANGED vars
  BY <1>1, IommuQuiet
<1>2. CASE CallTest \/ Summary \/ FallOff
  BY <1>2 DEF CallTest, Summary, FallOff, results
<1>3. ASSUME NEW op \in Ops, Effects(op)
      PROVE  overtook \subseteq overtook' /\ falsified \subseteq falsified'
  BY <1>3 DEF Effects, Doing
<1>4. ASSUME DmaTransfer \/ DebugTranslate
      PROVE  excused \subseteq excused'
  <2>1. excused' = IF Stale THEN excused \cup {test} ELSE excused
    BY <1>4, Zenon DEF DmaTransfer, DebugTranslate
  <2> QED BY <2>1
<1>5. ASSUME NEW op \in Ops \ {"transfer", "translate"}, Effects(op), Calm(op)
      PROVE  excused \subseteq excused'
  BY <1>5 DEF Effects, Calm
<1>6. "transfer" \in Ops /\ "translate" \in Ops
  BY DEF Ops
<1> QED BY <1>1, <1>2, <1>3, <1>4, <1>5, <1>6, HartEffects DEF Next

\* A step that is on track afterwards was so before it.
LEMMA OnStep ==
  ASSUME TypeInv, [Next]_vars, Clean', NEW op \in Ops, Effects(op)
  PROVE  /\ OnTrack /\ cq = << >> /\ ~Behind /\ (events # {} => "cip" \in ipsr)
         /\ (test \in excused => test \in excused') /\ overtook' = overtook
<1>1. /\ status = "running" /\ test' = test /\ Step.op = op
  BY Stands
<1>d. overtook' = IF Behind THEN overtook \cup {test} ELSE overtook
  BY DEF Effects, Doing
<1>2. /\ overtook' = IF Behind THEN overtook \cup {test} ELSE overtook
      /\ test \notin overtook' /\ (test \in excused' => test \in Independent /\ overtook' = {})
  BY <1>1, <1>d DEF Clean
<1>3. ~Behind /\ overtook' = overtook
  BY <1>2
<1>4. cq = << >> /\ (events # {} => "cip" \in ipsr)
  BY <1>3 DEF Behind, Signalling
<1>5. excused \subseteq excused'
  BY HartExcuses
<1> QED BY <1>1, <1>2, <1>3, <1>4, <1>5 DEF OnTrack, Clean

\* A test that is called relies on nothing yet.
LEMMA CallFacts ==
  ASSUME TypeInv, Own, CallTest, OnTrack'
  PROVE  Facts(test, pc)'
<1>1. /\ status = "main" /\ pc' = 1 /\ test' = suite[index + 1]
      /\ excused' = IF ipsr # {} \/ fq # << >> THEN excused \cup {test'} ELSE excused
      /\ overtook' = IF Behind THEN overtook \cup {test'} ELSE overtook
      /\ UNCHANGED <<ddtc, iotlb, events, ipsr, fq, igs, response, cq>>
  BY DEF CallTest, test, caches, queue, irq, control, reads
<1>2. test' \notin overtook' /\ (test' \in excused' => test' \in Independent /\ overtook' = {})
  BY DEF OnTrack, Clean
<1>3. events # {} => "cip" \in ipsr
  BY <1>1, <1>2 DEF Behind, Signalling
<1>4. test' \notin Independent => ipsr = {} /\ fq = << >> /\ events = {}
  BY <1>1, <1>2, <1>3
<1>5. fq = << >>
  <2>1. CASE ipsr # {} \/ fq # << >>
    <3>1. overtook = {}
      BY <1>1, <1>2, <2>1
    <3> QED BY <1>1, <3>1 DEF Own, Taken
  <2> QED BY <2>1
<1>6. (OwnContext(test, pc) /\ OwnEntries(test, pc) /\ Words(test, pc, mem) /\ Answered(test, pc))'
  BY <1>1, SMT DEF OwnContext, OwnEntries, Words, Answered
<1>7. Events(test, pc)'
  BY <1>1, <1>4, SMT DEF Events
<1>8. Pending(test, pc)'
  BY <1>1, <1>4, SMT DEF Pending, Independent
<1>9. Recording(test, pc)'
  <2>1. \A t : Caused(t) > 1 /\ Read1(t) > 1 /\ Read2(t) > 1 /\ Caused(t) \in Nat /\ Read1(t) \in Nat
               /\ Read2(t) \in Nat
    BY SMT DEF Caused, Read1, Read2
  <2>2. (1 < Caused(test') /\ ~(Read1(test') <= 1) /\ ~(Read2(test') <= 1))
    BY <2>1
  <2> QED BY <1>1, <1>5, <2>2, Zenon DEF Recording
<1> QED BY <1>6, <1>7, <1>8, <1>9 DEF Facts

-----------------------------------------------------------------------------
(* Where the steps stand that these facts are about *)

Paced(t, i, s) ==
  /\ t = "iofence" =>
       /\ i = 2 => s.op = "cqh"
       /\ i = 3 => s.op = "command" /\ s.command = "iofence"
       /\ i \in {4, 6, 7, 8} => s.op = "assert"
       /\ i = 5 => s.op = "cqcsr"
  /\ t = "wsi_generation" =>
       /\ i = 8 => s.op = "transfer"
       /\ i = 9 => s.op = "assert"
       /\ i = 10 => s.op = "clear_ipsr"
  /\ t = "msi_generation" =>
       /\ i <= 5 => s.op \in {"ddtp", "context", "igs"}
       /\ i = 5 => s.op = "igs" /\ s.mode = "msi"
       /\ i = 6 => s.op = "transfer"
       /\ i = 7 => s.op = "command"
       /\ i = 8 => s.op = "cqcsr"
       /\ i \in 9 .. 11 => s.op = "assert"
       /\ i = 12 => s.op = "set_cqcsr"
       /\ i = 13 => s.op = "clear_ipsr"
       /\ i = 14 => s.op = "unmask"
  /\ t = "hpm" =>
       /\ i \in {6, 11} => s.op = "clear_ipsr"
       /\ i = 12 => s.op = "igs" /\ s.mode = "msi"
       /\ i \in {7, 13, 20} => s.op = "arm" /\ s.counter = IF i = 20 THEN "iohpmctr3" ELSE "cycles"
       /\ i \in {8, 14} => s.op = "poll"
       /\ i \in {9, 10, 15, 16, 17, 22, 23, 24} => s.op = "assert"
       /\ i = 21 => s.op = "transfer"
  /\ t = "iotinval" =>
       /\ i \in {15, 22} => s.op = "command"
       /\ i \in {12, 19} => s.op = "switch"
       /\ s.op = "transfer" => i \in {9, 10, 16, 17, 23, 24} /\ s.dst[2] \in Switches /\ s.dst = v(s.dst[2])
       /\ s.op = "switch" => i \in {12, 19}

LEMMA PacedRight ==
  ASSUME NEW t \in DOMAIN Program, NEW i \in 1 .. Len(Program[t])
  PROVE  Paced(t, i, Program[t][i])
<1> USE Places DEF Paced, Switches,
       Ddtp, Context, Igs, Command, Store, Transfer, Switch, Arm,
       Translate, ReadRecord, GetCqh, GetCqcsr, SetCqcsr, ClearIpsr, UnmaskCQ, PollCycles, Expect,
       TestEnd
<1>1. CASE t = "iommu_off"
  BY <1>1, ProgramIs, IommuOffSteps, SMT
<1>2. CASE t = "iommu_bare"
  BY <1>2, ProgramIs, IommuBareSteps, SMT
<1>3. CASE t = "both_stages_bare"
  BY <1>3, ProgramIs, BothStagesBareSteps, SMT
<1>4. CASE t = "second_stage_only"
  BY <1>4, ProgramIs, SecondStageOnlySteps, SMT
<1>5. CASE t = "two_stage_translation"
  BY <1>5, ProgramIs, TwoStageTranslationSteps, SMT
<1>6. CASE t = "iotinval"
  BY <1>6, ProgramIs, IotinvalSteps, SMT
<1>7. CASE t = "wsi_generation"
  BY <1>7, ProgramIs, WsiGenerationSteps, SMT
<1>8. CASE t = "iofence"
  BY <1>8, ProgramIs, IofenceSteps, SMT
<1>9. CASE t = "msi_generation"
  BY <1>9, ProgramIs, MsiGenerationSteps, SMT
<1>10. CASE t = "hpm"
  BY <1>10, ProgramIs, HpmSteps, SMT
<1>11. CASE t = "mrif_support"
  BY <1>11, ProgramIs, MrifSupportSteps, SMT
<1>12. CASE t = "dbg_interface"
  BY <1>12, ProgramIs, DbgInterfaceSteps, SMT
<1> QED BY <1>1, <1>2, <1>3, <1>4, <1>5, <1>6, <1>7, <1>8, <1>9, <1>10, <1>11, <1>12, ProgramIs

-----------------------------------------------------------------------------
(* The facts, step by step of the hart *)

\* A step of a test on track.
Changes(op) ==
  /\ op = "transfer" => DmaTransfer
  /\ op = "translate" => DebugTranslate
  /\ op \notin {"transfer", "translate"} => Calm(op)

Proceeds(op) ==
  /\ TypeInv /\ Frame /\ [Next]_vars /\ OnTrack' /\ Facts(test, pc)
  /\ Effects(op) /\ Changes(op)

LEMMA Went ==
  ASSUME NEW op \in Ops, Proceeds(op)
  PROVE  /\ test \in DOMAIN Program /\ pc \in 1 .. Len(Program[test]) /\ Step = Program[test][pc]
         /\ Step.op = op /\ pc \in Nat \ {0} /\ test' = test /\ pc' = pc + 1 /\ status = "running"
         /\ SetsUp(test, pc, Step) /\ Queues(test, pc, Step) /\ Touches(test, pc, Step)
         /\ Paced(test, pc, Step)
         /\ cq = << >> /\ (events # {} => "cip" \in ipsr) /\ (test \in excused => test \in excused')
         /\ op \in {"transfer", "translate"} => Ready(op)
<1>1. TypeInv /\ [Next]_vars /\ OnTrack' /\ Effects(op) /\ Changes(op) /\ Frame /\ Facts(test, pc)
  BY DEF Proceeds
<1>2. /\ test \in DOMAIN Program /\ pc \in 1 .. Len(Program[test]) /\ Step = Program[test][pc]
      /\ Step.op = op /\ pc \in Nat \ {0} /\ test' = test /\ pc' = pc + 1 /\ status = "running"
      /\ SetsUp(test, pc, Step) /\ Queues(test, pc, Step) /\ Touches(test, pc, Step)
  BY <1>1, Stands
<1>3. Paced(test, pc, Step)
  BY <1>2, PacedRight
<1>4. cq = << >> /\ (events # {} => "cip" \in ipsr) /\ (test \in excused => test \in excused')
  BY <1>1, OnStep DEF OnTrack
<1>5. op \in {"transfer", "translate"} => Ready(op)
  <2>1. op \in {"transfer", "translate"} => excused' = IF Stale THEN excused \cup {test} ELSE excused
    BY <1>1, Zenon DEF Changes, DmaTransfer, DebugTranslate
  <2> QED BY <1>1, <2>1 DEF Ready, Facts
<1> QED BY <1>2, <1>3, <1>4, <1>5

LEMMA OwnContextGoes ==
  ASSUME NEW op \in Ops, Proceeds(op)
  PROVE  OwnContext(test, pc)'
<1>1. /\ pc \in Nat \ {0} /\ test' = test /\ pc' = pc + 1 /\ cq = << >> /\ Step.op = op
      /\ SetsUp(test, pc, Step) /\ Queues(test, pc, Step)
  BY Went
<1>2. /\ dc' = IF op = "context" THEN [dc EXCEPT ![Step.field] = Step.mode] ELSE dc
      /\ cq' = IF op = "command" THEN Append(cq, Step.command) ELSE cq
  BY DEF Proceeds, Effects
<1>3. ddtc' \in {ddtc, InUse}
  <2>1. op \notin {"transfer", "translate"} => ddtc' = ddtc
    BY DEF Proceeds, Changes, Calm
  <2>2. op \in {"transfer", "translate"} => ddtc' = IF ddtp = "1lvl" THEN InUse ELSE ddtc
    BY Zenon DEF Proceeds, Changes, DmaTransfer, DebugTranslate
  <2> QED BY <2>1, <2>2
<1>4. \A x : Append(<< >>, x) = <<x>>
  OBVIOUS
<1> SUFFICES ASSUME test \in Owners, pc + 1 >= 6, test = "mrif_support" => pc + 1 # 12
             PROVE  cq' = <<"ddt_inval">> \/ ddtc' \in {NoContext, dc'}
  BY <1>1 DEF OwnContext, Owners
<1>5. CASE op = "command"
  BY <1>1, <1>2, <1>4, <1>5 DEF Queues
<1>6. CASE op # "command"
  <2>1. pc # 5 /\ (test = "mrif_support" => pc # 12) /\ pc >= 6
    BY <1>1, <1>6 DEF Queues
  <2>2. OwnContext(test, pc)
    BY DEF Proceeds, Facts
  <2>3. ddtc \in {NoContext, dc}
    BY <1>1, <2>1, <2>2 DEF OwnContext, Owners
  <2>4. op # "context"
    BY <1>1, <2>1 DEF Queues
  <2> QED BY <1>2, <1>3, <2>3, <2>4 DEF InUse
<1> QED BY <1>5, <1>6

\* An entry that a transfer of iotinval adds follows the tables.
LEMMA EntryAdded ==
  ASSUME Proceeds("transfer"), NEW e \in OnSwitches(iotlb'), e \notin OnSwitches(iotlb), test = "iotinval"
  PROVE  e.s1 = "sv39" /\ e.s2 = "sv39x4" /\ Reached(e.to) = WalkAgain(e, swapped)
<1> DEFINE src == Step.src
           dst == Step.dst
           x == dst[2]
           tlb == Filled(src, "read", iotlb)
           r == Translated(dst, "write", tlb)
<1>0. "transfer" \in Ops
  BY DEF Ops
<1>1. /\ Ready("transfer") /\ Touches(test, pc, Step) /\ Paced(test, pc, Step) /\ Step.op = "transfer"
  BY <1>0, Went
<1>2. /\ ddtp = "1lvl" /\ InUse \in ContextValues
      /\ InUse.s1 = Wanted1(test, pc) /\ InUse.s2 = "sv39x4" /\ InUse.msi = "flat"
      /\ Wanted1(test, pc) = "sv39"
  <2>1. test \notin Plain \cup {"iommu_off"} /\ test \in TwoStageTests
    BY DEF Plain, TwoStageTests
  <2> QED BY <1>1, <2>1, OwnRegime
<1>3. iotlb' = Filled(dst, "write", tlb)
  BY Zenon DEF Proceeds, Changes, DmaTransfer
<1>4. /\ pc \in {9, 10, 16, 17, 23, 24} /\ x \in Switches /\ dst = v(x)
      /\ src[2] \notin Switches
  BY <1>1 DEF Paced, Touches
<1>5. OnSwitches(tlb) = OnSwitches(iotlb)
  <2>1. iotlb \subseteq tlb
    BY Zenon DEF Filled
  <2>2. \A d \in tlb : d \in iotlb \/ d.iova = src
    BY FilledPage, Zenon
  <2> QED BY <1>4, <2>1, <2>2 DEF OnSwitches
<1> HIDE DEF tlb
<1>6. e \notin tlb /\ e \in Filled(dst, "write", tlb)
  BY <1>3, <1>5 DEF OnSwitches
<1>7. e = [iova |-> dst, access |-> "write", s1 |-> InUse.s1, s2 |-> InUse.s2, to |-> r.to]
  BY <1>6, Zenon DEF Filled
<1>8. r = Walk(dst, "write", InUse, swapped) /\ \E y : r = Reached(y)
  <2> HIDE DEF x, r
  <2>1. /\ Translated(v(x), "write", tlb) = Walk(v(x), "write", InUse, swapped)
        /\ Walk(v(x), "write", InUse, swapped) = Reached(p(Page2(x, dc, Exchanged(pc))))
    BY <1>1, <1>4, <1>5, TranslatedSwitch
  <2> QED BY <1>4, <2>1 DEF r
<1> HIDE DEF r
<1>9. r = Reached(r.to)
  BY <1>8 DEF Reached
<1>10. InUse = [s1 |-> e.s1, s2 |-> e.s2, msi |-> "flat"] /\ e.iova = dst /\ e.access = "write"
       /\ e.to = r.to /\ e.s1 = InUse.s1 /\ e.s2 = InUse.s2
  BY <1>2, <1>7 DEF ContextValues
<1>11. WalkAgain(e, swapped) = Walk(dst, "write", InUse, swapped)
  BY <1>10 DEF WalkAgain
<1> QED BY <1>2, <1>8, <1>9, <1>10, <1>11

LEMMA OwnEntriesGoes ==
  ASSUME NEW op \in Ops, Proceeds(op)
  PROVE  OwnEntries(test, pc)'
<1>1. /\ pc \in Nat \ {0} /\ test' = test /\ pc' = pc + 1 /\ cq = << >> /\ Step.op = op
      /\ Touches(test, pc, Step) /\ Paced(test, pc, Step) /\ status = "running"
  BY Went
<1>2. /\ cq' = IF op = "command" THEN Append(cq, Step.command) ELSE cq
      /\ op # "switch" => swapped' = swapped
  BY DEF Proceeds, Effects
<1> SUFFICES ASSUME test = "iotinval"
             PROVE  /\ pc + 1 >= 10 => \A e \in OnSwitches(iotlb') : e.s1 = "sv39" /\ e.s2 = "sv39x4"
                    /\ pc + 1 \in (10 .. 12) \cup (17 .. 19) \cup (24 .. 26) =>
                         \A e \in OnSwitches(iotlb') : Reached(e.to) = WalkAgain(e, swapped')
                    /\ pc + 1 \in {16, 23} /\ cq' = << >> => OnSwitches(iotlb') = {}
  BY <1>1 DEF OwnEntries
<1>3. \A e \in OnSwitches(iotlb') :
        e \notin OnSwitches(iotlb) =>
          op = "transfer" /\ e.s1 = "sv39" /\ e.s2 = "sv39x4" /\ Reached(e.to) = WalkAgain(e, swapped)
  <2> SUFFICES ASSUME NEW e \in OnSwitches(iotlb'), e \notin OnSwitches(iotlb)
               PROVE  op = "transfer"
    BY EntryAdded
  <2>1. e \in iotlb' /\ e \notin iotlb /\ e.iova[2] \in Switches
    BY DEF OnSwitches
  <2>2. PICK o \in {"transfer", "translate"} :
          /\ Effects(o)
          /\ \/ o = "transfer" /\ e.iova \in {Step.src, Step.dst}
             \/ o = "translate" /\ e.iova = Step.iova
    BY <2>1, EntriesAdded DEF Proceeds
  <2>3. Step.op = o
    BY <2>2, Stands DEF Proceeds, Ops
  <2> QED BY <1>1, <2>1, <2>2, <2>3 DEF Touches
<1>4. OwnEntries(test, pc) /\ (pc <= 9 => OnSwitches(iotlb) = {})
  <2>1. pc <= 9 => Before("iotinval", 9)
    BY <1>1 DEF Before
  <2> QED BY <2>1 DEF Proceeds, Facts, Frame, Untouched
<1>5. pc + 1 >= 10 => \A e \in OnSwitches(iotlb') : e.s1 = "sv39" /\ e.s2 = "sv39x4"
  BY <1>1, <1>3, <1>4 DEF OwnEntries
<1>6. ASSUME pc + 1 \in (10 .. 12) \cup (17 .. 19) \cup (24 .. 26)
      PROVE  \A e \in OnSwitches(iotlb') : Reached(e.to) = WalkAgain(e, swapped')
  <2>1. op # "switch"
    BY <1>1, <1>6 DEF Paced
  <2>2. \A e \in OnSwitches(iotlb) : Reached(e.to) = WalkAgain(e, swapped)
    <3>1. CASE pc = 9
      BY <1>4, <3>1
    <3>2. CASE pc \in {16, 23}
      BY <1>1, <1>4, <3>2 DEF OwnEntries
    <3>3. CASE pc \in (10 .. 12) \cup (17 .. 19) \cup (24 .. 26)
      BY <1>4, <3>3 DEF OwnEntries
    <3> QED BY <1>1, <1>6, <3>1, <3>2, <3>3
  <2> QED BY <1>2, <1>3, <2>1, <2>2
<1>7. pc + 1 \in {16, 23} => cq' # << >>
  <2>1. pc + 1 \in {16, 23} => op = "command"
    BY <1>1 DEF Paced
  <2>2. \A x : Append(<< >>, x) # << >>
    OBVIOUS
  <2> QED BY <1>1, <1>2, <2>1, <2>2
<1> QED BY <1>5, <1>6, <1>7

LEMMA EventsGo ==
  ASSUME NEW op \in Ops, Proceeds(op)
  PROVE  Events(test, pc)'
<1> DEFINE t == test
           i == pc
<1>1. /\ i \in Nat \ {0} /\ test' = t /\ pc' = i + 1 /\ cq = << >> /\ Step.op = op
      /\ Paced(t, i, Step) /\ (t \in excused => t \in excused')
  BY Went
<1>2. /\ cq' = IF op = "command" THEN Append(cq, Step.command) ELSE cq
      /\ cqhRead' = IF op = "cqh" THEN cqh ELSE cqhRead
      /\ csr' = IF op = "cqcsr" THEN events ELSE csr
      /\ events' = IF op = "set_cqcsr" THEN events \ csr ELSE events
      /\ cqh' = cqh
      /\ op = "cqh" => excused' = IF cqh = CqEntries - 1 THEN excused \cup {t} ELSE excused
      /\ op = "command" => excused' = IF Reserved(Step.command) THEN excused \cup {t} ELSE excused
      /\ op = "command" => igs' = igs
  BY DEF Proceeds, Effects
<1>a. t = "iofence" => t \notin excused'
  BY <1>1 DEF Proceeds, OnTrack, Clean, Independent
<1>b. igs \in {"wsi", "msi"}
  BY DEF Proceeds, TypeInv, Hardware
<1>3. op \in {"assert", "cqcsr"} => mem' = mem
  BY DEF Proceeds, Changes, Calm
<1>4. \A x : Append(<< >>, x) # << >>
  OBVIOUS
<1>5. Events(t, i)
  BY DEF Proceeds, Facts
<1> HIDE DEF t, i
<1>6. /\ t \notin Independent \cup {"iofence"} /\ (t = "msi_generation" => i + 1 <= 7) => events' = {}
      /\ t = "msi_generation" /\ i + 1 = 8 => cq' # << >> /\ events' = {}
      /\ t = "msi_generation" /\ i + 1 \in 9 .. 12 => "cmd_ill" \in events' \cap csr'
  <2>1. /\ op \notin {"cqcsr", "set_cqcsr"} => csr' = csr /\ events' = events
        /\ op = "cqcsr" => csr' = events /\ events' = events
        /\ events = {} => events' = {}
        /\ op = "command" => cq' # << >>
    BY <1>1, <1>2, <1>4
  <2>2. t \notin Independent \cup {"iofence"} /\ (t = "msi_generation" => i + 1 <= 7) => events' = {}
    BY <1>1, <1>5, <2>1 DEF Events
  <2>3. t = "msi_generation" /\ i + 1 = 8 => cq' # << >> /\ events' = {}
    <3> SUFFICES ASSUME t = "msi_generation", i = 7 PROVE cq' # << >> /\ events' = {}
      BY <1>1
    <3>1. op = "command" /\ events = {}
      BY <1>1, <1>5 DEF Events, Paced, Independent
    <3> QED BY <2>1, <3>1
  <2>4. t = "msi_generation" /\ i + 1 = 9 => "cmd_ill" \in events' \cap csr'
    BY <1>1, <1>5, <2>1 DEF Events, Paced
  <2>5. t = "msi_generation" /\ i + 1 \in 10 .. 12 => "cmd_ill" \in events' \cap csr'
    <3> SUFFICES ASSUME t = "msi_generation", i \in 9 .. 11
                 PROVE  "cmd_ill" \in events' \cap csr'
      BY <1>1
    <3>1. op = "assert"
      BY <1>1 DEF Paced
    <3>2. "cmd_ill" \in events \cap csr
      BY <1>5 DEF Events
    <3> QED BY <2>1, <3>1, <3>2
  <2> QED BY <1>1, <2>2, <2>3, <2>4, <2>5
<1>7. /\ t = "iofence" /\ i + 1 = 4 => cq' # << >>
      /\ t = "iofence" /\ i + 1 \in 5 .. 9 => Fenced'
      /\ t = "iofence" /\ i + 1 \in 6 .. 9 => "fence_w_ip" \in csr'
  <2>1. t = "iofence" /\ i + 1 = 4 => cq' # << >>
    BY <1>1, <1>2, <1>4 DEF Paced
  <2>2. t = "iofence" /\ i + 1 \in 5 .. 9 => Fenced
    BY <1>1, <1>5 DEF Events
  <2>3. t = "iofence" /\ i + 1 \in 5 .. 9 => op \in {"assert", "cqcsr"}
    BY <1>1 DEF Paced
  <2>4. t = "iofence" /\ i + 1 \in 5 .. 9 => Fenced'
    BY <1>2, <1>3, <2>2, <2>3 DEF Fenced
  <2>5. t = "iofence" /\ i + 1 = 6 => "fence_w_ip" \in csr'
    BY <1>1, <1>2, <2>2 DEF Paced, Fenced
  <2>6. t = "iofence" /\ i + 1 \in 7 .. 9 => "fence_w_ip" \in csr'
    BY <1>1, <1>2, <1>5 DEF Paced, Events
  <2> QED BY <1>1, <2>1, <2>4, <2>5, <2>6
<1>8. t = "iofence" =>
        /\ i + 1 = 3 \/ (i + 1 = 4 /\ cq' # << >>) => cqhRead' = cqh' /\ cqh' # CqEntries - 1
  BY <1>1, <1>2, <1>5, <1>a, SMT DEF Events, Paced
<1>9. t = "iofence" /\ i + 1 = 4 => igs' = "wsi"
  <2> SUFFICES ASSUME t = "iofence", i = 3 PROVE igs' = "wsi"
    BY <1>1
  <2>1. op = "command" /\ Step.command = "iofence"
    BY <1>1 DEF Paced
  <2>2. ~Reserved("iofence")
    BY <1>2, <1>a, <2>1
  <2> QED BY <1>2, <1>b, <2>1, <2>2 DEF Reserved
<1> QED BY <1>1, <1>6, <1>7, <1>8, <1>9, SMT DEF Events

-----------------------------------------------------------------------------
\* What the steps make of the pending interrupts and of memory.
LEMMA Raised ==
  ASSUME NEW op \in Ops, Proceeds(op)
  PROVE  /\ op \notin {"transfer", "translate"} =>
              /\ ipsr' = IF op = "clear_ipsr" THEN {} ELSE ipsr
              /\ held' = IF op = "unmask" THEN held \ {"cip"} ELSE held
              /\ op \notin {"store", "unmask"} => mem' = mem
              /\ op = "unmask" => mem' = WithMessages(mem, held \cap {"cip"})
              /\ armed' = IF op = "arm" THEN armed \cup {Step.counter} ELSE armed
              /\ overflowed' = IF op = "arm" THEN overflowed \ ({Step.counter} \cap {"cycles"})
                               ELSE overflowed
         /\ op = "transfer" =>
              /\ ipsr \subseteq ipsr' /\ ("cip" \in ipsr' => "cip" \in ipsr)
              /\ TransferFaults(test, Step) # << >> =>
                   /\ "fip" \in ipsr'
                   /\ "fip" \notin ipsr /\ igs = "msi" =>
                        At(mem', word("MSI_ADDR_FQ")) = "MSI_DATA_FQ"
              /\ test = "hpm" /\ pc = 21 /\ "iohpmctr3" \in armed =>
                   /\ "iohpmctr3" \in overflowed'
                   /\ "iohpmctr3" \notin overflowed => "pmip" \in ipsr'
         /\ op = "poll" => "cycles" \in overflowed
         /\ igs' = IF op = "igs" THEN Step.mode ELSE igs
         /\ cq' = IF op = "command" THEN Append(cq, Step.command) ELSE cq
<1>1. ipsr \subseteq Causes /\ masked \subseteq {"cip"}
  BY DEF Proceeds, TypeInv, Hardware, Frame
<1>2. ASSUME op \notin {"transfer", "translate"}
      PROVE  /\ ipsr' = IF op = "clear_ipsr" THEN {} ELSE ipsr
             /\ held' = IF op = "unmask" THEN held \ {"cip"} ELSE held
             /\ op \notin {"store", "unmask"} => mem' = mem
             /\ op = "unmask" => mem' = WithMessages(mem, held \cap {"cip"})
             /\ armed' = IF op = "arm" THEN armed \cup {Step.counter} ELSE armed
             /\ overflowed' = IF op = "arm" THEN overflowed \ ({Step.counter} \cap {"cycles"})
                              ELSE overflowed
  <2>1. Calm(op)
    BY <1>2 DEF Proceeds, Changes
  <2>2. ipsr \ Cleared = {}
    BY <1>1 DEF Causes, Cleared
  <2> QED BY <2>1, <2>2 DEF Calm
<1>3. /\ op = "poll" => "cycles" \in overflowed
      /\ igs' = IF op = "igs" THEN Step.mode ELSE igs
      /\ cq' = IF op = "command" THEN Append(cq, Step.command) ELSE cq
  BY DEF Proceeds, Effects
<1>4. ASSUME op = "transfer"
      PROVE  /\ ipsr \subseteq ipsr' /\ ("cip" \in ipsr' => "cip" \in ipsr)
             /\ TransferFaults(test, Step) # << >> =>
                  /\ "fip" \in ipsr'
                  /\ "fip" \notin ipsr /\ igs = "msi" =>
                       At(mem', word("MSI_ADDR_FQ")) = "MSI_DATA_FQ"
             /\ test = "hpm" /\ pc = 21 /\ "iohpmctr3" \in armed =>
                  /\ "iohpmctr3" \in overflowed'
                  /\ "iohpmctr3" \notin overflowed => "pmip" \in ipsr'
  <2>1. Ready("transfer") /\ DmaTransfer
    BY <1>4, Went DEF Proceeds, Changes
  <2>2. PICK causes \in SUBSET {"fip", "pmip"} :
          /\ ipsr' = ipsr \cup causes
          /\ mem' = WithMessages(Moved(test, pc, Step, mem), Becoming(causes))
          /\ "fip" \in causes <=> TransferFaults(test, Step) # << >>
          /\ test = "hpm" /\ pc = 21 /\ "iohpmctr3" \in armed =>
               /\ "iohpmctr3" \in overflowed'
               /\ "iohpmctr3" \notin overflowed => "pmip" \in causes
    BY <2>1, TransferEffects
  <2>3. ASSUME "fip" \in causes, "fip" \notin ipsr, igs = "msi"
        PROVE  At(mem', word("MSI_ADDR_FQ")) = "MSI_DATA_FQ"
    <3>1. "fip" \in Becoming(causes) /\ Becoming(causes) \in SUBSET Causes /\ "fip" \in Causes
      BY <1>1, <2>3 DEF Becoming, Causes
    <3> QED BY <2>2, <3>1, MessagesAt, MessageWord
  <2> QED BY <2>2, <2>3
<1> QED BY <1>2, <1>3, <1>4

LEMMA FaultingTransfers ==
  \A s : \A t \in Faulting : TransferFaults(t, s) # << >>
<1> SUFFICES ASSUME NEW t \in Faulting, NEW s PROVE TransferFaults(t, s) # << >>
  OBVIOUS
<1>1. t # "iommu_off"
  BY DEF Faulting
<1>2. TransferFaults(t, s) =
        <<Record("LOAD_PAGE_FAULT", s.src, t), Record("STORE_GUEST_PAGE_FAULT", s.dst, t)>>
  BY <1>1, Zenon DEF TransferFaults
<1> QED BY <1>2, Pairs

LEMMA PendingGoes ==
  ASSUME NEW op \in Ops, Proceeds(op)
  PROVE  Pending(test, pc)'
<1> DEFINE t == test
           i == pc
<1>1. /\ i \in Nat \ {0} /\ test' = t /\ pc' = i + 1 /\ cq = << >> /\ Step.op = op
      /\ Paced(t, i, Step) /\ (events # {} => "cip" \in ipsr) /\ status = "running"
  BY Went
<1>2. Pending(t, i) /\ Events(t, i)
  BY DEF Proceeds, Facts
<1>3. /\ op \notin {"transfer", "translate"} =>
           /\ ipsr' = IF op = "clear_ipsr" THEN {} ELSE ipsr
           /\ held' = IF op = "unmask" THEN held \ {"cip"} ELSE held
           /\ op \notin {"store", "unmask"} => mem' = mem
           /\ op = "unmask" => mem' = WithMessages(mem, held \cap {"cip"})
           /\ armed' = IF op = "arm" THEN armed \cup {Step.counter} ELSE armed
           /\ overflowed' = IF op = "arm" THEN overflowed \ ({Step.counter} \cap {"cycles"})
                            ELSE overflowed
      /\ op = "transfer" =>
           /\ ipsr \subseteq ipsr' /\ ("cip" \in ipsr' => "cip" \in ipsr)
           /\ t \in Faulting =>
                /\ "fip" \in ipsr'
                /\ "fip" \notin ipsr /\ igs = "msi" =>
                     At(mem', word("MSI_ADDR_FQ")) = "MSI_DATA_FQ"
           /\ t = "hpm" /\ i = 21 /\ "iohpmctr3" \in armed =>
                /\ "iohpmctr3" \in overflowed'
                /\ "iohpmctr3" \notin overflowed => "pmip" \in ipsr'
      /\ op = "poll" => "cycles" \in overflowed
      /\ igs' = IF op = "igs" THEN Step.mode ELSE igs
      /\ cq' = IF op = "command" THEN Append(cq, Step.command) ELSE cq
  BY Raised, FaultingTransfers
<1>4. \A x : Append(<< >>, x) # << >>
  OBVIOUS
<1>5. t = "hpm" /\ i = 20 => armed \cup overflowed \subseteq {"cycles"}
  <2>1. t = "hpm" /\ i = 20 => Before("hpm", 20)
    BY <1>1 DEF Before
  <2> QED BY <2>1 DEF Proceeds, Frame, Untouched
<1>6. At(WithMessages(mem, held \cap {"cip"}), word("MSI_ADDR_CQ")) =
        IF "cip" \in held THEN "MSI_DATA_CQ" ELSE At(mem, word("MSI_ADDR_CQ"))
  <2>1. held \cap {"cip"} \in SUBSET Causes /\ "cip" \in Causes
    BY DEF Causes
  <2> QED BY <2>1, MessagesAt, MessageWord
<1> HIDE DEF t, i
<1>7. ASSUME t = "wsi_generation"
      PROVE  /\ i + 1 \in 9 .. 10 => "fip" \in ipsr'
             /\ i + 1 = 11 => ipsr' = {}
  <2>1. i + 1 = 9 => "fip" \in ipsr'
    BY <1>1, <1>3, <1>7 DEF Paced, Faulting
  <2>2. i + 1 = 10 => "fip" \in ipsr'
    BY <1>1, <1>2, <1>3, <1>7 DEF Paced, Pending
  <2>3. i + 1 = 11 => ipsr' = {}
    BY <1>1, <1>3, <1>7 DEF Paced
  <2> QED BY <1>1, <2>1, <2>2, <2>3
<1>8. ASSUME t = "msi_generation"
      PROVE  /\ i + 1 <= 6 => "fip" \notin ipsr'
             /\ i + 1 <= 7 \/ (i + 1 = 8 /\ cq' # << >>) => "cip" \notin ipsr'
             /\ i + 1 \in 6 .. 8 => igs' = "msi"
             /\ i + 1 \in 7 .. 13 => "fip" \in ipsr'
             /\ i + 1 \in 7 .. 11 => At(mem', word("MSI_ADDR_FQ")) = "MSI_DATA_FQ"
             /\ i + 1 = 8 /\ cq' = << >> => "cip" \notin ipsr' \/ Told'
             /\ i + 1 \in 9 .. 14 => Told'
             /\ i + 1 = 15 => At(mem', word("MSI_ADDR_CQ")) = "MSI_DATA_CQ"
  <2>1. CASE i <= 5
    <3>1. op \in {"ddtp", "context", "igs"} /\ (i = 5 => op = "igs" /\ Step.mode = "msi")
      BY <1>1, <1>8, <2>1 DEF Paced
    <3>2. "fip" \notin ipsr /\ "cip" \notin ipsr
      BY <1>1, <1>2, <1>8, <2>1 DEF Pending
    <3>3. ipsr' = ipsr /\ (i = 5 => igs' = "msi")
      BY <1>3, <3>1
    <3> QED BY <1>1, <2>1, <3>2, <3>3
  <2>2. CASE i = 6
    <3>1. op = "transfer" /\ t \in Faulting
      BY <1>1, <1>8, <2>2 DEF Paced, Faulting
    <3>2. "fip" \notin ipsr /\ "cip" \notin ipsr /\ igs = "msi"
      BY <1>2, <1>8, <2>2 DEF Pending
    <3> QED BY <1>3, <2>2, <3>1, <3>2
  <2>3. CASE i = 7
    <3>1. op = "command"
      BY <1>1, <1>8, <2>3 DEF Paced
    <3>2. "fip" \in ipsr /\ "cip" \notin ipsr /\ igs = "msi" /\ At(mem, word("MSI_ADDR_FQ")) = "MSI_DATA_FQ"
      BY <1>2, <1>8, <2>3 DEF Pending
    <3> QED BY <1>1, <1>3, <1>4, <2>3, <3>1, <3>2
  <2>4. CASE i \in 8 .. 13
    <3>1. /\ i = 8 => op = "cqcsr"
          /\ i \in 9 .. 11 => op = "assert"
          /\ i = 12 => op = "set_cqcsr"
          /\ i = 13 => op = "clear_ipsr"
      BY <1>1, <1>8 DEF Paced
    <3>2. held' = held /\ mem' = mem /\ (i <= 12 => ipsr' = ipsr)
      BY <1>3, <2>4, <3>1
    <3>3. Told
      <4>1. CASE i = 8
        <5>1. "cmd_ill" \in events
          BY <1>1, <1>2, <1>8, <4>1 DEF Events
        <5>2. "cip" \in ipsr
          BY <1>1, <5>1
        <5> QED BY <1>1, <1>2, <1>8, <4>1, <5>2 DEF Pending
      <4>2. CASE i # 8
        BY <1>2, <1>8, <2>4, <4>2 DEF Pending
      <4> QED BY <4>1, <4>2
    <3>4. Told'
      BY <3>2, <3>3 DEF Told
    <3>5. /\ i \in 8 .. 13 => "fip" \in ipsr
          /\ i \in 8 .. 11 => At(mem, word("MSI_ADDR_FQ")) = "MSI_DATA_FQ"
      BY <1>2, <1>8 DEF Pending
    <3> QED BY <2>4, <3>2, <3>4, <3>5
  <2>5. CASE i = 14
    <3>1. op = "unmask"
      BY <1>1, <1>8, <2>5 DEF Paced
    <3>2. Told
      BY <1>2, <1>8, <2>5 DEF Pending
    <3>3. At(mem', word("MSI_ADDR_CQ")) = "MSI_DATA_CQ"
      BY <1>3, <1>6, <3>1, <3>2 DEF Told
    <3> QED BY <2>5, <3>3
  <2>6. CASE i > 14
    BY <1>1, <2>6
  <2> QED BY <1>1, <2>1, <2>2, <2>3, <2>4, <2>5, <2>6
<1>9. ASSUME t = "hpm"
      PROVE  /\ i + 1 \in {7, 12, 13} => "pmip" \notin ipsr'
             /\ i + 1 \in 13 .. 17 => igs' = "msi"
             /\ i + 1 \in {8, 14} /\ "cycles" \notin overflowed' =>
                  "cycles" \in armed' /\ "pmip" \notin ipsr'
             /\ i + 1 \in {8, 9, 14, 15} /\ "cycles" \in overflowed' => "pmip" \in ipsr'
             /\ i + 1 \in {9, 15} => "cycles" \in overflowed'
             /\ i + 1 \in {10, 16} \cup (22 .. 24) => "pmip" \in ipsr'
             /\ (i + 1 = 14 /\ "cycles" \in overflowed') \/ i + 1 \in 15 .. 17 =>
                  At(mem', word("MSI_ADDR_HPM")) = "MSI_DATA_HPM"
             /\ i + 1 = 21 => "iohpmctr3" \in armed' /\ "iohpmctr3" \notin overflowed'
             /\ i + 1 \in 22 .. 23 => "iohpmctr3" \in overflowed'
  <2>1. CASE i \in {6, 11}
    BY <1>1, <1>3, <1>9, <2>1 DEF Paced
  <2>2. CASE i \in {7, 13}
    <3>1. op = "arm" /\ Step.counter = "cycles"
      BY <1>1, <1>9, <2>2 DEF Paced
    <3>2. "pmip" \notin ipsr /\ (i = 13 => igs = "msi")
      BY <1>2, <1>9, <2>2 DEF Pending
    <3>3. ipsr' = ipsr /\ "cycles" \in armed' /\ "cycles" \notin overflowed' /\ igs' = igs
      BY <1>3, <3>1
    <3> QED BY <2>2, <3>2, <3>3
  <2>3. CASE i \in {8, 14}
    <3>1. op = "poll"
      BY <1>1, <1>9, <2>3 DEF Paced
    <3>2. /\ "cycles" \in overflowed /\ ipsr' = ipsr /\ overflowed' = overflowed /\ mem' = mem
          /\ igs' = igs
      BY <1>3, <3>1
    <3>3. "pmip" \in ipsr /\ (i = 14 => igs = "msi" /\ At(mem, word("MSI_ADDR_HPM")) = "MSI_DATA_HPM")
      BY <1>2, <1>9, <2>3, <3>2 DEF Pending
    <3> QED BY <2>3, <3>2, <3>3
  <2>4. CASE i \in {9, 10, 15, 16, 17, 22, 23, 24}
    <3>1. op = "assert"
      BY <1>1, <1>9, <2>4 DEF Paced
    <3>2. ipsr' = ipsr /\ overflowed' = overflowed /\ mem' = mem /\ igs' = igs
      BY <1>3, <3>1
    <3>3. /\ i \in {9, 15, 22, 23} => "pmip" \in ipsr
          /\ i \in {15, 16} => igs = "msi" /\ At(mem, word("MSI_ADDR_HPM")) = "MSI_DATA_HPM"
          /\ i = 22 => "iohpmctr3" \in overflowed
      BY <1>2, <1>9 DEF Pending
    <3> QED BY <2>4, <3>2, <3>3
  <2>5. CASE i = 12
    BY <1>1, <1>2, <1>3, <1>9, <2>5 DEF Paced, Pending
  <2>6. CASE i = 20
    <3>1. op = "arm" /\ Step.counter = "iohpmctr3"
      BY <1>1, <1>9, <2>6 DEF Paced
    <3>2. armed \cup overflowed \subseteq {"cycles"}
      BY <1>5, <1>9, <2>6
    <3> QED BY <1>3, <2>6, <3>1, <3>2
  <2>7. CASE i = 21
    <3>1. op = "transfer"
      BY <1>1, <1>9, <2>7 DEF Paced
    <3>2. "iohpmctr3" \in armed /\ "iohpmctr3" \notin overflowed
      BY <1>2, <1>9, <2>7 DEF Pending
    <3> QED BY <1>3, <1>9, <2>7, <3>1, <3>2
  <2>8. CASE i \notin (6 .. 17) \cup (20 .. 24)
    <3>1. i + 1 \notin (7 .. 18) \cup (21 .. 25)
      BY <1>1, <2>8
    <3> QED BY <3>1
  <2> QED BY <1>1, <2>1, <2>2, <2>3, <2>4, <2>5, <2>6, <2>7, <2>8
<1> QED BY <1>1, <1>7, <1>8, <1>9 DEF Pending

-----------------------------------------------------------------------------
\* The steps that cause records and those that read them.
Recorders(t, i, s) ==
  /\ (s.op = "record" <=> (i + 1 = Read1(t) \/ i + 1 = Read2(t)))
  /\ i + 1 < 100
  /\ i + 1 = Caused(t) =>
       /\ t = "iommu_off" => s = Transfer(v("IOMMU_OFF_R"), v("IOMMU_OFF_W"))
       /\ t = "wsi_generation" => s = Transfer(v("WSI_R"), v("WSI_W"))
       /\ t = "msi_generation" => s = Transfer(v("MSI_GEN_R"), v("MSI_GEN_W"))
       /\ t = "mrif_support" => s = Transfer(v("MSI_R5"), v("MSI_W5"))
       /\ t = "dbg_interface" => s = Translate(v("MSI_W2"))
  /\ i + 1 # Caused(t) =>
       /\ s.op = "transfer" => t \notin Faulting \cup {"iommu_off"} /\ s.dst[2] # "MSI_W5"
       /\ s.op = "translate" => s.iova[2] \notin DOMAIN Number

LEMMA RecordersRight ==
  ASSUME NEW t \in DOMAIN Program, NEW i \in 1 .. Len(Program[t])
  PROVE  Recorders(t, i, Program[t][i])
<1> USE Places, NumberDomain DEF Recorders, Faulting, Caused, Read1, Read2,
       Ddtp, Context, Igs, Command, Store, Transfer, Switch, Arm,
       Translate, ReadRecord, GetCqh, GetCqcsr, SetCqcsr, ClearIpsr, UnmaskCQ, PollCycles, Expect,
       TestEnd
<1>1. CASE t = "iommu_off"
  BY <1>1, ProgramIs, IommuOffSteps, SMT
<1>2. CASE t = "iommu_bare"
  BY <1>2, ProgramIs, IommuBareSteps, SMT
<1>3. CASE t = "both_stages_bare"
  BY <1>3, ProgramIs, BothStagesBareSteps, SMT
<1>4. CASE t = "second_stage_only"
  BY <1>4, ProgramIs, SecondStageOnlySteps, SMT
<1>5. CASE t = "two_stage_translation"
  BY <1>5, ProgramIs, TwoStageTranslationSteps, SMT
<1>6. CASE t = "iotinval"
  BY <1>6, ProgramIs, IotinvalSteps, SMT
<1>7. CASE t = "wsi_generation"
  BY <1>7, ProgramIs, WsiGenerationSteps, SMT
<1>8. CASE t = "iofence"
  BY <1>8, ProgramIs, IofenceSteps, SMT
<1>9. CASE t = "msi_generation"
  BY <1>9, ProgramIs, MsiGenerationSteps, SMT
<1>10. CASE t = "hpm"
  BY <1>10, ProgramIs, HpmSteps, SMT
<1>11. CASE t = "mrif_support"
  BY <1>11, ProgramIs, MrifSupportSteps, SMT
<1>12. CASE t = "dbg_interface"
  BY <1>12, ProgramIs, DbgInterfaceSteps, SMT
<1> QED BY <1>1, <1>2, <1>3, <1>4, <1>5, <1>6, <1>7, <1>8, <1>9, <1>10, <1>11, <1>12, ProgramIs

Spans(t, i, s) ==
  /\ (s.op = "record" <=> (i + 1 = Read1(t) \/ i + 1 = Read2(t)))
  /\ i + 1 < 100
  /\ i + 1 = Caused(t) =>
       \/ s.op = "transfer" /\ Faults(t) = TransferFaults(t, s)
       \/ s.op = "translate" /\ Faults(t) = TranslateFaults(t, s)
  /\ i + 1 # Caused(t) =>
       /\ s.op = "transfer" => TransferFaults(t, s) = << >>
       /\ s.op = "translate" => TranslateFaults(t, s) = << >>

LEMMA TransferOf ==
  /\ \A x, y : Transfer(x, y).op = "transfer" /\ Transfer(x, y).src = x /\ Transfer(x, y).dst = y
  /\ \A x : Translate(x).op = "translate" /\ Translate(x).iova = x
BY DEF Transfer, Translate

LEMMA SpansRight ==
  ASSUME NEW t \in DOMAIN Program, NEW i \in 1 .. Len(Program[t])
  PROVE  Spans(t, i, Program[t][i])
<1> DEFINE s == Program[t][i]
<1>1. Recorders(t, i, s)
  BY RecordersRight
<1>2. i \in Nat
  OBVIOUS
<1> HIDE DEF s
<1>3. ASSUME i + 1 # Caused(t)
      PROVE  /\ s.op = "transfer" => TransferFaults(t, s) = << >>
             /\ s.op = "translate" => TranslateFaults(t, s) = << >>
  <2>1. /\ s.op = "transfer" => t # "iommu_off" /\ t \notin Faulting /\ s.dst[2] # "MSI_W5"
        /\ s.op = "translate" => s.iova[2] \notin DOMAIN Number
    BY <1>1, <1>3, SMT DEF Recorders
  <2> QED BY <2>1, Zenon DEF TransferFaults, TranslateFaults
<1>4. ASSUME i + 1 = Caused(t)
      PROVE  \/ s.op = "transfer" /\ Faults(t) = TransferFaults(t, s)
             \/ s.op = "translate" /\ Faults(t) = TranslateFaults(t, s)
  <2>0. i + 1 # 100
    BY <1>1, <1>2, SMT DEF Recorders
  <2>1. t \in {"iommu_off", "wsi_generation", "msi_generation", "mrif_support", "dbg_interface"}
    BY <1>4, <2>0, Zenon DEF Caused
  <2>2. /\ t = "iommu_off" => s = Transfer(v("IOMMU_OFF_R"), v("IOMMU_OFF_W"))
        /\ t = "wsi_generation" => s = Transfer(v("WSI_R"), v("WSI_W"))
        /\ t = "msi_generation" => s = Transfer(v("MSI_GEN_R"), v("MSI_GEN_W"))
        /\ t = "mrif_support" => s = Transfer(v("MSI_R5"), v("MSI_W5"))
        /\ t = "dbg_interface" => s = Translate(v("MSI_W2"))
    BY <1>1, <1>4, Zenon DEF Recorders
  <2>3. "MSI_W2" \in DOMAIN Number /\ \A x : v(x)[2] = x
    BY NumberDomain, Places
  <2>4. CASE t = "iommu_off"
    <3>1. /\ s.op = "transfer" /\ s.src = v("IOMMU_OFF_R") /\ s.dst = v("IOMMU_OFF_W")
          /\ s.dst[2] = "IOMMU_OFF_W"
      BY <2>2, <2>3, <2>4, TransferOf, SMT
    <3>2. (t \in Faulting) = FALSE /\ (t = "iommu_off") = TRUE
      BY <2>4, SMT DEF Faulting
    <3>3. TransferFaults(t, s) =
            <<Record("ALL_INB_TRANSACTIONS_DISALLOWED", v("IOMMU_OFF_R"), t),
              Record("ALL_INB_TRANSACTIONS_DISALLOWED", v("IOMMU_OFF_W"), t)>>
      BY <3>1, <3>2, SMT DEF TransferFaults
    <3>4. Faults(t) =
            <<Record("ALL_INB_TRANSACTIONS_DISALLOWED", v("IOMMU_OFF_R"), t),
              Record("ALL_INB_TRANSACTIONS_DISALLOWED", v("IOMMU_OFF_W"), t)>>
      BY <2>4, SMT DEF Faults
    <3> QED BY <3>1, <3>3, <3>4, Zenon
  <2>5. CASE t = "wsi_generation"
    <3>1. s.op = "transfer" /\ s.src = v("WSI_R") /\ s.dst = v("WSI_W") /\ s.dst[2] = "WSI_W"
      BY <2>2, <2>3, <2>5, TransferOf, SMT
    <3>2. (t \in Faulting) = TRUE /\ (t = "iommu_off") = FALSE
      BY <2>5, SMT DEF Faulting
    <3>3. TransferFaults(t, s) =
            <<Record("LOAD_PAGE_FAULT", v("WSI_R"), t), Record("STORE_GUEST_PAGE_FAULT", v("WSI_W"), t)>>
      BY <3>1, <3>2, SMT DEF TransferFaults
    <3>4. Faults(t) =
            <<Record("LOAD_PAGE_FAULT", v("WSI_R"), t), Record("STORE_GUEST_PAGE_FAULT", v("WSI_W"), t)>>
      BY <2>5, SMT DEF Faults
    <3> QED BY <3>1, <3>3, <3>4, Zenon
  <2>6. CASE t = "msi_generation"
    <3>1. s.op = "transfer" /\ s.src = v("MSI_GEN_R") /\ s.dst = v("MSI_GEN_W") /\ s.dst[2] = "MSI_GEN_W"
      BY <2>2, <2>3, <2>6, TransferOf, SMT
    <3>2. (t \in Faulting) = TRUE /\ (t = "iommu_off") = FALSE
      BY <2>6, SMT DEF Faulting
    <3>3. TransferFaults(t, s) =
            <<Record("LOAD_PAGE_FAULT", v("MSI_GEN_R"), t),
              Record("STORE_GUEST_PAGE_FAULT", v("MSI_GEN_W"), t)>>
      BY <3>1, <3>2, SMT DEF TransferFaults
    <3>4. Faults(t) =
            <<Record("LOAD_PAGE_FAULT", v("MSI_GEN_R"), t),
              Record("STORE_GUEST_PAGE_FAULT", v("MSI_GEN_W"), t)>>
      BY <2>6, SMT DEF Faults
    <3> QED BY <3>1, <3>3, <3>4, Zenon
  <2>7. CASE t = "mrif_support"
    <3>1. s.op = "transfer" /\ s.src = v("MSI_R5") /\ s.dst = v("MSI_W5") /\ s.dst[2] = "MSI_W5"
      BY <2>2, <2>3, <2>7, TransferOf, SMT
    <3>2. (t \in Faulting) = FALSE /\ (t = "iommu_off") = FALSE
      BY <2>7, SMT DEF Faulting
    <3>3. TransferFaults(t, s) =
            <<Record("MSI_PTE_INVALID", v("MSI_W5"), t)>>
      BY <3>1, <3>2, SMT DEF TransferFaults
    <3>4. Faults(t) =
            <<Record("MSI_PTE_INVALID", v("MSI_W5"), t)>>
      BY <2>7, SMT DEF Faults
    <3> QED BY <3>1, <3>3, <3>4, Zenon
  <2>8. CASE t = "dbg_interface"
    <3>1. s.op = "translate" /\ s.iova = v("MSI_W2") /\ s.iova[2] = "MSI_W2"
      BY <2>2, <2>3, <2>8, TransferOf, SMT
    <3>2. s.iova[2] \in DOMAIN Number
      BY <2>3, <3>1
    <3>3. TranslateFaults(t, s) =
            <<Record("TRANS_TYPE_DISALLOWED", v("MSI_W2"), t)>>
      BY <3>1, <3>2, SMT DEF TranslateFaults
    <3>4. Faults(t) =
            <<Record("TRANS_TYPE_DISALLOWED", v("MSI_W2"), t)>>
      BY <2>8, SMT DEF Faults
    <3> QED BY <3>1, <3>3, <3>4, Zenon
  <2> QED BY <2>1, <2>4, <2>5, <2>6, <2>7, <2>8
<1>5. (s.op = "record" <=> (i + 1 = Read1(t) \/ i + 1 = Read2(t))) /\ i + 1 < 100
  BY <1>1, Zenon DEF Recorders
<1>6. Spans(t, i, s)
  BY <1>3, <1>4, <1>5, Zenon DEF Spans
<1> QED BY <1>6 DEF s

Rows(t) ==
  \/ Faults(t) = << >> /\ Caused(t) = 100 /\ Read1(t) = 100 /\ Read2(t) = 100
  \/ /\ \E a : Faults(t) = <<a>>
     /\ Caused(t) \in Nat /\ Read1(t) \in Nat /\ Read2(t) = 100
     /\ Caused(t) < Read1(t) /\ Read1(t) < 100
  \/ /\ \E a, b : Faults(t) = <<a, b>>
     /\ Caused(t) \in Nat /\ Read1(t) \in Nat /\ Read2(t) \in Nat
     /\ Caused(t) < Read1(t) /\ Read1(t) < Read2(t) /\ Read2(t) < 100

LEMMA RowsRight == \A t : Rows(t)
<1> SUFFICES ASSUME NEW t PROVE Rows(t)
  OBVIOUS
<1>1. CASE t \in {"iommu_off", "wsi_generation", "msi_generation"}
  <2>1. \E a, b : Faults(t) = <<a, b>>
    BY <1>1, SMT DEF Faults
  <2>2. /\ Caused(t) \in Nat /\ Read1(t) \in Nat /\ Read2(t) \in Nat
        /\ Caused(t) < Read1(t) /\ Read1(t) < Read2(t) /\ Read2(t) < 100
    BY <1>1, SMT DEF Caused, Read1, Read2
  <2> QED BY <2>1, <2>2 DEF Rows
<1>2. CASE t \in {"mrif_support", "dbg_interface"}
  <2>1. \E a : Faults(t) = <<a>>
    BY <1>2, SMT DEF Faults
  <2>2. /\ Caused(t) \in Nat /\ Read1(t) \in Nat /\ Read2(t) = 100
        /\ Caused(t) < Read1(t) /\ Read1(t) < 100
    BY <1>2, SMT DEF Caused, Read1, Read2
  <2> QED BY <2>1, <2>2 DEF Rows
<1>3. CASE t \notin {"iommu_off", "wsi_generation", "msi_generation", "mrif_support", "dbg_interface"}
  <2>1. Faults(t) = << >>
    BY <1>3, SMT DEF Faults
  <2>2. Caused(t) = 100 /\ Read1(t) = 100 /\ Read2(t) = 100
    BY <1>3, SMT DEF Caused, Read1, Read2
  <2> QED BY <2>1, <2>2 DEF Rows
<1> QED BY <1>1, <1>2, <1>3

\* A test finds each of its records when it reads it.
LEMMA RecordingGoes ==
  ASSUME NEW op \in Ops, Proceeds(op)
  PROVE  Recording(test, pc)'
<1> DEFINE t == test
           i == pc
           q == Faults(t)
           n1 == Caused(t)
           n2 == Read1(t)
           n3 == Read2(t)
<1>1. /\ i \in Nat \ {0} /\ test' = t /\ pc' = i + 1 /\ Step.op = op
      /\ t \in DOMAIN Program /\ i \in 1 .. Len(Program[t]) /\ Step = Program[t][i]
      /\ op \in {"transfer", "translate"} => Ready(op)
  BY Went
<1>2. Spans(t, i, Step)
  BY <1>1, SpansRight
<1>3. /\ (op = "record" <=> (i + 1 = n2 \/ i + 1 = n3))
      /\ i + 1 < 100
      /\ i + 1 = n1 => (op = "transfer" /\ q = TransferFaults(t, Step))
                       \/ (op = "translate" /\ q = TranslateFaults(t, Step))
      /\ i + 1 # n1 => /\ op = "transfer" => TransferFaults(t, Step) = << >>
                       /\ op = "translate" => TranslateFaults(t, Step) = << >>
  BY <1>1, <1>2 DEF Spans
<1>4. /\ fq = IF i < n1 THEN << >> ELSE IF i < n2 THEN q ELSE IF i < n3 THEN Tail(q) ELSE << >>
      /\ n2 <= i /\ i < n3 => record = q[1]
      /\ n3 <= i => record = q[2]
  BY DEF Proceeds, Facts, Recording
<1>5. /\ op \notin {"transfer", "translate", "record"} => fq' = fq
      /\ op = "transfer" => fq' = fq \o TransferFaults(t, Step)
      /\ op = "translate" => fq' = fq \o TranslateFaults(t, Step)
  <2>1. op \notin {"transfer", "translate", "record"} => fq' = fq
    BY DEF Proceeds, Changes, Calm
  <2>2. op = "transfer" => fq' = fq \o TransferFaults(t, Step)
    BY <1>1, TransferEffects DEF Proceeds, Changes
  <2>3. op = "translate" => fq' = fq \o TranslateFaults(t, Step)
    BY <1>1, TranslateEffects DEF Proceeds, Changes
  <2> QED BY <2>1, <2>2, <2>3
<1>6. /\ op # "record" => record' = record
      /\ op = "record" /\ fq # << >> => fq' = Tail(fq) /\ record' = Head(fq)
  BY DEF Proceeds, Effects
<1>7. Rows(t)
  BY RowsRight
<1> SUFFICES
      /\ fq' = IF i + 1 < n1 THEN << >> ELSE IF i + 1 < n2 THEN q
               ELSE IF i + 1 < n3 THEN Tail(q) ELSE << >>
      /\ n2 <= i + 1 /\ i + 1 < n3 => record' = q[1]
      /\ n3 <= i + 1 => record' = q[2]
  BY <1>1 DEF Recording
<1>8. CASE q = << >> /\ n1 = 100 /\ n2 = 100 /\ n3 = 100
  <2> HIDE DEF t, i, q, n1, n2, n3
  <2>1. fq = << >> /\ i < n1 /\ i + 1 < n1 /\ op # "record"
    BY <1>1, <1>3, <1>4, <1>8
  <2>a. << >> \o << >> = << >>
    OBVIOUS
  <2>b. i + 1 # n1
    BY <1>1, <1>8, <2>1
  <2>2. fq' = << >>
    BY <1>3, <1>5, <2>1, <2>a, <2>b, Zenon
  <2> QED BY <1>1, <1>8, <2>1, <2>2
<1>9. CASE /\ \E a : q = <<a>>
           /\ n1 \in Nat /\ n2 \in Nat /\ n3 = 100 /\ n1 < n2 /\ n2 < 100
  <2>1. PICK a : q = <<a>>
    BY <1>9
  <2> HIDE DEF t, i, q, n1, n2, n3
  <2>2. /\ << >> \o << >> = << >> /\ << >> \o q = q /\ q \o << >> = q
        /\ Head(q) = a /\ Tail(q) = << >> /\ q # << >>
    BY <2>1, Pairs
  <2>3. q[1] = a
    BY <2>1
  <2>4. CASE i + 1 = n1
    <3>1. fq = << >> /\ op # "record"
      BY <1>1, <1>3, <1>4, <1>9, <2>4
    <3>2. fq' = q
      BY <1>3, <1>5, <2>2, <2>4, <3>1
    <3> QED BY <1>1, <1>9, <2>4, <3>1, <3>2
  <2>5. CASE i + 1 = n2
    <3>1. fq = q /\ op = "record"
      BY <1>1, <1>3, <1>4, <1>9, <2>5
    <3>2. fq' = << >> /\ record' = a
      BY <1>6, <2>2, <3>1
    <3> QED BY <1>1, <1>9, <2>2, <2>3, <2>5, <3>2
  <2>6. CASE i + 1 # n1 /\ i + 1 # n2
    <3>1. op # "record"
      BY <1>3, <1>9, <2>6
    <3>2. fq \in {<< >>, q}
      BY <1>4, <2>2
    <3>3. fq' = fq
      BY <1>3, <1>5, <2>2, <2>6, <3>1, <3>2
    <3>4. /\ i + 1 < n1 <=> i < n1
          /\ i + 1 < n2 <=> i < n2
          /\ i + 1 < n3 <=> i < n3
          /\ n2 <= i + 1 <=> n2 <= i
          /\ n3 <= i + 1 <=> n3 <= i
      BY <1>1, <1>3, <1>9, <2>6
    <3>5. record' = record
      BY <1>6, <3>1
    <3> QED BY <1>4, <3>1, <3>3, <3>4, <3>5, Zenon
  <2> QED BY <2>4, <2>5, <2>6
<1>10. CASE /\ \E a, b : q = <<a, b>>
            /\ n1 \in Nat /\ n2 \in Nat /\ n3 \in Nat /\ n1 < n2 /\ n2 < n3 /\ n3 < 100
  <2>1. PICK a, b : q = <<a, b>>
    BY <1>10
  <2> HIDE DEF t, i, q, n1, n2, n3
  <2> DEFINE z == <<b>>
  <2>2. /\ << >> \o << >> = << >> /\ << >> \o q = q /\ q \o << >> = q /\ z \o << >> = z
        /\ Head(q) = a /\ Tail(q) = z /\ q # << >> /\ Head(z) = b /\ Tail(z) = << >> /\ z # << >>
    BY <2>1, Pairs
  <2>3. q[1] = a /\ q[2] = b
    BY <2>1
  <2> HIDE DEF z
  <2>4. CASE i + 1 = n1
    <3>1. fq = << >> /\ op # "record"
      BY <1>1, <1>3, <1>4, <1>10, <2>4
    <3>2. fq' = q
      BY <1>3, <1>5, <2>2, <2>4, <3>1
    <3> QED BY <1>1, <1>10, <2>4, <3>1, <3>2
  <2>5. CASE i + 1 = n2
    <3>1. fq = q /\ op = "record"
      BY <1>1, <1>3, <1>4, <1>10, <2>5
    <3>2. fq' = z /\ record' = a
      BY <1>6, <2>2, <3>1
    <3> QED BY <1>1, <1>10, <2>2, <2>3, <2>5, <3>2
  <2>6. CASE i + 1 = n3
    <3>1. fq = z /\ op = "record"
      BY <1>1, <1>3, <1>4, <1>10, <2>2, <2>6
    <3>2. fq' = << >> /\ record' = b
      BY <1>6, <2>2, <3>1
    <3> QED BY <1>1, <1>10, <2>2, <2>3, <2>6, <3>2
  <2>7. CASE i + 1 # n1 /\ i + 1 # n2 /\ i + 1 # n3
    <3>1. op # "record"
      BY <1>3, <1>10, <2>7
    <3>2. fq \in {<< >>, q, z}
      BY <1>4, <2>2
    <3>3. fq' = fq
      BY <1>3, <1>5, <2>2, <2>7, <3>1, <3>2
    <3>4. /\ i + 1 < n1 <=> i < n1
          /\ i + 1 < n2 <=> i < n2
          /\ i + 1 < n3 <=> i < n3
          /\ n2 <= i + 1 <=> n2 <= i
          /\ n3 <= i + 1 <=> n3 <= i
      BY <1>1, <1>3, <1>10, <2>7
    <3>5. record' = record
      BY <1>6, <3>1
    <3> QED BY <1>4, <3>1, <3>3, <3>4, <3>5, Zenon
  <2> QED BY <2>4, <2>5, <2>6, <2>7
<1> QED BY <1>7, <1>8, <1>9, <1>10 DEF Rows

\* A record that a test reads is there.
LEMMA RecordThere ==
  ASSUME NEW t \in DOMAIN Program, NEW i \in 1 .. Len(Program[t]), Program[t][i].op = "record",
         Recording(t, i)
  PROVE  fq # << >>
<1> DEFINE q == Faults(t)
           n1 == Caused(t)
           n2 == Read1(t)
           n3 == Read2(t)
<1>1. i \in Nat
  OBVIOUS
<1>2. i + 1 < 100 /\ (i + 1 = n2 \/ i + 1 = n3)
  BY SpansRight DEF Spans
<1>3. fq = IF i < n1 THEN << >> ELSE IF i < n2 THEN q ELSE IF i < n3 THEN Tail(q) ELSE << >>
  BY DEF Recording
<1>4. Rows(t)
  BY RowsRight
<1>5. CASE q = << >> /\ n1 = 100 /\ n2 = 100 /\ n3 = 100
  <2> HIDE DEF q, n1, n2, n3
  <2> QED BY <1>1, <1>2, <1>5
<1>6. CASE /\ \E a : q = <<a>>
           /\ n1 \in Nat /\ n2 \in Nat /\ n3 = 100 /\ n1 < n2 /\ n2 < 100
  <2>1. q # << >>
    BY <1>6
  <2> HIDE DEF q, n1, n2, n3
  <2>2. ~(i < n1) /\ i < n2
    BY <1>1, <1>2, <1>6
  <2> QED BY <1>3, <2>1, <2>2
<1>7. CASE /\ \E a, b : q = <<a, b>>
           /\ n1 \in Nat /\ n2 \in Nat /\ n3 \in Nat /\ n1 < n2 /\ n2 < n3 /\ n3 < 100
  <2>1. q # << >> /\ Tail(q) # << >>
    BY <1>7
  <2> HIDE DEF q, n1, n2, n3
  <2>2. ~(i < n1) /\ i < n3
    BY <1>1, <1>2, <1>7
  <2> QED BY <1>3, <2>1, <2>2
<1> QED BY <1>4, <1>5, <1>6, <1>7 DEF Rows

-----------------------------------------------------------------------------
LEMMA AnsweringSteps ==
  /\ Program["dbg_interface"][5] = Translate(v("TWO_STAGE_W4K"))
  /\ Program["dbg_interface"][7] = Translate(v("TEST_2MIB"))
  /\ Program["dbg_interface"][8].op = "assert"
  /\ Program["dbg_interface"][10] = Translate(v("TEST_1GIB"))
  /\ Program["dbg_interface"][11].op = "assert"
  /\ Program["dbg_interface"][13] = Translate(v("MSI_W2"))
BY ProgramIs, DbgInterfaceSteps, SMT DEF Expect

LEMMA AnsweredGoes ==
  ASSUME NEW op \in Ops, Proceeds(op)
  PROVE  Answered(test, pc)'
<1>1. /\ pc \in Nat \ {0} /\ test' = test /\ pc' = pc + 1 /\ Step.op = op
      /\ Step = Program[test][pc]
      /\ op \in {"transfer", "translate"} => Ready(op)
  BY Went
<1>2. Answered(test, pc)
  BY DEF Proceeds, Facts
<1>3. op # "translate" => response' = response
  <2>1. op \notin {"transfer", "translate"} => response' = response
    BY DEF Proceeds, Changes, Calm
  <2>2. op = "transfer" => response' = response
    BY <1>1, TransferEffects DEF Proceeds, Changes
  <2> QED BY <2>1, <2>2
<1>4. op = "translate" =>
        response' = IF Step.iova[2] \in DOMAIN Number THEN NoAddress ELSE p(Step.iova[2])
  BY <1>1, TranslateEffects DEF Proceeds, Changes
<1> SUFFICES ASSUME test = "dbg_interface"
             PROVE  /\ pc + 1 = 6 => response' = p("TWO_STAGE_W4K")
                    /\ pc + 1 \in 8 .. 9 => response' = p("TEST_2MIB")
                    /\ pc + 1 \in 11 .. 12 => response' = p("TEST_1GIB")
                    /\ pc + 1 = 14 => response' = NoAddress
  BY <1>1 DEF Answered
<1>5. /\ "MSI_W2" \in DOMAIN Number
      /\ "TWO_STAGE_W4K" \notin DOMAIN Number
      /\ "TEST_2MIB" \notin DOMAIN Number
      /\ "TEST_1GIB" \notin DOMAIN Number
      /\ \A x : v(x)[2] = x
  BY NumberDomain, Places
<1>6. ASSUME NEW x, Step = Translate(v(x))
      PROVE  response' = IF x \in DOMAIN Number THEN NoAddress ELSE p(x)
  <2>1. op = "translate" /\ Step.iova[2] = x
    BY <1>1, <1>5, <1>6, TransferOf
  <2> QED BY <1>4, <2>1
<1>7. CASE pc \in {5, 7, 10, 13}
  <2>1. CASE pc = 5
    BY <1>1, <1>5, <1>6, <2>1, AnsweringSteps
  <2>2. CASE pc = 7
    BY <1>1, <1>5, <1>6, <2>2, AnsweringSteps
  <2>3. CASE pc = 10
    BY <1>1, <1>5, <1>6, <2>3, AnsweringSteps
  <2>4. CASE pc = 13
    BY <1>1, <1>5, <1>6, <2>4, AnsweringSteps
  <2> QED BY <1>7, <2>1, <2>2, <2>3, <2>4
<1>8. CASE pc \in {8, 11}
  <2>1. op = "assert"
    BY <1>1, <1>8, AnsweringSteps
  <2>2. response' = response
    BY <1>3, <2>1
  <2>3. /\ pc = 8 => response = p("TEST_2MIB")
        /\ pc = 11 => response = p("TEST_1GIB")
    BY <1>2 DEF Answered
  <2> QED BY <1>8, <2>2, <2>3
<1>9. CASE pc \notin {5, 7, 8, 10, 11, 13}
  <2>1. pc + 1 \notin {6, 8, 9, 11, 12, 14}
    BY <1>1, <1>9
  <2> QED BY <2>1
<1> QED BY <1>7, <1>8, <1>9

LEMMA WordsGo ==
  ASSUME NEW op \in Ops, Proceeds(op)
  PROVE  Words(test, pc, mem)'
<1>1. /\ pc \in Nat \ {0} /\ test' = test /\ pc' = pc + 1 /\ Step.op = op
      /\ test \in DOMAIN Program /\ pc \in 1 .. Len(Program[test]) /\ Step = Program[test][pc]
      /\ op \in {"transfer", "translate"} => Ready(op)
  BY Went
<1>2. Words(test, pc, mem)
  BY DEF Proceeds, Facts
<1>3. /\ StaysPut(test, pc, Step, mem) /\ IsStored(test, pc, Step, mem)
      /\ IsMoved(test, pc, Step, mem)
  BY <1>1, StaysPutRight, IsStoredRight, IsMovedRight
<1>4. ASSUME NEW m, NEW causes \in SUBSET Causes, Words(test, pc + 1, m), mem' = WithMessages(m, causes)
      PROVE  Words(test, pc + 1, mem')
  <2>1. \A a : a \notin MessageWords => At(mem', a) = At(m, a)
    BY <1>4, MessagesAt
  <2> QED BY <1>4, <2>1, OtherWords
<1> SUFFICES Words(test, pc + 1, mem')
  BY <1>1
<1>5. CASE op = "transfer"
  <2>1. \E causes \in SUBSET {"fip", "pmip"} :
          mem' = WithMessages(Moved(test, pc, Step, mem), Becoming(causes))
    BY <1>1, <1>5, TransferEffects DEF Proceeds, Changes
  <2>2. PICK causes \in SUBSET {"fip", "pmip"} :
          mem' = WithMessages(Moved(test, pc, Step, mem), Becoming(causes))
    BY <2>1
  <2>3. Becoming(causes) \in SUBSET Causes
    BY <2>2 DEF Becoming, Causes
  <2>4. Words(test, pc + 1, Moved(test, pc, Step, mem))
    BY <1>1, <1>2, <1>3, <1>5 DEF IsMoved
  <2> QED BY <1>4, <2>2, <2>3, <2>4
<1>6. CASE op = "translate"
  <2>1. \E causes \in SUBSET {"fip"} : mem' = WithMessages(mem, Becoming(causes))
    BY <1>1, <1>6, TranslateEffects DEF Proceeds, Changes
  <2>2. PICK causes \in SUBSET {"fip"} : mem' = WithMessages(mem, Becoming(causes))
    BY <2>1
  <2>3. Becoming(causes) \in SUBSET Causes
    BY <2>2 DEF Becoming, Causes
  <2>4. Words(test, pc + 1, mem)
    BY <1>1, <1>2, <1>3, <1>6 DEF StaysPut
  <2> QED BY <1>4, <2>2, <2>3, <2>4
<1>7. CASE op = "store"
  <2>1. mem' = Put(mem, Step.at, Step.value)
    BY <1>7 DEF Proceeds, Changes, Calm
  <2> QED BY <1>1, <1>2, <1>3, <1>7, <2>1 DEF IsStored
<1>8. CASE op \notin {"transfer", "translate", "store"}
  <2>1. Words(test, pc + 1, mem)
    BY <1>1, <1>2, <1>3, <1>8 DEF StaysPut
  <2>2. CASE op = "unmask"
    <3>1. mem' = WithMessages(mem, held \cap {"cip"}) /\ held \cap {"cip"} \in SUBSET Causes
      BY <2>2 DEF Proceeds, Changes, Calm, Causes
    <3> QED BY <1>4, <2>1, <3>1
  <2>3. CASE op # "unmask"
    <3>1. mem' = mem
      BY <1>8, <2>3 DEF Proceeds, Changes, Calm
    <3> QED BY <2>1, <3>1
  <2> QED BY <2>2, <2>3
<1> QED BY <1>5, <1>6, <1>7, <1>8

\* A step of the test keeps what it relies on.
LEMMA FactsGo ==
  ASSUME NEW op \in Ops, Proceeds(op)
  PROVE  Facts(test, pc)'
<1>1. /\ (OwnContext(test, pc))' /\ (OwnEntries(test, pc))' /\ (Events(test, pc))' /\ (Pending(test, pc))'
      /\ (Recording(test, pc))' /\ (Answered(test, pc))' /\ (Words(test, pc, mem))'
  BY OwnContextGoes, OwnEntriesGoes, EventsGo, PendingGoes, RecordingGoes, AnsweredGoes, WordsGo
<1> QED BY <1>1 DEF Facts

-----------------------------------------------------------------------------
(* The facts, step by step of the IOMMU *)

\* What the IOMMU finds when it takes a step while a test is on track.
Serves ==
  /\ TypeInv /\ Frame /\ Waiting /\ OnTrack /\ Facts(test, pc)

\* It leaves alone what these are about.
LEMMA QuietFacts ==
  ASSUME Serves, IOMMU,
         \A a : a \notin MessageWords \cup {word("IOFENCE_ADDR")} => At(mem', a) = At(mem, a)
  PROVE  Recording(test, pc)' /\ Answered(test, pc)' /\ Words(test, pc, mem)'
<1>1. UNCHANGED <<test, pc, fq, record, response>>
  BY IommuQuiet
<1>2. Recording(test, pc) /\ Answered(test, pc) /\ Words(test, pc, mem)
  BY DEF Serves, Facts
<1>3. Words(test, pc, mem')
  BY <1>2, OtherWords
<1>4. Recording(test, pc)'
  BY <1>1, <1>2 DEF Recording
<1>5. Answered(test, pc)'
  BY <1>1, <1>2 DEF Answered
<1> QED BY <1>1, <1>3, <1>4, <1>5

LEMMA NextHead ==
  ASSUME NEW h \in 0 .. CqEntries - 1, h # CqEntries - 1
  PROVE  (h + 1) % CqEntries = h + 1
<1>1. CqEntries \in Nat \ {0}
  BY SuiteAssumption
<1>2. h + 1 \in 0 .. CqEntries - 1
  BY <1>1
<1> QED BY <1>1, <1>2, SMT

LEMMA ExecuteFacts ==
  ASSUME Serves, Execute
  PROVE  Facts(test, pc)'
<1> DEFINE t == test
           i == pc
           c == Head(cq)
<1>0. IOMMU
  BY DEF IOMMU
<1>1. /\ UNCHANGED <<test, pc, dc, swapped, igs, csr, cqhRead, excused>>
      /\ OwnContext(t, i) /\ OwnEntries(t, i) /\ Events(t, i) /\ Pending(t, i)
      /\ cqh \in 0 .. CqEntries - 1
  BY <1>0, IommuQuiet DEF Serves, Facts, TypeInv, Hardware
<1>2. cq # << >> /\ cq = Queued(t, i)
  BY DEF Execute, Fetching, Serves, Waiting, OnTrack, Clean
<1>3. /\ c \in {"ddt_inval", "vma", "gvma", "iofence"} /\ Tail(cq) = << >> /\ cq = <<c>>
      /\ c = "ddt_inval" => t \in Owners
      /\ c = "vma" => t = "iotinval" /\ i = 16
      /\ c = "gvma" => t = "iotinval" /\ i = 23
      /\ c = "iofence" => t = "iofence" /\ i = 4
  <2>1. /\ Tail(cq) = << >> /\ c \in {"ddt_inval", "vma", "gvma", "iofence", "illegal"} /\ cq = <<c>>
        /\ c = "ddt_inval" => t \in Owners
        /\ c = "vma" => t = "iotinval" /\ i = 16
        /\ c = "gvma" => t = "iotinval" /\ i = 23
        /\ c = "iofence" => t = "iofence" /\ i = 4
    BY <1>2, QueuedOne
  <2>2. c # "illegal"
    BY DEF Execute
  <2> QED BY <2>1, <2>2
<1>a. c = "iofence" => ~Reserved(c)
  BY <1>1, <1>2, <1>3 DEF Events, Reserved
<1>4. /\ cq' = << >> /\ cqh' = (cqh + 1) % CqEntries
      /\ ddtc' = IF c = "ddt_inval" THEN NoContext ELSE ddtc
      /\ iotlb' = CASE c = "vma"  -> {e \in iotlb : e.s1 # "sv39"}
                    [] c = "gvma" -> {e \in iotlb : e.s2 # "sv39x4"}
                    [] OTHER -> iotlb
      /\ c = "iofence" => /\ events' = events \cup {"fence_w_ip"}
                          /\ mem' = Put(mem, word("IOFENCE_ADDR"), "IOFENCE_DATA")
      /\ c # "iofence" => events' = events /\ mem' = mem
      /\ UNCHANGED <<ipsr, held, armed, overflowed>>
  BY <1>3, <1>a DEF Execute, Consume, Invalidate, irq, count
<1>5. t \notin {"wsi_generation", "msi_generation", "hpm"}
  BY <1>3 DEF Owners
<1>6. \A a : a # word("IOFENCE_ADDR") => At(mem', a) = At(mem, a)
  BY <1>4, PutAt
<1>7. Recording(test, pc)' /\ Answered(test, pc)' /\ Words(test, pc, mem)'
  BY <1>0, <1>6, QuietFacts
<1>8. Pending(test, pc)'
  BY <1>1, <1>5, SMT DEF Pending
<1>9. OwnContext(test, pc)'
  <2> SUFFICES ASSUME t \in Owners, i >= 6, t = "mrif_support" => i # 12
               PROVE  ddtc' \in {NoContext, dc'}
    BY <1>1 DEF OwnContext, Owners
  <2>1. cq = <<"ddt_inval">> \/ ddtc \in {NoContext, dc}
    BY <1>1 DEF OwnContext, Owners
  <2>2. c # "ddt_inval" => cq # <<"ddt_inval">>
    OBVIOUS
  <2> QED BY <1>1, <1>4, <2>1, <2>2
<1>10. OwnEntries(test, pc)'
  <2> SUFFICES ASSUME t = "iotinval"
               PROVE  /\ i >= 10 => \A e \in OnSwitches(iotlb') : e.s1 = "sv39" /\ e.s2 = "sv39x4"
                      /\ i \in (10 .. 12) \cup (17 .. 19) \cup (24 .. 26) =>
                           \A e \in OnSwitches(iotlb') : Reached(e.to) = WalkAgain(e, swapped')
                      /\ i \in {16, 23} => OnSwitches(iotlb') = {}
    BY <1>1, Zenon DEF OwnEntries
  <2>1. (c = "vma" /\ i = 16) \/ (c = "gvma" /\ i = 23)
    BY <1>3 DEF Owners
  <2>2. iotlb' = IF c = "vma" THEN {e \in iotlb : e.s1 # "sv39"} ELSE {e \in iotlb : e.s2 # "sv39x4"}
    BY <1>4, <2>1
  <2>3. \A e \in OnSwitches(iotlb) : e.s1 = "sv39" /\ e.s2 = "sv39x4"
    BY <1>1, <2>1 DEF OwnEntries
  <2>4. OnSwitches(iotlb') = {}
    BY <2>2, <2>3 DEF OnSwitches
  <2> QED BY <2>1, <2>4
<1>11. Events(test, pc)'
  <2>1. CASE c = "iofence"
    <3>1. t = "iofence" /\ i = 4
      BY <1>3, <2>1
    <3>2. Fenced'
      BY <1>4, <2>1, PutAt DEF Fenced
    <3>3. cqhRead = cqh /\ cqh # CqEntries - 1
      BY <1>1, <1>2, <3>1 DEF Events
    <3>4. cqh' = cqhRead + 1
      BY <1>1, <1>4, <3>3, NextHead
    <3> QED BY <1>1, <1>4, <3>1, <3>2, <3>4, SMT DEF Events
  <2>2. CASE c # "iofence"
    <3>1. t \in Owners \cup {"iotinval"} /\ events' = events
      BY <1>3, <1>4, <2>2
    <3>2. t # "iofence" /\ t # "msi_generation"
      BY <3>1 DEF Owners
    <3>3. t \notin Independent \cup {"iofence"} => events = {}
      BY <1>1, <3>2 DEF Events
    <3> QED BY <1>1, <3>1, <3>2, <3>3 DEF Events
  <2> QED BY <2>1, <2>2
<1> QED BY <1>7, <1>8, <1>9, <1>10, <1>11 DEF Facts

LEMMA RejectFacts ==
  ASSUME Serves, Reject
  PROVE  Facts(test, pc)'
<1> DEFINE t == test
           i == pc
<1>0. IOMMU
  BY DEF IOMMU
<1>1. /\ UNCHANGED <<test, pc, dc, swapped, igs, csr, cqhRead, excused, ddtc, iotlb, mem, ipsr, held,
                     armed, overflowed>>
      /\ Events(t, i) /\ Pending(t, i)
  BY <1>0, IommuQuiet DEF Serves, Facts, Reject, caches, irq, count
<1>2. cq # << >> /\ cq = Queued(t, i) /\ Head(cq) = "illegal"
  <2>1. cq # << >> /\ cq = Queued(t, i) /\ (Head(cq) = "illegal" \/ Reserved(Head(cq)))
    BY DEF Reject, Fetching, Serves, Waiting, OnTrack, Clean
  <2>2. Head(cq) = "iofence" => t = "iofence" /\ i = 4
    BY <2>1, QueuedOne
  <2> QED BY <1>1, <2>1, <2>2 DEF Events, Reserved
<1>3. t = "msi_generation" /\ i = 8 /\ cq' = << >> /\ events' = events \cup {"cmd_ill"}
  BY <1>2, QueuedOne DEF Reject, Consume
<1>4. Recording(test, pc)' /\ Answered(test, pc)' /\ Words(test, pc, mem)'
  BY <1>0, <1>1, QuietFacts
<1>5. OwnContext(test, pc)' /\ OwnEntries(test, pc)'
  BY <1>1, <1>3, SMT DEF OwnContext, OwnEntries
<1>6. Events(test, pc)'
  BY <1>1, <1>3, SMT DEF Events
<1>7. /\ "cip" \notin ipsr /\ igs = "msi" /\ "fip" \in ipsr
      /\ At(mem, word("MSI_ADDR_FQ")) = "MSI_DATA_FQ"
  BY <1>1, <1>2, <1>3 DEF Pending
<1>8. Pending(test, pc)'
  BY <1>1, <1>3, <1>7, SMT DEF Pending
<1> QED BY <1>4, <1>5, <1>6, <1>8 DEF Facts

\* What an interrupt does to memory.
LEMMA Interrupts ==
  ASSUME TypeInv, Frame, NEW c \in Causes, Pend({c}, mem)
  PROVE  /\ ipsr' = ipsr \cup {c} /\ held \subseteq held'
         /\ \A a : a # MsiWord[c] => At(mem', a) = At(mem, a)
         /\ At(mem', MsiWord[c]) \in {MsiData[c], At(mem, MsiWord[c])}
         /\ igs = "msi" /\ c \notin ipsr => c \in held' \/ At(mem', MsiWord[c]) = MsiData[c]
         /\ igs = "msi" /\ c \notin ipsr /\ c # "cip" => At(mem', MsiWord[c]) = MsiData[c]
<1> DEFINE b == Becoming({c})
<1>1. ipsr' = ipsr \cup {c} /\ mem' = WithMessages(mem, b) /\ held \subseteq held'
  BY PendIs
<1>2. b \in SUBSET Causes /\ b \subseteq {c} /\ masked \subseteq {"cip"}
  BY DEF Becoming, Frame
<1>3. igs = "msi" /\ c \notin ipsr => IF c \in masked THEN c \in held' ELSE c \in b
  BY DEF Becoming, Pend
<1> HIDE DEF b
<1>4. /\ \A a : a \notin MessageWords => At(mem', a) = At(mem, a)
      /\ \A d \in Causes : At(mem', MsiWord[d]) = IF d \in b THEN MsiData[d] ELSE At(mem, MsiWord[d])
  BY <1>1, <1>2, MessagesAt
<1>5. \A a \in MessageWords : \E d \in Causes : a = MsiWord[d]
  BY MessageWord DEF MessageWords, Causes
<1>6. \A a : a # MsiWord[c] => At(mem', a) = At(mem, a)
  BY <1>2, <1>4, <1>5
<1>7. igs = "msi" /\ c \notin ipsr => c \in held' \/ c \in b
  BY <1>3
<1>8. igs = "msi" /\ c \notin ipsr /\ c # "cip" => c \in b
  BY <1>2, <1>3
<1> QED BY <1>1, <1>4, <1>6, <1>7, <1>8

LEMMA SignalFacts ==
  ASSUME Serves, Signal
  PROVE  Facts(test, pc)'
<1> DEFINE t == test
           i == pc
<1>0. IOMMU
  BY DEF IOMMU
<1>1. /\ UNCHANGED <<test, pc, dc, swapped, igs, csr, cqhRead, excused, ddtc, iotlb, cq, cqh, events,
                     armed, overflowed>>
      /\ OwnContext(t, i) /\ OwnEntries(t, i) /\ Events(t, i) /\ Pending(t, i)
  BY <1>0, IommuQuiet DEF Serves, Facts, Signal, caches, queue, count
<1>2. events # {} /\ "cip" \notin ipsr /\ Pend({"cip"}, mem)
  BY DEF Signal, Signalling
<1>3. /\ ipsr' = ipsr \cup {"cip"} /\ held \subseteq held'
      /\ \A a : a # word("MSI_ADDR_CQ") => At(mem', a) = At(mem, a)
      /\ At(mem', word("MSI_ADDR_CQ")) \in {"MSI_DATA_CQ", At(mem, word("MSI_ADDR_CQ"))}
      /\ igs = "msi" => Told'
  BY <1>2, Interrupts, MessageWord DEF Serves, Told, Causes
<1>4. Recording(test, pc)' /\ Answered(test, pc)' /\ Words(test, pc, mem)'
  <2>1. \A a : a \notin MessageWords => At(mem', a) = At(mem, a)
    BY <1>3 DEF MessageWords
  <2> QED BY <1>0, <2>1, QuietFacts
<1>5. OwnContext(test, pc)'
  BY <1>1 DEF OwnContext
<1>6. OwnEntries(test, pc)'
  BY <1>1 DEF OwnEntries
<1>7. Events(test, pc)'
  <2>1. Fenced => Fenced'
    BY <1>1, <1>3, Places DEF Fenced
  <2> QED BY <1>1, <2>1, SMT DEF Events
<1>8. t \in Independent \cup {"iofence"} \/ (t = "msi_generation" /\ i > 7)
  <2>0. i \in Nat
    BY DEF Serves, TypeInv, Loop
  <2> QED BY <1>1, <1>2, <2>0 DEF Events
<1>9. t \notin {"wsi_generation", "hpm"}
  BY <1>8 DEF Independent
<1>10. ASSUME t = "msi_generation"
       PROVE  /\ i <= 6 => "fip" \notin ipsr'
              /\ i <= 7 \/ (i = 8 /\ cq # << >>) => "cip" \notin ipsr'
              /\ i \in 6 .. 8 => igs = "msi"
              /\ i \in 7 .. 13 => "fip" \in ipsr'
              /\ i \in 7 .. 11 => At(mem', word("MSI_ADDR_FQ")) = "MSI_DATA_FQ"
              /\ i = 8 /\ cq = << >> => "cip" \notin ipsr' \/ Told'
              /\ i \in 9 .. 14 => Told'
              /\ i = 15 => At(mem', word("MSI_ADDR_CQ")) = "MSI_DATA_CQ"
  <2>0. i \in Nat /\ i > 7
    BY <1>8, <1>10 DEF Independent, Serves, TypeInv, Loop
  <2>1. i = 8 => cq = << >> /\ Told'
    <3>1. i = 8 => cq = << >>
      BY <1>1, <1>2, <1>10 DEF Events
    <3>2. i = 8 => igs = "msi"
      BY <1>1, <1>10 DEF Pending
    <3> QED BY <1>3, <3>1, <3>2
  <2>2. /\ i \in 7 .. 13 => "fip" \in ipsr
        /\ i \in 7 .. 11 => At(mem, word("MSI_ADDR_FQ")) = "MSI_DATA_FQ"
        /\ i \in 9 .. 14 => Told
        /\ i = 15 => At(mem, word("MSI_ADDR_CQ")) = "MSI_DATA_CQ"
        /\ i \in 6 .. 8 => igs = "msi"
    BY <1>1, <1>10 DEF Pending
  <2>3. Told => Told'
    BY <1>3 DEF Told
  <2>4. At(mem', word("MSI_ADDR_FQ")) = At(mem, word("MSI_ADDR_FQ"))
    BY <1>3, Places
  <2> QED BY <1>3, <2>0, <2>1, <2>2, <2>3, <2>4
<1>11. Pending(test, pc)'
  BY <1>1, <1>9, <1>10, SMT DEF Pending
<1> QED BY <1>4, <1>5, <1>6, <1>7, <1>11 DEF Facts

LEMMA OverflowFacts ==
  ASSUME Serves, CyclesOverflow
  PROVE  Facts(test, pc)'
<1> DEFINE t == test
           i == pc
<1>0. IOMMU
  BY DEF IOMMU
<1>1. /\ UNCHANGED <<test, pc, dc, swapped, igs, csr, cqhRead, excused, ddtc, iotlb, cq, cqh, events>>
      /\ Events(t, i) /\ Pending(t, i)
  BY <1>0, IommuQuiet DEF Serves, Facts, CyclesOverflow, caches, queue
<1>2. /\ "cycles" \in armed /\ overflowed' = overflowed \cup {"cycles"} /\ Pend({"pmip"}, mem)
      /\ armed' = armed \ {"cycles"}
  BY DEF CyclesOverflow
<1>3. "cycles" \notin overflowed /\ t = "hpm" /\ i \in {8, 14}
  BY <1>2 DEF Serves, Frame, Untouched
<1>4. "pmip" \notin ipsr /\ (i = 14 => igs = "msi")
  BY <1>1, <1>3 DEF Pending
<1>5. /\ ipsr' = ipsr \cup {"pmip"}
      /\ \A a : a # word("MSI_ADDR_HPM") => At(mem', a) = At(mem, a)
      /\ igs = "msi" => At(mem', word("MSI_ADDR_HPM")) = "MSI_DATA_HPM"
  BY <1>2, <1>4, Interrupts, MessageWord DEF Serves, Causes
<1>6. Recording(test, pc)' /\ Answered(test, pc)' /\ Words(test, pc, mem)'
  <2>1. \A a : a \notin MessageWords => At(mem', a) = At(mem, a)
    BY <1>5 DEF MessageWords
  <2> QED BY <1>0, <2>1, QuietFacts
<1>7. OwnContext(test, pc)' /\ OwnEntries(test, pc)'
  BY <1>1, <1>3, SMT DEF OwnContext, OwnEntries
<1>8. Events(test, pc)'
  BY <1>1, <1>3, SMT DEF Events, Independent
<1>9. Pending(test, pc)'
  <2>1. "cycles" \in overflowed' /\ "pmip" \in ipsr'
    BY <1>2, <1>5
  <2>2. i = 14 => igs' = "msi" /\ At(mem', word("MSI_ADDR_HPM")) = "MSI_DATA_HPM"
    BY <1>1, <1>4, <1>5
  <2>3. test' = "hpm" /\ pc' = i
    BY <1>1, <1>3
  <2> HIDE DEF i
  <2> QED BY <1>3, <2>1, <2>2, <2>3, SMT DEF Pending
<1> QED BY <1>6, <1>7, <1>8, <1>9 DEF Facts

-----------------------------------------------------------------------------
(* The assertions *)

LEMMA ExpectIs == \A c : Expect(c).op = "assert" /\ Expect(c).holds = c
BY DEF Expect

LEMMA HoldsIs ==
  /\ \A a, x : Holds(Memory({<<a, x>>})) <=> At(mem, a) = x
  /\ \A a, x, b, y :
       Holds(Memory({<<a, x>>, <<b, y>>})) <=> At(mem, a) = x /\ At(mem, b) = y
  /\ \A m, b : Holds(Ipsr(m, b)) <=> ipsr \cap m = b
  /\ Holds(CqhMoved) <=> cqh = cqhRead + 1
  /\ CqhMoved.kind = "cqh"
  /\ \A e : Holds(Cqcsr(e)) <=> e \in csr
  /\ \A f, x : Holds(Recorded(f, x)) <=> record[f] = x
  /\ \A c : Holds(Overflowed(c)) <=> c \in overflowed
  /\ \A a : Holds(Response(a)) <=> response = a
  /\ Holds(ResponseFault) <=> response = NoAddress
<1>1. \A w : Holds(Memory(w)) <=> \A z \in w : At(mem, z[1]) = z[2]
  BY SMT DEF Holds, Memory
<1>2. ASSUME NEW a, NEW x
      PROVE  Holds(Memory({<<a, x>>})) <=> At(mem, a) = x
  <2>1. \A z \in {<<a, x>>} : z[1] = a /\ z[2] = x
    OBVIOUS
  <2> QED BY <1>1, <2>1
<1>10. ASSUME NEW a, NEW x, NEW b, NEW y
       PROVE  Holds(Memory({<<a, x>>, <<b, y>>})) <=> At(mem, a) = x /\ At(mem, b) = y
  <2>1. <<a, x>>[1] = a /\ <<a, x>>[2] = x /\ <<b, y>>[1] = b /\ <<b, y>>[2] = y
    OBVIOUS
  <2>3. \A z, w : Holds(Memory({z, w})) <=> At(mem, z[1]) = z[2] /\ At(mem, w[1]) = w[2]
    BY <1>1
  <2>2. Holds(Memory({<<a, x>>, <<b, y>>})) <=>
          At(mem, <<a, x>>[1]) = <<a, x>>[2] /\ At(mem, <<b, y>>[1]) = <<b, y>>[2]
    BY <2>3, Zenon
  <2> QED BY <2>1, <2>2, Zenon
<1>3. \A m, b : Holds(Ipsr(m, b)) <=> ipsr \cap m = b
  BY SMT DEF Holds, Ipsr
<1>4. (Holds(CqhMoved) <=> cqh = cqhRead + 1) /\ CqhMoved.kind = "cqh"
  BY SMT DEF Holds, CqhMoved
<1>5. \A e : Holds(Cqcsr(e)) <=> e \in csr
  BY SMT DEF Holds, Cqcsr
<1>6. \A f, x : Holds(Recorded(f, x)) <=> record[f] = x
  BY SMT DEF Holds, Recorded
<1>7. \A c : Holds(Overflowed(c)) <=> c \in overflowed
  BY SMT DEF Holds, Overflowed
<1>8. \A a : Holds(Response(a)) <=> response = a
  BY SMT DEF Holds, Response
<1>9. Holds(ResponseFault) <=> response = NoAddress
  BY SMT DEF Holds, ResponseFault
<1> QED BY <1>2, <1>3, <1>4, <1>5, <1>6, <1>7, <1>8, <1>9, <1>10, Zenon

\* The records that the assertions are about.
LEMMA Recalled ==
  ASSUME NEW t, NEW i \in Nat, Recording(t, i)
  PROVE  /\ t = "iommu_off" =>
              /\ i \in 4 .. 6 => /\ record["cause"] = "ALL_INB_TRANSACTIONS_DISALLOWED"
                                 /\ record["iova"] = v("IOMMU_OFF_R")
              /\ i \in 7 .. 99 => /\ record["cause"] = "ALL_INB_TRANSACTIONS_DISALLOWED"
                                  /\ record["iova"] = v("IOMMU_OFF_W")
         /\ t = "wsi_generation" =>
              /\ i \in 13 .. 15 => record["cause"] = "LOAD_PAGE_FAULT" /\ record["iova"] = v("WSI_R")
              /\ i \in 16 .. 99 => record["cause"] = "STORE_GUEST_PAGE_FAULT" /\ record["iova"] = v("WSI_W")
         /\ t = "mrif_support" =>
              (i \in 20 .. 99 => record["cause"] = "MSI_PTE_INVALID" /\ record["iova"] = v("MSI_W5"))
         /\ t = "dbg_interface" =>
              (i \in 16 .. 99 => record["cause"] = "TRANS_TYPE_DISALLOWED" /\ record["iova"] = v("MSI_W2"))
<1>1. \A c, a : Record(c, a, t)["cause"] = c /\ Record(c, a, t)["iova"] = a
  BY DEF Record
<1>2. /\ Read1(t) <= i /\ i < Read2(t) => record = Faults(t)[1]
      /\ Read2(t) <= i => record = Faults(t)[2]
  BY DEF Recording
<1>3. /\ \A q, a, b : q = <<a, b>> => q[1] = a /\ q[2] = b
      /\ \A q, a : q = <<a>> => q[1] = a
  OBVIOUS
<1>4. CASE t = "iommu_off"
  <2>1. Read1(t) = 4 /\ Read2(t) = 7
    BY <1>4, SMT DEF Read1, Read2
  <2>2. Faults(t) = <<Record("ALL_INB_TRANSACTIONS_DISALLOWED", v("IOMMU_OFF_R"), t),
                      Record("ALL_INB_TRANSACTIONS_DISALLOWED", v("IOMMU_OFF_W"), t)>>
    BY <1>4, SMT DEF Faults
  <2>3. /\ Faults(t)[1] = Record("ALL_INB_TRANSACTIONS_DISALLOWED", v("IOMMU_OFF_R"), t)
        /\ Faults(t)[2] = Record("ALL_INB_TRANSACTIONS_DISALLOWED", v("IOMMU_OFF_W"), t)
    BY <1>3, <2>2, Zenon
  <2> QED BY <1>1, <1>2, <1>4, <2>1, <2>3
<1>5. CASE t = "wsi_generation"
  <2>1. Read1(t) = 13 /\ Read2(t) = 16
    BY <1>5, SMT DEF Read1, Read2
  <2>2. Faults(t) = <<Record("LOAD_PAGE_FAULT", v("WSI_R"), t),
                      Record("STORE_GUEST_PAGE_FAULT", v("WSI_W"), t)>>
    BY <1>5, SMT DEF Faults
  <2>3. /\ Faults(t)[1] = Record("LOAD_PAGE_FAULT", v("WSI_R"), t)
        /\ Faults(t)[2] = Record("STORE_GUEST_PAGE_FAULT", v("WSI_W"), t)
    BY <1>3, <2>2, Zenon
  <2> QED BY <1>1, <1>2, <1>5, <2>1, <2>3
<1>6. CASE t = "mrif_support"
  <2>1. Read1(t) = 20 /\ Read2(t) = 100
    BY <1>6, SMT DEF Read1, Read2
  <2>2. Faults(t) = <<Record("MSI_PTE_INVALID", v("MSI_W5"), t)>>
    BY <1>6, SMT DEF Faults
  <2>3. Faults(t)[1] = Record("MSI_PTE_INVALID", v("MSI_W5"), t)
    BY <1>3, <2>2, Zenon
  <2> QED BY <1>1, <1>2, <1>6, <2>1, <2>3
<1>7. CASE t = "dbg_interface"
  <2>1. Read1(t) = 16 /\ Read2(t) = 100
    BY <1>7, SMT DEF Read1, Read2
  <2>2. Faults(t) = <<Record("TRANS_TYPE_DISALLOWED", v("MSI_W2"), t)>>
    BY <1>7, SMT DEF Faults
  <2>3. Faults(t)[1] = Record("TRANS_TYPE_DISALLOWED", v("MSI_W2"), t)
    BY <1>3, <2>2, Zenon
  <2> QED BY <1>1, <1>2, <1>7, <2>1, <2>3
<1> QED BY <1>4, <1>5, <1>6, <1>7

\* The assertions, each where it stands.
Asserting(t, i, s) ==
  s.op = "assert" =>
    /\ t = "iommu_off" =>
         \/ i \in {4, 8} /\ s.holds = Recorded("cause", "ALL_INB_TRANSACTIONS_DISALLOWED")
         \/ i = 5 /\ s.holds = Recorded("iova", v("IOMMU_OFF_R"))
         \/ i = 9 /\ s.holds = Recorded("iova", v("IOMMU_OFF_W"))
    /\ t = "iommu_bare" =>
         \/ i = 5 /\ s.holds = Memory({<<p("IOMMU_BARE_W"), "0x10">>})
    /\ t = "both_stages_bare" =>
         \/ i = 9 /\ s.holds = Memory({<<p("BARE_TRANS_W1"), "0x11">>})
         \/ i = 11 /\ s.holds = Memory({<<p("BARE_TRANS_W2"), "0x22">>})
    /\ t = "second_stage_only" =>
         \/ i = 11 /\ s.holds = Memory({<<p("S2_ONLY_W"), "0x11">>})
         \/ i = 13 /\ s.holds = Memory({<<file(17), "0x22">>})
    /\ t = "two_stage_translation" =>
         \/ i = 15 /\ s.holds = Memory({<<p("TWO_STAGE_W4K"), "0x11">>})
         \/ i = 17 /\ s.holds = Memory({<<p("TEST_2MIB"), "0x22">>})
         \/ i = 19 /\ s.holds = Memory({<<p("TEST_1GIB"), "0x33">>})
         \/ i = 21 /\ s.holds = Memory({<<file(19), "0x44">>})
    /\ t = "iotinval" =>
         \/ i \in {11, 25} /\ s.holds = Memory({<<p("SWITCH1"), "0x11">>, <<p("SWITCH2"), "0x22">>})
         \/ i = 18 /\ s.holds = Memory({<<p("SWITCH1"), "0x22">>, <<p("SWITCH2"), "0x11">>})
    /\ t = "wsi_generation" =>
         \/ i = 9 /\ s.holds = Ipsr({"fip"}, {"fip"})
         \/ i = 11 /\ s.holds = Ipsr({"cip", "fip", "pmip"}, {})
         \/ i = 13 /\ s.holds = Recorded("cause", "LOAD_PAGE_FAULT")
         \/ i = 14 /\ s.holds = Recorded("iova", v("WSI_R"))
         \/ i = 16 /\ s.holds = Recorded("cause", "STORE_GUEST_PAGE_FAULT")
         \/ i = 17 /\ s.holds = Recorded("iova", v("WSI_W"))
    /\ t = "iofence" =>
         \/ i = 4 /\ s.holds = CqhMoved
         \/ i = 6 /\ s.holds = Cqcsr("fence_w_ip")
         \/ i = 7 /\ s.holds = Ipsr({"cip"}, {"cip"})
         \/ i = 8 /\ s.holds = Memory({<<word("IOFENCE_ADDR"), "IOFENCE_DATA">>})
    /\ t = "msi_generation" =>
         \/ i = 9 /\ s.holds = Cqcsr("cmd_ill")
         \/ i = 10 /\ s.holds = Ipsr({"cip", "fip"}, {"cip", "fip"})
         \/ i = 11 /\ s.holds = Memory({<<word("MSI_ADDR_FQ"), "MSI_DATA_FQ">>})
         \/ i = 15 /\ s.holds = Memory({<<word("MSI_ADDR_CQ"), "MSI_DATA_CQ">>})
    /\ t = "hpm" =>
         \/ i \in {9, 15} /\ s.holds = Overflowed("cycles")
         \/ i \in {10, 16, 24} /\ s.holds = Ipsr({"pmip"}, {"pmip"})
         \/ i = 17 /\ s.holds = Memory({<<word("MSI_ADDR_HPM"), "MSI_DATA_HPM">>})
         \/ i \in {22, 23} /\ s.holds = Overflowed("iohpmctr3")
    /\ t = "mrif_support" =>
         \/ i = 9 /\ s.holds = Memory({<<word("INT_IP_1"), "1">>})
         \/ i = 10 /\ s.holds = Memory({<<word("NOTICE_ADDR_1"), "NOTICE_DATA">>})
         \/ i = 16 /\ s.holds = Memory({<<word("INT_IP_2"), "1">>})
         \/ i = 17 /\ s.holds = Memory({<<word("NOTICE_ADDR_2"), "0">>})
         \/ i = 20 /\ s.holds = Recorded("cause", "MSI_PTE_INVALID")
         \/ i = 21 /\ s.holds = Recorded("iova", v("MSI_W5"))
         \/ i = 27 /\ s.holds = Memory({<<word("INT_IP_1"), "0">>})
         \/ i = 28 /\ s.holds = Memory({<<word("NOTICE_ADDR_1"), "0">>})
    /\ t = "dbg_interface" =>
         \/ i = 6 /\ s.holds = Response(p("TWO_STAGE_W4K"))
         \/ i \in {8, 9} /\ s.holds = Response(p("TEST_2MIB"))
         \/ i \in {11, 12} /\ s.holds = Response(p("TEST_1GIB"))
         \/ i = 14 /\ s.holds = ResponseFault
         \/ i = 16 /\ s.holds = Recorded("cause", "TRANS_TYPE_DISALLOWED")
         \/ i = 17 /\ s.holds = Recorded("iova", v("MSI_W2"))

LEMMA AssertingRight ==
  ASSUME NEW t \in DOMAIN Program, NEW i \in 1 .. Len(Program[t])
  PROVE  Asserting(t, i, Program[t][i])
<1> USE ExpectIs DEF Asserting,
       Ddtp, Context, Igs, Command, Store, Transfer, Switch, Arm,
       Translate, ReadRecord, GetCqh, GetCqcsr, SetCqcsr, ClearIpsr, UnmaskCQ, PollCycles, TestEnd
<1>1. CASE t = "iommu_off"
  BY <1>1, ProgramIs, IommuOffSteps, SMT
<1>2. CASE t = "iommu_bare"
  BY <1>2, ProgramIs, IommuBareSteps, SMT
<1>3. CASE t = "both_stages_bare"
  BY <1>3, ProgramIs, BothStagesBareSteps, SMT
<1>4. CASE t = "second_stage_only"
  BY <1>4, ProgramIs, SecondStageOnlySteps, SMT
<1>5. CASE t = "two_stage_translation"
  BY <1>5, ProgramIs, TwoStageTranslationSteps, SMT
<1>6. CASE t = "iotinval"
  BY <1>6, ProgramIs, IotinvalSteps, SMT
<1>7. CASE t = "wsi_generation"
  BY <1>7, ProgramIs, WsiGenerationSteps, SMT
<1>8. CASE t = "iofence"
  BY <1>8, ProgramIs, IofenceSteps, SMT
<1>9. CASE t = "msi_generation"
  BY <1>9, ProgramIs, MsiGenerationSteps, SMT
<1>10. CASE t = "hpm"
  BY <1>10, ProgramIs, HpmSteps, SMT
<1>11. CASE t = "mrif_support"
  BY <1>11, ProgramIs, MrifSupportSteps, SMT
<1>12. CASE t = "dbg_interface"
  BY <1>12, ProgramIs, DbgInterfaceSteps, SMT
<1> QED BY <1>1, <1>2, <1>3, <1>4, <1>5, <1>6, <1>7, <1>8, <1>9, <1>10, <1>11, <1>12, ProgramIs

\* What a test on track checks is so.
LEMMA AssertionsHold ==
  ASSUME NEW t \in DOMAIN Program, NEW i \in 1 .. Len(Program[t]), Program[t][i].op = "assert",
         Facts(t, i), cq = << >>, events # {} => "cip" \in ipsr
  PROVE  Holds(Program[t][i].holds)
<1> DEFINE c == Program[t][i].holds
<1>a. /\ Events(t, i) /\ Pending(t, i) /\ Answered(t, i) /\ Words(t, i, mem) /\ Recording(t, i)
  BY DEF Facts
<1>b. Asserting(t, i, Program[t][i])
  BY AssertingRight
<1>c. i \in Nat
  OBVIOUS
<1> HIDE DEF c
<1>1. CASE t = "iommu_off"
  <2>a. \/ i \in {4, 8} /\ c = Recorded("cause", "ALL_INB_TRANSACTIONS_DISALLOWED")
        \/ i = 5 /\ c = Recorded("iova", v("IOMMU_OFF_R"))
        \/ i = 9 /\ c = Recorded("iova", v("IOMMU_OFF_W"))
    BY <1>b, <1>1, Zenon DEF Asserting, c
  <2>1. CASE i \in {4, 8} /\ c = Recorded("cause", "ALL_INB_TRANSACTIONS_DISALLOWED")
    <3>1. record["cause"] = "ALL_INB_TRANSACTIONS_DISALLOWED"
      BY <1>a, <1>c, <1>1, <2>1, Recalled
    <3>2. Holds(c)
      BY <2>1, <3>1, HoldsIs, Zenon
    <3> QED BY <3>2 DEF c
  <2>2. CASE i = 5 /\ c = Recorded("iova", v("IOMMU_OFF_R"))
    <3>1. record["iova"] = v("IOMMU_OFF_R")
      BY <1>a, <1>c, <1>1, <2>2, Recalled
    <3>2. Holds(c)
      BY <2>2, <3>1, HoldsIs, Zenon
    <3> QED BY <3>2 DEF c
  <2>3. CASE i = 9 /\ c = Recorded("iova", v("IOMMU_OFF_W"))
    <3>1. record["iova"] = v("IOMMU_OFF_W")
      BY <1>a, <1>c, <1>1, <2>3, Recalled
    <3>2. Holds(c)
      BY <2>3, <3>1, HoldsIs, Zenon
    <3> QED BY <3>2 DEF c
  <2> QED BY <2>a, <2>1, <2>2, <2>3
<1>2. CASE t = "iommu_bare"
  <2>a. i = 5 /\ c = Memory({<<p("IOMMU_BARE_W"), "0x10">>})
    BY <1>b, <1>2, Zenon DEF Asserting, c
  <2>1. CASE i = 5 /\ c = Memory({<<p("IOMMU_BARE_W"), "0x10">>})
    <3>1. At(mem, p("IOMMU_BARE_W")) = "0x10"
      BY <1>a, <1>2, <2>1 DEF Words
    <3>2. Holds(c)
      BY <2>1, <3>1, HoldsIs, Zenon
    <3> QED BY <3>2 DEF c
  <2> QED BY <2>a, <2>1
<1>3. CASE t = "both_stages_bare"
  <2>a. \/ i = 9 /\ c = Memory({<<p("BARE_TRANS_W1"), "0x11">>})
        \/ i = 11 /\ c = Memory({<<p("BARE_TRANS_W2"), "0x22">>})
    BY <1>b, <1>3, Zenon DEF Asserting, c
  <2>1. CASE i = 9 /\ c = Memory({<<p("BARE_TRANS_W1"), "0x11">>})
    <3>1. At(mem, p("BARE_TRANS_W1")) = "0x11"
      BY <1>a, <1>3, <2>1 DEF Words
    <3>2. Holds(c)
      BY <2>1, <3>1, HoldsIs, Zenon
    <3> QED BY <3>2 DEF c
  <2>2. CASE i = 11 /\ c = Memory({<<p("BARE_TRANS_W2"), "0x22">>})
    <3>1. At(mem, p("BARE_TRANS_W2")) = "0x22"
      BY <1>a, <1>3, <2>2 DEF Words
    <3>2. Holds(c)
      BY <2>2, <3>1, HoldsIs, Zenon
    <3> QED BY <3>2 DEF c
  <2> QED BY <2>a, <2>1, <2>2
<1>4. CASE t = "second_stage_only"
  <2>a. \/ i = 11 /\ c = Memory({<<p("S2_ONLY_W"), "0x11">>})
        \/ i = 13 /\ c = Memory({<<file(17), "0x22">>})
    BY <1>b, <1>4, Zenon DEF Asserting, c
  <2>1. CASE i = 11 /\ c = Memory({<<p("S2_ONLY_W"), "0x11">>})
    <3>1. At(mem, p("S2_ONLY_W")) = "0x11"
      BY <1>a, <1>4, <2>1 DEF Words
    <3>2. Holds(c)
      BY <2>1, <3>1, HoldsIs, Zenon
    <3> QED BY <3>2 DEF c
  <2>2. CASE i = 13 /\ c = Memory({<<file(17), "0x22">>})
    <3>1. At(mem, file(17)) = "0x22"
      BY <1>a, <1>4, <2>2 DEF Words
    <3>2. Holds(c)
      BY <2>2, <3>1, HoldsIs, Zenon
    <3> QED BY <3>2 DEF c
  <2> QED BY <2>a, <2>1, <2>2
<1>5. CASE t = "two_stage_translation"
  <2>a. \/ i = 15 /\ c = Memory({<<p("TWO_STAGE_W4K"), "0x11">>})
        \/ i = 17 /\ c = Memory({<<p("TEST_2MIB"), "0x22">>})
        \/ i = 19 /\ c = Memory({<<p("TEST_1GIB"), "0x33">>})
        \/ i = 21 /\ c = Memory({<<file(19), "0x44">>})
    BY <1>b, <1>5, Zenon DEF Asserting, c
  <2>1. CASE i = 15 /\ c = Memory({<<p("TWO_STAGE_W4K"), "0x11">>})
    <3>1. At(mem, p("TWO_STAGE_W4K")) = "0x11"
      BY <1>a, <1>5, <2>1 DEF Words
    <3>2. Holds(c)
      BY <2>1, <3>1, HoldsIs, Zenon
    <3> QED BY <3>2 DEF c
  <2>2. CASE i = 17 /\ c = Memory({<<p("TEST_2MIB"), "0x22">>})
    <3>1. At(mem, p("TEST_2MIB")) = "0x22"
      BY <1>a, <1>5, <2>2 DEF Words
    <3>2. Holds(c)
      BY <2>2, <3>1, HoldsIs, Zenon
    <3> QED BY <3>2 DEF c
  <2>3. CASE i = 19 /\ c = Memory({<<p("TEST_1GIB"), "0x33">>})
    <3>1. At(mem, p("TEST_1GIB")) = "0x33"
      BY <1>a, <1>5, <2>3 DEF Words
    <3>2. Holds(c)
      BY <2>3, <3>1, HoldsIs, Zenon
    <3> QED BY <3>2 DEF c
  <2>4. CASE i = 21 /\ c = Memory({<<file(19), "0x44">>})
    <3>1. At(mem, file(19)) = "0x44"
      BY <1>a, <1>5, <2>4 DEF Words
    <3>2. Holds(c)
      BY <2>4, <3>1, HoldsIs, Zenon
    <3> QED BY <3>2 DEF c
  <2> QED BY <2>a, <2>1, <2>2, <2>3, <2>4
<1>6. CASE t = "iotinval"
  <2>a. \/ i \in {11, 25} /\ c = Memory({<<p("SWITCH1"), "0x11">>, <<p("SWITCH2"), "0x22">>})
        \/ i = 18 /\ c = Memory({<<p("SWITCH1"), "0x22">>, <<p("SWITCH2"), "0x11">>})
    BY <1>b, <1>6, Zenon DEF Asserting, c
  <2>1. CASE i \in {11, 25} /\ c = Memory({<<p("SWITCH1"), "0x11">>, <<p("SWITCH2"), "0x22">>})
    <3>1. At(mem, p("SWITCH1")) = "0x11" /\ At(mem, p("SWITCH2")) = "0x22"
      BY <1>a, <1>6, <2>1 DEF Words
    <3>2. Holds(c)
      BY <2>1, <3>1, HoldsIs, Zenon
    <3> QED BY <3>2 DEF c
  <2>2. CASE i = 18 /\ c = Memory({<<p("SWITCH1"), "0x22">>, <<p("SWITCH2"), "0x11">>})
    <3>1. At(mem, p("SWITCH1")) = "0x22" /\ At(mem, p("SWITCH2")) = "0x11"
      BY <1>a, <1>6, <2>2 DEF Words
    <3>2. Holds(c)
      BY <2>2, <3>1, HoldsIs, Zenon
    <3> QED BY <3>2 DEF c
  <2> QED BY <2>a, <2>1, <2>2
<1>7. CASE t = "wsi_generation"
  <2>a. \/ i = 9 /\ c = Ipsr({"fip"}, {"fip"})
        \/ i = 11 /\ c = Ipsr({"cip", "fip", "pmip"}, {})
        \/ i = 13 /\ c = Recorded("cause", "LOAD_PAGE_FAULT")
        \/ i = 14 /\ c = Recorded("iova", v("WSI_R"))
        \/ i = 16 /\ c = Recorded("cause", "STORE_GUEST_PAGE_FAULT")
        \/ i = 17 /\ c = Recorded("iova", v("WSI_W"))
    BY <1>b, <1>7, Zenon DEF Asserting, c
  <2>1. CASE i = 9 /\ c = Ipsr({"fip"}, {"fip"})
    <3>1. ipsr \cap {"fip"} = {"fip"}
      BY <1>a, <1>7, <2>1 DEF Pending
    <3>2. Holds(c)
      BY <2>1, <3>1, HoldsIs, Zenon
    <3> QED BY <3>2 DEF c
  <2>2. CASE i = 11 /\ c = Ipsr({"cip", "fip", "pmip"}, {})
    <3>1. ipsr \cap {"cip", "fip", "pmip"} = {}
      BY <1>a, <1>7, <2>2 DEF Pending
    <3>2. Holds(c)
      BY <2>2, <3>1, HoldsIs, Zenon
    <3> QED BY <3>2 DEF c
  <2>3. CASE i = 13 /\ c = Recorded("cause", "LOAD_PAGE_FAULT")
    <3>1. record["cause"] = "LOAD_PAGE_FAULT"
      BY <1>a, <1>c, <1>7, <2>3, Recalled
    <3>2. Holds(c)
      BY <2>3, <3>1, HoldsIs, Zenon
    <3> QED BY <3>2 DEF c
  <2>4. CASE i = 14 /\ c = Recorded("iova", v("WSI_R"))
    <3>1. record["iova"] = v("WSI_R")
      BY <1>a, <1>c, <1>7, <2>4, Recalled
    <3>2. Holds(c)
      BY <2>4, <3>1, HoldsIs, Zenon
    <3> QED BY <3>2 DEF c
  <2>5. CASE i = 16 /\ c = Recorded("cause", "STORE_GUEST_PAGE_FAULT")
    <3>1. record["cause"] = "STORE_GUEST_PAGE_FAULT"
      BY <1>a, <1>c, <1>7, <2>5, Recalled
    <3>2. Holds(c)
      BY <2>5, <3>1, HoldsIs, Zenon
    <3> QED BY <3>2 DEF c
  <2>6. CASE i = 17 /\ c = Recorded("iova", v("WSI_W"))
    <3>1. record["iova"] = v("WSI_W")
      BY <1>a, <1>c, <1>7, <2>6, Recalled
    <3>2. Holds(c)
      BY <2>6, <3>1, HoldsIs, Zenon
    <3> QED BY <3>2 DEF c
  <2> QED BY <2>a, <2>1, <2>2, <2>3, <2>4, <2>5, <2>6
<1>8. CASE t = "iofence"
  <2>a. \/ i = 4 /\ c = CqhMoved
        \/ i = 6 /\ c = Cqcsr("fence_w_ip")
        \/ i = 7 /\ c = Ipsr({"cip"}, {"cip"})
        \/ i = 8 /\ c = Memory({<<word("IOFENCE_ADDR"), "IOFENCE_DATA">>})
    BY <1>b, <1>8, Zenon DEF Asserting, c
  <2>1. CASE i = 4 /\ c = CqhMoved
    <3>1. cqh = cqhRead + 1
      BY <1>a, <1>8, <2>1 DEF Events
    <3>2. Holds(c)
      BY <2>1, <3>1, HoldsIs, Zenon
    <3> QED BY <3>2 DEF c
  <2>2. CASE i = 6 /\ c = Cqcsr("fence_w_ip")
    <3>1. "fence_w_ip" \in csr
      BY <1>a, <1>8, <2>2 DEF Events, Fenced
    <3>2. Holds(c)
      BY <2>2, <3>1, HoldsIs, Zenon
    <3> QED BY <3>2 DEF c
  <2>3. CASE i = 7 /\ c = Ipsr({"cip"}, {"cip"})
    <3>1. ipsr \cap {"cip"} = {"cip"}
      BY <1>a, <1>8, <2>3 DEF Events, Fenced
    <3>2. Holds(c)
      BY <2>3, <3>1, HoldsIs, Zenon
    <3> QED BY <3>2 DEF c
  <2>4. CASE i = 8 /\ c = Memory({<<word("IOFENCE_ADDR"), "IOFENCE_DATA">>})
    <3>1. At(mem, word("IOFENCE_ADDR")) = "IOFENCE_DATA"
      BY <1>a, <1>8, <2>4 DEF Events, Fenced
    <3>2. Holds(c)
      BY <2>4, <3>1, HoldsIs, Zenon
    <3> QED BY <3>2 DEF c
  <2> QED BY <2>a, <2>1, <2>2, <2>3, <2>4
<1>9. CASE t = "msi_generation"
  <2>a. \/ i = 9 /\ c = Cqcsr("cmd_ill")
        \/ i = 10 /\ c = Ipsr({"cip", "fip"}, {"cip", "fip"})
        \/ i = 11 /\ c = Memory({<<word("MSI_ADDR_FQ"), "MSI_DATA_FQ">>})
        \/ i = 15 /\ c = Memory({<<word("MSI_ADDR_CQ"), "MSI_DATA_CQ">>})
    BY <1>b, <1>9, Zenon DEF Asserting, c
  <2>1. CASE i = 9 /\ c = Cqcsr("cmd_ill")
    <3>1. "cmd_ill" \in csr
      BY <1>a, <1>9, <2>1 DEF Events, Pending
    <3>2. Holds(c)
      BY <2>1, <3>1, HoldsIs, Zenon
    <3> QED BY <3>2 DEF c
  <2>2. CASE i = 10 /\ c = Ipsr({"cip", "fip"}, {"cip", "fip"})
    <3>1. ipsr \cap {"cip", "fip"} = {"cip", "fip"}
      BY <1>a, <1>9, <2>2 DEF Events, Pending
    <3>2. Holds(c)
      BY <2>2, <3>1, HoldsIs, Zenon
    <3> QED BY <3>2 DEF c
  <2>3. CASE i = 11 /\ c = Memory({<<word("MSI_ADDR_FQ"), "MSI_DATA_FQ">>})
    <3>1. At(mem, word("MSI_ADDR_FQ")) = "MSI_DATA_FQ"
      BY <1>a, <1>9, <2>3 DEF Events, Pending
    <3>2. Holds(c)
      BY <2>3, <3>1, HoldsIs, Zenon
    <3> QED BY <3>2 DEF c
  <2>4. CASE i = 15 /\ c = Memory({<<word("MSI_ADDR_CQ"), "MSI_DATA_CQ">>})
    <3>1. At(mem, word("MSI_ADDR_CQ")) = "MSI_DATA_CQ"
      BY <1>a, <1>9, <2>4 DEF Events, Pending
    <3>2. Holds(c)
      BY <2>4, <3>1, HoldsIs, Zenon
    <3> QED BY <3>2 DEF c
  <2> QED BY <2>a, <2>1, <2>2, <2>3, <2>4
<1>10. CASE t = "hpm"
  <2>a. \/ i \in {9, 15} /\ c = Overflowed("cycles")
        \/ i \in {10, 16, 24} /\ c = Ipsr({"pmip"}, {"pmip"})
        \/ i = 17 /\ c = Memory({<<word("MSI_ADDR_HPM"), "MSI_DATA_HPM">>})
        \/ i \in {22, 23} /\ c = Overflowed("iohpmctr3")
    BY <1>b, <1>10, Zenon DEF Asserting, c
  <2>1. CASE i \in {9, 15} /\ c = Overflowed("cycles")
    <3>1. "cycles" \in overflowed
      BY <1>a, <1>10, <2>1 DEF Pending
    <3>2. Holds(c)
      BY <2>1, <3>1, HoldsIs, Zenon
    <3> QED BY <3>2 DEF c
  <2>2. CASE i \in {10, 16, 24} /\ c = Ipsr({"pmip"}, {"pmip"})
    <3>1. ipsr \cap {"pmip"} = {"pmip"}
      BY <1>a, <1>10, <2>2 DEF Pending
    <3>2. Holds(c)
      BY <2>2, <3>1, HoldsIs, Zenon
    <3> QED BY <3>2 DEF c
  <2>3. CASE i = 17 /\ c = Memory({<<word("MSI_ADDR_HPM"), "MSI_DATA_HPM">>})
    <3>1. At(mem, word("MSI_ADDR_HPM")) = "MSI_DATA_HPM"
      BY <1>a, <1>10, <2>3 DEF Pending
    <3>2. Holds(c)
      BY <2>3, <3>1, HoldsIs, Zenon
    <3> QED BY <3>2 DEF c
  <2>4. CASE i \in {22, 23} /\ c = Overflowed("iohpmctr3")
    <3>1. "iohpmctr3" \in overflowed
      BY <1>a, <1>10, <2>4 DEF Pending
    <3>2. Holds(c)
      BY <2>4, <3>1, HoldsIs, Zenon
    <3> QED BY <3>2 DEF c
  <2> QED BY <2>a, <2>1, <2>2, <2>3, <2>4
<1>11. CASE t = "mrif_support"
  <2>a. \/ i = 9 /\ c = Memory({<<word("INT_IP_1"), "1">>})
        \/ i = 10 /\ c = Memory({<<word("NOTICE_ADDR_1"), "NOTICE_DATA">>})
        \/ i = 16 /\ c = Memory({<<word("INT_IP_2"), "1">>})
        \/ i = 17 /\ c = Memory({<<word("NOTICE_ADDR_2"), "0">>})
        \/ i = 20 /\ c = Recorded("cause", "MSI_PTE_INVALID")
        \/ i = 21 /\ c = Recorded("iova", v("MSI_W5"))
        \/ i = 27 /\ c = Memory({<<word("INT_IP_1"), "0">>})
        \/ i = 28 /\ c = Memory({<<word("NOTICE_ADDR_1"), "0">>})
    BY <1>b, <1>11, Zenon DEF Asserting, c
  <2>1. CASE i = 9 /\ c = Memory({<<word("INT_IP_1"), "1">>})
    <3>1. At(mem, word("INT_IP_1")) = "1"
      BY <1>a, <1>11, <2>1 DEF Words
    <3>2. Holds(c)
      BY <2>1, <3>1, HoldsIs, Zenon
    <3> QED BY <3>2 DEF c
  <2>2. CASE i = 10 /\ c = Memory({<<word("NOTICE_ADDR_1"), "NOTICE_DATA">>})
    <3>1. At(mem, word("NOTICE_ADDR_1")) = "NOTICE_DATA"
      BY <1>a, <1>11, <2>2 DEF Words
    <3>2. Holds(c)
      BY <2>2, <3>1, HoldsIs, Zenon
    <3> QED BY <3>2 DEF c
  <2>3. CASE i = 16 /\ c = Memory({<<word("INT_IP_2"), "1">>})
    <3>1. At(mem, word("INT_IP_2")) = "1"
      BY <1>a, <1>11, <2>3 DEF Words
    <3>2. Holds(c)
      BY <2>3, <3>1, HoldsIs, Zenon
    <3> QED BY <3>2 DEF c
  <2>4. CASE i = 17 /\ c = Memory({<<word("NOTICE_ADDR_2"), "0">>})
    <3>1. At(mem, word("NOTICE_ADDR_2")) = "0"
      BY <1>a, <1>11, <2>4 DEF Words
    <3>2. Holds(c)
      BY <2>4, <3>1, HoldsIs, Zenon
    <3> QED BY <3>2 DEF c
  <2>5. CASE i = 20 /\ c = Recorded("cause", "MSI_PTE_INVALID")
    <3>1. record["cause"] = "MSI_PTE_INVALID"
      BY <1>a, <1>c, <1>11, <2>5, Recalled
    <3>2. Holds(c)
      BY <2>5, <3>1, HoldsIs, Zenon
    <3> QED BY <3>2 DEF c
  <2>6. CASE i = 21 /\ c = Recorded("iova", v("MSI_W5"))
    <3>1. record["iova"] = v("MSI_W5")
      BY <1>a, <1>c, <1>11, <2>6, Recalled
    <3>2. Holds(c)
      BY <2>6, <3>1, HoldsIs, Zenon
    <3> QED BY <3>2 DEF c
  <2>7. CASE i = 27 /\ c = Memory({<<word("INT_IP_1"), "0">>})
    <3>1. At(mem, word("INT_IP_1")) = "0"
      BY <1>a, <1>11, <2>7 DEF Words
    <3>2. Holds(c)
      BY <2>7, <3>1, HoldsIs, Zenon
    <3> QED BY <3>2 DEF c
  <2>8. CASE i = 28 /\ c = Memory({<<word("NOTICE_ADDR_1"), "0">>})
    <3>1. At(mem, word("NOTICE_ADDR_1")) = "0"
      BY <1>a, <1>11, <2>8 DEF Words
    <3>2. Holds(c)
      BY <2>8, <3>1, HoldsIs, Zenon
    <3> QED BY <3>2 DEF c
  <2> QED BY <2>a, <2>1, <2>2, <2>3, <2>4, <2>5, <2>6, <2>7, <2>8
<1>12. CASE t = "dbg_interface"
  <2>a. \/ i = 6 /\ c = Response(p("TWO_STAGE_W4K"))
        \/ i \in {8, 9} /\ c = Response(p("TEST_2MIB"))
        \/ i \in {11, 12} /\ c = Response(p("TEST_1GIB"))
        \/ i = 14 /\ c = ResponseFault
        \/ i = 16 /\ c = Recorded("cause", "TRANS_TYPE_DISALLOWED")
        \/ i = 17 /\ c = Recorded("iova", v("MSI_W2"))
    BY <1>b, <1>12, Zenon DEF Asserting, c
  <2>1. CASE i = 6 /\ c = Response(p("TWO_STAGE_W4K"))
    <3>1. response = p("TWO_STAGE_W4K")
      BY <1>a, <1>12, <2>1 DEF Answered
    <3>2. Holds(c)
      BY <2>1, <3>1, HoldsIs, Zenon
    <3> QED BY <3>2 DEF c
  <2>2. CASE i \in {8, 9} /\ c = Response(p("TEST_2MIB"))
    <3>1. response = p("TEST_2MIB")
      BY <1>a, <1>12, <2>2 DEF Answered
    <3>2. Holds(c)
      BY <2>2, <3>1, HoldsIs, Zenon
    <3> QED BY <3>2 DEF c
  <2>3. CASE i \in {11, 12} /\ c = Response(p("TEST_1GIB"))
    <3>1. response = p("TEST_1GIB")
      BY <1>a, <1>12, <2>3 DEF Answered
    <3>2. Holds(c)
      BY <2>3, <3>1, HoldsIs, Zenon
    <3> QED BY <3>2 DEF c
  <2>4. CASE i = 14 /\ c = ResponseFault
    <3>1. response = NoAddress
      BY <1>a, <1>12, <2>4 DEF Answered
    <3>2. Holds(c)
      BY <2>4, <3>1, HoldsIs, Zenon
    <3> QED BY <3>2 DEF c
  <2>5. CASE i = 16 /\ c = Recorded("cause", "TRANS_TYPE_DISALLOWED")
    <3>1. record["cause"] = "TRANS_TYPE_DISALLOWED"
      BY <1>a, <1>c, <1>12, <2>5, Recalled
    <3>2. Holds(c)
      BY <2>5, <3>1, HoldsIs, Zenon
    <3> QED BY <3>2 DEF c
  <2>6. CASE i = 17 /\ c = Recorded("iova", v("MSI_W2"))
    <3>1. record["iova"] = v("MSI_W2")
      BY <1>a, <1>c, <1>12, <2>6, Recalled
    <3>2. Holds(c)
      BY <2>6, <3>1, HoldsIs, Zenon
    <3> QED BY <3>2 DEF c
  <2> QED BY <2>a, <2>1, <2>2, <2>3, <2>4, <2>5, <2>6
<1> QED BY <1>1, <1>2, <1>3, <1>4, <1>5, <1>6, <1>7, <1>8, <1>9, <1>10, <1>11, <1>12, ProgramIs

-----------------------------------------------------------------------------
(* Which tests can fail *)

\* Nothing happens.
LEMMA StutterFacts ==
  ASSUME UNCHANGED vars, Facts(test, pc)
  PROVE  Facts(test, pc)'
<1>1. UNCHANGED <<test, pc, cq, ddtc, dc, iotlb, swapped, events, csr, mem, excused, cqh, cqhRead, ipsr,
                  igs, held, armed, overflowed, fq, record, response>>
  BY DEF vars, test, main, caches, queue, reads, irq, control, count, results
<1>2. /\ OwnContext(test, pc) /\ OwnEntries(test, pc) /\ Events(test, pc) /\ Pending(test, pc)
      /\ Recording(test, pc) /\ Answered(test, pc) /\ Words(test, pc, mem)
  BY DEF Facts
<1>3. OwnContext(test, pc)'
  BY <1>1, <1>2 DEF OwnContext
<1>4. OwnEntries(test, pc)'
  BY <1>1, <1>2 DEF OwnEntries
<1>5. Events(test, pc)'
  <2>1. Fenced' = Fenced
    BY <1>1 DEF Fenced
  <2> QED BY <1>1, <1>2, <2>1 DEF Events
<1>6. Pending(test, pc)'
  <2>1. Told' = Told
    BY <1>1 DEF Told
  <2> QED BY <1>1, <1>2, <2>1 DEF Pending
<1>7. Recording(test, pc)'
  BY <1>1, <1>2 DEF Recording
<1>8. Answered(test, pc)'
  BY <1>1, <1>2 DEF Answered
<1>9. Words(test, pc, mem)'
  BY <1>1, <1>2
<1> QED BY <1>3, <1>4, <1>5, <1>6, <1>7, <1>8, <1>9 DEF Facts

\* A step of the hart in a test, and all that it changes.
LEMMA HartSteps ==
  ASSUME Hart
  PROVE  CallTest \/ Summary \/ FallOff \/ \E op \in Ops : Effects(op) /\ Changes(op)
<1>1. "transfer" \in Ops /\ "translate" \in Ops
  BY DEF Ops
<1>2. CASE DmaTransfer /\ Effects("transfer")
  BY <1>1, <1>2 DEF Changes
<1>3. CASE DebugTranslate /\ Effects("translate")
  BY <1>1, <1>3 DEF Changes
<1>4. CASE \E op \in Ops \ {"transfer", "translate"} : Effects(op) /\ Calm(op)
  BY <1>4 DEF Changes
<1> QED BY <1>2, <1>3, <1>4, HartEffects

LEMMA FactsStep ==
  ASSUME TypeInv, Own, Frame, Waiting, OnTrack => Facts(test, pc), [Next]_vars, OnTrack'
  PROVE  Facts(test, pc)'
<1>1. CASE IOMMU \/ UNCHANGED vars
  <2>1. OnTrack
    BY <1>1, IommuQuiet DEF OnTrack, Clean
  <2>2. Serves
    BY <2>1 DEF Serves
  <2>3. CASE IOMMU
    BY <2>2, <2>3, ExecuteFacts, RejectFacts, SignalFacts, OverflowFacts DEF IOMMU
  <2>4. CASE UNCHANGED vars
    BY <2>1, <2>4, StutterFacts
  <2> QED BY <1>1, <2>3, <2>4
<1>2. CASE CallTest
  BY <1>2, CallFacts
<1>3. CASE Summary \/ FallOff
  BY <1>3 DEF Summary, FallOff, OnTrack
<1>4. ASSUME NEW op \in Ops, Effects(op), Changes(op)
      PROVE  Facts(test, pc)'
  <2>1. OnTrack
    BY <1>4, OnStep DEF OnTrack
  <2>2. Proceeds(op)
    BY <1>4, <2>1 DEF Proceeds
  <2> QED BY <2>2, FactsGo
<1> QED BY <1>1, <1>2, <1>3, <1>4, HartSteps DEF Next

LEMMA ExplainedStep ==
  ASSUME TypeInv, OnTrack => Facts(test, pc), Explained, [Next]_vars
  PROVE  Explained'
<1>1. excused \subseteq excused' /\ overtook \subseteq overtook'
  BY HartExcuses
<1>2. ASSUME NEW f \in falsified
      PROVE  /\ f[1] \in DOMAIN Program /\ f[1] \in excused' \cup overtook'
             /\ f[1] \in Independent => overtook' # {}
  BY <1>1, <1>2 DEF Explained
<1>3. CASE IOMMU \/ UNCHANGED vars
  <2>1. UNCHANGED <<falsified, excused, overtook, status, test>>
    BY <1>3, IommuQuiet
  <2> QED BY <2>1 DEF Explained
<1>4. CASE CallTest \/ Summary \/ FallOff
  <2>1. falsified' = falsified /\ status' # "error"
    BY <1>4 DEF CallTest, Summary, FallOff, results
  <2> QED BY <1>2, <2>1 DEF Explained
<1>5. ASSUME NEW op \in Ops, Effects(op)
      PROVE  Explained'
  <2>1. /\ test \in DOMAIN Program /\ pc \in 1 .. Len(Program[test]) /\ Step = Program[test][pc]
        /\ Step.op = op /\ status = "running" /\ test' = test
    BY <1>5, Stands
  <2>2. ~Clean' => /\ test \in excused' \cup overtook'
                   /\ ~(test \in Independent /\ overtook' = {})
    BY <2>1 DEF Clean
  <2>3. Clean' => /\ Facts(test, pc) /\ cq = << >> /\ (events # {} => "cip" \in ipsr)
                  /\ overtook' = overtook
    BY <1>5, OnStep
  <2>4. CASE op = "assert"
    <3> DEFINE n == <<test, pc>>
    <3>1. /\ falsified' = IF Holds(Step.holds) THEN falsified ELSE falsified \cup {n}
          /\ status' = status
      BY <1>5, <2>4 DEF Effects
    <3>2. n[1] = test /\ n[2] = pc
      OBVIOUS
    <3>3. ASSUME ~Holds(Step.holds)
          PROVE  /\ test \in excused' \cup overtook'
                 /\ test \in Independent => overtook' # {}
      <4>1. CASE Clean'
        <5>1. Facts(test, pc) /\ cq = << >> /\ (events # {} => "cip" \in ipsr)
          BY <2>3, <4>1
        <5>2. Holds(Step.holds)
          BY <2>1, <2>4, <5>1, AssertionsHold
        <5> QED BY <1>1, <3>3, <5>2
      <4>2. CASE ~Clean'
        BY <2>2, <4>2
      <4> QED BY <4>1, <4>2
    <3> HIDE DEF n
    <3>4. ASSUME NEW f \in falsified'
          PROVE  /\ f[1] \in DOMAIN Program /\ f[1] \in excused' \cup overtook'
                 /\ f[1] \in Independent => overtook' # {}
      <4>1. CASE f \in falsified
        BY <1>2, <4>1
      <4>2. CASE f \notin falsified
        <5>1. f = n /\ ~Holds(Step.holds)
          BY <3>1, <3>4, <4>2
        <5> QED BY <2>1, <3>2, <3>3, <5>1
      <4> QED BY <4>1, <4>2
    <3>5. status' # "error"
      BY <2>1, <3>1
    <3> QED BY <3>4, <3>5 DEF Explained
  <2>5. CASE op = "record"
    <3>1. falsified' = falsified /\ (status' = "error" => fq = << >>)
      BY <1>5, <2>1, <2>5 DEF Effects
    <3>2. Clean' => fq # << >>
      BY <2>1, <2>3, <2>5, RecordThere DEF Facts
    <3>3. status' = "error" => /\ test' \in excused' \cup overtook'
                               /\ test' \in Independent => overtook' # {}
      BY <2>1, <2>2, <3>1, <3>2
    <3> QED BY <1>2, <3>1, <3>3 DEF Explained
  <2>6. CASE op \notin {"assert", "record"}
    <3>1. falsified' = falsified /\ status' # "error"
      BY <1>5, <2>1, <2>6 DEF Effects
    <3> QED BY <1>2, <3>1 DEF Explained
  <2> QED BY <2>4, <2>5, <2>6
<1> QED BY <1>3, <1>4, <1>5, HartOps DEF Next

LEMMA PassInit == Init => PassInv /\ KeepsUp
<1> SUFFICES ASSUME Init PROVE PassInv /\ KeepsUp
  OBVIOUS
<1>1. /\ status = "main" /\ index = 0 /\ ddtc = NoContext /\ iotlb = {} /\ swapped = {} /\ cq = << >>
      /\ events = {} /\ masked = {"cip"} /\ armed = {} /\ overflowed = {}
      /\ falsified = {} /\ overtook = {}
  BY DEF Init
<1>2. Frame
  <2>1. Flat(ddtc)
    BY <1>1 DEF Flat, NoContext
  <2>2. Prepared
    BY <1>1 DEF Prepared
  <2>3. Untouched
    BY <1>1 DEF Untouched, OnSwitches
  <2> QED BY <1>1, <2>1, <2>2, <2>3 DEF Frame
<1>3. Waiting /\ (OnTrack => Facts(test, pc)) /\ Explained
  BY <1>1 DEF Waiting, OnTrack, Explained
<1>4. KeepsUp
  BY <1>1 DEF KeepsUp, Behind, Signalling
<1> QED BY <1>2, <1>3, <1>4 DEF PassInv

\* All of it is inductive, with the invariant of the records.
LEMMA PassStep ==
  ASSUME RecordInv, PassInv, KeepsUp, [Next]_vars
  PROVE  PassInv' /\ KeepsUp'
<1>1. TypeInv /\ Own /\ Frame /\ Waiting /\ (OnTrack => Facts(test, pc)) /\ Explained
  BY DEF RecordInv, PassInv
<1>2. Frame' /\ Waiting' /\ Explained' /\ KeepsUp'
  BY <1>1, FrameStep, WaitingStep, ExplainedStep, KeepsUpStep
<1>3. (OnTrack => Facts(test, pc))'
  BY <1>1, FactsStep
<1> QED BY <1>2, <1>3 DEF PassInv

\* Commands and modes of the tests that do not set up all that they rely on.
Leaves(t, i, s) ==
  t \notin Independent =>
    /\ s.op = "command" => s.command # "ddt_inval"
    /\ s.op = "ddtp" => s.mode = "1lvl"

LEMMA LeavesRight ==
  ASSUME NEW t \in DOMAIN Program, NEW i \in 1 .. Len(Program[t])
  PROVE  Leaves(t, i, Program[t][i])
<1> USE DEF Leaves, Independent,
       Ddtp, Context, Igs, Command, Store, Transfer, Switch, Arm,
       Translate, ReadRecord, GetCqh, GetCqcsr, SetCqcsr, ClearIpsr, UnmaskCQ, PollCycles, Expect,
       TestEnd
<1>1. CASE t = "iommu_off"
  BY <1>1, ProgramIs, IommuOffSteps, SMT
<1>2. CASE t = "iommu_bare"
  BY <1>2, ProgramIs, IommuBareSteps, SMT
<1>3. CASE t = "both_stages_bare"
  BY <1>3, ProgramIs, BothStagesBareSteps, SMT
<1>4. CASE t = "second_stage_only"
  BY <1>4, ProgramIs, SecondStageOnlySteps, SMT
<1>5. CASE t = "two_stage_translation"
  BY <1>5, ProgramIs, TwoStageTranslationSteps, SMT
<1>6. CASE t = "iotinval"
  BY <1>6, ProgramIs, IotinvalSteps, SMT
<1>7. CASE t = "wsi_generation"
  BY <1>7, ProgramIs, WsiGenerationSteps, SMT
<1>8. CASE t = "iofence"
  BY <1>8, ProgramIs, IofenceSteps, SMT
<1>9. CASE t = "msi_generation"
  BY <1>9, ProgramIs, MsiGenerationSteps, SMT
<1>10. CASE t = "hpm"
  BY <1>10, ProgramIs, HpmSteps, SMT
<1>11. CASE t = "mrif_support"
  BY <1>11, ProgramIs, MrifSupportSteps, SMT
<1>12. CASE t = "dbg_interface"
  BY <1>12, ProgramIs, DbgInterfaceSteps, SMT
<1> QED BY <1>1, <1>2, <1>3, <1>4, <1>5, <1>6, <1>7, <1>8, <1>9, <1>10, <1>11, <1>12, ProgramIs

\* Where each of them first has an address translated.
FirstUse(t) ==
  CASE t = "iotinval" -> 9 [] t = "wsi_generation" -> 8 [] t = "msi_generation" -> 6 [] t = "hpm" -> 21 [] t = "dbg_interface" -> 5

LEMMA FirstUseRight ==
  ASSUME NEW t \in DOMAIN Program, t \notin Independent \cup {"iofence"}
  PROVE  /\ FirstUse(t) \in DOMAIN Program[t] /\ FirstUse(t) \in Nat /\ FirstUse(t) <= Len(Program[t])
         /\ UsesContext(Program[t][FirstUse(t)])
<1>1. \A x, y : UsesContext(Transfer(v(x), v(y))) /\ UsesContext(Translate(v(x)))
  BY TransferOf, Places, SMT DEF UsesContext
<1>2. CASE t = "iotinval"
  <2>1. 9 \in DOMAIN iotinval
    BY SMT DEF iotinval, TwoStages, OneLevel, ClearSwitches, BothSwitches
  <2> QED BY <1>1, <1>2, <2>1, ProgramIs, IotinvalSteps, SMT DEF FirstUse
<1>3. CASE t = "wsi_generation"
  <2>1. 8 \in DOMAIN wsi_generation
    BY SMT DEF wsi_generation, TwoStages, OneLevel, CheckRecord
  <2> QED BY <1>1, <1>3, <2>1, ProgramIs, WsiGenerationSteps, SMT DEF FirstUse
<1>4. CASE t = "msi_generation"
  <2>1. 6 \in DOMAIN msi_generation
    BY SMT DEF msi_generation, TwoStages, OneLevel
  <2> QED BY <1>1, <1>4, <2>1, ProgramIs, MsiGenerationSteps, SMT DEF FirstUse
<1>5. CASE t = "hpm"
  <2>1. 21 \in DOMAIN hpm
    BY SMT DEF hpm, TwoStages, OneLevel, CycleOverflow
  <2> QED BY <1>1, <1>5, <2>1, ProgramIs, HpmSteps, SMT DEF FirstUse
<1>6. CASE t = "dbg_interface"
  <2>1. 5 \in DOMAIN dbg_interface
    BY SMT DEF dbg_interface, TwoStages, OneLevel, CheckRecord
  <2> QED BY <1>1, <1>6, <2>1, ProgramIs, DbgInterfaceSteps, SMT DEF FirstUse
<1>7. t \in {"iotinval", "wsi_generation", "msi_generation", "hpm", "dbg_interface"}
  BY ProgramIs DEF Independent
<1> QED BY <1>2, <1>3, <1>4, <1>5, <1>6, <1>7

LEMMA BringsContextTests ==
  ASSUME NEW t \in DOMAIN Program, BringsContext(t)
  PROVE  t \in Independent \cup {"iofence"}
<1> SUFFICES ASSUME t \notin Independent \cup {"iofence"} PROVE FALSE
  OBVIOUS
<1> DEFINE i == FirstUse(t)
           n == Len(Program[t])
<1>1. i \in DOMAIN Program[t] /\ i \in Nat /\ i <= n /\ UsesContext(Program[t][i])
  BY FirstUseRight
<1>2. PICK j \in 1 .. i : Program[t][j] \in {Command("ddt_inval"), Ddtp("off"), Ddtp("bare")}
  BY <1>1 DEF BringsContext
<1>3. n \in Nat
  BY ProgramLengths
<1>4. j \in 1 .. n
  <2> HIDE DEF i, n
  <2> QED BY <1>1, <1>2, <1>3
<1>5. Leaves(t, j, Program[t][j])
  BY <1>4, LeavesRight
<1>6. /\ Command("ddt_inval").op = "command" /\ Command("ddt_inval").command = "ddt_inval"
      /\ \A m : Ddtp(m).op = "ddtp" /\ Ddtp(m).mode = m
  BY DEF Command, Ddtp
<1> DEFINE s == Program[t][j]
<1>7. /\ s.op = "command" => s.command # "ddt_inval"
      /\ s.op = "ddtp" => s.mode = "1lvl"
  BY <1>5 DEF Leaves
<1>8. s \in {Command("ddt_inval"), Ddtp("off"), Ddtp("bare")}
  BY <1>2
<1> HIDE DEF s
<1> QED BY <1>6, <1>7, <1>8

\* iofence alone asks for a wired interrupt, at a step that no other precedes
\* which selects one.
LEMMA IofenceSelects ==
  /\ "iofence" \in DOMAIN Program /\ 3 \in DOMAIN Program["iofence"]
  /\ Program["iofence"][3] = Command("iofence")
  /\ \A j \in 1 .. 3 : Program["iofence"][j].op # "igs"
BY ProgramIs, IofenceSteps, SMT DEF Command, Ddtp, GetCqh

LEMMA IofenceBringsNoWires == ~BringsWires("iofence")
<1>1. \A j \in 1 .. 3 : Program["iofence"][j] # Igs("wsi")
  BY IofenceSelects DEF Igs
<1> QED BY <1>1, IofenceSelects DEF BringsWires

LEMMA SelfContainedTests ==
  ASSUME NEW t \in DOMAIN Program, SelfContained(t)
  PROVE  t \in Independent
BY BringsContextTests, IofenceBringsNoWires DEF SelfContained

(* In any suite, however far the command queue lags, and whatever becomes  *)
(* of an IOFENCE.C whose WSI bit is reserved: a test fails only when an    *)
(* earlier one left it a context, an interrupt, a record or fctl set to    *)
(* messages, when it overtook the command queue, or when cqh wraps.        *)
THEOREM FailuresAreExplained == Spec => []FailuresExplained
<1>1. TypeInv /\ [Next]_vars => TypeInv'
  BY LoopStep, HardwareStep, TalliesStep DEF TypeInv
<1>2. RecordInv /\ [Next]_vars => RecordInv'
  BY <1>1, OwnStep, PlainStep DEF RecordInv
<1>3. RecordInv /\ PassInv /\ KeepsUp /\ [Next]_vars => PassInv' /\ KeepsUp'
  BY PassStep
<1>4. PassInv => FailuresExplained
  BY DEF PassInv, Explained, FailuresExplained
<1> QED BY <1>2, <1>3, <1>4, RecordInit, PassInit, PTL DEF Spec

(* In any suite whose tests do not overtake the command queue, a test that *)
(* sets up what it translates with passes, if it asks for no wired         *)
(* interrupt that it has not selected.                                     *)
THEOREM SelfContainedTestsPass == Spec => []SelfContainedPass
<1>1. TypeInv /\ [Next]_vars => TypeInv'
  BY LoopStep, HardwareStep, TalliesStep DEF TypeInv
<1>2. RecordInv /\ [Next]_vars => RecordInv'
  BY <1>1, OwnStep, PlainStep DEF RecordInv
<1>3. RecordInv /\ PassInv /\ KeepsUp /\ [Next]_vars => PassInv' /\ KeepsUp'
  BY PassStep
<1>4. RecordInv /\ PassInv /\ KeepsUp => SelfContainedPass
  <2> SUFFICES ASSUME RecordInv, PassInv, KeepsUp, ~lag PROVE SelfContainedPass
    BY DEF SelfContainedPass
  <2>1. overtook = {} /\ Explained
    BY DEF KeepsUp, PassInv
  <2>2. ASSUME NEW f \in falsified PROVE ~SelfContained(f[1])
    <3>1. f[1] \in DOMAIN Program /\ f[1] \notin Independent
      BY <2>1 DEF Explained
    <3> QED BY <3>1, SelfContainedTests
  <2>3. ASSUME status = "error" PROVE ~SelfContained(test)
    <3>1. test \in DOMAIN Program
      BY <2>3 DEF RecordInv, TypeInv, Loop, Table, test
    <3>2. test \notin Independent
      BY <2>1, <2>3 DEF Explained
    <3> QED BY <3>1, <3>2, SelfContainedTests
  <2> QED BY <2>2, <2>3 DEF SelfContainedPass
<1> QED BY <1>2, <1>3, <1>4, RecordInit, PassInit, PTL DEF Spec

-----------------------------------------------------------------------------
(* Suites of compatible tests *)

\* What the definitions of compatible suites come to, test by test.
OneStaged == {"both_stages_bare", "second_stage_only"}
Renewing  == {"two_stage_translation", "mrif_support"}
Clearing  == {"iommu_off", "wsi_generation", "iofence", "msi_generation", "hpm", "mrif_support"}
Wiring    == {"wsi_generation", "hpm"}

LastClear(t) ==
  CASE t = "iommu_off" -> 7 [] t \in {"wsi_generation", "iofence"} -> 10
    [] t = "msi_generation" -> 13 [] t = "hpm" -> 25 [] t = "mrif_support" -> 22
LastIgs(t) == IF t = "hpm" THEN 19 ELSE 5

\* One of the first n tests has left the context of a single stage, an
\* interrupt pending or fctl set to messages, and none of them after it has
\* put that right.
ContextLeft(n) ==
  \E i \in 1 .. n : suite[i] \in OneStaged /\ \A j \in i + 1 .. n : suite[j] \notin Renewing
InterruptLeft(n) ==
  \E i \in 1 .. n : suite[i] = "dbg_interface" /\ \A j \in i + 1 .. n : suite[j] \notin Clearing
MsiLeft(n) ==
  \E i \in 1 .. n : suite[i] = "msi_generation" /\ \A j \in i + 1 .. n : suite[j] \notin Wiring

TwoStageContext == [s1 |-> "sv39", s2 |-> "sv39x4", msi |-> "flat"]

Running(t, steps) == status = "running" /\ test = t /\ pc \in steps

\* Where the events of a queue that keeps up are pending, and cip with them.
TidyEvents ==
  ~lag =>
    /\ events # {} => cq = << >> /\ (Running("iofence", 4 .. 9) \/ Running("msi_generation", 8 .. 12))
    /\ Running("iofence", 6 .. 9) \/ Running("msi_generation", 9 .. 12) => csr = events
    /\ "cip" \in ipsr => Running("iofence", 4 .. 10) \/ Running("msi_generation", 8 .. 13)

\* What compatible tests leave to each other.
TidyContext == ddtc \in {NoContext, TwoStageContext} \/ ContextLeft(index)
                 \/ (status = "running" /\ test \in Renewing)
TidyCounters ==
  /\ "iohpmctr3" \in armed => Running("hpm", {21})
  /\ "pmip" \in ipsr => Running("hpm", 1 .. 25)
TidyFaults ==
  "fip" \in ipsr =>
    InterruptLeft(index) \/ (test \in Clearing /\ Running(test, 1 .. LastClear(test)))
TidyWires ==
  igs = "msi" => MsiLeft(index) \/ (test \in Wiring /\ Running(test, 1 .. LastIgs(test)))

Tidy ==
  ~lag /\ Compatible(suite) =>
    excused \subseteq Independent /\ TidyContext /\ TidyCounters /\ TidyFaults /\ TidyWires

\* The commands of the tests, where they are queued, and those still to come.
\* Without lag cqh moves by one for each, and does not wrap as long as they fit.
Commands ==
  {<<"second_stage_only", 5>>, <<"two_stage_translation", 5>>, <<"iotinval", 15>>, <<"iotinval", 22>>,
   <<"iofence", 3>>, <<"msi_generation", 7>>, <<"mrif_support", 5>>, <<"mrif_support", 12>>}
Unsent == {c \in Commands : Before(c[1], c[2])}
Room(n, S) == n + Cardinality(S) < CqEntries

Straight == ~lag => Room(cqh + Len(cq), Unsent)

-----------------------------------------------------------------------------
(* What compatible tests do where *)

\* Where they translate, queue commands, clear interrupts and end.
Settles(t, i, s) ==
  /\ s.op = "translate" => t = "dbg_interface"
  /\ t = "dbg_interface" => s.op # "transfer"
  /\ s.op = "cqh" => t = "iofence" /\ i = 2
  /\ s.op = "command" =>
       \/ t \in Owners /\ i = 5
       \/ t = "mrif_support" /\ i = 12
       \/ t = "iotinval" /\ i \in {15, 22}
       \/ t = "iofence" /\ i = 3
       \/ t = "msi_generation" /\ i = 7
  /\ s.op = "command" /\ s.command = "ddt_inval" => t \in Owners
  /\ s.op = "clear_ipsr" => t \in Clearing
  /\ t \in Clearing =>
       /\ LastClear(t) < Len(Program[t])
       /\ i = LastClear(t) => s.op = "clear_ipsr"
       /\ i <= LastClear(t) => s.op # "end"
  /\ t = "iofence" /\ i = 9 => s.op = "set_cqcsr"
  /\ t \in Renewing => Len(Program[t]) >= 13 /\ (s.op = "end" => i >= 13)

LEMMA SettlesRight ==
  ASSUME NEW t \in DOMAIN Program, NEW i \in 1 .. Len(Program[t])
  PROVE  Settles(t, i, Program[t][i])
<1> USE DEF Settles,
       Owners, Clearing, LastClear, Renewing,
       Ddtp, Context, Igs, Command, Store, Transfer, Switch, Arm,
       Translate, ReadRecord, GetCqh, GetCqcsr, SetCqcsr, ClearIpsr, UnmaskCQ, PollCycles, Expect,
       TestEnd
<1>1. CASE t = "iommu_off"
  BY <1>1, ProgramIs, IommuOffSteps, SMT
<1>2. CASE t = "iommu_bare"
  BY <1>2, ProgramIs, IommuBareSteps, SMT
<1>3. CASE t = "both_stages_bare"
  BY <1>3, ProgramIs, BothStagesBareSteps, SMT
<1>4. CASE t = "second_stage_only"
  BY <1>4, ProgramIs, SecondStageOnlySteps, SMT
<1>5. CASE t = "two_stage_translation"
  BY <1>5, ProgramIs, TwoStageTranslationSteps, SMT
<1>6. CASE t = "iotinval"
  BY <1>6, ProgramIs, IotinvalSteps, SMT
<1>7. CASE t = "wsi_generation"
  BY <1>7, ProgramIs, WsiGenerationSteps, SMT
<1>8. CASE t = "iofence"
  BY <1>8, ProgramIs, IofenceSteps, SMT
<1>9. CASE t = "msi_generation"
  BY <1>9, ProgramIs, MsiGenerationSteps, SMT
<1>10. CASE t = "hpm"
  BY <1>10, ProgramIs, HpmSteps, SMT
<1>11. CASE t = "mrif_support"
  BY <1>11, ProgramIs, MrifSupportSteps, SMT
<1>12. CASE t = "dbg_interface"
  BY <1>12, ProgramIs, DbgInterfaceSteps, SMT
<1> QED BY <1>1, <1>2, <1>3, <1>4, <1>5, <1>6, <1>7, <1>8, <1>9, <1>10, <1>11, <1>12, ProgramIs

\* Which of their transfers are physical.
UsesVirtual(t, i, s) ==
  /\ t \in Plain => ~UsesContext(s)
  /\ t \in Owners => i # 5 \/ s = Command("ddt_inval")

LEMMA UsesVirtualRight ==
  ASSUME NEW t \in DOMAIN Program, NEW i \in 1 .. Len(Program[t])
  PROVE  UsesVirtual(t, i, Program[t][i])
<1> USE Places DEF UsesVirtual, Plain, Owners, UsesContext,
       Ddtp, Context, Igs, Command, Store, Transfer, Switch, Arm,
       Translate, ReadRecord, GetCqh, GetCqcsr, SetCqcsr, ClearIpsr, UnmaskCQ, PollCycles, Expect,
       TestEnd
<1>1. CASE t = "iommu_off"
  BY <1>1, ProgramIs, IommuOffSteps, SMT
<1>2. CASE t = "iommu_bare"
  BY <1>2, ProgramIs, IommuBareSteps, SMT
<1>3. CASE t = "both_stages_bare"
  BY <1>3, ProgramIs, BothStagesBareSteps, SMT
<1>4. CASE t = "second_stage_only"
  BY <1>4, ProgramIs, SecondStageOnlySteps, SMT
<1>5. CASE t = "two_stage_translation"
  BY <1>5, ProgramIs, TwoStageTranslationSteps, SMT
<1>6. CASE t = "iotinval"
  BY <1>6, ProgramIs, IotinvalSteps, SMT
<1>7. CASE t = "wsi_generation"
  BY <1>7, ProgramIs, WsiGenerationSteps, SMT
<1>8. CASE t = "iofence"
  BY <1>8, ProgramIs, IofenceSteps, SMT
<1>9. CASE t = "msi_generation"
  BY <1>9, ProgramIs, MsiGenerationSteps, SMT
<1>10. CASE t = "hpm"
  BY <1>10, ProgramIs, HpmSteps, SMT
<1>11. CASE t = "mrif_support"
  BY <1>11, ProgramIs, MrifSupportSteps, SMT
<1>12. CASE t = "dbg_interface"
  BY <1>12, ProgramIs, DbgInterfaceSteps, SMT
<1> QED BY <1>1, <1>2, <1>3, <1>4, <1>5, <1>6, <1>7, <1>8, <1>9, <1>10, <1>11, <1>12, ProgramIs

\* Where they select a kind of interrupts, and ask for a wired one.
Selects(t, i, s) ==
  /\ s.op = "igs" => \/ t = "msi_generation" /\ i = 5
                     \/ t \in Wiring /\ i <= LastIgs(t)
  /\ t = "msi_generation" /\ i = 5 => s = Igs("msi")
  /\ t \in Wiring => LastIgs(t) < Len(Program[t]) /\ (s.op = "end" => i > LastIgs(t))
  /\ t \in Wiring /\ i = LastIgs(t) => s = Igs("wsi")
  /\ s.op = "command" /\ s.command = "iofence" => t = "iofence"

LEMMA SelectsRight ==
  ASSUME NEW t \in DOMAIN Program, NEW i \in 1 .. Len(Program[t])
  PROVE  Selects(t, i, Program[t][i])
<1> USE DEF Selects, Wiring, LastIgs,
       Ddtp, Context, Igs, Command, Store, Transfer, Switch, Arm,
       Translate, ReadRecord, GetCqh, GetCqcsr, SetCqcsr, ClearIpsr, UnmaskCQ, PollCycles, Expect,
       TestEnd
<1>1. CASE t = "iommu_off"
  BY <1>1, ProgramIs, IommuOffSteps, SMT
<1>2. CASE t = "iommu_bare"
  BY <1>2, ProgramIs, IommuBareSteps, SMT
<1>3. CASE t = "both_stages_bare"
  BY <1>3, ProgramIs, BothStagesBareSteps, SMT
<1>4. CASE t = "second_stage_only"
  BY <1>4, ProgramIs, SecondStageOnlySteps, SMT
<1>5. CASE t = "two_stage_translation"
  BY <1>5, ProgramIs, TwoStageTranslationSteps, SMT
<1>6. CASE t = "iotinval"
  BY <1>6, ProgramIs, IotinvalSteps, SMT
<1>7. CASE t = "wsi_generation"
  BY <1>7, ProgramIs, WsiGenerationSteps, SMT
<1>8. CASE t = "iofence"
  BY <1>8, ProgramIs, IofenceSteps, SMT
<1>9. CASE t = "msi_generation"
  BY <1>9, ProgramIs, MsiGenerationSteps, SMT
<1>10. CASE t = "hpm"
  BY <1>10, ProgramIs, HpmSteps, SMT
<1>11. CASE t = "mrif_support"
  BY <1>11, ProgramIs, MrifSupportSteps, SMT
<1>12. CASE t = "dbg_interface"
  BY <1>12, ProgramIs, DbgInterfaceSteps, SMT
<1> QED BY <1>1, <1>2, <1>3, <1>4, <1>5, <1>6, <1>7, <1>8, <1>9, <1>10, <1>11, <1>12, ProgramIs

LEMMA ProgramDomains ==
  ASSUME NEW t \in DOMAIN Program
  PROVE  DOMAIN Program[t] = 1 .. Len(Program[t])
<1>1. CASE t = "iommu_off"
  <2>1. DOMAIN iommu_off = 1 .. Len(iommu_off)
    BY SMT DEF iommu_off, CheckRecord
  <2> QED BY <1>1, <2>1, ProgramIs
<1>2. CASE t = "iommu_bare"
  <2>1. DOMAIN iommu_bare = 1 .. Len(iommu_bare)
    BY SMT DEF iommu_bare
  <2> QED BY <1>2, <2>1, ProgramIs
<1>3. CASE t = "both_stages_bare"
  <2>1. DOMAIN both_stages_bare = 1 .. Len(both_stages_bare)
    BY SMT DEF both_stages_bare
  <2> QED BY <1>3, <2>1, ProgramIs
<1>4. CASE t = "second_stage_only"
  <2>1. DOMAIN second_stage_only = 1 .. Len(second_stage_only)
    BY SMT DEF second_stage_only, OneLevel
  <2> QED BY <1>4, <2>1, ProgramIs
<1>5. CASE t = "two_stage_translation"
  <2>1. DOMAIN two_stage_translation = 1 .. Len(two_stage_translation)
    BY SMT DEF two_stage_translation, TwoStages, OneLevel
  <2> QED BY <1>5, <2>1, ProgramIs
<1>6. CASE t = "iotinval"
  <2>1. DOMAIN iotinval = 1 .. Len(iotinval)
    BY SMT DEF iotinval, TwoStages, OneLevel, BothSwitches, ClearSwitches
  <2> QED BY <1>6, <2>1, ProgramIs
<1>7. CASE t = "wsi_generation"
  <2>1. DOMAIN wsi_generation = 1 .. Len(wsi_generation)
    BY SMT DEF wsi_generation, TwoStages, OneLevel, CheckRecord
  <2> QED BY <1>7, <2>1, ProgramIs
<1>8. CASE t = "iofence"
  <2>1. DOMAIN iofence = 1 .. Len(iofence)
    BY SMT DEF iofence
  <2> QED BY <1>8, <2>1, ProgramIs
<1>9. CASE t = "msi_generation"
  <2>1. DOMAIN msi_generation = 1 .. Len(msi_generation)
    BY SMT DEF msi_generation, TwoStages, OneLevel
  <2> QED BY <1>9, <2>1, ProgramIs
<1>10. CASE t = "hpm"
  <2>1. DOMAIN hpm = 1 .. Len(hpm)
    BY SMT DEF hpm, TwoStages, OneLevel, CycleOverflow
  <2> QED BY <1>10, <2>1, ProgramIs
<1>11. CASE t = "mrif_support"
  <2>1. DOMAIN mrif_support = 1 .. Len(mrif_support)
    BY SMT DEF mrif_support, OneLevel, CheckRecord
  <2> QED BY <1>11, <2>1, ProgramIs
<1>12. CASE t = "dbg_interface"
  <2>1. DOMAIN dbg_interface = 1 .. Len(dbg_interface)
    BY SMT DEF dbg_interface, TwoStages, OneLevel, CheckRecord
  <2> QED BY <1>12, <2>1, ProgramIs
<1> QED BY <1>1, <1>2, <1>3, <1>4, <1>5, <1>6, <1>7, <1>8, <1>9, <1>10, <1>11, <1>12, ProgramIs

-----------------------------------------------------------------------------
(* The events of a queue that keeps up *)

\* Where the steps stand that make events pending and clear them.
LEMMA EventSteps ==
  ASSUME TypeInv, NEW op \in Ops, Effects(op)
  PROVE  /\ test \in DOMAIN Program /\ pc \in 1 .. Len(Program[test]) /\ pc \in Nat \ {0}
         /\ Step = Program[test][pc] /\ Step.op = op /\ status = "running"
         /\ test' = test /\ pc' = pc + 1 /\ lag' = lag
         /\ UNCHANGED <<suite, index>>
         /\ Paced(test, pc, Step) /\ Settles(test, pc, Step) /\ Selects(test, pc, Step)
         /\ Queues(test, pc, Step)
         /\ op \notin {"end", "record"} => status' = "running"
<1>1. /\ test \in DOMAIN Program /\ pc \in 1 .. Len(Program[test]) /\ pc \in Nat \ {0}
      /\ Step = Program[test][pc] /\ Step.op = op /\ status = "running"
      /\ test' = test /\ pc' = pc + 1 /\ lag' = lag /\ Queues(test, pc, Step)
  BY Stands
<1>2. UNCHANGED <<suite, index>> /\ (op \notin {"end", "record"} => status' = status)
  BY DEF Effects
<1> QED BY <1>1, <1>2, PacedRight, SettlesRight, SelectsRight

LEMMA EventsIommu ==
  ASSUME TypeInv, Waiting, KeepsUp, TidyEvents, IOMMU \/ UNCHANGED vars, ~lag
  PROVE  TidyEvents'
<1>1. UNCHANGED <<status, test, pc, lag, csr>>
  BY IommuQuiet
<1>2. /\ events # {} => cq = << >> /\ (Running("iofence", 4 .. 9) \/ Running("msi_generation", 8 .. 12))
      /\ Running("iofence", 6 .. 9) \/ Running("msi_generation", 9 .. 12) => csr = events
      /\ "cip" \in ipsr => Running("iofence", 4 .. 10) \/ Running("msi_generation", 8 .. 13)
  BY DEF TidyEvents
<1>3. \A t, s : Running(t, s)' <=> Running(t, s)
  BY <1>1 DEF Running
<1>4. ASSUME cq # << >>
      PROVE  /\ Tail(cq) = << >>
             /\ Head(cq) = "iofence" => Running("iofence", {4})
             /\ Head(cq) = "illegal" => Running("msi_generation", {8})
  <2>1. status = "running" /\ overtook = {}
    BY <1>4 DEF KeepsUp, Behind
  <2>2. cq = Queued(test, pc)
    BY <1>4, <2>1 DEF Waiting
  <2> QED BY <1>4, <2>1, <2>2, QueuedOne DEF Running
<1>5. CASE (Execute /\ Head(cq) = "iofence") \/ Reject
  <2>1. cq # << >> /\ cq' = Tail(cq) /\ ipsr' = ipsr
    BY <1>5 DEF Execute, Reject, Fetching, Consume, irq
  <2>2. Running("iofence", {4}) \/ Running("msi_generation", {8})
    BY <1>4, <1>5, <2>1 DEF Reject, Reserved
  <2>3. cq' = << >>
    BY <1>4, <2>1
  <2> QED BY <1>1, <1>2, <2>1, <2>2, <2>3, SMT DEF TidyEvents, Running
<1>6. CASE Execute /\ Head(cq) # "iofence"
  <2>1. cq # << >> /\ UNCHANGED <<events, ipsr>>
    BY <1>6 DEF Execute, Fetching, irq
  <2>2. events = {}
    BY <1>2, <2>1
  <2> QED BY <1>1, <1>2, <1>3, <2>1, <2>2 DEF TidyEvents
<1>7. CASE Signal
  <2>1. events # {} /\ UNCHANGED <<events, cq>> /\ ipsr' = ipsr \cup {"cip"}
    BY <1>7 DEF Signal, Signalling, queue, Pend
  <2>2. Running("iofence", 4 .. 10) \/ Running("msi_generation", 8 .. 13)
    BY <1>2, <2>1, SMT DEF Running
  <2> QED BY <1>1, <1>2, <1>3, <2>1, <2>2 DEF TidyEvents
<1>8. CASE CyclesOverflow \/ UNCHANGED vars
  <2>1. UNCHANGED <<events, cq>> /\ ipsr' \in {ipsr, ipsr \cup {"pmip"}}
    BY <1>8 DEF CyclesOverflow, queue, Pend, vars, irq
  <2>2. "cip" \in ipsr' => "cip" \in ipsr
    BY <2>1
  <2> QED BY <1>1, <1>2, <1>3, <2>1, <2>2 DEF TidyEvents
<1> QED BY <1>5, <1>6, <1>7, <1>8 DEF IOMMU

LEMMA EventsHart ==
  ASSUME TypeInv, KeepsUp, TidyEvents, NEW op \in Ops, Effects(op), Hart, ~lag
  PROVE  TidyEvents'
<1> DEFINE t == test
           i == pc
<1>1. /\ i \in Nat \ {0} /\ Step.op = op /\ status = "running" /\ t' = t /\ pc' = i + 1
      /\ Paced(t, i, Step) /\ Settles(t, i, Step) /\ Queues(t, i, Step)
      /\ op \notin {"end", "record"} => status' = "running"
  BY EventSteps
<1>2. /\ cq' = IF op = "command" THEN Append(cq, Step.command) ELSE cq
      /\ csr' = IF op = "cqcsr" THEN events ELSE csr
      /\ events' = IF op = "set_cqcsr" THEN events \ csr ELSE events
      /\ Doing(op)
  BY DEF Effects
<1>3. "cip" \in ipsr' => "cip" \in ipsr /\ op # "clear_ipsr"
  <2>1. CASE op \notin {"transfer", "translate"}
    <3>1. Calm(op)
      <4>1. ~DmaTransfer /\ ~DebugTranslate
        BY <1>1, <2>1 DEF DmaTransfer, DebugTranslate, Doing
      <4>2. ~(CallTest \/ Summary \/ FallOff)
        <5>1. ~(CallTest \/ Summary)
          BY <1>1 DEF CallTest, Summary
        <5>2. ~FallOff
          BY <1>2 DEF FallOff, Doing, TypeInv, Loop
        <5> QED BY <5>1, <5>2
      <4>3. PICK o \in Ops \ {"transfer", "translate"} : Effects(o) /\ Calm(o)
        BY <4>1, <4>2, HartEffects
      <4>4. o = op
        BY <1>2, <4>3 DEF Effects, Doing
      <4> QED BY <4>3, <4>4
    <3> QED BY <3>1 DEF Calm, Cleared
  <2>2. CASE op \in {"transfer", "translate"}
    <3>1. \E causes \in SUBSET {"fip", "pmip"} : \E m : Pend(causes, m)
      <4>1. DmaTransfer \/ DebugTranslate
        <5>1. ~(CallTest \/ Summary)
          BY <1>1 DEF CallTest, Summary
        <5>2. ~FallOff
          BY <1>2 DEF FallOff, Doing, TypeInv, Loop
        <5>3. ~\E o \in Ops \ {"transfer", "translate"} : Effects(o) /\ Calm(o)
          BY <1>1, <2>2 DEF Effects, Doing
        <5> QED BY <5>1, <5>2, <5>3, HartEffects
      <4>2. \A x, y : (IF x THEN {"fip"} ELSE {}) \cup (IF y THEN {"pmip"} ELSE {}) \in SUBSET {"fip", "pmip"}
        OBVIOUS
      <4>3. \A x : (IF x THEN {} ELSE {"fip"}) \in SUBSET {"fip", "pmip"}
        OBVIOUS
      <4> QED BY <4>1, <4>2, <4>3, Zenon DEF DmaTransfer, DebugTranslate
    <3> QED BY <2>2, <3>1 DEF Pend
  <2> QED BY <2>1, <2>2
<1>4. cq = << >> /\ (op # "command" => cq' = << >>)
  BY <1>2, KeptUp DEF Behind
<1>5. /\ events # {} => (t = "iofence" /\ i \in 4 .. 9) \/ (t = "msi_generation" /\ i \in 8 .. 12)
      /\ (t = "iofence" /\ i \in 6 .. 9) \/ (t = "msi_generation" /\ i \in 9 .. 12) => csr = events
      /\ "cip" \in ipsr => (t = "iofence" /\ i \in 4 .. 10) \/ (t = "msi_generation" /\ i \in 8 .. 13)
  BY <1>1 DEF TidyEvents, Running
<1>6. /\ t = "iofence" => /\ i \in {4, 6, 7, 8} => op = "assert"
                          /\ i = 5 => op = "cqcsr"
                          /\ i = 9 => op = "set_cqcsr"
                          /\ i = 10 => op = "clear_ipsr"
      /\ t = "msi_generation" => /\ i = 8 => op = "cqcsr"
                                 /\ i \in 9 .. 11 => op = "assert"
                                 /\ i = 12 => op = "set_cqcsr"
                                 /\ i = 13 => op = "clear_ipsr"
  BY <1>1, SMT DEF Paced, Settles, Clearing, LastClear
<1> HIDE DEF t, i
<1>7. ASSUME events' # {}
      PROVE  /\ op # "command" /\ status' = "running"
             /\ (t = "iofence" /\ i + 1 \in 4 .. 9) \/ (t = "msi_generation" /\ i + 1 \in 8 .. 12)
  <2>1. events # {}
    BY <1>2, <1>7
  <2>2. op = "set_cqcsr" => csr # events
    BY <1>2, <1>7
  <2> QED BY <1>1, <1>5, <1>6, <2>1, <2>2, SMT
<1>8. ASSUME (t = "iofence" /\ i + 1 \in 6 .. 9) \/ (t = "msi_generation" /\ i + 1 \in 9 .. 12)
      PROVE  csr' = events'
  BY <1>1, <1>2, <1>5, <1>6, <1>8, SMT
<1>9. ASSUME "cip" \in ipsr'
      PROVE  /\ status' = "running"
             /\ (t = "iofence" /\ i + 1 \in 4 .. 10) \/ (t = "msi_generation" /\ i + 1 \in 8 .. 13)
  BY <1>1, <1>3, <1>5, <1>6, <1>9, SMT
<1> QED BY <1>1, <1>4, <1>7, <1>8, <1>9 DEF TidyEvents, Running, t, i

\* Between two tests no event is pending.
LEMMA TidyEventsStep ==
  ASSUME TypeInv, Waiting, KeepsUp, TidyEvents, [Next]_vars
  PROVE  TidyEvents'
<1>1. CASE IOMMU \/ UNCHANGED vars
  <2>1. lag' = lag
    BY <1>1, IommuQuiet
  <2> QED BY <1>1, <2>1, EventsIommu DEF TidyEvents
<1>2. CASE CallTest \/ Summary \/ FallOff
  <2>1. /\ UNCHANGED <<lag, cq, events, ipsr, csr>>
        /\ status = "main" /\ (status' = "running" => pc' = 1)
        \/ /\ UNCHANGED <<lag, cq, events, ipsr, csr>> /\ status' = "main"
           /\ status = "running" /\ pc > Len(Program[test])
    BY <1>2, SMT DEF CallTest, Summary, FallOff, queue, irq, reads
  <2> SUFFICES ASSUME ~lag PROVE TidyEvents'
    BY <2>1 DEF TidyEvents
  <2>2. ~Running("iofence", 4 .. 10) /\ ~Running("iofence", 4 .. 9)
        /\ ~Running("msi_generation", 8 .. 12) /\ ~Running("msi_generation", 8 .. 13)
    <3> SUFFICES ASSUME status = "running", pc > Len(Program[test])
                 PROVE  ~(test = "iofence" /\ pc <= 10) /\ ~(test = "msi_generation" /\ pc <= 13)
      BY <2>1 DEF Running
    <3> DEFINE last == Len(Program[test])
    <3>1. (test = "iofence" => last = 11) /\ (test = "msi_generation" => last = 18)
      BY RejectingLengths, SMT
    <3>2. pc \in Nat /\ pc > last
      BY DEF TypeInv, Loop
    <3> HIDE DEF last
    <3> QED BY <3>1, <3>2, SMT
  <2>3. events = {} /\ "cip" \notin ipsr
    BY <2>2 DEF TidyEvents
  <2>4. ~Running("iofence", 6 .. 9)' /\ ~Running("msi_generation", 9 .. 12)'
    BY <2>1 DEF Running
  <2> QED BY <2>1, <2>3, <2>4 DEF TidyEvents
<1>3. ASSUME NEW op \in Ops, Effects(op), Hart
      PROVE  TidyEvents'
  <2>1. lag' = lag
    BY <1>3, EventSteps
  <2> QED BY <1>3, <2>1, EventsHart DEF TidyEvents
<1> QED BY <1>1, <1>2, <1>3, HartOps DEF Next

-----------------------------------------------------------------------------
(* What tests leave to each other *)

\* The steps that decide it.
Leavings(t, i, s) ==
  /\ s = Context("s1", "bare") => t \in OneStaged \cup {"mrif_support"}
  /\ t \in OneStaged => s # Context("s1", "sv39") /\ (i = 2 => s = Context("s1", "bare"))
  /\ s = Command("ddt_inval") => t \in Owners
  /\ t \in Renewing /\ i = 5 => s = Command("ddt_inval")
  /\ t \in Renewing /\ i = (IF t = "mrif_support" THEN 11 ELSE 2) => s = Context("s1", "sv39")
  /\ s = ReadRecord => t \in Clearing \cup {"dbg_interface"}
  /\ t = "dbg_interface" /\ i = 15 => s = ReadRecord
  /\ s = ClearIpsr => t \in Clearing
  /\ t \in Clearing /\ i = LastClear(t) => s = ClearIpsr

LEMMA DbgLeavings ==
  ASSUME NEW i \in 1 .. Len(Program["dbg_interface"])
  PROVE  Leavings("dbg_interface", i, Program["dbg_interface"][i])
<1> DEFINE t == "dbg_interface"
           s == Program[t][i]
<1>1. t \in DOMAIN Program
  BY ProgramIs
<1>2. Settles(t, i, s) /\ SetsUp(t, i, s)
  BY <1>1, SettlesRight, SetsUpRight
<1>3. i = 15 => s = ReadRecord
  BY ProgramIs, DbgInterfaceSteps
<1>4. /\ \A f, m : Context(f, m).op = "context" /\ Context(f, m).field = f /\ Context(f, m).mode = m
      /\ \A c : Command(c).op = "command"
      /\ ClearIpsr.op = "clear_ipsr"
  BY DEF Context, Command, ClearIpsr
<1> HIDE DEF s
<1>5. t \notin Owners \cup OneStaged \cup Renewing \cup Clearing /\ t \in TwoStageTests
      /\ t \notin {"mrif_support", "iotinval", "iofence", "msi_generation"}
      /\ t \notin {"iommu_off", "iommu_bare", "iofence"}
  BY DEF Owners, OneStaged, Renewing, Clearing, TwoStageTests
<1> HIDE DEF t
<1>6. s # ClearIpsr /\ s # Command("ddt_inval")
  BY <1>2, <1>4, <1>5 DEF Settles
<1>7. s # Context("s1", "bare")
  BY <1>2, <1>4, <1>5 DEF SetsUp, Wanted1
<1>8. Leavings(t, i, s)
  BY <1>3, <1>5, <1>6, <1>7 DEF Leavings, t
<1> QED BY <1>8 DEF s, t

LEMMA LeavingsRight ==
  ASSUME NEW t \in DOMAIN Program, NEW i \in 1 .. Len(Program[t])
  PROVE  Leavings(t, i, Program[t][i])
<1> USE DEF Leavings,
       Owners, Clearing, LastClear, Renewing, OneStaged,
       Ddtp, Context, Igs, Command, Store, Transfer, Switch, Arm,
       Translate, ReadRecord, GetCqh, GetCqcsr, SetCqcsr, ClearIpsr, UnmaskCQ, PollCycles, Expect,
       TestEnd
<1>1. CASE t = "iommu_off"
  BY <1>1, ProgramIs, IommuOffSteps, SMT
<1>2. CASE t = "iommu_bare"
  BY <1>2, ProgramIs, IommuBareSteps, SMT
<1>3. CASE t = "both_stages_bare"
  BY <1>3, ProgramIs, BothStagesBareSteps, SMT
<1>4. CASE t = "second_stage_only"
  BY <1>4, ProgramIs, SecondStageOnlySteps, SMT
<1>5. CASE t = "two_stage_translation"
  BY <1>5, ProgramIs, TwoStageTranslationSteps, SMT
<1>6. CASE t = "iotinval"
  BY <1>6, ProgramIs, IotinvalSteps, SMT
<1>7. CASE t = "wsi_generation"
  BY <1>7, ProgramIs, WsiGenerationSteps, SMT
<1>8. CASE t = "iofence"
  BY <1>8, ProgramIs, IofenceSteps, SMT
<1>9. CASE t = "msi_generation"
  BY <1>9, ProgramIs, MsiGenerationSteps, SMT
<1>10. CASE t = "hpm"
  BY <1>10, ProgramIs, HpmSteps, SMT
<1>11. CASE t = "mrif_support"
  BY <1>11, ProgramIs, MrifSupportSteps, SMT
<1>12. CASE t = "dbg_interface"
  BY <1>12, DbgLeavings
<1> QED BY <1>1, <1>2, <1>3, <1>4, <1>5, <1>6, <1>7, <1>8, <1>9, <1>10, <1>11, <1>12, ProgramIs

LEMMA LastSteps ==
  ASSUME NEW t \in DOMAIN Program
  PROVE  /\ t \in OneStaged \cup Renewing \cup Clearing \cup {"dbg_interface"} => Len(Program[t]) >= 10
         /\ t \in Renewing \cup {"dbg_interface"} => Len(Program[t]) >= 15
         /\ t \in Clearing => LastClear(t) \in 1 .. Len(Program[t]) - 1
<1> USE DEF OneStaged, Renewing, Clearing, LastClear
<1>1. CASE t = "iommu_off"
  BY <1>1, ProgramIs, IommuOffSteps, SMT
<1>2. CASE t = "iommu_bare"
  BY <1>2, ProgramIs, IommuBareSteps, SMT
<1>3. CASE t = "both_stages_bare"
  BY <1>3, ProgramIs, BothStagesBareSteps, SMT
<1>4. CASE t = "second_stage_only"
  BY <1>4, ProgramIs, SecondStageOnlySteps, SMT
<1>5. CASE t = "two_stage_translation"
  BY <1>5, ProgramIs, TwoStageTranslationSteps, SMT
<1>6. CASE t = "iotinval"
  BY <1>6, ProgramIs, IotinvalSteps, SMT
<1>7. CASE t = "wsi_generation"
  BY <1>7, ProgramIs, WsiGenerationSteps, SMT
<1>8. CASE t = "iofence"
  BY <1>8, ProgramIs, IofenceSteps, SMT
<1>9. CASE t = "msi_generation"
  BY <1>9, ProgramIs, MsiGenerationSteps, SMT
<1>10. CASE t = "hpm"
  BY <1>10, ProgramIs, HpmSteps, SMT
<1>11. CASE t = "mrif_support"
  BY <1>11, ProgramIs, MrifSupportSteps, SMT
<1>12. CASE t = "dbg_interface"
  BY <1>12, ProgramIs, DbgInterfaceSteps, SMT
<1> QED BY <1>1, <1>2, <1>3, <1>4, <1>5, <1>6, <1>7, <1>8, <1>9, <1>10, <1>11, <1>12, ProgramIs

LEMMA LeavingsAre ==
  ASSUME NEW t \in DOMAIN Program
  PROVE  /\ LeavesOneStage(t) <=> t \in OneStaged
         /\ LeavesTwoStages(t) <=> t \in Renewing
         /\ LeavesInterrupt(t) <=> t = "dbg_interface"
         /\ Has(t, ClearIpsr) <=> t \in Clearing
<1> DEFINE n == Len(Program[t])
<1>1. DOMAIN Program[t] = 1 .. n /\ n \in Nat
  BY ProgramDomains, ProgramLengths
<1>2. \A i \in 1 .. n : Leavings(t, i, Program[t][i])
  BY LeavingsRight
<1>3. /\ t \in OneStaged \cup Renewing \cup Clearing \cup {"dbg_interface"} => n >= 10
      /\ t \in Renewing \cup {"dbg_interface"} => n >= 15
      /\ t \in Clearing => LastClear(t) \in 1 .. n - 1
  BY LastSteps
<1>4. \A s : Has(t, s) <=> \E i \in 1 .. n : Program[t][i] = s
  BY <1>1 DEF Has
<1> HIDE DEF n
<1>5. LeavesOneStage(t) <=> t \in OneStaged
  <2>1. ASSUME t \in OneStaged
        PROVE  Has(t, Context("s1", "bare")) /\ ~Has(t, Context("s1", "sv39"))
    <3>1. 2 \in 1 .. n
      BY <1>1, <1>3, <2>1
    <3>2. Program[t][2] = Context("s1", "bare")
      BY <1>2, <2>1, <3>1 DEF Leavings
    <3> QED BY <1>2, <1>4, <2>1, <3>1, <3>2 DEF Leavings
  <2>2. ASSUME Has(t, Context("s1", "bare")), ~Has(t, Context("s1", "sv39"))
        PROVE  t \in OneStaged
    <3>1. t \in OneStaged \cup {"mrif_support"}
      BY <1>2, <1>4, <2>2 DEF Leavings
    <3>2. ASSUME t = "mrif_support" PROVE FALSE
      <4>1. 11 \in 1 .. n /\ t \in Renewing
        BY <1>1, <1>3, <3>2 DEF Renewing
      <4>2. Program[t][11] = Context("s1", "sv39")
        BY <1>2, <3>2, <4>1 DEF Leavings
      <4> QED BY <1>4, <2>2, <4>1, <4>2
    <3> QED BY <3>1, <3>2
  <2> QED BY <2>1, <2>2 DEF LeavesOneStage
<1>6. LeavesTwoStages(t) <=> t \in Renewing
  <2>1. ASSUME t \in Renewing
        PROVE  Has(t, Command("ddt_inval")) /\ Has(t, Context("s1", "sv39"))
    <3> DEFINE k == IF t = "mrif_support" THEN 11 ELSE 2
    <3>1. 5 \in 1 .. n /\ k \in 1 .. n
      BY <1>1, <1>3, <2>1
    <3>2. Program[t][5] = Command("ddt_inval")
      BY <1>2, <2>1, <3>1 DEF Leavings
    <3>3. Program[t][k] = Context("s1", "sv39")
      BY <1>2, <2>1, <3>1 DEF Leavings
    <3> HIDE DEF k
    <3> QED BY <1>4, <3>1, <3>2, <3>3
  <2>2. ASSUME Has(t, Command("ddt_inval")), Has(t, Context("s1", "sv39"))
        PROVE  t \in Renewing
    <3>1. t \in Owners /\ t \notin OneStaged
      BY <1>2, <1>4, <2>2 DEF Leavings
    <3> QED BY <3>1 DEF Owners, OneStaged, Renewing
  <2> QED BY <2>1, <2>2 DEF LeavesTwoStages
<1>7. Has(t, ClearIpsr) <=> t \in Clearing
  <2>1. ASSUME t \in Clearing PROVE Has(t, ClearIpsr)
    <3> DEFINE k == LastClear(t)
    <3>1. k \in 1 .. n
      BY <1>1, <1>3, <2>1
    <3>2. Program[t][k] = ClearIpsr
      BY <1>2, <2>1, <3>1 DEF Leavings
    <3> HIDE DEF k
    <3> QED BY <1>4, <3>1, <3>2
  <2> QED BY <1>2, <1>4, <2>1 DEF Leavings
<1>8. LeavesInterrupt(t) <=> t = "dbg_interface"
  <2>1. ASSUME t = "dbg_interface" PROVE Has(t, ReadRecord) /\ t \notin Clearing
    <3>1. 15 \in 1 .. n
      BY <1>1, <1>3, <2>1
    <3>2. Program[t][15] = ReadRecord
      BY <1>2, <2>1, <3>1 DEF Leavings
    <3> QED BY <1>4, <2>1, <3>1, <3>2 DEF Clearing
  <2>2. Has(t, ReadRecord) => t \in Clearing \cup {"dbg_interface"}
    BY <1>2, <1>4 DEF Leavings
  <2> QED BY <1>7, <2>1, <2>2 DEF LeavesInterrupt
<1> QED BY <1>5, <1>6, <1>7, <1>8

LEMMA WiringLengths ==
  ASSUME NEW t \in Wiring
  PROVE  t \in DOMAIN Program /\ LastIgs(t) < Len(Program[t])
<1>1. CASE t = "wsi_generation"
  BY <1>1, ProgramIs, WsiGenerationSteps, SMT DEF LastIgs
<1>2. CASE t = "hpm"
  BY <1>2, ProgramIs, HpmSteps, SMT DEF LastIgs
<1> QED BY <1>1, <1>2 DEF Wiring

LEMMA IgsLeft ==
  ASSUME NEW t \in DOMAIN Program
  PROVE  /\ LeavesIgs(t, "msi") <=> t = "msi_generation"
         /\ LeavesIgs(t, "wsi") <=> t \in Wiring
         /\ BringsWires(t) <=> t # "iofence"
<1> DEFINE n == Len(Program[t])
<1>1. DOMAIN Program[t] = 1 .. n /\ n \in Nat
  BY ProgramDomains, ProgramLengths
<1>2. \A i \in 1 .. n : Selects(t, i, Program[t][i])
  BY SelectsRight
<1>3. t \in Wiring => LastIgs(t) < n
  BY WiringLengths
<1>4. t = "msi_generation" => n = 18
  BY RejectingLengths
<1>5. \A m : Igs(m).op = "igs" /\ Igs(m).mode = m
  BY DEF Igs
<1>6. Igs("msi") # Igs("wsi")
  BY <1>5
<1> HIDE DEF n
<1>7. BringsWires(t) <=> t # "iofence"
  <2>1. Command("iofence").op = "command" /\ Command("iofence").command = "iofence"
    BY DEF Command
  <2>2. t # "iofence" => \A i \in 1 .. n : Program[t][i] # Command("iofence")
    BY <1>2, <2>1 DEF Selects
  <2> QED BY <1>1, <2>2, IofenceBringsNoWires DEF BringsWires
<1>8. CASE t = "msi_generation"
  <2>1. 5 \in 1 .. n /\ t \notin Wiring
    BY <1>4, <1>8 DEF Wiring
  <2>2. Program[t][5] = Igs("msi")
    BY <1>2, <1>8, <2>1 DEF Selects
  <2>3. \A i \in 1 .. n : Program[t][i].op = "igs" => i = 5
    BY <1>2, <2>1 DEF Selects
  <2>4. LeavesIgs(t, "msi")
    BY <1>1, <2>1, <2>2, <2>3 DEF LeavesIgs
  <2>5. ~LeavesIgs(t, "wsi")
    BY <1>1, <1>5, <1>6, <2>2, <2>3 DEF LeavesIgs
  <2> QED BY <1>8, <1>7, <2>1, <2>4, <2>5
<1>9. CASE t \in Wiring
  <2> DEFINE k == LastIgs(t)
  <2>1. k \in 1 .. n /\ k \in Nat /\ t # "msi_generation"
    BY <1>1, <1>3, <1>9 DEF Wiring, LastIgs
  <2>2. Program[t][k] = Igs("wsi")
    BY <1>2, <1>9, <2>1 DEF Selects
  <2>3. \A i \in 1 .. n : Program[t][i].op = "igs" => i <= k
    BY <1>2, <2>1 DEF Selects
  <2> HIDE DEF k
  <2>4. \A i \in 1 .. n : i > k => Program[t][i].op # "igs"
    BY <1>1, <2>1, <2>3
  <2>5. LeavesIgs(t, "wsi")
    BY <1>1, <2>1, <2>2, <2>4 DEF LeavesIgs
  <2>6. ASSUME LeavesIgs(t, "msi") PROVE FALSE
    <3>1. PICK i \in 1 .. n : /\ Program[t][i] = Igs("msi")
                              /\ \A j \in 1 .. n : j > i => Program[t][j].op # "igs"
      BY <1>1, <2>6 DEF LeavesIgs
    <3>2. i <= k /\ ~(k > i)
      BY <1>5, <2>1, <2>2, <2>3, <3>1
    <3>3. i = k
      BY <1>1, <2>1, <3>2
    <3> QED BY <1>6, <2>2, <3>1, <3>3
  <2> QED BY <1>9, <1>7, <2>1, <2>5, <2>6
<1>10. CASE t # "msi_generation" /\ t \notin Wiring
  <2>1. \A i \in 1 .. n : Program[t][i].op # "igs"
    BY <1>2, <1>10 DEF Selects
  <2>2. ~LeavesIgs(t, "msi") /\ ~LeavesIgs(t, "wsi")
    BY <1>1, <1>5, <2>1 DEF LeavesIgs
  <2> QED BY <1>10, <1>7, <2>2
<1> QED BY <1>8, <1>9, <1>10

\* The independent tests are the self-contained ones.
LEMMA IndependentTests ==
  ASSUME NEW t \in DOMAIN Program
  PROVE  SelfContained(t) <=> t \in Independent
<1> DEFINE n == Len(Program[t])
<1>1. SelfContained(t) => t \in Independent
  BY SelfContainedTests
<1>a. t \in Independent => BringsWires(t)
  BY IgsLeft DEF Independent
<1> SUFFICES ASSUME t \in Independent, NEW i \in DOMAIN Program[t], UsesContext(Program[t][i])
             PROVE  \E j \in 1 .. i : Program[t][j] \in {Command("ddt_inval"), Ddtp("off"), Ddtp("bare")}
  BY <1>1, <1>a DEF SelfContained, BringsContext
<1>2. i \in 1 .. n /\ n \in Nat
  BY ProgramDomains, ProgramLengths
<1>3. SetsUp(t, i, Program[t][i]) /\ UsesVirtual(t, i, Program[t][i])
  BY <1>2, SetsUpRight, UsesVirtualRight
<1>4. Program[t][i].op \in {"transfer", "translate"}
  BY DEF UsesContext
<1>5. t # "iofence" /\ i > 1 /\ t \notin Plain
  BY <1>3, <1>4 DEF SetsUp, UsesVirtual
<1> HIDE DEF n
<1>6. CASE t = "iommu_off"
  <2>1. Program[t][1] = Ddtp("off")
    BY <1>6, ProgramIs, IommuOffSteps
  <2> QED BY <1>2, <1>5, <2>1
<1>7. CASE t \in Owners
  <2>1. i >= 5 /\ 5 \in 1 .. i /\ 5 \in 1 .. n
    BY <1>2, <1>3, <1>4, <1>7 DEF SetsUp, Owners
  <2>2. UsesVirtual(t, 5, Program[t][5])
    BY <2>1, UsesVirtualRight DEF n
  <2>3. Program[t][5] = Command("ddt_inval")
    BY <1>7, <2>2 DEF UsesVirtual
  <2> QED BY <2>1, <2>3
<1> QED BY <1>5, <1>6, <1>7 DEF Independent, Plain, Owners

\* Test by test, what makes a suite compatible.
LEMMA CompatibleIs ==
  ASSUME NEW s \in Seq(DOMAIN Program)
  PROVE  Compatible(s) <=>
           \A i, n \in DOMAIN s : i < n /\ s[n] \notin Independent =>
             /\ s[i] \in OneStaged => \E j \in i + 1 .. n - 1 : s[j] \in Renewing
             /\ s[i] = "dbg_interface" => \E j \in i + 1 .. n - 1 : s[j] \in Clearing
             /\ s[n] = "iofence" /\ s[i] = "msi_generation" => \E j \in i + 1 .. n - 1 : s[j] \in Wiring
<1>1. \A i \in DOMAIN s : s[i] \in DOMAIN Program
  OBVIOUS
<1>2. \A i, n \in DOMAIN s : \A j \in i + 1 .. n - 1 : j \in DOMAIN s
  OBVIOUS
<1>3. \A i \in DOMAIN s :
        /\ SelfContained(s[i]) <=> s[i] \in Independent
        /\ LeavesOneStage(s[i]) <=> s[i] \in OneStaged
        /\ LeavesTwoStages(s[i]) <=> s[i] \in Renewing
        /\ LeavesInterrupt(s[i]) <=> s[i] = "dbg_interface"
        /\ Has(s[i], ClearIpsr) <=> s[i] \in Clearing
        /\ BringsWires(s[i]) <=> s[i] # "iofence"
        /\ LeavesIgs(s[i], "msi") <=> s[i] = "msi_generation"
        /\ LeavesIgs(s[i], "wsi") <=> s[i] \in Wiring
  BY <1>1, IndependentTests, LeavingsAre, IgsLeft
<1>4. ASSUME NEW i \in DOMAIN s, NEW n \in DOMAIN s
      PROVE  /\ (\E j \in i + 1 .. n - 1 : LeavesTwoStages(s[j])) <=> \E j \in i + 1 .. n - 1 : s[j] \in Renewing
             /\ (\E j \in i + 1 .. n - 1 : Has(s[j], ClearIpsr)) <=> \E j \in i + 1 .. n - 1 : s[j] \in Clearing
             /\ (\E j \in i + 1 .. n - 1 : LeavesIgs(s[j], "wsi")) <=> \E j \in i + 1 .. n - 1 : s[j] \in Wiring
  BY <1>2, <1>3
<1>5. "iofence" \notin Independent
  BY DEF Independent
<1> QED BY <1>3, <1>4, <1>5 DEF Compatible

(* The tests are compatible in the order of the README, whether or not the *)
(* two that it does not list come after the others, and each one alone.    *)
(* In the order of test_register.c they are not: iofence comes right after *)
(* msi_generation, and asks for a wired interrupt that fctl does not give. *)
THEOREM ShippedSuitesCompatible ==
  /\ \A k \in 10 .. 12 : Compatible([i \in 1 .. k |-> Registered[13 - i]])
  /\ \A t \in DOMAIN Program : Compatible(<<t>>)
  /\ ~Compatible(Registered)
<1>1. Registered \in Seq(DOMAIN Program) /\ DOMAIN Registered = 1 .. 12
  BY ProgramIs, SMT DEF Registered
<1>2. /\ Registered[1] = "dbg_interface" /\ Registered[2] = "mrif_support" /\ Registered[3] = "hpm"
      /\ Registered[4] = "msi_generation" /\ Registered[5] = "iofence" /\ Registered[6] = "wsi_generation"
      /\ Registered[7] = "iotinval" /\ Registered[8] = "two_stage_translation"
      /\ Registered[9] = "second_stage_only" /\ Registered[10] = "both_stages_bare"
      /\ Registered[11] = "iommu_bare" /\ Registered[12] = "iommu_off"
  BY SMT DEF Registered
<1> DEFINE r == Registered
<1>3. \A i \in 1 .. 12 : r[i] \in DOMAIN Program
  BY <1>2, ProgramIs, SMT DEF r
<1>4. /\ \A i \in 1 .. 12 : /\ r[i] \in OneStaged <=> i \in {9, 10}
                            /\ r[i] = "dbg_interface" <=> i = 1
                            /\ r[i] = "iofence" <=> i = 5
                            /\ r[i] = "msi_generation" <=> i = 4
                            /\ r[i] \notin Independent => i \in {1, 3, 4, 5, 6, 7}
      /\ r[8] \in Renewing /\ r[5] \notin Independent
  BY <1>2, SMT DEF r, OneStaged, Independent, Renewing
<1> HIDE DEF r
<1>5. ASSUME NEW k \in 10 .. 12 PROVE Compatible([i \in 1 .. k |-> r[13 - i]])
  <2> DEFINE b == [i \in 1 .. k |-> r[13 - i]]
  <2>1. b \in Seq(DOMAIN Program) /\ DOMAIN b = 1 .. k /\ \A i \in 1 .. k : b[i] = r[13 - i]
    <3>1. \A i \in 1 .. k : b[i] \in DOMAIN Program /\ b[i] = r[13 - i]
      BY <1>3
    <3> QED BY <3>1
  <2> HIDE DEF b
  <2>2. SUFFICES ASSUME NEW i \in 1 .. k, NEW n \in 1 .. k, i < n, b[n] \notin Independent
                 PROVE  /\ b[i] \in OneStaged => \E j \in i + 1 .. n - 1 : b[j] \in Renewing
                        /\ b[i] = "dbg_interface" => \E j \in i + 1 .. n - 1 : b[j] \in Clearing
                        /\ b[n] = "iofence" /\ b[i] = "msi_generation" =>
                             \E j \in i + 1 .. n - 1 : b[j] \in Wiring
    <3>1. Compatible(b)
      BY <2>1, <2>2, CompatibleIs
    <3> QED BY <3>1 DEF b
  <2>3. 13 - i \in 1 .. 12 /\ 13 - n \in 1 .. 12 /\ b[i] = r[13 - i] /\ b[n] = r[13 - n] /\ b[5] = r[8]
    BY <2>1
  <2>4. b[i] # "dbg_interface" /\ (b[i] \in OneStaged => 5 \in i + 1 .. n - 1)
    BY <1>4, <2>2, <2>3
  <2>5. ~(b[n] = "iofence" /\ b[i] = "msi_generation")
    <3> SUFFICES ASSUME b[n] = "iofence", b[i] = "msi_generation" PROVE FALSE
      OBVIOUS
    <3>1. 13 - n = 5 /\ 13 - i = 4
      BY <1>4, <2>3
    <3> QED BY <2>2, <3>1
  <2> QED BY <1>4, <2>3, <2>4, <2>5
<1>6. ASSUME NEW t \in DOMAIN Program PROVE Compatible(<<t>>)
  <2> DEFINE s == <<t>>
  <2>1. s \in Seq(DOMAIN Program) /\ \A i, n \in DOMAIN s : ~(i < n)
    OBVIOUS
  <2> HIDE DEF s
  <2>2. Compatible(s)
    BY <2>1, CompatibleIs
  <2> QED BY <2>2 DEF s
<1>7. ~Compatible(r)
  <2> SUFFICES ASSUME Compatible(r) PROVE FALSE
    OBVIOUS
  <2>1. 4 \in DOMAIN r /\ 5 \in DOMAIN r /\ 4 < 5 /\ r[4] = "msi_generation" /\ r[5] = "iofence"
    BY <1>1, <1>2 DEF r
  <2>2. \E j \in 4 + 1 .. 5 - 1 : r[j] \in Wiring
    BY <1>1, <1>4, <2>1, CompatibleIs DEF r
  <2> QED BY <2>2
<1> QED BY <1>5, <1>6, <1>7 DEF r

-----------------------------------------------------------------------------
(* cqh does not wrap *)

LEMMA SameSuite ==
  ASSUME TypeInv, [Next]_vars
  PROVE  suite' = suite /\ lag' = lag
<1>1. CASE IOMMU \/ UNCHANGED vars
  BY <1>1, IommuQuiet
<1>2. CASE CallTest \/ Summary \/ FallOff
  BY <1>2 DEF CallTest, Summary, FallOff
<1>3. ASSUME NEW op \in Ops, Effects(op) PROVE suite' = suite /\ lag' = lag
  BY <1>3, EventSteps
<1> QED BY <1>1, <1>2, <1>3, HartOps DEF Next

LEMMA Eight == IsFiniteSet(Commands) /\ Cardinality(Commands) \in 0 .. 8
<1> DEFINE Few(S, n) == IsFiniteSet(S) /\ Cardinality(S) \in 0 .. n
           c1 == {} \cup {<<"second_stage_only", 5>>}
           c2 == c1 \cup {<<"two_stage_translation", 5>>}
           c3 == c2 \cup {<<"iotinval", 15>>}
           c4 == c3 \cup {<<"iotinval", 22>>}
           c5 == c4 \cup {<<"iofence", 3>>}
           c6 == c5 \cup {<<"msi_generation", 7>>}
           c7 == c6 \cup {<<"mrif_support", 5>>}
           c8 == c7 \cup {<<"mrif_support", 12>>}
<1>1. ASSUME NEW S, NEW x
      PROVE  /\ Few(S, 0) => Few(S \cup {x}, 1)
             /\ Few(S, 1) => Few(S \cup {x}, 2)
             /\ Few(S, 2) => Few(S \cup {x}, 3)
             /\ Few(S, 3) => Few(S \cup {x}, 4)
             /\ Few(S, 4) => Few(S \cup {x}, 5)
             /\ Few(S, 5) => Few(S \cup {x}, 6)
             /\ Few(S, 6) => Few(S \cup {x}, 7)
             /\ Few(S, 7) => Few(S \cup {x}, 8)
  BY FS_AddElement
<1>2. Commands = c8
  BY DEF Commands
<1>3. Few({}, 0)
  BY FS_EmptySet
<1> HIDE DEF Few
<1>4. Few(c1, 1)
  BY <1>1, <1>3, Zenon
<1> HIDE DEF c1
<1>5. Few(c2, 2)
  BY <1>1, <1>4, Zenon
<1> HIDE DEF c2
<1>6. Few(c3, 3)
  BY <1>1, <1>5, Zenon
<1> HIDE DEF c3
<1>7. Few(c4, 4)
  BY <1>1, <1>6, Zenon
<1> HIDE DEF c4
<1>8. Few(c5, 5)
  BY <1>1, <1>7, Zenon
<1> HIDE DEF c5
<1>9. Few(c6, 6)
  BY <1>1, <1>8, Zenon
<1> HIDE DEF c6
<1>10. Few(c7, 7)
  BY <1>1, <1>9, Zenon
<1> HIDE DEF c7
<1>11. Few(c8, 8)
  BY <1>1, <1>10, Zenon
<1> QED BY <1>2, <1>11 DEF Few

LEMMA RoomLeft ==
  ASSUME NEW S \in SUBSET Commands, NEW T \in SUBSET S, NEW m \in Nat, NEW n \in Nat, Room(m, S)
  PROVE  /\ n <= m => Room(n, T)
         /\ n = m + 1 /\ S # T => Room(n, T)
         /\ m < CqEntries
<1>1. IsFiniteSet(Commands)
  BY Eight
<1>2. IsFiniteSet(S) /\ IsFiniteSet(T) /\ Cardinality(T) <= Cardinality(S)
      /\ (S # T => Cardinality(T) # Cardinality(S))
  BY <1>1, FS_Subset
<1>3. Cardinality(S) \in Nat /\ Cardinality(T) \in Nat
  BY <1>2, FS_CardinalityType
<1> QED BY <1>2, <1>3, SuiteAssumption DEF Room

\* A command that was queued is not to come any more.
LEMMA UnsentStep ==
  ASSUME TypeInv, [Next]_vars
  PROVE  /\ Unsent \in SUBSET Commands /\ Unsent' \in SUBSET Unsent
         /\ Effects("command") => Unsent' # Unsent
<1>1. \A c \in Commands : c = <<c[1], c[2]>> /\ c[2] \in Nat
  BY DEF Commands
<1>2. ASSUME NEW c \in Commands, Before(c[1], c[2])'
      PROVE  Before(c[1], c[2])
  BY <1>1, <1>2, BeforeStep
<1>3. ASSUME Effects("command")
      PROVE  \E c \in Unsent : c \notin Unsent'
  <2>1. "command" \in Ops
    BY DEF Ops
  <2>2. Settles(test, pc, Step) /\ Step.op = "command" /\ status = "running" /\ pc \in Nat
    BY <1>3, <2>1, EventSteps
  <2>3. \/ test = "second_stage_only" /\ pc = 5
        \/ test = "two_stage_translation" /\ pc = 5
        \/ test = "iotinval" /\ (pc = 15 \/ pc = 22)
        \/ test = "iofence" /\ pc = 3
        \/ test = "msi_generation" /\ pc = 7
        \/ test = "mrif_support" /\ (pc = 5 \/ pc = 12)
    BY <2>2 DEF Settles, Owners
  <2>4. PICK c \in Commands : c[1] = test /\ c[2] = pc
    BY <2>3 DEF Commands
  <2>5. c[2] \in Nat
    BY <1>1
  <2>6. Before(c[1], c[2])
    BY <2>2, <2>4 DEF Before
  <2>7. Before(c[1], c[2])' => pc + 1 <= c[2]
    BY <1>3, <2>1, <2>4, <2>5, BeforeStep
  <2>8. ~Before(c[1], c[2])'
    BY <2>2, <2>4, <2>7
  <2> QED BY <2>6, <2>8 DEF Unsent
<1> QED BY <1>2, <1>3 DEF Unsent

\* The IOMMU moves cqh by the one command that waits.
LEMMA StraightIommu ==
  ASSUME TypeInv, Waiting, KeepsUp, Straight, IOMMU \/ UNCHANGED vars, ~lag
  PROVE  Straight'
<1>1. UNCHANGED <<status, test, pc>>
  BY IommuQuiet
<1>2. Unsent \in SUBSET Commands /\ Unsent' \in SUBSET Unsent
  BY UnsentStep DEF Next
<1>3. Room(cqh + Len(cq), Unsent)
  BY DEF Straight
<1>4. cqh \in 0 .. CqEntries - 1 /\ CqEntries \in Nat \ {0}
  BY SuiteAssumption DEF TypeInv, Hardware
<1>6. CASE Execute \/ Reject
  <2>1. cq # << >> /\ cq' = Tail(cq) /\ cqh' = (cqh + 1) % CqEntries
    BY <1>6 DEF Execute, Reject, Fetching, Consume
  <2>2. status = "running" /\ overtook = {}
    BY <2>1 DEF KeepsUp, Behind
  <2>3. cq = Queued(test, pc)
    BY <2>1, <2>2 DEF Waiting
  <2>4. cq = <<Head(cq)>> /\ cq' = << >>
    BY <2>1, <2>3, QueuedOne
  <2>5. Len(cq) = 1 /\ Len(cq') = 0
    BY <2>4
  <2>6. cqh + 1 \in Nat /\ Room(cqh + 1, Unsent)
    BY <1>3, <1>4, <2>5
  <2>9. cqh # CqEntries - 1
    BY <1>2, <1>4, <2>6, RoomLeft
  <2>7. cqh' = cqh + 1
    BY <1>4, <2>1, <2>9, NextHead
  <2>8. Room((cqh + Len(cq))', Unsent')
    <3>1. (cqh + Len(cq))' = cqh + 1
      BY <1>4, <2>5, <2>7
    <3>2. Room(cqh + 1, Unsent')
      BY <1>2, <2>6, RoomLeft
    <3> QED BY <3>1, <3>2
  <2> QED BY <2>8 DEF Straight
<1>7. CASE Signal \/ CyclesOverflow \/ UNCHANGED vars
  <2>1. UNCHANGED <<cq, cqh>>
    BY <1>7 DEF Signal, CyclesOverflow, queue, vars
  <2>3. cqh + Len(cq) \in Nat
    <3>1. cq = << >> \/ cq = <<Head(cq)>>
      <4> SUFFICES ASSUME cq # << >> PROVE cq = <<Head(cq)>>
        OBVIOUS
      <4>1. status = "running" /\ overtook = {}
        BY DEF KeepsUp, Behind
      <4>2. cq = Queued(test, pc)
        BY <4>1 DEF Waiting
      <4> QED BY <4>2, QueuedOne
    <3>2. Len(cq) \in Nat
      BY <3>1
    <3> QED BY <1>4, <3>2
  <2>2. Room((cqh + Len(cq))', Unsent')
    <3>1. Room(cqh + Len(cq), Unsent')
      BY <1>2, <1>3, <2>3, RoomLeft
    <3> QED BY <2>1, <3>1
  <2> QED BY <2>2 DEF Straight
<1> QED BY <1>6, <1>7 DEF IOMMU

LEMMA StraightHart ==
  ASSUME TypeInv, KeepsUp, Straight, NEW op \in Ops, Effects(op), Hart, ~lag
  PROVE  Straight'
<1>1. /\ status = "running" /\ test' = test /\ pc' = pc + 1 /\ pc \in Nat /\ Step.op = op
      /\ test \in DOMAIN Program /\ pc \in 1 .. Len(Program[test]) /\ Step = Program[test][pc]
      /\ Paced(test, pc, Step)
  BY EventSteps
<1>2. Unsent \in SUBSET Commands /\ Unsent' \in SUBSET Unsent
      /\ (op = "command" => Unsent # Unsent')
  BY UnsentStep DEF Next
<1>3. Room(cqh + Len(cq), Unsent)
  BY DEF Straight
<1>4. cqh \in 0 .. CqEntries - 1 /\ CqEntries \in Nat \ {0}
  BY SuiteAssumption DEF TypeInv, Hardware
<1>5. /\ Doing(op) /\ cqh' = cqh
      /\ cq' = IF op = "command" THEN Append(cq, Step.command) ELSE cq
  BY DEF Effects
<1>6. cq = << >>
  BY <1>5, KeptUp DEF Behind
<1>7. /\ op = "command" => Len(cq') = 1 /\ cq' # << >>
      /\ op # "command" => Len(cq') = 0 /\ cq' = << >>
  <2>1. \A x : Append(<< >>, x) = <<x>>
    OBVIOUS
  <2> QED BY <1>5, <1>6, <2>1
<1>8. Room((cqh + Len(cq))', Unsent')
  <2>1. cqh + Len(cq) = cqh /\ cqh \in Nat
    BY <1>4, <1>6
  <2>2. (cqh + Len(cq))' = IF op = "command" THEN cqh + 1 ELSE cqh
    BY <1>4, <1>5, <1>7
  <2>3. Room(cqh, Unsent)
    BY <1>3, <2>1
  <2>4. CASE op = "command"
    <3>1. cqh + 1 \in Nat
      BY <2>1
    <3>2. Room(cqh + 1, Unsent')
      BY <1>2, <2>1, <2>3, <2>4, <3>1, RoomLeft
    <3> QED BY <2>2, <2>4, <3>2
  <2>5. CASE op # "command"
    <3>1. Room(cqh, Unsent')
      BY <1>2, <2>1, <2>3, RoomLeft
    <3> QED BY <2>2, <2>5, <3>1
  <2> QED BY <2>4, <2>5
<1> QED BY <1>8 DEF Straight

LEMMA StraightStep ==
  ASSUME TypeInv, Waiting, KeepsUp, Straight, [Next]_vars
  PROVE  Straight'
<1>1. lag' = lag
  BY SameSuite
<1>2. CASE lag
  BY <1>1, <1>2 DEF Straight
<1>3. CASE ~lag /\ (IOMMU \/ UNCHANGED vars)
  BY <1>3, StraightIommu
<1>4. CASE ~lag /\ (CallTest \/ Summary \/ FallOff)
  <2>1. UNCHANGED <<cq, cqh>>
    BY <1>4 DEF CallTest, Summary, FallOff, queue
  <2>3. Unsent \in SUBSET Commands /\ Unsent' \in SUBSET Unsent
    BY UnsentStep
  <2>4. cq = << >>
    <3> DEFINE last == Len(Program[test])
    <3>1. status # "running" \/ (pc > last /\ test \in DOMAIN Program)
      BY <1>4 DEF CallTest, Summary, FallOff, TypeInv, Loop, Table, test
    <3>2. Behind => status = "running" /\ pc <= last
      BY <1>4 DEF KeepsUp
    <3>3. test \in DOMAIN Program => last \in Nat
      BY ProgramLengths
    <3>4. pc \in Nat
      BY DEF TypeInv, Loop
    <3> HIDE DEF last
    <3>5. ~Behind
      BY <3>1, <3>2, <3>3, <3>4
    <3> QED BY <3>5 DEF Behind
  <2>5. cqh + Len(cq) \in Nat
    BY <2>4 DEF TypeInv, Hardware
  <2>6. Room((cqh + Len(cq))', Unsent')
    <3>1. Room(cqh + Len(cq), Unsent')
      BY <1>4, <2>3, <2>5, RoomLeft DEF Straight
    <3> QED BY <2>1, <3>1
  <2> QED BY <2>6 DEF Straight
<1>5. CASE ~lag /\ \E op \in Ops : Effects(op) /\ Hart
  BY <1>5, StraightHart
<1> QED BY <1>2, <1>3, <1>4, <1>5, HartOps DEF Next

-----------------------------------------------------------------------------
(* Compatible tests meet nothing that matters to them *)

\* The states of a compatible suite whose command queue keeps up.
Orderly ==
  /\ RecordInv /\ PassInv /\ KeepsUp /\ TidyEvents /\ Straight /\ ~lag /\ Compatible(suite)
  /\ excused \subseteq Independent /\ TidyContext /\ TidyCounters /\ TidyFaults /\ TidyWires

LEMMA OrderlyRun ==
  ASSUME Orderly, status = "running"
  PROVE  /\ test \in DOMAIN Program /\ pc \in Nat \ {0} /\ index \in DOMAIN suite /\ test = suite[index]
         /\ OnTrack /\ Facts(test, pc)
<1>1. TypeInv /\ PassInv /\ overtook = {} /\ excused \subseteq Independent
  BY DEF Orderly, RecordInv, KeepsUp
<1>2. OnTrack
  BY <1>1 DEF OnTrack, Clean
<1>3. /\ pc \in Nat \ {0} /\ index \in DOMAIN suite /\ suite \in Seq(DOMAIN Program)
  BY <1>1 DEF TypeInv, Loop, Table
<1> QED BY <1>1, <1>2, <1>3 DEF PassInv, test

\* What is left never reaches a test that depends on it.
LEMMA NoContextLeft ==
  ASSUME Orderly, status = "running", test \notin Independent
  PROVE  ~ContextLeft(index)
<1> SUFFICES ASSUME NEW i \in 1 .. index, suite[i] \in OneStaged,
                    \A j \in i + 1 .. index : suite[j] \notin Renewing
             PROVE  FALSE
  BY DEF ContextLeft
<1>1. index \in DOMAIN suite /\ test = suite[index] /\ suite \in Seq(DOMAIN Program)
  BY OrderlyRun DEF Orderly, RecordInv, TypeInv, Loop, Table
<1>2. i # index
  BY <1>1 DEF OneStaged, Independent
<1>3. i \in DOMAIN suite /\ i < index
  BY <1>1, <1>2
<1>4. PICK j \in i + 1 .. index - 1 : suite[j] \in Renewing
  BY <1>1, <1>3, CompatibleIs DEF Orderly
<1>5. j \in i + 1 .. index
  BY <1>1, <1>4
<1> QED BY <1>4, <1>5

LEMMA NoInterruptLeft ==
  ASSUME Orderly, index + 1 \in DOMAIN suite, suite[index + 1] \notin Independent
  PROVE  ~InterruptLeft(index)
<1> SUFFICES ASSUME NEW i \in 1 .. index, suite[i] = "dbg_interface",
                    \A j \in i + 1 .. index : suite[j] \notin Clearing
             PROVE  FALSE
  BY DEF InterruptLeft
<1>1. suite \in Seq(DOMAIN Program) /\ index \in Nat /\ i \in DOMAIN suite /\ i < index + 1
  BY DEF Orderly, RecordInv, TypeInv, Loop, Table
<1>2. PICK j \in i + 1 .. index + 1 - 1 : suite[j] \in Clearing
  BY <1>1, CompatibleIs DEF Orderly
<1>3. j \in i + 1 .. index
  BY <1>1, <1>2
<1> QED BY <1>2, <1>3

LEMMA NoMsiLeft ==
  ASSUME Orderly, status = "running", test = "iofence"
  PROVE  ~MsiLeft(index)
<1> SUFFICES ASSUME NEW i \in 1 .. index, suite[i] = "msi_generation",
                    \A j \in i + 1 .. index : suite[j] \notin Wiring
             PROVE  FALSE
  BY DEF MsiLeft
<1>1. index \in DOMAIN suite /\ test = suite[index] /\ suite \in Seq(DOMAIN Program)
  BY OrderlyRun DEF Orderly, RecordInv, TypeInv, Loop, Table
<1>2. i # index /\ suite[index] \notin Independent
  BY <1>1 DEF Independent
<1>3. i \in DOMAIN suite /\ i < index
  BY <1>1, <1>2
<1>4. PICK j \in i + 1 .. index - 1 : suite[j] \in Wiring
  BY <1>1, <1>2, <1>3, CompatibleIs DEF Orderly
<1>5. j \in i + 1 .. index
  BY <1>1, <1>4
<1> QED BY <1>4, <1>5

\* cqh is not about to wrap where iofence reads it.
LEMMA NoWrap ==
  ASSUME Orderly, Effects("cqh"), test = "iofence", pc = 2
  PROVE  cqh # CqEntries - 1
<1>1. TypeInv /\ KeepsUp /\ ~lag /\ status = "running"
  BY DEF Orderly, RecordInv, Effects, Doing
<1>2. cqh \in 0 .. CqEntries - 1 /\ CqEntries \in Nat \ {0}
  BY <1>1, SuiteAssumption DEF TypeInv, Hardware
<1>3. cq = << >>
  BY <1>1, KeptUp DEF Behind, Effects
<1>4. Room(cqh, Unsent)
  BY <1>1, <1>2, <1>3 DEF Orderly, Straight
<1> DEFINE c == <<"iofence", 3>>
<1>5. c \in Commands /\ c[1] = "iofence" /\ c[2] = 3
  BY DEF Commands
<1> HIDE DEF c
<1>6. Before("iofence", 3)
  BY <1>1 DEF Before
<1>7. c \in Unsent
  BY <1>5, <1>6 DEF Unsent
<1>8. Unsent \in SUBSET Commands /\ {} \in SUBSET Unsent /\ {} \in SUBSET {} /\ {} \in SUBSET Commands
      /\ Unsent # {}
  BY <1>7 DEF Unsent
<1>9. cqh \in Nat /\ cqh + 1 \in Nat
  BY <1>2
<1>10. Room(cqh + 1, {})
  BY <1>4, <1>8, <1>9, RoomLeft
<1>11. cqh + 1 < CqEntries
  BY <1>8, <1>9, <1>10, RoomLeft
<1> QED BY <1>2, <1>11

\* The context that a test has set up once it uses it.
LEMMA TwoStagesSet ==
  ASSUME TypeInv, Prepared, status = "running", pc >= 5,
         test \in TwoStageTests \/ (test = "mrif_support" /\ pc >= 12)
  PROVE  dc = TwoStageContext
<1>1. pc \in Nat /\ dc \in ContextValues
  BY DEF TypeInv, Loop, Hardware
<1>2. /\ test \notin {"iommu_off", "iommu_bare", "iofence", "both_stages_bare"}
      /\ Wanted1(test, pc) = "sv39" /\ Wanted2(test) = "sv39x4"
  BY DEF TwoStageTests, Wanted1, Wanted2
<1>3. dc.s1 = "sv39" /\ dc.s2 = "sv39x4" /\ dc.msi = "flat"
  BY <1>1, <1>2 DEF Prepared
<1> QED BY <1>1, <1>3 DEF ContextValues, TwoStageContext

\* A transfer or a translation of a test that depends on the others.
LEMMA NotStale ==
  ASSUME Orderly, NEW op \in {"transfer", "translate"}, Effects(op), test \notin Independent
  PROVE  ~Stale
<1>1. TypeInv /\ Frame /\ TidyContext /\ Prepared
  BY DEF Orderly, RecordInv, PassInv, Frame
<1>2. /\ test \in DOMAIN Program /\ status = "running" /\ SetsUp(test, pc, Step) /\ Step.op = op
  BY <1>1, Stands DEF Ops
<1>3. test \in TwoStageTests /\ test \notin Renewing /\ test \notin {"iommu_off", "iommu_bare", "iofence"}
  BY <1>2, ProgramIs DEF Independent, TwoStageTests, Renewing, SetsUp
<1>4. pc >= 5
  BY <1>2, <1>3 DEF SetsUp
<1>5. dc = TwoStageContext
  BY <1>1, <1>2, <1>3, <1>4, TwoStagesSet
<1>6. ddtc \in {NoContext, TwoStageContext}
  BY <1>1, <1>2, <1>3, NoContextLeft DEF TidyContext
<1> QED BY <1>5, <1>6 DEF Stale, InUse

\* Only tests that set up what they rely on meet anything.
LEMMA UnexcusedStep ==
  ASSUME Orderly, [Next]_vars
  PROVE  excused' \subseteq Independent
<1>1. TypeInv /\ KeepsUp /\ excused \subseteq Independent /\ overtook = {} /\ Own /\ TidyEvents
      /\ TidyCounters /\ TidyFaults /\ TidyWires /\ ~lag /\ ipsr \subseteq Causes
  BY DEF Orderly, KeepsUp, RecordInv, TypeInv, Hardware
<1>2. CASE IOMMU \/ UNCHANGED vars
  BY <1>1, <1>2, IommuQuiet
<1>3. CASE CallTest
  <2> DEFINE t == suite[index + 1]
  <2>1. /\ status = "main" /\ index < Len(suite)
        /\ excused' = IF ipsr # {} \/ fq # << >> THEN excused \cup {t} ELSE excused
    BY <1>3 DEF CallTest
  <2> SUFFICES ASSUME t \notin Independent PROVE ipsr = {} /\ fq = << >>
    BY <1>1, <2>1
  <2>2. fq = << >>
    BY <1>1, <2>1 DEF Own, Taken
  <2>3. \A u, s : ~Running(u, s)
    BY <2>1 DEF Running
  <2>4. index + 1 \in DOMAIN suite
    BY <1>1, <2>1 DEF TypeInv, Loop, Table
  <2>5. ~InterruptLeft(index)
    BY <2>4, NoInterruptLeft
  <2>6. "cip" \notin ipsr /\ "pmip" \notin ipsr /\ "fip" \notin ipsr
    BY <1>1, <2>3, <2>5 DEF TidyEvents, TidyCounters, TidyFaults
  <2> QED BY <1>1, <2>2, <2>6 DEF Causes
<1>4. CASE Summary \/ FallOff
  BY <1>1, <1>4 DEF Summary, FallOff, results
<1>5. ASSUME NEW op \in Ops, Effects(op), Changes(op)
      PROVE  excused' \subseteq Independent
  <2>1. Settles(test, pc, Step) /\ Selects(test, pc, Step) /\ Step.op = op /\ status = "running"
    BY <1>1, <1>5, EventSteps
  <2>2. CASE op \in {"transfer", "translate"}
    <3>1. excused' = IF Stale THEN excused \cup {test} ELSE excused
      BY <1>5, <2>2, Zenon DEF Changes, DmaTransfer, DebugTranslate
    <3> QED BY <1>1, <1>5, <2>2, <3>1, NotStale
  <2>3. CASE op = "cqh"
    <3>1. test = "iofence" /\ pc = 2
      BY <2>1, <2>3 DEF Settles
    <3>2. cqh # CqEntries - 1
      BY <1>5, <2>3, <3>1, NoWrap
    <3> QED BY <1>1, <1>5, <2>3, <3>2 DEF Effects
  <2>4. CASE op = "command"
    <3>1. ASSUME Reserved(Step.command) PROVE FALSE
      <4>1. Step.command = "iofence" /\ igs = "msi"
        BY <3>1 DEF Reserved
      <4>2. test = "iofence" /\ status = "running"
        BY <2>1, <2>4, <4>1 DEF Selects
      <4>3. ~MsiLeft(index) /\ test \notin Wiring
        BY <4>2, NoMsiLeft DEF Wiring
      <4> QED BY <1>1, <4>1, <4>3 DEF TidyWires
    <3> QED BY <1>1, <1>5, <2>4, <3>1 DEF Effects
  <2>5. CASE op \notin {"transfer", "translate", "cqh", "command"}
    BY <1>1, <1>5, <2>5 DEF Changes, Calm
  <2> QED BY <2>2, <2>3, <2>4, <2>5
<1> QED BY <1>2, <1>3, <1>4, <1>5, HartSteps DEF Next

\* So none of them stops in ERROR, and each finds what it relies on.
LEMMA OrderlyStep ==
  ASSUME Orderly, NEW op \in Ops, Effects(op), Changes(op), [Next]_vars
  PROVE  /\ op # "end" => status' = "running"
         /\ op \in {"transfer", "translate"} => Ready(op)
         /\ test \in DOMAIN Program /\ pc \in 1 .. Len(Program[test]) /\ pc \in Nat \ {0}
         /\ Step = Program[test][pc] /\ Step.op = op /\ status = "running"
         /\ test' = test /\ pc' = pc + 1 /\ UNCHANGED <<suite, index>> /\ cq = << >>
         /\ SetsUp(test, pc, Step) /\ Queues(test, pc, Step) /\ Touches(test, pc, Step)
         /\ Paced(test, pc, Step) /\ Settles(test, pc, Step) /\ Selects(test, pc, Step)
         /\ Facts(test, pc)
<1>1. TypeInv /\ PassInv /\ RecordInv /\ KeepsUp /\ ~lag /\ Frame
  BY DEF Orderly, RecordInv, PassInv
<1>2. PassInv' /\ KeepsUp' /\ ~lag' /\ excused' \subseteq Independent
  BY <1>1, PassStep, SameSuite, UnexcusedStep
<1>3. overtook' = {}
  BY <1>2 DEF KeepsUp
<1>4. status' # "error"
  BY <1>2, <1>3 DEF PassInv, Explained
<1>5. /\ test \in DOMAIN Program /\ pc \in 1 .. Len(Program[test]) /\ pc \in Nat \ {0}
      /\ Step = Program[test][pc] /\ Step.op = op /\ status = "running"
      /\ test' = test /\ pc' = pc + 1 /\ UNCHANGED <<suite, index>>
      /\ Queues(test, pc, Step) /\ Paced(test, pc, Step) /\ Settles(test, pc, Step)
      /\ Selects(test, pc, Step)
      /\ op \notin {"end", "record"} => status' = "running"
  BY <1>1, EventSteps
<1>6. SetsUp(test, pc, Step) /\ Touches(test, pc, Step)
  BY <1>1, Stands
<1>7. op = "record" => status' \in {"running", "error"}
  BY <1>5 DEF Effects
<1>8. op # "end" => status' = "running"
  BY <1>4, <1>5, <1>7
<1>9. Facts(test, pc)
  BY <1>5, OrderlyRun
<1>10. Doing(op)
  BY DEF Effects
<1>11. cq = << >>
  BY <1>1, <1>10, KeptUp DEF Behind
<1>12. ASSUME op \in {"transfer", "translate"} PROVE Ready(op)
  <2>1. OnTrack'
    BY <1>2, <1>3, <1>8, <1>12 DEF OnTrack, Clean
  <2>2. excused' = IF Stale THEN excused \cup {test} ELSE excused
    BY <1>12, Zenon DEF Changes, DmaTransfer, DebugTranslate
  <2> QED BY <1>1, <1>9, <2>1, <2>2 DEF Ready, Facts
<1> QED BY <1>5, <1>6, <1>8, <1>9, <1>11, <1>12

\* The device context that the IOMMU caches.
LEMMA ContextStep ==
  ASSUME Orderly, [Next]_vars
  PROVE  TidyContext'
<1>1. /\ TypeInv /\ Frame /\ Prepared /\ TidyContext /\ KeepsUp /\ ~lag
      /\ index \in Nat /\ suite \in Seq(DOMAIN Program)
  BY DEF Orderly, RecordInv, PassInv, Frame, TypeInv, Loop, Table
<1> DEFINE two == {NoContext, TwoStageContext}
<1>2. ddtc \in two \/ ContextLeft(index) \/ (status = "running" /\ test \in Renewing)
  BY <1>1 DEF TidyContext
<1>3. UNCHANGED <<suite, index>> => ContextLeft(index)' = ContextLeft(index)
  BY DEF ContextLeft
\* A test that renews the context has it in the cache when it ends.
<1>4. ASSUME status = "running", test \in Renewing, pc >= 13, cq = << >>
      PROVE  ddtc \in two
  <2>1. OwnContext(test, pc) /\ pc \in Nat
    BY <1>4, OrderlyRun DEF Facts
  <2>2. dc = TwoStageContext
    BY <1>1, <1>4, <2>1, TwoStagesSet DEF Renewing, TwoStageTests
  <2>3. cq # <<"ddt_inval">>
    BY <1>4
  <2> QED BY <1>4, <2>1, <2>2, <2>3 DEF OwnContext, Renewing
<1>5. CASE IOMMU \/ UNCHANGED vars
  <2>1. UNCHANGED <<suite, index, status, test>>
    BY <1>5, IommuQuiet
  <2>2. ddtc' \in {ddtc, NoContext}
    BY <1>5 DEF IOMMU, Execute, Invalidate, Reject, Signal, CyclesOverflow, caches, vars
  <2> QED BY <1>2, <1>3, <2>1, <2>2 DEF TidyContext
<1>6. CASE CallTest
  <2>1. /\ status = "main" /\ status' = "running" /\ suite' = suite /\ index' = index + 1
        /\ test' = suite[index + 1] /\ ddtc' = ddtc
    BY <1>6 DEF CallTest, caches, test
  <2>2. ASSUME ContextLeft(index), suite[index + 1] \notin Renewing
        PROVE  ContextLeft(index)'
    <3>1. PICK i \in 1 .. index : suite[i] \in OneStaged /\ \A j \in i + 1 .. index : suite[j] \notin Renewing
      BY <2>2 DEF ContextLeft
    <3>2. i \in 1 .. index + 1 /\ \A j \in i + 1 .. index + 1 : suite[j] \notin Renewing
      BY <1>1, <2>2, <3>1
    <3> QED BY <2>1, <3>1, <3>2 DEF ContextLeft
  <2> QED BY <1>2, <2>1, <2>2 DEF TidyContext
<1>7. CASE Summary
  <2>1. status = "main" /\ UNCHANGED <<suite, index, ddtc>>
    BY <1>7 DEF Summary, caches
  <2> QED BY <1>2, <1>3, <2>1 DEF TidyContext
<1>8. CASE FallOff
  <2> DEFINE last == Len(Program[test])
  <2>1. status = "running" /\ pc > last /\ UNCHANGED <<suite, index, ddtc>>
    BY <1>8 DEF FallOff, caches
  <2>2. last \in Nat /\ pc \in Nat /\ (test \in Renewing => last >= 15)
    BY <2>1, OrderlyRun, ProgramLengths, LastSteps
  <2>3. ~(Behind /\ pc > last)
    <3>1. Behind => pc <= last
      BY <1>1 DEF KeepsUp
    <3> HIDE DEF last
    <3> QED BY <2>2, <3>1
  <2> HIDE DEF last
  <2>4. cq = << >> /\ (test \in Renewing => pc >= 13)
    BY <2>1, <2>2, <2>3 DEF Behind
  <2> QED BY <1>2, <1>3, <1>4, <2>1, <2>4 DEF TidyContext
<1>9. ASSUME NEW op \in Ops, Effects(op), Changes(op)
      PROVE  TidyContext'
  <2>1. /\ op # "end" => status' = "running"
        /\ test \in DOMAIN Program /\ status = "running" /\ test' = test /\ UNCHANGED <<suite, index>>
        /\ Step.op = op /\ cq = << >> /\ SetsUp(test, pc, Step) /\ Settles(test, pc, Step) /\ pc \in Nat
    BY <1>9, OrderlyStep
  <2>2. CASE op \in {"transfer", "translate"}
    <3>1. ddtc' = IF ddtp = "1lvl" THEN InUse ELSE ddtc
      BY <1>9, <2>2, Zenon DEF Changes, DmaTransfer, DebugTranslate
    <3>2. ddtp = Regime(test) /\ test # "iofence"
      BY <1>1, <1>9, <2>1, <2>2, InContext DEF SetsUp
    <3>3. CASE test \in Renewing
      BY <2>1, <2>2, <3>3 DEF TidyContext
    <3>4. CASE test \in OneStaged
      <4>1. index \in 1 .. index /\ suite[index] = test /\ \A j \in index + 1 .. index : FALSE
        BY <1>1, <2>1, OrderlyRun DEF test
      <4>2. ContextLeft(index)
        BY <3>4, <4>1 DEF ContextLeft
      <4> QED BY <1>3, <2>1, <4>2 DEF TidyContext
    <3>5. CASE test \in {"iommu_off", "iommu_bare"}
      <4>1. ddtc' = ddtc
        BY <3>1, <3>2, <3>5 DEF Regime
      <4> QED BY <1>2, <1>3, <2>1, <2>2, <4>1 DEF TidyContext
    <3>6. CASE test \in TwoStageTests
      <4>1. pc >= 5
        BY <2>1, <2>2, <3>6 DEF SetsUp, TwoStageTests
      <4>2. dc = TwoStageContext
        BY <1>1, <2>1, <3>6, <4>1, TwoStagesSet
      <4>3. ddtc' \in {ddtc, TwoStageContext} /\ (ddtc \in two => ddtc' \in two)
        BY <3>1, <4>2 DEF InUse
      <4>4. ddtc # NoContext => ddtc' = ddtc
        BY <3>1 DEF InUse
      <4> QED BY <1>2, <1>3, <2>1, <2>2, <4>3, <4>4 DEF TidyContext
    <3> QED BY <2>1, <3>2, <3>3, <3>4, <3>5, <3>6, ProgramIs DEF Renewing, OneStaged, TwoStageTests
  <2>3. CASE op \notin {"transfer", "translate"}
    <3>1. ddtc' = ddtc
      BY <1>9, <2>3 DEF Changes, Calm
    <3>2. op = "end" /\ test \in Renewing => ddtc \in two
      BY <1>4, <2>1 DEF Settles
    <3> QED BY <1>2, <1>3, <2>1, <3>1, <3>2 DEF TidyContext
  <2> QED BY <2>2, <2>3
<1> QED BY <1>5, <1>6, <1>7, <1>8, <1>9, HartSteps DEF Next

\* What a step of the hart in a test makes pending.
LEMMA RaisedBy ==
  ASSUME Orderly, NEW op \in Ops, Effects(op), Changes(op), [Next]_vars
  PROVE  /\ op = "clear_ipsr" => ipsr' = {}
         /\ op # "clear_ipsr" /\ "pmip" \in ipsr' => "pmip" \in ipsr \/ (op = "transfer" /\ "iohpmctr3" \in armed)
         /\ op # "clear_ipsr" /\ "fip" \in ipsr' =>
              \/ "fip" \in ipsr
              \/ test = "dbg_interface"
              \/ test \in Clearing /\ pc < LastClear(test)
<1>1. ipsr \subseteq Causes
  BY DEF Orderly, RecordInv, TypeInv, Hardware
<1>2. CASE op \notin {"transfer", "translate"}
  <2>1. ipsr' = IF op = "clear_ipsr" THEN ipsr \ Cleared ELSE ipsr
    BY <1>2 DEF Changes, Calm
  <2> QED BY <1>1, <1>2, <2>1 DEF Causes, Cleared
<1>3. CASE op = "transfer"
  <2>1. Ready("transfer") /\ DmaTransfer
    BY <1>3, OrderlyStep DEF Changes
  <2>2. PICK causes \in SUBSET {"fip", "pmip"} :
          /\ ipsr' = ipsr \cup causes
          /\ "fip" \in causes <=> TransferFaults(test, Step) # << >>
          /\ "iohpmctr3" \notin armed => "pmip" \notin causes
    BY <2>1, TransferEffects
  <2>3. ASSUME TransferFaults(test, Step) # << >>
        PROVE  test \in Clearing /\ pc < LastClear(test)
    <3>1. /\ test \in DOMAIN Program /\ pc \in 1 .. Len(Program[test]) /\ Step = Program[test][pc]
          /\ Step.op = "transfer" /\ Settles(test, pc, Step) /\ pc \in Nat
      BY <1>3, OrderlyStep
    <3>2. Spans(test, pc, Step)
      BY <3>1, SpansRight
    <3>3. pc + 1 = Caused(test) /\ pc + 1 < 100 /\ test # "dbg_interface"
      BY <2>3, <3>1, <3>2 DEF Spans, Settles
    <3> QED BY <3>1, <3>3, SMT DEF Caused, Clearing, LastClear
  <2> QED BY <1>3, <2>2, <2>3
<1>4. CASE op = "translate"
  <2>1. Ready("translate") /\ DebugTranslate /\ Settles(test, pc, Step) /\ Step.op = "translate"
    BY <1>4, OrderlyStep DEF Changes
  <2>2. test = "dbg_interface"
    BY <2>1 DEF Settles
  <2>3. PICK causes \in SUBSET {"fip"} : ipsr' = ipsr \cup causes
    BY <2>1, TranslateEffects
  <2> QED BY <1>4, <2>2, <2>3
<1> QED BY <1>2, <1>3, <1>4

\* The counters and their interrupt.
LEMMA CountersStep ==
  ASSUME Orderly, [Next]_vars
  PROVE  TidyCounters'
<1>1. /\ TypeInv /\ Untouched /\ TidyCounters
  BY DEF Orderly, RecordInv, PassInv, Frame
<1>2. /\ "iohpmctr3" \in armed => Running("hpm", {21})
      /\ "pmip" \in ipsr => Running("hpm", 1 .. 25)
  BY <1>1 DEF TidyCounters
<1>3. Len(Program["hpm"]) = 26
  BY ProgramIs, HpmSteps
<1>4. CASE IOMMU \/ UNCHANGED vars
  <2>1. \A t, s : Running(t, s)' <=> Running(t, s)
    BY <1>4, IommuQuiet DEF Running
  <2>2. /\ "iohpmctr3" \in armed' => "iohpmctr3" \in armed
        /\ "pmip" \in ipsr' => "pmip" \in ipsr \/ "cycles" \in armed
    BY <1>4 DEF IOMMU, Execute, Reject, Signal, CyclesOverflow, vars, count, irq, Pend
  <2>3. "cycles" \in armed => Running("hpm", 1 .. 25)
    BY <1>1, SMT DEF Untouched, Running
  <2> QED BY <1>2, <2>1, <2>2, <2>3 DEF TidyCounters
<1>5. CASE CallTest \/ Summary \/ FallOff
  <2>1. /\ UNCHANGED <<armed, ipsr>>
        /\ status = "running" => pc > Len(Program[test])
    BY <1>5 DEF CallTest, Summary, FallOff, count, irq
  <2>2. ~Running("hpm", {21}) /\ ~Running("hpm", 1 .. 25)
    <3> DEFINE last == Len(Program[test])
    <3>1. (test = "hpm" => last = 26) /\ pc \in Nat /\ (status = "running" => pc > last)
      BY <1>1, <1>3, <2>1 DEF TypeInv, Loop
    <3> HIDE DEF last
    <3> QED BY <3>1, SMT DEF Running
  <2> QED BY <1>2, <2>1, <2>2 DEF TidyCounters
<1>6. ASSUME NEW op \in Ops, Effects(op), Changes(op)
      PROVE  TidyCounters'
  <2>1. /\ op # "end" => status' = "running"
        /\ status = "running" /\ test' = test /\ pc' = pc + 1 /\ pc \in Nat \ {0} /\ Step.op = op
        /\ Touches(test, pc, Step) /\ Paced(test, pc, Step) /\ Settles(test, pc, Step)
        /\ Facts(test, pc)
    BY <1>6, OrderlyStep
  <2>6. "hpm" \in Clearing /\ LastClear("hpm") = 25
    BY SMT DEF Clearing, LastClear
  <2>2. test = "hpm" /\ pc \in 1 .. 25 => op # "end"
    BY <2>1, <2>6 DEF Settles
  <2>3. test = "hpm" /\ pc = 25 => op = "clear_ipsr"
    BY <2>1, <2>6 DEF Settles
  <2>4. ASSUME "iohpmctr3" \in armed' PROVE Running("hpm", {21})'
    <3>1. CASE op = "arm"
      <4>1. armed' = armed \cup {Step.counter}
        BY <1>6, <3>1 DEF Changes, Calm
      <4>2. test = "hpm" /\ pc \in {7, 13, 20} /\ Step.counter = IF pc = 20 THEN "iohpmctr3" ELSE "cycles"
        BY <2>1, <3>1 DEF Touches
      <4>3. "iohpmctr3" \notin armed
        BY <1>2, <4>2 DEF Running
      <4>4. pc = 20
        BY <2>4, <4>1, <4>2, <4>3
      <4> QED BY <2>1, <3>1, <4>2, <4>4 DEF Running
    <3>2. CASE op # "arm"
      <4>1. "iohpmctr3" \in armed
        <5>1. op \notin {"transfer", "translate"} => armed' = armed
          BY <1>6, <3>2 DEF Changes, Calm
        <5>2. op = "translate" => armed' = armed
          BY <1>6 DEF Changes, DebugTranslate, count
        <5>3. op = "transfer" => armed' \subseteq armed
          <6> SUFFICES ASSUME op = "transfer" PROVE armed' \subseteq armed
            OBVIOUS
          <6>1. \E counted : armed' = IF counted THEN armed \ {"iohpmctr3"} ELSE armed
            BY <1>6, Zenon DEF Changes, DmaTransfer
          <6> QED BY <6>1
        <5> QED BY <2>4, <5>1, <5>2, <5>3
      <4>2. test = "hpm" /\ pc = 21
        BY <1>2, <4>1 DEF Running
      <4>3. op = "transfer" /\ "iohpmctr3" \notin overflowed
        BY <2>1, <4>2, SMT DEF Paced, Facts, Pending
      <4>4. Ready("transfer") /\ DmaTransfer
        BY <1>6, <4>3, OrderlyStep DEF Changes
      <4>5. "iohpmctr3" \in overflowed'
        BY <4>1, <4>2, <4>4, TransferEffects
      <4>6. armed' = armed \ {"iohpmctr3"}
        <5>1. overflowed' # overflowed
          BY <4>3, <4>5
        <5>2. ~Effects("arm")
          BY <2>1, <3>2 DEF Effects, Doing
        <5> QED BY <1>1, <2>1, <5>1, <5>2, CountersChanged
      <4> QED BY <2>4, <4>6
    <3> QED BY <3>1, <3>2
  <2>5. ASSUME "pmip" \in ipsr' PROVE Running("hpm", 1 .. 25)'
    <3>1. op # "clear_ipsr" /\ ("pmip" \in ipsr \/ "iohpmctr3" \in armed)
      BY <1>6, <2>5, RaisedBy
    <3>2. test = "hpm" /\ pc \in 1 .. 25
      BY <1>2, <3>1 DEF Running
    <3>3. pc # 25
      BY <2>3, <3>1, <3>2
    <3> QED BY <2>1, <2>2, <3>2, <3>3, SMT DEF Running
  <2> QED BY <2>4, <2>5 DEF TidyCounters
<1> QED BY <1>4, <1>5, <1>6, HartSteps DEF Next

\* The interrupt of the fault queue.
LEMMA FaultsStep ==
  ASSUME Orderly, [Next]_vars
  PROVE  TidyFaults'
<1>1. /\ TypeInv /\ TidyFaults /\ index \in Nat /\ suite \in Seq(DOMAIN Program)
  BY DEF Orderly, RecordInv, TypeInv, Loop, Table
<1> DEFINE mine == test \in Clearing /\ Running(test, 1 .. LastClear(test))
<1>2. "fip" \in ipsr => InterruptLeft(index) \/ mine
  BY <1>1 DEF TidyFaults
<1>3. UNCHANGED <<suite, index>> => InterruptLeft(index)' = InterruptLeft(index)
  BY DEF InterruptLeft
<1>4. CASE IOMMU \/ UNCHANGED vars
  <2>1. UNCHANGED <<suite, index, status, test, pc>>
    BY <1>4, IommuQuiet
  <2>2. "fip" \in ipsr' => "fip" \in ipsr
    BY <1>4 DEF IOMMU, Execute, Reject, Signal, CyclesOverflow, vars, irq, Pend
  <2> QED BY <1>2, <1>3, <2>1, <2>2 DEF TidyFaults, Running
<1>5. CASE CallTest
  <2>1. /\ status = "main" /\ status' = "running" /\ suite' = suite /\ index' = index + 1 /\ pc' = 1
        /\ test' = suite[index + 1] /\ ipsr' = ipsr
    BY <1>5 DEF CallTest, irq, test
  <2>2. ASSUME InterruptLeft(index), suite[index + 1] \notin Clearing
        PROVE  InterruptLeft(index)'
    <3>1. PICK i \in 1 .. index : suite[i] = "dbg_interface" /\ \A j \in i + 1 .. index : suite[j] \notin Clearing
      BY <2>2 DEF InterruptLeft
    <3>2. i \in 1 .. index + 1 /\ \A j \in i + 1 .. index + 1 : suite[j] \notin Clearing
      BY <1>1, <2>2, <3>1
    <3> QED BY <2>1, <3>1, <3>2 DEF InterruptLeft
  <2>3. \A t \in Clearing : 1 \in 1 .. LastClear(t)
    BY SMT DEF Clearing, LastClear
  <2> QED BY <1>2, <2>1, <2>2, <2>3 DEF TidyFaults, Running
<1>6. CASE Summary \/ FallOff
  <2>1. UNCHANGED <<suite, index, ipsr>> /\ (status = "running" => pc > Len(Program[test]))
    BY <1>6 DEF Summary, FallOff, irq
  <2>2. ~mine
    <3> SUFFICES ASSUME status = "running", test \in Clearing, pc \in 1 .. LastClear(test) PROVE FALSE
      BY DEF Running
    <3> DEFINE last == Len(Program[test])
               k == LastClear(test)
    <3>1. last \in Nat /\ k \in 1 .. last - 1
      BY OrderlyRun, ProgramLengths, LastSteps
    <3>2. pc > last /\ pc \in 1 .. k
      BY <2>1
    <3> HIDE DEF last, k
    <3> QED BY <3>1, <3>2
  <2> QED BY <1>2, <1>3, <2>1, <2>2 DEF TidyFaults
<1>7. ASSUME NEW op \in Ops, Effects(op), Changes(op), "fip" \in ipsr'
      PROVE  TidyFaults'
  <2>1. /\ op # "end" => status' = "running"
        /\ status = "running" /\ test' = test /\ pc' = pc + 1 /\ pc \in Nat \ {0} /\ Step.op = op
        /\ UNCHANGED <<suite, index>> /\ Settles(test, pc, Step) /\ test \in DOMAIN Program
    BY <1>7, OrderlyStep
  <2>2. /\ op # "clear_ipsr"
        /\ "fip" \in ipsr \/ test = "dbg_interface" \/ (test \in Clearing /\ pc < LastClear(test))
    BY <1>7, RaisedBy
  <2>3. CASE test = "dbg_interface"
    <3>1. index \in 1 .. index /\ suite[index] = test /\ \A j \in index + 1 .. index : FALSE
      BY <1>1, <2>1, OrderlyRun DEF test
    <3>2. InterruptLeft(index)
      BY <2>3, <3>1 DEF InterruptLeft
    <3> QED BY <1>3, <2>1, <3>2 DEF TidyFaults
  <2>4. CASE InterruptLeft(index)
    BY <1>3, <2>1, <2>4 DEF TidyFaults
  <2>5. CASE test \in Clearing /\ pc <= LastClear(test)
    <3> DEFINE k == LastClear(test)
    <3>1. pc # k /\ op # "end" /\ k \in Nat
      BY <2>1, <2>2, <2>5, LastSteps DEF Settles
    <3>2. pc <= k
      BY <2>5
    <3> HIDE DEF k
    <3>3. pc + 1 \in 1 .. k
      BY <2>1, <3>1, <3>2
    <3> QED BY <2>1, <2>5, <3>1, <3>3 DEF TidyFaults, Running, k
  <2>6. (test \in Clearing /\ pc < LastClear(test)) \/ mine => test \in Clearing /\ pc <= LastClear(test)
    <3> DEFINE k == LastClear(test)
    <3>1. test \in Clearing => k \in Nat
      BY <2>1, LastSteps
    <3>2. mine => test \in Clearing /\ pc \in 1 .. k
      BY DEF Running
    <3> HIDE DEF k, mine
    <3> QED BY <2>1, <3>1, <3>2 DEF k
  <2> QED BY <1>2, <2>2, <2>3, <2>4, <2>5, <2>6
<1>8. "fip" \notin ipsr' => TidyFaults'
  BY DEF TidyFaults
<1> QED BY <1>4, <1>5, <1>6, <1>7, <1>8, HartSteps DEF Next

\* The kind of interrupts that fctl selects.
LEMMA WiresStep ==
  ASSUME Orderly, [Next]_vars
  PROVE  TidyWires'
<1>1. /\ TypeInv /\ TidyWires /\ index \in Nat /\ suite \in Seq(DOMAIN Program)
  BY DEF Orderly, RecordInv, TypeInv, Loop, Table
<1> DEFINE mine == test \in Wiring /\ Running(test, 1 .. LastIgs(test))
<1>2. igs = "msi" => MsiLeft(index) \/ mine
  BY <1>1 DEF TidyWires
<1>3. UNCHANGED <<suite, index>> => MsiLeft(index)' = MsiLeft(index)
  BY DEF MsiLeft
<1>4. CASE IOMMU \/ UNCHANGED vars
  <2>1. UNCHANGED <<suite, index, status, test, pc>>
    BY <1>4, IommuQuiet
  <2>2. igs' = igs
    BY <1>4 DEF IOMMU, Execute, Reject, Signal, CyclesOverflow, vars, control
  <2> QED BY <1>2, <1>3, <2>1, <2>2 DEF TidyWires, Running
<1>5. CASE CallTest
  <2>1. /\ status = "main" /\ status' = "running" /\ suite' = suite /\ index' = index + 1 /\ pc' = 1
        /\ test' = suite[index + 1] /\ igs' = igs
    BY <1>5 DEF CallTest, control, test
  <2>2. ASSUME MsiLeft(index), suite[index + 1] \notin Wiring
        PROVE  MsiLeft(index)'
    <3>1. PICK i \in 1 .. index : suite[i] = "msi_generation" /\ \A j \in i + 1 .. index : suite[j] \notin Wiring
      BY <2>2 DEF MsiLeft
    <3>2. i \in 1 .. index + 1 /\ \A j \in i + 1 .. index + 1 : suite[j] \notin Wiring
      BY <1>1, <2>2, <3>1
    <3> QED BY <2>1, <3>1, <3>2 DEF MsiLeft
  <2>3. \A t \in Wiring : 1 \in 1 .. LastIgs(t)
    BY SMT DEF Wiring, LastIgs
  <2> QED BY <1>2, <2>1, <2>2, <2>3 DEF TidyWires, Running
<1>6. CASE Summary \/ FallOff
  <2>1. UNCHANGED <<suite, index, igs>> /\ (status = "running" => pc > Len(Program[test]))
    BY <1>6 DEF Summary, FallOff, control
  <2>2. ~mine
    <3> SUFFICES ASSUME status = "running", test \in Wiring, pc \in 1 .. LastIgs(test) PROVE FALSE
      BY DEF Running
    <3> DEFINE last == Len(Program[test])
    <3>1. last \in Nat /\ LastIgs(test) < last
      BY <1>1, WiringLengths, ProgramLengths, OrderlyRun
    <3>2. pc > last /\ pc \in Nat /\ pc <= LastIgs(test) /\ LastIgs(test) \in Nat
      BY <2>1 DEF LastIgs
    <3> HIDE DEF last
    <3> QED BY <3>1, <3>2
  <2> QED BY <1>2, <1>3, <2>1, <2>2 DEF TidyWires
<1>7. ASSUME NEW op \in Ops, Effects(op), Changes(op), igs' = "msi"
      PROVE  TidyWires'
  <2>1. /\ op # "end" => status' = "running"
        /\ status = "running" /\ test' = test /\ pc' = pc + 1 /\ pc \in Nat \ {0} /\ Step.op = op
        /\ UNCHANGED <<suite, index>> /\ Selects(test, pc, Step) /\ test \in DOMAIN Program
    BY <1>7, OrderlyStep
  <2>2. igs' = IF op = "igs" THEN Step.mode ELSE igs
    BY <1>7 DEF Effects
  <2>3. Igs("wsi").op = "igs" /\ Igs("wsi").mode = "wsi"
    BY DEF Igs
  <2>4. CASE MsiLeft(index)
    BY <1>3, <2>1, <2>4 DEF TidyWires
  <2>5. CASE test = "msi_generation"
    <3>1. index \in 1 .. index /\ suite[index] = test /\ \A j \in index + 1 .. index : FALSE
      BY <1>1, <2>1, OrderlyRun DEF test
    <3>2. MsiLeft(index)
      BY <2>5, <3>1 DEF MsiLeft
    <3> QED BY <1>3, <2>1, <3>2 DEF TidyWires
  <2>6. CASE test \in Wiring /\ pc <= LastIgs(test)
    <3> DEFINE k == LastIgs(test)
    <3>1. pc # k /\ op # "end" /\ k \in Nat
      <4>1. k \in Nat
        BY DEF LastIgs
      <4>2. op # "end"
        BY <2>1, <2>6, <4>1 DEF Selects
      <4>3. pc # k
        BY <1>7, <2>1, <2>2, <2>3, <2>6 DEF Selects
      <4> QED BY <4>1, <4>2, <4>3
    <3>2. pc <= k
      BY <2>6
    <3> HIDE DEF k
    <3>3. pc + 1 \in 1 .. k
      BY <2>1, <3>1, <3>2
    <3> QED BY <2>1, <2>6, <3>1, <3>3 DEF TidyWires, Running, k
  <2>7. mine \/ op = "igs" => test = "msi_generation" \/ (test \in Wiring /\ pc <= LastIgs(test))
    <3>1. mine => test \in Wiring /\ pc \in 1 .. LastIgs(test)
      BY DEF Running
    <3>2. LastIgs(test) \in Nat
      BY DEF LastIgs
    <3> HIDE DEF mine
    <3> QED BY <2>1, <3>1, <3>2 DEF Selects
  <2> QED BY <1>2, <1>7, <2>2, <2>4, <2>5, <2>6, <2>7
<1>8. igs' # "msi" => TidyWires'
  BY DEF TidyWires
<1> QED BY <1>4, <1>5, <1>6, <1>7, <1>8, HartSteps DEF Next

LEMMA TidyStep ==
  ASSUME RecordInv, PassInv, KeepsUp, TidyEvents, Straight, Tidy, [Next]_vars
  PROVE  Tidy'
<1> SUFFICES ASSUME ~lag', Compatible(suite')
             PROVE  /\ excused' \subseteq Independent /\ TidyContext' /\ TidyCounters'
                    /\ TidyFaults' /\ TidyWires'
  BY DEF Tidy
<1>1. suite' = suite /\ lag' = lag
  BY SameSuite DEF RecordInv
<1>2. Orderly
  BY <1>1 DEF Orderly, Tidy
<1> QED BY <1>2, UnexcusedStep, ContextStep, CountersStep, FaultsStep, WiresStep

-----------------------------------------------------------------------------
(* Compatible suites pass *)

\* A queue that keeps up starts where eight commands do not wrap it; in the
\* code cqh is 0 after a reset, and CQ_N_ENTRIES is 64.
HeadRoom == \A s \in Starts : ~s.lag => s.head + 8 < CqEntries

LEMMA TidyInit == Init => TidyEvents /\ Tidy
<1> SUFFICES ASSUME Init PROVE TidyEvents /\ Tidy
  OBVIOUS
<1>1. /\ status = "main" /\ ddtc = NoContext /\ events = {} /\ ipsr = {} /\ armed = {} /\ excused = {}
      /\ igs = "wsi"
  BY DEF Init
<1>2. \A t, i : ~Running(t, i)
  BY <1>1 DEF Running
<1>3. TidyEvents
  BY <1>1, <1>2 DEF TidyEvents
<1>4. TidyContext /\ TidyCounters /\ TidyFaults /\ TidyWires
  BY <1>1, <1>2 DEF TidyContext, TidyCounters, TidyFaults, TidyWires
<1> QED BY <1>1, <1>3, <1>4 DEF Tidy

LEMMA StraightInit ==
  ASSUME HeadRoom, Init
  PROVE  Straight
<1>1. PICK s \in Starts : suite = s.suite /\ cqh = s.head /\ lag = s.lag
  BY DEF Init
<1>2. index = 0 /\ status = "main" /\ cq = << >>
  BY DEF Init
<1>3. Unsent = Commands
  BY <1>2 DEF Unsent, Before, Ran
<1>4. ~lag => cqh + 8 < CqEntries
  BY <1>1 DEF HeadRoom
<1>5. cqh \in Int /\ CqEntries \in Int /\ cqh + Len(cq) = cqh
  BY <1>1, <1>2, SuiteAssumption
<1>6. Cardinality(Commands) \in 0 .. 8
  BY Eight
<1>7. ~lag => Room(cqh + Len(cq), Unsent)
  BY <1>3, <1>4, <1>5, <1>6 DEF Room
<1> QED BY <1>7 DEF Straight

(* When the tests of a suite are compatible in their order and the command *)
(* queue keeps up with them, from a head that the commands of the suite do *)
(* not wrap, no assertion of any test fails and ERROR is never reached.    *)
THEOREM CompatibleSuitesPass ==
  ASSUME HeadRoom
  PROVE  Spec => []AllHold
<1> DEFINE Inv == RecordInv /\ PassInv /\ KeepsUp /\ TidyEvents /\ Tidy /\ Straight
<1>1. TypeInv /\ [Next]_vars => TypeInv'
  BY LoopStep, HardwareStep, TalliesStep DEF TypeInv
<1>2. RecordInv /\ [Next]_vars => RecordInv'
  BY <1>1, OwnStep, PlainStep DEF RecordInv
<1>3. Inv /\ [Next]_vars => Inv'
  <2> SUFFICES ASSUME Inv, [Next]_vars PROVE Inv'
    OBVIOUS
  <2>1. RecordInv' /\ PassInv' /\ KeepsUp'
    BY <1>2, PassStep
  <2>2. TypeInv /\ Waiting
    BY DEF RecordInv, PassInv
  <2>3. TidyEvents' /\ Tidy' /\ Straight'
    BY <2>2, TidyEventsStep, TidyStep, StraightStep
  <2> QED BY <2>1, <2>3
<1>4. Inv => AllHold
  <2> SUFFICES ASSUME Inv, ~lag, Compatible(suite)
               PROVE  falsified = {} /\ status # "error"
    BY DEF AllHold
  <2>1. overtook = {} /\ Explained /\ excused \subseteq Independent
    BY DEF KeepsUp, PassInv, Tidy
  <2>2. falsified = {}
    BY <2>1 DEF Explained
  <2>3. status # "error"
    BY <2>1 DEF Explained
  <2> QED BY <2>2, <2>3
<1>5. Init => Inv
  BY RecordInit, PassInit, TidyInit, StraightInit
<1> QED BY <1>3, <1>4, <1>5, PTL DEF Spec

=============================================================================
