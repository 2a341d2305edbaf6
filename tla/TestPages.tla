------------------------------ MODULE TestPages ------------------------------
(***************************************************************************)
(* The pages the tests transfer between, and what the tables that          *)
(* page_tables.c builds make of an address.  An address is a pair:         *)
(*   <<"v", t>>   virtual page of the test page t (TEST_VPAGE_BASE + t)    *)
(*   <<"p", t>>   physical page of t (TEST_PPAGE_BASE + t)                 *)
(*   <<"if", n>>  page of the guest interrupt file n                       *)
(*   <<"w", x>>   the word x of physical memory, none of the above         *)
(* Physical addresses lie under the 1 GiB leaves that both roots hold for  *)
(* the addresses below 3 GiB, so both stages map them to themselves.       *)
(***************************************************************************)
EXTENDS Integers, FiniteSets

\* Virtual superpages are named as pages: they too have a "v" and a "p" side.
Superpages == {"TEST_2MIB", "TEST_1GIB"}

\* Only the pages that the MSI address mask can select need their number.
Number == [MSI_W1 |-> 258, MSI_W2 |-> 262, MSI_W3 |-> 384, MSI_W4 |-> 386, MSI_W5 |-> 390]

\* What test_page_perm_table grants; every page that is not listed has RWX.
Stage1Perm(t) ==
  CASE t \in {"S2_ONLY_R", "S2_ONLY_W", "MSI_R1"} -> {}
    [] t \in {"TWO_STAGE_R4K", "TWO_STAGE_R2M", "TWO_STAGE_R1G", "MSI_R2", "MSI_R3",
              "MSI_R4", "MSI_R5", "IOTINVAL_R1", "IOTINVAL_R2"} -> {"R"}
    [] t \in {"TWO_STAGE_W4K", "WSI_W", "MSI_GEN_W"} -> {"R", "W"}
    [] t \in {"WSI_R", "MSI_GEN_R"} -> {"X"}
    [] OTHER -> {"R", "W", "X"}

Stage2Perm(t) ==
  CASE t \in {"S2_ONLY_R", "MSI_R1", "TWO_STAGE_R4K", "TWO_STAGE_R2M", "TWO_STAGE_R1G",
              "MSI_R2", "MSI_R3", "MSI_R4", "MSI_R5", "IOTINVAL_R1", "IOTINVAL_R2",
              "WSI_R", "MSI_GEN_R"} -> {"R"}
    [] t \in {"S2_ONLY_W", "TWO_STAGE_W4K"} -> {"R", "W"}
    [] t \in {"WSI_W", "MSI_GEN_W"} -> {"R", "X"}
    [] OTHER -> {"R", "W", "X"}

\* The page whose entry stands at t's index once s1pt_switch or s2pt_switch
\* has exchanged the two entries an odd number of times.
Switched(t, odd) ==
  IF ~odd THEN t
  ELSE CASE t = "SWITCH1" -> "SWITCH2" [] t = "SWITCH2" -> "SWITCH1" [] OTHER -> t

-----------------------------------------------------------------------------
(* MSI address translation *)

Bit(n, i) == (n \div 2^i) % 2

\* MSI_ADDR_MASK is 0x100286; a virtual page number always has bit 20.
MaskBits == <<1, 2, 7, 9, 20>>
Vpn(t) == 2^20 + Number[t]

\* MSI_ADDR_PATTERN is 0x386, so outside the mask only bit 8 must be set.
IsMsi(a) ==
  /\ a[1] = "v"
  /\ a[2] \in DOMAIN Number
  /\ \A i \in 0 .. 20 :
       i \notin {MaskBits[k] : k \in 1 .. 5} => Bit(Vpn(a[2]), i) = (IF i = 8 THEN 1 ELSE 0)

\* The bits under the mask, packed: the index into the MSI page table.
InterruptFile(t) ==
  Bit(Vpn(t), 1) + 2 * Bit(Vpn(t), 2) + 4 * Bit(Vpn(t), 7) + 8 * Bit(Vpn(t), 9) + 16 * Bit(Vpn(t), 20)

\* msi_pt_init: entries 20, 21 and 23 are in MRIF mode, the last one with
\* the custom bit set; the others translate to their interrupt file.
MsiEntry(n) ==
  CASE n = 20 -> [mode |-> "mrif", notice |-> <<"w", "NOTICE_ADDR_1">>]
    [] n = 21 -> [mode |-> "mrif", notice |-> <<"w", "NOTICE_ADDR_2">>]
    [] n = 23 -> [mode |-> "custom"]
    [] OTHER  -> [mode |-> "basic", file |-> <<"if", n>>]

-----------------------------------------------------------------------------
(* The two stages.  A result has the address reached, or the fault's cause.*)

Reached(a) == [ok |-> TRUE, to |-> a]
Fault(c)   == [ok |-> FALSE, cause |-> c]

Right(access) == IF access = "read" THEN "R" ELSE "W"

\* swapped: the stages whose two switch entries are exchanged.
Stage1(a, access, swapped) ==
  CASE a[1] # "v" -> Reached(a)
    [] a[1] = "v" /\ a[2] \in Superpages -> Reached(a)
    [] a[1] = "v" /\ a[2] \notin Superpages ->
         IF Right(access) \in Stage1Perm(a[2])
         THEN Reached(<<"v", Switched(a[2], "s1" \in swapped)>>)
         ELSE Fault(IF access = "read" THEN "LOAD_PAGE_FAULT" ELSE "STORE_PAGE_FAULT")

Stage2(a, access, swapped) ==
  CASE a[1] # "v" -> Reached(a)
    [] a[1] = "v" /\ a[2] \in Superpages -> Reached(<<"p", a[2]>>)
    [] a[1] = "v" /\ a[2] \notin Superpages ->
         IF Right(access) \in Stage2Perm(a[2])
         THEN Reached(<<"p", Switched(a[2], "s2" \in swapped)>>)
         ELSE Fault(IF access = "read" THEN "LOAD_GUEST_PAGE_FAULT"
                                       ELSE "STORE_GUEST_PAGE_FAULT")

\* The translation a device context asks for.  A write to an MSI address
\* leaves it after the first stage, for the entry <<"msi", n>> of msi_pt.
Walk(a, access, dc, swapped) ==
  LET first == IF dc.s1 = "sv39" THEN Stage1(a, access, swapped) ELSE Reached(a)
      isMsi == first.ok /\ dc.msi = "flat" /\ IsMsi(first.to)
  IN CASE isMsi -> Reached(<<"msi", InterruptFile(first.to[2])>>)
       [] ~isMsi /\ first.ok /\ dc.s2 = "sv39x4" -> Stage2(first.to, access, swapped)
       [] OTHER -> first

=============================================================================
