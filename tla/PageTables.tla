------------------------------ MODULE PageTables ------------------------------
(***************************************************************************)
(* The tables s1pt_init and s2pt_init build, entry by entry, and the walk  *)
(* through them.  Addresses are page numbers here: TestPages speaks of the *)
(* same pages by name.  A table holds leaves, pointers to the next table   *)
(* and invalid entries; an index is the entry's place in its array.        *)
(***************************************************************************)
EXTENDS TestPages

MiB2 == 2^9
GiB  == 2^18

MEM_BASE == 2 * GiB
MEM_SIZE == 2^16
TEST_VPAGE_BASE == 4 * GiB
TEST_PPAGE_BASE == MEM_BASE + MEM_SIZE \div 2
MSI_BASE_IF     == MEM_BASE + MEM_SIZE \div 4

\* enum test_page up to STRESS_START, in order.
InOrder ==
  <<"IOMMU_OFF_R", "IOMMU_OFF_W", "IOMMU_BARE_R", "IOMMU_BARE_W", "BARE_TRANS_R1",
    "BARE_TRANS_R2", "BARE_TRANS_W1", "BARE_TRANS_W2", "S2_ONLY_R", "S2_ONLY_W", "MSI_R1",
    "TWO_STAGE_R4K", "TWO_STAGE_R2M", "TWO_STAGE_R1G", "MSI_R2", "TWO_STAGE_W4K",
    "IOTINVAL_R1", "IOTINVAL_R2", "WSI_R", "WSI_W", "MSI_GEN_R", "MSI_GEN_W", "HPM_R",
    "HPM_W", "MSI_R3", "MSI_R4", "MSI_R5", "SWITCH1", "SWITCH2">>
STRESS_START == 29
N_MAPPINGS   == 32
PT_TOP       == 511

Named == {InOrder[k] : k \in DOMAIN InOrder} \cup DOMAIN Number

test_page(t) == IF t \in DOMAIN Number THEN Number[t]
                ELSE (CHOOSE k \in DOMAIN InOrder : InOrder[k] = t) - 1

\* What test_page_perm_table, or STRESS_START and STRESS_TOP, grant a device
\* at index i of a table.  An index without a name holds zero.
PermAt(i, stage) ==
  LET perm(t) == IF stage = "s1" THEN Stage1Perm(t) ELSE Stage2Perm(t)
  IN CASE i \in STRESS_START .. STRESS_START + N_MAPPINGS - 1 -> {"R", "W", "X"}
       [] i < STRESS_START -> perm(InOrder[i + 1])
       [] i \in {Number[t] : t \in DOMAIN Number} ->
            perm(CHOOSE t \in DOMAIN Number : Number[t] = i)
       [] OTHER -> {}

-----------------------------------------------------------------------------
(* Entries *)

Leaf(page, perm) == IF perm = {} THEN [kind |-> "invalid"]
                    ELSE [kind |-> "leaf", page |-> page, perm |-> perm]
To(table)        == [kind |-> "table", table |-> table]
Invalid          == [kind |-> "invalid"]
Full             == {"R", "W", "X"}

\* With a bug: the second of the two stores is missing.
MovedOne(i, odd) == IF odd /\ i = test_page("SWITCH1") THEN test_page("SWITCH2") ELSE i

\* Index of the entry that the exchange of SWITCH1 and SWITCH2 put at i.
Moved(i, odd) ==
  CASE odd /\ i = test_page("SWITCH1") -> test_page("SWITCH2")
    [] odd /\ i = test_page("SWITCH2") -> test_page("SWITCH1")
    [] OTHER -> i

\* The leaves of s1pt[5] and that of PT_TOP have no U bit: they grant a device
\* nothing.
s1pt(table, i, odd) ==
  CASE table = 0 /\ i \in 0 .. 2 -> Leaf(i * GiB, Full)
    [] table = 0 /\ i \in 3 .. 4 -> To(i - 2)
    [] table = 0 /\ i = 5        -> To(5)
    [] table = 1 /\ i < (MEM_SIZE \div MiB2) \div 2 -> Leaf(3 * GiB + i * MiB2, Full)
    [] table = 2 /\ i \in 0 .. 1 -> To(i + 3)
    [] table = 3 -> Leaf(TEST_VPAGE_BASE + Moved(i, odd), PermAt(Moved(i, odd), "s1"))
    [] table = 4 -> Leaf(TEST_VPAGE_BASE + MiB2 + i, PermAt(i, "s1"))
    [] OTHER -> Invalid

\* s2pt_root is numbered 0 here and s2pt[k] is k + 1.
s2pt(table, i, odd) ==
  CASE table = 0 /\ i \in 0 .. 2    -> Leaf(i * GiB, Full)
    [] table = 0 /\ i = 3           -> To(1)
    [] table = 0 /\ i \in {4, 2047} -> To(2)
    [] table = 0 /\ i = 5           -> To(5)
    [] table = 1 /\ i < (MEM_SIZE \div MiB2) \div 2 -> Leaf(MEM_BASE + i * MiB2, Full)
    [] table = 2 /\ i \in {0, 511}  -> To(3)
    [] table = 2 /\ i = 1           -> To(4)
    [] table \in 3 .. 4 /\ i = PT_TOP -> Leaf(TEST_PPAGE_BASE + i, Full)
    [] table = 3 /\ i # PT_TOP ->
         Leaf(TEST_PPAGE_BASE + Moved(i, odd), PermAt(Moved(i, odd), "s2"))
    [] table = 4 /\ i # PT_TOP -> Leaf(TEST_PPAGE_BASE + i, PermAt(i, "s2"))
    [] table = 5 -> Leaf(TEST_PPAGE_BASE + i * MiB2, Full)
    [] OTHER -> Invalid

-----------------------------------------------------------------------------
(* The walk *)

Entry(stage, table, i, swapped) ==
  IF stage = "s1" THEN s1pt(table, i, "s1" \in swapped) ELSE s2pt(table, i, "s2" \in swapped)

\* The first leaf, or invalid entry, on the way down; size is what it maps.
Level0(stage, e, n, swapped) ==
  IF e.kind = "table" THEN [entry |-> Entry(stage, e.table, n % 512, swapped), size |-> 1]
  ELSE [entry |-> e, size |-> MiB2]

Level1(stage, e, n, swapped) ==
  IF e.kind = "table"
  THEN Level0(stage, Entry(stage, e.table, (n \div MiB2) % 512, swapped), n, swapped)
  ELSE [entry |-> e, size |-> GiB]

\* The root of the second stage has 2048 entries, that of the first 512.
Found(stage, n, swapped) ==
  IF n < (IF stage = "s1" THEN 512 ELSE 2048) * GiB
  THEN Level1(stage, Entry(stage, 0, n \div GiB, swapped), n, swapped)
  ELSE [entry |-> Invalid, size |-> 1]

NoPage == [ok |-> FALSE, page |-> 0, size |-> 0]

\* A superpage whose first page is not a multiple of its size is misconfigured.
Granted(f, n, rights) ==
  IF /\ f.entry.kind = "leaf"
     /\ f.entry.page % f.size = 0
     /\ rights \subseteq f.entry.perm
  THEN [ok |-> TRUE, page |-> f.entry.page + (n % f.size), size |-> f.size]
  ELSE NoPage

\* One stage for an access that needs these rights.
Through(stage, n, rights, swapped) == Granted(Found(stage, n, swapped), n, rights)

\* MSI_ADDR_PATTERN; bits under MSI_ADDR_MASK may differ from it.
PatternBits == {1, 2, 7, 8, 9}
MatchesMsi(n) ==
  /\ n < 2^21
  /\ \A b \in 0 .. 20 \ {MaskBits[k] : k \in DOMAIN MaskBits} :
       Bit(n, b) = (IF b \in PatternBits THEN 1 ELSE 0)

-----------------------------------------------------------------------------
(* The MRIF: 64 double words, one of pending bits and one of enable bits   *)
(* for each 64 interrupt identities.  A double word is its set of ones.    *)

INT_ID_1 == 300
INT_ID_2 == 600

\* The macros shift by 2, clear the low four bits and divide by 8.
INT_IP_IDX(id) == (((id \div 4) \div 16) * 16) \div 8
INT_IE_IDX(id) == INT_IP_IDX(id) + 1
INT_MASK(id)   == id % 64

\* mrif_init leaves every other word as boot has cleared it.
mrif ==
  [i \in 0 .. 63 |-> CASE i \in {INT_IP_IDX(INT_ID_1), INT_IP_IDX(INT_ID_2)} -> {}
                      [] i = INT_IE_IDX(INT_ID_2) -> {}
                      [] i = INT_IE_IDX(INT_ID_1) -> {INT_MASK(INT_ID_1)}
                      [] OTHER -> {}]

-----------------------------------------------------------------------------
(* The same places by name and by number *)

\* Pages of the message words: MSI_ADDR_CQ and on, then NOTICE_ADDR_1 and 2.
Words == <<"MSI_ADDR_CQ", "MSI_ADDR_FQ", "MSI_ADDR_HPM", "", "", "", "", "",
           "NOTICE_ADDR_1", "NOTICE_ADDR_2">>

page_base(a) ==
  CASE a[1] = "if" -> MSI_BASE_IF + a[2]
    [] a[1] = "w"  -> MEM_BASE + 3 * 2^12 + (CHOOSE k \in DOMAIN Words : Words[k] = a[2]) - 1
    [] a[1] = "fence" -> MEM_BASE + 2 * 2^12
    [] a[1] \in {"v", "p"} /\ a[2] = "TEST_1GIB" -> MEM_BASE
    [] a = <<"v", "TEST_2MIB">> -> 3 * GiB + 32 * MiB2
    [] a = <<"p", "TEST_2MIB">> -> MEM_BASE + 32 * MiB2
    [] a[1] = "v" /\ a[2] \in Named -> TEST_VPAGE_BASE + test_page(a[2])
    [] a[1] = "p" /\ a[2] \in Named -> TEST_PPAGE_BASE + test_page(a[2])

\* What both stages map is as large as the smaller of the two.
Both(r1, r2) ==
  IF r1.ok /\ r2.ok
  THEN [r2 EXCEPT !.size = IF r1.size < r2.size THEN r1.size ELSE r2.size]
  ELSE NoPage

First(n, rights, modes, swapped) ==
  IF modes.s1 = "sv39" THEN Through("s1", n, rights, swapped)
  ELSE [ok |-> TRUE, page |-> n, size |-> GiB]

Second(r1, rights, modes, swapped) ==
  IF modes.s2 = "sv39x4" THEN Both(r1, Through("s2", r1.page, rights, swapped)) ELSE r1

\* The walk by number, through the stages that modes turns on.
Walked(n, rights, modes, swapped) ==
  Second(First(n, rights, modes, swapped), rights, modes, swapped)

Modes == [s1 : {"bare", "sv39"}, s2 : {"bare", "sv39x4"}, msi : {"off"}]
Tested == Named \cup Superpages

Same(byName, byNumber) ==
  byNumber.ok = byName.ok /\ (byName.ok => byNumber.page = page_base(byName.to))

SamePages(swapped) ==
  \A t \in Tested, access \in {"read", "write"}, modes \in Modes :
    Same(Walk(<<"v", t>>, access, modes, swapped),
         Walked(page_base(<<"v", t>>), {Right(access)}, modes, swapped))

SameMsi == \A t \in Tested : MatchesMsi(page_base(<<"v", t>>)) = IsMsi(<<"v", t>>)

\* Where tests look for what the IOMMU has done: the pages of transfers, the
\* interrupt files, the message words and the word that IOFENCE.C writes.  (The
\* linker places the array mrif.)
Places == ({"p"} \X Tested) \cup ({"if"} \X {InterruptFile(t) : t \in DOMAIN Number})
            \cup ({"w"} \X ({Words[k] : k \in DOMAIN Words} \ {""}))
            \cup {<<"fence", "IOFENCE_ADDR">>}

DistinctPlaces == \A x, y \in Places : page_base(x) = page_base(y) => x = y

\* The identities are where the IOMMU looks for them, and only the first one
\* is enabled: its bits are not those of the other.
Identities == 1 .. 2047
OwnBits ==
  /\ \A x, y \in {INT_ID_1, INT_ID_2} :
       INT_IP_IDX(x) = 2 * (x \div 64) /\ (x # y => INT_IP_IDX(x) # INT_IP_IDX(y))
  /\ \A id \in Identities :
       INT_MASK(id) \in mrif[2 * (id \div 64) + 1] <=> id = INT_ID_1

=============================================================================
