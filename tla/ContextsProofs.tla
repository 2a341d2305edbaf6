---------------------------- MODULE ContextsProofs ----------------------------
(***************************************************************************)
(* Contexts, for any devices, calls and order in which the IOMMU reads:    *)
(* what the IOMMU caches of a context is whole, and the calls look atomic. *)
(***************************************************************************)
EXTENDS Contexts, TLAPS

-----------------------------------------------------------------------------
(* The stores of a call *)

\* A store that leaves its field unfinished is followed by one to that field.
Good(s, k) ==
  /\ s[k][1] \in Fields /\ s[k][2] \in Values
  /\ s[k][2] \in Right[s[k][1]] \/ (k < Len(s) /\ s[k + 1][1] = s[k][1])
Finished(s) ==
  /\ Len(s) \in Nat \ {0} /\ DOMAIN s = 1 .. Len(s)
  /\ \A k \in 1 .. Len(s) : Good(s, k)

LEMMA Kinds ==
  /\ {"tc", "iohgatp", "ta", "fsc", "msiptp", "msi_addr_mask", "msi_addr_pattern"} = Fields
  /\ "tc" \in Fields /\ "iohgatp" \in Fields /\ "ta" \in Fields /\ "fsc" \in Fields
  /\ "msiptp" \in Fields /\ "msi_addr_mask" \in Fields /\ "msi_addr_pattern" \in Fields
  /\ "valid" \in Right["tc"] \cap Values /\ "PSCID" \in Right["ta"] \cap Values
  /\ "bare GSCID" \in Right["iohgatp"] \cap Values /\ "bare" \in Right["fsc"] \cap Values
  /\ "sv39x4 GSCID" \in Right["iohgatp"] \cap Values /\ "sv39" \in Right["fsc"] \cap Values
  /\ "off" \in Right["msiptp"] \cap Values /\ "flat" \in Right["msiptp"] \cap Values
  /\ "MASK" \in Right["msi_addr_mask"] \cap Values
  /\ "PATTERN" \in Right["msi_addr_pattern"] \cap Values
  /\ "MASK" \in Values /\ "bare" \in Values /\ "sv39x4" \in Values
BY DEF Fields, Right, Values

LEMMA GoodLast ==
  ASSUME NEW s, NEW k, s[k][1] \in Fields, s[k][2] \in Right[s[k][1]] \cap Values
  PROVE  Good(s, k)
BY DEF Good

LEMMA GoodNext ==
  ASSUME NEW s, NEW k, NEW l, l = k + 1,
         s[k][1] \in Fields, s[k][2] \in Values, k < Len(s), s[l][1] = s[k][1]
  PROVE  Good(s, k)
BY DEF Good

LEMMA StoresTable ==
  ASSUME NEW c \in DOMAIN Stores
  PROVE  Finished(Stores[c])
<1>1. CASE c = "ddt_init"
  <2> DEFINE s == Stores["ddt_init"]
  <2>1. Len(s) = 8 /\ DOMAIN s = 1 .. 8
    BY DEF Stores
  <2>2. /\ s[1][1] = "tc" /\ s[1][2] = "valid"
        /\ s[2][1] = "iohgatp" /\ s[2][2] = "bare"
        /\ s[3][1] = "iohgatp" /\ s[3][2] = "bare GSCID"
        /\ s[4][1] = "ta" /\ s[4][2] = "PSCID"
        /\ s[5][1] = "fsc" /\ s[5][2] = "bare"
        /\ s[6][1] = "msiptp" /\ s[6][2] = "off"
        /\ s[7][1] = "msi_addr_mask" /\ s[7][2] = "MASK"
        /\ s[8][1] = "msi_addr_pattern" /\ s[8][2] = "PATTERN"
    BY DEF Stores
  <2> HIDE DEF s
  <2>3. Good(s, 2)
    <3>1. s[2][1] \in Fields /\ s[2][2] \in Values
      BY <2>2, Kinds, Zenon
    <3>2. 2 < Len(s)
      BY <2>1
    <3>3. s[3][1] = s[2][1]
      BY <2>2, Zenon
    <3>4. 3 = 2 + 1
      OBVIOUS
    <3> QED BY <3>1, <3>2, <3>3, <3>4, GoodNext
  <2>4. Good(s, 1)
    BY <2>2, Kinds, GoodLast, Zenon
  <2>5. Good(s, 3)
    BY <2>2, Kinds, GoodLast, Zenon
  <2>6. Good(s, 4)
    BY <2>2, Kinds, GoodLast, Zenon
  <2>7. Good(s, 5)
    BY <2>2, Kinds, GoodLast, Zenon
  <2>8. Good(s, 6)
    BY <2>2, Kinds, GoodLast, Zenon
  <2>9. Good(s, 7)
    BY <2>2, Kinds, GoodLast, Zenon
  <2>10. Good(s, 8)
    BY <2>2, Kinds, GoodLast, Zenon
  <2>11. \A k \in 1 .. 8 : Good(s, k)
    BY <2>3, <2>4, <2>5, <2>6, <2>7, <2>8, <2>9, <2>10
  <2>12. Finished(s)
    BY <2>1, <2>11 DEF Finished
  <2> QED BY <1>1, <2>12 DEF s
<1>2. CASE c = "iosatp_bare"
  <2> DEFINE s == Stores["iosatp_bare"]
  <2>1. Len(s) = 2 /\ DOMAIN s = 1 .. 2
    BY DEF Stores
  <2>2. /\ s[1][1] = "ta" /\ s[1][2] = "PSCID"
        /\ s[2][1] = "fsc" /\ s[2][2] = "bare"
    BY DEF Stores
  <2> HIDE DEF s
  <2>3. Good(s, 1)
    BY <2>2, Kinds, GoodLast, Zenon
  <2>4. Good(s, 2)
    BY <2>2, Kinds, GoodLast, Zenon
  <2>5. \A k \in 1 .. 2 : Good(s, k)
    BY <2>3, <2>4
  <2>6. Finished(s)
    BY <2>1, <2>5 DEF Finished
  <2> QED BY <1>2, <2>6 DEF s
<1>3. CASE c = "iosatp_sv39"
  <2> DEFINE s == Stores["iosatp_sv39"]
  <2>1. Len(s) = 2 /\ DOMAIN s = 1 .. 2
    BY DEF Stores
  <2>2. /\ s[1][1] = "ta" /\ s[1][2] = "PSCID"
        /\ s[2][1] = "fsc" /\ s[2][2] = "sv39"
    BY DEF Stores
  <2> HIDE DEF s
  <2>3. Good(s, 1)
    BY <2>2, Kinds, GoodLast, Zenon
  <2>4. Good(s, 2)
    BY <2>2, Kinds, GoodLast, Zenon
  <2>5. \A k \in 1 .. 2 : Good(s, k)
    BY <2>3, <2>4
  <2>6. Finished(s)
    BY <2>1, <2>5 DEF Finished
  <2> QED BY <1>3, <2>6 DEF s
<1>4. CASE c = "iohgatp_bare"
  <2> DEFINE s == Stores["iohgatp_bare"]
  <2>1. Len(s) = 2 /\ DOMAIN s = 1 .. 2
    BY DEF Stores
  <2>2. /\ s[1][1] = "iohgatp" /\ s[1][2] = "bare"
        /\ s[2][1] = "iohgatp" /\ s[2][2] = "bare GSCID"
    BY DEF Stores
  <2> HIDE DEF s
  <2>3. Good(s, 1)
    <3>1. s[1][1] \in Fields /\ s[1][2] \in Values
      BY <2>2, Kinds, Zenon
    <3>2. 1 < Len(s)
      BY <2>1
    <3>3. s[2][1] = s[1][1]
      BY <2>2, Zenon
    <3>4. 2 = 1 + 1
      OBVIOUS
    <3> QED BY <3>1, <3>2, <3>3, <3>4, GoodNext
  <2>4. Good(s, 2)
    BY <2>2, Kinds, GoodLast, Zenon
  <2>5. \A k \in 1 .. 2 : Good(s, k)
    BY <2>3, <2>4
  <2>6. Finished(s)
    BY <2>1, <2>5 DEF Finished
  <2> QED BY <1>4, <2>6 DEF s
<1>5. CASE c = "iohgatp_sv39x4"
  <2> DEFINE s == Stores["iohgatp_sv39x4"]
  <2>1. Len(s) = 2 /\ DOMAIN s = 1 .. 2
    BY DEF Stores
  <2>2. /\ s[1][1] = "iohgatp" /\ s[1][2] = "sv39x4"
        /\ s[2][1] = "iohgatp" /\ s[2][2] = "sv39x4 GSCID"
    BY DEF Stores
  <2> HIDE DEF s
  <2>3. Good(s, 1)
    <3>1. s[1][1] \in Fields /\ s[1][2] \in Values
      BY <2>2, Kinds, Zenon
    <3>2. 1 < Len(s)
      BY <2>1
    <3>3. s[2][1] = s[1][1]
      BY <2>2, Zenon
    <3>4. 2 = 1 + 1
      OBVIOUS
    <3> QED BY <3>1, <3>2, <3>3, <3>4, GoodNext
  <2>4. Good(s, 2)
    BY <2>2, Kinds, GoodLast, Zenon
  <2>5. \A k \in 1 .. 2 : Good(s, k)
    BY <2>3, <2>4
  <2>6. Finished(s)
    BY <2>1, <2>5 DEF Finished
  <2> QED BY <1>5, <2>6 DEF s
<1>6. CASE c = "msi_off"
  <2> DEFINE s == Stores["msi_off"]
  <2>1. Len(s) = 3 /\ DOMAIN s = 1 .. 3
    BY DEF Stores
  <2>2. /\ s[1][1] = "msiptp" /\ s[1][2] = "off"
        /\ s[2][1] = "msi_addr_mask" /\ s[2][2] = "MASK"
        /\ s[3][1] = "msi_addr_pattern" /\ s[3][2] = "PATTERN"
    BY DEF Stores
  <2> HIDE DEF s
  <2>3. Good(s, 1)
    BY <2>2, Kinds, GoodLast, Zenon
  <2>4. Good(s, 2)
    BY <2>2, Kinds, GoodLast, Zenon
  <2>5. Good(s, 3)
    BY <2>2, Kinds, GoodLast, Zenon
  <2>6. \A k \in 1 .. 3 : Good(s, k)
    BY <2>3, <2>4, <2>5
  <2>7. Finished(s)
    BY <2>1, <2>6 DEF Finished
  <2> QED BY <1>6, <2>7 DEF s
<1>7. CASE c = "msi_flat"
  <2> DEFINE s == Stores["msi_flat"]
  <2>1. Len(s) = 3 /\ DOMAIN s = 1 .. 3
    BY DEF Stores
  <2>2. /\ s[1][1] = "msiptp" /\ s[1][2] = "flat"
        /\ s[2][1] = "msi_addr_pattern" /\ s[2][2] = "MASK"
        /\ s[3][1] = "msi_addr_pattern" /\ s[3][2] = "PATTERN"
    BY DEF Stores
  <2> HIDE DEF s
  <2>3. Good(s, 2)
    <3>1. s[2][1] \in Fields /\ s[2][2] \in Values
      BY <2>2, Kinds, Zenon
    <3>2. 2 < Len(s)
      BY <2>1
    <3>3. s[3][1] = s[2][1]
      BY <2>2, Zenon
    <3>4. 3 = 2 + 1
      OBVIOUS
    <3> QED BY <3>1, <3>2, <3>3, <3>4, GoodNext
  <2>4. Good(s, 1)
    BY <2>2, Kinds, GoodLast, Zenon
  <2>5. Good(s, 3)
    BY <2>2, Kinds, GoodLast, Zenon
  <2>6. \A k \in 1 .. 3 : Good(s, k)
    BY <2>3, <2>4, <2>5
  <2>7. Finished(s)
    BY <2>1, <2>6 DEF Finished
  <2> QED BY <1>7, <2>7 DEF s
<1> QED BY <1>1, <1>2, <1>3, <1>4, <1>5, <1>6, <1>7 DEF Stores

LEMMA InitWritesAll ==
  ASSUME NEW f \in Fields
  PROVE  \E k \in DOMAIN Stores["ddt_init"] : Decides("ddt_init", k, f)
<1> DEFINE s == Stores["ddt_init"]
<1>1. /\ Len(s) = 8 /\ DOMAIN s = 1 .. 8
      /\ s[1][1] = "tc" /\ s[2][1] = "iohgatp" /\ s[3][1] = "iohgatp" /\ s[4][1] = "ta"
      /\ s[5][1] = "fsc" /\ s[6][1] = "msiptp" /\ s[7][1] = "msi_addr_mask"
      /\ s[8][1] = "msi_addr_pattern"
  BY DEF Stores
<1> HIDE DEF s
<1>2. ASSUME NEW k \in 1 .. 8, s[k][1] = f, \A j \in k + 1 .. 8 : s[j][1] # f
      PROVE  \E l \in DOMAIN s : Decides("ddt_init", l, f)
  BY <1>1, <1>2 DEF Decides, s
<1>3. \E k \in 1 .. 8 : s[k][1] = f /\ \A j \in k + 1 .. 8 : s[j][1] # f
  <2>1. CASE f = "tc"
    <3> WITNESS 1 \in 1 .. 8
    <3> QED BY <1>1, <2>1
  <2>2. CASE f = "iohgatp"
    <3> WITNESS 3 \in 1 .. 8
    <3> QED BY <1>1, <2>2
  <2>3. CASE f = "ta"
    <3> WITNESS 4 \in 1 .. 8
    <3> QED BY <1>1, <2>3
  <2>4. CASE f = "fsc"
    <3> WITNESS 5 \in 1 .. 8
    <3> QED BY <1>1, <2>4
  <2>5. CASE f = "msiptp"
    <3> WITNESS 6 \in 1 .. 8
    <3> QED BY <1>1, <2>5
  <2>6. CASE f = "msi_addr_mask"
    <3> WITNESS 7 \in 1 .. 8
    <3> QED BY <1>1, <2>6
  <2>7. CASE f = "msi_addr_pattern"
    <3> WITNESS 8 \in 1 .. 8
    <3> QED BY <1>1, <2>7
  <2> QED BY <2>1, <2>2, <2>3, <2>4, <2>5, <2>6, <2>7 DEF Fields
<1> QED BY <1>2, <1>3 DEF s

LEMMA DecidesOnce ==
  ASSUME NEW c \in DOMAIN Stores, NEW f, NEW k \in DOMAIN Stores[c], NEW l \in DOMAIN Stores[c],
         Decides(c, k, f), Decides(c, l, f)
  PROVE  k = l
BY StoresTable DEF Decides, Finished

LEMMA MadeDecided ==
  ASSUME NEW c \in DOMAIN Stores, NEW ctx, NEW f \in Fields,
         NEW k \in DOMAIN Stores[c], Decides(c, k, f)
  PROVE  Made(c, ctx)[f] = Stores[c][k][2]
<1> DEFINE l == CHOOSE j \in DOMAIN Stores[c] : Decides(c, j, f)
<1>1. l \in DOMAIN Stores[c] /\ Decides(c, l, f)
  BY Zenon
<1>2. l = k
  BY <1>1, DecidesOnce
<1>3. Made(c, ctx)[f] = Stores[c][l][2]
  BY DEF Made
<1> QED BY <1>2, <1>3

LEMMA MadeKept ==
  ASSUME NEW c, NEW ctx, NEW f \in Fields, ~ \E k \in DOMAIN Stores[c] : Decides(c, k, f)
  PROVE  Made(c, ctx)[f] = ctx[f]
BY DEF Made

LEMMA MadeIsContext ==
  ASSUME NEW c \in DOMAIN Stores, NEW ctx \in [Fields -> Values]
  PROVE  Made(c, ctx) \in [Fields -> Values]
<1>1. ASSUME NEW f \in Fields PROVE Made(c, ctx)[f] \in Values
  <2>1. CASE \E k \in DOMAIN Stores[c] : Decides(c, k, f)
    <3> PICK k \in DOMAIN Stores[c] : Decides(c, k, f)
      BY <2>1
    <3> QED BY MadeDecided, StoresTable DEF Finished, Good
  <2> QED BY <2>1, MadeKept
<1>2. Made(c, ctx) = [f \in Fields |-> Made(c, ctx)[f]]
  BY DEF Made
<1> QED BY <1>1, <1>2

LEMMA MadeWhole ==
  ASSUME NEW c \in DOMAIN Stores, NEW ctx, c = "ddt_init" \/ Whole(ctx)
  PROVE  Whole(Made(c, ctx))
<1> SUFFICES ASSUME NEW f \in Fields PROVE Made(c, ctx)[f] \in Right[f]
  BY DEF Whole
<1>1. CASE \E k \in DOMAIN Stores[c] : Decides(c, k, f)
  <2> PICK k \in DOMAIN Stores[c] : Decides(c, k, f)
    BY <1>1
  <2>1. k \in 1 .. Len(Stores[c]) /\ Stores[c][k][1] = f
        /\ (k < Len(Stores[c]) => Stores[c][k + 1][1] # f)
    BY StoresTable DEF Decides, Finished
  <2> QED BY <2>1, StoresTable, MadeDecided DEF Finished, Good
<1>2. CASE ~ \E k \in DOMAIN Stores[c] : Decides(c, k, f)
  <2>1. c # "ddt_init"
    BY <1>2, InitWritesAll
  <2> QED BY <2>1, <1>2, MadeKept DEF Whole
<1> QED BY <1>1, <1>2

-----------------------------------------------------------------------------
(* The invariant *)

\* The names of calls, and that device identifiers are not 0.
LEMMA Names ==
  /\ "ddt_init" \in DOMAIN Stores /\ "none" \notin DOMAIN Stores /\ "ddt_init" # "none"
  /\ \A c \in Calls : c \in DOMAIN Stores /\ c # "none" /\ c # "ddt_init"
  /\ DIDs \subseteq Nat /\ 0 \notin DIDs /\ DID_MIN \in DIDs
  /\ \A d \in Devices : d \in DIDs /\ d # 0
BY ContextsAssumption DEF DIDs, Stores

LEMMA NextIdTyped ==
  ASSUME NEW id \in 0 .. MaxId
  PROVE  NextId(id) \in 1 .. MaxId /\ NextId(id) # id
BY ContextsAssumption DEF NextId

LEMMA InitInv == Init => ContextInv
<1> SUFFICES ASSUME Init PROVE ContextInv
  OBVIOUS
<1> USE DEF Init
<1>1. TypeOK
  <2>1. Blank \in [Fields -> Values]
    BY DEF Blank, Values
  <2>2. dma \in [Devices -> [request : Transfers, next : 1 .. MaxId, last : 0 .. MaxId,
                             config : {"reset", "plain"}]]
    <3>1. Requests \subseteq Transfers
      BY ContextsAssumption DEF Transfers
    <3> QED BY <3>1, ContextsAssumption
  <2>3. engine \in [Devices -> [active : BOOLEAN, id : 0 .. MaxId, request : Transfers,
                                read : [Fields -> Values \cup {"unread"}]]]
    <3>1. Unread \in [Fields -> Values \cup {"unread"}]
      BY DEF Unread
    <3> QED BY <2>2, <3>1, ContextsAssumption DEF AtRest
  <2>4. Len(Stores["ddt_init"]) \in Nat \ {0}
    BY Names, StoresTable DEF Finished
  <2>5. next \in 1 .. (IF call = "none" THEN 1 ELSE Len(Stores[call]))
    BY <2>4, Names
  <2>6. root_ddt \in [DIDs -> [Fields -> Values]] /\ before \in [DIDs -> [Fields -> Values]]
    BY <2>1
  <2>7. poll \in Devices \cup {0} /\ trans_id \in 0 .. MaxId
    BY ContextsAssumption
  <2>8. /\ ddtp \in {"off", "bare", "1lvl"} /\ inval \in BOOLEAN
        /\ ddtc \in [Devices -> {None} \cup [Fields -> Values]]
        /\ call \in Calls \cup {"ddt_init", "none"} /\ did \in DIDs
        /\ status \in {"running", "error"}
    BY Names
  <2> HIDE DEF Init
  <2> QED BY <2>2, <2>3, <2>5, <2>6, <2>7, <2>8, Zenon DEF TypeOK
<1>2. Progress
  <2>1. \A f \in Fields : \E j \in 1 .. Len(Stores["ddt_init"]) : Stores["ddt_init"][j][1] = f
    BY InitWritesAll, StoresTable, Names DEF Finished, Decides
  <2> QED BY <2>1, Names DEF Progress, DIDs
<1>3. Excluded
  <2>1. NextId(0) = 1
    BY ContextsAssumption DEF NextId
  <2> QED BY <2>1, Names DEF Excluded, AtRest
<1>4. WholeContexts
  BY DEF WholeContexts
<1> QED BY <1>1, <1>2, <1>3, <1>4 DEF ContextInv

-----------------------------------------------------------------------------
(* One store of a call *)

\* What the store leaves of the entry it is in: a field that no later store
\* is to is what the call makes of it.
LEMMA FieldMade ==
  ASSUME TypeOK, Progress, Store, NEW f \in Fields,
         \A j \in next + 1 .. Len(Stores[call]) : Stores[call][j][1] # f
  PROVE  root_ddt'[did][f] = Made(call, before[did])[f]
<1> DEFINE S == Stores[call]
<1>1. call \in DOMAIN Stores /\ call # "none"
  BY Names DEF TypeOK, Store
<1>2. Finished(S)
  BY <1>1, StoresTable
<1>3. next \in 1 .. Len(S) /\ next \in DOMAIN S /\ Len(S) \in Nat
  BY <1>1, <1>2 DEF TypeOK, Finished
<1>4. root_ddt'[did] = [root_ddt[did] EXCEPT ![S[next][1]] = S[next][2]]
  BY DEF TypeOK, Store
<1>5. root_ddt[did] \in [Fields -> Values]
  BY DEF TypeOK
<1>6. CASE S[next][1] = f
  <2>1. Decides(call, next, f)
    BY <1>6 DEF Decides
  <2>2. Made(call, before[did])[f] = S[next][2]
    BY <1>1, <1>3, <2>1, MadeDecided
  <2> QED BY <1>4, <1>5, <1>6, <2>2
<1>7. CASE S[next][1] # f
  <2>1. root_ddt'[did][f] = root_ddt[did][f]
    BY <1>4, <1>5, <1>7
  <2>2. ~ \E j \in next .. Len(S) : S[j][1] = f
    BY <1>3, <1>7
  <2>3. root_ddt[did][f] = Made(call, before[did])[f]
    BY <1>1, <2>2, Names DEF Progress, TypeOK
  <2> QED BY <2>1, <2>3
<1> QED BY <1>6, <1>7

\* When the loop ends, each entry is what the call makes of it.
LEMMA CallDone ==
  ASSUME TypeOK, Progress, Store, call' = "none"
  PROVE  /\ \A i \in DIDs : root_ddt'[i] = Made(call, before[i])
         /\ before' = root_ddt' /\ did' = DID_MIN /\ next' = 1
         /\ call \in Calls \cup {"ddt_init"}
<1>1. call \in DOMAIN Stores /\ call # "none" /\ call \in Calls \cup {"ddt_init"}
  BY Names DEF TypeOK, Store
<1>2. next = Len(Stores[call]) /\ did = DID_MAX /\ before' = root_ddt' /\ did' = DID_MIN /\ next' = 1
  BY <1>1 DEF Store, LastEntry
<1>3. ASSUME NEW i \in DIDs, NEW f \in Fields PROVE root_ddt'[i][f] = Made(call, before[i])[f]
  <2>1. CASE i = did
    <3>1. Len(Stores[call]) \in Nat
      BY <1>1, StoresTable DEF Finished
    <3> QED BY <1>2, <2>1, <3>1, FieldMade
  <2>2. CASE i # did
    <3>1. i < did
      BY <1>2, <2>2, ContextsAssumption DEF DIDs
    <3>2. root_ddt'[i] = root_ddt[i]
      BY <2>2 DEF Store, TypeOK
    <3> QED BY <1>1, <3>1, <3>2 DEF Progress
  <2> QED BY <2>1, <2>2
<1>4. ASSUME NEW i \in DIDs PROVE root_ddt'[i] = Made(call, before[i])
  <2>1. Made(call, before[i]) \in [Fields -> Values]
    BY <1>1, MadeIsContext DEF TypeOK
  <2>2. root_ddt'[i] \in [Fields -> Values]
    <3>1. Stores[call][next][2] \in Values /\ Stores[call][next][1] \in Fields
      BY <1>1, StoresTable DEF Finished, Good, TypeOK
    <3> QED BY <3>1 DEF Store, TypeOK
  <2> QED BY <1>3, <2>1, <2>2
<1> QED BY <1>1, <1>2, <1>4

LEMMA StoreTyped ==
  ASSUME TypeOK, Store
  PROVE  TypeOK'
<1>1. call \in DOMAIN Stores /\ call # "none" /\ call \in Calls \cup {"ddt_init"}
  BY Names DEF TypeOK, Store
<1>2. /\ Len(Stores[call]) \in Nat \ {0}
      /\ Stores[call][next][1] \in Fields /\ Stores[call][next][2] \in Values
  BY <1>1, StoresTable DEF Finished, Good, TypeOK
<1>3. root_ddt' \in [DIDs -> [Fields -> Values]] /\ before' \in [DIDs -> [Fields -> Values]]
  BY <1>2 DEF TypeOK, Store
<1>4. did' \in DIDs
  BY Names, ContextsAssumption DEF TypeOK, Store, LastEntry, DIDs
<1>5. call' \in {call, "none"}
  BY DEF Store
<1>6. next' \in 1 .. (IF call' = "none" THEN 1 ELSE Len(Stores[call']))
  <2>1. CASE call' = "none"
    BY <1>1, <2>1 DEF Store
  <2>2. CASE call' = call
    BY <1>1, <1>2, <2>2 DEF Store, TypeOK
  <2> QED BY <1>5, <2>1, <2>2
<1> QED BY <1>1, <1>3, <1>4, <1>5, <1>6 DEF TypeOK, Store, wait

LEMMA StoreProgress ==
  ASSUME TypeOK, Progress, Store
  PROVE  Progress'
<1>1. call \in DOMAIN Stores /\ call # "none" /\ Len(Stores[call]) \in Nat \ {0}
      /\ DOMAIN Stores[call] = 1 .. Len(Stores[call])
  BY Names, StoresTable DEF TypeOK, Store, Finished
<1>2. ASSUME NEW i \in DIDs, i # did PROVE root_ddt'[i] = root_ddt[i]
  BY <1>2 DEF Store, TypeOK
<1>3. CASE call' = "none"
  <2>1. /\ \A i \in DIDs : before'[i] = Made(call, before[i])
        /\ before' = root_ddt' /\ did' = DID_MIN
    BY <1>3, CallDone
  <2>2. ASSUME NEW i \in DIDs PROVE Whole(before'[i])
    <3>1. call = "ddt_init" \/ Whole(before[i])
      BY DEF Progress
    <3> QED BY <1>1, <2>1, <3>1, MadeWhole
  <2> QED BY <1>3, <2>1, <2>2 DEF Progress
<1>4. CASE call' # "none"
  <2>1. call' = call /\ before' = before
    BY <1>4 DEF Store
  <2>2. CASE next # Len(Stores[call])
    <3>1. did' = did /\ next' = next + 1
      BY <2>2 DEF Store
    <3>2. ASSUME NEW i \in DIDs, NEW f \in Fields
          PROVE  /\ i < did => root_ddt'[i][f] = Made(call, before[i])[f]
                 /\ i > did => root_ddt'[i][f] = before[i][f]
      BY <1>1, <1>2 DEF Progress, TypeOK, DIDs
    <3>3. ASSUME NEW f \in Fields,
                 ~ \E j \in next + 1 .. Len(Stores[call]) : Stores[call][j][1] = f
          PROVE  root_ddt'[did][f] = Made(call, before[did])[f]
      BY <3>3, FieldMade
    <3> QED BY <1>4, <2>1, <3>1, <3>2, <3>3 DEF Progress
  <2>3. CASE next = Len(Stores[call])
    <3>1. did' = did + 1 /\ next' = 1 /\ did # DID_MAX
      BY <1>1, <1>4, <2>3 DEF Store, LastEntry
    <3>2. ASSUME NEW i \in DIDs, NEW f \in Fields, i < did'
          PROVE  root_ddt'[i][f] = Made(call, before[i])[f]
      <4>1. CASE i = did
        BY <1>1, <2>3, <4>1, FieldMade
      <4>2. CASE i # did
        <5>1. i < did
          BY <3>1, <3>2, <4>2 DEF TypeOK, DIDs
        <5> QED BY <1>1, <1>2, <4>2, <5>1 DEF Progress
      <4> QED BY <4>1, <4>2
    <3>3. ASSUME NEW i \in DIDs, NEW f \in Fields, i > did
          PROVE  root_ddt'[i][f] = before[i][f]
      <4>1. i # did
        BY <3>3, Names DEF TypeOK
      <4>2. root_ddt[i][f] = before[i][f]
        BY <1>1, <3>3 DEF Progress
      <4> QED BY <1>2, <4>1, <4>2
    <3>4. ASSUME NEW f \in Fields, did' \in DIDs,
                 ~ \E j \in 1 .. Len(Stores[call]) : Stores[call][j][1] = f
          PROVE  root_ddt'[did'][f] = Made(call, before[did'])[f]
      <4>1. root_ddt'[did'][f] = before[did'][f]
        BY <3>1, <3>3, <3>4 DEF TypeOK, DIDs
      <4>2. Made(call, before[did'])[f] = before[did'][f]
        BY <1>1, <3>4, MadeKept DEF Decides
      <4> QED BY <4>1, <4>2
    <3>5. ASSUME NEW i \in DIDs, i > did' PROVE i > did
      BY <3>1, <3>5 DEF TypeOK, DIDs
    <3> QED BY <1>4, <2>1, <3>1, <3>2, <3>3, <3>4, <3>5 DEF Progress
  <2> QED BY <2>2, <2>3
<1> QED BY <1>3, <1>4

-----------------------------------------------------------------------------
(* The other steps *)

\* Whoever does not store leaves the calls as they are.
LEMMA ProgressKept ==
  ASSUME Progress, UNCHANGED <<root_ddt, did, next, before>>, call' = call
  PROVE  Progress'
BY DEF Progress

\* A call starts.
LEMMA CallTyped ==
  ASSUME TypeOK, Progress, CallContexts
  PROVE  TypeOK' /\ Progress'
<1>1. PICK c \in Calls : call = "none" /\ call' = c
                        /\ UNCHANGED <<root_ddt, did, next, before, ddtp, ddtc, inval, dma, engine, wait, status>>
  BY DEF CallContexts, Idle
<1>2. c \in DOMAIN Stores /\ c # "none" /\ c # "ddt_init" /\ Len(Stores[c]) \in Nat \ {0}
      /\ DOMAIN Stores[c] = 1 .. Len(Stores[c])
  BY Names, StoresTable DEF Finished
<1>3. next = 1 /\ did = DID_MIN /\ root_ddt = before /\ (\A i \in DIDs : Whole(before[i]))
  BY <1>1, Names DEF TypeOK, Progress
<1>4. TypeOK'
  <2>1. next' \in 1 .. (IF call' = "none" THEN 1 ELSE Len(Stores[call']))
    BY <1>1, <1>2, <1>3
  <2> QED BY <1>1, <2>1 DEF TypeOK, wait
<1>5. Progress'
  <2>1. ASSUME NEW i \in DIDs, NEW f \in Fields,
               ~ \E j \in 1 .. Len(Stores[c]) : Stores[c][j][1] = f
        PROVE  Made(c, before[i])[f] = before[i][f]
    BY <1>2, <2>1, MadeKept DEF Decides
  <2>2. \A i \in DIDs : ~ (i < DID_MIN)
    BY ContextsAssumption DEF DIDs
  <2> QED BY <1>1, <1>2, <1>3, <2>1, <2>2 DEF Progress
<1> QED BY <1>4, <1>5

\* No device works while a call is in progress.
LEMMA AtWork ==
  ASSUME TypeOK, Progress, Excluded, NEW d \in Devices, engine[d].active
  PROVE  /\ poll = d /\ call = "none" /\ used = None
         /\ d \in DIDs /\ root_ddt[d] = before[d] /\ Whole(before[d])
BY Names DEF Excluded, Progress

\* The steps of the calls and of the queue, which leave the devices alone.
LEMMA DevicesLeft ==
  ASSUME TypeOK, Progress, Excluded, WholeContexts,
         UNCHANGED <<dma, engine, poll, trans_id, used>>,
         \A d \in Devices : engine[d].active => root_ddt' = root_ddt,
         call' # "none" => poll = 0,
         \A d \in Devices : ddtc'[d] \in {ddtc[d], None}
  PROVE  Excluded' /\ WholeContexts'
<1>1. Excluded'
  BY DEF Excluded
<1>2. WholeContexts'
  BY DEF WholeContexts
<1> QED BY <1>1, <1>2

\* A context that has been read to the end is the one the calls have made.
LEMMA ReadWhole ==
  ASSUME TypeOK, Progress, Excluded, NEW d \in Devices, engine[d].active,
         \A f \in Fields : engine[d].read[f] # "unread"
  PROVE  engine[d].read = before[d] /\ Whole(engine[d].read)
<1>1. /\ engine[d].read \in [Fields -> Values \cup {"unread"}]
      /\ before[d] \in [Fields -> Values]
  BY AtWork DEF TypeOK
<1>2. \A f \in Fields : engine[d].read[f] = before[d][f]
  BY AtWork DEF Excluded
<1>3. engine[d].read = before[d]
  BY <1>1, <1>2
<1> QED BY <1>3, AtWork

\* Setting up and launching a device that is at rest.
LEMMA SetupKeeps ==
  ASSUME TypeOK, Excluded, WholeContexts, idma_setup \/ idma_setup_addr
  PROVE  TypeOK' /\ Excluded' /\ WholeContexts'
<1>1. PICK d \in Devices, r \in Transfers, k \in {"reset", "plain"} :
        dma' = [dma EXCEPT ![d].request = r, ![d].config = k]
  <2>1. CASE idma_setup
    <3>1. PICK d \in Devices, r \in Requests :
            dma' = [dma EXCEPT ![d].request = r, ![d].config = "plain"]
      BY <2>1 DEF idma_setup
    <3>2. r \in Transfers
      BY ContextsAssumption DEF Transfers
    <3> QED BY <3>1, <3>2
  <2>2. CASE idma_setup_addr
    <3>1. PICK d \in Devices, r \in Requests :
            /\ dma[d].config = "plain"
            /\ dma' = [dma EXCEPT ![d].request = Readdress(@, r)]
      BY <2>2 DEF idma_setup_addr
    <3>2. Readdress(dma[d].request, r) \in Transfers
      <4>1. dma[d].request \in Transfers
        BY DEF TypeOK
      <4>2. r.src \in {q.src : q \in Requests} /\ r.dest \in {q.dest : q \in Requests}
        OBVIOUS
      <4> QED BY <4>1, <4>2 DEF Transfers, Readdress
    <3>3. dma' = [dma EXCEPT ![d].request = Readdress(dma[d].request, r), ![d].config = "plain"]
      BY <3>1 DEF TypeOK
    <3> QED BY <3>2, <3>3
  <2> QED BY <2>1, <2>2
<1>2. poll = 0 /\ UNCHANGED <<ddt, ddtp, ddtc, inval, engine, wait, status>>
  BY DEF idma_setup, idma_setup_addr, Idle
<1>3. TypeOK'
  <2>1. dma \in [Devices -> [request : Transfers, next : 1 .. MaxId, last : 0 .. MaxId,
                             config : {"reset", "plain"}]]
    BY DEF TypeOK
  <2>2. dma' \in [Devices -> [request : Transfers, next : 1 .. MaxId, last : 0 .. MaxId,
                              config : {"reset", "plain"}]]
    BY <1>1, <2>1
  <2> QED BY <1>2, <2>2 DEF TypeOK, ddt, wait
<1>4. ASSUME NEW e \in Devices
      PROVE  ~engine[e].active /\ dma'[e].next = dma[e].next /\ dma'[e].last = dma[e].last
  BY <1>1, <1>2, Names DEF Excluded, TypeOK
<1>5. Excluded'
  BY <1>2, <1>4, Names DEF Excluded, ddt, wait
<1>6. WholeContexts'
  BY <1>2 DEF WholeContexts
<1> QED BY <1>3, <1>5, <1>6

LEMMA LaunchKeeps ==
  ASSUME TypeOK, Excluded, WholeContexts, Launch
  PROVE  TypeOK' /\ Excluded' /\ WholeContexts'
<1>1. PICK d \in Devices :
        /\ Idle
        /\ poll' = d /\ trans_id' = dma[d].next
        /\ dma' = [dma EXCEPT ![d].next = NextId(@)]
        /\ engine' = [engine EXCEPT ![d] = [active |-> TRUE, id |-> dma[d].next,
                                            request |-> dma[d].request, read |-> Unread]]
        /\ UNCHANGED <<ddt, ddtp, ddtc, inval, used, status>>
  BY DEF Launch, Launched
<1>2. poll = 0 /\ used = None /\ call = "none"
  BY <1>1 DEF Idle, Excluded
<1>3. \A e \in Devices : ~engine[e].active /\ dma[e].next = NextId(dma[e].last)
  BY <1>2, Names DEF Excluded
<1>4. dma[d].next \in 1 .. MaxId /\ dma[d].next \in 0 .. MaxId /\ dma[d].request \in Transfers
  BY ContextsAssumption DEF TypeOK
<1>5. NextId(dma[d].next) \in 1 .. MaxId
  BY <1>4, NextIdTyped
<1>6. TypeOK'
  <2>1. dma' \in [Devices -> [request : Transfers, next : 1 .. MaxId, last : 0 .. MaxId,
                              config : {"reset", "plain"}]]
    <3>1. dma \in [Devices -> [request : Transfers, next : 1 .. MaxId, last : 0 .. MaxId,
                               config : {"reset", "plain"}]]
      BY DEF TypeOK
    <3> QED BY <1>1, <1>5, <3>1
  <2>2. engine' \in [Devices -> [active : BOOLEAN, id : 0 .. MaxId, request : Transfers,
                                 read : [Fields -> Values \cup {"unread"}]]]
    BY <1>1, <1>4 DEF TypeOK, Unread
  <2> QED BY <1>1, <1>4, <2>1, <2>2 DEF TypeOK, ddt
<1>7. Excluded'
  <2>1. ASSUME NEW e \in Devices, e # d
        PROVE  ~engine'[e].active /\ dma'[e].next = NextId(dma'[e].last)
    BY <1>1, <1>3, <2>1 DEF TypeOK
  <2>2. /\ engine'[d] = [active |-> TRUE, id |-> dma[d].next, request |-> dma[d].request, read |-> Unread]
        /\ dma'[d].next = NextId(dma[d].next) /\ dma'[d].last = dma[d].last
        /\ dma'[d].request = dma[d].request
    BY <1>1 DEF TypeOK
  <2>3. \A f \in Fields : Unread[f] = "unread"
    BY DEF Unread
  <2>4. poll' # 0 /\ used' = None /\ call' = "none"
    BY <1>1, <1>2, Names DEF ddt
  <2> QED BY <1>1, <1>3, <2>1, <2>2, <2>3, <2>4 DEF Excluded
<1>8. WholeContexts'
  BY <1>1 DEF WholeContexts
<1> QED BY <1>6, <1>7, <1>8

\* The transfer that is waited for is the one that is done.
LEMMA PollKeeps ==
  ASSUME TypeOK, Excluded, WholeContexts, Poll
  PROVE  /\ TypeOK' /\ Excluded' /\ WholeContexts'
         /\ used # None
<1>1. /\ poll # 0 /\ dma[poll].last = trans_id
      /\ poll' = 0 /\ trans_id' = 0 /\ used' = None
      /\ UNCHANGED <<ddt, ddtp, ddtc, inval, dma, engine, status>>
  BY DEF Poll, Complete
<1>2. poll \in Devices /\ dma[poll].last \in 0 .. MaxId
  BY <1>1 DEF TypeOK
<1>3. ~engine[poll].active
  BY <1>1, <1>2, NextIdTyped DEF Excluded
<1>4. used # None
  BY <1>1, <1>2, <1>3 DEF Excluded
<1>5. \A d \in Devices : ~engine[d].active
  BY <1>3 DEF Excluded
<1>6. TypeOK'
  BY <1>1, ContextsAssumption DEF TypeOK, ddt
<1>7. Excluded'
  BY <1>1, <1>5, Names DEF Excluded, ddt
<1>8. WholeContexts'
  BY <1>1 DEF WholeContexts
<1> QED BY <1>4, <1>6, <1>7, <1>8

LEMMA ReadFieldKeeps ==
  ASSUME TypeOK, Progress, Excluded, WholeContexts, ReadField
  PROVE  TypeOK' /\ Excluded' /\ WholeContexts'
<1>1. PICK d \in Devices, f \in Fields :
        /\ engine[d].active
        /\ engine' = [engine EXCEPT ![d].read[f] = root_ddt[d][f]]
        /\ UNCHANGED <<ddt, ddtp, ddtc, inval, dma, wait, status>>
  BY ContextsAssumption DEF ReadField, Walks
<1>2. root_ddt[d][f] \in Values
  BY <1>1, AtWork DEF TypeOK
<1>3. TypeOK'
  <2>1. engine \in [Devices -> [active : BOOLEAN, id : 0 .. MaxId, request : Transfers,
                                read : [Fields -> Values \cup {"unread"}]]]
    BY DEF TypeOK
  <2>2. engine' \in [Devices -> [active : BOOLEAN, id : 0 .. MaxId, request : Transfers,
                                 read : [Fields -> Values \cup {"unread"}]]]
    BY <1>1, <1>2, <2>1
  <2> QED BY <1>1, <2>2 DEF TypeOK, ddt, wait
<1>4. ASSUME NEW e \in Devices
      PROVE  /\ engine'[e].active = engine[e].active /\ engine'[e].id = engine[e].id
             /\ engine'[e].request = engine[e].request
             /\ \A g \in Fields : engine'[e].read[g] \in {engine[e].read[g], root_ddt[e][g]}
  BY <1>1 DEF TypeOK
<1>5. Excluded'
  BY <1>1, <1>4 DEF Excluded, ddt, wait
<1>6. WholeContexts'
  BY <1>1 DEF WholeContexts
<1> QED BY <1>3, <1>5, <1>6

\* The context that a transfer of d uses.
Context(d) ==
  CASE ddtp # "1lvl" -> None
    [] ddtp = "1lvl" /\ ddtc[d] # None -> ddtc[d]
    [] OTHER -> engine[d].read

LEMMA TransferKeeps ==
  ASSUME TypeOK, Progress, Excluded, WholeContexts, Transfer
  PROVE  TypeOK' /\ Excluded' /\ WholeContexts'
<1>1. PICK d \in Devices :
        /\ engine[d].active
        /\ Walks(d) => \A f \in Fields : engine[d].read[f] # "unread"
        /\ used' = <<engine[d].request, Context(d)>>
        /\ ddtc' = IF Walks(d) THEN [ddtc EXCEPT ![d] = Context(d)] ELSE ddtc
        /\ dma' = [dma EXCEPT ![d].last = engine[d].id]
        /\ engine' = [engine EXCEPT ![d] = AtRest(engine[d].request)]
        /\ UNCHANGED <<ddt, ddtp, inval, poll, trans_id, status>>
  BY DEF Transfer, Context
<1>2. /\ poll = d /\ used = None /\ engine[d].id = trans_id
      /\ dma[d].next = NextId(engine[d].id)
  BY <1>1 DEF Excluded
<1>3. used' # None
  BY <1>1 DEF None
<1>4. TypeOK'
  <2>1. /\ dma \in [Devices -> [request : Transfers, next : 1 .. MaxId, last : 0 .. MaxId,
                                config : {"reset", "plain"}]]
        /\ engine \in [Devices -> [active : BOOLEAN, id : 0 .. MaxId, request : Transfers,
                                   read : [Fields -> Values \cup {"unread"}]]]
    BY DEF TypeOK
  <2>2. dma' \in [Devices -> [request : Transfers, next : 1 .. MaxId, last : 0 .. MaxId,
                              config : {"reset", "plain"}]]
    BY <1>1, <2>1
  <2>3. engine' \in [Devices -> [active : BOOLEAN, id : 0 .. MaxId, request : Transfers,
                                 read : [Fields -> Values \cup {"unread"}]]]
    <3>1. Unread \in [Fields -> Values \cup {"unread"}]
      BY DEF Unread
    <3> QED BY <1>1, <2>1, <3>1, ContextsAssumption DEF AtRest
  <2>4. ddtc' \in [Devices -> {None} \cup [Fields -> Values]]
    <3>1. Walks(d) => Context(d) = before[d] /\ before[d] \in [Fields -> Values]
      BY <1>1, ReadWhole, AtWork DEF Walks, Context, TypeOK
    <3>2. ddtc \in [Devices -> {None} \cup [Fields -> Values]]
      BY DEF TypeOK
    <3> QED BY <1>1, <3>1, <3>2
  <2> QED BY <1>1, <2>2, <2>3, <2>4 DEF TypeOK, ddt
<1>5. Excluded'
  <2>1. ASSUME NEW e \in Devices, e # d
        PROVE  /\ ~engine'[e].active /\ dma'[e].next = dma[e].next /\ dma'[e].last = dma[e].last
               /\ dma[e].next = NextId(dma[e].last)
    BY <1>1, <1>2, <2>1 DEF TypeOK, Excluded
  <2>2. /\ ~engine'[d].active /\ dma'[d].next = dma[d].next /\ dma'[d].last = engine[d].id
    BY <1>1 DEF TypeOK, AtRest
  <2>3. poll' = d /\ trans_id' = trans_id /\ call' = call /\ poll' # 0 /\ call = "none"
    BY <1>1, <1>2, AtWork, Names DEF ddt
  <2> QED BY <1>2, <1>3, <2>1, <2>2, <2>3 DEF Excluded
<1>6. WholeContexts'
  <2>1. CASE Walks(d)
    <3>1. Context(d) = engine[d].read
      BY <2>1 DEF Walks, Context
    <3>2. Whole(Context(d))
      BY <1>1, <2>1, <3>1, ReadWhole
    <3>3. ddtc' = [ddtc EXCEPT ![d] = Context(d)] /\ DOMAIN ddtc = Devices
      BY <1>1, <2>1 DEF TypeOK
    <3> QED BY <3>2, <3>3 DEF WholeContexts
  <2>2. CASE ~Walks(d)
    BY <1>1, <2>2 DEF WholeContexts
  <2> QED BY <2>1, <2>2
<1> QED BY <1>4, <1>5, <1>6

LEMMA StepInv ==
  ASSUME ContextInv, [Next]_vars
  PROVE  ContextInv'
<1>0. TypeOK /\ Progress /\ Excluded /\ WholeContexts
  BY DEF ContextInv
<1>1. CASE CallContexts
  <2>1. UNCHANGED <<dma, engine, poll, trans_id, used, root_ddt, ddtc>> /\ poll = 0
    BY <1>1 DEF CallContexts, Idle, wait
  <2> QED BY <1>0, <1>1, <2>1, CallTyped, DevicesLeft DEF ContextInv
<1>2. CASE Store
  <2>1. /\ UNCHANGED <<dma, engine, poll, trans_id, used, ddtc>> /\ call # "none"
        /\ poll = 0 /\ \A d \in Devices : ~engine[d].active
    BY <1>0, <1>2, Names DEF Store, wait, Excluded
  <2> QED BY <1>0, <1>2, <2>1, StoreTyped, StoreProgress, DevicesLeft DEF ContextInv
<1>3. CASE SetDdtp
  <2>1. /\ UNCHANGED <<dma, engine, poll, trans_id, used, ddtc, root_ddt, did, next, before, call>>
        /\ call = "none"
    BY <1>3 DEF SetDdtp, Idle, ddt, wait
  <2>2. TypeOK'
    BY <1>0, <1>3 DEF SetDdtp, TypeOK, ddt, wait
  <2> QED BY <1>0, <2>1, <2>2, ProgressKept, DevicesLeft DEF ContextInv
<1>4. CASE ddt_inval
  <2>1. /\ UNCHANGED <<dma, engine, poll, trans_id, used, ddtc, root_ddt, did, next, before, call>>
        /\ call = "none"
    BY <1>4 DEF ddt_inval, Idle, ddt, wait
  <2>2. TypeOK'
    BY <1>0, <1>4 DEF ddt_inval, TypeOK, ddt, wait
  <2> QED BY <1>0, <2>1, <2>2, ProgressKept, DevicesLeft DEF ContextInv
<1>5. CASE idma_setup \/ idma_setup_addr
  BY <1>0, <1>5, SetupKeeps, ProgressKept DEF ContextInv, idma_setup, idma_setup_addr, ddt
<1>6. CASE Launch
  BY <1>0, <1>6, LaunchKeeps, ProgressKept DEF ContextInv, Launch, ddt
<1>7. CASE Refused
  <2>1. /\ UNCHANGED <<dma, engine, poll, trans_id, used, ddtc, root_ddt, did, next, before, call>>
        /\ call = "none"
    BY <1>7 DEF Refused, Idle, ddt, wait
  <2>2. TypeOK'
    BY <1>0, <1>7 DEF Refused, TypeOK, ddt, wait
  <2> QED BY <1>0, <2>1, <2>2, ProgressKept, DevicesLeft DEF ContextInv
<1>8. CASE Poll
  BY <1>0, <1>8, PollKeeps, ProgressKept DEF ContextInv, Poll, ddt
<1>9. CASE Execute
  <2>1. /\ UNCHANGED <<dma, engine, poll, trans_id, used, root_ddt, did, next, before, call>>
        /\ ddtc' = [d \in Devices |-> None]
    BY <1>9 DEF Execute, ddt, wait
  <2>2. call # "none" => poll = 0
    BY <1>0 DEF Excluded
  <2>3. TypeOK'
    BY <1>0, <1>9 DEF Execute, TypeOK, ddt, wait
  <2> QED BY <1>0, <2>1, <2>2, <2>3, ProgressKept, DevicesLeft DEF ContextInv
<1>10. CASE ReadField
  BY <1>0, <1>10, ReadFieldKeeps, ProgressKept DEF ContextInv, ReadField, ddt
<1>11. CASE Transfer
  BY <1>0, <1>11, TransferKeeps, ProgressKept DEF ContextInv, Transfer, ddt
<1>12. CASE UNCHANGED vars
  <2>1. UNCHANGED <<dma, engine, poll, trans_id, used, ddtc, root_ddt, did, next, before, call>>
    BY <1>12 DEF vars, ddt, wait
  <2>2. TypeOK'
    BY <1>0, <1>12 DEF TypeOK, vars, ddt, wait
  <2>3. call # "none" => poll = 0
    BY <1>0 DEF Excluded
  <2> QED BY <1>0, <2>1, <2>2, <2>3, ProgressKept, DevicesLeft DEF ContextInv
<1> QED BY <1>1, <1>2, <1>3, <1>4, <1>5, <1>6, <1>7, <1>8, <1>9, <1>10, <1>11, <1>12 DEF Next

(* How far a call has come and which device may be at work, at every step. *)
THEOREM ContextInvariant == Spec => []ContextInv
<1>1. ContextInv /\ [Next]_vars => ContextInv'
  BY StepInv
<1> QED BY <1>1, InitInv, PTL DEF Spec

(* What the IOMMU has cached of a context is whole, for any devices, calls *)
(* of rv_iommu_set_*, transfers and order of reads.                        *)
THEOREM CachedContextsWhole == Spec => []WholeContexts
<1>1. ContextInv => WholeContexts
  BY DEF ContextInv
<1> QED BY <1>1, ContextInvariant, PTL

-----------------------------------------------------------------------------
(* The calls look atomic *)

LEMMA InitPromise == Init => Promise!Init
<1> SUFFICES ASSUME Init PROVE Promise!Init
  OBVIOUS
<1>1. [d \in Devices |-> before[d]] = [d \in Devices |-> Blank]
  BY Names DEF Init
<1>2. [d \in Devices |-> dma[d].request] \in [Devices -> Requests]
  BY DEF Init
<1> QED BY <1>1, <1>2 DEF Init, Promise!Init, None

\* What the abstract actions speak of.
LEMMA Mapped ==
  /\ UNCHANGED before => [d \in Devices |-> before[d]]' = [d \in Devices |-> before[d]]
  /\ UNCHANGED dma => [d \in Devices |-> dma[d].request]' = [d \in Devices |-> dma[d].request]
OBVIOUS

LEMMA StorePromise ==
  ASSUME ContextInv, Store
  PROVE  Promise!SetContexts \/ UNCHANGED Promise!vars
<1>1. TypeOK /\ Progress /\ Excluded /\ call # "none" /\ poll = 0
  BY DEF ContextInv, Excluded, Store
<1>2. UNCHANGED <<ddtp, ddtc, dma, poll, used>>
  BY DEF Store, wait
<1>3. CASE call' = "none"
  <2>1. /\ \A i \in DIDs : before'[i] = Made(call, before[i])
        /\ call \in Calls \cup {"ddt_init"}
    BY <1>1, <1>3, CallDone
  <2>2. [d \in Devices |-> before[d]]' = [d \in Devices |-> Made(call, [e \in Devices |-> before[e]][d])]
    BY <2>1, Names
  <2> QED BY <1>1, <1>2, <2>1, <2>2, Mapped DEF Promise!SetContexts, Promise!Idle
<1>4. CASE call' # "none"
  <2>1. before' = before
    BY <1>4 DEF Store
  <2> QED BY <1>2, <2>1, Mapped DEF Promise!vars
<1> QED BY <1>3, <1>4

LEMMA SetupPromise ==
  ASSUME ContextInv, idma_setup \/ idma_setup_addr
  PROVE  Promise!SetUp \/ Promise!SetUpAddresses
<1>1. TypeOK /\ poll = 0 /\ UNCHANGED <<ddtp, ddtc, before, poll, used>>
  BY DEF ContextInv, idma_setup, idma_setup_addr, Idle, ddt, wait
<1> DEFINE asked == [d \in Devices |-> dma[d].request]
<1>2. CASE idma_setup
  <2>1. PICK d \in Devices, r \in Requests :
          dma' = [dma EXCEPT ![d].request = r, ![d].config = "plain"]
    BY <1>2 DEF idma_setup
  <2>2. \A e \in Devices : dma'[e].request = IF e = d THEN r ELSE dma[e].request
    BY <1>1, <2>1 DEF TypeOK
  <2>3. asked' = [asked EXCEPT ![d] = r]
    BY <2>2
  <2> QED BY <1>1, <2>3, Mapped DEF Promise!SetUp, Promise!Idle
<1>3. CASE idma_setup_addr
  <2>1. PICK d \in Devices, r \in Requests : dma' = [dma EXCEPT ![d].request = Readdress(@, r)]
    BY <1>3 DEF idma_setup_addr
  <2>2. dma[d].request \in Transfers
    BY <1>1 DEF TypeOK
  <2>3. \A e \in Devices : dma'[e].request = IF e = d THEN Readdress(dma[d].request, r)
                                              ELSE dma[e].request
    BY <1>1, <2>1 DEF TypeOK
  <2>4. Readdress(dma[d].request, r) = [dma[d].request EXCEPT !.src = r.src, !.dest = r.dest]
    BY DEF Readdress
  <2>5. asked' = [asked EXCEPT ![d].src = r.src, ![d].dest = r.dest]
    BY <2>3, <2>4
  <2> QED BY <1>1, <2>5, Mapped DEF Promise!SetUpAddresses, Promise!Idle
<1> QED BY <1>2, <1>3

LEMMA TransferPromise ==
  ASSUME ContextInv, Transfer
  PROVE  Promise!Transfer
<1>0. TypeOK /\ Progress /\ Excluded
  BY DEF ContextInv
<1>1. PICK d \in Devices :
        /\ engine[d].active
        /\ Walks(d) => \A f \in Fields : engine[d].read[f] # "unread"
        /\ used' = <<engine[d].request, Context(d)>>
        /\ ddtc' = IF Walks(d) THEN [ddtc EXCEPT ![d] = Context(d)] ELSE ddtc
        /\ dma' = [dma EXCEPT ![d].last = engine[d].id]
        /\ UNCHANGED <<ddt, ddtp, poll>>
  BY DEF Transfer, Context
<1>2. poll = d /\ used = None /\ engine[d].request = dma[d].request
  BY <1>0, <1>1 DEF Excluded
<1> DEFINE ctx == CASE ddtp # "1lvl" -> << >>
                    [] ddtp = "1lvl" /\ ddtc[d] # << >> -> ddtc[d]
                    [] OTHER -> [e \in Devices |-> before[e]][d]
<1>3. Context(d) = ctx
  <2>1. CASE Walks(d)
    BY <1>0, <1>1, <2>1, ReadWhole DEF Context, None, Walks
  <2>2. CASE ~Walks(d)
    BY <1>1, <2>2 DEF Context, None, Walks
  <2> QED BY <2>1, <2>2
<1>4. ddtc' = IF ddtp = "1lvl" THEN [ddtc EXCEPT ![d] = ctx] ELSE ddtc
  <2>1. CASE Walks(d)
    BY <1>1, <1>3, <2>1 DEF Walks
  <2>2. CASE ~Walks(d) /\ ddtp = "1lvl"
    <3>1. Context(d) = ddtc[d]
      BY <1>1, <2>2 DEF Walks, Context
    <3> QED BY <1>0, <1>1, <1>3, <2>2, <3>1 DEF TypeOK
  <2>3. CASE ddtp # "1lvl"
    BY <1>1, <2>3 DEF Walks
  <2> QED BY <2>1, <2>2, <2>3
<1>5. UNCHANGED [e \in Devices |-> dma[e].request]
  BY <1>0, <1>1 DEF TypeOK
<1>6. UNCHANGED [e \in Devices |-> before[e]]
  BY <1>1 DEF ddt
<1>7. used' = <<[e \in Devices |-> dma[e].request][d], ctx>>
  BY <1>1, <1>2, <1>3
<1> HIDE DEF ctx
<1> QED BY <1>1, <1>2, <1>4, <1>5, <1>6, <1>7 DEF Promise!Transfer, None, ctx

LEMMA StepPromise ==
  ASSUME ContextInv, [Next]_vars
  PROVE  Promise!Next \/ UNCHANGED Promise!vars
<1>0. TypeOK /\ Excluded /\ WholeContexts
  BY DEF ContextInv
<1>1. CASE CallContexts \/ ddt_inval \/ Refused \/ ReadField \/ UNCHANGED vars
  <2>1. UNCHANGED <<before, dma, ddtp, ddtc, poll, used>>
    BY <1>1 DEF CallContexts, ddt_inval, Refused, ReadField, vars, ddt, wait
  <2> QED BY <2>1, Mapped DEF Promise!vars
<1>2. CASE Store
  BY <1>2, StorePromise DEF Promise!Next
<1>3. CASE SetDdtp
  <2>1. PICK m \in {"off", "bare", "1lvl"} :
          /\ poll = 0 /\ ddtp' = m /\ UNCHANGED <<before, dma, ddtc, poll, used>>
    BY <1>3 DEF SetDdtp, Idle, ddt, wait
  <2>2. Promise!SetMode
    BY <2>1, Mapped DEF Promise!SetMode, Promise!Idle
  <2> QED BY <2>2 DEF Promise!Next
<1>4. CASE idma_setup \/ idma_setup_addr
  BY <1>4, SetupPromise DEF Promise!Next
<1>5. CASE Launch
  <2>1. PICK d \in Devices :
          /\ poll = 0 /\ poll' = d /\ dma' = [dma EXCEPT ![d].next = NextId(@)]
          /\ UNCHANGED <<before, ddtp, ddtc, used>>
    BY <1>5 DEF Launch, Launched, Idle, ddt
  <2>2. UNCHANGED [e \in Devices |-> dma[e].request]
    BY <1>0, <2>1 DEF TypeOK
  <2>3. Promise!Exec
    BY <2>1, <2>2, Mapped DEF Promise!Exec, Promise!Idle
  <2> QED BY <2>3 DEF Promise!Next
<1>6. CASE Poll
  <2>1. used # None /\ poll' = 0 /\ used' = None /\ UNCHANGED <<before, ddtp, ddtc, dma>>
    BY <1>0, <1>6, PollKeeps DEF Poll, ddt
  <2>2. Promise!Return
    BY <2>1, Mapped DEF Promise!Return, None
  <2> QED BY <2>2 DEF Promise!Next
<1>7. CASE Execute
  <2>1. /\ ddtc' = [d \in Devices |-> None]
        /\ UNCHANGED <<before, ddtp, dma, poll, used>>
    BY <1>7 DEF Execute, ddt, wait
  <2>2. Promise!Invalidate
    BY <2>1, Mapped DEF Promise!Invalidate, None
  <2> QED BY <2>2 DEF Promise!Next
<1>8. CASE Transfer
  BY <1>8, TransferPromise DEF Promise!Next
<1> QED BY <1>1, <1>2, <1>3, <1>4, <1>5, <1>6, <1>7, <1>8 DEF Next

(* The stores of the calls and the reads of the IOMMU, in any order in     *)
(* which they can meet, amount to calls that change all contexts at once   *)
(* and to transfers that use one context as the calls have made it.        *)
THEOREM ContextsImplementAtomicCalls == Spec => ImplementsAtomicCalls
<1>1. ContextInv /\ [Next]_vars => [Promise!Next]_(Promise!vars)
  BY StepPromise
<1> QED BY <1>1, InitPromise, ContextInvariant, PTL
     DEF Spec, ImplementsAtomicCalls, Promise!Spec

=============================================================================
