------------------------------ MODULE Contexts ------------------------------
(***************************************************************************)
(* Device contexts and DMA transfers, store by store.  A call that changes *)
(* a mode walks over the entries of root_ddt and writes two or three       *)
(* double words of each; a transfer is set up by four stores, launched by  *)
(* reading next_transfer_id and waited for by polling.  Meanwhile the      *)
(* IOMMU reads the device context double word by double word.  Several     *)
(* devices take turns, as in latency_test.                                 *)
(***************************************************************************)
EXTENDS Naturals, Sequences

CONSTANTS
  DID_MIN, DID_MAX,
  Devices,         \* idma_ids
  Calls,           \* calls of rv_iommu_set_* that are made
  Requests,        \* source, destination and length of transfers
  MaxId,           \* transfer identifiers are 1 .. MaxId, then 1 again
  ReadOrder        \* in which order the IOMMU reads a context

VARIABLES
  root_ddt,          \* the device directory
  ddtp,              \* ddtp.mode
  ddtc,              \* the IOMMU's copy of each device's context, or None
  inval,             \* whether IODIR.INVAL_DDT waits in the command queue
  dma,               \* the registers of each device
  engine,            \* the transfer each device is at, and what the IOMMU has
                     \* read of its context
  call, did, next,   \* the call in progress, the loop's i, the next store
  poll, trans_id,    \* the device being polled, or 0, and for what
  status,            \* "running", or "error"
  before,            \* history: root_ddt without the stores of the call in progress
  used               \* history: the request and the context of the transfer
                     \* that is polled, once it is done

ddt  == <<root_ddt, call, did, next, before>>
wait == <<poll, trans_id, used>>
vars == <<ddt, ddtp, ddtc, inval, dma, engine, wait, status>>

Fields == {"tc", "iohgatp", "ta", "fsc", "msiptp", "msi_addr_mask", "msi_addr_pattern"}
DIDs   == DID_MIN .. DID_MAX
Values == {"0", "valid", "bare", "bare GSCID", "sv39", "sv39x4", "sv39x4 GSCID", "PSCID",
           "off", "flat", "MASK", "PATTERN"}
Blank  == [f \in Fields |-> "0"]
None   == << >>

\* The stores of each call to one entry.  iohgatp is written without and then
\* with the GSCID; set_msi_flat writes the mask where the pattern goes.
Stores ==
  [ddt_init |-> << <<"tc", "valid">>, <<"iohgatp", "bare">>, <<"iohgatp", "bare GSCID">>,
                   <<"ta", "PSCID">>, <<"fsc", "bare">>, <<"msiptp", "off">>,
                   <<"msi_addr_mask", "MASK">>, <<"msi_addr_pattern", "PATTERN">> >>,
   iosatp_bare    |-> << <<"ta", "PSCID">>, <<"fsc", "bare">> >>,
   iosatp_sv39    |-> << <<"ta", "PSCID">>, <<"fsc", "sv39">> >>,
   iohgatp_bare   |-> << <<"iohgatp", "bare">>, <<"iohgatp", "bare GSCID">> >>,
   iohgatp_sv39x4 |-> << <<"iohgatp", "sv39x4">>, <<"iohgatp", "sv39x4 GSCID">> >>,
   msi_off  |-> << <<"msiptp", "off">>, <<"msi_addr_mask", "MASK">>,
                   <<"msi_addr_pattern", "PATTERN">> >>,
   msi_flat |-> << <<"msiptp", "flat">>, <<"msi_addr_pattern", "MASK">>,
                   <<"msi_addr_pattern", "PATTERN">> >>]

ASSUME ContextsAssumption ==
  /\ DID_MIN \in Nat \ {0} /\ DID_MAX \in Nat /\ DID_MIN <= DID_MAX
  /\ Devices \subseteq DIDs
  /\ Calls \subseteq DOMAIN Stores \ {"ddt_init"}
  /\ MaxId \in Nat /\ MaxId > 1
  /\ \A r \in Requests : r = [src |-> r.src, dest |-> r.dest, num_bytes |-> r.num_bytes]
  /\ \A k \in DOMAIN ReadOrder : ReadOrder[k] \in Fields
  /\ \A f \in Fields : \E k \in DOMAIN ReadOrder : ReadOrder[k] = f

\* Store k of call c is its last one to field f, which decides what c makes
\* of the field.
Decides(c, k, f) ==
  /\ Stores[c][k][1] = f
  /\ \A j \in k + 1 .. Len(Stores[c]) : Stores[c][j][1] # f

Made(c, ctx) ==
  [f \in Fields |->
     IF \E k \in DOMAIN Stores[c] : Decides(c, k, f)
     THEN Stores[c][CHOOSE k \in DOMAIN Stores[c] : Decides(c, k, f)][2]
     ELSE ctx[f]]

\* What the requests and idma_setup_addr make of the registers.
Transfers == [src : {r.src : r \in Requests}, dest : {r.dest : r \in Requests},
              num_bytes : {r.num_bytes : r \in Requests}]

\* With a bug: the destination of the transfer before stays.
ReaddressSource(old, r) == [old EXCEPT !.src = r.src]

Readdress(old, r) == [old EXCEPT !.src = r.src, !.dest = r.dest]

NextId(id) == IF id = MaxId THEN 1 ELSE id + 1

Unread  == [f \in Fields |-> "unread"]
AtRest(r) == [active |-> FALSE, id |-> 0, request |-> r, read |-> Unread]

\* init_iommu is in rv_iommu_ddt_init; boot has cleared the directory, and the
\* first loop tc once more.
Init ==
  /\ root_ddt = [i \in DIDs |-> Blank] /\ before = root_ddt
  /\ call = "ddt_init" /\ did = DID_MIN /\ next = 1
  /\ ddtp = "off" /\ ddtc = [d \in Devices |-> None] /\ inval = FALSE
  /\ dma \in [Devices -> [request : Requests, next : {1}, last : {0}, config : {"reset"}]]
  /\ engine = [d \in Devices |-> AtRest(dma[d].request)]
  /\ poll = 0 /\ trans_id = 0 /\ status = "running" /\ used = None

-----------------------------------------------------------------------------
(* The hart *)

Idle == call = "none" /\ poll = 0 /\ status = "running"

CallContexts ==
  \E c \in Calls :
    /\ Idle
    /\ call' = c
    /\ UNCHANGED <<root_ddt, did, next, before, ddtp, ddtc, inval, dma, engine, wait, status>>

\* With a bug: the loop stops before DID_MAX.
LastEntryEarly == did = DID_MAX - 1

LastEntry == did = DID_MAX

\* One store of the loop's body, and the loop's end.
Store ==
  LET s     == Stores[call][next]
      last  == next = Len(Stores[call])
      done  == last /\ LastEntry
  IN /\ call # "none"
     /\ root_ddt' = [root_ddt EXCEPT ![did][s[1]] = s[2]]
     /\ next' = IF last THEN 1 ELSE next + 1
     /\ did' = CASE done -> DID_MIN [] last /\ ~done -> did + 1 [] OTHER -> did
     /\ call' = IF done THEN "none" ELSE call
     /\ before' = IF done THEN root_ddt' ELSE before
     /\ UNCHANGED <<ddtp, ddtc, inval, dma, engine, wait, status>>

SetDdtp ==
  \E m \in {"off", "bare", "1lvl"} :
    Idle /\ ddtp' = m /\ UNCHANGED <<ddt, ddtc, inval, dma, engine, wait, status>>

ddt_inval == Idle /\ inval' = TRUE /\ UNCHANGED <<ddt, ddtp, ddtc, dma, engine, wait, status>>

idma_setup ==
  \E d \in Devices, r \in Requests :
    /\ Idle
    /\ dma' = [dma EXCEPT ![d].request = r, ![d].config = "plain"]
    /\ UNCHANGED <<ddt, ddtp, ddtc, inval, engine, wait, status>>

\* The tests have called idma_setup before.
idma_setup_addr ==
  \E d \in Devices, r \in Requests :
    /\ Idle /\ dma[d].config = "plain"
    /\ dma' = [dma EXCEPT ![d].request = Readdress(@, r)]
    /\ UNCHANGED <<ddt, ddtp, ddtc, inval, engine, wait, status>>

\* With a bug: it waits for the transfer after the one launched.
LaunchedAfter(d) == NextId(dma[d].next)

Launched(d) == dma[d].next

\* idma_exec_transfer: reading next_transfer_id launches the transfer.
Launch ==
  \E d \in Devices :
    /\ Idle /\ dma[d].config = "plain"
    /\ poll' = d /\ trans_id' = Launched(d)
    /\ dma' = [dma EXCEPT ![d].next = NextId(@)]
    /\ engine' = [engine EXCEPT ![d] = [active |-> TRUE, id |-> dma[d].next,
                                        request |-> dma[d].request, read |-> Unread]]
    /\ UNCHANGED <<ddt, ddtp, ddtc, inval, used, status>>

\* It reads zero if the device does not take the transfer.
Refused ==
  Idle /\ status' = "error" /\ UNCHANGED <<ddt, ddtp, ddtc, inval, dma, engine, wait>>

\* With a bug: any completed transfer will do.
CompleteAny == dma[poll].last # 0

Complete == dma[poll].last = trans_id

Poll ==
  /\ poll # 0
  /\ Complete
  /\ poll' = 0 /\ trans_id' = 0 /\ used' = None
  /\ UNCHANGED <<ddt, ddtp, ddtc, inval, dma, engine, status>>

-----------------------------------------------------------------------------
(* The IOMMU and the devices *)

Execute ==
  /\ inval
  /\ inval' = FALSE
  /\ ddtc' = [d \in Devices |-> None]
  /\ UNCHANGED <<ddt, ddtp, dma, engine, wait, status>>

Walks(d) == engine[d].active /\ ddtp = "1lvl" /\ ddtc[d] = None

ReadField ==
  \E d \in Devices, k \in DOMAIN ReadOrder :
    LET f == ReadOrder[k]
    IN /\ Walks(d)
       /\ engine[d].read[f] = "unread"
       /\ \A j \in 1 .. k - 1 : engine[d].read[ReadOrder[j]] # "unread"
       /\ engine' = [engine EXCEPT ![d].read[f] = root_ddt[d][f]]
       /\ UNCHANGED <<ddt, ddtp, ddtc, inval, dma, wait, status>>

\* The context is known or read to the end, and the transfer runs, or faults.
Transfer ==
  \E d \in Devices :
    LET ctx == CASE ddtp # "1lvl" -> None
                 [] ddtp = "1lvl" /\ ddtc[d] # None -> ddtc[d]
                 [] OTHER -> engine[d].read
    IN /\ engine[d].active
       /\ Walks(d) => \A f \in Fields : engine[d].read[f] # "unread"
       /\ used' = <<engine[d].request, ctx>>
       /\ ddtc' = IF Walks(d) THEN [ddtc EXCEPT ![d] = ctx] ELSE ddtc
       /\ dma' = [dma EXCEPT ![d].last = engine[d].id]
       /\ engine' = [engine EXCEPT ![d] = AtRest(engine[d].request)]
       /\ UNCHANGED <<ddt, ddtp, inval, poll, trans_id, status>>

Next ==
  \/ CallContexts \/ Store \/ SetDdtp \/ ddt_inval
  \/ idma_setup \/ idma_setup_addr \/ Launch \/ Refused \/ Poll
  \/ Execute \/ ReadField \/ Transfer

\* A call goes on, and so do the IOMMU and the devices.
Spec ==
  /\ Init /\ [][Next]_vars
  /\ WF_vars(Store) /\ WF_vars(Poll) /\ WF_vars(ReadField) /\ WF_vars(Transfer)

-----------------------------------------------------------------------------
\* What each field of a context may hold when no call is writing it.
Right ==
  [tc |-> {"valid"}, iohgatp |-> {"bare GSCID", "sv39x4 GSCID"}, ta |-> {"PSCID"},
   fsc |-> {"bare", "sv39"}, msiptp |-> {"off", "flat"}, msi_addr_mask |-> {"MASK"},
   msi_addr_pattern |-> {"PATTERN"}]
Whole(ctx) == \A f \in Fields : ctx[f] \in Right[f]

TypeOK ==
  /\ root_ddt \in [DIDs -> [Fields -> Values]] /\ before \in [DIDs -> [Fields -> Values]]
  /\ ddtp \in {"off", "bare", "1lvl"} /\ inval \in BOOLEAN
  /\ ddtc \in [Devices -> {None} \cup [Fields -> Values]]
  /\ dma \in [Devices -> [request : Transfers, next : 1 .. MaxId, last : 0 .. MaxId,
                          config : {"reset", "plain"}]]
  /\ engine \in [Devices -> [active : BOOLEAN, id : 0 .. MaxId, request : Transfers,
                             read : [Fields -> Values \cup {"unread"}]]]
  /\ call \in Calls \cup {"ddt_init", "none"} /\ did \in DIDs
  /\ next \in 1 .. (IF call = "none" THEN 1 ELSE Len(Stores[call]))
  /\ poll \in Devices \cup {0} /\ trans_id \in 0 .. MaxId
  /\ status \in {"running", "error"}

\* A call in progress has made the entries below did, and the fields of that
\* one that it will not write again; what it began with is whole, but for
\* ddt_init.
Progress ==
  /\ call = "none" => did = DID_MIN /\ root_ddt = before
  /\ call # "ddt_init" => \A i \in DIDs : Whole(before[i])
  /\ call # "none" =>
       \A i \in DIDs, f \in Fields :
         /\ i < did => root_ddt[i][f] = Made(call, before[i])[f]
         /\ i = did => \/ \E j \in next .. Len(Stores[call]) : Stores[call][j][1] = f
                       \/ root_ddt[i][f] = Made(call, before[i])[f]
         /\ i > did => root_ddt[i][f] = before[i][f]

\* A device is at work only while the hart polls it, on what it was set up
\* for, and under an identifier that is not the last one complete.
Excluded ==
  /\ call # "none" => poll = 0
  /\ poll = 0 => used = None
  /\ \A d \in Devices :
       /\ engine[d].active => /\ poll = d /\ used = None
                              /\ engine[d].id = trans_id
                              /\ engine[d].id = NextId(dma[d].last)
                              /\ dma[d].next = NextId(engine[d].id)
                              /\ engine[d].request = dma[d].request
                              /\ \A f \in Fields : engine[d].read[f] \in {"unread", root_ddt[d][f]}
       /\ ~engine[d].active => dma[d].next = NextId(dma[d].last)
       /\ poll = d /\ ~engine[d].active => used # None /\ dma[d].last = trans_id

(* A context that the IOMMU has cached is whole: modes, GSCID and PSCID,   *)
(* MSI mask and pattern, though the calls write them one after the other.  *)
WholeContexts == \A d \in Devices : ddtc[d] # None => Whole(ddtc[d])

(* How far a call in progress has come; no device works meanwhile; so all  *)
(* that the IOMMU reads and caches is whole.                               *)
ContextInv == TypeOK /\ Progress /\ Excluded /\ WholeContexts

(* The stores of a call and the reads of the IOMMU look atomic.            *)
Promise ==
  INSTANCE AtomicCalls WITH
    mode <- ddtp, cached <- ddtc, waiting <- poll, result <- used,
    contexts <- [d \in Devices |-> before[d]],
    request <- [d \in Devices |-> dma[d].request],
    Calls <- Calls \cup {"ddt_init"}
ImplementsAtomicCalls == Promise!Spec

(* idma_exec_transfer returns.                                             *)
Returns == poll # 0 ~> poll = 0

=============================================================================
