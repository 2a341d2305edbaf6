----------------------------- MODULE AtomicCalls -----------------------------
(***************************************************************************)
(* What callers of rv_iommu_set_* and of the iDMA driver take for granted: *)
(* a call changes all device contexts at once, and idma_exec_transfer ends *)
(* after one transfer, the one its caller has set up, translated with one  *)
(* context as the calls have made it.                                      *)
(***************************************************************************)
CONSTANTS
  Devices,        \* the DMA devices
  Calls,          \* the calls that change device contexts
  Requests,       \* what a transfer can be: source, destination, length
  Blank,          \* the context at boot
  Made(_, _)      \* the context that a call makes of a context

VARIABLES
  mode,           \* of the IOMMU
  contexts,       \* the context of each device
  cached,         \* what the IOMMU has cached of it; << >> if nothing
  request,        \* what each device is set up for
  waiting,        \* the device of the transfer being waited for, or 0
  result          \* what that transfer did; << >> until it is done

vars == <<mode, contexts, cached, request, waiting, result>>

Init ==
  /\ mode = "off"
  /\ contexts = [d \in Devices |-> Blank] /\ cached = [d \in Devices |-> << >>]
  /\ request \in [Devices -> Requests]
  /\ waiting = 0 /\ result = << >>

Idle == waiting = 0

SetMode ==
  \E m \in {"off", "bare", "1lvl"} :
    Idle /\ mode' = m /\ UNCHANGED <<contexts, cached, request, waiting, result>>

SetContexts ==
  \E c \in Calls :
    /\ Idle
    /\ contexts' = [d \in Devices |-> Made(c, contexts[d])]
    /\ UNCHANGED <<mode, cached, request, waiting, result>>

\* An invalidation takes effect at any time after it was asked for.
Invalidate ==
  /\ cached' = [d \in Devices |-> << >>]
  /\ UNCHANGED <<mode, contexts, request, waiting, result>>

SetUp ==
  \E d \in Devices, r \in Requests :
    /\ Idle
    /\ request' = [request EXCEPT ![d] = r]
    /\ UNCHANGED <<mode, contexts, cached, waiting, result>>

\* The length stays what it was.
SetUpAddresses ==
  \E d \in Devices, r \in Requests :
    /\ Idle
    /\ request' = [request EXCEPT ![d].src = r.src, ![d].dest = r.dest]
    /\ UNCHANGED <<mode, contexts, cached, waiting, result>>

Exec ==
  \E d \in Devices :
    Idle /\ waiting' = d /\ UNCHANGED <<mode, contexts, cached, request, result>>

Transfer ==
  \E d \in Devices :
    LET used == CASE mode # "1lvl" -> << >>
                  [] mode = "1lvl" /\ cached[d] # << >> -> cached[d]
                  [] OTHER -> contexts[d]
    IN /\ waiting = d /\ result = << >>
       /\ result' = <<request[d], used>>
       /\ cached' = IF mode = "1lvl" THEN [cached EXCEPT ![d] = used] ELSE cached
       /\ UNCHANGED <<mode, contexts, request, waiting>>

Return ==
  /\ result # << >>
  /\ waiting' = 0 /\ result' = << >>
  /\ UNCHANGED <<mode, contexts, cached, request>>

Next ==
  \/ SetMode \/ SetContexts \/ Invalidate \/ SetUp \/ SetUpAddresses
  \/ Exec \/ Transfer \/ Return

Spec == Init /\ [][Next]_vars

=============================================================================
