--------------------------- MODULE ResponseHandler ---------------------------
(***************************************************************************)
(* The request/response correlator of the Wildfire robot-gateway SDK:      *)
(* src/go/sdk/client/response_handler.go.                                  *)
(*                                                                         *)
(* pendingRequests is the map requestID -> chan of the Go code, reduced to *)
(* its key set; every id owns a result channel of capacity 1, modelled by  *)
(* slot[id], the sequence of values ever sent into that channel.  A        *)
(* second send into a full channel would block the sender while it holds  *)
(* h.mu, freezing every later RegisterRequest/HandleResponse/Clear.         *)
(* watchdogs is the set of ids whose timeout goroutine (started by         *)
(* RegisterRequest) has not yet woken up.  Every action is one critical    *)
(* section under h.mu, so it is one atomic step.                           *)
(***************************************************************************)
EXTENDS Naturals, Sequences

CONSTANTS
    Ids,        \* request identifiers (uuid.New() in the code)
    Outcomes    \* what a slot can carry: a real response, "timeout", "closed"

VARIABLES
    pendingRequests,  \* ids currently registered
    slot,             \* slot[id]: values sent into id's result channel
    watchdogs         \* ids whose timeout goroutine is still sleeping

rhVars == <<pendingRequests, slot, watchdogs>>

RhTypeOK ==
    /\ pendingRequests \subseteq Ids
    /\ slot \in [Ids -> Seq(Outcomes)]
    /\ watchdogs \subseteq Ids

RhInit ==
    /\ pendingRequests = {}
    /\ slot = [id \in Ids |-> <<>>]
    /\ watchdogs = {}

\* An id that was never handed out: uuid.New() never repeats one.
Fresh(id) == id \notin pendingRequests /\ slot[id] = <<>> /\ id \notin watchdogs

\* RegisterRequest: insert the channel and start the timeout goroutine.
RegisterRequest(id) ==
    /\ pendingRequests' = pendingRequests \cup {id}
    /\ watchdogs' = watchdogs \cup {id}
    /\ UNCHANGED slot

\* The timeout goroutine wakes after h.timeout: if the id is still
\* registered it sends the synthetic "Request timeout" and deletes it.
TimeoutFires(id) ==
    /\ id \in watchdogs
    /\ watchdogs' = watchdogs \ {id}
    /\ IF id \in pendingRequests
         THEN /\ slot' = [slot EXCEPT ![id] = Append(@, "timeout")]
              /\ pendingRequests' = pendingRequests \ {id}
         ELSE UNCHANGED <<slot, pendingRequests>>

\* HandleResponse: deliver to the waiting channel and delete; a response
\* for an id that is not registered (late, duplicate) is dropped.
HandleResponse(id, resp) ==
    /\ IF id \in pendingRequests
         THEN /\ slot' = [slot EXCEPT ![id] = Append(@, resp)]
              /\ pendingRequests' = pendingRequests \ {id}
         ELSE UNCHANGED <<slot, pendingRequests>>
    /\ UNCHANGED watchdogs

\* Mutant: Clear deletes the entries without sending "Connection closed".
ClearSilently ==
    /\ pendingRequests' = {}
    /\ UNCHANGED <<slot, watchdogs>>

\* Clear: every registered id receives "Connection closed" and is deleted.
Clear ==
    /\ slot' = [id \in Ids |->
                  IF id \in pendingRequests THEN Append(slot[id], "closed")
                                            ELSE slot[id]]
    /\ pendingRequests' = {}
    /\ UNCHANGED watchdogs

=============================================================================
