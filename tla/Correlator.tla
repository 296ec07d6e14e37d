------------------------------ MODULE Correlator ------------------------------
(***************************************************************************)
(* What the request/response correlator promises its callers (spec 4.2):   *)
(* a request is registered under a fresh id, gets exactly one answer (its  *)
(* response, a timeout or "connection closed"), and that answer never      *)
(* changes.  Closing the connection answers every waiting request at once. *)
(* Every waiting request is eventually answered.                           *)
(*                                                                         *)
(* WildfireClient implements this specification through a refinement      *)
(* mapping of the SDK's ResponseHandler state (WildfireClient!Corr).       *)
(***************************************************************************)
EXTENDS Sequences

CONSTANTS
    Ids,        \* request identifiers
    Outcomes    \* the answers a request can get; "closed" among them

ASSUME "closed" \in Outcomes

VARIABLES
    requests,   \* ids registered so far
    answers     \* answers[id]: the answers id has received, in order

vars == <<requests, answers>>

Waiting(id) == id \in requests /\ answers[id] = <<>>

Init ==
    /\ requests = {}
    /\ answers = [id \in Ids |-> <<>>]

\* A caller registers a request under an id never used before.
Register(id) ==
    /\ id \notin requests
    /\ requests' = requests \cup {id}
    /\ UNCHANGED answers

\* A waiting request receives its one answer.
Answer(id, o) ==
    /\ Waiting(id)
    /\ answers' = [answers EXCEPT ![id] = <<o>>]
    /\ UNCHANGED requests

\* The connection closes: every waiting request is answered "closed".
CloseAll ==
    /\ answers' = [id \in Ids |-> IF Waiting(id) THEN <<"closed">> ELSE answers[id]]
    /\ UNCHANGED requests

Next ==
    \/ \E id \in Ids : Register(id) \/ \E o \in Outcomes : Answer(id, o)
    \/ CloseAll

\* No waiting request is left unanswered for ever.
Spec ==
    /\ Init /\ [][Next]_vars
    /\ \A id \in Ids : WF_vars(\E o \in Outcomes : Answer(id, o))

=============================================================================
