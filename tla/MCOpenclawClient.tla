--------------------------- MODULE MCOpenclawClient ---------------------------
EXTENDS OpenclawClient

CONSTANTS s1, s2, g1   \* the members of Senders and Groups

\* The pushes the bridge forwards: a private message from s1 and a group
\* message from s2 (one text payload each; the payload does not reach the
\* reply).  Both are members of Sent.
TextPayload == [type |-> 1, searchable |-> "txt"]
MCSent ==
    { [sender |-> s1, hasConv |-> TRUE, conv |-> [type |-> 0, target |-> s1],
       payload |-> TextPayload],
      [sender |-> s2, hasConv |-> TRUE, conv |-> [type |-> 1, target |-> g1],
       payload |-> TextPayload] }
=============================================================================
