--------------------------- MODULE MessageConverter ---------------------------
(***************************************************************************)
(* The format transforms between the two sides of the adapter:             *)
(*   src/go/openclaw-adapter/internal/converter/message_converter.go       *)
(* as operators; OpenclawClient composes them with the path a reply's     *)
(* channel takes through SendMessage, the MessageContext and the session. *)
(*                                                                         *)
(* Identifiers are model values; "" is the code's empty string.  The texts *)
(* of non-text payloads are reduced to one non-empty description, "desc"   *)
(* (their wording and the media URL extraction are formatting only).       *)
(***************************************************************************)
EXTENDS Naturals

CONSTANTS
    Senders,    \* Wildfire user ids
    Groups      \* Wildfire group and super group ids

\* protocol.Conversation: 0 single chat, 1 group, 2 super group.
ConvTypes == 0..2
Conversation == [type : ConvTypes, target : Senders \cup Groups]

\* protocol.MessagePayload, reduced to its type and searchableContent.
Payload == [type : 1..5, searchable : STRING]

\* protocol.OutputMessageData; hasConv is FALSE for a push without "conv".
Push == [sender : Senders, hasConv : BOOLEAN, conv : Conversation,
         payload : Payload]

\* The pushes the gateway delivers to a robot: a private message names the
\* sender as its target, a (super) group message names the group.
Pushes ==
    { p \in Push :
        \/ ~p.hasConv
        \/ p.conv.type = 0 /\ p.conv.target = p.sender
        \/ p.conv.type \in {1, 2} /\ p.conv.target \in Groups }

----------------------------------------------------------------------------
(* Wildfire -> Openclaw                                                    *)

\* extractTextContent: the searchable text of a text message; every other
\* type is described by a non-empty formatted string.
ExtractTextContent(pl) == IF pl.type = 1 THEN pl.searchable ELSE "desc"

\* ConvertToOpenclaw returns nil (and the bridge drops the push) when the
\* text is empty.
Converts(p) == ExtractTextContent(p.payload) # ""

\* Mutant: the thread of every conversation taken from the sender.
ThreadIsSender(p) == IF p.hasConv THEN p.sender ELSE ""

\* The thread of the channel: the sender for a single chat, the target for
\* any other conversation type, empty without a conversation.
ThreadOf(p) ==
    CASE ~p.hasConv         -> ""
      [] p.conv.type = 0    -> p.sender
      [] OTHER              -> p.conv.target

\* ConvertToOpenclaw's channel: group-ness from the conversation type.
ConvertToOpenclaw(p) ==
    [PeerID   |-> p.sender,
     ThreadID |-> ThreadOf(p),
     IsGroup  |-> p.hasConv /\ p.conv.type \in {1, 2}]

----------------------------------------------------------------------------
(* Openclaw -> Wildfire                                                    *)

\* ConvertFromOpenclaw's group test: a thread distinct from the peer.
IsGroupReply(ch) ==
    ch.ThreadID # "" /\ ch.PeerID # "" /\ ch.ThreadID # ch.PeerID

\* ConvertFromOpenclaw's conversation: type 1 or 0 by the group test, the
\* thread as target, the peer when there is no thread.
ReplyConversation(ch) ==
    [type   |-> IF IsGroupReply(ch) THEN 1 ELSE 0,
     target |-> IF ch.ThreadID # "" THEN ch.ThreadID ELSE ch.PeerID]

\* buildPayload: a stream in progress is a "generating" message (type 14),
\* a completed one a "generated" message (15), both carrying the stream id
\* as content; anything else is a plain text message (1).
BuildPayload(text, streamID, streamState) ==
    CASE streamID # "" /\ streamState \in {"generating", "start"} ->
            [type |-> 14, searchable |-> text, content |-> streamID]
      [] streamID # "" /\ streamState = "completed" ->
            [type |-> 15, searchable |-> text, content |-> streamID]
      [] OTHER -> [type |-> 1, searchable |-> text, content |-> ""]

=============================================================================
