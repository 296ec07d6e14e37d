--------------------------- MODULE AdmissionFilters ---------------------------
(***************************************************************************)
(* The admission filters of the Openclaw adapter and the chain the bridge  *)
(* runs them in for every Wildfire push:                                   *)
(*   src/go/openclaw-adapter/internal/filter/whitelist_filter.go           *)
(*   src/go/openclaw-adapter/internal/filter/group_filter.go               *)
(*   src/go/openclaw-adapter/internal/bridge/bridge.go                     *)
(*     (HandleWildfireMessage)                                             *)
(* as operators.  Bridge.tla applies Admits to the pushes it handles.      *)
(*                                                                         *)
(* Configuration lists are sets (the code only tests membership and        *)
(* emptiness).  Texts are TLA+ strings, that is sequences of characters,   *)
(* so strings.Contains and strings.HasSuffix are SubSeq tests.  The        *)
(* full-width question mark is the same test as "?" and is left out.      *)
(***************************************************************************)
EXTENDS MessageConverter, Sequences

\* config.WhitelistConfig and config.GroupConfig; helpKeywords are strings.
WhitelistConfig ==
    [enabled : BOOLEAN, allowedSenders : SUBSET Senders,
     allowedGroups : SUBSET Groups, blockedSenders : SUBSET Senders,
     blockedGroups : SUBSET Groups]

\* strings.Contains(s, sub).
StringsContains(s, sub) ==
    \E i \in 0..(Len(s) - Len(sub)) : SubSeq(s, i + 1, i + Len(sub)) = sub

\* strings.HasSuffix(s, suf).
HasSuffix(s, suf) ==
    Len(suf) <= Len(s) /\ SubSeq(s, Len(s) - Len(suf) + 1, Len(s)) = suf

----------------------------------------------------------------------------
(* WhitelistFilter.ShouldProcess                                           *)

\* The sender (and, for a group message, the group) is on no block list;
\* then, unless both allowed lists are empty, the sender must be allowed
\* (an empty list allows every sender) and so must a group message's group.
ShouldProcess(wl, senderID, targetID, isGroup) ==
    \/ ~wl.enabled
    \/ /\ senderID \notin wl.blockedSenders
       /\ isGroup => targetID \notin wl.blockedGroups
       /\ \/ wl.allowedSenders = {} /\ wl.allowedGroups = {}
          \/ /\ wl.allowedSenders = {} \/ senderID \in wl.allowedSenders
             /\ isGroup => (wl.allowedGroups = {} \/ targetID \in wl.allowedGroups)

----------------------------------------------------------------------------
(* GroupFilter.ShouldRespond                                               *)

\* containsMention: the converter never fills Message.Mentions, so only the
\* text test "@" + botID can succeed.
ContainsMention(text, botID) == StringsContains(text, "@" \o botID)

\* The three strategies, tried in order: the robot is mentioned (only when
\* its id is known), the text ends with a question mark, or it contains a
\* help keyword.
Addressed(gc, text, botID) ==
    \/ gc.respondOnMention /\ botID # "" /\ ContainsMention(text, botID)
    \/ gc.respondOnQuestion /\ HasSuffix(text, "?")
    \/ \E kw \in gc.helpKeywords : StringsContains(text, kw)

\* Private messages and a disabled filter pass; a group message must be
\* from an allowed group (when the list is not empty) and addressed to the
\* robot.
ShouldRespond(gc, ch, text, botID) ==
    \/ ~ch.IsGroup
    \/ ~gc.enabled
    \/ /\ gc.allowedIDs = {} \/ ch.ThreadID \in gc.allowedIDs
       /\ Addressed(gc, text, botID)

----------------------------------------------------------------------------
(* Bridge.HandleWildfireMessage, from the type check to SendMessage        *)

\* Types outside 1..15 and 100..200 are ignored.
SupportedType(t) == ~(t <= 0 \/ (t > 15 /\ t < 100) \/ t > 200)

\* The whitelist's view of the push: the conversation target, and group-ness
\* from the conversation type.
WhitelistTarget(p) == IF p.hasConv THEN p.conv.target ELSE ""
WhitelistIsGroup(p) == p.hasConv /\ p.conv.type \in {1, 2}

\* The chain: type check, whitelist, conversion (nil for an empty text),
\* group filter with the robot id the Wildfire client holds now, and the
\* non-empty sender check; SendMessage is called exactly when it holds.
Admits(wl, gc, p, botID) ==
    /\ SupportedType(p.payload.type)
    /\ ShouldProcess(wl, p.sender, WhitelistTarget(p), WhitelistIsGroup(p))
    /\ Converts(p)
    /\ ShouldRespond(gc, ConvertToOpenclaw(p), ExtractTextContent(p.payload), botID)
    /\ p.sender # ""

=============================================================================
