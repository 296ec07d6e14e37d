------------------------------ MODULE MCBridge ------------------------------
(* Bridge instantiated for TLC; the constants are given in the .cfg files. *)
(* Ids are strings, since the group filter looks for "@" + robot id in the *)
(* text.  The whitelist blocks sender u2 and group g2; the group strategy  *)
(* is the default one (mention, question, keyword), with one keyword.      *)
EXTENDS Bridge

MCWhitelist ==
    [enabled |-> TRUE, allowedSenders |-> {}, allowedGroups |-> {},
     blockedSenders |-> {"u2"}, blockedGroups |-> {"g2"}]

MCGroup ==
    [enabled |-> TRUE, allowedIDs |-> {}, respondOnMention |-> TRUE,
     respondOnQuestion |-> TRUE, helpKeywords |-> {"help"}]

TextPush(sender, type, target, text) ==
    [sender |-> sender, hasConv |-> TRUE, conv |-> [type |-> type, target |-> target],
     payload |-> [type |-> 1, searchable |-> text]]

\* A private message; a group message mentioning the robot; one mentioning
\* a user; a question to the blocked super group; a private message from
\* the blocked sender.
MCInbound ==
    { TextPush("u1", 0, "u1", "hi"),
      TextPush("u1", 1, "g1", "@rb hi"),
      TextPush("u1", 1, "g1", "@u2 hi"),
      TextPush("u1", 2, "g2", "help?"),
      TextPush("u2", 0, "u2", "hi") }
=============================================================================
