---------------------------- MODULE OpenclawClient ----------------------------
(***************************************************************************)
(* The Openclaw (agent gateway) side of the adapter:                       *)
(*   src/go/openclaw-adapter/internal/openclaw/websocket_client.go         *)
(* with the ContextManager it shares with the bridge (SessionContext) and  *)
(* the Openclaw gateway at the other end of its one websocket.             *)
(*                                                                         *)
(* The bridge calls Connect() once, from Start; the reconnect path of      *)
(* bridge.go builds a new client and is never triggered (nothing calls     *)
(* OnDisconnected), so one connection is all this client ever has.         *)
(* SendMessage runs on the Wildfire readLoop (HandleWildfireMessage), the  *)
(* frame handlers on this client's readLoop, cleanupExpiredContexts on its *)
(* writeLoop: each handler is one step, as its map and lock accesses do    *)
(* not interleave with another writer in a way that changes the outcome.   *)
(* A MessageContext and a SessionContext keep the channel fields a reply  *)
(* is built from (SenderID, ThreadID, IsGroup) and a ghost, origin: the    *)
(* conversation of the push they were recorded for.  Time is one fact    *)
(* per context, old: the context is older than the 5 minute limit.        *)
(* outbox is what OnResponse                                               *)
(* hands to the bridge, with the Wildfire payload the bridge's             *)
(* ConvertFromOpenclaw builds from it (MessageConverter's BuildPayload).   *)
(***************************************************************************)
EXTENDS Naturals, Sequences, Functions, TLC, MessageConverter

\* Senders (the Wildfire users that send messages) and Groups come from
\* MessageConverter.
CONSTANTS
    RunIds,     \* run identifiers the gateway can issue
    ReqIds,     \* request ids available to uuid.New()
    Texts,      \* non-empty streamed texts
    NoSender, NoRun, NoId,   \* model values: "none"
    QueueCap    \* capacity of c.sendChan (100 in the code)

DefaultSessionKey == "main"

VARIABLES
    \* WebSocketClient
    started,          \* Connect() has been called (by Bridge.Start)
    isOpen, isAuthenticated,
    readerUp, writerUp,   \* readLoop / writeLoop goroutines running
    sendChan, pendingRequests, messageContexts,
    usedIds,          \* ids uuid.New() has handed out
    \* ContextManager
    sessions, runIDMap,
    \* the gateway and the socket
    sockOpen, toServer, toClient,
    challenged,       \* the gateway sent connect.challenge
    srvAuth,          \* the gateway accepted the connect request
    owner,            \* owner[r]: the push whose chat.send started run r
    srvText,          \* srvText[r]: last text streamed for r ("" if none)
    srvEnd, srvFinal, \* agent phase "end" / chat "final" sent for r
    \* observations
    outbox,           \* messages OnResponse passed to the bridge
    finalSeen         \* runs whose chat final event was handled

\* The pushes that reach SendMessage: HandleWildfireMessage reads
\* msg.Data.Conv.Type before its nil check (bridge.go:176), and
\* ConvertToOpenclaw drops a push without text.
Sent == {p \in Pushes : p.hasConv /\ Converts(p)}

\* The conversations of those pushes: the ghost origin of a context.
Origins == {p.conv : p \in Sent}

\* A SessionContext: the channel SendMessage registers, and the ghost origin.
SessionCtx == [SenderID : Senders, ThreadID : Senders \cup Groups,
               IsGroup : BOOLEAN, origin : Origins]

SC == INSTANCE SessionContext WITH SessionKeys <- {DefaultSessionKey},
                                   Senders <- SessionCtx
scVars  == <<sessions, runIDMap>>
cVars   == <<started, isOpen, isAuthenticated, readerUp, writerUp, sendChan,
             pendingRequests, messageContexts, usedIds>>
srvVars == <<sockOpen, toServer, toClient, challenged, srvAuth, owner,
             srvText, srvEnd, srvFinal>>
obsVars == <<outbox, finalSeen>>
vars == <<cVars, scVars, srvVars, obsVars>>

\* Frames, reduced to the fields the handlers read.
Blank == [kind |-> "", id |-> NoId, ok |-> FALSE, runId |-> NoRun,
          stream |-> "", text |-> "", phase |-> "", from |-> NoSender]
ConnectReq(id)    == [Blank EXCEPT !.kind = "connect", !.id = id]
ChatReq(id, p)    == [Blank EXCEPT !.kind = "chat.send", !.id = id, !.from = p]
Challenge         == [Blank EXCEPT !.kind = "connect.challenge"]
Res(id, ok, r)    == [Blank EXCEPT !.kind = "res", !.id = id, !.ok = ok, !.runId = r]
AgentEv(r, st, t, ph) ==
    [Blank EXCEPT !.kind = "agent", !.runId = r, !.stream = st, !.text = t, !.phase = ph]
ChatFinal(r)      == [Blank EXCEPT !.kind = "chat", !.runId = r, !.phase = "final"]

AllTexts == Texts \cup {""}
Thread == Senders \cup Groups \cup {""}
Context == [SenderID : Senders, ThreadID : Thread, IsGroup : BOOLEAN,
            origin : Origins, LastText : AllTexts, old : BOOLEAN]
Pending == [Method : {"connect"}, SenderID : {NoSender}] \cup
           [Method : {"chat.send"}, SenderID : Senders, ThreadID : Thread,
            IsGroup : BOOLEAN, origin : Origins]
WildfirePayload == [type : {1, 14, 15}, searchable : AllTexts, content : RunIds \cup {""}]
Delivery == [runId : RunIds, to : Senders, state : {"start", "generating", "completed", ""},
             text : AllTexts, payload : WildfirePayload, origin : Origins,
             conv : [type : {0, 1}, target : Senders \cup Groups]]

TypeOK ==
    /\ started \in BOOLEAN /\ isOpen \in BOOLEAN /\ isAuthenticated \in BOOLEAN
    /\ readerUp \in BOOLEAN /\ writerUp \in BOOLEAN
    /\ Len(sendChan) <= QueueCap
    /\ SC!IsMap(pendingRequests, ReqIds, Pending)
    /\ SC!IsMap(messageContexts, RunIds, Context)
    /\ usedIds \subseteq ReqIds
    /\ SC!ScTypeOK
    /\ sockOpen \in BOOLEAN /\ challenged \in BOOLEAN /\ srvAuth \in BOOLEAN
    /\ owner \in [RunIds -> Sent \cup {NoSender}]
    /\ srvText \in [RunIds -> AllTexts]
    /\ srvEnd \in [RunIds -> BOOLEAN] /\ srvFinal \in [RunIds -> BOOLEAN]
    /\ outbox \subseteq Delivery /\ finalSeen \subseteq RunIds

Init ==
    /\ started = FALSE /\ isOpen = FALSE /\ isAuthenticated = FALSE
    /\ readerUp = FALSE /\ writerUp = FALSE /\ sendChan = <<>>
    /\ pendingRequests = <<>> /\ messageContexts = <<>> /\ usedIds = {}
    /\ SC!ScInit
    /\ sockOpen = FALSE /\ toServer = <<>> /\ toClient = <<>>
    /\ challenged = FALSE /\ srvAuth = FALSE
    /\ owner = [r \in RunIds |-> NoSender] /\ srvText = [r \in RunIds |-> ""]
    /\ srvEnd = [r \in RunIds |-> FALSE] /\ srvFinal = [r \in RunIds |-> FALSE]
    /\ outbox = {} /\ finalSeen = {}

----------------------------------------------------------------------------
(* Shared steps.                                                           *)

\* send(): enqueue, or drop the frame after 5 s on a full channel.
Enqueue(f) == IF Len(sendChan) < QueueCap THEN Append(sendChan, f) ELSE sendChan

FreshId == ReqIds \ usedIds

\* CloseConnection(): a no-op once closed; otherwise clear both flags, close
\* the stop channels (both loops exit) and the socket.  pendingRequests and
\* messageContexts are left as they are, and OnDisconnected is not called.
CloseConnection ==
    IF ~isOpen
      THEN UNCHANGED <<isOpen, isAuthenticated, sockOpen, toServer, toClient>>
      ELSE /\ isOpen' = FALSE
           /\ isAuthenticated' = FALSE
           /\ sockOpen' = FALSE
           /\ toServer' = <<>>
           /\ toClient' = <<>>

\* The context used for an agent event of run r that has no MessageContext:
\* the session the run was associated with, else the default session.
FallbackContext(r) ==
    IF SC!GetContextByRunID(r) # NoSender THEN SC!GetContextByRunID(r)
                                           ELSE SC!GetDefaultSessionContext

\* Mutant: the completion delete of handleAgentEvent forgotten.
StoreContextAlways(r, ctx, st) == (r :> ctx) @@ messageContexts

\* messageContexts after an agent event of run r: a rebuilt context is
\* stored, and the context is deleted when the run completes.
StoreContext(r, ctx, st) ==
    IF st = "completed"
      THEN Restrict(messageContexts, DOMAIN messageContexts \ {r})
      ELSE (r :> ctx) @@ messageContexts

\* The logical state of an agent event.
AgentState(f) ==
    CASE f.phase = "start"      -> "start"
      [] f.phase = "end"        -> "completed"
      [] f.stream = "assistant" -> "generating"
      [] OTHER                  -> ""

----------------------------------------------------------------------------
(* The bridge's calls into the client.                                     *)

\* Connect() from Bridge.Start: dial, start readLoop and writeLoop.
Connect ==
    /\ ~started /\ ~isOpen
    /\ started' = TRUE /\ isOpen' = TRUE
    /\ readerUp' = TRUE /\ writerUp' = TRUE
    /\ sockOpen' = TRUE
    /\ UNCHANGED <<isAuthenticated, sendChan, pendingRequests, messageContexts,
                   usedIds, scVars, toServer, toClient, challenged, srvAuth,
                   owner, srvText, srvEnd, srvFinal, obsVars>>

\* SendMessage(ConvertToOpenclaw(p), p.sender) from HandleWildfireMessage:
\* refuse unless authenticated; register the channel under the shared
\* default session key (the sender standing in for an empty thread),
\* record the pending chat.send with the channel's own thread, enqueue it.
SendMessage(p) ==
    LET out == ConvertToOpenclaw(p)
        s == p.sender
    IN
    /\ isAuthenticated
    /\ \E id \in FreshId :
          /\ usedIds' = usedIds \cup {id}
          /\ SC!RegisterSession(DefaultSessionKey,
                [SenderID |-> s, IsGroup |-> out.IsGroup, origin |-> p.conv,
                 ThreadID |-> IF out.ThreadID = "" THEN s ELSE out.ThreadID])
          /\ pendingRequests' =
                (id :> [Method |-> "chat.send", SenderID |-> s, ThreadID |-> out.ThreadID,
                        IsGroup |-> out.IsGroup, origin |-> p.conv]) @@ pendingRequests
          /\ sendChan' = Enqueue(ChatReq(id, p))
    /\ UNCHANGED <<started, isOpen, isAuthenticated, readerUp, writerUp,
                   messageContexts, srvVars, obsVars>>

----------------------------------------------------------------------------
(* Frame handlers of handleMessage, run by readLoop.                       *)

\* handleChallenge -> sendConnectRequest.
HandleChallenge ==
    \E id \in FreshId :
       /\ usedIds' = usedIds \cup {id}
       /\ pendingRequests' =
             (id :> [Method |-> "connect", SenderID |-> NoSender]) @@ pendingRequests
       /\ sendChan' = Enqueue(ConnectReq(id))
       /\ UNCHANGED <<isAuthenticated, messageContexts, scVars, obsVars>>

\* handleResponse: look the id up; a connect answer sets the flag on ok; a
\* chat.send answer carrying a runId creates the run's MessageContext from
\* the pending request and associates the run with the default session.
HandleResponse(f) ==
    LET known == f.id \in DOMAIN pendingRequests
        p == pendingRequests[f.id]
    IN
    /\ pendingRequests' = IF known THEN Restrict(pendingRequests, DOMAIN pendingRequests \ {f.id})
                                   ELSE pendingRequests
    /\ isAuthenticated' = (isAuthenticated \/ (known /\ p.Method = "connect" /\ f.ok))
    /\ IF known /\ p.Method = "chat.send" /\ f.runId # NoRun
         THEN /\ messageContexts' =
                    (f.runId :> [SenderID |-> p.SenderID, ThreadID |-> p.ThreadID,
                                 IsGroup |-> p.IsGroup, origin |-> p.origin,
                                 LastText |-> "", old |-> FALSE])
                    @@ messageContexts
              /\ SC!AssociateRunID(f.runId, DefaultSessionKey)
         ELSE UNCHANGED <<messageContexts, scVars>>
    /\ UNCHANGED <<sendChan, usedIds, obsVars>>

\* handleAgentEvent: find or rebuild the run's context, remember the last
\* text, fill an empty completion with it, hand the message to OnResponse
\* (whose ConvertFromOpenclaw gives its Wildfire conversation and payload),
\* and delete the context on completion.
HandleAgentEvent(f) ==
    LET r == f.runId
        known == r \in DOMAIN messageContexts
        fb == FallbackContext(r)
        ctx0 == IF known THEN messageContexts[r]
                         ELSE [SenderID |-> fb.SenderID, ThreadID |-> fb.ThreadID,
                               IsGroup |-> fb.IsGroup, origin |-> fb.origin,
                               LastText |-> "", old |-> FALSE]
        ctx == IF f.text # "" THEN [ctx0 EXCEPT !.LastText = f.text] ELSE ctx0
        st == AgentState(f)
        text == IF st = "completed" /\ f.text = "" /\ ctx.LastText # ""
                  THEN ctx.LastText ELSE f.text
    IN
    /\ IF ~known /\ fb = NoSender
         THEN UNCHANGED <<messageContexts, outbox>>
         ELSE /\ outbox' = outbox \cup
                   {[runId |-> r, to |-> ctx.SenderID, state |-> st, text |-> text,
                     payload |-> BuildPayload(text, r, st), origin |-> ctx.origin,
                     conv |-> ReplyConversation([PeerID |-> ctx.SenderID,
                                                 ThreadID |-> ctx.ThreadID,
                                                 IsGroup |-> ctx.IsGroup])]}
              /\ messageContexts' = StoreContext(r, ctx, st)
    /\ UNCHANGED <<isAuthenticated, pendingRequests, sendChan, usedIds, scVars,
                   finalSeen>>

\* handleChatEvent: on "final" or "error" delete the run's context.
HandleChatEvent(f) ==
    /\ messageContexts' = Restrict(messageContexts, DOMAIN messageContexts \ {f.runId})
    /\ finalSeen' = finalSeen \cup {f.runId}
    /\ UNCHANGED <<isAuthenticated, pendingRequests, sendChan, usedIds, scVars,
                   outbox>>

\* readLoop: ReadMessage returns the next frame, handleMessage dispatches.
ReadFrame ==
    LET f == Head(toClient) IN
    /\ readerUp /\ sockOpen /\ toClient # <<>>
    /\ toClient' = Tail(toClient)
    /\ CASE f.kind = "connect.challenge" -> HandleChallenge
         [] f.kind = "res"               -> HandleResponse(f)
         [] f.kind = "agent"             -> HandleAgentEvent(f)
         [] f.kind = "chat"              -> HandleChatEvent(f)
    /\ UNCHANGED <<started, isOpen, readerUp, writerUp, sockOpen, toServer,
                   challenged, srvAuth, owner, srvText, srvEnd, srvFinal>>

\* ReadMessage fails (socket gone): return into the deferred CloseConnection.
ReadError ==
    /\ readerUp /\ ~sockOpen
    /\ readerUp' = FALSE
    /\ CloseConnection
    /\ UNCHANGED <<started, writerUp, sendChan, pendingRequests, messageContexts,
                   usedIds, scVars, challenged, srvAuth, owner, srvText, srvEnd,
                   srvFinal, obsVars>>

----------------------------------------------------------------------------
(* writeLoop.  Its select picks at random among ready cases, so after      *)
(* CloseConnection it may still take a frame; c.conn is nil by then and    *)
(* the frame is lost.                                                      *)

\* case data := <-c.sendChan: write it on c.conn if there is one.
WriteFrame ==
    /\ writerUp /\ sendChan # <<>>
    /\ sendChan' = Tail(sendChan)
    /\ toServer' = IF isOpen /\ sockOpen THEN Append(toServer, Head(sendChan))
                                         ELSE toServer
    /\ UNCHANGED <<started, isOpen, isAuthenticated, readerUp, writerUp,
                   pendingRequests, messageContexts, usedIds, scVars, sockOpen,
                   toClient, challenged, srvAuth, owner, srvText, srvEnd,
                   srvFinal, obsVars>>

\* case <-ticker.C: sendPing (if authenticated), cleanupExpiredContexts.
\* Only ticks that find an expired context change anything.
WriteTick ==
    /\ writerUp /\ \E r \in DOMAIN messageContexts : messageContexts[r].old
    /\ messageContexts' = RestrictValues(messageContexts, LAMBDA c : ~c.old)
    /\ UNCHANGED <<started, isOpen, isAuthenticated, readerUp, writerUp,
                   sendChan, pendingRequests, usedIds, scVars, srvVars, obsVars>>

\* case <-c.stopChan / <-c.heartbeatStopChan: both closed by CloseConnection.
WriteStop ==
    /\ writerUp /\ ~isOpen
    /\ writerUp' = FALSE
    /\ UNCHANGED <<started, isOpen, isAuthenticated, readerUp, sendChan,
                   pendingRequests, messageContexts, usedIds, scVars, srvVars,
                   obsVars>>

\* Five minutes pass since run r's context was created: its Timestamp is
\* never refreshed by later events of the run.
ContextAges(r) ==
    /\ r \in DOMAIN messageContexts /\ ~messageContexts[r].old
    /\ messageContexts' = [messageContexts EXCEPT ![r].old = TRUE]
    /\ UNCHANGED <<started, isOpen, isAuthenticated, readerUp, writerUp,
                   sendChan, pendingRequests, usedIds, scVars, srvVars, obsVars>>

----------------------------------------------------------------------------
(* The Openclaw gateway: it challenges a new socket, answers connect and   *)
(* chat.send in the order it reads them, and for each run it started       *)
(* streams a text, then the agent "end" and the chat "final" events, the   *)
(* last two in either order (they belong to independent streams).          *)

cliVars == <<started, isOpen, isAuthenticated, readerUp, writerUp, sendChan,
             pendingRequests, messageContexts, usedIds, scVars, obsVars>>

Started(r) == owner[r] # NoSender

ServerChallenge ==
    /\ sockOpen /\ ~challenged
    /\ challenged' = TRUE
    /\ toClient' = Append(toClient, Challenge)
    /\ UNCHANGED <<cliVars, sockOpen, toServer, srvAuth, owner, srvText, srvEnd,
                   srvFinal>>

\* Read one request; a connect is accepted or rejected; a chat.send (only
\* ever sent once the connect was accepted) starts a fresh run whose id the answer carries, or is answered
\* without a runId.
ServerRead ==
    LET f == Head(toServer) IN
    /\ sockOpen /\ toServer # <<>>
    /\ toServer' = Tail(toServer)
    /\ \/ /\ f.kind = "connect"
          /\ \E ok \in BOOLEAN :
                /\ srvAuth' = ok
                /\ toClient' = Append(toClient, Res(f.id, ok, NoRun))
          /\ UNCHANGED owner
       \/ /\ f.kind = "chat.send" /\ srvAuth
          /\ \/ \E r \in RunIds :
                   /\ ~Started(r)
                   /\ owner' = [owner EXCEPT ![r] = f.from]
                   /\ toClient' = Append(toClient, Res(f.id, TRUE, r))
             \/ /\ toClient' = Append(toClient, Res(f.id, TRUE, NoRun))
                /\ UNCHANGED owner
          /\ UNCHANGED srvAuth
    /\ UNCHANGED <<cliVars, sockOpen, challenged, srvText, srvEnd, srvFinal>>

\* An assistant-stream event with text t (one per run, within the bound).
ServerText(r, t) ==
    /\ sockOpen /\ Started(r) /\ srvText[r] = "" /\ ~srvEnd[r] /\ ~srvFinal[r]
    /\ srvText' = [srvText EXCEPT ![r] = t]
    /\ toClient' = Append(toClient, AgentEv(r, "assistant", t, ""))
    /\ UNCHANGED <<cliVars, sockOpen, toServer, challenged, srvAuth, owner,
                   srvEnd, srvFinal>>

\* The lifecycle event with phase "end" and no text.
ServerEnd(r) ==
    /\ sockOpen /\ Started(r) /\ ~srvEnd[r]
    /\ srvEnd' = [srvEnd EXCEPT ![r] = TRUE]
    /\ toClient' = Append(toClient, AgentEv(r, "lifecycle", "", "end"))
    /\ UNCHANGED <<cliVars, sockOpen, toServer, challenged, srvAuth, owner,
                   srvText, srvFinal>>

\* The chat event with state "final".
ServerFinal(r) ==
    /\ sockOpen /\ Started(r) /\ ~srvFinal[r]
    /\ srvFinal' = [srvFinal EXCEPT ![r] = TRUE]
    /\ toClient' = Append(toClient, ChatFinal(r))
    /\ UNCHANGED <<cliVars, sockOpen, toServer, challenged, srvAuth, owner,
                   srvText, srvEnd>>

\* The gateway or the network drops the socket; unread frames are lost.
ServerDrop ==
    /\ sockOpen
    /\ sockOpen' = FALSE /\ toServer' = <<>> /\ toClient' = <<>>
    /\ UNCHANGED <<cliVars, challenged, srvAuth, owner, srvText, srvEnd, srvFinal>>

----------------------------------------------------------------------------
Next ==
    \/ Connect
    \/ \E p \in Sent : SendMessage(p)
    \/ ReadFrame \/ ReadError
    \/ WriteFrame \/ WriteTick \/ WriteStop
    \/ \E r \in RunIds : ContextAges(r)
    \/ ServerChallenge \/ ServerRead \/ ServerDrop
    \/ \E r \in RunIds : \/ ServerEnd(r) \/ ServerFinal(r)
                         \/ \E t \in Texts : ServerText(r, t)

Spec == Init /\ [][Next]_vars

----------------------------------------------------------------------------
(* Properties                                                              *)

\* The run's stream is closed on the Wildfire side: a "generated" message
\* (type 15) carrying the run id as its stream id.
Completed(r) == \E d \in outbox : d.payload.type = 15 /\ d.payload.content = r

\* No MessageContext outlives its run (spec 1, 4.3: no unbounded growth
\* from abandoned correlations): once the client has handled both the
\* chat final and the agent end of a run, messageContexts holds no entry
\* for it, whichever order the two events arrived in (handleChatEvent's
\* delete, handleAgentEvent's fallback rebuild and completion delete).
ContextsOnlyForLiveRuns ==
    \A r \in DOMAIN messageContexts : ~(r \in finalSeen /\ Completed(r))

\* Spec 4.5 and 8: every streamed message of a run goes back to the
\* conversation whose message started the run, and the completion of a run
\* that streamed text carries the last text (handleAgentEvent's routing
\* through messageContexts, GetContextByRunID and the default session).
ResponsesReachOriginator ==
    \A d \in outbox :
        /\ d.to = owner[d.runId].sender
        /\ d.state = "completed" => d.text = srvText[d.runId]

\* Spec 4.5 and 8: a reply to a private or group message is addressed to
\* the conversation of the message whose context it was built from, both
\* from the run's MessageContext and from the default session it is rebuilt
\* from (ConvertToOpenclaw's type-based thread and group-ness, the thread
\* SendMessage records and its sender fallback for the session, the copy
\* handleResponse makes, ConvertFromOpenclaw's thread-versus-peer test).
RepliesReturnToConversation ==
    \A d \in outbox :
        d.origin.type \in {0, 1} => d.conv = d.origin

=============================================================================
