---------------------------- MODULE WildfireClient ----------------------------
(***************************************************************************)
(* The Wildfire robot-gateway SDK connection engine:                       *)
(*   src/go/sdk/client/connection_manager.go  (ConnectionManager, cm)      *)
(*   src/go/sdk/client/websocket_client.go    (RobotGatewayClient, c)      *)
(*   src/go/sdk/client/response_handler.go    (ResponseHandler)            *)
(* together with the gateway at the other end of the websocket.            *)
(*                                                                         *)
(* Goroutines are processes: the readLoop and writeLoop started by every   *)
(* successful Connect (indexed by the number of that connection), the      *)
(* re-authentication goroutine started by onConnected (same index), the    *)
(* reconnect goroutines of scheduleReconnect (counted, as they are         *)
(* anonymous and identical), the heartbeat goroutine and the caller of     *)
(* ConnectWithTimeout.  A section run under c.mu, cm.mu or h.mu is one     *)
(* step; every blocking point (channel receive, sleep, socket read or      *)
(* write) ends a step.                                                     *)
(*                                                                         *)
(* Close() closes c.stopChan and installs a fresh channel in the same      *)
(* critical section; stopGen counts the channels closed so far, and a      *)
(* loop that selected on channel number k is stopped once stopGen > k.     *)
(***************************************************************************)
EXTENDS Naturals, Sequences

CONSTANTS
    Ids,        \* request ids available to uuid.New() in SendRequest
    MaxConns,   \* bound on successful dials (connections numbered 1..MaxConns)
    QueueCap,   \* capacity of c.sendChan (100 in the code)
    NoId        \* a model value: "no request id"

ASSUME MaxConns \in Nat \ {0} /\ QueueCap \in Nat \ {0} /\ NoId \notin Ids

Conns == 1..MaxConns
NoConn == 0

\* authFuture owners: the ConnectWithTimeout caller or the
\* re-authentication goroutine started for connection g.
AppOwner == MaxConns + 1
NoOwner == 0
Owners == Conns \cup {AppOwner}

VARIABLES
    \* ConnectionManager
    running, connected, authenticated,
    creds,          \* robotID and robotSecret both non-empty
    \* RobotGatewayClient
    isOpen, isAuth,
    conn,           \* c.conn: number of the current connection, or NoConn
    nConns,         \* connections dialled so far
    stopGen,        \* number of stop channels closed by Close
    sendChan,       \* c.sendChan
    authOwner,      \* whose channel c.authFuture currently is
    authResult,     \* authResult[o]: value delivered to o's auth channel
    \* goroutines
    readLoop, readConn, readFrame,
    writeLoop, writeStop, writeFrame,
    reauth,         \* reauth[g]: goroutine started by onConnected for g
    timers,         \* scheduleReconnect goroutines still sleeping
    firing,         \* ... past their IsConnected check, not yet in reconnect()
    reconnecting,   \* reconnect() goroutines between Close and Connect
    hb, hbId,       \* heartbeat goroutine and its outstanding request
    app,            \* the caller of ConnectWithTimeout
    \* the gateway and the sockets
    open,           \* open[g]: socket g not yet closed by either side
    toGateway,      \* toGateway[g]: frames written on socket g, not yet read
    toClient,       \* toClient[g]: frames the gateway sent, not yet read
    srvAuth,        \* srvAuth[g]: the gateway's verdict on socket g
    \* ResponseHandler
    pendingRequests, slot, watchdogs

Outcomes == {"ok", "fail", "timeout", "closed"}
RH == INSTANCE ResponseHandler
rhVars   == <<pendingRequests, slot, watchdogs>>

cmVars   == <<running, connected, authenticated, creds>>
cVars    == <<isOpen, isAuth, conn, nConns, stopGen, sendChan, authOwner, authResult>>
loopVars == <<readLoop, readConn, readFrame, writeLoop, writeStop, writeFrame>>
procVars == <<reauth, timers, firing, reconnecting, hb, hbId, app>>
gwVars   == <<open, toGateway, toClient, srvAuth>>
vars == <<cmVars, cVars, loopVars, procVars, gwVars, rhVars>>

Frame(k, id, ok) == [kind |-> k, id |-> id, ok |-> ok]
ConnectFrame == Frame("connect", NoId, TRUE)
ReqFrame(id) == Frame("req", id, TRUE)
NoFrame == Frame("none", NoId, FALSE)
Frames == [kind : {"connect", "req", "connectResp", "resp", "none"},
           id : Ids \cup {NoId}, ok : BOOLEAN]

TypeOK ==
    /\ running \in BOOLEAN /\ connected \in BOOLEAN
    /\ authenticated \in BOOLEAN /\ creds \in BOOLEAN
    /\ isOpen \in BOOLEAN /\ isAuth \in BOOLEAN
    /\ conn \in Conns \cup {NoConn} /\ nConns \in 0..MaxConns
    /\ stopGen \in Nat /\ sendChan \in Seq(Frames) /\ Len(sendChan) <= QueueCap
    /\ authOwner \in Owners \cup {NoOwner}
    /\ authResult \in [Owners -> {"none", "ok", "fail"}]
    /\ readLoop \in [Conns -> {"none", "top", "reading", "handling", "closing"}]
    /\ readConn \in [Conns -> Conns \cup {NoConn}] /\ readFrame \in [Conns -> Frames]
    /\ writeLoop \in [Conns -> {"none", "start", "idle", "writing"}]
    /\ writeStop \in [Conns -> Nat] /\ writeFrame \in [Conns -> Frames]
    /\ reauth \in [Conns -> {"none", "send", "wait"}]
    /\ timers \in Nat /\ firing \in Nat /\ reconnecting \in Nat
    /\ hb \in {"off", "idle", "waiting"} /\ hbId \in Ids \cup {NoId}
    /\ app \in {"idle", "waitConn", "waitAuth", "ok", "failed"}
    /\ open \in [Conns -> BOOLEAN] /\ toGateway \in [Conns -> Seq(Frames)]
    /\ toClient \in [Conns -> Seq(Frames)]
    /\ srvAuth \in [Conns -> {"none", "ok", "rejected"}]
    /\ RH!RhTypeOK

Init ==
    /\ running = FALSE /\ connected = FALSE /\ authenticated = FALSE
    /\ creds = FALSE
    /\ isOpen = FALSE /\ isAuth = FALSE /\ conn = NoConn /\ nConns = 0
    /\ stopGen = 0 /\ sendChan = <<>>
    /\ authOwner = NoOwner /\ authResult = [o \in Owners |-> "none"]
    /\ readLoop = [g \in Conns |-> "none"] /\ readConn = [g \in Conns |-> NoConn]
    /\ readFrame = [g \in Conns |-> NoFrame]
    /\ writeLoop = [g \in Conns |-> "none"] /\ writeStop = [g \in Conns |-> 0]
    /\ writeFrame = [g \in Conns |-> NoFrame]
    /\ reauth = [g \in Conns |-> "none"]
    /\ timers = 0 /\ firing = 0 /\ reconnecting = 0
    /\ hb = "off" /\ hbId = NoId /\ app = "idle"
    /\ open = [g \in Conns |-> FALSE] /\ toGateway = [g \in Conns |-> <<>>]
    /\ toClient = [g \in Conns |-> <<>>]
    /\ srvAuth = [g \in Conns |-> "none"]
    /\ RH!RhInit

\* cm.IsConnected()
IsConnected == connected /\ isOpen

----------------------------------------------------------------------------
(* Shared steps of the code, used by several goroutines.                   *)

\* send(): enqueue on c.sendChan; when it stays full for 5 s the frame is
\* dropped.
Enqueue(f) == IF Len(sendChan) < QueueCap THEN Append(sendChan, f) ELSE sendChan

\* handleConnectResponse's non-blocking send into c.authFuture.
Deliver(v) ==
    IF authOwner \in Owners /\ authResult[authOwner] = "none"
      THEN [authResult EXCEPT ![authOwner] = v] ELSE authResult

\* stopHeartbeat(): a heartbeat goroutine blocked in its select returns; one
\* inside sendHeartbeat re-enters the select on the new channel and lives on.
StoppedHb == IF hb = "idle" THEN "off" ELSE hb

\* A socket closed by either side: frames not yet read are lost.
Shut(g) ==
    /\ open' = [open EXCEPT ![g] = FALSE]
    /\ toGateway' = [toGateway EXCEPT ![g] = <<>>]
    /\ toClient' = [toClient EXCEPT ![g] = <<>>]

\* cm.onDisconnected(): clear both flags; with run (cm.IsRunning()) and cr
\* (credentials stored) it calls scheduleReconnect(), which starts a
\* sleeping reconnect goroutine.
OnDisconnected(run, cr) ==
    /\ connected' = FALSE
    /\ authenticated' = FALSE
    /\ timers' = IF run /\ cr THEN timers + 1 ELSE timers

\* RobotGatewayClient.Close() with cm.onDisconnected() inside it; run,
\* cr and auth are cm.running, the credentials and cm.authenticated at the
\* moment Close is entered.
Close(run, cr, auth) ==
    IF ~isOpen
      THEN /\ authenticated' = auth
           /\ UNCHANGED <<isOpen, stopGen, conn, open, toGateway, toClient,
                          connected, timers, pendingRequests, slot>>
      ELSE /\ isOpen' = FALSE
           /\ RH!Clear
           /\ stopGen' = stopGen + 1
           /\ IF conn # NoConn THEN Shut(conn)
                               ELSE UNCHANGED <<open, toGateway, toClient>>
           /\ conn' = NoConn
           /\ OnDisconnected(run, cr)

\* RobotGatewayClient.Connect() with cm.onConnected() inside it, or its
\* error, after which the caller runs scheduleReconnect() (if run).
Connect(run) ==
    \/ /\ ~isOpen
       /\ nConns < MaxConns
       /\ LET g == nConns + 1 IN
          /\ nConns' = g /\ conn' = g /\ isOpen' = TRUE
          /\ open' = [open EXCEPT ![g] = TRUE]
          /\ readLoop' = [readLoop EXCEPT ![g] = "top"]
          /\ writeLoop' = [writeLoop EXCEPT ![g] = "start"]
          /\ connected' = TRUE
          /\ reauth' = [reauth EXCEPT ![g] =
                          IF creds /\ ~authenticated THEN "send" ELSE "none"]
          /\ UNCHANGED timers
    \/ /\ timers' = IF run THEN timers + 1 ELSE timers   \* already open, or dial error
       /\ UNCHANGED <<nConns, conn, isOpen, open, readLoop, writeLoop, connected, reauth>>

\* cm.Stop(): a no-op unless running; otherwise also tears the client down.
Stop ==
    IF ~running
      THEN UNCHANGED <<running, creds, hb, authenticated, isOpen, stopGen, conn,
                       open, toGateway, toClient, connected, timers,
                       pendingRequests, slot>>
      ELSE /\ running' = FALSE
           /\ creds' = FALSE
           /\ hb' = StoppedHb
           /\ Close(FALSE, FALSE, FALSE)

\* SendConnect(): install a fresh auth channel owned by o, send the frame.
SendConnect(o) ==
    /\ authOwner' = o
    /\ sendChan' = Enqueue(ConnectFrame)

----------------------------------------------------------------------------
(* The caller of ConnectWithTimeout (Bridge.Start calls it once).          *)

\* cm.Start() then cm.connect().
AppStart ==
    /\ app = "idle"
    /\ app' = "waitConn"
    /\ running' = TRUE
    /\ hb' = "idle"
    /\ Connect(TRUE)
    /\ UNCHANGED <<authenticated, creds, isAuth, stopGen, sendChan, authOwner,
                   authResult, readConn, readFrame, writeStop, writeFrame,
                   firing, reconnecting, hbId, toGateway, toClient, srvAuth,
                   rhVars>>

\* The connection wait loop gives up: cm.Stop(), return false.
AppConnTimeout ==
    /\ app = "waitConn" /\ ~IsConnected /\ running
    /\ app' = "failed"
    /\ Stop
    /\ UNCHANGED <<isAuth, nConns, sendChan, authOwner, authResult, loopVars,
                   reauth, firing, reconnecting, hbId, srvAuth, watchdogs>>

\* The loop ends (connected, or no longer running): send the credentials.
AppSendConnect ==
    /\ app = "waitConn" /\ (IsConnected \/ ~running)
    /\ app' = "waitAuth"
    /\ SendConnect(AppOwner)
    /\ UNCHANGED <<cmVars, isOpen, isAuth, conn, nConns, stopGen, authResult,
                   loopVars, reauth, timers, firing, reconnecting, hb, hbId,
                   gwVars, rhVars>>

\* The poll sees IsAuthenticated(): store the credentials, return true.
AppAuthOk ==
    /\ app = "waitAuth" /\ authenticated
    /\ app' = "ok"
    /\ creds' = TRUE
    /\ UNCHANGED <<running, connected, authenticated, cVars, loopVars, reauth,
                   timers, firing, reconnecting, hb, hbId, gwVars, rhVars>>

\* 30 s without IsAuthenticated(): cm.Stop(), return false.
AppAuthTimeout ==
    /\ app = "waitAuth" /\ ~authenticated
    /\ app' = "failed"
    /\ Stop
    /\ UNCHANGED <<isAuth, nConns, sendChan, authOwner, authResult, loopVars,
                   reauth, firing, reconnecting, hbId, srvAuth, watchdogs>>

----------------------------------------------------------------------------
(* The re-authentication goroutine of onConnected: it captured robotID    *)
(* and robotSecret when it was started.                                    *)

ReauthSend(g) ==
    /\ reauth[g] = "send"
    /\ reauth' = [reauth EXCEPT ![g] = "wait"]
    /\ SendConnect(g)
    /\ UNCHANGED <<cmVars, isOpen, isAuth, conn, nConns, stopGen, authResult,
                   loopVars, timers, firing, reconnecting, hb, hbId, app,
                   gwVars, rhVars>>

\* The forwarded result arrives: clearCredentials() unless it is a success.
ReauthResult(g) ==
    /\ reauth[g] = "wait" /\ authResult[g] # "none"
    /\ reauth' = [reauth EXCEPT ![g] = "none"]
    /\ creds' = (creds /\ authResult[g] = "ok")
    /\ UNCHANGED <<running, connected, authenticated, cVars, loopVars, timers,
                   firing, reconnecting, hb, hbId, app, gwVars, rhVars>>

\* time.After(30 s) wins: clearCredentials().
ReauthTimeout(g) ==
    /\ reauth[g] = "wait" /\ authResult[g] = "none"
    /\ reauth' = [reauth EXCEPT ![g] = "none"]
    /\ creds' = FALSE
    /\ UNCHANGED <<running, connected, authenticated, cVars, loopVars, timers,
                   firing, reconnecting, hb, hbId, app, gwVars, rhVars>>

----------------------------------------------------------------------------
(* scheduleReconnect goroutines and reconnect() / client.Reconnect().      *)

\* After reconnectInterval: if cm.IsRunning() && !cm.IsConnected() go on.
TimerFires ==
    /\ timers > 0
    /\ timers' = timers - 1
    /\ firing' = IF running /\ ~IsConnected THEN firing + 1 ELSE firing
    /\ UNCHANGED <<cmVars, cVars, loopVars, reauth, reconnecting, hb, hbId,
                   app, gwVars, rhVars>>

\* reconnect(): return unless running; client.Reconnect() starts with
\* c.Close(), then sleeps 100 ms.
ReconnectClose ==
    /\ firing > 0
    /\ firing' = firing - 1
    /\ IF running
         THEN /\ Close(running, creds, authenticated)
              /\ reconnecting' = reconnecting + 1
         ELSE UNCHANGED <<authenticated, isOpen, stopGen, conn, open, toGateway,
                          toClient, connected, timers, pendingRequests, slot,
                          reconnecting>>
    /\ UNCHANGED <<running, creds, isAuth, nConns, sendChan, authOwner,
                   authResult, loopVars, reauth, hb, hbId, app, srvAuth,
                   watchdogs>>

\* ... then c.Connect(); on error reconnect() calls scheduleReconnect().
ReconnectConnect ==
    /\ reconnecting > 0
    /\ reconnecting' = reconnecting - 1
    /\ Connect(running)
    /\ UNCHANGED <<running, authenticated, creds, isAuth, stopGen, sendChan,
                   authOwner, authResult, readConn, readFrame, writeStop,
                   writeFrame, firing, hb, hbId, app, toGateway, toClient,
                   srvAuth, rhVars>>

----------------------------------------------------------------------------
(* readLoop, started by the Connect that opened connection g.  It reads    *)
(* c.stopChan and c.conn afresh on every iteration, so after a reconnect   *)
(* it may go on reading the next connection.                               *)

\* Top of the loop: conn := c.conn; return (to the deferred Close) if nil.
ReadTop(g) ==
    /\ readLoop[g] = "top"
    /\ IF conn = NoConn
         THEN /\ readLoop' = [readLoop EXCEPT ![g] = "closing"]
              /\ UNCHANGED readConn
         ELSE /\ readLoop' = [readLoop EXCEPT ![g] = "reading"]
              /\ readConn' = [readConn EXCEPT ![g] = conn]
    /\ UNCHANGED <<cmVars, cVars, readFrame, writeLoop, writeStop, writeFrame,
                   procVars, gwVars, rhVars>>

\* conn.ReadMessage() returns a frame.
ReadFrame(g) ==
    LET c == readConn[g] IN
    /\ readLoop[g] = "reading" /\ open[c] /\ toClient[c] # <<>>
    /\ readFrame' = [readFrame EXCEPT ![g] = Head(toClient[c])]
    /\ toClient' = [toClient EXCEPT ![c] = Tail(@)]
    /\ readLoop' = [readLoop EXCEPT ![g] = "handling"]
    /\ UNCHANGED <<cmVars, cVars, readConn, writeLoop, writeStop, writeFrame,
                   procVars, open, toGateway, srvAuth, rhVars>>

\* conn.ReadMessage() fails (socket closed by either side): OnError, return.
ReadError(g) ==
    /\ readLoop[g] = "reading" /\ ~open[readConn[g]]
    /\ readLoop' = [readLoop EXCEPT ![g] = "closing"]
    /\ UNCHANGED <<cmVars, cVars, readConn, readFrame, writeLoop, writeStop,
                   writeFrame, procVars, gwVars, rhVars>>

\* The deferred c.Close(): it closes whatever connection is current now.
ReadClose(g) ==
    /\ readLoop[g] = "closing"
    /\ readLoop' = [readLoop EXCEPT ![g] = "none"]
    /\ readConn' = [readConn EXCEPT ![g] = NoConn]
    /\ Close(running, creds, authenticated)
    /\ UNCHANGED <<running, creds, isAuth, nConns, sendChan, authOwner,
                   authResult, readFrame, writeLoop, writeStop, writeFrame,
                   reauth, firing, reconnecting, hb, hbId, app, srvAuth,
                   watchdogs>>
\* cm.onAuthenticated(); the OnConnectionChanged callback only logs.
OnAuthenticated ==
    /\ authenticated' = TRUE
    /\ UNCHANGED <<running, creds, hb>>

\* cm.onAuthenticationFailed(): clear the credentials, stop running and the
\* heartbeat; the transport is left open.
OnAuthenticationFailed ==
    /\ creds' = FALSE
    /\ authenticated' = FALSE
    /\ running' = FALSE
    /\ hb' = StoppedHb

\* handleConnectResponse(): set the flags, run the cm callback, then the
\* non-blocking send of the result into c.authFuture.
HandleConnectResponse(ok) ==
    /\ isAuth' = ok
    /\ authResult' = Deliver(IF ok THEN "ok" ELSE "fail")
    /\ IF ok THEN OnAuthenticated ELSE OnAuthenticationFailed
    /\ UNCHANGED rhVars

\* handleMessage(): a connect frame with a code, else a response with a
\* requestId (to the ResponseHandler); pushes go to OnMessage, which is the
\* bridge's business and leaves this state alone.
ReadHandle(g) ==
    LET f == readFrame[g] IN
    /\ readLoop[g] = "handling"
    /\ readLoop' = [readLoop EXCEPT ![g] = "top"]
    /\ readFrame' = [readFrame EXCEPT ![g] = NoFrame]
    /\ \/ /\ f.kind = "connectResp"
          /\ HandleConnectResponse(f.ok)
       \/ /\ f.kind = "resp"
          /\ RH!HandleResponse(f.id, IF f.ok THEN "ok" ELSE "fail")
          /\ UNCHANGED <<running, creds, hb, authenticated, isAuth, authResult>>
    /\ UNCHANGED <<connected, isOpen, conn, nConns, stopGen, sendChan, authOwner,
                   readConn, writeLoop, writeStop, writeFrame, reauth, timers,
                   firing, reconnecting, hbId, app, gwVars>>

----------------------------------------------------------------------------
(* writeLoop, started by the Connect that opened connection g.  Its select *)
(* reads c.stopChan when it is entered, and picks at random among ready    *)
(* cases.  The 30 s ping case writes a control frame and changes nothing   *)
(* modelled here.                                                          *)

\* The goroutine begins: first select, on the stop channel of that moment.
WriteStart(g) ==
    /\ writeLoop[g] = "start"
    /\ writeLoop' = [writeLoop EXCEPT ![g] = "idle"]
    /\ writeStop' = [writeStop EXCEPT ![g] = stopGen]
    /\ UNCHANGED <<cmVars, cVars, readLoop, readConn, readFrame, writeFrame,
                   procVars, gwVars, rhVars>>

\* case data := <-c.sendChan
WriteDequeue(g) ==
    /\ writeLoop[g] = "idle" /\ sendChan # <<>>
    /\ writeFrame' = [writeFrame EXCEPT ![g] = Head(sendChan)]
    /\ sendChan' = Tail(sendChan)
    /\ writeLoop' = [writeLoop EXCEPT ![g] = "writing"]
    /\ UNCHANGED <<cmVars, isOpen, isAuth, conn, nConns, stopGen, authOwner,
                   authResult, readLoop, readConn, readFrame, writeStop,
                   procVars, gwVars, rhVars>>

\* conn := c.conn; WriteMessage on it (an error is ignored); select again.
WriteOut(g) ==
    /\ writeLoop[g] = "writing"
    /\ toGateway' = IF conn # NoConn /\ open[conn]
                      THEN [toGateway EXCEPT ![conn] = Append(@, writeFrame[g])]
                      ELSE toGateway
    /\ writeFrame' = [writeFrame EXCEPT ![g] = NoFrame]
    /\ writeLoop' = [writeLoop EXCEPT ![g] = "idle"]
    /\ writeStop' = [writeStop EXCEPT ![g] = stopGen]
    /\ UNCHANGED <<cmVars, cVars, readLoop, readConn, readFrame, procVars,
                   open, toClient, srvAuth, rhVars>>

\* case <-c.stopChan: the channel it selected on has been closed.
WriteStop(g) ==
    /\ writeLoop[g] = "idle" /\ writeStop[g] < stopGen
    /\ writeLoop' = [writeLoop EXCEPT ![g] = "none"]
    /\ writeStop' = [writeStop EXCEPT ![g] = 0]
    /\ UNCHANGED <<cmVars, cVars, readLoop, readConn, readFrame, writeFrame,
                   procVars, gwVars, rhVars>>

----------------------------------------------------------------------------
(* Requests: SendRequest() from the heartbeat goroutine and from invoke(). *)

\* SendRequest: refuse unless c.isAuth; register a fresh id, then send.
SendRequest(id) ==
    /\ isAuth
    /\ RH!Fresh(id)
    /\ RH!RegisterRequest(id)
    /\ sendChan' = Enqueue(ReqFrame(id))

\* Ticker: if cm.IsAuthenticated() && c.IsOpen(), sendHeartbeat().
HeartbeatSend ==
    /\ hb = "idle" /\ authenticated /\ isOpen
    /\ \E id \in Ids :
          /\ SendRequest(id)
          /\ hb' = "waiting"
          /\ hbId' = id
    /\ UNCHANGED <<cmVars, isOpen, isAuth, conn, nConns, stopGen, authOwner,
                   authResult, loopVars, reauth, timers, firing, reconnecting,
                   app, gwVars>>

\* The response channel yields a value (any value: success, error,
\* "Request timeout" or "Connection closed").
HeartbeatAnswered ==
    /\ hb = "waiting" /\ slot[hbId] # <<>>
    /\ hb' = "idle"
    /\ UNCHANGED <<cmVars, cVars, loopVars, reauth, timers, firing,
                   reconnecting, hbId, app, gwVars, rhVars>>

\* 5 s without an answer: cm.onDisconnected(), the client left as it is.
HeartbeatTimeout ==
    /\ hb = "waiting" /\ slot[hbId] = <<>>
    /\ hb' = "idle"
    /\ OnDisconnected(running, creds)
    /\ UNCHANGED <<running, creds, cVars, loopVars, reauth, firing,
                   reconnecting, hbId, app, gwVars, rhVars>>

\* invoke(): if cm.IsConnected(), SendRequest; the caller then waits on
\* the channel (its own 30 s timeout only stops it waiting).
Invoke ==
    /\ IsConnected
    /\ \E id \in Ids : SendRequest(id)
    /\ UNCHANGED <<cmVars, isOpen, isAuth, conn, nConns, stopGen, authOwner,
                   authResult, loopVars, procVars, gwVars>>

\* The timeout goroutine of ResponseHandler.RegisterRequest.
RequestTimeout ==
    /\ \E id \in Ids : RH!TimeoutFires(id)
    /\ UNCHANGED <<cmVars, cVars, loopVars, procVars, gwVars>>

----------------------------------------------------------------------------
(* The gateway: it reads the frames of a socket in order and answers a     *)
(* connect frame with accept or reject and a request with a response or    *)
(* not at all; either side may drop the socket at any time.               *)

GatewayRead(g) ==
    LET f == Head(toGateway[g]) IN
    /\ open[g] /\ toGateway[g] # <<>>
    /\ toGateway' = [toGateway EXCEPT ![g] = Tail(@)]
    /\ \/ /\ f.kind = "connect"
          /\ \E ok \in BOOLEAN :
                /\ srvAuth' = [srvAuth EXCEPT ![g] = IF ok THEN "ok" ELSE "rejected"]
                /\ toClient' = [toClient EXCEPT ![g] = Append(@, Frame("connectResp", NoId, ok))]
       \/ /\ f.kind = "req"
          /\ \/ \E ok \in BOOLEAN :
                   toClient' = [toClient EXCEPT ![g] = Append(@, Frame("resp", f.id, ok))]
             \/ UNCHANGED toClient
          /\ UNCHANGED srvAuth
    /\ UNCHANGED <<cmVars, cVars, loopVars, procVars, open, rhVars>>

GatewayDrop(g) ==
    /\ open[g]
    /\ Shut(g)
    /\ UNCHANGED <<cmVars, cVars, loopVars, procVars, srvAuth, rhVars>>

----------------------------------------------------------------------------
Next ==
    \/ AppStart \/ AppConnTimeout \/ AppSendConnect \/ AppAuthOk \/ AppAuthTimeout
    \/ TimerFires \/ ReconnectClose \/ ReconnectConnect
    \/ HeartbeatSend \/ HeartbeatAnswered \/ HeartbeatTimeout
    \/ Invoke \/ RequestTimeout
    \/ \E g \in Conns :
          \/ ReauthSend(g) \/ ReauthResult(g) \/ ReauthTimeout(g)
          \/ ReadTop(g) \/ ReadFrame(g) \/ ReadError(g) \/ ReadHandle(g) \/ ReadClose(g)
          \/ WriteStart(g) \/ WriteDequeue(g) \/ WriteOut(g) \/ WriteStop(g)
          \/ GatewayRead(g) \/ GatewayDrop(g)

Spec == Init /\ [][Next]_vars

\* Fairness the code guarantees: a goroutine that sleeps or waits with a
\* timeout wakes up.  The timeout goroutine of every registered request is
\* the one that matters for the correlator.
FairSpec == Spec /\ WF_vars(RequestTimeout)

----------------------------------------------------------------------------
(* Properties                                                              *)

\* The correlator seen through a refinement mapping: an id is requested
\* once RegisterRequest has put it in pendingRequests (it leaves only when
\* its channel gets a value), and its answers are the values sent into its
\* channel.
Corr == INSTANCE Correlator WITH
            requests <- pendingRequests \cup {id \in Ids : slot[id] # <<>>},
            answers  <- slot

\* The SDK's ResponseHandler, driven by invoke() and the heartbeat, by the
\* readLoop of any connection, by Close() from the reconnect goroutine or a
\* dying readLoop, and by the timeout goroutines, implements the correlator
\* of spec 4.2: every registered request gets exactly one answer that never
\* changes, whatever happens to the connection it was sent on, and none
\* waits for ever.
CorrelatorImplemented == Corr!Spec

\* One receive loop and one send loop per socket (spec 4.1, 5): two
\* readLoop goroutines never read the same socket at once, and two writeLoop
\* goroutines never write to c.conn at once (gorilla/websocket supports one
\* concurrent reader and one concurrent writer).
OneLoopPairPerSocket ==
    \A g1, g2 \in Conns :
        g1 # g2 =>
            /\ (readLoop[g1] = "reading" /\ readLoop[g2] = "reading")
                   => readConn[g1] # readConn[g2]
            /\ ~(writeLoop[g1] = "writing" /\ writeLoop[g2] = "writing")

\* Single flight (spec 4.4, 8): at most one reconnection sequence is in
\* progress: a sleeping scheduleReconnect goroutine, one past its check, or
\* one inside client.Reconnect().
SingleFlightReconnect ==
    timers + firing + reconnecting <= 1

\* cm.authenticated is only set while the current socket is one whose
\* credentials the gateway accepted: the flag belongs to the connection.
AuthenticatedMeansAccepted ==
    authenticated => conn # NoConn /\ srvAuth[conn] = "ok"

\* The gateway never reads a request on a socket before it has accepted
\* the robot's credentials on that socket.
RequestsOnlyWhenAuthenticated ==
    [][\A g \in Conns :
         (toGateway[g] # <<>> /\ Head(toGateway[g]).kind = "req"
            /\ toGateway'[g] = Tail(toGateway[g]) /\ open'[g])
            => srvAuth[g] = "ok"]_vars

\* ConnectWithTimeout returning false leaves nothing behind: no open socket.
FailedConnectReleasesSocket ==
    app = "failed" => ~isOpen
\* Once ConnectWithTimeout has returned true, a running manager that is
\* authenticated still holds the credentials its next onDisconnected needs
\* to schedule a reconnect; onConnected's re-auth goroutine clears them when
\* its 30 s wait loses the race to the gateway's answer.
CredentialsKeptWhileAuthenticated ==
    (app = "ok" /\ running /\ authenticated) => creds

=============================================================================
