------------------------------- MODULE Bridge -------------------------------
(***************************************************************************)
(* The bridge orchestrator of the Openclaw adapter and its Openclaw        *)
(* reconnection supervisor:                                                *)
(*   src/go/openclaw-adapter/internal/bridge/bridge.go                     *)
(* driven by the main goroutine of cmd/main.go.                            *)
(*                                                                         *)
(* The two clients are abstracted to the state the bridge reads from them: *)
(* the Wildfire RobotServiceClient is a link that is up, down (the SDK     *)
(* reconnects it on its own) or stopped; each Openclaw WebSocketClient the *)
(* bridge creates is numbered 1..MaxClients and is open, authenticated or  *)
(* closed (OpenclawClient.tla models one such client in detail).  A       *)
(* NewWebSocketClient whose Connect fails leaves nothing behind and is not *)
(* numbered.  A push is one of the constant set Inbound and goes through  *)
(* the admission chain of AdmissionFilters; replies are counted.  The      *)
(* Wildfire client's robot id (GetRobotID) is kept, since the group filter *)
(* reads it: it is "" until ConnectWithTimeout has seen the robot          *)
(* authenticated, and again once the SDK has cleared its credentials.      *)
(*                                                                         *)
(* The Openclaw client never calls its handler's OnDisconnected (its       *)
(* readLoop only runs CloseConnection), so in the program as built         *)
(* HandleOpenclawDisconnected and scheduleOpenclawReconnect are never      *)
(* reached.  NotifiesDisconnect = FALSE is that program; TRUE wires the    *)
(* OnDisconnected callback the MessageHandler interface declares, which    *)
(* is how the supervisor is checked.                                       *)
(***************************************************************************)
EXTENDS Naturals, FiniteSets, AdmissionFilters

CONSTANTS
    MaxClients,          \* Openclaw clients that ever connect (model bound)
    MaxRetries,          \* maxRetries of scheduleOpenclawReconnect (10 in the code)
    MaxMsgs,             \* pushes from Wildfire (model bound)
    NotifiesDisconnect,  \* does a dropped Openclaw client call OnDisconnected?
    NoClient,            \* a model value: b.openclawClient == nil
    Whitelist,           \* cfg.Whitelist, a WhitelistConfig
    Group,               \* cfg.Group: enabled, allowedIDs, respondOnMention,
                         \*   respondOnQuestion, helpKeywords
    RobotId,             \* cfg.Wildfire.RobotID, a non-empty string
    Inbound              \* the pushes the Wildfire gateway may deliver

ASSUME MaxClients \in Nat \ {0} /\ MaxRetries \in Nat \ {0} /\ MaxMsgs \in Nat
ASSUME NotifiesDisconnect \in BOOLEAN
ASSUME Whitelist \in WhitelistConfig /\ RobotId # "" /\ Inbound \subseteq Pushes
\* Every push carries a conversation: HandleWildfireMessage dereferences
\* msg.Data.Conv before its nil check (bridge.go:176).
ASSUME \A p \in Inbound : p.hasConv

Clients == 1..MaxClients

VARIABLES
    mainPc,          \* the main goroutine: Start's steps, serving, exited
    running,         \* b.running
    isReconnecting,  \* b.isReconnecting
    wf,              \* the Wildfire link behind b.wildfireClient
    openclawClient,  \* b.openclawClient
    oc,              \* oc[c]: the state of Openclaw client c
    nClients,        \* Openclaw clients created and connected so far
    notify,          \* notify[c]: c's readLoop in OnDisconnected
    recon,           \* recon[c]: the reconnect goroutine spawned by c's drop
    gaveUp,          \* current clients when "Failed to reconnect" was reported
    asked,           \* asked[c]: chat.send requests sent on c, not yet answered
    msgs,            \* pushes handled so far
    panicked,        \* a goroutine panicked: the process is dead
    robotID          \* the Wildfire ConnectionManager's cm.robotID

vars == <<mainPc, running, isReconnecting, wf, openclawClient, oc, nClients,
          notify, recon, gaveUp, asked, msgs, panicked, robotID>>

ReconState == [pc : {"none", "loop", "wait", "sleep"}, retry : 0..MaxRetries,
               client : Clients \cup {NoClient}]
Idle == [pc |-> "none", retry |-> 0, client |-> NoClient]

TypeOK ==
    /\ mainPc \in {"init", "wfConnect", "ocConnect", "ocWait", "serving", "exited"}
    /\ running \in BOOLEAN /\ isReconnecting \in BOOLEAN
    /\ wf \in {"none", "up", "down", "stopped"}
    /\ openclawClient \in Clients \cup {NoClient}
    /\ oc \in [Clients -> {"none", "open", "authed", "closed"}]
    /\ nClients \in 0..MaxClients
    /\ notify \in [Clients -> {"none", "pending", "armed"}]
    /\ recon \in [Clients -> ReconState]
    /\ gaveUp \subseteq Clients \cup {NoClient}
    /\ asked \in [Clients -> 0..MaxMsgs] /\ msgs \in 0..MaxMsgs
    /\ panicked \in BOOLEAN
    /\ robotID \in {"", RobotId}

\* NewBridge: nothing connected, no Openclaw client yet.
Init ==
    /\ mainPc = "init" /\ running = FALSE /\ isReconnecting = FALSE
    /\ wf = "none" /\ openclawClient = NoClient
    /\ oc = [c \in Clients |-> "none"] /\ nClients = 0
    /\ notify = [c \in Clients |-> "none"] /\ recon = [c \in Clients |-> Idle]
    /\ gaveUp = {} /\ asked = [c \in Clients |-> 0] /\ msgs = 0
    /\ panicked = FALSE /\ robotID = ""

\* The process is alive: main has not returned or called logger.Fatal, and
\* no goroutine has panicked.
Alive == mainPc # "exited" /\ ~panicked

\* IsOpenclawConnected: the current client exists and is authenticated.
IsOpenclawConnected == openclawClient # NoClient /\ oc[openclawClient] = "authed"

\* Bridge.Stop: clear running, stop the Wildfire connection manager
\* (RobotServiceClient.Close, whose cm.Stop clears the credentials),
\* CloseConnection on the current Openclaw client.
Stop ==
    IF running
      THEN /\ running' = FALSE
           /\ wf' = IF wf = "none" THEN "none" ELSE "stopped"
           /\ robotID' = ""
           /\ oc' = IF openclawClient # NoClient /\ oc[openclawClient] # "none"
                      THEN [oc EXCEPT ![openclawClient] = "closed"] ELSE oc
      ELSE UNCHANGED <<running, wf, oc, robotID>>

-----------------------------------------------------------------------------
(* The main goroutine: Bridge.Start, then serve until a signal, Stop.      *)

StartBegin ==
    /\ mainPc = "init"
    /\ mainPc' = "wfConnect" /\ running' = TRUE
    /\ UNCHANGED <<isReconnecting, wf, openclawClient, oc, nClients, notify,
                   recon, gaveUp, asked, msgs, panicked, robotID>>

\* The SDK's readLoop handles the connect response while main is inside
\* ConnectWithTimeout: the robot is authenticated and pushes may be
\* delivered, but cm.robotID is still "" until the 100 ms poll sees it.
WildfireAuthenticated ==
    /\ mainPc = "wfConnect" /\ wf = "none" /\ Alive
    /\ wf' = "up"
    /\ UNCHANGED <<mainPc, running, isReconnecting, openclawClient, oc,
                   nClients, notify, recon, gaveUp, asked, msgs, panicked,
                   robotID>>

\* wildfireClient.Connect: ConnectWithTimeout's poll sees the robot
\* authenticated and stores robotID, or its wait times out and it stops the
\* manager; Start's error ends in logger.Fatal.
WildfireConnect(ok) ==
    /\ mainPc = "wfConnect" /\ Alive
    /\ IF ok THEN /\ wf = "up" /\ robotID' = RobotId /\ mainPc' = "ocConnect"
                  /\ UNCHANGED <<running, wf>>
             ELSE /\ wf # "up"
                  /\ wf' = "stopped" /\ running' = FALSE /\ mainPc' = "exited"
                  /\ UNCHANGED robotID
    /\ UNCHANGED <<isReconnecting, openclawClient, oc, nClients, notify, recon,
                   gaveUp, asked, msgs, panicked>>

\* b.openclawClient = NewWebSocketClient(...), then its Connect; on an error
\* wildfireClient.Close(), running = 0, and main's logger.Fatal.
OpenclawConnect(ok) ==
    /\ mainPc = "ocConnect" /\ Alive
    /\ IF ok THEN /\ openclawClient' = nClients + 1 /\ nClients' = nClients + 1
                  /\ oc' = [oc EXCEPT ![nClients + 1] = "open"]
                  /\ mainPc' = "ocWait"
                  /\ UNCHANGED <<running, wf, robotID>>
             ELSE /\ wf' = "stopped" /\ running' = FALSE /\ mainPc' = "exited"
                  /\ robotID' = ""
                  /\ UNCHANGED <<openclawClient, oc, nClients>>
    /\ UNCHANGED <<isReconnecting, notify, recon, gaveUp, asked, msgs, panicked>>

\* The 10 s wait for IsAuthenticated() ends: success, or b.Stop() and Fatal.
\* (ctx is never cancelled while main is inside Start.)
OpenclawStartWait ==
    /\ mainPc = "ocWait" /\ Alive
    /\ IF oc[openclawClient] = "authed"
         THEN /\ mainPc' = "serving" /\ UNCHANGED <<running, wf, oc>>
         ELSE /\ mainPc' = "exited" /\ Stop
    /\ UNCHANGED <<isReconnecting, openclawClient, nClients, notify, recon,
                   gaveUp, asked, msgs, panicked, robotID>>

\* SIGINT/SIGTERM: HTTP shutdown, b.Stop(), main returns.
Shutdown ==
    /\ mainPc = "serving" /\ Alive
    /\ mainPc' = "exited" /\ Stop
    /\ UNCHANGED <<isReconnecting, openclawClient, nClients, notify, recon,
                   gaveUp, asked, msgs, panicked, robotID>>

-----------------------------------------------------------------------------
(* The links.  The Wildfire SDK reconnects by itself; an Openclaw client   *)
(* is authenticated by the challenge/connect handshake, and any open one   *)
(* can be dropped, after which its readLoop runs CloseConnection and, if   *)
(* the callback is wired, OnDisconnected.  Requests sent on it are lost.   *)
(* WildfireClient.tla checks the Wildfire side in detail; here it is the   *)
(* outcomes it can produce.                                                *)

WildfireDrop ==
    /\ wf = "up" /\ Alive
    /\ wf' = "down"
    /\ UNCHANGED <<mainPc, running, isReconnecting, openclawClient, oc,
                   nClients, notify, recon, gaveUp, asked, msgs, panicked,
                   robotID>>

\* The SDK reconnects only with credentials (onDisconnected's hasCreds)
\* and re-authenticates in onConnected's goroutine: the answer comes in
\* time ("ok"); or it is refused and onAuthenticationFailed clears the
\* credentials and stops the manager ("refused"); or the goroutine's 30 s
\* timeout clears the credentials and the late answer still authenticates
\* the robot ("late", run wf_creds).
WildfireRecover(outcome) ==
    /\ wf = "down" /\ robotID # "" /\ Alive
    /\ wf' = IF outcome = "refused" THEN "stopped" ELSE "up"
    /\ robotID' = IF outcome = "ok" THEN robotID ELSE ""
    /\ UNCHANGED <<mainPc, running, isReconnecting, openclawClient, oc,
                   nClients, notify, recon, gaveUp, asked, msgs, panicked>>

OpenclawAuthenticated(c) ==
    /\ oc[c] = "open" /\ Alive
    /\ oc' = [oc EXCEPT ![c] = "authed"]
    /\ UNCHANGED <<mainPc, running, isReconnecting, wf, openclawClient,
                   nClients, notify, recon, gaveUp, asked, msgs, panicked, robotID>>

OpenclawDrop(c) ==
    /\ oc[c] \in {"open", "authed"} /\ Alive
    /\ oc' = [oc EXCEPT ![c] = "closed"]
    /\ asked' = [asked EXCEPT ![c] = 0]
    /\ notify' = IF NotifiesDisconnect THEN [notify EXCEPT ![c] = "pending"]
                                       ELSE notify
    /\ UNCHANGED <<mainPc, running, isReconnecting, wf, openclawClient,
                   nClients, recon, gaveUp, msgs, panicked, robotID>>

-----------------------------------------------------------------------------
(* Message flow.                                                           *)

\* HandleWildfireMessage, run by the SDK's readLoop for push p: unless the
\* bridge is stopped, the admission chain with the current GetRobotID();
\* if it admits p, b.openclawClient.SendMessage.  On a nil client the
\* method's first read (c.IsAuthenticated) panics; on an unauthenticated
\* one it returns an error that is only logged; otherwise the chat.send
\* goes out on it.
HandleWildfireMessage(p) ==
    /\ wf = "up" /\ Alive /\ msgs < MaxMsgs
    /\ msgs' = msgs + 1
    /\ IF running /\ Admits(Whitelist, Group, p, robotID)
         THEN IF openclawClient = NoClient
                THEN /\ panicked' = TRUE /\ UNCHANGED asked
              ELSE IF oc[openclawClient] = "authed"
                THEN /\ asked' = [asked EXCEPT ![openclawClient] = @ + 1]
                     /\ UNCHANGED panicked
              ELSE UNCHANGED <<asked, panicked>>
         ELSE UNCHANGED <<asked, panicked>>
    /\ UNCHANGED <<mainPc, running, isReconnecting, wf, openclawClient, oc,
                   nClients, notify, recon, gaveUp, robotID>>

\* The agent's reply arrives on the client it was asked on and its readLoop
\* calls HandleOpenclawResponse, which forwards it through
\* wildfireClient.SendMessage unless the bridge is stopped; a failure of
\* that call (Wildfire down) is only logged.
HandleOpenclawResponse(c) ==
    /\ asked[c] > 0 /\ oc[c] = "authed" /\ Alive
    /\ asked' = [asked EXCEPT ![c] = @ - 1]
    /\ UNCHANGED <<mainPc, running, isReconnecting, wf, openclawClient, oc,
                   nClients, notify, recon, gaveUp, msgs, panicked, robotID>>

-----------------------------------------------------------------------------
(* The reconnection supervisor.  HandleOpenclawDisconnected runs in the    *)
(* dropped client's readLoop: scheduleOpenclawReconnect's CAS on           *)
(* isReconnecting, then (after the go statement) its deferred reset, which *)
(* runs when the function returns, not when the goroutine ends.            *)

HandleOpenclawDisconnected(c) ==
    /\ notify[c] = "pending" /\ Alive
    /\ IF running /\ ~isReconnecting
         THEN /\ isReconnecting' = TRUE
              /\ notify' = [notify EXCEPT ![c] = "armed"]
         ELSE /\ notify' = [notify EXCEPT ![c] = "none"]
              /\ UNCHANGED isReconnecting
    /\ UNCHANGED <<mainPc, running, wf, openclawClient, oc, nClients, recon,
                   gaveUp, asked, msgs, panicked, robotID>>

\* Mutant: the deferred reset of isReconnecting is missing.
SpawnReconnectNoReset(c) ==
    /\ notify[c] = "armed"
    /\ recon' = [recon EXCEPT ![c].pc = "loop"]
    /\ notify' = [notify EXCEPT ![c] = "none"]
    /\ UNCHANGED isReconnecting
    /\ UNCHANGED <<mainPc, running, wf, openclawClient, oc, nClients, gaveUp,
                   asked, msgs, panicked, robotID>>

\* go func() {...}, then the defer: atomic.StoreInt32(&b.isReconnecting, 0).
SpawnReconnect(c) ==
    /\ notify[c] = "armed"
    /\ recon' = [recon EXCEPT ![c].pc = "loop"]
    /\ notify' = [notify EXCEPT ![c] = "none"]
    /\ isReconnecting' = FALSE
    /\ UNCHANGED <<mainPc, running, wf, openclawClient, oc, nClients, gaveUp,
                   asked, msgs, panicked, robotID>>

\* Mutant: the loop condition compares retryCount <= maxRetries.
RetryingOffByOne(g) ==
    running /\ recon[g].retry <= MaxRetries /\ ~IsOpenclawConnected

\* The loop condition: b.IsRunning() && retryCount < maxRetries &&
\* !b.IsOpenclawConnected().
Retrying(g) ==
    running /\ recon[g].retry < MaxRetries /\ ~IsOpenclawConnected

\* Mutant: retryCount++ is missing.
AttemptUncounted(g) == recon[g].retry

\* retryCount++.
Attempt(g) == recon[g].retry + 1

\* An attempt whose NewWebSocketClient(...).Connect() fails.
ReconnectConnectFails(g) ==
    /\ recon[g].pc = "loop" /\ Retrying(g) /\ Alive
    /\ recon' = [recon EXCEPT ![g].pc = "sleep", ![g].retry = Attempt(g)]
    /\ UNCHANGED <<mainPc, running, isReconnecting, wf, openclawClient, oc,
                   nClients, notify, gaveUp, asked, msgs, panicked, robotID>>

\* An attempt whose client connects; the goroutine polls its authentication.
ReconnectConnects(g) ==
    /\ recon[g].pc = "loop" /\ Retrying(g) /\ Alive
    /\ nClients < MaxClients
    /\ nClients' = nClients + 1
    /\ oc' = [oc EXCEPT ![nClients + 1] = "open"]
    /\ recon' = [recon EXCEPT ![g] = [pc |-> "wait", retry |-> Attempt(g),
                                      client |-> nClients + 1]]
    /\ UNCHANGED <<mainPc, running, isReconnecting, wf, openclawClient,
                   notify, gaveUp, asked, msgs, panicked, robotID>>

\* The 5 s poll of newClient.IsAuthenticated() ends: install it and return,
\* or fall through to the retry sleep, leaving newClient open.
ReconnectAuthWait(g) ==
    /\ recon[g].pc = "wait" /\ Alive
    /\ IF oc[recon[g].client] = "authed"
         THEN /\ openclawClient' = recon[g].client
              /\ recon' = [recon EXCEPT ![g] = Idle]
         ELSE /\ recon' = [recon EXCEPT ![g].pc = "sleep", ![g].client = NoClient]
              /\ UNCHANGED openclawClient
    /\ UNCHANGED <<mainPc, running, isReconnecting, wf, oc, nClients, notify,
                   gaveUp, asked, msgs, panicked, robotID>>

\* time.Sleep(retryInterval) (skipped when no retry is left), back to the
\* loop condition.
ReconnectSleep(g) ==
    /\ recon[g].pc = "sleep" /\ Alive
    /\ recon' = [recon EXCEPT ![g].pc = "loop"]
    /\ UNCHANGED <<mainPc, running, isReconnecting, wf, openclawClient, oc,
                   nClients, notify, gaveUp, asked, msgs, panicked, robotID>>

\* The loop condition fails: the goroutine ends, reporting the terminal
\* failure if the bridge is still not connected to Openclaw.
ReconnectExit(g) ==
    /\ recon[g].pc = "loop" /\ ~Retrying(g) /\ Alive
    /\ recon' = [recon EXCEPT ![g] = Idle]
    /\ gaveUp' = IF IsOpenclawConnected THEN gaveUp
                                        ELSE gaveUp \cup {openclawClient}
    /\ UNCHANGED <<mainPc, running, isReconnecting, wf, openclawClient, oc,
                   nClients, notify, asked, msgs, panicked, robotID>>

-----------------------------------------------------------------------------
Supervisor(g) ==
    \/ ReconnectConnectFails(g) \/ ReconnectConnects(g)
    \/ ReconnectAuthWait(g) \/ ReconnectSleep(g) \/ ReconnectExit(g)

Next ==
    \/ StartBegin \/ \E ok \in BOOLEAN : WildfireConnect(ok) \/ OpenclawConnect(ok)
    \/ OpenclawStartWait \/ Shutdown
    \/ WildfireAuthenticated \/ WildfireDrop
    \/ \E o \in {"ok", "refused", "late"} : WildfireRecover(o)
    \/ \E c \in Clients : OpenclawAuthenticated(c) \/ OpenclawDrop(c)
    \/ \E p \in Inbound : HandleWildfireMessage(p)
    \/ \E c \in Clients : HandleOpenclawResponse(c)
    \/ \E c \in Clients :
          \/ HandleOpenclawDisconnected(c)
          \/ SpawnReconnect(c)
          \/ Supervisor(c)

Spec == Init /\ [][Next]_vars

\* The goroutines the code runs to completion: main during Start (its
\* waits are bounded), the readLoop inside OnDisconnected, and every
\* reconnect goroutine (its sleeps and polls return).  Pushes, replies, the
\* gateways' answers, link drops and the shutdown signal are not fair.
FairSpec ==
    /\ Spec
    /\ WF_vars(StartBegin)
    /\ WF_vars(\E ok \in BOOLEAN : WildfireConnect(ok) \/ OpenclawConnect(ok))
    /\ WF_vars(OpenclawStartWait)
    /\ \A c \in Clients :
          /\ WF_vars(HandleOpenclawDisconnected(c))
          /\ WF_vars(SpawnReconnect(c))
          /\ WF_vars(Supervisor(c))

-----------------------------------------------------------------------------
(* Properties.                                                             *)

\* HandleWildfireMessage never calls SendMessage on a nil b.openclawClient:
\* Start sets b.running before connecting Wildfire, and the SDK may deliver
\* a push as soon as the robot is authenticated, before Start has created
\* the Openclaw client.
NeverSendsOnNilClient == ~panicked

\* Spec 4.4/4.5: when the Openclaw client in use drops while the bridge runs,
\* the bridge eventually is connected to Openclaw again, is stopped (or the
\* process is gone), or the supervisor reports that it gave up while that
\* client was still current.
OpenclawRecovers ==
    \A c \in Clients :
        (openclawClient = c /\ oc[c] = "closed" /\ running)
            ~> (IsOpenclawConnected \/ ~running \/ ~Alive \/ c \in gaveUp)

\* Spec 4.4: the supervisor does not retry forever; every reconnect
\* goroutine ends (or dies with the process), whatever the gateway answers.
ReconnectEnds ==
    \A g \in Clients : recon[g].pc # "none" ~> (recon[g].pc = "none" \/ ~Alive)

=============================================================================
