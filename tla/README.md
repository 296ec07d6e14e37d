# TLA+ models of robot-gateway

These modules model the concurrent parts of the Go code under `src/go`. There are two of them:

- **The Wildfire robot SDK** (`sdk/client`). Its connection engine keeps a robot connected and authenticated to the Wildfire IM gateway.
- **The Openclaw adapter** (`openclaw-adapter/internal`). It bridges Wildfire conversations to an Openclaw agent gateway.

## 1. The system and how its parts interact

| Part | Source | State | Operations (goroutines) |
|---|---|---|---|
| ConnectionManager | `sdk/client/connection_manager.go` | `running`, `connected`, `authenticated`, credentials, heartbeat stop channel | Start, Stop, ConnectWithTimeout (app goroutine); scheduleReconnect timers; reconnect; onConnected re-auth goroutine; onAuthenticated / onAuthenticationFailed / onDisconnected; heartbeat goroutine |
| RobotGatewayClient | `sdk/client/websocket_client.go` | `conn`, `isOpen`, `isAuth`, `sendChan` (cap 100), `stopChan`, `authFuture` | Connect, Reconnect, Close; readLoop and writeLoop (one pair started per Connect); send, SendConnect, SendRequest; handleMessage / handleConnectResponse |
| ResponseHandler | `sdk/client/response_handler.go` | `pendingRequests` id -> chan (cap 1) | RegisterRequest (and its timeout goroutine), HandleResponse, Clear |
| RobotServiceClient | `sdk/client/robot_service_client.go` | none of its own | invoke = SendRequest + wait; about 20 API wrappers that only marshal |
| Openclaw WebSocketClient | `openclaw-adapter/internal/openclaw/websocket_client.go` | `isOpen`, `isAuthenticated`, `sendChan`, `pendingRequests`, `messageContexts` | Connect, CloseConnection, SendMessage, send; readLoop (handleResponse, handleChallenge, handleAgentEvent, handleChatEvent); writeLoop (writes, ping, cleanupExpiredContexts) |
| ContextManager | `openclaw-adapter/internal/session/context_manager.go` | `sessions`, `runIDMap` | RegisterSession, AssociateRunID, GetContextByRunID, GetDefaultSessionContext (CleanupExpiredSessions is never called) |
| Bridge | `openclaw-adapter/internal/bridge/bridge.go` | `running`, both clients, `isReconnecting` | Start, Stop, HandleWildfireMessage, HandleOpenclawResponse, scheduleOpenclawReconnect |
| MessageConverter | `openclaw-adapter/internal/converter/message_converter.go` | none (pure) | ConvertToOpenclaw (group-ness from the conversation type), ConvertFromOpenclaw (group-ness from thread != peer), buildPayload (stream message types 14/15) |
| Admission filters | `openclaw-adapter/internal/filter/` | none (pure) | WhitelistFilter.ShouldProcess (block and allow lists), GroupFilter.ShouldRespond (allowed groups; mention, question and keyword strategies) |
| Config, main | `config/`, `cmd/` | none (I/O) | loading, HTTP status |

How the parts interact:

1. A Wildfire push reaches `Bridge.HandleWildfireMessage` through the SDK's readLoop.
2. The bridge checks the payload type, runs the whitelist on the push, converts it, runs the group filter on the converted channel with the Wildfire client's current `GetRobotID()`, and then calls `openclaw.SendMessage`.
3. `SendMessage` registers the channel (sender, thread, group flag) under the single session key `"main"`, records it with the pending `chat.send`, and queues the request.
4. The Openclaw gateway answers with a run id, which `handleResponse` ties to the sender (`messageContexts`, `runIDMap`).
5. It then streams `agent` events and a `chat` final. `handleAgentEvent` builds a reply channel from the run's context, or from the session when the context is gone, and hands each event to the bridge. The bridge's `ConvertFromOpenclaw` turns the channel into a Wildfire conversation and the stream state into a payload type (14 generating, 15 generated), and sends it back through `RobotServiceClient`.

Most of what is hard to get right comes from the SDK engine:

- Up to six goroutines touch the same client: the app, the reconnect timers, the re-auth goroutine, the heartbeat and the two loops.
- `Close` replaces `stopChan`.
- The loops re-read `c.conn` on every iteration.
- Timeouts race late answers in three places: the correlator, heartbeat and authentication.

## 2. Modules

| Module | Models | Notes |
|---|---|---|
| `ResponseHandler` | the correlator | `pendingRequests` as a set of ids; `slot[id]` is the sequence of values sent into the id's capacity-1 channel; `watchdogs` is the set of timeout goroutines still sleeping. Each action is one `h.mu` critical section. |
| `WildfireClient` | ConnectionManager + RobotGatewayClient + the correlator (INSTANCE) + an abstract Wildfire gateway | One action per goroutine step. A step ends where the Go code blocks: a sleep, a channel operation or `ReadMessage`. Connections are numbered `1..MaxConns`; `Close`'s replacement of `stopChan` is a generation counter. |
| `Correlator` | the correlator's promise (spec §4.2), abstract | Not mapped to code. `requests` is the set of ids registered, `answers[id]` the answers an id has received. Steps: register a fresh id, answer a waiting id once, close (answer every waiting id "closed"). Weak fairness of answering a waiting id. `WildfireClient!Corr` maps `pendingRequests` plus the answered ids to `requests` and `slot` to `answers`. |
| `SessionContext` | ContextManager | Go maps as functions (`:>`, `@@`). |
| `Bridge` | the bridge orchestrator, its Openclaw reconnection supervisor and main()'s Start / signal / Stop sequence | The two clients are reduced to the link state the bridge reads: Wildfire `up`/`down`/`stopped`, and each Openclaw client instance `open`/`authed`/`closed`. A push `p` is taken from the constant set `Inbound`; `HandleWildfireMessage(p)` applies `Admits`, the filter chain, and hands an admitted push to the client in use. `robotID` is the Wildfire manager's `cm.robotID`: `""` until `WildfireConnect(TRUE)` (the poll of ConnectWithTimeout) stores it, although pushes already flow after `WildfireAuthenticated`, and `""` again after a refused or late re-auth (`WildfireRecover`) and after Stop. `recon[c]` is the reconnect goroutine started by client `c`'s drop. `NotifiesDisconnect` says whether a dropped Openclaw client calls `OnDisconnected`. The code never does, so `FALSE` is the program as built. `TRUE` wires the callback the `MessageHandler` interface declares, so the otherwise unreachable supervisor can be checked. |
| `OpenclawClient` | the Openclaw client + SessionContext (INSTANCE) + MessageConverter (EXTENDS) + an abstract Openclaw gateway | `SendMessage(p)` takes a push `p` from `Sent`, the pushes the bridge forwards, and records `ConvertToOpenclaw(p)`'s channel in the pending request and the session. Contexts carry the channel fields and a ghost `origin`, the conversation of the push they were recorded for. The gateway actions (`Server*`) are modelled from the spec's protocol description (they are `spec_modelled` in PROJECT.json). `outbox` records every message handed to the bridge's `OnResponse`, with the Wildfire conversation and payload the bridge's converter builds from it; `owner[r]` records which push really started run `r`. |
| `AdmissionFilters` | the whitelist and group filters, and the bridge's chain that runs them | Pure operators. Texts are strings (a TLA+ string is a sequence of characters), so `strings.Contains` and `strings.HasSuffix` are `SubSeq` tests. The converter never fills `Mentions`, so `containsMention` reduces to the `"@" + botID` text test. |
| `MessageConverter` | the message converter and the SDK's push types | Pure operators. Identifiers are model values and `""` is the empty string. Non-text payloads are reduced to one non-empty description, since their formatting reaches no property. |

Examples of how the model follows the code:

- `ReadTop(g)` is the top of readLoop for connection `g`. It reads `c.stopChan` and `c.conn` afresh, as the code does.
- `ReadHandle(g)` is `handleMessage`.
- `ReconnectClose` is `Reconnect`'s `Close()` followed by its 100 ms sleep.
- `ReconnectConnect` is the `Connect()` that follows, together with `reconnect`'s error branch.
- The `Connect` helper bundles two things: `client.Connect`, and `onConnected` with its re-auth goroutine start.
- Every helper that changes state is part of the action that calls it: `Close` runs `onDisconnected` and `Clear`, and `onDisconnected` runs `scheduleReconnect`.

## 3. Runs

| Run | Expect | What it shows |
|---|---|---|
| `wf_engine` | pass | 844,602 states. With any order of response, timeout and `Clear`, including reconnects, heartbeat timeouts and `Stop`, the SDK's ResponseHandler implements the abstract correlator of spec §4.2 (`CorrelatorImplemented`, checked as `Correlator!Spec` under the refinement mapping `WildfireClient!Corr`): every registered request gets exactly one answer that never changes (so no capacity-1 channel is sent a second value while `h.mu` is held), and none waits for ever. |
| `wf_one_loop_pair` | violation | After a reconnect, an old readLoop or writeLoop keeps using the new socket beside the new pair. |
| `wf_single_flight` | violation | A heartbeat timeout schedules a reconnect. The reconnect's `Close` then schedules a second one. |
| `wf_auth_flag` | violation | A connect response handled after `ConnectWithTimeout` gave up and called `Stop` sets `authenticated` on a stopped client. |
| `wf_requests_before_auth` | violation | `isAuth` survives `Close`, and the heartbeat request queued for the old socket is written on the new socket before its connect frame. |
| `wf_stop_leaks_socket` | violation | `Stop` during `Reconnect`'s sleep is followed by a fresh socket with live loops. |
| `wf_creds` | violation | The re-auth goroutine of a reconnect times out after 30 s and clears the credentials. Its connect frame is then answered late, and the manager becomes authenticated without credentials. Its next disconnect never reconnects (connection_manager.go:221). |
| `oc_client` | pass | 346,248 states. No message context outlives a finished run (`ContextsOnlyForLiveRuns`). Every reply to a private or group message goes to the conversation of the message whose context it was built from, from the MessageContext or from the session (`RepliesReturnToConversation`). |
| `oc_routing` | violation | Sender s1's run loses its context: either the chat final overtakes the agent end, or the context expires after 5 min without being refreshed. The completion then falls back to session `"main"`, which names s2, so s2 receives it with an empty text. |
| `bridge` | pass | 36,791 states, with `OnDisconnected` wired. Every reconnect goroutine ends within its retry bound (`ReconnectEnds`). Every drop of the Openclaw client in use while running ends in an authenticated client, a stop, or a reported give-up (`OpenclawRecovers`). `TypeOK` also holds. |
| `bridge_nil_client` | violation | A push delivered as soon as the robot is authenticated reaches `SendMessage` before Start has created the Openclaw client. The nil client panics and kills the process (bridge.go:63, 74, 87, 214). |
| `bridge_openclaw_recovers` | violation | In the program as built, the Openclaw client's readLoop never calls `OnDisconnected`. After a drop the bridge keeps running with Openclaw down, and it neither retries nor reports failure. |

Each property of a passing run has a mutant in PROJECT.json: a plausible bug in the mapped code that TLC catches.

- A `Clear` that deletes without answering breaks `CorrelatorImplemented`: a registered request disappears without an answer, which no abstract step allows.
- Storing the context on completion breaks `ContextsOnlyForLiveRuns`.
- Taking the thread from the sender for every conversation type breaks `RepliesReturnToConversation`: a group reply goes to the sender's private chat.
- A `retryCount <= maxRetries` loop condition breaks `TypeOK`'s retry bound.
- A missing `retryCount++` breaks `ReconnectEnds`.
- A missing deferred reset of `isReconnecting` breaks `OpenclawRecovers`: the second drop is ignored for ever.

`WildfireClient` and `OpenclawClient` define a `TypeOK`, but no run checks it. Its only conjunct a code change could touch is the send queue's bound, and a Go channel cannot hold more than its capacity: a `send` without the 5 s drop blocks rather than overflows. No plausible bug in the mapped code can break either invariant. The filter chain `Admits` has no property of its own either. The policy it implements is the chain itself, so a property about it would only restate the code.

**Bounds.**

- Wildfire: one request id, two connections and a send queue of capacity 1. That is enough for:
  - a reconnect;
  - a stale loop pair meeting the next socket;
  - a full queue drop;
  - every timeout racing every answer.

  The violations need at most two connections.
- Openclaw: two senders, two runs, three request ids, one text and queue capacity 1. Two senders and two runs are the least that can show a misroute. The bridge forwards two pushes (`MCSent`): a private message from `s1` and a group message from `s2`, each with a text payload. These are the two conversation types on which the converter's two group tests agree. The payload does not reach the reply path.
- Bridge: three Openclaw clients, two retries and two pushes out of five (`MCInbound`): a private message, a group message mentioning the robot, one mentioning another user, a question to a blocked super group, and a private message from a blocked sender. The whitelist blocks one sender and one group; the group strategy is setDefaults' (mention, question, keywords). Each filter branch that can reject or admit is reached by one of them.
  The clients and retries: That allows the client Start creates to drop, a reconnect client to drop in turn, and a third drop to find the supervisor at its client or retry bound. Once the client bound is reached, every further attempt fails to connect, which the code allows (the remote refuses).

**Fairness.**

- `wf_engine` assumes weak fairness of `RequestTimeout`, because the correlator's timeout goroutine only sleeps and then runs.
- `oc_client` and `oc_routing` check only invariants and assume no fairness.
- `bridge` and `bridge_openclaw_recovers` assume weak fairness of the steps that the code runs to completion. These are main's steps inside Start (every wait there is bounded), the readLoop's `HandleOpenclawDisconnected` and the deferred reset, and each step of a reconnect goroutine (its sleeps and its 5 s poll return). The gateways' answers, link drops, pushes, replies and the shutdown signal get no fairness.

No other fairness is assumed.

**Deadlock.** Deadlock checking is off in these runs because the real system can stop:

- a stopped or rejected Wildfire client stays stopped;
- a dropped Openclaw link is never re-established (see below);
- the process ends after `logger.Fatal`, after a panic, and when main returns from Stop.

## 4. Not modelled, and why

- Ping frames. They change no state that is read.
- Super-group replies (message_converter.go:55 against 116). A reply's conversation type is rebuilt from ThreadID != PeerID, while the inbound type comes from Conv.Type. A reply to a super group (type 2) therefore comes back as a group (type 1) conversation with the super group's id. The spec lists this as an open question. `RepliesReturnToConversation` covers types 0 and 1, and a scratch invariant over `MessageConverter` confirmed the type-2 case. It is recorded as a hazard; no run slot is left for the violation run that would show it.
- Pushes without a `conv`. `HandleWildfireMessage` reads `msg.Data.Conv.Type` for its log line before its nil check (bridge.go:176), so such a push panics before the converter sees it; `Sent` leaves them out.
- The converter's media and size helpers (`extractMediaInfo`, `extractMediaURL`, `parseExtraJSON`, `getInt*`, `formatFileSize`, `generateSessionID`). They only format text.
- Non-text payloads in the filter chain. The converter's description of a voice, image, video or file message is one non-empty token, so the group filter's text tests see no mention, question or keyword in it. The real descriptions embed the image description or file name, which could contain a keyword.
- Explicit mentions. The converter never copies `payload.mentionedTargets` into `Message.Mentions`, so the loop over mentions in `containsMention` never matches; only `@id` in the text counts. A unit test reaches this directly.
- The single-flight break in `scheduleOpenclawReconnect`. The `defer` at bridge.go:274 resets `isReconnecting` when the function returns rather than when its goroutine ends. With the callback wired, TLC finds a second reconnect goroutine started while the first is waiting on its client; I checked this by hand, using a scratch invariant over `MCBridge.cfg`'s constants. No run states it, and it is not listed as a hazard: nothing in the program as built calls `OnDisconnected`, so the supervisor never runs (`bridge_openclaw_recovers`). An abandoned reconnect client (bridge.go:311, never closed) is likewise unreachable today, and kept in the model's state for when the callback is wired.
- Start's `ctx.Done()` branch. main never cancels ctx while Start runs.
- The data race on `c.stopChan`. The model makes `Close` atomic, and a loop that misses the close is already among the behaviours.
- `CleanupExpiredSessions`. It is never called.
- Config loading and the HTTP endpoints. These are I/O (viper, net/http); the filter configuration's shape is in `AdmissionFilters`, and main()'s Start/signal/Stop sequence is modelled in `Bridge`.
- Dropped mentions in the robot-id window (connection_manager.go:119, bridge.go:203). A group message that mentions the robot and arrives before ConnectWithTimeout stores the robot id, or after the SDK has cleared it, is dropped. That is the safe direction; showing it would need a violation run and none is left. It is recorded as a hazard.
- `cmd/main.go`'s `/sessions` endpoint. It reads a freshly created ContextManager, so it always reports zero sessions. That is a plain bug, with no concurrency involved.

## 5. Open directions

1. **A `ConnectionLifecycle` refinement** (spec §4.1: Closed -> Connecting -> Connected -> Authenticating -> Authenticated). Connecting only exists inside `Connect()`, which both clients take as one step. The Openclaw client's flags can only move along the lifecycle's edges, so that refinement would check little. On the Wildfire side, the deviations from the lifecycle are already shown by the violation runs `wf_auth_flag` and `wf_creds`.
2. **Unbounded growth of the Openclaw `pendingRequests` and of `runIDMap`.** This stays out of a bounded model's reach, and is recorded as a hazard.
3. **The hazards that need a violation run**, and so a free run slot:
   - super-group replies;
   - mentions dropped in the robot-id window.
4. **The supervisor's single flight and its abandoned clients**, once `OnDisconnected` is wired: both are in `Bridge`'s behaviours with `NotifiesDisconnect = TRUE`.
