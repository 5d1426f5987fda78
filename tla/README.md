# A TLA+ development of rtcapp

rtcapp is a peer-to-peer video client (Unity, WebRTC) and the three small gRPC
servers behind it. Players log in, join a room, learn who else is in it and
negotiate direct connections; the servers only carry the login and the
signalling. This directory holds the specifications of that system, the TLC
configurations that check them on small instances and the TLAPS proofs about
them.

## The system

| Part | Source | State | Operations |
|---|---|---|---|
| Stream buffer | `RTC.XNet/StreamBuffer.cs`, `RTC.ServerUtility/AsyncStreamBuffer.cs` | a concurrent queue, a semaphore (0 or 1), `IsWorking`, a cancellation source | `Push`, `TryPull`, `TryPullAsync`, `Dispose` |
| Signalling service | `SignalServer/GrpcHandler/SignalService.cs`, `Utility/RoomClient.cs` | `_connections`: account id -> client (room and stream buffer) | `Connect` (one streaming call per client), `Route`, `QueryPlayerList` |
| Login server | `LoginServer/GrpcHandler/LoginService.cs`, `DataBase/DataBaseManager.cs`, `RTC.XNet/LogServer.cs` | MongoDB `db_account`, `db_session`; in memory `_sessionKey`, `_userSession` | `Login`, `Register`, `TryCreateSession` |
| Session server | `SessionServer/GrpcHandler/SessionServiceImp.cs` | none of its own; reads `db_session` | `CheckSession` |
| Discovery | `RTC.ServerUtility/WatchServer.cs`, `ZkHealthy.cs` | ZooKeeper nodes; `_serverConfigs` | `CreateAsync`, `CloseAsync`, `RefreshData`, `AnyOne` |
| Lifecycle | `ServerApp.cs`, `App.cs`, the three `Program.cs` | - | start, wait, stop |
| Subscriptions | `RTC.XNet/SubscribeTool.cs` | the list of handlers, the queue of those to delete | `Subscribe`, `Invoke`, `Dispose` |
| Client channel | `SignalChannel.cs` | the streaming call, one event per message kind | `ConnectAsync`, `Route`, `QueryPlayers`, `HandleReceive` |
| Client connections | `ClientConnection.cs`, `RTCClient.cs` | `Connections`: account id -> peer connection | `ConnectAsync`, create offer, answer offer, candidates, state changes |
| Scenes | `Launch.cs`, `UILogin.cs`, `UIRTCClient.cs` | the loaded scene, `autoLogin`, the methods left over from destroyed scenes | `GoToLoginAsync`, `GoToRtcAsync`, `Login`, `Start`, the offline handler |
| Version and interceptors | `Version.cs`, `LogServer.cs`, `LogChannel.cs` | none | version and token checks on each call |

How they interact. A client logs in at the login server, which stores a session
(account id, token) in MongoDB and answers with the token. With it the client
opens the `Connect` stream of the signalling server, which finds a session
server through ZooKeeper and asks it whether the token is the stored one. The
signalling server then disposes the client's older connection if there is one,
announces the client to the others, registers it in `_connections` and streams
to it whatever is pushed into its buffer. Any other handler pushes into that
buffer: `Route` calls of other clients, and their `Connect` calls when they
announce. The client asks for the list of players in its room, makes each an
offer through `Route`, and from then on the clients talk to each other.

What is hard about it:

* **Nothing takes a lock.** The stream buffer and `_connections` are built from
  concurrent collections, each call of which is atomic, and no two of which are
  atomic together. Several handlers of one account run at once whenever a
  client reconnects.
* **Cancellation and disposal cross.** A buffer is closed by its own handler and
  by the handler of a newer call, while a reader sleeps on its semaphore.
* **The database has no transactions here.** Each operation is awaited by
  itself; a call can fail, be cancelled or die between two of them.
* **State is split.** The sessions in MongoDB, the session keys in the login
  server's memory and the connections in the signalling server follow each
  other only by the order of calls.
* **Sessions outlive processes.** A ZooKeeper node stays for a while after its
  server died, and may vanish while its server lives; a watch fires once.
* **One thread, many awaits.** The client runs on Unity's main thread, but between
  two awaits of one negotiation any other message, call or state change may run,
  and dispose what the first one captured.
* **Methods outlive scenes.** Loading a scene destroys the one before it, but not
  the async methods it has begun; they go on, fail, and act on the new scene.
* **Events run foreign code.** A handler may subscribe, raise the same event or
  throw while the list of handlers is being walked.

## What makes each part correct

* Stream buffer: bounded, never loses the wakeup of a reader, keeps a sender's
  order, hands an item out once, stops when closed. -> `StreamBuffer`, `Mailbox`
* Signalling: the registered client of an account is one that is being served;
  a client that leaves is unregistered;
  a client that cannot be found has met another call of its account; messages
  stay within a room. -> `SignalService`
* Joining: two clients of a room meet, whatever order the server takes them in;
  offers go to those that were there when the list was read. -> `RoomJoin`
* Login: a call touches only the account it has the password of; a newer login
  replaces older sessions and nothing else does; session keys stay consistent
  under races. -> `LoginServer`
* Discovery: a registration belongs to the process it leads to; a registered
  server is found however refreshes overlap and whoever restarts.
  -> `ZkHealthy`, `WatcherServer`
* Client: no connection leaks, an attempt hears its own answer and no other,
  the screen follows the connections, joining ends. -> `ClientConnection`
* Events: every handler that is subscribed is called; one that is done is removed
  when a call ends. -> `SubscribeTools`
* Scenes: no stream outlives its scene, the app never hangs. -> `Launch`
* Negotiation: two clients in a room end up with one connection. (Planned.)

## The modules

| Module | What it is |
|---|---|
| `Mailbox` | abstract: a bounded, lossy, first-in first-out mailbox with one reader |
| `StreamBuffer` | the stream buffer, thread by thread; implements `Mailbox` |
| `Lobby` | abstract: who may be listed, missed, taken off and heard, without the handlers |
| `SignalService` | the signalling server's handlers over `_connections`; implements `Lobby` |
| `SessionTable` | abstract: what ends and opens the token of an account, without the database calls |
| `LoginServer` | logins and registrations over the two collections and the key dictionaries; implements `SessionTable` |
| `ZkHealthy` | the registrations of servers of one kind: start, crash, restart, expiry, stop |
| `WatcherServer` | the signalling server's dictionary of session servers; extends `ZkHealthy` |
| `ClientConnection` | one client of a room: its connections, attempts and events |
| `RoomJoin` | clients that join a room, composed with `SignalService` |
| `SubscribeTools` | the event class of the client: nested calls, changes and exceptions |
| `Launch` | the scenes of the app and the methods that outlive them |
| `MC...` | `SignalService` and `LoginServer` with the symmetry sets of their safety runs |
| `...Proofs` | the theorems |

### StreamBuffer

`requests` is `_requests`, `permits` the semaphore's count, `closed` the state of
`_source`, `semDisposed` whether the semaphore was disposed. `push[p]` is where a
producer stands in `Push`, `dispose[d]` where a disposer stands in `Dispose`,
`puller` where the one iterator stands in `TryPullAsync`; `data` is its local
variable. Every read or write of something shared is an action of its own:
`Push` is `CountRequests`, `Evict`, `Enqueue`, `Resume`; `Dispose` is
`StopWorking`, `CancelSource`, `FreeSemaphore`; an iteration of the loop is
`CheckWorking`, `WaitAsync`, `TryPull`, `ThrowIfClosed`, `YieldReturn`,
`BodyEnds`, `LoopEnds`. `yielded` and `late` are history.

The semaphore is modelled by what `SemaphoreSlim` does here: `Release` hands its
permit to a waiter or raises the count to 1, and throws (swallowed by `Resume`)
when the count is full or the semaphore disposed. A waiter whose token is
cancelled is completed by another thread, which first takes it off the
semaphore's list; `Dispose` empties that list, so a waiter that has not got that
far when `FreeSemaphore` runs stays asleep. The model has that outcome
(`Stranded`), and the two liveness properties that a sleeping waiter can be
concerned by name it as their exception.

### SignalService

A connected client is named by the `Connect` call that made it. `reg` is
`_connections`; `request[c]` is the account and room call `c` names; `working[c]`
is `IsWorking` of its buffer; `pc[c]` is where its handler stands, `seen[c]` the
client a `TryGetValue` returned and the handler is about to use, `todo[c]` the
keys its `foreach` over the dictionary has not reached. `sending[r]` is the
`RouteMessageToOther` a handler is inside of: `LookupTo`, `LookupFrom`, `PushTo`.
`outbox[c]` collects what was pushed to a client. The `foreach` runs over a live
dictionary, so a key is visited if it is there when its turn comes, in any order.
The session check is a free choice between accepted and refused (an exception,
whatever its cause, is a refusal: the handler logs it and returns).

`Lobby` is what its clients may rely on: a client is let in once, has one turn to be
listed, and is closed, missed or taken off only because it left or because a rival, a
second client of its account, was let in. `SignalService` implements it
(`ImplementsLobby`): `listed` is `_connections`, `admitted` the calls past the session
check, `left` those whose client hung up, `closed` the clients whose buffer is disposed,
`tried` the calls past `Register`; the session check admits, the two `Dispose` close,
`Register` lists or misses, both removals take off, `PushTo` delivers, and every other
step changes nothing of it.

### LoginServer

A call is named by what it creates: its account id, its token and its session
key are fresh guids. `request[c]` says whether it is a login or a registration,
and with which name and password. `accounts` and `sessions` are the collections,
`sessionKey` and `userSession` the dictionaries. Each database operation and
each dictionary call is an action; a database operation may be applied and still
fail the call (the acknowledgement is lost, the client cancels), or fail without
being applied (`DatabaseFails`). `Crash` ends every call under way and empties
the dictionaries. `CheckSession(a, token)` is the set of answers the session
server can give: with two stored sessions `FirstOrDefault` may read either.
`before` and `inserted` are history.

`SessionTable` is what the tokens promise: a call comes to an account by creating it or
by naming its name and password, then ends every session of it, once, and opens its
own, once; a token that was valid ends in no other way and never becomes valid again.
`LoginServer` implements it (`ImplementsSessionTable`) with `valid` the calls whose
session is stored. Failures, lost acknowledgements and crashes only cut the sequence
short; the session keys are no part of it, as no token depends on them.

### ZkHealthy

`root` and `node` are what ZooKeeper holds; a node is `"own"` while its session is
that of the process at its address and `"stale"` once that process has died.
`proc[s]` is where the process at `s` is: `Start` is `ServerApp.Start` up to the
listening server, `ExistsRoot`, `CreateRoot`, `ExistsNode`, `CreateNode` are the
calls of `CreateAsync` (an exception in one ends the process), `Leave` the two steps
of a program's stop callback. `DeregisterFirst` distinguishes the programs: the
login and signalling servers close ZooKeeper first, the session server shuts its
server down first. `Crash`, `Kill`, `ExpireStale` and `ExpireRunning` are the
environment. `expired` is history: the processes whose session was lost under them.

### WatcherServer

Extends `ZkHealthy`: a step of a session server is one of its steps (`WatchedStep`), which
fires the watch, if one is set (`armed`), when it changes the children of the root. Where both
have a definition of one name in the code, that of the watcher is named apart
(`RefreshExists` and `AutoGen` are `RefreshData`'s own calls of exists and create,
`WatchSpec` is the specification of the two together). `fired` counts the events not yet handed over. A `RefreshData` is named by what called it,
the start (`Startup`) or one of the events that can be under way at once; each call
to ZooKeeper is an action, and so is the load of each child (`LoadServer`).
`_serverConfigs` only grows, as in the code. `watcher` is `"deaf"` once its own
session timed out: nothing in the code makes another. `missed` is history.

### ClientConnection

One `RTCClientConnection`, with the other clients, the server and WebRTC left open.
An attempt is one call of `InitFromCreateOfferAsync` or `InitFromAnswerOfferAsync`;
the one `ConnectAsync` makes for a player is named by the player, and those the
event handlers make are drawn from `Calls`. `at[k]` is the await attempt `k` stands
at, `peer[k]` and `client[k]` what it captured. An `RTCClient` is named by the
attempt that created it; `live` holds those not disposed, `Connections` is the
dictionary. `OnAnswer` is the set of attempts whose handler is subscribed, and
`answered` those whose `waitingAnswer` is false again. `join`, `todo` and `joining`
are the loop of `ConnectAsync`, `shown` the players `RefreshView` last drew, and
`described` is history: which descriptions a connection was given.

Code between two awaits is one action: `Begin` (with `CreateClient`), `Complete`
(WebRTC calls back), `CallNext`, `SendOffer`, `SendAnswer`, `Routed`, `EndWait`,
`Timeout`. Events are `ReceiveOffer`, `ReceiveAnswer`, `ReceiveOffline` (messages, from
anybody at any time), `NegotiationNeeded`, `Disconnected`, `Failed` (WebRTC), and
`Dispose`. The callback of a disposed connection never comes, and a call on one
throws, which ends the attempt.

### RoomJoin

`INSTANCE`s `SignalService`, with one `Connect` call per client and one `Route` call
per client and player: an `RTCClientConnection` is named by its `Connect` call.
`join[c]` is where `ConnectAsync` stands: `Connect` (the call is made and not waited
for), `QueryPlayers`, then `Offer` or `Skip` for each player of the list, one at a
time, and `Finish`. A visit ends when its `Route` call has returned and the answer is
there or the 20 s are over. `early`, `there` and `offered` are history: who asked for the
list before the server had registered it, which clients of its room were registered with
an open stream when a client asked (`Peers`, stated without `PlayerList`), and whose
offers were pushed to whom. The calls
of a client do not fail here; that, and what becomes of an offer, is `ClientConnection`.

### SubscribeTools

`stack` holds the calls of `Invoke` under way, the innermost last: the handlers each
has visited and has ahead of it, the one it is inside of, and whether the list has
changed since it began (`changed`), after which the enumerator of a .NET list throws
at its next step. `Outside` says that code other than the class is running, so that it
may call anything. A handler is subscribed once and returns or throws as it likes;
`SubscribeForever` and `SubscribeOnce` are handlers that always return false or true.
`_deletes` is a set: removing a handler twice is removing it once. `subscribed`, `done`
and `cut` are history.

### Launch

`scene` is the loaded scene, `kind[s]` what it is, `loads` the calls of
`LoadSceneAsync` Unity has not got to, `shutting` the calls of `GoToLoginAsync` that
still shut the channels down. `logins[s]` counts the calls of `DoLogin` begun in scene
`s`, `start[s]` says where its `UIRTCClient.Start` is, `link[s]` what its channel is:
all three go on when `s` is no longer loaded. `LoadScene(s)` runs `OnDestroy` of the old
scene and begins `Start` of the new one; a name of `Scenes` is used again once nothing
of its scene is left (`Gone`).

What it takes of Unity and gRPC: the waits for microphone and camera, the only ones
that are given the scene's token, throw when the scene is destroyed; a call on a
channel that was shut throws, or has returned just before; the stream of a shut channel
ends; and a task whose token is cancelled before it is started never runs
(`NeverRead`). `Joined` may end without failing also in a destroyed scene, as when
`ConnectAsync` is stranded there (see `JoinEnds`).

## The runs

| Run | Instance | What it shows |
|---|---|---|
| `buffer` | 2 producers of 2 pushes, 1 disposer, `Max` 1, fair | types, `BacklogBounded`, `NoLostWakeup`, `SenderOrder`, `AtMostOneAfterClose`; `StreamBuffer` implements `Mailbox`; `CloseEndsPull`, `CancelEndsPull`, `QueuedIsTaken` |
| `signal_connect` | 3 `Connect` calls, 2 accounts, 2 rooms | types, `RegisteredIsServed`, `UnlistedHasRival`, `NoStranger`, `PresenceNeedsRival`; `SignalService` implements `Lobby` |
| `room_join` | 2 clients, 2 accounts, 1 room, fair servers | `MissOnlyIfEarly`, `OffersFollowList`, `HangUpClearsEntry` |
| `signal_removal` | 2 `Connect` calls of one account | `RemoveIfClosed` is violated |
| `login_safety` | 3 calls, 1 name, 2 passwords | `CredentialsMatch`, `NoOlderSession`, `RefusedOnlyIfReplaced`, `GapOnlyInLogin`, `CurrentKeyIsLive`; `LoginServer` implements `SessionTable` |
| `login_unique` | 2 calls, 1 name | `UniqueAccountName` is violated |
| `zk` | 3 servers, 2 crashes, stop order of login and signal, fair | `RunningIsOwner`, `RegisteredIsListening`, `DownComesUp` |
| `watch` | 2 session servers, 2 overlapping events, 1 crash on each side, fair | `KnowsAllWhenSettled`, `RegisteredIsFound` |
| `client` | 2 players, 1 call of a handler, fair | types, `LiveIsListed`, `HearsOneAnswer`, `DescribedByPeer`, `ShownIsConnected`, `JoinEnds` |
| `launch` | 3 scenes at once, 2 loads under way, fair | `OnlySceneIsLinked`, `NeverStuck`, `UsableAgain` |
| `launch_retry` | the same | `OfflineRetries` is violated |
| `subscribe` | 3 handlers, calls nested 3 deep | `ReachesAll`, `OnceIsOver` |

The types of `LoginServer`, `WatcherServer`, `Launch`, `ZkHealthy` and `SubscribeTools` are
proved (`TypeCorrect`, `ZkTypeCorrect`) and not listed in a run; the runs would find nothing the proofs
leave open.

The bounds. Two producers are enough for a race of counts, and with `Max` 1 their
four pushes evict, wake and meet the closing; a second disposer (the handler of a
newer call, besides the buffer's own) matters to the safety properties, which are
proved for any number of them. Three `Connect` calls of one account are the smallest
number in which one evicts another that is itself replacing a third. Every `Connect`
call and every login runs once; the servers' state after many calls only differs from
that by calls that have ended. In `room_join` two clients are one pair that may miss
each other, and also, with one account, a call and the one that replaces it: an entry
that has been taken from a call never names it again, so a third call adds nothing to
`HangUpClearsEntry` (`OnceListed` proves it, for any number of calls). An offer to a
client that has taken another's place takes three clients: `OffersFollowList` holds of
those by `OffersCorrect`. `Route` calls are made there, by the clients; `signal_connect` has
none, since a `Route` call only runs the `RouteMessageToOther` that the announcements
of `Connect` run as well, and `NoStranger` is proved for both.

Three servers give a race for the root with a bystander; two crashes let a restarted
process meet the node of its predecessor and die again. Two events and the start are
three overlapping refreshes. Two players and one further call are enough for an
attempt of `ConnectAsync` to cross an offer of the same player, a drop and a successor
connection, while another player's answer arrives; the theorems cover any number. Three
scenes are the loaded one and two that are left over; two loads under way are what a
log-in and an offline handler ask for at once. Three nested calls of an event give a
middle one that is changed from inside and changes the outer one.

`PushLimit`, `CrashLimit`, `GlitchLimit` and `Depth` bound otherwise unbounded counters.
`LoadLimit` bounds what is asked of `Launch` from outside: while so many loads are under
way the user, the server and the timers wait (`Calm`), which is what the seconds between
them amount to; what the methods of the app do to each other is not held back.
`Calls` and `Events` bound how many calls there are. Runs do not check for deadlock where
the system comes to rest when nobody calls; `subscribe` does, because an event can
always be raised. Symmetry is used in safety runs only.

### What the violated runs say

* `signal_removal`. The clean-up at the end of `Connect` looks the account up,
  tests that the buffer found is closed, and then removes the entry by account
  id. If another call of the account registers between the test and the removal,
  the entry removed is the new client's, which is live: it keeps streaming but
  is neither listed nor routed to. The comment above the block
  (`SignalService.cs:120`) says "remove if close". The trace needs the old call to
  have been evicted, so that two handlers are in their clean-up and their
  registration at once: a client that reconnects quickly.
* `login_unique`. `CreateAccountAsync` asks whether the name exists and then
  inserts, as two operations with no unique index. Two calls for one new name
  can both insert. If their passwords are equal too (a client that sends its
  first login twice), every later login finds two matches and
  `SingleOrDefaultAsync` throws.

* `launch_retry`. When its stream ends, a room goes back to the login scene with
  `autoLogin` set. If `Start` is still asking for the players then, the call it awaits
  fails as well, because the channels are shut, and its `catch` goes to the login scene
  too: with `GoToLoginAsync()`, whose default clears `autoLogin` before that scene has
  read it. The app stays at the button, although the handler logged "Offline retry".

### What the passing properties say that may surprise

* `MissOnlyIfEarly`: two clients that join a room together can miss each other for
  good. `ConnectAsync` asks for the players without waiting until the server has
  registered it; if both ask before either is registered, neither is on the other's
  list, and nobody announces them (`PresenceNeedsRival`). The property says that this
  is the only way; without its last disjunct it is violated in a few steps.
* `OffersFollowList`: the list is filtered by `IsWorking`, but read once and then worked
  off for up to 20 s per player. So offers do go to clients that have hung up and whose
  handlers are cleaning up, and to one that has taken the place of a client on the list.
  What holds is that nobody who is registered still is passed over, unless its own offer
  came first, and that an offer goes to nobody who was not there, or whose predecessor
  was not, when the list was read. A client that asked early, or is registered no
  longer itself, may leave offers out: the server drops what it routes.
* `UnlistedHasRival`: the result of `TryAdd` is ignored, so of two calls of one account
  the later can stream to a client that nobody can send to. The property says that it
  takes a second call of the account; no step of others makes a client deaf.
* `ImplementsLobby` says the same of every step, in both directions of the blame: who is
  closed, missed or taken off had left or had a rival. `signal_removal` is no contradiction:
  the live client that is taken off there has one.
* `OnceIsOver`: a once-handler can be called more than once. One that has returned true
  stays subscribed, on the queue, until a call of `Invoke` ends, and an event raised
  meanwhile from inside another handler calls it again. When no call is under way none
  is left, unless the last one ended in an exception, before it came to the queue
  (`cut`): then the next event calls it again.
* `UsableAgain` allows what may be called a kick loop: `Start` of a destroyed room goes
  on (the visit of a player takes up to 20 s), fails on what was destroyed, and its
  `catch` shuts the channels of the room that is loaded by then. The new room is lost,
  and its `Start` may do the same to the next one. The app is usable in between. `NeverStuck` is the safety that stands behind it: in
  every state in which the user can do nothing, something that will change that is under way.

* `PresenceNeedsRival`: `PeerOnline` and `PeerOffLine` are routed by a function that
  requires both ends to be registered, at moments when the sender is not. They
  are only ever delivered when a second call of the same account is registered
  in between. A client that connects once is never announced; the others learn
  of it from its offer.
* `GapOnlyInLogin` and `RefusedOnlyIfReplaced`: the exact extent to which the
  delete-then-insert of sessions is not atomic. A failed login does log the
  player out everywhere; a finished one is refused only because of another login.
* `RunningIsOwner`: a server is registered by its own session *unless it lost it*. A
  session lost for more than its 3 s takes the node away and nothing puts it back:
  the server runs on, unknown, until somebody restarts it.
* `KnowsAllWhenSettled` says "every registered server is in the dictionary", not the
  converse: the code never takes an address out. It excepts a call that failed
  under an event's refresh: the exception goes to the client library, the watch is
  not set again, and no later change is seen.
* `JoinEnds` has an exception too. An attempt whose connection is disposed while it
  awaits an operation of WebRTC is never completed (`Stranded`); the time limit of
  `ConnectAsync` only covers the wait for the answer, so it never visits the players
  that are left.
* `HearsOneAnswer`: an attempt that timed out stays subscribed until an answer of that
  player comes, also if it is the answer to a later attempt, which then hears it
  as well; both give it to the connection they captured.
* `BacklogBounded`: the buffer's bound is `Max` plus one per racing producer (and
  `Max + 1` when they do not race), not `Max`.

### Fairness

`buffer`: a thread inside `Push` or `Dispose` runs on to the return, and
the thread pool resumes the iterator (weak fairness of each). Nobody has to
push, dispose or hang up. A write to the client ends: the client reads it or
gRPC fails the call. `room_join`: every handler whose next step does not
wait for somebody else is run (weak fairness of `Handle` and `Send`): the session
check is answered or fails, and a stream whose client is gone ends. A stream
that was disposed under a sleeping reader is *not* assumed to end, because of
`Stranded`. No client has to go on with joining.

`zk`: a process that is down is started and runs on to the end of its start, and
ZooKeeper times dead sessions out. The containers of the session and signalling
servers say `restart: always` in `docker/server-de/docker-compose.yml`; for the
login server that line is commented out, so `DownComesUp` holds of it only where an
operator restarts it. No server has to stop, crash or lose its session. `watch`: the
signalling server is restarted, an event is handed over and a refresh runs to its
end; session servers owe nothing. `client`: `ConnectAsync` goes on when it
can, and so does the attempt it awaits: WebRTC completes or fails what it was asked
of a live connection, a call of `Route` returns or throws, and the 20 s pass. Nobody
has to answer, and attempts of handlers, which have no time limit, owe nothing. `launch`: Unity loads the scenes it was told
to and its timers run out; the devices record or fail; a call to a server returns or
fails; the handler of an ended stream runs. Nobody has to press a button, and a stream
may last for ever.

## The proofs

All theorems hold for any values of the constants: any number of threads, calls,
accounts, rooms, names, servers, refreshes, players, scenes, handlers, any `Max`. Each follows one pattern: a strengthened
invariant, a lemma that the initial states have it, a lemma that every step
keeps it, with one step per action, and a temporal step.

* `StreamBufferProofs`. `TypeCorrect`. `BacklogCorrect`: the queue plus the
  claims of producers that have decided not to evict stays within `Max + |Producers|`;
  the claims are a finite set, which is where `StreamBufferAssumption` is used.
  `WakeupCorrect`: while the reader waits no permit is left and a non-empty queue
  has a producer between `Enqueue` and `Resume`. `CloseCorrect`: once closed, an
  item passes `ThrowIfClosed` no more, so only the one already past it is late.
  `OrderCorrect`: the messages of one producer stand in the order of their numbers
  through what was yielded, what the iterator holds, the queue and what is yet to be
  pushed (`OrderInv`). `Refinement`: with the queue and the held item as the mailbox,
  every step accepts, loses, delivers or shuts, or changes nothing of it; the initial
  states map to initial ones; so `Spec => ImplementsMailbox`.
* `SignalServiceProofs`. `RegistrationCorrect`: a registered client is its
  account's, is being served, and if its handler is past `DisposeOwn` its buffer
  is closed; a handler past its test has something to remove. `NoStrangerCorrect` and `PresenceCorrect` share one invariant
  over messages under way: their sender was registered, or another call of the
  account was, in the same room, when the rooms were compared. `UnlistedCorrect`
  follows the three steps that can make a client unlisted: a `TryAdd` that fails, whose
  winner is served (`RegInv`), and the two removals by name. `OnceListed`: a call
  registers once, so an entry taken from it never names it again. `Refinement`: the step
  of a handler that closes a client needs its cause, which the handler saw some steps
  ago. `LobbyInv` keeps it: a handler about to evict holds an admitted client of its
  account that is not its own, one about to unregister has a rival, and one that ends
  with its buffer still open has a client that hung up. A step of one handler takes no cause
  from another (`CauseKept`), since admissions, disposals and departures are for good.
* `LoginServerProofs`. `CredentialsCorrect`: an account never changes or
  disappears, so the match found by `FindAccount` or made by `InsertAccount` lasts.
  `CurrentKeyCorrect`: a key named by `userSession` was added by the call that owns
  it and can only have been dropped by a call that is about to drop the name too.
  `NoOlderCorrect`, `RefusedCorrect` and `GapCorrect` share `SessionInv`: a session is
  stored once, by the call its token names, so one that was cleared never comes back
  (`BeforeInv`), and what a call has stored is there or was cleared by another login of
  the account (`KeptInv`). `Refinement`: these invariants, and that a call has no account
  before it has found or created one (`FreshInv`), map every database operation to the
  table's: a delete, whether its acknowledgement arrives or not, ends the sessions of the
  account exactly once.
* `DiscoveryProofs`, of the registrations and of the watcher. `OwnerCorrect` and
  `ListeningCorrect`: a node whose session is that of the process now at its address
  (`OwnInv`) is one of a process that runs or leaves, or has shut down already if it does
  not deregister first; so a process that is starting can only meet the node of a
  predecessor. `WatchingIsHarmless`: the watcher writes nothing to ZooKeeper but the root,
  which a session server would have made as well, so `WatchSpec => Spec`, and what is
  proved of the registrations alone holds of the two together. `KnowsAllCorrect` rests on
  `NothingLost`: unless a call failed, an event is on its way or a refresh has yet to
  read its list; or else the watch is set, and every registered server is in the
  dictionary or to be loaded by a refresh whose list has not lost a child.
* `ClientConnectionProofs`. The invariant `Inv` says that connections, clients and
  attempts agree on whose client each is (`Listing`, `Using`), and that only attempts
  past `SendOffer` are heard or answered (`Heard`). `StepKinds` shows that every step
  begins an attempt, continues one, drops a client, takes an answer, disposes, or is
  quiet; each kind keeps `Inv`, from which `ListedCorrect`, `HearsCorrect` and
  `DescribedCorrect` follow. `ShownCorrect` takes a step of its own on top of it.
* `LaunchProofs`. `LinkCorrect`: a `Start` that has yet to open its channel can only do
  so while its scene is loaded, since the waits before it are cancelled with the scene
  and `OnDestroy` closes what is open. `NeverStuckCorrect` rests on `Going`: a load or a
  shutdown is due, or the login scene has its button or a call that gives it back, or the
  room has yet to open its channel or has a stream that is open or whose end is still to
  be told. Of a room that is past that, only the stream counts: a `Start` that goes on
  there may be stranded for ever, and `Going` does not rely on it.
* `SubscribeToolsProofs`. `ReachCorrect`: every change of the list outdates every walk
  under way except the one that makes it, which has ended by then. `OnceCorrect`: only
  `End` empties the queue, and it removes from the list what is on it; a walk that
  was not cut short ends there, and one that was leaves `cut` behind.
* `RoomJoinProofs`. `JoiningIsConnecting`: `Spec => Sig!Spec`, a joining client uses the
  server as any caller may, so the theorems of `SignalServiceProofs` hold while clients
  join. `OffersCorrect` rests on two invariants. `FollowInv`: of a client that asked when
  it was registered, and one that was there then, as long as both are registered, the
  second is on the first one's list, or an offer to it is under way or has been pushed, or
  its own offer has arrived. An entry that is there now has been there since
  (`StillRegistered`), so each step hands the offer over from the list to the `Route` call
  and from that to the other's buffer, and `ConnectAsync` ends only when no call is left
  (`CallInv`). `ListInv`: whoever an offer is under way to, or was pushed to, was there
  when the client asked, or has the place of one that was (`Heir`). `MeetingCorrect`
  follows with `MeetInv`: of two clients neither of which was early, the one that asked
  last found the other, which was registered before it asked (`KnownInv`); and an offer
  that has arrived was made (`OutInv`).

The assumptions are those on the constants (`...Assumption`): the bounds are numbers, and
the markers for nobody, for the start or for a `Route` call are none of the values they
are told apart from. Nothing is assumed of how many there are of anything, except that
the producers of `StreamBuffer` are finitely many.

Model-checked only: the liveness properties (fairness and ENABLED are out of the
prover's reach) and the three violations. Every invariant and every refinement that a
run checks is proved, but for `HangUpClearsEntry`, which is liveness.

## Not modelled, and why

* Two clients' attempts composed: see the plan.
* ICE candidates (passed on to WebRTC, no reply), `PeerOnline` at the client (logged).
* The interceptors and `Version`: headers in, headers compared. `Version.Value` is
  `Major * 10000 + Minor * 100 + Patch`, which confuses versions with components of 100
  or more; both ends are built as 1.0.0 and nothing sets another.
* Logging, MD5, options, singletons: no state whose order matters.
* Session expiry: stored by the code, never read.
* `DeleteManyAsync` takes its documents one by one; `DeleteSessions` takes them at once.
* An exception inside `CreateClient` (`ClientConnection.cs:213-261`), which only calls
  WebRTC: a connection is made there whole or not at all.
* A server that has gone stays in the signalling server's dictionary, a lost session
  is not registered again, and a failed refresh is the last one: the models do all
  three (`WatcherServer` never removes, `expired`, `missed`), but as nothing in the
  repository says otherwise there is no property about them.
* Message contents, camera, microphone, tracks, textures: media and Unity calls.
* Generated and vendored code: the protobuf sources under `src/Tools/proto` (which are
  nearly all the lines of C++ in the repository), `src/Server/Grpc`, and the packages
  under `src/Packages` other than `com.xsoft.rtc`. None of it is the program's own. Of
  the program's own C# the modules map about 44 %; most of the rest is logging, text,
  media and drawing.

## The plan

1. *Done*: `StreamBuffer` and `Mailbox`, `SignalService`, `LoginServer`, `ZkHealthy`,
   `WatcherServer`, `ClientConnection`, `SubscribeTools`, `Launch` with their proofs, and
   the composition `RoomJoin` with its own, and the refinements of `Mailbox`, `Lobby` and
   `SessionTable`.
2. `Negotiation`: two instances of `ClientConnection` that exchange offers and answers
   through an unreliable channel: glare (both offer at once), lost and late answers,
   renegotiation after a disconnect. To check: both end connected, or neither shows
   the other.
3. `SessionFlow`: `LoginServer` composed with the session check of `Connect`.
4. Proofs: the safety that stands behind the other liveness properties, as `NeverStuck`
   does behind `UsableAgain`: what a stranded attempt of `ClientConnection` and an evicted
   handler of `SignalService` wait for; then those of `Negotiation` and `SessionFlow`.
