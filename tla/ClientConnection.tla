--------------------------- MODULE ClientConnection ---------------------------
(***************************************************************************)
(* One client of a room: RTCClientConnection keeps a WebRTC connection to  *)
(* every other player, made by offering to it or by answering its offer.   *)
(*                                                                         *)
(* All its code runs on Unity's main thread, but nearly every line awaits  *)
(* something, and whatever happens meanwhile runs in between: other calls  *)
(* of InitFromCreateOfferAsync and InitFromAnswerOfferAsync, the messages  *)
(* of the signalling server, the state changes of the connections, the     *)
(* time-out of a wait, the end of the scene.                               *)
(*                                                                         *)
(* The other clients, the server and WebRTC are left open: any message may *)
(* come from any peer, and any call or operation may fail.                 *)
(***************************************************************************)
EXTENDS Naturals

CONSTANTS
    Peers,   \* account ids of the other players
    Calls,   \* the calls that handlers of events make; bounds how many they are
    None

\* A call to InitFrom...OfferAsync.  ConnectAsync makes at most one for a peer,
\* which is named by it.
Attempts == Peers \cup Calls

ASSUME ClientAssumption ==
    /\ Peers \cap Calls = {}
    /\ None \notin Attempts

VARIABLES
    Connections,   \* the client of each peer, or None.  An RTCClient is named by
                   \* the attempt that created it
    live,          \* the clients that are not disposed
    IsOfferClient, \* those that made the last offer
    at,            \* at[k]: where attempt k is
    peer,          \* peer[k]: the player it was made for
    client,        \* client[k]: the client it uses
    OnAnswer,      \* the attempts whose handler is subscribed
    answered,      \* those whose waitingAnswer is false again
    described,     \* <<c, q>>: client c was given a description sent by q
    join,          \* where ConnectAsync is
    todo,          \* the players it has yet to visit
    joining,       \* the attempt it awaits
    shown,         \* the players that UIRTCClient shows
    disposed

connVars == <<Connections, live, IsOfferClient>>
attemptVars == <<at, peer, client>>
answerVars == <<OnAnswer, answered, described>>
joinVars == <<join, todo, joining>>
vars == <<connVars, attemptVars, answerVars, joinVars, shown, disposed>>

\* An operation of WebRTC that is awaited, and the step after it.
Awaited == [creatingOffer  |-> "offerCreated",
            settingOffer   |-> "offerSet",
            settingRemote  |-> "remoteSet",
            creatingAnswer |-> "answerCreated",
            settingAnswer  |-> "answerSet"]

\* The operation that follows one.
Following == [offerCreated  |-> "settingOffer",
              remoteSet     |-> "creatingAnswer",
              answerCreated |-> "settingAnswer"]

Ended == {"up", "failed"}

Steps == DOMAIN Awaited \cup {Awaited[s] : s \in DOMAIN Awaited} \cup Ended
            \cup {"idle", "routingOffer", "waiting", "routingAnswer"}

Connected == {q \in Peers : Connections[q] # None}

\* The stream of signalling messages is open.
Receiving == join \notin {"start", "offline"} /\ ~disposed

Init ==
    /\ Connections = [q \in Peers |-> None]
    /\ live = {}
    /\ IsOfferClient = {}
    /\ at = [k \in Attempts |-> "idle"]
    /\ peer = [k \in Attempts |-> None]
    /\ client = [k \in Attempts |-> None]
    /\ OnAnswer = {}
    /\ answered = {}
    /\ described = {}
    /\ join = "start"
    /\ todo = {}
    /\ joining = None
    /\ shown = {}
    /\ disposed = FALSE

-----------------------------------------------------------------------------
(* Beginning an attempt: the part up to its first await.                    *)

Goto(k, step) == at' = [at EXCEPT ![k] = step]

MarkOffer(c, offer) ==
    IsOfferClient' = IF offer THEN IsOfferClient \cup {c} ELSE IsOfferClient \ {c}

CreateClient_LookUp(k, q, offer, step) ==
    LET c == Connections[q] IN
    /\ MarkOffer(c, offer)
    /\ client' = [client EXCEPT ![k] = c]
    /\ Goto(k, IF c \in live THEN step ELSE "failed")
    /\ UNCHANGED <<Connections, live>>

CreateClient_Always(k, q, offer, step) ==
    /\ Connections' = [Connections EXCEPT ![q] = k]
    /\ live' = live \cup {k}
    /\ MarkOffer(k, offer)
    /\ client' = [client EXCEPT ![k] = k]
    /\ Goto(k, step)

\* CreateClient returns the client there is, or makes one.  Then the attempt
\* calls its first operation: on a client that was disposed with the whole
\* connection it throws, and a new one cannot be made then.
CreateClient(k, q, offer, step) ==
    LET c == Connections[q] IN
    \/ /\ c # None
       /\ MarkOffer(c, offer)
       /\ client' = [client EXCEPT ![k] = c]
       /\ Goto(k, IF c \in live THEN step ELSE "failed")
       /\ UNCHANGED <<Connections, live>>
    \/ /\ c = None
       /\ ~disposed
       /\ Connections' = [Connections EXCEPT ![q] = k]
       /\ live' = live \cup {k}
       /\ MarkOffer(k, offer)
       /\ client' = [client EXCEPT ![k] = k]
       /\ Goto(k, step)
    \/ /\ c = None
       /\ disposed
       /\ Goto(k, "failed")
       /\ UNCHANGED <<connVars, client>>

Begin(k, q, offer, step) ==
    /\ at[k] = "idle"
    /\ peer' = [peer EXCEPT ![k] = q]
    /\ CreateClient(k, q, offer, step)

InitFromCreateOffer(k, q) == Begin(k, q, TRUE, "creatingOffer")

InitFromAnswerOffer(k, q) == Begin(k, q, FALSE, "settingRemote")

-----------------------------------------------------------------------------
(* An attempt goes on.                                                      *)

\* UIRTCClient.RefreshView shows what Clients has, whenever OnPeerChanged is called.
RefreshView(players) == shown' = IF disposed THEN shown ELSE players

\* WebRTC completes the operation an attempt awaits, or fails it; the callback
\* of a client that was disposed is dropped.
Complete(k) ==
    /\ at[k] \in DOMAIN Awaited
    /\ client[k] \in live
    /\ \/ /\ Goto(k, Awaited[at[k]])
          /\ described' = IF at[k] = "settingRemote"
                          THEN described \cup {<<client[k], peer[k]>>}
                          ELSE described
       \/ Goto(k, "failed") /\ UNCHANGED described
    /\ UNCHANGED <<connVars, peer, client, OnAnswer, answered, joinVars, shown, disposed>>

\* It calls the next one, which throws if the client was disposed meanwhile.
CallNext(k) ==
    /\ at[k] \in DOMAIN Following
    /\ Goto(k, IF client[k] \in live THEN Following[at[k]] ELSE "failed")
    /\ UNCHANGED <<connVars, peer, client, answerVars, joinVars, shown, disposed>>

SendOffer_Unsubscribed(k) ==
    /\ at[k] = "offerSet"
    /\ Goto(k, IF client[k] \in live THEN "routingOffer" ELSE "failed")
    /\ UNCHANGED <<connVars, peer, client, answerVars, joinVars, shown, disposed>>

\* It subscribes to answers and routes the offer.  The handler is subscribed
\* also if reading the description of a disposed client throws.
SendOffer(k) ==
    /\ at[k] = "offerSet"
    /\ OnAnswer' = OnAnswer \cup {k}
    /\ Goto(k, IF client[k] \in live THEN "routingOffer" ELSE "failed")
    /\ UNCHANGED <<connVars, peer, client, answered, described, joinVars, shown, disposed>>

SendAnswer(k) ==
    /\ at[k] = "answerSet"
    /\ Goto(k, IF client[k] \in live THEN "routingAnswer" ELSE "failed")
    /\ UNCHANGED <<connVars, peer, client, answerVars, joinVars, shown, disposed>>

\* The call of Route returns or throws.
Routed(k) ==
    /\ \/ at[k] = "routingOffer" /\ Goto(k, "waiting") /\ UNCHANGED shown
       \/ at[k] = "routingAnswer" /\ Goto(k, "up") /\ RefreshView(Connected)
       \/ /\ at[k] \in {"routingOffer", "routingAnswer"}
          /\ Goto(k, "failed")
          /\ UNCHANGED shown
    /\ UNCHANGED <<connVars, peer, client, answerVars, joinVars, disposed>>

EndWait(k) ==
    /\ at[k] = "waiting"
    /\ k \in answered
    /\ Goto(k, "up")
    /\ RefreshView(Connected)
    /\ UNCHANGED <<connVars, peer, client, answerVars, joinVars, disposed>>

Timeout_OnlyCalls(k) ==
    /\ at[k] = "waiting"
    /\ k \in Calls
    /\ Goto(k, "failed")
    /\ UNCHANGED <<connVars, peer, client, answerVars, joinVars, shown, disposed>>

\* Only ConnectAsync limits the wait, to 20 s.  The handler stays subscribed.
Timeout(k) ==
    /\ at[k] = "waiting"
    /\ k \in Peers
    /\ Goto(k, "failed")
    /\ UNCHANGED <<connVars, peer, client, answerVars, joinVars, shown, disposed>>

Continue(k) ==
    \/ Complete(k) \/ CallNext(k) \/ SendOffer(k) \/ SendAnswer(k)
    \/ Routed(k) \/ EndWait(k) \/ Timeout(k)

-----------------------------------------------------------------------------
(* ConnectAsync.                                                            *)

\* Signal.ConnectAsync, after the microphone and the camera.
Connect ==
    /\ join = "start"
    /\ ~disposed
    /\ join' \in {"query", "offline"}
    /\ UNCHANGED <<connVars, attemptVars, answerVars, todo, joining, shown, disposed>>

QueryPlayers ==
    /\ join = "query"
    /\ \/ join' = "visit" /\ todo' \in SUBSET Peers
       \/ join' = "failed" /\ UNCHANGED todo
    /\ UNCHANGED <<connVars, attemptVars, answerVars, joining, shown, disposed>>

Between == join = "visit" /\ (joining # None => at[joining] \in Ended)

\* The next player, in any order; it is passed over if it has offered already.
Visit(q) ==
    /\ Between
    /\ q \in todo
    /\ todo' = todo \ {q}
    /\ IF Connections[q] # None
       THEN UNCHANGED <<connVars, attemptVars, joining>>
       ELSE InitFromCreateOffer(q, q) /\ joining' = q
    /\ UNCHANGED <<answerVars, join, shown, disposed>>

\* UIRTCClient.Start refreshes the view when ConnectAsync has returned.
Joined ==
    /\ Between
    /\ todo = {}
    /\ join' = "joined"
    /\ RefreshView(Connected)
    /\ UNCHANGED <<connVars, attemptVars, answerVars, todo, joining, disposed>>

JoinStep == Connect \/ QueryPlayers \/ (\E q \in Peers : Visit(q)) \/ Joined

-----------------------------------------------------------------------------
(* Events.  HandleReceive takes one message at a time to the main thread.   *)

ReceiveOffer(q) ==
    /\ Receiving
    /\ \E k \in Calls : InitFromAnswerOffer(k, q)
    /\ UNCHANGED <<answerVars, joinVars, shown, disposed>>

ReceiveAnswer_Unfiltered(q) ==
    /\ Receiving
    /\ answered' = answered \cup OnAnswer
    /\ OnAnswer' = {}
    /\ described' = described \cup {<<client[k], q>> : k \in {k \in OnAnswer : client[k] \in live}}
    /\ UNCHANGED <<connVars, attemptVars, joinVars, shown, disposed>>

\* OnAnswer.Invoke: every handler of that peer takes the answer, gives it to its
\* client and is unsubscribed.
ReceiveAnswer(q) ==
    LET heard == {k \in OnAnswer : peer[k] = q} IN
    /\ Receiving
    /\ answered' = answered \cup heard
    /\ OnAnswer' = OnAnswer \ heard
    /\ described' = described \cup {<<client[k], q>> : k \in {k \in heard : client[k] \in live}}
    /\ UNCHANGED <<connVars, attemptVars, joinVars, shown, disposed>>

DropClient_ShownFirst(q, c) ==
    /\ Connections' = [Connections EXCEPT ![q] = None]
    /\ live' = live \ {c}
    /\ RefreshView(Connected)
    /\ UNCHANGED IsOfferClient

\* Removed, disposed and announced without an await in between.
DropClient(q, c) ==
    /\ Connections' = [Connections EXCEPT ![q] = None]
    /\ live' = live \ {c}
    /\ RefreshView(Connected \ {q})
    /\ UNCHANGED IsOfferClient

ReceiveOffline(q) ==
    /\ Receiving
    /\ q \in Connected
    /\ DropClient(q, Connections[q])
    /\ UNCHANGED <<attemptVars, answerVars, joinVars, disposed>>

\* WebRTC asks for a negotiation some time after tracks were added (by
\* CreateClient) or removed (by ChangeCamera).
NegotiationNeeded(c) ==
    /\ c \in live
    /\ \E k \in Calls : InitFromCreateOffer(k, peer[c])
    /\ UNCHANGED <<answerVars, joinVars, shown, disposed>>

\* A connection can only be lost after it was negotiated.
Negotiated(c) == c \in live /\ \E q \in Peers : <<c, q>> \in described

Disconnected(c) ==
    /\ Negotiated(c)
    /\ c \in IsOfferClient
    /\ \E k \in Calls : InitFromCreateOffer(k, peer[c])
    /\ UNCHANGED <<answerVars, joinVars, shown, disposed>>

\* The entry removed is that of the player, whoever has it by now.
Failed(c) ==
    /\ Negotiated(c)
    /\ DropClient(peer[c], c)
    /\ UNCHANGED <<attemptVars, answerVars, joinVars, disposed>>

\* The scene ends, with WebRTC and this connection, by the user or because the
\* stream broke.  Connections is not cleared.
Dispose ==
    /\ ~disposed
    /\ disposed' = TRUE
    /\ live' = {}
    /\ OnAnswer' = {}
    /\ UNCHANGED <<Connections, IsOfferClient, attemptVars, answered, described,
                   joinVars, shown>>

Event ==
    \/ \E q \in Peers : ReceiveOffer(q) \/ ReceiveAnswer(q) \/ ReceiveOffline(q)
    \/ \E c \in Attempts : NegotiationNeeded(c) \/ Disconnected(c) \/ Failed(c)
    \/ Dispose

Next == JoinStep \/ Event \/ \E k \in Attempts : Continue(k)

Spec == Init /\ [][Next]_vars

\* The main thread runs what can go on, WebRTC completes what it was asked, and
\* a call to the server returns or fails.
Fairness == WF_vars(JoinStep) /\ \A q \in Peers : WF_vars(Continue(q))

FairSpec == Spec /\ Fairness

-----------------------------------------------------------------------------
(* Properties.                                                              *)

TypeOK ==
    /\ Connections \in [Peers -> Attempts \cup {None}]
    /\ live \subseteq Attempts
    /\ IsOfferClient \subseteq Attempts
    /\ at \in [Attempts -> Steps]
    /\ peer \in [Attempts -> Peers \cup {None}]
    /\ client \in [Attempts -> Attempts \cup {None}]
    /\ OnAnswer \subseteq Attempts
    /\ answered \subseteq Attempts
    /\ described \subseteq Attempts \X Peers
    /\ join \in {"start", "offline", "query", "visit", "joined", "failed"}
    /\ todo \subseteq Peers
    /\ joining \in Peers \cup {None}
    /\ shown \subseteq Peers
    /\ disposed \in BOOLEAN
    \* an attempt that has begun has a player, and one that goes on a client
    /\ \A k \in Attempts :
          /\ at[k] # "idle" => peer[k] # None
          /\ at[k] \notin {"idle", "failed"} => client[k] # None

\* No connection leaks: a client that is not disposed is the one Connections has
\* for its player, and the other way round, whatever attempts, messages and
\* state changes cross; and after Dispose no late attempt makes another.
LiveIsListed ==
    /\ ~disposed =>
          \A c \in Attempts : c \in live <=> \E q \in Peers : Connections[q] = c
    /\ disposed => live = {}

\* Still to be answered, and listening.
WaitingHears ==
    \A k \in Attempts :
        at[k] \in {"routingOffer", "waiting"} /\ k \notin answered /\ ~disposed =>
            k \in OnAnswer

\* Answered, and listening no more.
HearsOnce == OnAnswer \cap answered = {}

\* An attempt hears one answer: it is listening when it comes, also if that is
\* before its call to Route has returned, and never again, so that it does not take
\* the answer to a later offer.
HearsOneAnswer == WaitingHears /\ HearsOnce

\* A connection is only given descriptions that its own player sent, however many
\* attempts for different players wait at once.
DescribedByPeer == \A c \in live : \A q \in Peers : <<c, q>> \in described => Connections[q] = c

\* The screen keeps up: it shows no player whose connection is gone, and shows
\* every one an attempt has finished for.
ShownIsConnected ==
    ~disposed =>
        /\ shown \subseteq Connected
        /\ \A k \in Attempts :
              at[k] = "up" /\ peer[k] \in Connected /\ Connections[peer[k]] = client[k] =>
                  peer[k] \in shown

\* The attempt awaits an operation of a client that was disposed: nothing will
\* ever complete it, and its time limit is only for the answer.
Stranded(k) == at[k] \in DOMAIN Awaited /\ client[k] \notin live

\* ConnectAsync comes to its end though players do not answer, calls fail and
\* clients are dropped meanwhile, unless the attempt it awaits is stranded.
JoinEnds ==
    join = "query" ~>
        join \in {"joined", "failed"} \/ (joining # None /\ Stranded(joining))

=============================================================================
