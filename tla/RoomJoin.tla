------------------------------- MODULE RoomJoin -------------------------------
(***************************************************************************)
(* How the clients of a room find each other.  A client opens its stream   *)
(* of messages and, without waiting for the server to register it, asks    *)
(* who is there and offers a connection to each of them in turn.  Nobody   *)
(* is told of a client that joins (PresenceNeedsRival), so two clients     *)
(* meet only if an offer of one reaches the other.                         *)
(*                                                                         *)
(* The server is module SignalService, where a client is named by its      *)
(* Connect call.  What becomes of an offer that arrives, and of calls that *)
(* fail, is module ClientConnection: no call of a client fails here.       *)
(***************************************************************************)
CONSTANTS
    Accounts,  \* see SignalService
    Rooms,
    Clients,   \* RTCClientConnections
    None

\* A client is neither null nor one of the calls a client makes.
ASSUME RoomJoinAssumption ==
    /\ None \notin Clients
    /\ Clients \cap (Clients \X Accounts) = {}

VARIABLES request, reg, pc, seen, working, hungUp, todo, sending, routed, outbox

\* A client offers once to each player of its list.
Sig == INSTANCE SignalService WITH
           Conns <- Clients,
           Routes <- Clients \X Accounts

VARIABLES
    join,     \* join[c]: where ConnectAsync of client c is
    players,  \* players[c]: those of onlinePlayers it has yet to visit
    early,    \* history: the clients that asked before they were registered
    there,    \* there[c]: history: the peers it had when it asked
    offered   \* history: <<c, d>>: an offer of client c was pushed to client d

sigVars == <<request, reg, pc, seen, working, hungUp, todo, sending, routed, outbox>>
joinVars == <<join, players, early, there, offered>>
vars == <<sigVars, joinVars>>

acct(c) == request[c].account
room(c) == request[c].room

\* The server has this client for its account.
Registered(c) == reg[acct(c)] = c

\* The other players of its room: registered, from a stream that is open.
Peers(c) == {d \in Clients : /\ Registered(d) /\ working[d]
                             /\ room(d) = room(c) /\ acct(d) # acct(c)}

Init ==
    /\ Sig!Init
    /\ join = [c \in Clients |-> "start"]
    /\ players = [c \in Clients |-> {}]
    /\ early = {}
    /\ there = [c \in Clients |-> {}]
    /\ offered = {}

-----------------------------------------------------------------------------
(* RTCClientConnection.ConnectAsync.                                        *)

Goto(c, step) == join' = [join EXCEPT ![c] = step]

\* Signal.ConnectAsync makes the call; its stream is read by a task.
Connect(c) ==
    /\ join[c] = "start"
    /\ Sig!Call(c)
    /\ Goto(c, "asking")
    /\ UNCHANGED <<players, early, there, offered>>

QueryPlayers(c) ==
    /\ join[c] = "asking"
    /\ players' = [players EXCEPT ![c] = Sig!PlayerList(room(c)) \ {acct(c)}]
    /\ early' = IF Registered(c) THEN early ELSE early \cup {c}
    /\ there' = [there EXCEPT ![c] = Peers(c)]
    /\ Goto(c, "visiting")
    /\ UNCHANGED <<sigVars, offered>>

\* The Route call of the last visit has returned, and its answer has come or the
\* 20 s for it are over.
Free(c) == join[c] = "visiting" /\ \A a \in Accounts : sending[<<c, a>>] = Sig!Quiet

Visited(c, a) == players' = [players EXCEPT ![c] = @ \ {a}]

\* InitFromCreateOfferAsync routes an offer.
Offer(c, a) ==
    /\ Free(c)
    /\ a \in players[c]
    /\ Visited(c, a)
    /\ Sig!Route(<<c, a>>, acct(c), a)
    /\ UNCHANGED <<join, early, there, offered>>

\* There is a connection to this player already, made for its offer.
Skip(c, a) ==
    /\ Free(c)
    /\ a \in players[c]
    /\ [kind |-> "route", from |-> a] \in outbox[c]
    /\ Visited(c, a)
    /\ UNCHANGED <<sigVars, join, early, there, offered>>

Finish_OneLimit(c) ==
    /\ Free(c)
    /\ Goto(c, "done")
    /\ UNCHANGED <<sigVars, players, early, there, offered>>

\* Every visit has its own time limit and its own catch: a player that does not
\* answer keeps none of the others from being visited.
Finish(c) ==
    /\ Free(c)
    /\ players[c] = {}
    /\ Goto(c, "done")
    /\ UNCHANGED <<sigVars, players, early, there, offered>>

ConnectAsync(c) ==
    \/ Connect(c) \/ QueryPlayers(c) \/ Finish(c)
    \/ \E a \in Accounts : Offer(c, a) \/ Skip(c, a)

-----------------------------------------------------------------------------
(* The server.                                                              *)

PushOffer(c, a) ==
    /\ Sig!PushTo(<<c, a>>)
    /\ offered' = offered \cup {<<c, sending[<<c, a>>].dest>>}
    /\ UNCHANGED <<join, players, early, there>>

\* Everything else the server does, and a client that goes away.
Serve(c) ==
    /\ \/ Sig!Handle(c) \/ Sig!EndOnDispose(c) \/ Sig!HangUp(c) \/ Sig!Send(c)
       \/ \E a \in Accounts : Sig!LookupFrom(<<c, a>>)
    /\ UNCHANGED joinVars

Next ==
    \E c \in Clients :
        \/ ConnectAsync(c) \/ Serve(c)
        \/ \E a \in Accounts : PushOffer(c, a)

Spec == Init /\ [][Next]_vars

\* The server's: see SignalService.  No client has to go on.
FairSpec == Spec /\ Sig!Fairness

-----------------------------------------------------------------------------
(* Properties.                                                              *)

\* It has joined and the server serves it.
Joined(c) == join[c] = "done" /\ Registered(c) /\ working[c]

\* Its account has no other client.
Single(c) == \A d \in Clients \ {c} : acct(d) # acct(c)

\* Two clients of a room meet, whichever of them the server registers first and
\* however their lists, offers and visits interleave.  Only one that asked for the
\* list before it was registered, which nothing in ConnectAsync prevents, can miss
\* another that joins with it.
MissOnlyIfEarly ==
    \A c, d \in Clients :
        /\ c # d /\ room(c) = room(d)
        /\ Joined(c) /\ Single(c) /\ Joined(d) /\ Single(d)
        => <<c, d>> \in offered \/ <<d, c>> \in offered \/ {c, d} \cap early # {}

\* The list is read once and then worked off for up to 20 s per player
\* (ClientConnection.cs:184-199), while those on it hang up, are replaced and make
\* offers themselves.  Who was there when client c asked and is registered still
\* has c's offer once c is done, or c has its own; c may have failed to make it
\* only if it was itself early, or replaced.  And c's offers go to no one else,
\* except to a client that has taken the place of one that was there.  The list
\* does not keep c from an offer to one whose handler is cleaning up by then.
OffersFollowList ==
    /\ \A c \in Clients \ early : \A d \in there[c] :
          join[c] = "done" /\ Registered(c) /\ Registered(d)
          => <<c, d>> \in offered \/ [kind |-> "route", from |-> acct(d)] \in outbox[c]
    /\ \A c, d \in Clients : <<c, d>> \in offered =>
          \E e \in there[c] : d = e \/ (acct(d) = acct(e) /\ ~Registered(e))

\* See SignalService: also under the calls that joining clients make.
HangUpClearsEntry == Sig!HangUpClearsEntry

=============================================================================
