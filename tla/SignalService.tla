---------------------------- MODULE SignalService ----------------------------
(***************************************************************************)
(* The signalling server: the dictionary of connected clients, and the     *)
(* handlers of the Connect and Route calls that share it without a lock.   *)
(* Every call of the ConcurrentDictionary is atomic; a handler may be      *)
(* overtaken by any other between two of them.                             *)
(*                                                                         *)
(* A connected client is a RoomClient, created by one Connect call: it is  *)
(* named here by that call.  Its outbox (module StreamBuffer) is kept as   *)
(* the set of the messages pushed to it.                                   *)
(***************************************************************************)
EXTENDS Naturals, FiniteSets

CONSTANTS
    Accounts,   \* account ids: the keys of _connections
    Rooms,      \* room ids
    Conns,      \* Connect calls, over the server's life
    Routes,     \* Route calls, over the server's life
    None        \* null, or nothing found

ASSUME SignalAssumption ==
    /\ None \notin Conns
    /\ Conns \cap Routes = {}

VARIABLES
    request,   \* request[c]: what call c asks for; fixed when the call is made
    reg,       \* _connections: the client registered for each account
    pc,        \* pc[c]: where the handler of Connect call c is
    seen,      \* seen[c]: the client TryGetValue returned to c, until c has used it
    working,   \* working[c]: Buffer.IsWorking of c's client
    hungUp,    \* hungUp[c]: context.CancellationToken of c is cancelled
    todo,      \* todo[c]: the keys the foreach of c has still to visit
    sending,   \* sending[r]: the RouteMessageToOther r is inside of
    routed,    \* the Route calls that have been made
    outbox     \* outbox[c]: every message pushed to c's client

vars == <<request, reg, pc, seen, working, hungUp, todo, sending, routed, outbox>>

acct(c) == request[c].account
room(c) == request[c].room

Senders == Conns \cup Routes

Message == [kind : {"online", "offline", "route"}, from : Accounts]

\* No RouteMessageToOther under way.
Quiet == [kind |-> "none", from |-> None, dest |-> None, src |-> None]

\* Handlers past their session check and not past their cleanup.
Serving == {"stream", "dispose", "peek", "test", "remove"}

Steps == {"idle", "check", "refused", "lookup", "evict", "unregister",
          "announce", "register", "withdraw", "ended"} \cup Serving

Init ==
    /\ request \in [Conns -> [account : Accounts, room : Rooms]]
    /\ reg = [a \in Accounts |-> None]
    /\ pc = [c \in Conns |-> "idle"]
    /\ seen = [c \in Conns |-> None]
    /\ working = [c \in Conns |-> TRUE]
    /\ hungUp = [c \in Conns |-> FALSE]
    /\ todo = [c \in Conns |-> {}]
    /\ sending = [r \in Senders |-> Quiet]
    /\ routed = {}
    /\ outbox = [c \in Conns |-> {}]

-----------------------------------------------------------------------------
(* RouteMessageToOther: find the addressee, find the sender, push.  Both    *)
(* are found by name; the sender only to compare rooms.                     *)

\* TryGetValue(message.ToId, out var to)
LookupTo(r, kind, from, to) ==
    sending' = [sending EXCEPT ![r] =
        IF reg[to] = None THEN Quiet
        ELSE [kind |-> kind, from |-> from, dest |-> reg[to], src |-> None]]

LookupFrom_AnyRoom(r) ==
    /\ sending[r].dest # None
    /\ sending[r].src = None
    /\ LET from == reg[sending[r].from]
       IN  sending' = IF from # None
                      THEN [sending EXCEPT ![r].src = from]
                      ELSE [sending EXCEPT ![r] = Quiet]
    /\ UNCHANGED <<request, reg, pc, seen, working, hungUp, todo, routed, outbox>>

LookupFrom_Unchecked(r) ==
    /\ sending[r].dest # None
    /\ sending[r].src = None
    /\ sending' = [sending EXCEPT ![r].src = sending[r].dest]
    /\ UNCHANGED <<request, reg, pc, seen, working, hungUp, todo, routed, outbox>>

\* TryGetValue(message.FromId, out var from), then RoomId against RoomId.
LookupFrom(r) ==
    /\ sending[r].dest # None
    /\ sending[r].src = None
    /\ LET from == reg[sending[r].from]
       IN  sending' = IF from # None /\ room(from) = room(sending[r].dest)
                      THEN [sending EXCEPT ![r].src = from]
                      ELSE [sending EXCEPT ![r] = Quiet]
    /\ UNCHANGED <<request, reg, pc, seen, working, hungUp, todo, routed, outbox>>

\* to.Push(message): even if `to' has since been disposed or replaced.
PushTo(r) ==
    /\ sending[r].src # None
    /\ outbox' = [outbox EXCEPT ![sending[r].dest] =
                     @ \cup {[kind |-> sending[r].kind, from |-> sending[r].from]}]
    /\ sending' = [sending EXCEPT ![r] = Quiet]
    /\ UNCHANGED <<request, reg, pc, seen, working, hungUp, todo, routed>>

\* The Route call: any client names any sender and any addressee.
Route(r, from, to) ==
    /\ r \notin routed
    /\ LookupTo(r, "route", from, to)
    /\ routed' = routed \cup {r}
    /\ UNCHANGED <<request, reg, pc, seen, working, hungUp, todo, outbox>>

-----------------------------------------------------------------------------
(* Connect, up to the registration.                                         *)

Goto(c, step) == pc' = [pc EXCEPT ![c] = step]

Call(c) ==
    /\ pc[c] = "idle"
    /\ Goto(c, "check")
    /\ UNCHANGED <<request, reg, seen, working, hungUp, todo, sending, routed, outbox>>

\* AnyOne() finds a session server or null, and CheckSession answers, refuses
\* or fails: every refusal is an exception, caught and logged.
CheckSession(c) ==
    /\ pc[c] = "check"
    /\ \/ Goto(c, "lookup")
       \/ Goto(c, "refused")
    /\ UNCHANGED <<request, reg, seen, working, hungUp, todo, sending, routed, outbox>>

\* TryGetValue(accountId, out var t)
LookupOld_NoCheck(c) ==
    /\ pc[c] = "lookup"
    /\ seen' = [seen EXCEPT ![c] = reg[acct(c)]]
    /\ Goto(c, "evict")
    /\ UNCHANGED <<request, reg, working, hungUp, todo, sending, routed, outbox>>

LookupOld(c) ==
    /\ pc[c] = "lookup"
    /\ IF reg[acct(c)] = None
       THEN /\ Goto(c, "announce")
            /\ todo' = [todo EXCEPT ![c] = Accounts]
            /\ UNCHANGED seen
       ELSE /\ Goto(c, "evict")
            /\ seen' = [seen EXCEPT ![c] = reg[acct(c)]]
            /\ UNCHANGED todo
    /\ UNCHANGED <<request, reg, working, hungUp, sending, routed, outbox>>

\* t.Dispose()
Evict(c) ==
    /\ pc[c] = "evict"
    /\ working' = [working EXCEPT ![seen[c]] = FALSE]
    /\ seen' = [seen EXCEPT ![c] = None]
    /\ Goto(c, "unregister")
    /\ UNCHANGED <<request, reg, hungUp, todo, sending, routed, outbox>>

\* TryRemove(accountId): whoever is registered now, not only the `t' that was
\* disposed; if there is nobody left the call returns.
Unregister(c) ==
    /\ pc[c] = "unregister"
    /\ IF reg[acct(c)] = None
       THEN /\ Goto(c, "ended")
            /\ UNCHANGED <<reg, todo>>
       ELSE /\ reg' = [reg EXCEPT ![acct(c)] = None]
            /\ Goto(c, "announce")
            /\ todo' = [todo EXCEPT ![c] = Accounts]
    /\ UNCHANGED <<request, seen, working, hungUp, sending, routed, outbox>>

\* One round of a foreach over _connections, and its end.  The enumerator
\* is no snapshot: a key counts if it is there when its bucket is read.
\* No new round starts before the message of the last one is dealt with.
Visit(c, step, kind) ==
    /\ pc[c] = step
    /\ sending[c] = Quiet
    /\ \E to \in todo[c] :
          /\ LookupTo(c, kind, acct(c), to)
          /\ todo' = [todo EXCEPT ![c] = @ \ {to}]
    /\ UNCHANGED <<request, reg, pc, seen, working, hungUp, routed, outbox>>

EndVisits(c, step, next) ==
    /\ pc[c] = step
    /\ sending[c] = Quiet
    /\ todo[c] = {}
    /\ Goto(c, next)
    /\ UNCHANGED <<request, reg, seen, working, hungUp, todo, sending, routed, outbox>>

\* PeerOnline goes out before the client is registered.
AnnounceOnline(c) == Visit(c, "announce", "online") \/ EndVisits(c, "announce", "register")

Register_Missing(c) ==
    /\ pc[c] = "register"
    /\ Goto(c, "stream")
    /\ UNCHANGED <<request, reg, seen, working, hungUp, todo, sending, routed, outbox>>

Register_Overwrite(c) ==
    /\ pc[c] = "register"
    /\ reg' = [reg EXCEPT ![acct(c)] = c]
    /\ Goto(c, "stream")
    /\ UNCHANGED <<request, seen, working, hungUp, todo, sending, routed, outbox>>

\* TryAdd(accountId, buffer), whose result nobody looks at.
Register(c) ==
    /\ pc[c] = "register"
    /\ reg' = IF reg[acct(c)] = None THEN [reg EXCEPT ![acct(c)] = c] ELSE reg
    /\ Goto(c, "stream")
    /\ UNCHANGED <<request, seen, working, hungUp, todo, sending, routed, outbox>>

-----------------------------------------------------------------------------
(* Connect, from the stream to the end.                                     *)

\* The client goes away, at any time.
HangUp(c) ==
    /\ pc[c] # "idle"
    /\ ~hungUp[c]
    /\ hungUp' = [hungUp EXCEPT ![c] = TRUE]
    /\ UNCHANGED <<request, reg, pc, seen, working, todo, sending, routed, outbox>>

\* The `await foreach' ends because the client is gone, or because a newer
\* call disposed the buffer (StreamBuffer says why that may never end it).
EndStream(c) ==
    /\ pc[c] = "stream"
    /\ Goto(c, "dispose")
    /\ UNCHANGED <<request, reg, seen, working, hungUp, todo, sending, routed, outbox>>

EndOnHangUp(c) == hungUp[c] /\ working[c] /\ EndStream(c)

EndOnDispose(c) == ~working[c] /\ EndStream(c)

DisposeOwn_Missing(c) ==
    /\ pc[c] = "dispose"
    /\ Goto(c, "peek")
    /\ UNCHANGED <<request, reg, seen, working, hungUp, todo, sending, routed, outbox>>

\* buffer.Dispose()
DisposeOwn(c) ==
    /\ pc[c] = "dispose"
    /\ working' = [working EXCEPT ![c] = FALSE]
    /\ Goto(c, "peek")
    /\ UNCHANGED <<request, reg, seen, hungUp, todo, sending, routed, outbox>>

\* TryGetValue(accountId, out var b)
Peek(c) ==
    /\ pc[c] = "peek"
    /\ IF reg[acct(c)] = None
       THEN Goto(c, "ended") /\ UNCHANGED seen
       ELSE Goto(c, "test") /\ seen' = [seen EXCEPT ![c] = reg[acct(c)]]
    /\ UNCHANGED <<request, reg, working, hungUp, todo, sending, routed, outbox>>

\* if (!b.Buffer.IsWorking)
TestClosed(c) ==
    /\ pc[c] = "test"
    /\ Goto(c, IF working[seen[c]] THEN "ended" ELSE "remove")
    /\ seen' = [seen EXCEPT ![c] = None]
    /\ UNCHANGED <<request, reg, working, hungUp, todo, sending, routed, outbox>>

Remove_Missing(c) ==
    /\ pc[c] = "remove"
    /\ todo' = [todo EXCEPT ![c] = Accounts]
    /\ Goto(c, "withdraw")
    /\ UNCHANGED <<request, reg, seen, working, hungUp, sending, routed, outbox>>

\* TryRemove(accountId): by name again, whatever was tested.
Remove(c) ==
    /\ pc[c] = "remove"
    /\ reg' = [reg EXCEPT ![acct(c)] = None]
    /\ todo' = [todo EXCEPT ![c] = Accounts]
    /\ Goto(c, "withdraw")
    /\ UNCHANGED <<request, seen, working, hungUp, sending, routed, outbox>>

\* PeerOffLine goes out after the client is unregistered.
AnnounceOffline(c) == Visit(c, "withdraw", "offline") \/ EndVisits(c, "withdraw", "ended")

-----------------------------------------------------------------------------
\* QueryPlayerList: the accounts a client that joins is told of.
PlayerList_Unfiltered(r) ==
    {a \in Accounts : reg[a] # None /\ room(reg[a]) = r}

PlayerList(r) ==
    {a \in Accounts : reg[a] # None /\ room(reg[a]) = r /\ working[reg[a]]}

Send(r) == LookupFrom(r) \/ PushTo(r)

\* The steps a handler takes by itself once its call has been made.
Handle(c) ==
    \/ CheckSession(c) \/ LookupOld(c) \/ Evict(c) \/ Unregister(c)
    \/ AnnounceOnline(c) \/ Register(c)
    \/ EndOnHangUp(c) \/ DisposeOwn(c) \/ Peek(c) \/ TestClosed(c) \/ Remove(c)
    \/ AnnounceOffline(c)

Next ==
    \/ \E c \in Conns : Call(c) \/ Handle(c) \/ EndOnDispose(c) \/ HangUp(c)
    \/ \E r \in Routes, from, to \in Accounts : Route(r, from, to)
    \/ \E r \in Senders : Send(r)

Spec == Init /\ [][Next]_vars

\* A handler runs on (its session check is answered or fails) and a stream
\* whose client is gone ends.  Nobody has to call or to hang up, and a stream
\* that was disposed under its reader need not end.
Fairness ==
    /\ \A c \in Conns : WF_vars(Handle(c))
    /\ \A r \in Senders : WF_vars(Send(r))

FairSpec == Spec /\ Fairness

-----------------------------------------------------------------------------
(* Properties.                                                              *)

Admitted(c) == pc[c] \notin {"idle", "check", "refused"}

TypeOK ==
    /\ request \in [Conns -> [account : Accounts, room : Rooms]]
    /\ reg \in [Accounts -> Conns \cup {None}]
    /\ pc \in [Conns -> Steps]
    /\ seen \in [Conns -> Conns \cup {None}]
    \* a handler never uses the result of a TryGetValue that found nothing
    /\ \A c \in Conns : pc[c] \in {"evict", "test"} => seen[c] # None
    /\ working \in [Conns -> BOOLEAN]
    /\ hungUp \in [Conns -> BOOLEAN]
    /\ todo \in [Conns -> SUBSET Accounts]
    /\ sending \in [Senders -> [kind : {"none", "online", "offline", "route"},
                                from : Accounts \cup {None},
                                dest : Conns \cup {None},
                                src : Conns \cup {None}]]
    /\ routed \subseteq Routes
    /\ outbox \in [Conns -> SUBSET Message]

\* The registered client of an account is a client of that account, and its
\* handler still has its removal ahead of it: no entry is left behind by a
\* handler that has ended, whatever other calls of the account did meanwhile.
RegisteredIsServed ==
    \A a \in Accounts : reg[a] # None =>
        acct(reg[a]) = a /\ pc[reg[a]] \in Serving

\* A client that streams from an open buffer can be found, by Route and by
\* those who join, unless another call of its account was admitted: one that was
\* registered between its eviction and its TryAdd, or whose cleanup has removed it
\* by name.  No step of other accounts makes a client deaf.
UnlistedHasRival ==
    \A c \in Conns : pc[c] = "stream" /\ working[c] /\ reg[acct(c)] # c =>
        \E d \in Conns \ {c} : acct(d) = acct(c) /\ Admitted(d)

\* A message reaches a client only in the name of an account that passed the
\* session check and connected to that client's own room.
NoStranger ==
    \A c \in Conns : \A m \in outbox[c] :
        \E d \in Conns : acct(d) = m.from /\ room(d) = room(c) /\ Admitted(d)

\* What the order of Connect amounts to: PeerOnline is sent while its sender
\* is not registered yet, PeerOffLine when it no longer is, so either is
\* delivered only if a second call of the same account got in between.  An
\* account that connects once is never announced to anybody.
PresenceNeedsRival ==
    \A c \in Conns : \A m \in outbox[c] : m.kind \in {"online", "offline"} =>
        \E d, e \in Conns : d # e /\ acct(d) = m.from /\ acct(e) = m.from
                                  /\ Admitted(d) /\ Admitted(e)

\* Calls that have had their turn to register.
Past(c) == pc[c] \in Serving \cup {"withdraw", "ended"}

\* The handlers, interleaved at every call of the dictionary, give their clients
\* what Lobby promises: a client is listed once, where nobody stands, and neither
\* closed nor taken off the list unless it hung up or has a rival.
L == INSTANCE Lobby WITH
         Clients <- Conns,
         admitted <- {c \in Conns : Admitted(c)},
         left <- {c \in Conns : hungUp[c]},
         closed <- {c \in Conns : ~working[c]},
         tried <- {c \in Conns : Past(c)},
         listed <- reg,
         inbox <- outbox

ImplementsLobby == L!Spec

\* A registered client that hangs up does not stay registered, also when
\* newer calls of its account evict it or race with its cleanup.
HangUpClearsEntry ==
    \A c \in Conns : (hungUp[c] /\ reg[acct(c)] = c) ~> reg[acct(c)] # c

\* "remove if close" (SignalService.cs:120): what the cleanup of a connection
\* removes from the dictionary is a connection that is closed.
RemoveIfClosed ==
    [][\A c \in Conns : pc[c] = "remove" /\ pc'[c] # "remove" /\ reg[acct(c)] # None
          => ~working[reg[acct(c)]]]_vars

=============================================================================
