---------------------------- MODULE RoomJoinProofs ----------------------------
(***************************************************************************)
(* Theorems about RoomJoin, for any accounts, rooms and clients.           *)
(***************************************************************************)
EXTENDS RoomJoin, TLAPS

SigP == INSTANCE SignalServiceProofs WITH
            Conns <- Clients,
            Routes <- Clients \X Accounts

USE RoomJoinAssumption

-----------------------------------------------------------------------------
(* The server.  The clients of RoomJoin use it as SignalService allows, so    *)
(* what is proved of its steps there carries over.                            *)

LEMMA SigAssumed == SigP!SignalAssumption
  BY DEF SigP!SignalAssumption

LEMMA SameInit == Sig!Init => SigP!Init
  BY DEF Sig!Init, Sig!Quiet, Sig!Senders, SigP!Init, SigP!Quiet, SigP!Senders

LEMMA SameHandle == ASSUME NEW c \in Clients PROVE Sig!Handle(c) <=> SigP!Handle(c)
  BY DEF Sig!Handle, Sig!CheckSession, Sig!LookupOld, Sig!Evict, Sig!Unregister,
         Sig!AnnounceOnline, Sig!Visit, Sig!LookupTo, Sig!EndVisits, Sig!Register,
         Sig!EndOnHangUp, Sig!EndStream, Sig!DisposeOwn, Sig!Peek, Sig!TestClosed,
         Sig!Remove, Sig!AnnounceOffline, Sig!Goto, Sig!Quiet, Sig!acct,
         SigP!Handle, SigP!CheckSession, SigP!LookupOld, SigP!Evict, SigP!Unregister,
         SigP!AnnounceOnline, SigP!Visit, SigP!LookupTo, SigP!EndVisits, SigP!Register,
         SigP!EndOnHangUp, SigP!EndStream, SigP!DisposeOwn, SigP!Peek, SigP!TestClosed,
         SigP!Remove, SigP!AnnounceOffline, SigP!Goto, SigP!Quiet, SigP!acct

LEMMA SameOthers ==
    ASSUME NEW c \in Clients
    PROVE  /\ Sig!Call(c) <=> SigP!Call(c)
           /\ Sig!EndOnDispose(c) <=> SigP!EndOnDispose(c)
           /\ Sig!HangUp(c) <=> SigP!HangUp(c)
  BY DEF Sig!Call, Sig!EndOnDispose, Sig!EndStream, Sig!HangUp, Sig!Goto,
         SigP!Call, SigP!EndOnDispose, SigP!EndStream, SigP!HangUp, SigP!Goto

LEMMA SameSend ==
    ASSUME NEW r
    PROVE  /\ Sig!LookupFrom(r) <=> SigP!LookupFrom(r)
           /\ Sig!PushTo(r) <=> SigP!PushTo(r)
  BY DEF Sig!LookupFrom, Sig!PushTo, Sig!Quiet, Sig!room,
         SigP!LookupFrom, SigP!PushTo, SigP!Quiet, SigP!room

LEMMA SameRoute ==
    ASSUME NEW r, NEW from, NEW to
    PROVE  Sig!Route(r, from, to) <=> SigP!Route(r, from, to)
  BY DEF Sig!Route, Sig!LookupTo, Sig!Quiet, SigP!Route, SigP!LookupTo, SigP!Quiet

LEMMA AcctIn == ASSUME SigP!TypeInv, NEW c \in Clients PROVE acct(c) \in Accounts
  BY SigAssumed, SigP!AccountOf DEF acct, SigP!acct

LEMMA AskersSend ==
    ASSUME NEW c \in Clients, NEW a \in Accounts
    PROVE  /\ <<c, a>> \in Clients \X Accounts
           /\ <<c, a>> \in Sig!Senders /\ <<c, a>> \in SigP!Senders
  BY DEF Sig!Senders, SigP!Senders

\* A step of a client is one of the server, or leaves the server alone.
LEMMA ServerStep ==
    ASSUME SigP!TypeInv, [Next]_vars
    PROVE  [Sig!Next]_(Sig!vars) /\ [SigP!Next]_(SigP!vars)
<1> DEFINE Both == Sig!Next /\ SigP!Next
<1>1. ASSUME NEW c \in Clients,
             Sig!Call(c) \/ Sig!Handle(c) \/ Sig!EndOnDispose(c) \/ Sig!HangUp(c)
      PROVE  Both
  BY <1>1, SameHandle, SameOthers DEF Sig!Next, SigP!Next
<1>2. ASSUME NEW r, r \in Sig!Senders, r \in SigP!Senders,
             Sig!LookupFrom(r) \/ Sig!PushTo(r)
      PROVE  Both
  BY <1>2, SameSend DEF Sig!Next, Sig!Send, SigP!Next, SigP!Send
<1>3. ASSUME NEW c \in Clients, NEW a \in Accounts, Sig!Route(<<c, a>>, acct(c), a)
      PROVE  Both
  BY <1>3, AcctIn, AskersSend, SameRoute DEF Sig!Next, SigP!Next
<1>4. ASSUME UNCHANGED sigVars PROVE UNCHANGED Sig!vars /\ UNCHANGED SigP!vars
  BY <1>4 DEF sigVars, Sig!vars, SigP!vars
<1>5. ASSUME NEW c \in Clients, ConnectAsync(c) PROVE Both \/ UNCHANGED sigVars
  BY <1>1, <1>3, <1>5 DEF ConnectAsync, Connect, QueryPlayers, Finish, Offer, Skip
<1>6. ASSUME NEW c \in Clients, Serve(c) PROVE Both
  <2>1. c \in Sig!Senders /\ c \in SigP!Senders
    BY DEF Sig!Senders, SigP!Senders
  <2>2. ASSUME Sig!Send(c) PROVE Both
    BY <1>2, <2>1, <2>2 DEF Sig!Send
  <2>3. ASSUME NEW a \in Accounts, Sig!LookupFrom(<<c, a>>) PROVE Both
    BY <1>2, <2>3, AskersSend
  <2> QED
    BY <1>1, <1>6, <2>2, <2>3 DEF Serve
<1>7. ASSUME NEW c \in Clients, NEW a \in Accounts, PushOffer(c, a) PROVE Both
  BY <1>2, <1>7, AskersSend DEF PushOffer
<1>8. UNCHANGED vars => UNCHANGED sigVars
  BY DEF vars
<1> QED
  BY <1>4, <1>5, <1>6, <1>7, <1>8 DEF Next

ServerInv == SigP!TypeInv /\ SigP!RegInv

LEMMA ServerInit == Init => Sig!Init /\ ServerInv
  BY SigAssumed, SameInit, SigP!TypeInit, SigP!RegInit DEF Init, ServerInv

LEMMA ServerNext == ServerInv /\ [Next]_vars => ServerInv'
  BY SigAssumed, ServerStep, SigP!TypeNext, SigP!RegNext DEF ServerInv

\* Clients that join make no call that SignalService does not expect: what is shown
\* of the server for any calls holds for theirs.
THEOREM JoiningIsConnecting == Spec => Sig!Spec
<1>1. ServerInv /\ [Next]_vars => [Sig!Next]_(Sig!vars)
  BY ServerStep DEF ServerInv
<1> QED
  BY <1>1, ServerInit, ServerNext, PTL DEF Spec, Sig!Spec

-----------------------------------------------------------------------------
(* The meeting.  A client that has asked and was registered by then is past   *)
(* its registration, so while it is on the list it has been there since.  As  *)
(* long as both are, whoever was there when it asked is still to be visited,  *)
(* or an offer to it is under way, or has been pushed, and a client passes    *)
(* over another only if it has its offer.  Of two clients that both were      *)
(* registered when they asked, the one that asked last found the other there. *)

Asked(c) == join[c] \in {"visiting", "done"}

Live(c) == reg[acct(c)] = c /\ working[c]

JoinType ==
    /\ join \in [Clients -> {"start", "asking", "visiting", "done"}]
    /\ players \in [Clients -> SUBSET Accounts]
    /\ there \in [Clients -> SUBSET Clients]

\* Outside of its visits a client has nobody to visit and no call under way.
CallInv ==
    /\ \A c \in Clients : sending[c].kind # "route"
    /\ \A c \in Clients, a \in Accounts :
          /\ sending[<<c, a>>].dest # None => sending[<<c, a>>].from = acct(c)
          /\ join[c] # "visiting" => sending[<<c, a>>] = Sig!Quiet
    /\ \A c \in Clients : join[c] = "done" => players[c] = {}

\* An offer that was received was made.
OutInv ==
    \A d \in Clients : \A m \in outbox[d] :
        m.kind = "route" => \E c \in Clients : acct(c) = m.from /\ <<c, d>> \in offered

KnownInv == \A c \in Clients : Asked(c) /\ c \notin early => SigP!Past(c)

\* An offer of c to d is under way or has been pushed.
Sought(c, d) ==
    \/ <<c, d>> \in offered
    \/ \E a \in Accounts : sending[<<c, a>>].dest = d

\* d was there when c asked, or has taken the place of one that was.
Heir(c, d) == \E e \in there[c] : d = e \/ (acct(d) = acct(e) /\ ~Registered(e))

ListInv ==
    /\ \A c \in Clients : ~Asked(c) => there[c] = {}
    /\ \A c \in Clients : \A d \in there[c] : SigP!Past(d) /\ room(d) = room(c)
    /\ \A c \in Clients : \A a \in players[c] : \E d \in there[c] : acct(d) = a
    /\ \A c, d \in Clients : Sought(c, d) => Heir(c, d)

\* An offer of c to d has been made, or c is about to make it.
Toward(c, d) ==
    \/ acct(d) \in players[c]
    \/ sending[<<c, acct(d)>>].dest = d
    \/ <<c, d>> \in offered

Hears(c, d) == [kind |-> "route", from |-> acct(d)] \in outbox[c]

\* c owes d an offer.
Owes(c, d) == c \notin early /\ d \in there[c] /\ Registered(c) /\ Registered(d)

FollowInv == \A c, d \in Clients : Owes(c, d) => Toward(c, d) \/ Hears(c, d)

Fit(c, d) ==
    /\ c # d /\ room(c) = room(d)
    /\ Single(c) /\ Live(c) /\ Asked(c) /\ c \notin early
    /\ Single(d) /\ Live(d) /\ Asked(d) /\ d \notin early

MeetInv == \A c, d \in Clients : Fit(c, d) => d \in there[c] \/ c \in there[d]

Inv == JoinType /\ CallInv /\ OutInv /\ KnownInv /\ ListInv /\ FollowInv /\ MeetInv

LEMMA InvInit == Init => Inv
<1> SUFFICES ASSUME Init PROVE Inv
  OBVIOUS
<1>1. /\ join = [c \in Clients |-> "start"] /\ players = [c \in Clients |-> {}]
      /\ there = [c \in Clients |-> {}] /\ offered = {}
      /\ sending = [r \in Sig!Senders |-> Sig!Quiet] /\ outbox = [c \in Clients |-> {}]
  BY DEF Init, Sig!Init
<1>2. \A c \in Clients : sending[c] = Sig!Quiet
  BY <1>1 DEF Sig!Senders
<1>3. \A c \in Clients, a \in Accounts : sending[<<c, a>>] = Sig!Quiet
  BY <1>1 DEF Sig!Senders
<1>4. JoinType /\ CallInv /\ OutInv /\ KnownInv
  BY <1>1, <1>2, <1>3 DEF JoinType, CallInv, OutInv, KnownInv, Asked, Sig!Quiet
<1>5. ListInv
  <2>1. ASSUME NEW c \in Clients, NEW d \in Clients PROVE ~Sought(c, d)
    <3>1. \A a \in Accounts : sending[<<c, a>>].dest = None
      BY <1>3 DEF Sig!Quiet
    <3>2. d # None /\ offered = {}
      BY <1>1
    <3> QED
      BY <3>1, <3>2 DEF Sought
  <2>2. \A c \in Clients : there[c] = {} /\ players[c] = {}
    BY <1>1
  <2> QED
    BY <2>1, <2>2 DEF ListInv
<1>6. FollowInv /\ MeetInv
  BY <1>1 DEF FollowInv, Owes, MeetInv, Fit, Asked
<1> QED
  BY <1>4, <1>5, <1>6 DEF Inv

LEMMA ServerTypes ==
    ASSUME SigP!TypeInv
    PROVE  /\ reg \in [Accounts -> Clients \cup {None}]
           /\ working \in [Clients -> BOOLEAN]
           /\ outbox \in [Clients -> SUBSET [kind : {"online", "offline", "route"},
                                             from : Accounts]]
           /\ sending \in [Sig!Senders ->
                              [kind : {"none", "online", "offline", "route"},
                               from : Accounts \cup {None},
                               dest : Clients \cup {None},
                               src : Clients \cup {None}]]
           /\ \A r \in Sig!Senders :
                 /\ sending[r].src # None => sending[r].dest # None
                 /\ sending[r].dest # None =>
                       sending[r].from \in Accounts /\ sending[r].kind # "none"
  BY DEF SigP!TypeInv, SigP!TypeOK, SigP!SendShape, SigP!Senders, SigP!Message, Sig!Senders

\* The server never gives a client back what it has lost, and forgets no call.
LEMMA StillLive ==
    ASSUME ServerInv, [Next]_vars, NEW c \in Clients, SigP!Past(c)
    PROVE  SigP!Past(c)' /\ (Live(c)' => Live(c))
<1>1. [SigP!Next]_(SigP!vars) /\ SigP!TypeInv
  BY ServerStep DEF ServerInv
<1>2. /\ SigP!Past(c)'
      /\ reg'[SigP!acct(c)] = c => reg[SigP!acct(c)] = c
      /\ working'[c] => working[c]
  BY <1>1, SigAssumed, SigP!PastKept
<1>3. request' = request
  BY <1>1, SigAssumed, SigP!AdmittedKept
<1> QED
  BY <1>2, <1>3 DEF Live, acct, SigP!acct

LEMMA RequestKept == ASSUME ServerInv, [Next]_vars PROVE request' = request
  BY SigAssumed, ServerStep, SigP!AdmittedKept DEF ServerInv

LEMMA StillRegistered ==
    ASSUME ServerInv, [Next]_vars, NEW c \in Clients, SigP!Past(c)
    PROVE  Registered(c)' => Registered(c)
<1>1. [SigP!Next]_(SigP!vars) /\ SigP!TypeInv
  BY ServerStep DEF ServerInv
<1>2. reg'[SigP!acct(c)] = c => reg[SigP!acct(c)] = c
  BY <1>1, SigAssumed, SigP!PastKept
<1> QED
  BY <1>2, RequestKept DEF Registered, acct, SigP!acct

\* A step that changes nobody's state of joining keeps what is known.
LEMMA KnownKept ==
    ASSUME ServerInv, KnownInv, [Next]_vars, join' = join, early' = early
    PROVE  KnownInv'
<1> SUFFICES ASSUME NEW c \in Clients, Asked(c)', c \notin early' PROVE SigP!Past(c)'
  BY DEF KnownInv
<1>1. SigP!Past(c)
  BY DEF KnownInv, Asked
<1> QED
  BY <1>1, StillLive

\* Who fits after such a step did so before it, and they have asked by then.
LEMMA MeetKept ==
    ASSUME ServerInv, Inv, [Next]_vars, UNCHANGED <<join, early, there>>
    PROVE  MeetInv'
<1> SUFFICES ASSUME NEW c \in Clients, NEW d \in Clients, Fit(c, d)'
             PROVE  Fit(c, d)
  BY DEF Inv, MeetInv
<1>1. request' = request
  BY RequestKept
<1>2. Asked(c) /\ Asked(d) /\ c \notin early /\ d \notin early
  BY DEF Fit, Asked
<1>3. Live(c) /\ Live(d)
  BY <1>2, StillLive DEF Inv, KnownInv, Fit
<1>4. Single(c) /\ Single(d) /\ room(c) = room(d) /\ c # d
  BY <1>1 DEF Fit, Single, room, acct
<1> QED
  BY <1>2, <1>3, <1>4 DEF Fit

\* What was owed after a step that changes nobody's list was owed before it.
LEMMA OwesKept ==
    ASSUME ServerInv, Inv, [Next]_vars, UNCHANGED <<early, there>>,
           NEW c \in Clients, NEW d \in Clients, Owes(c, d)'
    PROVE  Owes(c, d) /\ room(c) = room(d)
<1>1. c \notin early /\ d \in there[c]
  BY DEF Owes
<1>2. SigP!Past(d) /\ room(d) = room(c) /\ Asked(c)
  BY <1>1 DEF Inv, ListInv
<1>3. SigP!Past(c)
  BY <1>1, <1>2 DEF Inv, KnownInv
<1>4. Registered(c) /\ Registered(d)
  BY <1>2, <1>3, StillRegistered DEF Owes
<1> QED
  BY <1>1, <1>2, <1>4 DEF Owes

LEMMA HeirKept ==
    ASSUME ServerInv, Inv, [Next]_vars, there' = there,
           NEW c \in Clients, NEW d \in Clients, Heir(c, d)
    PROVE  Heir(c, d)'
<1>1. PICK e \in there[c] : d = e \/ (acct(d) = acct(e) /\ ~Registered(e))
  BY DEF Heir
<1>2. e \in Clients /\ SigP!Past(e)
  BY DEF Inv, JoinType, ListInv
<1>3. Registered(e)' => Registered(e)
  BY <1>2, StillRegistered
<1> QED
  BY <1>1, <1>3, RequestKept DEF Heir, acct

\* A step that changes nobody's state of joining keeps the lists and what is owed,
\* if it takes up no player that is not listed and drops no offer that is owed.
LEMMA FollowKept ==
    ASSUME ServerInv, Inv, [Next]_vars, UNCHANGED <<join, early, there>>,
           \A c \in Clients : players'[c] \subseteq players[c],
           \A c, d \in Clients : Sought(c, d)' => Sought(c, d) \/ Heir(c, d),
           \A d \in Clients : outbox[d] \subseteq outbox'[d],
           \A c, d \in Clients : Owes(c, d) /\ room(c) = room(d) /\ Toward(c, d)
                                 => Toward(c, d)' \/ Hears(c, d)'
    PROVE  ListInv' /\ FollowInv'
<1>1. request' = request
  BY RequestKept
<1>2. \A c \in Clients : \A d \in there[c] : SigP!Past(d)' /\ room(d)' = room(c)'
  <2> TAKE c \in Clients
  <2> TAKE d \in there[c]
  <2>1. d \in Clients /\ SigP!Past(d) /\ room(d) = room(c)
    BY DEF Inv, JoinType, ListInv
  <2>2. SigP!Past(d)'
    BY <2>1, StillLive
  <2> QED
    BY <1>1, <2>1, <2>2 DEF room
<1>3. \A c, d \in Clients : Sought(c, d)' => Heir(c, d)'
  BY HeirKept DEF Inv, ListInv
<1>4. \A c \in Clients : \A a \in players'[c] : \E d \in there[c] : acct(d)' = a
  BY <1>1 DEF Inv, ListInv, acct
<1>5. \A c \in Clients : ~Asked(c)' => there'[c] = {}
  BY DEF Inv, ListInv, Asked
<1>6. ListInv'
  BY <1>2, <1>3, <1>4, <1>5 DEF ListInv
<1>7. FollowInv'
  <2> SUFFICES ASSUME NEW c \in Clients, NEW d \in Clients, Owes(c, d)'
               PROVE  (Toward(c, d) \/ Hears(c, d))'
    BY DEF FollowInv
  <2>1. Owes(c, d) /\ room(c) = room(d)
    BY OwesKept
  <2>2. Hears(c, d) => Hears(c, d)'
    BY <1>1 DEF Hears, acct
  <2> QED
    BY <2>1, <2>2 DEF Inv, FollowInv
<1> QED
  BY <1>6, <1>7

\* Nothing is taken from an outbox.
LEMMA OutboxKept ==
    ASSUME ServerInv, NEW r \in Sig!Senders, Sig!PushTo(r)
    PROVE  \A d \in Clients : outbox[d] \subseteq outbox'[d]
  BY ServerTypes DEF ServerInv, Sig!PushTo

\* What the server does for a client by itself touches no call of another client,
\* and pushes no offer.
LEMMA OwnSending ==
    ASSUME ServerInv, CallInv, NEW c \in Clients,
           Sig!Handle(c) \/ Sig!EndOnDispose(c) \/ Sig!HangUp(c) \/ Sig!Send(c)
    PROVE  /\ \A r \in Sig!Senders : r # c => sending'[r] = sending[r]
           /\ sending'[c].kind # "route"
           /\ \A d \in Clients : \A m \in outbox'[d] : m.kind = "route" => m \in outbox[d]
           /\ \A d \in Clients : outbox[d] \subseteq outbox'[d]
<1>a. /\ c \in Sig!Senders /\ c \in Clients
      /\ sending \in [Sig!Senders ->
                         [kind : {"none", "online", "offline", "route"},
                          from : Accounts \cup {None},
                          dest : Clients \cup {None},
                          src : Clients \cup {None}]]
      /\ sending[c].kind # "route"
  BY ServerTypes DEF ServerInv, CallInv, Sig!Senders
<1>1. ASSUME NEW to, NEW kind \in {"online", "offline"}, Sig!LookupTo(c, kind, Sig!acct(c), to)
      PROVE  (\A r \in Sig!Senders : r # c => sending'[r] = sending[r])
             /\ sending'[c].kind # "route"
  BY <1>1, <1>a DEF Sig!LookupTo, Sig!Quiet
<1>2. ASSUME Sig!AnnounceOnline(c) \/ Sig!AnnounceOffline(c)
      PROVE  /\ \A r \in Sig!Senders : r # c => sending'[r] = sending[r]
             /\ sending'[c].kind # "route"
             /\ outbox' = outbox
  BY <1>1, <1>2, <1>a DEF Sig!AnnounceOnline, Sig!AnnounceOffline, Sig!Visit, Sig!EndVisits
<1>3. ASSUME Sig!Handle(c) \/ Sig!EndOnDispose(c) \/ Sig!HangUp(c)
      PROVE  \/ Sig!AnnounceOnline(c) \/ Sig!AnnounceOffline(c)
             \/ UNCHANGED <<sending, outbox>>
  BY <1>3 DEF Sig!Handle, Sig!EndOnDispose, Sig!HangUp, Sig!CheckSession, Sig!LookupOld,
     Sig!Evict, Sig!Unregister, Sig!Register, Sig!EndOnHangUp, Sig!EndStream,
     Sig!DisposeOwn, Sig!Peek, Sig!TestClosed, Sig!Remove
<1>4. ASSUME Sig!LookupFrom(c)
      PROVE  /\ \A r \in Sig!Senders : r # c => sending'[r] = sending[r]
             /\ sending'[c].kind # "route"
             /\ outbox' = outbox
  BY <1>4, <1>a DEF Sig!LookupFrom, Sig!Quiet
<1>5. ASSUME Sig!PushTo(c)
      PROVE  /\ \A r \in Sig!Senders : r # c => sending'[r] = sending[r]
             /\ sending'[c].kind # "route"
             /\ \A d \in Clients : \A m \in outbox'[d] : m.kind = "route" => m \in outbox[d]
             /\ \A d \in Clients : outbox[d] \subseteq outbox'[d]
  <2>1. outbox \in [Clients -> SUBSET [kind : {"online", "offline", "route"}, from : Accounts]]
    BY ServerTypes DEF ServerInv
  <2>2. \A d \in Clients : \A m \in outbox'[d] : m.kind = "route" => m \in outbox[d]
    BY <1>5, <1>a, <2>1 DEF Sig!PushTo
  <2>3. /\ \A r \in Sig!Senders : r # c => sending'[r] = sending[r]
        /\ sending'[c].kind # "route"
    BY <1>5, <1>a DEF Sig!PushTo, Sig!Quiet
  <2> QED
    BY <1>5, <1>a, <2>2, <2>3, OutboxKept
<1> QED
  BY <1>2, <1>3, <1>4, <1>5, <1>a DEF Sig!Send

\* A client that was visited, or was asked about, is not lost sight of by what the
\* server does for others.
LEMMA ServeOwn ==
    ASSUME ServerInv, Inv, [Next]_vars, NEW c \in Clients, UNCHANGED joinVars,
           \A r \in Sig!Senders : r # c => sending'[r] = sending[r],
           sending'[c].kind # "route",
           \A d \in Clients : \A m \in outbox'[d] : m.kind = "route" => m \in outbox[d],
           \A d \in Clients : outbox[d] \subseteq outbox'[d]
    PROVE  Inv'
<1>1. request' = request /\ UNCHANGED <<join, players, early, there, offered>>
  BY RequestKept DEF joinVars
<1>2. \A d \in Clients, a \in Accounts : sending'[<<d, a>>] = sending[<<d, a>>]
  BY AskersSend
<1>3. JoinType'
  BY <1>1 DEF Inv, JoinType
<1>4. CallInv'
  <2>1. \A d \in Clients : sending'[d].kind # "route"
    BY DEF Inv, CallInv, Sig!Senders
  <2> QED
    BY <1>1, <1>2, <2>1 DEF Inv, CallInv, acct, Sig!Quiet
<1>5. OutInv'
  BY <1>1 DEF Inv, OutInv, acct
<1>6. KnownInv' /\ MeetInv'
  BY <1>1, KnownKept, MeetKept DEF Inv
<1>7. ListInv' /\ FollowInv'
  <2>1. \A d, e \in Clients : Sought(d, e)' => Sought(d, e)
    BY <1>1, <1>2 DEF Sought
  <2>2. \A d, e \in Clients : Toward(d, e) => Toward(d, e)'
    BY <1>1, <1>2, AcctIn DEF ServerInv, Toward, acct
  <2> QED
    BY <1>1, <2>1, <2>2, FollowKept
<1> QED
  BY <1>3, <1>4, <1>5, <1>6, <1>7 DEF Inv

\* The sender of an offer is looked up by its own name: it is found as long as it
\* is on the list, and then in the room that it was told of.
LEMMA ServeOffer ==
    ASSUME ServerInv, Inv, [Next]_vars, NEW c \in Clients, NEW a \in Accounts,
           Sig!LookupFrom(<<c, a>>), UNCHANGED joinVars
    PROVE  Inv'
<1> DEFINE r == <<c, a>>
<1>a. /\ r \in Sig!Senders
      /\ \A q \in Sig!Senders : q # r => sending'[q] = sending[q]
      /\ sending[r].dest # None /\ sending[r].from = acct(c)
      /\ \/ sending'[r] = Sig!Quiet
         \/ sending'[r].dest = sending[r].dest /\ sending'[r].from = sending[r].from
      /\ join[c] = "visiting"
      /\ outbox' = outbox
  BY AskersSend, ServerTypes DEF ServerInv, Inv, CallInv, Sig!LookupFrom, Sig!Quiet
<1>1. request' = request /\ UNCHANGED <<join, players, early, there, offered>>
  BY RequestKept DEF joinVars
<1>2. \A d \in Clients, b \in Accounts : <<d, b>> # r => sending'[<<d, b>>] = sending[<<d, b>>]
  BY <1>a, AskersSend
<1>3. JoinType'
  BY <1>1 DEF Inv, JoinType
<1>4. CallInv'
  <2>1. \A d \in Clients : sending'[d] = sending[d]
    BY <1>a DEF Sig!Senders
  <2>2. \A d \in Clients, b \in Accounts :
           /\ sending'[<<d, b>>].dest # None => sending'[<<d, b>>].from = acct(d)
           /\ join[d] # "visiting" => sending'[<<d, b>>] = Sig!Quiet
    <3> TAKE d \in Clients, b \in Accounts
    <3>1. CASE <<d, b>> = r
      <4>1. d = c
        BY <3>1
      <4> QED
        BY <1>a, <3>1, <4>1 DEF Sig!Quiet
    <3>2. CASE <<d, b>> # r
      BY <1>2, <3>2 DEF Inv, CallInv
    <3> QED
      BY <3>1, <3>2
  <2> QED
    BY <1>1, <2>1, <2>2 DEF Inv, CallInv, acct, Sig!Quiet
<1>5. OutInv'
  BY <1>1, <1>a DEF Inv, OutInv, acct
<1>6. KnownInv' /\ MeetInv'
  BY <1>1, KnownKept, MeetKept DEF Inv
<1>7. ListInv' /\ FollowInv'
  <2>1. ASSUME NEW f \in Clients, NEW g \in Clients, Sought(f, g)' PROVE Sought(f, g)
    <3>1. CASE <<f, g>> \in offered'
      BY <1>1, <3>1 DEF Sought
    <3>2. ASSUME NEW b \in Accounts, sending'[<<f, b>>].dest = g PROVE Sought(f, g)
      <4>1. g # None
        OBVIOUS
      <4>2. CASE <<f, b>> = r
        BY <1>a, <3>2, <4>1, <4>2 DEF Sought, Sig!Quiet
      <4>3. CASE <<f, b>> # r
        BY <1>2, <3>2, <4>3 DEF Sought
      <4> QED
        BY <4>2, <4>3
    <3> QED
      BY <2>1, <3>1, <3>2 DEF Sought
  <2>2. ASSUME NEW f \in Clients, NEW g \in Clients,
               Owes(f, g), room(f) = room(g), Toward(f, g)
        PROVE  Toward(f, g)'
    <3>1. CASE sending[<<f, acct(g)>>].dest = g /\ <<f, acct(g)>> = r
      <4>1. reg[sending[r].from] = c
        BY <1>a, <2>2, <3>1 DEF Owes, Registered
      <4>2. room(c) = room(sending[r].dest)
        BY <2>2, <3>1
      <4>3. c # None
        OBVIOUS
      <4>4. sending'[r].dest = sending[r].dest
        BY <4>1, <4>2, <4>3, AskersSend, ServerTypes
           DEF ServerInv, Sig!LookupFrom, Sig!room, room
      <4> QED
        BY <1>1, <3>1, <4>4 DEF Toward, acct
    <3>2. CASE sending[<<f, acct(g)>>].dest = g /\ <<f, acct(g)>> # r
      <4>1. acct(g) \in Accounts
        BY AcctIn DEF ServerInv
      <4> QED
        BY <1>1, <1>2, <3>2, <4>1 DEF Toward, acct
    <3>3. CASE acct(g) \in players[f] \/ <<f, g>> \in offered
      BY <1>1, <3>3 DEF Toward, acct
    <3> QED
      BY <2>2, <3>1, <3>2, <3>3 DEF Toward
  <2> QED
    BY <1>1, <1>a, <2>1, <2>2, FollowKept
<1> QED
  BY <1>3, <1>4, <1>5, <1>6, <1>7 DEF Inv

LEMMA PushNext ==
    ASSUME ServerInv, Inv, [Next]_vars, NEW c \in Clients, NEW a \in Accounts, PushOffer(c, a)
    PROVE  Inv'
<1> DEFINE r == <<c, a>>
<1>1. PICK t : t = sending[r].dest
  OBVIOUS
<1>2. /\ r \in Sig!Senders
      /\ t \in Clients
      /\ sending[r].from = acct(c)
      /\ sending[r].dest = t
  BY <1>1, AskersSend, ServerTypes DEF ServerInv, Inv, CallInv, PushOffer, Sig!PushTo
<1>3. /\ request' = request /\ UNCHANGED <<join, players, early, there>>
      /\ offered' = offered \cup {<<c, t>>}
      /\ \A q \in Sig!Senders : q # r => sending'[q] = sending[q]
      /\ sending'[r] = Sig!Quiet
  BY <1>1, <1>2, RequestKept, ServerTypes DEF ServerInv, PushOffer, Sig!PushTo
<1>4. \A d \in Clients, b \in Accounts : <<d, b>> # r => sending'[<<d, b>>] = sending[<<d, b>>]
  BY <1>3, AskersSend
<1>5. \A d \in Clients : \A m \in outbox'[d] :
          m \in outbox[d] \/ (d = t /\ m.from = acct(c))
  BY <1>1, <1>2, ServerTypes DEF ServerInv, PushOffer, Sig!PushTo
<1>6. JoinType'
  BY <1>3 DEF Inv, JoinType
<1>7. CallInv'
  <2>1. \A d \in Clients : sending'[d] = sending[d]
    BY <1>3 DEF Sig!Senders
  <2>2. \A d \in Clients, b \in Accounts :
           /\ sending'[<<d, b>>].dest # None => sending'[<<d, b>>].from = acct(d)
           /\ join[d] # "visiting" => sending'[<<d, b>>] = Sig!Quiet
    <3> TAKE d \in Clients, b \in Accounts
    <3>1. CASE <<d, b>> = r
      <4>1. d = c
        BY <3>1
      <4> QED
        BY <1>3, <3>1, <4>1 DEF Sig!Quiet
    <3>2. CASE <<d, b>> # r
      BY <1>4, <3>2 DEF Inv, CallInv
    <3> QED
      BY <3>1, <3>2
  <2> QED
    BY <1>3, <2>1, <2>2 DEF Inv, CallInv, acct, Sig!Quiet
<1>8. OutInv'
  <2> SUFFICES ASSUME NEW d \in Clients, NEW m \in outbox'[d], m.kind = "route"
               PROVE  \E e \in Clients : acct(e) = m.from /\ <<e, d>> \in offered'
    BY <1>3 DEF OutInv, acct
  <2> QED
    BY <1>3, <1>5 DEF Inv, OutInv
<1>9. KnownInv' /\ MeetInv'
  BY <1>3, KnownKept, MeetKept DEF Inv
<1>10. ListInv' /\ FollowInv'
  <2>1. ASSUME NEW f \in Clients, NEW g \in Clients, Sought(f, g)' PROVE Sought(f, g)
    <3>1. CASE <<f, g>> \in offered'
      BY <1>2, <1>3, <3>1 DEF Sought
    <3>2. ASSUME NEW b \in Accounts, sending'[<<f, b>>].dest = g PROVE Sought(f, g)
      <4>1. g # None
        OBVIOUS
      <4>2. <<f, b>> # r
        BY <1>3, <3>2, <4>1 DEF Sig!Quiet
      <4> QED
        BY <1>4, <3>2, <4>2 DEF Sought
    <3> QED
      BY <2>1, <3>1, <3>2 DEF Sought
  <2>2. ASSUME NEW f \in Clients, NEW g \in Clients, Toward(f, g) PROVE Toward(f, g)'
    <3>1. acct(g) \in Accounts
      BY AcctIn DEF ServerInv
    <3>2. CASE sending[<<f, acct(g)>>].dest = g /\ <<f, acct(g)>> = r
      BY <1>2, <1>3, <3>2 DEF Toward
    <3>3. CASE sending[<<f, acct(g)>>].dest = g /\ <<f, acct(g)>> # r
      BY <1>3, <1>4, <3>1, <3>3 DEF Toward, acct
    <3>4. CASE acct(g) \in players[f] \/ <<f, g>> \in offered
      BY <1>3, <3>4 DEF Toward, acct
    <3> QED
      BY <2>2, <3>2, <3>3, <3>4 DEF Toward
  <2>3. \A d \in Clients : outbox[d] \subseteq outbox'[d]
    BY <1>2, OutboxKept DEF PushOffer
  <2> QED
    BY <1>3, <2>1, <2>2, <2>3, FollowKept
<1> QED
  BY <1>6, <1>7, <1>8, <1>9, <1>10 DEF Inv

LEMMA ConnectNext ==
    ASSUME ServerInv, Inv, [Next]_vars, NEW c \in Clients, Connect(c)
    PROVE  Inv'
<1>1. /\ join[c] = "start" /\ UNCHANGED <<request, reg, working, sending, outbox>>
      /\ UNCHANGED <<players, early, there, offered>>
      /\ join' = [join EXCEPT ![c] = "asking"]
  BY DEF Connect, Goto, Sig!Call
<1>2. JoinType'
  BY <1>1 DEF Inv, JoinType
<1>3. CallInv'
  BY <1>1 DEF Inv, JoinType, CallInv, acct, Sig!Quiet
<1>4. OutInv'
  BY <1>1 DEF Inv, OutInv, acct
<1>5. \A d \in Clients : Asked(d)' <=> Asked(d)
  BY <1>1 DEF Asked, Inv, JoinType
<1>6. KnownInv'
  BY <1>1, <1>5, StillLive DEF Inv, KnownInv
<1>7. ListInv'
  <2>1. \A d \in Clients : \A e \in there[d] : SigP!Past(e)'
    BY StillLive DEF Inv, JoinType, ListInv
  <2> QED
    BY <1>1, <1>5, <2>1 DEF Inv, ListInv, Sought, Heir, Registered, acct, room
<1>8. FollowInv' /\ MeetInv'
  BY <1>1, <1>5 DEF Inv, FollowInv, Owes, Toward, Hears, MeetInv, Fit, Registered, Live,
     Single, acct, room
<1> QED
  BY <1>2, <1>3, <1>4, <1>6, <1>7, <1>8 DEF Inv

\* The client is told of everybody of its room who is on the list with it.
LEMMA QueryNext ==
    ASSUME ServerInv, Inv, [Next]_vars, NEW c \in Clients, QueryPlayers(c)
    PROVE  Inv'
<1>1. /\ join[c] = "asking" /\ join' = [join EXCEPT ![c] = "visiting"]
      /\ players' = [players EXCEPT ![c] = Sig!PlayerList(room(c)) \ {acct(c)}]
      /\ there' = [there EXCEPT ![c] = Peers(c)]
      /\ early \subseteq early'
      /\ c \notin early' => reg[acct(c)] = c
      /\ offered' = offered /\ UNCHANGED sigVars
  BY DEF QueryPlayers, Goto, Registered
<1>2. /\ UNCHANGED <<request, reg, working, sending, outbox>>
      /\ \A d \in Clients : SigP!Past(d)' <=> SigP!Past(d)
  BY <1>1 DEF sigVars, SigP!Past
<1>3. \A d \in Clients : d # c => /\ join'[d] = join[d] /\ players'[d] = players[d]
                                  /\ there'[d] = there[d]
  BY <1>1 DEF Inv, JoinType
<1>4. there'[c] = Peers(c) /\ players'[c] = Sig!PlayerList(room(c)) \ {acct(c)}
  BY <1>1 DEF Inv, JoinType
<1>5. JoinType'
  BY <1>1 DEF Inv, JoinType, Sig!PlayerList, Peers
<1>6. CallInv'
  BY <1>1, <1>2, <1>3 DEF Inv, JoinType, CallInv, acct, Sig!Quiet
<1>7. OutInv'
  BY <1>1, <1>2 DEF Inv, OutInv, acct
<1>8. ASSUME NEW d \in Clients, Registered(d) PROVE SigP!Past(d)
  <2>1. reg[acct(d)] = d /\ acct(d) \in Accounts /\ d # None
    BY <1>8, AcctIn DEF ServerInv, Registered
  <2> QED
    BY <2>1 DEF ServerInv, SigP!RegInv, SigP!ServedBy, SigP!Past
<1>9. KnownInv'
  <2>1. c \notin early' => SigP!Past(c)
    BY <1>1, <1>8 DEF Registered
  <2>2. ASSUME NEW d \in Clients, d # c, Asked(d)', d \notin early' PROVE SigP!Past(d)
    BY <1>1, <1>3, <2>2 DEF Inv, KnownInv, Asked
  <2> QED
    BY <1>2, <2>1, <2>2 DEF KnownInv
<1>10. \A d \in Peers(c) : acct(d) \in players'[c]
  <2> SUFFICES ASSUME NEW d \in Peers(c) PROVE acct(d) \in players'[c]
    OBVIOUS
  <2>1. /\ d \in Clients /\ reg[acct(d)] = d /\ working[d]
        /\ room(d) = room(c) /\ acct(d) # acct(c)
    BY DEF Peers, Registered
  <2>2. acct(d) \in Accounts /\ d # None
    BY <2>1, AcctIn DEF ServerInv
  <2>3. acct(d) \in Sig!PlayerList(room(c))
    BY <2>1, <2>2 DEF Sig!PlayerList, room, Sig!room
  <2> QED
    BY <1>4, <2>1, <2>3
<1>11. ASSUME NEW a \in players'[c] PROVE \E d \in Peers(c) : acct(d) = a
  <2>1. a \in Accounts /\ reg[a] # None /\ Sig!room(reg[a]) = room(c) /\ working[reg[a]]
        /\ a # acct(c)
    BY <1>4, <1>11 DEF Sig!PlayerList
  <2>2. reg[a] \in Clients
    BY <2>1, ServerTypes DEF ServerInv
  <2>3. acct(reg[a]) = a
    BY <2>1 DEF ServerInv, SigP!RegInv, SigP!ServedBy, SigP!acct, acct
  <2>4. reg[a] \in Peers(c)
    BY <2>1, <2>2, <2>3 DEF Peers, Registered, room, Sig!room
  <2> QED
    BY <2>3, <2>4
<1>12. ListInv'
  <2>1. \A d \in Clients : ~Asked(d)' => there'[d] = {}
    BY <1>1, <1>3 DEF Inv, JoinType, ListInv, Asked
  <2>2. \A d \in Clients : \A e \in there'[d] : SigP!Past(e) /\ room(e) = room(d)
    BY <1>3, <1>4, <1>8 DEF Inv, ListInv, Peers
  <2>3. \A d \in Clients : \A a \in players'[d] : \E e \in there'[d] : acct(e) = a
    BY <1>3, <1>4, <1>11 DEF Inv, ListInv
  <2>4. ASSUME NEW d \in Clients, NEW e \in Clients, Sought(d, e) PROVE Heir(d, e)'
    <3>1. d # c
      BY <1>1, <2>4 DEF Inv, ListInv, Heir, Asked
    <3>2. Heir(d, e)
      BY <2>4 DEF Inv, ListInv
    <3> QED
      BY <1>2, <1>3, <3>1, <3>2 DEF Heir, Registered, acct
  <2>5. \A d, e \in Clients : Sought(d, e)' => Sought(d, e)
    BY <1>1, <1>2 DEF Sought
  <2>6. \A d \in Clients : \A e \in there'[d] : e \in Clients
    BY <1>5 DEF JoinType
  <2>7. \A d \in Clients : \A e \in there'[d] : SigP!Past(e)' /\ room(e)' = room(d)'
    BY <1>2, <2>2, <2>6 DEF room
  <2>8. \A d \in Clients : \A a \in players'[d] : \E e \in there'[d] : acct(e)' = a
    BY <1>2, <2>3 DEF acct
  <2> QED
    BY <2>1, <2>4, <2>5, <2>7, <2>8 DEF ListInv
<1>13. FollowInv'
  <2> SUFFICES ASSUME NEW d \in Clients, NEW e \in Clients, Owes(d, e)'
               PROVE  (Toward(d, e) \/ Hears(d, e))'
    BY DEF FollowInv
  <2>1. CASE d = c
    BY <1>2, <1>4, <1>10, <2>1 DEF Owes, Toward, acct
  <2>2. CASE d # c
    <3>1. Owes(d, e)
      BY <1>1, <1>2, <1>3, <2>2 DEF Owes, Registered, acct
    <3> QED
      BY <1>1, <1>2, <1>3, <2>2, <3>1 DEF Inv, FollowInv, Toward, Hears, acct
  <2> QED
    BY <2>1, <2>2
<1>14. MeetInv'
  <2> SUFFICES ASSUME NEW d \in Clients, NEW e \in Clients, Fit(d, e)'
               PROVE  e \in there'[d] \/ d \in there'[e]
    BY DEF MeetInv
  <2>1. /\ Live(d) /\ Live(e) /\ d # e /\ room(d) = room(e)
        /\ Single(d) /\ Single(e)
    BY <1>2 DEF Fit, Live, Single, acct, room
  <2>2. acct(d) # acct(e)
    BY <2>1 DEF Single
  <2>3. CASE d = c
    BY <1>4, <2>1, <2>2, <2>3 DEF Peers, Live, Registered
  <2>4. CASE e = c
    BY <1>4, <2>1, <2>2, <2>4 DEF Peers, Live, Registered
  <2>5. CASE d # c /\ e # c
    <3>1. Fit(d, e)
      BY <1>1, <1>3, <2>1, <2>5 DEF Fit, Asked
    <3> QED
      BY <1>3, <2>5, <3>1 DEF Inv, MeetInv
  <2> QED
    BY <2>3, <2>4, <2>5
<1> QED
  BY <1>5, <1>6, <1>7, <1>9, <1>12, <1>13, <1>14 DEF Inv

LEMMA FinishNext ==
    ASSUME ServerInv, Inv, [Next]_vars, NEW c \in Clients, Finish(c)
    PROVE  Inv'
<1>1. /\ join[c] = "visiting" /\ join' = [join EXCEPT ![c] = "done"]
      /\ players[c] = {} /\ \A a \in Accounts : sending[<<c, a>>] = Sig!Quiet
      /\ UNCHANGED <<players, early, there, offered>> /\ UNCHANGED sigVars
  BY DEF Finish, Free, Goto
<1>2. /\ UNCHANGED <<request, reg, working, sending, outbox>>
      /\ \A d \in Clients : SigP!Past(d)' <=> SigP!Past(d)
  BY <1>1 DEF sigVars, SigP!Past
<1>3. \A d \in Clients : Asked(d)' <=> Asked(d)
  BY <1>1 DEF Asked, Inv, JoinType
<1>4. JoinType'
  BY <1>1 DEF Inv, JoinType
<1>5. CallInv'
  BY <1>1, <1>2 DEF Inv, JoinType, CallInv, acct, Sig!Quiet
<1>6. OutInv'
  BY <1>1, <1>2 DEF Inv, OutInv, acct
<1>7. KnownInv'
  BY <1>1, <1>2, <1>3 DEF Inv, KnownInv
<1>8. ListInv'
  <2>1. \A d \in Clients : \A e \in there[d] : SigP!Past(e)'
    BY <1>2 DEF Inv, JoinType, ListInv
  <2> QED
    BY <1>1, <1>2, <1>3, <2>1 DEF Inv, ListInv, Sought, Heir, Registered, acct, room
<1>9. FollowInv' /\ MeetInv'
  BY <1>1, <1>2, <1>3 DEF Inv, FollowInv, Owes, Toward, Hears, MeetInv, Fit, Registered,
     Live, Single, acct, room
<1> QED
  BY <1>4, <1>5, <1>6, <1>7, <1>8, <1>9 DEF Inv

\* The player is on the list still, or is not one to meet any more.
LEMMA OfferNext ==
    ASSUME ServerInv, Inv, [Next]_vars, NEW c \in Clients, NEW a \in Accounts, Offer(c, a)
    PROVE  Inv'
<1> DEFINE r == <<c, a>>
<1>1. /\ join[c] = "visiting" /\ sending[r] = Sig!Quiet /\ a \in players[c]
      /\ players' = [players EXCEPT ![c] = @ \ {a}]
      /\ UNCHANGED <<join, early, there, offered>>
      /\ UNCHANGED <<request, reg, working, outbox>>
      /\ Sig!LookupTo(r, "route", acct(c), a)
  BY DEF Offer, Free, Visited, Sig!Route
<1>2. /\ \A q \in Sig!Senders : q # r => sending'[q] = sending[q]
      /\ reg[a] = None => sending'[r] = Sig!Quiet
      /\ reg[a] # None => sending'[r].from = acct(c) /\ sending'[r].dest = reg[a]
  BY <1>1, AskersSend, ServerTypes DEF ServerInv, Sig!LookupTo, Sig!Quiet
<1>3. \A d \in Clients, b \in Accounts : <<d, b>> # r => sending'[<<d, b>>] = sending[<<d, b>>]
  BY <1>2, AskersSend
<1>4. /\ \A d \in Clients : d # c => players'[d] = players[d]
      /\ \A d \in Clients : players'[d] \subseteq players[d]
  BY <1>1 DEF Inv, JoinType
<1>5. JoinType'
  BY <1>1 DEF Inv, JoinType
<1>6. CallInv'
  <2>1. \A d \in Clients : sending'[d].kind # "route"
    BY <1>2 DEF Inv, CallInv, Sig!Senders
  <2>2. \A d \in Clients, b \in Accounts :
           /\ sending'[<<d, b>>].dest # None => sending'[<<d, b>>].from = acct(d)
           /\ join[d] # "visiting" => sending'[<<d, b>>] = Sig!Quiet
    <3> TAKE d \in Clients, b \in Accounts
    <3>1. CASE <<d, b>> = r
      <4>1. d = c
        BY <3>1
      <4> QED
        BY <1>1, <1>2, <3>1, <4>1 DEF Sig!Quiet
    <3>2. CASE <<d, b>> # r
      BY <1>3, <3>2 DEF Inv, CallInv
    <3> QED
      BY <3>1, <3>2
  <2>3. \A d \in Clients : join[d] = "done" => players'[d] = {}
    BY <1>1, <1>4 DEF Inv, CallInv
  <2> QED
    BY <1>1, <2>1, <2>2, <2>3 DEF CallInv, acct, Sig!Quiet
<1>7. OutInv'
  BY <1>1 DEF Inv, OutInv, acct
<1>8. KnownInv' /\ MeetInv'
  BY <1>1, KnownKept, MeetKept DEF Inv
\* Who is found under the name of a player that was there is that one, or has
\* taken its place.
<1>9. ASSUME NEW g \in Clients, reg[a] = g PROVE Heir(c, g)
  <2>1. acct(g) = a
    BY <1>9 DEF ServerInv, SigP!RegInv, SigP!ServedBy, SigP!acct, acct
  <2>2. PICK e \in there[c] : acct(e) = a
    BY <1>1 DEF Inv, ListInv
  <2> QED
    BY <1>9, <2>1, <2>2 DEF Heir, Registered
<1>10. ListInv' /\ FollowInv'
  <2>1. ASSUME NEW f \in Clients, NEW g \in Clients, Sought(f, g)'
        PROVE  Sought(f, g) \/ Heir(f, g)
    <3>1. CASE <<f, g>> \in offered'
      BY <1>1, <3>1 DEF Sought
    <3>2. ASSUME NEW b \in Accounts, sending'[<<f, b>>].dest = g
          PROVE  Sought(f, g) \/ Heir(f, g)
      <4>1. g # None
        OBVIOUS
      <4>2. CASE <<f, b>> = r
        <5>1. reg[a] = g /\ f = c
          BY <1>2, <3>2, <4>1, <4>2 DEF Sig!Quiet
        <5> QED
          BY <1>9, <5>1
      <4>3. CASE <<f, b>> # r
        BY <1>3, <3>2, <4>3 DEF Sought
      <4> QED
        BY <4>2, <4>3
    <3> QED
      BY <2>1, <3>1, <3>2 DEF Sought
  <2>2. ASSUME NEW f \in Clients, NEW g \in Clients, Toward(f, g), Registered(g)
        PROVE  Toward(f, g)'
    <3>1. acct(g) \in Accounts
      BY AcctIn DEF ServerInv
    <3>2. CASE <<f, acct(g)>> = r
      <4>1. reg[a] = g /\ g # None /\ f = c /\ a = acct(g)
        BY <2>2, <3>2 DEF Registered
      <4> QED
        BY <1>1, <1>2, <4>1 DEF Toward, acct
    <3>3. CASE <<f, acct(g)>> # r
      <4>1. sending'[<<f, acct(g)>>] = sending[<<f, acct(g)>>]
        BY <1>3, <3>1, <3>3
      <4>2. acct(g) \in players[f] => acct(g) \in players'[f]
        BY <1>1, <3>3 DEF Inv, JoinType
      <4> QED
        BY <1>1, <2>2, <4>1, <4>2 DEF Toward, acct
    <3> QED
      BY <3>2, <3>3
  <2>3. \A f, g \in Clients : Owes(f, g) /\ Toward(f, g) => Toward(f, g)'
    BY <2>2 DEF Owes
  <2> QED
    BY <1>1, <1>4, <2>1, <2>3, FollowKept
<1> QED
  BY <1>5, <1>6, <1>7, <1>8, <1>10 DEF Inv

\* A client passes over a player only because of that player's own offer.
LEMMA SkipNext ==
    ASSUME ServerInv, Inv, [Next]_vars, NEW c \in Clients, NEW a \in Accounts, Skip(c, a)
    PROVE  Inv'
<1>1. /\ join[c] = "visiting"
      /\ [kind |-> "route", from |-> a] \in outbox[c]
      /\ players' = [players EXCEPT ![c] = @ \ {a}]
      /\ UNCHANGED <<join, early, there, offered>> /\ UNCHANGED sigVars
  BY DEF Skip, Free, Visited
<1>2. UNCHANGED <<request, reg, working, sending, outbox>>
  BY <1>1 DEF sigVars
<1>3. /\ \A d \in Clients : d # c => players'[d] = players[d]
      /\ \A d \in Clients : players'[d] \subseteq players[d]
  BY <1>1 DEF Inv, JoinType
<1>4. JoinType'
  BY <1>1 DEF Inv, JoinType
<1>5. CallInv'
  BY <1>1, <1>2, <1>3 DEF Inv, CallInv, acct, Sig!Quiet
<1>6. OutInv'
  BY <1>1, <1>2 DEF Inv, OutInv, acct
<1>7. KnownInv' /\ MeetInv'
  BY <1>1, KnownKept, MeetKept DEF Inv
<1>8. ListInv' /\ FollowInv'
  <2>1. \A f, g \in Clients : Sought(f, g)' => Sought(f, g)
    BY <1>1, <1>2 DEF Sought
  <2>2. ASSUME NEW f \in Clients, NEW g \in Clients, Toward(f, g)
        PROVE  Toward(f, g)' \/ Hears(f, g)'
    <3>1. CASE f = c /\ acct(g) = a
      BY <1>1, <1>2, <3>1 DEF Hears, acct
    <3>2. CASE f # c \/ acct(g) # a
      <4>1. acct(g) \in players[f] => acct(g) \in players'[f]
        BY <1>1, <3>2 DEF Inv, JoinType
      <4> QED
        BY <1>1, <1>2, <2>2, <4>1 DEF Toward, acct
    <3> QED
      BY <3>1, <3>2
  <2>3. \A d \in Clients : outbox[d] \subseteq outbox'[d]
    BY <1>2
  <2> QED
    BY <1>1, <1>3, <2>1, <2>2, <2>3, FollowKept
<1> QED
  BY <1>4, <1>5, <1>6, <1>7, <1>8 DEF Inv

LEMMA InvNext == ServerInv /\ Inv /\ [Next]_vars => Inv'
<1> SUFFICES ASSUME ServerInv, Inv, [Next]_vars PROVE Inv'
  OBVIOUS
<1>1. ASSUME NEW c \in Clients, ConnectAsync(c) PROVE Inv'
  BY <1>1, ConnectNext, QueryNext, FinishNext, OfferNext, SkipNext DEF ConnectAsync
<1>2. ASSUME NEW c \in Clients, Serve(c) PROVE Inv'
  <2>1. ASSUME Sig!Handle(c) \/ Sig!EndOnDispose(c) \/ Sig!HangUp(c) \/ Sig!Send(c)
        PROVE  Inv'
    BY <1>2, <2>1, OwnSending, ServeOwn DEF Serve, Inv
  <2>2. ASSUME NEW a \in Accounts, Sig!LookupFrom(<<c, a>>) PROVE Inv'
    BY <1>2, <2>2, ServeOffer DEF Serve
  <2> QED
    BY <1>2, <2>1, <2>2 DEF Serve
<1>3. ASSUME NEW c \in Clients, NEW a \in Accounts, PushOffer(c, a) PROVE Inv'
  BY <1>3, PushNext
<1>4. CASE UNCHANGED vars
  <2>1. /\ UNCHANGED <<join, players, early, there, offered>>
        /\ UNCHANGED <<request, reg, working, sending, outbox>>
    BY <1>4 DEF vars, sigVars, joinVars
  <2>2. JoinType' /\ CallInv'
    BY <2>1 DEF Inv, JoinType, CallInv, acct, Sig!Quiet
  <2>3. OutInv'
    BY <2>1 DEF Inv, OutInv, acct
  <2>4. KnownInv' /\ MeetInv'
    BY <2>1, KnownKept, MeetKept DEF Inv
  <2>5. \A c, d \in Clients : (Sought(c, d)' => Sought(c, d)) /\ (Toward(c, d) => Toward(c, d)')
    BY <2>1 DEF Sought, Toward, acct
  <2>6. ListInv' /\ FollowInv'
    BY <2>1, <2>5, FollowKept
  <2> QED
    BY <2>2, <2>3, <2>4, <2>6 DEF Inv
<1> QED
  BY <1>1, <1>2, <1>3, <1>4 DEF Next

LEMMA InvAlways == Spec => [](ServerInv /\ Inv)
<1>1. Init => ServerInv /\ Inv
  BY ServerInit, InvInit
<1>2. ServerInv /\ Inv /\ [Next]_vars => (ServerInv /\ Inv)'
  BY ServerNext, InvNext
<1> QED
  BY <1>1, <1>2, PTL DEF Spec

LEMMA DoneOffered ==
    ASSUME ServerInv, Inv, NEW c \in Clients, NEW d \in Clients, join[c] = "done", Toward(c, d)
    PROVE  <<c, d>> \in offered
  BY AcctIn DEF ServerInv, Inv, CallInv, Toward, Sig!Quiet

\* However those on its list come and go while a client works it off, whoever was
\* there when it asked and is registered still gets its offer or has made one, and
\* its offers go to nobody else but clients that have taken the place of those.
THEOREM OffersCorrect == Spec => []OffersFollowList
<1>1. ServerInv /\ Inv => OffersFollowList
  <2> SUFFICES ASSUME ServerInv, Inv PROVE OffersFollowList
    OBVIOUS
  <2>1. ASSUME NEW c \in Clients \ early, NEW d \in there[c],
               join[c] = "done", Registered(c), Registered(d)
        PROVE  <<c, d>> \in offered \/ Hears(c, d)
    <3>1. d \in Clients
      BY DEF Inv, JoinType
    <3>2. Toward(c, d) \/ Hears(c, d)
      BY <2>1, <3>1 DEF Inv, FollowInv, Owes
    <3> QED
      BY <2>1, <3>1, <3>2, DoneOffered
  <2>2. ASSUME NEW c \in Clients, NEW d \in Clients, <<c, d>> \in offered PROVE Heir(c, d)
    BY <2>2 DEF Inv, ListInv, Sought
  <2> QED
    BY <2>1, <2>2 DEF OffersFollowList, Hears, Heir
<1> QED
  BY <1>1, InvAlways, PTL

\* Two clients of a room meet, however their lists, offers and visits interleave
\* with each other and with the handlers of the server: only one that asked for
\* the list before it was registered can miss another.
THEOREM MeetingCorrect == Spec => []MissOnlyIfEarly
<1>1. ServerInv /\ Inv => MissOnlyIfEarly
  <2> SUFFICES ASSUME ServerInv, Inv, NEW c \in Clients, NEW d \in Clients,
                      c # d, room(c) = room(d),
                      Joined(c), Single(c), Joined(d), Single(d), {c, d} \cap early = {}
               PROVE  <<c, d>> \in offered \/ <<d, c>> \in offered
    BY DEF MissOnlyIfEarly
  <2>1. Fit(c, d)
    BY DEF Fit, Joined, Live, Registered, Asked
  <2>2. d \in there[c] \/ c \in there[d]
    BY <2>1 DEF Inv, MeetInv
  <2>3. ASSUME NEW f \in Clients, NEW g \in Clients, g \in there[f], f \notin early,
               Joined(f), Joined(g), Single(g)
        PROVE  <<f, g>> \in offered \/ <<g, f>> \in offered
    <3>1. Toward(f, g) \/ Hears(f, g)
      BY <2>3 DEF Inv, FollowInv, Owes, Joined
    <3>2. CASE Toward(f, g)
      BY <2>3, <3>2, DoneOffered DEF Joined
    <3>3. CASE Hears(f, g)
      <4>1. PICK s \in Clients : acct(s) = acct(g) /\ <<s, f>> \in offered
        BY <3>3 DEF Inv, OutInv, Hears
      <4> QED
        BY <2>3, <4>1 DEF Single
    <3> QED
      BY <3>1, <3>2, <3>3
  <2> QED
    BY <2>2, <2>3
<1> QED
  BY <1>1, InvAlways, PTL

=============================================================================
