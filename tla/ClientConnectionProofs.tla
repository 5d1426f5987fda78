------------------------ MODULE ClientConnectionProofs ------------------------
(***************************************************************************)
(* Theorems about ClientConnection, for any players and any number of      *)
(* attempts.                                                               *)
(***************************************************************************)
EXTENDS ClientConnection, TLAPS

USE ClientAssumption DEF ClientAssumption

-----------------------------------------------------------------------------
(* Where an attempt can be.                                                 *)

Pending == {"creatingOffer", "settingOffer", "settingRemote", "creatingAnswer", "settingAnswer"}
Completed == {"offerCreated", "offerSet", "remoteSet", "answerCreated", "answerSet"}

LEMMA StepSets ==
    /\ DOMAIN Awaited = Pending
    /\ \A s \in Pending : Awaited[s] \in Completed
    /\ DOMAIN Following \subseteq Completed
    /\ \A s \in DOMAIN Following : Following[s] \in Pending
    /\ Steps = Pending \cup Completed \cup Ended
                  \cup {"idle", "routingOffer", "waiting", "routingAnswer"}
<1>1. /\ DOMAIN Awaited = Pending
      /\ \A s \in Pending : Awaited[s] \in Completed
  BY DEF Awaited, Pending, Completed
<1>2. /\ DOMAIN Following \subseteq Completed
      /\ \A s \in DOMAIN Following : Following[s] \in Pending
  BY DEF Following, Pending, Completed
<1>3. {Awaited[s] : s \in DOMAIN Awaited} = Completed
  BY DEF Awaited, Completed
<1> QED
  BY <1>1, <1>2, <1>3 DEF Steps

\* What an action of Continue does to the steps: k goes on, no other attempt
\* moves, and k was neither idle nor had it ended.
LEMMA ContinueSteps ==
    ASSUME at \in [Attempts -> Steps], NEW k \in Attempts, Continue(k)
    PROVE  /\ at' \in [Attempts -> Steps]
           /\ \A j \in Attempts : j # k => at'[j] = at[j]
           /\ at[k] \notin Ended \cup {"idle"}
           /\ at'[k] # "idle"
<1> USE StepSets DEF Goto, Ended
<1>1. CASE Complete(k)
  BY <1>1 DEF Complete, Pending, Completed
<1>2. CASE CallNext(k)
  BY <1>2 DEF CallNext, Pending, Completed
<1>3. CASE SendOffer(k) \/ SendAnswer(k) \/ Routed(k) \/ EndWait(k) \/ Timeout(k)
  BY <1>3 DEF SendOffer, SendAnswer, Routed, EndWait, Timeout
<1> QED
  BY <1>1, <1>2, <1>3 DEF Continue

-----------------------------------------------------------------------------
(* The inductive invariant.                                                 *)

\* Connections, the clients and the attempts agree on whose client each is.
Listing ==
    /\ \A c \in live : at[c] # "idle" /\ Connections[peer[c]] = c
    /\ \A q \in Peers : Connections[q] # None =>
          /\ at[Connections[q]] # "idle"
          /\ peer[Connections[q]] = q
          /\ ~disposed => Connections[q] \in live
    /\ disposed => live = {}

\* An attempt uses a client of its own player, and so do descriptions.
Using ==
    /\ \A k \in Attempts : client[k] # None =>
          at[k] # "idle" /\ at[client[k]] # "idle" /\ peer[client[k]] = peer[k]
    /\ \A d \in described : at[d[1]] # "idle" /\ peer[d[1]] = d[2]

\* An attempt hears answers only once it has sent its offer.
Heard ==
    \A k \in OnAnswer \cup answered :
        at[k] \in {"routingOffer", "waiting", "up", "failed"}

Inv == TypeOK /\ Listing /\ Using /\ Heard /\ HearsOnce /\ WaitingHears

-----------------------------------------------------------------------------
(* Every step begins an attempt, continues one, drops a client, takes an     *)
(* answer, disposes of everything, or leaves connections and attempts alone. *)

BeginStep ==
    /\ \E k \in Attempts, q \in Peers, offer \in BOOLEAN :
          \E step \in {"creatingOffer", "settingRemote"} : Begin(k, q, offer, step)
    /\ UNCHANGED <<answerVars, join, shown, disposed>>
    /\ todo' \subseteq todo
    /\ joining' \in Peers \cup {joining}

DropStep ==
    /\ \E q \in Peers, c \in live :
          DropClient(q, c) /\ Connections[q] = c /\ peer[c] = q
    /\ UNCHANGED <<attemptVars, answerVars, joinVars, disposed>>

QuietStep ==
    /\ UNCHANGED <<connVars, attemptVars, answerVars, disposed>>
    /\ RefreshView(Connected) \/ UNCHANGED shown
    /\ join' \in {"offline", "query", "visit", "joined", "failed", join}
    /\ todo' \subseteq Peers
    /\ joining' = joining

LEMMA PlayerOf ==
    ASSUME TypeOK, NEW c \in Attempts, at[c] # "idle"
    PROVE  peer[c] \in Peers
BY DEF TypeOK

LEMMA BeginIsBegin ==
    ASSUME NEW k \in Attempts, NEW q \in Peers,
           InitFromCreateOffer(k, q) \/ InitFromAnswerOffer(k, q)
    PROVE  \E j \in Attempts, r \in Peers, offer \in BOOLEAN :
               \E step \in {"creatingOffer", "settingRemote"} : Begin(j, r, offer, step)
<1>1. CASE InitFromCreateOffer(k, q)
  <2>1. Begin(k, q, TRUE, "creatingOffer")
    BY <1>1 DEF InitFromCreateOffer
  <2> QED
    BY <2>1
<1>2. CASE InitFromAnswerOffer(k, q)
  <2>1. Begin(k, q, FALSE, "settingRemote")
    BY <1>2 DEF InitFromAnswerOffer
  <2> QED
    BY <2>1
<1> QED
  BY <1>1, <1>2

LEMMA JoinKinds ==
    ASSUME TypeOK, JoinStep
    PROVE  BeginStep \/ QuietStep
<1>1. CASE Connect
  BY <1>1 DEF Connect, QuietStep, TypeOK
<1>2. CASE QueryPlayers
  BY <1>2 DEF QueryPlayers, QuietStep, TypeOK
<1>3. CASE Joined
  BY <1>3 DEF Joined, QuietStep, TypeOK
<1>4. ASSUME NEW q \in Peers, Visit(q)
      PROVE  BeginStep \/ QuietStep
  <2>1. CASE Connections[q] # None
    BY <1>4, <2>1 DEF Visit, QuietStep, TypeOK
  <2>2. CASE Connections[q] = None
    <3>1. InitFromCreateOffer(q, q)
      BY <1>4, <2>2 DEF Visit
    <3>2. /\ UNCHANGED <<answerVars, join, shown, disposed>>
          /\ todo' \subseteq todo
          /\ joining' \in Peers \cup {joining}
      BY <1>4, <2>2 DEF Visit
    <3>3. q \in Attempts
      BY DEF Attempts
    <3> QED
      BY <3>1, <3>2, <3>3, BeginIsBegin DEF BeginStep
  <2> QED
    BY <2>1, <2>2
<1> QED
  BY <1>1, <1>2, <1>3, <1>4 DEF JoinStep

LEMMA EventKinds ==
    ASSUME TypeOK, Listing, Event
    PROVE  BeginStep \/ DropStep \/ Dispose \/ \E q \in Peers : ReceiveAnswer(q)
<1> USE DEF Attempts
<1>1. ASSUME NEW q \in Peers, ReceiveOffer(q)
      PROVE  BeginStep
  <2>1. PICK k \in Calls : InitFromAnswerOffer(k, q)
    BY <1>1 DEF ReceiveOffer
  <2>2. UNCHANGED <<answerVars, joinVars, shown, disposed>>
    BY <1>1 DEF ReceiveOffer
  <2> QED
    BY <2>1, <2>2, BeginIsBegin DEF BeginStep, joinVars
<1>2. ASSUME NEW q \in Peers, ReceiveOffline(q)
      PROVE  DropStep
  <2>1. Connections[q] \in live /\ peer[Connections[q]] = q
    BY <1>2 DEF ReceiveOffline, Receiving, Connected, Listing
  <2> QED
    BY <1>2, <2>1 DEF ReceiveOffline, DropStep
<1>3. ASSUME NEW c \in Attempts, NegotiationNeeded(c) \/ Disconnected(c)
      PROVE  BeginStep
  <2>1. c \in live
    BY <1>3 DEF NegotiationNeeded, Disconnected, Negotiated
  <2>2. peer[c] \in Peers
    BY <2>1, PlayerOf DEF Listing
  <2>3. PICK k \in Calls : InitFromCreateOffer(k, peer[c])
    BY <1>3 DEF NegotiationNeeded, Disconnected
  <2>4. UNCHANGED <<answerVars, joinVars, shown, disposed>>
    BY <1>3 DEF NegotiationNeeded, Disconnected
  <2> QED
    BY <2>2, <2>3, <2>4, BeginIsBegin DEF BeginStep, joinVars
<1>4. ASSUME NEW c \in Attempts, Failed(c)
      PROVE  DropStep
  <2>1. c \in live /\ Connections[peer[c]] = c
    BY <1>4 DEF Failed, Negotiated, Listing
  <2>2. peer[c] \in Peers
    BY <2>1, PlayerOf DEF Listing
  <2> QED
    BY <1>4, <2>1, <2>2 DEF Failed, DropStep
<1> QED
  BY <1>1, <1>2, <1>3, <1>4 DEF Event

LEMMA StepKinds ==
    ASSUME TypeOK, Listing, [Next]_vars
    PROVE  \/ BeginStep
           \/ \E k \in Attempts : Continue(k)
           \/ DropStep
           \/ \E q \in Peers : ReceiveAnswer(q)
           \/ Dispose
           \/ QuietStep
<1>1. CASE UNCHANGED vars
  BY <1>1 DEF vars, connVars, attemptVars, answerVars, joinVars, QuietStep, TypeOK
<1> QED
  BY <1>1, JoinKinds, EventKinds DEF Next

-----------------------------------------------------------------------------
(* Each kind of step preserves the invariant.                               *)

\* What beginning does, whichever client the attempt gets: one that was there,
\* a new one, or none.
LEMMA BeginFacts ==
    ASSUME TypeOK, NEW k \in Attempts, NEW q \in Peers, NEW offer \in BOOLEAN,
           NEW step \in {"creatingOffer", "settingRemote"}, Begin(k, q, offer, step)
    PROVE  /\ at[k] = "idle"
           /\ peer' = [peer EXCEPT ![k] = q]
           /\ at'[k] \in {step, "failed"}
           /\ at' \in [Attempts -> Steps]
           /\ \A j \in Attempts \ {k} : at'[j] = at[j] /\ client'[j] = client[j]
           /\ IsOfferClient' \subseteq Attempts
           /\ \/ /\ Connections[q] # None
                 /\ client' = [client EXCEPT ![k] = Connections[q]]
                 /\ UNCHANGED <<Connections, live>>
              \/ /\ Connections[q] = None /\ ~disposed
                 /\ client' = [client EXCEPT ![k] = k]
                 /\ Connections' = [Connections EXCEPT ![q] = k]
                 /\ live' = live \cup {k}
              \/ /\ Connections[q] = None
                 /\ at'[k] = "failed"
                 /\ UNCHANGED <<Connections, live, client>>
<1> USE DEF Begin, CreateClient, Goto, connVars
<1>1. {"creatingOffer", "settingRemote", "failed"} \subseteq Steps
  BY StepSets DEF Pending, Ended
<1>2. at[k] = "idle" /\ peer' = [peer EXCEPT ![k] = q]
  OBVIOUS
<1>3. at' \in [Attempts -> Steps] /\ at'[k] \in {step, "failed"}
  BY <1>1 DEF TypeOK
<1>4. \A j \in Attempts \ {k} : at'[j] = at[j] /\ client'[j] = client[j]
  BY DEF TypeOK
<1>5. IsOfferClient' \subseteq Attempts
  BY DEF TypeOK, MarkOffer
<1>6. \/ /\ Connections[q] # None
         /\ client' = [client EXCEPT ![k] = Connections[q]]
         /\ UNCHANGED <<Connections, live>>
      \/ /\ Connections[q] = None /\ ~disposed
         /\ client' = [client EXCEPT ![k] = k]
         /\ Connections' = [Connections EXCEPT ![q] = k]
         /\ live' = live \cup {k}
      \/ /\ Connections[q] = None
         /\ at'[k] = "failed"
         /\ UNCHANGED <<Connections, live, client>>
  BY DEF TypeOK
<1> QED
  BY <1>2, <1>3, <1>4, <1>5, <1>6

LEMMA BeginInv ==
    ASSUME Inv, BeginStep
    PROVE  Inv'
<1> PICK k \in Attempts, q \in Peers, offer \in BOOLEAN,
        step \in {"creatingOffer", "settingRemote"} : Begin(k, q, offer, step)
  BY DEF BeginStep
<1> USE DEF Inv
<1>1. /\ at[k] = "idle"
      /\ peer' = [peer EXCEPT ![k] = q]
      /\ at'[k] \in {step, "failed"}
      /\ at' \in [Attempts -> Steps]
      /\ \A j \in Attempts \ {k} : at'[j] = at[j] /\ client'[j] = client[j]
      /\ IsOfferClient' \subseteq Attempts
  BY BeginFacts
<1>2. \/ /\ Connections[q] # None
         /\ client' = [client EXCEPT ![k] = Connections[q]]
         /\ UNCHANGED <<Connections, live>>
      \/ /\ Connections[q] = None /\ ~disposed
         /\ client' = [client EXCEPT ![k] = k]
         /\ Connections' = [Connections EXCEPT ![q] = k]
         /\ live' = live \cup {k}
      \/ /\ Connections[q] = None
         /\ at'[k] = "failed"
         /\ UNCHANGED <<Connections, live, client>>
  BY BeginFacts
<1>3. /\ UNCHANGED <<OnAnswer, answered, described, join, shown>>
      /\ UNCHANGED disposed
      /\ todo' \subseteq todo
      /\ joining' \in Peers \cup {joining}
  BY DEF BeginStep, answerVars
<1>4. TypeOK'
  <2>1. /\ Connections' \in [Peers -> Attempts \cup {None}]
        /\ live' \subseteq Attempts
        /\ client' \in [Attempts -> Attempts \cup {None}]
        /\ peer' \in [Attempts -> Peers \cup {None}]
    BY <1>1, <1>2 DEF TypeOK
  <2>2. \A j \in Attempts : at'[j] # "idle" => peer'[j] # None
    BY <1>1 DEF TypeOK, Attempts
  <2>3. \A j \in Attempts : at'[j] \notin {"idle", "failed"} => client'[j] # None
    BY <1>1, <1>2 DEF TypeOK
  <2>4. disposed' \in BOOLEAN
    BY <1>3 DEF TypeOK
  <2>5. /\ OnAnswer' \subseteq Attempts
        /\ answered' \subseteq Attempts
        /\ described' \subseteq Attempts \X Peers
        /\ join' \in {"start", "offline", "query", "visit", "joined", "failed"}
        /\ todo' \subseteq Peers
        /\ joining' \in Peers \cup {None}
        /\ shown' \subseteq Peers
    BY <1>3 DEF TypeOK
  <2> QED
    BY <1>1, <2>1, <2>2, <2>3, <2>4, <2>5 DEF TypeOK
<1>5. Listing'
  <2>1. \A c \in live : c \in Attempts \ {k} /\ at'[c] # "idle" /\ peer'[c] = peer[c]
    BY <1>1 DEF TypeOK, Listing
  <2>2. \A r \in Peers : Connections[r] # None =>
           Connections[r] \in Attempts \ {k} /\ at'[Connections[r]] # "idle"
           /\ peer'[Connections[r]] = r
    BY <1>1 DEF TypeOK, Listing
  <2>3. k \notin live /\ (disposed <=> disposed')
    BY <1>1, <1>3 DEF Listing
  <2>4. peer'[k] = q /\ at'[k] # "idle"
    BY <1>1 DEF TypeOK
  <2>5. CASE UNCHANGED <<Connections, live>>
    BY <2>1, <2>2, <2>3, <2>5 DEF Listing
  <2>6. CASE /\ Connections[q] = None /\ ~disposed
             /\ Connections' = [Connections EXCEPT ![q] = k]
             /\ live' = live \cup {k}
    <3>1. \A c \in live : peer[c] \in Peers /\ peer[c] # q
      BY <2>6, PlayerOf DEF Listing, TypeOK
    <3>2. \A c \in live' : at'[c] # "idle" /\ Connections'[peer'[c]] = c
      BY <2>1, <2>4, <2>6, <3>1 DEF Listing, TypeOK
    <3>3. \A r \in Peers : Connections'[r] # None =>
             /\ at'[Connections'[r]] # "idle"
             /\ peer'[Connections'[r]] = r
             /\ Connections'[r] \in live'
      BY <2>2, <2>4, <2>6 DEF Listing, TypeOK
    <3> QED
      BY <2>3, <2>6, <3>2, <3>3 DEF Listing
  <2> QED
    BY <1>2, <2>5, <2>6
<1>6. Using'
  <2>1. \A j \in Attempts : client[j] # None =>
           /\ j # k /\ client[j] \in Attempts \ {k}
           /\ at'[j] # "idle" /\ at'[client[j]] # "idle"
           /\ peer'[client[j]] = peer'[j]
    BY <1>1 DEF TypeOK, Using
  <2>2. client'[k] # None => at'[client'[k]] # "idle" /\ peer'[client'[k]] = q
    <3>1. Connections[q] # None =>
             Connections[q] \in Attempts \ {k} /\ at'[Connections[q]] # "idle"
             /\ peer'[Connections[q]] = q
      BY <1>1 DEF TypeOK, Listing
    <3>2. peer'[k] = q /\ at'[k] # "idle" /\ client[k] = None
      BY <1>1, <2>1 DEF TypeOK
    <3> QED
      BY <1>2, <3>1, <3>2 DEF TypeOK
  <2>3. peer'[k] = q /\ at'[k] # "idle"
    BY <1>1 DEF TypeOK
  <2>4. \A d \in described : d[1] \in Attempts \ {k}
    BY <1>1 DEF TypeOK, Using
  <2>5. \A d \in described' : at'[d[1]] # "idle" /\ peer'[d[1]] = d[2]
    BY <1>1, <1>3, <2>4 DEF TypeOK, Using
  <2> QED
    BY <1>1, <2>1, <2>2, <2>3, <2>5 DEF Using
<1>7. Heard' /\ HearsOnce' /\ WaitingHears'
  <2>1. k \notin OnAnswer \cup answered
    BY <1>1 DEF Heard
  <2>2. at'[k] \notin {"routingOffer", "waiting"}
    BY <1>1
  <2>3. OnAnswer' = OnAnswer /\ answered' = answered /\ (disposed <=> disposed')
    BY <1>3
  <2> QED
    BY <1>1, <2>1, <2>2, <2>3 DEF Heard, HearsOnce, WaitingHears, TypeOK
<1> QED
  BY <1>4, <1>5, <1>6, <1>7

LEMMA ContinueInv ==
    ASSUME Inv, NEW k \in Attempts, Continue(k)
    PROVE  Inv'
<1> USE DEF Inv
<1>1. /\ at' \in [Attempts -> Steps]
      /\ \A j \in Attempts : j # k => at'[j] = at[j]
      /\ at[k] \notin Ended \cup {"idle"}
      /\ at'[k] # "idle"
  BY ContinueSteps DEF TypeOK
<1>2. UNCHANGED <<Connections, live, IsOfferClient, peer, client, answered, join, todo,
                  joining>>
  BY DEF Continue, Complete, CallNext, SendOffer, SendAnswer, Routed, EndWait, Timeout,
         connVars, answerVars, joinVars
<1>3. disposed' = disposed
  BY DEF Continue, Complete, CallNext, SendOffer, SendAnswer, Routed, EndWait, Timeout
<1>4. shown' \subseteq Peers
  BY DEF Continue, Complete, CallNext, SendOffer, SendAnswer, Routed, EndWait, Timeout,
         RefreshView, Connected, TypeOK
<1>5. \/ described' = described
      \/ client[k] \in live /\ described' = described \cup {<<client[k], peer[k]>>}
  BY DEF Continue, Complete, CallNext, SendOffer, SendAnswer, Routed, EndWait, Timeout,
         answerVars
<1>6. \/ OnAnswer' = OnAnswer /\ (at'[k] = "waiting" => at[k] = "routingOffer")
         /\ at'[k] # "routingOffer"
      \/ OnAnswer' = OnAnswer \cup {k} /\ at[k] = "offerSet"
         /\ at'[k] \in {"routingOffer", "failed"}
  <2> USE StepSets DEF Goto, TypeOK
  <2>1. CASE SendOffer(k)
    BY <2>1 DEF SendOffer
  <2>2. CASE Complete(k)
    BY <2>2 DEF Complete, Pending, Completed
  <2>3. CASE CallNext(k)
    BY <2>3 DEF CallNext, answerVars, Pending, Completed
  <2>4. CASE SendAnswer(k) \/ Routed(k) \/ EndWait(k) \/ Timeout(k)
    BY <2>4 DEF SendAnswer, Routed, EndWait, Timeout, answerVars
  <2> QED
    BY <2>1, <2>2, <2>3, <2>4 DEF Continue
<1>7. k \in OnAnswer \cup answered =>
         at[k] \in {"routingOffer", "waiting"} /\ at'[k] \in {"waiting", "up", "failed"}
  <2>1. at[k] \in {"routingOffer", "waiting"} => at'[k] \in {"waiting", "up", "failed"}
    <3> USE StepSets DEF Goto, TypeOK
    <3>1. CASE Complete(k) \/ CallNext(k)
      BY <3>1 DEF Complete, CallNext, Pending, Completed
    <3>2. CASE SendOffer(k) \/ SendAnswer(k)
      BY <3>2 DEF SendOffer, SendAnswer
    <3>3. CASE Routed(k) \/ EndWait(k) \/ Timeout(k)
      BY <3>3 DEF Routed, EndWait, Timeout
    <3> QED
      BY <3>1, <3>2, <3>3 DEF Continue
  <2> QED
    BY <1>1, <2>1 DEF Heard, Ended
<1>8. at[k] \notin {"idle", "failed"} /\ client[k] # None /\ peer[k] \in Peers
  BY <1>1, PlayerOf DEF TypeOK, Ended
<1>9. \A j \in Attempts : at'[j] # "idle" <=> at[j] # "idle"
  BY <1>1
<1>10. TypeOK'
  <2>1. OnAnswer' \subseteq Attempts
    BY <1>6 DEF TypeOK
  <2>2. described' \subseteq Attempts \X Peers
    BY <1>5, <1>8 DEF TypeOK
  <2>3. \A j \in Attempts :
           /\ at'[j] # "idle" => peer'[j] # None
           /\ at'[j] \notin {"idle", "failed"} => client'[j] # None
    BY <1>1, <1>2, <1>8 DEF TypeOK, Attempts
  <2>4. disposed' \in BOOLEAN
    BY <1>3 DEF TypeOK
  <2>5. /\ Connections' \in [Peers -> Attempts \cup {None}]
        /\ live' \subseteq Attempts
        /\ IsOfferClient' \subseteq Attempts
        /\ peer' \in [Attempts -> Peers \cup {None}]
        /\ client' \in [Attempts -> Attempts \cup {None}]
        /\ answered' \subseteq Attempts
        /\ join' \in {"start", "offline", "query", "visit", "joined", "failed"}
        /\ todo' \subseteq Peers
        /\ joining' \in Peers \cup {None}
    BY <1>2 DEF TypeOK
  <2> QED
    BY <1>1, <1>4, <2>1, <2>2, <2>3, <2>4, <2>5 DEF TypeOK
<1>11. Listing'
  BY <1>2, <1>3, <1>9 DEF TypeOK, Listing
<1>12. Using'
  <2>1. at[client[k]] # "idle" /\ peer[client[k]] = peer[k]
    BY <1>8 DEF Using
  <2>2. \A d \in described' : at[d[1]] # "idle" /\ peer[d[1]] = d[2] /\ d[1] \in Attempts
    BY <1>5, <1>8, <2>1 DEF Using, TypeOK
  <2>3. \A d \in described' : at'[d[1]] # "idle" /\ peer'[d[1]] = d[2]
    BY <1>2, <1>9, <2>2
  <2>4. \A j \in Attempts : client'[j] # None =>
           at'[j] # "idle" /\ at'[client'[j]] # "idle" /\ peer'[client'[j]] = peer'[j]
    BY <1>2, <1>9 DEF Using, TypeOK
  <2> QED
    BY <2>3, <2>4 DEF Using
<1>13. Heard'
  BY <1>1, <1>2, <1>6, <1>7 DEF Heard, TypeOK
<1>14. HearsOnce'
  <2>1. k \in OnAnswer' \ OnAnswer => k \notin answered
    BY <1>6, <1>7
  <2> QED
    BY <1>2, <1>6, <2>1 DEF HearsOnce
<1>15. WaitingHears'
  BY <1>1, <1>2, <1>3, <1>6 DEF WaitingHears
<1> QED
  BY <1>10, <1>11, <1>12, <1>13, <1>14, <1>15

LEMMA DropInv ==
    ASSUME Inv, DropStep
    PROVE  Inv'
<1> USE DEF Inv
<1> PICK q \in Peers, c \in live : DropClient(q, c) /\ Connections[q] = c /\ peer[c] = q
  BY DEF DropStep
<1>1. /\ Connections' = [Connections EXCEPT ![q] = None]
      /\ live' = live \ {c}
      /\ IsOfferClient' = IsOfferClient
  BY DEF DropClient
<1>2. UNCHANGED <<at, peer, client, OnAnswer, answered, described, join, todo, joining>>
  BY DEF DropStep, attemptVars, answerVars, joinVars
<1>3. disposed' = disposed
  BY DEF DropStep
<1>4. shown' \subseteq Peers
  BY DEF DropClient, RefreshView, Connected, TypeOK
<1>5. TypeOK'
  <2>1. disposed' \in BOOLEAN
    BY <1>3 DEF TypeOK
  <2> QED
    BY <1>1, <1>2, <1>4, <2>1 DEF TypeOK
<1>6. Listing'
  <2>1. \A d \in live' : at'[d] # "idle" /\ Connections'[peer'[d]] = d
    BY <1>1, <1>2, PlayerOf DEF Listing, TypeOK
  <2>2. \A r \in Peers : Connections'[r] # None =>
           /\ at'[Connections'[r]] # "idle"
           /\ peer'[Connections'[r]] = r
           /\ ~disposed' => Connections'[r] \in live'
    BY <1>1, <1>2, <1>3 DEF Listing, TypeOK
  <2> QED
    BY <1>1, <1>3, <2>1, <2>2 DEF Listing
<1>7. Using' /\ Heard' /\ HearsOnce'
  BY <1>2 DEF Using, Heard, HearsOnce
<1>8. WaitingHears'
  BY <1>2, <1>3 DEF WaitingHears
<1> QED
  BY <1>5, <1>6, <1>7, <1>8

LEMMA AnswerInv ==
    ASSUME Inv, NEW q \in Peers, ReceiveAnswer(q)
    PROVE  Inv'
<1> USE DEF Inv
<1> DEFINE heard == {k \in OnAnswer : peer[k] = q}
<1>1. /\ answered' = answered \cup heard
      /\ OnAnswer' = OnAnswer \ heard
      /\ described' = described \cup {<<client[k], q>> : k \in {k \in heard : client[k] \in live}}
  BY DEF ReceiveAnswer
<1>2. UNCHANGED <<Connections, live, IsOfferClient, at, peer, client, join, todo, joining, shown>>
  BY DEF ReceiveAnswer, connVars, attemptVars, joinVars
<1>3. disposed' = disposed
  BY DEF ReceiveAnswer
<1>4. heard \subseteq Attempts
  BY DEF TypeOK
<1>5. TypeOK'
  <2>1. disposed' \in BOOLEAN
    BY <1>3 DEF TypeOK
  <2>2. described' \subseteq Attempts \X Peers
    BY <1>1 DEF TypeOK
  <2> HIDE DEF heard
  <2> QED
    BY <1>1, <1>2, <1>4, <2>1, <2>2 DEF TypeOK
<1>6. Listing'
  BY <1>2, <1>3 DEF Listing
<1>7. Using'
  <2>1. \A k \in heard : client[k] \in live =>
           at[client[k]] # "idle" /\ peer[client[k]] = q
    BY <1>4 DEF Using, TypeOK
  <2>2. \A d \in described' : at[d[1]] # "idle" /\ peer[d[1]] = d[2]
    BY <1>1, <2>1 DEF Using
  <2> QED
    BY <1>2, <2>2 DEF Using
<1>8. Heard' /\ HearsOnce'
  BY <1>1, <1>2 DEF Heard, HearsOnce
<1>9. WaitingHears'
  BY <1>1, <1>2, <1>3 DEF WaitingHears
<1> QED
  BY <1>5, <1>6, <1>7, <1>8, <1>9

LEMMA DisposeInv ==
    ASSUME Inv, Dispose
    PROVE  Inv'
<1> USE DEF Inv
<1>1. /\ live' = {} /\ OnAnswer' = {}
      /\ UNCHANGED <<Connections, IsOfferClient, at, peer, client, answered, described,
                     join, todo, joining, shown>>
  BY DEF Dispose, attemptVars, joinVars
<1>2. disposed' /\ disposed' \in BOOLEAN
  BY DEF Dispose
<1>3. TypeOK'
  BY <1>1, <1>2 DEF TypeOK
<1>4. Listing'
  BY <1>1, <1>2 DEF Listing
<1>5. Using' /\ Heard' /\ HearsOnce'
  BY <1>1 DEF Using, Heard, HearsOnce
<1>6. WaitingHears'
  BY <1>2 DEF WaitingHears
<1> QED
  BY <1>3, <1>4, <1>5, <1>6

LEMMA QuietInv ==
    ASSUME Inv, QuietStep
    PROVE  Inv'
<1> USE DEF Inv
<1>1. UNCHANGED <<Connections, live, IsOfferClient, at, peer, client, OnAnswer, answered,
                  described>>
  BY DEF QuietStep, connVars, attemptVars, answerVars
<1>2. disposed' = disposed
  BY DEF QuietStep
<1>3. TypeOK'
  <2>1. shown' \subseteq Peers
    BY DEF QuietStep, RefreshView, Connected, TypeOK
  <2>2. disposed' \in BOOLEAN
    BY <1>2 DEF TypeOK
  <2>3. /\ join' \in {"start", "offline", "query", "visit", "joined", "failed"}
        /\ todo' \subseteq Peers
        /\ joining' \in Peers \cup {None}
    BY DEF QuietStep, TypeOK
  <2> QED
    BY <1>1, <2>1, <2>2, <2>3 DEF TypeOK
<1>4. Listing' /\ Using' /\ Heard' /\ HearsOnce'
  BY <1>1, <1>2 DEF Listing, Using, Heard, HearsOnce
<1>5. WaitingHears'
  BY <1>1, <1>2 DEF WaitingHears
<1> QED
  BY <1>3, <1>4, <1>5

LEMMA InitInv == ASSUME Init PROVE Inv
<1>1. TypeOK
  <2>1. disposed \in BOOLEAN
    BY DEF Init
  <2>2. "idle" \in Steps
    BY DEF Steps
  <2> QED
    BY <2>1, <2>2 DEF Init, TypeOK
<1>2. Listing /\ Using /\ Heard
  BY DEF Init, Listing, Using, Heard
<1>3. HearsOnce /\ WaitingHears
  BY DEF Init, HearsOnce, WaitingHears
<1> QED
  BY <1>1, <1>2, <1>3 DEF Inv

LEMMA Invariance == Spec => []Inv
<1>1. Inv /\ [Next]_vars => Inv'
  BY StepKinds, BeginInv, ContinueInv, DropInv, AnswerInv, DisposeInv, QuietInv DEF Inv
<1> QED
  BY <1>1, InitInv, PTL DEF Spec

-----------------------------------------------------------------------------
(* What follows.                                                            *)

\* The state of a client's connections stays well typed.
THEOREM TypeCorrect == Spec => []TypeOK
BY Invariance, PTL DEF Inv

\* No interleaving of attempts, messages and state changes leaves a connection
\* that nobody lists, or lists one that is disposed, and none is made or left
\* after Dispose.
THEOREM ListedCorrect == Spec => []LiveIsListed
<1>1. Inv => LiveIsListed
  <2> SUFFICES ASSUME Inv PROVE LiveIsListed
    OBVIOUS
  <2> USE DEF Inv
  <2>1. \A c \in live : peer[c] \in Peers /\ Connections[peer[c]] = c
    BY PlayerOf DEF Listing, TypeOK
  <2>2. ~disposed => \A c \in Attempts, q \in Peers : Connections[q] = c => c \in live
    BY DEF Listing
  <2> QED
    BY <2>1, <2>2 DEF LiveIsListed, Listing
<1> QED
  BY <1>1, Invariance, PTL

\* However many attempts wait for different players, an attempt hears the answer
\* to its offer, early or late, and no second one.
THEOREM HearsCorrect == Spec => []HearsOneAnswer
<1>1. Inv => HearsOneAnswer
  BY DEF Inv, HearsOneAnswer
<1> QED
  BY <1>1, Invariance, PTL

\* A connection is only given descriptions of the player it is listed for.
THEOREM DescribedCorrect == Spec => []DescribedByPeer
<1>1. Inv => DescribedByPeer
  BY DEF Inv, Listing, Using, DescribedByPeer
<1> QED
  BY <1>1, Invariance, PTL

LEMMA ShownInit == ASSUME Init PROVE ShownIsConnected
BY DEF Init, ShownIsConnected, Connected

\* A step that shows all that is connected establishes it, and one that leaves
\* connections and the attempts that are up alone keeps it.
LEMMA ShownStep ==
    ASSUME Inv, ShownIsConnected, [Next]_vars
    PROVE  ShownIsConnected'
<1> USE DEF Inv
<1> SUFFICES ASSUME ~disposed'
             PROVE  /\ shown' \subseteq Connected'
                    /\ \A k \in Attempts :
                          /\ at'[k] = "up"
                          /\ peer'[k] \in Connected'
                          /\ Connections'[peer'[k]] = client'[k]
                          => peer'[k] \in shown'
  BY DEF ShownIsConnected
<1>0. ~disposed
  BY StepKinds
     DEF BeginStep, DropStep, QuietStep, ReceiveAnswer, Dispose, Continue, Complete, CallNext,
         SendOffer, SendAnswer, Routed, EndWait, Timeout
<1>1. CASE BeginStep
  <2> PICK k \in Attempts, q \in Peers, offer \in BOOLEAN,
          step \in {"creatingOffer", "settingRemote"} : Begin(k, q, offer, step)
    BY <1>1 DEF BeginStep
  <2>1. /\ at[k] = "idle"
        /\ peer' = [peer EXCEPT ![k] = q]
        /\ at'[k] # "up"
        /\ \A j \in Attempts \ {k} : at'[j] = at[j] /\ client'[j] = client[j]
    BY BeginFacts
  <2>2. \/ Connections' = Connections
        \/ Connections[q] = None /\ Connections' = [Connections EXCEPT ![q] = k]
    BY BeginFacts
  <2>3. shown' = shown
    BY <1>1 DEF BeginStep
  <2>4. Connected \subseteq Connected'
    BY <2>2 DEF Connected, TypeOK
  <2>5. ASSUME NEW j \in Attempts, at'[j] = "up", peer'[j] \in Connected',
               Connections'[peer'[j]] = client'[j]
        PROVE  peer'[j] \in shown'
    <3>1. j # k /\ at[j] = "up" /\ peer'[j] = peer[j] /\ client'[j] = client[j]
      BY <2>1, <2>5 DEF TypeOK
    <3>2. client[j] # k
      BY <2>1, <3>1 DEF Using, TypeOK
    <3>3. Connections'[peer[j]] = Connections[peer[j]] /\ peer[j] \in Connected
      BY <2>2, <2>5, <3>1, <3>2 DEF Connected, TypeOK
    <3> QED
      BY <1>0, <2>3, <2>5, <3>1, <3>3 DEF ShownIsConnected
  <2> QED
    BY <1>0, <2>3, <2>4, <2>5 DEF ShownIsConnected
<1>2. ASSUME NEW k \in Attempts, Continue(k)
      PROVE  /\ shown' \subseteq Connected'
             /\ \A j \in Attempts :
                   /\ at'[j] = "up"
                   /\ peer'[j] \in Connected'
                   /\ Connections'[peer'[j]] = client'[j]
                   => peer'[j] \in shown'
  <2>1. UNCHANGED <<Connections, peer, client>>
    BY <1>2 DEF Continue, Complete, CallNext, SendOffer, SendAnswer, Routed, EndWait, Timeout,
                connVars
  <2>2. Connected' = Connected
    BY <2>1 DEF Connected
  <2>3. \A j \in Attempts : j # k => at'[j] = at[j]
    BY <1>2, ContinueSteps DEF TypeOK
  <2>4. shown' = Connected \/ (shown' = shown /\ at'[k] # "up")
    <3> USE StepSets DEF Goto, TypeOK
    <3>1. CASE Complete(k)
      BY <3>1 DEF Complete, Pending, Completed
    <3>2. CASE CallNext(k)
      BY <3>2 DEF CallNext, Pending, Completed
    <3>3. CASE SendOffer(k) \/ SendAnswer(k) \/ Timeout(k)
      BY <3>3 DEF SendOffer, SendAnswer, Timeout
    <3>4. CASE Routed(k) \/ EndWait(k)
      BY <1>0, <3>4 DEF Routed, EndWait, RefreshView
    <3> QED
      BY <1>2, <3>1, <3>2, <3>3, <3>4 DEF Continue
  <2> QED
    BY <1>0, <2>1, <2>2, <2>3, <2>4 DEF ShownIsConnected
<1>3. CASE DropStep
  <2> PICK q \in Peers, c \in live : DropClient(q, c)
    BY <1>3 DEF DropStep
  <2>1. shown' = Connected \ {q} /\ Connections' = [Connections EXCEPT ![q] = None]
    BY <1>0 DEF DropClient, RefreshView
  <2>2. Connected' = Connected \ {q}
    BY <2>1 DEF Connected, TypeOK
  <2> QED
    BY <2>1, <2>2
<1>4. CASE \E q \in Peers : ReceiveAnswer(q)
  <2>1. UNCHANGED <<Connections, at, peer, client, shown>>
    BY <1>4 DEF ReceiveAnswer, connVars, attemptVars
  <2> QED
    BY <1>0, <2>1 DEF ShownIsConnected, Connected
<1>5. CASE QuietStep
  <2>1. UNCHANGED <<Connections, at, peer, client>>
    BY <1>5 DEF QuietStep, connVars, attemptVars
  <2>2. shown' = Connected \/ shown' = shown
    BY <1>0, <1>5 DEF QuietStep, RefreshView
  <2> QED
    BY <1>0, <2>1, <2>2 DEF ShownIsConnected, Connected
<1> QED
  BY StepKinds, <1>1, <1>2, <1>3, <1>4, <1>5 DEF Dispose

\* The screen never shows a player without a connection, and shows every player
\* an attempt has finished for.
THEOREM ShownCorrect == Spec => []ShownIsConnected
<1>1. Inv /\ ShownIsConnected /\ [Next]_vars => ShownIsConnected'
  BY ShownStep
<1> QED
  BY <1>1, ShownInit, Invariance, PTL DEF Spec

=============================================================================
