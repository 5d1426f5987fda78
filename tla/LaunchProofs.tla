----------------------------- MODULE LaunchProofs -----------------------------
(***************************************************************************)
(* Theorems about Launch, for any number of scenes that exist at once and  *)
(* any number of loads under way.                                          *)
(***************************************************************************)
EXTENDS Launch, TLAPS

USE LaunchAssumption DEF LaunchAssumption

Steps == {"over", "media", "connect", "query", "visit"}
Links == {"none", "channel", "open", "ended", "cut"}

-----------------------------------------------------------------------------
(* What shutting the channels and destroying a scene do to the links.       *)

LEMMA ShutLinks ==
    ASSUME NEW l \in [Scenes -> Links]
    PROVE  /\ Shut(l) \in [Scenes -> Links]
           /\ \A s \in Scenes : Shut(l)[s] # "none" => l[s] # "none"
  BY DEF Shut, Links

LEMMA OnDestroyLinks ==
    ASSUME link \in [Scenes -> Links]
    PROVE  /\ OnDestroy \in [Scenes -> Links]
           /\ \A s \in Scenes : OnDestroy[s] # "none" => link[s] # "none" /\ s # scene
  BY DEF OnDestroy, Links

-----------------------------------------------------------------------------
(* Both invariants are preserved together: that a room which opens its      *)
(* stream is the loaded scene is known from its link.                       *)

Inv == TypeOK /\ OnlySceneIsLinked

LEMMA InvInit == Init => Inv
<1> SUFFICES ASSUME Init PROVE Inv
  OBVIOUS
<1>1. OnlySceneIsLinked
  BY DEF Init, OnlySceneIsLinked
<1>2. shutting \in Nat /\ loads \in Seq({"Login", "RtcClient"}) /\ logins \in [Scenes -> Nat]
  BY DEF Init
<1>3. autoLogin \in BOOLEAN /\ delaying \in BOOLEAN /\ button \in BOOLEAN /\ retry \in BOOLEAN
  BY Zenon DEF Init
<1>4. /\ scene \in Scenes \cup {None}
      /\ kind \in [Scenes -> {"none", "Login", "RtcClient"}]
      /\ start \in [Scenes -> Steps]
      /\ link \in [Scenes -> Links]
  BY DEF Init, Steps, Links
<1>5. ~delaying /\ ~button /\ \A s \in Scenes : start[s] = "over" /\ logins[s] = 0
  BY DEF Init
<1> QED
  BY <1>1, <1>2, <1>3, <1>4, <1>5 DEF Inv, TypeOK, Steps, Links

\* A Start that ends with an exception shuts every channel.
LEMMA FailKeeps ==
    ASSUME Inv, NEW s \in Scenes, Fail(s)
    PROVE  Inv'
<1> USE DEF Inv, TypeOK, Fail, GoToLoginAsync, Goto, Is, uiVars
<1>1. /\ link' \in [Scenes -> Links]
      /\ \A t \in Scenes : link'[t] # "none" => link[t] # "none"
  BY ShutLinks DEF Links
<1>2. OnlySceneIsLinked'
  BY <1>1 DEF OnlySceneIsLinked
<1>3. autoLogin' \in BOOLEAN /\ delaying' \in BOOLEAN /\ button' \in BOOLEAN /\ retry' \in BOOLEAN
  BY Zenon
<1>4. start' \in [Scenes -> Steps] /\ \A t \in Scenes : start'[t] # "over" => start[t] # "over"
  BY DEF Steps
<1> QED
  BY <1>1, <1>2, <1>3, <1>4 DEF Links, Steps

\* The loaded scene is a room and may have a link: a step that moves its Start
\* and gives it a link, or leaves the links alone.
LEMMA StartKeeps ==
    ASSUME Inv, NEW s \in Scenes, Start(s)
    PROVE  Inv'
<1> USE DEF Inv, TypeOK, Goto, Is, uiVars
<1>1. ASSUME NEW step \in Steps, start[s] # "over", Goto(s, step),
             \/ UNCHANGED link
             \/ \E l \in Links : s = scene /\ link' = [link EXCEPT ![s] = l],
             UNCHANGED <<scene, kind, loads, shutting, autoLogin, uiVars, retry>>
      PROVE  Inv'
  <2>1. link' \in [Scenes -> Links]
    BY <1>1 DEF Links
  <2>2. OnlySceneIsLinked'
    BY <1>1 DEF OnlySceneIsLinked
  <2>3. start' \in [Scenes -> Steps] /\ \A t \in Scenes : start'[t] # "over" => start[t] # "over"
    BY <1>1 DEF Steps
  <2>4. autoLogin' \in BOOLEAN /\ delaying' \in BOOLEAN /\ button' \in BOOLEAN /\ retry' \in BOOLEAN
    BY <1>1, Zenon
  <2> QED
    BY <1>1, <2>1, <2>2, <2>3, <2>4 DEF Links, Steps
<1>2. CASE Media(s)
  BY <1>1, <1>2, FailKeeps DEF Media, Steps, Links
<1>3. CASE Connect(s)
  BY <1>1, <1>3, FailKeeps DEF Connect, Steps, Links, OnlySceneIsLinked
<1>4. CASE QueryPlayers(s)
  BY <1>1, <1>4, FailKeeps DEF QueryPlayers, Steps
<1>5. CASE Joined(s)
  BY <1>1, <1>5, FailKeeps DEF Joined, Steps
<1> QED
  BY <1>2, <1>3, <1>4, <1>5 DEF Start

\* The scene that is loaded has no link, and the one before it loses its own.
LEMMA LoadKeeps ==
    ASSUME Inv, NEW s \in Scenes, LoadScene(s)
    PROVE  Inv'
<1> USE DEF Inv, TypeOK, LoadScene, Gone, Is
<1>1. /\ link' \in [Scenes -> Links]
      /\ \A t \in Scenes : link'[t] = "none"
  BY OnDestroyLinks DEF OnlySceneIsLinked, Links
<1>2. Head(loads) \in {"Login", "RtcClient"} /\ loads' \in Seq({"Login", "RtcClient"})
  OBVIOUS
<1>3. autoLogin' \in BOOLEAN /\ delaying' \in BOOLEAN /\ button' \in BOOLEAN /\ retry' \in BOOLEAN
  <2>1. CASE Head(loads) = "Login"
    BY <2>1, Zenon
  <2>2. CASE Head(loads) # "Login"
    BY <2>2, Zenon
  <2> QED
    BY <2>1, <2>2
<1>4. delaying' \/ button' => Head(loads) = "Login"
  BY Zenon
<1>5. scene' # None /\ kind' \in [Scenes -> {"none", "Login", "RtcClient"}] /\ kind'[s] = Head(loads)
  BY <1>2
<1>6. /\ start' \in [Scenes -> Steps]
      /\ \A t \in Scenes : start'[t] # "over" => kind'[t] = "RtcClient"
      /\ \A t \in Scenes : logins[t] > 0 => kind'[t] = "Login"
  BY <1>2 DEF Steps
<1>7. OnlySceneIsLinked'
  BY <1>1 DEF OnlySceneIsLinked
<1> QED
  BY <1>1, <1>2, <1>3, <1>4, <1>5, <1>6, <1>7 DEF Links, Steps

\* UILogin: only a loaded Login has the button and waits, so that a log-in is
\* begun in one.
LEMMA LoginBegins ==
    ASSUME Inv, Press \/ EndDelay
    PROVE  Inv'
<1> USE DEF Inv, TypeOK, Is
<1>1. autoLogin' \in BOOLEAN /\ delaying' \in BOOLEAN /\ button' \in BOOLEAN /\ retry' \in BOOLEAN
  BY Zenon DEF Press, EndDelay, Login
<1>2. Is(scene, "Login")
  BY DEF Press, EndDelay
<1>3. Login
  BY DEF Press, EndDelay
<1>4. /\ logins' \in [Scenes -> Nat]
      /\ \A t \in Scenes : logins'[t] > 0 => kind[t] = "Login"
  <2>1. scene \in Scenes /\ kind[scene] = "Login"
    BY <1>2
  <2>2. CASE logins' = logins
    BY <2>2
  <2>3. CASE logins' = [logins EXCEPT ![scene] = @ + 1]
    BY <2>1, <2>3
  <2> QED
    BY <1>3, <2>2, <2>3 DEF Login
<1>5. UNCHANGED <<scene, kind, loads, shutting, start, link>>
  BY <1>3 DEF Login
<1>6. OnlySceneIsLinked'
  BY <1>5 DEF OnlySceneIsLinked
<1>7. (delaying' \/ button' => Is(scene, "Login")) /\ UNCHANGED <<scene, kind>>
  BY <1>2, <1>5
<1> QED
  BY <1>1, <1>4, <1>5, <1>6, <1>7

\* And ends in one, that may have been left.
LEMMA LoginEnds ==
    ASSUME Inv, NEW s \in Scenes, LoginReturns(s)
    PROVE  Inv'
<1> USE DEF Inv, TypeOK, Is, LoginReturns
<1>1. autoLogin' \in BOOLEAN /\ delaying' \in BOOLEAN /\ button' \in BOOLEAN /\ retry' \in BOOLEAN
  <2>1. CASE UNCHANGED button
    BY <2>1, Zenon
  <2>2. CASE button' = (button \/ s = scene)
    BY <2>2, Zenon
  <2> QED
    BY <2>1, <2>2 DEF LoginFails
<1>2. loads' \in Seq({"Login", "RtcClient"})
  <2>1. CASE loads' = loads
    BY <2>1
  <2>2. CASE loads' = Append(loads, "RtcClient")
    BY <2>2
  <2> QED
    BY <2>1, <2>2 DEF LoginFails
<1>3. /\ logins' \in [Scenes -> Nat]
      /\ \A t \in Scenes : logins'[t] > 0 => logins[t] > 0
  OBVIOUS
<1>4. button' => button \/ s = scene
  BY Zenon DEF LoginFails
<1>5. button' => Is(scene, "Login")
  BY <1>4
<1>6. OnlySceneIsLinked'
  BY DEF OnlySceneIsLinked
<1> QED
  BY <1>1, <1>2, <1>3, <1>5, <1>6

\* The stream ends, and the client hears of it or not.
LEMMA StreamKeeps ==
    ASSUME Inv, NEW s \in Scenes, Break(s) \/ ProcessOffline(s) \/ NeverRead(s)
    PROVE  Inv'
<1> USE DEF Inv, TypeOK, Is, uiVars
<1>1. autoLogin' \in BOOLEAN /\ delaying' \in BOOLEAN /\ button' \in BOOLEAN /\ retry' \in BOOLEAN
  BY Zenon DEF Break, ProcessOffline, NeverRead, GoToLoginAsync
<1>2. CASE Break(s) \/ NeverRead(s)
  <2>1. link' \in [Scenes -> Links]
    BY <1>2 DEF Break, NeverRead, Links
  <2>2. \A t \in Scenes : link'[t] # "none" => link[t] # "none"
    BY <1>2 DEF Break, NeverRead
  <2> QED
    BY <1>1, <1>2, <2>1, <2>2 DEF Break, NeverRead, OnlySceneIsLinked, Links
<1>3. CASE ProcessOffline(s)
  <2> DEFINE l == [link EXCEPT ![s] = "none"]
  <2>1. l \in [Scenes -> Links] /\ \A t \in Scenes : l[t] # "none" => link[t] # "none"
    BY DEF Links
  <2>2. link' = Shut(l)
    BY <1>3 DEF ProcessOffline, GoToLoginAsync
  <2> HIDE DEF l
  <2>3. /\ link' \in [Scenes -> Links]
        /\ \A t \in Scenes : link'[t] # "none" => link[t] # "none"
    BY <2>1, <2>2, ShutLinks
  <2>4. shutting' \in Nat /\ UNCHANGED <<scene, kind, loads, delaying, button, logins, start>>
    BY <1>3 DEF ProcessOffline, GoToLoginAsync
  <2>5. OnlySceneIsLinked'
    BY <2>3, <2>4 DEF OnlySceneIsLinked
  <2> QED
    BY <1>1, <2>3, <2>4, <2>5 DEF Links
<1> QED
  BY <1>2, <1>3

LEMMA InvNext == Inv /\ [Next]_vars => Inv'
<1> SUFFICES ASSUME Inv, [Next]_vars PROVE Inv'
  OBVIOUS
<1>1. CASE ChannelsShut
  <2>1. autoLogin' \in BOOLEAN /\ delaying' \in BOOLEAN /\ button' \in BOOLEAN /\ retry' \in BOOLEAN
    BY <1>1, Zenon DEF ChannelsShut, uiVars, Inv, TypeOK
  <2> QED
    BY <1>1, <2>1 DEF ChannelsShut, uiVars, Inv, TypeOK, OnlySceneIsLinked, Is
<1>2. CASE UNCHANGED vars
  <2>1. autoLogin' \in BOOLEAN /\ delaying' \in BOOLEAN /\ button' \in BOOLEAN /\ retry' \in BOOLEAN
    BY <1>2, Zenon DEF vars, uiVars, Inv, TypeOK
  <2> QED
    BY <1>2, <2>1 DEF vars, uiVars, Inv, TypeOK, OnlySceneIsLinked, Is
<1> QED
  BY <1>1, <1>2, StartKeeps, LoadKeeps, LoginBegins, LoginEnds, StreamKeeps DEF Next

LEMMA InvAlways == Spec => []Inv
  BY InvInit, InvNext, PTL DEF Spec

-----------------------------------------------------------------------------

\* The scenes are well typed: only a Login that is loaded waits for its 3 s or
\* shows its button, whichever scenes the answers to log-ins come back to.
THEOREM TypeCorrect == Spec => []TypeOK
<1>1. Inv => TypeOK
  BY DEF Inv
<1> QED
  BY <1>1, InvAlways, PTL

\* No stream or channel outlives its scene, however many abandoned scenes have a
\* Start that is still awaiting something.
THEOREM LinkCorrect == Spec => []OnlySceneIsLinked
<1>1. Inv => OnlySceneIsLinked
  BY DEF Inv
<1> QED
  BY <1>1, InvAlways, PTL

-----------------------------------------------------------------------------
(* The app goes on.  Of a room whose Start is past Connect, only its stream   *)
(* counts: as soon as that is cut or its end was told, channels are shutting  *)
(* or a load is due, and remain so until another scene is loaded.             *)

Pending == shutting > 0 \/ loads # <<>>

LoginGoes == Is(scene, "Login") /\ (button \/ logins[scene] > 0)

RoomGoes ==
    /\ Is(scene, "RtcClient")
    /\ start[scene] \in {"media", "connect"} \/ link[scene] \in {"open", "ended"}

Going == Pending \/ LoginGoes \/ RoomGoes

LEMMA GoingInit == Init => Going
  BY DEF Init, Going, Pending

LEMMA AppendFills ==
    ASSUME NEW S, NEW q \in Seq(S), NEW e \in S
    PROVE  Append(q, e) # <<>>
<1>1. Len(Append(q, e)) = Len(q) + 1
  OBVIOUS
<1>2. Len(q) \in Nat
  OBVIOUS
<1> QED
  BY <1>1, <1>2

\* Shutting the channels keeps the app going until a scene is loaded.
LEMMA ShutGoes ==
    ASSUME Inv, NEW auto, NEW l, GoToLoginAsync(auto, l)
    PROVE  Pending'
  BY DEF Inv, TypeOK, GoToLoginAsync, Pending

LEMMA GoingNext == Inv /\ Going /\ [Next]_vars => Going'
<1> SUFFICES ASSUME Inv, Going, [Next]_vars PROVE Going'
  OBVIOUS
<1>a. /\ scene \in Scenes \cup {None} /\ kind \in [Scenes -> {"none", "Login", "RtcClient"}]
      /\ loads \in Seq({"Login", "RtcClient"}) /\ shutting \in Nat
      /\ logins \in [Scenes -> Nat] /\ start \in [Scenes -> Steps] /\ link \in [Scenes -> Links]
  BY DEF Inv, TypeOK, Steps, Links
<1>1. CASE ChannelsShut
  <2>1. loads' # <<>>
    BY <1>a, <1>1, AppendFills DEF ChannelsShut
  <2> QED
    BY <2>1 DEF Going, Pending
<1>2. ASSUME NEW s \in Scenes, LoadScene(s) PROVE Going'
  <2>1. /\ scene' = s /\ s # None /\ kind' = [kind EXCEPT ![s] = Head(loads)]
        /\ Head(loads) \in {"Login", "RtcClient"}
    BY <1>a, <1>2 DEF LoadScene
  <2>2. CASE Head(loads) = "Login"
    <3>1. button'
      BY <1>2, <2>2, Zenon DEF LoadScene
    <3> QED
      BY <1>a, <2>1, <2>2, <3>1 DEF Going, LoginGoes, Is
  <2>3. CASE Head(loads) = "RtcClient"
    <3>1. start'[s] = "media"
      BY <1>2, <1>a, <2>3 DEF LoadScene
    <3> QED
      BY <1>a, <2>1, <2>3, <3>1 DEF Going, RoomGoes, Is
  <2> QED
    BY <2>1, <2>2, <2>3
<1>3. CASE Press \/ EndDelay
  <2>1. Is(scene, "Login") /\ Login
    BY <1>3 DEF Press, EndDelay, Inv, TypeOK
  <2>2. UNCHANGED <<scene, kind, loads, shutting, start, link>>
    BY <2>1 DEF Login
  <2>3. CASE UNCHANGED <<button, logins>>
    BY <2>1, <2>2, <2>3 DEF Going, Pending, LoginGoes, RoomGoes, Is
  <2>4. CASE logins' = [logins EXCEPT ![scene] = @ + 1]
    <3>1. scene \in Scenes /\ logins'[scene] > 0
      BY <1>a, <2>1, <2>4 DEF Is
    <3> QED
      BY <2>1, <2>2, <3>1 DEF Going, LoginGoes, Is
  <2> QED
    BY <2>1, <2>3, <2>4 DEF Login
<1>4. ASSUME NEW s \in Scenes, LoginReturns(s) PROVE Going'
  <2>1. UNCHANGED <<scene, kind, shutting, start, link>>
        /\ logins' = [logins EXCEPT ![s] = @ - 1]
    BY <1>4 DEF LoginReturns
  <2>2. CASE loads' = Append(loads, "RtcClient")
    <3>1. loads' # <<>>
      BY <1>a, <2>2, AppendFills
    <3> QED
      BY <3>1 DEF Going, Pending
  <2>3. CASE loads' = loads /\ button' = (button \/ s = scene)
    <3>1. Is(scene, "Login") /\ button => button'
      BY <2>3, Zenon
    <3>2. s = scene => button'
      BY <2>3, Zenon
    <3>3. s # scene => logins'[scene] = logins[scene] \/ scene = None
      BY <1>a, <2>1
    <3>4. LoginGoes => LoginGoes'
      BY <2>1, <3>1, <3>2, <3>3 DEF LoginGoes, Is
    <3> QED
      BY <2>1, <2>3, <3>4 DEF Going, Pending, RoomGoes, Is
  <2> QED
    BY <1>4, <2>2, <2>3 DEF LoginReturns, LoginFails
<1>5. ASSUME NEW s \in Scenes, Fail(s) PROVE Going'
  BY <1>5, ShutGoes DEF Fail, Going
<1>6. ASSUME NEW s \in Scenes, Start(s), ~Fail(s) PROVE Going'
  <2>1. UNCHANGED <<scene, kind, loads, shutting, button, logins>>
    BY <1>6 DEF Start, Media, Connect, QueryPlayers, Joined, uiVars
  <2>2. \A t \in Scenes : t # s => start'[t] = start[t] /\ link'[t] = link[t]
    BY <1>6, <1>a DEF Start, Media, Connect, QueryPlayers, Joined, Goto
  <2>3. start[s] \in {"media", "connect"} =>
           start'[s] = "connect" \/ link'[s] = "open"
    BY <1>6, <1>a DEF Start, Media, Connect, QueryPlayers, Joined, Goto
  <2>4. start[s] \notin {"media", "connect"} => link' = link
    BY <1>6 DEF Start, Media, Connect, QueryPlayers, Joined
  <2>5. RoomGoes => RoomGoes'
    BY <1>a, <2>1, <2>2, <2>3, <2>4 DEF RoomGoes, Is
  <2> QED
    BY <2>1, <2>5 DEF Going, Pending, LoginGoes, Is
<1>7. ASSUME NEW s \in Scenes, Break(s) \/ NeverRead(s) PROVE Going'
  <2>1. UNCHANGED <<scene, kind, loads, shutting, button, logins, start>>
    BY <1>7 DEF Break, NeverRead, uiVars
  <2>2. \A t \in Scenes : link[t] \in {"open", "ended"} => link'[t] \in {"open", "ended"}
    BY <1>7, <1>a DEF Break, NeverRead
  <2>3. RoomGoes => RoomGoes'
    BY <1>a, <2>1, <2>2 DEF RoomGoes, Is
  <2> QED
    BY <2>1, <2>3 DEF Going, Pending, LoginGoes, Is
<1>8. ASSUME NEW s \in Scenes, ProcessOffline(s) PROVE Going'
  BY <1>8, ShutGoes DEF ProcessOffline, Going
<1>9. CASE UNCHANGED vars
  BY <1>9 DEF vars, uiVars, Going, Pending, LoginGoes, RoomGoes, Is
<1> QED
  BY <1>1, <1>2, <1>3, <1>4, <1>5, <1>6, <1>7, <1>8, <1>9 DEF Next

\* The safety behind UsableAgain: the app is never left with a hidden button, an
\* ended stream or a failed Start that nothing will put right.
THEOREM NeverStuckCorrect == Spec => []NeverStuck
<1>1. Inv /\ Going => NeverStuck
  BY DEF Going, Pending, LoginGoes, RoomGoes, NeverStuck, Usable, Is
<1> QED
  BY <1>1, InvInit, InvNext, GoingInit, GoingNext, PTL DEF Spec

=============================================================================
