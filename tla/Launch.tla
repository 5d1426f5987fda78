-------------------------------- MODULE Launch --------------------------------
(***************************************************************************)
(* The scenes of the app.  Launch loads "Login"; UILogin logs in and loads *)
(* "RtcClient"; UIRTCClient joins a room, and goes back to "Login" when    *)
(* that fails, or when its stream ends, and then a log-in is tried by      *)
(* itself.                                                                 *)
(*                                                                         *)
(* Loading a scene destroys the one before it, but not the async methods   *)
(* that scene has begun: each goes on when what it awaits is done, with    *)
(* its scene gone and another one loaded.  All run on the main thread.     *)
(*                                                                         *)
(* What happens inside a room is in module ClientConnection; here its      *)
(* Start only connects, asks for the players and visits them.              *)
(***************************************************************************)
EXTENDS Naturals, Sequences

CONSTANTS
    Scenes,    \* scenes that exist at once: the loaded one and those whose methods
               \* have not ended; bounds how many they are
    LoadLimit, \* bound: user, server and timers wait while this many loads are
               \* under way
    None

ASSUME LaunchAssumption ==
    /\ None \notin Scenes
    /\ LoadLimit \in Nat

VARIABLES
    scene,     \* the loaded scene
    kind,      \* kind[s]: the name it was loaded by
    loads,     \* the names that LoadSceneAsync was called with, in order
    shutting,  \* the calls of GoToLoginAsync that await ShutdownChannelsAsync
    autoLogin,
    delaying,  \* the loaded scene is a Login that waits its 3 s
    button,    \* its btLogin is active
    logins,    \* logins[s]: the calls of DoLogin, begun in s, that await the server
    start,     \* start[s]: where UIRTCClient.Start of s is
    link,      \* link[s]: the channel and the stream of its SignalChannel
    retry      \* history: a client went offline, and nobody has logged in since

uiVars == <<delaying, button, logins>>
vars == <<scene, kind, loads, shutting, autoLogin, uiVars, start, link, retry>>

Init ==
    /\ scene = None
    /\ kind = [s \in Scenes |-> "none"]
    /\ loads = <<>>
    /\ shutting = 1
    /\ autoLogin = FALSE
    /\ delaying = FALSE
    /\ button = FALSE
    /\ logins = [s \in Scenes |-> 0]
    /\ start = [s \in Scenes |-> "over"]
    /\ link = [s \in Scenes |-> "none"]
    /\ retry = FALSE

Is(s, name) == s # None /\ kind[s] = name

\* What comes from outside waits while there is too much to do.
Calm == Len(loads) + shutting < LoadLimit

-----------------------------------------------------------------------------
(* Going to a scene.                                                        *)

\* Shutting down a channel cancels its ShutdownToken, and with it the stream.
Shut(l) == [s \in Scenes |-> IF l[s] = "open" THEN "cut"
                             ELSE IF l[s] = "channel" THEN "none" ELSE l[s]]

\* GoToLoginAsync up to its first await: every channel of the app is shut.
GoToLoginAsync(auto, l) ==
    /\ autoLogin' = auto
    /\ link' = Shut(l)
    /\ shutting' = shutting + 1

\* ShutdownChannelsAsync has ended.
ChannelsShut ==
    /\ shutting > 0
    /\ shutting' = shutting - 1
    /\ loads' = Append(loads, "Login")
    /\ UNCHANGED <<scene, kind, autoLogin, uiVars, start, link, retry>>

OnDestroy_NoDispose == link

\* Dispose clears the handlers of the old scene, and shuts its channel.
OnDestroy == [s \in Scenes |-> IF s = scene THEN "none" ELSE link[s]]

\* Nothing of the scene is left.
Gone(s) == s # scene /\ logins[s] = 0 /\ start[s] = "over"

\* The old scene is destroyed and the new one runs its Start: UILogin waits if
\* autoLogin is set, UIRTCClient begins to join.
LoadScene(s) ==
    /\ loads # <<>>
    /\ Gone(s)
    /\ scene' = s
    /\ kind' = [kind EXCEPT ![s] = Head(loads)]
    /\ loads' = Tail(loads)
    /\ link' = OnDestroy
    /\ delaying' = (Head(loads) = "Login" /\ autoLogin)
    /\ button' = (Head(loads) = "Login")
    /\ start' = [start EXCEPT ![s] = IF Head(loads) = "Login" THEN "over" ELSE "media"]
    /\ UNCHANGED <<shutting, autoLogin, logins, retry>>

-----------------------------------------------------------------------------
(* UILogin.                                                                 *)

\* Without a name for the room DoLogin returns at once.
Login ==
    /\ autoLogin' = FALSE
    /\ retry' = FALSE
    /\ \/ UNCHANGED <<button, logins>>
       \/ button' = FALSE /\ logins' = [logins EXCEPT ![scene] = @ + 1]
    /\ UNCHANGED <<scene, kind, loads, shutting, start, link>>

Press ==
    /\ Is(scene, "Login")
    /\ button
    /\ Calm
    /\ Login
    /\ UNCHANGED delaying

\* Also if the user has pressed the button meanwhile.
EndDelay ==
    /\ delaying
    /\ Calm
    /\ delaying' = FALSE
    /\ Login

LoginFails_Hidden(s) == UNCHANGED <<button, loads>>

\* The button comes back; in a scene that was destroyed that throws.
LoginFails(s) ==
    /\ button' = (button \/ s = scene)
    /\ UNCHANGED loads

\* A call that was made in a scene that is gone loads the room as well.
LoginReturns(s) ==
    /\ logins[s] > 0
    /\ logins' = [logins EXCEPT ![s] = @ - 1]
    /\ \/ Calm /\ loads' = Append(loads, "RtcClient") /\ UNCHANGED button
       \/ LoginFails(s)
    /\ UNCHANGED <<scene, kind, shutting, autoLogin, delaying, start, link, retry>>

-----------------------------------------------------------------------------
(* UIRTCClient.Start.                                                       *)

Goto(s, step) == start' = [start EXCEPT ![s] = step]

Fail_Stay(s) ==
    /\ Goto(s, "over")
    /\ UNCHANGED <<scene, kind, loads, shutting, autoLogin, uiVars, link, retry>>

Fail(s) ==
    /\ Goto(s, "over")
    /\ GoToLoginAsync(FALSE, link)
    /\ UNCHANGED <<scene, kind, loads, uiVars, retry>>

\* The microphone and the camera begin to record.  The wait for them, and only
\* that wait, is cancelled with the scene.
Media(s) ==
    /\ start[s] = "media"
    /\ \/ /\ s = scene
          /\ Goto(s, "connect")
          /\ link' = [link EXCEPT ![s] = "channel"]
          /\ UNCHANGED <<scene, kind, loads, shutting, autoLogin, uiVars, retry>>
       \/ (s # scene \/ Calm) /\ Fail(s)

\* Signal.ConnectAsync, which throws if its channel was shut meanwhile.
Connect(s) ==
    /\ start[s] = "connect"
    /\ \/ /\ link[s] = "channel"
          /\ Goto(s, "query")
          /\ link' = [link EXCEPT ![s] = "open"]
          /\ UNCHANGED <<scene, kind, loads, shutting, autoLogin, uiVars, retry>>
       \/ (link[s] # "channel" \/ Calm) /\ Fail(s)

\* The answer may have come just before the channel was shut.
QueryPlayers(s) ==
    /\ start[s] = "query"
    /\ \/ /\ Goto(s, "visit")
          /\ UNCHANGED <<scene, kind, loads, shutting, autoLogin, uiVars, link, retry>>
       \/ (link[s] # "open" \/ Calm) /\ Fail(s)

\* ConnectAsync returns once it has visited every player, or never does: it is
\* stranded at a client that was disposed.  Then the background is set, of the
\* scene it was called in.
Joined(s) ==
    /\ start[s] = "visit"
    /\ \/ /\ Goto(s, "over")
          /\ UNCHANGED <<scene, kind, loads, shutting, autoLogin, uiVars, link, retry>>
       \/ s # scene /\ Fail(s)

Start(s) == Media(s) \/ Connect(s) \/ QueryPlayers(s) \/ Joined(s)

-----------------------------------------------------------------------------
(* The stream of the room.                                                  *)

Break(s) ==
    /\ link[s] = "open"
    /\ Calm
    /\ link' = [link EXCEPT ![s] = "ended"]
    /\ UNCHANGED <<scene, kind, loads, shutting, autoLogin, uiVars, start, retry>>

\* OnDisconnect and OnOffline; the handler is called once.
ProcessOffline(s) ==
    /\ link[s] \in {"ended", "cut"}
    /\ retry' = TRUE
    /\ GoToLoginAsync(TRUE, [link EXCEPT ![s] = "none"])
    /\ UNCHANGED <<scene, kind, loads, uiVars, start>>

\* The task that reads the stream is not started if its token is cancelled first,
\* and then tells nobody.
NeverRead(s) ==
    /\ link[s] = "cut"
    /\ link' = [link EXCEPT ![s] = "none"]
    /\ UNCHANGED <<scene, kind, loads, shutting, autoLogin, uiVars, start, retry>>

Next ==
    \/ ChannelsShut \/ Press \/ EndDelay
    \/ \E s \in Scenes :
          \/ LoadScene(s) \/ LoginReturns(s) \/ Start(s)
          \/ Break(s) \/ ProcessOffline(s) \/ NeverRead(s)

Spec == Init /\ [][Next]_vars

\* Unity loads the scenes and runs what can go on; the devices record or fail,
\* and a call to a server returns or fails.
Fairness ==
    /\ WF_vars(ChannelsShut)
    /\ WF_vars(\E s \in Scenes : LoadScene(s))
    /\ WF_vars(EndDelay)
    /\ \A s \in Scenes :
          /\ WF_vars(LoginReturns(s))
          /\ WF_vars(Start(s))
          /\ WF_vars(ProcessOffline(s))

FairSpec == Spec /\ Fairness

-----------------------------------------------------------------------------
(* Properties.                                                              *)

TypeOK ==
    /\ scene \in Scenes \cup {None}
    /\ kind \in [Scenes -> {"none", "Login", "RtcClient"}]
    /\ loads \in Seq({"Login", "RtcClient"})
    /\ shutting \in Nat
    /\ autoLogin \in BOOLEAN
    /\ delaying \in BOOLEAN
    /\ button \in BOOLEAN
    /\ logins \in [Scenes -> Nat]
    /\ start \in [Scenes -> {"over", "media", "connect", "query", "visit"}]
    /\ link \in [Scenes -> {"none", "channel", "open", "ended", "cut"}]
    /\ retry \in BOOLEAN
    \* only a loaded Login waits or has the button, and only a Login logs in
    /\ delaying \/ button => Is(scene, "Login")
    /\ \A s \in Scenes :
          /\ logins[s] > 0 => kind[s] = "Login"
          /\ start[s] # "over" => kind[s] = "RtcClient"

\* No stream outlives its scene, whatever its Start was awaiting when the scene
\* was destroyed: the account would stay in the room, and a second connection of
\* the app would fight the first one over it.
OnlySceneIsLinked == \A s \in Scenes : link[s] # "none" => s = scene /\ kind[s] = "RtcClient"

Usable == (Is(scene, "Login") /\ button) \/ (Is(scene, "RtcClient") /\ link[scene] = "open")

\* The app never waits for nothing: if the user can neither log in nor is in a room,
\* a scene is about to be loaded, a log-in that hides the button has yet to return,
\* a Start has yet to end, or the end of a stream has yet to be told.
NeverStuck ==
    \/ Usable
    \/ shutting > 0
    \/ loads # <<>>
    \/ Is(scene, "Login") /\ logins[scene] > 0
    \/ Is(scene, "RtcClient") /\ (start[scene] # "over" \/ link[scene] = "ended")

\* The app does not hang: time and again the user can log in or is in a room,
\* however log-ins, loads, failures and left-over methods cross.
UsableAgain == []<>Usable

\* "Offline retry" (UIRTCClient.cs:131): a client that went offline logs in again
\* by itself, unless the user is faster.
OfflineRetries == retry ~> ~retry

=============================================================================
