---------------------------- MODULE WatcherServer ----------------------------
(***************************************************************************)
(* The signalling server's view of the session servers: WatcherServer      *)
(* copies the children of their root node into a dictionary, once when it  *)
(* starts and again whenever the watch it sets with the list fires.        *)
(*                                                                         *)
(* The registrations are those of ZkHealthy, extended.  A watch fires once, *)
(* at the next change of the children, and has to be set again; the client *)
(* library hands its events to RefreshData and drops what that throws.     *)
(***************************************************************************)
EXTENDS ZkHealthy

CONSTANTS
    Events,          \* refreshes for an event that may be under way at once
    Startup,         \* the refresh of Program.Main
    GlitchLimit      \* bound: how often the watcher crashes or its calls fail

ASSUME WatcherAssumption ==
    /\ Startup \notin Events
    /\ GlitchLimit \in Nat

VARIABLES
    watcher,        \* the signalling server: "down", "up", or "deaf" once its
                    \* own session has timed out
    _serverConfigs, \* the addresses in the dictionary
    armed,          \* the watch on the children is set
    fired,          \* events not yet handed to the watcher
    refresh,        \* refresh[r]: where RefreshData r is
    children,       \* children[r]: those of its list it has yet to load
    missed,         \* history: a call failed under an event's refresh, and no
                    \* list has been read since
    glitches

watcherVars == <<watcher, _serverConfigs, armed, fired, refresh, children,
                 missed, glitches>>
vars == <<zkVars, watcherVars>>

Refreshes == Events \cup {Startup}

\* A refresh that has not read the list yet will see what has changed.
Unread == {"exists", "createRoot", "getChildren"}

Idle == [r \in Refreshes |-> "idle"]
Nothing == [r \in Refreshes |-> {}]

WatchInit ==
    /\ Init
    /\ watcher = "down"
    /\ _serverConfigs = {}
    /\ armed = FALSE
    /\ fired = 0
    /\ refresh = Idle
    /\ children = Nothing
    /\ missed = FALSE
    /\ glitches = 0

\* The signalling server's process ends, and with it the watcher.
Exit ==
    /\ watcher' = "down"
    /\ _serverConfigs' = {}
    /\ armed' = FALSE
    /\ fired' = 0
    /\ refresh' = Idle
    /\ children' = Nothing
    /\ missed' = FALSE

-----------------------------------------------------------------------------
(* RefreshData.                                                             *)

RefreshTo(r, step) == refresh' = [refresh EXCEPT ![r] = step]

StartWatcher ==
    /\ watcher = "down"
    /\ watcher' = "up"
    /\ RefreshTo(Startup, "exists")
    /\ UNCHANGED <<zkVars, _serverConfigs, armed, fired, children, missed, glitches>>

Process_CreatedOnly(r) ==
    /\ fired > 0
    /\ refresh[r] = "idle"
    /\ fired' = fired - 1
    /\ UNCHANGED <<zkVars, watcher, _serverConfigs, armed, refresh, children,
                   missed, glitches>>

\* ZkWatcher.process: NodeChildrenChanged is the only event this watch gets,
\* as the root is never deleted.
Process(r) ==
    /\ fired > 0
    /\ refresh[r] = "idle"
    /\ fired' = fired - 1
    /\ RefreshTo(r, "exists")
    /\ UNCHANGED <<zkVars, watcher, _serverConfigs, armed, children, missed, glitches>>

\* An exception in RefreshData ends the process while it starts; an event's is
\* dropped.
Throw(r) ==
    IF r = Startup
    THEN Exit
    ELSE /\ RefreshTo(r, "idle")
         /\ children' = [children EXCEPT ![r] = {}]
         /\ UNCHANGED <<watcher, _serverConfigs, armed, fired, missed>>

RefreshExists(r) ==
    /\ refresh[r] = "exists"
    /\ RefreshTo(r, IF root THEN "getChildren" ELSE "createRoot")
    /\ UNCHANGED <<zkVars, watcher, _serverConfigs, armed, fired, children,
                   missed, glitches>>

\* AutoGen; NodeExists if a session server was faster.
AutoGen(r) ==
    /\ refresh[r] = "createRoot"
    /\ \/ /\ CreateRootElsewhere
          /\ RefreshTo(r, "getChildren")
          /\ UNCHANGED <<watcher, _serverConfigs, armed, fired, children, missed>>
       \/ root /\ Throw(r) /\ UNCHANGED zkVars
    /\ UNCHANGED glitches

GetChildren_NoWatch(r) ==
    /\ refresh[r] = "getChildren"
    /\ children' = [children EXCEPT ![r] = Children]
    /\ RefreshTo(r, "load")
    /\ armed' = (armed \/ r = Startup)
    /\ missed' = FALSE
    /\ UNCHANGED <<zkVars, watcher, _serverConfigs, fired, glitches>>

\* getChildrenAsync(Root, _watcher): the list, and a watch for its next change.
GetChildren(r) ==
    /\ refresh[r] = "getChildren"
    /\ children' = [children EXCEPT ![r] = Children]
    /\ RefreshTo(r, "load")
    /\ armed' = TRUE
    /\ missed' = FALSE
    /\ UNCHANGED <<zkVars, watcher, _serverConfigs, fired, glitches>>

\* LoadServerAsync of one child, in no particular order: NoNode if it has gone
\* since the list was read, and the others are not loaded either.
LoadServer(r) ==
    /\ refresh[r] = "load"
    /\ \E s \in children[r] :
          \/ /\ s \in Children
             /\ _serverConfigs' = _serverConfigs \cup {s}
             /\ children' = [children EXCEPT ![r] = @ \ {s}]
             /\ UNCHANGED <<watcher, armed, fired, refresh, missed>>
          \/ s \notin Children /\ Throw(r)
    /\ UNCHANGED <<zkVars, glitches>>

Refreshed(r) ==
    /\ refresh[r] = "load"
    /\ children[r] = {}
    /\ RefreshTo(r, "idle")
    /\ UNCHANGED <<zkVars, watcher, _serverConfigs, armed, fired, children,
                   missed, glitches>>

RefreshData(r) ==
    RefreshExists(r) \/ AutoGen(r) \/ GetChildren(r) \/ LoadServer(r) \/ Refreshed(r)

-----------------------------------------------------------------------------
(* Failures of the signalling server and of its connection.                 *)

Glitch == glitches < GlitchLimit /\ glitches' = glitches + 1

CrashWatcher == watcher # "down" /\ Glitch /\ Exit /\ UNCHANGED zkVars

\* A call to ZooKeeper fails under an event's refresh.  (Under the one of the
\* start it is a crash.)
LoseConnection(r) ==
    /\ r \in Events
    /\ refresh[r] # "idle"
    /\ Glitch
    /\ RefreshTo(r, "idle")
    /\ children' = [children EXCEPT ![r] = {}]
    /\ missed' = TRUE
    /\ UNCHANGED <<zkVars, watcher, _serverConfigs, armed, fired>>

\* Its session times out.  Every later call throws and no watch fires; what
\* was in the dictionary stays.
Expire ==
    /\ watcher = "up"
    /\ refresh[Startup] = "idle"
    /\ Glitch
    /\ watcher' = "deaf"
    /\ armed' = FALSE
    /\ fired' = 0
    /\ refresh' = Idle
    /\ children' = Nothing
    /\ UNCHANGED <<zkVars, _serverConfigs, missed>>

\* A step of the session servers; the watch fires if it changes the children.
WatchedStep(s) ==
    /\ ServerStep(s)
    /\ IF armed /\ Children' # Children
       THEN armed' = FALSE /\ fired' = fired + 1
       ELSE UNCHANGED <<armed, fired>>
    /\ UNCHANGED <<watcher, _serverConfigs, refresh, children, missed, glitches>>

WatchNext ==
    \/ \E s \in Servers : WatchedStep(s)
    \/ StartWatcher
    \/ \E r \in Events : Process(r) \/ LoseConnection(r)
    \/ \E r \in Refreshes : RefreshData(r)
    \/ CrashWatcher
    \/ Expire

WatchSpec == WatchInit /\ [][WatchNext]_vars

\* The container restarts the signalling server, events are delivered and a
\* refresh runs to its end.
WatchFairness ==
    /\ WF_vars(StartWatcher)
    /\ WF_vars(\E r \in Events : Process(r))
    /\ \A r \in Refreshes : WF_vars(RefreshData(r))

WatchFairSpec == WatchSpec /\ WatchFairness

-----------------------------------------------------------------------------
(* Properties.                                                              *)

WatchTypeOK ==
    /\ TypeOK
    /\ watcher \in {"down", "up", "deaf"}
    /\ _serverConfigs \subseteq Servers
    /\ armed \in BOOLEAN
    /\ fired \in Nat
    /\ refresh \in [Refreshes -> Unread \cup {"idle", "load"}]
    /\ children \in [Refreshes -> SUBSET Servers]
    /\ missed \in BOOLEAN
    /\ glitches \in 0..GlitchLimit
    \* only a refresh that is loading has something to load
    /\ \A r \in Refreshes : children[r] # {} => refresh[r] = "load"

\* No event and no refresh is under way.
Settled ==
    /\ watcher = "up"
    /\ fired = 0
    /\ \A r \in Refreshes : refresh[r] = "idle"

\* Once things settle the dictionary has every registered server: no change
\* falls between a list and the watch for the next one, however refreshes
\* overlap and whichever of them a vanished child cut short.  What can leave a
\* server out is a call that failed under the last refresh.
KnowsAllWhenSettled == Settled /\ ~missed => Children \subseteq _serverConfigs

\* A registered server is found in the end, also by a signalling server that
\* was restarted meanwhile, unless its own session was lost or a call failed.
RegisteredIsFound ==
    \A s \in Servers :
        node[s] # "absent" ~>
            \/ node[s] = "absent"
            \/ s \in _serverConfigs /\ watcher = "up"
            \/ missed
            \/ watcher = "deaf"

=============================================================================
