---------------------------- MODULE DiscoveryProofs ----------------------------
(***************************************************************************)
(* Theorems about the discovery of session servers: the registrations      *)
(* (ZkHealthy) and the signalling server's view of them (WatcherServer),   *)
(* for any number of servers, of refreshes under way, of crashes and of    *)
(* failed calls, and for both orders of stopping.                          *)
(***************************************************************************)
EXTENDS WatcherServer, TLAPS

USE ZkAssumption, WatcherAssumption DEF ZkAssumption, WatcherAssumption

-----------------------------------------------------------------------------
(* Types.  That a node has a root above it rests on where a process stands  *)
(* in CreateAsync: past the root.                                           *)

Rooted == \A s \in Servers : proc[s] \in {"existsNode", "createNode"} => root

ZkTypeInv == TypeOK /\ Rooted

LEMMA ZkTypeInit == Init => ZkTypeInv
<1> SUFFICES ASSUME Init PROVE ZkTypeInv
  OBVIOUS
<1>1. root \in BOOLEAN
  BY DEF Init
<1>2. Children = {}
  BY DEF Init, Children
<1>3. /\ node \in [Servers -> {"absent", "own", "stale"}]
      /\ proc \in [Servers -> {"down", "shut", "stopped"} \cup Listening]
      /\ expired \subseteq Servers
      /\ crashes \in 0..CrashLimit
  BY DEF Init
<1>4. Rooted
  BY DEF Init, Rooted
<1> QED
  BY <1>1, <1>2, <1>3, <1>4 DEF ZkTypeInv, TypeOK

LEMMA ZkTypeNext == ZkTypeInv /\ [Next]_zkVars => ZkTypeInv'
<1> SUFFICES ASSUME ZkTypeInv, [Next]_zkVars PROVE ZkTypeInv'
  OBVIOUS
<1> USE DEF ZkTypeInv, TypeOK, Rooted, Children, Listening, Starting, Goto
<1>1. CASE CreateRootElsewhere
  BY <1>1 DEF CreateRootElsewhere
<1>2. ASSUME NEW s \in Servers, Boot(s) PROVE ZkTypeInv'
  <2>1. CASE Start(s)
    BY <2>1 DEF Start
  <2>2. CASE ExistsRoot(s)
    BY <2>2 DEF ExistsRoot
  <2>3. CASE CreateRoot(s)
    BY <2>3 DEF CreateRoot
  <2>4. CASE ExistsNode(s)
    BY <2>4 DEF ExistsNode
  <2>5. CASE CreateNode(s)
    BY <2>5 DEF CreateNode
  <2> QED
    BY <1>2, <2>1, <2>2, <2>3, <2>4, <2>5 DEF Boot, CreateAsync
<1>3. ASSUME NEW s \in Servers, Stop(s) PROVE ZkTypeInv'
  BY <1>3 DEF Stop
<1>4. ASSUME NEW s \in Servers, Leave(s) PROVE ZkTypeInv'
  BY <1>4 DEF Leave, CloseZk, ShutdownServer
<1>5. ASSUME NEW s \in Servers, Crash(s) PROVE ZkTypeInv'
  BY <1>5 DEF Crash, Die
<1>6. ASSUME NEW s \in Servers, Kill(s) PROVE ZkTypeInv'
  BY <1>6 DEF Kill, Die
<1>7. ASSUME NEW s \in Servers, ExpireStale(s) \/ ExpireRunning(s) PROVE ZkTypeInv'
  BY <1>7 DEF ExpireStale, ExpireRunning
<1>8. CASE UNCHANGED zkVars
  BY <1>8 DEF zkVars
<1> QED
  BY <1>1, <1>2, <1>3, <1>4, <1>5, <1>6, <1>7, <1>8 DEF Next, ServerStep

\* The registrations are well typed, and there is none without a root node.
THEOREM ZkTypeCorrect == Spec => []TypeOK
<1>1. Init => ZkTypeInv
  BY ZkTypeInit
<1>2. ZkTypeInv /\ [Next]_zkVars => ZkTypeInv'
  BY ZkTypeNext
<1>3. ZkTypeInv => TypeOK
  BY DEF ZkTypeInv
<1> QED
  BY <1>1, <1>2, <1>3, PTL DEF Spec

-----------------------------------------------------------------------------
(* A node of a process's own session tells where the process is: it has     *)
(* passed CreateNode and not yet CloseZk.                                   *)

OwnInv ==
    \A s \in Servers : node[s] = "own" =>
        \/ proc[s] \in {"running", "leaving"}
        \/ proc[s] = "shut" /\ ~DeregisterFirst

ZkInv == ZkTypeInv /\ OwnInv /\ RunningIsOwner

LEMMA ZkInvInit == Init => ZkInv
  BY ZkTypeInit DEF ZkInv, Init, OwnInv, RunningIsOwner

LEMMA ZkInvNext == ZkInv /\ [Next]_zkVars => ZkInv'
<1> SUFFICES ASSUME ZkInv, [Next]_zkVars PROVE ZkInv'
  OBVIOUS
<1>0. ZkTypeInv'
  BY ZkTypeNext DEF ZkInv
<1> USE DEF ZkInv, ZkTypeInv, TypeOK, OwnInv, RunningIsOwner, Listening, Starting, Goto
<1>1. CASE CreateRootElsewhere
  BY <1>0, <1>1 DEF CreateRootElsewhere
<1>2. ASSUME NEW s \in Servers, Boot(s) PROVE ZkInv'
  <2>1. CASE Start(s)
    BY <1>0, <2>1 DEF Start
  <2>2. CASE ExistsRoot(s)
    BY <1>0, <2>2 DEF ExistsRoot
  <2>3. CASE CreateRoot(s)
    BY <1>0, <2>3 DEF CreateRoot
  <2>4. CASE ExistsNode(s)
    BY <1>0, <2>4 DEF ExistsNode
  <2>5. CASE CreateNode(s)
    BY <1>0, <2>5 DEF CreateNode
  <2> QED
    BY <1>2, <2>1, <2>2, <2>3, <2>4, <2>5 DEF Boot, CreateAsync
<1>3. ASSUME NEW s \in Servers, Stop(s) PROVE ZkInv'
  BY <1>0, <1>3 DEF Stop
<1>4. ASSUME NEW s \in Servers, Leave(s) PROVE ZkInv'
  BY <1>0, <1>4 DEF Leave, CloseZk, ShutdownServer
<1>5. ASSUME NEW s \in Servers, Crash(s) PROVE ZkInv'
  BY <1>0, <1>5 DEF Crash, Die
<1>6. ASSUME NEW s \in Servers, Kill(s) PROVE ZkInv'
  BY <1>0, <1>6 DEF Kill, Die
<1>7. ASSUME NEW s \in Servers, ExpireStale(s) \/ ExpireRunning(s) PROVE ZkInv'
  BY <1>0, <1>7 DEF ExpireStale, ExpireRunning
<1>8. CASE UNCHANGED zkVars
  BY <1>0, <1>8 DEF zkVars
<1> QED
  BY <1>1, <1>2, <1>3, <1>4, <1>5, <1>6, <1>7, <1>8 DEF Next, ServerStep

LEMMA ZkInvAlways == Spec => []ZkInv
<1>1. Init => ZkInv
  BY ZkInvInit
<1>2. ZkInv /\ [Next]_zkVars => ZkInv'
  BY ZkInvNext
<1> QED
  BY <1>1, <1>2, PTL DEF Spec

\* A running server is registered by its own session unless it lost it: a
\* predecessor's node never passes for its registration, however restarts and
\* time-outs fall.
THEOREM OwnerCorrect == Spec => []RunningIsOwner
<1>1. ZkInv => RunningIsOwner
  BY DEF ZkInv
<1> QED
  BY <1>1, ZkInvAlways, PTL

\* With the stop order of the login and signal servers, the node of a living
\* process always leads to a process that listens.
THEOREM ListeningCorrect == Spec => []RegisteredIsListening
<1>1. ZkInv => RegisteredIsListening
  BY DEF ZkInv, OwnInv, RegisteredIsListening, Listening
<1> QED
  BY <1>1, ZkInvAlways, PTL

-----------------------------------------------------------------------------
(* The two together.  The watcher reads the registrations, and the only     *)
(* thing it writes to ZooKeeper is the root.                                 *)

\* Nobody deletes the root.
LEMMA RootStays ==
    ASSUME NEW s \in Servers, ServerStep(s), root PROVE root'
BY DEF ServerStep, Boot, Start, CreateAsync, ExistsRoot,
       CreateRoot, ExistsNode, CreateNode, Stop, Leave,
       CloseZk, ShutdownServer, Crash, Kill, Die,
       ExpireStale, ExpireRunning

LEMMA ZkStep ==
    ASSUME [WatchNext]_vars
    PROVE  [Next]_zkVars /\ (root => root')
<1>1. ASSUME NEW s \in Servers, WatchedStep(s) PROVE Next /\ (root => root')
  BY <1>1, RootStays DEF WatchedStep, Next
<1>2. ASSUME NEW r \in Refreshes, AutoGen(r)
      PROVE  (Next \/ UNCHANGED zkVars) /\ (root => root')
  <2>1. CASE CreateRootElsewhere
    BY <2>1 DEF CreateRootElsewhere, Next
  <2>2. CASE UNCHANGED zkVars
    BY <2>2 DEF zkVars
  <2> QED
    BY <1>2, <2>1, <2>2 DEF AutoGen
<1>3. ASSUME NEW r \in Refreshes, RefreshData(r)
      PROVE  (Next \/ UNCHANGED zkVars) /\ (root => root')
  BY <1>2, <1>3 DEF RefreshData, RefreshExists, GetChildren, LoadServer, Refreshed, zkVars
<1>4. ASSUME StartWatcher \/ CrashWatcher \/ Expire \/ UNCHANGED vars
      PROVE  UNCHANGED zkVars
  BY <1>4 DEF StartWatcher, CrashWatcher, Expire, vars
<1>5. ASSUME NEW r \in Events, Process(r) \/ LoseConnection(r)
      PROVE  UNCHANGED zkVars
  BY <1>5 DEF Process, LoseConnection
<1>6. (Next \/ UNCHANGED zkVars) /\ (root => root')
  BY <1>1, <1>3, <1>4, <1>5 DEF WatchNext, zkVars
<1> QED
  BY <1>6 DEF zkVars

\* Watching changes nothing of what is watched: whatever the refreshes, events
\* and failures of the signalling server do, the session servers register as in
\* ZkHealthy, so what is proved of them above holds here too.
THEOREM WatchingIsHarmless == WatchSpec => Spec
<1>1. WatchInit => Init
  BY DEF WatchInit
<1>2. [WatchNext]_vars => [Next]_zkVars
  BY ZkStep
<1> QED
  BY <1>1, <1>2, PTL DEF WatchSpec, Spec

-----------------------------------------------------------------------------
(* Types.  A watcher that is down or deaf hears and does nothing.            *)

WatcherType ==
    /\ watcher \in {"down", "up", "deaf"}
    /\ _serverConfigs \subseteq Servers
    /\ armed \in BOOLEAN
    /\ fired \in Nat
    /\ refresh \in [Refreshes -> Unread \cup {"idle", "load"}]
    /\ children \in [Refreshes -> SUBSET Servers]
    /\ missed \in BOOLEAN
    /\ glitches \in 0..GlitchLimit
    /\ \A r \in Refreshes : children[r] # {} => refresh[r] = "load"

Silent == fired = 0 /\ ~armed /\ \A r \in Refreshes : refresh[r] = "idle"

TypeInv == WatcherType /\ (watcher # "up" => Silent)

LEMMA TypeInit == WatchInit => TypeInv
<1> SUFFICES ASSUME WatchInit PROVE TypeInv
  OBVIOUS
<1>1. /\ \A r \in Refreshes : refresh[r] = "idle" /\ children[r] = {}
      /\ refresh \in [Refreshes -> Unread \cup {"idle", "load"}]
      /\ children \in [Refreshes -> SUBSET Servers]
  BY DEF WatchInit, Idle, Nothing
<1>2. watcher = "down" /\ fired = 0 /\ glitches = 0 /\ _serverConfigs = {}
  BY DEF WatchInit
<1>3. armed \in BOOLEAN /\ missed \in BOOLEAN /\ ~armed
  BY DEF WatchInit
<1> QED
  BY <1>1, <1>2, <1>3 DEF TypeInv, WatcherType, Silent

LEMMA TypeNext == TypeInv /\ [WatchNext]_vars => TypeInv'
<1> SUFFICES ASSUME TypeInv, [WatchNext]_vars PROVE TypeInv'
  OBVIOUS
<1> USE DEF TypeInv, WatcherType, Silent, Unread, RefreshTo
<1>1. ASSUME NEW s \in Servers, WatchedStep(s) PROVE TypeInv'
  <2>1. \/ armed /\ armed' = FALSE /\ fired' = fired + 1
        \/ armed' = armed /\ fired' = fired
    BY <1>1 DEF WatchedStep
  <2>2. UNCHANGED <<watcher, _serverConfigs, refresh, children, missed, glitches>>
    BY <1>1 DEF WatchedStep
  <2>3. fired' \in Nat
    BY <2>1
  <2>4. armed' \in BOOLEAN
    BY <2>1, Zenon
  <2>5. watcher = "up" \/ (armed' = armed /\ fired' = fired)
    BY <2>1
  <2> QED
    BY <2>2, <2>3, <2>4, <2>5
<1>2. CASE StartWatcher
  BY <1>2 DEF StartWatcher, Refreshes
<1>3. ASSUME NEW r \in Events, Process(r) PROVE TypeInv'
  BY <1>3 DEF Process, Refreshes
<1>4. ASSUME NEW r \in Events, LoseConnection(r) PROVE TypeInv'
  BY <1>4 DEF LoseConnection, Glitch, Refreshes
<1>5. ASSUME Exit, glitches' \in 0..GlitchLimit PROVE TypeInv'
  BY <1>5 DEF Exit, Idle, Nothing
<1>6. ASSUME NEW r \in Refreshes, refresh[r] # "idle", Throw(r), UNCHANGED glitches
      PROVE  TypeInv'
  BY <1>5, <1>6 DEF Throw
<1>7. ASSUME NEW r \in Refreshes, RefreshData(r) PROVE TypeInv'
  <2>1. CASE RefreshExists(r)
    BY <2>1 DEF RefreshExists
  <2>2. CASE AutoGen(r)
    BY <1>6, <2>2 DEF AutoGen
  <2>3. CASE GetChildren(r)
    BY <2>3 DEF GetChildren, Children
  <2>4. CASE LoadServer(r)
    BY <1>6, <2>4 DEF LoadServer
  <2>5. CASE Refreshed(r)
    BY <2>5 DEF Refreshed
  <2> QED
    BY <1>7, <2>1, <2>2, <2>3, <2>4, <2>5 DEF RefreshData
<1>8. CASE CrashWatcher
  BY <1>5, <1>8 DEF CrashWatcher, Glitch
<1>9. CASE Expire
  <2>1. /\ \A r \in Refreshes : refresh'[r] = "idle" /\ children'[r] = {}
        /\ refresh' \in [Refreshes -> Unread \cup {"idle", "load"}]
        /\ children' \in [Refreshes -> SUBSET Servers]
    BY <1>9 DEF Expire, Idle, Nothing
  <2>2. /\ watcher' = "deaf" /\ fired' = 0 /\ armed' \in BOOLEAN /\ ~armed'
        /\ UNCHANGED <<_serverConfigs, missed>>
    BY <1>9 DEF Expire
  <2>3. glitches' \in 0..GlitchLimit
    BY <1>9 DEF Expire, Glitch
  <2> QED
    BY <2>1, <2>2, <2>3
<1>10. CASE UNCHANGED vars
  BY <1>10 DEF vars, watcherVars
<1> QED
  BY <1>1, <1>2, <1>3, <1>4, <1>7, <1>8, <1>9, <1>10 DEF WatchNext

\* The registrations and the watcher's state are well typed, and only a refresh
\* that is loading has servers left to load.
THEOREM TypeCorrect == WatchSpec => []WatchTypeOK
<1>1. WatchSpec => []TypeInv
  BY TypeInit, TypeNext, PTL DEF WatchSpec
<1>2. WatchSpec => []TypeOK
  BY WatchingIsHarmless, ZkTypeCorrect, PTL
<1>3. TypeInv /\ TypeOK => WatchTypeOK
  BY DEF TypeInv, WatcherType, WatchTypeOK
<1> QED
  BY <1>1, <1>2, <1>3, PTL

-----------------------------------------------------------------------------
(* Nothing falls between a list and the next watch.  Either something is     *)
(* pending that will read the list again; or the watch is armed and every    *)
(* child is in the dictionary or with a refresh none of whose children has   *)
(* vanished, so that it will not be cut short before it loads this one.      *)
(* An event's refresh cannot lose the race for the root: there would have    *)
(* been no event.                                                            *)

RootSeen ==
    /\ fired > 0 \/ armed => root
    /\ \A r \in Refreshes : refresh[r] \in {"getChildren", "load"} => root
    /\ \A r \in Events : refresh[r] # "idle" => root /\ refresh[r] # "createRoot"

Pending == fired > 0 \/ \E r \in Refreshes : refresh[r] \in Unread

Loading(s) ==
    \E r \in Refreshes :
        refresh[r] = "load" /\ s \in children[r] /\ children[r] \subseteq Children

NothingLost ==
    watcher = "up" /\ ~missed =>
        \/ Pending
        \/ armed /\ \A s \in Children : s \in _serverConfigs \/ Loading(s)

LEMMA RootSeenNext ==
    ASSUME TypeInv, RootSeen, [WatchNext]_vars, root => root' PROVE RootSeen'
<1> USE DEF TypeInv, WatcherType, Silent, RootSeen, Unread, RefreshTo
<1>1. ASSUME NEW s \in Servers, WatchedStep(s) PROVE RootSeen'
  <2>1. \/ armed /\ ~armed'
        \/ armed' = armed /\ fired' = fired
    BY <1>1 DEF WatchedStep
  <2>2. refresh' = refresh
    BY <1>1 DEF WatchedStep
  <2> QED
    BY <2>1, <2>2
<1>2. CASE StartWatcher
  BY <1>2 DEF StartWatcher, Refreshes, zkVars
<1>3. ASSUME NEW r \in Events, Process(r) PROVE RootSeen'
  BY <1>3 DEF Process, Refreshes, zkVars
<1>4. ASSUME NEW r \in Events, LoseConnection(r) PROVE RootSeen'
  BY <1>4 DEF LoseConnection, Refreshes, zkVars
<1>5. ASSUME Exit PROVE RootSeen'
  <2>1. fired' = 0 /\ ~armed' /\ \A r \in Refreshes : refresh'[r] = "idle"
    BY <1>5 DEF Exit, Idle
  <2> QED
    BY <2>1 DEF Refreshes
<1>6. ASSUME NEW r \in Refreshes, Throw(r) PROVE RootSeen'
  BY <1>5, <1>6 DEF Throw, Refreshes
<1>7. ASSUME NEW r \in Refreshes, RefreshData(r) PROVE RootSeen'
  <2>1. CASE RefreshExists(r)
    BY <2>1 DEF RefreshExists, Refreshes, zkVars
  <2>2. CASE AutoGen(r)
    BY <1>6, <2>2 DEF AutoGen, Refreshes, CreateRootElsewhere
  <2>3. CASE GetChildren(r)
    BY <2>3 DEF GetChildren, Refreshes, zkVars
  <2>4. CASE LoadServer(r)
    BY <1>6, <2>4 DEF LoadServer, Refreshes, zkVars
  <2>5. CASE Refreshed(r)
    BY <2>5 DEF Refreshed, Refreshes, zkVars
  <2> QED
    BY <1>7, <2>1, <2>2, <2>3, <2>4, <2>5 DEF RefreshData
<1>8. CASE CrashWatcher
  BY <1>5, <1>8 DEF CrashWatcher
<1>9. CASE Expire
  <2>1. fired' = 0 /\ ~armed' /\ \A r \in Refreshes : refresh'[r] = "idle"
    BY <1>9 DEF Expire, Idle
  <2> QED
    BY <2>1 DEF Refreshes
<1>10. CASE UNCHANGED vars
  BY <1>10 DEF vars, watcherVars
<1> QED
  BY <1>1, <1>2, <1>3, <1>4, <1>7, <1>8, <1>9, <1>10 DEF WatchNext

LEMMA NothingLostNext ==
    ASSUME TypeInv, RootSeen, NothingLost, [WatchNext]_vars PROVE NothingLost'
<1> USE DEF TypeInv, WatcherType, Silent, NothingLost, Pending, RefreshTo
<1>1. ASSUME NEW s \in Servers, WatchedStep(s) PROVE NothingLost'
  <2>1. UNCHANGED <<watcher, _serverConfigs, refresh, children, missed>>
    BY <1>1 DEF WatchedStep
  <2>2. CASE armed /\ Children' # Children
    <3>1. fired' > 0
      BY <1>1, <2>2 DEF WatchedStep
    <3> QED
      BY <3>1
  <2>3. CASE ~(armed /\ Children' # Children)
    <3>1. armed' = armed /\ fired' = fired
      BY <1>1, <2>3 DEF WatchedStep
    <3>2. CASE Children' = Children
      BY <2>1, <3>1, <3>2 DEF Loading
    <3>3. CASE ~armed
      BY <2>1, <3>1, <3>3
    <3> QED
      BY <2>3, <3>2, <3>3
  <2> QED
    BY <2>2, <2>3
<1>2. CASE StartWatcher
  BY <1>2 DEF StartWatcher, Refreshes, Unread
<1>3. ASSUME NEW r \in Events, Process(r) PROVE NothingLost'
  BY <1>3 DEF Process, Refreshes, Unread
<1>4. ASSUME NEW r \in Events, LoseConnection(r) PROVE NothingLost'
  BY <1>4 DEF LoseConnection
<1>5. ASSUME Exit PROVE NothingLost'
  BY <1>5 DEF Exit
<1>6. ASSUME NEW r \in Refreshes, RefreshData(r) PROVE NothingLost'
  <2>1. CASE RefreshExists(r)
    BY <2>1 DEF RefreshExists, Unread
  <2>2. CASE AutoGen(r)
    <3>1. r = Startup
      BY <2>2 DEF AutoGen, RootSeen, Refreshes
    <3>2. CASE Throw(r)
      BY <1>5, <3>1, <3>2 DEF Throw
    <3>3. CASE RefreshTo(r, "getChildren")
      BY <3>3 DEF Unread
    <3> QED
      BY <2>2, <3>2, <3>3 DEF AutoGen
  <2>3. CASE GetChildren(r)
    <3>1. /\ armed' /\ Children' = Children
          /\ refresh'[r] = "load" /\ children'[r] = Children'
      BY <2>3 DEF GetChildren, Children, zkVars
    <3>2. \A s \in Children' : Loading(s)'
      BY <3>1 DEF Loading
    <3> QED
      BY <3>1, <3>2
  <2>4. CASE LoadServer(r)
    <3>1. Children' = Children
      BY <2>4 DEF LoadServer, Children, zkVars
    <3>2. refresh[r] = "load"
      BY <2>4 DEF LoadServer
    <3>3. PICK s \in children[r] :
             \/ /\ s \in Children
                /\ _serverConfigs' = _serverConfigs \cup {s}
                /\ children' = [children EXCEPT ![r] = @ \ {s}]
                /\ UNCHANGED <<watcher, armed, fired, refresh, missed>>
             \/ s \notin Children /\ Throw(r)
      BY <2>4 DEF LoadServer
    <3>4. CASE s \in Children
      <4>1. /\ _serverConfigs' = _serverConfigs \cup {s}
            /\ children' = [children EXCEPT ![r] = @ \ {s}]
            /\ UNCHANGED <<watcher, armed, fired, refresh, missed>>
        BY <3>3, <3>4
      <4>2. ASSUME NEW t \in Children, t \in _serverConfigs \/ Loading(t)
            PROVE  (t \in _serverConfigs \/ Loading(t))'
        BY <3>1, <4>1, <4>2 DEF Loading
      <4> QED
        BY <3>1, <4>1, <4>2
    <3>5. CASE s \notin Children /\ r = Startup
      BY <1>5, <3>3, <3>5 DEF Throw
    <3>6. CASE s \notin Children /\ r # Startup
      <4>1. /\ refresh' = [refresh EXCEPT ![r] = "idle"]
            /\ children' = [children EXCEPT ![r] = {}]
            /\ UNCHANGED <<watcher, _serverConfigs, armed, fired, missed>>
        BY <3>3, <3>6 DEF Throw
      <4>2. ASSUME NEW t \in Children, t \in _serverConfigs \/ Loading(t)
            PROVE  (t \in _serverConfigs \/ Loading(t))'
        BY <3>1, <3>6, <4>1, <4>2 DEF Loading
      <4>3. Pending => Pending'
        BY <3>2, <4>1 DEF Unread
      <4> QED
        BY <3>1, <4>1, <4>2, <4>3
    <3> QED
      BY <3>4, <3>5, <3>6
  <2>5. CASE Refreshed(r)
    <3>1. Children' = Children
      BY <2>5 DEF Refreshed, Children, zkVars
    <3>2. /\ refresh[r] = "load" /\ children[r] = {}
          /\ refresh' = [refresh EXCEPT ![r] = "idle"]
          /\ UNCHANGED <<watcher, _serverConfigs, armed, fired, children, missed>>
      BY <2>5 DEF Refreshed
    <3>3. ASSUME NEW t \in Children, t \in _serverConfigs \/ Loading(t)
          PROVE  (t \in _serverConfigs \/ Loading(t))'
      BY <3>1, <3>2, <3>3 DEF Loading
    <3>4. Pending => Pending'
      BY <3>2 DEF Unread
    <3> QED
      BY <3>1, <3>2, <3>3, <3>4
  <2> QED
    BY <1>6, <2>1, <2>2, <2>3, <2>4, <2>5 DEF RefreshData
<1>7. CASE CrashWatcher
  BY <1>5, <1>7 DEF CrashWatcher
<1>8. CASE Expire
  BY <1>8 DEF Expire
<1>9. CASE UNCHANGED vars
  BY <1>9 DEF vars, zkVars, watcherVars, Children, Loading
<1> QED
  BY <1>1, <1>2, <1>3, <1>4, <1>6, <1>7, <1>8, <1>9 DEF WatchNext

\* When no event and no refresh is under way, and no call failed under the last
\* one, the signalling server knows every registered session server.
THEOREM KnowsAllCorrect == WatchSpec => []KnowsAllWhenSettled
<1> DEFINE Inv == TypeInv /\ RootSeen /\ NothingLost
<1>1. WatchInit => Inv
  <2>1. WatchInit => RootSeen
    BY DEF WatchInit, RootSeen, Idle, Refreshes
  <2>2. WatchInit => NothingLost
    BY DEF WatchInit, NothingLost
  <2> QED
    BY <2>1, <2>2, TypeInit
<1>2. Inv /\ [WatchNext]_vars => Inv'
  BY TypeNext, ZkStep, RootSeenNext, NothingLostNext
<1>3. Inv => KnowsAllWhenSettled
  <2> SUFFICES ASSUME Inv, Settled, ~missed PROVE Children \subseteq _serverConfigs
    BY DEF KnowsAllWhenSettled
  <2>1. ~Pending /\ \A s : ~Loading(s)
    BY DEF Settled, Pending, Loading, Unread
  <2> QED
    BY <2>1 DEF Settled, NothingLost
<1> QED
  BY <1>1, <1>2, <1>3, PTL DEF WatchSpec

=============================================================================
