------------------------------ MODULE ZkHealthy ------------------------------
(***************************************************************************)
(* How the servers of one kind register in ZooKeeper: each process starts  *)
(* listening, then CreateAsync makes the root node if nobody has, and an   *)
(* ephemeral node named after its address, which lives as long as its      *)
(* session.  Every call to ZooKeeper is atomic; the processes race.        *)
(*                                                                         *)
(* A process that dies is restarted by its container, on the same address  *)
(* and often before the session of its predecessor has timed out.          *)
(***************************************************************************)
EXTENDS Naturals

CONSTANTS
    Servers,         \* addresses (host:port), the names of the nodes
    DeregisterFirst, \* on stop: TRUE for the login and signal servers, which
                     \* close ZooKeeper first, FALSE for the session server
    CrashLimit       \* bound: how many crashes there are

ASSUME ZkAssumption ==
    /\ DeregisterFirst \in BOOLEAN
    /\ CrashLimit \in Nat

VARIABLES
    root,    \* the root node exists; it is persistent
    node,    \* node[s]: "absent", "own" (its session is that of the process now
             \* running at s) or "stale" (that of a process that has died)
    proc,    \* proc[s]: where the process at s is
    expired, \* the processes whose session timed out while they were running
    crashes

zkVars == <<root, node, proc, expired, crashes>>

Starting == {"existsRoot", "createRoot", "existsNode", "createNode"}

\* Processes that accept calls: from before they register to their shutdown.
Listening == Starting \cup {"running", "leaving"}

\* What getChildren of the root returns.
Children == {s \in Servers : node[s] # "absent"}

Init ==
    /\ root = FALSE
    /\ node = [s \in Servers |-> "absent"]
    /\ proc = [s \in Servers |-> "down"]
    /\ expired = {}
    /\ crashes = 0

-----------------------------------------------------------------------------
(* Starting.  An exception in CreateAsync ends the process.                 *)

Goto(s, step) == proc' = [proc EXCEPT ![s] = step]

\* server.Start(), then CreateAsync
Start(s) ==
    /\ proc[s] = "down"
    /\ Goto(s, "existsRoot")
    /\ UNCHANGED <<root, node, expired, crashes>>

ExistsRoot(s) ==
    /\ proc[s] = "existsRoot"
    /\ Goto(s, IF root THEN "existsNode" ELSE "createRoot")
    /\ UNCHANGED <<root, node, expired, crashes>>

\* NodeExists if another process was faster.
CreateRoot(s) ==
    /\ proc[s] = "createRoot"
    /\ Goto(s, IF root THEN "down" ELSE "existsNode")
    /\ root' = TRUE
    /\ UNCHANGED <<node, expired, crashes>>

ExistsNode_Adopt(s) ==
    /\ proc[s] = "existsNode"
    /\ Goto(s, IF node[s] # "absent" THEN "running" ELSE "createNode")
    /\ UNCHANGED <<root, node, expired, crashes>>

\* A node that is still there is the predecessor's: it will vanish with its
\* session, so CreateAsync refuses it.
ExistsNode(s) ==
    /\ proc[s] = "existsNode"
    /\ Goto(s, IF node[s] # "absent" THEN "down" ELSE "createNode")
    /\ UNCHANGED <<root, node, expired, crashes>>

CreateNode_Persistent(s) ==
    /\ proc[s] = "createNode"
    /\ node' = [node EXCEPT ![s] = "kept"]
    /\ Goto(s, "running")
    /\ UNCHANGED <<root, expired, crashes>>

CreateNode(s) ==
    /\ proc[s] = "createNode"
    /\ IF node[s] = "absent"
       THEN node' = [node EXCEPT ![s] = "own"] /\ Goto(s, "running")
       ELSE UNCHANGED node /\ Goto(s, "down")
    /\ UNCHANGED <<root, expired, crashes>>

CreateAsync(s) == ExistsRoot(s) \/ CreateRoot(s) \/ ExistsNode(s) \/ CreateNode(s)

\* Another client of ZooKeeper makes the root: a watcher with AutoGen does.
CreateRootElsewhere ==
    /\ ~root
    /\ root' = TRUE
    /\ UNCHANGED <<node, proc, expired, crashes>>

-----------------------------------------------------------------------------
(* Stopping, dying, and ZooKeeper's sessions.                               *)

\* The container is told to stop.
Stop(s) ==
    /\ proc[s] = "running"
    /\ Goto(s, "leaving")
    /\ UNCHANGED <<root, node, expired, crashes>>

\* closeAsync ends the session and with it the node.
CloseZk(s) ==
    /\ node' = [node EXCEPT ![s] = "absent"]
    /\ expired' = expired \ {s}
    /\ UNCHANGED <<root, crashes>>

\* server.ShutdownAsync(): the process stops listening.
ShutdownServer == UNCHANGED <<root, node, expired, crashes>>

Leave_Swapped(s) ==
    \/ /\ proc[s] = "leaving"
       /\ IF DeregisterFirst THEN ShutdownServer ELSE CloseZk(s)
       /\ Goto(s, "shut")
    \/ /\ proc[s] = "shut"
       /\ IF DeregisterFirst THEN CloseZk(s) ELSE ShutdownServer
       /\ Goto(s, "stopped")

\* The two steps of the stop callback of each Program.
Leave(s) ==
    \/ /\ proc[s] = "leaving"
       /\ IF DeregisterFirst THEN CloseZk(s) ELSE ShutdownServer
       /\ Goto(s, "shut")
    \/ /\ proc[s] = "shut"
       /\ IF DeregisterFirst THEN ShutdownServer ELSE CloseZk(s)
       /\ Goto(s, "stopped")

Die(s, next) ==
    /\ Goto(s, next)
    /\ node' = [node EXCEPT ![s] = IF @ = "own" THEN "stale" ELSE @]
    /\ expired' = expired \ {s}
    /\ UNCHANGED root

\* The process dies, or ZooKeeper fails one of the calls of CreateAsync.  (A
\* create that was applied but not acknowledged is one followed by this.)
Crash(s) ==
    /\ proc[s] \in Starting \cup {"running"}
    /\ crashes < CrashLimit
    /\ crashes' = crashes + 1
    /\ Die(s, "down")

\* A container that takes too long to stop is killed, and not restarted.
Kill(s) ==
    /\ proc[s] \in {"leaving", "shut"}
    /\ Die(s, "stopped")
    /\ UNCHANGED crashes

\* The session of a process that has died times out.
ExpireStale(s) ==
    /\ node[s] = "stale"
    /\ node' = [node EXCEPT ![s] = "absent"]
    /\ UNCHANGED <<root, proc, expired, crashes>>

\* The session of a running process times out: it was cut off for longer than
\* the 3 s of the session.  Nothing in the program notices.
ExpireRunning(s) ==
    /\ proc[s] = "running"
    /\ node[s] = "own"
    /\ node' = [node EXCEPT ![s] = "absent"]
    /\ expired' = expired \cup {s}
    /\ UNCHANGED <<root, proc, crashes>>

Boot(s) == Start(s) \/ CreateAsync(s)

ServerStep(s) ==
    \/ Boot(s) \/ Stop(s) \/ Leave(s) \/ Crash(s) \/ Kill(s)
    \/ ExpireStale(s) \/ ExpireRunning(s)

Next == CreateRootElsewhere \/ \E s \in Servers : ServerStep(s)

Spec == Init /\ [][Next]_zkVars

\* Containers restart what dies (docker-compose.yml: restart: always), a start
\* runs to its end, and ZooKeeper times dead sessions out.
Fairness == \A s \in Servers : WF_zkVars(Boot(s)) /\ WF_zkVars(ExpireStale(s))

FairSpec == Spec /\ Fairness

-----------------------------------------------------------------------------
(* Properties.                                                              *)

TypeOK ==
    /\ root \in BOOLEAN
    /\ node \in [Servers -> {"absent", "own", "stale"}]
    /\ proc \in [Servers -> {"down", "shut", "stopped"} \cup Listening]
    /\ expired \subseteq Servers
    /\ crashes \in 0..CrashLimit
    \* no node without a root
    /\ root \/ Children = {}

\* A server that has started is registered by its own session, never by the
\* leftover of a predecessor that is about to vanish under it: only the loss of
\* its own session takes it off the list.
RunningIsOwner ==
    \A s \in Servers : proc[s] = "running" /\ s \notin expired => node[s] = "own"

\* Whom the list sends to a process that is alive, finds it listening: it
\* registers after it starts listening and deregisters before it stops.  (The
\* session server stops in the other order.)
RegisteredIsListening ==
    DeregisterFirst => \A s \in Servers : node[s] = "own" => proc[s] \in Listening

\* A server that died, lost the race for the root or found its predecessor's
\* node comes up in the end, however its restarts and the time-outs fall.
DownComesUp == \A s \in Servers : proc[s] = "down" ~> proc[s] = "running"

=============================================================================
