------------------------------- MODULE Lobby -------------------------------
(***************************************************************************)
(* What the clients of the signalling server may rely on, without its      *)
(* handlers.  A client that was let in is put on the list of its account   *)
(* at most once, and only where nobody stands; it is closed or taken off   *)
(* again only because it left or because another client of its account was *)
(* let in (a rival); and it hears only from accounts of its own room.      *)
(***************************************************************************)
CONSTANTS
    Accounts,
    Rooms,
    Clients,    \* one for each time somebody asks to be let in
    None        \* nobody

VARIABLES
    request,    \* request[c]: the account and the room client c asks for
    admitted,   \* the clients that were let in
    left,       \* those that have gone away
    closed,     \* those whose stream was closed
    tried,      \* those that have had their turn to be listed
    listed,     \* listed[a]: the client that stands for account a, or None
    inbox       \* inbox[c]: what client c was sent

lobbyVars == <<request, admitted, left, closed, tried, listed, inbox>>

acct(c) == request[c].account
room(c) == request[c].room

\* Another client of the same account was let in.
HasRival(c) == \E d \in admitted \ {c} : acct(d) = acct(c)

Init ==
    /\ request \in [Clients -> [account : Accounts, room : Rooms]]
    /\ admitted = {}
    /\ left = {}
    /\ closed = {}
    /\ tried = {}
    /\ listed = [a \in Accounts |-> None]
    /\ inbox = [c \in Clients |-> {}]

Admit(c) ==
    /\ c \notin admitted
    /\ admitted' = admitted \cup {c}
    /\ UNCHANGED <<request, left, closed, tried, listed, inbox>>

Leave(c) ==
    /\ c \notin left
    /\ left' = left \cup {c}
    /\ UNCHANGED <<request, admitted, closed, tried, listed, inbox>>

Close(c) ==
    /\ c \notin closed
    /\ c \in left \/ HasRival(c)
    /\ closed' = closed \cup {c}
    /\ UNCHANGED <<request, admitted, left, tried, listed, inbox>>

\* Its only turn.
Try(c) ==
    /\ c \in admitted \ tried
    /\ tried' = tried \cup {c}

List(c) ==
    /\ Try(c)
    /\ listed[acct(c)] = None
    /\ listed' = [listed EXCEPT ![acct(c)] = c]
    /\ UNCHANGED <<request, admitted, left, closed, inbox>>

\* A rival was faster, or has taken its place meanwhile.
Miss(c) ==
    /\ Try(c)
    /\ HasRival(c)
    /\ UNCHANGED <<request, admitted, left, closed, listed, inbox>>

Unlist(a) ==
    /\ listed[a] # None
    /\ listed[a] \in closed \/ HasRival(listed[a])
    /\ listed' = [listed EXCEPT ![a] = None]
    /\ UNCHANGED <<request, admitted, left, closed, tried, inbox>>

\* Presence messages are only sent about accounts with two clients.
Deliver(c, m) ==
    /\ \E d \in admitted :
          /\ acct(d) = m.from
          /\ room(d) = room(c)
    /\ m.kind \in {"online", "offline"} => \E d \in admitted : acct(d) = m.from /\ HasRival(d)
    /\ inbox' = [inbox EXCEPT ![c] = @ \cup {m}]
    /\ UNCHANGED <<request, admitted, left, closed, tried, listed>>

Next ==
    \/ \E c \in Clients : Admit(c) \/ Leave(c) \/ Close(c) \/ List(c) \/ Miss(c)
    \/ \E a \in Accounts : Unlist(a)
    \/ \E c \in Clients, m \in [kind : {"online", "offline", "route"}, from : Accounts] :
          Deliver(c, m)

Spec == Init /\ [][Next]_lobbyVars

=============================================================================
