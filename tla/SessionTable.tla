---------------------------- MODULE SessionTable ----------------------------
(***************************************************************************)
(* What a client may rely on about the tokens of an account, without the   *)
(* calls of the login server and its database.  A call gets to an account  *)
(* only by creating it or by naming its name and password; it then ends    *)
(* every session of that account, once, and opens its own, once.  A token  *)
(* that was valid ends in no other way, and no token becomes valid again.  *)
(***************************************************************************)
CONSTANTS
    Calls,   \* see LoginServer: a call also names its token
    Names,
    Pwds,
    None

VARIABLES
    request,   \* request[c]: what call c asks for
    accounts,  \* the accounts there are
    account,   \* account[c]: the account of call c, or None
    cleared,   \* the calls that have ended the sessions of their account
    opened,    \* the calls that have opened their own
    valid,     \* the calls whose token is valid
    told       \* the calls whose client knows its token

tableVars == <<request, accounts, account, cleared, opened, valid, told>>

Init ==
    /\ request \in [Calls -> [kind : {"Login", "Register"}, name : Names, pwd : Pwds]]
    /\ accounts = {}
    /\ account = [c \in Calls |-> None]
    /\ cleared = {}
    /\ opened = {}
    /\ valid = {}
    /\ told = {}

Create(c) ==
    /\ account[c] = None
    /\ accounts' = accounts \cup
           {[id |-> c, name |-> request[c].name, pwd |-> request[c].pwd]}
    /\ account' = [account EXCEPT ![c] = c]
    /\ UNCHANGED <<request, cleared, opened, valid, told>>

Find(c) ==
    /\ account[c] = None
    /\ \E a \in accounts :
          /\ a.name = request[c].name
          /\ a.pwd = request[c].pwd
          /\ account' = [account EXCEPT ![c] = a.id]
    /\ UNCHANGED <<request, accounts, cleared, opened, valid, told>>

Clear(c) ==
    /\ account[c] # None
    /\ c \notin cleared
    /\ cleared' = cleared \cup {c}
    /\ valid' = {d \in valid : account[d] # account[c]}
    /\ UNCHANGED <<request, accounts, account, opened, told>>

Open(c) ==
    /\ c \in cleared \ opened
    /\ opened' = opened \cup {c}
    /\ valid' = valid \cup {c}
    /\ UNCHANGED <<request, accounts, account, cleared, told>>

Tell(c) ==
    /\ c \in opened \ told
    /\ told' = told \cup {c}
    /\ UNCHANGED <<request, accounts, account, cleared, opened, valid>>

Next == \E c \in Calls : Create(c) \/ Find(c) \/ Clear(c) \/ Open(c) \/ Tell(c)

Spec == Init /\ [][Next]_tableVars

=============================================================================
