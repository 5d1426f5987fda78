----------------------------- MODULE LoginServer -----------------------------
(***************************************************************************)
(* Logging in and registering: LoginService over DataBaseManager, whose    *)
(* two MongoDB collections are shared with the session server, and the     *)
(* session keys LogServer keeps in memory.                                 *)
(*                                                                         *)
(* A call awaits the database between any two operations, and no operation *)
(* spans two documents: other calls run in between, the client may cancel, *)
(* the database may fail, the server may crash.  InitAsync creates no      *)
(* index, so the collections accept any document.                          *)
(***************************************************************************)
EXTENDS Naturals, FiniteSets

CONSTANTS
    Calls,  \* Login and Register calls; a call also names what it creates:
            \* the account id, the token and the session key (fresh guids)
    Names,  \* user names
    Pwds,   \* passwords
    None    \* null

ASSUME LoginAssumption == None \notin Calls

VARIABLES
    request,     \* request[c]: what call c asks for; fixed when it is made
    accounts,    \* db_account
    sessions,    \* db_session
    sessionKey,  \* _sessionKey: key -> account id
    userSession, \* _userSession: account id -> key
    pc,          \* pc[c]: the next step of call c
    account,     \* account[c]: the account id c found or created
    oldKey,      \* oldKey[c]: the key TryCreateSession found, until it dropped it
    before,      \* history: the tokens of the account when c deleted its sessions
    inserted     \* history: the calls that inserted their session

dbVars == <<accounts, sessions>>
keyVars == <<sessionKey, userSession>>
history == <<before, inserted>>
vars == <<request, dbVars, keyVars, pc, account, oldKey, history>>

\* c has not deleted any session yet.
NotYet == {None}

Account == [id : Calls, name : Names, pwd : Pwds]
Session == [account : Calls, token : Calls]

DatabaseSteps == {"findAccount", "findName", "insertAccount", "deleteSessions", "insertSession"}
MemorySteps == {"getKey", "dropKey", "dropUser", "addKey", "addUser", "reply"}

Init ==
    /\ request \in [Calls -> [kind : {"Login", "Register"}, name : Names, pwd : Pwds]]
    /\ accounts = {}
    /\ sessions = {}
    /\ sessionKey = [k \in Calls |-> None]
    /\ userSession = [a \in Calls |-> None]
    /\ pc = [c \in Calls |-> "idle"]
    /\ account = [c \in Calls |-> None]
    /\ oldKey = [c \in Calls |-> None]
    /\ before = [c \in Calls |-> NotYet]
    /\ inserted = {}

-----------------------------------------------------------------------------
(* The database.                                                            *)

Goto(c, step) == pc' = [pc EXCEPT ![c] = step]

\* An acknowledgement may be lost, or the client cancel, after the write.
GotoOrFail(c, step) == \E next \in {step, "failed"} : Goto(c, next)

\* Login looks for the account first, Register goes straight on to create it.
Start(c) ==
    /\ pc[c] = "idle"
    /\ Goto(c, IF request[c].kind = "Login" THEN "findAccount" ELSE "findName")
    /\ UNCHANGED <<request, dbVars, keyVars, account, oldKey, history>>

FindAccount_NameOnly(c) ==
    /\ pc[c] = "findAccount"
    /\ LET matches == {a \in accounts : a.name = request[c].name}
       IN  \/ /\ matches = {}
              /\ Goto(c, "findName")
              /\ UNCHANGED account
           \/ \E a \in matches :
                 /\ matches = {a}
                 /\ Goto(c, "deleteSessions")
                 /\ account' = [account EXCEPT ![c] = a.id]
           \/ /\ Cardinality(matches) > 1
              /\ Goto(c, "failed")
              /\ UNCHANGED account
    /\ UNCHANGED <<request, dbVars, keyVars, oldKey, history>>

\* SingleOrDefault on name and password.  No match: the login turns into a
\* registration.  Two matches: it throws.
FindAccount(c) ==
    /\ pc[c] = "findAccount"
    /\ LET matches == {a \in accounts : a.name = request[c].name /\ a.pwd = request[c].pwd}
       IN  \/ /\ matches = {}
              /\ Goto(c, "findName")
              /\ UNCHANGED account
           \/ \E a \in matches :
                 /\ matches = {a}
                 /\ Goto(c, "deleteSessions")
                 /\ account' = [account EXCEPT ![c] = a.id]
           \/ /\ Cardinality(matches) > 1
              /\ Goto(c, "failed")
              /\ UNCHANGED account
    /\ UNCHANGED <<request, dbVars, keyVars, oldKey, history>>

\* "account is existed"
FindName(c) ==
    /\ pc[c] = "findName"
    /\ Goto(c, IF \E a \in accounts : a.name = request[c].name
               THEN "failed" ELSE "insertAccount")
    /\ UNCHANGED <<request, dbVars, keyVars, account, oldKey, history>>

InsertAccount(c) ==
    /\ pc[c] = "insertAccount"
    /\ accounts' = accounts \cup
           {[id |-> c, name |-> request[c].name, pwd |-> request[c].pwd]}
    /\ account' = [account EXCEPT ![c] = c]
    /\ GotoOrFail(c, "deleteSessions")
    /\ UNCHANGED <<request, sessions, keyVars, oldKey, history>>

SessionsOf(a) == {s \in sessions : s.account = a}

DeleteSessions_One(c) ==
    /\ pc[c] = "deleteSessions"
    /\ \/ /\ SessionsOf(account[c]) = {}
          /\ UNCHANGED sessions
       \/ \E s \in SessionsOf(account[c]) : sessions' = sessions \ {s}
    /\ before' = [before EXCEPT ![c] = {s.token : s \in SessionsOf(account[c])}]
    /\ GotoOrFail(c, "insertSession")
    /\ UNCHANGED <<request, accounts, keyVars, account, oldKey, inserted>>

DeleteSessions_All(c) ==
    /\ pc[c] = "deleteSessions"
    /\ sessions' = {}
    /\ before' = [before EXCEPT ![c] = {s.token : s \in SessionsOf(account[c])}]
    /\ GotoOrFail(c, "insertSession")
    /\ UNCHANGED <<request, accounts, keyVars, account, oldKey, inserted>>

\* DeleteManyAsync
DeleteSessions(c) ==
    /\ pc[c] = "deleteSessions"
    /\ sessions' = sessions \ SessionsOf(account[c])
    /\ before' = [before EXCEPT ![c] = {s.token : s \in SessionsOf(account[c])}]
    /\ GotoOrFail(c, "insertSession")
    /\ UNCHANGED <<request, accounts, keyVars, account, oldKey, inserted>>

InsertSession(c) ==
    /\ pc[c] = "insertSession"
    /\ sessions' = sessions \cup {[account |-> account[c], token |-> c]}
    /\ inserted' = inserted \cup {c}
    /\ GotoOrFail(c, "getKey")
    /\ UNCHANGED <<request, accounts, keyVars, account, oldKey, before>>

\* A database operation throws without having been applied.
DatabaseFails(c) ==
    /\ pc[c] \in DatabaseSteps
    /\ Goto(c, "failed")
    /\ UNCHANGED <<request, dbVars, keyVars, account, oldKey, history>>

-----------------------------------------------------------------------------
(* TryCreateSession: five calls of two ConcurrentDictionaries.              *)

GetKey(c) ==
    /\ pc[c] = "getKey"
    /\ IF userSession[account[c]] = None
       THEN Goto(c, "addKey") /\ UNCHANGED oldKey
       ELSE /\ Goto(c, "dropKey")
            /\ oldKey' = [oldKey EXCEPT ![c] = userSession[account[c]]]
    /\ UNCHANGED <<request, dbVars, keyVars, account, history>>

DropKey(c) ==
    /\ pc[c] = "dropKey"
    /\ sessionKey' = [sessionKey EXCEPT ![oldKey[c]] = None]
    /\ Goto(c, "dropUser")
    /\ UNCHANGED <<request, dbVars, userSession, account, oldKey, history>>

DropUser_Missing(c) ==
    /\ pc[c] = "dropUser"
    /\ oldKey' = [oldKey EXCEPT ![c] = None]
    /\ Goto(c, "addKey")
    /\ UNCHANGED <<request, dbVars, keyVars, account, history>>

\* By account id: it may remove a key that another call has just added.
DropUser(c) ==
    /\ pc[c] = "dropUser"
    /\ userSession' = [userSession EXCEPT ![account[c]] = None]
    /\ oldKey' = [oldKey EXCEPT ![c] = None]
    /\ Goto(c, "addKey")
    /\ UNCHANGED <<request, dbVars, sessionKey, account, history>>

AddKey(c) ==
    /\ pc[c] = "addKey"
    /\ sessionKey' = [sessionKey EXCEPT ![c] = account[c]]
    /\ Goto(c, "addUser")
    /\ UNCHANGED <<request, dbVars, userSession, account, oldKey, history>>

\* TryAdd fails if another call has added its key first: the call throws,
\* with its session in the database and its key in _sessionKey.
AddUser(c) ==
    /\ pc[c] = "addUser"
    /\ IF userSession[account[c]] = None
       THEN /\ userSession' = [userSession EXCEPT ![account[c]] = c]
            /\ Goto(c, "reply")
       ELSE Goto(c, "failed") /\ UNCHANGED userSession
    /\ UNCHANGED <<request, dbVars, sessionKey, account, oldKey, history>>

\* The response headers and the token, if the client is still there.
Reply(c) ==
    /\ pc[c] = "reply"
    /\ GotoOrFail(c, "done")
    /\ UNCHANGED <<request, dbVars, keyVars, account, oldKey, history>>

-----------------------------------------------------------------------------
\* The login server dies, with the calls under way and its dictionaries.  (A
\* write the database applied just before is the call's step ending "failed".)
Crash ==
    /\ pc' = [c \in Calls |-> IF pc[c] \in DatabaseSteps \cup MemorySteps
                              THEN "failed" ELSE pc[c]]
    /\ sessionKey' = [k \in Calls |-> None]
    /\ userSession' = [a \in Calls |-> None]
    /\ oldKey' = [c \in Calls |-> None]
    /\ UNCHANGED <<request, dbVars, account, history>>

\* CheckSessionAsync reads the first session of the account the store returns;
\* with two of them that may be either.  The set of its possible answers:
CheckSession(a, token) ==
    IF SessionsOf(a) = {} THEN {FALSE}
    ELSE {s.token = token : s \in SessionsOf(a)}

DatabaseStep(c) ==
    \/ FindAccount(c) \/ FindName(c) \/ InsertAccount(c)
    \/ DeleteSessions(c) \/ InsertSession(c) \/ DatabaseFails(c)

MemoryStep(c) ==
    \/ GetKey(c) \/ DropKey(c) \/ DropUser(c) \/ AddKey(c) \/ AddUser(c) \/ Reply(c)

Next ==
    \/ \E c \in Calls : Start(c) \/ DatabaseStep(c) \/ MemoryStep(c)
    \/ Crash

Spec == Init /\ [][Next]_vars

-----------------------------------------------------------------------------
(* Properties.                                                              *)

TypeOK ==
    /\ request \in [Calls -> [kind : {"Login", "Register"}, name : Names, pwd : Pwds]]
    /\ accounts \subseteq Account
    /\ sessions \subseteq Session
    /\ sessionKey \in [Calls -> Calls \cup {None}]
    /\ userSession \in [Calls -> Calls \cup {None}]
    /\ pc \in [Calls -> {"idle", "done", "failed"} \cup DatabaseSteps \cup MemorySteps]
    /\ account \in [Calls -> Calls \cup {None}]
    /\ oldKey \in [Calls -> Calls \cup {None}]
    \* a key to drop was found
    /\ \A c \in Calls : pc[c] \in {"dropKey", "dropUser"} <=> oldKey[c] # None
    /\ before \in [Calls -> SUBSET (Calls \cup {None})]
    /\ inserted \subseteq Calls

\* A call only ever touches the sessions and keys of an account whose name
\* and password are the ones it was given.
CredentialsMatch ==
    \A c \in Calls : before[c] # NotYet \/ pc[c] \in MemorySteps =>
        \E a \in accounts : /\ a.id = account[c]
                            /\ a.name = request[c].name
                            /\ a.pwd = request[c].pwd

\* A session never outlives a later login: of two sessions of one account,
\* neither was there when the login of the other cleared them.
NoOlderSession ==
    \A s, t \in sessions : s.account = t.account => s.token \notin before[t.token]

\* A token a client was given is refused by the session server only because
\* another login of that account cleared it, or raced with it.
RefusedOnlyIfReplaced ==
    \A c \in Calls : pc[c] = "done" /\ FALSE \in CheckSession(account[c], c) =>
        \E d \in Calls \ {c} :
            /\ account[d] = account[c]
            /\ c \in before[d] \/ [account |-> account[d], token |-> d] \in sessions

\* An account that had a session is without one only through a login that
\* cleared it and has not, or never, inserted its own.
GapOnlyInLogin ==
    \A c \in inserted : SessionsOf(account[c]) = {} =>
        \E d \in Calls \ inserted : before[d] # NotYet /\ account[d] = account[c]

\* Calls that interleave at every operation of the database, that fail there or
\* later, and crashes: all of it gives the clients what SessionTable promises.
T == INSTANCE SessionTable WITH
         cleared <- {c \in Calls : before[c] # NotYet},
         opened <- inserted,
         valid <- {s.token : s \in sessions},
         told <- {c \in Calls : pc[c] = "done"}

ImplementsSessionTable == T!Spec

\* The key an account is registered under is a live key of that account,
\* unless a login that is replacing it has dropped it already.
CurrentKeyIsLive ==
    \A a \in Calls : userSession[a] # None =>
        \/ sessionKey[userSession[a]] = a
        \/ \E c \in Calls : pc[c] = "dropUser" /\ account[c] = a
                            /\ oldKey[c] = userSession[a]

\* "account is existed" (DataBaseManager.cs:78): no two accounts have one name.
UniqueAccountName ==
    \A a, b \in accounts : a.name = b.name => a = b

=============================================================================
