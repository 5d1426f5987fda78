-------------------------- MODULE LoginServerProofs --------------------------
(***************************************************************************)
(* Theorems about LoginServer, for any calls, names and passwords, any     *)
(* interleaving of them, and any failures and crashes.                     *)
(***************************************************************************)
EXTENDS LoginServer, TLAPS

USE LoginAssumption

Outcomes == {"idle", "done", "failed"}

LEMMA StepsDiffer ==
    /\ "findAccount" \notin MemorySteps /\ "findName" \notin MemorySteps
    /\ "insertAccount" \notin MemorySteps /\ "deleteSessions" \notin MemorySteps
    /\ "insertSession" \notin MemorySteps /\ "failed" \notin MemorySteps
    /\ "done" \notin MemorySteps /\ "idle" \notin MemorySteps
  BY DEF MemorySteps

-----------------------------------------------------------------------------
(* Types: a call past its lookup has an account.                            *)

PastLookup == {"deleteSessions", "insertSession"} \cup MemorySteps

AccountInv == \A c \in Calls : pc[c] \in PastLookup => account[c] # None

TypeInv == TypeOK /\ AccountInv

LEMMA TypeInit == Init => TypeInv
  BY DEF Init, TypeInv, TypeOK, AccountInv, PastLookup, DatabaseSteps,
     MemorySteps, NotYet

LEMMA TypeNext == TypeInv /\ [Next]_vars => TypeInv'
<1> SUFFICES ASSUME TypeInv, [Next]_vars PROVE TypeInv'
  OBVIOUS
<1> USE DEF TypeInv, TypeOK, AccountInv, PastLookup, DatabaseSteps, MemorySteps,
           dbVars, keyVars, history, Goto, GotoOrFail
<1>1. ASSUME NEW c \in Calls, Start(c) PROVE TypeInv'
  BY <1>1 DEF Start
<1>2. ASSUME NEW c \in Calls, FindAccount(c) PROVE TypeInv'
  <2>1. \A a \in accounts : a.id \in Calls
    BY DEF Account
  <2>2. PICK x \in Calls \cup {None}, step \in {"findName", "deleteSessions", "failed"} :
           /\ pc' = [pc EXCEPT ![c] = step]
           /\ account' = [account EXCEPT ![c] = x]
           /\ step = "deleteSessions" => x # None
    <3>1. account = [account EXCEPT ![c] = account[c]]
      OBVIOUS
    <3> QED
      BY <1>2, <2>1, <3>1 DEF FindAccount
  <2> QED
    BY <1>2, <2>2 DEF FindAccount
<1>3. ASSUME NEW c \in Calls, FindName(c) \/ DatabaseFails(c) PROVE TypeInv'
  <2>1. PICK step \in {"insertAccount", "failed"} : pc' = [pc EXCEPT ![c] = step]
    BY <1>3 DEF FindName, DatabaseFails
  <2>2. pc[c] \notin {"dropKey", "dropUser"}
    BY <1>3 DEF FindName, DatabaseFails
  <2> QED
    BY <1>3, <2>1, <2>2 DEF FindName, DatabaseFails
<1>4. ASSUME NEW c \in Calls, InsertAccount(c) PROVE TypeInv'
  <2>1. [id |-> c, name |-> request[c].name, pwd |-> request[c].pwd] \in Account
    BY DEF Account
  <2>2. PICK step \in {"deleteSessions", "failed"} : pc' = [pc EXCEPT ![c] = step]
    BY <1>4 DEF InsertAccount
  <2>3. accounts' \subseteq Account /\ account' = [account EXCEPT ![c] = c]
    BY <1>4, <2>1 DEF InsertAccount
  <2> QED
    BY <1>4, <2>2, <2>3 DEF InsertAccount
<1>5. ASSUME NEW c \in Calls, DeleteSessions(c) PROVE TypeInv'
  <2>1. {s.token : s \in SessionsOf(account[c])} \subseteq Calls
    BY DEF SessionsOf, Session
  <2>2. before' \in [Calls -> SUBSET (Calls \cup {None})]
    BY <1>5, <2>1 DEF DeleteSessions
  <2>3. PICK step \in {"insertSession", "failed"} : pc' = [pc EXCEPT ![c] = step]
    BY <1>5 DEF DeleteSessions
  <2>4. sessions' \subseteq Session
    BY <1>5 DEF DeleteSessions
  <2> QED
    BY <1>5, <2>2, <2>3, <2>4 DEF DeleteSessions
<1>6. ASSUME NEW c \in Calls, InsertSession(c) PROVE TypeInv'
  <2>1. [account |-> account[c], token |-> c] \in Session
    BY <1>6 DEF Session, InsertSession
  <2> QED
    BY <1>6, <2>1 DEF InsertSession
<1>7. ASSUME NEW c \in Calls, GetKey(c) PROVE TypeInv'
  <2>1. account[c] \in Calls /\ oldKey[c] = None
    BY <1>7 DEF GetKey
  <2>2. PICK k \in Calls \cup {None} : k = userSession[account[c]]
    BY <2>1
  <2>3. CASE k = None
    <3>1. pc' = [pc EXCEPT ![c] = "addKey"] /\ oldKey' = oldKey
      BY <1>7, <2>2, <2>3 DEF GetKey
    <3> QED
      BY <1>7, <2>1, <3>1 DEF GetKey
  <2>4. CASE k # None
    <3>1. pc' = [pc EXCEPT ![c] = "dropKey"] /\ oldKey' = [oldKey EXCEPT ![c] = k]
      BY <1>7, <2>2, <2>4 DEF GetKey
    <3> QED
      BY <1>7, <2>1, <2>4, <3>1 DEF GetKey
  <2> QED
    BY <2>3, <2>4
<1>8. ASSUME NEW c \in Calls, DropKey(c) PROVE TypeInv'
  BY <1>8 DEF DropKey
<1>9. ASSUME NEW c \in Calls, DropUser(c) PROVE TypeInv'
  BY <1>9 DEF DropUser
<1>10. ASSUME NEW c \in Calls, AddKey(c) PROVE TypeInv'
  BY <1>10 DEF AddKey
<1>11. ASSUME NEW c \in Calls, AddUser(c) PROVE TypeInv'
  <2>1. PICK step \in {"reply", "failed"} : pc' = [pc EXCEPT ![c] = step]
    BY <1>11 DEF AddUser
  <2>2. userSession' \in [Calls -> Calls \cup {None}]
    <3>1. userSession' = [userSession EXCEPT ![account[c]] = c] \/ userSession' = userSession
      BY <1>11 DEF AddUser
    <3> QED
      BY <3>1
  <2> QED
    BY <1>11, <2>1, <2>2 DEF AddUser
<1>12. ASSUME NEW c \in Calls, Reply(c) PROVE TypeInv'
  BY <1>12 DEF Reply
<1>13. CASE Crash
  BY <1>13 DEF Crash
<1>14. CASE UNCHANGED vars
  BY <1>14 DEF vars
<1> QED
  BY <1>1, <1>2, <1>3, <1>4, <1>5, <1>6, <1>7, <1>8, <1>9, <1>10, <1>11,
     <1>12, <1>13, <1>14 DEF Next, DatabaseStep, MemoryStep

\* Every reachable state is well typed; a call only drops a key it has found.
THEOREM TypeCorrect == Spec => []TypeOK
<1>1. TypeInv => TypeOK
  BY DEF TypeInv
<1> QED
  BY <1>1, TypeInit, TypeNext, PTL DEF Spec

-----------------------------------------------------------------------------
(* Facts about every step that the other invariants need: accounts are only  *)
(* added, and a call's account is set while it looks it up, never after.     *)

LEMMA AccountStable ==
    ASSUME TypeInv, [Next]_vars
    PROVE  /\ request' = request
           /\ accounts \subseteq accounts'
           /\ \A c \in Calls : pc[c] \notin {"findAccount", "insertAccount"}
                 => account'[c] = account[c]
<1> USE DEF dbVars, keyVars, history
<1>1. ASSUME NEW c \in Calls, FindAccount(c) \/ InsertAccount(c)
      PROVE /\ request' = request /\ accounts \subseteq accounts'
            /\ \A d \in Calls : d # c => account'[d] = account[d]
            /\ pc[c] \in {"findAccount", "insertAccount"}
  BY <1>1 DEF FindAccount, InsertAccount, TypeInv, TypeOK
<1>2. ASSUME NEW c \in Calls,
             \/ Start(c) \/ FindName(c) \/ DatabaseFails(c) \/ DeleteSessions(c)
             \/ InsertSession(c) \/ MemoryStep(c)
      PROVE UNCHANGED <<request, accounts, account>>
  BY <1>2 DEF Start, FindName, DatabaseFails, DeleteSessions, InsertSession,
     MemoryStep, GetKey, DropKey, DropUser, AddKey, AddUser, Reply
<1>3. Crash \/ UNCHANGED vars => UNCHANGED <<request, accounts, account>>
  BY DEF Crash, vars
<1> QED
  BY <1>1, <1>2, <1>3 DEF Next, DatabaseStep

-----------------------------------------------------------------------------
(* Credentials.                                                             *)

Matches(c) == \E a \in accounts : /\ a.id = account[c]
                                  /\ a.name = request[c].name
                                  /\ a.pwd = request[c].pwd

CredInv ==
    /\ \A c \in Calls : before[c] # NotYet \/ pc[c] \in PastLookup => Matches(c)
    /\ \A c \in Calls : pc[c] \in {"idle", "findAccount", "findName", "insertAccount"}
          => before[c] = NotYet

LEMMA CredInit == Init => CredInv
  BY DEF Init, CredInv, PastLookup, MemorySteps

LEMMA CredNext == TypeInv /\ CredInv /\ [Next]_vars => CredInv'
<1> SUFFICES ASSUME TypeInv, CredInv, [Next]_vars PROVE CredInv'
  OBVIOUS
<1>a. /\ pc \in [Calls -> Outcomes \cup DatabaseSteps \cup MemorySteps]
      /\ account \in [Calls -> Calls \cup {None}]
      /\ before \in [Calls -> SUBSET (Calls \cup {None})]
  BY DEF TypeInv, TypeOK, Outcomes
<1>b. \A c \in Calls : Matches(c) /\ pc[c] \notin {"findAccount", "insertAccount"} => Matches(c)'
  BY AccountStable DEF Matches
<1> DEFINE Old(c) == before[c] # NotYet \/ pc[c] \in PastLookup
           Early(c) == pc[c] \in {"idle", "findAccount", "findName", "insertAccount"}
<1>2. ASSUME NEW c \in Calls, FindAccount(c) PROVE CredInv'
  <2>1. before' = before /\ accounts' = accounts /\ request' = request
    BY <1>2 DEF FindAccount, dbVars, history
  <2>2. \A d \in Calls : d # c => pc'[d] = pc[d] /\ account'[d] = account[d]
    BY <1>2, <1>a DEF FindAccount, Goto
  <2>3. before[c] = NotYet
    BY <1>2 DEF FindAccount, CredInv
  <2>4. pc'[c] \in PastLookup => Matches(c)'
    <3>1. SUFFICES ASSUME pc'[c] \in PastLookup PROVE Matches(c)'
      OBVIOUS
    <3>2. pc'[c] \notin {"findName", "failed"}
      BY <3>1, StepsDiffer DEF PastLookup
    <3>3. PICK a \in accounts : /\ a.name = request[c].name /\ a.pwd = request[c].pwd
                                /\ account' = [account EXCEPT ![c] = a.id]
      BY <1>2, <1>a, <3>2 DEF FindAccount, Goto
    <3>4. account'[c] = a.id
      BY <1>a, <3>3
    <3> QED
      BY <2>1, <3>3, <3>4 DEF Matches
  <2>5. \A d \in Calls : d # c /\ Old(d) => Matches(d)'
    BY <2>1, <2>2 DEF CredInv, Matches
  <2>6. \A d \in Calls : Early(d)' => before'[d] = NotYet
    BY <2>1, <2>2, <2>3 DEF CredInv
  <2> QED
    BY <2>1, <2>2, <2>3, <2>4, <2>5, <2>6 DEF CredInv
<1>3. ASSUME NEW c \in Calls, InsertAccount(c) PROVE CredInv'
  <2>1. before' = before /\ request' = request /\ accounts \subseteq accounts'
    BY <1>3 DEF InsertAccount, history
  <2>2. \A d \in Calls : d # c => pc'[d] = pc[d] /\ account'[d] = account[d]
    BY <1>3, <1>a DEF InsertAccount, Goto, GotoOrFail
  <2>3. before[c] = NotYet /\ pc'[c] \in {"deleteSessions", "failed"}
    BY <1>3, <1>a DEF InsertAccount, CredInv, GotoOrFail, Goto
  <2>4. Matches(c)'
    <3>1. account'[c] = c
      BY <1>3, <1>a DEF InsertAccount
    <3>2. [id |-> c, name |-> request[c].name, pwd |-> request[c].pwd] \in accounts'
      BY <1>3 DEF InsertAccount
    <3> QED
      BY <2>1, <3>1, <3>2 DEF Matches
  <2>5. \A d \in Calls : d # c /\ Old(d) => Matches(d)'
    BY <2>1, <2>2 DEF CredInv, Matches
  <2>6. \A d \in Calls : Early(d)' => before'[d] = NotYet
    BY <2>1, <2>2, <2>3 DEF CredInv
  <2> QED
    BY <2>1, <2>2, <2>4, <2>5, <2>6 DEF CredInv
<1>4. ASSUME NEW c \in Calls, DeleteSessions(c) PROVE CredInv'
  <2>1. /\ pc[c] = "deleteSessions" /\ pc'[c] \in {"insertSession", "failed"}
        /\ \A d \in Calls : d # c => pc'[d] = pc[d] /\ before'[d] = before[d]
    BY <1>4, <1>a DEF DeleteSessions, Goto, GotoOrFail
  <2>2. Matches(c)'
    BY <1>b, <2>1 DEF CredInv, PastLookup
  <2>3. \A d \in Calls : d # c /\ Old(d) => Matches(d)'
    <3>1. UNCHANGED <<request, accounts, account>>
      BY <1>4 DEF DeleteSessions
    <3> QED
      BY <3>1 DEF CredInv, Matches
  <2> QED
    BY <2>1, <2>2, <2>3 DEF CredInv
<1>5. ASSUME NEW c \in Calls, Start(c) \/ FindName(c) \/ DatabaseFails(c) PROVE CredInv'
  <2>1. UNCHANGED <<request, accounts, account, before>>
    BY <1>5 DEF Start, FindName, DatabaseFails, dbVars, history
  <2>2. /\ pc'[c] \in {"findAccount", "findName", "insertAccount", "failed"}
        /\ pc'[c] = "failed" \/ pc[c] \in {"idle", "findName"}
        /\ \A d \in Calls : d # c => pc'[d] = pc[d]
    BY <1>5, <1>a DEF Start, FindName, DatabaseFails, Goto
  <2>3. pc'[c] \notin PastLookup
    BY <2>2, StepsDiffer DEF PastLookup
  <2>4. \A d \in Calls : Early(d)' => before'[d] = NotYet
    BY <2>1, <2>2 DEF CredInv
  <2>5. \A d \in Calls : Old(d)' => Old(d)
    BY <2>1, <2>2, <2>3
  <2> QED
    BY <2>1, <2>4, <2>5 DEF CredInv, Matches
<1>6. ASSUME NEW c \in Calls, InsertSession(c) \/ MemoryStep(c) PROVE CredInv'
  <2>1. UNCHANGED <<request, accounts, account, before>>
    BY <1>6 DEF InsertSession, MemoryStep, GetKey, DropKey, DropUser, AddKey,
       AddUser, Reply, dbVars, history
  <2>2. /\ pc[c] \in PastLookup /\ pc'[c] \in MemorySteps \cup {"failed", "done"}
        /\ \A d \in Calls : d # c => pc'[d] = pc[d]
    BY <1>6, <1>a DEF InsertSession, MemoryStep, GetKey, DropKey, DropUser,
       AddKey, AddUser, Reply, Goto, GotoOrFail, PastLookup, MemorySteps
  <2>3. pc'[c] \notin {"idle", "findAccount", "findName", "insertAccount"}
    BY <2>2, StepsDiffer
  <2>4. \A d \in Calls : Early(d)' => before'[d] = NotYet
    BY <2>1, <2>2, <2>3 DEF CredInv
  <2>5. \A d \in Calls : Old(d)' => Old(d)
    BY <2>1, <2>2
  <2> QED
    BY <2>1, <2>4, <2>5 DEF CredInv, Matches
<1>7. CASE Crash \/ UNCHANGED vars
  <2>1. UNCHANGED <<request, accounts, account, before>>
    BY <1>7 DEF Crash, vars, dbVars, history
  <2>2. \A d \in Calls : pc'[d] = pc[d] \/ pc'[d] = "failed"
    BY <1>7 DEF Crash, vars
  <2>3. "failed" \notin PastLookup
    BY StepsDiffer DEF PastLookup
  <2> QED
    BY <2>1, <2>2, <2>3 DEF CredInv, Matches
<1> QED
  BY <1>2, <1>3, <1>4, <1>5, <1>6, <1>7 DEF Next, DatabaseStep

\* No call ever clears, inserts or registers a session of an account whose
\* name and password it was not given.
THEOREM CredentialsCorrect == Spec => []CredentialsMatch
<1>1. CredInv => CredentialsMatch
  BY DEF CredInv, CredentialsMatch, Matches, PastLookup
<1> QED
  BY <1>1, TypeInit, TypeNext, CredInit, CredNext, PTL DEF Spec

-----------------------------------------------------------------------------
(* Session keys.  A key is in use only by the account of the call that made  *)
(* it, and only once that call has registered it: so nobody else drops the   *)
(* key of a call that is between its two TryAdds.                            *)

Registered == {"reply", "done", "failed"}

Settled(k) == pc[k] \in Registered

UserInv == \A a \in Calls : userSession[a] # None =>
              account[userSession[a]] = a /\ Settled(userSession[a])

OldInv == \A c \in Calls : oldKey[c] # None =>
             account[oldKey[c]] = account[c] /\ Settled(oldKey[c])

AddingInv == \A c \in Calls : pc[c] = "addUser" => sessionKey[c] = account[c]

KeyInv == UserInv /\ OldInv /\ AddingInv /\ CurrentKeyIsLive

LEMMA KeyInit == Init => KeyInv
  BY DEF Init, KeyInv, UserInv, OldInv, AddingInv, CurrentKeyIsLive

\* A call that has registered its key stays settled and keeps its account.
LEMMA SettledKept ==
    ASSUME TypeInv, [Next]_vars
    PROVE  \A k \in Calls : Settled(k) => Settled(k)' /\ account'[k] = account[k]
<1>1. \A k \in Calls : Settled(k) => account'[k] = account[k]
  BY AccountStable DEF Settled, Registered
<1>2. \A k \in Calls : Settled(k) => Settled(k)'
  <2>1. pc \in [Calls -> Outcomes \cup DatabaseSteps \cup MemorySteps]
    BY DEF TypeInv, TypeOK, Outcomes
  <2>2. ASSUME NEW c \in Calls, Start(c) \/ DatabaseStep(c) \/ MemoryStep(c)
        PROVE  \E step : pc' = [pc EXCEPT ![c] = step]
                         /\ (pc[c] \in Registered => step \in Registered)
    BY <2>2 DEF Start, DatabaseStep, FindAccount, FindName, InsertAccount,
       DeleteSessions, InsertSession, DatabaseFails, MemoryStep, GetKey, DropKey,
       DropUser, AddKey, AddUser, Reply, Goto, GotoOrFail, Registered, DatabaseSteps
  <2>3. Crash \/ UNCHANGED vars => \A k \in Calls : pc'[k] \in {pc[k], "failed"}
    BY DEF Crash, vars
  <2> QED
    BY <2>1, <2>2, <2>3 DEF Next, Settled, Registered
<1> QED
  BY <1>1, <1>2

LEMMA UserKept ==
    ASSUME TypeInv, UserInv, [Next]_vars,
           \A a \in Calls : userSession'[a] \in {None, userSession[a]}
    PROVE  UserInv'
<1> SUFFICES ASSUME NEW a \in Calls, userSession'[a] # None
             PROVE  account'[userSession'[a]] = a /\ Settled(userSession[a])'
  BY DEF UserInv
<1>1. PICK k \in Calls : k = userSession[a] /\ k = userSession'[a]
  BY DEF TypeInv, TypeOK
<1>2. account'[k] = a /\ Settled(k)'
  BY <1>1, SettledKept DEF UserInv
<1> QED
  BY <1>1, <1>2 DEF Settled

LEMMA OldKept ==
    ASSUME TypeInv, OldInv, [Next]_vars,
           \A c \in Calls : oldKey'[c] \in {None, oldKey[c]}
    PROVE  OldInv'
<1> SUFFICES ASSUME NEW c \in Calls, oldKey'[c] # None
             PROVE  account'[oldKey'[c]] = account'[c] /\ Settled(oldKey[c])'
  BY DEF OldInv
<1>1. PICK k \in Calls : k = oldKey[c] /\ k = oldKey'[c]
  BY DEF TypeInv, TypeOK
<1>2. account'[c] = account[c]
  BY <1>1, AccountStable DEF TypeInv, TypeOK
<1>3. account'[k] = account'[c] /\ Settled(k)'
  BY <1>1, <1>2, SettledKept DEF OldInv
<1> QED
  BY <1>1, <1>3 DEF Settled

LEMMA KeyNext == TypeInv /\ KeyInv /\ [Next]_vars => KeyInv'
<1> SUFFICES ASSUME TypeInv, KeyInv, [Next]_vars PROVE KeyInv'
  OBVIOUS
<1>a. /\ pc \in [Calls -> Outcomes \cup DatabaseSteps \cup MemorySteps]
      /\ account \in [Calls -> Calls \cup {None}]
      /\ oldKey \in [Calls -> Calls \cup {None}]
      /\ sessionKey \in [Calls -> Calls \cup {None}]
      /\ userSession \in [Calls -> Calls \cup {None}]
      /\ \A c \in Calls : pc[c] \in PastLookup => account[c] \in Calls
      /\ \A c \in Calls : oldKey[c] # None <=> pc[c] \in {"dropKey", "dropUser"}
  BY DEF TypeInv, TypeOK, AccountInv, Outcomes
<1>b. \A c \in Calls : pc[c] \in {"dropUser", "addUser"} => account'[c] = account[c]
  BY AccountStable
\* a step that leaves the keys and the calls that are replacing one alone
<1>1. ASSUME UNCHANGED <<keyVars, oldKey>>,
             \A c \in Calls : pc'[c] = "addUser" => pc[c] = "addUser",
             \A c \in Calls : pc[c] = "dropUser" => pc'[c] = "dropUser"
      PROVE KeyInv'
  <2>1. sessionKey' = sessionKey /\ userSession' = userSession /\ oldKey' = oldKey
    BY <1>1 DEF keyVars
  <2>2. UserInv' /\ OldInv'
    BY <2>1, UserKept, OldKept DEF KeyInv
  <2>3. AddingInv'
    BY <1>1, <1>b, <2>1 DEF KeyInv, AddingInv
  <2>4. CurrentKeyIsLive'
    BY <1>1, <1>b, <2>1 DEF KeyInv, CurrentKeyIsLive
  <2> QED
    BY <2>2, <2>3, <2>4 DEF KeyInv
<1>2. ASSUME NEW c \in Calls, GetKey(c) PROVE KeyInv'
  <2>1. /\ pc[c] = "getKey" /\ account[c] \in Calls
        /\ sessionKey' = sessionKey /\ userSession' = userSession /\ account' = account
    BY <1>2, <1>a DEF GetKey, keyVars, PastLookup, MemorySteps
  <2>2. PICK k \in Calls \cup {None} : k = userSession[account[c]]
    BY <1>a, <2>1
  <2>3. /\ oldKey'[c] = k \/ oldKey'[c] = oldKey[c]
        /\ pc'[c] \in {"addKey", "dropKey"}
        /\ \A d \in Calls : d # c => oldKey'[d] = oldKey[d] /\ pc'[d] = pc[d]
    BY <1>2, <1>a, <2>2 DEF GetKey, Goto
  <2>4. OldInv'
    <3>1. CASE oldKey'[c] = oldKey[c]
      BY <2>3, <3>1, OldKept DEF KeyInv
    <3>2. CASE oldKey'[c] = k /\ k # None
      <4>1. account'[k] = account'[c] /\ Settled(k)'
        BY <2>1, <2>2, <3>2, SettledKept DEF KeyInv, UserInv
      <4>2. ASSUME NEW d \in Calls, d # c, oldKey'[d] # None
            PROVE  account'[oldKey'[d]] = account'[d] /\ Settled(oldKey[d])'
        <5>1. PICK x \in Calls : x = oldKey[d] /\ x = oldKey'[d]
          BY <1>a, <2>3, <4>2
        <5>2. account'[x] = account'[d] /\ Settled(x)'
          BY <2>1, <4>2, <5>1, SettledKept DEF KeyInv, OldInv
        <5> QED
          BY <5>1, <5>2 DEF Settled
      <4> QED
        BY <3>2, <4>1, <4>2 DEF OldInv, Settled
    <3> QED
      BY <1>a, <2>1, <2>3, <3>1, <3>2
  <2>5. UserInv'
    BY <2>1, UserKept DEF KeyInv
  <2>6. AddingInv'
    BY <2>1, <2>3 DEF KeyInv, AddingInv
  <2>7. CurrentKeyIsLive'
    BY <2>1, <2>3 DEF KeyInv, CurrentKeyIsLive
  <2> QED
    BY <2>4, <2>5, <2>6, <2>7 DEF KeyInv
<1>3. ASSUME NEW c \in Calls, DropKey(c) PROVE KeyInv'
  <2>1. PICK k \in Calls : k = oldKey[c]
    BY <1>3, <1>a DEF DropKey
  <2>2. /\ sessionKey' = [sessionKey EXCEPT ![k] = None]
        /\ userSession' = userSession /\ oldKey' = oldKey /\ account' = account
        /\ pc[c] = "dropKey" /\ pc'[c] = "dropUser"
        /\ \A d \in Calls : d # c => pc'[d] = pc[d]
    BY <1>3, <1>a, <2>1 DEF DropKey, Goto
  <2>3. account[k] = account[c] /\ Settled(k)
    BY <2>1 DEF KeyInv, OldInv
  <2>4. UserInv' /\ OldInv'
    BY <2>2, UserKept, OldKept DEF KeyInv
  <2>5. AddingInv'
    BY <1>a, <2>2, <2>3 DEF KeyInv, AddingInv, Settled, Registered
  <2>6. CurrentKeyIsLive'
    <3> SUFFICES ASSUME NEW a \in Calls, userSession[a] # None
                 PROVE  \/ sessionKey'[userSession[a]] = a
                        \/ \E d \in Calls : /\ pc'[d] = "dropUser" /\ account[d] = a
                                            /\ oldKey[d] = userSession[a]
      BY <2>2 DEF CurrentKeyIsLive
    <3>1. CASE userSession[a] = k
      <4>1. account[c] = a
        BY <2>3, <3>1 DEF KeyInv, UserInv
      <4> QED
        BY <2>1, <2>2, <3>1, <4>1
    <3>2. CASE userSession[a] # k
      <4>1. sessionKey'[userSession[a]] = sessionKey[userSession[a]]
        BY <1>a, <2>2, <3>2
      <4> QED
        BY <2>2, <4>1 DEF KeyInv, CurrentKeyIsLive
    <3> QED
      BY <3>1, <3>2
  <2> QED
    BY <2>4, <2>5, <2>6 DEF KeyInv
<1>4. ASSUME NEW c \in Calls, DropUser(c) PROVE KeyInv'
  <2>1. /\ sessionKey' = sessionKey /\ account' = account
        /\ userSession' = [userSession EXCEPT ![account[c]] = None]
        /\ oldKey' = [oldKey EXCEPT ![c] = None]
        /\ pc[c] = "dropUser" /\ pc'[c] = "addKey"
        /\ \A d \in Calls : d # c => pc'[d] = pc[d]
    BY <1>4, <1>a DEF DropUser, Goto
  <2>2. UserInv' /\ OldInv'
    BY <1>a, <2>1, UserKept, OldKept DEF KeyInv
  <2>3. AddingInv'
    BY <2>1 DEF KeyInv, AddingInv
  <2>4. CurrentKeyIsLive'
    BY <1>a, <2>1 DEF KeyInv, CurrentKeyIsLive
  <2> QED
    BY <2>2, <2>3, <2>4 DEF KeyInv
<1>5. ASSUME NEW c \in Calls, AddKey(c) PROVE KeyInv'
  <2>1. /\ sessionKey' = [sessionKey EXCEPT ![c] = account[c]]
        /\ userSession' = userSession /\ oldKey' = oldKey /\ account' = account
        /\ pc[c] = "addKey" /\ pc'[c] = "addUser"
        /\ \A d \in Calls : d # c => pc'[d] = pc[d]
    BY <1>5, <1>a DEF AddKey, Goto
  <2>2. UserInv' /\ OldInv'
    BY <2>1, UserKept, OldKept DEF KeyInv
  <2>3. AddingInv'
    BY <1>a, <2>1 DEF KeyInv, AddingInv
  <2>4. \A a \in Calls : userSession[a] # None => userSession[a] # c
    BY <2>1 DEF KeyInv, UserInv, Settled, Registered
  <2>5. CurrentKeyIsLive'
    BY <1>a, <2>1, <2>4 DEF KeyInv, CurrentKeyIsLive
  <2> QED
    BY <2>2, <2>3, <2>5 DEF KeyInv
<1>6. ASSUME NEW c \in Calls, AddUser(c) PROVE KeyInv'
  <2>1. /\ sessionKey' = sessionKey /\ oldKey' = oldKey /\ account' = account
        /\ pc[c] = "addUser" /\ pc'[c] \in {"reply", "failed"} /\ account[c] \in Calls
        /\ \A d \in Calls : d # c => pc'[d] = pc[d]
        /\ \/ userSession' = userSession
           \/ userSession' = [userSession EXCEPT ![account[c]] = c]
    BY <1>6, <1>a DEF AddUser, Goto, PastLookup, MemorySteps
  <2>2. OldInv'
    BY <2>1, OldKept DEF KeyInv
  <2>3. AddingInv'
    BY <2>1 DEF KeyInv, AddingInv
  <2>4. CASE userSession' = userSession
    <3>1. UserInv'
      BY <2>4, UserKept DEF KeyInv
    <3>2. CurrentKeyIsLive'
      BY <2>1, <2>4 DEF KeyInv, CurrentKeyIsLive
    <3> QED
      BY <2>2, <2>3, <3>1, <3>2 DEF KeyInv
  <2>5. CASE userSession' = [userSession EXCEPT ![account[c]] = c]
    <3>1. PICK b \in Calls : b = account[c]
      BY <2>1
    <3>2. userSession'[b] = c /\ \A a \in Calls : a # b => userSession'[a] = userSession[a]
      BY <1>a, <2>5, <3>1
    <3>3. ASSUME NEW a \in Calls, userSession'[a] # None
          PROVE  account'[userSession'[a]] = a /\ Settled(userSession[a])'
      <4>1. PICK x \in Calls : x = userSession'[a]
        BY <1>a, <3>2, <3>3
      <4>2. account'[x] = a /\ Settled(x)'
        <5>1. CASE a = b
          BY <2>1, <3>1, <3>2, <4>1, <5>1 DEF Settled, Registered
        <5>2. CASE a # b
          BY <3>2, <3>3, <4>1, <5>2, SettledKept DEF KeyInv, UserInv
        <5> QED
          BY <5>1, <5>2
      <4> QED
        BY <4>1, <4>2 DEF Settled
    <3>4. UserInv'
      BY <3>3 DEF UserInv
    <3>5. sessionKey[c] = b
      BY <2>1, <3>1 DEF KeyInv, AddingInv
    <3>6. CurrentKeyIsLive'
      BY <2>1, <3>2, <3>5 DEF KeyInv, CurrentKeyIsLive
    <3> QED
      BY <2>2, <2>3, <3>4, <3>6 DEF KeyInv
  <2> QED
    BY <2>1, <2>4, <2>5
<1>7. ASSUME NEW c \in Calls, Start(c) \/ DatabaseStep(c) \/ Reply(c) PROVE KeyInv'
  <2>1. UNCHANGED <<keyVars, oldKey>>
    BY <1>7 DEF Start, DatabaseStep, FindAccount, FindName, InsertAccount,
       DeleteSessions, InsertSession, DatabaseFails, Reply
  <2>2. /\ \A d \in Calls : d # c => pc'[d] = pc[d]
        /\ pc'[c] # "addUser" /\ pc[c] # "dropUser"
    BY <1>7, <1>a DEF Start, DatabaseStep, FindAccount, FindName, InsertAccount,
       DeleteSessions, InsertSession, DatabaseFails, Reply, Goto, GotoOrFail,
       DatabaseSteps
  <2> QED
    BY <1>1, <2>1, <2>2
<1>8. CASE Crash
  <2>1. /\ \A c \in Calls : pc'[c] # "addUser"
        /\ \A c \in Calls : oldKey'[c] = None /\ userSession'[c] = None
    BY <1>8 DEF Crash, MemorySteps
  <2> QED
    BY <2>1 DEF KeyInv, UserInv, OldInv, AddingInv, CurrentKeyIsLive
<1>9. CASE UNCHANGED vars
  BY <1>1, <1>9 DEF vars
<1> QED
  BY <1>2, <1>3, <1>4, <1>5, <1>6, <1>7, <1>8, <1>9 DEF Next, MemoryStep

\* Whatever logins race through TryCreateSession, the key an account is
\* registered under is live, unless a call that has dropped it is still there
\* to unregister it.
THEOREM CurrentKeyCorrect == Spec => []CurrentKeyIsLive
<1>1. KeyInv => CurrentKeyIsLive
  BY DEF KeyInv
<1> QED
  BY <1>1, TypeInit, TypeNext, KeyInit, KeyNext, PTL DEF Spec

-----------------------------------------------------------------------------
(* Sessions.  A token belongs to one call, so a session that a login has      *)
(* cleared can never be stored again: what a call has inserted is either      *)
(* still there or in the before of the login that cleared it.                 *)

\* The steps of a call that has inserted its session, unless it failed.
Given == MemorySteps \cup {"done"}

\* The steps of a call that has cleared the sessions of its account.
Cleared == {"insertSession", "failed"} \cup Given

Stored(c) == [account |-> account[c], token |-> c]

OwnInv == \A s \in sessions : s.token \in inserted /\ s = Stored(s.token)

PhaseInv ==
    /\ \A c \in Calls : pc[c] \in Given => c \in inserted
    /\ \A c \in inserted : before[c] # NotYet /\ pc[c] \in Given \cup {"failed"}
    /\ \A c \in Calls : before[c] # NotYet => pc[c] \in Cleared
    /\ \A c \in Calls : pc[c] = "insertSession" => before[c] # NotYet

BeforeInv ==
    /\ \A c, t \in Calls : t \in before[c] => t \in inserted /\ t # c
    /\ \A c \in Calls : \A s \in sessions : s.token \notin before[c]

KeptInv == \A c \in inserted :
    \/ Stored(c) \in sessions
    \/ \E d \in Calls : c \in before[d] /\ account[d] = account[c]

SessionInv == OwnInv /\ PhaseInv /\ BeforeInv /\ KeptInv /\ GapOnlyInLogin

LEMMA SessionInit == Init => SessionInv
<1> SUFFICES ASSUME Init PROVE SessionInv
  OBVIOUS
<1>1. \A c \in Calls : pc[c] = "idle" /\ before[c] = {None}
  BY DEF Init, NotYet
<1>2. \A c \in Calls : pc[c] \notin Given
  BY <1>1, StepsDiffer DEF Given
<1> QED
  BY <1>1, <1>2 DEF Init, NotYet, SessionInv, OwnInv, PhaseInv, BeforeInv,
     KeptInv, GapOnlyInLogin

\* A step that neither clears nor stores a session: the accounts of the calls
\* that have done so do not change.
LEMMA SessionQuiet ==
    ASSUME TypeInv, SessionInv, [Next]_vars,
           UNCHANGED <<sessions, before, inserted>>,
           \A c \in Calls : pc'[c] \in Given => pc[c] \in Given,
           \A c \in Calls : pc[c] \in Given \cup {"failed"} => pc'[c] \in Given \cup {"failed"},
           \A c \in Calls : pc[c] = "insertSession" => pc'[c] \in Cleared,
           \A c \in Calls : pc'[c] = "insertSession" => pc[c] = "insertSession"
    PROVE  SessionInv'
<1>1. inserted \subseteq Calls /\ \A s \in sessions : s.token \in Calls
  BY DEF TypeInv, TypeOK, Session
<1>2. \A c \in Calls : before[c] # NotYet => account'[c] = account[c]
  <2>1. "findAccount" \notin Cleared /\ "insertAccount" \notin Cleared
    BY StepsDiffer DEF Cleared, Given
  <2> QED
    BY <2>1, AccountStable DEF SessionInv, PhaseInv
<1>3. \A c \in inserted : account'[c] = account[c]
  BY <1>1, <1>2 DEF SessionInv, PhaseInv
<1>4. OwnInv'
  BY <1>1, <1>3 DEF SessionInv, OwnInv, Stored
<1>5. PhaseInv'
  BY <1>1 DEF SessionInv, PhaseInv, Cleared
<1>6. BeforeInv'
  BY DEF SessionInv, BeforeInv
<1>7. KeptInv'
  <2> SUFFICES ASSUME NEW c \in inserted
               PROVE  \/ Stored(c)' \in sessions
                      \/ \E d \in Calls : c \in before[d] /\ account'[d] = account'[c]
    BY DEF KeptInv
  <2>1. CASE Stored(c) \in sessions
    BY <1>3, <2>1 DEF Stored
  <2>2. CASE \E d \in Calls : c \in before[d] /\ account[d] = account[c]
    <3>1. PICK d \in Calls : c \in before[d] /\ account[d] = account[c]
      BY <2>2
    <3>2. before[d] # NotYet
      BY <1>1, <3>1 DEF NotYet
    <3> QED
      BY <1>2, <1>3, <3>1, <3>2
  <2> QED
    BY <2>1, <2>2 DEF SessionInv, KeptInv
<1>8. GapOnlyInLogin'
  BY <1>2, <1>3 DEF SessionInv, GapOnlyInLogin, SessionsOf
<1> QED
  BY <1>4, <1>5, <1>6, <1>7, <1>8 DEF SessionInv

LEMMA SessionDelete ==
    ASSUME TypeInv, SessionInv, CredInv, NEW c \in Calls, DeleteSessions(c)
    PROVE  SessionInv'
<1>1. inserted \subseteq Calls /\ \A s \in sessions : s.token \in Calls
  BY DEF TypeInv, TypeOK, Session
<1>2. /\ pc[c] = "deleteSessions" /\ account' = account /\ inserted' = inserted
      /\ sessions' = sessions \ SessionsOf(account[c])
      /\ before' = [before EXCEPT ![c] = {s.token : s \in SessionsOf(account[c])}]
      /\ pc'[c] \in {"insertSession", "failed"}
      /\ \A d \in Calls : d # c => pc'[d] = pc[d] /\ before'[d] = before[d]
  BY DEF DeleteSessions, Goto, GotoOrFail, TypeInv, TypeOK
<1>3. before'[c] = {s.token : s \in SessionsOf(account[c])}
  BY <1>2 DEF TypeInv, TypeOK
<1>4. "deleteSessions" \notin Cleared /\ "deleteSessions" \notin Given \cup {"failed"}
  BY StepsDiffer DEF Cleared, Given
<1>5. before[c] = NotYet /\ c \notin inserted
  BY <1>2, <1>4 DEF SessionInv, PhaseInv
<1>6. before'[c] # NotYet
  BY <1>1, <1>3 DEF SessionsOf, NotYet
<1>7. OwnInv'
  BY <1>2 DEF SessionInv, OwnInv, Stored
<1>8. PhaseInv'
  <2>1. pc'[c] \in Cleared /\ pc'[c] \notin Given
    BY <1>2, StepsDiffer DEF Cleared, Given, MemorySteps
  <2>2. \A d \in Calls : pc'[d] \in Given => d \in inserted'
    BY <1>2, <2>1 DEF SessionInv, PhaseInv
  <2>3. \A d \in inserted' : before'[d] # NotYet /\ pc'[d] \in Given \cup {"failed"}
    BY <1>1, <1>2, <1>5 DEF SessionInv, PhaseInv
  <2>4. \A d \in Calls : before'[d] # NotYet => pc'[d] \in Cleared
    BY <1>2, <2>1 DEF SessionInv, PhaseInv
  <2>5. \A d \in Calls : pc'[d] = "insertSession" => before'[d] # NotYet
    BY <1>2, <1>6 DEF SessionInv, PhaseInv
  <2> QED
    BY <2>2, <2>3, <2>4, <2>5 DEF PhaseInv
<1>9. BeforeInv'
  <2>1. ASSUME NEW d \in Calls, NEW t \in Calls, t \in before'[d]
        PROVE  t \in inserted' /\ t # d
    <3>1. CASE d = c
      BY <1>2, <1>3, <1>5, <2>1, <3>1 DEF SessionInv, OwnInv, SessionsOf
    <3>2. CASE d # c
      BY <1>2, <2>1, <3>2 DEF SessionInv, BeforeInv
    <3> QED
      BY <3>1, <3>2
  <2>2. ASSUME NEW d \in Calls, NEW s \in sessions', s.token \in before'[d]
        PROVE  FALSE
    <3>0. s \in sessions /\ s.account # account[c]
      BY <1>2 DEF SessionsOf
    <3>1. CASE d = c
      <4>1. PICK r \in sessions : r.account = account[c] /\ r.token = s.token
        BY <1>3, <2>2, <3>1 DEF SessionsOf
      <4>2. r = s
        BY <3>0, <4>1 DEF SessionInv, OwnInv
      <4> QED
        BY <3>0, <4>1, <4>2
    <3>2. CASE d # c
      BY <1>2, <2>2, <3>0, <3>2 DEF SessionInv, BeforeInv
    <3> QED
      BY <3>1, <3>2
  <2> QED
    BY <2>1, <2>2 DEF BeforeInv
<1>10. KeptInv'
  <2> SUFFICES ASSUME NEW x \in inserted
               PROVE  \/ Stored(x) \in sessions'
                      \/ \E d \in Calls : x \in before'[d] /\ account[d] = account[x]
    BY <1>2 DEF KeptInv, Stored
  <2>1. CASE Stored(x) \in sessions /\ account[x] # account[c]
    BY <1>2, <2>1 DEF SessionsOf, Stored
  <2>2. CASE Stored(x) \in sessions /\ account[x] = account[c]
    <3>1. Stored(x) \in SessionsOf(account[c]) /\ Stored(x).token = x
      BY <2>2 DEF SessionsOf, Stored
    <3>2. x \in before'[c]
      BY <1>3, <3>1
    <3> QED
      BY <2>2, <3>2
  <2>3. CASE \E d \in Calls : x \in before[d] /\ account[d] = account[x]
    <3>1. PICK d \in Calls : x \in before[d] /\ account[d] = account[x]
      BY <2>3
    <3>2. d # c
      BY <1>1, <1>5, <3>1 DEF NotYet
    <3> QED
      BY <1>2, <3>1, <3>2
  <2> QED
    BY <2>1, <2>2, <2>3 DEF SessionInv, KeptInv
<1>11. GapOnlyInLogin'
  <2> SUFFICES ASSUME NEW x \in inserted, SessionsOf(account[x])' = {}
               PROVE  \E d \in Calls \ inserted : before'[d] # NotYet /\ account[d] = account[x]
    BY <1>2 DEF GapOnlyInLogin
  <2>1. CASE account[x] = account[c]
    BY <1>5, <1>6, <2>1
  <2>2. CASE account[x] # account[c]
    <3>1. SessionsOf(account[x]) = {}
      BY <1>2, <2>2 DEF SessionsOf
    <3>2. PICK d \in Calls \ inserted : before[d] # NotYet /\ account[d] = account[x]
      BY <3>1 DEF SessionInv, GapOnlyInLogin
    <3> QED
      BY <1>2, <1>5, <3>2
  <2> QED
    BY <2>1, <2>2
<1> QED
  BY <1>7, <1>8, <1>9, <1>10, <1>11 DEF SessionInv

LEMMA SessionInsert ==
    ASSUME TypeInv, SessionInv, NEW c \in Calls, InsertSession(c)
    PROVE  SessionInv'
<1>1. inserted \subseteq Calls /\ \A s \in sessions : s.token \in Calls
  BY DEF TypeInv, TypeOK, Session
<1>2. /\ pc[c] = "insertSession" /\ account' = account /\ before' = before
      /\ inserted' = inserted \cup {c} /\ sessions' = sessions \cup {Stored(c)}
      /\ pc'[c] \in {"getKey", "failed"}
      /\ \A d \in Calls : d # c => pc'[d] = pc[d]
  BY DEF InsertSession, Goto, GotoOrFail, TypeInv, TypeOK, Stored
<1>3. "insertSession" \notin Given \cup {"failed"}
  BY StepsDiffer DEF Given
<1>4. c \notin inserted
  BY <1>2, <1>3 DEF SessionInv, PhaseInv
<1>5. OwnInv'
  BY <1>2 DEF SessionInv, OwnInv, Stored
<1>6. PhaseInv'
  <2>1. pc'[c] \in Given \cup {"failed"}
    BY <1>2 DEF Given, MemorySteps
  <2>2. before'[c] # NotYet
    BY <1>2 DEF SessionInv, PhaseInv
  <2> QED
    BY <1>1, <1>2, <2>1, <2>2 DEF SessionInv, PhaseInv, Cleared
<1>7. BeforeInv'
  <2>1. \A d \in Calls : c \notin before[d]
    BY <1>4 DEF SessionInv, BeforeInv
  <2> QED
    BY <1>2, <2>1 DEF SessionInv, BeforeInv, Stored
<1>8. KeptInv'
  BY <1>2 DEF SessionInv, KeptInv, Stored
<1>9. GapOnlyInLogin'
  <2> SUFFICES ASSUME NEW x \in inserted', SessionsOf(account[x])' = {}
               PROVE  \E d \in Calls \ inserted' : before[d] # NotYet /\ account[d] = account[x]
    BY <1>2 DEF GapOnlyInLogin
  <2>1. Stored(c) \in sessions' /\ Stored(c).account = account[c]
    BY <1>2 DEF Stored
  <2>2. account[x] # account[c]
    BY <1>2, <2>1 DEF SessionsOf
  <2>3. SessionsOf(account[x]) = {} /\ x \in inserted
    BY <1>2, <2>2 DEF SessionsOf
  <2>4. PICK d \in Calls \ inserted : before[d] # NotYet /\ account[d] = account[x]
    BY <2>3 DEF SessionInv, GapOnlyInLogin
  <2> QED
    BY <1>2, <2>2, <2>4
<1> QED
  BY <1>5, <1>6, <1>7, <1>8, <1>9 DEF SessionInv

LEMMA SessionNext == TypeInv /\ CredInv /\ SessionInv /\ [Next]_vars => SessionInv'
<1> SUFFICES ASSUME TypeInv, CredInv, SessionInv, [Next]_vars PROVE SessionInv'
  OBVIOUS
<1>a. pc \in [Calls -> Outcomes \cup DatabaseSteps \cup MemorySteps]
  BY DEF TypeInv, TypeOK, Outcomes
<1>1. ASSUME NEW c \in Calls,
             \/ Start(c) \/ FindAccount(c) \/ FindName(c) \/ InsertAccount(c)
             \/ DatabaseFails(c)
      PROVE  SessionInv'
  <2>1. UNCHANGED <<sessions, before, inserted>>
    BY <1>1 DEF Start, FindAccount, FindName, InsertAccount, DatabaseFails, dbVars, history
  <2>2. /\ \A d \in Calls : d # c => pc'[d] = pc[d]
        /\ pc[c] \in {"idle"} \cup DatabaseSteps
        /\ pc'[c] \in {"findAccount", "findName", "insertAccount", "deleteSessions", "failed"}
        /\ pc[c] = "insertSession" => pc'[c] = "failed"
    BY <1>1, <1>a DEF Start, FindAccount, FindName, InsertAccount, DatabaseFails,
       Goto, GotoOrFail, DatabaseSteps
  <2>3. pc'[c] \notin Given /\ pc[c] \notin Given \cup {"failed"}
    BY <2>2, StepsDiffer DEF Given, DatabaseSteps
  <2> QED
    BY <2>1, <2>2, <2>3, SessionQuiet DEF Cleared
<1>2. ASSUME NEW c \in Calls, MemoryStep(c) PROVE SessionInv'
  <2>1. UNCHANGED <<sessions, before, inserted>>
    BY <1>2 DEF MemoryStep, GetKey, DropKey, DropUser, AddKey, AddUser, Reply, dbVars, history
  <2>2. /\ \A d \in Calls : d # c => pc'[d] = pc[d]
        /\ pc[c] \in MemorySteps /\ pc'[c] \in MemorySteps \cup {"failed", "done"}
    BY <1>2, <1>a DEF MemoryStep, GetKey, DropKey, DropUser, AddKey, AddUser,
       Reply, Goto, GotoOrFail, MemorySteps
  <2>3. pc[c] # "insertSession" /\ pc'[c] # "insertSession"
    BY <2>2, StepsDiffer
  <2> QED
    BY <2>1, <2>2, <2>3, SessionQuiet DEF Given, Cleared
<1>3. CASE Crash \/ UNCHANGED vars
  <2>1. UNCHANGED <<sessions, before, inserted>>
    BY <1>3 DEF Crash, vars, dbVars, history
  <2>2. \A d \in Calls : pc'[d] = pc[d] \/ pc'[d] = "failed"
    BY <1>3 DEF Crash, vars
  <2>3. "failed" \notin Given
    BY StepsDiffer DEF Given
  <2> QED
    BY <2>1, <2>2, <2>3, SessionQuiet DEF Cleared
<1> QED
  BY <1>1, <1>2, <1>3, SessionDelete, SessionInsert DEF Next, DatabaseStep

LEMMA SessionInvariant == Spec => [](TypeInv /\ SessionInv)
  BY TypeInit, TypeNext, CredInit, CredNext, SessionInit, SessionNext, PTL DEF Spec

\* However many logins of one account interleave, a session never survives a
\* later login, not even one that the database has not answered yet.
THEOREM NoOlderCorrect == Spec => []NoOlderSession
<1>1. TypeInv /\ SessionInv => NoOlderSession
  BY DEF TypeInv, TypeOK, Session, SessionInv, BeforeInv, NoOlderSession
<1> QED
  BY <1>1, SessionInvariant, PTL

\* A token that was given out is refused only because another login of the
\* account cleared it or raced with it.
THEOREM RefusedCorrect == Spec => []RefusedOnlyIfReplaced
<1>1. TypeInv /\ SessionInv => RefusedOnlyIfReplaced
  <2> SUFFICES ASSUME TypeInv, SessionInv, NEW c \in Calls, pc[c] = "done",
                      FALSE \in CheckSession(account[c], c)
               PROVE  \E d \in Calls \ {c} :
                         /\ account[d] = account[c]
                         /\ c \in before[d] \/ Stored(d) \in sessions
    BY DEF RefusedOnlyIfReplaced, Stored
  <2>1. c \in inserted
    BY DEF SessionInv, PhaseInv, Given
  <2>2. CASE SessionsOf(account[c]) = {}
    <3>1. Stored(c) \notin sessions
      BY <2>2 DEF SessionsOf, Stored
    <3>2. PICK d \in Calls : c \in before[d] /\ account[d] = account[c]
      BY <2>1, <3>1 DEF SessionInv, KeptInv
    <3>3. d # c
      BY <3>2 DEF SessionInv, BeforeInv
    <3> QED
      BY <3>2, <3>3
  <2>3. CASE SessionsOf(account[c]) # {}
    <3>1. PICK s \in SessionsOf(account[c]) : s.token # c
      BY <2>3 DEF CheckSession
    <3>2. s.token \in Calls /\ s = Stored(s.token)
      BY <3>1 DEF SessionsOf, TypeInv, TypeOK, Session, SessionInv, OwnInv
    <3>3. account[s.token] = account[c]
      BY <3>1, <3>2 DEF SessionsOf, Stored
    <3> QED
      BY <3>1, <3>2, <3>3 DEF SessionsOf
  <2> QED
    BY <2>2, <2>3
<1> QED
  BY <1>1, SessionInvariant, PTL

\* Failures and crashes between the two operations included, an account that
\* had a session loses it only to a login that has not stored its own.
THEOREM GapCorrect == Spec => []GapOnlyInLogin
<1>1. SessionInv => GapOnlyInLogin
  BY DEF SessionInv
<1> QED
  BY <1>1, SessionInvariant, PTL

-----------------------------------------------------------------------------
(* The session table.  What the mapping needs besides the invariants above is *)
(* that a call has no account before it has found or created one.             *)

Lookup == {"idle", "findAccount", "findName", "insertAccount"}

FreshInv == \A c \in Calls : pc[c] \in Lookup => account[c] = None

LEMMA FreshInit == Init => FreshInv
  BY DEF Init, FreshInv

LEMMA FreshNext == TypeInv /\ FreshInv /\ [Next]_vars => FreshInv'
<1> SUFFICES ASSUME TypeInv, FreshInv, [Next]_vars PROVE FreshInv'
  OBVIOUS
<1>a. /\ pc \in [Calls -> Outcomes \cup DatabaseSteps \cup MemorySteps]
      /\ account \in [Calls -> Calls \cup {None}]
  BY DEF TypeInv, TypeOK, Outcomes
<1>1. ASSUME NEW c \in Calls, Start(c) \/ FindAccount(c) \/ FindName(c) \/ DatabaseFails(c)
      PROVE  FreshInv'
  <2>1. \A d \in Calls : d # c => pc'[d] = pc[d] /\ account'[d] = account[d]
    BY <1>1, <1>a DEF Start, FindAccount, FindName, DatabaseFails, Goto
  <2>2. pc[c] \in Lookup \cup DatabaseSteps
        /\ (pc'[c] \in Lookup => pc[c] \in Lookup /\ account'[c] = account[c])
    BY <1>1, <1>a DEF Start, FindAccount, FindName, DatabaseFails, Goto, Lookup
  <2> QED
    BY <2>1, <2>2 DEF FreshInv
<1>2. ASSUME NEW c \in Calls,
             \/ InsertAccount(c) \/ DeleteSessions(c) \/ InsertSession(c) \/ MemoryStep(c)
      PROVE  FreshInv'
  <2>1. \A d \in Calls : d # c => pc'[d] = pc[d] /\ account'[d] = account[d]
    BY <1>2, <1>a DEF InsertAccount, DeleteSessions, InsertSession, MemoryStep, GetKey,
       DropKey, DropUser, AddKey, AddUser, Reply, Goto, GotoOrFail
  <2>2. pc'[c] \in {"deleteSessions", "insertSession", "failed", "done"} \cup MemorySteps
    BY <1>2, <1>a DEF InsertAccount, DeleteSessions, InsertSession, MemoryStep, GetKey,
       DropKey, DropUser, AddKey, AddUser, Reply, Goto, GotoOrFail, MemorySteps
  <2>3. pc'[c] \notin Lookup
    BY <2>2, StepsDiffer DEF Lookup
  <2> QED
    BY <2>1, <2>3 DEF FreshInv
<1>3. CASE Crash \/ UNCHANGED vars
  BY <1>3 DEF Crash, vars, FreshInv, Lookup
<1> QED
  BY <1>1, <1>2, <1>3 DEF Next, DatabaseStep

\* The table's view of the calls.
ClearedCalls == {c \in Calls : before[c] # NotYet}
Valid == {s.token : s \in sessions}
Told == {c \in Calls : pc[c] = "done"}

LEMMA TableStill ==
    ASSUME UNCHANGED <<request, accounts, account, before, inserted, sessions>>, Told' = Told
    PROVE  UNCHANGED T!tableVars
BY DEF T!tableVars, Told

LEMMA ToldStill ==
    ASSUME NEW c \in Calls, pc[c] # "done", pc'[c] # "done",
           \A d \in Calls : d # c => pc'[d] = pc[d]
    PROVE  Told' = Told
BY DEF Told

LEMMA TableInit == Init => T!Init
<1> SUFFICES ASSUME Init PROVE T!Init
  OBVIOUS
<1>1. {c \in Calls : before[c] # NotYet} = {} /\ {c \in Calls : pc[c] = "done"} = {}
  BY DEF Init
<1>2. {s.token : s \in sessions} = {}
  BY DEF Init
<1> QED
  BY <1>1, <1>2 DEF Init, T!Init

LEMMA TableNext ==
    ASSUME TypeInv, CredInv, SessionInv, FreshInv, [Next]_vars
    PROVE  [T!Next]_(T!tableVars)
<1>a. /\ pc \in [Calls -> Outcomes \cup DatabaseSteps \cup MemorySteps]
      /\ account \in [Calls -> Calls \cup {None}]
      /\ before \in [Calls -> SUBSET (Calls \cup {None})]
      /\ \A s \in sessions : s.token \in Calls
  BY DEF TypeInv, TypeOK, Outcomes, Session
<1>1. ASSUME NEW c \in Calls, Start(c) \/ FindName(c) \/ DatabaseFails(c)
      PROVE  UNCHANGED T!tableVars
  <2>1. UNCHANGED <<request, accounts, account, before, inserted, sessions>>
    BY <1>1 DEF Start, FindName, DatabaseFails, dbVars, history
  <2>2. Told' = Told
    BY <1>1, <1>a, ToldStill DEF Start, FindName, DatabaseFails, Goto, DatabaseSteps
  <2> QED
    BY <2>1, <2>2, TableStill
<1>2. ASSUME NEW c \in Calls, FindAccount(c) PROVE T!Find(c) \/ UNCHANGED T!tableVars
  <2>1. UNCHANGED <<request, accounts, before, inserted, sessions>> /\ pc[c] = "findAccount"
    BY <1>2 DEF FindAccount, dbVars, history
  <2>2. Told' = Told
    BY <1>2, <1>a, ToldStill DEF FindAccount, Goto
  <2>3. CASE account' = account
    BY <2>1, <2>2, <2>3, TableStill
  <2>4. CASE \E a \in accounts : /\ a.name = request[c].name /\ a.pwd = request[c].pwd
                                 /\ account' = [account EXCEPT ![c] = a.id]
    <3>1. account[c] = None
      BY <2>1 DEF FreshInv, Lookup
    <3> QED
      BY <2>1, <2>2, <2>4, <3>1 DEF T!Find, Told
  <2>5. \/ account' = account
        \/ \E a \in accounts : /\ a.name = request[c].name /\ a.pwd = request[c].pwd
                               /\ account' = [account EXCEPT ![c] = a.id]
    BY <1>2 DEF FindAccount
  <2> QED
    BY <2>3, <2>4, <2>5
<1>3. ASSUME NEW c \in Calls, InsertAccount(c) PROVE T!Create(c)
  <2>1. UNCHANGED <<request, before, inserted, sessions>> /\ pc[c] = "insertAccount"
    BY <1>3 DEF InsertAccount, dbVars, history
  <2>2. Told' = Told
    BY <1>3, <1>a, ToldStill DEF InsertAccount, Goto, GotoOrFail
  <2>3. account[c] = None
    BY <2>1 DEF FreshInv, Lookup
  <2> QED
    BY <1>3, <2>1, <2>2, <2>3 DEF InsertAccount, T!Create, Told
<1>4. ASSUME NEW c \in Calls, DeleteSessions(c) PROVE T!Clear(c)
  <2>1. /\ UNCHANGED <<request, accounts, account, inserted>> /\ pc[c] = "deleteSessions"
        /\ sessions' = sessions \ SessionsOf(account[c])
        /\ before' = [before EXCEPT ![c] = {s.token : s \in SessionsOf(account[c])}]
    BY <1>4 DEF DeleteSessions
  <2>2. Told' = Told
    BY <1>4, <1>a, ToldStill DEF DeleteSessions, Goto, GotoOrFail
  <2>3. account[c] # None
    BY <2>1 DEF TypeInv, AccountInv, PastLookup
  <2>4. c \notin ClearedCalls
    BY <2>1, StepsDiffer DEF ClearedCalls, SessionInv, PhaseInv, Cleared, Given
  <2>5. ClearedCalls' = ClearedCalls \cup {c}
    <3>1. {s.token : s \in SessionsOf(account[c])} # NotYet
      <4>1. \A t \in {s.token : s \in SessionsOf(account[c])} : t \in Calls
        BY <1>a DEF SessionsOf
      <4>2. None \in NotYet
        BY DEF NotYet
      <4> QED
        BY <4>1, <4>2
    <3>2. \A d \in Calls : before'[d] # NotYet <=> before[d] # NotYet \/ d = c
      BY <1>a, <2>1, <3>1
    <3> QED
      BY <3>2 DEF ClearedCalls, NotYet
  <2>6. Valid' = {d \in Valid : account[d] # account[c]}
    <3>1. \A s \in sessions : s.account = account[s.token]
      BY DEF SessionInv, OwnInv, Stored
    <3> QED
      BY <2>1, <3>1 DEF Valid, SessionsOf
  <2> QED
    BY <2>1, <2>2, <2>3, <2>4, <2>5, <2>6 DEF T!Clear, Told, ClearedCalls, Valid
<1>5. ASSUME NEW c \in Calls, InsertSession(c) PROVE T!Open(c)
  <2>1. /\ UNCHANGED <<request, accounts, account, before>> /\ pc[c] = "insertSession"
        /\ inserted' = inserted \cup {c}
        /\ sessions' = sessions \cup {[account |-> account[c], token |-> c]}
    BY <1>5 DEF InsertSession
  <2>2. Told' = Told
    BY <1>5, <1>a, ToldStill DEF InsertSession, Goto, GotoOrFail
  <2>3. c \in ClearedCalls \ inserted
    BY <2>1, StepsDiffer DEF ClearedCalls, SessionInv, PhaseInv, Given
  <2>4. Valid' = Valid \cup {c}
    <3> DEFINE new == [account |-> account[c], token |-> c]
    <3>1. new.token = c /\ sessions' = sessions \cup {new}
      BY <2>1
    <3> HIDE DEF new
    <3>2. \A t : (\E s \in sessions' : t = s.token) <=> (\E s \in sessions : t = s.token) \/ t = c
      BY <3>1
    <3> QED
      BY <3>2 DEF Valid
  <2> QED
    BY <2>1, <2>2, <2>3, <2>4 DEF T!Open, Told, ClearedCalls, Valid
<1>6. ASSUME NEW c \in Calls, MemoryStep(c) PROVE T!Tell(c) \/ UNCHANGED T!tableVars
  <2>1. /\ UNCHANGED <<request, accounts, account, before, inserted, sessions>>
        /\ pc[c] \in MemorySteps
        /\ \A d \in Calls : d # c => pc'[d] = pc[d]
    BY <1>6, <1>a DEF MemoryStep, GetKey, DropKey, DropUser, AddKey, AddUser, Reply,
       Goto, GotoOrFail, dbVars, history, MemorySteps
  <2>2. pc[c] # "done"
    BY <2>1, StepsDiffer
  <2>3. CASE pc'[c] # "done"
    BY <2>1, <2>2, <2>3, ToldStill, TableStill
  <2>4. CASE pc'[c] = "done"
    <3>1. c \in inserted
      BY <2>1 DEF SessionInv, PhaseInv, Given
    <3>2. c \notin Told /\ Told' = Told \cup {c}
      BY <2>1, <2>2, <2>4 DEF Told
    <3> QED
      BY <2>1, <3>1, <3>2 DEF T!Tell, Told, ClearedCalls, Valid
  <2> QED
    BY <2>3, <2>4
<1>7. CASE Crash \/ UNCHANGED vars
  <2>1. UNCHANGED <<request, accounts, account, before, inserted, sessions>>
    BY <1>7 DEF Crash, vars, dbVars, history
  <2>2. \A c \in Calls : pc'[c] = "done" <=> pc[c] = "done"
    BY <1>7, <1>a, StepsDiffer DEF Crash, vars, DatabaseSteps
  <2>3. Told' = Told
    BY <2>2 DEF Told
  <2> QED
    BY <2>1, <2>3, TableStill
<1> QED
  BY <1>1, <1>2, <1>3, <1>4, <1>5, <1>6, <1>7 DEF Next, DatabaseStep, T!Next

\* For any calls, failures and crashes: the sessions that the database holds and
\* the answers that the clients get are those of a session table.
THEOREM Refinement == Spec => ImplementsSessionTable
  BY TypeInit, TypeNext, CredInit, CredNext, SessionInit, SessionNext, FreshInit,
     FreshNext, TableInit, TableNext, PTL DEF Spec, ImplementsSessionTable, T!Spec

=============================================================================
