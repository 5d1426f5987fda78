------------------------- MODULE SignalServiceProofs -------------------------
(***************************************************************************)
(* Theorems about SignalService, for any accounts, rooms and calls.        *)
(***************************************************************************)
EXTENDS SignalService, TLAPS

USE SignalAssumption

-----------------------------------------------------------------------------
(* Types.  What makes TypeOK inductive is the shape of a message under way:  *)
(* it has a sender's name and a kind once it has an addressee, and only then *)
(* a sender; and a handler sends presence only from its two loops.           *)

SendShape ==
    /\ \A r \in Senders :
          /\ sending[r].src # None => sending[r].dest # None
          /\ sending[r].dest # None =>
                sending[r].from \in Accounts /\ sending[r].kind # "none"
    /\ \A c \in Conns : sending[c].dest # None =>
          pc[c] \in {"announce", "withdraw"} /\ sending[c].from = acct(c)
    /\ \A r \in Routes : sending[r].kind \in {"none", "route"}

TypeInv == TypeOK /\ SendShape

LEMMA TypeInit == Init => TypeInv
  BY DEF Init, TypeInv, TypeOK, SendShape, Quiet, Steps, Senders

SendType == [kind : {"none", "online", "offline", "route"},
             from : Accounts \cup {None},
             dest : Conns \cup {None},
             src : Conns \cup {None}]

\* The first lookup of RouteMessageToOther leaves a well-formed message under
\* way, or none.
LEMMA LookupToShape ==
    ASSUME TypeInv, NEW r \in Senders, NEW kind \in {"online", "offline", "route"},
           NEW from \in Accounts, NEW to \in Accounts, LookupTo(r, kind, from, to)
    PROVE  /\ sending' \in [Senders -> SendType]
           /\ \A q \in Senders : q # r => sending'[q] = sending[q]
           /\ sending'[r].src = None
           /\ sending'[r].kind \in {"none", kind}
           /\ sending'[r].dest # None => sending'[r].from = from /\ sending'[r].kind = kind
<1> USE DEF TypeInv, TypeOK, SendType, Quiet
<1>1. CASE reg[to] = None
  BY <1>1 DEF LookupTo
<1>2. CASE reg[to] # None
  BY <1>2 DEF LookupTo
<1> QED
  BY <1>1, <1>2

\* A handler that is not inside RouteMessageToOther may go anywhere.
LEMMA ShapeKept ==
    ASSUME TypeInv, NEW c \in Conns, NEW step, pc' = [pc EXCEPT ![c] = step],
           sending[c].dest = None, sending' = sending, request' = request
    PROVE  SendShape'
<1>1. \A d \in Conns : d # c => pc'[d] = pc[d]
  BY DEF TypeInv, TypeOK
<1> QED
  BY <1>1 DEF TypeInv, SendShape, acct

\* Only the two loops of a handler are inside RouteMessageToOther.
LEMMA ShapeIdle ==
    ASSUME TypeInv, NEW c \in Conns, pc[c] \notin {"announce", "withdraw"}
    PROVE  sending[c].dest = None
BY DEF TypeInv, SendShape

LEMMA AccountOf == ASSUME TypeInv, NEW c \in Conns PROVE acct(c) \in Accounts
<1>1. request[c] \in [account : Accounts, room : Rooms]
  BY DEF TypeInv, TypeOK
<1> QED
  BY <1>1 DEF acct

LEMMA TypeNext == TypeInv /\ [Next]_vars => TypeInv'
<1> SUFFICES ASSUME TypeInv, [Next]_vars PROVE TypeInv'
  OBVIOUS
<1> USE DEF TypeInv, TypeOK, SendShape, Steps, Serving, Senders, Goto, acct
<1>1. ASSUME NEW c \in Conns, Call(c) \/ CheckSession(c) PROVE TypeInv'
  BY <1>1 DEF Call, CheckSession
<1>2. ASSUME NEW c \in Conns, LookupOld(c) PROVE TypeInv'
  <2>1. SendShape'
    <3>1. PICK step : pc' = [pc EXCEPT ![c] = step]
      BY <1>2 DEF LookupOld
    <3> QED
      BY <1>2, <3>1, ShapeIdle, ShapeKept DEF LookupOld
  <2>2. todo' \in [Conns -> SUBSET Accounts]
    BY <1>2 DEF LookupOld
  <2>3. CASE reg[acct(c)] = None
    BY <1>2, <2>1, <2>2, <2>3 DEF LookupOld
  <2>4. CASE reg[acct(c)] # None
    <3>1. reg[acct(c)] \in Conns
      BY <2>4, AccountOf
    <3>2. PICK t \in Conns : t = reg[acct(c)]
      BY <3>1
    <3>3. seen' = [seen EXCEPT ![c] = t] /\ pc' = [pc EXCEPT ![c] = "evict"]
      BY <1>2, <2>4, <3>2 DEF LookupOld
    <3>4. \A d \in Conns : pc'[d] \in {"evict", "test"} => seen'[d] # None
      BY <3>3
    <3>5. seen' \in [Conns -> Conns \cup {None}] /\ pc' \in [Conns -> Steps]
      BY <3>3
    <3> HIDE DEF SendShape
    <3> QED
      BY <1>2, <2>1, <3>4, <3>5, <2>2 DEF LookupOld
  <2> QED
    BY <2>3, <2>4
<1>3. ASSUME NEW c \in Conns, Evict(c) PROVE TypeInv'
  BY <1>3 DEF Evict
<1>4. ASSUME NEW c \in Conns, Unregister(c) PROVE TypeInv'
  <2>1. SendShape'
    <3>1. PICK step : pc' = [pc EXCEPT ![c] = step]
      BY <1>4 DEF Unregister
    <3> QED
      BY <1>4, <3>1, ShapeIdle, ShapeKept DEF Unregister
  <2>2. todo' \in [Conns -> SUBSET Accounts]
    BY <1>4 DEF Unregister
  <2>3. reg' \in [Accounts -> Conns \cup {None}]
    BY <1>4 DEF Unregister
  <2>4. PICK step \in {"announce", "ended"} : pc' = [pc EXCEPT ![c] = step]
    BY <1>4 DEF Unregister
  <2>5. /\ pc' \in [Conns -> Steps]
        /\ \A d \in Conns : pc'[d] \in {"evict", "test"} => pc[d] = pc'[d]
    BY <2>4
  <2> HIDE DEF SendShape
  <2> QED
    BY <1>4, <2>1, <2>2, <2>3, <2>5 DEF Unregister
<1>5. ASSUME NEW c \in Conns, NEW step \in {"announce", "withdraw"},
             NEW kind \in {"online", "offline"}, Visit(c, step, kind)
      PROVE TypeInv'
  <2>1. PICK to \in Accounts : LookupTo(c, kind, acct(c), to)
    <3>1. todo[c] \subseteq Accounts
      OBVIOUS
    <3> QED
      BY <1>5, <3>1 DEF Visit
  <2>2. /\ sending' \in [Senders -> SendType]
        /\ \A q \in Senders : q # c => sending'[q] = sending[q]
        /\ sending'[c].src = None
        /\ sending'[c].dest # None => sending'[c].from = acct(c) /\ sending'[c].kind = kind
    <3>1. c \in Senders /\ kind \in {"online", "offline", "route"}
      OBVIOUS
    <3>2. acct(c) \in Accounts
      BY AccountOf
    <3> HIDE DEF TypeInv, TypeOK, SendShape, acct, Senders
    <3> QED
      BY <2>1, <3>1, <3>2, LookupToShape
  <2>3. SendShape'
    <3>1. pc' = pc /\ pc[c] \in {"announce", "withdraw"} /\ request' = request
      BY <1>5 DEF Visit
    <3>2. acct(c) \in Accounts
      BY AccountOf
    <3>3. c \notin Routes
      OBVIOUS
    <3> QED
      BY <2>2, <3>1, <3>2, <3>3
  <2>4. todo' \in [Conns -> SUBSET Accounts]
    BY <1>5 DEF Visit
  <2> HIDE DEF SendShape
  <2> QED
    BY <1>5, <2>2, <2>3, <2>4 DEF Visit, SendType
<1>6. ASSUME NEW c \in Conns, NEW step, NEW next \in {"register", "ended"},
             EndVisits(c, step, next)
      PROVE TypeInv'
  BY <1>6 DEF EndVisits, Quiet
<1>7. ASSUME NEW c \in Conns, Register(c) PROVE TypeInv'
  BY <1>7 DEF Register
<1>8. ASSUME NEW c \in Conns, EndStream(c) \/ DisposeOwn(c) \/ HangUp(c) PROVE TypeInv'
  BY <1>8 DEF EndStream, DisposeOwn, HangUp
<1>9. ASSUME NEW c \in Conns, Peek(c) PROVE TypeInv'
  <2>1. SendShape'
    <3>1. PICK step : pc' = [pc EXCEPT ![c] = step]
      BY <1>9 DEF Peek
    <3> QED
      BY <1>9, <3>1, ShapeIdle, ShapeKept DEF Peek
  <2>2. CASE reg[acct(c)] = None
    BY <1>9, <2>1, <2>2 DEF Peek
  <2>3. CASE reg[acct(c)] # None
    <3>1. reg[acct(c)] \in Conns
      BY <2>3, AccountOf
    <3>2. PICK t \in Conns : t = reg[acct(c)]
      BY <3>1
    <3>3. seen' = [seen EXCEPT ![c] = t] /\ pc' = [pc EXCEPT ![c] = "test"]
      BY <1>9, <2>3, <3>2 DEF Peek
    <3>4. \A d \in Conns : pc'[d] \in {"evict", "test"} => seen'[d] # None
      BY <3>3
    <3>5. seen' \in [Conns -> Conns \cup {None}] /\ pc' \in [Conns -> Steps]
      BY <3>3
    <3> HIDE DEF SendShape
    <3> QED
      BY <1>9, <2>1, <3>4, <3>5 DEF Peek
  <2> QED
    BY <2>2, <2>3
<1>10. ASSUME NEW c \in Conns, TestClosed(c) PROVE TypeInv'
  <2>1. PICK step \in {"ended", "remove"} : pc' = [pc EXCEPT ![c] = step]
    BY <1>10 DEF TestClosed
  <2>2. SendShape'
    BY <1>10, <2>1, ShapeIdle, ShapeKept DEF TestClosed
  <2> QED
    BY <1>10, <2>1, <2>2 DEF TestClosed
<1>11. ASSUME NEW c \in Conns, Remove(c) PROVE TypeInv'
  BY <1>11 DEF Remove
<1>12. ASSUME NEW r \in Routes, NEW from \in Accounts, NEW to \in Accounts, Route(r, from, to)
       PROVE  TypeInv'
  <2>1. LookupTo(r, "route", from, to)
    BY <1>12 DEF Route
  <2>2. /\ sending' \in [Senders -> SendType]
        /\ \A q \in Senders : q # r => sending'[q] = sending[q]
        /\ sending'[r].src = None
        /\ sending'[r].kind \in {"none", "route"}
        /\ sending'[r].dest # None => sending'[r].from = from /\ sending'[r].kind = "route"
    BY <2>1, LookupToShape
  <2>3. SendShape'
    BY <1>12, <2>2 DEF Route
  <2> QED
    BY <1>12, <2>2, <2>3 DEF Route, SendType
<1>13. ASSUME NEW r \in Senders, LookupFrom(r) PROVE TypeInv'
  BY <1>13 DEF LookupFrom, Quiet
<1>14. ASSUME NEW r \in Senders, PushTo(r) PROVE TypeInv'
  BY <1>14 DEF PushTo, Quiet, Message
<1>15. CASE UNCHANGED vars
  BY <1>15 DEF vars
<1> QED
  BY <1>1, <1>2, <1>3, <1>4, <1>5, <1>6, <1>7, <1>8, <1>9, <1>10, <1>11,
     <1>12, <1>13, <1>14, <1>15 DEF Next, Handle, AnnounceOnline,
     AnnounceOffline, EndOnHangUp, EndOnDispose, Send

\* Every reachable state is well typed: in particular no handler disposes or
\* tests a client that its TryGetValue did not find, and nothing is pushed to
\* a client that is null.
THEOREM TypeCorrect == Spec => []TypeOK
<1>1. TypeInv => TypeOK
  BY DEF TypeInv
<1> QED
  BY <1>1, TypeInit, TypeNext, PTL DEF Spec

-----------------------------------------------------------------------------
(* The registration.  A registered client whose handler is past its Dispose  *)
(* is closed, and the handler that looks at the entry sees itself in it: so  *)
(* its test succeeds and it does remove the entry, unless another call has.  *)

ServedBy(a, c) ==
    /\ acct(c) = a
    /\ pc[c] \in Serving
    /\ pc[c] \in {"peek", "test", "remove"} => ~working[c]
    /\ pc[c] = "test" => seen[c] = c

RegInv == \A a \in Accounts : reg[a] # None => ServedBy(a, reg[a])

LEMMA RegInit == Init => RegInv
  BY DEF Init, RegInv

\* What a step does to the entries it leaves alone: nothing, as long as it
\* moves no handler that is serving and opens no closed buffer.
LEMMA ServedKept ==
    ASSUME TypeInv, TypeInv', RegInv, request' = request,
           NEW c \in Conns,
           \A d \in Conns : d # c => pc'[d] = pc[d] /\ seen'[d] = seen[d],
           \A d \in Conns : ~working[d] => ~working'[d],
           \A a \in Accounts : reg'[a] \in {reg[a], None, c},
           \A a \in Accounts : reg'[a] = c => ServedBy(a, c)'
    PROVE  RegInv'
<1> SUFFICES ASSUME NEW a \in Accounts, reg'[a] # None PROVE ServedBy(a, reg[a])'
  BY DEF RegInv
<1>1. CASE reg'[a] = c
  BY <1>1 DEF ServedBy, acct
<1>2. CASE reg'[a] # c
  <2>1. reg'[a] = reg[a] /\ reg[a] # None
    BY <1>2
  <2>2. PICK d \in Conns : d = reg[a]
    BY <2>1 DEF TypeInv, TypeOK
  <2>3. ServedBy(a, d) /\ d # c
    BY <1>2, <2>1, <2>2 DEF RegInv
  <2>4. pc'[d] = pc[d] /\ seen'[d] = seen[d] /\ (~working[d] => ~working'[d])
    BY <2>3
  <2>5. ServedBy(a, d)'
    BY <2>3, <2>4 DEF ServedBy, acct
  <2> QED
    BY <2>1, <2>2, <2>5 DEF ServedBy, acct
<1> QED
  BY <1>1, <1>2

LEMMA RegNext == TypeInv /\ TypeInv' /\ RegInv /\ [Next]_vars => RegInv'
<1> SUFFICES ASSUME TypeInv, TypeInv', RegInv, [Next]_vars PROVE RegInv'
  OBVIOUS
<1> DEFINE Own(c) == \A a \in Accounts : reg[a] = c => ServedBy(a, c)
<1>a. \A c \in Conns : Own(c)
  BY DEF RegInv
<1>b. /\ pc \in [Conns -> Steps] /\ seen \in [Conns -> Conns \cup {None}]
      /\ working \in [Conns -> BOOLEAN] /\ reg \in [Accounts -> Conns \cup {None}]
  BY DEF TypeInv, TypeOK
<1>1. ASSUME NEW c \in Conns, Call(c) \/ CheckSession(c) \/ LookupOld(c)
      PROVE RegInv'
  <2>1. pc[c] \notin Serving /\ reg' = reg /\ working' = working /\ request' = request
    BY <1>1 DEF Call, CheckSession, LookupOld, Serving
  <2>2. \A d \in Conns : d # c => pc'[d] = pc[d] /\ seen'[d] = seen[d]
    BY <1>1, <1>b DEF Call, CheckSession, LookupOld, Goto
  <2>3. \A a \in Accounts : reg[a] # c
    BY <1>a, <2>1 DEF ServedBy
  <2> QED
    BY <2>1, <2>2, <2>3, ServedKept
<1>2. ASSUME NEW c \in Conns, Evict(c) PROVE RegInv'
  <2>1. pc[c] \notin Serving /\ reg' = reg /\ request' = request
    BY <1>2 DEF Evict, Serving
  <2>2. \A d \in Conns : d # c => pc'[d] = pc[d] /\ seen'[d] = seen[d]
    BY <1>2, <1>b DEF Evict, Goto
  <2>3. \A d \in Conns : ~working[d] => ~working'[d]
    BY <1>2, <1>b DEF Evict
  <2>4. \A a \in Accounts : reg[a] # c
    BY <1>a, <2>1 DEF ServedBy
  <2> QED
    BY <2>1, <2>2, <2>3, <2>4, ServedKept
<1>3. ASSUME NEW c \in Conns, Unregister(c) \/ Remove(c) PROVE RegInv'
  <2>1. working' = working /\ request' = request /\ seen' = seen
    BY <1>3 DEF Unregister, Remove
  <2>2. \A d \in Conns : d # c => pc'[d] = pc[d]
    BY <1>3, <1>b DEF Unregister, Remove, Goto
  <2>3. \A a \in Accounts : reg'[a] \in {reg[a], None}
    BY <1>3, <1>b DEF Unregister, Remove
  <2>4. \A a \in Accounts : reg'[a] # c
    <3>1. CASE Unregister(c)
      <4>1. pc[c] \notin Serving
        BY <3>1 DEF Unregister, Serving
      <4> QED
        BY <1>a, <2>3, <4>1 DEF ServedBy
    <3>2. CASE Remove(c)
      <4>1. \A a \in Accounts : reg[a] = c => a = acct(c)
        BY <1>a DEF ServedBy
      <4>2. \A a \in Accounts : a = acct(c) => reg'[a] = None
        BY <3>2, <1>b DEF Remove
      <4> QED
        BY <2>3, <4>1, <4>2
    <3> QED
      BY <1>3, <3>1, <3>2
  <2> QED
    BY <2>1, <2>2, <2>3, <2>4, ServedKept
<1>4. ASSUME NEW c \in Conns, Register(c) PROVE RegInv'
  <2>1. /\ working' = working /\ request' = request /\ seen' = seen
        /\ pc'[c] = "stream"
    BY <1>4, <1>b DEF Register, Goto
  <2>2. \A d \in Conns : d # c => pc'[d] = pc[d]
    BY <1>4, <1>b DEF Register, Goto
  <2>3. \A a \in Accounts : reg[a] # c
    BY <1>a, <1>4 DEF ServedBy, Register, Serving
  <2>4. \A a \in Accounts : reg'[a] \in {reg[a], c} /\ (reg'[a] = c => a = acct(c))
    BY <1>4, <1>b, <2>3 DEF Register
  <2>5. \A a \in Accounts : reg'[a] = c => ServedBy(a, c)'
    BY <2>1, <2>4 DEF ServedBy, Serving, acct
  <2> QED
    BY <2>1, <2>2, <2>4, <2>5, ServedKept
<1>5. ASSUME NEW c \in Conns, EndStream(c) PROVE RegInv'
  <2>1. /\ working' = working /\ request' = request /\ seen' = seen /\ reg' = reg
        /\ pc'[c] = "dispose"
    BY <1>5, <1>b DEF EndStream, Goto
  <2>2. \A d \in Conns : d # c => pc'[d] = pc[d]
    BY <1>5, <1>b DEF EndStream, Goto
  <2>3. \A a \in Accounts : reg'[a] = c => ServedBy(a, c)'
    BY <1>a, <2>1 DEF ServedBy, Serving, acct
  <2> QED
    BY <2>1, <2>2, <2>3, ServedKept
<1>6. ASSUME NEW c \in Conns, DisposeOwn(c) PROVE RegInv'
  <2>1. /\ request' = request /\ seen' = seen /\ reg' = reg
        /\ pc'[c] = "peek" /\ ~working'[c]
    BY <1>6, <1>b DEF DisposeOwn, Goto
  <2>2. \A d \in Conns : /\ d # c => pc'[d] = pc[d]
                         /\ ~working[d] => ~working'[d]
    BY <1>6, <1>b DEF DisposeOwn, Goto
  <2>3. \A a \in Accounts : reg'[a] = c => ServedBy(a, c)'
    BY <1>a, <2>1 DEF ServedBy, Serving, acct
  <2> QED
    BY <2>1, <2>2, <2>3, ServedKept
<1>7. ASSUME NEW c \in Conns, Peek(c) PROVE RegInv'
  <2>1. pc[c] = "peek" /\ request' = request /\ working' = working /\ reg' = reg
    BY <1>7 DEF Peek
  <2>2. \A d \in Conns : d # c => pc'[d] = pc[d] /\ seen'[d] = seen[d]
    BY <1>7, <1>b DEF Peek, Goto
  <2>3. ASSUME NEW a \in Accounts, reg[a] = c PROVE ServedBy(a, c)'
    <3>1. acct(c) = a /\ ~working[c] /\ reg[acct(c)] = c
      BY <1>a, <2>1, <2>3 DEF ServedBy
    <3>2. reg[acct(c)] # None
      BY <3>1
    <3>3. pc'[c] = "test" /\ seen'[c] = c
      BY <1>7, <1>b, <3>1, <3>2 DEF Peek, Goto
    <3> QED
      BY <2>1, <3>1, <3>3 DEF ServedBy, Serving, acct
  <2> QED
    BY <2>1, <2>2, <2>3, ServedKept
<1>8. ASSUME NEW c \in Conns, TestClosed(c) PROVE RegInv'
  <2>1. pc[c] = "test" /\ request' = request /\ working' = working /\ reg' = reg
    BY <1>8 DEF TestClosed
  <2>2. \A d \in Conns : d # c => pc'[d] = pc[d] /\ seen'[d] = seen[d]
    BY <1>8, <1>b DEF TestClosed, Goto
  <2>3. ASSUME NEW a \in Accounts, reg[a] = c PROVE ServedBy(a, c)'
    <3>1. acct(c) = a /\ ~working[c] /\ seen[c] = c
      BY <1>a, <2>1, <2>3 DEF ServedBy
    <3>2. pc'[c] = "remove"
      BY <1>8, <1>b, <3>1 DEF TestClosed, Goto
    <3> QED
      BY <2>1, <3>1, <3>2 DEF ServedBy, Serving, acct
  <2> QED
    BY <2>1, <2>2, <2>3, ServedKept
<1>9. ASSUME NEW c \in Conns, NEW step \in {"announce", "withdraw"}, NEW next,
             EndVisits(c, step, next)
      PROVE RegInv'
  <2>1. /\ pc[c] \notin Serving /\ reg' = reg /\ working' = working /\ request' = request
        /\ seen' = seen
    BY <1>9 DEF EndVisits, Serving
  <2>2. \A d \in Conns : d # c => pc'[d] = pc[d]
    BY <1>9, <1>b DEF EndVisits, Goto
  <2>3. \A a \in Accounts : reg[a] # c
    BY <1>a, <2>1 DEF ServedBy
  <2> QED
    BY <2>1, <2>2, <2>3, ServedKept
<1>10. CASE UNCHANGED <<request, reg, pc, seen, working>>
  BY <1>10 DEF RegInv, ServedBy, acct
<1>11. ASSUME NEW c \in Conns, NEW step, NEW kind, Visit(c, step, kind)
       PROVE UNCHANGED <<request, reg, pc, seen, working>>
  BY <1>11 DEF Visit
<1>12. ASSUME NEW c \in Conns, HangUp(c) PROVE UNCHANGED <<request, reg, pc, seen, working>>
  BY <1>12 DEF HangUp
<1>13. ASSUME NEW r \in Senders, NEW from, NEW to,
              Route(r, from, to) \/ LookupFrom(r) \/ PushTo(r)
       PROVE UNCHANGED <<request, reg, pc, seen, working>>
  BY <1>13 DEF Route, LookupFrom, PushTo
<1>14. UNCHANGED vars => UNCHANGED <<request, reg, pc, seen, working>>
  BY DEF vars
<1>15. Routes \subseteq Senders
  BY DEF Senders
<1> QED
  BY <1>1, <1>2, <1>3, <1>4, <1>5, <1>6, <1>7, <1>8, <1>9, <1>10, <1>11, <1>12,
     <1>13, <1>14, <1>15 DEF Next, Handle, AnnounceOnline, AnnounceOffline,
     EndOnHangUp, EndOnDispose, Send

\* However the Connect calls of an account interleave, the dictionary never
\* keeps an entry whose handler has given up removing it.
THEOREM RegistrationCorrect == Spec => []RegisteredIsServed
<1>1. RegInv => RegisteredIsServed
  BY DEF RegInv, RegisteredIsServed, ServedBy
<1> QED
  BY <1>1, TypeInit, TypeNext, RegInit, RegNext, PTL DEF Spec

-----------------------------------------------------------------------------
(* The messages.  Once RouteMessageToOther has found both ends it holds two   *)
(* clients of one room, and the sender's was registered at that moment.  When *)
(* the message announces a presence, its handler is not registered itself.    *)

\* d may speak as a in room r.
Speaks(d, a, r) == acct(d) = a /\ room(d) = r /\ Admitted(d)

Rivals(a) ==
    \E d, e \in Conns : /\ d # e /\ acct(d) = a /\ acct(e) = a
                        /\ Admitted(d) /\ Admitted(e)

\* A message with both ends found, and a message in the outbox of c.
GoodSending(m) == m.src # None =>
    /\ Speaks(m.src, m.from, room(m.dest))
    /\ m.kind # "route" => Rivals(m.from)

GoodMessage(c, m) ==
    /\ \E d \in Conns : Speaks(d, m.from, room(c))
    /\ m.kind # "route" => Rivals(m.from)

MailInv ==
    /\ \A r \in Senders : GoodSending(sending[r])
    /\ \A c \in Conns : \A m \in outbox[c] : GoodMessage(c, m)

LEMMA MailInit == Init => MailInv
  BY DEF Init, MailInv, GoodSending, Quiet

\* A call once admitted stays admitted, for the account and room it asked for.
LEMMA AdmittedKept ==
    ASSUME TypeInv, [Next]_vars
    PROVE  /\ request' = request
           /\ \A c \in Conns : Admitted(c) => Admitted(c)'
<1>1. ASSUME NEW c \in Conns, Call(c) \/ Handle(c) \/ EndOnDispose(c) \/ HangUp(c)
      PROVE request' = request /\ \A d \in Conns : Admitted(d) => Admitted(d)'
  <2>1. request' = request
    BY <1>1 DEF Call, Handle, CheckSession, LookupOld, Evict, Unregister,
       AnnounceOnline, AnnounceOffline, Visit, EndVisits, Register, EndOnHangUp,
       EndOnDispose, EndStream, DisposeOwn, Peek, TestClosed, Remove, HangUp
  <2>2. \/ pc' = pc
        \/ \E step : pc' = [pc EXCEPT ![c] = step] /\ ~Admitted(c)
        \/ \E step \in Steps \ {"idle", "check", "refused"} :
               pc' = [pc EXCEPT ![c] = step]
    BY <1>1 DEF Call, Handle, CheckSession, LookupOld, Evict, Unregister,
       AnnounceOnline, AnnounceOffline, Visit, EndVisits, Register, EndOnHangUp,
       EndOnDispose, EndStream, DisposeOwn, Peek, TestClosed, Remove, HangUp,
       Goto, Admitted, Steps, Serving
  <2> QED
    BY <2>1, <2>2 DEF Admitted, TypeInv, TypeOK
<1>2. ASSUME NEW r \in Senders, NEW from, NEW to, Route(r, from, to) \/ Send(r)
      PROVE UNCHANGED <<request, pc>>
  BY <1>2 DEF Route, Send, LookupFrom, PushTo
<1>3. UNCHANGED vars => UNCHANGED <<request, pc>>
  BY DEF vars
<1>4. UNCHANGED <<request, pc>> => request' = request /\ \A d \in Conns : Admitted(d) => Admitted(d)'
  BY DEF Admitted
<1> QED
  BY <1>1, <1>2, <1>3, <1>4 DEF Next, Senders

\* So what is a good message before a step is one after it.
LEMMA GoodKept ==
    ASSUME TypeInv, [Next]_vars
    PROVE  /\ \A m \in SendType : GoodSending(m) => GoodSending(m)'
           /\ \A c \in Conns, m \in Message : GoodMessage(c, m) => GoodMessage(c, m)'
<1>1. /\ request' = request
      /\ \A c \in Conns : Admitted(c) => Admitted(c)'
  BY AdmittedKept
<1>2. \A a : Rivals(a) => Rivals(a)'
  BY <1>1 DEF Rivals, acct
<1>3. \A d \in Conns : \A a, r : Speaks(d, a, r) => Speaks(d, a, r)'
  BY <1>1 DEF Speaks, acct, room
<1>4. \A c : room(c)' = room(c)
  BY <1>1 DEF room
<1>5. ASSUME NEW m \in SendType, GoodSending(m) PROVE GoodSending(m)'
  <2>1. PICK src, from, r, kind : src = m.src /\ from = m.from /\ r = room(m.dest) /\ kind = m.kind
    OBVIOUS
  <2>2. src \in Conns \cup {None}
    BY <2>1 DEF SendType
  <2>3. src # None => Speaks(src, from, r)' /\ (kind # "route" => Rivals(from)')
    BY <1>2, <1>3, <1>5, <2>1, <2>2 DEF GoodSending
  <2>4. r = room(m.dest)'
    BY <1>4, <2>1
  <2> QED
    BY <2>1, <2>3, <2>4 DEF GoodSending
<1>6. ASSUME NEW c \in Conns, NEW m \in Message, GoodMessage(c, m) PROVE GoodMessage(c, m)'
  <2>1. PICK d \in Conns : Speaks(d, m.from, room(c))
    BY <1>6 DEF GoodMessage
  <2>2. Speaks(d, m.from, room(c))'
    BY <1>1, <2>1 DEF Speaks, acct, room
  <2>3. m.kind # "route" => Rivals(m.from)'
    BY <1>2, <1>6 DEF GoodMessage
  <2> QED
    BY <2>2, <2>3 DEF GoodMessage
<1> QED
  BY <1>5, <1>6

LEMMA MailNext == TypeInv /\ TypeInv' /\ RegInv /\ MailInv /\ [Next]_vars => MailInv'
<1> SUFFICES ASSUME TypeInv, TypeInv', RegInv, MailInv, [Next]_vars PROVE MailInv'
  OBVIOUS
<1>a. /\ sending \in [Senders -> SendType] /\ sending' \in [Senders -> SendType]
      /\ outbox \in [Conns -> SUBSET Message]
      /\ \A r \in Senders : /\ sending[r].src # None => sending[r].dest # None
                            /\ sending[r].dest # None => sending[r].from \in Accounts
  BY DEF TypeInv, TypeOK, SendType, SendShape
<1>b. \A r \in Senders : sending'[r] \in {sending[r], Quiet} \/ sending'[r].src = None
         => GoodSending(sending[r])'
  <2> SUFFICES ASSUME NEW r \in Senders,
                      sending'[r] \in {sending[r], Quiet} \/ sending'[r].src = None
               PROVE  GoodSending(sending[r])'
    OBVIOUS
  <2>1. PICK m \in SendType : m = sending[r]
    BY <1>a
  <2>2. GoodSending(m)'
    BY <2>1, GoodKept DEF MailInv
  <2>3. CASE sending'[r] = m
    BY <2>2, <2>3 DEF GoodSending
  <2>4. CASE sending'[r].src = None
    BY <2>4 DEF GoodSending
  <2>5. Quiet.src = None
    BY DEF Quiet
  <2> QED
    BY <2>1, <2>3, <2>4, <2>5
<1>c. \A c \in Conns : \A m \in outbox[c] : GoodMessage(c, m)'
  BY <1>a, GoodKept DEF MailInv
<1>1. CASE /\ outbox' = outbox
           /\ \A r \in Senders : sending'[r] \in {sending[r], Quiet} \/ sending'[r].src = None
  BY <1>1, <1>b, <1>c DEF MailInv
<1>2. ASSUME NEW r \in Senders, LookupFrom(r) PROVE MailInv'
  <2>1. PICK m \in SendType : m = sending[r]
    BY <1>a
  <2>2. outbox' = outbox /\ m.dest # None /\ m.from \in Accounts
    BY <1>2, <1>a, <2>1 DEF LookupFrom
  <2>3. PICK s : s = reg[m.from]
    OBVIOUS
  <2>4. CASE ~(s # None /\ room(s) = room(m.dest))
    <3>1. sending' = [sending EXCEPT ![r] = Quiet]
      BY <1>2, <2>1, <2>3, <2>4 DEF LookupFrom
    <3> QED
      BY <1>1, <1>a, <2>2, <3>1
  <2>5. CASE s # None /\ room(s) = room(m.dest)
    <3>1. sending' = [sending EXCEPT ![r].src = s]
      BY <1>2, <2>1, <2>3, <2>5 DEF LookupFrom
    <3>2. s \in Conns /\ ServedBy(m.from, s)
      BY <2>2, <2>3, <2>5 DEF RegInv, TypeInv, TypeOK
    <3>3. PICK n \in SendType : n = [m EXCEPT !.src = s]
      BY <3>2 DEF SendType
    <3>4. /\ n.src = s /\ n.from = m.from /\ n.dest = m.dest /\ n.kind = m.kind
          /\ \A q \in Senders : sending'[q] = IF q = r THEN n ELSE sending[q]
      BY <1>a, <2>1, <3>1, <3>3 DEF SendType
    <3>5. Speaks(s, m.from, room(m.dest))
      BY <2>5, <3>2 DEF Speaks, ServedBy, Serving, Admitted
    <3>6. ASSUME m.kind # "route" PROVE Rivals(m.from)
      <4>1. r \in Conns /\ pc[r] \in {"announce", "withdraw"} /\ acct(r) = m.from
        <5>1. m.kind # "none"
          BY <2>1, <2>2 DEF TypeInv, SendShape
        <5>2. r \notin Routes
          BY <2>1, <3>6, <5>1 DEF TypeInv, SendShape
        <5> QED
          BY <2>1, <2>2, <5>2 DEF TypeInv, SendShape, Senders
      <4>2. r # s /\ acct(s) = m.from /\ Admitted(r) /\ Admitted(s)
        BY <3>2, <4>1 DEF ServedBy, Serving, Admitted
      <4> QED
        BY <3>2, <4>1, <4>2 DEF Rivals
    <3>7. GoodSending(n)
      BY <3>4, <3>5, <3>6 DEF GoodSending
    <3>8. GoodSending(n)'
      BY <3>7, GoodKept
    <3>9. GoodSending(sending[r])'
      BY <3>4, <3>8 DEF GoodSending
    <3> QED
      BY <1>b, <1>c, <2>2, <3>4, <3>9 DEF MailInv
  <2> QED
    BY <2>4, <2>5
<1>3. ASSUME NEW r \in Senders, PushTo(r) PROVE MailInv'
  <2>1. PICK m \in SendType : m = sending[r]
    BY <1>a
  <2>2. m.src \in Conns /\ m.dest \in Conns /\ GoodSending(m)
    BY <1>3, <1>a, <2>1 DEF PushTo, MailInv, SendType
  <2>3. PICK n : n = [kind |-> m.kind, from |-> m.from]
    OBVIOUS
  <2>4. n \in Message
    BY <1>a, <2>1, <2>2, <2>3 DEF SendType, Message, TypeInv, SendShape
  <2>5. GoodMessage(m.dest, n)
    BY <2>2, <2>3 DEF GoodSending, GoodMessage
  <2>6. PICK t \in Conns : t = m.dest
    BY <2>2
  <2>7. GoodMessage(t, n)'
    BY <2>4, <2>5, <2>6, GoodKept
  <2>8. outbox' = [outbox EXCEPT ![t] = @ \cup {n}]
    BY <1>3, <2>1, <2>3, <2>6 DEF PushTo
  <2>9. \A q \in Senders : sending'[q] \in {sending[q], Quiet}
    BY <1>3, <1>a DEF PushTo
  <2>10. \A c \in Conns : \A k \in outbox'[c] : k \in outbox[c] \/ (c = t /\ k = n)
    BY <1>a, <2>8
  <2> QED
    BY <1>b, <1>c, <2>7, <2>9, <2>10 DEF MailInv
<1>4. ASSUME NEW r \in Senders, NEW kind, NEW from, NEW to, LookupTo(r, kind, from, to)
      PROVE \A q \in Senders : sending'[q] \in {sending[q], Quiet} \/ sending'[q].src = None
  BY <1>4, <1>a DEF LookupTo
<1>5. ASSUME NEW c \in Conns, NEW step, NEW kind, Visit(c, step, kind) PROVE MailInv'
  <2>1. outbox' = outbox /\ \E to : LookupTo(c, kind, acct(c), to)
    BY <1>5 DEF Visit
  <2> QED
    BY <1>1, <1>4, <2>1 DEF Senders
<1>6. ASSUME NEW r \in Routes, NEW from, NEW to, Route(r, from, to) PROVE MailInv'
  <2>1. outbox' = outbox /\ LookupTo(r, "route", from, to)
    BY <1>6 DEF Route
  <2> QED
    BY <1>1, <1>4, <2>1 DEF Senders
<1>7. CASE UNCHANGED <<sending, outbox>>
  BY <1>1, <1>7
<1>8. ASSUME NEW c \in Conns,
             \/ Call(c) \/ CheckSession(c) \/ LookupOld(c) \/ Evict(c) \/ Unregister(c)
             \/ Register(c) \/ EndStream(c) \/ DisposeOwn(c) \/ Peek(c)
             \/ TestClosed(c) \/ Remove(c) \/ HangUp(c)
      PROVE UNCHANGED <<sending, outbox>>
  BY <1>8 DEF Call, CheckSession, LookupOld, Evict, Unregister, Register,
     EndStream, DisposeOwn, Peek, TestClosed, Remove, HangUp
<1>9. ASSUME NEW c \in Conns, NEW step, NEW next, EndVisits(c, step, next)
      PROVE UNCHANGED <<sending, outbox>>
  BY <1>9 DEF EndVisits
<1>10. UNCHANGED vars => UNCHANGED <<sending, outbox>>
  BY DEF vars
<1> QED
  BY <1>2, <1>3, <1>5, <1>6, <1>7, <1>8, <1>9, <1>10 DEF Next, Handle,
     AnnounceOnline, AnnounceOffline, EndOnHangUp, EndOnDispose, Send

\* Whatever happens, a message reaches a client only in the name of an
\* admitted account of its own room.
THEOREM NoStrangerCorrect == Spec => []NoStranger
<1>1. MailInv => NoStranger
  BY DEF MailInv, GoodMessage, Speaks, NoStranger
<1> QED
  BY <1>1, TypeInit, TypeNext, RegInit, RegNext, MailInit, MailNext, PTL DEF Spec

\* And a presence message only if its account has connected twice: the
\* announcements of Connect never serve an account that connects once.
THEOREM PresenceCorrect == Spec => []PresenceNeedsRival
<1>1. MailInv => PresenceNeedsRival
  <2> SUFFICES ASSUME MailInv, NEW c \in Conns, NEW m \in outbox[c],
                      m.kind \in {"online", "offline"}
               PROVE  Rivals(m.from)
    BY DEF PresenceNeedsRival, Rivals
  <2> QED
    BY DEF MailInv, GoodMessage
<1> QED
  BY <1>1, TypeInit, TypeNext, RegInit, RegNext, MailInit, MailNext, PTL DEF Spec

-----------------------------------------------------------------------------
(* Clients that stream unlisted.  Only three steps can make one: a TryAdd     *)
(* that fails, and the two removals by name.                                  *)

Listed(c) == pc[c] = "stream" /\ working[c] => reg[acct(c)] = c

HasRival(c) == \E d \in Conns \ {c} : acct(d) = acct(c) /\ Admitted(d)

LEMMA UnlistedInit == Init => UnlistedHasRival
  BY DEF Init, UnlistedHasRival

LEMMA UnlistedNext ==
    TypeInv /\ TypeInv' /\ RegInv /\ UnlistedHasRival /\ [Next]_vars => UnlistedHasRival'
<1> SUFFICES ASSUME TypeInv, TypeInv', RegInv, UnlistedHasRival, [Next]_vars,
                    NEW c \in Conns
             PROVE  Listed(c)' \/ HasRival(c)'
  BY DEF UnlistedHasRival, Listed, HasRival, acct
<1>a. /\ pc \in [Conns -> Steps] /\ working \in [Conns -> BOOLEAN]
      /\ reg \in [Accounts -> Conns \cup {None}] /\ acct(c) \in Accounts
  BY AccountOf DEF TypeInv, TypeOK
<1>b. Listed(c) \/ HasRival(c)
  BY DEF UnlistedHasRival, Listed, HasRival
<1>c. HasRival(c) => HasRival(c)'
  BY AdmittedKept DEF HasRival, acct
\* the entry stays, and the client was streaming already
<1>d. ASSUME pc'[c] = "stream" => pc[c] = "stream", working'[c] => working[c],
             reg[acct(c)] = c => reg'[acct(c)] = c
      PROVE  Listed(c)' \/ HasRival(c)'
  <2>1. acct(c)' = acct(c)
    BY AdmittedKept DEF acct
  <2> QED
    BY <1>b, <1>c, <1>d, <2>1 DEF Listed
<1>1. ASSUME NEW d \in Conns, Unregister(d) \/ Remove(d) PROVE Listed(c)' \/ HasRival(c)'
  <2>1. /\ pc[d] \in {"unregister", "remove"} /\ pc'[d] # "stream"
        /\ working' = working /\ request' = request
        /\ \A e \in Conns : e # d => pc'[e] = pc[e]
        /\ \A a \in Accounts : a # acct(d) => reg'[a] = reg[a]
    BY <1>1, <1>a DEF Unregister, Remove, Goto
  <2>2. CASE acct(d) = acct(c) /\ d # c
    <3>1. HasRival(c)
      BY <2>1, <2>2 DEF HasRival, Admitted
    <3> QED
      BY <1>c, <3>1
  <2>3. CASE d = c
    BY <2>1, <2>3 DEF Listed
  <2>4. CASE acct(d) # acct(c)
    BY <1>a, <1>d, <2>1, <2>4
  <2> QED
    BY <2>2, <2>3, <2>4
<1>2. ASSUME NEW d \in Conns, Register(d) PROVE Listed(c)' \/ HasRival(c)'
  <2>1. /\ pc[d] = "register" /\ request' = request /\ working' = working
        /\ \A e \in Conns : e # d => pc'[e] = pc[e]
        /\ \A a \in Accounts : reg[a] # None => reg'[a] = reg[a]
    BY <1>2, <1>a DEF Register, Goto
  <2>2. CASE d = c /\ reg[acct(c)] = None
    <3>1. reg'[acct(c)] = c
      BY <1>2, <1>a, <2>2 DEF Register
    <3> QED
      BY <2>1, <3>1 DEF Listed, acct
  <2>3. CASE d = c /\ reg[acct(c)] # None
    <3>1. PICK e \in Conns : e = reg[acct(c)]
      BY <1>a, <2>3
    <3>2. acct(e) = acct(c) /\ pc[e] \in Serving
      BY <1>a, <2>3, <3>1 DEF RegInv, ServedBy
    <3>3. e # c /\ Admitted(e)
      BY <2>1, <2>3, <3>2 DEF Serving, Admitted
    <3> QED
      BY <1>c, <3>2, <3>3 DEF HasRival
  <2>4. CASE d # c
    <3>1. reg[acct(c)] = c => reg'[acct(c)] = c
      BY <1>a, <2>1, SignalAssumption
    <3> QED
      BY <1>d, <2>1, <2>4, <3>1
  <2> QED
    BY <2>2, <2>3, <2>4
<1>3. ASSUME NEW d \in Conns,
             \/ Call(d) \/ CheckSession(d) \/ LookupOld(d) \/ Evict(d)
             \/ EndStream(d) \/ DisposeOwn(d) \/ Peek(d) \/ TestClosed(d)
      PROVE  Listed(c)' \/ HasRival(c)'
  <2>1. /\ reg' = reg /\ pc'[d] # "stream"
        /\ \A e \in Conns : e # d => pc'[e] = pc[e]
        /\ \A e \in Conns : working'[e] => working[e]
    BY <1>3, <1>a DEF Call, CheckSession, LookupOld, Evict, EndStream, DisposeOwn,
       Peek, TestClosed, Goto
  <2> QED
    BY <1>d, <2>1
<1>4. ASSUME NEW d \in Conns,
             \/ EndVisits(d, "announce", "register") \/ EndVisits(d, "withdraw", "ended")
      PROVE  Listed(c)' \/ HasRival(c)'
  <2>1. /\ reg' = reg /\ pc'[d] # "stream" /\ working' = working
        /\ \A e \in Conns : e # d => pc'[e] = pc[e]
    BY <1>4, <1>a DEF EndVisits, Goto
  <2> QED
    BY <1>d, <2>1
<1>5. CASE UNCHANGED <<reg, pc, working>>
  BY <1>5, <1>d
<1>6. ASSUME NEW d \in Conns, NEW step, NEW kind, Visit(d, step, kind) \/ HangUp(d)
      PROVE  UNCHANGED <<reg, pc, working>>
  BY <1>6 DEF Visit, HangUp
<1>7. ASSUME NEW r \in Senders, NEW from, NEW to,
             Route(r, from, to) \/ LookupFrom(r) \/ PushTo(r)
      PROVE  UNCHANGED <<reg, pc, working>>
  BY <1>7 DEF Route, LookupFrom, PushTo
<1>8. UNCHANGED vars => UNCHANGED <<reg, pc, working>>
  BY DEF vars
<1>9. Routes \subseteq Senders
  BY DEF Senders
<1> QED
  BY <1>1, <1>2, <1>3, <1>4, <1>5, <1>6, <1>7, <1>8, <1>9 DEF Next, Handle,
     AnnounceOnline, AnnounceOffline, EndOnHangUp, EndOnDispose, Send

\* For any number of calls: a client that streams but cannot be found has met
\* another call of its account.
THEOREM UnlistedCorrect == Spec => []UnlistedHasRival
  BY TypeInit, TypeNext, RegInit, RegNext, UnlistedInit, UnlistedNext, PTL DEF Spec

-----------------------------------------------------------------------------
(* A call registers once.  What its handler has past Register only takes it  *)
(* off the list, and nobody opens a buffer again.                            *)

Registered(c) == reg[acct(c)] = c

LEMMA PastKept ==
    ASSUME TypeInv, [Next]_vars, NEW c \in Conns, Past(c)
    PROVE  /\ Past(c)'
           /\ reg'[acct(c)] = c => reg[acct(c)] = c
           /\ working'[c] => working[c]
<1> DEFINE Kept == /\ Past(c)'
                   /\ reg'[acct(c)] = c => reg[acct(c)] = c
                   /\ working'[c] => working[c]
<1>a. /\ pc \in [Conns -> Steps] /\ working \in [Conns -> BOOLEAN]
      /\ reg \in [Accounts -> Conns \cup {None}] /\ acct(c) \in Accounts
  BY AccountOf DEF TypeInv, TypeOK
<1>1. ASSUME NEW d \in Conns,
             \/ Call(d) \/ CheckSession(d) \/ LookupOld(d) \/ Evict(d)
             \/ EndStream(d) \/ DisposeOwn(d) \/ Peek(d) \/ TestClosed(d)
      PROVE  Kept
  <2>1. /\ reg' = reg
        /\ pc'[c] = pc[c] \/ Past(c)'
        /\ \A e \in Conns : working'[e] => working[e]
    BY <1>1, <1>a DEF Call, CheckSession, LookupOld, Evict, EndStream, DisposeOwn,
       Peek, TestClosed, Goto, Past, Serving
  <2> QED
    BY <2>1 DEF Past
<1>2. ASSUME NEW d \in Conns, Unregister(d) \/ Remove(d) PROVE Kept
  <2>1. /\ \A a \in Accounts : reg'[a] \in {reg[a], None}
        /\ pc'[c] = pc[c] \/ Past(c)'
        /\ working' = working
    BY <1>2, <1>a DEF Unregister, Remove, Goto, Past, Serving
  <2> QED
    BY <1>a, <2>1, SignalAssumption DEF Past
<1>3. ASSUME NEW d \in Conns, Register(d) PROVE Kept
  <2>1. d # c /\ pc'[c] = pc[c] /\ working' = working
    BY <1>3, <1>a DEF Register, Goto, Past, Serving
  <2>2. \A a \in Accounts : reg'[a] \in {reg[a], d}
    BY <1>3, <1>a DEF Register
  <2> QED
    BY <1>a, <2>1, <2>2 DEF Past
<1>4. ASSUME NEW d \in Conns,
             \/ EndVisits(d, "announce", "register") \/ EndVisits(d, "withdraw", "ended")
      PROVE  Kept
  <2>1. reg' = reg /\ working' = working /\ (pc'[c] = pc[c] \/ Past(c)')
    BY <1>4, <1>a DEF EndVisits, Goto, Past, Serving
  <2> QED
    BY <2>1 DEF Past
<1>5. CASE UNCHANGED <<reg, pc, working>>
  BY <1>5 DEF Past
<1>6. ASSUME NEW d \in Conns, NEW step, NEW kind, Visit(d, step, kind) \/ HangUp(d)
      PROVE  UNCHANGED <<reg, pc, working>>
  BY <1>6 DEF Visit, HangUp
<1>7. ASSUME NEW r \in Senders, NEW from, NEW to,
             Route(r, from, to) \/ LookupFrom(r) \/ PushTo(r)
      PROVE  UNCHANGED <<reg, pc, working>>
  BY <1>7 DEF Route, LookupFrom, PushTo
<1>8. UNCHANGED vars => UNCHANGED <<reg, pc, working>>
  BY DEF vars
<1>9. Routes \subseteq Senders
  BY DEF Senders
<1> QED
  BY <1>1, <1>2, <1>3, <1>4, <1>5, <1>6, <1>7, <1>8, <1>9 DEF Next, Handle,
     AnnounceOnline, AnnounceOffline, EndOnHangUp, EndOnDispose, Send

\* An account's entry that has been taken from a call never names it again: what
\* Unregister or Remove takes off the list by name, whoever it was, stays off it,
\* however many handlers of the account are under way.
THEOREM OnceListed ==
    ASSUME NEW c \in Conns
    PROVE  Spec => [](Registered(c) => [](~Registered(c) => []~Registered(c)))
<1>1. Spec => [](TypeInv /\ RegInv)
  BY TypeInit, TypeNext, RegInit, RegNext, PTL DEF Spec
<1>2. TypeInv /\ RegInv /\ Registered(c) => Past(c)
  <2>1. ASSUME TypeInv, RegInv, Registered(c) PROVE Past(c)
    BY <2>1, AccountOf, SignalAssumption DEF RegInv, ServedBy, Past, Registered
  <2> QED
    BY <2>1
<1>3. TypeInv /\ [Next]_vars /\ Past(c) => Past(c)'
  BY PastKept
<1>4. TypeInv /\ [Next]_vars /\ Past(c) /\ ~Registered(c) => ~Registered(c)'
  <2>1. ASSUME TypeInv, [Next]_vars, Past(c), ~Registered(c) PROVE ~Registered(c)'
    <3>1. acct(c)' = acct(c)
      BY <2>1, AdmittedKept DEF acct
    <3> QED
      BY <2>1, <3>1, PastKept DEF Registered
  <2> QED
    BY <2>1
<1>5. Spec => [][Next]_vars
  BY DEF Spec
<1> QED
  BY <1>1, <1>2, <1>3, <1>4, <1>5, PTL

-----------------------------------------------------------------------------
(* The lobby.  Besides the registration and the messages, the mapping needs   *)
(* to know why a handler is about to close a client: its own because it hung  *)
(* up, that of another because this is a rival.                               *)

HasCause(c) ==
    /\ pc[c] = "dispose" /\ working[c] => hungUp[c]
    /\ pc[c] = "evict" => seen[c] # c /\ acct(seen[c]) = acct(c) /\ Admitted(seen[c])
    /\ pc[c] = "unregister" => HasRival(c)

LobbyInv == \A c \in Conns : HasCause(c)

LEMMA LobbyInvInit == Init => LobbyInv
  BY DEF Init, LobbyInv, HasCause

\* A step of another handler leaves the cause in place.
LEMMA CauseKept ==
    ASSUME TypeInv, LobbyInv, [Next]_vars, NEW c \in Conns,
           \A d \in Conns : d # c => pc'[d] = pc[d] /\ seen'[d] = seen[d],
           \A d \in Conns : working'[d] => working[d],
           \A d \in Conns : hungUp[d] => hungUp'[d],
           HasCause(c)'
    PROVE  LobbyInv'
<1> SUFFICES ASSUME NEW d \in Conns, d # c PROVE HasCause(d)'
  BY DEF LobbyInv
<1>1. HasCause(d) /\ pc'[d] = pc[d] /\ seen'[d] = seen[d]
  BY DEF LobbyInv
<1>2. request' = request /\ \A e \in Conns : Admitted(e) => Admitted(e)'
  BY AdmittedKept
<1>3. HasRival(d) => HasRival(d)'
  BY <1>2 DEF HasRival, acct
<1>4. pc[d] = "evict" => seen[d] \in Conns
  BY DEF TypeInv, TypeOK
<1> QED
  BY <1>1, <1>2, <1>3, <1>4 DEF HasCause, acct

LEMMA LobbyInvNext ==
    TypeInv /\ TypeInv' /\ RegInv /\ LobbyInv /\ [Next]_vars => LobbyInv'
<1> SUFFICES ASSUME TypeInv, TypeInv', RegInv, LobbyInv, [Next]_vars PROVE LobbyInv'
  OBVIOUS
<1>a. /\ pc \in [Conns -> Steps] /\ working \in [Conns -> BOOLEAN]
      /\ seen \in [Conns -> Conns \cup {None}] /\ hungUp \in [Conns -> BOOLEAN]
      /\ reg \in [Accounts -> Conns \cup {None}]
  BY DEF TypeInv, TypeOK
<1>b. request' = request /\ \A e \in Conns : Admitted(e) => Admitted(e)'
  BY AdmittedKept
<1>1. ASSUME NEW c \in Conns,
             \/ Call(c) \/ CheckSession(c) \/ Unregister(c) \/ Register(c)
             \/ DisposeOwn(c) \/ Peek(c) \/ TestClosed(c) \/ Remove(c)
      PROVE  LobbyInv'
  <2>1. /\ \A d \in Conns : d # c => pc'[d] = pc[d] /\ seen'[d] = seen[d]
        /\ \A d \in Conns : working'[d] => working[d]
        /\ hungUp' = hungUp
        /\ pc'[c] \notin {"dispose", "evict", "unregister"}
    BY <1>1, <1>a DEF Call, CheckSession, Unregister, Register, DisposeOwn, Peek,
       TestClosed, Remove, Goto
  <2> QED
    BY <2>1, CauseKept DEF HasCause
<1>2. ASSUME NEW c \in Conns, LookupOld(c) PROVE LobbyInv'
  <2>1. /\ \A d \in Conns : d # c => pc'[d] = pc[d] /\ seen'[d] = seen[d]
        /\ UNCHANGED <<working, hungUp>>
        /\ pc[c] = "lookup" /\ pc'[c] \in {"announce", "evict"}
    BY <1>2, <1>a DEF LookupOld, Goto
  <2>2. ASSUME pc'[c] = "evict"
        PROVE  (seen[c] # c /\ acct(seen[c]) = acct(c) /\ Admitted(seen[c]))'
    <3>1. PICK t : t = reg[acct(c)]
      OBVIOUS
    <3>2. t # None
      BY <1>2, <1>a, <2>2, <3>1 DEF LookupOld, Goto
    <3>3. t \in Conns /\ ServedBy(acct(c), t)
      BY <1>a, <3>1, <3>2, AccountOf DEF RegInv
    <3>4. seen'[c] = t
      BY <1>2, <1>a, <3>1, <3>2 DEF LookupOld
    <3>5. t # c /\ acct(t) = acct(c) /\ Admitted(t)
      BY <2>1, <3>3 DEF ServedBy, Serving, Admitted
    <3>6. acct(t)' = acct(c)' /\ Admitted(t)'
      BY <1>b, <3>3, <3>5 DEF acct
    <3> QED
      BY <3>4, <3>5, <3>6 DEF acct, Admitted
  <2>3. HasCause(c)'
    BY <2>1, <2>2 DEF HasCause
  <2> QED
    BY <2>1, <2>3, CauseKept
<1>3. ASSUME NEW c \in Conns, Evict(c) PROVE LobbyInv'
  <2>1. /\ \A d \in Conns : d # c => pc'[d] = pc[d] /\ seen'[d] = seen[d]
        /\ \A d \in Conns : working'[d] => working[d]
        /\ hungUp' = hungUp
        /\ pc[c] = "evict" /\ pc'[c] = "unregister"
    BY <1>3, <1>a DEF Evict, Goto
  <2>2. HasRival(c)
    BY <1>a, <2>1 DEF LobbyInv, HasCause, HasRival, TypeInv, TypeOK
  <2>3. HasCause(c)'
    BY <1>b, <2>1, <2>2 DEF HasCause, HasRival, acct
  <2> QED
    BY <2>1, <2>3, CauseKept
<1>4. ASSUME NEW c \in Conns, EndOnHangUp(c) \/ EndOnDispose(c) PROVE LobbyInv'
  <2>1. /\ \A d \in Conns : d # c => pc'[d] = pc[d] /\ seen'[d] = seen[d]
        /\ UNCHANGED <<working, hungUp>>
        /\ pc'[c] = "dispose" /\ (working[c] => hungUp[c])
    BY <1>4, <1>a DEF EndOnHangUp, EndOnDispose, EndStream, Goto
  <2>2. HasCause(c)'
    BY <2>1 DEF HasCause
  <2> QED
    BY <2>1, <2>2, CauseKept
<1>5. ASSUME NEW c \in Conns,
             \/ EndVisits(c, "announce", "register") \/ EndVisits(c, "withdraw", "ended")
      PROVE  LobbyInv'
  <2>1. /\ \A d \in Conns : d # c => pc'[d] = pc[d]
        /\ UNCHANGED <<working, hungUp, seen>>
        /\ pc'[c] \in {"register", "ended"}
    BY <1>5, <1>a DEF EndVisits, Goto
  <2> QED
    BY <2>1, CauseKept DEF HasCause
<1>6. ASSUME NEW c \in Conns, HangUp(c) PROVE LobbyInv'
  <2>1. /\ UNCHANGED <<pc, working, seen>>
        /\ \A d \in Conns : hungUp[d] => hungUp'[d]
    BY <1>6, <1>a DEF HangUp
  <2>2. HasCause(c)'
    BY <1>a, <1>b, <2>1 DEF LobbyInv, HasCause, HasRival, acct, TypeInv, TypeOK
  <2> QED
    BY <2>1, <2>2, CauseKept
<1>7. ASSUME UNCHANGED <<pc, working, seen, hungUp>> PROVE LobbyInv'
  <2> SUFFICES ASSUME NEW c \in Conns PROVE HasCause(c)'
    BY DEF LobbyInv
  <2>1. HasCause(c) /\ (pc[c] = "evict" => seen[c] \in Conns)
    BY DEF LobbyInv, TypeInv, TypeOK
  <2> QED
    BY <1>7, <1>b, <2>1 DEF HasCause, HasRival, acct
<1>8. ASSUME NEW c \in Conns, NEW step, NEW kind, Visit(c, step, kind)
      PROVE  UNCHANGED <<pc, working, seen, hungUp>>
  BY <1>8 DEF Visit
<1>9. ASSUME NEW r, NEW from, NEW to, Route(r, from, to) \/ LookupFrom(r) \/ PushTo(r)
      PROVE  UNCHANGED <<pc, working, seen, hungUp>>
  BY <1>9 DEF Route, LookupFrom, PushTo
<1>10. UNCHANGED vars => UNCHANGED <<pc, working, seen, hungUp>>
  BY DEF vars
<1> QED
  BY <1>1, <1>2, <1>3, <1>4, <1>5, <1>6, <1>7, <1>8, <1>9, <1>10 DEF Next, Handle,
     AnnounceOnline, AnnounceOffline, Send

\* The lobby's view of the handlers.
In == {c \in Conns : Admitted(c)}
Tried == {c \in Conns : Past(c)}
Closed == {c \in Conns : ~working[c]}
Left == {c \in Conns : hungUp[c]}

Outside == {"idle", "check", "refused"}
Turned == Serving \cup {"withdraw", "ended"}

LEMMA LobbyTerms ==
    /\ \A c \in Conns : L!acct(c) = acct(c) /\ L!room(c) = room(c)
    /\ \A c \in Conns : L!HasRival(c) <=> HasRival(c)
BY DEF In, L!acct, L!room, acct, room, L!HasRival, HasRival

LEMMA LobbyStill ==
    ASSUME UNCHANGED <<request, In, Left, Closed, Tried, reg, outbox>>
    PROVE  UNCHANGED L!lobbyVars
BY DEF L!lobbyVars, In, Left, Closed, Tried

\* A step of one handler that is neither its admission nor its turn to register
\* changes nothing in that view.
LEMMA LobbyStays ==
    ASSUME TypeInv, NEW c \in Conns, NEW step \in Steps, pc' = [pc EXCEPT ![c] = step],
           pc[c] \in Outside <=> step \in Outside, pc[c] \in Turned <=> step \in Turned
    PROVE  In' = In /\ Tried' = Tried
<1>1. \A d \in Conns : pc'[d] = IF d = c THEN step ELSE pc[d]
  BY DEF TypeInv, TypeOK
<1>2. \A d \in Conns : Admitted(d)' <=> Admitted(d)
  BY <1>1 DEF Admitted, Outside
<1>3. \A d \in Conns : Past(d)' <=> Past(d)
  BY <1>1 DEF Past, Turned
<1> QED
  BY <1>2, <1>3 DEF In, Tried

LEMMA LobbyTurn ==
    ASSUME TypeInv, NEW c \in Conns, NEW step \in Turned, step \in Steps,
           pc' = [pc EXCEPT ![c] = step], pc[c] \notin Outside, pc[c] \notin Turned
    PROVE  c \in In /\ c \notin Tried /\ In' = In /\ Tried' = Tried \cup {c}
<1>1. \A d \in Conns : pc'[d] = IF d = c THEN step ELSE pc[d]
  BY DEF TypeInv, TypeOK
<1>2. step \notin Outside
  BY DEF Turned, Outside, Serving
<1>3. \A d \in Conns : Admitted(d)' <=> Admitted(d)
  BY <1>1, <1>2 DEF Admitted, Outside
<1>4. \A d \in Conns : Past(d)' <=> Past(d) \/ d = c
  BY <1>1 DEF Past, Turned
<1>5. Admitted(c) /\ ~Past(c)
  BY DEF Admitted, Past, Outside, Turned
<1>6. In' = In
  BY <1>3 DEF In
<1>7. Tried' = Tried \cup {c}
  BY <1>4 DEF Tried
<1> QED
  BY <1>5, <1>6, <1>7 DEF In, Tried

LEMMA LobbyInit == Init => L!Init
<1> SUFFICES ASSUME Init PROVE L!Init
  OBVIOUS
<1>1. /\ {c \in Conns : Admitted(c)} = {} /\ {c \in Conns : Past(c)} = {}
      /\ {c \in Conns : ~working[c]} = {} /\ {c \in Conns : hungUp[c]} = {}
  BY DEF Init, Admitted, Past, Serving
<1> QED
  BY <1>1 DEF Init, L!Init

LEMMA LobbyNext ==
    ASSUME TypeInv, TypeInv', RegInv, LobbyInv, MailInv, [Next]_vars
    PROVE  [L!Next]_(L!lobbyVars)
<1>a. /\ pc \in [Conns -> Steps] /\ working \in [Conns -> BOOLEAN]
      /\ seen \in [Conns -> Conns \cup {None}] /\ hungUp \in [Conns -> BOOLEAN]
      /\ reg \in [Accounts -> Conns \cup {None}]
      /\ sending \in [Senders -> SendType]
      /\ \A c \in Conns : acct(c) \in Accounts
  BY AccountOf DEF TypeInv, TypeOK, SendType
<1>b. request' = request
  BY AdmittedKept
<1>1. ASSUME NEW c \in Conns, Call(c) PROVE UNCHANGED L!lobbyVars
  <2>1. pc[c] = "idle" /\ pc' = [pc EXCEPT ![c] = "check"] /\ "check" \in Steps
    BY <1>1 DEF Call, Goto, Steps
  <2>2. In' = In /\ Tried' = Tried
    BY LobbyStays, <2>1 DEF Outside, Turned, Serving
  <2> QED
    BY <1>1, <2>2, LobbyStill DEF Call, Closed, Left
<1>2. ASSUME NEW c \in Conns, CheckSession(c) PROVE L!Admit(c) \/ UNCHANGED L!lobbyVars
  <2>1. UNCHANGED <<request, reg, outbox, Closed, Left>> /\ pc[c] = "check"
    BY <1>2 DEF CheckSession, Closed, Left
  <2>2. CASE pc' = [pc EXCEPT ![c] = "lookup"]
    <3>1. \A d \in Conns : pc'[d] = IF d = c THEN "lookup" ELSE pc[d]
      BY <1>a, <2>2
    <3>2. \A d \in Conns : Admitted(d)' <=> Admitted(d) \/ d = c
      BY <3>1 DEF Admitted
    <3>3. \A d \in Conns : Past(d)' <=> Past(d)
      BY <2>1, <3>1 DEF Past, Serving
    <3>4. In' = In \cup {c}
      BY <3>2 DEF In
    <3>5. Tried' = Tried
      BY <3>3 DEF Tried
    <3>6. c \notin In
      BY <2>1 DEF In, Admitted
    <3> QED
      BY <2>1, <3>4, <3>5, <3>6 DEF L!Admit, In, Tried, Closed, Left
  <2>3. CASE pc' = [pc EXCEPT ![c] = "refused"]
    <3>1. "refused" \in Steps
      BY DEF Steps
    <3>2. In' = In /\ Tried' = Tried
      BY <2>1, <2>3, <3>1, LobbyStays DEF Outside, Turned, Serving
    <3> QED
      BY <2>1, <3>2, LobbyStill
  <2> QED
    BY <1>2, <2>2, <2>3 DEF CheckSession, Goto
<1>3. ASSUME NEW c \in Conns, LookupOld(c) \/ Peek(c) \/ TestClosed(c) \/ EndStream(c)
      PROVE  UNCHANGED L!lobbyVars
  <2>1. PICK step \in Steps : /\ pc' = [pc EXCEPT ![c] = step]
                              /\ pc[c] \in Outside <=> step \in Outside
                              /\ pc[c] \in Turned <=> step \in Turned
    BY <1>3 DEF LookupOld, Peek, TestClosed, EndStream, Goto, Steps, Serving, Outside, Turned
  <2>2. In' = In /\ Tried' = Tried
    BY LobbyStays, <2>1
  <2> QED
    BY <1>3, <2>2, LobbyStill DEF LookupOld, Peek, TestClosed, EndStream, Closed, Left
<1>4. ASSUME NEW c \in Conns, Evict(c)
      PROVE  (\E t \in Conns : L!Close(t)) \/ UNCHANGED L!lobbyVars
  <2>1. pc[c] = "evict" /\ pc' = [pc EXCEPT ![c] = "unregister"] /\ "unregister" \in Steps
    BY <1>4 DEF Evict, Goto, Steps
  <2>2. In' = In /\ Tried' = Tried
    BY LobbyStays, <2>1 DEF Outside, Turned, Serving
  <2>3. PICK t \in Conns : t = seen[c] /\ t # c /\ acct(t) = acct(c) /\ Admitted(c)
    BY <1>a, <2>1 DEF LobbyInv, HasCause, TypeInv, TypeOK, Admitted
  <2>4. HasRival(t)
    BY <2>3 DEF HasRival
  <2>5. UNCHANGED <<request, reg, outbox, Left>> /\ Closed' = Closed \cup {t}
    BY <1>4, <1>a, <2>3 DEF Evict, Closed, Left
  <2>6. CASE t \in Closed
    <3>1. Closed' = Closed
      BY <2>5, <2>6
    <3> QED
      BY <2>2, <2>5, <3>1, LobbyStill
  <2>7. CASE t \notin Closed
    <3>1. L!HasRival(t)
      BY <2>4, LobbyTerms
    <3> QED
      BY <2>2, <2>3, <2>5, <2>7, <3>1 DEF L!Close, In, Tried, Closed, Left
  <2> QED
    BY <2>6, <2>7
<1>5. ASSUME NEW c \in Conns, Unregister(c) PROVE L!Miss(c) \/ L!Unlist(acct(c))
  <2>1. pc[c] = "unregister" /\ HasRival(c)
    BY <1>5 DEF Unregister, LobbyInv, HasCause
  <2>2. UNCHANGED <<request, outbox, Left, Closed>>
    BY <1>5 DEF Unregister, Closed, Left
  <2>3. CASE reg[acct(c)] = None
    <3>1. reg' = reg /\ pc' = [pc EXCEPT ![c] = "ended"] /\ "ended" \in Steps
      BY <1>5, <2>3 DEF Unregister, Goto, Steps
    <3>2. c \in In /\ c \notin Tried /\ In' = In /\ Tried' = Tried \cup {c}
      BY <2>1, <3>1, LobbyTurn DEF Outside, Turned, Serving
    <3>3. L!HasRival(c)
      BY <2>1, LobbyTerms
    <3> QED
      BY <2>2, <3>1, <3>2, <3>3 DEF L!Miss, L!Try, In, Tried, Closed, Left
  <2>4. CASE reg[acct(c)] # None
    <3>1. /\ reg' = [reg EXCEPT ![acct(c)] = None]
          /\ pc' = [pc EXCEPT ![c] = "announce"] /\ "announce" \in Steps
      BY <1>5, <2>4 DEF Unregister, Goto, Steps
    <3>2. In' = In /\ Tried' = Tried
      BY LobbyStays, <2>1, <3>1 DEF Outside, Turned, Serving
    <3>3. PICK t \in Conns : t = reg[acct(c)] /\ ServedBy(acct(c), t)
      BY <1>a, <2>4 DEF RegInv
    <3>4. HasRival(t)
      BY <2>1, <3>3 DEF HasRival, ServedBy, Serving, Admitted
    <3>5. L!HasRival(t)
      BY <3>4, LobbyTerms
    <3> QED
      BY <2>2, <2>4, <3>1, <3>2, <3>3, <3>5 DEF L!Unlist, In, Tried, Closed, Left
  <2> QED
    BY <2>3, <2>4
<1>6. ASSUME NEW c \in Conns, Register(c) PROVE L!List(c) \/ L!Miss(c)
  <2>1. pc[c] = "register" /\ pc' = [pc EXCEPT ![c] = "stream"] /\ "stream" \in Steps
    BY <1>6 DEF Register, Goto, Steps, Serving
  <2>2. c \in In /\ c \notin Tried /\ In' = In /\ Tried' = Tried \cup {c}
    BY <2>1, LobbyTurn DEF Outside, Turned, Serving
  <2>3. UNCHANGED <<request, outbox, Left, Closed>>
    BY <1>6 DEF Register, Closed, Left
  <2>4. CASE reg[acct(c)] = None
    <3>1. reg' = [reg EXCEPT ![L!acct(c)] = c] /\ reg[L!acct(c)] = None
      BY <1>6, <2>4, LobbyTerms DEF Register
    <3> QED
      BY <2>2, <2>3, <3>1 DEF L!List, L!Try, In, Tried, Closed, Left
  <2>5. CASE reg[acct(c)] # None
    <3>1. PICK t \in Conns : t = reg[acct(c)] /\ ServedBy(acct(c), t)
      BY <1>a, <2>5 DEF RegInv
    <3>2. HasRival(c)
      BY <2>1, <3>1 DEF HasRival, ServedBy, Serving, Admitted
    <3>3. L!HasRival(c)
      BY <3>2, LobbyTerms
    <3>4. reg' = reg
      BY <1>6, <2>5 DEF Register
    <3> QED
      BY <2>2, <2>3, <3>3, <3>4 DEF L!Miss, L!Try, In, Tried, Closed, Left
  <2> QED
    BY <2>4, <2>5
<1>7. ASSUME NEW c \in Conns, DisposeOwn(c) PROVE L!Close(c) \/ UNCHANGED L!lobbyVars
  <2>1. pc[c] = "dispose" /\ pc' = [pc EXCEPT ![c] = "peek"] /\ "peek" \in Steps
    BY <1>7 DEF DisposeOwn, Goto, Steps, Serving
  <2>2. In' = In /\ Tried' = Tried
    BY LobbyStays, <2>1 DEF Outside, Turned, Serving
  <2>3. UNCHANGED <<request, reg, outbox, Left>> /\ Closed' = Closed \cup {c}
    BY <1>7, <1>a DEF DisposeOwn, Closed, Left
  <2>4. c \in Closed \/ c \in Left
    BY <2>1 DEF LobbyInv, HasCause, Closed, Left
  <2>5. CASE c \in Closed
    <3>1. Closed' = Closed
      BY <2>3, <2>5
    <3> QED
      BY <2>2, <2>3, <3>1, LobbyStill
  <2>6. CASE c \notin Closed
    BY <2>2, <2>3, <2>4, <2>6 DEF L!Close, In, Tried, Closed, Left
  <2> QED
    BY <2>5, <2>6
<1>8. ASSUME NEW c \in Conns, Remove(c) PROVE L!Unlist(acct(c)) \/ UNCHANGED L!lobbyVars
  <2>1. /\ pc[c] = "remove" /\ pc' = [pc EXCEPT ![c] = "withdraw"] /\ "withdraw" \in Steps
        /\ reg' = [reg EXCEPT ![acct(c)] = None]
    BY <1>8 DEF Remove, Goto, Steps
  <2>2. In' = In /\ Tried' = Tried
    BY LobbyStays, <2>1 DEF Outside, Turned, Serving
  <2>3. UNCHANGED <<request, outbox, Left, Closed>>
    BY <1>8 DEF Remove, Closed, Left
  <2>4. CASE reg[acct(c)] = None
    <3>1. reg' = reg
      BY <1>a, <2>1, <2>4
    <3> QED
      BY <2>2, <2>3, <3>1, LobbyStill
  <2>5. CASE reg[acct(c)] # None
    <3>1. PICK t \in Conns : t = reg[acct(c)] /\ ServedBy(acct(c), t)
      BY <1>a, <2>5 DEF RegInv
    <3>2. t \in Closed \/ HasRival(t)
      BY <2>1, <3>1 DEF HasRival, ServedBy, Serving, Admitted, Closed
    <3>3. t \in Closed \/ L!HasRival(t)
      BY <3>2, LobbyTerms
    <3> QED
      BY <2>1, <2>2, <2>3, <2>5, <3>1, <3>3 DEF L!Unlist, In, Tried, Closed, Left
  <2> QED
    BY <2>4, <2>5
<1>9. ASSUME NEW c \in Conns, HangUp(c) PROVE L!Leave(c)
  <2>1. /\ c \notin Left /\ Left' = Left \cup {c}
        /\ UNCHANGED <<request, reg, outbox, In, Tried, Closed>>
    BY <1>9, <1>a DEF HangUp, Left, In, Tried, Closed, Admitted, Past
  <2> QED
    BY <2>1 DEF L!Leave, In, Tried, Closed, Left
<1>10. ASSUME NEW c \in Conns,
              \/ EndVisits(c, "announce", "register") \/ EndVisits(c, "withdraw", "ended")
       PROVE  UNCHANGED L!lobbyVars
  <2>1. PICK step \in Steps : /\ pc' = [pc EXCEPT ![c] = step]
                              /\ pc[c] \in Outside <=> step \in Outside
                              /\ pc[c] \in Turned <=> step \in Turned
    BY <1>10 DEF EndVisits, Goto, Steps, Serving, Outside, Turned
  <2>2. In' = In /\ Tried' = Tried
    BY LobbyStays, <2>1
  <2> QED
    BY <1>10, <2>2, LobbyStill DEF EndVisits, Closed, Left
<1>11. ASSUME NEW r \in Senders, PushTo(r) PROVE \E c \in Conns, m \in Message : L!Deliver(c, m)
  <2>1. PICK s \in SendType : s = sending[r]
    BY <1>a
  <2>2. s.dest \in Conns /\ s.src \in Conns /\ s.from \in Accounts /\ s.kind # "none"
        /\ GoodSending(s)
    BY <1>11, <2>1 DEF PushTo, SendType, MailInv, TypeInv, SendShape
  <2>3. PICK c \in Conns, m \in Message : c = s.dest /\ m = [kind |-> s.kind, from |-> s.from]
    BY <2>2 DEF SendType, Message
  <2>4. Speaks(s.src, m.from, room(c)) /\ (m.kind # "route" => Rivals(m.from))
    BY <2>2, <2>3 DEF GoodSending
  <2>5. \E d \in In : L!acct(d) = m.from /\ L!room(d) = L!room(c)
    BY <2>2, <2>4, LobbyTerms DEF Speaks, In
  <2>6. ASSUME m.kind \in {"online", "offline"}
        PROVE  \E d \in In : L!acct(d) = m.from /\ L!HasRival(d)
    <3>1. PICK d \in Conns : acct(d) = m.from /\ Admitted(d) /\ HasRival(d)
      BY <2>4, <2>6 DEF Rivals, HasRival
    <3> QED
      BY <3>1, LobbyTerms DEF In
  <2>7. /\ outbox' = [outbox EXCEPT ![c] = @ \cup {m}]
        /\ UNCHANGED <<request, reg, In, Tried, Closed, Left>>
    BY <1>11, <2>1, <2>3 DEF PushTo, In, Tried, Closed, Left, Admitted, Past
  <2>8. L!Deliver(c, m)
    BY <2>5, <2>6, <2>7 DEF L!Deliver, In, Tried, Closed, Left
  <2> QED
    BY <2>8
<1>12. ASSUME UNCHANGED <<request, pc, reg, working, hungUp, outbox>>
       PROVE  UNCHANGED L!lobbyVars
  BY <1>12, LobbyStill DEF In, Tried, Closed, Left, Admitted, Past
<1>13. ASSUME NEW r, NEW from, NEW to, Route(r, from, to) \/ LookupFrom(r)
       PROVE  UNCHANGED <<request, pc, reg, working, hungUp, outbox>>
  BY <1>13 DEF Route, LookupFrom
<1>14. ASSUME NEW c, NEW step, NEW kind, Visit(c, step, kind)
       PROVE  UNCHANGED <<request, pc, reg, working, hungUp, outbox>>
  BY <1>14 DEF Visit
<1>15. UNCHANGED vars => UNCHANGED <<request, pc, reg, working, hungUp, outbox>>
  BY DEF vars
<1>16. \/ \E c \in Conns : \/ L!Admit(c) \/ L!Leave(c) \/ L!Close(c) \/ L!List(c) \/ L!Miss(c)
       \/ \E a \in Accounts : L!Unlist(a)
       \/ \E c \in Conns, m \in Message : L!Deliver(c, m)
       \/ UNCHANGED L!lobbyVars
  <2>1. ASSUME NEW c \in Conns,
               \/ Call(c) \/ CheckSession(c) \/ LookupOld(c) \/ Peek(c) \/ TestClosed(c)
               \/ EndStream(c) \/ Register(c) \/ DisposeOwn(c) \/ HangUp(c)
        PROVE  (\E d \in Conns : \/ L!Admit(d) \/ L!Leave(d) \/ L!Close(d)
                                 \/ L!List(d) \/ L!Miss(d)) \/ UNCHANGED L!lobbyVars
    BY <1>1, <1>2, <1>3, <1>6, <1>7, <1>9, <2>1
  <2>2. ASSUME NEW c \in Conns, Unregister(c) \/ Remove(c)
        PROVE  L!Miss(c) \/ (\E a \in Accounts : L!Unlist(a)) \/ UNCHANGED L!lobbyVars
    BY <1>a, <1>5, <1>8, <2>2
  <2> QED
    BY <1>4, <1>10, <1>11, <1>12, <1>13, <1>14, <1>15, <2>1, <2>2 DEF Next, Handle,
       AnnounceOnline, AnnounceOffline, EndOnHangUp, EndOnDispose, Send
<1> QED
  BY <1>16 DEF L!Next, Message

\* The handlers of Connect and Route, which share the dictionary without a lock,
\* implement the lobby: for any number of calls, accounts and rooms.
THEOREM Refinement == Spec => ImplementsLobby
  BY TypeInit, TypeNext, RegInit, RegNext, MailInit, MailNext, LobbyInvInit,
     LobbyInvNext, LobbyInit, LobbyNext, PTL DEF Spec, ImplementsLobby, L!Spec

=============================================================================
