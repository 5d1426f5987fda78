-------------------------- MODULE StreamBufferProofs --------------------------
(***************************************************************************)
(* Theorems about StreamBuffer, for any finite set of producers, any set   *)
(* of disposers and any Max and PushLimit.                                 *)
(***************************************************************************)
EXTENDS StreamBuffer, FiniteSetTheorems, SequenceTheorems, TLAPS

USE StreamBufferAssumption

-----------------------------------------------------------------------------
(* Types.  TypeOK is inductive once it is known that a producer inside Push *)
(* has counted that push, so that what it enqueues is a Message.            *)

CountedInv == \A p \in Producers : push[p] # "idle" => pushes[p] > 0

TypeInv == TypeOK /\ CountedInv

LEMMA TypeInit == Init => TypeInv
<1> SUFFICES ASSUME Init PROVE TypeInv
  OBVIOUS
<1>1. <<>> \in Seq(Message)
  OBVIOUS
<1>2. pushes \in [Producers -> 0..PushLimit]
  BY DEF Init
<1>3. /\ requests \in Seq(Message) /\ data \in Seq(Message) /\ yielded \in Seq(Message)
      /\ push \in [Producers -> {"idle", "evict", "enqueue", "resume"}]
      /\ dispose \in [Disposers -> {"idle", "cancel", "free", "done"}]
  BY <1>1 DEF Init
<1> QED
  BY <1>2, <1>3 DEF Init, TypeInv, TypeOK, CountedInv

LEMMA CountedNext == TypeInv /\ [Next]_vars => CountedInv'
<1> SUFFICES ASSUME TypeInv, [Next]_vars PROVE CountedInv'
  OBVIOUS
<1> USE DEF TypeInv, TypeOK, CountedInv
<1>1. ASSUME NEW p \in Producers, Push(p) PROVE CountedInv'
  <2>1. CASE CountRequests(p)
    <3>1. pushes' = [pushes EXCEPT ![p] = @ + 1] /\ pushes[p] \in Nat
      BY <2>1 DEF CountRequests
    <3>2. push' = [push EXCEPT ![p] = push'[p]]
      BY <2>1 DEF CountRequests
    <3> QED
      BY <3>1, <3>2
  <2>2. CASE Evict(p) \/ Enqueue(p) \/ Resume(p)
    BY <2>2 DEF Evict, Enqueue, Resume
  <2> QED
    BY <1>1, <2>1, <2>2 DEF Push
<1>2. CASE UNCHANGED <<push, pushes>>
  BY <1>2
<1>3. ASSUME NEW d \in Disposers, Dispose(d) PROVE UNCHANGED <<push, pushes>>
  BY <1>3 DEF Dispose, StopWorking, CancelSource, FreeSemaphore
<1>4. CancelCall \/ Pull \/ UNCHANGED vars => UNCHANGED <<push, pushes>>
  BY DEF CancelCall, Pull, CheckWorking, WaitAsync, WaitCancelled, TryPull,
     ThrowIfClosed, YieldReturn, BodyEnds, LoopEnds, PullUnchanged, vars
<1> QED
  BY <1>1, <1>2, <1>3, <1>4 DEF Next

LEMMA TypeNext == TypeInv /\ [Next]_vars => TypeInv'
<1> SUFFICES ASSUME TypeInv, [Next]_vars PROVE TypeOK'
  BY CountedNext DEF TypeInv
<1> USE DEF TypeInv, TypeOK
<1>1. ASSUME NEW p \in Producers, CountRequests(p) PROVE TypeOK'
  BY <1>1 DEF CountRequests, bufferVars, pullVars
<1>2. ASSUME NEW p \in Producers, Evict(p) PROVE TypeOK'
  BY <1>2 DEF Evict, pullVars
<1>3. ASSUME NEW p \in Producers, Enqueue(p) PROVE TypeOK'
  <2>1. pushes[p] \in 1..PushLimit
    <3>1. push[p] # "idle" /\ pushes[p] \in 0..PushLimit
      BY <1>3 DEF Enqueue
    <3>2. pushes[p] > 0
      BY <3>1 DEF CountedInv
    <3> QED
      BY <3>1, <3>2
  <2>2. <<p, pushes[p]>> \in Message
    BY <2>1 DEF Message
  <2>3. requests' \in Seq(Message)
    BY <1>3, <2>2 DEF Enqueue
  <2>4. push' \in [Producers -> {"idle", "evict", "enqueue", "resume"}]
    BY <1>3 DEF Enqueue
  <2> HIDE DEF Message
  <2> QED
    BY <1>3, <2>3, <2>4 DEF Enqueue, pullVars
<1>4. ASSUME NEW p \in Producers, Resume(p) PROVE TypeOK'
  BY <1>4 DEF Resume, Release
<1>5. ASSUME NEW d \in Disposers, Dispose(d) PROVE TypeOK'
  BY <1>5 DEF Dispose, StopWorking, CancelSource, FreeSemaphore, pullVars
<1>6. CASE CancelCall
  BY <1>6 DEF CancelCall, bufferVars, pullVars
<1>7. CASE CheckWorking \/ WaitCancelled \/ BodyEnds \/ LoopEnds
  BY <1>7 DEF CheckWorking, WaitCancelled, BodyEnds, LoopEnds, PullUnchanged
<1>8. CASE WaitAsync
  BY <1>8 DEF WaitAsync, PullUnchanged
<1>9. CASE TryPull
  <2>1. CASE requests = <<>>
    BY <1>9, <2>1 DEF TryPull, PullUnchanged
  <2>2. CASE requests # <<>>
    <3>1. Head(requests) \in Message /\ Tail(requests) \in Seq(Message)
      BY <2>2
    <3>2. <<Head(requests)>> \in Seq(Message)
      BY <3>1
    <3> QED
      BY <1>9, <2>2, <3>1, <3>2 DEF TryPull, PullUnchanged
  <2> QED
    BY <2>1, <2>2
<1>10. CASE ThrowIfClosed
  <2>1. data' = data \/ data' = <<>>
    BY <1>10 DEF ThrowIfClosed
  <2>2. <<>> \in Seq(Message)
    OBVIOUS
  <2> QED
    BY <1>10, <2>1, <2>2 DEF ThrowIfClosed, PullUnchanged
<1>11. CASE YieldReturn
  <2>1. yielded \o data \in Seq(Message) /\ <<>> \in Seq(Message)
    OBVIOUS
  <2> QED
    BY <1>11, <2>1 DEF YieldReturn, PullUnchanged
<1>12. CASE UNCHANGED vars
  BY <1>12 DEF vars, bufferVars, pullVars
<1> QED
  BY <1>1, <1>2, <1>3, <1>4, <1>5, <1>6, <1>7, <1>8, <1>9, <1>10, <1>11,
     <1>12 DEF Next, Push, Pull

\* Every reachable state is well typed: in particular the semaphore never
\* holds more than its one permit, whatever the pushers and disposers do.
THEOREM TypeCorrect == Spec => []TypeOK
<1>1. TypeInv => TypeOK
  BY DEF TypeInv
<1> QED
  BY <1>1, TypeInit, TypeNext, PTL DEF Spec

-----------------------------------------------------------------------------
(* The backlog.  A producer that has read the count and is about to enqueue *)
(* holds a claim on one more place; claims and items together stay bounded. *)

Claims == {p \in Producers : push[p] = "enqueue"}

BacklogInv == Len(requests) + Cardinality(Claims) <= Max + Cardinality(Producers)

LEMMA ClaimsFinite ==
    ASSUME TypeOK
    PROVE  /\ IsFiniteSet(Claims)
           /\ Cardinality(Claims) \in Nat
           /\ Cardinality(Producers) \in Nat
           /\ Cardinality(Claims) <= Cardinality(Producers)
<1>1. Claims \subseteq Producers
  BY DEF Claims
<1> QED
  BY <1>1, FS_Subset, FS_CardinalityType

LEMMA ClaimsFinitePrime ==
    ASSUME TypeOK'
    PROVE  /\ IsFiniteSet(Claims')
           /\ Cardinality(Claims') \in Nat
           /\ Cardinality(Claims') <= Cardinality(Producers)
<1>1. Claims' \subseteq Producers
  BY DEF Claims
<1> QED
  BY <1>1, FS_Subset, FS_CardinalityType

LEMMA BacklogInit == Init => BacklogInv
<1> SUFFICES ASSUME Init PROVE BacklogInv
  OBVIOUS
<1>1. Claims = {}
  BY DEF Init, Claims
<1>2. Cardinality(Claims) = 0
  BY <1>1, FS_EmptySet
<1> QED
  BY <1>2, FS_CardinalityType DEF Init, BacklogInv

LEMMA BacklogNext == TypeOK /\ TypeOK' /\ BacklogInv /\ [Next]_vars => BacklogInv'
<1> SUFFICES ASSUME TypeOK, TypeOK', BacklogInv, [Next]_vars PROVE BacklogInv'
  OBVIOUS
<1>a. /\ IsFiniteSet(Claims) /\ Cardinality(Claims) \in Nat
      /\ Cardinality(Producers) \in Nat
      /\ Cardinality(Claims) <= Cardinality(Producers)
  BY ClaimsFinite
<1>b. /\ IsFiniteSet(Claims') /\ Cardinality(Claims') \in Nat
      /\ Cardinality(Claims') <= Cardinality(Producers)
  BY ClaimsFinitePrime
<1>c. Len(requests) \in Nat /\ Len(requests') \in Nat
  BY DEF TypeOK
<1>d. ASSUME Len(requests') <= Len(requests), Claims' = Claims PROVE BacklogInv'
  BY <1>a, <1>c, <1>d DEF BacklogInv
<1>1. ASSUME NEW p \in Producers, CountRequests(p) PROVE BacklogInv'
  <2>1. CASE Len(requests) > Max
    <3>1. Claims' = Claims
      BY <1>1, <2>1 DEF CountRequests, Claims, TypeOK
    <3> QED
      BY <3>1, <1>1, <1>c, <1>d DEF CountRequests, bufferVars
  <2>2. CASE ~(Len(requests) > Max)
    BY <2>2, <1>1, <1>a, <1>b, <1>c DEF CountRequests, bufferVars, BacklogInv
  <2> QED
    BY <2>1, <2>2
<1>2. ASSUME NEW p \in Producers, Evict(p) PROVE BacklogInv'
  <2>1. Claims' = Claims \cup {p} /\ p \notin Claims
    BY <1>2 DEF Evict, Claims, TypeOK
  <2>2. Cardinality(Claims') = Cardinality(Claims) + 1
    BY <2>1, <1>a, FS_AddElement
  <2>3. CASE requests = <<>>
    BY <2>3, <1>2, <1>a, <1>b DEF Evict, BacklogInv
  <2>4. CASE requests # <<>>
    <3>1. Len(requests') = Len(requests) - 1
      BY <2>4, <1>2 DEF Evict, TypeOK
    <3> QED
      BY <3>1, <2>2, <1>a, <1>c DEF BacklogInv
  <2> QED
    BY <2>3, <2>4
<1>3. ASSUME NEW p \in Producers, Enqueue(p) PROVE BacklogInv'
  <2>1. Claims' = Claims \ {p} /\ p \in Claims
    BY <1>3 DEF Enqueue, Claims, TypeOK
  <2>2. Cardinality(Claims') = Cardinality(Claims) - 1
    BY <2>1, <1>a, FS_RemoveElement
  <2>3. Len(requests') = Len(requests) + 1
    BY <1>3 DEF Enqueue, TypeOK
  <2> QED
    BY <2>2, <2>3, <1>a, <1>c DEF BacklogInv
<1>4. ASSUME NEW p \in Producers, Resume(p) PROVE BacklogInv'
  <2>1. Claims' = Claims /\ requests' = requests
    BY <1>4 DEF Resume, Claims, TypeOK
  <2> QED
    BY <2>1, <1>c, <1>d
<1>5. ASSUME NEW d \in Disposers, Dispose(d) PROVE BacklogInv'
  <2>1. Claims' = Claims /\ requests' = requests
    BY <1>5 DEF Dispose, StopWorking, CancelSource, FreeSemaphore, Claims
  <2> QED
    BY <2>1, <1>c, <1>d
<1>6. CASE CancelCall \/ UNCHANGED vars
  <2>1. Claims' = Claims /\ requests' = requests
    BY <1>6 DEF CancelCall, vars, bufferVars, Claims
  <2> QED
    BY <2>1, <1>c, <1>d
<1>7. CASE Pull
  <2>1. push' = push /\ (requests' = requests \/ (requests # <<>> /\ requests' = Tail(requests)))
    BY <1>7 DEF Pull, CheckWorking, WaitAsync, WaitCancelled, TryPull,
       ThrowIfClosed, YieldReturn, BodyEnds, LoopEnds, PullUnchanged
  <2>2. Claims' = Claims
    BY <2>1 DEF Claims
  <2>3. Len(requests') <= Len(requests)
    BY <2>1, <1>c DEF TypeOK
  <2> QED
    BY <2>2, <2>3, <1>d
<1> QED
  BY <1>1, <1>2, <1>3, <1>4, <1>5, <1>6, <1>7 DEF Next, Push

\* However many producers race through Push, the outbox never holds more than
\* Max items plus one for each of them.
THEOREM BacklogCorrect == Spec => []BacklogBounded
<1>1. TypeOK /\ BacklogInv => BacklogBounded
  BY ClaimsFinite DEF BacklogInv, BacklogBounded, TypeOK
<1>2. TypeInv => TypeOK
  BY DEF TypeInv
<1> QED
  BY <1>1, <1>2, TypeInit, TypeNext, BacklogInit, BacklogNext, PTL DEF Spec

-----------------------------------------------------------------------------
(* The wakeup.  From the moment a pull found the queue empty until it sleeps *)
(* again, an item in the queue is covered by the permit or by a producer    *)
(* that has still to release it; and a sleeping pull left no permit behind.  *)

Covered == permits = 1 \/ \E p \in Producers : push[p] = "resume"

WakeInv ==
    /\ puller \in {"after", "check", "wait", "waiting"} /\ requests # <<>> /\ ~semDisposed
           => Covered
    /\ puller = "waiting" => permits = 0

LEMMA WakeInit == Init => WakeInv
  BY DEF Init, WakeInv

LEMMA WakeNext == TypeOK /\ WakeInv /\ [Next]_vars => WakeInv'
<1> SUFFICES ASSUME TypeOK, WakeInv, [Next]_vars PROVE WakeInv'
  OBVIOUS
<1> USE DEF WakeInv, Covered
<1>1. ASSUME NEW p \in Producers, CountRequests(p) PROVE WakeInv'
  BY <1>1 DEF CountRequests, bufferVars, pullVars, TypeOK
<1>2. ASSUME NEW p \in Producers, Evict(p) PROVE WakeInv'
  BY <1>2 DEF Evict, pullVars, TypeOK
<1>3. ASSUME NEW p \in Producers, Enqueue(p) PROVE WakeInv'
  BY <1>3 DEF Enqueue, pullVars, TypeOK
<1>4. ASSUME NEW p \in Producers, Resume(p) PROVE WakeInv'
  BY <1>4 DEF Resume, Release, TypeOK
<1>5. ASSUME NEW d \in Disposers, Dispose(d) PROVE WakeInv'
  BY <1>5 DEF Dispose, StopWorking, CancelSource, FreeSemaphore, pullVars
<1>6. CASE CancelCall \/ UNCHANGED vars
  BY <1>6 DEF CancelCall, vars, bufferVars, pullVars
<1>7. CASE TryPull
  BY <1>7 DEF TryPull, PullUnchanged
<1>8. CASE WaitAsync
  BY <1>8 DEF WaitAsync, PullUnchanged
<1>9. CASE CheckWorking \/ WaitCancelled \/ ThrowIfClosed
           \/ YieldReturn \/ BodyEnds \/ LoopEnds
  BY <1>9 DEF CheckWorking, WaitCancelled, ThrowIfClosed, YieldReturn, BodyEnds,
     LoopEnds, PullUnchanged
<1> QED
  BY <1>1, <1>2, <1>3, <1>4, <1>5, <1>6, <1>7, <1>8, <1>9 DEF Next, Push, Pull

\* No wakeup is ever lost: a pull that sleeps while its queue holds an item is
\* about to be woken by a producer.
THEOREM WakeupCorrect == Spec => []NoLostWakeup
<1>1. WakeInv => NoLostWakeup
  BY DEF WakeInv, Covered, NoLostWakeup
<1>2. TypeInv => TypeOK
  BY DEF TypeInv
<1> QED
  BY <1>1, <1>2, TypeInit, TypeNext, WakeInit, WakeNext, PTL DEF Spec

-----------------------------------------------------------------------------
(* Closing.  The one late item is the one past its check when the source    *)
(* was cancelled; after it no check passes again.                           *)

CloseInv ==
    \/ late = 0
    \/ late = 1 /\ closed /\ puller # "yield"

LEMMA CloseInit == Init => CloseInv
  BY DEF Init, CloseInv

LEMMA CloseNext == TypeOK /\ CloseInv /\ [Next]_vars => CloseInv'
<1> SUFFICES ASSUME TypeOK, CloseInv, [Next]_vars PROVE CloseInv'
  OBVIOUS
<1> USE DEF CloseInv
<1>1. ASSUME NEW p \in Producers, Push(p) PROVE CloseInv'
  BY <1>1 DEF Push, CountRequests, Evict, Enqueue, Resume, Release, bufferVars,
     pullVars
<1>2. ASSUME NEW d \in Disposers, Dispose(d) PROVE CloseInv'
  BY <1>2 DEF Dispose, StopWorking, CancelSource, FreeSemaphore, pullVars
<1>3. CASE CancelCall \/ UNCHANGED vars
  BY <1>3 DEF CancelCall, vars, bufferVars, pullVars
<1>4. CASE ThrowIfClosed
  BY <1>4 DEF ThrowIfClosed, Break, PullUnchanged
<1>5. CASE YieldReturn
  BY <1>5 DEF YieldReturn, PullUnchanged
<1>6. CASE CheckWorking \/ WaitAsync \/ WaitCancelled \/ TryPull
           \/ BodyEnds \/ LoopEnds
  BY <1>6 DEF CheckWorking, WaitAsync, WaitCancelled, TryPull, BodyEnds,
     LoopEnds, PullUnchanged
<1> QED
  BY <1>1, <1>2, <1>3, <1>4, <1>5, <1>6 DEF Next, Pull

\* After Dispose has cancelled the source, at most one more message reaches
\* the client.
THEOREM CloseCorrect == Spec => []AtMostOneAfterClose
<1>1. CloseInv => AtMostOneAfterClose
  BY DEF CloseInv, AtMostOneAfterClose
<1>2. TypeInv => TypeOK
  BY DEF TypeInv
<1> QED
  BY <1>1, <1>2, TypeInit, TypeNext, CloseInit, CloseNext, PTL DEF Spec

-----------------------------------------------------------------------------
(* The item in hand.  The iterator holds one exactly between its TryDequeue *)
(* and the end of its yield, so that taking the next one loses none.        *)

HoldInv ==
    /\ puller \in {"have", "yield"} => \E m \in Message : data = <<m>>
    /\ puller \notin {"have", "yield"} => data = <<>>

LEMMA HoldInit == Init => HoldInv
  BY DEF Init, HoldInv

LEMMA HoldNext == TypeOK /\ HoldInv /\ [Next]_vars => HoldInv'
<1> SUFFICES ASSUME TypeOK, HoldInv, [Next]_vars PROVE HoldInv'
  OBVIOUS
<1> USE DEF HoldInv
<1>1. ASSUME NEW p \in Producers, Push(p) PROVE HoldInv'
  BY <1>1 DEF Push, CountRequests, Evict, Enqueue, Resume, Release, pullVars, TypeOK
<1>2. ASSUME NEW d \in Disposers, Dispose(d) PROVE HoldInv'
  BY <1>2 DEF Dispose, StopWorking, CancelSource, FreeSemaphore, pullVars
<1>3. CASE CancelCall \/ UNCHANGED vars
  BY <1>3 DEF CancelCall, vars, pullVars
<1>4. CASE TryPull
  <2>1. CASE requests = <<>>
    BY <1>4, <2>1 DEF TryPull
  <2>2. CASE requests # <<>>
    <3>1. Head(requests) \in Message
      BY <2>2, HeadTailProperties DEF TypeOK
    <3> QED
      BY <1>4, <2>2, <3>1 DEF TryPull
  <2> QED
    BY <2>1, <2>2
<1>5. CASE CheckWorking \/ WaitAsync \/ WaitCancelled \/ ThrowIfClosed
           \/ YieldReturn \/ BodyEnds \/ LoopEnds
  BY <1>5 DEF CheckWorking, WaitAsync, WaitCancelled, ThrowIfClosed, YieldReturn,
     BodyEnds, LoopEnds
<1> QED
  BY <1>1, <1>2, <1>3, <1>4, <1>5 DEF Next, Pull

-----------------------------------------------------------------------------
(* The order of one sender's items.  They move from the queue to the hand   *)
(* and on to the reader; what a full or a closing buffer drops comes out of *)
(* their middle, and what is added has a number not used yet.               *)

Kept == yielded \o data \o requests

Ordered(s) ==
    \A i, j \in DOMAIN s : i < j /\ s[i][1] = s[j][1] => s[i][2] < s[j][2]

\* The item was pushed, and not by the push that its sender is inside of.
Pushed(m) ==
    /\ m[2] <= pushes[m[1]]
    /\ push[m[1]] \in {"evict", "enqueue"} => m[2] < pushes[m[1]]

AllPushed(s) == \A i \in DOMAIN s : Pushed(s[i])

OrderInv == Ordered(Kept) /\ AllPushed(Kept)

LEMMA Regrouped ==
    ASSUME NEW s \in Seq(Message), NEW t \in Seq(Message), NEW u \in Seq(Message)
    PROVE  s \o (t \o u) = s \o t \o u
  BY ConcatAssociative

\* Nothing is out of order when a part is cut out.
LEMMA CutKeeps ==
    ASSUME NEW s \in Seq(Message), NEW t \in Seq(Message), NEW u \in Seq(Message)
    PROVE  /\ Ordered(s \o t \o u) => Ordered(s \o u)
           /\ AllPushed(s \o t \o u) => AllPushed(s \o u)
<1> DEFINE n == Len(s)
           k == Len(t)
           whole == s \o t \o u
           rest == s \o u
           back(i) == IF i <= n THEN i ELSE i + k
<1>1. n \in Nat /\ k \in Nat /\ Len(u) \in Nat
  BY LenProperties
<1>2. s \o t \in Seq(Message) /\ Len(s \o t) = n + k
  BY ConcatProperties
<1>3. /\ whole \in Seq(Message) /\ Len(whole) = n + k + Len(u)
      /\ \A i \in 1..(n + k + Len(u)) :
            whole[i] = IF i <= n + k THEN (s \o t)[i] ELSE u[i - (n + k)]
  BY <1>2, ConcatProperties
<1>4. \A i \in 1..(n + k) : (s \o t)[i] = IF i <= n THEN s[i] ELSE t[i - n]
  BY ConcatProperties
<1>5. /\ rest \in Seq(Message) /\ Len(rest) = n + Len(u)
      /\ \A i \in 1..(n + Len(u)) : rest[i] = IF i <= n THEN s[i] ELSE u[i - n]
  BY ConcatProperties
<1>6. DOMAIN whole = 1..(n + k + Len(u)) /\ DOMAIN rest = 1..(n + Len(u))
  BY <1>3, <1>5, LenProperties
<1>7. ASSUME NEW i \in DOMAIN rest
      PROVE  back(i) \in DOMAIN whole /\ rest[i] = whole[back(i)]
  <2>1. CASE i <= n
    BY <2>1, <1>1, <1>3, <1>4, <1>5, <1>6
  <2>2. CASE ~(i <= n)
    <3>1. back(i) = i + k /\ i + k \in DOMAIN whole /\ ~(i + k <= n + k)
      BY <2>2, <1>1, <1>6
    <3>2. whole[i + k] = u[i - n]
      BY <3>1, <2>2, <1>1, <1>3, <1>6
    <3> QED
      BY <3>1, <3>2, <2>2, <1>5, <1>6
  <2> QED
    BY <2>1, <2>2
<1>8. \A i, j \in DOMAIN rest : i < j => back(i) < back(j)
  BY <1>1, <1>6
<1> HIDE DEF back, whole, rest
<1>9. Ordered(whole) => Ordered(rest)
  BY <1>7, <1>8 DEF Ordered
<1>10. AllPushed(whole) => AllPushed(rest)
  BY <1>7 DEF AllPushed
<1> QED
  BY <1>9, <1>10 DEF whole, rest

\* An item with a new number may be added at the end.
LEMMA AddKeeps ==
    ASSUME NEW s \in Seq(Message), Ordered(s), NEW m \in Message,
           \A i \in DOMAIN s : s[i][1] = m[1] => s[i][2] < m[2]
    PROVE  Ordered(Append(s, m))
<1>1. Len(s) \in Nat /\ DOMAIN s = 1..Len(s)
  BY LenProperties
<1>2. /\ Append(s, m) \in Seq(Message) /\ Len(Append(s, m)) = Len(s) + 1
      /\ \A i \in 1..Len(s) : Append(s, m)[i] = s[i]
      /\ Append(s, m)[Len(s) + 1] = m
  BY AppendProperties
<1>3. DOMAIN Append(s, m) = 1..(Len(s) + 1)
  BY <1>2, LenProperties
<1> QED
  BY <1>1, <1>2, <1>3 DEF Ordered

LEMMA HeadAndTail ==
    ASSUME NEW s \in Seq(Message), s # <<>>
    PROVE  /\ <<Head(s)>> \in Seq(Message) /\ Tail(s) \in Seq(Message)
           /\ <<Head(s)>> \o Tail(s) = s
<1>1. Len(s) \in Nat \ {0}
  BY EmptySeq
<1>2. SubSeq(s, 1, Len(s)) = <<s[1]>> \o SubSeq(s, 2, Len(s))
  BY <1>1, SubSeqRecursiveFirst
<1>3. SubSeq(s, 1, Len(s)) = s /\ Tail(s) = SubSeq(s, 2, Len(s)) /\ Head(s) = s[1]
  BY SubSeqFull, TailIsSubSeq
<1>4. Head(s) \in Message /\ Tail(s) \in Seq(Message)
  BY HeadTailProperties
<1>5. <<Head(s)>> \in Seq(Message)
  BY <1>4
<1> QED
  BY <1>2, <1>3, <1>4, <1>5

LEMMA KeptType == TypeOK => Kept \in Seq(Message) /\ yielded \o data \in Seq(Message)
  BY ConcatProperties DEF TypeOK, Kept

\* What the pull does to the items: move them, or drop the one in hand.
LEMMA PullKeeps ==
    ASSUME TypeOK, HoldInv, OrderInv, Pull
    PROVE  Ordered(Kept') /\ AllPushed(Kept')
<1>1. /\ yielded \in Seq(Message) /\ data \in Seq(Message) /\ requests \in Seq(Message)
      /\ yielded \o data \in Seq(Message)
      /\ <<>> \in Seq(Message)
  BY KeptType, EmptySeq DEF TypeOK
<1>2. CASE UNCHANGED <<yielded, data, requests>>
  BY <1>2 DEF OrderInv, Kept
<1>3. CASE TryPull /\ requests # <<>>
  <2>1. data = <<>>
    BY <1>3 DEF TryPull, HoldInv
  <2>2. yielded' = yielded /\ data' = <<Head(requests)>> /\ requests' = Tail(requests)
    BY <1>3 DEF TryPull
  <2>3. /\ <<Head(requests)>> \in Seq(Message) /\ Tail(requests) \in Seq(Message)
        /\ <<Head(requests)>> \o Tail(requests) = requests
    BY <1>1, <1>3, HeadAndTail
  <2>4. Kept' = yielded \o (<<Head(requests)>> \o Tail(requests))
    <3>1. Kept' = yielded \o <<Head(requests)>> \o Tail(requests)
      BY <2>2 DEF Kept
    <3> QED
      BY <1>1, <2>3, <3>1, Regrouped
  <2>5. Kept = yielded \o requests
    BY <1>1, <2>1, ConcatEmptySeq DEF Kept
  <2> QED
    BY <2>3, <2>4, <2>5 DEF OrderInv
<1>4. CASE ThrowIfClosed /\ Break
  <2>1. Kept' = yielded \o requests
    BY <1>1, <1>4, ConcatEmptySeq DEF ThrowIfClosed, Kept
  <2> QED
    BY <1>1, <2>1, CutKeeps DEF OrderInv, Kept
<1>5. CASE YieldReturn
  <2>1. Kept' = Kept
    BY <1>1, <1>5, ConcatEmptySeq DEF YieldReturn, Kept
  <2> QED
    BY <2>1 DEF OrderInv
<1>6. CASE CheckWorking \/ WaitAsync \/ WaitCancelled \/ BodyEnds \/ LoopEnds
  BY <1>2, <1>6 DEF CheckWorking, WaitAsync, WaitCancelled, BodyEnds, LoopEnds
<1>7. CASE TryPull /\ requests = <<>>
  BY <1>2, <1>7 DEF TryPull
<1>8. CASE ThrowIfClosed /\ ~Break
  BY <1>2, <1>8 DEF ThrowIfClosed
<1> QED
  BY <1>3, <1>4, <1>5, <1>6, <1>7, <1>8 DEF Pull

LEMMA EvictKeeps ==
    ASSUME TypeOK, OrderInv, NEW p \in Producers, Evict(p)
    PROVE  Ordered(Kept') /\ AllPushed(Kept')
<1>1. requests \in Seq(Message) /\ yielded \o data \in Seq(Message)
  BY KeptType DEF TypeOK
<1>2. yielded' = yielded /\ data' = data
  BY DEF Evict, pullVars
<1>3. CASE requests = <<>>
  BY <1>2, <1>3 DEF Evict, OrderInv, Kept
<1>4. CASE requests # <<>>
  <2>1. /\ <<Head(requests)>> \in Seq(Message) /\ Tail(requests) \in Seq(Message)
        /\ <<Head(requests)>> \o Tail(requests) = requests
    BY <1>1, <1>4, HeadAndTail
  <2>2. Kept = (yielded \o data) \o <<Head(requests)>> \o Tail(requests)
    <3>1. Kept = (yielded \o data) \o (<<Head(requests)>> \o Tail(requests))
      BY <2>1 DEF Kept
    <3> QED
      BY <1>1, <2>1, <3>1, Regrouped
  <2>3. Kept' = (yielded \o data) \o Tail(requests)
    BY <1>2, <1>4 DEF Evict, Kept
  <2> QED
    BY <1>1, <2>1, <2>2, <2>3, CutKeeps DEF OrderInv
<1> QED
  BY <1>3, <1>4

\* Pushed, once a step has been taken.
PushedThen(m) ==
    /\ m[2] <= pushes'[m[1]]
    /\ push'[m[1]] \in {"evict", "enqueue"} => m[2] < pushes'[m[1]]

LEMMA OrderThen ==
    ASSUME Ordered(Kept'), \A i \in DOMAIN Kept' : PushedThen(Kept'[i])
    PROVE  OrderInv'
  BY DEF OrderInv, Ordered, AllPushed, Pushed, PushedThen

LEMMA EnqueueKeeps ==
    ASSUME TypeOK, TypeOK', OrderInv, NEW p \in Producers, Enqueue(p), pushes[p] > 0
    PROVE  OrderInv'
<1>0. <<p, pushes[p]>> \in Message
  BY DEF TypeOK, Message
<1>2. PICK m \in Message : m = <<p, pushes[p]>>
  BY <1>0
<1>1. /\ requests \in Seq(Message) /\ yielded \o data \in Seq(Message)
      /\ Kept \in Seq(Message) /\ Kept' \in Seq(Message)
  BY KeptType, ConcatProperties DEF TypeOK, Kept
<1>3. yielded' = yielded /\ data' = data /\ requests' = Append(requests, m)
  BY <1>2 DEF Enqueue, pullVars
<1>4. Kept' = Append(Kept, m)
  <2>1. requests' = requests \o <<m>> /\ <<m>> \in Seq(Message)
    BY <1>1, <1>3, AppendIsConcat
  <2>2. Kept' = ((yielded \o data) \o requests) \o <<m>>
    BY <1>1, <1>3, <2>1, ConcatAssociative DEF Kept
  <2> QED
    BY <1>1, <1>2, <2>2, AppendIsConcat DEF Kept
<1>5. \A i \in DOMAIN Kept : Kept[i] \in Message
  BY <1>1, LenProperties, ElementOfSeq
<1>6. \A i \in DOMAIN Kept : Kept[i][1] = m[1] => Kept[i][2] < m[2]
  BY <1>2 DEF OrderInv, AllPushed, Pushed, Enqueue
<1>7. Ordered(Kept')
  BY <1>1, <1>2, <1>4, <1>6, AddKeeps DEF OrderInv
<1>8. /\ DOMAIN Kept = 1..Len(Kept) /\ Len(Kept) \in Nat
      /\ DOMAIN Kept' = 1..(Len(Kept) + 1)
      /\ \A i \in 1..Len(Kept) : Kept'[i] = Kept[i]
      /\ Kept'[Len(Kept) + 1] = m
  BY <1>1, <1>2, <1>4, AppendProperties, LenProperties
<1>9. \A k \in Message : Pushed(k) => PushedThen(k)
  BY DEF Pushed, PushedThen, Enqueue, TypeOK, Message
<1>10. PushedThen(m)
  BY <1>2 DEF PushedThen, Enqueue, TypeOK
<1>11. ASSUME NEW i \in 1..(Len(Kept) + 1) PROVE PushedThen(Kept'[i])
  <2>1. CASE i = Len(Kept) + 1
    BY <2>1, <1>8, <1>10
  <2>2. CASE i \in 1..Len(Kept)
    <3>1. Pushed(Kept[i]) /\ Kept[i] \in Message
      BY <2>2, <1>5, <1>8 DEF OrderInv, AllPushed
    <3> QED
      BY <3>1, <2>2, <1>8, <1>9
  <2> QED
    BY <2>1, <2>2, <1>8
<1> QED
  BY <1>7, <1>8, <1>11, OrderThen

LEMMA OrderInit == Init => OrderInv
<1> SUFFICES ASSUME Init PROVE OrderInv
  OBVIOUS
<1>1. Kept = <<>> /\ DOMAIN Kept = {}
  BY EmptySeq, ConcatEmptySeq DEF Init, Kept
<1> QED
  BY <1>1 DEF OrderInv, Ordered, AllPushed

LEMMA OrderNext == TypeInv /\ TypeOK' /\ HoldInv /\ OrderInv /\ [Next]_vars => OrderInv'
<1> SUFFICES ASSUME TypeInv, TypeOK', HoldInv, OrderInv, [Next]_vars PROVE OrderInv'
  OBVIOUS
<1>a. TypeOK /\ CountedInv
  BY DEF TypeInv
<1>b. Kept' \in Seq(Message) /\ \A i \in DOMAIN Kept' : Kept'[i] \in Message
  <2>1. Kept' \in Seq(Message)
    BY ConcatProperties DEF TypeOK, Kept
  <2> QED
    BY <2>1, LenProperties, ElementOfSeq
<1>c. ASSUME Ordered(Kept') /\ AllPushed(Kept'),
             \A m \in Message : Pushed(m) => PushedThen(m)
      PROVE  OrderInv'
  BY <1>b, <1>c, OrderThen DEF AllPushed
<1>d. ASSUME UNCHANGED <<push, pushes>>
      PROVE  \A m \in Message : Pushed(m) => PushedThen(m)
  BY <1>d DEF Pushed, PushedThen
<1>e. ASSUME Kept' = Kept PROVE Ordered(Kept') /\ AllPushed(Kept')
  BY <1>e DEF OrderInv
<1>1. ASSUME NEW p \in Producers, CountRequests(p) PROVE OrderInv'
  <2>1. Kept' = Kept
    BY <1>1 DEF CountRequests, bufferVars, pullVars, Kept
  <2>2. \A m \in Message : Pushed(m) => PushedThen(m)
    BY <1>1, <1>a DEF CountRequests, Pushed, PushedThen, TypeOK, Message
  <2> QED
    BY <2>1, <2>2, <1>c, <1>e
<1>2. ASSUME NEW p \in Producers, Evict(p) PROVE OrderInv'
  <2>1. \A m \in Message : Pushed(m) => PushedThen(m)
    BY <1>2, <1>a DEF Evict, Pushed, PushedThen, TypeOK, Message
  <2> QED
    BY <2>1, <1>2, <1>a, <1>c, EvictKeeps
<1>3. ASSUME NEW p \in Producers, Enqueue(p) PROVE OrderInv'
  <2>1. pushes[p] > 0
    BY <1>3, <1>a DEF Enqueue, CountedInv
  <2> QED
    BY <2>1, <1>3, <1>a, EnqueueKeeps
<1>4. ASSUME NEW p \in Producers, Resume(p) PROVE OrderInv'
  <2>1. Kept' = Kept
    BY <1>4 DEF Resume, Kept
  <2>2. \A m \in Message : Pushed(m) => PushedThen(m)
    BY <1>4, <1>a DEF Resume, Pushed, PushedThen, TypeOK, Message
  <2> QED
    BY <2>1, <2>2, <1>c, <1>e
<1>5. ASSUME NEW d \in Disposers, Dispose(d) PROVE OrderInv'
  <2>1. Kept' = Kept /\ UNCHANGED <<push, pushes>>
    BY <1>5 DEF Dispose, StopWorking, CancelSource, FreeSemaphore, pullVars, Kept
  <2> QED
    BY <2>1, <1>c, <1>d, <1>e
<1>6. CASE CancelCall \/ UNCHANGED vars
  <2>1. Kept' = Kept /\ UNCHANGED <<push, pushes>>
    BY <1>6 DEF CancelCall, vars, bufferVars, pullVars, Kept
  <2> QED
    BY <2>1, <1>c, <1>d, <1>e
<1>7. CASE Pull
  <2>1. UNCHANGED <<push, pushes>>
    BY <1>7 DEF Pull, CheckWorking, WaitAsync, WaitCancelled, TryPull,
       ThrowIfClosed, YieldReturn, BodyEnds, LoopEnds, PullUnchanged
  <2> QED
    BY <2>1, <1>7, <1>a, <1>c, <1>d, PullKeeps
<1> QED
  BY <1>1, <1>2, <1>3, <1>4, <1>5, <1>6, <1>7 DEF Next, Push

\* What one sender pushes reaches the client in the order it was pushed, and
\* nothing of it twice, whatever is dropped and whoever else pushes.
THEOREM OrderCorrect == Spec => []SenderOrder
<1>1. OrderInv => SenderOrder
  BY DEF OrderInv, Ordered, Kept, SenderOrder
<1>2. TypeInv => TypeOK
  BY DEF TypeInv
<1> QED
  BY <1>1, <1>2, TypeInit, TypeNext, HoldInit, HoldNext, OrderInit, OrderNext, PTL DEF Spec

-----------------------------------------------------------------------------
(* The refinement.  Every step of the buffer is one of the mailbox or none: *)
(* Enqueue accepts, YieldReturn delivers, Evict and a ThrowIfClosed that    *)
(* throws lose an item, and it is shut by the cancellation or, if that came *)
(* during a yield, by the end of the foreach body.                          *)

Box == data \o requests

IsShut == Break /\ puller \notin {"yield", "out"}

LEMMA MailInit == Init => Mail!Init
<1> SUFFICES ASSUME Init PROVE Mail!Init
  OBVIOUS
<1>1. Accepted = {}
  BY DEF Init, Accepted, Message
<1>2. data \o requests = <<>>
  BY EmptySeq, ConcatEmptySeq DEF Init
<1> QED
  BY <1>1, <1>2 DEF Init, Mail!Init, Break

LEMMA MailStutters ==
    ASSUME Accepted' = Accepted, Box' = Box, yielded' = yielded, IsShut' <=> IsShut
    PROVE  UNCHANGED Mail!mailboxVars
  BY DEF Mail!mailboxVars, Box, IsShut

LEMMA MailShuts ==
    ASSUME Accepted' = Accepted, Box' = Box, yielded' = yielded, ~IsShut, IsShut'
    PROVE  Mail!Next
  BY DEF Mail!Next, Mail!Shut, Box, IsShut

LEMMA MailLoses ==
    ASSUME Accepted' = Accepted, yielded' = yielded, IsShut' <=> IsShut,
           NEW s \in Seq(Message), NEW m \in Message, NEW u \in Seq(Message),
           Box = s \o <<m>> \o u, Box' = s \o u
    PROVE  Mail!Next
<1> DEFINE n == Len(s)
           i == n + 1
<1>1. n \in Nat /\ Len(u) \in Nat /\ <<m>> \in Seq(Message) /\ Len(<<m>>) = 1
  BY LenProperties
<1>2. /\ s \o <<m>> \in Seq(Message) /\ Len(s \o <<m>>) = n + 1
      /\ Box \in Seq(Message) /\ Len(Box) = n + 1 + Len(u)
      /\ s \o u \in Seq(Message) /\ Len(s \o u) = n + Len(u)
  BY <1>1, ConcatProperties
<1>3. /\ \A j \in 1..n : Box[j] = s[j]
      /\ \A j \in 1..Len(u) : Box[n + 1 + j] = u[j]
  BY <1>1, <1>2, ConcatProperties
<1>4. /\ SubSeq(Box, 1, n) \in Seq(Message) /\ Len(SubSeq(Box, 1, n)) = n
      /\ \A j \in 1..n : SubSeq(Box, 1, n)[j] = Box[j]
  <2>1. \A j \in 1..n : Box[j] \in Message
    BY <1>1, <1>2, ElementOfSeq
  <2> QED
    BY <2>1, <1>1, SubSeqProperties
<1>5. /\ SubSeq(Box, n + 2, Len(Box)) \in Seq(Message)
      /\ Len(SubSeq(Box, n + 2, Len(Box))) = Len(u)
      /\ \A j \in 1..Len(u) : SubSeq(Box, n + 2, Len(Box))[j] = Box[n + 1 + j]
  <2>1. \A j \in (n + 2)..Len(Box) : Box[j] \in Message
    BY <1>1, <1>2, ElementOfSeq
  <2> QED
    BY <2>1, <1>1, <1>2, SubSeqProperties
<1>6. SubSeq(Box, 1, n) = s
  BY <1>1, <1>3, <1>4, SeqEqual
<1>7. SubSeq(Box, n + 2, Len(Box)) = u
  BY <1>1, <1>3, <1>5, SeqEqual
<1>8. Box' = Mail!RemoveAt(Box, i)
  <2>1. i - 1 = n /\ i + 1 = n + 2
    BY <1>1
  <2>2. Mail!RemoveAt(Box, i) = SubSeq(Box, 1, i - 1) \o SubSeq(Box, i + 1, Len(Box))
    BY Zenon DEF Mail!RemoveAt
  <2> HIDE DEF i, n
  <2>3. Mail!RemoveAt(Box, i) = s \o u
    BY <2>1, <2>2, <1>6, <1>7, Zenon
  <2> QED
    BY <2>3
<1>9. i \in DOMAIN Box
  BY <1>1, <1>2, LenProperties
<1> QED
  BY <1>8, <1>9 DEF Mail!Next, Mail!Lose, Box, IsShut

\* A message is accepted from the moment it is in the queue.
LEMMA AcceptedKept ==
    ASSUME \A m \in Message : /\ m[2] < pushes[m[1]] \/ (m[2] = pushes[m[1]] /\ push[m[1]] \in {"resume", "idle"})
                              <=> m[2] < pushes'[m[1]] \/ (m[2] = pushes'[m[1]] /\ push'[m[1]] \in {"resume", "idle"})
    PROVE  Accepted' = Accepted
  BY DEF Accepted

LEMMA MailEnqueues ==
    ASSUME TypeOK, TypeOK', BacklogInv, HoldInv, NEW p \in Producers, Enqueue(p), pushes[p] > 0
    PROVE  Mail!Next
<1>1. <<p, pushes[p]>> \in Message
  BY DEF TypeOK, Message
<1>2. PICK m \in Message : m = <<p, pushes[p]>>
  BY <1>1
<1>3. /\ requests \in Seq(Message) /\ data \in Seq(Message) /\ <<m>> \in Seq(Message)
      /\ requests' = Append(requests, m) /\ data' = data /\ yielded' = yielded
  BY <1>2 DEF TypeOK, Enqueue, pullVars
<1>4. Box' = Append(Box, m)
  <2>1. requests' = requests \o <<m>> /\ Box \in Seq(Message)
    BY <1>3, AppendIsConcat, ConcatProperties DEF Box
  <2>2. Box' = (data \o requests) \o <<m>>
    BY <1>3, <2>1, ConcatAssociative DEF Box
  <2> QED
    BY <2>1, <2>2, AppendIsConcat DEF Box
<1>5. m \notin Accepted
  <2>1. m[1] = p /\ m[2] = pushes[p] /\ pushes[p] \in Nat
    BY <1>2 DEF TypeOK
  <2>2. push[p] = "enqueue"
    BY DEF Enqueue
  <2> QED
    BY <2>1, <2>2 DEF Accepted
<1>6. Accepted' = Accepted \cup {m}
  <2>1. \A k \in Message : k \in Accepted' <=> k \in Accepted \/ k = m
    <3> TAKE k \in Message
    <3>1. k[1] \in Producers /\ k[2] \in 1..PushLimit /\ k = <<k[1], k[2]>>
      BY DEF Message
    <3>2. CASE k[1] = p
      BY <3>1, <3>2, <1>2 DEF Accepted, Enqueue, TypeOK
    <3>3. CASE k[1] # p
      BY <3>1, <3>3, <1>2 DEF Accepted, Enqueue, TypeOK
    <3> QED
      BY <3>2, <3>3
  <2> QED
    BY <2>1 DEF Accepted
<1>7. Len(Box) < Max + Cardinality(Producers) + 1
  <2>1. p \in Claims /\ IsFiniteSet(Claims)
    BY ClaimsFinite DEF Claims, Enqueue
  <2>2. Cardinality(Claims) >= 1
    <3>1. Cardinality({p}) = 1 /\ {p} \subseteq Claims
      BY <2>1, FS_Singleton
    <3> QED
      BY <2>1, <3>1, FS_Subset
  <2>3. Len(data) \in {0, 1}
    BY EmptySeq DEF HoldInv
  <2>4. Len(Box) = Len(data) + Len(requests)
    BY <1>3, ConcatProperties DEF Box
  <2>5. /\ Len(requests) \in Nat /\ Cardinality(Claims) \in Nat /\ Cardinality(Producers) \in Nat
    BY <1>3, ClaimsFinite, LenProperties
  <2>6. Len(requests) + 1 <= Max + Cardinality(Producers)
    BY <2>2, <2>5 DEF BacklogInv
  <2>7. ASSUME NEW d \in {0, 1}, NEW r \in Nat, NEW c \in Nat, r + 1 <= Max + c
        PROVE  d + r < Max + c + 1
    BY <2>7
  <2>8. Len(data) + Len(requests) < Max + Cardinality(Producers) + 1
    BY <2>3, <2>5, <2>6, <2>7
  <2> QED
    BY <2>4, <2>8
<1>8. IsShut' <=> IsShut
  BY DEF IsShut, Break, Enqueue, pullVars
<1> QED
  BY <1>3, <1>4, <1>5, <1>6, <1>7, <1>8 DEF Mail!Next, Mail!Accept, Box, IsShut

LEMMA MailNext ==
    TypeInv /\ TypeOK' /\ BacklogInv /\ HoldInv /\ [Next]_vars => [Mail!Next]_(Mail!mailboxVars)
<1> SUFFICES ASSUME TypeInv, TypeOK', BacklogInv, HoldInv, [Next]_vars
             PROVE  Mail!Next \/ UNCHANGED Mail!mailboxVars
  OBVIOUS
<1>a. TypeOK /\ CountedInv
  BY DEF TypeInv
<1>b. data \in Seq(Message) /\ requests \in Seq(Message) /\ <<>> \in Seq(Message)
  BY <1>a, EmptySeq DEF TypeOK
<1>1. ASSUME NEW p \in Producers, CountRequests(p) PROVE UNCHANGED Mail!mailboxVars
  <2>1. Accepted' = Accepted
    BY <1>1, <1>a, AcceptedKept DEF CountRequests, TypeOK, Message
  <2> QED
    BY <1>1, <2>1, MailStutters DEF CountRequests, bufferVars, pullVars, Box, IsShut, Break
<1>2. ASSUME NEW p \in Producers, Evict(p) PROVE Mail!Next \/ UNCHANGED Mail!mailboxVars
  <2>1. Accepted' = Accepted
    BY <1>2, <1>a, AcceptedKept DEF Evict, TypeOK, Message
  <2>2. yielded' = yielded /\ data' = data /\ (IsShut' <=> IsShut)
    BY <1>2 DEF Evict, pullVars, IsShut, Break
  <2>3. CASE requests = <<>>
    BY <1>2, <2>1, <2>2, <2>3, MailStutters DEF Evict, Box
  <2>4. CASE requests # <<>>
    <3>1. /\ Tail(requests) \in Seq(Message)
          /\ <<Head(requests)>> \in Seq(Message)
          /\ <<Head(requests)>> \o Tail(requests) = requests
      BY <1>b, <2>4, HeadAndTail
    <3>2. Head(requests) \in Message
      BY <1>b, <2>4, HeadTailProperties
    <3>3. Box = data \o <<Head(requests)>> \o Tail(requests)
      <4>1. Box = data \o (<<Head(requests)>> \o Tail(requests))
        BY <3>1 DEF Box
      <4> QED
        BY <1>b, <3>1, <4>1, Regrouped
    <3>4. Box' = data \o Tail(requests)
      BY <1>2, <2>2, <2>4 DEF Evict, Box
    <3> QED
      BY <1>b, <2>1, <2>2, <3>1, <3>2, <3>3, <3>4, MailLoses
  <2> QED
    BY <2>3, <2>4
<1>3. ASSUME NEW p \in Producers, Enqueue(p) PROVE Mail!Next
  <2>1. pushes[p] > 0
    BY <1>3, <1>a DEF Enqueue, CountedInv
  <2> QED
    BY <2>1, <1>3, <1>a, MailEnqueues
<1>4. ASSUME NEW p \in Producers, Resume(p) PROVE UNCHANGED Mail!mailboxVars
  <2>1. Accepted' = Accepted
    BY <1>4, <1>a, AcceptedKept DEF Resume, TypeOK, Message
  <2>2. IsShut' <=> IsShut
    BY <1>4 DEF Resume, Release, IsShut, Break
  <2> QED
    BY <1>4, <2>1, <2>2, MailStutters DEF Resume, Box
<1>c. ASSUME UNCHANGED <<push, pushes>> PROVE Accepted' = Accepted
  BY <1>c DEF Accepted
<1>d. ASSUME UNCHANGED <<push, pushes, data, requests, yielded, puller>>, Break => Break'
      PROVE  Mail!Next \/ UNCHANGED Mail!mailboxVars
  <2>1. Accepted' = Accepted /\ Box' = Box
    BY <1>c, <1>d DEF Box
  <2>2. CASE IsShut' <=> IsShut
    BY <1>d, <2>1, <2>2, MailStutters
  <2>3. CASE IsShut' /\ ~IsShut
    BY <1>d, <2>1, <2>3, MailShuts
  <2> QED
    BY <1>d, <2>2, <2>3 DEF IsShut
<1>5. ASSUME NEW d \in Disposers, Dispose(d) PROVE Mail!Next \/ UNCHANGED Mail!mailboxVars
  BY <1>5, <1>d DEF Dispose, StopWorking, CancelSource, FreeSemaphore, pullVars, Break
<1>6. CASE CancelCall \/ UNCHANGED vars
  BY <1>6, <1>d DEF CancelCall, vars, bufferVars, pullVars, Break
<1>e. ASSUME Pull PROVE Accepted' = Accepted /\ (Break' <=> Break)
  <2>1. UNCHANGED <<push, pushes>> /\ closed' = closed /\ callerCancelled' = callerCancelled
    BY <1>e DEF Pull, CheckWorking, WaitAsync, WaitCancelled, TryPull,
       ThrowIfClosed, YieldReturn, BodyEnds, LoopEnds, PullUnchanged
  <2> QED
    BY <2>1, <1>c DEF Break
<1>7. CASE CheckWorking \/ WaitAsync \/ WaitCancelled \/ LoopEnds
  <2>1. Accepted' = Accepted /\ (Break' <=> Break)
    BY <1>7, <1>e DEF Pull
  <2>2. /\ puller \notin {"yield", "out"} /\ puller' \notin {"yield", "out"}
        /\ UNCHANGED <<yielded, data, requests>>
    BY <1>7 DEF CheckWorking, WaitAsync, WaitCancelled, LoopEnds
  <2> QED
    BY <2>1, <2>2, MailStutters DEF Box, IsShut
<1>8. CASE TryPull
  <2>1. Accepted' = Accepted /\ (Break' <=> Break)
    BY <1>8, <1>e DEF Pull
  <2>2. yielded' = yielded /\ (IsShut' <=> IsShut)
    BY <1>8, <2>1 DEF TryPull, IsShut
  <2>3. CASE requests = <<>>
    BY <1>8, <2>1, <2>2, <2>3, MailStutters DEF TryPull, Box
  <2>4. CASE requests # <<>>
    <3>1. data = <<>> /\ data' = <<Head(requests)>> /\ requests' = Tail(requests)
      BY <1>8, <2>4 DEF TryPull, HoldInv
    <3>2. <<Head(requests)>> \o Tail(requests) = requests
      BY <1>b, <2>4, HeadAndTail
    <3>3. Box' = Box
      BY <1>b, <3>1, <3>2, ConcatEmptySeq DEF Box
    <3> QED
      BY <2>1, <2>2, <3>3, MailStutters
  <2> QED
    BY <2>3, <2>4
<1>9. CASE ThrowIfClosed
  <2>1. Accepted' = Accepted /\ (Break' <=> Break)
    BY <1>9, <1>e DEF Pull
  <2>2. yielded' = yielded /\ (IsShut' <=> IsShut)
    BY <1>9, <2>1 DEF ThrowIfClosed, IsShut
  <2>3. CASE ~Break
    BY <1>9, <2>1, <2>2, <2>3, MailStutters DEF ThrowIfClosed, Box
  <2>4. CASE Break
    <3>1. PICK m \in Message : data = <<m>>
      BY <1>9 DEF ThrowIfClosed, HoldInv
    <3>2. Box' = <<>> \o requests
      BY <1>9, <2>4 DEF ThrowIfClosed, Box
    <3>3. Box = <<>> \o <<m>> \o requests
      BY <1>b, <3>1, ConcatEmptySeq DEF Box
    <3> QED
      BY <1>b, <2>1, <2>2, <3>1, <3>2, <3>3, MailLoses
  <2> QED
    BY <2>3, <2>4
<1>10. CASE YieldReturn
  <2>1. Accepted' = Accepted
    BY <1>10, <1>e DEF Pull
  <2>2. PICK m \in Message : data = <<m>>
    BY <1>10 DEF YieldReturn, HoldInv
  <2>3. <<m>> \in Seq(Message) /\ yielded \in Seq(Message)
    BY <1>a DEF TypeOK
  <2>4. Box = <<m>> \o requests /\ Box \in Seq(Message)
    BY <1>b, <2>2, ConcatProperties DEF Box
  <2>5. Box # <<>> /\ Head(Box) = m /\ Tail(Box) = requests
    <3>1. Len(Box) = 1 + Len(requests) /\ Len(requests) \in Nat /\ Box[1] = m
      BY <1>b, <2>3, <2>4, ConcatProperties, LenProperties
    <3>2. Box # <<>> /\ Head(Box) = m
      BY <2>4, <3>1, EmptySeq
    <3>3. /\ Tail(Box) \in Seq(Message) /\ Len(Tail(Box)) = Len(requests)
          /\ \A i \in 1..Len(requests) : Tail(Box)[i] = Box[i + 1]
      BY <2>4, <3>1, <3>2, HeadTailProperties
    <3>4. \A i \in 1..Len(requests) : Box[i + 1] = requests[i]
      BY <1>b, <2>3, <2>4, <3>1, ConcatProperties
    <3>5. Tail(Box) = requests
      BY <1>b, <3>3, <3>4, SeqEqual
    <3> QED
      BY <3>2, <3>5
  <2>6. Box' = requests
    BY <1>10, <1>b, ConcatEmptySeq DEF YieldReturn, Box
  <2>7. yielded' = Append(yielded, m)
    BY <1>10, <2>2, <2>3, AppendIsConcat DEF YieldReturn
  <2>8. ~IsShut /\ ~IsShut'
    BY <1>10 DEF YieldReturn, IsShut
  <2> QED
    BY <2>1, <2>5, <2>6, <2>7, <2>8 DEF Mail!Next, Mail!Deliver, Box, IsShut
<1>11. CASE BodyEnds
  <2>1. Accepted' = Accepted /\ (Break' <=> Break)
    BY <1>11, <1>e DEF Pull
  <2>2. ~IsShut /\ Box' = Box /\ yielded' = yielded
    BY <1>11 DEF BodyEnds, IsShut, Box
  <2>3. CASE IsShut'
    BY <2>1, <2>2, <2>3, MailShuts
  <2>4. CASE ~IsShut'
    BY <2>1, <2>2, <2>4, MailStutters
  <2> QED
    BY <2>3, <2>4
<1> QED
  BY <1>1, <1>2, <1>3, <1>4, <1>5, <1>6, <1>7, <1>8, <1>9, <1>10, <1>11 DEF Next, Push, Pull

\* The lock-free buffer is a bounded lossy first-in first-out mailbox: whatever its
\* threads do, its client sees nothing that Mailbox would not let it see.
THEOREM Refinement == Spec => ImplementsMailbox
<1>1. TypeInv => TypeOK
  BY DEF TypeInv
<1> QED
  BY <1>1, TypeInit, TypeNext, BacklogInit, BacklogNext, HoldInit, HoldNext,
     MailInit, MailNext, PTL DEF Spec, ImplementsMailbox, Mail!Spec

=============================================================================
