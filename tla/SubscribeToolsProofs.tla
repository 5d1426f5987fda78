------------------------- MODULE SubscribeToolsProofs -------------------------
(***************************************************************************)
(* Theorems about SubscribeTools, for any number of handlers and any depth *)
(* to which its calls are nested.                                          *)
(***************************************************************************)
EXTENDS SubscribeTools, SequenceTheorems, TLAPS

USE SubscribeAssumption DEF SubscribeAssumption

-----------------------------------------------------------------------------
(* The stack of calls: what an action may do to it keeps it well nested, and *)
(* keeps what ReachesAll says of every call.  The handlers a call knows of   *)
(* were subscribed.                                                          *)

WellNested(calls) ==
    /\ calls \in Seq(Frame)
    /\ \A i \in DOMAIN calls :
          /\ i < Len(calls) => calls[i].handler # None
          /\ calls[i].visited \cap calls[i].ahead = {}

Reaches(calls, list) ==
    \A i \in DOMAIN calls : ~calls[i].changed => calls[i].visited \cup calls[i].ahead = list

Known(calls, handlers) ==
    \A i \in DOMAIN calls :
        calls[i].ahead \subseteq handlers /\ calls[i].handler \in handlers \cup {None}

LEMMA TopCall ==
    ASSUME WellNested(stack), stack # <<>>
    PROVE  /\ Len(stack) \in Nat \ {0}
           /\ Len(stack) \in DOMAIN stack
           /\ Top \in Frame
           /\ Top.visited \cap Top.ahead = {}
<1>1. Len(stack) \in Nat \ {0} /\ DOMAIN stack = 1..Len(stack)
  BY EmptySeq, LenProperties DEF WellNested
<1>2. Len(stack) \in DOMAIN stack
  BY <1>1
<1>3. Top \in Frame
  BY <1>1, ElementOfSeq DEF WellNested, Top
<1> QED
  BY <1>1, <1>2, <1>3 DEF WellNested, Top

LEMMA RestCalls ==
    ASSUME WellNested(stack), stack # <<>>
    PROVE  /\ WellNested(Rest)
           /\ \A list : Reaches(stack, list) => Reaches(Rest, list)
           /\ \A handlers : Known(stack, handlers) => Known(Rest, handlers)
<1>1. Len(stack) \in Nat \ {0} /\ DOMAIN stack = 1..Len(stack)
  BY TopCall, LenProperties DEF WellNested
<1>2. \A i \in 1..(Len(stack) - 1) : stack[i] \in Frame
  BY <1>1, ElementOfSeq DEF WellNested
<1>3. /\ Rest \in Seq(Frame)
      /\ Len(Rest) = Len(stack) - 1
      /\ \A i \in 1..(Len(stack) - 1) : Rest[i] = stack[i]
  BY <1>1, <1>2, SubSeqProperties DEF Rest
<1>4. DOMAIN Rest = 1..(Len(stack) - 1)
  BY <1>3, LenProperties
<1> QED
  BY <1>1, <1>3, <1>4 DEF WellNested, Reaches, Known

LEMMA OutdateCalls ==
    ASSUME NEW calls, WellNested(calls)
    PROVE  /\ WellNested(Outdate(calls))
           /\ \A list : Reaches(Outdate(calls), list)
           /\ \A handlers : Known(calls, handlers) => Known(Outdate(calls), handlers)
           /\ Outdate(calls) = <<>> <=> calls = <<>>
<1>1. Len(calls) \in Nat /\ DOMAIN calls = 1..Len(calls)
  BY LenProperties DEF WellNested
<1>2. ASSUME NEW i \in 1..Len(calls)
      PROVE  /\ Outdate(calls)[i] \in Frame
             /\ Outdate(calls)[i].changed
             /\ Outdate(calls)[i].handler = calls[i].handler
             /\ Outdate(calls)[i].visited = calls[i].visited
             /\ Outdate(calls)[i].ahead = calls[i].ahead
  <2>1. calls[i] \in Frame
    BY ElementOfSeq DEF WellNested
  <2>2. Outdate(calls)[i] = [calls[i] EXCEPT !.changed = TRUE]
    BY <1>1 DEF Outdate
  <2> QED
    BY <2>1, <2>2 DEF Frame
<1>3. Outdate(calls) \in [1..Len(calls) -> Frame]
  BY <1>1, <1>2 DEF Outdate
<1>4. Outdate(calls) \in Seq(Frame)
  BY <1>1, <1>3, SeqDef
<1>5. DOMAIN Outdate(calls) = 1..Len(calls)
  BY <1>1 DEF Outdate
<1>6. Len(Outdate(calls)) = Len(calls)
  BY <1>1, <1>4, <1>5, LenProperties
<1>7. Outdate(calls) = <<>> <=> calls = <<>>
  BY <1>1, <1>4, <1>6, EmptySeq DEF WellNested
<1> QED
  BY <1>1, <1>2, <1>4, <1>5, <1>6, <1>7 DEF WellNested, Reaches, Known

\* Invoke.
LEMMA PushCall ==
    ASSUME WellNested(stack), Outside,
           NEW f \in Frame, f.visited \cap f.ahead = {}
    PROVE  /\ WellNested(Append(stack, f))
           /\ \A list : Reaches(stack, list) /\ f.visited \cup f.ahead = list
                           => Reaches(Append(stack, f), list)
           /\ \A handlers :
                 /\ Known(stack, handlers)
                 /\ f.ahead \subseteq handlers /\ f.handler \in handlers \cup {None}
                 => Known(Append(stack, f), handlers)
           /\ Append(stack, f) # <<>>
<1>1. Len(stack) \in Nat /\ DOMAIN stack = 1..Len(stack)
  BY LenProperties DEF WellNested
<1>2. /\ Append(stack, f) \in Seq(Frame)
      /\ Append(stack, f) # <<>>
      /\ Len(Append(stack, f)) = Len(stack) + 1
      /\ \A i \in 1..Len(stack) : Append(stack, f)[i] = stack[i]
      /\ Append(stack, f)[Len(stack) + 1] = f
  BY AppendProperties DEF WellNested
<1>3. DOMAIN Append(stack, f) = 1..(Len(stack) + 1)
  BY <1>2, LenProperties
<1>4. \A i \in 1..Len(stack) : stack[i].handler # None
  <2>1. CASE stack = <<>>
    BY <2>1, <1>1, EmptySeq
  <2>2. CASE stack # <<>>
    BY <2>2, <1>1 DEF Outside, Top, WellNested
  <2> QED
    BY <2>1, <2>2
<1>5. WellNested(Append(stack, f))
  BY <1>1, <1>2, <1>3, <1>4 DEF WellNested
<1> QED
  BY <1>1, <1>2, <1>3, <1>5 DEF Reaches, Known

\* MoveNext and Return.
LEMMA ReplaceTop ==
    ASSUME WellNested(stack), stack # <<>>,
           NEW f \in Frame, f.visited \cap f.ahead = {}, SetTop(f)
    PROVE  /\ WellNested(stack')
           /\ \A list : Reaches(stack, list) /\ (~f.changed => f.visited \cup f.ahead = list)
                           => Reaches(stack', list)
           /\ \A handlers :
                 /\ Known(stack, handlers)
                 /\ f.ahead \subseteq handlers /\ f.handler \in handlers \cup {None}
                 => Known(stack', handlers)
           /\ stack' # <<>>
<1>1. Len(stack) \in Nat \ {0} /\ DOMAIN stack = 1..Len(stack)
  BY TopCall, LenProperties DEF WellNested
<1>2. /\ stack' \in Seq(Frame)
      /\ Len(stack') = Len(stack)
      /\ \A i \in 1..Len(stack) : stack'[i] = IF i = Len(stack) THEN f ELSE stack[i]
  BY <1>1, ExceptSeq DEF WellNested, SetTop
<1>3. DOMAIN stack' = 1..Len(stack)
  BY <1>2, LenProperties
<1>4. stack' # <<>>
  BY <1>1, <1>2, EmptySeq
<1>5. WellNested(stack')
  <2>1. ASSUME NEW i \in 1..Len(stack)
        PROVE  /\ i < Len(stack) => stack'[i].handler # None
               /\ stack'[i].visited \cap stack'[i].ahead = {}
    <3>1. CASE i = Len(stack)
      BY <3>1, <1>1, <1>2
    <3>2. CASE i # Len(stack)
      BY <3>2, <1>1, <1>2 DEF WellNested
    <3> QED
      BY <3>1, <3>2
  <2> QED
    BY <2>1, <1>2, <1>3 DEF WellNested
<1>6. ASSUME NEW list, Reaches(stack, list), ~f.changed => f.visited \cup f.ahead = list
      PROVE  Reaches(stack', list)
  BY <1>1, <1>2, <1>3, <1>6 DEF Reaches
<1>7. ASSUME NEW handlers, Known(stack, handlers),
             f.ahead \subseteq handlers, f.handler \in handlers \cup {None}
      PROVE  Known(stack', handlers)
  BY <1>1, <1>2, <1>3, <1>7 DEF Known
<1> QED
  BY <1>4, <1>5, <1>6, <1>7

-----------------------------------------------------------------------------
(* The invariants.  The handlers that are done are queued because a call    *)
(* that is cut short leaves the queue alone.                                *)

Inv ==
    /\ TypeOK /\ ReachesAll /\ OnceIsOver
    /\ Known(stack, subscribed)

Sets ==
    /\ _invokes \subseteq subscribed
    /\ _deletes \subseteq subscribed
    /\ subscribed \subseteq Handlers
    /\ done \subseteq subscribed

Calls ==
    /\ WellNested(stack)
    /\ Reaches(stack, _invokes)
    /\ Known(stack, subscribed)

LEMMA InvParts ==
    Inv <=> Sets /\ cut \in BOOLEAN /\ Calls /\ OnceIsOver
  BY DEF Inv, TypeOK, ReachesAll, Sets, Calls, WellNested, Reaches

LEMMA InvPartsNext ==
    Inv' <=> Sets' /\ cut' \in BOOLEAN /\ Calls' /\ OnceIsOver'
  BY DEF Inv, TypeOK, ReachesAll, Sets, Calls, WellNested, Reaches

LEMMA InvInit == Init => Inv
<1> SUFFICES ASSUME Init PROVE Inv
  OBVIOUS
<1>1. stack \in Seq(Frame) /\ DOMAIN stack = {}
  BY EmptySeq, LenProperties DEF Init
<1>2. cut \in BOOLEAN
  BY Zenon DEF Init
<1> QED
  BY <1>1, <1>2 DEF Init, Inv, TypeOK, ReachesAll, OnceIsOver, Known

LEMMA SubscribeKeeps ==
    ASSUME Inv, NEW h \in Handlers, Subscribe(h)
    PROVE  Inv'
<1>1. cut' \in BOOLEAN
  BY InvParts, Zenon DEF Subscribe
<1>2. WellNested(stack') /\ Reaches(stack', _invokes') /\ (stack' = <<>> <=> stack = <<>>)
  BY InvParts, OutdateCalls DEF Subscribe, Calls
<1>3. Known(stack', subscribed)
  BY InvParts, OutdateCalls DEF Subscribe, Calls
<1>4. Known(stack', subscribed')
  BY <1>3 DEF Subscribe, Known
<1>5. Sets' /\ OnceIsOver'
  BY <1>2, InvParts DEF Subscribe, Sets, OnceIsOver
<1> QED
  BY <1>1, <1>2, <1>4, <1>5, InvPartsNext DEF Calls

LEMMA DisposeKeeps ==
    ASSUME Inv, Dispose
    PROVE  Inv'
<1>1. cut' \in BOOLEAN
  BY InvParts, Zenon DEF Dispose
<1>2. Calls'
  BY InvParts, OutdateCalls DEF Dispose, Calls
<1>3. stack' = <<>> <=> stack = <<>>
  BY InvParts, OutdateCalls DEF Dispose, Calls
<1>4. Sets' /\ OnceIsOver'
  BY <1>3, InvParts DEF Dispose, Sets, OnceIsOver
<1> QED
  BY <1>1, <1>2, <1>4, InvPartsNext

LEMMA InvokeKeeps ==
    ASSUME Inv, Invoke
    PROVE  Inv'
<1> DEFINE f == [visited |-> {}, ahead |-> _invokes, handler |-> None, changed |-> FALSE]
<1>1. cut' \in BOOLEAN
  BY InvParts, Zenon DEF Invoke
<1>2. /\ f \in Frame
      /\ f.visited \cap f.ahead = {}
      /\ f.visited \cup f.ahead = _invokes
      /\ f.ahead \subseteq subscribed /\ f.handler \in subscribed \cup {None}
  BY InvParts DEF Frame, Sets
<1>3. Calls' /\ stack' # <<>>
  BY <1>2, InvParts, PushCall DEF Invoke, Calls
<1>4. Sets' /\ OnceIsOver'
  BY <1>3, InvParts DEF Invoke, Sets, OnceIsOver
<1> QED
  BY <1>1, <1>3, <1>4, InvPartsNext

LEMMA MoveNextKeeps ==
    ASSUME Inv, MoveNext
    PROVE  Inv'
<1>1. cut' \in BOOLEAN
  BY InvParts, Zenon DEF MoveNext
<1>2. stack # <<>>
  BY DEF MoveNext, Outside
<1>3. PICK h \in Top.ahead :
          SetTop([Top EXCEPT !.handler = h, !.ahead = @ \ {h}, !.visited = @ \cup {h}])
  BY DEF MoveNext
<1> DEFINE f == [Top EXCEPT !.handler = h, !.ahead = @ \ {h}, !.visited = @ \cup {h}]
<1>4. Top \in Frame /\ Top.visited \cap Top.ahead = {} /\ Len(stack) \in DOMAIN stack
  BY <1>2, TopCall, InvParts DEF Calls
<1>5. Top.ahead \subseteq subscribed
  BY <1>4, InvParts DEF Calls, Known, Top
<1>6. /\ f \in Frame
      /\ f.visited \cap f.ahead = {}
      /\ f.visited \cup f.ahead = Top.visited \cup Top.ahead
      /\ f.ahead \subseteq subscribed /\ f.handler \in subscribed \cup {None}
  BY <1>4, <1>5 DEF Frame
<1>7. Top.visited \cup Top.ahead = _invokes
  BY <1>4, InvParts DEF MoveNext, Calls, Reaches, Top
<1>8. Calls' /\ stack' # <<>>
  BY <1>2, <1>3, <1>6, <1>7, ReplaceTop, InvParts DEF MoveNext, Calls
<1>9. Sets' /\ OnceIsOver'
  BY <1>8, InvParts DEF MoveNext, Sets, OnceIsOver
<1> QED
  BY <1>1, <1>8, <1>9, InvPartsNext

LEMMA ReturnKeeps ==
    ASSUME Inv, Return
    PROVE  Inv'
<1>1. cut' \in BOOLEAN
  BY InvParts, Zenon DEF Return
<1>2. stack # <<>> /\ Top.handler # None
  BY DEF Return, Outside
<1> DEFINE f == [Top EXCEPT !.handler = None]
<1>3. Top \in Frame /\ Top.visited \cap Top.ahead = {} /\ Len(stack) \in DOMAIN stack
  BY <1>2, TopCall, InvParts DEF Calls
<1>4. Top.ahead \subseteq subscribed /\ Top.handler \in subscribed
  BY <1>2, <1>3, InvParts DEF Calls, Known, Top
<1>5. /\ f \in Frame
      /\ f.visited = Top.visited
      /\ f.ahead = Top.ahead
      /\ f.handler = None
      /\ f.changed <=> Top.changed
  BY <1>3 DEF Frame
<1>6. ~Top.changed => Top.visited \cup Top.ahead = _invokes
  BY <1>3, InvParts DEF Calls, Reaches, Top
<1>7. Calls' /\ stack' # <<>>
  BY <1>2, <1>3, <1>4, <1>5, <1>6, ReplaceTop, InvParts DEF Return, Calls
<1>8. Sets'
  BY <1>4, InvParts DEF Return, Sets
<1>9. OnceIsOver'
  BY <1>7, InvParts DEF Return, OnceIsOver
<1> QED
  BY <1>1, <1>7, <1>8, <1>9, InvPartsNext

\* A call that was cut short leaves the queue as it is.
LEMMA ThrowKeeps ==
    ASSUME Inv, Throw
    PROVE  Inv'
<1>1. cut' \in BOOLEAN
  BY InvParts, Zenon DEF Throw
<1>2. Calls'
  BY InvParts, RestCalls DEF Throw, Calls
<1>3. Sets'
  BY InvParts DEF Throw, Sets
<1>4. stack' = <<>> => cut'
  BY Zenon DEF Throw
<1>5. OnceIsOver'
  BY <1>4, InvParts DEF Throw, OnceIsOver
<1> QED
  BY <1>1, <1>2, <1>3, <1>5, InvPartsNext

LEMMA EndKeeps ==
    ASSUME Inv, End
    PROVE  Inv'
<1>1. cut' \in BOOLEAN
  BY InvParts, Zenon DEF End
<1>2. stack # <<>>
  BY DEF End, Outside
<1>3. WellNested(Rest) /\ Reaches(Rest, _invokes) /\ Known(Rest, subscribed)
  BY <1>2, InvParts, RestCalls DEF Calls
<1>4. Calls'
  <2>1. CASE _invokes \cap _deletes = {}
    <3>1. _invokes' = _invokes /\ stack' = Rest /\ subscribed' = subscribed
      BY <2>1 DEF End
    <3> QED
      BY <3>1, <1>3 DEF Calls
  <2>2. CASE _invokes \cap _deletes # {}
    <3>1. stack' = Outdate(Rest) /\ subscribed' = subscribed
      BY <2>2 DEF End
    <3> QED
      BY <3>1, <1>3, OutdateCalls DEF Calls
  <2> QED
    BY <2>1, <2>2
<1>5. Sets'
  BY InvParts DEF End, Sets
<1>6. OnceIsOver'
  BY InvParts DEF End, OnceIsOver
<1> QED
  BY <1>1, <1>4, <1>5, <1>6, InvPartsNext

LEMMA InvNext == Inv /\ [Next]_vars => Inv'
<1> SUFFICES ASSUME Inv, [Next]_vars
             PROVE  Inv'
  OBVIOUS
<1>1. CASE Dispose
  BY <1>1, DisposeKeeps
<1>2. CASE Invoke
  BY <1>2, InvokeKeeps
<1>3. CASE MoveNext
  BY <1>3, MoveNextKeeps
<1>4. CASE Return
  BY <1>4, ReturnKeeps
<1>5. CASE Throw
  BY <1>5, ThrowKeeps
<1>6. CASE End
  BY <1>6, EndKeeps
<1>7. CASE \E h \in Handlers : Subscribe(h)
  BY <1>7, SubscribeKeeps
<1>8. CASE UNCHANGED vars
  <2>1. cut' \in BOOLEAN
    BY <1>8, InvParts, Zenon DEF vars
  <2>2. Calls' /\ Sets' /\ OnceIsOver'
    BY <1>8, InvParts DEF vars, Calls, Sets, OnceIsOver
  <2> QED
    BY <2>1, <2>2, InvPartsNext
<1> QED
  BY <1>1, <1>2, <1>3, <1>4, <1>5, <1>6, <1>7, <1>8 DEF Next

LEMMA InvAlways == Spec => []Inv
  BY InvInit, InvNext, PTL DEF Spec

-----------------------------------------------------------------------------
\* Calls of Invoke stay well nested, and what is queued or done was subscribed.
THEOREM TypeCorrect == Spec => []TypeOK
<1>1. Inv => TypeOK
  BY DEF Inv
<1> QED
  BY <1>1, InvAlways, PTL

\* An event reaches every handler that is subscribed when its last call is made,
\* and none that Dispose has removed, however handlers nest events, subscribe, end
\* subscriptions and throw.
THEOREM ReachCorrect == Spec => []ReachesAll
<1>1. Inv => ReachesAll
  BY DEF Inv
<1> QED
  BY <1>1, InvAlways, PTL

\* However calls nest, throw and change the list, a handler that has returned true
\* is removed by the next call of Invoke that ends, and none is left when no call is
\* under way, unless the last one was cut short by an exception.
THEOREM OnceCorrect == Spec => []OnceIsOver
<1>1. Inv => OnceIsOver
  BY DEF Inv
<1> QED
  BY <1>1, InvAlways, PTL

=============================================================================
