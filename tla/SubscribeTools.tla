---------------------------- MODULE SubscribeTools ----------------------------
(***************************************************************************)
(* SubscribeTools<T>: the events of the client.  Invoke calls every        *)
(* handler of a list; one that returns true is put on a queue, and the     *)
(* queue is worked off after the last call.                                *)
(*                                                                         *)
(* One thread runs it all, but a handler may do anything: subscribe, end   *)
(* all subscriptions, raise the same event again, throw.  The enumerator   *)
(* of the list throws at its next step if the list has changed.            *)
(*                                                                         *)
(* In which order handlers are called and removed is left out.             *)
(***************************************************************************)
EXTENDS Naturals, Sequences

CONSTANTS
    Handlers, \* each is subscribed once
    Depth,    \* bound: how many calls of Invoke are nested
    None

ASSUME SubscribeAssumption == None \notin Handlers

VARIABLES
    _invokes,
    _deletes,
    stack,      \* the calls of Invoke under way, the innermost last
    subscribed, \* history: the handlers that Subscribe was called with
    done,       \* history: those that have returned true
    cut         \* history: the last Invoke, not a nested one, ended by an exception

vars == <<_invokes, _deletes, stack, subscribed, done, cut>>

\* A call of Invoke: the handlers its foreach has visited, those ahead of it, the
\* handler it is inside of, and whether the list has another version by now.
Frame == [visited : SUBSET Handlers, ahead : SUBSET Handlers,
          handler : Handlers \cup {None}, changed : BOOLEAN]

Init ==
    /\ _invokes = {}
    /\ _deletes = {}
    /\ stack = <<>>
    /\ subscribed = {}
    /\ done = {}
    /\ cut = FALSE

Top == stack[Len(stack)]

\* Code other than SubscribeTools runs: a handler, or nothing of it is under way.
Outside == stack # <<>> => Top.handler # None

Rest == SubSeq(stack, 1, Len(stack) - 1)

\* The list has changed under all that walk it.
Outdate(calls) == [i \in DOMAIN calls |-> [calls[i] EXCEPT !.changed = TRUE]]

SetTop(frame) == stack' = [stack EXCEPT ![Len(stack)] = frame]

-----------------------------------------------------------------------------
Subscribe_SameVersion(h) ==
    /\ Outside
    /\ h \notin subscribed
    /\ _invokes' = _invokes \cup {h}
    /\ subscribed' = subscribed \cup {h}
    /\ UNCHANGED <<_deletes, stack, done, cut>>

Subscribe(h) ==
    /\ Outside
    /\ h \notin subscribed
    /\ _invokes' = _invokes \cup {h}
    /\ stack' = Outdate(stack)
    /\ subscribed' = subscribed \cup {h}
    /\ UNCHANGED <<_deletes, done, cut>>

\* The queue is not cleared.
Dispose ==
    /\ Outside
    /\ _invokes' = {}
    /\ stack' = Outdate(stack)
    /\ UNCHANGED <<_deletes, subscribed, done, cut>>

Invoke ==
    /\ Outside
    /\ Len(stack) < Depth
    /\ stack' = Append(stack, [visited |-> {}, ahead |-> _invokes,
                               handler |-> None, changed |-> FALSE])
    /\ UNCHANGED <<_invokes, _deletes, subscribed, done, cut>>

\* The foreach goes on to another handler.
MoveNext ==
    /\ ~Outside
    /\ ~Top.changed
    /\ \E h \in Top.ahead :
          SetTop([Top EXCEPT !.handler = h, !.ahead = @ \ {h}, !.visited = @ \cup {h}])
    /\ UNCHANGED <<_invokes, _deletes, subscribed, done, cut>>

Return ==
    /\ stack # <<>> /\ Outside
    /\ SetTop([Top EXCEPT !.handler = None])
    /\ \/ /\ _deletes' = _deletes \cup {Top.handler}
          /\ done' = done \cup {Top.handler}
       \/ UNCHANGED <<_deletes, done>>
    /\ UNCHANGED <<_invokes, subscribed, cut>>

Throw_Forget ==
    /\ stack # <<>>
    /\ ~Outside => Top.changed
    /\ stack' = Rest
    /\ cut' = (Rest = <<>> \/ cut)
    /\ _deletes' = {}
    /\ UNCHANGED <<_invokes, subscribed, done>>

\* A handler throws, or the foreach finds the list changed: Invoke ends, and what
\* is on the queue stays there.  A handler that called it may catch that.
Throw ==
    /\ stack # <<>>
    /\ ~Outside => Top.changed
    /\ stack' = Rest
    /\ cut' = (Rest = <<>> \/ cut)
    /\ UNCHANGED <<_invokes, _deletes, subscribed, done>>

\* Every handler was called.  The whole queue is worked off, also what calls
\* around this one or before it have put there.
End ==
    /\ ~Outside
    /\ ~Top.changed
    /\ Top.ahead = {}
    /\ _invokes' = _invokes \ _deletes
    /\ _deletes' = {}
    /\ stack' = IF _invokes \cap _deletes = {} THEN Rest ELSE Outdate(Rest)
    /\ cut' = (Rest # <<>> /\ cut)
    /\ UNCHANGED <<subscribed, done>>

Next ==
    \/ Dispose \/ Invoke \/ MoveNext \/ Return \/ Throw \/ End
    \/ \E h \in Handlers : Subscribe(h)

Spec == Init /\ [][Next]_vars

-----------------------------------------------------------------------------
(* Properties.                                                              *)

TypeOK ==
    /\ _invokes \subseteq subscribed
    /\ _deletes \subseteq subscribed
    /\ stack \in Seq(Frame)
    /\ subscribed \subseteq Handlers
    /\ done \subseteq subscribed
    /\ cut \in BOOLEAN
    \* a call is nested in a handler, and does not call one twice
    /\ \A i \in DOMAIN stack :
          /\ i < Len(stack) => stack[i].handler # None
          /\ stack[i].visited \cap stack[i].ahead = {}

\* An event reaches every handler: a call that goes on has visited or has ahead of
\* it exactly those that are subscribed, so that one which ends has left out none
\* and none is called that Dispose has removed, whatever handlers do meanwhile.
ReachesAll ==
    \A i \in DOMAIN stack :
        ~stack[i].changed => stack[i].visited \cup stack[i].ahead = _invokes

\* A handler that has returned true is on its way out: as long as it is subscribed
\* it is on the queue, which the next call that ends works off.  Until then an event
\* raised from inside another handler calls it again, no exception needed.  Once no
\* call is under way none is left, and a new event reaches none, unless the last
\* call, not a nested one, was cut short by an exception before the queue's turn.
OnceIsOver ==
    /\ done \cap _invokes \subseteq _deletes
    /\ stack = <<>> /\ ~cut => done \cap _invokes = {}

=============================================================================
