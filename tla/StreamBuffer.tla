---------------------------- MODULE StreamBuffer ----------------------------
(***************************************************************************)
(* StreamBuffer<TData> and AsyncStreamBuffer<TData>: the outbox that       *)
(* SignalService keeps for every connected client.  Any number of threads  *)
(* push, one `await foreach' pulls, and the buffer may be disposed by the  *)
(* handler that owns it and by the handler of a newer connection at once.  *)
(*                                                                         *)
(* Nothing in the class takes a lock, so every access to the queue, the    *)
(* semaphore, IsWorking or a cancellation token is a step of its own.      *)
(***************************************************************************)
EXTENDS Naturals, Sequences, FiniteSets

Q == INSTANCE SequencesExt

CONSTANTS
    Producers,  \* threads that call Push
    Disposers,  \* threads that call Dispose
    Max,        \* StreamBuffer.Max
    PushLimit   \* bound: how many times each producer pushes

ASSUME StreamBufferAssumption ==
    /\ IsFiniteSet(Producers)
    /\ Max \in Nat
    /\ PushLimit \in Nat

VARIABLES
    requests,        \* _requests, a ConcurrentQueue
    isWorking,       \* IsWorking
    closed,          \* CloseToken.IsCancellationRequested
    permits,         \* CurrentCount of the SemaphoreSlim(0, 1)
    semDisposed,     \* _semaphoreSlim has been disposed
    callerCancelled, \* the token handed to TryPullAsync is cancelled
    push,            \* push[p]: where producer p is in Push
    pushes,          \* pushes[p]: how many pushes p has begun
    dispose,         \* dispose[d]: where disposer d is in Dispose
    puller,          \* where the iterator TryPullAsync is
    data,            \* at most one item: the `out var data' in the iterator
    yielded,         \* history: the items handed to the foreach body
    late             \* history: how many of them after CloseToken was cancelled

bufferVars == <<requests, isWorking, closed, permits, semDisposed>>
pullVars == <<puller, data, yielded, late>>
vars == <<bufferVars, callerCancelled, push, pushes, dispose, pullVars>>

Message == Producers \X (1..PushLimit)

\* breakToken: linked to the caller's token and to CloseToken.
Break == closed \/ callerCancelled

Init ==
    /\ requests = <<>>
    /\ isWorking = TRUE
    /\ closed = FALSE
    /\ permits = 0
    /\ semDisposed = FALSE
    /\ callerCancelled = FALSE
    /\ push = [p \in Producers |-> "idle"]
    /\ pushes = [p \in Producers |-> 0]
    /\ dispose = [d \in Disposers |-> "idle"]
    /\ puller = "check"
    /\ data = <<>>
    /\ yielded = <<>>
    /\ late = 0

-----------------------------------------------------------------------------
(* Push.  `_requests.Count > Max' is read before the dequeue and before the *)
(* enqueue: producers that read it together drop one each, or none.         *)

CountRequests_OffByOne(p) ==
    /\ push[p] = "idle"
    /\ pushes[p] < PushLimit
    /\ pushes' = [pushes EXCEPT ![p] = @ + 1]
    /\ push' = [push EXCEPT ![p] = IF Len(requests) > Max + 1 THEN "evict" ELSE "enqueue"]
    /\ UNCHANGED <<bufferVars, callerCancelled, dispose, pullVars>>

CountRequests(p) ==
    /\ push[p] = "idle"
    /\ pushes[p] < PushLimit
    /\ pushes' = [pushes EXCEPT ![p] = @ + 1]
    /\ push' = [push EXCEPT ![p] = IF Len(requests) > Max THEN "evict" ELSE "enqueue"]
    /\ UNCHANGED <<bufferVars, callerCancelled, dispose, pullVars>>

\* TryDequeue(out _): the oldest goes, or nothing if a reader emptied it.
Evict(p) ==
    /\ push[p] = "evict"
    /\ requests' = IF requests = <<>> THEN <<>> ELSE Tail(requests)
    /\ push' = [push EXCEPT ![p] = "enqueue"]
    /\ UNCHANGED <<isWorking, closed, permits, semDisposed, callerCancelled,
                   pushes, dispose, pullVars>>

Enqueue_NoResume(p) ==
    /\ push[p] = "enqueue"
    /\ requests' = Append(requests, <<p, pushes[p]>>)
    /\ push' = [push EXCEPT ![p] = "idle"]
    /\ UNCHANGED <<isWorking, closed, permits, semDisposed, callerCancelled,
                   pushes, dispose, pullVars>>

Enqueue(p) ==
    /\ push[p] = "enqueue"
    /\ requests' = Append(requests, <<p, pushes[p]>>)
    /\ push' = [push EXCEPT ![p] = "resume"]
    /\ UNCHANGED <<isWorking, closed, permits, semDisposed, callerCancelled,
                   pushes, dispose, pullVars>>

\* Release() wakes the waiter or leaves one permit; on a full or a disposed
\* semaphore it throws, and Resume swallows what it throws.
Release ==
    IF semDisposed
    THEN UNCHANGED <<permits, puller>>
    ELSE IF puller = "waiting"
         THEN puller' = "pull" /\ UNCHANGED permits
         ELSE permits' = 1 /\ UNCHANGED puller

Resume_Uncapped(p) ==
    /\ push[p] = "resume"
    /\ IF puller = "waiting"
       THEN puller' = "pull" /\ UNCHANGED permits
       ELSE permits' = permits + 1 /\ UNCHANGED puller
    /\ push' = [push EXCEPT ![p] = "idle"]
    /\ UNCHANGED <<requests, isWorking, closed, semDisposed, callerCancelled,
                   pushes, dispose, data, yielded, late>>

Resume(p) ==
    /\ push[p] = "resume"
    /\ Release
    /\ push' = [push EXCEPT ![p] = "idle"]
    /\ UNCHANGED <<requests, isWorking, closed, semDisposed, callerCancelled,
                   pushes, dispose, data, yielded, late>>

Push(p) == CountRequests(p) \/ Evict(p) \/ Enqueue(p) \/ Resume(p)

-----------------------------------------------------------------------------
(* Dispose.  The Resume that ends it always fails: the semaphore has just   *)
(* been disposed.                                                           *)

StopWorking(d) ==
    /\ dispose[d] = "idle"
    /\ isWorking' = FALSE
    /\ dispose' = [dispose EXCEPT ![d] = "cancel"]
    /\ UNCHANGED <<requests, closed, permits, semDisposed, callerCancelled,
                   push, pushes, pullVars>>

CancelSource(d) ==
    /\ dispose[d] = "cancel"
    /\ closed' = TRUE
    /\ dispose' = [dispose EXCEPT ![d] = "free"]
    /\ UNCHANGED <<requests, isWorking, permits, semDisposed, callerCancelled,
                   push, pushes, pullVars>>

\* Disposing the semaphore also empties its list of asynchronous waiters.
FreeSemaphore(d) ==
    /\ dispose[d] = "free"
    /\ semDisposed' = TRUE
    /\ dispose' = [dispose EXCEPT ![d] = "done"]
    /\ UNCHANGED <<requests, isWorking, closed, permits, callerCancelled,
                   push, pushes, pullVars>>

Dispose(d) == StopWorking(d) \/ CancelSource(d) \/ FreeSemaphore(d)

\* The client of the gRPC call hangs up.
CancelCall ==
    /\ ~callerCancelled
    /\ callerCancelled' = TRUE
    /\ UNCHANGED <<bufferVars, push, pushes, dispose, pullVars>>

-----------------------------------------------------------------------------
(* TryPullAsync and the foreach that drives it.                             *)

PullUnchanged == UNCHANGED <<isWorking, closed, semDisposed, callerCancelled,
                             push, pushes, dispose>>

CheckWorking ==
    /\ puller = "check"
    /\ puller' = IF isWorking THEN "wait" ELSE "finished"
    /\ UNCHANGED <<requests, permits, data, yielded, late>>
    /\ PullUnchanged

WaitAsync_NoToken ==
    /\ puller = "wait"
    /\ IF semDisposed
       THEN puller' = "failed" /\ UNCHANGED permits
       ELSE IF permits > 0
            THEN puller' = "pull" /\ permits' = permits - 1
            ELSE puller' = "waiting" /\ UNCHANGED permits
    /\ UNCHANGED <<requests, data, yielded, late>>
    /\ PullUnchanged

\* WaitAsync on entry: it throws on a disposed semaphore or a cancelled
\* token, takes the permit if there is one, and otherwise queues a waiter.
WaitAsync ==
    /\ puller = "wait"
    /\ \/ /\ semDisposed \/ Break
          /\ puller' = "failed"
          /\ UNCHANGED permits
       \/ /\ ~semDisposed /\ ~Break
          /\ permits > 0
          /\ permits' = permits - 1
          /\ puller' = "pull"
       \/ /\ ~semDisposed /\ ~Break
          /\ permits = 0
          /\ puller' = "waiting"
          /\ UNCHANGED permits
    /\ UNCHANGED <<requests, data, yielded, late>>
    /\ PullUnchanged

WaitCancelled_OnlyClosed ==
    /\ puller = "waiting"
    /\ closed
    /\ ~semDisposed
    /\ puller' = "failed"
    /\ UNCHANGED <<requests, permits, data, yielded, late>>
    /\ PullUnchanged

\* A cancelled waiter takes itself off the semaphore's list, from a pool
\* thread, and throws.  If the semaphore was disposed first it is no longer
\* on the list, takes that for having been released, and waits for ever.
WaitCancelled ==
    /\ puller = "waiting"
    /\ Break
    /\ ~semDisposed
    /\ puller' = "failed"
    /\ UNCHANGED <<requests, permits, data, yielded, late>>
    /\ PullUnchanged

TryPull_Newest ==
    /\ puller = "pull"
    /\ IF requests = <<>>
       THEN puller' = "after" /\ UNCHANGED <<requests, data>>
       ELSE /\ data' = <<Q!Last(requests)>>
            /\ requests' = Q!Front(requests)
            /\ puller' = "have"
    /\ UNCHANGED <<permits, yielded, late>>
    /\ PullUnchanged

TryPull ==
    /\ puller = "pull"
    /\ IF requests = <<>>
       THEN puller' = "after" /\ UNCHANGED <<requests, data>>
       ELSE /\ data' = <<Head(requests)>>
            /\ requests' = Tail(requests)
            /\ puller' = "have"
    /\ UNCHANGED <<permits, yielded, late>>
    /\ PullUnchanged

ThrowIfClosed_Missing ==
    /\ puller = "have"
    /\ puller' = "yield"
    /\ UNCHANGED <<requests, permits, data, yielded, late>>
    /\ PullUnchanged

\* ThrowIfCancellationRequested with an item in hand: the item is lost.
ThrowIfClosed ==
    /\ puller = "have"
    /\ IF Break
       THEN puller' = "failed" /\ data' = <<>>
       ELSE puller' = "yield" /\ UNCHANGED data
    /\ UNCHANGED <<requests, permits, yielded, late>>
    /\ PullUnchanged

Yield_Twice ==
    /\ puller = "yield"
    /\ \/ data' = <<>> /\ puller' = "out"
       \/ UNCHANGED <<data, puller>>
    /\ yielded' = yielded \o data
    /\ late' = late + IF closed THEN 1 ELSE 0
    /\ UNCHANGED <<requests, permits>>
    /\ PullUnchanged

YieldReturn ==
    /\ puller = "yield"
    /\ yielded' = yielded \o data
    /\ late' = late + IF closed THEN 1 ELSE 0
    /\ data' = <<>>
    /\ puller' = "out"
    /\ UNCHANGED <<requests, permits>>
    /\ PullUnchanged

\* The foreach body comes back for the next item, or throws (the write to
\* the client failed) and the iterator is disposed.
BodyEnds ==
    /\ puller = "out"
    /\ puller' \in {"pull", "failed"}
    /\ UNCHANGED <<requests, permits, data, yielded, late>>
    /\ PullUnchanged

LoopEnds ==
    /\ puller = "after"
    /\ puller' = IF Break THEN "failed" ELSE "check"
    /\ UNCHANGED <<requests, permits, data, yielded, late>>
    /\ PullUnchanged

Pull == CheckWorking \/ WaitAsync \/ WaitCancelled \/ TryPull \/ ThrowIfClosed
        \/ YieldReturn \/ BodyEnds \/ LoopEnds

-----------------------------------------------------------------------------
Next ==
    \/ \E p \in Producers : Push(p)
    \/ \E d \in Disposers : Dispose(d)
    \/ CancelCall
    \/ Pull

Spec == Init /\ [][Next]_vars

\* A thread inside Push or Dispose runs on to its return, and the thread pool
\* resumes the iterator; the client reads what is written to it (or its
\* connection breaks), so a write ends.  Nobody has to push, dispose or hang up.
Fairness ==
    /\ \A p \in Producers : WF_vars(Evict(p) \/ Enqueue(p) \/ Resume(p))
    /\ \A d \in Disposers : WF_vars(CancelSource(d) \/ FreeSemaphore(d))
    /\ WF_vars(Pull)

FairSpec == Spec /\ Fairness

-----------------------------------------------------------------------------
(* Properties.                                                              *)

Ended == puller \in {"finished", "failed"}

\* The waiter that FreeSemaphore threw away.
Stranded == puller = "waiting" /\ semDisposed

TypeOK ==
    /\ requests \in Seq(Message)
    /\ isWorking \in BOOLEAN
    /\ closed \in BOOLEAN
    /\ permits \in {0, 1}
    /\ semDisposed \in BOOLEAN
    /\ callerCancelled \in BOOLEAN
    /\ push \in [Producers -> {"idle", "evict", "enqueue", "resume"}]
    /\ pushes \in [Producers -> 0..PushLimit]
    /\ dispose \in [Disposers -> {"idle", "cancel", "free", "done"}]
    /\ puller \in {"check", "wait", "waiting", "pull", "have", "yield", "out",
                   "after", "finished", "failed"}
    /\ data \in Seq(Message)
    /\ yielded \in Seq(Message)
    /\ late \in Nat

\* The bound the check-then-act of Push really gives: producers that read the
\* count together overshoot Max by one each, and never by more however long
\* they race.
BacklogBounded == Len(requests) <= Max + Cardinality(Producers)

\* The iterator is never asleep on a queue that holds an item unless a
\* producer is still on its way to wake it.
NoLostWakeup ==
    puller = "waiting" /\ requests # <<>> /\ ~semDisposed
        => \E p \in Producers : push[p] = "resume"

\* Of the items of one sender, those that survive are handed out in the order
\* they were pushed, each at most once, across every eviction and pull.
SenderOrder ==
    LET kept == yielded \o data \o requests
    IN  \A i, j \in DOMAIN kept :
            i < j /\ kept[i][1] = kept[j][1] => kept[i][2] < kept[j][2]

\* Once the buffer is closed the client is written at most one more item: the
\* one whose check had already passed.
AtMostOneAfterClose == late <= 1

\* Cancelling the source ends any pull that is awake, wherever it is.
CloseEndsPull == (closed /\ puller # "waiting") ~> Ended

\* The client hanging up ends the pull, asleep or not, unless a Dispose frees
\* the semaphore before the waiter has noticed.
CancelEndsPull == callerCancelled ~> (Ended \/ Stranded)

\* Whatever is queued leaves the queue, unless the pull is over.
QueuedIsTaken ==
    \A m \in Message : Q!Contains(requests, m)
                          ~> (~Q!Contains(requests, m) \/ Ended \/ Stranded)

\* The class implements a bounded lossy first-in first-out mailbox, with the
\* item in the iterator's hands at its head.
Accepted ==
    {m \in Message : \/ m[2] < pushes[m[1]]
                     \/ m[2] = pushes[m[1]] /\ push[m[1]] \in {"resume", "idle"}}

Mail == INSTANCE Mailbox WITH
            Capacity <- Max + Cardinality(Producers) + 1,
            accepted <- Accepted,
            box <- data \o requests,
            delivered <- yielded,
            shut <- Break /\ puller \notin {"yield", "out"}

ImplementsMailbox == Mail!Spec

=============================================================================
