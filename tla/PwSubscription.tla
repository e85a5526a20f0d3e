---------------------------- MODULE PwSubscription ----------------------------
(***************************************************************************)
(* Subscriptions of a PipeWire context and the invoke_sync() hand-off that *)
(* drops them (backends/linux/pipewire/context.hpp, subscription.hpp).     *)
(*                                                                         *)
(* Three kinds of actors share the subscriber lists:                       *)
(*   - the worker, the thread of the pw_thread_loop: it dispatches the     *)
(*     graph events and runs the items other threads queue on the loop;    *)
(*   - the owner, the one holder allowed to reconnect(): it dispatches     *)
(*     on_invalidated and on_state_changed from its own thread;            *)
(*   - the subscribers: each s \in Subs is one subscription, registered    *)
(*     once and dropped once, by another thread or by a callback, those    *)
(*     the worker calls included.                                          *)
(*                                                                         *)
(* The worker holds the loop lock whenever it is not polling, so code run  *)
(* under with_lock() on another thread runs while the worker is idle. On   *)
(* the worker itself with_lock() and invoke_sync() run at once, also in a  *)
(* subscriber that a dispatch has called: a list changed that way while it *)
(* is iterated leaves the dispatch with dead iterators.                    *)
(***************************************************************************)
EXTENDS Naturals, Sequences

CONSTANTS
  Subs,     \* the subscriptions handed out
  Kind,     \* Kind[s]: the subscriber list s is registered in
  None      \* no subscription

\* The lists the worker dispatches, and those the owner does.
GraphKinds == {"node_added", "node_removed", "port_added", "port_removed"}
Kinds == GraphKinds \cup {"state", "invalidated"}
Dispatchers == {"worker", "owner"}

ASSUME KindAssumption == Kind \in [Subs -> Kinds]
ASSUME NoneAssumption == None \notin Subs

VARIABLES
  loop,        \* "up": worker running; "stopped": joined; "down": m_loop null
  opc,         \* where the owner is in reconnect()
  pc,          \* pc[s]: life of subscription s
  registered,  \* subscriptions present in the subscriber lists
  queue,       \* items queued on the loop by invoke_sync(), oldest first
  done,        \* payload::done, per item
  abandoned,   \* payload::abandoned, per item
  body,        \* the item the worker runs under its payload mutex, or None
  scanning,    \* scanning[d]: the list d is iterating, "none", or "undefined":
               \* one whose iterators are dead
  visit,       \* visit[d]: slots d has still to visit
  calling      \* calling[d]: the subscriber whose lambda runs on d, or None

vars == <<loop, opc, pc, registered, queue, done, abandoned, body,
          scanning, visit, calling>>

TypeOK ==
  /\ loop \in {"up", "stopped", "down"}
  /\ opc \in {"idle", "invalidating", "stopping", "destroying", "rebuilding",
              "synchronizing", "promoting", "publishing"}
  /\ pc \in [Subs -> {"new", "live", "waiting", "gone", "expired"}]
  /\ registered \in SUBSET Subs
  /\ queue \in Seq(Subs)
  /\ done \in SUBSET Subs
  /\ abandoned \in SUBSET Subs
  /\ body \in Subs \cup {None}
  /\ scanning \in [Dispatchers -> Kinds \cup {"none", "undefined"}]
  /\ visit \in [Dispatchers -> SUBSET Subs]
  /\ calling \in [Dispatchers -> Subs \cup {None}]

Listening(k) == {s \in registered : Kind[s] = k}

\* The worker is polling: the loop lock is free and no item is running.
WorkerIdle == body = None /\ scanning["worker"] = "none"

Init ==
  /\ loop = "up" /\ opc = "idle"
  /\ pc = [s \in Subs |-> "new"]
  /\ registered = {} /\ done = {} /\ abandoned = {}
  /\ queue = <<>> /\ body = None
  /\ scanning = [d \in Dispatchers |-> "none"]
  /\ visit = [d \in Dispatchers |-> {}]
  /\ calling = [d \in Dispatchers |-> None]

-----------------------------------------------------------------------------
(* The subscribing threads.                                                *)

\* Mutated form of AddSubscriber: the push_back without with_lock().
AddSubscriberUnlocked(s) ==
  /\ pc[s] = "new"
  /\ pc' = [pc EXCEPT ![s] = "live"]
  /\ registered' = registered \cup {s}
  /\ UNCHANGED <<loop, opc, queue, done, abandoned, body, scanning, visit, calling>>

\* add_subscriber(): the push_back happens under the loop lock, or without
\* one while there is no loop.
AddSubscriber(s) ==
  /\ pc[s] = "new"
  /\ WorkerIdle
  /\ pc' = [pc EXCEPT ![s] = "live"]
  /\ registered' = registered \cup {s}
  /\ UNCHANGED <<loop, opc, queue, done, abandoned, body, scanning, visit, calling>>

\* Mutated form of QueueUnsubscribe: invoke_async() where the code has
\* invoke_sync().
QueueUnsubscribeAsync(s) ==
  /\ pc[s] = "live"
  /\ loop # "down"
  /\ pc' = [pc EXCEPT ![s] = "gone"]
  /\ queue' = Append(queue, s)
  /\ UNCHANGED <<loop, opc, registered, done, abandoned, body, scanning, visit, calling>>

\* unsubscribe() off the loop thread: invoke_sync() queues the item.
QueueUnsubscribe(s) ==
  /\ pc[s] = "live"
  /\ loop # "down"
  /\ pc' = [pc EXCEPT ![s] = "waiting"]
  /\ queue' = Append(queue, s)
  /\ UNCHANGED <<loop, opc, registered, done, abandoned, body, scanning, visit, calling>>

\* There is no loop, or a stopped one rejected the item: the caller runs the
\* body itself.
RunUnsubscribeInline(s) ==
  /\ pc[s] = "live"
  /\ loop # "up"
  /\ pc' = [pc EXCEPT ![s] = "gone"]
  /\ registered' = registered \ {s}
  /\ UNCHANGED <<loop, opc, queue, done, abandoned, body, scanning, visit, calling>>

\* The wait ends with the body run. The waiter holds the payload mutex again
\* when it returns, so the worker is not inside this item.
UnsubscribeReturns(s) ==
  /\ pc[s] = "waiting" /\ s \in done /\ body # s
  /\ pc' = [pc EXCEPT ![s] = "gone"]
  /\ UNCHANGED <<loop, opc, registered, queue, done, abandoned, body, scanning, visit, calling>>

\* Mutated form of UnsubscribeTimesOut: the flag is not set.
UnsubscribeForgets(s) ==
  /\ pc[s] = "waiting" /\ s \notin done /\ body # s
  /\ pc' = [pc EXCEPT ![s] = "expired"]
  /\ UNCHANGED <<loop, opc, registered, queue, done, abandoned, body, scanning, visit, calling>>

\* Mutated form of UnsubscribeTimesOut: cv.wait() where the code has wait_for().
UnsubscribeWaitsForever(s) ==
  /\ pc[s] = "waiting" /\ s \notin done /\ s \in abandoned
  /\ UNCHANGED vars

\* sync_deadline passed with the predicate still false: the caller abandons
\* the item under the payload mutex and returns all the same.
UnsubscribeTimesOut(s) ==
  /\ pc[s] = "waiting" /\ s \notin done /\ body # s
  /\ pc' = [pc EXCEPT ![s] = "expired"]
  /\ abandoned' = abandoned \cup {s}
  /\ UNCHANGED <<loop, opc, registered, queue, done, body, scanning, visit, calling>>

\* A subscriber the worker calls adds to or erases from a list. If it is the
\* list under iteration, the dispatch goes on over memory that was shifted or
\* freed: it may pass over any entry, and call any the list ever had.
WithinDispatch(s) ==
  /\ loop = "up" /\ calling["worker"] # None
  /\ IF scanning["worker"] = Kind[s]
       THEN /\ scanning' = [scanning EXCEPT !["worker"] = "undefined"]
            /\ \E S \in SUBSET {t \in Subs : Kind[t] = Kind[s] /\ pc[t] # "new"} :
                 visit' = [visit EXCEPT !["worker"] = S]
       ELSE UNCHANGED <<scanning, visit>>
  /\ UNCHANGED <<loop, opc, queue, done, abandoned, body, calling>>

\* add_subscriber() in a callback on the worker: with_lock() runs at once.
AddWithin(s) ==
  /\ pc[s] = "new"
  /\ pc' = [pc EXCEPT ![s] = "live"]
  /\ registered' = registered \cup {s}
  /\ WithinDispatch(s)

\* reset() in a callback on the worker: invoke_sync() runs at once.
UnsubscribeWithin(s) ==
  /\ pc[s] = "live"
  /\ pc' = [pc EXCEPT ![s] = "gone"]
  /\ registered' = registered \ {s}
  /\ WithinDispatch(s)

-----------------------------------------------------------------------------
(* The loop thread.                                                        *)

\* Mutated form of BeginItem: the trampoline does not look at `abandoned`.
BeginItemUnchecked ==
  /\ loop = "up" /\ WorkerIdle /\ queue # <<>>
  /\ body' = Head(queue)
  /\ queue' = Tail(queue)
  /\ UNCHANGED <<loop, opc, pc, registered, done, abandoned, scanning, visit, calling>>

\* The trampoline of the oldest item takes the payload mutex; an abandoned
\* item is skipped.
BeginItem ==
  /\ loop = "up" /\ WorkerIdle /\ queue # <<>>
  /\ body' = IF Head(queue) \in abandoned THEN None ELSE Head(queue)
  /\ queue' = Tail(queue)
  /\ UNCHANGED <<loop, opc, pc, registered, done, abandoned, scanning, visit, calling>>

\* The body erases the slot; done is set and the payload mutex released.
EndItem ==
  /\ body # None
  /\ registered' = registered \ {body}
  /\ done' = done \cup {body}
  /\ body' = None
  /\ UNCHANGED <<loop, opc, pc, queue, abandoned, scanning, visit, calling>>

BeginDispatch(d, k) ==
  /\ scanning[d] = "none"
  /\ scanning' = [scanning EXCEPT ![d] = k]
  /\ visit' = [visit EXCEPT ![d] = Listening(k)]

\* A registry event reaches the worker: dispatch_{node,port}_{added,removed}.
DispatchGraph(k) ==
  /\ loop = "up" /\ WorkerIdle
  /\ BeginDispatch("worker", k)
  /\ UNCHANGED <<loop, opc, pc, registered, queue, done, abandoned, body, calling>>

CallSubscriber(d, s) ==
  /\ calling[d] = None /\ s \in visit[d]
  /\ calling' = [calling EXCEPT ![d] = s]
  /\ visit' = [visit EXCEPT ![d] = @ \ {s}]
  /\ UNCHANGED <<loop, opc, pc, registered, queue, done, abandoned, body, scanning>>

SubscriberReturns(d) ==
  /\ calling[d] # None
  /\ calling' = [calling EXCEPT ![d] = None]
  /\ UNCHANGED <<loop, opc, pc, registered, queue, done, abandoned, body, scanning, visit>>

Finished(d) == scanning[d] # "none" /\ visit[d] = {} /\ calling[d] = None

EndDispatchGraph ==
  /\ Finished("worker")
  /\ scanning' = [scanning EXCEPT !["worker"] = "none"]
  /\ UNCHANGED <<loop, opc, pc, registered, queue, done, abandoned, body, visit, calling>>

-----------------------------------------------------------------------------
(* The owner, inside reconnect().                                          *)

\* dispatch_invalidated() starts, on the caller's thread and without the lock.
BeginReconnect ==
  /\ opc = "idle"
  /\ opc' = "invalidating"
  /\ BeginDispatch("owner", "invalidated")
  /\ UNCHANGED <<loop, pc, registered, queue, done, abandoned, body, calling>>

\* A dispatch of the owner is over: after on_invalidated comes tear_down();
\* after the dispatch_state() of finalize_sync(), the one of reconnect().
EndDispatchOwner ==
  /\ Finished("owner")
  /\ \/ opc = "invalidating" /\ opc' = "stopping"
        /\ scanning' = [scanning EXCEPT !["owner"] = "none"]
        /\ UNCHANGED visit
     \/ opc = "promoting" /\ opc' = "publishing"
        /\ scanning' = [scanning EXCEPT !["owner"] = "state"]
        /\ visit' = [visit EXCEPT !["owner"] = Listening("state")]
     \/ opc = "publishing" /\ opc' = "idle"
        /\ scanning' = [scanning EXCEPT !["owner"] = "none"]
        /\ UNCHANGED visit
  /\ UNCHANGED <<loop, pc, registered, queue, done, abandoned, body, calling>>

\* tear_down(): thread_loop_stop() joins the worker.
StopLoop ==
  /\ opc = "stopping"
  /\ loop = "up" => WorkerIdle
  /\ opc' = "destroying"
  /\ loop' = IF loop = "up" THEN "stopped" ELSE loop
  /\ UNCHANGED <<pc, registered, queue, done, abandoned, body, scanning, visit, calling>>

\* tear_down(): the loop is destroyed with the items it never ran; the
\* subscriber lists survive.
DestroyLoop ==
  /\ opc = "destroying"
  /\ opc' = "rebuilding"
  /\ loop' = "down"
  /\ queue' = <<>>
  /\ UNCHANGED <<pc, registered, done, abandoned, body, scanning, visit, calling>>

\* build_connection(): the new loop runs, and synchronize() waits on it.
StartLoop ==
  /\ opc = "rebuilding"
  /\ opc' = "synchronizing"
  /\ loop' = "up"
  /\ UNCHANGED <<pc, registered, queue, done, abandoned, body, scanning, visit, calling>>

\* synchronize() succeeds: finalize_sync() promotes the context and dispatches
\* the new state.
Rebuild ==
  /\ opc = "synchronizing"
  /\ opc' = "promoting"
  /\ BeginDispatch("owner", "state")
  /\ UNCHANGED <<loop, pc, registered, queue, done, abandoned, body, calling>>

\* reconnect() returns false: there was no daemon, and build_connection() left
\* no loop or one it had not started; or synchronize() had no answer, and the
\* loop runs on.
RebuildFails ==
  /\ \/ opc = "rebuilding" /\ loop' \in {"down", "stopped"}
     \/ opc = "synchronizing" /\ UNCHANGED loop
  /\ opc' = "idle"
  /\ UNCHANGED <<pc, registered, queue, done, abandoned, body, scanning, visit, calling>>

-----------------------------------------------------------------------------

Subscriber(s) ==
  \/ AddSubscriber(s)
  \/ QueueUnsubscribe(s)
  \/ RunUnsubscribeInline(s)
  \/ UnsubscribeReturns(s)
  \/ UnsubscribeTimesOut(s)
  \/ AddWithin(s)
  \/ UnsubscribeWithin(s)

Dispatch(d) == (\E s \in Subs : CallSubscriber(d, s)) \/ SubscriberReturns(d)

Worker ==
  \/ BeginItem
  \/ EndItem
  \/ \E k \in GraphKinds : DispatchGraph(k)
  \/ EndDispatchGraph
  \/ Dispatch("worker")

Owner ==
  \/ BeginReconnect
  \/ EndDispatchOwner
  \/ StopLoop
  \/ DestroyLoop
  \/ StartLoop
  \/ Rebuild
  \/ RebuildFails
  \/ Dispatch("owner")

Next == (\E s \in Subs : Subscriber(s)) \/ Worker \/ Owner

Spec == Init /\ [][Next]_vars

\* The worker finishes the item and the dispatch it is in, user lambdas
\* return, and a condition-variable wait ends at its deadline.
Fairness ==
  /\ WF_vars(EndItem)
  /\ \A s \in Subs : WF_vars(UnsubscribeReturns(s)) /\ WF_vars(UnsubscribeTimesOut(s))

FairSpec == Spec /\ Fairness

-----------------------------------------------------------------------------
(* Properties.                                                             *)

\* While the worker runs the body of an invoke_sync() item, the frame that
\* body captures by reference is alive: its caller still waits. The payload
\* mutex and `abandoned` guarantee it even when the deadline races the item.
FrameAlive == body # None => pc[body] = "waiting"

\* A reset() that returned without timing out is final for the subscribers of
\* graph events: no dispatch calls them, or holds them for a later call. After
\* a callback changed the very list it was called from, nothing is certain of
\* that dispatch.
ResetIsFinal ==
  \A d \in Dispatchers : \A s \in visit[d] \cup {calling[d]} :
    s \in Subs /\ Kind[s] \in GraphKinds => pc[s] # "gone" \/ scanning[d] = "undefined"

\* What context.hpp:467 promises of every reset(): once it has returned, state
\* captured by the subscriber's lambda can be destroyed, since it is not called.
CapturedStateMayDie ==
  \A d \in Dispatchers : calling[d] # None => pc[calling[d]] \notin {"gone", "expired"}

\* A subscription never leaves its list after its reset() has returned: an
\* abandoned item has no effect, whenever the loop gets to it.
NoLateErase ==
  [][\A s \in registered \ registered' : pc[s] \in {"live", "waiting"}]_vars

\* A list that the worker iterates changes by one thing only, a call of the
\* very subscriber it is in: no other thread adds to it or erases from it,
\* whatever the deadline and the life of the loop.
GraphScanStable ==
  [][\A k \in GraphKinds : scanning["worker"] = k /\ Listening(k)' # Listening(k)
        => \E s \in Subs : AddWithin(s) \/ UnsubscribeWithin(s)]_vars

\* context.hpp:616 serialises list changes with dispatch through the loop lock:
\* no list changes while any thread iterates it.
ScanStable ==
  [][\A d \in Dispatchers, k \in Kinds : scanning[d] = k /\ scanning'[d] # "none"
        => Listening(k)' = Listening(k)]_vars

\* A reset() returns, even when the loop it queued its item on is torn down.
ResetReturns == \A s \in Subs : pc[s] = "waiting" ~> pc[s] \in {"gone", "expired"}
=============================================================================
