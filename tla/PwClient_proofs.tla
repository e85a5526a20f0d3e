--------------------------- MODULE PwClient_proofs ---------------------------
(***************************************************************************)
(* Proofs about what a client of PipeWire does on a connection that stays.  *)
(*                                                                          *)
(* Of PwSubscription, for any set of subscriptions: the inductive invariant *)
(* says what an item of the loop queue can be (not run yet, its caller      *)
(* waiting or gone with `abandoned` set), when the worker is idle, and      *)
(* which lists each dispatcher iterates.                                    *)
(*                                                                          *)
(* Of PwPorts, for any messages, any size of the buffers and any number of  *)
(* calls, with the data thread between any two steps of a call: a message   *)
(* that was sent is in one place at a time, and the places are in the order *)
(* of the calls. The argument needs that no message is in two places, which *)
(* is why losing a buffer takes only its own.                               *)
(***************************************************************************)
EXTENDS MCPwClient, DataLemmas

-----------------------------------------------------------------------------
(* Subscriptions.                                                            *)

\* An item is queued once and has not been run; its caller waits, or has
\* abandoned it.
QueueInv ==
  /\ \A i \in 1..Len(queue) :
       /\ queue[i] \notin done
       /\ queue[i] # body
       /\ \/ pc[queue[i]] = "waiting"
          \/ pc[queue[i]] = "expired" /\ queue[i] \in abandoned
  /\ \A i, j \in 1..Len(queue) : i # j => queue[i] # queue[j]

\* What a payload's flags say about the call it belongs to.
PayloadInv ==
  /\ body # None => /\ pc[body] = "waiting" /\ body \notin done
                    /\ loop = "up" /\ scanning["worker"] = "none"
  /\ \A s \in done : pc[s] \in {"waiting", "gone"}
  /\ \A s \in Subs : s \in registered => pc[s] \in {"live", "waiting", "expired"} /\ s \notin done

\* Which subscribers a dispatcher may hold.
DispatchInv ==
  /\ \A d \in Dispatchers : scanning[d] = "none" => visit[d] = {} /\ calling[d] = None
  /\ loop # "up" => scanning["worker"] = "none"
  /\ opc \in {"destroying", "rebuilding"} => loop # "up"
  /\ scanning["worker"] \in GraphKinds \cup {"none", "undefined"}
  /\ scanning["owner"] \in {"none", "state", "invalidated"}
  /\ scanning["worker"] # "undefined" =>
       \A s \in visit["worker"] \cup {calling["worker"]} :
         s \in Subs => s \in registered /\ Kind[s] = scanning["worker"]
  /\ \A s \in visit["owner"] \cup {calling["owner"]} : s \in Subs => Kind[s] \notin GraphKinds

IInv == TypeOK /\ QueueInv /\ PayloadInv /\ DispatchInv

LEMMA InitIInv == Init => IInv
  BY KindAssumption, NoneAssumption
     DEF Init, IInv, TypeOK, QueueInv, PayloadInv, DispatchInv, Dispatchers, GraphKinds, Kinds

USE DEF Dispatchers, GraphKinds, Kinds

\* Every step preserves the types.
LEMMA NextTypeOK == TypeOK /\ [Next]_vars => TypeOK'
<1> SUFFICES ASSUME TypeOK, [Next]_vars PROVE TypeOK'
  OBVIOUS
<1> USE NoneAssumption, KindAssumption DEF TypeOK, Listening
<1>1. ASSUME NEW s \in Subs, Subscriber(s) PROVE TypeOK'
  <2>1. CASE AddSubscriber(s)
    BY <2>1 DEF AddSubscriber
  <2>2. CASE QueueUnsubscribe(s)
    BY <2>2 DEF QueueUnsubscribe
  <2>3. CASE RunUnsubscribeInline(s)
    BY <2>3 DEF RunUnsubscribeInline
  <2>4. CASE UnsubscribeReturns(s)
    BY <2>4 DEF UnsubscribeReturns
  <2>5. CASE UnsubscribeTimesOut(s)
    BY <2>5 DEF UnsubscribeTimesOut
  <2>6. CASE AddWithin(s) \/ UnsubscribeWithin(s)
    BY <2>6 DEF AddWithin, UnsubscribeWithin, WithinDispatch
  <2>7. QED
    BY <1>1, <2>1, <2>2, <2>3, <2>4, <2>5, <2>6 DEF Subscriber
<1>2. CASE BeginItem
  <2>1. Head(queue) \in Subs /\ Tail(queue) \in Seq(Subs)
    BY <1>2 DEF BeginItem
  <2>2. QED
    BY <1>2, <2>1 DEF BeginItem
<1>3. CASE EndItem
  BY <1>3 DEF EndItem
<1>4. CASE (\E k \in GraphKinds : DispatchGraph(k)) \/ EndDispatchGraph
  BY <1>4 DEF DispatchGraph, EndDispatchGraph, BeginDispatch
<1>5. ASSUME NEW d \in Dispatchers, Dispatch(d) PROVE TypeOK'
  BY <1>5 DEF Dispatch, CallSubscriber, SubscriberReturns
<1>6. CASE BeginReconnect \/ EndDispatchOwner \/ Rebuild
  <2>1. CASE BeginReconnect
    BY <2>1 DEF BeginReconnect, BeginDispatch
  <2>2. CASE EndDispatchOwner
    BY <2>2 DEF EndDispatchOwner
  <2>3. CASE Rebuild
    BY <2>3 DEF Rebuild, BeginDispatch
  <2>4. QED
    BY <1>6, <2>1, <2>2, <2>3
<1>7. CASE StopLoop \/ DestroyLoop \/ StartLoop \/ RebuildFails
  <2>1. CASE StopLoop
    BY <2>1 DEF StopLoop
  <2>2. CASE DestroyLoop
    BY <2>2 DEF DestroyLoop
  <2>3. CASE RebuildFails
    BY <2>3 DEF RebuildFails
  <2>4. CASE StartLoop
    BY <2>4 DEF StartLoop
  <2>5. QED
    BY <1>7, <2>1, <2>2, <2>3, <2>4
<1>8. CASE UNCHANGED vars
  BY <1>8 DEF vars
<1>9. QED
  BY <1>1, <1>2, <1>3, <1>4, <1>5, <1>6, <1>7, <1>8 DEF Next, Worker, Owner

\* Every step preserves what the queue holds.
LEMMA NextQueueInv == IInv /\ [Next]_vars => QueueInv'
<1> SUFFICES ASSUME IInv, [Next]_vars PROVE QueueInv'
  OBVIOUS
<1> USE NoneAssumption DEF IInv, TypeOK, QueueInv, PayloadInv
<1>1. ASSUME NEW s \in Subs, QueueUnsubscribe(s) PROVE QueueInv'
  <2> USE <1>1 DEF QueueUnsubscribe
  <2>1. /\ Len(queue') = Len(queue) + 1 /\ Len(queue) \in Nat
        /\ \A i \in 1..Len(queue) : queue'[i] = queue[i] /\ queue[i] \in Subs
        /\ queue'[Len(queue) + 1] = s
    OBVIOUS
  <2>2. s \notin done /\ s # body /\ \A i \in 1..Len(queue) : queue[i] # s
    BY <2>1
  <2>3. ASSUME NEW i \in 1..Len(queue')
        PROVE  /\ queue'[i] \notin done /\ queue'[i] # body
               /\ \/ pc'[queue'[i]] = "waiting"
                  \/ pc'[queue'[i]] = "expired" /\ queue'[i] \in abandoned
    <3>1. i \in 1..Len(queue) \/ i = Len(queue) + 1
      BY <2>1
    <3>2. CASE i \in 1..Len(queue)
      BY <3>2, <2>1, <2>2
    <3>3. CASE i = Len(queue) + 1
      BY <3>3, <2>1, <2>2
    <3>4. QED
      BY <3>1, <3>2, <3>3
  <2>4. \A i, j \in 1..Len(queue') : i # j => queue'[i] # queue'[j]
    BY <2>1, <2>2
  <2>5. QED
    BY <2>3, <2>4
<1>2. ASSUME NEW s \in Subs,
             AddSubscriber(s) \/ RunUnsubscribeInline(s) \/ UnsubscribeReturns(s)
               \/ UnsubscribeTimesOut(s) \/ AddWithin(s) \/ UnsubscribeWithin(s)
      PROVE  QueueInv'
  BY <1>2 DEF AddSubscriber, RunUnsubscribeInline, UnsubscribeReturns, UnsubscribeTimesOut,
              AddWithin, UnsubscribeWithin, WithinDispatch
<1>3. CASE BeginItem
  <2>1. /\ Len(queue') = Len(queue) - 1
        /\ \A i \in 1..Len(queue') : queue'[i] = queue[i + 1] /\ i + 1 \in 1..Len(queue)
        /\ Head(queue) = queue[1] /\ 1 \in 1..Len(queue)
    BY <1>3 DEF BeginItem
  <2>2. QED
    BY <1>3, <2>1 DEF BeginItem
<1>4. CASE EndItem
  BY <1>4 DEF EndItem
<1>5. CASE DestroyLoop
  BY <1>5 DEF DestroyLoop
<1>6. ASSUME UNCHANGED <<queue, pc, done, abandoned, body>> PROVE QueueInv'
  BY <1>6
<1>7. QED
  BY <1>1, <1>2, <1>3, <1>4, <1>5, <1>6
     DEF Next, vars, Subscriber, Worker, Owner, DispatchGraph, EndDispatchGraph, Dispatch,
         CallSubscriber, SubscriberReturns, BeginReconnect, EndDispatchOwner, StopLoop,
         StartLoop, Rebuild, RebuildFails

\* Every step preserves what the payload flags mean.
LEMMA NextPayloadInv == IInv /\ [Next]_vars => PayloadInv'
<1> SUFFICES ASSUME IInv, [Next]_vars PROVE PayloadInv'
  OBVIOUS
<1> USE NoneAssumption DEF IInv, TypeOK, PayloadInv
<1>1. ASSUME NEW s \in Subs, Subscriber(s) PROVE PayloadInv'
  <2>1. CASE AddSubscriber(s)
    BY <2>1 DEF AddSubscriber, WorkerIdle
  <2>2. CASE QueueUnsubscribe(s)
    BY <2>2 DEF QueueUnsubscribe
  <2>3. CASE RunUnsubscribeInline(s)
    BY <2>3 DEF RunUnsubscribeInline
  <2>4. CASE UnsubscribeReturns(s)
    BY <2>4 DEF UnsubscribeReturns
  <2>5. CASE UnsubscribeTimesOut(s)
    BY <2>5 DEF UnsubscribeTimesOut
  <2>6. CASE AddWithin(s) \/ UnsubscribeWithin(s)
    BY <2>6 DEF AddWithin, UnsubscribeWithin, WithinDispatch, DispatchInv
  <2>7. QED
    BY <1>1, <2>1, <2>2, <2>3, <2>4, <2>5, <2>6 DEF Subscriber
<1>2. CASE BeginItem
  <2>1. Head(queue) = queue[1] /\ 1 \in 1..Len(queue) /\ Head(queue) \in Subs
    BY <1>2 DEF BeginItem
  <2>2. Head(queue) \notin abandoned => pc[Head(queue)] = "waiting"
    BY <2>1 DEF QueueInv
  <2>3. Head(queue) \notin done
    BY <2>1 DEF QueueInv
  <2>4. QED
    BY <1>2, <2>1, <2>2, <2>3 DEF BeginItem, WorkerIdle
<1>3. CASE EndItem
  BY <1>3 DEF EndItem
<1>4. CASE \E k \in GraphKinds : DispatchGraph(k)
  BY <1>4 DEF DispatchGraph, BeginDispatch, WorkerIdle
<1>5. CASE EndDispatchGraph
  BY <1>5 DEF EndDispatchGraph
<1>6. CASE BeginReconnect \/ EndDispatchOwner \/ Rebuild
  BY <1>6 DEF BeginReconnect, EndDispatchOwner, Rebuild, BeginDispatch
<1>7. CASE StopLoop
  BY <1>7 DEF StopLoop, WorkerIdle
<1>8. CASE DestroyLoop \/ StartLoop \/ RebuildFails
  BY <1>8 DEF DestroyLoop, StartLoop, RebuildFails, DispatchInv
<1>9. ASSUME UNCHANGED <<loop, pc, done, registered, body, scanning>> PROVE PayloadInv'
  BY <1>9
<1>10. QED
  BY <1>1, <1>2, <1>3, <1>4, <1>5, <1>6, <1>7, <1>8, <1>9
     DEF Next, vars, Worker, Owner, Dispatch, CallSubscriber, SubscriberReturns

\* Every step preserves what the dispatchers hold.
LEMMA NextDispatchInv == IInv /\ [Next]_vars => DispatchInv'
<1> SUFFICES ASSUME IInv, [Next]_vars PROVE DispatchInv'
  OBVIOUS
<1> USE NoneAssumption, KindAssumption DEF IInv, TypeOK, PayloadInv, DispatchInv
<1>1. ASSUME NEW s \in Subs, Subscriber(s) PROVE DispatchInv'
  <2>1. CASE AddSubscriber(s)
    BY <2>1 DEF AddSubscriber
  <2>2. CASE RunUnsubscribeInline(s)
    BY <2>2 DEF RunUnsubscribeInline
  <2>3. CASE QueueUnsubscribe(s) \/ UnsubscribeReturns(s) \/ UnsubscribeTimesOut(s)
    BY <2>3 DEF QueueUnsubscribe, UnsubscribeReturns, UnsubscribeTimesOut
  <2>4. CASE AddWithin(s) \/ UnsubscribeWithin(s)
    <3>1. CASE scanning["worker"] = Kind[s]
      BY <2>4, <3>1 DEF AddWithin, UnsubscribeWithin, WithinDispatch
    <3>2. CASE scanning["worker"] # Kind[s]
      BY <2>4, <3>2 DEF AddWithin, UnsubscribeWithin, WithinDispatch
    <3>3. QED
      BY <3>1, <3>2
  <2>5. QED
    BY <1>1, <2>1, <2>2, <2>3, <2>4 DEF Subscriber
<1>2. CASE BeginItem
  BY <1>2 DEF BeginItem
<1>3. CASE EndItem
  BY <1>3 DEF EndItem
<1>4. CASE \E k \in GraphKinds : DispatchGraph(k)
  BY <1>4 DEF DispatchGraph, BeginDispatch, Listening
<1>5. CASE EndDispatchGraph
  BY <1>5 DEF EndDispatchGraph, Finished
<1>6. ASSUME NEW d \in Dispatchers, NEW s \in Subs, CallSubscriber(d, s) PROVE DispatchInv'
  BY <1>6 DEF CallSubscriber
<1>7. ASSUME NEW d \in Dispatchers, SubscriberReturns(d) PROVE DispatchInv'
  BY <1>7 DEF SubscriberReturns
<1>8. CASE BeginReconnect \/ Rebuild
  BY <1>8 DEF BeginReconnect, Rebuild, BeginDispatch, Listening
<1>9. CASE EndDispatchOwner
  BY <1>9 DEF EndDispatchOwner, Finished, Listening
<1>10. CASE StopLoop
  BY <1>10 DEF StopLoop, WorkerIdle
<1>11. CASE DestroyLoop
  BY <1>11 DEF DestroyLoop
<1>12. CASE StartLoop \/ RebuildFails
  BY <1>12 DEF StartLoop, RebuildFails
<1>13. CASE UNCHANGED vars
  BY <1>13 DEF vars
<1>14. QED
  BY <1>1, <1>2, <1>3, <1>4, <1>5, <1>6, <1>7, <1>8, <1>9, <1>10, <1>11, <1>12, <1>13
     DEF Next, Worker, Owner, Dispatch

\* The strengthened invariant holds of every behaviour.
THEOREM Invariance == Spec => []IInv
<1>1. IInv /\ [Next]_vars => IInv'
  BY NextTypeOK, NextQueueInv, NextPayloadInv, NextDispatchInv DEF IInv
<1>2. QED
  BY InitIInv, <1>1, PTL DEF Spec

-----------------------------------------------------------------------------

\* The body of an invoke_sync() item never runs against a dead frame.
THEOREM FrameAliveTheorem == Spec => []FrameAlive
<1>1. IInv => FrameAlive
  BY DEF IInv, PayloadInv, FrameAlive
<1>2. QED
  BY Invariance, <1>1, PTL

\* No dispatch calls a graph subscriber after its reset() returned.
THEOREM ResetIsFinalTheorem == Spec => []ResetIsFinal
<1>1. IInv => ResetIsFinal
  BY DEF IInv, PayloadInv, DispatchInv, ResetIsFinal
<1>2. QED
  BY Invariance, <1>1, PTL

\* An abandoned item never erases anything.
THEOREM NoLateEraseTheorem == Spec => NoLateErase
<1>1. IInv /\ [Next]_vars
        => [\A s \in registered \ registered' : pc[s] \in {"live", "waiting"}]_vars
  <2> SUFFICES ASSUME IInv, Next, NEW s \in registered \ registered'
               PROVE  pc[s] \in {"live", "waiting"}
    BY DEF vars
  <2> USE DEF IInv, TypeOK, PayloadInv
  <2>1. CASE EndItem
    BY <2>1 DEF EndItem
  <2>2. ASSUME NEW t \in Subs, Subscriber(t) PROVE pc[s] \in {"live", "waiting"}
    BY <2>2 DEF Subscriber, AddSubscriber, QueueUnsubscribe, RunUnsubscribeInline,
                UnsubscribeReturns, UnsubscribeTimesOut, AddWithin, UnsubscribeWithin
  <2>3. QED
    BY <2>1, <2>2
       DEF Next, Worker, Owner, BeginItem, DispatchGraph, EndDispatchGraph, Dispatch,
           CallSubscriber, SubscriberReturns, BeginReconnect, EndDispatchOwner, StopLoop,
           DestroyLoop, StartLoop, Rebuild, RebuildFails
<1>2. QED
  BY Invariance, <1>1, PTL DEF Spec, NoLateErase

\* A list that the worker iterates changes only by a call of the subscriber
\* that the dispatch is in.
THEOREM GraphScanStableTheorem == Spec => GraphScanStable
<1> DEFINE Within == \E s \in Subs : AddWithin(s) \/ UnsubscribeWithin(s)
           Stable == \A k \in GraphKinds :
             scanning["worker"] = k /\ Listening(k)' # Listening(k) => Within
<1>1. IInv /\ [Next]_vars => [Stable]_vars
  <2> SUFFICES ASSUME IInv, Next, scanning["worker"] \in GraphKinds, ~Within
               PROVE  registered' = registered
    BY DEF Listening, vars
  <2> USE DEF IInv, TypeOK, PayloadInv, DispatchInv, WorkerIdle
  <2>1. CASE EndItem
    BY <2>1 DEF EndItem
  <2>2. ASSUME NEW t \in Subs, Subscriber(t) PROVE registered' = registered
    BY <2>2 DEF Subscriber, AddSubscriber, QueueUnsubscribe, RunUnsubscribeInline,
                UnsubscribeReturns, UnsubscribeTimesOut
  <2>3. QED
    BY <2>1, <2>2
       DEF Next, Worker, Owner, BeginItem, DispatchGraph, EndDispatchGraph, Dispatch,
           CallSubscriber, SubscriberReturns, BeginReconnect, EndDispatchOwner, StopLoop,
           DestroyLoop, StartLoop, Rebuild, RebuildFails
<1>2. QED
  BY Invariance, <1>1, PTL DEF Spec, GraphScanStable

-----------------------------------------------------------------------------
(* Ports.                                                                    *)

Messages == Ports!Messages
Audible == Ports!Audible

LEMMA KeptIs ==
  ASSUME NEW s, NEW P PROVE Ports!Kept(s, P) = Filtered(s, P)
BY DEF Ports!Kept, Filtered

LEMMA ToSetIs ==
  ASSUME NEW S, NEW s \in Seq(S) PROVE Ports!ToSet(s) = Members(s)
BY DEF Ports!ToSet, Members

-----------------------------------------------------------------------------
(* The invariant.                                                            *)

PortTypes ==
  /\ sent \in Seq(Messages) /\ m_queue \in Seq(Messages) /\ delivered \in Seq(Messages)
  /\ buffer.taken \in Seq(Messages)
  /\ process \in [at : {"idle", "fill", "finish", "undefined"}, port : Nat, offset : Nat, taken : Seq(Messages)]
  /\ port \in Nat /\ opens \in Nat

\* The numbers of the messages are those of the calls; a buffer is filled when
\* the last one was read.
Numbered == \A i \in 1..Len(sent) : sent[i].id = i
OneBuffer ==
  /\ process.at = "idle" => process.taken = <<>>
  /\ process.at \in {"fill", "finish"} => buffer.taken = <<>>

\* What is lost was sent.
GoneWasSent == \A m \in gone : \E i \in 1..Len(sent) : m = sent[i]

\* What was sent and is not lost is in the four places, one after the other.
Way == Line(delivered, buffer.taken, process.taken, Filtered(m_queue, Audible))
Flow == Way = Filtered(sent, Audible \ gone)

PortsInv == PortTypes /\ Numbered /\ OneBuffer /\ GoneWasSent /\ Flow

LEMMA Typed ==
  ASSUME PortTypes
  PROVE  /\ process.taken \in Seq(Messages) /\ process.port \in Nat /\ process.offset \in Nat
         /\ Filtered(m_queue, Audible) \in Seq(Messages)
         /\ Audible \subseteq Messages
<1>1. process.taken \in Seq(Messages) /\ process.port \in Nat /\ process.offset \in Nat
  BY DEF PortTypes
<1>2. Filtered(m_queue, Audible) \in Seq(Messages)
  BY FilteredType DEF PortTypes
<1> QED  BY <1>1, <1>2 DEF Audible, Messages, Ports!Audible

LEMMA FlowIsOnceInOrder ==
  Flow <=> PortsOnceInOrder
BY KeptIs DEF PortsOnceInOrder, Ports!OnceInOrder, Audible, Flow, Way, Line

-----------------------------------------------------------------------------
(* What is lost of a sequence without repetitions, of which s kept those in   *)
(* P.                                                                        *)
LEMMA Lost ==
  ASSUME NEW S, NEW u \in Seq(S), NEW v \in Seq(S), NEW w \in Seq(S), NEW s \in Seq(S),
         NEW P, P \subseteq S, Distinct(s), Joined(u, v, w) = Filtered(s, P)
  PROVE  Joined(u, <<>>, w) = Filtered(s, P \ Members(v))
<1> DEFINE E == {v[i] : i \in 1..Len(v)}
           R == S \ E
<1>1. Members(v) = E
  BY DEF Members
<1>2. Distinct(Joined(u, v, w))
  BY FilteredDistinct
<1>3. Filtered(Joined(u, v, w), R) = Joined(u, <<>>, w)
  <2>1. R = S \ Members(v)
    BY <1>1
  <2> HIDE DEF R
  <2> QED  BY <1>2, <2>1, TakenOut
<1>4. Filtered(Filtered(s, P), R) = Filtered(s, P \cap R)
  BY FilteredTwice
<1>5. P \cap R = P \ Members(v)
  BY <1>1
<1>8. Joined(u, <<>>, w) = Filtered(s, P \ Members(v))
  <2> HIDE DEF R, E
  <2> QED  BY <1>3, <1>4, <1>5
<1> QED  BY <1>8

LEMMA LostWasSent ==
  ASSUME NEW S, NEW u \in Seq(S), NEW v \in Seq(S), NEW w \in Seq(S), NEW s \in Seq(S),
         NEW P, Joined(u, v, w) = Filtered(s, P), NEW m \in Members(v)
  PROVE  \E i \in 1..Len(s) : m = s[i]
<1> DEFINE f == Filtered(s, P)
<1>1. m \in Members(Joined(u, v, w))
  BY JoinedMiddle
<1>2. PICK k \in 1..Len(f) : m = f[k]
  BY <1>1 DEF Members
<1>3. \E i \in 1..Len(s) : f[k] = s[i]
  BY FilteredAre
<1> QED  BY <1>2, <1>3

LEMMA SentOnce ==
  ASSUME PortTypes, Numbered PROVE Distinct(sent)
BY DEF PortTypes, Numbered, Distinct

\* The argument of every step that loses v, which is on the way between u
\* and w.
LEMMA Loses ==
  ASSUME PortsInv, NEW u \in Seq(Messages), NEW v \in Seq(Messages), NEW w \in Seq(Messages),
         Way = Joined(u, v, w), Way' = Joined(u, <<>>, w), sent' = sent, gone' = gone \cup Members(v)
  PROVE  Flow' /\ GoneWasSent'
<1> DEFINE P == Audible \ gone
<1>1. sent \in Seq(Messages) /\ Distinct(sent) /\ P \subseteq Messages
  BY SentOnce, Typed DEF PortsInv, PortTypes
<1>2. Joined(u, v, w) = Filtered(sent, P)
  BY DEF PortsInv, Flow
<1>3. /\ Joined(u, <<>>, w) = Filtered(sent, P \ Members(v))
      /\ \A m \in Members(v) : \E i \in 1..Len(sent) : m = sent[i]
  <2> DEFINE M == Messages
             s == sent
  <2>1. u \in Seq(M) /\ v \in Seq(M) /\ w \in Seq(M) /\ s \in Seq(M) /\ Distinct(s) /\ P \subseteq M
    BY <1>1
  <2>2. Joined(u, v, w) = Filtered(s, P)
    BY <1>2
  <2> HIDE DEF P, M, s
  <2>3. Joined(u, <<>>, w) = Filtered(s, P \ Members(v))
    BY <2>1, <2>2, Lost
  <2>4. ASSUME NEW m \in Members(v) PROVE \E i \in 1..Len(s) : m = s[i]
    BY <2>1, <2>2, LostWasSent
  <2> QED  BY <2>3, <2>4 DEF s
<1>4. P \ Members(v) = Audible \ gone'
  OBVIOUS
<1>5. Flow'
  BY <1>3, <1>4 DEF Flow, Audible, Ports!Audible, Messages, Ports!Messages
<1>6. GoneWasSent'
  BY <1>3 DEF GoneWasSent, PortsInv
<1> QED  BY <1>5, <1>6

-----------------------------------------------------------------------------
(* The steps, and what they leave alone.                                     *)

LEMMA Same ==
  ASSUME PortsInv, UNCHANGED <<sent, gone, m_queue, delivered, process.taken, buffer.taken>>
  PROVE  GoneWasSent' /\ Flow' /\ Numbered'
BY DEF PortsInv, GoneWasSent, Flow, Way, Numbered, Audible, Ports!Audible, Messages, Ports!Messages

LEMMA WayAppend ==
  ASSUME PortTypes, NEW e \in Messages
  PROVE  Line(delivered, buffer.taken, process.taken, Append(Filtered(m_queue, Audible), e)) = Append(Way, e)
<1> DEFINE M == Messages
           a == delivered
           b == buffer.taken
           c == process.taken
           d == Filtered(m_queue, Audible)
<1>1. Four(M, a, b, c, d) /\ e \in M
  BY Typed DEF PortTypes, Four
<1> HIDE DEF M, a, b, c, d
<1>2. Line(a, b, c, Append(d, e)) = Append(Line(a, b, c, d), e)
  BY <1>1, LineAppend
<1> QED  BY <1>2 DEF Way, a, b, c, d

LEMMA OfTheApplication ==
  ASSUME PortsInv,
         \/ Ports!OpenPort \/ Ports!Link \/ Ports!OpenVirtualPort \/ Ports!PeerLinks
         \/ Ports!ClosePort \/ Ports!RemovePort \/ Ports!ClearPort
  PROVE  PortsInv'
<1> USE DEF Ports!object_vars, Ports!queue_vars
<1>1. UNCHANGED <<sent, gone, m_queue, delivered, process, buffer>>
  BY DEF Ports!OpenPort, Ports!Link, Ports!OpenVirtualPort, Ports!PeerLinks, Ports!ClosePort,
         Ports!RemovePort, Ports!ClearPort
<1>2. port' \in Nat /\ opens' \in Nat
  BY DEF Ports!OpenPort, Ports!Link, Ports!OpenVirtualPort, Ports!PeerLinks, Ports!ClosePort,
         Ports!RemovePort, Ports!ClearPort, PortsInv, PortTypes
<1>3. PortTypes' /\ OneBuffer'
  BY <1>1, <1>2 DEF PortsInv, PortTypes, OneBuffer, Messages, Ports!Messages
<1> QED  BY <1>1, <1>3, Same DEF PortsInv

LEMMA OfSendMessage ==
  ASSUME PortsInv, NEW m \in Sends, Ports!SendMessage(m)
  PROVE  PortsInv'
<1> USE DEF Ports!object_vars, Ports!queue_vars
<1> DEFINE next == [id |-> Len(sent) + 1, size |-> m.size, reset |-> m.reset]
           P == Audible \ gone
           d == Filtered(m_queue, Audible)
<1>1. next \in Messages
  BY SendsAssumption, NumbersAssumption DEF PortsInv, PortTypes, Ports!SendMessage, Messages, Ports!Messages
<1>2. /\ sent' = Append(sent, next) /\ m_queue' = Append(m_queue, next)
      /\ UNCHANGED <<port, opens, process, buffer, delivered, gone>>
  BY DEF Ports!SendMessage
<1>3. next \notin gone
  BY DEF PortsInv, PortTypes, GoneWasSent, Numbered
<1>4. next.id = Len(sent) + 1 /\ sent \in Seq(Messages)
  BY DEF PortsInv, PortTypes
<1> HIDE DEF next
<1>5. PortTypes'
  BY <1>1, <1>2 DEF PortsInv, PortTypes, Messages, Ports!Messages
<1>6. OneBuffer'
  BY <1>2 DEF PortsInv, OneBuffer
<1>7. /\ Len(sent') = Len(sent) + 1 /\ Len(sent) \in Nat /\ sent'[Len(sent) + 1] = next
      /\ \A i \in 1..Len(sent) : sent'[i] = sent[i] /\ i \in 1..Len(sent')
      /\ \A i \in 1..Len(sent') : i \in 1..Len(sent) \/ i = Len(sent) + 1
  <2> DEFINE M == Messages
  <2> HIDE DEF M
  <2>1. sent \in Seq(M) /\ next \in M
    BY <1>1, <1>4 DEF M
  <2> QED  BY <1>2, <2>1
<1>8. Numbered'
  BY <1>4, <1>7 DEF PortsInv, Numbered
<1>9. GoneWasSent'
  BY <1>2, <1>7 DEF PortsInv, GoneWasSent
<1>10. /\ Filtered(sent', P) = IF next \in P THEN Append(Filtered(sent, P), next) ELSE Filtered(sent, P)
       /\ Filtered(m_queue', Audible) = IF next \in Audible THEN Append(d, next) ELSE d
  <2> DEFINE M == Messages
  <2>1. sent \in Seq(M) /\ m_queue \in Seq(M) /\ next \in M
    BY <1>1, <1>4 DEF PortsInv, PortTypes
  <2> HIDE DEF M, P
  <2> QED  BY <1>2, <2>1, FilteredAppend
<1>11. Line(delivered, buffer.taken, process.taken, Append(d, next)) = Append(Way, next)
  BY <1>1, WayAppend DEF PortsInv
<1>12. Way' = IF next \in Audible THEN Append(Way, next) ELSE Way
  BY <1>2, <1>10, <1>11 DEF Way, Audible, Ports!Audible, Messages, Ports!Messages
<1>13. Flow'
  <2>1. Way = Filtered(sent, P)
    BY DEF PortsInv, Flow
  <2>2. next \in P <=> next \in Audible
    BY <1>3
  <2>3. Way' = Filtered(sent', P)
    <3> HIDE DEF P
    <3> QED  BY <2>1, <2>2, <1>10, <1>12
  <2>4. Audible' \ gone' = P
    BY <1>2 DEF Audible, Ports!Audible, Messages, Ports!Messages
  <2> QED  BY <2>3, <2>4 DEF Flow
<1> QED  BY <1>5, <1>6, <1>8, <1>9, <1>13 DEF PortsInv

\* What the four places are, by name.
LEMMA WayFour ==
  ASSUME PortTypes
  PROVE  Four(Messages, delivered, buffer.taken, process.taken, Filtered(m_queue, Audible))
BY Typed DEF PortTypes, Four

LEMMA OfUnlinked ==
  ASSUME PortsInv, Ports!Unlinked, UNCHANGED <<m_queue, sent, delivered, port, opens>>
  PROVE  PortsInv'
<1> DEFINE M == Messages
           a == delivered
           b == buffer.taken
           c == process.taken
           d == Filtered(m_queue, Audible)
<1>1. /\ gone' = gone \cup Members(b) \cup Members(c)
      /\ buffer'.taken = <<>> /\ process' = [process EXCEPT !.taken = <<>>]
  <2>1. Ports!ToSet(b) = Members(b) /\ Ports!ToSet(c) = Members(c)
    BY ToSetIs, Typed DEF PortsInv, PortTypes
  <2> QED  BY <2>1 DEF Ports!Unlinked, Ports!Empty
<1>2. process'.taken = <<>> /\ process'.at = process.at
  BY <1>1 DEF PortsInv, PortTypes
<1>3. PortTypes' /\ OneBuffer' /\ Numbered'
  <2>1. PortTypes'
    BY <1>1, <1>2, EmptySeq DEF PortsInv, PortTypes, Messages, Ports!Messages
  <2> QED  BY <1>1, <1>2, <2>1 DEF PortsInv, OneBuffer, Numbered
<1>4. Four(M, a, b, c, d) /\ Four(M, a, <<>>, <<>>, d)
  BY WayFour DEF PortsInv, Four
<1>5. b \o c \in Seq(M) /\ a \in Seq(M) /\ d \in Seq(M)
  BY <1>4 DEF Four
<1>6. Members(b \o c) = Members(b) \cup Members(c)
  <2>1. b \in Seq(M) /\ c \in Seq(M)
    BY <1>4 DEF Four
  <2> HIDE DEF M, b, c
  <2> QED  BY <2>1, MembersConcat
<1>7. Way = Joined(a, b \o c, d)
  <2> HIDE DEF M, a, b, c, d
  <2>1. Line(a, b, c, d) = Joined(a, b \o c, d)
    BY <1>4, LineJoined
  <2> QED  BY <2>1 DEF Way, a, b, c, d
<1>8. Way' = Joined(a, <<>>, d)
  <2>1. Way' = Line(a, <<>>, <<>>, d)
    BY <1>1, <1>2 DEF Way, Audible, Ports!Audible, Messages, Ports!Messages
  <2>2. Line(a, <<>>, <<>>, d) = Joined(a, <<>>, d)
    <3> HIDE DEF M, a, d
    <3> QED  BY <1>4, LineJoined
  <2> QED  BY <2>1, <2>2
<1>9. gone' = gone \cup Members(b \o c)
  BY <1>1, <1>6
<1>10. Flow' /\ GoneWasSent'
  <2> DEFINE v == b \o c
  <2> HIDE DEF a, d, v
  <2>1. a \in Seq(Messages) /\ v \in Seq(Messages) /\ d \in Seq(Messages)
    BY <1>5 DEF v
  <2>2. Way = Joined(a, v, d) /\ Way' = Joined(a, <<>>, d) /\ gone' = gone \cup Members(v)
    BY <1>7, <1>8, <1>9 DEF v
  <2> QED  BY <2>1, <2>2, Loses
<1> QED  BY <1>3, <1>10 DEF PortsInv

LEMMA OfUnlink ==
  ASSUME PortsInv, Ports!Unlink \/ Ports!PeerUnlinks
  PROVE  PortsInv'
<1> USE DEF Ports!object_vars, Ports!queue_vars
<1>1. UNCHANGED <<m_queue, sent, delivered, port, opens>>
  BY DEF Ports!Unlink, Ports!PeerUnlinks
<1>2. Ports!Unlinked \/ UNCHANGED <<gone, buffer, process>>
  BY DEF Ports!Unlink, Ports!PeerUnlinks
<1>3. CASE Ports!Unlinked
  BY <1>1, <1>3, OfUnlinked
<1>4. CASE UNCHANGED <<gone, buffer, process>>
  <2>1. PortTypes' /\ OneBuffer'
    BY <1>1, <1>4 DEF PortsInv, PortTypes, OneBuffer, Messages, Ports!Messages
  <2> QED  BY <1>1, <1>4, <2>1, Same DEF PortsInv
<1> QED  BY <1>2, <1>3, <1>4

LEMMA OfTheHead ==
  ASSUME PortsInv, m_queue # <<>>
  PROVE  /\ Head(m_queue) \in Messages /\ Tail(m_queue) \in Seq(Messages)
         /\ Head(m_queue) \in Audible =>
              Filtered(m_queue, Audible) = <<Head(m_queue)>> \o Filtered(Tail(m_queue), Audible)
         /\ Head(m_queue) \notin Audible => Filtered(m_queue, Audible) = Filtered(Tail(m_queue), Audible)
<1> DEFINE M == Messages
           P == Audible
           s == m_queue
<1>1. s \in Seq(M)
  BY DEF PortsInv, PortTypes
<1> HIDE DEF M, P, s
<1>2. /\ Head(s) \in M /\ Tail(s) \in Seq(M)
      /\ Head(s) \in P => Filtered(s, P) = <<Head(s)>> \o Filtered(Tail(s), P)
      /\ Head(s) \notin P => Filtered(s, P) = Filtered(Tail(s), P)
  <2>1. s # <<>>
    BY DEF s
  <2> QED  BY <1>1, <2>1, FilteredHead
<1> QED  BY <1>2 DEF M, P, s

LEMMA OfSkip ==
  ASSUME PortsInv, Ports!Skip
  PROVE  PortsInv'
<1> USE DEF Ports!object_vars, Ports!queue_vars
<1>1. /\ m_queue # <<>> /\ m_queue' = Tail(m_queue) /\ Head(m_queue) \notin Audible
      /\ UNCHANGED <<port, opens, sent, process, buffer, delivered, gone>>
  <2>1. m_queue # <<>> /\ Head(m_queue) \in Messages
    BY OfTheHead DEF Ports!Skip
  <2>2. \A m \in Messages : m.reset \/ m.size = 0 => m \notin Audible
    BY DEF Audible, Ports!Audible, Messages, Ports!Messages
  <2> QED  BY <2>1, <2>2 DEF Ports!Skip
<1>2. Tail(m_queue) \in Seq(Messages) /\ Filtered(m_queue', Audible) = Filtered(m_queue, Audible)
  BY <1>1, OfTheHead
<1>3. PortTypes' /\ OneBuffer'
  BY <1>1, <1>2 DEF PortsInv, PortTypes, OneBuffer, Messages, Ports!Messages
<1>4. Numbered' /\ GoneWasSent'
  BY <1>1 DEF PortsInv, Numbered, GoneWasSent
<1>5. Flow'
  BY <1>1, <1>2 DEF PortsInv, Flow, Way, Audible, Ports!Audible, Messages, Ports!Messages
<1> QED  BY <1>3, <1>4, <1>5 DEF PortsInv

LEMMA OfTake ==
  ASSUME PortsInv, Ports!Take
  PROVE  PortsInv'
<1> USE DEF Ports!object_vars, Ports!queue_vars
<1> DEFINE m == Head(m_queue)
           offset == process.offset + m.size
<1>1. m_queue # <<>> /\ process.at = "fill" /\ m \in Messages /\ m \in Audible
  <2>1. m_queue # <<>> /\ process.at = "fill" /\ Head(m_queue) \in Messages
    BY OfTheHead DEF Ports!Take
  <2>2. \A x \in Messages : ~x.reset /\ x.size > 0 => x \in Audible
    BY DEF Audible, Ports!Audible, Messages, Ports!Messages
  <2> QED  BY <2>1, <2>2 DEF Ports!Take
<1>2. UNCHANGED <<port, opens, sent, buffer, delivered, gone>>
  BY DEF Ports!Take
<1>3. offset \in Nat /\ Tail(m_queue) \in Seq(Messages)
  <2>1. m.size \in Nat
    BY <1>1 DEF Messages, Ports!Messages
  <2> QED  BY <1>1, <2>1, Typed, OfTheHead DEF PortsInv
<1>4. buffer'.taken = <<>>
  BY <1>1, <1>2 DEF PortsInv, OneBuffer
<1>5. CASE process' = [process EXCEPT !.at = "finish", !.offset = offset] /\ m_queue' = m_queue
  <2>1. process'.taken = process.taken /\ process'.at = "finish"
    BY <1>5 DEF PortsInv, PortTypes
  <2>2. PortTypes' /\ OneBuffer'
    <3> HIDE DEF offset
    <3> QED  BY <1>2, <1>3, <1>4, <1>5, <2>1 DEF PortsInv, PortTypes, OneBuffer, Messages, Ports!Messages
  <2> QED  BY <1>2, <1>5, <2>1, <2>2, Same DEF PortsInv
<1>6. CASE process' = [process EXCEPT !.offset = offset, !.taken = Append(@, m)] /\ m_queue' = Tail(m_queue)
  <2> HIDE DEF m
  <2>1. process'.taken = Append(process.taken, m) /\ process'.at = "fill"
    BY <1>1, <1>6 DEF PortsInv, PortTypes
  <2>2. PortTypes' /\ OneBuffer'
    <3>1. Append(process.taken, m) \in Seq(Messages)
      BY <1>1, Typed DEF PortsInv
    <3> HIDE DEF offset
    <3> QED  BY <1>2, <1>3, <1>4, <1>6, <2>1, <3>1 DEF PortsInv, PortTypes, OneBuffer, Messages, Ports!Messages
  <2>3. Numbered' /\ GoneWasSent'
    BY <1>2 DEF PortsInv, Numbered, GoneWasSent
  <2>4. Way' = Way
    <3> DEFINE M == Messages
               a == delivered
               b == buffer.taken
               c == process.taken
               d == Filtered(Tail(m_queue), Audible)
    <3>1. Filtered(m_queue, Audible) = <<m>> \o d
      BY <1>1, OfTheHead DEF m
    <3>2. Four(M, a, b, c, d) /\ m \in M
      <4>1. d \in Seq(M)
        BY <1>3, FilteredType
      <4> QED  BY <1>1, <4>1, WayFour DEF PortsInv, Four
    <3>3. Way' = Line(a, b, Append(c, m), d)
      BY <1>2, <1>6, <2>1 DEF Way, Audible, Ports!Audible, Messages, Ports!Messages
    <3>4. Line(a, b, Append(c, m), d) = Line(a, b, c, <<m>> \o d)
      <4> HIDE DEF M, a, b, c, d
      <4> QED  BY <3>2, LineTakes
    <3> QED  BY <3>1, <3>3, <3>4 DEF Way
  <2>5. Flow'
    BY <1>2, <2>4 DEF PortsInv, Flow, Audible, Ports!Audible, Messages, Ports!Messages
  <2> QED  BY <2>2, <2>3, <2>5 DEF PortsInv
<1> QED  BY <1>5, <1>6 DEF Ports!Take

LEMMA OfDequeue ==
  ASSUME PortsInv, Ports!Dequeue
  PROVE  PortsInv'
<1> USE DEF Ports!object_vars, Ports!queue_vars
<1>1. /\ process.taken = <<>> /\ buffer.taken = <<>>
      /\ process' = [at |-> "fill", port |-> port, offset |-> Header, taken |-> <<>>]
      /\ UNCHANGED <<port, opens, m_queue, sent, buffer, delivered, gone>>
  BY DEF Ports!Dequeue, Ports!Empty, PortsInv, OneBuffer
<1>2. PortTypes' /\ OneBuffer'
  <2>1. Header \in Nat /\ <<>> \in Seq(Messages)
    BY NumbersAssumption
  <2> QED  BY <1>1, <2>1 DEF PortsInv, PortTypes, OneBuffer, Messages, Ports!Messages
<1> QED  BY <1>1, <1>2, Same DEF PortsInv

LEMMA OfQueue ==
  ASSUME PortsInv, Ports!Queue
  PROVE  PortsInv'
<1> USE DEF Ports!object_vars, Ports!queue_vars
<1> DEFINE M == Messages
           a == delivered
           c == process.taken
           d == Filtered(m_queue, Audible)
<1>1. /\ buffer.taken = <<>> /\ process' = Ports!Idle
      /\ UNCHANGED <<port, opens, m_queue, sent, delivered>>
  BY DEF Ports!Queue, PortsInv, OneBuffer
<1>2. process'.taken = <<>> /\ process'.at = "idle"
  BY <1>1 DEF Ports!Idle
<1>3. a \in Seq(M) /\ c \in Seq(M) /\ d \in Seq(M) /\ Four(M, a, <<>>, c, d)
  BY WayFour DEF PortsInv, Four
<1>4. Way = Line(a, <<>>, c, d)
  BY <1>1 DEF Way
<1>5. ASSUME buffer'.taken \in Seq(Messages)
      PROVE  PortTypes' /\ OneBuffer' /\ Numbered'
  BY <1>1, <1>2, <1>5 DEF PortsInv, PortTypes, OneBuffer, Numbered, Ports!Idle, Messages, Ports!Messages
<1>6. CASE buffer' = [full |-> TRUE, offset |-> process.offset, taken |-> process.taken] /\ gone' = gone
  <2>1. buffer'.taken = c
    BY <1>6
  <2>2. Way' = Line(a, c, <<>>, d)
    BY <1>1, <1>2, <2>1 DEF Way, Audible, Ports!Audible, Messages, Ports!Messages
  <2>3. Line(a, c, <<>>, d) = Line(a, <<>>, c, d)
    <3> HIDE DEF M, a, c, d
    <3> QED  BY <1>3, LineMoves
  <2>4. Flow' /\ GoneWasSent'
    BY <1>1, <1>4, <1>6, <2>2, <2>3 DEF PortsInv, Flow, GoneWasSent, Audible, Ports!Audible, Messages, Ports!Messages
  <2> QED  BY <1>3, <1>5, <2>1, <2>4 DEF PortsInv
<1>7. CASE gone' = gone \cup Ports!ToSet(process.taken) /\ buffer' = buffer
  <2>1. gone' = gone \cup Members(c)
    BY <1>3, <1>7, ToSetIs
  <2>2. Way' = Line(a, <<>>, <<>>, d)
    BY <1>1, <1>2, <1>7 DEF Way, Audible, Ports!Audible, Messages, Ports!Messages
  <2>3. Line(a, <<>>, c, d) = Joined(a, c, d) /\ Line(a, <<>>, <<>>, d) = Joined(a, <<>>, d)
    <3> HIDE DEF M, a, c, d
    <3> QED  BY <1>3, LineJoined
  <2>4. Flow' /\ GoneWasSent'
    <3>1. Way = Joined(a, c, d) /\ Way' = Joined(a, <<>>, d)
      BY <1>4, <2>2, <2>3
    <3> HIDE DEF a, c, d
    <3> QED  BY <1>1, <1>3, <2>1, <3>1, Loses
  <2>5. buffer'.taken \in Seq(Messages)
    BY <1>1, <1>7, EmptySeq
  <2> QED  BY <1>5, <2>4, <2>5 DEF PortsInv
<1> QED  BY <1>6, <1>7 DEF Ports!Queue

LEMMA OfRead ==
  ASSUME PortsInv, Ports!Read \/ Ports!ReadNothing
  PROVE  PortsInv'
<1> USE DEF Ports!object_vars, Ports!queue_vars
<1> DEFINE M == Messages
           a == delivered
           b == buffer.taken
           c == process.taken
           d == Filtered(m_queue, Audible)
<1>1. buffer'.taken = <<>> /\ UNCHANGED <<port, opens, m_queue, sent, process>>
  BY DEF Ports!Read, Ports!ReadNothing, Ports!Empty
<1>2. a \in Seq(M) /\ b \in Seq(M) /\ c \o d \in Seq(M) /\ Four(M, a, b, c, d) /\ Four(M, a, <<>>, c, d)
  BY WayFour DEF PortsInv, Four
<1>3. Way = Line(a, b, c, d)
  BY DEF Way
<1>4. ASSUME delivered' \in Seq(Messages)
      PROVE  PortTypes' /\ OneBuffer' /\ Numbered'
  BY <1>1, <1>4, EmptySeq DEF PortsInv, PortTypes, OneBuffer, Numbered, Messages, Ports!Messages
<1>5. CASE Ports!Read
  <2>1. delivered' = a \o b /\ gone' = gone
    BY <1>5 DEF Ports!Read
  <2>2. Way' = Line(a \o b, <<>>, c, d)
    BY <1>1, <2>1 DEF Way, Audible, Ports!Audible, Messages, Ports!Messages
  <2>3. Line(a \o b, <<>>, c, d) = Line(a, b, c, d)
    <3> HIDE DEF M, a, b, c, d
    <3> QED  BY <1>2, LineMoves
  <2>4. Flow' /\ GoneWasSent'
    BY <1>1, <1>3, <2>1, <2>2, <2>3 DEF PortsInv, Flow, GoneWasSent, Audible, Ports!Audible, Messages, Ports!Messages
  <2>5. delivered' \in Seq(Messages)
    BY <1>2, <2>1
  <2> QED  BY <1>4, <2>4, <2>5 DEF PortsInv
<1>6. CASE Ports!ReadNothing
  <2>1. gone' = gone \cup Members(b) /\ delivered' = delivered
    BY <1>2, <1>6, ToSetIs DEF Ports!ReadNothing
  <2>2. Way' = Line(a, <<>>, c, d)
    BY <1>1, <2>1 DEF Way, Audible, Ports!Audible, Messages, Ports!Messages
  <2> DEFINE w == c \o d
  <2>3. Line(a, b, c, d) = Joined(a, b, w) /\ Line(a, <<>>, c, d) = Joined(a, <<>>, w)
    <3> HIDE DEF M, a, b, c, d
    <3> QED  BY <1>2, LineJoined
  <2>4. Flow' /\ GoneWasSent'
    <3>1. Way = Joined(a, b, w) /\ Way' = Joined(a, <<>>, w)
      BY <1>3, <2>2, <2>3
    <3>2. w \in Seq(Messages)
      BY <1>2
    <3> HIDE DEF a, b, w
    <3> QED  BY <1>1, <1>2, <2>1, <3>1, <3>2, Loses
  <2>5. delivered' \in Seq(Messages)
    BY <1>2, <2>1
  <2> QED  BY <1>4, <2>4, <2>5 DEF PortsInv
<1> QED  BY <1>5, <1>6

LEMMA OfUndefined ==
  ASSUME PortsInv, Ports!Undefined
  PROVE  PortsInv'
<1> USE DEF Ports!object_vars, Ports!queue_vars
<1>1. /\ process' = [process EXCEPT !.at = "undefined"]
      /\ UNCHANGED <<port, opens, m_queue, sent, buffer, delivered, gone>>
  BY DEF Ports!Undefined
<1>2. process'.taken = process.taken /\ process'.at = "undefined"
  BY <1>1 DEF PortsInv, PortTypes
<1>3. PortTypes' /\ OneBuffer'
  BY <1>1, <1>2 DEF PortsInv, PortTypes, OneBuffer, Messages, Ports!Messages
<1> QED  BY <1>1, <1>2, <1>3, Same DEF PortsInv

LEMMA PortsInit ==
  ASSUME Ports!Init PROVE PortsInv
<1>1. PortTypes /\ OneBuffer /\ Numbered /\ GoneWasSent
  BY EmptySeq DEF Ports!Init, Ports!Idle, Ports!Empty, PortTypes, OneBuffer, Numbered, GoneWasSent
<1>2. Flow
  <2>1. Way = Line(<<>>, <<>>, <<>>, Filtered(<<>>, Audible)) /\ sent = <<>>
    BY DEF Ports!Init, Ports!Idle, Ports!Empty, Way
  <2>2. <<>> \in Seq(Nat) /\ <<>> \o <<>> = <<>>
    OBVIOUS
  <2> QED  BY <2>1, <2>2, FilteredNone DEF Flow, Line
<1> QED  BY <1>1, <1>2 DEF PortsInv

\* Init of PwSubscription and PwPorts, then steps of the one or the other.
LEMMA PortsStep ==
  ASSUME PortsInv, [MCNext]_<<vars, portvars>>
  PROVE  PortsInv'
<1>1. CASE Ports!Next
  <2>1. CASE \E m \in Sends : Ports!SendMessage(m)
    BY <2>1, OfSendMessage
  <2>2. CASE Ports!ProcessNoPort \/ Ports!QueueNoPort
    BY <2>2, OfUndefined DEF Ports!ProcessNoPort, Ports!QueueNoPort
  <2>3. CASE \/ Ports!OpenPort \/ Ports!Link \/ Ports!OpenVirtualPort \/ Ports!PeerLinks
             \/ Ports!ClosePort \/ Ports!RemovePort \/ Ports!ClearPort
    BY <2>3, OfTheApplication
  <2> QED  BY <1>1, <2>1, <2>2, <2>3, OfUnlink, OfDequeue, OfSkip, OfTake, OfQueue, OfRead
           DEF Ports!Next, Ports!Application, Ports!Data
<1>2. CASE UNCHANGED portvars
  <2>1. UNCHANGED <<sent, gone, m_queue, delivered, process, buffer, port, opens>>
    BY <1>2 DEF portvars
  <2>2. PortTypes' /\ OneBuffer'
    BY <2>1 DEF PortsInv, PortTypes, OneBuffer, Messages, Ports!Messages
  <2> QED  BY <2>1, <2>2, Same DEF PortsInv
<1> QED  BY <1>1, <1>2 DEF MCNext

(* What was sent to a port of PipeWire is heard once and in the order of the  *)
(* calls, but what is on its way and what was in a buffer that was lost       *)
(* (send_message() and process() in backends/pipewire/midi_out.hpp, process() *)
(* in midi_in.hpp, the linking in helpers.hpp), for any messages, any number  *)
(* of openings and any size of the buffers.                                   *)
THEOREM OnceInOrderTheorem == MCSpec => []PortsOnceInOrder
<1>1. MCInit => PortsInv
  BY PortsInit DEF MCInit
<1>2. PortsInv /\ [MCNext]_<<vars, portvars>> => PortsInv'
  BY PortsStep
<1>3. PortsInv => PortsOnceInOrder
  BY FlowIsOnceInOrder DEF PortsInv
<1> QED  BY <1>1, <1>2, <1>3, PTL DEF MCSpec
=============================================================================
