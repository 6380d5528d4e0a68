---------------------------- MODULE EventBusProofs ----------------------------
(***************************************************************************)
(* What TLAPS proves of EventBus for any number of subscriptions, of       *)
(* concurrent publishers, of resources and of publishes: no wake-up is     *)
(* lost, and the bus refines the change signal (its safety part).          *)
(***************************************************************************)
EXTENDS EventBus, TLAPS

\* The constants of the specification, without which no counter is typed.
USE BusAssumption

-------------------------------------------------------------------------------
(* The inductive invariant *)

\* A subscription nobody has made yet has left no trace.
Untouched ==
  \A s \in Subscribers : reader[s] = "absent" =>
    /\ sender[s] = "none"
    /\ pending[s] = {}
    /\ s \notin subs
    /\ \A p \in Publishers : s \notin targets[p] /\ s \notin waking[p]

\* A publisher notifies one subscriber at a time.
OneAtATime ==
  \A p \in Publishers : \A s, u \in waking[p] : s = u

BusInv == TypeOK /\ Untouched /\ OneAtATime /\ NoLostWakeup

\* Nobody is subscribed at first.
LEMMA BusInit == Init => BusInv
  BY DEF Init, BusInv, TypeOK, Untouched, OneAtATime, NoLostWakeup, Senders, Readers

\* A publish in progress: it merges, it notifies, and pending names get their token.
LEMMA PublishKeeps ==
  ASSUME BusInv, NEW p \in Publishers,
         \/ \E resources \in SUBSET Resources : Publish(p, resources)
         \/ PublisherStep(p)
  PROVE  BusInv'
<1>a. TypeOK /\ Untouched /\ OneAtATime /\ NoLostWakeup
  BY DEF BusInv
<1>1. ASSUME NEW resources \in SUBSET Resources, Publish(p, resources) PROVE BusInv'
  <2>1. TypeOK'
    BY <1>a, <1>1 DEF Publish, TypeOK
  <2>2. Untouched'
    BY <1>a, <1>1 DEF Publish, TypeOK, Untouched
  <2>3. OneAtATime'
    BY <1>a, <1>1 DEF Publish, TypeOK, OneAtATime
  <2>4. NoLostWakeup'
    BY <1>a, <1>1 DEF Publish, NoLostWakeup
  <2> QED BY <2>1, <2>2, <2>3, <2>4 DEF BusInv
<1>2. ASSUME NEW s \in Subscribers, Merge(p, s) PROVE BusInv'
  <2>1. TypeOK'
    BY <1>a, <1>2 DEF Merge, TypeOK
  <2>2. Untouched'
    BY <1>a, <1>2 DEF Merge, TypeOK, Untouched
  <2>3. OneAtATime'
    BY <1>a, <1>2 DEF Merge, TypeOK, OneAtATime
  <2>4. NoLostWakeup'
    <3>1. waking'[p] = {s} /\ \A q \in Publishers \ {p} : waking'[q] = waking[q]
      BY <1>a, <1>2 DEF Merge, TypeOK
    <3>2. waking[p] = {}
      BY <1>2 DEF Merge
    <3>3. \A u \in Subscribers \ {s} : pending'[u] = pending[u]
      BY <1>a, <1>2 DEF Merge, TypeOK
    <3>4. UNCHANGED <<sender, notify>>
      BY <1>2 DEF Merge
    <3> QED BY <1>a, <3>1, <3>2, <3>3, <3>4 DEF NoLostWakeup
  <2> QED BY <2>1, <2>2, <2>3, <2>4 DEF BusInv
<1>3. ASSUME NEW s \in Subscribers, Wake(p, s) PROVE BusInv'
  <2>1. TypeOK'
    BY <1>a, <1>3 DEF Wake, TypeOK
  <2>2. Untouched'
    BY <1>a, <1>3 DEF Wake, TypeOK, Untouched
  <2>3. OneAtATime'
    BY <1>a, <1>3 DEF Wake, TypeOK, OneAtATime
  <2>4. NoLostWakeup'
    <3>1. notify'[s] /\ \A u \in Subscribers \ {s} : notify'[u] = notify[u]
      BY <1>a, <1>3 DEF Wake, TypeOK
    <3>2. \A q \in Publishers \ {p} : waking'[q] = waking[q]
      BY <1>a, <1>3 DEF Wake, TypeOK
    <3>3. waking[p] \subseteq {s}
      BY <1>a, <1>3 DEF Wake, OneAtATime
    <3>4. UNCHANGED <<sender, pending>>
      BY <1>3 DEF Wake
    <3> QED BY <1>a, <3>1, <3>2, <3>3, <3>4 DEF NoLostWakeup
  <2> QED BY <2>1, <2>2, <2>3, <2>4 DEF BusInv
<1> QED BY <1>1, <1>2, <1>3 DEF PublisherStep

\* The sender goroutine: it empties the pending set only after taking the token.
LEMMA SenderKeeps ==
  ASSUME BusInv, NEW t \in Subscribers, SenderStep(t) \/ Deliver(t)
  PROVE  BusInv'
<1>a. TypeOK /\ Untouched /\ OneAtATime /\ NoLostWakeup
  BY DEF BusInv
<1>1. ASSUME NEW s \in Subscribers, WakeUp(s) PROVE BusInv'
  <2>1. TypeOK'
    BY <1>a, <1>1 DEF WakeUp, TypeOK, Senders, Readers, publishVars
  <2>2. Untouched'
    BY <1>a, <1>1 DEF WakeUp, TypeOK, Untouched, publishVars
  <2>3. OneAtATime'
    BY <1>a, <1>1 DEF WakeUp, OneAtATime, publishVars
  <2>4. NoLostWakeup'
    BY <1>a, <1>1 DEF WakeUp, TypeOK, Untouched, NoLostWakeup, publishVars
  <2> QED BY <2>1, <2>2, <2>3, <2>4 DEF BusInv
<1>2. ASSUME NEW s \in Subscribers, Drain(s) PROVE BusInv'
  <2>1. TypeOK'
    BY <1>a, <1>2 DEF Drain, TypeOK, Senders, Readers, publishVars
  <2>2. Untouched'
    BY <1>a, <1>2 DEF Drain, TypeOK, Untouched, publishVars
  <2>3. OneAtATime'
    BY <1>a, <1>2 DEF Drain, OneAtATime, publishVars
  <2>4. NoLostWakeup'
    BY <1>a, <1>2 DEF Drain, TypeOK, Untouched, NoLostWakeup, publishVars
  <2> QED BY <2>1, <2>2, <2>3, <2>4 DEF BusInv
<1>3. ASSUME NEW s \in Subscribers, End(s) PROVE BusInv'
  <2>1. TypeOK'
    BY <1>a, <1>3 DEF End, TypeOK, Senders, Readers, publishVars
  <2>2. Untouched'
    BY <1>a, <1>3 DEF End, TypeOK, Untouched, publishVars
  <2>3. OneAtATime'
    BY <1>a, <1>3 DEF End, OneAtATime, publishVars
  <2>4. NoLostWakeup'
    BY <1>a, <1>3 DEF End, TypeOK, Untouched, NoLostWakeup, publishVars
  <2> QED BY <2>1, <2>2, <2>3, <2>4 DEF BusInv
<1>4. ASSUME NEW s \in Subscribers, Deliver(s) PROVE BusInv'
  <2>1. TypeOK'
    BY <1>a, <1>4 DEF Deliver, TypeOK, Senders, Readers, publishVars
  <2>2. Untouched'
    BY <1>a, <1>4 DEF Deliver, TypeOK, Untouched, publishVars
  <2>3. OneAtATime'
    BY <1>a, <1>4 DEF Deliver, OneAtATime, publishVars
  <2>4. NoLostWakeup'
    BY <1>a, <1>4 DEF Deliver, TypeOK, Untouched, NoLostWakeup, publishVars
  <2> QED BY <2>1, <2>2, <2>3, <2>4 DEF BusInv
<1> QED BY <1>1, <1>2, <1>3, <1>4 DEF SenderStep

\* The handler: a subscription starts with nothing pending, and a departure leaves
\* pending names and tokens as they are.
LEMMA ReaderKeeps ==
  ASSUME BusInv, NEW t \in Subscribers,
         \/ Subscribe(t) \/ Ping(t) \/ Written(t)
         \/ Disconnect(t) \/ Unregister(t) \/ Stop(t)
  PROVE  BusInv'
<1>a. TypeOK /\ Untouched /\ OneAtATime /\ NoLostWakeup
  BY DEF BusInv
<1>1. ASSUME NEW s \in Subscribers, Subscribe(s) PROVE BusInv'
  <2>1. TypeOK'
    BY <1>a, <1>1 DEF Subscribe, TypeOK, Untouched, Senders, Readers, publishVars, streamVars
  <2>2. Untouched'
    BY <1>a, <1>1 DEF Subscribe, TypeOK, Untouched, publishVars, streamVars
  <2>3. OneAtATime'
    BY <1>a, <1>1 DEF Subscribe, OneAtATime, publishVars, streamVars
  <2>4. NoLostWakeup'
    BY <1>a, <1>1 DEF Subscribe, TypeOK, Untouched, NoLostWakeup, publishVars, streamVars
  <2> QED BY <2>1, <2>2, <2>3, <2>4 DEF BusInv
<1>2. ASSUME NEW s \in Subscribers, Ping(s) PROVE BusInv'
  <2>1. TypeOK'
    BY <1>a, <1>2 DEF Ping, TypeOK, Senders, Readers, publishVars, streamVars
  <2>2. Untouched'
    BY <1>a, <1>2 DEF Ping, TypeOK, Untouched, publishVars, streamVars
  <2>3. OneAtATime'
    BY <1>a, <1>2 DEF Ping, OneAtATime, publishVars, streamVars
  <2>4. NoLostWakeup'
    BY <1>a, <1>2 DEF Ping, TypeOK, Untouched, NoLostWakeup, publishVars, streamVars
  <2> QED BY <2>1, <2>2, <2>3, <2>4 DEF BusInv
<1>3. ASSUME NEW s \in Subscribers, Written(s) PROVE BusInv'
  <2>1. TypeOK'
    BY <1>a, <1>3 DEF Written, TypeOK, Senders, Readers, publishVars, streamVars
  <2>2. Untouched'
    BY <1>a, <1>3 DEF Written, TypeOK, Untouched, publishVars, streamVars
  <2>3. OneAtATime'
    BY <1>a, <1>3 DEF Written, OneAtATime, publishVars, streamVars
  <2>4. NoLostWakeup'
    BY <1>a, <1>3 DEF Written, TypeOK, Untouched, NoLostWakeup, publishVars, streamVars
  <2> QED BY <2>1, <2>2, <2>3, <2>4 DEF BusInv
<1>4. ASSUME NEW s \in Subscribers, Disconnect(s) PROVE BusInv'
  <2>1. TypeOK'
    BY <1>a, <1>4 DEF Disconnect, TypeOK, Senders, Readers, publishVars, streamVars
  <2>2. Untouched'
    BY <1>a, <1>4 DEF Disconnect, TypeOK, Untouched, publishVars, streamVars
  <2>3. OneAtATime'
    BY <1>a, <1>4 DEF Disconnect, OneAtATime, publishVars, streamVars
  <2>4. NoLostWakeup'
    BY <1>a, <1>4 DEF Disconnect, TypeOK, Untouched, NoLostWakeup, publishVars, streamVars
  <2> QED BY <2>1, <2>2, <2>3, <2>4 DEF BusInv
<1>5. ASSUME NEW s \in Subscribers, Unregister(s) PROVE BusInv'
  <2>1. TypeOK'
    BY <1>a, <1>5 DEF Unregister, TypeOK, Senders, Readers, publishVars, streamVars
  <2>2. Untouched'
    BY <1>a, <1>5 DEF Unregister, TypeOK, Untouched, publishVars, streamVars
  <2>3. OneAtATime'
    BY <1>a, <1>5 DEF Unregister, OneAtATime, publishVars, streamVars
  <2>4. NoLostWakeup'
    BY <1>a, <1>5 DEF Unregister, TypeOK, Untouched, NoLostWakeup, publishVars, streamVars
  <2> QED BY <2>1, <2>2, <2>3, <2>4 DEF BusInv
<1>6. ASSUME NEW s \in Subscribers, Stop(s) PROVE BusInv'
  <2>1. TypeOK'
    BY <1>a, <1>6 DEF Stop, TypeOK, Senders, Readers, publishVars, streamVars
  <2>2. Untouched'
    BY <1>a, <1>6 DEF Stop, TypeOK, Untouched, publishVars, streamVars
  <2>3. OneAtATime'
    BY <1>a, <1>6 DEF Stop, OneAtATime, publishVars, streamVars
  <2>4. NoLostWakeup'
    BY <1>a, <1>6 DEF Stop, TypeOK, Untouched, NoLostWakeup, publishVars, streamVars
  <2> QED BY <2>1, <2>2, <2>3, <2>4 DEF BusInv
<1> QED BY <1>1, <1>2, <1>3, <1>4, <1>5, <1>6

\* Every step keeps the invariant.
LEMMA BusStep ==
  ASSUME BusInv, [Next]_vars
  PROVE  BusInv'
<1>1. CASE UNCHANGED vars
  BY <1>1 DEF vars, BusInv, TypeOK, Untouched, OneAtATime, NoLostWakeup
<1>2. CASE Next
  BY <1>2, PublishKeeps, SenderKeeps, ReaderKeeps DEF Next
<1> QED BY <1>1, <1>2

\* subscriber.publish, subscriber.run, subscriber.drain: however many publishers
\* race one sender, names that are pending while it sleeps or sends always have a
\* wake-up queued or about to be.
THEOREM NoWakeupLost == Spec => []NoLostWakeup
<1>1. BusInv => NoLostWakeup
  BY DEF BusInv
<1> QED BY BusInit, BusStep, <1>1, PTL DEF Spec

\* The bus keeps its types, and a sender is sending exactly while it holds an event.
THEOREM BusTypeCorrect == Spec => []TypeOK
<1>1. BusInv => TypeOK
  BY DEF BusInv
<1> QED BY BusInit, BusStep, <1>1, PTL DEF Spec

-------------------------------------------------------------------------------
(* The bus implements the change signal *)

\* A dashboard that listens is in the bus, and only one that has left is stopped.
Membership ==
  \A s \in Subscribers :
    /\ s \in Listening \/ reader[s] = "leaving" => s \in subs
    /\ done[s] => reader[s] = "left"

SignalInv == BusInv /\ Membership

\* Nobody is subscribed at first, and nobody is stopped.
LEMMA MembershipInit == Init => Membership
  BY DEF Init, Membership, Listening

\* Only the handler moves a dashboard in or out of the bus.
LEMMA MembershipStep ==
  ASSUME SignalInv, [Next]_vars
  PROVE  Membership'
<1> USE DEF SignalInv, Membership, Listening
<1>a. TypeOK /\ Membership
  BY DEF BusInv
<1>1. CASE UNCHANGED vars
  BY <1>a, <1>1 DEF vars
<1>2. ASSUME NEW p \in Publishers,
             \/ \E resources \in SUBSET Resources : Publish(p, resources)
             \/ PublisherStep(p)
      PROVE Membership'
  BY <1>a, <1>2 DEF Publish, PublisherStep, Merge, Wake
<1>3. ASSUME NEW s \in Subscribers, SenderStep(s) PROVE Membership'
  BY <1>a, <1>3 DEF SenderStep, WakeUp, Drain, End, publishVars
<1>4. ASSUME NEW s \in Subscribers, Deliver(s) PROVE Membership'
  BY <1>a, <1>4 DEF Deliver, publishVars, TypeOK
<1>5. ASSUME NEW s \in Subscribers, Subscribe(s) PROVE Membership'
  BY <1>a, <1>5 DEF Subscribe, publishVars, TypeOK
<1>6. ASSUME NEW s \in Subscribers, Ping(s) \/ Written(s) \/ Disconnect(s)
      PROVE Membership'
  BY <1>a, <1>6 DEF Ping, Written, Disconnect, publishVars, streamVars, TypeOK
<1>7. ASSUME NEW s \in Subscribers, Unregister(s) PROVE Membership'
  BY <1>a, <1>7 DEF Unregister, publishVars, streamVars, TypeOK
<1>8. ASSUME NEW s \in Subscribers, Stop(s) PROVE Membership'
  BY <1>a, <1>8 DEF Stop, publishVars, streamVars, TypeOK
<1> QED BY <1>1, <1>2, <1>3, <1>4, <1>5, <1>6, <1>7, <1>8 DEF Next

\* What a dashboard is owed, one resource at a time.
LEMMA OwedIs ==
  ASSUME NEW s \in Subscribers, NEW r
  PROVE  r \in Owed(s) <=>
           \/ r \in pending[s]
           \/ r \in held[s]
           \/ \E p \in Publishers : s \in targets[p] /\ r \in naming[p]
  BY DEF Owed

LEMMA OwedNext ==
  ASSUME NEW s \in Subscribers, NEW r
  PROVE  r \in Owed(s)' <=>
           \/ r \in pending'[s]
           \/ r \in held'[s]
           \/ \E p \in Publishers : s \in targets'[p] /\ r \in naming'[p]
  BY DEF Owed

\* A step that changes neither who listens nor what is owed is a stutter.
LEMMA Stutter ==
  ASSUME Listening' = Listening, told' = told, published' = published,
         \A s \in Listening : Owed(s)' = Owed(s)
  PROVE  UNCHANGED Signal!vars
  BY DEF Signal!vars, Listening

\* A publish, from its snapshot on, is a change for every dashboard that listens;
\* merging and notifying only move what is owed.
LEMMA PublishSignals ==
  ASSUME SignalInv, NEW p \in Publishers,
         \/ \E resources \in SUBSET Resources : Publish(p, resources)
         \/ PublisherStep(p)
  PROVE  [Signal!Next]_(Signal!vars)
<1>a. TypeOK /\ Membership
  BY DEF SignalInv, BusInv
<1>1. ASSUME NEW resources \in SUBSET Resources, Publish(p, resources)
      PROVE Signal!Change(resources)
  <2>1. Listening' = Listening /\ told' = told /\ published' = published + 1
    BY <1>1 DEF Publish, Listening
  <2>2. ASSUME NEW s \in Listening PROVE Owed(s)' = Owed(s) \cup resources
    <3>1. s \in Subscribers /\ s \in subs
      BY <1>a DEF Membership, Listening
    <3>2. targets[p] = {} /\ targets'[p] = subs /\ naming'[p] = resources
      BY <1>a, <1>1 DEF Publish, Idle, TypeOK
    <3>3. \A q \in Publishers \ {p} : targets'[q] = targets[q] /\ naming'[q] = naming[q]
      BY <1>a, <1>1 DEF Publish, TypeOK
    <3>4. pending'[s] = pending[s] /\ held'[s] = held[s]
      BY <1>1 DEF Publish
    <3>5. ASSUME NEW r PROVE r \in Owed(s)' <=> r \in Owed(s) \/ r \in resources
      BY <3>1, <3>2, <3>3, <3>4, OwedIs, OwedNext
    <3> QED BY <3>5
  <2> QED BY <2>1, <2>2 DEF Signal!Change, Listening
<1>2. ASSUME NEW s \in Subscribers, Merge(p, s) PROVE UNCHANGED Signal!vars
  <2>1. Listening' = Listening /\ told' = told /\ published' = published
    BY <1>2 DEF Merge, Listening, publishVars
  <2>2. ASSUME NEW u \in Listening PROVE Owed(u)' = Owed(u)
    <3>1. u \in Subscribers
      BY DEF Listening
    <3>2. /\ pending' = [pending EXCEPT ![s] = @ \cup naming[p]]
          /\ targets' = [targets EXCEPT ![p] = @ \ {s}]
          /\ naming' = naming /\ held' = held /\ s \in targets[p]
      BY <1>2 DEF Merge
    <3>3. \A q \in Publishers \ {p} : targets'[q] = targets[q]
      BY <1>a, <3>2 DEF TypeOK
    <3>4. targets'[p] = targets[p] \ {s}
      BY <1>a, <3>2 DEF TypeOK
    <3>5. pending'[u] = IF u = s THEN pending[u] \cup naming[p] ELSE pending[u]
      BY <1>a, <3>1, <3>2 DEF TypeOK
    <3>6. ASSUME NEW r PROVE r \in Owed(u)' <=> r \in Owed(u)
      <4>1. CASE u = s
        BY <4>1, <3>1, <3>2, <3>3, <3>4, <3>5, OwedIs, OwedNext
      <4>2. CASE u # s
        BY <4>2, <3>1, <3>2, <3>3, <3>4, <3>5, OwedIs, OwedNext
      <4> QED BY <4>1, <4>2
    <3> QED BY <3>6
  <2> QED BY <2>1, <2>2, Stutter
<1>3. ASSUME NEW s \in Subscribers, Wake(p, s) PROVE UNCHANGED Signal!vars
  BY <1>3, Stutter DEF Wake, Listening, Owed
<1> QED BY <1>1, <1>2, <1>3 DEF PublisherStep, Signal!Next

\* The sender: handing an event over is what tells a dashboard; draining moves what
\* is owed from the pending set into the event.
LEMMA SenderSignals ==
  ASSUME SignalInv, NEW s \in Subscribers, SenderStep(s) \/ Deliver(s)
  PROVE  [Signal!Next]_(Signal!vars)
<1>a. TypeOK /\ Membership
  BY DEF SignalInv, BusInv
<1>1. ASSUME WakeUp(s) PROVE UNCHANGED Signal!vars
  BY <1>1, Stutter DEF WakeUp, Listening, Owed, publishVars
<1>2. ASSUME Drain(s) PROVE UNCHANGED Signal!vars
  <2>1. Listening' = Listening /\ told' = told /\ published' = published
    BY <1>2 DEF Drain, Listening, publishVars
  <2>2. ASSUME NEW u \in Listening PROVE Owed(u)' = Owed(u)
    <3>1. u \in Subscribers
      BY DEF Listening
    <3>2. held[s] = {}
      BY <1>a, <1>2 DEF Drain, TypeOK
    <3>3. pending'[u] \cup held'[u] = pending[u] \cup held[u]
      BY <1>a, <1>2, <3>1, <3>2 DEF Drain, TypeOK
    <3>4. UNCHANGED <<targets, naming>>
      BY <1>2 DEF Drain, publishVars
    <3> QED BY <3>3, <3>4 DEF Owed
  <2> QED BY <2>1, <2>2, Stutter
<1>3. ASSUME End(s) PROVE UNCHANGED Signal!vars
  <2>1. Listening' = Listening /\ told' = told /\ published' = published
    BY <1>3 DEF End, Listening, publishVars
  <2>2. ASSUME NEW u \in Listening PROVE Owed(u)' = Owed(u)
    <3>1. u # s
      BY <1>a, <1>3 DEF End, Membership, Listening
    <3>2. held'[u] = held[u]
      BY <1>a, <1>3, <3>1 DEF End, TypeOK, Listening
    <3> QED BY <1>3, <3>2 DEF Owed, End, publishVars
  <2> QED BY <2>1, <2>2, Stutter
<1>4. ASSUME Deliver(s), NEW event \in SUBSET Resources, event = held[s]
      PROVE Signal!Tell(s, event)
  <2>1. Listening' = Listening /\ s \in Listening /\ published' = published
    BY <1>a, <1>4 DEF Deliver, Listening, TypeOK, publishVars
  <2>2. event # {}
    BY <1>a, <1>4 DEF Deliver, TypeOK
  <2>3. told' = [told EXCEPT ![s] = @ + 1]
    BY <1>4 DEF Deliver
  <2>4. ASSUME NEW u \in Subscribers, u # s PROVE Owed(u)' = Owed(u)
    <3>1. held'[u] = held[u]
      BY <1>a, <1>4, <2>4 DEF Deliver, TypeOK
    <3> QED BY <1>4, <3>1 DEF Owed, Deliver, publishVars
  <2>5. Owed(s)' = (Owed(s) \ event) \cup (Owed(s)' \cap event)
    <3>1. held'[s] = {} /\ pending' = pending /\ UNCHANGED <<targets, naming>>
      BY <1>a, <1>4 DEF Deliver, TypeOK, publishVars
    <3>2. ASSUME NEW r
          PROVE r \in Owed(s)' <=>
                  r \in (Owed(s) \ event) \cup (Owed(s)' \cap event)
      BY <3>1, <1>4, OwedIs, OwedNext
    <3> QED BY <3>2
  <2>6. event \subseteq Owed(s)
    BY <1>4 DEF Owed
  <2> DEFINE again == Owed(s)' \cap event
  <2>7. again \in SUBSET event
    OBVIOUS
  <2>8. [u \in Subscribers |-> IF u \in Listening' THEN Owed(u)' ELSE {}] =
          [[u \in Subscribers |-> IF u \in Listening THEN Owed(u) ELSE {}]
             EXCEPT ![s] = (@ \ event) \cup again]
    BY <2>1, <2>4, <2>5
  <2> HIDE DEF again
  <2> QED BY <2>1, <2>2, <2>3, <2>6, <2>7, <2>8 DEF Signal!Tell
<1>5. ASSUME Deliver(s) PROVE Signal!Next
  <2>1. PICK event \in SUBSET Resources : event = held[s]
    BY <1>a DEF TypeOK
  <2>2. Signal!Tell(s, event)
    BY <1>4, <1>5, <2>1
  <2> QED BY <2>2 DEF Signal!Next
<1> QED BY <1>1, <1>2, <1>3, <1>5 DEF SenderStep

\* The handler: subscribing joins with nothing owed; whatever ends it leaves.
LEMMA ReaderSignals ==
  ASSUME SignalInv, NEW s \in Subscribers,
         \/ Subscribe(s) \/ Ping(s) \/ Written(s)
         \/ Disconnect(s) \/ Unregister(s) \/ Stop(s)
  PROVE  [Signal!Next]_(Signal!vars)
<1>a. TypeOK /\ Membership /\ Untouched
  BY DEF SignalInv, BusInv
<1>1. ASSUME Subscribe(s) PROVE Signal!Join(s)
  <2>1. /\ s \notin Listening /\ Listening' = Listening \cup {s}
        /\ told' = told /\ published' = published
    BY <1>a, <1>1 DEF Subscribe, Listening, TypeOK, publishVars
  <2>2. \A u \in Subscribers : Owed(u)' = Owed(u)
    BY <1>1 DEF Subscribe, Owed, publishVars
  <2>3. Owed(s)' = {}
    <3>1. held[s] = {} /\ pending[s] = {}
      BY <1>a, <1>1 DEF Subscribe, Untouched, TypeOK
    <3>2. \A p \in Publishers : s \notin targets[p]
      BY <1>a, <1>1 DEF Subscribe, Untouched
    <3>3. ASSUME NEW r PROVE r \notin Owed(s)
      BY <3>1, <3>2, OwedIs
    <3> QED BY <2>2, <3>3
  <2> QED BY <2>1, <2>2, <2>3 DEF Signal!Join
<1>2. ASSUME UNCHANGED <<subs, streamVars, told, publishVars>>,
             reader' = [reader EXCEPT ![s] = "leaving"],
             s \in Listening
      PROVE Signal!Leave(s)
  <2>1. Listening' = Listening \ {s} /\ told' = told /\ published' = published
    BY <1>a, <1>2 DEF Listening, TypeOK, publishVars
  <2>2. \A u \in Subscribers : Owed(u)' = Owed(u)
    BY <1>2 DEF Owed, publishVars, streamVars
  <2> QED BY <1>2, <2>1, <2>2 DEF Signal!Leave, Listening
<1>3. ASSUME UNCHANGED <<streamVars, told, publishVars>>, Listening' = Listening
      PROVE UNCHANGED Signal!vars
  BY <1>3, Stutter DEF Owed, publishVars, streamVars
<1>4. CASE Ping(s)
  BY <1>3, <1>4, <1>a DEF Ping, Listening, TypeOK
<1>5. CASE Written(s)
  <2>1. CASE reader' = [reader EXCEPT ![s] = "leaving"]
    BY <1>2, <1>5, <2>1 DEF Written, Listening, Signal!Next
  <2>2. CASE reader' = [reader EXCEPT ![s] = "listening"]
    BY <1>3, <1>5, <2>2, <1>a DEF Written, Listening, TypeOK
  <2> QED BY <1>5, <2>1, <2>2 DEF Written
<1>6. CASE Disconnect(s)
  BY <1>2, <1>6 DEF Disconnect, Listening, Signal!Next
<1>7. CASE Unregister(s)
  BY <1>3, <1>7, <1>a DEF Unregister, Listening, TypeOK
<1>8. CASE Stop(s)
  BY <1>3, <1>8, <1>a DEF Stop, Listening, TypeOK
<1> QED BY <1>1, <1>4, <1>5, <1>6, <1>7, <1>8 DEF Signal!Next

\* The bus starts with nobody to tell.
LEMMA SignalInit == Init => Signal!Init
<1> SUFFICES ASSUME Init PROVE Signal!Init
  OBVIOUS
<1>1. Listening = {}
  BY DEF Init, Listening
<1> QED BY <1>1 DEF Init, Signal!Init

\* Every step of the bus is a step of the change signal, or a stutter.
LEMMA SignalStep ==
  ASSUME SignalInv, [Next]_vars
  PROVE  [Signal!Next]_(Signal!vars)
<1>1. CASE UNCHANGED vars
  BY <1>1, Stutter DEF vars, Listening, Owed
<1>2. CASE Next
  BY <1>2, PublishSignals, SenderSignals, ReaderSignals DEF Next
<1> QED BY <1>1, <1>2

\* Bus.Publish to the websocket handler: coalescing pending names into one event, for
\* any number of dashboards and publishers, tells a dashboard only of what changed
\* while it listened, and never stops owing what it has not told.
THEOREM ImplementsSignal == Spec => Signal!Spec
<1>1. Init => SignalInv
  BY BusInit, MembershipInit DEF SignalInv
<1>2. SignalInv /\ [Next]_vars => SignalInv'
  BY BusStep, MembershipStep DEF SignalInv
<1>3. SignalInv /\ [Next]_vars => [Signal!Next]_(Signal!vars)
  BY SignalStep
<1> QED BY <1>1, <1>2, <1>3, SignalInit, PTL DEF Spec, Signal!Spec
===============================================================================
