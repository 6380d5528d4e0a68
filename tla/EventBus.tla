-------------------------------- MODULE EventBus --------------------------------
(***************************************************************************)
(* events.Bus with the goroutines on both sides of it: the runner and the  *)
(* request handlers that publish, the sender goroutine of each             *)
(* subscription, and the websocket handler that reads it.                  *)
(*                                                                         *)
(* A step is one critical section (of Bus.mu or of subscriber.mu) or one   *)
(* channel operation; publishers, senders and readers interleave between   *)
(* them.                                                                   *)
(***************************************************************************)
EXTENDS Naturals, FiniteSets

CONSTANTS
  Subscribers,  \* subscriptions; each is used once, ids are never reused
  Publishers,   \* goroutines that may be inside Publish at the same time
  Resources,    \* tasks, runs, channels, health
  MaxPublish    \* bound on the publishes of one behaviour

ASSUME BusAssumption ==
  /\ IsFiniteSet(Resources)
  /\ MaxPublish \in Nat

VARIABLES
  subs,       \* Bus.subs
  pending,    \* subscriber.pending
  notify,     \* subscriber.notify, a channel of capacity one: is it full
  done,       \* subscriber.done: is it closed
  sender,     \* where the subscriber's run goroutine stands
  held,       \* the resources of the event it is sending
  reader,     \* where the websocket handler stands
  told,       \* the events the handler has received
  naming,     \* Publish: the resources being published
  targets,    \* Publish: the snapshot of the subscribers still to be visited
  waking,     \* Publish: the subscriber merged into and not yet notified
  published   \* how many publishes there were

publishVars == <<naming, targets, waking, published>>
streamVars == <<pending, notify, sender, held>>
vars == <<subs, pending, notify, done, sender, held, reader, told, naming,
          targets, waking, published>>

Senders == {"none", "waiting", "draining", "sending", "ended"}
Readers == {"absent", "listening", "writing", "leaving", "stopping", "left"}

Idle(p) == targets[p] = {} /\ waking[p] = {}

-------------------------------------------------------------------------------
(* Publish *)

\* The subscriber list is copied under Bus.mu and visited without it.
Publish(p, resources) ==
  /\ Idle(p)
  /\ resources # {}
  /\ published < MaxPublish
  /\ published' = published + 1
  /\ naming' = [naming EXCEPT ![p] = resources]
  /\ targets' = [targets EXCEPT ![p] = subs]
  /\ UNCHANGED <<subs, pending, notify, done, sender, held, reader, told, waking>>

\* subscriber.publish, first half: merge into the pending set. Map order is random.
Merge(p, s) ==
  /\ waking[p] = {}
  /\ s \in targets[p]
  /\ pending' = [pending EXCEPT ![s] = @ \cup naming[p]]
  /\ targets' = [targets EXCEPT ![p] = @ \ {s}]
  /\ waking' = [waking EXCEPT ![p] = {s}]
  /\ UNCHANGED <<subs, notify, done, sender, held, reader, told, naming, published>>

\* Mutant: a plain send, which waits while the channel is full.
WakeBlocking(p, s) ==
  /\ s \in waking[p]
  /\ ~notify[s]
  /\ notify' = [notify EXCEPT ![s] = TRUE]
  /\ waking' = [waking EXCEPT ![p] = {}]
  /\ UNCHANGED <<subs, pending, done, sender, held, reader, told, naming, targets,
                 published>>

\* Mutant: an unbuffered channel, which drops the token of a sender that is busy.
WakeUnbuffered(p, s) ==
  /\ s \in waking[p]
  /\ sender' = [sender EXCEPT ![s] = IF @ = "waiting" THEN "draining" ELSE @]
  /\ waking' = [waking EXCEPT ![p] = {}]
  /\ UNCHANGED <<subs, pending, notify, done, held, reader, told, naming, targets,
                 published>>

\* Second half: the select with a default. A token already queued stands for
\* whatever the set holds when the sender gets to it.
Wake(p, s) ==
  /\ s \in waking[p]
  /\ notify' = [notify EXCEPT ![s] = TRUE]
  /\ waking' = [waking EXCEPT ![p] = {}]
  /\ UNCHANGED <<subs, pending, done, sender, held, reader, told, naming, targets,
                 published>>

PublisherStep(p) == \E s \in Subscribers : Merge(p, s) \/ Wake(p, s)

-------------------------------------------------------------------------------
(* The sender goroutine: subscriber.run *)

\* select: a token is there.
WakeUp(s) ==
  /\ sender[s] = "waiting"
  /\ notify[s]
  /\ notify' = [notify EXCEPT ![s] = FALSE]
  /\ sender' = [sender EXCEPT ![s] = "draining"]
  /\ UNCHANGED <<subs, pending, done, held, reader, told, publishVars>>

\* Mutants: an empty event is sent; the event names everything.
DrainEmptyToo(s) ==
  /\ sender[s] = "draining"
  /\ held' = [held EXCEPT ![s] = pending[s]]
  /\ pending' = [pending EXCEPT ![s] = {}]
  /\ sender' = [sender EXCEPT ![s] = "sending"]
  /\ UNCHANGED <<subs, notify, done, reader, told, publishVars>>

DrainEverything(s) ==
  /\ sender[s] = "draining"
  /\ held' = [held EXCEPT ![s] = IF pending[s] = {} THEN {} ELSE Resources]
  /\ pending' = [pending EXCEPT ![s] = {}]
  /\ sender' = [sender EXCEPT ![s] = IF pending[s] = {} THEN "waiting" ELSE "sending"]
  /\ UNCHANGED <<subs, notify, done, reader, told, publishVars>>

\* The pending set becomes the event; an empty one is not sent.
Drain(s) ==
  /\ sender[s] = "draining"
  /\ held' = [held EXCEPT ![s] = pending[s]]
  /\ pending' = [pending EXCEPT ![s] = {}]
  /\ sender' = [sender EXCEPT ![s] = IF pending[s] = {} THEN "waiting" ELSE "sending"]
  /\ UNCHANGED <<subs, notify, done, reader, told, publishVars>>

\* The event is handed over: out is unbuffered, so both sides take part.
Deliver(s) ==
  /\ sender[s] = "sending"
  /\ reader[s] = "listening"
  /\ held' = [held EXCEPT ![s] = {}]
  /\ sender' = [sender EXCEPT ![s] = "waiting"]
  /\ reader' = [reader EXCEPT ![s] = "writing"]
  /\ told' = [told EXCEPT ![s] = @ + 1]
  /\ UNCHANGED <<subs, pending, notify, done, publishVars>>

\* Mutant: the send of an event does not watch done.
EndWhenIdle(s) ==
  /\ done[s]
  /\ sender[s] = "waiting"
  /\ held' = [held EXCEPT ![s] = {}]
  /\ sender' = [sender EXCEPT ![s] = "ended"]
  /\ UNCHANGED <<subs, pending, notify, done, reader, told, publishVars>>

\* done is watched by both selects; the goroutine closes out on its way.
End(s) ==
  /\ done[s]
  /\ sender[s] \in {"waiting", "sending"}
  /\ held' = [held EXCEPT ![s] = {}]
  /\ sender' = [sender EXCEPT ![s] = "ended"]
  /\ UNCHANGED <<subs, pending, notify, done, reader, told, publishVars>>

SenderStep(s) == WakeUp(s) \/ Drain(s) \/ End(s)

-------------------------------------------------------------------------------
(* The websocket handler: HandleSubscribe *)

\* Bus.Subscribe: the subscription is registered and its sender started.
Subscribe(s) ==
  /\ reader[s] = "absent"
  /\ subs' = subs \cup {s}
  /\ sender' = [sender EXCEPT ![s] = "waiting"]
  /\ reader' = [reader EXCEPT ![s] = "listening"]
  /\ UNCHANGED <<pending, notify, done, held, told, publishVars>>

\* A ping keeps the handler from reading, as a frame being written does.
Ping(s) ==
  /\ reader[s] = "listening"
  /\ reader' = [reader EXCEPT ![s] = "writing"]
  /\ UNCHANGED <<subs, streamVars, done, told, publishVars>>

\* The frame or the pong went through, or the write timeout ended the handler.
Written(s) ==
  /\ reader[s] = "writing"
  /\ \E next \in {"listening", "leaving"} : reader' = [reader EXCEPT ![s] = next]
  /\ UNCHANGED <<subs, streamVars, done, told, publishVars>>

\* The peer closed the socket.
Disconnect(s) ==
  /\ reader[s] = "listening"
  /\ reader' = [reader EXCEPT ![s] = "leaving"]
  /\ UNCHANGED <<subs, streamVars, done, told, publishVars>>

\* unsubscribe, first half: out of the bus.
Unregister(s) ==
  /\ reader[s] = "leaving"
  /\ subs' = subs \ {s}
  /\ reader' = [reader EXCEPT ![s] = "stopping"]
  /\ UNCHANGED <<streamVars, done, told, publishVars>>

\* Second half: subscriber.stop.
Stop(s) ==
  /\ reader[s] = "stopping"
  /\ done' = [done EXCEPT ![s] = TRUE]
  /\ reader' = [reader EXCEPT ![s] = "left"]
  /\ UNCHANGED <<subs, streamVars, told, publishVars>>

-------------------------------------------------------------------------------

Init ==
  /\ subs = {}
  /\ pending = [s \in Subscribers |-> {}]
  /\ notify = [s \in Subscribers |-> FALSE]
  /\ done = [s \in Subscribers |-> FALSE]
  /\ sender = [s \in Subscribers |-> "none"]
  /\ held = [s \in Subscribers |-> {}]
  /\ reader = [s \in Subscribers |-> "absent"]
  /\ told = [s \in Subscribers |-> 0]
  /\ naming = [p \in Publishers |-> {}]
  /\ targets = [p \in Publishers |-> {}]
  /\ waking = [p \in Publishers |-> {}]
  /\ published = 0

Next ==
  \/ \E p \in Publishers, resources \in SUBSET Resources : Publish(p, resources)
  \/ \E p \in Publishers : PublisherStep(p)
  \/ \E s \in Subscribers :
       \/ SenderStep(s)
       \/ Deliver(s)
       \/ Subscribe(s)
       \/ Ping(s)
       \/ Written(s)
       \/ Disconnect(s)
       \/ Unregister(s)
       \/ Stop(s)

\* Goroutines keep running. The handler's selects choose at random among what is
\* ready, so an event is not passed over for pings forever; every write is bounded
\* by EventsWriteTimeout. Nobody has to publish, subscribe or disconnect.
Fairness ==
  /\ \A p \in Publishers : WF_vars(PublisherStep(p))
  /\ \A s \in Subscribers :
       /\ WF_vars(SenderStep(s))
       /\ SF_vars(Deliver(s))
       /\ WF_vars(Written(s))
       /\ WF_vars(Unregister(s) \/ Stop(s))

Spec == Init /\ [][Next]_vars
FairSpec == Spec /\ Fairness

-------------------------------------------------------------------------------
(* Properties *)

\* The bus, its subscriptions and the goroutines around them keep their types, and
\* a sender is sending exactly while it holds an event, which is never empty.
TypeOK ==
  /\ subs \subseteq Subscribers
  /\ pending \in [Subscribers -> SUBSET Resources]
  /\ notify \in [Subscribers -> BOOLEAN]
  /\ done \in [Subscribers -> BOOLEAN]
  /\ sender \in [Subscribers -> Senders]
  /\ held \in [Subscribers -> SUBSET Resources]
  /\ reader \in [Subscribers -> Readers]
  /\ told \in [Subscribers -> Nat]
  /\ naming \in [Publishers -> SUBSET Resources]
  /\ targets \in [Publishers -> SUBSET Subscribers]
  /\ waking \in [Publishers -> SUBSET Subscribers]
  /\ published \in 0..MaxPublish
  /\ \A s \in Subscribers : sender[s] = "sending" <=> held[s] # {}

\* "It can neither block nor drop": while the sender is asleep or busy sending, what
\* is pending has a wake-up queued, or a publisher about to queue one.
NoLostWakeup ==
  \A s \in Subscribers :
    sender[s] \in {"waiting", "sending"} /\ pending[s] # {} =>
      notify[s] \/ \E p \in Publishers : s \in waking[p]

\* "A dashboard that has stopped reading must not be able to stall a task run": in
\* the middle of a Publish there is always a next step, whatever the others do.
NeverBlocks ==
  \A p \in Publishers : ~Idle(p) => ENABLED PublisherStep(p)

\* A subscription that has left ends its sender goroutine, even one that is in the
\* middle of handing over an event nobody will read.
SenderEnds ==
  \A s \in Subscribers : reader[s] = "left" ~> sender[s] = "ended"

\* The dashboards still listening, and what the bus has yet to tell them: what is
\* on its way from a publisher, what is pending, and what is being handed over.
Listening == {s \in Subscribers : reader[s] \in {"listening", "writing"}}
Owed(s) ==
  pending[s] \cup held[s] \cup
    UNION {naming[p] : p \in {q \in Publishers : s \in targets[q]}}

Signal == INSTANCE ChangeSignal WITH
  member <- Listening,
  owed <- [s \in Subscribers |-> IF s \in Listening THEN Owed(s) ELSE {}],
  changes <- published

\* Coalescing loses nothing and invents nothing: the bus implements the change
\* signal, and with fair goroutines its liveness too.
SignalsChange == Signal!FairSpec
===============================================================================
