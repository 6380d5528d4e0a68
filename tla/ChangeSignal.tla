------------------------------ MODULE ChangeSignal ------------------------------
(***************************************************************************)
(* What the event bus promises the dashboards: everyone subscribed when    *)
(* something changes is told, at some later time, that it did. Changes may *)
(* be told together and a change may be told twice; none is forgotten and  *)
(* nothing is told that did not change.                                    *)
(***************************************************************************)
EXTENDS Naturals

CONSTANTS
  Subscribers,  \* the subscriptions, one per connected dashboard
  Resources     \* the slices of dashboard state an event can name

VARIABLES
  member,  \* the subscribers there are
  owed,    \* what each of them has still to be told
  told,    \* how many events each of them has received
  changes  \* how many changes there were

vars == <<member, owed, told, changes>>

Init ==
  /\ member = {}
  /\ owed = [s \in Subscribers |-> {}]
  /\ told = [s \in Subscribers |-> 0]
  /\ changes = 0

Join(s) ==
  /\ s \notin member
  /\ member' = member \cup {s}
  /\ UNCHANGED <<owed, told, changes>>

Change(resources) ==
  /\ owed' = [s \in Subscribers |-> IF s \in member THEN owed[s] \cup resources
                                                    ELSE owed[s]]
  /\ changes' = changes + 1
  /\ UNCHANGED <<member, told>>

\* What changed again while the event was on its way is owed again.
Tell(s, resources) ==
  /\ s \in member
  /\ resources # {}
  /\ resources \subseteq owed[s]
  /\ \E again \in SUBSET resources :
       owed' = [owed EXCEPT ![s] = (@ \ resources) \cup again]
  /\ told' = [told EXCEPT ![s] = @ + 1]
  /\ UNCHANGED <<member, changes>>

Leave(s) ==
  /\ s \in member
  /\ member' = member \ {s}
  /\ owed' = [owed EXCEPT ![s] = {}]
  /\ UNCHANGED <<told, changes>>

Next ==
  \/ \E s \in Subscribers : Join(s) \/ Leave(s)
  \/ \E resources \in SUBSET Resources : Change(resources)
  \/ \E s \in Subscribers, resources \in SUBSET Resources : Tell(s, resources)

TellOf(s, resource) ==
  \E resources \in SUBSET Resources : resource \in resources /\ Tell(s, resources)

Spec == Init /\ [][Next]_vars

\* Whoever stays is told of everything it is owed.
FairSpec ==
  Spec /\ \A s \in Subscribers, resource \in Resources : WF_vars(TellOf(s, resource))
===============================================================================
