----------------------------- MODULE SessionProofs -----------------------------
(***************************************************************************)
(* What TLAPS proves of the two ends of a session. Of Login, before it,    *)
(* for any callers, attempts and bounds: the map holds what it may,        *)
(* Retry-After is honest, and what still counts outlives what does not. Of *)
(* Dashboard, during it, for any resources and bounds: the page is never   *)
(* cut off for good and a change is lost to it in the named ways only.     *)
(*                                                                         *)
(* The two have no state in common. Both count finite sets.                *)
(***************************************************************************)
EXTENDS Login, Dashboard, FiniteSetTheorems, WellFoundedInduction, TLAPS

-------------------------------------------------------------------------------
(* The dashboard: its inductive invariant *)

\* What is counted, versioned and pending keeps its type, and only what was answered is owed.
PageTyped ==
  /\ up \in BOOLEAN /\ alive \in BOOLEAN /\ valid \in BOOLEAN /\ mounted \in BOOLEAN
  /\ retry \in BOOLEAN /\ everOpened \in BOOLEAN
  /\ status \in Nat
  /\ version \in [Resources -> Nat]
  /\ data \in [Resources -> Int]
  /\ fetch \in [Resources -> Int]
  /\ subscribed \in SUBSET Slots
  /\ pending \in [Slots -> SUBSET Resources]
  /\ loaded \in SUBSET Resources
  /\ owed \in SUBSET loaded

\* An answer is never older than what is shown, nor newer than the tables, and what was
\* answered is shown.
AnswersInOrder ==
  \A r \in Resources :
    /\ data[r] <= version[r]
    /\ fetch[r] >= 0 => data[r] <= fetch[r] /\ fetch[r] <= version[r]
    /\ r \in loaded => data[r] >= 0

\* A page that is not shown has nothing under way, and nothing is owed to it, nor to one
\* whose socket never opened.
NothingUnmounted ==
  /\ ~mounted =>
       /\ sockets = [s \in Slots |-> "none"]
       /\ socket = Null /\ status = 0 /\ ~retry
       /\ connection # "open"
       /\ fetch = [r \in Resources |-> Idle]
  /\ owed # {} => mounted /\ everOpened

\* A server whose process has ended takes no request and has no connection.
NobodyServes ==
  ~alive => ~up /\ \A s \in Slots : sockets[s] \notin {"accepted", "open"}

\* The parts of NeverStuck: the sockets, and what the notice says of them.
Wired ==
  /\ sockets \in [Slots -> SocketStages]
  /\ socket \in Slots \cup {Null}
  /\ socket # Null => sockets[socket] # "none"

Connected ==
  /\ mounted /\ connection # "open" => Resuming
  /\ mounted /\ connection = "open" => \E s \in Slots : sockets[s] \in {"open", "closing"}

PageKept ==
  /\ PageTyped /\ AnswersInOrder /\ NothingUnmounted /\ NobodyServes
  /\ Wired /\ Connected /\ NothingForgotten

PageInv == PageKept /\ Chains <= MaxSockets

-------------------------------------------------------------------------------
(* The dashboard: its slots *)

\* The slots that are used.
Used == {s \in Slots : sockets[s] # "none"}

\* A non-empty set of slots has a lowest one (Min of FiniteSetsExt).
LEMMA Lowest ==
  ASSUME NEW n \in Nat, NEW S, S \subseteq 1..n, S # {}
  PROVE  Min(S) \in S
<1> DEFINE R == OpToRel(<, Nat)
<1>1. S \subseteq Nat
  OBVIOUS
<1>2. \A x, y \in Nat : x < y => <<x, y>> \in R
  BY DEF OpToRel
<1>3. IsWellFoundedOn(R, Nat)
  BY NatLessThanWellFounded
<1> HIDE DEF R
<1>4. PICK i \in S : \A j \in S : ~(<<j, i>> \in R)
  BY <1>1, <1>3, WFMin
<1>5. ASSUME NEW j \in S PROVE i <= j
  <2>1. i \in Nat /\ j \in Nat
    BY <1>1
  <2>2. ~(j < i)
    BY <1>2, <1>4, <2>1
  <2> QED BY <2>1, <2>2
<1> QED BY <1>5 DEF Min

\* What is used of the slots is counted, and there are as many as the bound says.
LEMMA Counted ==
  /\ IsFiniteSet(Used) /\ Cardinality(Used) \in Nat
  /\ Cardinality(Used) = MaxSockets => Used = Slots
<1>1. IsFiniteSet(Slots) /\ Cardinality(Slots) = MaxSockets
  BY FS_Interval, DashboardAssumption DEF Slots
<1>2. Used \in SUBSET Slots
  BY DEF Used
<1> QED BY <1>1, <1>2, FS_Subset, FS_CardinalityType

\* A socket that closes for good leaves its slot, and a new one takes one.
LEMMA SlotLeft ==
  ASSUME NEW s \in Slots, sockets[s] # "none", sockets \in [Slots -> SocketStages],
         sockets' = [sockets EXCEPT ![s] = "none"]
  PROVE  Cardinality(Used)' = Cardinality(Used) - 1
<1>1. Used' = Used \ {s} /\ s \in Used
  BY DEF Used
<1> QED BY <1>1, Counted, FS_RemoveElement

LEMMA SlotTaken ==
  ASSUME NEW s \in Slots, sockets[s] = "none", sockets \in [Slots -> SocketStages],
         sockets' = [sockets EXCEPT ![s] = "connecting"]
  PROVE  Cardinality(Used)' = Cardinality(Used) + 1
<1>1. Used' = Used \cup {s} /\ s \notin Used
  BY DEF Used
<1> QED BY <1>1, Counted, FS_AddElement

\* Any other step keeps the slots as they are used.
LEMMA SlotsKept ==
  ASSUME \A s \in Slots : sockets'[s] = "none" <=> sockets[s] = "none"
  PROVE  Cardinality(Used)' = Cardinality(Used)
BY DEF Used, Slots

\* A page that is not shown uses none.
LEMMA SlotsFree ==
  ASSUME sockets = [s \in Slots |-> "none"]
  PROVE  Cardinality(Used) = 0
<1>1. Used = {}
  BY DEF Used
<1> QED BY <1>1, FS_EmptySet

\* Chains, with what it counts given a name.
LEMMA ChainsAre == Chains = Cardinality(Used) + status + (IF retry THEN 1 ELSE 0)
BY DEF Chains, Used

\* A hook that may connect has a slot to connect in.
LEMMA SlotToTake ==
  ASSUME PageTyped, Wired, retry \/ Chains < MaxSockets, Chains <= MaxSockets, connect
  PROVE  \E s \in Slots : /\ sockets[s] = "none"
                          /\ sockets' = [sockets EXCEPT ![s] = "connecting"]
                          /\ socket' = s
<1> DEFINE Unused == {t \in Slots : sockets[t] = "none"}
<1>1. Used # Slots
  <2>1. Cardinality(Used) < MaxSockets
    BY ChainsAre, Counted, DashboardAssumption DEF PageTyped
  <2>2. Cardinality(Slots) = MaxSockets
    BY FS_Interval, DashboardAssumption DEF Slots
  <2> QED BY <2>1, <2>2, Counted, DashboardAssumption
<1>2. Unused # {} /\ Unused \subseteq 1..MaxSockets
  BY <1>1 DEF Used, Slots
<1>3. Min(Unused) \in Unused
  <2> HIDE DEF Unused
  <2> QED BY <1>2, Lowest, DashboardAssumption
<1>4. sockets' = [sockets EXCEPT ![Min(Unused)] = "connecting"] /\ socket' = Min(Unused)
  BY DEF connect
<1> HIDE DEF Unused
<1>5. PICK s \in Unused : s = Min(Unused)
  BY <1>3
<1> QED BY <1>4, <1>5 DEF Unused

-------------------------------------------------------------------------------
(* The dashboard: steps *)

\* The page that is shown at first has asked for everything.
LEMMA PageStart == PageInit => PageInv
<1> SUFFICES ASSUME PageInit PROVE PageInv
  OBVIOUS
<1>1. 1 \in Slots
  BY DashboardAssumption DEF Slots
<1>2. PageTyped /\ AnswersInOrder /\ NothingUnmounted /\ NobodyServes
  <2>1. PageTyped
    <3>1. data \in [Resources -> Int] /\ fetch \in [Resources -> Int]
      BY DEF PageInit, Sent
    <3>2. version \in [Resources -> Nat] /\ pending \in [Slots -> SUBSET Resources]
      BY DEF PageInit
    <3> QED BY <3>1, <3>2 DEF PageInit, PageTyped
  <2>2. AnswersInOrder
    BY DEF PageInit, AnswersInOrder, Sent
  <2>3. NothingUnmounted /\ NobodyServes
    BY DEF PageInit, NothingUnmounted, NobodyServes
  <2> QED BY <2>1, <2>2, <2>3
<1>3. Wired /\ Connected /\ NothingForgotten
  BY <1>1 DEF PageInit, Wired, Connected, NothingForgotten, Resuming, SocketStages, Null
<1>4. Used = {1}
  BY <1>1 DEF PageInit, Used
<1>5. Cardinality({1}) = 1
  <2>1. Cardinality({} \cup {1}) = Cardinality({}) + 1
    BY FS_EmptySet, FS_AddElement
  <2>2. {1} = {} \cup {1}
    OBVIOUS
  <2> QED BY <2>1, <2>2, FS_EmptySet
<1>6. Chains <= MaxSockets
  BY <1>4, <1>5, ChainsAre, DashboardAssumption DEF PageInit
<1> QED BY <1>2, <1>3, <1>6 DEF PageInv, PageKept

\* A step of the queries leaves the connection as it is.
LEMMA QueriesAlone ==
  ASSUME PageInv, mounted, UNCHANGED <<server, wire, hook, owed>>,
         data' \in [Resources -> Int], fetch' \in [Resources -> Int],
         loaded' \in SUBSET Resources, loaded \subseteq loaded',
         AnswersInOrder', NothingForgotten'
  PROVE  PageInv'
<1>1. PageTyped' /\ NothingUnmounted' /\ NobodyServes' /\ Wired' /\ Connected'
  BY DEF PageInv, PageKept, PageTyped, NothingUnmounted, NobodyServes, Wired, Connected,
         Resuming, server, wire, hook
<1>2. Chains' <= MaxSockets
  BY DEF PageInv, Chains, wire, hook
<1> QED BY <1>1, <1>2 DEF PageInv, PageKept

\* What is asked for again is asked for after all that happened until now.
LEMMA AskedAgain ==
  ASSUME PageInv, mounted, UNCHANGED <<server, wire, hook, data, loaded, promise>>,
         fetch' \in [Resources -> Int],
         \A r \in Resources : fetch'[r] \in {fetch[r], Sent}
  PROVE  PageInv'
<1>1. AnswersInOrder'
  BY DEF PageInv, PageKept, AnswersInOrder, server, Sent
<1>2. NothingForgotten'
  BY DEF PageInv, PageKept, PageTyped, NothingForgotten, Resuming, server, wire, hook, promise
<1> QED BY <1>1, <1>2, QueriesAlone DEF PageInv, PageKept, PageTyped, promise

LEMMA InvalidateAsks ==
  ASSUME NEW resources, invalidate(resources), fetch \in [Resources -> Int]
  PROVE  /\ fetch' \in [Resources -> Int]
         /\ \A r \in Resources : fetch'[r] \in {fetch[r], Sent}
         /\ \A r \in Resources \cap resources : data[r] >= 0 => fetch'[r] = Sent
BY DEF invalidate, Sent

LEMMA QueriesKeep ==
  ASSUME PageInv,
         \/ Refresh \/ Focus
         \/ \E r \in Resources : Serve(r) \/ Answer(r) \/ FetchFails(r)
  PROVE  PageInv'
<1>a. /\ PageTyped /\ AnswersInOrder /\ NothingUnmounted /\ NobodyServes
      /\ Connected /\ NothingForgotten
  BY DEF PageInv, PageKept
<1>1. CASE Refresh
  BY <1>1, <1>a, InvalidateAsks, AskedAgain DEF Refresh, PageTyped
<1>2. CASE Focus
  <2>1. /\ fetch' \in [Resources -> Int]
        /\ \A r \in Resources : fetch'[r] \in {fetch[r], Sent}
    BY <1>2, <1>a DEF Focus, PageTyped, Sent
  <2> QED BY <1>2, <2>1, AskedAgain DEF Focus
<1>3. ASSUME NEW r \in Resources, Serve(r) PROVE PageInv'
  <2>1. fetch' \in [Resources -> Int]
    BY <1>3, <1>a DEF Serve, PageTyped
  <2>2. AnswersInOrder'
    BY <1>3, <1>a DEF Serve, AnswersInOrder, PageTyped, server, Sent
  <2>3. NothingForgotten'
    BY <1>3, <1>a DEF Serve, NothingForgotten, Resuming, PageTyped, server, wire, hook, Sent
  <2> QED BY <1>3, <1>a, <2>1, <2>2, <2>3, QueriesAlone DEF Serve, PageTyped
<1>4. ASSUME NEW r \in Resources, Answer(r) PROVE PageInv'
  <2>1. /\ data' \in [Resources -> Int] /\ fetch' \in [Resources -> Int]
        /\ loaded' \in SUBSET Resources /\ loaded \subseteq loaded'
    BY <1>4, <1>a DEF Answer, PageTyped, Idle
  <2>2. AnswersInOrder'
    BY <1>4, <1>a DEF Answer, AnswersInOrder, PageTyped, server, Idle
  \* An answer that is as new as the tables shows that; an older one shows nothing that
  \* was not to come before it.
  <2>3. NothingForgotten'
    <3>1. fetch[r] >= 0 /\ data[r] <= fetch[r] /\ fetch[r] <= version[r]
      BY <1>4, <1>a DEF Answer, AnswersInOrder
    <3>2. data[r] = version[r] => fetch[r] = version[r]
      BY <3>1, <1>a DEF PageTyped
    <3> QED BY <1>4, <1>a, <3>1, <3>2
           DEF Answer, NothingForgotten, Resuming, PageTyped, server, wire, hook, promise, Sent
  <2> QED BY <1>4, <2>1, <2>2, <2>3, QueriesAlone DEF Answer, promise
<1>5. ASSUME NEW r \in Resources, FetchFails(r) PROVE PageInv'
  <2>1. fetch' \in [Resources -> Int]
    BY <1>5, <1>a DEF FetchFails, PageTyped, Idle
  <2>2. AnswersInOrder'
    BY <1>5, <1>a DEF FetchFails, AnswersInOrder, PageTyped, server, Idle
  \* With the server up the change is missed; else another connection is on its way.
  <2>3. NothingForgotten'
    <3>1. CASE ~up
      BY <1>5, <3>1 DEF FetchFails, NothingForgotten, server
    <3>2. CASE up
      <4>1. missed' = missed \cup ({r} \cap owed) /\ \A q \in Resources \ {r} : fetch'[q] = fetch[q]
        BY <1>5, <3>2, <1>a DEF FetchFails, PageTyped
      <4> QED BY <1>5, <1>a, <4>1
             DEF FetchFails, NothingForgotten, Resuming, PageTyped, server, wire, hook
    <3> QED BY <3>1, <3>2
  <2> QED BY <1>5, <1>a, <2>1, <2>2, <2>3, QueriesAlone DEF FetchFails, PageTyped
<1> QED BY <1>1, <1>2, <1>3, <1>4, <1>5

\* The pages are left with nothing under way.
LEMMA UnmountKeeps ==
  ASSUME PageInv, notifyUnauthorized
  PROVE  PageInv'
<1>a. PageTyped /\ AnswersInOrder /\ NobodyServes
  BY DEF PageInv, PageKept
<1>1. PageTyped' /\ AnswersInOrder'
  <2>1. fetch' \in [Resources -> Int] /\ \A r \in Resources : fetch'[r] < 0
    BY DEF notifyUnauthorized, Idle
  <2>2. pending' \in [Slots -> SUBSET Resources]
    BY DEF notifyUnauthorized
  <2>3. PageTyped'
    BY <1>a, <2>1, <2>2 DEF PageTyped, notifyUnauthorized, server
  <2> QED BY <1>a, <2>1, <2>3 DEF PageTyped, AnswersInOrder, notifyUnauthorized, server
<1>2. NothingUnmounted' /\ NobodyServes' /\ Wired' /\ Connected' /\ NothingForgotten'
  BY <1>a DEF NothingUnmounted, NobodyServes, Wired, Connected, NothingForgotten,
         notifyUnauthorized, SocketStages, Null, server
<1>3. Cardinality(Used)' = 0
  <2>1. Used' = {}
    BY DEF notifyUnauthorized, Used
  <2> QED BY <2>1, FS_EmptySet
<1>4. Chains' <= MaxSockets
  BY <1>3, ChainsAre, DashboardAssumption DEF notifyUnauthorized, Chains, Used
<1> QED BY <1>1, <1>2, <1>4 DEF PageInv, PageKept

\* They come back with one socket that connects.
LEMMA SignInKeeps ==
  ASSUME PageInv, SignIn
  PROVE  PageInv'
<1>a. /\ PageTyped /\ AnswersInOrder /\ NothingUnmounted /\ NobodyServes /\ Wired
      /\ 1 \in Slots
  BY DashboardAssumption DEF PageInv, PageKept, Slots
<1>b. sockets = [s \in Slots |-> "none"] /\ status = 0 /\ ~retry /\ owed = {} /\ connection # "open"
  BY <1>a DEF NothingUnmounted, SignIn
<1>1. PageTyped' /\ AnswersInOrder'
  BY <1>a DEF PageTyped, AnswersInOrder, SignIn, Sent, promise
<1>2. NothingUnmounted' /\ NobodyServes' /\ Wired'
  BY <1>a, <1>b DEF NothingUnmounted, NobodyServes, Wired, SignIn, SocketStages, promise
<1>3. Connected' /\ NothingForgotten'
  BY <1>a, <1>b DEF Connected, NothingForgotten, Resuming, SignIn
<1>4. Cardinality(Used)' = 1
  BY <1>a, <1>b, SlotsFree, SlotTaken DEF SignIn, Wired
<1>5. Chains' <= MaxSockets
  BY <1>b, <1>4, DashboardAssumption DEF SignIn, Chains, Used
<1> QED BY <1>1, <1>2, <1>3, <1>5 DEF PageInv, PageKept

\* A socket is accepted or refused, opens, tells and closes.
LEMMA SocketKeeps ==
  ASSUME PageInv, NEW s \in Slots, SocketStep(s)
  PROVE  PageInv'
<1>a. /\ PageTyped /\ AnswersInOrder /\ NothingUnmounted /\ NobodyServes
      /\ Wired /\ Connected /\ NothingForgotten /\ Chains <= MaxSockets
  BY DEF PageInv, PageKept
<1>b. mounted
  BY <1>a DEF NothingUnmounted, SocketStep, Accept, onopen, onmessage, onclose
<1>1. ASSUME Accept(s) PROVE PageInv'
  <2>1. PageTyped' /\ AnswersInOrder' /\ NothingUnmounted' /\ NobodyServes' /\ Wired'
    BY <1>1, <1>a, <1>b DEF Accept, PageTyped, AnswersInOrder, NothingUnmounted,
       NobodyServes, Wired, SocketStages, server, hook, queries, promise
  <2>2. Resuming'
    BY <1>1, <1>a DEF Accept, Resuming, Wired
  <2>3. Connected' /\ NothingForgotten'
    BY <1>1, <1>a, <1>b, <2>2 DEF Accept, Connected, NothingForgotten, Wired, hook
  <2>4. Cardinality(Used)' = Cardinality(Used)
    BY <1>1, <1>a, SlotsKept DEF Accept, Wired
  <2>5. Chains' <= MaxSockets
    BY <1>1, <1>a, <2>4, ChainsAre DEF Accept, Chains, Used, hook
  <2> QED BY <2>1, <2>3, <2>5 DEF PageInv, PageKept
<1>2. ASSUME onopen(s) PROVE PageInv'
  <2>a. /\ fetch' \in [Resources -> Int]
        /\ \A r \in Resources : fetch'[r] \in {fetch[r], Sent}
        /\ everOpened => \A r \in Resources : data[r] >= 0 => fetch'[r] = Sent
    BY <1>2, <1>a, InvalidateAsks DEF onopen, PageTyped
  <2>1. PageTyped'
    BY <1>2, <1>a, <2>a DEF onopen, PageTyped, server, promise
  <2>2. AnswersInOrder'
    BY <1>2, <1>a, <2>a DEF onopen, AnswersInOrder, server, Sent
  <2>3. NothingUnmounted' /\ NobodyServes' /\ Wired'
    BY <1>2, <1>a, <1>b DEF onopen, NothingUnmounted, NobodyServes, Wired, SocketStages, server
  <2>4. Connected'
    BY <1>2, <1>a DEF onopen, Connected, Wired
  \* A reconnect asks for all that is owed; to a first connect nothing is.
  <2>5. NothingForgotten'
    <3>1. \A r \in owed : r \in loaded /\ r \in Resources /\ everOpened
      BY <1>a DEF PageTyped, NothingUnmounted
    <3>2. \A r \in owed : fetch'[r] = Sent
      BY <1>a, <2>a, <3>1 DEF AnswersInOrder
    <3> QED BY <1>2, <3>2 DEF onopen, NothingForgotten, promise
  <2>6. Cardinality(Used)' = Cardinality(Used)
    BY <1>2, <1>a, SlotsKept DEF onopen, Wired
  <2>7. Chains' <= MaxSockets
    BY <1>2, <1>a, <2>6, ChainsAre DEF onopen, Chains, Used
  <2> QED BY <2>1, <2>2, <2>3, <2>4, <2>5, <2>7 DEF PageInv, PageKept
<1>3. ASSUME onmessage(s) PROVE PageInv'
  <2>a. /\ fetch' \in [Resources -> Int]
        /\ \A r \in Resources : fetch'[r] \in {fetch[r], Sent}
        /\ \A r \in pending[s] : data[r] >= 0 => fetch'[r] = Sent
    BY <1>3, <1>a, InvalidateAsks DEF onmessage, PageTyped
  <2>1. PageTyped'
    BY <1>3, <1>a, <2>a DEF onmessage, PageTyped, server, hook, promise
  <2>2. AnswersInOrder'
    BY <1>3, <1>a, <2>a DEF onmessage, AnswersInOrder, server, Sent
  <2>3. NothingUnmounted' /\ NobodyServes' /\ Wired' /\ Connected'
    BY <1>3, <1>a, <1>b DEF onmessage, NothingUnmounted, NobodyServes, Wired, Connected,
       Resuming, server, hook, promise
  <2>4. NothingForgotten'
    <3>1. \A r \in owed : r \in loaded /\ r \in Resources
      BY <1>a DEF PageTyped
    <3>2. \A r \in owed : r \in pending[s] => fetch'[r] = Sent
      BY <1>a, <2>a, <3>1 DEF AnswersInOrder
    <3>3. \A r \in owed : fetch'[r] \in {fetch[r], Sent}
      BY <2>a, <3>1
    <3>4. \A u \in Slots \ {s} : pending'[u] = pending[u]
      BY <1>3, <1>a DEF onmessage, PageTyped
    <3> QED BY <1>3, <1>a, <1>b, <3>2, <3>3, <3>4
           DEF onmessage, NothingForgotten, Resuming, server, hook, promise
  <2>5. Chains' <= MaxSockets
    BY <1>3, <1>a DEF onmessage, Chains, hook
  <2> QED BY <2>1, <2>2, <2>3, <2>4, <2>5 DEF PageInv, PageKept
<1>4. ASSUME onclose(s) PROVE PageInv'
  <2>1. PageTyped' /\ AnswersInOrder'
    BY <1>4, <1>a DEF onclose, PageTyped, AnswersInOrder, server, queries, promise
  <2>2. NothingUnmounted' /\ NobodyServes' /\ Wired'
    BY <1>4, <1>a, <1>b DEF onclose, NothingUnmounted, NobodyServes, Wired, SocketStages,
       Null, server, queries, promise
  <2>3. Resuming'
    BY <1>4, <1>a DEF onclose, Resuming, PageTyped
  <2>4. Connected' /\ NothingForgotten'
    BY <1>4, <2>3 DEF onclose, Connected, NothingForgotten
  <2>5. Cardinality(Used)' = Cardinality(Used) - 1
    BY <1>4, <1>a, SlotLeft DEF onclose, Wired
  <2>6. Chains' <= MaxSockets
    BY <1>4, <1>a, <2>5, ChainsAre, Counted DEF onclose, Chains, Used, PageTyped
  <2> QED BY <2>1, <2>2, <2>4, <2>6 DEF PageInv, PageKept
<1> QED BY <1>1, <1>2, <1>3, <1>4 DEF SocketStep

\* What is under way to connect again is always followed by something that is.
LEMMA ReconnectKeeps ==
  ASSUME PageInv, fetchStatus \/ Retry \/ reconnectNow
  PROVE  PageInv'
<1>a. /\ PageTyped /\ AnswersInOrder /\ NothingUnmounted /\ NobodyServes
      /\ Wired /\ Connected /\ NothingForgotten /\ Chains <= MaxSockets
  BY DEF PageInv, PageKept
<1>1. CASE fetchStatus /\ ~notifyUnauthorized
  <2>a. status > 0 /\ scheduleReconnect
    BY <1>1 DEF fetchStatus
  <2>1. PageTyped' /\ AnswersInOrder'
    BY <1>a, <2>a DEF scheduleReconnect, PageTyped, AnswersInOrder, server, wire, queries,
       promise
  <2>2. NothingUnmounted' /\ NobodyServes' /\ Wired'
    BY <1>a, <2>a DEF scheduleReconnect, NothingUnmounted, NobodyServes, Wired, server, wire,
       queries, promise
  <2>3. Connected' /\ NothingForgotten'
    BY <1>a, <2>a DEF scheduleReconnect, Connected, NothingForgotten, Resuming, wire
  <2>4. Cardinality(Used)' = Cardinality(Used)
    BY <2>a, SlotsKept DEF scheduleReconnect, wire
  <2>5. Chains' <= MaxSockets
    BY <1>a, <2>a, <2>4, ChainsAre, Counted, DashboardAssumption
       DEF scheduleReconnect, Chains, Used, PageTyped
  <2> QED BY <2>1, <2>2, <2>3, <2>5 DEF PageInv, PageKept
<1>2. CASE Retry \/ reconnectNow
  <2>a. /\ retry \/ Chains < MaxSockets
        /\ mounted /\ ~retry' /\ connect
        /\ UNCHANGED <<server, subscribed, pending, mounted, status, everOpened, connection,
                       queries, promise>>
    BY <1>2, <1>a DEF Retry, reconnectNow, NothingUnmounted
  <2>b. PICK s \in Slots : /\ sockets[s] = "none"
                           /\ sockets' = [sockets EXCEPT ![s] = "connecting"]
                           /\ socket' = s
    BY <1>a, <2>a, SlotToTake
  <2>1. PageTyped' /\ AnswersInOrder'
    BY <1>2, <1>a, <2>a DEF Retry, reconnectNow, PageTyped, AnswersInOrder, server, queries,
       promise
  <2>2. NothingUnmounted' /\ NobodyServes' /\ Wired'
    BY <1>a, <2>a, <2>b DEF NothingUnmounted, NobodyServes, Wired, SocketStages, server,
       promise
  <2>3. Resuming'
    BY <1>a, <2>b DEF Resuming, Wired
  <2>4. Connected' /\ NothingForgotten'
    <3>1. connection' = "open" => \E u \in Slots : sockets'[u] \in {"open", "closing"}
      BY <1>a, <2>a, <2>b DEF Connected, Wired
    <3> QED BY <2>3, <3>1 DEF Connected, NothingForgotten
  <2>5. Cardinality(Used)' = Cardinality(Used) + 1
    BY <1>a, <2>b, SlotTaken DEF Wired
  <2>6. Chains' <= MaxSockets
    BY <1>a, <2>a, <2>5, ChainsAre, Counted, DashboardAssumption DEF Chains, Used, PageTyped
  <2> QED BY <2>1, <2>2, <2>4, <2>6 DEF PageInv, PageKept
<1> QED BY <1>1, <1>2, UnmountKeeps

\* What changes on the server is published to the sockets it has subscribed, and the end of
\* the server, a lost connection and a session that expires end no attempt to connect.
LEMMA ServerKeeps ==
  ASSUME PageInv,
         \/ Expire \/ Stop \/ Exit \/ Boot
         \/ \E r \in Resources : Write(r) \/ WriterStep(r)
         \/ \E s \in Slots : Subscribe(s) \/ Drop(s)
  PROVE  PageInv'
<1>a. /\ PageTyped /\ AnswersInOrder /\ NothingUnmounted /\ NobodyServes
      /\ Wired /\ Connected /\ NothingForgotten /\ Chains <= MaxSockets
  BY DEF PageInv, PageKept
\* The sockets that were lost, whichever they are.
<1>b. ASSUME sockets' \in [Slots -> SocketStages],
             \A s \in Slots : sockets'[s] \in {sockets[s], Lost(s)},
             UNCHANGED hook
      PROVE  /\ Wired' /\ Connected'
             /\ \A s \in Slots : sockets'[s] # sockets[s] => Resuming'
             /\ Resuming => Resuming'
             /\ Chains' <= MaxSockets
  <2>1. \A s \in Slots :
          /\ sockets'[s] = "none" <=> sockets[s] = "none"
          /\ sockets'[s] # sockets[s] =>
               \/ sockets[s] = "open" /\ sockets'[s] = "closing"
               \/ sockets[s] = "accepted" /\ sockets'[s] = "gone"
    BY <1>b, <1>a DEF Lost, Wired
  <2>2. Wired'
    BY <1>b, <1>a, <2>1 DEF Wired, hook
  <2>3. \A s \in Slots : sockets'[s] # sockets[s] => Resuming'
    BY <1>b, <2>1 DEF Resuming
  <2>4. Resuming => Resuming'
    BY <1>b, <2>1, <2>3 DEF Resuming, hook
  <2>5. Connected'
    BY <1>b, <1>a, <2>1, <2>4 DEF Connected, hook
  <2>6. Cardinality(Used)' = Cardinality(Used)
    BY <2>1, SlotsKept
  <2>7. Chains' <= MaxSockets
    BY <1>b, <1>a, <2>6, ChainsAre DEF Chains, Used, hook
  <2> QED BY <2>2, <2>3, <2>4, <2>5, <2>7
\* What is owed is never more than was shown to a page whose socket had opened.
<1>c. ASSUME NEW resources \in SUBSET Resources, owed' = Owed(resources), UNCHANGED hook,
             UNCHANGED loaded
      PROVE  /\ owed' \in SUBSET loaded
             /\ owed' # {} => mounted /\ everOpened
             /\ owed' \subseteq owed \cup resources
  BY <1>c, <1>a DEF Owed, PageTyped, NothingUnmounted
\* A step that leaves every connection and what the hook knows.
<1>d. ASSUME UNCHANGED <<sockets, hook>>
      PROVE  Wired' /\ Connected' /\ Chains' <= MaxSockets /\ (Resuming' <=> Resuming)
  BY <1>d, <1>a DEF Wired, Connected, Resuming, Chains, hook
<1>1. CASE Expire
  <2>1. PageTyped' /\ AnswersInOrder' /\ NothingUnmounted' /\ NobodyServes'
    BY <1>1, <1>a DEF Expire, PageTyped, AnswersInOrder, NothingUnmounted, NobodyServes, wire,
       hook, queries, promise
  <2>2. NothingForgotten'
    BY <1>1, <1>a DEF Expire, NothingForgotten, Resuming, wire, hook, queries, promise
  <2> QED BY <1>1, <1>d, <2>1, <2>2 DEF PageInv, PageKept, Expire, wire
<1>2. CASE Stop
  <2>1. PageTyped' /\ AnswersInOrder' /\ NothingUnmounted' /\ NobodyServes'
    BY <1>2, <1>a DEF Stop, PageTyped, AnswersInOrder, NothingUnmounted, NobodyServes, wire,
       hook, queries, promise
  <2>2. NothingForgotten'
    BY <1>2 DEF Stop, NothingForgotten
  <2> QED BY <1>2, <1>d, <2>1, <2>2 DEF PageInv, PageKept, Stop, wire
<1>3. CASE Exit
  <2>a. \A s \in Slots : sockets'[s] = Lost(s) /\ sockets'[s] \notin {"open", "accepted"}
    BY <1>3, <1>a DEF Exit, Lost, Wired
  <2>b. sockets' \in [Slots -> SocketStages]
    BY <1>3, <1>a DEF Exit, Lost, Wired, SocketStages
  <2>1. PageTyped' /\ AnswersInOrder'
    BY <1>3, <1>a DEF Exit, PageTyped, AnswersInOrder, hook, queries, promise
  <2>2. NothingUnmounted' /\ NobodyServes'
    <3>1. ~mounted => sockets' = [s \in Slots |-> "none"]
      BY <1>3, <1>a DEF Exit, Lost, NothingUnmounted
    <3> QED BY <1>3, <1>a, <2>a, <3>1
           DEF Exit, NothingUnmounted, NobodyServes, hook, queries, promise
  <2>3. Wired' /\ Connected' /\ Chains' <= MaxSockets
    BY <1>b, <2>a, <2>b, <1>3 DEF Exit
  <2>4. NothingForgotten'
    BY <1>3 DEF Exit, NothingForgotten
  <2> QED BY <2>1, <2>2, <2>3, <2>4 DEF PageInv, PageKept
<1>4. CASE Boot
  <2>a. PICK swept \in SUBSET Resources :
          /\ version' = [r \in Resources |-> IF r \in swept THEN version[r] + 1 ELSE version[r]]
          /\ owed' = Owed(swept)
    BY <1>4 DEF Boot
  <2>b. /\ owed' \in SUBSET loaded
        /\ owed' # {} => mounted /\ everOpened
    BY <1>4, <1>c, <2>a DEF Boot, queries
  <2>c. version' \in [Resources -> Nat] /\ \A r \in Resources : version[r] <= version'[r]
    BY <2>a, <1>a DEF PageTyped
  <2>1. PageTyped'
    BY <1>4, <1>a, <2>b, <2>c DEF Boot, PageTyped, wire, hook, queries
  <2>2. AnswersInOrder'
    BY <1>4, <1>a, <2>c DEF Boot, PageTyped, AnswersInOrder, queries
  <2>3. NothingUnmounted' /\ NobodyServes'
    BY <1>4, <1>a, <2>b DEF Boot, NothingUnmounted, NobodyServes, wire, hook, queries
  \* Nobody was connected, so another connection is on its way.
  <2>4. NothingForgotten'
    <3>1. mounted => Resuming
      BY <1>4, <1>a DEF Boot, NobodyServes, Connected, Resuming
    <3> QED BY <3>1, <1>4 DEF Boot, NothingForgotten, Resuming, wire, hook
  <2> QED BY <1>4, <1>d, <2>1, <2>2, <2>3, <2>4 DEF PageInv, PageKept, Boot, wire
<1>5. ASSUME NEW r \in Resources, Write(r) PROVE PageInv'
  <2>a. /\ owed' \in SUBSET loaded
        /\ owed' # {} => mounted /\ everOpened
        /\ owed' \subseteq owed \cup {r}
    BY <1>5, <1>c DEF Write, queries
  <2>b. /\ version' \in [Resources -> Nat]
        /\ \A q \in Resources : version[q] <= version'[q]
        /\ \A q \in Resources \ {r} : version'[q] = version[q]
    BY <1>5, <1>a DEF Write, PageTyped
  <2>1. PageTyped'
    BY <1>5, <1>a, <2>a, <2>b DEF Write, PageTyped, wire, hook, queries
  <2>2. AnswersInOrder'
    BY <1>5, <1>a, <2>b DEF Write, PageTyped, AnswersInOrder, queries
  <2>3. NothingUnmounted' /\ NobodyServes'
    BY <1>5, <1>a, <2>a DEF Write, NothingUnmounted, NobodyServes, wire, hook, queries
  \* What was written is still to be published.
  <2>4. NothingForgotten'
    <3>1. r \in written' /\ written \subseteq written'
      BY <1>5 DEF Write
    <3> QED BY <1>5, <1>a, <2>a, <2>b, <3>1
           DEF Write, NothingForgotten, Resuming, PageTyped, wire, hook, queries
  <2> QED BY <1>5, <1>d, <2>1, <2>2, <2>3, <2>4 DEF PageInv, PageKept, Write, wire
<1>6. ASSUME NEW r \in Resources, Publish(r) PROVE PageInv'
  <2>a. /\ pending' \in [Slots -> SUBSET Resources]
        /\ \A s \in Slots : /\ pending[s] \subseteq pending'[s]
                            /\ s \in subscribed => r \in pending'[s]
    BY <1>6, <1>a DEF Publish, PageTyped
  <2>1. PageTyped' /\ AnswersInOrder' /\ NothingUnmounted' /\ NobodyServes'
    BY <1>6, <1>a, <2>a DEF Publish, PageTyped, AnswersInOrder, NothingUnmounted, NobodyServes,
       hook, queries
  \* A socket that is open is subscribed and will be told, or it is missed; without a socket
  \* that is open another is on its way.
  <2>2. NothingForgotten'
    <3>1. mounted => Resuming \/ \E s \in Slots : sockets[s] = "open"
      BY <1>a DEF Connected, Resuming
    <3>2. SUFFICES ASSUME mounted, ~Resuming, up, NEW q \in owed, q \notin missed'
                   PROVE  \/ data[q] = version[q]
                          \/ fetch[q] \in {Sent, version[q]}
                          \/ q \in written'
                          \/ \E s \in subscribed : sockets[s] = "open" /\ q \in pending'[s]
      BY <1>6 DEF Publish, NothingForgotten, Resuming, hook, queries
    <3>3. CASE q = r
      <4>1. ~TooEarly
        BY <1>6, <3>2, <3>3 DEF Publish
      <4>2. PICK s \in subscribed : sockets[s] = "open"
        BY <3>1, <3>2, <4>1 DEF TooEarly
      <4> QED BY <1>a, <2>a, <3>3, <4>2 DEF PageTyped
    <3>4. CASE q # r
      <4>1. q \notin missed /\ (q \in written => q \in written')
        BY <1>6, <3>2, <3>4 DEF Publish
      <4> QED BY <1>a, <2>a, <3>2, <4>1 DEF NothingForgotten, PageTyped
    <3> QED BY <3>3, <3>4
  <2> QED BY <1>6, <1>d, <2>1, <2>2 DEF PageInv, PageKept, Publish
<1>7. ASSUME NEW r \in Resources, Unannounced(r) PROVE PageInv'
  <2>1. PageTyped' /\ AnswersInOrder' /\ NothingUnmounted' /\ NobodyServes'
    BY <1>7, <1>a DEF Unannounced, PageTyped, AnswersInOrder, NothingUnmounted, NobodyServes,
       wire, hook, queries
  <2>2. NothingForgotten'
    BY <1>7, <1>a DEF Unannounced, NothingForgotten, Resuming, wire, hook, queries
  <2> QED BY <1>7, <1>d, <2>1, <2>2 DEF PageInv, PageKept, Unannounced, wire
<1>8. ASSUME NEW s \in Slots, Subscribe(s) PROVE PageInv'
  <2>1. PageTyped' /\ AnswersInOrder' /\ NothingUnmounted' /\ NobodyServes'
    BY <1>8, <1>a DEF Subscribe, PageTyped, AnswersInOrder, NothingUnmounted, NobodyServes,
       server, hook, queries, promise
  <2>2. NothingForgotten'
    BY <1>8, <1>a DEF Subscribe, NothingForgotten, Resuming, server, hook, queries, promise
  <2> QED BY <1>8, <1>d, <2>1, <2>2 DEF PageInv, PageKept, Subscribe
<1>9. ASSUME NEW s \in Slots, Drop(s) PROVE PageInv'
  <2>a. mounted
    BY <1>9, <1>a DEF Drop, Lost, NothingUnmounted
  <2>b. /\ sockets' \in [Slots -> SocketStages]
        /\ \A u \in Slots : sockets'[u] \in {sockets[u], Lost(u)}
        /\ sockets'[s] # sockets[s]
        /\ sockets'[s] \in {"gone", "closing"}
    BY <1>9, <1>a DEF Drop, Lost, Wired, SocketStages
  <2>1. PageTyped' /\ AnswersInOrder' /\ NothingUnmounted'
    BY <1>9, <1>a, <2>a DEF Drop, PageTyped, AnswersInOrder, NothingUnmounted, server, hook,
       queries, promise
  <2>2. NobodyServes'
    BY <1>9, <1>a, <2>b DEF Drop, NobodyServes, Wired, server
  <2>3. Wired' /\ Connected' /\ Resuming' /\ Chains' <= MaxSockets
    BY <1>9, <1>b, <2>b DEF Drop
  <2>4. NothingForgotten'
    BY <2>3 DEF NothingForgotten
  <2> QED BY <2>1, <2>2, <2>3, <2>4 DEF PageInv, PageKept
<1> QED BY <1>1, <1>2, <1>3, <1>4, <1>5, <1>6, <1>7, <1>8, <1>9 DEF WriterStep

\* Every step keeps what a page relies on.
LEMMA PageKeeps ==
  ASSUME PageInv, PageNext \/ UNCHANGED pageVars
  PROVE  PageInv'
<1>1. CASE UNCHANGED pageVars
  <2>1. PageTyped' /\ AnswersInOrder' /\ NothingUnmounted' /\ NobodyServes'
    BY <1>1 DEF PageInv, PageKept, PageTyped, AnswersInOrder, NothingUnmounted, NobodyServes,
       pageVars, server, wire, hook, queries, promise
  <2>2. Wired' /\ Connected' /\ NothingForgotten'
    BY <1>1 DEF PageInv, PageKept, Wired, Connected, NothingForgotten, Resuming, pageVars,
       server, wire, hook, queries, promise
  <2>3. Chains' <= MaxSockets
    BY <1>1 DEF PageInv, Chains, pageVars, wire, hook
  <2> QED BY <2>1, <2>2, <2>3 DEF PageInv, PageKept
<1>2. ASSUME NEW r \in Resources, Unauthorized(r) PROVE PageInv'
  BY <1>2, UnmountKeeps DEF Unauthorized
<1>3. CASE PageNext
  BY <1>2, <1>3, SocketKeeps, QueriesKeep, ReconnectKeeps, SignInKeeps, ServerKeeps
     DEF PageNext, QueryStep
<1> QED BY <1>1, <1>3

-------------------------------------------------------------------------------
(* The dashboard: theorems *)

\* A dashboard is never cut off for good, and what changed and is not shown was asked for
\* after it changed or will be: for any resources, changes, troubles and sockets at once.
THEOREM PageNeverStuck == PageSpec => []NeverStuck
<1>1. PageInv /\ [PageNext]_pageVars => PageInv'
  BY PageKeeps
<1>2. PageInv => NeverStuck
  BY DEF PageInv, PageKept, Wired, Connected, NeverStuck
<1> QED BY PageStart, <1>1, <1>2, PTL DEF PageSpec

-------------------------------------------------------------------------------
(* The dashboard: what it takes for granted of the server *)

\* The subscription behind a socket, which the handshake alone does not make.
Joined(s) == s \in subscribed

\* Only a connection is subscribed, and no subscription leaves anything to the next one in
\* its slot.
NothingLeft ==
  \A s \in Slots :
    /\ Joined(s) => sockets[s] \in {"accepted", "open"}
    /\ ~Joined(s) => pending[s] = {}

\* What is no longer to be published. It was, unless a handler failed, whereupon it is missed.
Settled == written \ written'

\* A step as the subscription sees it, in the terms of ChangeSignal: it joins and is owed
\* nothing; it is owed what is published, and only that; it is told all it is owed,
\* whereupon the page asks for what it shows of that; or it leaves.
SignalStep(s) ==
  /\ ~Joined(s) /\ Joined(s)' => pending'[s] = {} /\ Settled = {}
  /\ Joined(s) /\ Joined(s)' =>
       \/ /\ pending[s] \subseteq pending'[s] /\ pending'[s] \subseteq pending[s] \cup Settled
          /\ (owed \cap Settled) \ missed' \subseteq pending'[s]
       \/ /\ Settled = {} /\ pending[s] # {} /\ pending'[s] = {}
          /\ \A r \in pending[s] : data[r] >= 0 => fetch'[r] = Sent

LEMMA LeftStart == PageInit => NothingLeft
BY DEF PageInit, NothingLeft, Joined

\* The two go together: what a subscription leaves behind, and what the next finds.
LEMMA SignalKept ==
  ASSUME PageInv, NothingLeft, PageNext \/ UNCHANGED pageVars
  PROVE  NothingLeft' /\ \A s \in Slots : SignalStep(s)
<1>a. PageTyped /\ NobodyServes /\ Wired /\ NothingUnmounted
  BY DEF PageInv, PageKept
<1> DEFINE Goal == NothingLeft' /\ \A s \in Slots : SignalStep(s)
           Kept == \A s \in Slots : Joined(s) =>
                     (sockets[s] \in {"accepted", "open"} => sockets'[s] \in {"accepted", "open"})
\* A step that publishes nothing and leaves the subscriptions, and the connections they are to.
<1>1. ASSUME UNCHANGED <<written, subscribed, pending>>, Kept PROVE Goal
  BY <1>1 DEF NothingLeft, SignalStep, Joined, Settled
<1>2. ASSUME UNCHANGED <<written, wire>> PROVE Goal
  BY <1>1, <1>2 DEF wire
<1>3. ASSUME UNCHANGED pageVars PROVE Goal
  BY <1>2, <1>3 DEF pageVars, server
<1>4. ASSUME notifyUnauthorized PROVE Goal
  BY <1>4 DEF notifyUnauthorized, NothingLeft, SignalStep, Joined
<1>5. ASSUME \E r \in Resources : Serve(r) \/ Answer(r) \/ FetchFails(r) PROVE Goal
  BY <1>2, <1>5 DEF Serve, Answer, FetchFails, server
<1>6. ASSUME Refresh \/ Focus \/ Expire \/ Stop PROVE Goal
  BY <1>2, <1>6 DEF Refresh, Focus, Expire, Stop, server
<1>7. ASSUME NEW r \in Resources, Unauthorized(r) PROVE Goal
  BY <1>4, <1>7 DEF Unauthorized
<1>8. ASSUME fetchStatus PROVE Goal
  BY <1>2, <1>4, <1>8 DEF fetchStatus, scheduleReconnect, server
<1>9. ASSUME Retry \/ reconnectNow PROVE Goal
  <2>1. PICK s \in Slots : /\ sockets[s] = "none"
                           /\ sockets' = [sockets EXCEPT ![s] = "connecting"]
    BY <1>9, <1>a, SlotToTake DEF Retry, reconnectNow, PageInv
  <2>2. Kept
    BY <1>a, <2>1 DEF Wired
  <2> QED BY <1>1, <1>9, <2>2 DEF Retry, reconnectNow, server
<1>10. ASSUME SignIn PROVE Goal
  <2>1. Kept
    BY <1>10, <1>a DEF SignIn, NothingUnmounted
  <2> QED BY <1>1, <1>10, <2>1 DEF SignIn
<1>11. ASSUME NEW s \in Slots, Accept(s) \/ onclose(s) PROVE Goal
  <2>1. Kept
    BY <1>11, <1>a DEF Accept, onclose, Wired
  <2> QED BY <1>1, <1>11, <2>1 DEF Accept, onclose, server
<1>12. ASSUME NEW s \in Slots, onopen(s) PROVE Goal
  <2>1. Kept
    BY <1>12, <1>a DEF onopen, Wired
  <2> QED BY <1>1, <1>12, <2>1 DEF onopen, server
<1>13. ASSUME NEW s \in Slots, onmessage(s) PROVE Goal
  <2>1. Settled = {}
    BY <1>13 DEF onmessage, Settled, server
  <2>2. pending[s] # {} /\ \A u \in Slots : pending'[u] = IF u = s THEN {} ELSE pending[u]
    BY <1>13, <1>a DEF onmessage, PageTyped
  <2>3. \A r \in pending[s] : data[r] >= 0 => fetch'[r] = Sent
    BY <1>13, <1>a, InvalidateAsks DEF onmessage, PageTyped
  <2>4. UNCHANGED <<sockets, subscribed>>
    BY <1>13 DEF onmessage
  <2> QED BY <2>1, <2>2, <2>3, <2>4 DEF NothingLeft, SignalStep, Joined
<1>14. ASSUME NEW r \in Resources, Write(r) PROVE Goal
  BY <1>14 DEF Write, NothingLeft, SignalStep, Joined, Settled, wire
<1>15. ASSUME NEW r \in Resources, Publish(r) PROVE Goal
  <2>1. Settled = {r}
    BY <1>15 DEF Publish, Settled
  <2>2. \A u \in Slots : pending'[u] = IF Joined(u) THEN pending[u] \cup {r} ELSE pending[u]
    BY <1>15 DEF Publish, Joined
  <2>3. UNCHANGED <<sockets, subscribed>>
    BY <1>15 DEF Publish
  <2> QED BY <2>1, <2>2, <2>3 DEF NothingLeft, SignalStep, Joined
<1>16. ASSUME NEW r \in Resources, Unannounced(r) PROVE Goal
  <2>1. Settled = {r} /\ owed \cap {r} \subseteq missed'
    BY <1>16 DEF Unannounced, Settled
  <2> QED BY <1>16, <2>1 DEF Unannounced, NothingLeft, SignalStep, Joined, wire
<1>17. ASSUME NEW s \in Slots, Subscribe(s) PROVE Goal
  <2>1. Settled = {}
    BY <1>17 DEF Subscribe, Settled, server
  <2> QED BY <1>17, <2>1 DEF Subscribe, NothingLeft, SignalStep, Joined
<1>18. ASSUME NEW s \in Slots, Drop(s) PROVE Goal
  <2>1. Settled = {}
    BY <1>18 DEF Drop, Settled, server
  <2>2. subscribed' = subscribed \ {s} /\ \A u \in Slots \ {s} : sockets'[u] = sockets[u]
    BY <1>18, <1>a DEF Drop, Wired
  <2>3. pending'[s] = {} /\ \A u \in Slots \ {s} : pending'[u] = pending[u]
    BY <1>18, <1>a DEF Drop, PageTyped
  <2> QED BY <2>1, <2>2, <2>3 DEF NothingLeft, SignalStep, Joined
<1>19. ASSUME Exit PROVE Goal
  BY <1>19 DEF Exit, NothingLeft, SignalStep, Joined
<1>20. ASSUME Boot PROVE Goal
  BY <1>2, <1>20 DEF Boot
<1> HIDE DEF Goal
<1>21. ASSUME NEW s \in Slots, SocketStep(s) \/ Subscribe(s) \/ Drop(s) PROVE Goal
  BY <1>11, <1>12, <1>13, <1>17, <1>18, <1>21 DEF SocketStep
<1>22. ASSUME NEW r \in Resources, QueryStep(r) \/ Write(r) \/ WriterStep(r) PROVE Goal
  BY <1>5, <1>7, <1>14, <1>15, <1>16, <1>22 DEF QueryStep, WriterStep
<1>23. ASSUME PageNext PROVE Goal
  BY <1>6, <1>8, <1>9, <1>10, <1>19, <1>20, <1>21, <1>22, <1>23 DEF PageNext
<1>24. Goal
  BY <1>3, <1>23
<1> QED BY <1>24 DEF Goal

\* The server side of every socket of a page is the change signal that the bus implements,
\* from its subscription, which follows the answer to its handshake, to its loss: what is
\* published in between is handed over or still pending, nothing is made up, and nothing is
\* left over for the subscription that follows it in its slot. Of what is published
\* before the subscription it says nothing: that is what Publish may leave missed.
THEOREM ServerSideIsSignal ==
  PageSpec => []NothingLeft /\ [][\A s \in Slots : SignalStep(s)]_pageVars
<1>1. PageInv /\ [PageNext]_pageVars => PageInv'
  BY PageKeeps
<1>2. PageInv /\ NothingLeft /\ [PageNext]_pageVars =>
        NothingLeft' /\ [\A s \in Slots : SignalStep(s)]_pageVars
  BY SignalKept
<1> QED BY PageStart, LeftStart, <1>1, <1>2, PTL DEF PageSpec

-------------------------------------------------------------------------------
(* The throttle *)

USE LoginAssumption DEF None

\* The attempts of a caller that never overlapped: one at a time, let in with fewer
\* failures than the limit and told nothing since, so that the one that fails reaches
\* the limit and does not pass it.
OneByOne(k) ==
  /\ \A a, b \in InFlight(k) : a = b
  /\ InFlight(k) # {} => told[k] = None /\ Cardinality(failures[k]) < MaxAttempts
  /\ Cardinality(failures[k]) <= MaxAttempts

\* What it was told is when one of its failures ages out, unless one is gone already.
ToldWhy(k) ==
  told[k] # None =>
    \/ Cardinality(failures[k]) < MaxAttempts
    \/ \E first \in failures[k] : first + AttemptWindow <= told[k]

LoginInv ==
  /\ TypeOK
  /\ \A k \in Clients \ overlapped : OneByOne(k) /\ ToldWhy(k)

-------------------------------------------------------------------------------
(* The throttle's map *)

\* A step that adds no failure leaves the map as it may be.
LEMMA LessIsFine ==
  ASSUME TypeOK, failures' \in [Clients -> SUBSET Nat],
         \A k \in Clients : failures'[k] \subseteq failures[k],
         now' \in Nat, now <= now'
  PROVE  /\ \A k \in Clients : /\ IsFiniteSet(failures'[k])
                               /\ Cardinality(failures'[k]) \in Nat
                               /\ Cardinality(failures[k]) \in Nat
                               /\ Cardinality(failures'[k]) <= Cardinality(failures[k])
                               /\ \A at \in failures'[k] : at < now'
         /\ Cardinality(Tracked') <= MaxKeys
<1>1. \A k \in Clients : /\ IsFiniteSet(failures'[k])
                         /\ Cardinality(failures'[k]) <= Cardinality(failures[k])
  BY FS_Subset DEF TypeOK
<1>2. \A k \in Clients : Cardinality(failures'[k]) \in Nat /\ Cardinality(failures[k]) \in Nat
  BY <1>1, FS_CardinalityType DEF TypeOK
<1>3. \A k \in Clients : \A at \in failures'[k] : at < now'
  BY DEF TypeOK
<1>4. Tracked' \subseteq Tracked /\ IsFiniteSet(Tracked)
  BY FS_Subset DEF Tracked, TypeOK
<1>5. Cardinality(Tracked') <= Cardinality(Tracked)
  BY <1>4, FS_Subset
<1>6. Cardinality(Tracked) \in Nat /\ Cardinality(Tracked') \in Nat
  BY <1>4, FS_Subset, FS_CardinalityType
<1> QED
  BY <1>1, <1>2, <1>3, <1>5, <1>6 DEF TypeOK

\* A new failure evicts at most one other caller, and the map stays within its size.
LEMMA OneMoreIsFine ==
  ASSUME TypeOK, NEW k \in Clients, RecordFailure(k)
  PROVE  /\ failures' \in [Clients -> SUBSET Nat]
         /\ failures'[k] \subseteq failures[k] \cup {now}
         /\ \A c \in Clients \ {k} : failures'[c] = {} \/ failures'[c] = failures[c]
         /\ Cardinality(Tracked') <= MaxKeys
<1> DEFINE kept == prune(k)
           tracked == {c \in Clients : kept[c] # {}}
<1>1. /\ kept \in [Clients -> SUBSET Nat]
      /\ kept[k] \subseteq failures[k]
      /\ \A c \in Clients \ {k} : kept[c] = failures[c]
  BY DEF prune, Recent, TypeOK
<1>2. tracked \subseteq Tracked /\ IsFiniteSet(Tracked)
  BY <1>1, FS_Subset DEF Tracked
<1>3. IsFiniteSet(tracked) /\ Cardinality(tracked) <= Cardinality(Tracked)
  BY <1>2, FS_Subset
<1>4. Cardinality(tracked) \in Nat /\ Cardinality(Tracked) \in Nat /\ Cardinality(tracked) <= MaxKeys
  BY <1>2, <1>3, FS_CardinalityType DEF TypeOK
<1>5. IF k \notin tracked /\ Cardinality(tracked) >= MaxKeys
      THEN \E victim \in tracked : failures' = [kept EXCEPT ![k] = {now}, ![victim] = {}]
      ELSE failures' = [kept EXCEPT ![k] = kept[k] \cup {now}]
  BY DEF RecordFailure
<1> now \in Nat /\ Tracked' = {c \in Clients : failures'[c] # {}}
  BY DEF TypeOK, Tracked
<1> HIDE DEF kept
<1>6. CASE k \notin tracked /\ Cardinality(tracked) >= MaxKeys
  <2>1. PICK victim \in tracked : failures' = [kept EXCEPT ![k] = {now}, ![victim] = {}]
    BY <1>5, <1>6
  <2>2. victim # k /\ victim \in Clients
    BY <1>6
  <2>3. /\ failures' \in [Clients -> SUBSET Nat]
        /\ failures'[k] = {now} /\ failures'[victim] = {}
        /\ \A c \in Clients \ {k, victim} : failures'[c] = kept[c]
    BY <2>1, <2>2, <1>1
  <2>4. Tracked' \subseteq (tracked \ {victim}) \cup {k}
    BY <2>3
  <2> HIDE DEF tracked
  <2>5. IsFiniteSet(tracked \ {victim}) /\ Cardinality(tracked \ {victim}) = Cardinality(tracked) - 1
    BY <1>3, <2>1, FS_RemoveElement
  <2> DEFINE rest == tracked \ {victim}
  <2> HIDE DEF rest
  <2>9. /\ IsFiniteSet(rest \cup {k})
        /\ Cardinality(rest \cup {k}) =
             IF k \in rest THEN Cardinality(rest) ELSE Cardinality(rest) + 1
    BY <2>5, FS_AddElement DEF rest
  <2>6. /\ IsFiniteSet((tracked \ {victim}) \cup {k})
        /\ Cardinality((tracked \ {victim}) \cup {k}) <= Cardinality(tracked)
    BY <2>5, <2>9, <1>4 DEF rest
  <2>7. Cardinality(Tracked') <= Cardinality((tracked \ {victim}) \cup {k}) /\ IsFiniteSet(Tracked')
    BY <2>4, <2>6, FS_Subset
  <2>8. Cardinality(Tracked') \in Nat /\ Cardinality((tracked \ {victim}) \cup {k}) \in Nat
    BY <2>6, <2>7, FS_CardinalityType
  <2> QED
    BY <1>1, <1>4, <2>3, <2>6, <2>7, <2>8
<1>7. CASE ~(k \notin tracked /\ Cardinality(tracked) >= MaxKeys)
  <2>1. /\ failures' \in [Clients -> SUBSET Nat]
        /\ failures'[k] = kept[k] \cup {now}
        /\ \A c \in Clients \ {k} : failures'[c] = kept[c]
    BY <1>5, <1>7, <1>1
  <2>2. Tracked' \subseteq tracked \cup {k}
    BY <2>1
  <2> HIDE DEF tracked
  <2>6. /\ IsFiniteSet(tracked \cup {k})
        /\ Cardinality(tracked \cup {k}) =
             IF k \in tracked THEN Cardinality(tracked) ELSE Cardinality(tracked) + 1
    BY <1>3, FS_AddElement
  <2>3. IsFiniteSet(tracked \cup {k}) /\ Cardinality(tracked \cup {k}) <= MaxKeys
    BY <2>6, <1>4, <1>7
  <2>4. Cardinality(Tracked') <= Cardinality(tracked \cup {k}) /\ IsFiniteSet(Tracked')
    BY <2>2, <2>3, FS_Subset
  <2>5. Cardinality(Tracked') \in Nat /\ Cardinality(tracked \cup {k}) \in Nat
    BY <2>3, <2>4, FS_CardinalityType
  <2> QED
    BY <1>1, <2>1, <2>3, <2>4, <2>5
<1> QED
  BY <1>6, <1>7

-------------------------------------------------------------------------------
(* The throttle: steps *)

LEMMA InitLogin == Init => LoginInv
<1> SUFFICES ASSUME Init PROVE LoginInv
  OBVIOUS
<1>1. Tracked = {} /\ Cardinality(Tracked) = 0
  BY FS_EmptySet DEF Init, Tracked
<1>2. \A k \in Clients : IsFiniteSet(failures[k]) /\ Cardinality(failures[k]) = 0
  BY FS_EmptySet DEF Init
<1>3. TypeOK
  BY <1>1, <1>2 DEF Init, TypeOK
<1>4. \A k \in Clients : InFlight(k) = {}
  BY DEF Init, InFlight
<1> QED
  BY <1>2, <1>3, <1>4 DEF LoginInv, OneByOne, ToldWhy, Init

\* An attempt is let in.
LEMMA LetInKeeps ==
  ASSUME LoginInv, NEW a \in Attempts, NEW k \in Clients, LetIn(a, k)
  PROVE  LoginInv'
<1>1. /\ failures' \in [Clients -> SUBSET Nat]
      /\ \A c \in Clients : failures'[c] \subseteq failures[c]
      /\ \A c \in Clients \ {k} : failures'[c] = failures[c]
      /\ now' = now /\ now \in Nat
  BY DEF LetIn, prune, Recent, LoginInv, TypeOK
<1>2. /\ \A c \in Clients : /\ IsFiniteSet(failures'[c])
                            /\ Cardinality(failures'[c]) \in Nat
                            /\ \A at \in failures'[c] : at < now'
      /\ Cardinality(Tracked') <= MaxKeys
  BY <1>1, LessIsFine DEF LoginInv
<1>3. TypeOK'
  BY <1>1, <1>2 DEF LetIn, Overlap, LoginInv, TypeOK
<1>4. ASSUME NEW c \in Clients \ overlapped', c # k
      PROVE  OneByOne(c)' /\ ToldWhy(c)'
  <2>1. InFlight(c)' = InFlight(c) /\ told'[c] = told[c] /\ c \notin overlapped
    BY <1>4 DEF LetIn, Overlap, InFlight, LoginInv, TypeOK
  <2> QED
    BY <1>1, <1>4, <2>1 DEF LoginInv, OneByOne, ToldWhy
<1>5. ASSUME k \notin overlapped'
      PROVE  OneByOne(k)' /\ ToldWhy(k)'
  <2>1. InFlight(k) = {} /\ InFlight(k)' \subseteq {a} /\ told'[k] = None
    BY <1>5 DEF LetIn, Overlap, InFlight, LoginInv, TypeOK
  <2>2. Cardinality(failures'[k]) < MaxAttempts
    BY DEF LetIn
  <2> QED
    BY <1>2, <2>1, <2>2 DEF OneByOne, ToldWhy
<1> QED
  BY <1>3, <1>4, <1>5 DEF LoginInv

\* An attempt is refused.
LEMMA RefuseKeeps ==
  ASSUME LoginInv, NEW a \in Attempts, NEW k \in Clients, Refuse(a, k)
  PROVE  LoginInv'
<1>1. /\ failures' \in [Clients -> SUBSET Nat]
      /\ \A c \in Clients : failures'[c] \subseteq failures[c]
      /\ \A c \in Clients \ {k} : failures'[c] = failures[c]
      /\ now' = now /\ now \in Nat
  BY DEF Refuse, prune, Recent, LoginInv, TypeOK
<1>2. /\ \A c \in Clients : /\ IsFiniteSet(failures'[c])
                            /\ Cardinality(failures'[c]) \in Nat
                            /\ Cardinality(failures[c]) \in Nat
                            /\ Cardinality(failures'[c]) <= Cardinality(failures[c])
                            /\ \A at \in failures'[c] : at < now'
      /\ Cardinality(Tracked') <= MaxKeys
  BY <1>1, LessIsFine DEF LoginInv
<1>3. PICK first \in failures'[k] : told' = [told EXCEPT ![k] = first + AttemptWindow]
  BY DEF Refuse
<1>7. told' \in [Clients -> Nat] /\ overlapped' \in SUBSET Clients
  BY <1>1, <1>3 DEF Refuse, Overlap, LoginInv, TypeOK
<1>4. TypeOK'
  BY <1>1, <1>2, <1>7 DEF Refuse, LoginInv, TypeOK
<1>5. ASSUME NEW c \in Clients \ overlapped', c # k
      PROVE  OneByOne(c)' /\ ToldWhy(c)'
  <2>1. InFlight(c)' = InFlight(c) /\ told'[c] = told[c] /\ c \notin overlapped
    BY <1>3, <1>5 DEF Refuse, Overlap, InFlight, LoginInv, TypeOK
  <2> QED
    BY <1>1, <1>5, <2>1 DEF LoginInv, OneByOne, ToldWhy
<1>6. ASSUME k \notin overlapped'
      PROVE  OneByOne(k)' /\ ToldWhy(k)'
  <2>1. InFlight(k)' = {} /\ k \notin overlapped
    BY <1>6 DEF Refuse, Overlap, InFlight
  <2>2. Cardinality(failures'[k]) <= MaxAttempts
    BY <1>2, <2>1 DEF LoginInv, OneByOne
  <2>3. told'[k] = first + AttemptWindow /\ told'[k] \in Nat
    BY <1>1, <1>3 DEF LoginInv, TypeOK
  <2> QED
    BY <1>2, <1>3, <2>1, <2>2, <2>3 DEF OneByOne, ToldWhy
<1> QED
  BY <1>4, <1>5, <1>6 DEF LoginInv

\* An attempt ends without a failure.
LEMMA EndKeeps ==
  ASSUME LoginInv, NEW a \in Attempts, Unreadable(a) \/ Right(a)
  PROVE  LoginInv'
<1>1. /\ failures' \in [Clients -> SUBSET Nat]
      /\ \A c \in Clients : failures'[c] = {} \/ failures'[c] = failures[c]
      /\ now' = now /\ now \in Nat
  BY DEF Unreadable, Right, LoginInv, TypeOK
<1>2. /\ \A c \in Clients : /\ IsFiniteSet(failures'[c])
                            /\ Cardinality(failures'[c]) \in Nat
                            /\ Cardinality(failures[c]) \in Nat
                            /\ Cardinality(failures'[c]) <= Cardinality(failures[c])
                            /\ \A at \in failures'[c] : at < now'
      /\ Cardinality(Tracked') <= MaxKeys
  BY <1>1, LessIsFine DEF LoginInv
<1>3. TypeOK'
  BY <1>1, <1>2 DEF Unreadable, Right, LoginInv, TypeOK
<1>4. ASSUME NEW c \in Clients \ overlapped'
      PROVE  OneByOne(c)' /\ ToldWhy(c)'
  <2>1. InFlight(c)' \subseteq InFlight(c) /\ told'[c] = told[c] /\ c \notin overlapped
    BY <1>4 DEF Unreadable, Right, InFlight, LoginInv, TypeOK
  <2>2. Cardinality({}) = 0
    BY FS_EmptySet
  <2>3. OneByOne(c) /\ ToldWhy(c)
    BY <2>1, <1>4 DEF LoginInv
  <2>4. OneByOne(c)'
    BY <1>2, <1>4, <2>1, <2>3 DEF OneByOne
  <2>5. ToldWhy(c)'
    BY <1>1, <1>2, <1>4, <2>1, <2>2, <2>3 DEF ToldWhy
  <2> QED BY <2>4, <2>5
<1> QED
  BY <1>3, <1>4 DEF LoginInv

\* An attempt fails: the caller is at its limit at most, another may be evicted.
LEMMA WrongKeeps ==
  ASSUME LoginInv, NEW a \in Attempts, Wrong(a)
  PROVE  LoginInv'
<1>0. PICK k \in Clients : attempt[a] = k
  BY DEF Wrong, LoginInv, TypeOK
<1>1. now \in Nat /\ now' = now + 1 /\ RecordFailure(k)
  BY <1>0 DEF Wrong, LoginInv, TypeOK
<1>2. /\ failures' \in [Clients -> SUBSET Nat]
      /\ failures'[k] \subseteq failures[k] \cup {now}
      /\ \A c \in Clients \ {k} : failures'[c] = {} \/ failures'[c] = failures[c]
      /\ Cardinality(Tracked') <= MaxKeys
  BY <1>1, OneMoreIsFine DEF LoginInv
<1>3. \A c \in Clients : /\ IsFiniteSet(failures[c])
                         /\ Cardinality(failures[c]) \in Nat
                         /\ \A at \in failures[c] : at < now
  BY FS_CardinalityType DEF LoginInv, TypeOK
<1>4. /\ IsFiniteSet(failures[k] \cup {now})
      /\ Cardinality(failures[k] \cup {now}) = Cardinality(failures[k]) + 1
  <2>1. IsFiniteSet(failures[k]) /\ now \notin failures[k]
    BY <1>1, <1>3
  <2> QED
    BY <2>1, FS_AddElement
<1>5. /\ IsFiniteSet(failures'[k])
      /\ Cardinality(failures'[k]) <= Cardinality(failures[k]) + 1
  BY <1>2, <1>4, FS_Subset
<1>6. Cardinality(failures'[k]) \in Nat
  BY <1>5, FS_CardinalityType
<1>7. ASSUME NEW c \in Clients
      PROVE  IsFiniteSet(failures'[c]) /\ \A at \in failures'[c] : at < now'
  <2>1. IsFiniteSet(failures[c]) /\ failures[c] \subseteq Nat /\ \A at \in failures[c] : at < now
    BY DEF LoginInv, TypeOK
  <2>2. CASE c = k
    BY <1>1, <1>2, <1>5, <2>1, <2>2
  <2>3. CASE c # k
    <3>1. failures'[c] \subseteq failures[c]
      BY <1>2, <2>3
    <3>2. IsFiniteSet(failures'[c])
      BY <2>1, <3>1, FS_Subset
    <3> QED
      BY <1>1, <2>1, <3>1, <3>2
  <2> QED
    BY <2>2, <2>3
<1>8. TypeOK'
  BY <1>1, <1>2, <1>7 DEF Wrong, LoginInv, TypeOK
<1>9. ASSUME NEW c \in Clients \ overlapped', c # k
      PROVE  OneByOne(c)' /\ ToldWhy(c)'
  <2>1. InFlight(c)' = InFlight(c) /\ told'[c] = told[c] /\ c \notin overlapped
    BY <1>0, <1>9 DEF Wrong, InFlight, LoginInv, TypeOK
  <2>2. Cardinality({}) = 0
    BY FS_EmptySet
  <2>3. failures'[c] = {} \/ failures'[c] = failures[c]
    BY <1>2, <1>9
  <2>4. OneByOne(c) /\ ToldWhy(c)
    BY <2>1 DEF LoginInv
  <2>5. CASE failures'[c] = failures[c]
    BY <2>1, <2>4, <2>5 DEF OneByOne, ToldWhy
  <2>6. CASE failures'[c] = {}
    <3>1. Cardinality(failures'[c]) = 0 /\ 0 < MaxAttempts /\ 0 <= MaxAttempts
      BY <2>2, <2>6
    <3> QED
      BY <2>1, <2>4, <3>1 DEF OneByOne, ToldWhy
  <2> QED
    BY <2>3, <2>5, <2>6
<1>10. ASSUME k \notin overlapped'
       PROVE  OneByOne(k)' /\ ToldWhy(k)'
  <2>1. a \in InFlight(k) /\ k \notin overlapped /\ told' = told
    BY <1>0, <1>10 DEF Wrong, InFlight
  <2>2. told[k] = None /\ Cardinality(failures[k]) < MaxAttempts /\ \A b \in InFlight(k) : b = a
    BY <1>1, <2>1 DEF LoginInv, OneByOne
  <2>3. InFlight(k)' = {b \in Attempts : attempt'[b] = k}
    BY DEF InFlight
  <2>4. \A b \in Attempts : attempt'[b] # k
    <3> SUFFICES ASSUME NEW b \in Attempts, attempt'[b] = k
                 PROVE  FALSE
      OBVIOUS
    <3>1. b # a /\ attempt[b] = k
      BY <1>0 DEF Wrong, LoginInv, TypeOK
    <3> QED
      BY <2>2, <3>1 DEF InFlight
  <2>5. Cardinality(failures[k]) \in Nat
    BY <1>1, <1>3
  <2>6. Cardinality(failures'[k]) <= MaxAttempts
    BY <1>5, <1>6, <2>2, <2>5
  <2>7. InFlight(k)' = {} /\ told'[k] = None
    BY <2>1, <2>2, <2>3, <2>4
  <2> QED
    BY <2>6, <2>7 DEF OneByOne, ToldWhy
<1> QED
  BY <1>8, <1>9, <1>10 DEF LoginInv

LEMMA RestartKeeps ==
  ASSUME LoginInv, Restart
  PROVE  LoginInv'
<1>1. /\ failures' \in [Clients -> SUBSET Nat]
      /\ \A c \in Clients : failures'[c] = {}
      /\ now' = now /\ now \in Nat
  BY DEF Restart, LoginInv, TypeOK
<1>2. /\ \A c \in Clients : /\ IsFiniteSet(failures'[c])
                            /\ \A at \in failures'[c] : at < now'
      /\ Cardinality(Tracked') <= MaxKeys
  BY <1>1, LessIsFine DEF LoginInv
<1>3. TypeOK'
  BY <1>1, <1>2 DEF Restart, LoginInv, TypeOK
<1>4. \A c \in Clients : InFlight(c)' = {} /\ told'[c] = None /\ Cardinality(failures'[c]) = 0
  BY <1>1, FS_EmptySet DEF Restart, InFlight
<1> QED
  BY <1>3, <1>4 DEF LoginInv, OneByOne, ToldWhy

LEMMA TickKeeps ==
  ASSUME LoginInv, Tick
  PROVE  LoginInv'
<1>1. Tracked' = Tracked /\ \A c \in Clients : InFlight(c)' = InFlight(c)
  BY DEF Tick, Tracked, InFlight
<1> QED
  BY <1>1 DEF Tick, LoginInv, TypeOK, OneByOne, ToldWhy

LEMMA StepKeepsLogin == LoginInv /\ [Next]_vars => LoginInv'
<1> SUFFICES ASSUME LoginInv, [Next]_vars PROVE LoginInv'
  OBVIOUS
<1>1. CASE UNCHANGED vars
  BY <1>1 DEF vars, LoginInv, TypeOK, OneByOne, ToldWhy, InFlight, Tracked
<1>2. CASE Next
  BY <1>2, LetInKeeps, RefuseKeeps, EndKeeps, WrongKeeps, RestartKeeps, TickKeeps DEF Next
<1> QED
  BY <1>1, <1>2

LEMMA LoginInvariant == Spec => []LoginInv
BY InitLogin, StepKeepsLogin, PTL DEF Spec

-------------------------------------------------------------------------------
(* The throttle: theorems *)

\* The map never holds more callers than it may, however the attempts overlap.
THEOREM LoginTypeOK == Spec => []TypeOK
<1>1. LoginInv => TypeOK
  BY DEF LoginInv
<1> QED
  BY <1>1, LoginInvariant, PTL

\* Whoever waits as long as it was told is let in, if its attempts never overlapped.
THEOREM LoginRetryAfterHonest == Spec => []RetryAfterHonest
<1>1. LoginInv => RetryAfterHonest
  <2> SUFFICES ASSUME LoginInv, NEW k \in Clients \ overlapped, told[k] # None, told[k] <= now
               PROVE  Cardinality(prune(k)[k]) < MaxAttempts
    BY DEF RetryAfterHonest
  <2>1. /\ prune(k)[k] = Recent(k)
        /\ Recent(k) \subseteq failures[k]
        /\ IsFiniteSet(failures[k])
    BY DEF prune, Recent, LoginInv, TypeOK
  <2>2. /\ Cardinality(Recent(k)) \in Nat /\ Cardinality(failures[k]) \in Nat
        /\ Cardinality(Recent(k)) <= Cardinality(failures[k])
        /\ Cardinality(failures[k]) = Cardinality(Recent(k)) => failures[k] = Recent(k)
    BY <2>1, FS_Subset, FS_CardinalityType
  <2>3. CASE Cardinality(failures[k]) < MaxAttempts
    BY <2>1, <2>2, <2>3
  <2>4. CASE \E first \in failures[k] : first + AttemptWindow <= told[k]
    <3>1. failures[k] # Recent(k)
      BY <2>4 DEF Recent, Live, LoginInv, TypeOK
    <3>2. Cardinality(failures[k]) <= MaxAttempts
      BY DEF LoginInv, OneByOne
    <3> QED
      BY <2>1, <2>2, <3>1, <3>2
  <2> QED
    BY <2>3, <2>4 DEF LoginInv, ToldWhy
<1> QED
  BY <1>1, LoginInvariant, PTL

\* What is evicted while it still counts had no entry in the map that did not.
THEOREM LoginLiveFailuresKept == Spec => LiveFailuresKept
<1> DEFINE Kept ==
      \A k, other \in Clients :
        /\ k # other
        /\ now \in failures'[other]
        /\ \E at \in failures[k] \ failures'[k] : Live(at)
        => \A c \in Tracked : Recent(c) # {}
<1>1. ASSUME LoginInv, [Next]_vars PROVE [Kept]_vars
  <2> SUFFICES ASSUME Next, NEW k \in Clients, NEW other \in Clients,
                      k # other, now \in failures'[other],
                      NEW at \in failures[k] \ failures'[k], Live(at),
                      NEW c \in Tracked
               PROVE  Recent(c) # {}
    BY <1>1
  <2> USE <1>1
  <2>1. now \notin failures[other] /\ failures \in [Clients -> SUBSET Nat] /\ now \in Nat
    BY DEF LoginInv, TypeOK
  <2>2. PICK a \in Attempts : Wrong(a)
    BY <2>1 DEF Next, LetIn, Refuse, Unreadable, Right, Tick, Restart, prune, Recent
  <2> DEFINE me == attempt[a]
             kept == prune(me)
             tracked == {d \in Clients : kept[d] # {}}
  <2>3. me \in Clients /\ RecordFailure(me)
    BY <2>2 DEF Wrong, LoginInv, TypeOK
  <2>4. /\ kept[me] = Recent(me) /\ \A d \in Clients \ {me} : kept[d] = failures[d]
        /\ kept \in [Clients -> SUBSET Nat]
    BY <2>1, <2>3 DEF prune, Recent
  <2>5. CASE me \notin tracked /\ Cardinality(tracked) >= MaxKeys
    <3>1. PICK victim \in tracked :
            /\ Oldest(victim, tracked)
            /\ failures' = [kept EXCEPT ![me] = {now}, ![victim] = {}]
      BY <2>3, <2>5 DEF RecordFailure
    <3>2. victim = k /\ other = me
      BY <2>1, <2>3, <2>4, <2>5, <3>1 DEF Recent
    <3>3. CASE c = me
      <4>1. tracked \subseteq Tracked \ {me} /\ me \in Tracked
        BY <2>4, <2>5, <3>3 DEF Tracked
      <4>2. IsFiniteSet(Tracked) /\ Cardinality(Tracked) <= MaxKeys /\ Cardinality(Tracked) \in Nat
        BY FS_Subset, FS_CardinalityType DEF Tracked, LoginInv, TypeOK
      <4>3. /\ IsFiniteSet(Tracked \ {me})
            /\ Cardinality(Tracked \ {me}) = Cardinality(Tracked) - 1
        BY <4>1, <4>2, FS_RemoveElement
      <4>4. Cardinality(tracked) <= Cardinality(Tracked \ {me}) /\ IsFiniteSet(tracked)
        BY <4>1, <4>3, FS_Subset
      <4>5. Cardinality(tracked) \in Nat
        BY <4>4, FS_CardinalityType
      <4> HIDE DEF tracked
      <4> QED
        BY <2>5, <4>2, <4>3, <4>4, <4>5
    <3>4. CASE c # me
      <4>1. c \in tracked
        BY <2>4, <3>4 DEF Tracked
      <4>2. PICK last \in failures[c] : at <= last
        BY <3>1, <3>2, <4>1 DEF Oldest
      <4> QED
        BY <2>1, <3>4, <4>2 DEF Recent, Live, Tracked
    <3> QED
      BY <3>3, <3>4
  <2>6. CASE ~(me \notin tracked /\ Cardinality(tracked) >= MaxKeys)
    <3>1. failures' = [kept EXCEPT ![me] = kept[me] \cup {now}]
      BY <2>3, <2>6 DEF RecordFailure
    <3> QED
      BY <2>1, <2>3, <2>4, <3>1
  <2> QED
    BY <2>5, <2>6
<1>2. Spec => [][Kept]_vars
  BY <1>1, LoginInvariant, PTL DEF Spec
<1> QED
  BY <1>2 DEF LiveFailuresKept
===============================================================================
