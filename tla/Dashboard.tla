------------------------------- MODULE Dashboard -------------------------------
(***************************************************************************)
(* One open dashboard: the socket useMonitorEvents keeps, the queries it   *)
(* invalidates, the session under it, and the server that is restarted.    *)
(*                                                                         *)
(* A resource is a version number. The server's side of a subscription is  *)
(* the change signal that EventBus implements: the set of what was         *)
(* published since it was made and was not handed over yet. A socket is    *)
(* accepted before it is subscribed, a write is made before it is          *)
(* published, and a server that stops refuses requests before it drops the *)
(* sockets. TanStack Query is modelled from how the hooks use it.          *)
(***************************************************************************)
EXTENDS Integers, FiniteSetsExt

CONSTANTS
  Resources,     \* what is watched
  Public,        \* of that, what is answered without a session too
  MaxChanges,    \* bound: versions of a resource
  MaxTroubles,   \* bound: lost connections and requests, failed handlers, stops, expiries, refreshes
  MaxSockets     \* bound: sockets and status requests at once

ASSUME DashboardAssumption ==
  /\ Public \subseteq Resources
  /\ MaxChanges \in Nat
  /\ MaxTroubles \in Nat
  /\ MaxSockets \in Nat \ {0}

VARIABLES
  up, alive,            \* the server takes requests, and its process runs
  version, valid,       \* its tables, and whether the cookie is a session
  written,              \* what was written and is still to be published
  mounted,              \* the pages behind the guard are shown
  sockets,              \* every socket the browser has for this page
  subscribed,           \* those the bus knows
  pending,              \* what it has yet to hand to each
  socket,               \* the one the hook knows
  status,               \* how many status requests are under way
  retry,                \* the reconnect timer is set
  everOpened, connection,
  data,                 \* the version each query shows
  fetch,                \* and its request
  loaded,               \* the queries answered since the page was mounted
  owed,                 \* what changed since it was loaded and the socket had opened
  missed,               \* of that, what nothing will bring: see Publish, Unannounced, FetchFails
  troubles

server == <<up, alive, version, valid, written>>
wire == <<sockets, subscribed, pending>>
hook == <<mounted, socket, status, retry, everOpened, connection>>
queries == <<data, fetch, loaded>>
promise == <<owed, missed>>
pageVars == <<server, wire, hook, queries, promise, troubles>>

Slots == 1..MaxSockets
Null == 0       \* no socket
Idle == -2      \* no request
Sent == -1      \* a request not yet served, or nothing to show yet

Chains ==
  Cardinality({s \in Slots : sockets[s] # "none"}) + status + (IF retry THEN 1 ELSE 0)

Trouble ==
  /\ troubles < MaxTroubles
  /\ troubles' = troubles + 1

\* A server that is up loses a request, a connection or its process by accident only.
ByAccident == IF up THEN Trouble ELSE UNCHANGED troubles

-------------------------------------------------------------------------------
(* The queries *)

\* Invalidated queries are fetched again, but the request of one that has nothing to
\* show yet is not cancelled for it.
invalidate(resources) ==
  fetch' = [r \in Resources |->
              IF r \in resources /\ (fetch[r] = Idle \/ data[r] >= 0) THEN Sent ELSE fetch[r]]

\* The Refresh button, or a mutation that succeeded.
Refresh ==
  /\ mounted
  /\ Trouble
  /\ \E resources \in SUBSET Resources : resources # {} /\ invalidate(resources)
  /\ UNCHANGED <<server, wire, hook, data, loaded, promise>>

\* A tab that gets the focus asks for what is not being fetched.
Focus ==
  /\ mounted
  /\ \E r \in Resources : fetch[r] = Idle
  /\ fetch' = [r \in Resources |-> IF fetch[r] = Idle THEN Sent ELSE fetch[r]]
  /\ UNCHANGED <<server, wire, hook, data, loaded, promise, troubles>>

\* The server reads its tables, and the answer is on its way. One that stops still
\* answers what it has received. What had been missed is part of what is read.
Serve(r) ==
  /\ mounted
  /\ fetch[r] = Sent
  /\ alive
  /\ valid \/ r \in Public
  /\ fetch' = [fetch EXCEPT ![r] = version[r]]
  /\ missed' = missed \ {r}
  /\ UNCHANGED <<server, wire, hook, data, loaded, owed, troubles>>

Answer(r) ==
  /\ mounted
  /\ fetch[r] >= 0
  /\ data' = [data EXCEPT ![r] = fetch[r]]
  /\ fetch' = [fetch EXCEPT ![r] = Idle]
  /\ loaded' = loaded \cup {r}
  /\ UNCHANGED <<server, wire, hook, promise, troubles>>

\* A request and its one retry are refused, lost, or answered with an error: the query
\* keeps what it shows. The server that refused it will have dropped the socket, and the
\* next one asks again; one that is up leaves nothing to ask again for.
FetchFails(r) ==
  /\ mounted
  /\ fetch[r] # Idle
  /\ ByAccident
  /\ fetch' = [fetch EXCEPT ![r] = Idle]
  /\ missed' = IF up THEN missed \cup ({r} \cap owed) ELSE missed
  /\ UNCHANGED <<server, wire, hook, data, loaded, owed>>

-------------------------------------------------------------------------------
(* The session *)

\* The pages are unmounted and take their hook with them.
notifyUnauthorized ==
  /\ mounted' = FALSE
  /\ sockets' = [s \in Slots |-> "none"]
  /\ subscribed' = {}
  /\ pending' = [s \in Slots |-> {}]
  /\ socket' = Null
  /\ status' = 0
  /\ retry' = FALSE
  /\ everOpened' = FALSE
  /\ connection' = "connecting"
  /\ fetch' = [r \in Resources |-> Idle]
  /\ loaded' = {}
  /\ owed' = {}
  /\ missed' = {}
  /\ UNCHANGED <<server, data, troubles>>

Unauthorized(r) ==
  /\ mounted
  /\ fetch[r] = Sent
  /\ alive
  /\ ~valid
  /\ r \notin Public
  /\ notifyUnauthorized

\* What is cached is shown until it is fetched again, for which every page asks.
SignIn ==
  /\ ~mounted
  /\ alive
  /\ valid' = TRUE
  /\ mounted' = TRUE
  /\ sockets' = [sockets EXCEPT ![1] = "connecting"]
  /\ socket' = 1
  /\ fetch' = [r \in Resources |-> Sent]
  /\ UNCHANGED <<up, alive, version, written, subscribed, pending, status, retry, everOpened, connection, data, loaded,
                 promise, troubles>>

Expire ==
  /\ valid
  /\ Trouble
  /\ valid' = FALSE
  /\ UNCHANGED <<up, alive, version, written, wire, hook, queries, promise>>

-------------------------------------------------------------------------------
(* The socket *)

\* A hook that connects forgets the socket it knew, if it still had one.
connect ==
  LET s == Min({t \in Slots : sockets[t] = "none"})
  IN /\ sockets' = [sockets EXCEPT ![s] = "connecting"]
     /\ socket' = s

\* The handshake is answered, which lets the browser open the socket at once; or it is
\* refused, or lost.
Accept(s) ==
  /\ sockets[s] = "connecting"
  /\ \/ /\ alive /\ valid
        /\ sockets' = [sockets EXCEPT ![s] = "accepted"]
        /\ UNCHANGED troubles
     \/ /\ sockets' = [sockets EXCEPT ![s] = "closing"]
        /\ IF valid THEN ByAccident ELSE UNCHANGED troubles
  /\ UNCHANGED <<server, subscribed, pending, hook, queries, promise>>

\* Only then is it subscribed, and told of what is published from here on.
Subscribe(s) ==
  /\ alive
  /\ sockets[s] \in {"accepted", "open"}
  /\ s \notin subscribed
  /\ subscribed' = subscribed \cup {s}
  /\ UNCHANGED <<server, sockets, pending, hook, queries, promise, troubles>>

\* Mutant: a reconnect owes no resync.
OnOpenQuietly(s) ==
  /\ sockets[s] \in {"accepted", "gone"}
  /\ sockets' = [sockets EXCEPT ![s] = IF @ = "gone" THEN "closing" ELSE "open"]
  /\ everOpened' = TRUE
  /\ connection' = "open"
  /\ UNCHANGED <<server, subscribed, pending, mounted, socket, status, retry, queries, promise, troubles>>

\* Only a reconnect owes a resync. The browser reports a socket that was accepted and
\* lost as opened first.
onopen(s) ==
  /\ sockets[s] \in {"accepted", "gone"}
  /\ sockets' = [sockets EXCEPT ![s] = IF @ = "gone" THEN "closing" ELSE "open"]
  /\ everOpened' = TRUE
  /\ connection' = "open"
  /\ IF everOpened THEN invalidate(Resources) ELSE UNCHANGED fetch
  /\ UNCHANGED <<server, subscribed, pending, mounted, socket, status, retry, data, loaded, promise, troubles>>

onmessage(s) ==
  /\ sockets[s] = "open"
  /\ pending[s] # {}
  /\ invalidate(pending[s])
  /\ pending' = [pending EXCEPT ![s] = {}]
  /\ UNCHANGED <<server, sockets, subscribed, hook, data, loaded, promise, troubles>>

\* Mutant: a socket that closes is opened again without asking why.
OnCloseBlindly(s) ==
  /\ sockets[s] = "closing"
  /\ sockets' = [sockets EXCEPT ![s] = "none"]
  /\ socket' = Null
  /\ connection' = "reconnecting"
  /\ retry' = TRUE
  /\ UNCHANGED <<server, subscribed, pending, mounted, status, everOpened, queries, promise, troubles>>

\* Whichever socket closes, the hook knows none.
onclose(s) ==
  /\ sockets[s] = "closing"
  /\ sockets' = [sockets EXCEPT ![s] = "none"]
  /\ socket' = Null
  /\ connection' = "reconnecting"
  /\ status' = status + 1
  /\ UNCHANGED <<server, subscribed, pending, mounted, retry, everOpened, queries, promise, troubles>>

scheduleReconnect ==
  /\ status' = status - 1
  /\ retry' = TRUE
  /\ UNCHANGED <<server, wire, mounted, socket, everOpened, connection, queries, promise>>

\* Mutant: a server that cannot be asked is not tried again.
StatusOrNothing ==
  /\ status > 0
  /\ \/ alive /\ ~valid /\ notifyUnauthorized
     \/ alive /\ valid /\ scheduleReconnect /\ UNCHANGED troubles
     \/ /\ ByAccident
        /\ status' = status - 1
        /\ UNCHANGED <<server, wire, mounted, socket, retry, everOpened, connection, queries,
                       promise>>

\* Only an expired session is worth interrupting the user over. A server that cannot be
\* asked, or whose answer is lost, is tried again.
fetchStatus ==
  /\ status > 0
  /\ \/ alive /\ ~valid /\ notifyUnauthorized
     \/ alive /\ valid /\ scheduleReconnect /\ UNCHANGED troubles
     \/ scheduleReconnect /\ ByAccident

Retry ==
  /\ retry
  /\ retry' = FALSE
  /\ connect
  /\ UNCHANGED <<server, subscribed, pending, mounted, status, everOpened, connection, queries, promise,
                 troubles>>

\* A tab that is looked at again does not wait its retry out. It may have no timer to
\* clear yet: then the status request still under way sets another one later.
reconnectNow ==
  /\ mounted
  /\ socket = Null
  /\ retry \/ Chains < MaxSockets
  /\ retry' = FALSE
  /\ connect
  /\ UNCHANGED <<server, subscribed, pending, mounted, status, everOpened, connection, queries, promise,
                 troubles>>

-------------------------------------------------------------------------------
(* The server *)

Lost(s) ==
  CASE sockets[s] = "open" -> "closing"
    [] sockets[s] = "accepted" -> "gone"
    [] OTHER -> sockets[s]

Owed(resources) ==
  IF mounted /\ everOpened THEN owed \cup (resources \cap loaded) ELSE owed

\* A handler or a run writes: also one that a server that stops waits for.
Write(r) ==
  /\ alive
  /\ version[r] < MaxChanges
  /\ version' = [version EXCEPT ![r] = @ + 1]
  /\ written' = written \cup {r}
  /\ owed' = Owed({r})
  /\ UNCHANGED <<up, alive, valid, wire, hook, queries, missed, troubles>>

\* A socket is open and none that is open is subscribed yet.
TooEarly ==
  /\ \E s \in Slots : sockets[s] = "open"
  /\ \A s \in subscribed : sockets[s] # "open"

\* And publishes, to whom the bus knows. A page whose socket opened too early is not told,
\* and the resync of that socket, if it owed one, was asked for when it opened.
Publish(r) ==
  /\ r \in written
  /\ written' = written \ {r}
  /\ pending' = [s \in Slots |-> IF s \in subscribed THEN pending[s] \cup {r} ELSE pending[s]]
  /\ missed' = IF TooEarly THEN missed \cup ({r} \cap owed) ELSE missed
  /\ UNCHANGED <<up, alive, version, valid, sockets, subscribed, hook, queries, owed, troubles>>

\* A handler fails between its writes and never publishes, or publishes less than it wrote.
Unannounced(r) ==
  /\ r \in written
  /\ Trouble
  /\ written' = written \ {r}
  /\ missed' = missed \cup ({r} \cap owed)
  /\ UNCHANGED <<up, alive, version, valid, wire, hook, queries, owed>>

Drop(s) ==
  /\ Lost(s) # sockets[s]
  /\ Trouble
  /\ sockets' = [sockets EXCEPT ![s] = Lost(s)]
  /\ subscribed' = subscribed \ {s}
  /\ pending' = [pending EXCEPT ![s] = {}]
  /\ UNCHANGED <<server, hook, queries, promise>>

\* Requests are refused from here on. The sockets stay open, for the runs in flight.
Stop ==
  /\ up
  /\ Trouble
  /\ up' = FALSE
  /\ UNCHANGED <<alive, version, valid, written, wire, hook, queries, promise>>

\* The process ends, and every connection with it.
Exit ==
  /\ alive
  /\ ByAccident
  /\ up' = FALSE
  /\ alive' = FALSE
  /\ written' = {}
  /\ sockets' = [s \in Slots |-> Lost(s)]
  /\ subscribed' = {}
  /\ pending' = [s \in Slots |-> {}]
  /\ UNCHANGED <<version, valid, hook, queries, promise>>

\* A boot sweeps the rows the last one left behind, with nobody to tell.
Boot ==
  /\ ~alive
  /\ up' = TRUE
  /\ alive' = TRUE
  /\ \E swept \in SUBSET {r \in Resources : version[r] < MaxChanges} :
       /\ version' = [r \in Resources |-> IF r \in swept THEN version[r] + 1 ELSE version[r]]
       /\ owed' = Owed(swept)
  /\ UNCHANGED <<valid, written, wire, hook, queries, missed, troubles>>

-------------------------------------------------------------------------------
PageInit ==
  /\ up = TRUE
  /\ alive = TRUE
  /\ version = [r \in Resources |-> 0]
  /\ valid = TRUE
  /\ written = {}
  /\ mounted = TRUE
  /\ sockets = [s \in Slots |-> IF s = 1 THEN "connecting" ELSE "none"]
  /\ subscribed = {}
  /\ pending = [s \in Slots |-> {}]
  /\ socket = 1
  /\ status = 0
  /\ retry = FALSE
  /\ everOpened = FALSE
  /\ connection = "connecting"
  /\ data = [r \in Resources |-> Sent]
  /\ fetch = [r \in Resources |-> Sent]
  /\ loaded = {}
  /\ owed = {}
  /\ missed = {}
  /\ troubles = 0

SocketStep(s) == Accept(s) \/ onopen(s) \/ onmessage(s) \/ onclose(s)
QueryStep(r) == Serve(r) \/ Answer(r) \/ FetchFails(r) \/ Unauthorized(r)
WriterStep(r) == Publish(r) \/ Unannounced(r)

PageNext ==
  \/ \E s \in Slots : SocketStep(s) \/ Subscribe(s) \/ Drop(s)
  \/ \E r \in Resources : QueryStep(r) \/ Write(r) \/ WriterStep(r)
  \/ fetchStatus
  \/ Retry
  \/ reconnectNow
  \/ Refresh
  \/ Focus
  \/ SignIn
  \/ Expire
  \/ Stop
  \/ Exit
  \/ Boot

\* The browser runs what is due and notices a lost connection, requests are answered or
\* fail, a handler goes on to its end, runs in flight end, and the container is restarted.
\* Nobody has to look at the tab, refresh it or sign in again.
Fairness ==
  /\ \A s \in Slots : WF_pageVars(SocketStep(s)) /\ WF_pageVars(Subscribe(s))
  /\ \A r \in Resources : WF_pageVars(QueryStep(r)) /\ WF_pageVars(WriterStep(r))
  /\ WF_pageVars(fetchStatus)
  /\ WF_pageVars(Retry)
  /\ WF_pageVars(~up /\ Exit)
  /\ WF_pageVars(Boot)

PageSpec == PageInit /\ [][PageNext]_pageVars /\ Fairness

-------------------------------------------------------------------------------
(* Properties *)

SocketStages == {"none", "connecting", "accepted", "gone", "open", "closing"}

\* Something is under way that ends in an attempt to connect, or in the login page.
Resuming ==
  \/ \E s \in Slots : sockets[s] \in {"connecting", "accepted", "gone", "closing"}
  \/ status > 0
  \/ retry

\* What is owed and not shown was asked for after it changed, or will be: it is still to
\* be published, a socket that is open is to be told, or the next one resyncs, as it does
\* after a stop. Else it was missed: published to a socket that was open before it was
\* subscribed, never published, or lost by a request that failed with the server up.
NothingForgotten ==
  mounted =>
    \A r \in owed \ missed :
      \/ data[r] = version[r]
      \/ fetch[r] \in {Sent, version[r]}
      \/ r \in written
      \/ \E s \in subscribed : sockets[s] = "open" /\ r \in pending[s]
      \/ Resuming \/ ~up

\* A dashboard is never cut off for good: while its notice says it is not connected
\* something is under way that will try again, while it says nothing there is a
\* socket it was told of last, and a change is lost in the ways that are named only.
NeverStuck ==
  /\ sockets \in [Slots -> SocketStages]
  /\ socket \in Slots \cup {Null}
  /\ socket # Null => sockets[socket] # "none"
  /\ Chains <= MaxSockets
  /\ mounted /\ connection # "open" => Resuming
  /\ mounted /\ connection = "open" => \E s \in Slots : sockets[s] \in {"open", "closing"}
  /\ NothingForgotten

\* Whatever changes once a query was answered and the socket had opened is shown in the
\* end, or missed in one of those ways, or the user is asked to sign in: through stops
\* of the server with sockets open, crashes, connections lost at any point, sockets in
\* excess, and changes that a boot makes.
EventuallyShown ==
  \A r \in Resources :
    mounted /\ r \in owed \ missed ~> ~mounted \/ r \in missed \/ data[r] = version[r]

\* What the page cannot promise: a change that is published reaches every page whose socket
\* is open. It does not before the socket is subscribed (MCDashboardWindow.cfg).
NothingMissed == missed = {}

\* An expired session that costs the socket ends at the login page, not in attempts to
\* reconnect for ever.
ExpiredSignsOut ==
  mounted /\ ~valid /\ connection # "open" ~> ~mounted \/ connection = "open"
===============================================================================
