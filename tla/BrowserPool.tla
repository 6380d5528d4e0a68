------------------------------- MODULE BrowserPool -------------------------------
(***************************************************************************)
(* browser.Pool: one mutex through which every run, dry run and probe      *)
(* passes, and a deadline raced against the body in a goroutine that may   *)
(* outlive the answer.                                                     *)
(*                                                                         *)
(* An operation is one call of WithPage, WithoutPage or CheckReachable. It *)
(* has two goroutines: the caller, which locks, races and cleans up, and   *)
(* the body, which dials the browser and works. A step is one call across  *)
(* a goroutine, the CDP library or the mutex.                              *)
(***************************************************************************)
EXTENDS Naturals

CONSTANTS
  Ops,    \* operations, each called once
  Nobody  \* owner of the free mutex

ASSUME PoolAssumption == Nobody \notin Ops

VARIABLES
  mutex,    \* Pool.mu: its holder
  caller,   \* where the calling goroutine is
  kind,     \* which of the three operations it calls
  expired,  \* is the operation's context done
  answer,   \* what the caller returns
  body,     \* where the goroutine of withDeadline is
  result,   \* what the body is going to send, or has sent, on done
  socket,   \* the websocket the body dialled
  stored,   \* is it in the operation's connection, where conn.close finds it
  inTime    \* history: did the body send before the context was done

callerVars == <<mutex, caller, kind, answer>>
bodyVars == <<body, result, inTime>>
socketVars == <<socket, stored>>
vars == <<callerVars, expired, bodyVars, socketVars>>

Kinds == {"page", "plain", "probe"}  \* WithPage, WithoutPage, CheckReachable
Holding == {"racing", "late", "closing", "unlocking"}

\* What a body is doing on a browser it has a session with.
AtPage == {"opening", "asking", "working", "tearing"}

-------------------------------------------------------------------------------
(* The caller *)

Call(o) ==
  /\ caller[o] = "idle"
  /\ caller' = [caller EXCEPT ![o] = "waiting"]
  /\ \E k \in Kinds : kind' = [kind EXCEPT ![o] = k]
  /\ UNCHANGED <<mutex, answer, expired, bodyVars, socketVars>>

\* The deadline starts with the lock, not with the call.
Lock(o) ==
  /\ caller[o] = "waiting"
  /\ mutex = Nobody
  /\ mutex' = o
  /\ caller' = [caller EXCEPT ![o] = "racing"]
  /\ body' = [body EXCEPT ![o] = IF kind[o] = "plain" THEN "working" ELSE "dialling"]
  /\ UNCHANGED <<kind, answer, expired, result, inTime, socketVars>>

\* The context's timer, which nobody can hold up.
Deadline(o) ==
  /\ caller[o] = "racing"
  /\ ~expired[o]
  /\ expired' = [expired EXCEPT ![o] = TRUE]
  /\ UNCHANGED <<callerVars, bodyVars, socketVars>>

Sent(o) == body[o] = "ended"

Reply(o, value) ==
  /\ answer' = [answer EXCEPT ![o] = value]
  /\ caller' = [caller EXCEPT ![o] = "closing"]
  /\ UNCHANGED <<mutex, kind, expired, bodyVars, socketVars>>

\* select picks at random when the body has answered and the context is done.
Receive(o) == caller[o] = "racing" /\ Sent(o) /\ Reply(o, result[o])

TakeDeadline(o) ==
  /\ caller[o] = "racing"
  /\ expired[o]
  /\ caller' = [caller EXCEPT ![o] = "late"]
  /\ UNCHANGED <<mutex, kind, answer, expired, bodyVars, socketVars>>

\* Mutants: the second look at done is left out, waits for the body, or believes it.
GiveUp(o) == caller[o] = "late" /\ Reply(o, "timeout")
AwaitBody(o) == caller[o] = "late" /\ Sent(o) /\ Reply(o, result[o])
BelieveBody(o) == caller[o] = "late" /\ Reply(o, result[o])

\* A result that landed in the same instant is a real result.
Recheck(o) ==
  /\ caller[o] = "late"
  /\ Reply(o, IF Sent(o) THEN result[o] ELSE "timeout")

Cleanup(o) ==
  /\ caller[o] = "closing"
  /\ caller' = [caller EXCEPT ![o] = "unlocking"]
  /\ expired' = [expired EXCEPT ![o] = TRUE]
  /\ UNCHANGED <<mutex, kind, answer, bodyVars>>

\* Mutant: the disconnect is left to the body.
CloseOnlyIfSent(o) ==
  /\ Cleanup(o)
  /\ socket' = IF stored[o] /\ Sent(o) THEN [socket EXCEPT ![o] = "closed"] ELSE socket
  /\ stored' = [stored EXCEPT ![o] = FALSE]

\* The deferred conn.close, then cancel. A socket the body has yet to store is missed.
Close(o) ==
  /\ Cleanup(o)
  /\ socket' = IF stored[o] THEN [socket EXCEPT ![o] = "closed"] ELSE socket
  /\ stored' = [stored EXCEPT ![o] = FALSE]

Unlock(o) ==
  /\ caller[o] = "unlocking"
  /\ mutex' = Nobody
  /\ caller' = [caller EXCEPT ![o] = "returned"]
  /\ UNCHANGED <<kind, answer, expired, bodyVars, socketVars>>

-------------------------------------------------------------------------------
(* The body: any call may fail, or never come back *)

Goto(o, stage) == body' = [body EXCEPT ![o] = stage]
Outcome(o, value) == result' = [result EXCEPT ![o] = value]
Go(o, stage) == Goto(o, stage) /\ UNCHANGED result
Fail(o) == Goto(o, "sending") /\ Outcome(o, "err")

\* A CDP call is answered only over an open socket and within its context.
Live(o) == socket[o] = "open" /\ ~expired[o]

\* ws.Connect, of an address that may first have to be resolved.
Dial(o) ==
  /\ body[o] = "dialling"
  /\ \/ ~expired[o] /\ socket' = [socket EXCEPT ![o] = "open"] /\ Go(o, "storing")
     \/ Fail(o) /\ UNCHANGED socket
  /\ UNCHANGED <<callerVars, expired, inTime, stored>>

\* conn.set
Store(o) ==
  /\ body[o] = "storing"
  /\ stored' = [stored EXCEPT ![o] = TRUE]
  /\ Go(o, "starting")
  /\ UNCHANGED <<callerVars, expired, inTime, socket>>

\* browser.Connect
StartSession(o) ==
  /\ body[o] = "starting"
  /\ \/ Live(o) /\ Go(o, IF kind[o] = "probe" THEN "asking" ELSE "opening")
     \/ Fail(o)
  /\ UNCHANGED <<callerVars, expired, inTime, socketVars>>

\* Not knowing the version is no failure.
AskVersion(o) ==
  /\ body[o] = "asking"
  /\ Goto(o, "sending")
  /\ Outcome(o, "ok")
  /\ UNCHANGED <<callerVars, expired, inTime, socketVars>>

\* Incognito, which may be missing, and the page.
OpenPage(o) ==
  /\ body[o] = "opening"
  /\ \/ Live(o) /\ Go(o, "working")
     \/ Fail(o)
  /\ UNCHANGED <<callerVars, expired, inTime, socketVars>>

\* The function handed in: with what it has read it may still succeed past the deadline.
Work(o) ==
  /\ body[o] = "working"
  /\ \E value \in {"ok", "err"} : Outcome(o, value)
  /\ Goto(o, IF kind[o] = "page" THEN "tearing" ELSE "sending")
  /\ UNCHANGED <<callerVars, expired, inTime, socketVars>>

\* Best effort: its failure changes no result.
Teardown(o) ==
  /\ body[o] = "tearing"
  /\ Go(o, "sending")
  /\ UNCHANGED <<callerVars, expired, inTime, socketVars>>

\* done has room for one value, so nobody need be listening.
Send(o) ==
  /\ body[o] = "sending"
  /\ Go(o, "ended")
  /\ inTime' = [inTime EXCEPT ![o] = ~expired[o]]
  /\ UNCHANGED <<callerVars, expired, socketVars>>

-------------------------------------------------------------------------------
(* The specification *)

CallerStep(o) == Receive(o) \/ TakeDeadline(o) \/ Recheck(o) \/ Close(o) \/ Unlock(o)

BodyStep(o) ==
  \/ Dial(o)
  \/ Store(o)
  \/ StartSession(o)
  \/ AskVersion(o)
  \/ OpenPage(o)
  \/ Work(o)
  \/ Teardown(o)
  \/ Send(o)

Init ==
  /\ mutex = Nobody
  /\ caller = [o \in Ops |-> "idle"]
  /\ kind = [o \in Ops |-> "plain"]
  /\ expired = [o \in Ops |-> FALSE]
  /\ answer = [o \in Ops |-> "none"]
  /\ body = [o \in Ops |-> "none"]
  /\ result = [o \in Ops |-> "none"]
  /\ socket = [o \in Ops |-> "none"]
  /\ stored = [o \in Ops |-> FALSE]
  /\ inTime = [o \in Ops |-> FALSE]

Next == \E o \in Ops : Call(o) \/ Lock(o) \/ Deadline(o) \/ CallerStep(o) \/ BodyStep(o)

Spec == Init /\ [][Next]_vars

\* Callers run and timers fire; a waiter of a Go mutex is not passed over forever. Of
\* the bodies, and of the browser behind them, nothing is assumed.
FairSpec ==
  /\ Spec
  /\ \A o \in Ops :
       SF_vars(Lock(o)) /\ WF_vars(Deadline(o)) /\ WF_vars(CallerStep(o))

-------------------------------------------------------------------------------
(* Properties *)

\* Goroutines, sockets and results keep their types, and nobody cleans up without an answer.
TypeOK ==
  /\ mutex \in Ops \cup {Nobody}
  /\ caller \in [Ops -> {"idle", "waiting", "returned"} \cup Holding]
  /\ kind \in [Ops -> Kinds]
  /\ expired \in [Ops -> BOOLEAN]
  /\ answer \in [Ops -> {"none", "ok", "err", "timeout"}]
  /\ body \in [Ops -> {"none", "dialling", "storing", "starting", "sending", "ended"} \cup AtPage]
  /\ result \in [Ops -> {"none", "ok", "err"}]
  /\ socket \in [Ops -> {"none", "open", "closed"}]
  /\ stored \in [Ops -> BOOLEAN]
  /\ inTime \in [Ops -> BOOLEAN]
  /\ \A o \in Ops : answer[o] = "none" <=> caller[o] \in {"idle", "waiting", "racing", "late"}

\* No two bodies ever work on the browser at once, those that outlived their deadline
\* included: the mutex goes to the next operation only with the socket closed under the
\* body, and a body past its deadline starts nothing.
AtWork(o) == body[o] \in AtPage /\ socket[o] = "open"
OneAtWork == \A o, p \in Ops : AtWork(o) /\ AtWork(p) => o = p

\* A body that finished before its deadline has its result returned, however the select
\* chose; one that did not may be answered for by the timeout, never by something else.
RealResultWins ==
  \A o \in Ops : answer[o] # "none" =>
    /\ inTime[o] => answer[o] = result[o]
    /\ answer[o] # "timeout" => Sent(o) /\ answer[o] = result[o]

\* Every call returns, although a body may hang forever on a browser that answers nothing.
EveryCallReturns ==
  \A o \in Ops : caller[o] = "waiting" ~> caller[o] = "returned"

\* "Leaving the socket open would let the next run pile a second session onto a browser
\* that serves one at a time": one socket is open at a time.
OneSocket ==
  \A o, p \in Ops : socket[o] = "open" /\ socket[p] = "open" => o = p
===============================================================================
