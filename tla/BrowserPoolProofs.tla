--------------------------- MODULE BrowserPoolProofs ---------------------------
(***************************************************************************)
(* What TLAPS proves of BrowserPool for any number of operations: bodies   *)
(* that outlive their deadline never share the browser with the next, and  *)
(* no result that was in time is lost to the timeout.                      *)
(***************************************************************************)
EXTENDS BrowserPool, TLAPS

USE PoolAssumption

-------------------------------------------------------------------------------
(* The inductive invariant *)

\* The mutex names the one caller between its lock and its unlock.
MutexHeld == \A o \in Ops : mutex = o <=> caller[o] \in Holding

\* A socket is there once it was dialled, and until the cleanup the connection knows it
\* unless the body is just about to store it.
SocketKnown ==
  \A o \in Ops :
    /\ caller[o] \in {"idle", "waiting"} => body[o] = "none"
    /\ body[o] \in {"none", "dialling"} => socket[o] = "none" /\ ~stored[o]
    /\ caller[o] \in {"racing", "late", "closing"} /\ socket[o] = "open" =>
         body[o] = "storing" \/ stored[o]

\* From the cleanup on the context is done and nothing works on the browser. It is here
\* that a body which stores its socket late can do no more than fail.
CleanedUp ==
  \A o \in Ops : caller[o] \in {"unlocking", "returned"} => expired[o] /\ ~AtWork(o)

\* The deadline was taken because it passed; a result in time was sent, and only a
\* result is.
DeadlineInv ==
  \A o \in Ops :
    /\ caller[o] = "late" => expired[o]
    /\ answer[o] = "timeout" => expired[o]
    /\ inTime[o] => Sent(o)
    /\ body[o] \in {"tearing", "sending", "ended"} => result[o] # "none"

PoolInv == TypeOK /\ MutexHeld /\ SocketKnown /\ CleanedUp /\ DeadlineInv /\ RealResultWins

-------------------------------------------------------------------------------
(* Steps *)

LEMMA InitPool == Init => PoolInv
BY DEF Init, PoolInv, TypeOK, MutexHeld, SocketKnown, CleanedUp, DeadlineInv, RealResultWins,
       Holding, AtPage, AtWork, Kinds, Sent

\* The caller: only Lock and Unlock touch the mutex, only Close the socket.
LEMMA CallerKeeps ==
  ASSUME PoolInv, NEW o \in Ops, Call(o) \/ Lock(o) \/ Deadline(o) \/ CallerStep(o)
  PROVE  PoolInv'
<1> USE DEF PoolInv, TypeOK, MutexHeld, SocketKnown, CleanedUp, DeadlineInv, RealResultWins,
            Holding, AtPage, AtWork, Kinds, Sent, callerVars, bodyVars, socketVars
<1>1. CASE Call(o)
  BY <1>1 DEF Call
<1>2. CASE Lock(o)
  BY <1>2 DEF Lock
<1>3. CASE Deadline(o)
  BY <1>3 DEF Deadline
<1>4. CASE Receive(o)
  BY <1>4 DEF Receive, Reply
<1>5. CASE TakeDeadline(o)
  BY <1>5 DEF TakeDeadline
<1>6. CASE Recheck(o)
  BY <1>6 DEF Recheck, Reply
<1>7. CASE Close(o)
  <2>1. caller[o] = "closing" /\ caller' = [caller EXCEPT ![o] = "unlocking"]
    BY <1>7 DEF Close, Cleanup
  <2>2. /\ socket' \in [Ops -> {"none", "open", "closed"}]
        /\ \A p \in Ops \ {o} : socket'[p] = socket[p]
        /\ socket'[o] = "open" => socket[o] = "open" /\ ~stored[o]
        /\ ~stored[o] => socket'[o] = socket[o]
    BY <1>7 DEF Close
  <2>3. socket'[o] = "open" => body[o] = "storing"
    BY <2>1, <2>2
  <2>4. ~AtWork(o)'
    BY <1>7, <2>3 DEF Close, Cleanup
  <2> QED BY <1>7, <2>1, <2>2, <2>4 DEF Close, Cleanup
<1>8. CASE Unlock(o)
  BY <1>8 DEF Unlock
<1> QED BY <1>1, <1>2, <1>3, <1>4, <1>5, <1>6, <1>7, <1>8 DEF CallerStep

\* The body, whoever still listens to it.
LEMMA BodyKeeps ==
  ASSUME PoolInv, NEW o \in Ops, BodyStep(o)
  PROVE  PoolInv'
<1> USE DEF PoolInv, TypeOK, MutexHeld, SocketKnown, CleanedUp, DeadlineInv, RealResultWins,
            Holding, AtPage, AtWork, Kinds, Sent, callerVars, bodyVars, socketVars,
            Goto, Outcome, Go, Fail, Live
<1>1. CASE Dial(o)
  BY <1>1 DEF Dial
<1>2. CASE Store(o)
  BY <1>2 DEF Store
<1>3. CASE StartSession(o)
  BY <1>3 DEF StartSession
<1>4. CASE AskVersion(o)
  BY <1>4 DEF AskVersion
<1>5. CASE OpenPage(o)
  BY <1>5 DEF OpenPage
<1>6. CASE Work(o)
  BY <1>6 DEF Work
<1>7. CASE Teardown(o)
  BY <1>7 DEF Teardown
<1>8. CASE Send(o)
  BY <1>8 DEF Send
<1> QED BY <1>1, <1>2, <1>3, <1>4, <1>5, <1>6, <1>7, <1>8 DEF BodyStep

LEMMA PoolKeeps == PoolInv /\ [Next]_vars => PoolInv'
<1> SUFFICES ASSUME PoolInv, [Next]_vars PROVE PoolInv'
  OBVIOUS
<1>1. CASE UNCHANGED vars
  BY <1>1 DEF PoolInv, TypeOK, MutexHeld, SocketKnown, CleanedUp, DeadlineInv, RealResultWins,
              AtWork, Sent, vars, callerVars, bodyVars, socketVars
<1>2. CASE Next
  BY <1>2, CallerKeeps, BodyKeeps DEF Next
<1> QED BY <1>1, <1>2

LEMMA PoolSound == Spec => []PoolInv
BY InitPool, PoolKeeps, PTL DEF Spec

-------------------------------------------------------------------------------
(* The theorems *)

\* Goroutines, sockets and results keep their types.
THEOREM PoolTypeCorrect == Spec => []TypeOK
<1>1. PoolInv => TypeOK
  BY DEF PoolInv
<1> QED BY <1>1, PoolSound, PTL

\* For any number of operations, no two bodies ever work on the browser at once: who works
\* holds the mutex still, because the cleanup leaves nobody at work.
THEOREM OneBodyAtWork == Spec => []OneAtWork
<1>1. ASSUME PoolInv, NEW o \in Ops, NEW p \in Ops, AtWork(o), AtWork(p) PROVE o = p
  <2>1. caller[o] \in Holding /\ caller[p] \in Holding
    BY <1>1 DEF PoolInv, TypeOK, SocketKnown, CleanedUp, AtWork, AtPage, Holding
  <2>2. mutex = o /\ mutex = p
    BY <1>1, <2>1 DEF PoolInv, MutexHeld
  <2> QED BY <2>2
<1>2. PoolInv => OneAtWork
  BY <1>1 DEF OneAtWork
<1> QED BY <1>2, PoolSound, PTL

\* For any number of operations, a result that was sent in time is the one returned.
THEOREM ResultsWin == Spec => []RealResultWins
<1>1. PoolInv => RealResultWins
  BY DEF PoolInv
<1> QED BY <1>1, PoolSound, PTL
===============================================================================
