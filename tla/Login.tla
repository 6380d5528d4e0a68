--------------------------------- MODULE Login ---------------------------------
(***************************************************************************)
(* The login throttle: a sliding window over the failed logins of each     *)
(* caller, asked before the password is looked at and told afterwards.     *)
(* The two are separate critical sections, so attempts of one caller may   *)
(* overlap. A password is configured: without one nothing here is reached. *)
(*                                                                         *)
(* A history is a set of times. The clock is read under the lock and moves *)
(* on, so no two failures have the same.                                   *)
(***************************************************************************)
EXTENDS Integers, FiniteSets

CONSTANTS
  Clients,         \* the callers' keys
  Attempts,        \* logins that are handled at once
  MaxAttempts,
  AttemptWindow,
  MaxKeys,
  NoClient,
  MaxTime          \* bound: readings of the clock

ASSUME LoginAssumption ==
  /\ IsFiniteSet(Clients)
  /\ MaxAttempts \in Nat \ {0}
  /\ AttemptWindow \in Nat \ {0}
  /\ MaxKeys \in Nat \ {0}
  /\ NoClient \notin Clients
  /\ MaxTime \in Nat

VARIABLES
  now,
  failures,    \* of each caller; a caller with none is not in the map
  attempt,     \* the caller each attempt was let in for
  told,        \* when a caller that was refused was told to come back
  overlapped   \* the callers two attempts of which were handled at once

vars == <<now, failures, attempt, told, overlapped>>

None == 0       \* told nothing

Live(at) == at + AttemptWindow > now
Recent(k) == {at \in failures[k] : Live(at)}
Tracked == {k \in Clients : failures[k] # {}}
InFlight(k) == {a \in Attempts : attempt[a] = k}

-------------------------------------------------------------------------------
(* The throttle *)

\* Mutant: a failure still counts at the moment it should have aged out.
PruneLate(k) ==
  [failures EXCEPT ![k] = {at \in failures[k] : at + AttemptWindow >= now}]

prune(k) == [failures EXCEPT ![k] = Recent(k)]

\* Mutant: the age of an entry is that of its first failure.
OldestByFirst(victim, tracked) ==
  \A k \in tracked : \A at \in failures[k] : \E first \in failures[victim] : first <= at

\* The entry whose most recent failure is furthest in the past.
Oldest(victim, tracked) ==
  \A k \in tracked : \A at \in failures[victim] : \E last \in failures[k] : at <= last

\* An entry that is new to a full map takes the place of the oldest.
RecordFailure(k) ==
  LET kept == prune(k)
      tracked == {c \in Clients : kept[c] # {}}
  IN IF k \notin tracked /\ Cardinality(tracked) >= MaxKeys
     THEN \E victim \in tracked :
            /\ Oldest(victim, tracked)
            /\ failures' = [kept EXCEPT ![k] = {now}, ![victim] = {}]
     ELSE failures' = [kept EXCEPT ![k] = kept[k] \cup {now}]

-------------------------------------------------------------------------------
(* HandleLogin, from the caller's side *)

Overlap(k) == overlapped' = IF InFlight(k) = {} THEN overlapped ELSE overlapped \cup {k}

\* Allow lets the attempt in.
LetIn(a, k) ==
  /\ attempt[a] = NoClient
  /\ failures' = prune(k)
  /\ Cardinality(failures'[k]) < MaxAttempts
  /\ attempt' = [attempt EXCEPT ![a] = k]
  /\ told' = [told EXCEPT ![k] = None]
  /\ Overlap(k)
  /\ UNCHANGED now

\* Allow refuses it, until the oldest failure it counted ages out.
Refuse(a, k) ==
  /\ attempt[a] = NoClient
  /\ failures' = prune(k)
  /\ Cardinality(failures'[k]) >= MaxAttempts
  /\ \E first \in failures'[k] :
       /\ \A at \in failures'[k] : first <= at
       /\ told' = [told EXCEPT ![k] = first + AttemptWindow]
  /\ Overlap(k)
  /\ UNCHANGED <<now, attempt>>

\* A body that cannot be read is not counted.
Unreadable(a) ==
  /\ attempt[a] # NoClient
  /\ attempt' = [attempt EXCEPT ![a] = NoClient]
  /\ UNCHANGED <<now, failures, told, overlapped>>

Wrong(a) ==
  /\ attempt[a] # NoClient
  /\ now < MaxTime
  /\ RecordFailure(attempt[a])
  /\ now' = now + 1
  /\ attempt' = [attempt EXCEPT ![a] = NoClient]
  /\ UNCHANGED <<told, overlapped>>

\* The history goes before the session is issued, and stays gone if that fails.
Right(a) ==
  /\ attempt[a] # NoClient
  /\ failures' = [failures EXCEPT ![attempt[a]] = {}]
  /\ attempt' = [attempt EXCEPT ![a] = NoClient]
  /\ UNCHANGED <<now, told, overlapped>>

Tick ==
  /\ now < MaxTime
  /\ now' = now + 1
  /\ UNCHANGED <<failures, attempt, told, overlapped>>

\* The map is in memory: a restart clears it, and ends the attempts.
Restart ==
  /\ failures' = [k \in Clients |-> {}]
  /\ attempt' = [a \in Attempts |-> NoClient]
  /\ told' = [k \in Clients |-> None]
  /\ overlapped' = {}
  /\ UNCHANGED now

Init ==
  /\ now = 0
  /\ failures = [k \in Clients |-> {}]
  /\ attempt = [a \in Attempts |-> NoClient]
  /\ told = [k \in Clients |-> None]
  /\ overlapped = {}

Next ==
  \/ \E a \in Attempts :
       \/ \E k \in Clients : LetIn(a, k) \/ Refuse(a, k)
       \/ Unreadable(a)
       \/ Wrong(a)
       \/ Right(a)
  \/ Tick
  \/ Restart

Spec == Init /\ [][Next]_vars

-------------------------------------------------------------------------------
(* Properties *)

\* The map holds at most MaxKeys callers, with failures of the past alone.
TypeOK ==
  /\ now \in Nat
  /\ failures \in [Clients -> SUBSET Nat]
  /\ attempt \in [Attempts -> Clients \cup {NoClient}]
  /\ told \in [Clients -> Nat]
  /\ overlapped \in SUBSET Clients
  /\ \A k \in Clients : IsFiniteSet(failures[k]) /\ \A at \in failures[k] : at < now
  /\ Cardinality(Tracked) <= MaxKeys

\* Retry-After is honest: a caller that was refused and comes back no earlier than it
\* was told is let in, unless attempts of its own overlapped. Whatever else was
\* recorded, evicted and pruned in between, and at that very moment too.
RetryAfterHonest ==
  \A k \in Clients \ overlapped :
    told[k] # None /\ told[k] <= now => Cardinality(prune(k)[k]) < MaxAttempts

\* A failure that still counts is never given up for the failure of another caller
\* while the map holds an entry that counts no longer. Entries are pruned only when
\* their own caller is looked up, so a full map may be full of those.
LiveFailuresKept ==
  [][\A k, other \in Clients :
       /\ k # other
       /\ now \in failures'[other]
       /\ \E at \in failures[k] \ failures'[k] : Live(at)
       => \A c \in Tracked : Recent(c) # {}]_vars
================================================================================
