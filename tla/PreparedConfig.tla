--------------------------- MODULE PreparedConfig ---------------------------
(***************************************************************************)
(* The hand-over of the finalized configuration from the preparation       *)
(* thread to the connection threads: PreparedConfig of src/milter.rs, one  *)
(* mutex and one condition variable.  Every step between two points where  *)
(* another thread can run is an action.                                    *)
(*                                                                         *)
(* A connection thread is a waiter; it calls wait() once per end of        *)
(* message.  Poisoned locks are entered like healthy ones                  *)
(* (unwrap_or_else(into_inner)), so poisoning has no state of its own.     *)
(* finalize() may panic.  Where panics unwind, catch_unwind turns that into *)
(* None; the release profile aborts on a panic (Cargo.toml), and then the  *)
(* process ends and every connection with it.                              *)
(***************************************************************************)
EXTENDS Naturals

CONSTANTS
  Waiters,   \* the connection threads
  MaxCalls   \* bound: calls of wait() by one thread

ASSUME MaxCallsAssumption == MaxCalls \in Nat

Preparer == "preparer"
Nobody   == "nobody"

ASSUME ThreadsDistinct == Waiters \cap {Preparer, Nobody} = {}

Outcomes == {"Ready", "Failed"}

VARIABLES
  state,    \* PreparedConfig::state, the data the mutex protects
  holder,   \* the thread that holds the mutex
  prep,     \* control point of the preparation thread
  config,   \* its local result: Some(config) is "Ready", None is "Failed"
  pc,       \* control point of each waiter
  got,      \* what the last wait() of each waiter returned
  calls     \* number of wait() calls of each waiter so far

vars == <<state, holder, prep, config, pc, got, calls>>

PrepPoints   == {"finalize", "lock", "store", "notify", "unlock", "done", "aborted"}
WaiterPoints == {"idle", "lock", "check", "parked", "ended"}

\* The variables hold values of their types.
TypeOK ==
  /\ state \in {"Loading"} \cup Outcomes
  /\ holder \in Waiters \cup {Preparer, Nobody}
  /\ prep \in PrepPoints
  /\ config \in {"none"} \cup Outcomes
  /\ pc \in [Waiters -> WaiterPoints]
  /\ got \in [Waiters -> {"none"} \cup Outcomes]
  /\ calls \in [Waiters -> 0..MaxCalls]

\* run() starts a preparation thread and Loading; handle_connection() starts
\* with rules that are Ready and no such thread.
Init ==
  /\ \/ state = "Loading" /\ prep = "finalize"
     \/ state = "Ready"   /\ prep = "done"
  /\ holder = Nobody
  /\ config = "none"
  /\ pc = [w \in Waiters |-> "idle"]
  /\ got = [w \in Waiters |-> "none"]
  /\ calls = [w \in Waiters |-> 0]

-----------------------------------------------------------------------------
(* The preparation thread.                                                 *)

waiterVars == <<pc, got, calls>>

\* Variant of Finalize without catch_unwind: a panic ends the thread unpublished.
FinalizeUncaught ==
  /\ prep = "finalize"
  /\ \/ config' = "Ready" /\ prep' = "lock"
     \/ config' = "none"  /\ prep' = "dead"
  /\ UNCHANGED <<state, holder, waiterVars>>

\* catch_unwind(finalize): the config, or None when finalize panics in a
\* build that unwinds.
Finalize ==
  /\ prep = "finalize"
  /\ config' \in Outcomes
  /\ prep' = "lock"
  /\ UNCHANGED <<state, holder, waiterVars>>

\* finalize panics in a build with panic = "abort": no thread goes on.
FinalizeAborts ==
  /\ prep = "finalize"
  /\ prep' = "aborted"
  /\ holder' = Nobody
  /\ pc' = [w \in Waiters |-> "ended"]
  /\ UNCHANGED <<state, config, got, calls>>

PublishLock ==
  /\ prep = "lock"
  /\ holder = Nobody
  /\ holder' = Preparer
  /\ prep' = "store"
  /\ UNCHANGED <<state, config, waiterVars>>

PublishStore ==
  /\ prep = "store"
  /\ state' = config
  /\ prep' = "notify"
  /\ UNCHANGED <<holder, config, waiterVars>>

\* Variant of PublishNotify with notify_one.
PublishNotifyOne ==
  /\ prep = "notify"
  /\ \/ \E w \in Waiters : pc[w] = "parked" /\ pc' = [pc EXCEPT ![w] = "lock"]
     \/ (\A w \in Waiters : pc[w] # "parked") /\ UNCHANGED pc
  /\ prep' = "unlock"
  /\ UNCHANGED <<state, holder, config, got, calls>>

\* notify_all: every parked thread goes back to compete for the mutex.
PublishNotify ==
  /\ prep = "notify"
  /\ pc' = [w \in Waiters |-> IF pc[w] = "parked" THEN "lock" ELSE pc[w]]
  /\ prep' = "unlock"
  /\ UNCHANGED <<state, holder, config, got, calls>>

PublishUnlock ==
  /\ prep = "unlock"
  /\ holder' = Nobody
  /\ prep' = "done"
  /\ UNCHANGED <<state, config, waiterVars>>

Prepare ==
  \/ Finalize \/ FinalizeAborts
  \/ PublishLock \/ PublishStore \/ PublishNotify \/ PublishUnlock

-----------------------------------------------------------------------------
(* A waiter.                                                               *)

prepVars == <<prep, config>>

\* The handler reaches end of message and calls wait().
CallWait(w) ==
  /\ pc[w] = "idle"
  /\ calls[w] < MaxCalls
  /\ pc' = [pc EXCEPT ![w] = "lock"]
  /\ calls' = [calls EXCEPT ![w] = @ + 1]
  /\ got' = [got EXCEPT ![w] = "none"]
  /\ UNCHANGED <<state, holder, prepVars>>

\* The mutex is taken, on entry or on the way out of Condvar::wait.
WaitLock(w) ==
  /\ pc[w] = "lock"
  /\ holder = Nobody
  /\ holder' = w
  /\ pc' = [pc EXCEPT ![w] = "check"]
  /\ UNCHANGED <<state, got, calls, prepVars>>

\* Still Loading: Condvar::wait releases the mutex and parks in one step.
WaitPark(w) ==
  /\ pc[w] = "check"
  /\ state = "Loading"
  /\ holder' = Nobody
  /\ pc' = [pc EXCEPT ![w] = "parked"]
  /\ UNCHANGED <<state, got, calls, prepVars>>

\* Variant of WaitReturn that trusts the wake-up and does not look again.
WaitReturnUnchecked(w) ==
  /\ pc[w] = "check"
  /\ got' = [got EXCEPT ![w] = state]
  /\ holder' = Nobody
  /\ pc' = [pc EXCEPT ![w] = "idle"]
  /\ UNCHANGED <<state, calls, prepVars>>

\* Ready or Failed: the result is cloned and the guard dropped.
WaitReturn(w) ==
  /\ pc[w] = "check"
  /\ state # "Loading"
  /\ got' = [got EXCEPT ![w] = state]
  /\ holder' = Nobody
  /\ pc' = [pc EXCEPT ![w] = "idle"]
  /\ UNCHANGED <<state, calls, prepVars>>

\* A condition variable may wake a thread nobody notified.
SpuriousWake(w) ==
  /\ pc[w] = "parked"
  /\ pc' = [pc EXCEPT ![w] = "lock"]
  /\ UNCHANGED <<state, holder, got, calls, prepVars>>

Wait(w) == WaitLock(w) \/ WaitPark(w) \/ WaitReturn(w)

-----------------------------------------------------------------------------

Next ==
  \/ Prepare
  \/ \E w \in Waiters : CallWait(w) \/ Wait(w) \/ SpuriousWake(w)

(***************************************************************************)
(* Threads that can run are eventually run.  A call of wait() is never     *)
(* owed (the MTA may stop sending), nor is a spurious wake-up.             *)
(* std::sync::Mutex promises no order, so waiters get weak fairness only.  *)
(* The publisher gets strong fairness on its lock: before the publication  *)
(* the waiters release the mutex to park, and only an endless run of       *)
(* spurious wake-ups could take it from the publisher every single time.   *)
(***************************************************************************)
Fairness ==
  /\ WF_vars(Prepare)
  /\ SF_vars(PublishLock)
  /\ \A w \in Waiters : WF_vars(Wait(w))

Spec == Init /\ [][Next]_vars /\ Fairness

-----------------------------------------------------------------------------
(* Properties.                                                             *)

\* No lost wake-up: whoever is parked still has a notify_all ahead of it, so
\* a waiter that saw Loading cannot sleep past the publication.
NoLostWakeup ==
  \A w \in Waiters : pc[w] = "parked" =>
    prep \in {"finalize", "lock", "store", "notify"}

\* Every call of wait() returns (rule_preparation_failure_wakes_waiters tests
\* one waiter and a failure), also when finalize panics; no thread is left
\* waiting unless the panic ends the process, and all of them with it.
EveryCallReturns ==
  \A w \in Waiters : pc[w] = "lock" ~> (pc[w] = "idle" \/ prep = "aborted")

\* The mutex and the condition variable implement the promise: decided once,
\* answered with the decision only, and always answered while the process lives.
Promise == INSTANCE RulePromise WITH
  state <- IF prep = "aborted" THEN "Gone" ELSE state,
  asking <- [w \in Waiters |-> pc[w] \in {"lock", "check", "parked"}]

ImplementsPromise == Promise!Spec

=============================================================================
