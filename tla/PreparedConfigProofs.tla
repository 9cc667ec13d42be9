------------------------ MODULE PreparedConfigProofs ------------------------
(***************************************************************************)
(* Proofs about PreparedConfig for any set of connection threads and any   *)
(* number of calls: the types, that no wake-up is lost, and that every     *)
(* step is a step (or a stutter) of RulePromise.                           *)
(***************************************************************************)
EXTENDS PreparedConfig, TLAPS

\* The critical sections of publish and of the loop in wait exclude each
\* other, and the mutex knows who is inside.
MutualExclusion ==
  /\ holder = Preparer <=> prep \in {"store", "notify", "unlock"}
  /\ \A w \in Waiters : holder = w <=> pc[w] = "check"

\* The preparation thread has a result before it publishes it, and state is
\* decided exactly when it has been stored.
Progress ==
  /\ prep \in {"lock", "store", "notify", "unlock"} => config \in Outcomes
  /\ state = "Loading" <=> prep \in {"finalize", "lock", "store", "aborted"}
  /\ \A w \in Waiters : pc[w] = "ended" <=> prep = "aborted"

\* The inductive invariant: NoLostWakeup alone is not inductive, because it
\* does not say that a thread about to park still finds the publisher outside
\* its critical section.
IInv == TypeOK /\ MutualExclusion /\ Progress /\ NoLostWakeup

\* A step of the preparation thread keeps the invariant.
LEMMA PrepareKeepsIInv == IInv /\ Prepare => IInv'
<1> SUFFICES ASSUME IInv, Prepare PROVE IInv'
  OBVIOUS
<1> USE ThreadsDistinct DEF Preparer, Nobody, Outcomes, PrepPoints, WaiterPoints
<1>1. CASE Finalize
  BY <1>1 DEF IInv, TypeOK, MutualExclusion, Progress, NoLostWakeup, Finalize, waiterVars
<1>6. CASE FinalizeAborts
  BY <1>6 DEF IInv, TypeOK, MutualExclusion, Progress, NoLostWakeup, FinalizeAborts
<1>2. CASE PublishLock
  BY <1>2 DEF IInv, TypeOK, MutualExclusion, Progress, NoLostWakeup, PublishLock, waiterVars
<1>3. CASE PublishStore
  BY <1>3 DEF IInv, TypeOK, MutualExclusion, Progress, NoLostWakeup, PublishStore, waiterVars
<1>4. CASE PublishNotify
  BY <1>4 DEF IInv, TypeOK, MutualExclusion, Progress, NoLostWakeup, PublishNotify
<1>5. CASE PublishUnlock
  BY <1>5 DEF IInv, TypeOK, MutualExclusion, Progress, NoLostWakeup, PublishUnlock, waiterVars
<1> QED
  BY <1>1, <1>2, <1>3, <1>4, <1>5, <1>6 DEF Prepare

\* A step of a connection thread keeps the invariant.
LEMMA WaiterKeepsIInv ==
  ASSUME IInv, NEW w \in Waiters, CallWait(w) \/ Wait(w) \/ SpuriousWake(w)
  PROVE  IInv'
<1> USE ThreadsDistinct, MaxCallsAssumption DEF Preparer, Nobody, Outcomes, PrepPoints, WaiterPoints
<1>1. CASE CallWait(w)
  BY <1>1 DEF IInv, TypeOK, MutualExclusion, Progress, NoLostWakeup, CallWait, prepVars
<1>2. CASE WaitLock(w)
  BY <1>2 DEF IInv, TypeOK, MutualExclusion, Progress, NoLostWakeup, WaitLock, prepVars
<1>3. CASE WaitPark(w)
  BY <1>3 DEF IInv, TypeOK, MutualExclusion, Progress, NoLostWakeup, WaitPark, prepVars
<1>4. CASE WaitReturn(w)
  BY <1>4 DEF IInv, TypeOK, MutualExclusion, Progress, NoLostWakeup, WaitReturn, prepVars
<1>5. CASE SpuriousWake(w)
  BY <1>5 DEF IInv, TypeOK, MutualExclusion, Progress, NoLostWakeup, SpuriousWake, prepVars
<1> QED
  BY <1>1, <1>2, <1>3, <1>4, <1>5 DEF Wait

\* The invariant holds of every reachable state.
LEMMA Invariance == Spec => []IInv
<1>1. Init => IInv
  BY ThreadsDistinct, MaxCallsAssumption
     DEF Init, IInv, TypeOK, MutualExclusion, Progress, NoLostWakeup,
         Preparer, Nobody, Outcomes, PrepPoints, WaiterPoints
<1>2. IInv /\ [Next]_vars => IInv'
  <2>1. IInv /\ UNCHANGED vars => IInv'
    BY DEF IInv, TypeOK, MutualExclusion, Progress, NoLostWakeup, vars
  <2> QED
    BY <2>1, PrepareKeepsIInv, WaiterKeepsIInv DEF Next
<1> QED
  BY <1>1, <1>2, PTL DEF Spec

\* The variables of the hand-over keep their types (PreparedConfig of
\* src/milter.rs).
THEOREM TypeCorrect == Spec => []TypeOK
  BY Invariance, PTL DEF IInv

\* No connection thread sleeps through the publication, however many threads
\* wait and whenever they park.
THEOREM NoWakeupLost == Spec => []NoLostWakeup
  BY Invariance, PTL DEF IInv

-----------------------------------------------------------------------------

\* The abstract state and questions.
stateBar == IF prep = "aborted" THEN "Gone" ELSE state

askingBar == [w \in Waiters |-> pc[w] \in {"lock", "check", "parked"}]

\* Between the start and the end of a call the waiter asks.
LEMMA OneWaiterAsks ==
  ASSUME IInv, NEW w \in Waiters, NEW p, pc' = [pc EXCEPT ![w] = p]
  PROVE  askingBar' = [askingBar EXCEPT ![w] = p \in {"lock", "check", "parked"}]
  BY DEF askingBar, IInv, TypeOK

\* A step of the hand-over is a step of the promise or leaves it alone.
LEMMA StepSimulation == IInv /\ [Next]_vars => [Promise!Next]_Promise!vars
<1> SUFFICES ASSUME IInv, [Next]_vars PROVE [Promise!Next]_Promise!vars
  OBVIOUS
<1> USE DEF Outcomes, Promise!Outcomes
<1>0. UNCHANGED <<stateBar, askingBar, got>> => UNCHANGED Promise!vars
  BY DEF Promise!vars, stateBar, askingBar
<1>1. CASE UNCHANGED vars
  BY <1>0, <1>1 DEF vars, stateBar, askingBar
<1>2. CASE PublishStore
  <2>1. Promise!Decide
    BY <1>2 DEF IInv, Progress, PublishStore, waiterVars, Promise!Decide
  <2> QED
    BY <2>1 DEF Promise!Next
<1>3. CASE Finalize \/ PublishLock \/ PublishUnlock
  BY <1>0, <1>3 DEF Finalize, PublishLock, PublishUnlock, waiterVars, stateBar, askingBar
<1>4. CASE PublishNotify
  <2>1. UNCHANGED askingBar
    BY <1>4 DEF PublishNotify, IInv, TypeOK, askingBar
  <2> QED
    BY <1>0, <1>4, <2>1 DEF PublishNotify, stateBar
<1>5. CASE FinalizeAborts
  <2>1. stateBar = "Loading" /\ stateBar' = "Gone" /\ UNCHANGED got
    BY <1>5 DEF FinalizeAborts, IInv, Progress, stateBar
  <2>2. askingBar' = [w \in Waiters |-> FALSE]
    <3>1. \A w \in Waiters : (pc'[w] \in {"lock", "check", "parked"}) = FALSE
      BY <1>5 DEF FinalizeAborts
    <3> QED
      BY <3>1, Zenon DEF askingBar
  <2>3. Promise!Abort
    BY <2>1, <2>2 DEF Promise!Abort, stateBar, askingBar
  <2> QED
    BY <2>3 DEF Promise!Next
<1>6. ASSUME NEW w \in Waiters, CallWait(w)
      PROVE  Promise!Next
  <2>1. /\ pc[w] = "idle" /\ pc' = [pc EXCEPT ![w] = "lock"]
        /\ got' = [got EXCEPT ![w] = "none"] /\ UNCHANGED <<prep, state>>
    BY <1>6 DEF CallWait, prepVars
  <2>2. ~askingBar[w] /\ askingBar' = [askingBar EXCEPT ![w] = TRUE]
    <3>1. askingBar' = [askingBar EXCEPT ![w] = "lock" \in {"lock", "check", "parked"}]
      BY <2>1, OneWaiterAsks
    <3> QED
      BY <2>1, <3>1 DEF askingBar
  <2>3. stateBar # "Gone" /\ UNCHANGED stateBar
    BY <2>1 DEF IInv, TypeOK, Progress, stateBar
  <2>4. Promise!Ask(w)
    BY <2>1, <2>2, <2>3 DEF Promise!Ask, stateBar, askingBar
  <2> QED
    BY <2>4 DEF Promise!Next
<1>7. ASSUME NEW w \in Waiters, WaitReturn(w)
      PROVE  Promise!Next
  <2>1. /\ pc[w] = "check" /\ pc' = [pc EXCEPT ![w] = "idle"] /\ state # "Loading"
        /\ got' = [got EXCEPT ![w] = state] /\ UNCHANGED <<prep, state>>
    BY <1>7 DEF WaitReturn, prepVars
  <2>2. askingBar[w] /\ askingBar' = [askingBar EXCEPT ![w] = FALSE]
    <3>1. askingBar' = [askingBar EXCEPT ![w] = "idle" \in {"lock", "check", "parked"}]
      BY <2>1, OneWaiterAsks
    <3>2. ("idle" \in {"lock", "check", "parked"}) = FALSE
      OBVIOUS
    <3>3. askingBar[w]
      BY <2>1 DEF askingBar
    <3> QED
      BY <3>1, <3>2, <3>3, Zenon
  <2>3. stateBar = state /\ state \in Outcomes /\ UNCHANGED stateBar
    BY <2>1 DEF IInv, TypeOK, Progress, stateBar
  <2>4. Promise!Answer(w)
    BY <2>1, <2>2, <2>3 DEF Promise!Answer, stateBar, askingBar
  <2> QED
    BY <2>4 DEF Promise!Next
<1>8. ASSUME NEW w \in Waiters, WaitLock(w) \/ WaitPark(w) \/ SpuriousWake(w)
      PROVE  UNCHANGED Promise!vars
  <2>1. UNCHANGED askingBar
    BY <1>8 DEF WaitLock, WaitPark, SpuriousWake, IInv, TypeOK, askingBar
  <2> QED
    BY <1>0, <1>8, <2>1 DEF WaitLock, WaitPark, SpuriousWake, prepVars, stateBar
<1> QED
  BY <1>1, <1>2, <1>3, <1>4, <1>5, <1>6, <1>7, <1>8 DEF Next, Prepare, Wait

\* The mutex and the condition variable implement the promise's safety part:
\* the rules are decided once and a call of wait() returns that decision.
THEOREM ImplementsPromiseSafety == Spec => Promise!Init /\ [][Promise!Next]_Promise!vars
<1>1. Init => Promise!Init
  <2> SUFFICES ASSUME Init PROVE Promise!Init
    OBVIOUS
  <2>1. stateBar \in {"Loading", "Ready"} /\ askingBar = [w \in Waiters |-> FALSE]
    <3>1. stateBar \in {"Loading", "Ready"}
      BY DEF Init, stateBar
    <3>2. \A w \in Waiters : (pc[w] \in {"lock", "check", "parked"}) = FALSE
      <4>1. \A w \in Waiters : pc[w] = "idle"
        BY DEF Init
      <4>2. ("idle" \in {"lock", "check", "parked"}) = FALSE
        OBVIOUS
      <4> QED
        BY <4>1, <4>2, Zenon
    <3> QED
      BY <3>1, <3>2, Zenon DEF askingBar
  <2> QED
    BY <2>1 DEF Init, Promise!Init, stateBar, askingBar
<1> QED
  BY <1>1, StepSimulation, Invariance, PTL DEF Spec

=============================================================================
