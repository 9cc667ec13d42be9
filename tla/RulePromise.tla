---------------------------- MODULE RulePromise ----------------------------
(***************************************************************************)
(* What the connection threads are promised about the compiled rules: the  *)
(* rules are decided once, a thread that asks gets the decision and never  *)
(* anything else, and every question is answered, unless deciding ends the *)
(* process and with it whoever asks.  How the decision is published (a     *)
(* mutex and a condition variable in src/milter.rs) is not visible here;   *)
(* PreparedConfig and Milter both implement this module.                   *)
(***************************************************************************)
CONSTANT Waiters    \* the connection threads

Outcomes == {"Ready", "Failed"}

VARIABLES
  state,    \* "Loading", the published outcome, or "Gone" with the process
  asking,   \* asking[w]: w is inside PreparedConfig::wait
  got       \* got[w]: what the last call of w returned, "none" before that

vars == <<state, asking, got>>

\* Type correctness of the abstract state.
TypeOK ==
  /\ state \in {"Loading", "Gone"} \cup Outcomes
  /\ asking \in [Waiters -> BOOLEAN]
  /\ got \in [Waiters -> {"none"} \cup Outcomes]

\* handle_connection starts from rules that are ready, run from rules that load.
Init ==
  /\ state \in {"Loading", "Ready"}
  /\ asking = [w \in Waiters |-> FALSE]
  /\ got = [w \in Waiters |-> "none"]

Decide ==
  /\ state = "Loading"
  /\ state' \in Outcomes
  /\ UNCHANGED <<asking, got>>

\* The process ends, and no thread of it asks any more.
Abort ==
  /\ state = "Loading"
  /\ state' = "Gone"
  /\ asking' = [w \in Waiters |-> FALSE]
  /\ UNCHANGED got

Ask(w) ==
  /\ ~asking[w]
  /\ state # "Gone"
  /\ asking' = [asking EXCEPT ![w] = TRUE]
  /\ got' = [got EXCEPT ![w] = "none"]
  /\ UNCHANGED state

Answer(w) ==
  /\ asking[w]
  /\ state \in Outcomes
  /\ asking' = [asking EXCEPT ![w] = FALSE]
  /\ got' = [got EXCEPT ![w] = state]
  /\ UNCHANGED state

\* The caller drops the answer (the Arc goes out of scope).
Release(w) ==
  /\ ~asking[w]
  /\ got' = [got EXCEPT ![w] = "none"]
  /\ UNCHANGED <<state, asking>>

Next ==
  \/ Decide
  \/ Abort
  \/ \E w \in Waiters : Ask(w) \/ Answer(w) \/ Release(w)

Spec == Init /\ [][Next]_vars /\ WF_vars(Decide \/ Abort) /\ \A w \in Waiters : WF_vars(Answer(w))

=============================================================================
