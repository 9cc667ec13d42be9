---------------------------- MODULE MailVerdict ----------------------------
(***************************************************************************)
(* What an MTA gets: a message that reaches end-of-message has one         *)
(* verdict, decided with the complete rules only.  Accepted as "original"  *)
(* nothing of the body was replaced and nothing had to be; accepted as     *)
(* "cleaned" all of a new body that is not empty went out; "deferred"      *)
(* changed nothing.  "emptied" is the verdict that misleads: the cleaner   *)
(* left nothing of the body, no packet carries an empty body, and the MTA  *)
(* delivers the body as it was.  A connection that drops gives no verdict, *)
(* and the MTA applies its own default.                                    *)
(***************************************************************************)
CONSTANT Conn    \* the MTA's connections

VARIABLES
  rules,    \* "Loading", "Ready" or "Failed"
  stage,    \* stage[c]: "receiving", "deciding" or "gone"
  outcome   \* outcome[c]: what the MTA was told about the last message

vars == <<rules, stage, outcome>>

Verdicts == {"original", "cleaned", "emptied", "deferred"}

Init ==
  /\ rules \in {"Loading", "Ready"}
  /\ stage = [c \in Conn |-> "receiving"]
  /\ outcome = [c \in Conn |-> "none"]

DecideRules ==
  /\ rules = "Loading"
  /\ rules' \in {"Ready", "Failed"}
  /\ UNCHANGED <<stage, outcome>>

\* A command that is not end-of-message: the last verdict is history.
Receive(c) ==
  /\ stage[c] = "receiving"
  /\ outcome' = [outcome EXCEPT ![c] = "none"]
  /\ UNCHANGED <<rules, stage>>

Submit(c) ==
  /\ stage[c] = "receiving"
  /\ stage' = [stage EXCEPT ![c] = "deciding"]
  /\ outcome' = [outcome EXCEPT ![c] = "none"]
  /\ UNCHANGED rules

Resolve(c) ==
  /\ stage[c] = "deciding"
  /\ rules = "Ready"
  /\ \E v \in Verdicts : outcome' = [outcome EXCEPT ![c] = v]
  /\ stage' = [stage EXCEPT ![c] = "receiving"]
  /\ UNCHANGED rules

Drop(c) ==
  /\ stage[c] # "gone"
  /\ stage' = [stage EXCEPT ![c] = "gone"]
  /\ outcome' = [outcome EXCEPT ![c] = "none"]
  /\ UNCHANGED rules

Next ==
  \/ DecideRules
  \/ \E c \in Conn : Receive(c) \/ Submit(c) \/ Resolve(c) \/ Drop(c)

\* End-of-message does not wait for ever: a verdict, or the connection drops.
Conclude(c) == stage[c] = "deciding" /\ (Resolve(c) \/ Drop(c))

Spec == Init /\ [][Next]_vars /\ \A c \in Conn : WF_vars(Conclude(c))

=============================================================================
