--------------------------- MODULE ResolvePromise ---------------------------
(***************************************************************************)
(* What link cleaning is promised of the network resolver                  *)
(* (src/network.rs): it asks the network only so often and only of hosts   *)
(* it may contact, and names a destination only on the word of the host it *)
(* contacted last, either that host's own URL or one that is not contacted *)
(* at all.                                                                 *)
(***************************************************************************)
EXTENDS Naturals

CONSTANTS
  Contactable,   \* URLs a request may be sent to
  Acceptable,    \* URLs that may be answered
  NoUrl,         \* no URL
  Requests       \* number of requests one question may cost

VARIABLES
  phase,         \* of the question: "idle", "busy" or "done"
  left,          \* requests that may still be sent
  last,          \* URL of the last request
  answer         \* the resolved URL

vars == <<phase, left, last, answer>>

Init == phase = "idle" /\ left = Requests /\ last = NoUrl /\ answer = NoUrl

Ask ==
  /\ phase = "idle"
  /\ phase' = "busy"
  /\ UNCHANGED <<left, last, answer>>

Contact ==
  /\ phase = "busy" /\ left > 0
  /\ left' = left - 1
  /\ last' \in Contactable
  /\ UNCHANGED <<phase, answer>>

\* An answer that could have been contacted was.
Answer ==
  /\ phase = "busy" /\ last # NoUrl
  /\ phase' = "done"
  /\ answer' \in {u \in Acceptable : u \in Contactable => u = last}
  /\ UNCHANGED <<left, last>>

\* Without an answer the original URL is kept.
GiveUp ==
  /\ phase \in {"idle", "busy"}
  /\ phase' = "done"
  /\ UNCHANGED <<left, last, answer>>

Next == Ask \/ Contact \/ Answer \/ GiveUp

Spec == Init /\ [][Next]_vars /\ WF_vars(GiveUp /\ phase = "busy")

=============================================================================
