--------------------------- MODULE NetworkResolve ---------------------------
(***************************************************************************)
(* The resolver of src/network.rs, which follows the redirects of a link   *)
(* by requests of its own, against a network that answers as it likes and  *)
(* name servers that may change their mind at any time.  An iteration of   *)
(* the loop is Check, Lookup, Connect and one of the replies; each is a    *)
(* step, since the network moves between them.                             *)
(***************************************************************************)
EXTENDS Naturals, FiniteSets, AddressBlocks

CONSTANTS
  Url,             \* URLs that links and servers mention
  Name,            \* domains (sequences of labels) name servers know
  Address,         \* addresses
  MaxAnswers,      \* most addresses of one name
  allowlisted_redirect_domains,
  MAX_REDIRECTS,
  Probe,           \* addresses on which tests and blocks are compared
  NoUrl

ASSUME UrlAssumption == NoUrl \notin Url
ASSUME LimitAssumption == MAX_REDIRECTS \in Nat
ASSUME ProbeAssumption == Probe \subseteq Ipv4 \cup Ipv6
ASSUME LiteralAssumption ==
  \A u \in Url : u.host.kind = "ip" /\ Len(u.host.ip) = 4 => u.host.ip \in Address

Answers == {s \in SUBSET Address : Cardinality(s) <= MaxAnswers}

VARIABLES
  enabled,         \* network_redirect_resolution, in a build with the feature
  dns,             \* what the name servers answer now
  pc,              \* where the loop is
  hop,             \* iterations that sent their request
  current,         \* the URL of this iteration
  found,           \* addresses resolve_ip_is_safe saw
  asked,           \* URL of the last request
  reached,         \* address it was sent to
  result           \* NetworkResolveResult.url

request == <<hop, asked, reached>>

vars == <<enabled, dns, pc, current, found, request, result>>

Init ==
  /\ enabled \in BOOLEAN
  /\ dns \in [Name -> Answers]
  /\ pc = "idle" /\ hop = 0
  /\ current = NoUrl /\ asked = NoUrl /\ result = NoUrl
  /\ found = {} /\ reached = <<>>

Allowlisted(u) == IsAllowlistedDomain(u.host, allowlisted_redirect_domains)

Stop ==
  /\ pc' = "done"
  /\ UNCHANGED <<current, found, request, result>>

Return(u) ==
  /\ pc' = "done" /\ result' = u
  /\ UNCHANGED <<current, found, request>>

\* resolve: no request unless it is switched on and the host is on the list.
Resolve(u) ==
  /\ pc = "idle"
  /\ \/ /\ enabled /\ Allowlisted(u)
        /\ pc' = "check" /\ current' = u
        /\ UNCHANGED <<found, request, result>>
     \/ ~(enabled /\ Allowlisted(u)) /\ Stop
  /\ UNCHANGED <<enabled, dns>>

\* Variant of Check with one iteration more.
CheckOneMore ==
  /\ pc = "check"
  /\ \/ /\ hop <= MAX_REDIRECTS + 1 /\ PreflightOk(current) /\ Allowlisted(current)
        /\ pc' = "lookup"
        /\ UNCHANGED <<current, found, request, result>>
     \/ ~(hop <= MAX_REDIRECTS + 1 /\ PreflightOk(current) /\ Allowlisted(current)) /\ Stop
  /\ UNCHANGED <<enabled, dns>>

\* The head of an iteration, or the end of the loop.
Check ==
  /\ pc = "check"
  /\ \/ /\ hop <= MAX_REDIRECTS /\ PreflightOk(current) /\ Allowlisted(current)
        /\ pc' = "lookup"
        /\ UNCHANGED <<current, found, request, result>>
     \/ ~(hop <= MAX_REDIRECTS /\ PreflightOk(current) /\ Allowlisted(current)) /\ Stop
  /\ UNCHANGED <<enabled, dns>>

\* What a lookup of the host returns; none if it fails.  Text of a literal
\* address of version 6 has brackets around it, which to_socket_addrs refuses.
ToSocketAddrs(u) ==
  IF u.host.kind = "ip" THEN (IF Len(u.host.ip) = 4 THEN {u.host.ip} ELSE {})
  ELSE IF u.host.labels \in Name THEN dns[u.host.labels] ELSE {}

\* Variant of ResolveIpIsSafe that is content with one good address.
ResolveIpIsSafeAny(addrs) == \E ip \in addrs : ~IsBlockedIp(ip)

ResolveIpIsSafe(addrs) == addrs # {} /\ \A ip \in addrs : ~IsBlockedIp(ip)

Lookup ==
  /\ pc = "lookup"
  /\ \/ /\ ResolveIpIsSafe(ToSocketAddrs(current))
        /\ pc' = "connect" /\ found' = ToSocketAddrs(current)
        /\ UNCHANGED <<current, request, result>>
     \/ ~ResolveIpIsSafe(ToSocketAddrs(current)) /\ Stop
  /\ UNCHANGED <<enabled, dns>>

\* Variant of Connect whose request does not count as an iteration.
ConnectUncounted ==
  /\ pc = "connect"
  /\ \/ \E ip \in ToSocketAddrs(current) :
          /\ pc' = "reply" /\ asked' = current /\ reached' = ip
          /\ UNCHANGED <<hop, current, found, result>>
     \/ Stop
  /\ UNCHANGED <<enabled, dns>>

\* The HTTP client looks the name up by itself, and connects or fails.
Connect ==
  /\ pc = "connect"
  /\ \/ \E ip \in ToSocketAddrs(current) :
          /\ pc' = "reply" /\ hop' = hop + 1 /\ asked' = current /\ reached' = ip
          /\ UNCHANGED <<current, found, result>>
     \/ Stop
  /\ UNCHANGED <<enabled, dns>>

\* No answer in time, or none that can be read.
ReplyError == pc = "reply" /\ Stop /\ UNCHANGED <<enabled, dns>>

\* Any status but a redirect with a Location.
ReplyFinal == pc = "reply" /\ Return(current) /\ UNCHANGED <<enabled, dns>>

\* A redirect whose Location cannot be joined to the current URL.
ReplyInvalid == pc = "reply" /\ Stop /\ UNCHANGED <<enabled, dns>>

Follow(next) ==
  /\ pc' = "check" /\ current' = next
  /\ UNCHANGED <<found, request, result>>

\* Variant of ClassifyRedirectLocation that validates only what it follows.
ClassifyRedirectLocationLate(next) ==
  \/ PreflightOk(next) /\ Allowlisted(next) /\ Follow(next)
  \/ PreflightOk(next) /\ ~Allowlisted(next) /\ Return(next)
  \/ ~PreflightOk(next) /\ Return(next)

\* classify_redirect_location: followed, or final and not contacted.
ClassifyRedirectLocation(next) ==
  \/ PreflightOk(next) /\ Allowlisted(next) /\ Follow(next)
  \/ PreflightOk(next) /\ ~Allowlisted(next) /\ Return(next)
  \/ ~PreflightOk(next) /\ Stop

ReplyRedirect(next) ==
  /\ pc = "reply"
  /\ ClassifyRedirectLocation(next)
  /\ UNCHANGED <<enabled, dns>>

ChangeDns(n) ==
  /\ pc # "done"
  /\ \E s \in Answers : dns' = [dns EXCEPT ![n] = s]
  /\ UNCHANGED <<enabled, pc, current, found, request, result>>

Reply == ReplyError \/ ReplyFinal \/ ReplyInvalid \/ \E u \in Url : ReplyRedirect(u)

Next ==
  \/ \E u \in Url : Resolve(u)
  \/ Check \/ Lookup \/ Connect \/ Reply
  \/ \E n \in Name : ChangeDns(n)

Fairness == WF_vars(Check) /\ WF_vars(Lookup) /\ WF_vars(Connect) /\ WF_vars(Reply)

Spec == Init /\ [][Next]_vars /\ Fairness

-----------------------------------------------------------------------------

\* Every variable keeps its type.
TypeOK ==
  /\ enabled \in BOOLEAN
  /\ dns \in [Name -> Answers]
  /\ pc \in {"idle", "check", "lookup", "connect", "reply", "done"}
  /\ hop \in 0..MAX_REDIRECTS + 1
  /\ current \in Url \cup {NoUrl} /\ asked \in Url \cup {NoUrl}
  /\ result \in Url \cup {NoUrl}
  /\ found \subseteq Address /\ reached \in Address \cup {<<>>}

\* A request goes to a host that is on the list and passed the checks, with
\* every address the lookup saw unblocked: a blocked address is reached only
\* if the name servers changed their answer after it (network.rs:166-232).
ContactsChecked ==
  pc = "reply" =>
    /\ enabled /\ Allowlisted(asked) /\ PreflightOk(asked)
    /\ found # {} /\ \A ip \in found : ~IsBlockedIp(ip)
    /\ IsBlockedIp(reached) => reached \notin found /\ asked.host.kind # "ip"

\* Redirects that never end, also back and forth between listed hosts, are
\* given up: a question is answered (network.rs:141, timeouts of each step).
ResolutionEnds == pc = "check" ~> pc = "done"

\* The place in the loop, as the caller sees it.
Phase == IF pc \in {"idle", "done"} THEN pc ELSE "busy"

Promise ==
  INSTANCE ResolvePromise WITH
    Contactable <- {u \in Url : Allowlisted(u) /\ PreflightOk(u)},
    Acceptable <- {u \in Url : PreflightOk(u)},
    Requests <- MAX_REDIRECTS + 1,
    phase <- Phase, left <- MAX_REDIRECTS + 1 - hop, last <- asked, answer <- result

\* The resolver keeps the promise made to link cleaning: a bounded number of
\* requests, to listed hosts, and an answer only on the word of the last one
\* (redirect.rs:92-101 uses the answer as the link's destination).
ImplementsPromise == Promise!Spec

\* The tests on bytes and words (validate.rs:155-213) accept exactly the
\* addresses outside the blocks their comments name, and treat a version 6
\* address that carries one of version 4 as that one.  Looked at once, at the
\* start.
BlockedRanges ==
  pc = "idle" /\ ~enabled /\ (\A n \in Name : dns[n] = {}) =>
    \A ip \in Probe : IsBlockedIp(ip) <=> Blocked(ip)

=============================================================================
