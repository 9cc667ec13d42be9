------------------------ MODULE NetworkResolveProofs ------------------------
(***************************************************************************)
(* Proofs about the resolver: for any URLs, names, addresses and lists.    *)
(***************************************************************************)
EXTENDS NetworkResolve, SequenceTheorems, TLAPS

\* What is known of the URL and the addresses at each place of the loop.
UrlChecked ==
  /\ pc \in {"check", "lookup", "connect", "reply"} =>
       enabled /\ current \in Url /\ Allowlisted(current)
  /\ pc \in {"lookup", "connect", "reply"} => PreflightOk(current)
  /\ pc \in {"lookup", "connect"} => hop <= MAX_REDIRECTS

AddressesSeen ==
  /\ pc \in {"connect", "reply"} => found # {} /\ \A ip \in found : ~IsBlockedIp(ip)
  /\ pc = "connect" /\ current.host.kind = "ip" => found = ToSocketAddrs(current)
  /\ pc = "reply" /\ current.host.kind = "ip" => reached \in found

Requested ==
  /\ pc = "reply" => asked = current
  /\ pc = "idle" => hop = 0 /\ asked = NoUrl
  /\ pc # "done" => result = NoUrl

Inv == TypeOK /\ UrlChecked /\ AddressesSeen /\ Requested

-----------------------------------------------------------------------------

LEMMA InitInv == Init => Inv
  BY LimitAssumption DEF Init, Inv, TypeOK, UrlChecked, AddressesSeen, Requested

\* A lookup returns known addresses.
LEMMA LookupType ==
  ASSUME dns \in [Name -> Answers], NEW u \in Url
  PROVE  ToSocketAddrs(u) \subseteq Address
  BY LiteralAssumption DEF ToSocketAddrs, Answers

LEMMA NextInv == Inv /\ [Next]_vars => Inv'
<1> SUFFICES ASSUME Inv, [Next]_vars PROVE Inv'
  OBVIOUS
<1> USE LimitAssumption
<1>1. ASSUME NEW u \in Url, Resolve(u) PROVE Inv'
  BY <1>1 DEF Inv, TypeOK, UrlChecked, AddressesSeen, Requested, Resolve, Stop, request, Allowlisted
<1>2. CASE Check
  BY <1>2 DEF Inv, TypeOK, UrlChecked, AddressesSeen, Requested, Check, Stop, request, Allowlisted
<1>3. CASE Lookup
  <2>1. current \in Url
    BY <1>3 DEF Inv, UrlChecked, Lookup
  <2>2. ToSocketAddrs(current) \subseteq Address
    BY <2>1, LookupType DEF Inv, TypeOK
  <2>3. dns' = dns /\ current' = current
    BY <1>3 DEF Lookup, Stop
  <2>4. ToSocketAddrs(current)' = ToSocketAddrs(current)
    BY <2>3 DEF ToSocketAddrs
  <2> QED
    BY <1>3, <2>2, <2>4 DEF Inv, TypeOK, UrlChecked, AddressesSeen, Requested, Lookup, Stop,
      request, Allowlisted, ResolveIpIsSafe
<1>4. CASE Connect
  <2>1. current \in Url
    BY <1>4 DEF Inv, UrlChecked, Connect
  <2>2. ToSocketAddrs(current) \subseteq Address
    BY <2>1, LookupType DEF Inv, TypeOK
  <2> QED
    BY <1>4, <2>1, <2>2 DEF Inv, TypeOK, UrlChecked, AddressesSeen, Requested, Connect, Stop,
      request, Allowlisted
<1>5. CASE Reply
  <2>1. CASE ReplyError \/ ReplyInvalid
    BY <1>5, <2>1 DEF Inv, TypeOK, UrlChecked, AddressesSeen, Requested, ReplyError,
      ReplyInvalid, Stop, request, Allowlisted
  <2>2. CASE ReplyFinal
    BY <2>2 DEF Inv, TypeOK, UrlChecked, AddressesSeen, Requested, ReplyFinal, Return,
      request, Allowlisted
  <2>3. ASSUME NEW u \in Url, ReplyRedirect(u) PROVE Inv'
    BY <2>3 DEF Inv, TypeOK, UrlChecked, AddressesSeen, Requested, ReplyRedirect,
      ClassifyRedirectLocation, Follow, Stop, Return, request, Allowlisted
  <2> QED
    BY <1>5, <2>1, <2>2, <2>3 DEF Reply
<1>6. ASSUME NEW n \in Name, ChangeDns(n) PROVE Inv'
  <2>1. dns' \in [Name -> Answers]
    BY <1>6 DEF ChangeDns, Inv, TypeOK
  <2>2. UNCHANGED <<enabled, pc, current, found, hop, asked, reached, result>>
    BY <1>6 DEF ChangeDns, request
  <2>3. pc = "connect" /\ current.host.kind = "ip" => ToSocketAddrs(current)' = ToSocketAddrs(current)
    BY <2>2 DEF ToSocketAddrs
  <2> QED
    BY <2>1, <2>2, <2>3 DEF Inv, TypeOK, UrlChecked, AddressesSeen, Requested, Allowlisted
<1>7. CASE UNCHANGED vars
  <2>1. ToSocketAddrs(current)' = ToSocketAddrs(current)
    BY <1>7 DEF vars, ToSocketAddrs
  <2> QED
    BY <1>7, <2>1 DEF vars, request, Inv, TypeOK, UrlChecked, AddressesSeen, Requested, Allowlisted
<1> QED
  BY <1>1, <1>2, <1>3, <1>4, <1>5, <1>6, <1>7 DEF Next

LEMMA Invariance == Spec => []Inv
  BY InitInv, NextInv, PTL DEF Spec

\* Type correctness, for any URLs, names and addresses (network.rs:137-222).
THEOREM TypeCorrect == Spec => []TypeOK
<1>1. Inv => TypeOK
  BY DEF Inv
<1> QED
  BY <1>1, Invariance, PTL

\* However servers redirect and name servers change their answers, a request
\* goes to a listed and checked host, whose addresses were unblocked when they
\* were looked up (network.rs:141-170).
THEOREM ContactsAreChecked == Spec => []ContactsChecked
<1>1. Inv => ContactsChecked
  BY DEF Inv, UrlChecked, AddressesSeen, Requested, ContactsChecked
<1> QED
  BY <1>1, Invariance, PTL

\* The resolver starts as its promise does.
LEMMA InitPromise == Init => Promise!Init
  BY DEF Init, Promise!Init, Phase

\* Each step is a step of the promise or leaves it as it is.
LEMMA StepPromise == Inv /\ [Next]_vars => [Promise!Next]_Promise!vars
<1> SUFFICES ASSUME Inv, [Next]_vars PROVE [Promise!Next]_Promise!vars
  OBVIOUS
<1> USE LimitAssumption, UrlAssumption DEF Promise!vars
<1>1. ASSUME NEW u \in Url, Resolve(u) PROVE [Promise!Next]_Promise!vars
  <2>1. CASE enabled /\ Allowlisted(u)
    BY <1>1, <2>1 DEF Resolve, Stop, request, Phase, Promise!Next, Promise!Ask
  <2>2. CASE ~(enabled /\ Allowlisted(u))
    BY <1>1, <2>2 DEF Resolve, Stop, request, Phase, Promise!Next, Promise!GiveUp
  <2> QED
    BY <2>1, <2>2
<1>2. CASE Check
  <2>1. CASE pc' = "done"
    BY <1>2, <2>1 DEF Check, Stop, request, Phase, Promise!Next, Promise!GiveUp
  <2>2. CASE pc' = "lookup"
    BY <1>2, <2>2 DEF Check, Stop, request, Phase
  <2> QED
    BY <1>2, <2>1, <2>2 DEF Check, Stop
<1>3. CASE Lookup
  <2>1. CASE pc' = "done"
    BY <1>3, <2>1 DEF Lookup, Stop, request, Phase, Promise!Next, Promise!GiveUp
  <2>2. CASE pc' = "connect"
    BY <1>3, <2>2 DEF Lookup, Stop, request, Phase
  <2> QED
    BY <1>3, <2>1, <2>2 DEF Lookup, Stop
<1>4. CASE Connect
  <2>1. CASE Stop
    BY <1>4, <2>1 DEF Connect, Stop, request, Phase, Promise!Next, Promise!GiveUp
  <2>2. CASE ~Stop
    <3>1. /\ pc = "connect" /\ pc' = "reply" /\ hop' = hop + 1
          /\ asked' = current /\ result' = result
      BY <1>4, <2>2 DEF Connect
    <3>2. current \in {u \in Url : Allowlisted(u) /\ PreflightOk(u)} /\ hop \in Nat
          /\ hop <= MAX_REDIRECTS
      BY <3>1 DEF Inv, UrlChecked, TypeOK
    <3>3. Promise!Contact
      BY <3>1, <3>2 DEF Promise!Contact, Phase
    <3> QED
      BY <3>3 DEF Promise!Next
  <2> QED
    BY <2>1, <2>2
<1>5. CASE Reply
  <2>1. pc = "reply" /\ asked \in Url /\ asked = current /\ PreflightOk(current) /\ result = NoUrl
    BY <1>5 DEF Reply, ReplyError, ReplyFinal, ReplyInvalid, ReplyRedirect, Inv, UrlChecked, Requested
  <2>2. CASE Stop
    BY <2>1, <2>2 DEF Stop, request, Phase, Promise!Next, Promise!GiveUp
  <2>3. ASSUME NEW u \in Url, Return(u), PreflightOk(u), Allowlisted(u) => u = current
        PROVE  Promise!Next
    <3>1. Promise!Answer
      BY <2>1, <2>3 DEF Return, request, Phase, Promise!Answer
    <3> QED
      BY <3>1 DEF Promise!Next
  <2>4. ASSUME NEW u \in Url, Follow(u) PROVE UNCHANGED Promise!vars
    BY <2>1, <2>4 DEF Follow, request, Phase
  <2>5. CASE ReplyFinal
    BY <2>1, <2>3, <2>5 DEF ReplyFinal
  <2>6. ASSUME NEW u \in Url, ReplyRedirect(u) PROVE [Promise!Next]_Promise!vars
    BY <2>2, <2>3, <2>4, <2>6 DEF ReplyRedirect, ClassifyRedirectLocation
  <2> QED
    BY <1>5, <2>2, <2>5, <2>6 DEF Reply, ReplyError, ReplyInvalid
<1>6. ASSUME NEW n \in Name, ChangeDns(n) PROVE UNCHANGED Promise!vars
  BY <1>6 DEF ChangeDns, request, Phase
<1>7. CASE UNCHANGED vars
  BY <1>7 DEF vars, request, Phase
<1> QED
  BY <1>1, <1>2, <1>3, <1>4, <1>5, <1>6, <1>7 DEF Next

\* The resolver keeps its promise, fairness aside: at most MAX_REDIRECTS + 1
\* requests, only to listed and checked hosts, and an answer only on the word
\* of the host asked last (network.rs:137-276).
THEOREM ImplementsPromiseSafety == Spec => Promise!Init /\ [][Promise!Next]_Promise!vars
  BY InitPromise, StepPromise, Invariance, PTL DEF Spec

-----------------------------------------------------------------------------
(* The tests on addresses and the blocks they stand for.                   *)

\* The leading bits of a byte: none, all, and those with which a block ends.
LEMMA Leading8 ==
  ASSUME NEW n \in 0..255
  PROVE  /\ Leading(n, 8, 0) = 0 /\ Leading(n, 8, 8) = n
         /\ Leading(n, 8, 2) = n \div 64 /\ Leading(n, 8, 4) = n \div 16
         /\ Leading(n, 8, 7) = n \div 2
<1>1. n \in Nat /\ n < 256
  OBVIOUS
<1>2. n \div 256 = 0
  BY <1>1
<1>3. n \div 1 = n
  BY <1>1
<1>4. 2 ^ (8 - 0) = 256
  OBVIOUS
<1>5. 2 ^ (8 - 8) = 1
  OBVIOUS
<1>6. Leading(n, 8, 0) = 0
  BY <1>2, <1>4 DEF Leading
<1>7. Leading(n, 8, 8) = n
  BY <1>3, <1>5 DEF Leading
<1>8. Leading(n, 8, 2) = n \div 64
  BY DEF Leading
<1>9. Leading(n, 8, 4) = n \div 16
  BY DEF Leading
<1>10. Leading(n, 8, 7) = n \div 2
  BY DEF Leading
<1> QED
  BY <1>6, <1>7, <1>8, <1>9, <1>10

LEMMA LeadingBytes ==
  ASSUME NEW o \in Ipv4
  PROVE  /\ o[1] \in 0..255 /\ o[2] \in 0..255 /\ o[3] \in 0..255 /\ o[4] \in 0..255
         /\ Leading(o[1], 8, 8) = o[1] /\ Leading(o[1], 8, 4) = o[1] \div 16
         /\ Leading(o[2], 8, 8) = o[2] /\ Leading(o[2], 8, 0) = 0
         /\ Leading(o[2], 8, 2) = o[2] \div 64 /\ Leading(o[2], 8, 4) = o[2] \div 16
         /\ Leading(o[2], 8, 7) = o[2] \div 2
         /\ Leading(o[3], 8, 8) = o[3] /\ Leading(o[3], 8, 0) = 0
         /\ Leading(o[4], 8, 8) = o[4] /\ Leading(o[4], 8, 0) = 0
<1>1. o[1] \in 0..255 /\ o[2] \in 0..255 /\ o[3] \in 0..255 /\ o[4] \in 0..255
  BY DEF Ipv4
<1> QED
  BY <1>1, Leading8

\* A block of version 4, byte by byte.
LEMMA Block4 ==
  ASSUME NEW o \in Ipv4, NEW base \in Ipv4, NEW bits \in Nat
  PROVE  InBlock(o, 8, base, bits) <=>
           /\ Leading(o[1], 8, Share(bits, 1, 8)) = Leading(base[1], 8, Share(bits, 1, 8))
           /\ Leading(o[2], 8, Share(bits, 2, 8)) = Leading(base[2], 8, Share(bits, 2, 8))
           /\ Leading(o[3], 8, Share(bits, 3, 8)) = Leading(base[3], 8, Share(bits, 3, 8))
           /\ Leading(o[4], 8, Share(bits, 4, 8)) = Leading(base[4], 8, Share(bits, 4, 8))
<1>1. DOMAIN o = {1, 2, 3, 4}
  BY DEF Ipv4
<1> QED
  BY <1>1 DEF InBlock

LEMMA Block4Of8 ==
  ASSUME NEW o \in Ipv4, NEW base \in Ipv4
  PROVE  InBlock(o, 8, base, 8) <=> o[1] = base[1]
<1>1. Share(8, 1, 8) = 8 /\ Share(8, 2, 8) = 0 /\ Share(8, 3, 8) = 0 /\ Share(8, 4, 8) = 0
  BY DEF Share
<1>2. InBlock(o, 8, base, 8) <=>
        /\ Leading(o[1], 8, 8) = Leading(base[1], 8, 8)
        /\ Leading(o[2], 8, 0) = Leading(base[2], 8, 0)
        /\ Leading(o[3], 8, 0) = Leading(base[3], 8, 0)
        /\ Leading(o[4], 8, 0) = Leading(base[4], 8, 0)
  BY <1>1, Block4
<1> QED
  BY <1>2, LeadingBytes

LEMMA Block4Of16 ==
  ASSUME NEW o \in Ipv4, NEW base \in Ipv4
  PROVE  InBlock(o, 8, base, 16) <=> o[1] = base[1] /\ o[2] = base[2]
<1>1. Share(16, 1, 8) = 8 /\ Share(16, 2, 8) = 8 /\ Share(16, 3, 8) = 0 /\ Share(16, 4, 8) = 0
  BY DEF Share
<1>2. InBlock(o, 8, base, 16) <=>
        /\ Leading(o[1], 8, 8) = Leading(base[1], 8, 8)
        /\ Leading(o[2], 8, 8) = Leading(base[2], 8, 8)
        /\ Leading(o[3], 8, 0) = Leading(base[3], 8, 0)
        /\ Leading(o[4], 8, 0) = Leading(base[4], 8, 0)
  BY <1>1, Block4
<1> QED
  BY <1>2, LeadingBytes

LEMMA Block4Of24 ==
  ASSUME NEW o \in Ipv4, NEW base \in Ipv4
  PROVE  InBlock(o, 8, base, 24) <=> o[1] = base[1] /\ o[2] = base[2] /\ o[3] = base[3]
<1>1. Share(24, 1, 8) = 8 /\ Share(24, 2, 8) = 8 /\ Share(24, 3, 8) = 8 /\ Share(24, 4, 8) = 0
  BY DEF Share
<1>2. InBlock(o, 8, base, 24) <=>
        /\ Leading(o[1], 8, 8) = Leading(base[1], 8, 8)
        /\ Leading(o[2], 8, 8) = Leading(base[2], 8, 8)
        /\ Leading(o[3], 8, 8) = Leading(base[3], 8, 8)
        /\ Leading(o[4], 8, 0) = Leading(base[4], 8, 0)
  BY <1>1, Block4
<1> QED
  BY <1>2, LeadingBytes

LEMMA Block4Of32 ==
  ASSUME NEW o \in Ipv4, NEW base \in Ipv4
  PROVE  InBlock(o, 8, base, 32) <=> o[1] = base[1] /\ o[2] = base[2] /\ o[3] = base[3] /\ o[4] = base[4]
<1>1. Share(32, 1, 8) = 8 /\ Share(32, 2, 8) = 8 /\ Share(32, 3, 8) = 8 /\ Share(32, 4, 8) = 8
  BY DEF Share
<1>2. InBlock(o, 8, base, 32) <=>
        /\ Leading(o[1], 8, 8) = Leading(base[1], 8, 8)
        /\ Leading(o[2], 8, 8) = Leading(base[2], 8, 8)
        /\ Leading(o[3], 8, 8) = Leading(base[3], 8, 8)
        /\ Leading(o[4], 8, 8) = Leading(base[4], 8, 8)
  BY <1>1, Block4
<1> QED
  BY <1>2, LeadingBytes

LEMMA Block4Of4 ==
  ASSUME NEW o \in Ipv4, NEW base \in Ipv4
  PROVE  InBlock(o, 8, base, 4) <=> o[1] \div 16 = base[1] \div 16
<1>1. Share(4, 1, 8) = 4 /\ Share(4, 2, 8) = 0 /\ Share(4, 3, 8) = 0 /\ Share(4, 4, 8) = 0
  BY DEF Share
<1>2. InBlock(o, 8, base, 4) <=>
        /\ Leading(o[1], 8, 4) = Leading(base[1], 8, 4)
        /\ Leading(o[2], 8, 0) = Leading(base[2], 8, 0)
        /\ Leading(o[3], 8, 0) = Leading(base[3], 8, 0)
        /\ Leading(o[4], 8, 0) = Leading(base[4], 8, 0)
  BY <1>1, Block4
<1> QED
  BY <1>2, LeadingBytes

LEMMA Block4Of10 ==
  ASSUME NEW o \in Ipv4, NEW base \in Ipv4
  PROVE  InBlock(o, 8, base, 10) <=> o[1] = base[1] /\ o[2] \div 64 = base[2] \div 64
<1>1. Share(10, 1, 8) = 8 /\ Share(10, 2, 8) = 2 /\ Share(10, 3, 8) = 0 /\ Share(10, 4, 8) = 0
  BY DEF Share
<1>2. InBlock(o, 8, base, 10) <=>
        /\ Leading(o[1], 8, 8) = Leading(base[1], 8, 8)
        /\ Leading(o[2], 8, 2) = Leading(base[2], 8, 2)
        /\ Leading(o[3], 8, 0) = Leading(base[3], 8, 0)
        /\ Leading(o[4], 8, 0) = Leading(base[4], 8, 0)
  BY <1>1, Block4
<1> QED
  BY <1>2, LeadingBytes

LEMMA Block4Of12 ==
  ASSUME NEW o \in Ipv4, NEW base \in Ipv4
  PROVE  InBlock(o, 8, base, 12) <=> o[1] = base[1] /\ o[2] \div 16 = base[2] \div 16
<1>1. Share(12, 1, 8) = 8 /\ Share(12, 2, 8) = 4 /\ Share(12, 3, 8) = 0 /\ Share(12, 4, 8) = 0
  BY DEF Share
<1>2. InBlock(o, 8, base, 12) <=>
        /\ Leading(o[1], 8, 8) = Leading(base[1], 8, 8)
        /\ Leading(o[2], 8, 4) = Leading(base[2], 8, 4)
        /\ Leading(o[3], 8, 0) = Leading(base[3], 8, 0)
        /\ Leading(o[4], 8, 0) = Leading(base[4], 8, 0)
  BY <1>1, Block4
<1> QED
  BY <1>2, LeadingBytes

LEMMA Block4Of15 ==
  ASSUME NEW o \in Ipv4, NEW base \in Ipv4
  PROVE  InBlock(o, 8, base, 15) <=> o[1] = base[1] /\ o[2] \div 2 = base[2] \div 2
<1>1. Share(15, 1, 8) = 8 /\ Share(15, 2, 8) = 7 /\ Share(15, 3, 8) = 0 /\ Share(15, 4, 8) = 0
  BY DEF Share
<1>2. InBlock(o, 8, base, 15) <=>
        /\ Leading(o[1], 8, 8) = Leading(base[1], 8, 8)
        /\ Leading(o[2], 8, 7) = Leading(base[2], 8, 7)
        /\ Leading(o[3], 8, 0) = Leading(base[3], 8, 0)
        /\ Leading(o[4], 8, 0) = Leading(base[4], 8, 0)
  BY <1>1, Block4
<1> QED
  BY <1>2, LeadingBytes


\* The tests on the bytes of an address of version 4 are its blocks.
LEMMA Blocks4Exact ==
  ASSUME NEW o \in Ipv4
  PROVE  IsBlockedIpv4(o) <=> Blocked4(o)
<1> DEFINE In(base, bits) == InBlock(o, 8, base, bits)
<1>1. o[1] \in 0..255 /\ o[2] \in 0..255 /\ o[3] \in 0..255 /\ o[4] \in 0..255
  BY LeadingBytes
<1>2. In(<<127, 0, 0, 0>>, 8) <=> o[1] = 127
  BY Block4Of8 DEF Ipv4
<1>3. In(<<10, 0, 0, 0>>, 8) <=> o[1] = 10
  BY Block4Of8 DEF Ipv4
<1>4. In(<<172, 16, 0, 0>>, 12) <=> o[1] = 172 /\ o[2] \in 16..31
  <2>1. <<172, 16, 0, 0>> \in Ipv4
    BY DEF Ipv4
  <2>2. In(<<172, 16, 0, 0>>, 12) <=> o[1] = 172 /\ o[2] \div 16 = 1
    BY <2>1, Block4Of12
  <2> QED
    BY <1>1, <2>2
<1>5. In(<<192, 168, 0, 0>>, 16) <=> o[1] = 192 /\ o[2] = 168
  BY Block4Of16 DEF Ipv4
<1>6. In(<<169, 254, 0, 0>>, 16) <=> o[1] = 169 /\ o[2] = 254
  BY Block4Of16 DEF Ipv4
<1>7. In(<<192, 0, 2, 0>>, 24) <=> o[1] = 192 /\ o[2] = 0 /\ o[3] = 2
  BY Block4Of24 DEF Ipv4
<1>8. In(<<198, 51, 100, 0>>, 24) <=> o[1] = 198 /\ o[2] = 51 /\ o[3] = 100
  BY Block4Of24 DEF Ipv4
<1>9. In(<<203, 0, 113, 0>>, 24) <=> o[1] = 203 /\ o[2] = 0 /\ o[3] = 113
  BY Block4Of24 DEF Ipv4
<1>10. In(<<0, 0, 0, 0>>, 32) <=> o[1] = 0 /\ o[2] = 0 /\ o[3] = 0 /\ o[4] = 0
  BY Block4Of32 DEF Ipv4
<1>11. In(<<100, 64, 0, 0>>, 10) <=> o[1] = 100 /\ o[2] \div 64 = 1
  BY Block4Of10 DEF Ipv4
<1>12. In(<<198, 18, 0, 0>>, 15) <=> o[1] = 198 /\ o[2] \in {18, 19}
  <2>1. <<198, 18, 0, 0>> \in Ipv4
    BY DEF Ipv4
  <2>2. In(<<198, 18, 0, 0>>, 15) <=> o[1] = 198 /\ o[2] \div 2 = 9
    BY <2>1, Block4Of15
  <2> QED
    BY <1>1, <2>2
<1>13. In(<<192, 0, 0, 0>>, 24) <=> o[1] = 192 /\ o[2] = 0 /\ o[3] = 0
  BY Block4Of24 DEF Ipv4
<1>14. In(<<224, 0, 0, 0>>, 4) <=> o[1] \in 224..239
  <2>1. <<224, 0, 0, 0>> \in Ipv4
    BY DEF Ipv4
  <2>2. In(<<224, 0, 0, 0>>, 4) <=> o[1] \div 16 = 14
    BY <2>1, Block4Of4
  <2> QED
    BY <1>1, <2>2
<1>15. In(<<240, 0, 0, 0>>, 4) <=> o[1] >= 240
  <2>1. <<240, 0, 0, 0>> \in Ipv4
    BY DEF Ipv4
  <2>2. In(<<240, 0, 0, 0>>, 4) <=> o[1] \div 16 = 15
    BY <2>1, Block4Of4
  <2> QED
    BY <1>1, <2>2
<1>16. Blocked4(o) <=>
         \/ In(<<127, 0, 0, 0>>, 8) \/ In(<<10, 0, 0, 0>>, 8) \/ In(<<172, 16, 0, 0>>, 12)
         \/ In(<<192, 168, 0, 0>>, 16) \/ In(<<169, 254, 0, 0>>, 16)
         \/ In(<<192, 0, 2, 0>>, 24) \/ In(<<198, 51, 100, 0>>, 24) \/ In(<<203, 0, 113, 0>>, 24)
         \/ In(<<0, 0, 0, 0>>, 32) \/ In(<<100, 64, 0, 0>>, 10) \/ In(<<198, 18, 0, 0>>, 15)
         \/ In(<<192, 0, 0, 0>>, 24) \/ In(<<224, 0, 0, 0>>, 4) \/ In(<<240, 0, 0, 0>>, 4)
  BY DEF Blocked4
<1> HIDE DEF In
<1>17. o = <<o[1], o[2], o[3], o[4]>>
  BY DEF Ipv4
<1>18. \A a, b, c : <<o[1], o[2], o[3]>> = <<a, b, c>> <=> o[1] = a /\ o[2] = b /\ o[3] = c
  OBVIOUS
<1> QED
  BY <1>2, <1>3, <1>4, <1>5, <1>6, <1>7, <1>8, <1>9, <1>10, <1>11, <1>12, <1>13, <1>14,
     <1>15, <1>16, <1>17, <1>18 DEF IsBlockedIpv4


LEMMA Leading16 ==
  ASSUME NEW n \in Word
  PROVE  /\ Leading(n, 16, 0) = 0 /\ Leading(n, 16, 16) = n
         /\ Leading(n, 16, 7) = n \div 512 /\ Leading(n, 16, 8) = n \div 256
         /\ Leading(n, 16, 10) = n \div 64
<1>1. n \in Nat /\ n < 65536
  BY DEF Word
<1>2. 2 ^ (16 - 0) = 65536
  OBVIOUS
<1>3. 2 ^ (16 - 16) = 1
  OBVIOUS
<1>4. 2 ^ (16 - 7) = 512
  OBVIOUS
<1>5. 2 ^ (16 - 8) = 256
  OBVIOUS
<1>6. 2 ^ (16 - 10) = 64
  OBVIOUS
<1>7. n \div 65536 = 0
  BY <1>1
<1>8. n \div 1 = n
  BY <1>1
<1>9. Leading(n, 16, 0) = 0
  BY <1>2, <1>7 DEF Leading
<1>10. Leading(n, 16, 16) = n
  BY <1>3, <1>8 DEF Leading
<1>11. Leading(n, 16, 7) = n \div 512
  BY <1>4 DEF Leading
<1>12. Leading(n, 16, 8) = n \div 256
  BY <1>5 DEF Leading
<1>13. Leading(n, 16, 10) = n \div 64
  BY <1>6 DEF Leading
<1> QED
  BY <1>9, <1>10, <1>11, <1>12, <1>13

LEMMA WordsOf ==
  ASSUME NEW s \in Ipv6
  PROVE  Len(s) = 8 /\ DOMAIN s = 1..8 /\ \A i \in 1..8 : s[i] \in Word
<1>1. s \in Seq(Word) /\ Len(s) = 8
  BY DEF Ipv6
<1>2. DOMAIN s = 1..8
  BY <1>1
<1>3. \A i \in 1..8 : s[i] \in Word
  BY <1>1, ElementOfSeq
<1> QED
  BY <1>1, <1>2, <1>3

\* A block of version 6 that ends in the first word.
LEMMA Block6First ==
  ASSUME NEW s \in Ipv6, NEW base \in Ipv6, NEW bits \in 0..16
  PROVE  InBlock(s, 16, base, bits) <=> Leading(s[1], 16, bits) = Leading(base[1], 16, bits)
<1>1. Share(bits, 1, 16) = bits /\ \A i \in 2..8 : Share(bits, i, 16) = 0
  BY DEF Share
<1>2. \A i \in 1..8 : Leading(s[i], 16, 0) = 0 /\ Leading(base[i], 16, 0) = 0
  BY WordsOf, Leading16
<1>3. DOMAIN s = 1..8
  BY WordsOf
<1>4. \A i \in 1..8 : i = 1 \/ i \in 2..8
  OBVIOUS
<1>5. \A i \in 2..8 : i \in 1..8
  OBVIOUS
<1> QED
  BY <1>1, <1>2, <1>3, <1>4, <1>5 DEF InBlock

\* A block of six whole words.
LEMMA Block6Of96 ==
  ASSUME NEW s \in Ipv6, NEW base \in Ipv6
  PROVE  InBlock(s, 16, base, 96) <=> \A i \in 1..6 : s[i] = base[i]
<1>1. \A i \in 1..6 : Share(96, i, 16) = 16
  BY DEF Share
<1>2. \A i \in 7..8 : Share(96, i, 16) = 0
  BY DEF Share
<1>3. \A i \in 1..8 : /\ Leading(s[i], 16, 0) = 0 /\ Leading(base[i], 16, 0) = 0
                      /\ Leading(s[i], 16, 16) = s[i] /\ Leading(base[i], 16, 16) = base[i]
  BY WordsOf, Leading16
<1>4. DOMAIN s = 1..8
  BY WordsOf
<1>5. \A i \in 1..8 : i \in 1..6 \/ i \in 7..8
  OBVIOUS
<1>6. \A i \in 1..6 : i \in 1..8
  OBVIOUS
<1> QED
  BY <1>1, <1>2, <1>3, <1>4, <1>5, <1>6 DEF InBlock

LEMMA EmbeddedType ==
  ASSUME NEW s \in Ipv6
  PROVE  Embedded(s) \in Ipv4
<1>1. s[7] \in Word /\ s[8] \in Word
  BY WordsOf
<1>2. \A n \in Word : n \in Nat /\ n < 65536
  BY DEF Word
<1>3. \A n \in Nat : n < 65536 => n \div 256 \in 0..255 /\ n % 256 \in 0..255
  OBVIOUS
<1>4. \A n \in Word : n \div 256 \in 0..255 /\ n % 256 \in 0..255
  BY <1>2, <1>3
<1> QED
  BY <1>1, <1>4 DEF Embedded, Ipv4

\* The tests on the words of an address of version 6 are its blocks.
LEMMA Blocks6Exact ==
  ASSUME NEW s \in Ipv6
  PROVE  IsBlockedIpv6(s) <=> Blocked6(s)
<1> DEFINE In(base, bits) == InBlock(s, 16, base, bits)
           local == <<64512, 0, 0, 0, 0, 0, 0, 0>>
           link  == <<65152, 0, 0, 0, 0, 0, 0, 0>>
           multi == <<65280, 0, 0, 0, 0, 0, 0, 0>>
<1>0. 0 \in Word /\ 64512 \in Word /\ 65152 \in Word /\ 65280 \in Word /\ 65535 \in Word
  BY DEF Word
<1>1. local \in Ipv6 /\ link \in Ipv6 /\ multi \in Ipv6
  BY <1>0 DEF Ipv6
<1>2. local[1] = 64512 /\ link[1] = 65152 /\ multi[1] = 65280
  OBVIOUS
<1>3. Unspecified6 \in Ipv6 /\ \A i \in 1..8 : Unspecified6[i] = 0
  BY <1>0 DEF Ipv6, Unspecified6
<1>4. Mapped6 \in Ipv6 /\ Mapped6[6] = 65535 /\ \A i \in 1..5 : Mapped6[i] = 0
  BY <1>0 DEF Ipv6, Unspecified6, Mapped6
<1>5. s[1] \in Word /\ 7 \in 0..16 /\ 10 \in 0..16 /\ 8 \in 0..16
  BY WordsOf
<1> HIDE DEF local, link, multi
<1>6. /\ Leading(s[1], 16, 7) = s[1] \div 512 /\ Leading(s[1], 16, 10) = s[1] \div 64
      /\ Leading(s[1], 16, 8) = s[1] \div 256
  BY <1>5, Leading16
<1>7. /\ Leading(64512, 16, 7) = 126 /\ Leading(65152, 16, 10) = 1018
      /\ Leading(65280, 16, 8) = 255
  BY DEF Leading
<1>8. In(local, 7) <=> s[1] \div 512 = 126
  BY <1>1, <1>2, <1>5, <1>6, <1>7, Block6First
<1>9. In(link, 10) <=> s[1] \div 64 = 1018
  BY <1>1, <1>2, <1>5, <1>6, <1>7, Block6First
<1>10. In(multi, 8) <=> s[1] \div 256 = 255
  BY <1>1, <1>2, <1>5, <1>6, <1>7, Block6First
<1>11. In(Unspecified6, 96) <=> \A i \in 1..6 : s[i] = 0
  <2>1. \A i \in 1..6 : Unspecified6[i] = 0
    BY <1>3
  <2> QED
    BY <1>3, <2>1, Block6Of96
<1>12. In(Mapped6, 96) <=> (\A i \in 1..5 : s[i] = 0) /\ s[6] = 65535
  <2>1. In(Mapped6, 96) <=> \A i \in 1..6 : s[i] = Mapped6[i]
    BY <1>4, Block6Of96
  <2>2. \A i \in 1..6 : i \in 1..5 \/ i = 6
    OBVIOUS
  <2>3. \A i \in 1..5 : i \in 1..6
    OBVIOUS
  <2> QED
    BY <1>4, <2>1, <2>2, <2>3
<1>13. SubSeq(s, 1, 5) = <<0, 0, 0, 0, 0>> <=> \A i \in 1..5 : s[i] = 0
  <2> DEFINE t == SubSeq(s, 1, 5)
             zeros == <<0, 0, 0, 0, 0>>
  <2>1. s \in Seq(Word) /\ Len(s) = 8
    BY DEF Ipv6
  <2>2. t \in Seq(Word) /\ Len(t) = 5 /\ \A i \in 1..5 : t[i] = s[i]
    <3>1. \A i \in 1..5 : s[i] \in Word
      BY WordsOf
    <3>2. /\ SubSeq(s, 1, 5) \in Seq(Word) /\ Len(SubSeq(s, 1, 5)) = 5
          /\ \A i \in 1..5 : SubSeq(s, 1, 5)[i] = s[1 + i - 1]
      BY <3>1, SubSeqProperties
    <3>3. \A i \in 1..5 : 1 + i - 1 = i
      OBVIOUS
    <3> QED
      BY <3>2, <3>3
  <2>3. zeros \in Seq(Word) /\ Len(zeros) = 5 /\ \A i \in 1..5 : zeros[i] = 0
    BY <1>0
  <2> HIDE DEF t, zeros
  <2>4. t = zeros <=> \A i \in 1..5 : t[i] = zeros[i]
    BY <2>2, <2>3
  <2>5. t = zeros <=> \A i \in 1..5 : s[i] = 0
    BY <2>2, <2>3, <2>4
  <2> QED
    BY <2>5 DEF t, zeros
<1>14. (\A i \in 1..6 : s[i] = 0) <=> (\A i \in 1..5 : s[i] = 0) /\ s[6] = 0
  <2>1. \A i \in 1..6 : i \in 1..5 \/ i = 6
    OBVIOUS
  <2>2. \A i \in 1..5 : i \in 1..6
    OBVIOUS
  <2> QED
    BY <2>1, <2>2
<1>15. (SubSeq(s, 1, 5) = <<0, 0, 0, 0, 0>> /\ s[6] \in {0, 65535})
          <=> In(Unspecified6, 96) \/ In(Mapped6, 96)
  BY <1>11, <1>12, <1>13, <1>14
<1>16. IsBlockedIpv4(Embedded(s)) <=> Blocked4(Embedded(s))
  BY EmbeddedType, Blocks4Exact
\* The unspecified address carries that of version 4.
<1>17. s = Unspecified6 => In(Unspecified6, 96) /\ Blocked4(Embedded(s))
  <2> SUFFICES ASSUME s = Unspecified6
               PROVE  In(Unspecified6, 96) /\ Blocked4(Embedded(s))
    OBVIOUS
  <2>1. s[7] = 0 /\ s[8] = 0 /\ \A i \in 1..6 : s[i] = 0
    BY <1>3
  <2>2. 0 \div 256 = 0 /\ 0 % 256 = 0
    OBVIOUS
  <2>3. Embedded(s) = <<0, 0, 0, 0>>
    BY <2>1, <2>2 DEF Embedded
  <2>4. IsBlockedIpv4(<<0, 0, 0, 0>>)
    BY DEF IsBlockedIpv4
  <2> QED
    BY <1>11, <1>16, <2>1, <2>3, <2>4
<1>18. Blocked6(s) <=>
         \/ In(local, 7) \/ In(link, 10) \/ In(multi, 8) \/ s = Loopback6
         \/ (In(Unspecified6, 96) \/ In(Mapped6, 96)) /\ Blocked4(Embedded(s))
  BY DEF Blocked6, local, link, multi
<1>19. IsBlockedIpv6(s) <=>
         \/ s = Loopback6 \/ s = Unspecified6
         \/ s[1] \div 256 = 255 \/ s[1] \div 512 = 126 \/ s[1] \div 64 = 1018
         \/ /\ SubSeq(s, 1, 5) = <<0, 0, 0, 0, 0>> /\ s[6] \in {0, 65535}
            /\ IsBlockedIpv4(Embedded(s))
  BY DEF IsBlockedIpv6
<1> HIDE DEF In
<1> QED
  BY <1>8, <1>9, <1>10, <1>15, <1>16, <1>17, <1>18, <1>19

\* The tests on bytes and words are exactly the blocks, for all 2^32 addresses
\* of version 4 and all 2^128 of version 6.
THEOREM BlocksExact == \A ip \in Ipv4 \cup Ipv6 : IsBlockedIp(ip) <=> Blocked(ip)
<1>1. ASSUME NEW ip \in Ipv4 PROVE IsBlockedIp(ip) <=> Blocked(ip)
  <2>1. Len(ip) = 4
    <3>1. ip = <<ip[1], ip[2], ip[3], ip[4]>>
      BY DEF Ipv4
    <3> QED
      BY <3>1
  <2> QED
    BY <2>1, Blocks4Exact DEF IsBlockedIp, Blocked
<1>2. ASSUME NEW ip \in Ipv6 PROVE IsBlockedIp(ip) <=> Blocked(ip)
  <2>1. Len(ip) # 4
    BY WordsOf
  <2> QED
    BY <2>1, Blocks6Exact DEF IsBlockedIp, Blocked
<1> QED
  BY <1>1, <1>2

\* No address is let through or refused by mistake, wherever it is met
\* (validate.rs:155-213).
THEOREM RangesBlocked == Spec => []BlockedRanges
<1>1. BlockedRanges
  BY BlocksExact, ProbeAssumption DEF BlockedRanges
<1> QED
  BY <1>1, PTL

=============================================================================
