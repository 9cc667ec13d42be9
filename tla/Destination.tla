---------------------------- MODULE Destination ----------------------------
(***************************************************************************)
(* Which URLs may be linked to or contacted: src/validate.rs, preflight_ok *)
(* of src/network.rs and the allow-list of src/config.rs.                  *)
(*                                                                         *)
(* A URL is what the parser makes of it: scheme, whether it has a user     *)
(* name, and its host.  A host is a domain (its labels), a literal address *)
(* (its text, cut at dots, and its numbers: four bytes or eight words) or  *)
(* missing.  The parser hands a domain over in ASCII form, with letters of *)
(* no script but Latin, and escapes control characters: the checks for     *)
(* mixed scripts and control characters let every parsed URL pass, and are *)
(* left out.                                                               *)
(***************************************************************************)
EXTENDS Integers, Sequences, SequencesExt

Domain(labels) == [kind |-> "domain", labels |-> labels, ip |-> <<>>]
Literal(text, ip) == [kind |-> "ip", labels |-> text, ip |-> ip]
NoDomain == [kind |-> "none", labels |-> <<>>, ip |-> <<>>]

-----------------------------------------------------------------------------
(* Addresses.                                                              *)

\* The first four bytes or first words say to which block an address belongs.
IsBlockedIpv4(o) ==
  \/ o[1] = 127                                      \* loopback
  \/ o[1] = 10                                       \* private
  \/ o[1] = 172 /\ o[2] \in 16..31
  \/ o[1] = 192 /\ o[2] = 168
  \/ o[1] = 169 /\ o[2] = 254                        \* link local
  \/ o = <<255, 255, 255, 255>>                      \* broadcast
  \/ <<o[1], o[2], o[3]>> \in
       {<<192, 0, 2>>, <<198, 51, 100>>, <<203, 0, 113>>}   \* documentation
  \/ o = <<0, 0, 0, 0>>                              \* unspecified
  \/ o[1] = 100 /\ o[2] \div 64 = 1                  \* carrier-grade NAT
  \/ o[1] = 198 /\ o[2] \in {18, 19}                 \* benchmarking
  \/ <<o[1], o[2], o[3]>> = <<192, 0, 0>>            \* protocol assignments
  \/ o[1] \in 224..239                               \* multicast
  \/ o[1] >= 240                                     \* reserved

\* The address of version 4 in the last two words.
Embedded(s) == <<s[7] \div 256, s[7] % 256, s[8] \div 256, s[8] % 256>>

Unspecified6 == <<0, 0, 0, 0, 0, 0, 0, 0>>
Loopback6 == [Unspecified6 EXCEPT ![8] = 1]

\* Variant of IsBlockedIpv6 that looks into mapped addresses only.
IsBlockedIpv6Mapped(s) ==
  \/ s \in {Loopback6, Unspecified6}
  \/ s[1] \div 256 = 255
  \/ s[1] \div 512 = 126
  \/ s[1] \div 64 = 1018
  \/ SubSeq(s, 1, 6) = <<0, 0, 0, 0, 0, 65535>> /\ IsBlockedIpv4(Embedded(s))

IsBlockedIpv6(s) ==
  \/ s \in {Loopback6, Unspecified6}
  \/ s[1] \div 256 = 255                             \* multicast
  \/ s[1] \div 512 = 126                             \* unique local, fc00::/7
  \/ s[1] \div 64 = 1018                             \* link local, fe80::/10
  \/ /\ SubSeq(s, 1, 5) = <<0, 0, 0, 0, 0>>
     /\ s[6] \in {0, 65535}                          \* compatible and mapped
     /\ IsBlockedIpv4(Embedded(s))

IsBlockedIp(ip) == IF Len(ip) = 4 THEN IsBlockedIpv4(ip) ELSE IsBlockedIpv6(ip)

-----------------------------------------------------------------------------
(* URLs.                                                                   *)

\* validate_destination, in the order of its reasons.
ValidateDestination(u) ==
  /\ u.scheme \in {"http", "https"}
  /\ ~u.userinfo
  /\ u.host.kind # "none"
  /\ u.host.kind = "domain" => u.host.labels # <<>>
  /\ u.host.kind = "ip" => ~IsBlockedIp(u.host.ip)

\* The literal address is looked at once more.
PreflightOk(u) ==
  /\ ValidateDestination(u)
  /\ u.host.kind = "ip" /\ Len(u.host.ip) = 4 => ~IsBlockedIpv4(u.host.ip)

\* An entry of the list stands for its domain and those under it, and for any
\* address whose text ends in it after a dot.
IsAllowlistedDomain(host, allowlisted_redirect_domains) ==
  /\ host.kind # "none"
  /\ \E d \in allowlisted_redirect_domains : IsSuffix(d, host.labels)

=============================================================================
