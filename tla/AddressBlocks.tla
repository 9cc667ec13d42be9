--------------------------- MODULE AddressBlocks ---------------------------
(***************************************************************************)
(* The address blocks src/validate.rs means to refuse, as its comments and *)
(* the address types of the standard library name them: a base and the     *)
(* number of leading bits that count.                                      *)
(***************************************************************************)
EXTENDS Destination

Word == 0..(2 ^ 16 - 1)

Ipv4 == [1..4 -> 0..255]
Ipv6 == {s \in Seq(Word) : Len(s) = 8}

\* How many bits of the i-th number of w bits are among the leading ones.
Share(bits, i, w) ==
  IF bits >= i * w THEN w ELSE IF bits <= (i - 1) * w THEN 0 ELSE bits - (i - 1) * w

\* The k leading bits of a number of w.
Leading(n, w, k) == n \div 2 ^ (w - k)

InBlock(ip, w, base, bits) ==
  \A i \in DOMAIN ip : Leading(ip[i], w, Share(bits, i, w)) = Leading(base[i], w, Share(bits, i, w))

Blocked4(ip) ==
  LET In(base, bits) == InBlock(ip, 8, base, bits)
  IN \/ In(<<127, 0, 0, 0>>, 8)        \* loopback
     \/ In(<<10, 0, 0, 0>>, 8)         \* private
     \/ In(<<172, 16, 0, 0>>, 12)
     \/ In(<<192, 168, 0, 0>>, 16)
     \/ In(<<169, 254, 0, 0>>, 16)     \* link local
     \/ In(<<192, 0, 2, 0>>, 24)       \* documentation
     \/ In(<<198, 51, 100, 0>>, 24)
     \/ In(<<203, 0, 113, 0>>, 24)
     \/ In(<<0, 0, 0, 0>>, 32)         \* unspecified
     \/ In(<<100, 64, 0, 0>>, 10)      \* carrier-grade NAT
     \/ In(<<198, 18, 0, 0>>, 15)      \* benchmarking
     \/ In(<<192, 0, 0, 0>>, 24)       \* protocol assignments
     \/ In(<<224, 0, 0, 0>>, 4)        \* multicast
     \/ In(<<240, 0, 0, 0>>, 4)        \* reserved, broadcast

Mapped6 == [Unspecified6 EXCEPT ![6] = 65535]

\* An address of version 6 that carries one of version 4 is as blocked as that
\* one.
Blocked6(s) ==
  \/ InBlock(s, 16, <<64512, 0, 0, 0, 0, 0, 0, 0>>, 7)    \* fc00::/7
  \/ InBlock(s, 16, <<65152, 0, 0, 0, 0, 0, 0, 0>>, 10)   \* fe80::/10
  \/ InBlock(s, 16, <<65280, 0, 0, 0, 0, 0, 0, 0>>, 8)    \* ff00::/8
  \/ s = Loopback6
  \/ /\ InBlock(s, 16, Unspecified6, 96) \/ InBlock(s, 16, Mapped6, 96)
     /\ Blocked4(Embedded(s))

Blocked(ip) == IF Len(ip) = 4 THEN Blocked4(ip) ELSE Blocked6(ip)

=============================================================================
