----------------------------- MODULE UrlPolicy -----------------------------
(***************************************************************************)
(* The address arithmetic of DefaultURLValidator                           *)
(* (src/transport/validate_default.go), and the policy its comments state, *)
(* as intervals of addresses.  A net.IP is a sequence of 4 or 16 bytes.    *)
(***************************************************************************)
EXTENDS Integers, Sequences

IP == [1..4 -> 0..255] \cup [1..16 -> 0..255]

Zeros(n) == [i \in 1..n |-> 0]

\* The 16 bytes that begin with head, end with tail and are 0 in between.
V6(head, tail) == head \o Zeros(16 - Len(head) - Len(tail)) \o tail

\* An IPv4 address in its 16-byte form, ::ffff:a.b.c.d.
Mapped(ip) == V6(<<>>, <<255, 255>> \o ip)

\* net.IP.To4 where that is not nil, the address itself where it is.
To4(ip) == IF Len(ip) = 16 /\ ip = Mapped(SubSeq(ip, 13, 16)) THEN SubSeq(ip, 13, 16) ELSE ip

\* The predicates of net.IP; each looks at the 4-byte form first.
IsLoopback(ip) ==
  IF Len(To4(ip)) = 4 THEN To4(ip)[1] = 127 ELSE ip = V6(<<>>, <<1>>)
IsLinkLocalUnicast(ip) ==
  IF Len(To4(ip)) = 4 THEN To4(ip)[1] = 169 /\ To4(ip)[2] = 254
  ELSE ip[1] = 254 /\ ip[2] \div 64 = 2
IsMulticast(ip) ==
  IF Len(To4(ip)) = 4 THEN To4(ip)[1] \div 16 = 14 ELSE ip[1] = 255
IsUnspecified(ip) == To4(ip) = Zeros(4) \/ ip = Zeros(16)

Block(prefix, ones) == [prefix |-> prefix, ones |-> ones]

\* Bytes of one prefix differ in their low bits, spare of them at most.
Unit(spare) ==
  IF spare <= 0 THEN 1 ELSE IF spare >= 8 THEN 256 ELSE <<2, 4, 8, 16, 32, 64, 128>>[spare]

\* net.IPNet.Contains: the bits under the mask agree, byte by byte.
Contains(block, ip) ==
  /\ Len(To4(ip)) = Len(block.prefix)
  /\ \A i \in DOMAIN block.prefix :
       LET unit == Unit(8 * i - block.ones)
       IN  To4(ip)[i] \div unit = block.prefix[i] \div unit

\* Mutant: one mask is four bits too long.
privateCIDRsNarrow ==
  {Block(<<10, 0, 0, 0>>, 8), Block(<<172, 16, 0, 0>>, 16), Block(<<192, 168, 0, 0>>, 16),
   Block(<<169, 254, 0, 0>>, 16), Block(<<127, 0, 0, 0>>, 8), Block(<<0, 0, 0, 0>>, 8),
   Block(<<240, 0, 0, 0>>, 4), Block(<<255, 255, 255, 255>>, 32),
   Block(V6(<<>>, <<1>>), 128), Block(V6(<<252>>, <<>>), 7), Block(V6(<<254, 128>>, <<>>), 10)}
privateCIDRs ==
  {Block(<<10, 0, 0, 0>>, 8), Block(<<172, 16, 0, 0>>, 12), Block(<<192, 168, 0, 0>>, 16),
   Block(<<169, 254, 0, 0>>, 16), Block(<<127, 0, 0, 0>>, 8), Block(<<0, 0, 0, 0>>, 8),
   Block(<<240, 0, 0, 0>>, 4), Block(<<255, 255, 255, 255>>, 32),
   Block(V6(<<>>, <<1>>), 128), Block(V6(<<252>>, <<>>), 7), Block(V6(<<254, 128>>, <<>>), 10)}

\* IsLinkLocalMulticast is a part of IsMulticast.
isPrivateIP(ip) ==
  \/ ip = <<>>                              \* nil
  \/ IsLoopback(ip) \/ IsLinkLocalUnicast(ip) \/ IsMulticast(ip) \/ IsUnspecified(ip)
  \/ \E block \in privateCIDRs : Contains(block, ip)
-----------------------------------------------------------------------------
(* The policy in the words of validate_default.go:20-44 and :96-114.       *)

\* Ranges of the comments, first and last address.
ReservedV4 ==
  {<<<<10, 0, 0, 0>>, <<10, 255, 255, 255>>>>,           \* RFC 1918
   <<<<172, 16, 0, 0>>, <<172, 31, 255, 255>>>>,
   <<<<192, 168, 0, 0>>, <<192, 168, 255, 255>>>>,
   <<<<169, 254, 0, 0>>, <<169, 254, 255, 255>>>>,       \* RFC 3927
   <<<<0, 0, 0, 0>>, <<0, 255, 255, 255>>>>,             \* "this network"
   <<<<224, 0, 0, 0>>, <<255, 255, 255, 255>>>>}         \* multicast, future use, broadcast
LoopbackV4 == <<<<127, 0, 0, 0>>, <<127, 255, 255, 255>>>>
ReservedV6 ==
  {<<V6(<<>>, <<0>>), V6(<<>>, <<0>>)>>,                                         \* unspecified
   <<V6(<<252>>, <<>>), <<253>> \o [i \in 1..15 |-> 255]>>,                     \* RFC 4193
   <<V6(<<254, 128>>, <<>>), <<254, 191>> \o [i \in 1..14 |-> 255]>>,           \* link-local
   <<V6(<<255>>, <<>>), [i \in 1..16 |-> 255]>>}                                 \* multicast
LoopbackV6 == <<V6(<<>>, <<1>>), V6(<<>>, <<1>>)>>

\* Addresses in numerical order, IPv4 ones in their 16-byte form.
Wide(ip) == IF Len(ip) = 4 THEN Mapped(ip) ELSE ip
AtMost(a, b) == a = b \/ \E i \in DOMAIN a : a[i] < b[i] /\ \A j \in 1..(i - 1) : a[j] = b[j]
Between(ip, range) == AtMost(Wide(range[1]), Wide(ip)) /\ AtMost(Wide(ip), Wide(range[2]))

Loopback(ip) == Between(ip, LoopbackV4) \/ Between(ip, LoopbackV6)
Public(ip)   == ~Loopback(ip) /\ \A range \in ReservedV4 \cup ReservedV6 : ~Between(ip, range)
=============================================================================
