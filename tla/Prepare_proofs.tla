--------------------------- MODULE Prepare_proofs ---------------------------
(* Whatever the URLs, the answers of the resolver and the headers of a       *)
(* Request, and in whatever order Go ranges over its map: what leaves.       *)
EXTENDS Prepare, TLAPS, SequenceTheorems, WellFoundedInduction

LEMMA InitIInv == Init => IInv
<1> SUFFICES ASSUME Init PROVE IInv
  OBVIOUS
<1>1. HeaderInv
  BY DEF Init, Empty, HeaderInv, Visited
<1>2. WireInv
  BY DEF Init, WireInv
<1>3. FreshInv
  BY DEF Init, FreshInv
<1> QED
  BY <1>1, <1>2, <1>3 DEF IInv

\* A verdict that rejects, or has still to wait, leaves headers and wire empty.
LEMMA QuietIInv ==
  ASSUME IInv, pc \in {"idle", "resolved"}, pc' \in {"rejected", "resolved"},
         UNCHANGED <<headers, remaining, sanitized, wire>>
  PROVE  IInv'
<1>1. HeaderInv'
  BY DEF IInv, HeaderInv, Visited
<1>2. wire = <<>>
  BY DEF IInv, WireInv
<1>3. WireInv'
  BY <1>2 DEF WireInv
<1>4. FreshInv'
  BY DEF IInv, FreshInv
<1> QED
  BY <1>1, <1>3, <1>4 DEF IInv

\* Accepting starts the range over the headers: nothing is visited yet.
LEMMA AcceptIInv ==
  ASSUME IInv, pc \in {"idle", "resolved"}, pc' = "accepted", remaining' = DOMAIN headers',
         UNCHANGED <<sanitized, wire>>
  PROVE  IInv'
<1>1. sanitized' = Empty /\ wire' = <<>>
  BY DEF IInv, FreshInv, WireInv
<1>2. Visited' = {}
  BY DEF Visited
<1>3. HeaderInv'
  BY <1>1, <1>2 DEF HeaderInv, Empty
<1>4. WireInv'
  BY <1>1 DEF WireInv
<1>5. FreshInv'
  BY DEF FreshInv
<1> QED
  BY <1>3, <1>4, <1>5 DEF IInv

\* The four verdicts: each rejects, looks up, or accepts.
LEMMA VerdictIInv ==
  ASSUME IInv, RefuseUrl \/ CheckLiteral \/ (\E answer \in Answers : LookupIP(answer))
                 \/ CheckResolved \/ OwnValidator
  PROVE  IInv'
<1>1. pc \in {"idle", "resolved"} /\ UNCHANGED <<sanitized, wire>>
  BY DEF RefuseUrl, CheckLiteral, LookupIP, CheckResolved, OwnValidator
<1>2. \/ pc' \in {"rejected", "resolved"} /\ UNCHANGED <<headers, remaining>>
      \/ pc' = "accepted" /\ remaining' = DOMAIN headers'
  BY DEF RefuseUrl, CheckLiteral, LookupIP, CheckResolved, OwnValidator, Reject, Returned
<1> QED
  BY <1>1, <1>2, QuietIInv, AcceptIInv

LEMMA SanitizeIInv == ASSUME IInv, NEW name \in remaining, SanitizeHeader(name) PROVE IInv'
<1> DEFINE key == normalizedKey(name)
<1>1. Visited' = Visited \cup {name} /\ name \in DOMAIN headers /\ headers' = headers
  BY DEF IInv, HeaderInv, SanitizeHeader, Visited
<1>2. HeaderInv'
  <2>1. CASE key \notin allowed
    <3>1. sanitized' = sanitized
      BY <2>1 DEF SanitizeHeader
    <3> QED
      BY <1>1, <2>1, <3>1 DEF IInv, HeaderInv, SanitizeHeader
  <2>2. CASE key \in allowed
    <3>1. sanitized' = [n \in DOMAIN sanitized \cup {key} |->
                          IF n = key THEN TrimSpace(headers[name]) ELSE sanitized[n]]
      BY <2>2 DEF SanitizeHeader
    <3>2. DOMAIN sanitized' = {n \in allowed : \E s \in Visited' : normalizedKey(s) = n}
      BY <1>1, <2>2, <3>1 DEF IInv, HeaderInv
    <3>3. ASSUME NEW n \in DOMAIN sanitized'
          PROVE  \E s \in Visited' : normalizedKey(s) = n /\ sanitized'[n] = TrimSpace(headers'[s])
      <4>1. CASE n = key
        BY <1>1, <3>1, <4>1
      <4>2. CASE n # key
        BY <1>1, <3>1, <3>3, <4>2 DEF IInv, HeaderInv
      <4> QED
        BY <4>1, <4>2
    <3>4. remaining' \subseteq DOMAIN headers'
      BY DEF IInv, HeaderInv, SanitizeHeader
    <3>5. sanitized' = [n \in DOMAIN sanitized' |-> sanitized'[n]]
      BY <3>1
    <3> QED
      BY <3>2, <3>3, <3>4, <3>5 DEF HeaderInv
  <2> QED
    BY <2>1, <2>2
<1>3. WireInv'
  <2>1. wire = <<>>
    BY DEF IInv, WireInv
  <2> QED
    BY <2>1 DEF WireInv, SanitizeHeader
<1>4. FreshInv'
  BY DEF FreshInv, SanitizeHeader
<1> QED
  BY <1>2, <1>3, <1>4 DEF IInv

LEMMA BuildIInv == ASSUME IInv, BuildRequest PROVE IInv'
<1>1. HeaderInv'
  BY DEF IInv, HeaderInv, Visited, BuildRequest
<1>2. Request(0)' = Request(0)
  BY DEF BuildRequest, Request, HttpHeader, buildSafeRequestURL, Unread
<1>3. WireInv'
  <2>1. Append(wire, Request(0)) \in Seq({Request(0)})
    BY DEF IInv, WireInv
  <2> QED
    BY <1>2, <2>1 DEF WireInv, BuildRequest
<1>4. FreshInv'
  BY DEF FreshInv, BuildRequest
<1> QED
  BY <1>1, <1>3, <1>4 DEF IInv

\* Neither what the client reads of a body nor a stutter changes what is asked.
LEMMA StillIInv ==
  ASSUME IInv, UNCHANGED <<w, url, pc, ips, dest, headers, remaining, sanitized, wire>>
  PROVE  IInv'
<1>1. Request(0)' = Request(0)
  BY DEF Request, HttpHeader, buildSafeRequestURL, Unread
<1> QED
  BY <1>1 DEF IInv, HeaderInv, Visited, WireInv, FreshInv

LEMMA NextIInv == IInv /\ [Next]_vars => IInv'
<1> SUFFICES ASSUME IInv, [Next]_vars PROVE IInv'
  OBVIOUS
<1>1. CASE RefuseUrl \/ CheckLiteral \/ (\E answer \in Answers : LookupIP(answer))
             \/ CheckResolved \/ OwnValidator
  BY <1>1, VerdictIInv
<1>2. ASSUME NEW name \in remaining, SanitizeHeader(name) PROVE IInv'
  BY <1>2, SanitizeIInv
<1>3. CASE BuildRequest
  BY <1>3, BuildIInv
<1>4. CASE WriteBody
  BY <1>4, StillIInv DEF WriteBody
<1>5. CASE UNCHANGED vars
  BY <1>5, StillIInv DEF vars
<1> QED
  BY <1>1, <1>2, <1>3, <1>4, <1>5 DEF Next

\* The strengthened invariant, for any Requests and any order of the headers.
THEOREM Invariance == Spec => []IInv
BY InitIInv, NextIInv, PTL DEF Spec

\* A reader of its own offers an attempt the whole body.
LEMMA WholeBody == Unread(0) = Body
<1>1. Body \in Seq(STRING) /\ Len(Body) \in Nat /\ Body = [i \in 1..Len(Body) |-> Body[i]]
  BY PrepareAssumption
<1>2. \A i \in 1..Len(Body) : Body[0 + i] = Body[i]
  BY <1>1
<1> QED
  BY <1>1, <1>2 DEF Unread

\* All attempts of a Send make one and the same request, with the whole body
\* and to the URL that its validator returned, but for an escaped path.
THEOREM SameRequest == Spec => []AttemptsAgree
<1>1. ASSUME IInv PROVE AttemptsAgree
  <2> DEFINE asked == Request(0)
  <2>1. \A i \in DOMAIN wire : wire[i] = asked
    BY <1>1 DEF IInv, WireInv
  <2>2. wire # <<>> => 1 \in DOMAIN wire
    BY <1>1 DEF IInv, WireInv
  <2>3. \A i \in DOMAIN wire : wire[1] = asked
    BY <1>1, <2>1, <2>2 DEF IInv, WireInv
  <2>4. asked.url = buildSafeRequestURL(dest) /\ asked.Host = dest.host /\ asked.Body = Unread(0)
    BY DEF Request
  <2>5. LET safe == buildSafeRequestURL(dest) IN
          /\ safe.scheme = dest.scheme /\ safe.query = dest.query /\ safe.host = dest.host
          /\ safe.path = CASE dest.path = "" -> "/" [] dest.path = "plain" -> "plain" [] OTHER -> "twice"
    BY DEF buildSafeRequestURL
  <2>6. buildSafeRequestURL(dest).path \in Asked(dest.path)
    BY <2>5 DEF Asked, Paths
  <2> HIDE DEF asked
  <2> QED
    BY <2>1, <2>3, <2>4, <2>5, <2>6, WholeBody DEF AttemptsAgree
<1> QED
  BY <1>1, Invariance, PTL

\* The headers that leave are the allowlisted ones of the Request, each with a
\* value given for it, and a Content-Type.
THEOREM Headers == Spec => []HeadersFaithful
<1>1. ASSUME IInv PROVE HeadersFaithful
  <2> SUFFICES ASSUME NEW i \in DOMAIN wire
               PROVE  LET h == wire[i].Header IN
                      /\ DOMAIN h = {n \in allowed : Spellings(n) # {}} \cup {"content-type"}
                      /\ \A n \in DOMAIN h \ {"content-type"} : h[n] \in Values(n)
                      /\ LET given == IF Spellings("content-type") = {} THEN {""} ELSE Values("content-type")
                         IN  h["content-type"] \in {IF v = "" THEN "application/json" ELSE v : v \in given}
    BY DEF HeadersFaithful
  <2> DEFINE h == wire[i].Header
             given == IF Spellings("content-type") = {} THEN {""} ELSE Values("content-type")
  <2>1. h = HttpHeader(sanitized)
    BY <1>1 DEF IInv, WireInv, Request
  <2>2. wire # <<>>
    BY <1>1 DEF IInv, WireInv
  <2>3. Visited = DOMAIN headers
    BY <1>1, <2>2 DEF IInv, WireInv, Visited
  <2>4. DOMAIN sanitized = {n \in allowed : Spellings(n) # {}}
    BY <1>1, <2>3 DEF IInv, HeaderInv, Spellings, normalizedKey
  <2>5. \A n \in DOMAIN sanitized : sanitized[n] \in Values(n)
    BY <1>1, <2>3 DEF IInv, HeaderInv, Values, Spellings, normalizedKey
  <2>6. CASE "content-type" \in DOMAIN sanitized /\ sanitized["content-type"] # ""
    <3>1. h = sanitized
      BY <2>1, <2>6 DEF HttpHeader
    <3>2. h["content-type"] \in given /\ h["content-type"] # ""
      BY <2>4, <2>5, <2>6, <3>1
    <3> QED
      BY <2>4, <2>5, <2>6, <3>1, <3>2
  <2>7. CASE ~("content-type" \in DOMAIN sanitized /\ sanitized["content-type"] # "")
    <3>1. h = [n \in DOMAIN sanitized \cup {"content-type"} |->
                 IF n = "content-type" THEN "application/json" ELSE sanitized[n]]
      BY <2>1, <2>7 DEF HttpHeader
    <3>2. "" \in given
      BY <2>4, <2>5, <2>7 DEF allowed
    <3> QED
      BY <2>4, <2>5, <3>1, <3>2
  <2> QED
    BY <2>6, <2>7
<1> QED
  BY <1>1, Invariance, PTL
-----------------------------------------------------------------------------
(* Addresses in numerical order: an interval cut at a byte. *)

\* Addresses of 16 bytes.
V16 == [1..16 -> 0..255]

\* The bytes, their sequences and the concatenation of two by names of their
\* own: a lemma about any of them then applies to those the code writes down.
Octet     == 0..255
Bytes     == Seq(Octet)
Cat(s, t) == s \o t

LEMMA BytesLen ==
  ASSUME NEW s \in Bytes
  PROVE  Len(s) \in Nat /\ s \in [1..Len(s) -> Octet]
BY LenProperties DEF Bytes

LEMMA CatBytes ==
  ASSUME NEW s \in Bytes, NEW t \in Bytes
  PROVE  /\ Cat(s, t) \in Bytes /\ Len(Cat(s, t)) = Len(s) + Len(t)
         /\ \A i \in 1..Len(s) + Len(t) : Cat(s, t)[i] = IF i <= Len(s) THEN s[i] ELSE t[i - Len(s)]
BY ConcatProperties DEF Bytes, Cat

\* 16 of them are an address.
LEMMA BytesV16 == ASSUME NEW s \in Bytes, Len(s) = 16 PROVE s \in V16
BY BytesLen DEF V16, Octet

\* A nonempty set of natural numbers has a least one.
LEMMA Least ==
  ASSUME NEW S \in SUBSET Nat, S # {}
  PROVE  \E k \in S : \A i \in S : k <= i
<1>1. PICK k \in S : \A i \in S : ~(<<i, k>> \in OpToRel(<, Nat))
  BY NatLessThanWellFounded, WFMin
<1>2. ASSUME NEW i \in S, i < k PROVE <<i, k>> \in OpToRel(<, Nat)
  <2>1. i \in Nat /\ k \in Nat
    OBVIOUS
  <2> QED
    BY <1>2, <2>1, Zenon DEF OpToRel
<1>3. ASSUME NEW i \in S PROVE k <= i
  <2>1. i \in Nat /\ k \in Nat
    OBVIOUS
  <2>2. ~(i < k)
    BY <1>1, <1>2
  <2> QED
    BY <2>1, <2>2
<1> QED
  BY <1>3

\* Where two addresses first differ.
LEMMA FirstDifference ==
  ASSUME NEW a \in [1..16 -> Int], NEW b \in [1..16 -> Int], a # b
  PROVE  \E k \in 1..16 : a[k] # b[k] /\ \A i \in 1..16 : i < k => a[i] = b[i]
<1> DEFINE D == {i \in 1..16 : a[i] # b[i]}
<1>1. D # {} /\ D \in SUBSET Nat
  OBVIOUS
<1>2. PICK k \in D : \A i \in D : k <= i
  <2> HIDE DEF D
  <2> QED
    BY <1>1, Least
<1> QED
  BY <1>2

\* AtMost, with the bytes before a difference as bytes of an address.
LEMMA AtMostBytes ==
  ASSUME NEW a \in [1..16 -> Int], NEW b \in [1..16 -> Int]
  PROVE  AtMost(a, b) <=> \/ a = b
                          \/ \E i \in 1..16 : a[i] < b[i] /\ \A j \in 1..16 : j < i => a[j] = b[j]
<1>1. DOMAIN a = 1..16
  OBVIOUS
<1>2. ASSUME NEW i \in 1..16
      PROVE  (\A j \in 1..(i - 1) : a[j] = b[j]) <=> (\A j \in 1..16 : j < i => a[j] = b[j])
  OBVIOUS
<1> QED
  BY <1>1, <1>2 DEF AtMost

Numbers == [1..16 -> Int]
SpansAt(lo, hi, k) ==
  /\ \A i \in 1..16 : i < k => lo[i] = hi[i]
  /\ \A i \in 1..16 : k < i => lo[i] = 0 /\ hi[i] = 255
FitsAt(x, lo, hi, k) == (\A i \in 1..16 : i < k => x[i] = lo[i]) /\ lo[k] <= x[k] /\ x[k] <= hi[k]

\* An interval whose ends agree before byte k, and are all zeros and all ones
\* after it, is cut at byte k: what agrees before k and fits at k is inside ...
LEMMA IntervalIf ==
  ASSUME NEW lo \in Numbers, NEW hi \in Numbers, NEW x \in Numbers, NEW k \in 1..16,
         SpansAt(lo, hi, k), FitsAt(x, lo, hi, k), \A i \in 1..16 : 0 <= x[i] /\ x[i] <= 255
  PROVE  AtMost(lo, x) /\ AtMost(x, hi)
<1>a. lo \in [1..16 -> Int] /\ hi \in [1..16 -> Int] /\ x \in [1..16 -> Int]
  BY DEF Numbers
<1>b. /\ \A i \in 1..16 : i < k => lo[i] = hi[i]
      /\ \A i \in 1..16 : k < i => lo[i] = 0 /\ hi[i] = 255
      /\ \A i \in 1..16 : i < k => x[i] = lo[i]
      /\ lo[k] <= x[k] /\ x[k] <= hi[k]
  BY DEF SpansAt, FitsAt
<1>1. ASSUME lo # x PROVE AtMost(lo, x)
  <2>1. PICK j \in 1..16 : lo[j] # x[j] /\ \A i \in 1..16 : i < j => lo[i] = x[i]
    BY <1>a, <1>1, FirstDifference
  <2>2. lo[j] < x[j]
    BY <1>a, <1>b, <2>1
  <2>3. \E i \in 1..16 : lo[i] < x[i] /\ \A m \in 1..16 : m < i => lo[m] = x[m]
    BY <2>1, <2>2
  <2> QED
    BY <1>a, <2>3, AtMostBytes
<1>2. ASSUME x # hi PROVE AtMost(x, hi)
  <2>1. PICK j \in 1..16 : x[j] # hi[j] /\ \A i \in 1..16 : i < j => x[i] = hi[i]
    BY <1>a, <1>2, FirstDifference
  <2>2. x[j] < hi[j]
    BY <1>a, <1>b, <2>1
  <2>3. \E i \in 1..16 : x[i] < hi[i] /\ \A m \in 1..16 : m < i => x[m] = hi[m]
    BY <2>1, <2>2
  <2> QED
    BY <1>a, <2>3, AtMostBytes
<1> QED
  BY <1>1, <1>2 DEF AtMost

\* ... and nothing else is.
LEMMA IntervalOnlyIf ==
  ASSUME NEW lo \in Numbers, NEW hi \in Numbers, NEW x \in Numbers, NEW k \in 1..16,
         SpansAt(lo, hi, k), AtMost(lo, x), AtMost(x, hi)
  PROVE  FitsAt(x, lo, hi, k)
<1>a. lo \in [1..16 -> Int] /\ hi \in [1..16 -> Int] /\ x \in [1..16 -> Int]
  BY DEF Numbers
<1>b. \A i \in 1..16 : i < k => lo[i] = hi[i]
  BY DEF SpansAt
<1>1. lo = x \/ \E i \in 1..16 : lo[i] < x[i] /\ \A j \in 1..16 : j < i => lo[j] = x[j]
  BY <1>a, AtMostBytes
<1>2. x = hi \/ \E i \in 1..16 : x[i] < hi[i] /\ \A j \in 1..16 : j < i => x[j] = hi[j]
  BY <1>a, AtMostBytes
<1>3. ASSUME NEW i \in 1..16, lo[i] < x[i], \A j \in 1..16 : j < i => lo[j] = x[j] PROVE i >= k
  <2>1. SUFFICES ASSUME i < k PROVE FALSE
    OBVIOUS
  <2>2. hi[i] < x[i] /\ \A j \in 1..16 : j < i => hi[j] = x[j]
    BY <1>b, <1>3, <2>1
  <2>3. PICK m \in 1..16 : x[m] < hi[m] /\ \A j \in 1..16 : j < m => x[j] = hi[j]
    BY <1>2, <2>2
  <2> QED
    BY <1>a, <2>2, <2>3
<1>4. ASSUME NEW i \in 1..16, x[i] < hi[i], \A j \in 1..16 : j < i => x[j] = hi[j] PROVE i >= k
  <2>1. SUFFICES ASSUME i < k PROVE FALSE
    OBVIOUS
  <2>2. x[i] < lo[i] /\ \A j \in 1..16 : j < i => x[j] = lo[j]
    BY <1>b, <1>4, <2>1
  <2>3. PICK m \in 1..16 : lo[m] < x[m] /\ \A j \in 1..16 : j < m => lo[j] = x[j]
    BY <1>1, <2>2
  <2> QED
    BY <1>a, <2>2, <2>3
<1>5. (\A i \in 1..16 : i < k => x[i] = lo[i]) /\ lo[k] <= x[k]
  BY <1>a, <1>1, <1>3
<1>6. x[k] <= hi[k]
  BY <1>a, <1>2, <1>4
<1> QED
  BY <1>5, <1>6 DEF FitsAt

\* The bytes of an address with a head and a tail.
LEMMA V6Bytes ==
  ASSUME NEW head \in Bytes, NEW tail \in Bytes, Len(head) + Len(tail) <= 16
  PROVE  /\ V6(head, tail) \in V16
         /\ \A i \in 1..16 : V6(head, tail)[i] =
              IF i <= Len(head) THEN head[i]
              ELSE IF i <= 16 - Len(tail) THEN 0 ELSE tail[i - (16 - Len(tail))]
<1> DEFINE n == 16 - Len(head) - Len(tail)
           z == Zeros(n)
           h == Cat(head, z)
           v == Cat(h, tail)
<1>1. Len(head) \in Nat /\ Len(tail) \in Nat
  BY BytesLen
<1>2. V6(head, tail) = v
  BY DEF V6, Cat
<1>3. z \in Bytes /\ Len(z) = n /\ \A i \in 1..n : z[i] = 0
  BY <1>1 DEF Zeros, Bytes, Octet
<1>4. n \in Nat /\ Len(head) + n = 16 - Len(tail)
  BY <1>1
<1> HIDE DEF n, z
<1>5. h \in Bytes /\ Len(h) = Len(head) + n
      /\ \A i \in 1..Len(head) + n : h[i] = IF i <= Len(head) THEN head[i] ELSE z[i - Len(head)]
  <2>1. Len(h) = Len(head) + Len(z) /\ h \in Bytes
        /\ \A i \in 1..Len(head) + Len(z) : h[i] = IF i <= Len(head) THEN head[i] ELSE z[i - Len(head)]
    BY <1>3, CatBytes
  <2> QED
    BY <1>3, <2>1
<1> HIDE DEF h
<1>6. v \in Bytes /\ Len(v) = Len(h) + Len(tail)
      /\ \A i \in 1..Len(h) + Len(tail) : v[i] = IF i <= Len(h) THEN h[i] ELSE tail[i - Len(h)]
  BY <1>5, CatBytes
<1> HIDE DEF v
<1>7. Len(h) = 16 - Len(tail) /\ Len(h) + Len(tail) = 16
  BY <1>1, <1>4, <1>5
<1>8. v \in V16
  BY <1>6, <1>7, BytesV16
<1>9. ASSUME NEW i \in 1..16 PROVE v[i] =
              IF i <= Len(head) THEN head[i]
              ELSE IF i <= 16 - Len(tail) THEN 0 ELSE tail[i - (16 - Len(tail))]
  <2>1. v[i] = IF i <= 16 - Len(tail) THEN h[i] ELSE tail[i - (16 - Len(tail))]
    BY <1>6, <1>7
  <2>2. ASSUME i <= 16 - Len(tail) PROVE h[i] = IF i <= Len(head) THEN head[i] ELSE z[i - Len(head)]
    BY <1>1, <1>4, <1>5, <2>2
  <2>3. ASSUME i <= 16 - Len(tail), ~(i <= Len(head)) PROVE z[i - Len(head)] = 0
    <3>1. i - Len(head) \in 1..n
      BY <1>1, <1>4, <2>3
    <3> QED
      BY <1>3, <3>1
  <2>4. Len(head) <= 16 - Len(tail)
    BY <1>1
  <2>5. CASE i <= Len(head)
    BY <1>1, <2>1, <2>2, <2>4, <2>5
  <2>6. CASE ~(i <= Len(head)) /\ i <= 16 - Len(tail)
    BY <2>1, <2>2, <2>3, <2>6
  <2>7. CASE ~(i <= Len(head)) /\ ~(i <= 16 - Len(tail))
    BY <2>1, <2>7
  <2> QED
    BY <2>5, <2>6, <2>7
<1> QED
  BY <1>2, <1>8, <1>9

\* The bytes of an address as integers.
LEMMA V16Int ==
  ASSUME NEW f \in V16
  PROVE  f \in [1..16 -> Int] /\ \A i \in 1..16 : 0 <= f[i] /\ f[i] <= 255
<1>1. ASSUME NEW i \in 1..16 PROVE f[i] \in Int /\ 0 <= f[i] /\ f[i] <= 255
  <2>1. f[i] \in 0..255
    BY DEF V16
  <2> QED
    BY <2>1
<1>2. f = [i \in 1..16 |-> f[i]]
  BY DEF V16
<1>3. [i \in 1..16 |-> f[i]] \in [1..16 -> Int]
  BY <1>1
<1> QED
  BY <1>1, <1>2, <1>3

LEMMA Interval ==
  ASSUME NEW lo \in V16, NEW hi \in V16, NEW x \in V16, NEW k \in 1..16, SpansAt(lo, hi, k)
  PROVE  AtMost(lo, x) /\ AtMost(x, hi) <=> FitsAt(x, lo, hi, k)
<1>1. lo \in Numbers /\ hi \in Numbers /\ x \in Numbers
  BY V16Int DEF Numbers
<1>2. \A i \in 1..16 : 0 <= x[i] /\ x[i] <= 255
  BY V16Int
<1> QED
  BY <1>1, <1>2, IntervalIf, IntervalOnlyIf

LEMMA V16Equal ==
  ASSUME NEW a \in V16, NEW b \in V16, \A i \in 1..16 : a[i] = b[i]
  PROVE  a = b
<1>1. a = [i \in 1..16 |-> a[i]] /\ b = [i \in 1..16 |-> b[i]]
  BY DEF V16
<1> QED
  BY <1>1

\* Addresses of 4 bytes.
Quad == [1..4 -> 0..255]

\* An IPv4 address is a sequence.
LEMMA QuadSeq == ASSUME NEW q \in Quad PROVE q \in Bytes /\ Len(q) = 4
<1>1. [i \in 1..4 |-> q[i]] \in Bytes /\ Len([i \in 1..4 |-> q[i]]) = 4
  BY DEF Quad, Bytes, Octet
<1>2. q = [i \in 1..4 |-> q[i]]
  BY DEF Quad
<1> QED
  BY <1>1, <1>2

\* A 16-byte address is a sequence.
LEMMA V16Len == ASSUME NEW a \in V16 PROVE a \in Bytes /\ Len(a) = 16 /\ DOMAIN a = 1..16
<1>1. [i \in 1..16 |-> a[i]] \in Bytes /\ Len([i \in 1..16 |-> a[i]]) = 16
  <2>1. \A i \in 1..16 : a[i] \in Octet
    BY DEF V16, Octet
  <2> QED
    BY <2>1 DEF Bytes
<1>2. a = [i \in 1..16 |-> a[i]] /\ DOMAIN a = 1..16
  BY DEF V16
<1> QED
  BY <1>1, <1>2

\* Two bytes and an IPv4 address after them.
LEMMA CatSix ==
  ASSUME NEW f \in Bytes, NEW q \in Bytes, Len(f) = 2, Len(q) = 4
  PROVE  /\ Cat(f, q) \in Bytes /\ Len(Cat(f, q)) = 6
         /\ \A i \in 1..6 : Cat(f, q)[i] = IF i <= 2 THEN f[i] ELSE q[i - 2]
<1> DEFINE v == Cat(f, q)
<1>1. /\ v \in Bytes /\ Len(v) = Len(f) + Len(q)
      /\ \A i \in 1..Len(f) + Len(q) : v[i] = IF i <= Len(f) THEN f[i] ELSE q[i - Len(f)]
  BY CatBytes
<1> HIDE DEF v
<1>2. v \in Bytes /\ Len(v) = 6 /\ \A i \in 1..6 : v[i] = IF i <= 2 THEN f[i] ELSE q[i - 2]
  BY <1>1
<1> QED
  BY <1>2 DEF v

\* The 16-byte form of an IPv4 address.
LEMMA MappedBytes ==
  ASSUME NEW q \in Quad
  PROVE  /\ Mapped(q) \in V16
         /\ \A i \in 1..10 : Mapped(q)[i] = 0
         /\ Mapped(q)[11] = 255 /\ Mapped(q)[12] = 255
         /\ \A i \in 1..4 : Mapped(q)[12 + i] = q[i]
<1> DEFINE e == <<>>
           f == <<255, 255>>
           t == Cat(f, q)
<1>1. f \in Bytes /\ Len(f) = 2 /\ f[1] = 255 /\ f[2] = 255
  BY DEF Bytes, Octet
<1>3. e \in Bytes /\ Len(e) = 0
  BY DEF Bytes
<1>4. Mapped(q) = V6(e, t)
  BY DEF Mapped, Cat
<1> HIDE DEF e, f
<1>2. t \in Bytes /\ Len(t) = 6
      /\ \A i \in 1..6 : t[i] = IF i <= 2 THEN f[i] ELSE q[i - 2]
  <2>1. q \in Bytes /\ Len(q) = 4
    BY QuadSeq
  <2> QED
    BY <1>1, <2>1, CatSix
<1> HIDE DEF t
<1>a. Len(e) + Len(t) <= 16
  BY <1>2, <1>3
<1>5. /\ V6(e, t) \in V16
      /\ \A i \in 1..16 : V6(e, t)[i] =
           IF i <= Len(e) THEN e[i] ELSE IF i <= 16 - Len(t) THEN 0 ELSE t[i - (16 - Len(t))]
  BY <1>2, <1>3, <1>a, V6Bytes
<1>6. ASSUME NEW i \in 1..16 PROVE Mapped(q)[i] = IF i <= 10 THEN 0 ELSE t[i - 10]
  <2>1. ~(i <= Len(e)) /\ 16 - Len(t) = 10
    BY <1>2, <1>3
  <2> QED
    BY <1>4, <1>5, <2>1
<1>7. ASSUME NEW i \in 1..4 PROVE Mapped(q)[12 + i] = q[i]
  <2>1. Mapped(q)[12 + i] = t[2 + i]
    BY <1>6
  <2> QED
    BY <1>2, <2>1
<1>8. Mapped(q)[11] = 255 /\ Mapped(q)[12] = 255
  <2>1. t[1] = 255 /\ t[2] = 255
    BY <1>1, <1>2
  <2> QED
    BY <1>6, <2>1
<1>9. \A i \in 1..10 : Mapped(q)[i] = 0
  BY <1>6
<1> QED
  BY <1>4, <1>5, <1>7, <1>8, <1>9

\* The first twelve bytes of an IPv4 address in its 16-byte form.
IsMapped(x) == (\A i \in 1..10 : x[i] = 0) /\ x[11] = 255 /\ x[12] = 255

\* ip is the IPv4 address q in one of its forms; ip is an IPv6 address.
IsV4(ip, q) ==
  q \in Quad /\ To4(ip) = q /\ Wide(ip) = Mapped(q) /\ ip \in {q, Mapped(q)}
IsV6(ip) == ip \in V16 /\ To4(ip) = ip /\ Wide(ip) = ip /\ ~IsMapped(ip)
-----------------------------------------------------------------------------
(* Addresses are of one family or the other. *)

\* Every net.IP is an IPv4 address in one of its forms, or an IPv6 one.
LEMMA Forms == ASSUME NEW ip \in IP PROVE (\E q \in Quad : IsV4(ip, q)) \/ IsV6(ip)
<1>1. CASE ip \in Quad
  <2>1. Len(ip) = 4
    BY <1>1, QuadSeq
  <2>2. To4(ip) = ip /\ Wide(ip) = Mapped(ip)
    BY <2>1 DEF To4, Wide
  <2> QED
    BY <1>1, <2>2 DEF IsV4
<1>2. CASE ip \in V16
  <2> DEFINE q == [i \in 1..4 |-> ip[12 + i]]
  <2>1. q \in Quad
    BY <1>2 DEF V16, Quad
  <2>2. SubSeq(ip, 13, 16) = q
    BY <1>2 DEF V16
  <2>3. Len(ip) = 16
    BY <1>2, V16Len
  <2>4. Wide(ip) = ip
    BY <2>3 DEF Wide
  <2>5. CASE ip = Mapped(q)
    <3>1. To4(ip) = q
      BY <2>2, <2>3, <2>5 DEF To4
    <3> QED
      BY <2>1, <2>4, <2>5, <3>1 DEF IsV4
  <2>6. CASE ip # Mapped(q)
    <3>1. To4(ip) = ip
      BY <2>2, <2>3, <2>6 DEF To4
    <3>2. ASSUME IsMapped(ip) PROVE FALSE
      <4>1. ASSUME NEW i \in 1..16 PROVE ip[i] = Mapped(q)[i]
        <5>1. CASE i \in 1..10
          BY <2>1, <3>2, <5>1, MappedBytes DEF IsMapped
        <5>2. CASE i \in {11, 12}
          BY <2>1, <3>2, <5>2, MappedBytes DEF IsMapped
        <5>3. CASE i \in 13..16
          <6>1. i - 12 \in 1..4 /\ 12 + (i - 12) = i
            BY <5>3
          <6>2. Mapped(q)[12 + (i - 12)] = q[i - 12]
            BY <2>1, <6>1, MappedBytes
          <6> QED
            BY <6>1, <6>2
        <5>4. i \in 1..10 \/ i \in {11, 12} \/ i \in 13..16
          OBVIOUS
        <5> QED
          BY <5>1, <5>2, <5>3, <5>4
      <4>2. Mapped(q) \in V16
        BY <2>1, MappedBytes
      <4> HIDE DEF q
      <4> QED
        BY <1>2, <2>6, <4>1, <4>2, V16Equal
    <3> QED
      BY <1>2, <2>4, <3>1, <3>2 DEF IsV6
  <2> QED
    BY <2>5, <2>6
<1> QED
  BY <1>1, <1>2 DEF IP, Quad, V16
-----------------------------------------------------------------------------
(* Ranges and masks of whole and partial bytes. *)

\* A range of 16-byte addresses that is cut at a byte.
LEMMA BetweenV6 ==
  ASSUME NEW ip, Wide(ip) \in V16, NEW lo \in V16, NEW hi \in V16, NEW k \in 1..16,
         \A i \in 1..16 : i < k => lo[i] = hi[i],
         \A i \in 1..16 : k < i => lo[i] = 0 /\ hi[i] = 255
  PROVE  Between(ip, <<lo, hi>>)
           <=> (\A i \in 1..16 : i < k => Wide(ip)[i] = lo[i]) /\ lo[k] <= Wide(ip)[k] /\ Wide(ip)[k] <= hi[k]
<1>1. Wide(lo) = lo /\ Wide(hi) = hi
  <2>1. Len(lo) = 16 /\ Len(hi) = 16
    BY V16Len
  <2> QED
    BY <2>1 DEF Wide
<1>2. Between(ip, <<lo, hi>>) <=> AtMost(lo, Wide(ip)) /\ AtMost(Wide(ip), hi)
  BY <1>1 DEF Between
<1>3. SpansAt(lo, hi, k)
  BY DEF SpansAt
<1>4. AtMost(lo, Wide(ip)) /\ AtMost(Wide(ip), hi) <=> FitsAt(Wide(ip), lo, hi, k)
  BY <1>3, Interval
<1> QED
  BY <1>2, <1>4 DEF FitsAt

\* A range of IPv4 addresses that is cut at a byte: only 16-byte forms of IPv4
\* addresses are inside.
LEMMA BetweenV4 ==
  ASSUME NEW ip, Wide(ip) \in V16, NEW lo \in Quad, NEW hi \in Quad, NEW k \in 1..4,
         \A i \in 1..4 : i < k => lo[i] = hi[i],
         \A i \in 1..4 : k < i => lo[i] = 0 /\ hi[i] = 255
  PROVE  Between(ip, <<lo, hi>>)
           <=> /\ IsMapped(Wide(ip)) /\ \A i \in 1..4 : i < k => Wide(ip)[12 + i] = lo[i]
               /\ lo[k] <= Wide(ip)[12 + k] /\ Wide(ip)[12 + k] <= hi[k]
<1> DEFINE x == Wide(ip)  l == Mapped(lo)  h == Mapped(hi)  n == 12 + k
<1>1. Wide(lo) = l /\ Wide(hi) = h
  BY QuadSeq DEF Wide
<1>2. Between(ip, <<lo, hi>>) <=> AtMost(l, x) /\ AtMost(x, h)
  BY <1>1 DEF Between
<1>3. /\ l \in V16 /\ h \in V16 /\ x \in V16 /\ n \in 13..16
      /\ \A i \in 1..10 : l[i] = 0 /\ h[i] = 0
      /\ l[11] = 255 /\ l[12] = 255 /\ h[11] = 255 /\ h[12] = 255
      /\ \A i \in 1..4 : l[12 + i] = lo[i] /\ h[12 + i] = hi[i]
  BY MappedBytes
<1> HIDE DEF x, l, h
<1>4. ASSUME NEW i \in 1..16
      PROVE  i \in 1..10 \/ i = 11 \/ i = 12 \/ i = 13 \/ i = 14 \/ i = 15 \/ i = 16
  OBVIOUS
<1>5. /\ l[13] = lo[1] /\ l[14] = lo[2] /\ l[15] = lo[3] /\ l[16] = lo[4]
      /\ h[13] = hi[1] /\ h[14] = hi[2] /\ h[15] = hi[3] /\ h[16] = hi[4]
  BY <1>3
<1>6. ASSUME NEW i \in 1..16, i < n PROVE l[i] = h[i]
  BY <1>3, <1>4, <1>5, <1>6
<1>7. ASSUME NEW i \in 1..16, n < i PROVE l[i] = 0 /\ h[i] = 255
  BY <1>3, <1>4, <1>5, <1>7
<1>8. AtMost(l, x) /\ AtMost(x, h) <=> (\A i \in 1..16 : i < n => x[i] = l[i]) /\ l[n] <= x[n] /\ x[n] <= h[n]
  <2>1. SpansAt(l, h, n)
    BY <1>6, <1>7 DEF SpansAt
  <2>2. n \in 1..16
    BY <1>3
  <2>3. AtMost(l, x) /\ AtMost(x, h) <=> FitsAt(x, l, h, n)
    BY <1>3, <2>1, <2>2, Interval
  <2> QED
    BY <2>3 DEF FitsAt
<1>9. (\A i \in 1..16 : i < n => x[i] = l[i]) <=> IsMapped(x) /\ \A i \in 1..4 : i < k => x[12 + i] = lo[i]
  <2>1. ASSUME \A i \in 1..16 : i < n => x[i] = l[i]
        PROVE  IsMapped(x) /\ \A i \in 1..4 : i < k => x[12 + i] = lo[i]
    BY <1>3, <2>1 DEF IsMapped
  <2>2. ASSUME IsMapped(x), \A i \in 1..4 : i < k => x[12 + i] = lo[i], NEW i \in 1..16, i < n
        PROVE  x[i] = l[i]
    <3>1. CASE i \in 1..12
      BY <1>3, <1>4, <2>2, <3>1 DEF IsMapped
    <3>2. CASE i \in 13..16
      <4>1. i - 12 \in 1..4 /\ i - 12 < k /\ 12 + (i - 12) = i
        BY <2>2, <3>2
      <4>2. x[12 + (i - 12)] = lo[i - 12] /\ l[12 + (i - 12)] = lo[i - 12]
        BY <1>3, <2>2, <4>1
      <4> QED
        BY <4>1, <4>2
    <3> QED
      BY <3>1, <3>2
  <2> QED
    BY <2>1, <2>2
<1>10. l[n] = lo[k] /\ h[n] = hi[k]
  BY <1>3
<1> QED
  BY <1>2, <1>8, <1>9, <1>10 DEF x

LEMMA Byte == ASSUME NEW b \in 0..255 PROVE b \in Int /\ 0 <= b /\ b <= 255
OBVIOUS

\* Addresses of n bytes.
OctetSeq(n) == [1..n -> 0..255]

\* net.IPNet.Contains: a mask that ends in byte c compares the bytes before it,
\* some bits of byte c, and nothing after.
LEMMA ContainsCut ==
  ASSUME NEW n \in {4, 16}, NEW a \in OctetSeq(n), NEW p \in OctetSeq(n), Len(a) = n, Len(p) = n,
         NEW ip, To4(ip) = a, NEW c \in 1..n, NEW ones \in Nat, 8 * (c - 1) < ones, ones <= 8 * c
  PROVE  Contains(Block(p, ones), ip)
           <=> /\ \A i \in 1..n : i < c => a[i] = p[i]
               /\ a[c] \div Unit(8 * c - ones) = p[c] \div Unit(8 * c - ones)
<1>1. Contains(Block(p, ones), ip) <=>
        \A i \in 1..n : a[i] \div Unit(8 * i - ones) = p[i] \div Unit(8 * i - ones)
  BY DEF Contains, Block, OctetSeq
<1>2. ASSUME NEW i \in 1..n
      PROVE  /\ a[i] \in Int /\ 0 <= a[i] /\ a[i] <= 255
             /\ p[i] \in Int /\ 0 <= p[i] /\ p[i] <= 255
  <2>1. a[i] \in 0..255
    BY DEF OctetSeq
  <2>2. p[i] \in 0..255
    BY DEF OctetSeq
  <2>3. a[i] \in Int /\ 0 <= a[i] /\ a[i] <= 255
    BY <2>1, Byte, Zenon
  <2>4. p[i] \in Int /\ 0 <= p[i] /\ p[i] <= 255
    BY <2>2, Byte, Zenon
  <2> QED
    BY <2>3, <2>4
<1>3. ASSUME NEW i \in 1..n, i < c PROVE Unit(8 * i - ones) = 1
  BY <1>3 DEF Unit
<1>4. ASSUME NEW i \in 1..n, c < i PROVE Unit(8 * i - ones) = 256
  BY <1>4 DEF Unit
<1>5. \A y \in Int : y \div 1 = y
  OBVIOUS
<1>6. \A y \in Int : 0 <= y /\ y <= 255 => y \div 256 = 0
  OBVIOUS
<1>7. ASSUME NEW i \in 1..n, i < c
      PROVE  (a[i] \div Unit(8 * i - ones) = p[i] \div Unit(8 * i - ones)) <=> a[i] = p[i]
  BY <1>2, <1>3, <1>5, <1>7
<1>8. ASSUME NEW i \in 1..n, c < i
      PROVE  a[i] \div Unit(8 * i - ones) = p[i] \div Unit(8 * i - ones)
  <2>1. Unit(8 * i - ones) = 256
    BY <1>4, <1>8
  <2>2. a[i] \div 256 = 0
    BY <1>2, <1>6
  <2>3. p[i] \div 256 = 0
    BY <1>2, <1>6
  <2> QED
    BY <2>1, <2>2, <2>3
<1>9. ASSUME NEW i \in 1..n PROVE i < c \/ i = c \/ c < i
  OBVIOUS
<1> QED
  BY <1>1, <1>7, <1>8, <1>9
-----------------------------------------------------------------------------
(* The ranges and the blocks of IPv4 addresses. *)

\* The policy in bytes.
ReservedQuad(q) ==
  \/ q[1] = 10 \/ q[1] = 0 \/ 224 <= q[1]
  \/ q[1] = 172 /\ 16 <= q[2] /\ q[2] <= 31
  \/ q[1] = 192 /\ q[2] = 168
  \/ q[1] = 169 /\ q[2] = 254
ReservedBytes(x) ==
  \/ \A i \in 1..16 : x[i] = 0
  \/ x[1] = 252 \/ x[1] = 253 \/ x[1] = 255
  \/ x[1] = 254 /\ 128 <= x[2] /\ x[2] <= 191
LoopbackBytes(x) == (\A i \in 1..15 : x[i] = 0) /\ x[16] = 1

LEMMA QuadByte ==
  ASSUME NEW q \in Quad, NEW i \in 1..4 PROVE q[i] \in Int /\ 0 <= q[i] /\ q[i] <= 255
<1>1. q[i] \in 0..255
  BY DEF Quad
<1> QED
  BY <1>1, Byte

LEMMA Octets ==
  /\ 0 \in Octet /\ 10 \in Octet /\ 16 \in Octet /\ 31 \in Octet /\ 127 \in Octet /\ 168 \in Octet
  /\ 169 \in Octet /\ 172 \in Octet /\ 192 \in Octet /\ 224 \in Octet /\ 240 \in Octet /\ 254 \in Octet
  /\ 255 \in Octet /\ 1 \in Octet /\ 128 \in Octet /\ 191 \in Octet /\ 252 \in Octet /\ 253 \in Octet
BY DEF Octet

\* First and last of the IPv4 addresses that begin with one byte, or with two.
Lo1(a)    == <<a, 0, 0, 0>>
Hi1(a)    == <<a, 255, 255, 255>>
Lo2(a, b) == <<a, b, 0, 0>>
Hi2(a, b) == <<a, b, 255, 255>>

LEMMA EndBytes ==
  ASSUME NEW a \in Octet, NEW b \in Octet
  PROVE  /\ Lo1(a) \in Quad /\ Lo1(a)[1] = a /\ Lo1(a)[2] = 0
         /\ Hi1(a) \in Quad /\ Hi1(a)[1] = a /\ Hi1(a)[2] = 255
         /\ Lo2(a, b) \in Quad /\ Lo2(a, b)[1] = a /\ Lo2(a, b)[2] = b
         /\ Hi2(a, b) \in Quad /\ Hi2(a, b)[1] = a /\ Hi2(a, b)[2] = b
BY DEF Quad, Octet, Lo1, Hi1, Lo2, Hi2

LEMMA Index4 == \A i \in 1..4 : i = 1 \/ i = 2 \/ i = 3 \/ i = 4
OBVIOUS

\* The ends of a range of first bytes meet the conditions of BetweenV4 ...
LEMMA FirstByteCut ==
  ASSUME NEW a \in Octet, NEW b \in Octet
  PROVE  /\ Lo1(a) \in Quad /\ Hi1(b) \in Quad /\ Lo1(a)[1] = a /\ Hi1(b)[1] = b
         /\ \A i \in 1..4 : ~(i < 1) /\ (1 < i => Lo1(a)[i] = 0 /\ Hi1(b)[i] = 255)
<1>1. /\ Lo1(a) \in Quad /\ Hi1(b) \in Quad /\ Lo1(a)[1] = a /\ Hi1(b)[1] = b
      /\ Lo1(a)[2] = 0 /\ Lo1(a)[3] = 0 /\ Lo1(a)[4] = 0
      /\ Hi1(b)[2] = 255 /\ Hi1(b)[3] = 255 /\ Hi1(b)[4] = 255
  BY DEF Quad, Octet, Lo1, Hi1
<1> QED
  BY <1>1, Index4

\* ... and so do those of a range of second bytes.
LEMMA SecondByteCut ==
  ASSUME NEW a \in Octet, NEW b \in Octet, NEW c \in Octet
  PROVE  /\ Lo2(a, b) \in Quad /\ Hi2(a, c) \in Quad /\ Lo2(a, b)[1] = a /\ Lo2(a, b)[2] = b /\ Hi2(a, c)[2] = c
         /\ \A i \in 1..4 : /\ i < 2 => i = 1 /\ Lo2(a, b)[i] = Hi2(a, c)[i]
                            /\ (2 < i => Lo2(a, b)[i] = 0 /\ Hi2(a, c)[i] = 255)
<1>1. /\ Lo2(a, b) \in Quad /\ Hi2(a, c) \in Quad
      /\ Lo2(a, b)[1] = a /\ Hi2(a, c)[1] = a /\ Lo2(a, b)[2] = b /\ Hi2(a, c)[2] = c
      /\ Lo2(a, b)[3] = 0 /\ Lo2(a, b)[4] = 0 /\ Hi2(a, c)[3] = 255 /\ Hi2(a, c)[4] = 255
  BY DEF Quad, Octet, Lo2, Hi2
<1> QED
  BY <1>1, Index4

\* What a range of first, and of second, bytes says of an IPv4 address.
LEMMA FirstByteV4 ==
  ASSUME NEW ip, NEW q, IsV4(ip, q), NEW a \in Octet, NEW b \in Octet
  PROVE  Between(ip, <<Lo1(a), Hi1(b)>>) <=> a <= q[1] /\ q[1] <= b
<1>1. Wide(ip) \in V16 /\ IsMapped(Wide(ip)) /\ Wide(ip)[12 + 1] = q[1]
  BY MappedBytes DEF IsV4, IsMapped
<1>2. /\ Lo1(a) \in Quad /\ Hi1(b) \in Quad /\ Lo1(a)[1] = a /\ Hi1(b)[1] = b
      /\ \A i \in 1..4 : ~(i < 1) /\ (1 < i => Lo1(a)[i] = 0 /\ Hi1(b)[i] = 255)
  BY FirstByteCut, Octets
<1>3. Between(ip, <<Lo1(a), Hi1(b)>>)
           <=> /\ IsMapped(Wide(ip)) /\ \A i \in 1..4 : i < 1 => Wide(ip)[12 + i] = Lo1(a)[i]
               /\ Lo1(a)[1] <= Wide(ip)[12 + 1] /\ Wide(ip)[12 + 1] <= Hi1(b)[1]
  BY <1>1, <1>2, BetweenV4
<1> QED
  BY <1>1, <1>2, <1>3

LEMMA SecondByteV4 ==
  ASSUME NEW ip, NEW q, IsV4(ip, q), NEW a \in Octet, NEW b \in Octet, NEW c \in Octet
  PROVE  Between(ip, <<Lo2(a, b), Hi2(a, c)>>) <=> q[1] = a /\ b <= q[2] /\ q[2] <= c
<1>1. /\ Wide(ip) \in V16 /\ IsMapped(Wide(ip))
      /\ Wide(ip)[12 + 1] = q[1] /\ Wide(ip)[12 + 2] = q[2]
  BY MappedBytes DEF IsV4, IsMapped
<1>2. /\ Lo2(a, b) \in Quad /\ Hi2(a, c) \in Quad /\ Lo2(a, b)[1] = a /\ Lo2(a, b)[2] = b /\ Hi2(a, c)[2] = c
      /\ \A i \in 1..4 : /\ i < 2 => i = 1 /\ Lo2(a, b)[i] = Hi2(a, c)[i]
                         /\ (2 < i => Lo2(a, b)[i] = 0 /\ Hi2(a, c)[i] = 255)
  BY SecondByteCut, Octets
<1>3. Between(ip, <<Lo2(a, b), Hi2(a, c)>>)
           <=> /\ IsMapped(Wide(ip)) /\ \A i \in 1..4 : i < 2 => Wide(ip)[12 + i] = Lo2(a, b)[i]
               /\ Lo2(a, b)[2] <= Wide(ip)[12 + 2] /\ Wide(ip)[12 + 2] <= Hi2(a, c)[2]
  BY <1>1, <1>2, BetweenV4
<1>4. (\A i \in 1..4 : i < 2 => Wide(ip)[12 + i] = Lo2(a, b)[i]) <=> Wide(ip)[12 + 1] = Lo2(a, b)[1]
  OBVIOUS
<1> QED
  BY <1>1, <1>2, <1>3, <1>4

\* No range of IPv4 addresses holds an IPv6 one.
LEMMA FirstByteV6 ==
  ASSUME NEW ip, IsV6(ip), NEW a \in Octet, NEW b \in Octet
  PROVE  ~Between(ip, <<Lo1(a), Hi1(b)>>)
<1>1. /\ Lo1(a) \in Quad /\ Hi1(b) \in Quad
      /\ \A i \in 1..4 : ~(i < 1) /\ (1 < i => Lo1(a)[i] = 0 /\ Hi1(b)[i] = 255)
  BY FirstByteCut, Octets
<1>2. Wide(ip) \in V16 /\ ~IsMapped(Wide(ip))
  BY DEF IsV6
<1> QED
  BY <1>1, <1>2, BetweenV4

LEMMA SecondByteV6 ==
  ASSUME NEW ip, IsV6(ip), NEW a \in Octet, NEW b \in Octet, NEW c \in Octet
  PROVE  ~Between(ip, <<Lo2(a, b), Hi2(a, c)>>)
<1>1. /\ Lo2(a, b) \in Quad /\ Hi2(a, c) \in Quad
      /\ \A i \in 1..4 : /\ i < 2 => Lo2(a, b)[i] = Hi2(a, c)[i]
                         /\ (2 < i => Lo2(a, b)[i] = 0 /\ Hi2(a, c)[i] = 255)
  BY SecondByteCut, Octets
<1>2. Wide(ip) \in V16 /\ ~IsMapped(Wide(ip))
  BY DEF IsV6
<1> QED
  BY <1>1, <1>2, BetweenV4

\* The ranges of the policy by their first and last addresses.
LEMMA EndRanges ==
  /\ ReservedV4 = {<<Lo1(10), Hi1(10)>>, <<Lo2(172, 16), Hi2(172, 31)>>,
                   <<Lo2(192, 168), Hi2(192, 168)>>, <<Lo2(169, 254), Hi2(169, 254)>>,
                   <<Lo1(0), Hi1(0)>>, <<Lo1(224), Hi1(255)>>}
  /\ LoopbackV4 = <<Lo1(127), Hi1(127)>>
BY Zenon DEF Lo1, Hi1, Lo2, Hi2, ReservedV4, LoopbackV4

\* The ranges of IPv4 addresses, in bytes.
LEMMA RangesV4 ==
  ASSUME NEW ip, NEW q, IsV4(ip, q)
  PROVE  /\ (\E range \in ReservedV4 : Between(ip, range)) <=> ReservedQuad(q)
         /\ Between(ip, LoopbackV4) <=> q[1] = 127
<1>1. q[1] \in Int /\ q[2] \in Int /\ 0 <= q[1] /\ q[1] <= 255
  BY QuadByte DEF IsV4
<1>2. Between(ip, <<Lo1(127), Hi1(127)>>) <=> q[1] = 127
  BY <1>1, FirstByteV4, Octets
<1>3. Between(ip, <<Lo1(10), Hi1(10)>>) <=> q[1] = 10
  BY <1>1, FirstByteV4, Octets
<1>4. Between(ip, <<Lo1(0), Hi1(0)>>) <=> q[1] = 0
  BY <1>1, FirstByteV4, Octets
<1>5. Between(ip, <<Lo1(224), Hi1(255)>>) <=> 224 <= q[1]
  BY <1>1, FirstByteV4, Octets
<1>6. Between(ip, <<Lo2(172, 16), Hi2(172, 31)>>) <=> q[1] = 172 /\ 16 <= q[2] /\ q[2] <= 31
  BY SecondByteV4, Octets
<1>7. Between(ip, <<Lo2(192, 168), Hi2(192, 168)>>) <=> q[1] = 192 /\ q[2] = 168
  BY <1>1, SecondByteV4, Octets
<1>8. Between(ip, <<Lo2(169, 254), Hi2(169, 254)>>) <=> q[1] = 169 /\ q[2] = 254
  BY <1>1, SecondByteV4, Octets
<1> QED
  BY <1>2, <1>3, <1>4, <1>5, <1>6, <1>7, <1>8, EndRanges DEF ReservedQuad

LEMMA NotV4 ==
  ASSUME NEW ip, IsV6(ip), NEW range \in ReservedV4 \cup {LoopbackV4}
  PROVE  ~Between(ip, range)
<1>1. ASSUME NEW a \in Octet, NEW b \in Octet PROVE ~Between(ip, <<Lo1(a), Hi1(b)>>)
  BY FirstByteV6
<1>2. ASSUME NEW a \in Octet, NEW b \in Octet, NEW c \in Octet
      PROVE  ~Between(ip, <<Lo2(a, b), Hi2(a, c)>>)
  BY SecondByteV6
<1> QED
  BY <1>1, <1>2, EndRanges, Octets

\* The divisors of the masks in use.
LEMMA Units ==
  /\ Unit(0) = 1 /\ Unit(1) = 2 /\ Unit(4) = 16 /\ Unit(6) = 64
  /\ \A y \in Int : y \div 1 = y
BY DEF Unit

LEMMA BlockV4 ==
  ASSUME NEW ip, NEW q, IsV4(ip, q), NEW p \in Quad,
         NEW c \in 1..4, NEW ones \in Nat, 8 * (c - 1) < ones, ones <= 8 * c
  PROVE  Contains(Block(p, ones), ip)
           <=> /\ \A i \in 1..4 : i < c => q[i] = p[i]
               /\ q[c] \div Unit(8 * c - ones) = p[c] \div Unit(8 * c - ones)
<1>1. /\ q \in OctetSeq(4) /\ p \in OctetSeq(4) /\ Len(q) = 4 /\ Len(p) = 4 /\ To4(ip) = q
  BY QuadSeq DEF IsV4, Quad, OctetSeq
<1>2. 4 \in {4, 16}
  OBVIOUS
<1> QED
  BY <1>1, <1>2, ContainsCut

\* What each length of an IPv4 mask compares.
LEMMA CutsV4 ==
  ASSUME NEW ip, NEW q, IsV4(ip, q), NEW p \in Quad
  PROVE  /\ Contains(Block(p, 4), ip) <=> q[1] \div 16 = p[1] \div 16
         /\ Contains(Block(p, 8), ip) <=> q[1] = p[1]
         /\ Contains(Block(p, 12), ip) <=> q[1] = p[1] /\ q[2] \div 16 = p[2] \div 16
         /\ Contains(Block(p, 16), ip) <=> q[1] = p[1] /\ q[2] = p[2]
         /\ Contains(Block(p, 32), ip) <=> \A i \in 1..4 : q[i] = p[i]
<1>1. \A i \in 1..4 : q[i] \in Int /\ p[i] \in Int
  BY QuadByte DEF IsV4
<1>2. Contains(Block(p, 4), ip) <=>
        /\ \A i \in 1..4 : i < 1 => q[i] = p[i]
        /\ q[1] \div Unit(8 * 1 - 4) = p[1] \div Unit(8 * 1 - 4)
  BY BlockV4
<1>3. Contains(Block(p, 8), ip) <=>
        /\ \A i \in 1..4 : i < 1 => q[i] = p[i]
        /\ q[1] \div Unit(8 * 1 - 8) = p[1] \div Unit(8 * 1 - 8)
  BY BlockV4
<1>4. Contains(Block(p, 12), ip) <=>
        /\ \A i \in 1..4 : i < 2 => q[i] = p[i]
        /\ q[2] \div Unit(8 * 2 - 12) = p[2] \div Unit(8 * 2 - 12)
  BY BlockV4
<1>5. Contains(Block(p, 16), ip) <=>
        /\ \A i \in 1..4 : i < 2 => q[i] = p[i]
        /\ q[2] \div Unit(8 * 2 - 16) = p[2] \div Unit(8 * 2 - 16)
  BY BlockV4
<1>6. Contains(Block(p, 32), ip) <=>
        /\ \A i \in 1..4 : i < 4 => q[i] = p[i]
        /\ q[4] \div Unit(8 * 4 - 32) = p[4] \div Unit(8 * 4 - 32)
  BY BlockV4
<1>7. (\A i \in 1..4 : i < 2 => q[i] = p[i]) <=> q[1] = p[1]
  OBVIOUS
<1>8. (\A i \in 1..4 : i < 4 => q[i] = p[i]) /\ q[4] = p[4] <=> \A i \in 1..4 : q[i] = p[i]
  OBVIOUS
<1>9. /\ 8 * 1 - 4 = 4 /\ 8 * 1 - 8 = 0 /\ 8 * 2 - 12 = 4 /\ 8 * 2 - 16 = 0 /\ 8 * 4 - 32 = 0
  OBVIOUS
<1>10. q[1] \div 1 = q[1] /\ p[1] \div 1 = p[1] /\ q[2] \div 1 = q[2] /\ p[2] \div 1 = p[2]
       /\ q[4] \div 1 = q[4] /\ p[4] \div 1 = p[4]
  BY <1>1
<1>11. Contains(Block(p, 4), ip) <=> q[1] \div 16 = p[1] \div 16
  BY <1>2, <1>9, Units
<1>12. Contains(Block(p, 8), ip) <=> q[1] = p[1]
  BY <1>3, <1>9, <1>10, Units
<1>13. Contains(Block(p, 12), ip) <=> q[1] = p[1] /\ q[2] \div 16 = p[2] \div 16
  BY <1>4, <1>7, <1>9, Units
<1>14. Contains(Block(p, 16), ip) <=> q[1] = p[1] /\ q[2] = p[2]
  BY <1>5, <1>7, <1>9, <1>10, Units
<1>15. Contains(Block(p, 32), ip) <=> \A i \in 1..4 : q[i] = p[i]
  BY <1>6, <1>8, <1>9, <1>10, Units
<1> QED
  BY <1>11, <1>12, <1>13, <1>14, <1>15

\* privateCIDRs by family.
BlocksOf4 ==
  {Block(Lo1(10), 8), Block(Lo2(172, 16), 12), Block(Lo2(192, 168), 16),
   Block(Lo2(169, 254), 16), Block(Lo1(127), 8), Block(Lo1(0), 8),
   Block(Lo1(240), 4), Block(Hi1(255), 32)}
BlocksOf6 ==
  {Block(V6(<<>>, <<1>>), 128), Block(V6(<<252>>, <<>>), 7), Block(V6(<<254, 128>>, <<>>), 10)}

\* The blocks of the code by their first addresses.
LEMMA Blocks == privateCIDRs = BlocksOf4 \cup BlocksOf6
<1> DEFINE a == Block(Lo1(10), 8)  b == Block(Lo2(172, 16), 12)  c == Block(Lo2(192, 168), 16)
           d == Block(Lo2(169, 254), 16)  e == Block(Lo1(127), 8)  f == Block(Lo1(0), 8)
           g == Block(Lo1(240), 4)  h == Block(Hi1(255), 32)
           i == Block(V6(<<>>, <<1>>), 128)  j == Block(V6(<<252>>, <<>>), 7)
           k == Block(V6(<<254, 128>>, <<>>), 10)
<1>1. privateCIDRs = {a, b, c, d, e, f, g, h, i, j, k}
  BY Zenon DEF privateCIDRs, Lo1, Lo2, Hi1
<1>2. BlocksOf4 = {a, b, c, d, e, f, g, h} /\ BlocksOf6 = {i, j, k}
  BY Zenon DEF BlocksOf4, BlocksOf6
<1> HIDE DEF a, b, c, d, e, f, g, h, i, j, k
<1>3. {a, b, c, d, e, f, g, h, i, j, k} = {a, b, c, d, e, f, g, h} \cup {i, j, k}
  OBVIOUS
<1> QED
  BY <1>1, <1>2, <1>3

\* The IPv4 blocks and the multicast test hold what the ranges hold.
LEMMA BlocksV4 ==
  ASSUME NEW ip, NEW q, IsV4(ip, q)
  PROVE  /\ (\E block \in BlocksOf4 : Contains(block, ip)) => ReservedQuad(q) \/ q[1] = 127
         /\ ReservedQuad(q) => \/ \E block \in BlocksOf4 : Contains(block, ip)
                               \/ q[1] \div 16 = 14
<1>1. q[1] \in Int /\ q[2] \in Int /\ 0 <= q[1] /\ q[1] <= 255 /\ 0 <= q[2] /\ q[2] <= 255
  BY QuadByte DEF IsV4
<1>2. /\ Lo1(10) \in Quad /\ Lo1(10)[1] = 10 /\ Lo1(10)[2] = 0
      /\ Lo2(172, 16) \in Quad /\ Lo2(172, 16)[1] = 172 /\ Lo2(172, 16)[2] = 16
      /\ Lo2(192, 168) \in Quad /\ Lo2(192, 168)[1] = 192 /\ Lo2(192, 168)[2] = 168
      /\ Lo2(169, 254) \in Quad /\ Lo2(169, 254)[1] = 169 /\ Lo2(169, 254)[2] = 254
      /\ Lo1(127) \in Quad /\ Lo1(127)[1] = 127 /\ Lo1(127)[2] = 0
      /\ Lo1(0) \in Quad /\ Lo1(0)[1] = 0 /\ Lo1(0)[2] = 0
      /\ Lo1(240) \in Quad /\ Lo1(240)[1] = 240 /\ Lo1(240)[2] = 0
      /\ Hi1(255) \in Quad /\ Hi1(255)[1] = 255 /\ Hi1(255)[2] = 255
  BY EndBytes, Octets
<1>3. Contains(Block(Lo1(10), 8), ip) <=> q[1] = 10
  BY <1>2, CutsV4
<1>4. Contains(Block(Lo2(172, 16), 12), ip) <=> q[1] = 172 /\ q[2] \div 16 = 16 \div 16
  BY <1>2, CutsV4
<1>5. Contains(Block(Lo2(192, 168), 16), ip) <=> q[1] = 192 /\ q[2] = 168
  BY <1>2, CutsV4
<1>6. Contains(Block(Lo2(169, 254), 16), ip) <=> q[1] = 169 /\ q[2] = 254
  BY <1>2, CutsV4
<1>7. Contains(Block(Lo1(127), 8), ip) <=> q[1] = 127
  BY <1>2, CutsV4
<1>8. Contains(Block(Lo1(0), 8), ip) <=> q[1] = 0
  BY <1>2, CutsV4
<1>9. Contains(Block(Lo1(240), 4), ip) <=> q[1] \div 16 = 240 \div 16
  BY <1>2, CutsV4
<1>10. Contains(Block(Hi1(255), 32), ip) => q[1] = 255
  BY <1>2, CutsV4
<1>11. q[2] \div 16 = 16 \div 16 <=> 16 <= q[2] /\ q[2] <= 31
  BY <1>1
<1>12. q[1] \div 16 = 240 \div 16 <=> 240 <= q[1]
  BY <1>1
<1>13. q[1] \div 16 = 14 <=> 224 <= q[1] /\ q[1] < 240
  BY <1>1
<1>14. ASSUME NEW block \in BlocksOf4, Contains(block, ip) PROVE ReservedQuad(q) \/ q[1] = 127
  BY <1>1, <1>3, <1>4, <1>5, <1>6, <1>7, <1>8, <1>9, <1>10, <1>11, <1>12, <1>14 DEF BlocksOf4, ReservedQuad
<1>15. ASSUME ReservedQuad(q), ~(q[1] \div 16 = 14) PROVE \E block \in BlocksOf4 : Contains(block, ip)
  <2>1. \/ q[1] = 10 \/ q[1] = 0 \/ 240 <= q[1]
        \/ q[1] = 172 /\ 16 <= q[2] /\ q[2] <= 31
        \/ q[1] = 192 /\ q[2] = 168
        \/ q[1] = 169 /\ q[2] = 254
    BY <1>1, <1>13, <1>15 DEF ReservedQuad
  <2> QED
    BY <1>3, <1>4, <1>5, <1>6, <1>8, <1>9, <1>11, <1>12, <2>1 DEF BlocksOf4
<1> QED
  BY <1>14, <1>15
-----------------------------------------------------------------------------
(* The ranges and the blocks of IPv6 addresses. *)

\* 16 bytes with one or two given, zeros or ones elsewhere.
Head1(a) == V6(<<a>>, <<>>)
Head2(a, b) == V6(<<a, b>>, <<>>)
Tail1(a) == V6(<<>>, <<a>>)
Top1(a) == <<a>> \o [i \in 1..15 |-> 255]
Top2(a, b) == <<a, b>> \o [i \in 1..14 |-> 255]
Top0 == [i \in 1..16 |-> 255]

\* Sequences of no, one and two bytes.
LEMMA Short0 == <<>> \in Bytes /\ Len(<<>>) = 0
BY DEF Bytes

LEMMA Short1 ==
  ASSUME NEW a \in Octet PROVE <<a>> \in Bytes /\ Len(<<a>>) = 1 /\ <<a>>[1] = a
BY DEF Bytes

LEMMA Short2 ==
  ASSUME NEW a \in Octet, NEW b \in Octet
  PROVE  <<a, b>> \in Bytes /\ Len(<<a, b>>) = 2 /\ <<a, b>>[1] = a /\ <<a, b>>[2] = b
BY DEF Bytes

LEMMA Head1Bytes ==
  ASSUME NEW a \in Octet
  PROVE  Head1(a) \in V16 /\ Head1(a)[1] = a /\ \A i \in 2..16 : Head1(a)[i] = 0
<1> DEFINE h == <<a>>  t == <<>>
<1>1. h \in Bytes /\ Len(h) = 1 /\ h[1] = a /\ t \in Bytes /\ Len(t) = 0
  BY Short0, Short1
<1>2. Head1(a) = V6(h, t)
  BY DEF Head1
<1> HIDE DEF h, t
<1>3. Len(h) + Len(t) <= 16
  BY <1>1
<1>4. /\ V6(h, t) \in V16
      /\ \A i \in 1..16 : V6(h, t)[i] =
           IF i <= Len(h) THEN h[i] ELSE IF i <= 16 - Len(t) THEN 0 ELSE t[i - (16 - Len(t))]
  BY <1>1, <1>3, V6Bytes
<1> QED
  BY <1>1, <1>2, <1>4

LEMMA Head2Bytes ==
  ASSUME NEW a \in Octet, NEW b \in Octet
  PROVE  /\ Head2(a, b) \in V16 /\ Head2(a, b)[1] = a /\ Head2(a, b)[2] = b
         /\ \A i \in 3..16 : Head2(a, b)[i] = 0
<1> DEFINE h == <<a, b>>  t == <<>>
<1>1. h \in Bytes /\ Len(h) = 2 /\ h[1] = a /\ h[2] = b /\ t \in Bytes /\ Len(t) = 0
  BY Short0, Short2
<1>2. Head2(a, b) = V6(h, t)
  BY DEF Head2
<1> HIDE DEF h, t
<1>3. Len(h) + Len(t) <= 16
  BY <1>1
<1>4. /\ V6(h, t) \in V16
      /\ \A i \in 1..16 : V6(h, t)[i] =
           IF i <= Len(h) THEN h[i] ELSE IF i <= 16 - Len(t) THEN 0 ELSE t[i - (16 - Len(t))]
  BY <1>1, <1>3, V6Bytes
<1> QED
  BY <1>1, <1>2, <1>4

LEMMA Tail1Bytes ==
  ASSUME NEW a \in Octet
  PROVE  Tail1(a) \in V16 /\ Tail1(a)[16] = a /\ \A i \in 1..15 : Tail1(a)[i] = 0
<1> DEFINE h == <<>>  t == <<a>>
<1>1. t \in Bytes /\ Len(t) = 1 /\ t[1] = a /\ h \in Bytes /\ Len(h) = 0
  BY Short0, Short1
<1>2. Tail1(a) = V6(h, t)
  BY DEF Tail1
<1> HIDE DEF h, t
<1>3. Len(h) + Len(t) <= 16
  BY <1>1
<1>4. /\ V6(h, t) \in V16
      /\ \A i \in 1..16 : V6(h, t)[i] =
           IF i <= Len(h) THEN h[i] ELSE IF i <= 16 - Len(t) THEN 0 ELSE t[i - (16 - Len(t))]
  BY <1>1, <1>3, V6Bytes
<1> QED
  BY <1>1, <1>2, <1>4

LEMMA Ones == ASSUME NEW n \in 0..16
              PROVE  /\ [i \in 1..n |-> 255] \in Bytes /\ Len([i \in 1..n |-> 255]) = n
                     /\ \A i \in 1..n : [j \in 1..n |-> 255][i] = 255
BY DEF Bytes, Octet

\* A head and a tail of 16 bytes together.
LEMMA CatV16 ==
  ASSUME NEW h \in Bytes, NEW t \in Bytes, Len(h) + Len(t) = 16
  PROVE  /\ Cat(h, t) \in V16
         /\ \A i \in 1..16 : Cat(h, t)[i] = IF i <= Len(h) THEN h[i] ELSE t[i - Len(h)]
<1> DEFINE v == Cat(h, t)
<1>a. /\ v \in Bytes /\ Len(v) = Len(h) + Len(t)
      /\ \A i \in 1..Len(h) + Len(t) : v[i] = IF i <= Len(h) THEN h[i] ELSE t[i - Len(h)]
  BY CatBytes
<1> HIDE DEF v
<1>1. /\ v \in Bytes /\ Len(v) = 16
      /\ \A i \in 1..16 : v[i] = IF i <= Len(h) THEN h[i] ELSE t[i - Len(h)]
  BY <1>a
<1> QED
  BY <1>1, BytesV16 DEF v

LEMMA Top1Bytes ==
  ASSUME NEW a \in Octet
  PROVE  Top1(a) \in V16 /\ Top1(a)[1] = a /\ \A i \in 2..16 : Top1(a)[i] = 255
<1> DEFINE h == <<a>>  t == [i \in 1..15 |-> 255]
<1>1. h \in Bytes /\ Len(h) = 1 /\ h[1] = a
  BY Short0, Short1
<1>2. t \in Bytes /\ Len(t) = 15
  BY Ones
<1>b. \A i \in 1..15 : t[i] = 255
  OBVIOUS
<1>3. Top1(a) = Cat(h, t)
  BY DEF Top1, Cat
<1> HIDE DEF h, t
<1>4. Len(h) + Len(t) = 16
  BY <1>1, <1>2
<1>a. /\ Cat(h, t) \in V16
      /\ \A i \in 1..16 : Cat(h, t)[i] = IF i <= Len(h) THEN h[i] ELSE t[i - Len(h)]
  BY <1>1, <1>2, <1>4, CatV16
<1>5. /\ Top1(a) \in V16
      /\ \A i \in 1..16 : Top1(a)[i] = IF i <= Len(h) THEN h[i] ELSE t[i - Len(h)]
  BY <1>3, <1>a
<1>6. ASSUME NEW i \in 2..16 PROVE Top1(a)[i] = 255
  <2>1. i \in 1..16 /\ ~(i <= 1) /\ i - 1 \in 1..15
    OBVIOUS
  <2>2. t[i - 1] = 255
    BY <1>b, <2>1
  <2> QED
    BY <1>1, <1>5, <2>1, <2>2
<1>7. Top1(a)[1] = h[1]
  BY <1>1, <1>5
<1> QED
  BY <1>1, <1>5, <1>6, <1>7

LEMMA Top2Bytes ==
  ASSUME NEW a \in Octet, NEW b \in Octet
  PROVE  Top2(a, b) \in V16 /\ Top2(a, b)[1] = a /\ Top2(a, b)[2] = b /\ \A i \in 3..16 : Top2(a, b)[i] = 255
<1> DEFINE h == <<a, b>>  t == [i \in 1..14 |-> 255]
<1>1. h \in Bytes /\ Len(h) = 2 /\ h[1] = a /\ h[2] = b
  BY Short0, Short2
<1>2. t \in Bytes /\ Len(t) = 14
  BY Ones
<1>b. \A i \in 1..14 : t[i] = 255
  OBVIOUS
<1>3. Top2(a, b) = Cat(h, t)
  BY DEF Top2, Cat
<1> HIDE DEF h, t
<1>4. Len(h) + Len(t) = 16
  BY <1>1, <1>2
<1>a. /\ Cat(h, t) \in V16
      /\ \A i \in 1..16 : Cat(h, t)[i] = IF i <= Len(h) THEN h[i] ELSE t[i - Len(h)]
  BY <1>1, <1>2, <1>4, CatV16
<1>5. /\ Top2(a, b) \in V16
      /\ \A i \in 1..16 : Top2(a, b)[i] = IF i <= Len(h) THEN h[i] ELSE t[i - Len(h)]
  BY <1>3, <1>a
<1>6. ASSUME NEW i \in 3..16 PROVE Top2(a, b)[i] = 255
  <2>1. i \in 1..16 /\ ~(i <= 2) /\ i - 2 \in 1..14
    OBVIOUS
  <2>2. t[i - 2] = 255
    BY <1>b, <2>1
  <2> QED
    BY <1>1, <1>5, <2>1, <2>2
<1>7. Top2(a, b)[1] = h[1] /\ Top2(a, b)[2] = h[2]
  BY <1>1, <1>5
<1> QED
  BY <1>1, <1>5, <1>6, <1>7

LEMMA Top0Bytes == Top0 \in V16 /\ \A i \in 1..16 : Top0[i] = 255
BY DEF Top0, V16

\* The IPv6 ranges by their first and last addresses.
LEMMA HeadRanges ==
  /\ ReservedV6 = {<<Tail1(0), Tail1(0)>>, <<Head1(252), Top1(253)>>,
                   <<Head2(254, 128), Top2(254, 191)>>, <<Head1(255), Top0>>}
  /\ LoopbackV6 = <<Tail1(1), Tail1(1)>>
BY Zenon DEF ReservedV6, LoopbackV6, Head1, Head2, Tail1, Top0, Top1, Top2

\* The ranges of IPv6 addresses, in bytes.
LEMMA RangesV6 ==
  ASSUME NEW ip, Wide(ip) \in V16
  PROVE  /\ (\E range \in ReservedV6 : Between(ip, range)) <=> ReservedBytes(Wide(ip))
         /\ Between(ip, LoopbackV6) <=> LoopbackBytes(Wide(ip))
<1> DEFINE x == Wide(ip)
<1>1. x[1] \in Int /\ x[2] \in Int /\ x[16] \in Int /\ 0 <= x[1] /\ x[1] <= 255
  BY V16Int
<1>2. ASSUME NEW a \in Octet
      PROVE  Between(ip, <<Tail1(a), Tail1(a)>>) <=> (\A i \in 1..15 : x[i] = 0) /\ x[16] = a
  <2>1. /\ \A i \in 1..16 : i < 16 => Tail1(a)[i] = Tail1(a)[i] /\ Tail1(a)[i] = 0
        /\ \A i \in 1..16 : ~(16 < i)
    BY Tail1Bytes
  <2>2. Between(ip, <<Tail1(a), Tail1(a)>>)
           <=> (\A i \in 1..16 : i < 16 => x[i] = Tail1(a)[i]) /\ Tail1(a)[16] <= x[16] /\ x[16] <= Tail1(a)[16]
    BY <2>1, Tail1Bytes, BetweenV6
  <2>3. Tail1(a)[16] = a /\ a \in Int
    <3>1. a \in Int
      BY DEF Octet
    <3>2. Tail1(a)[16] = a
      BY Tail1Bytes
    <3> QED
      BY <3>1, <3>2
  <2>4. (\A i \in 1..16 : i < 16 => x[i] = Tail1(a)[i]) <=> \A i \in 1..15 : x[i] = 0
    BY <2>1
  <2>5. a <= x[16] /\ x[16] <= a <=> x[16] = a
    BY <1>1, <2>3
  <2> QED
    BY <2>2, <2>3, <2>4, <2>5
<1>3. Between(ip, <<Head1(252), Top1(253)>>) <=> 252 <= x[1] /\ x[1] <= 253
  <2>1. /\ Head1(252) \in V16 /\ Head1(252)[1] = 252 /\ Top1(253) \in V16 /\ Top1(253)[1] = 253
        /\ \A i \in 2..16 : Head1(252)[i] = 0 /\ Top1(253)[i] = 255
    BY Head1Bytes, Top1Bytes, Octets
  <2>2. \A i \in 1..16 : ~(i < 1) /\ (1 < i => Head1(252)[i] = 0 /\ Top1(253)[i] = 255)
    BY <2>1
  <2> QED
    BY <2>1, <2>2, BetweenV6
<1>4. Between(ip, <<Head2(254, 128), Top2(254, 191)>>) <=> x[1] = 254 /\ 128 <= x[2] /\ x[2] <= 191
  <2> DEFINE lo == Head2(254, 128)  hi == Top2(254, 191)
  <2>1. /\ lo \in V16 /\ lo[1] = 254 /\ lo[2] = 128 /\ hi \in V16 /\ hi[1] = 254 /\ hi[2] = 191
        /\ \A i \in 3..16 : lo[i] = 0 /\ hi[i] = 255
    BY Head2Bytes, Top2Bytes, Octets
  <2>2. \A i \in 1..16 : (i < 2 => i = 1) /\ (2 < i => lo[i] = 0 /\ hi[i] = 255)
    BY <2>1
  <2>3. Between(ip, <<lo, hi>>) <=> (\A i \in 1..16 : i < 2 => x[i] = lo[i]) /\ lo[2] <= x[2] /\ x[2] <= hi[2]
    BY <2>1, <2>2, BetweenV6
  <2>4. (\A i \in 1..16 : i < 2 => x[i] = lo[i]) <=> x[1] = 254
    BY <2>1, <2>2
  <2> QED
    BY <2>1, <2>3, <2>4
<1>5. Between(ip, <<Head1(255), Top0>>) <=> x[1] = 255
  <2>1. /\ Head1(255) \in V16 /\ Head1(255)[1] = 255 /\ Top0 \in V16 /\ Top0[1] = 255
        /\ \A i \in 2..16 : Head1(255)[i] = 0 /\ Top0[i] = 255
    BY Head1Bytes, Top0Bytes, Octets
  <2>2. \A i \in 1..16 : ~(i < 1) /\ (1 < i => Head1(255)[i] = 0 /\ Top0[i] = 255)
    BY <2>1
  <2>3. Between(ip, <<Head1(255), Top0>>) <=> 255 <= x[1] /\ x[1] <= 255
    BY <2>1, <2>2, BetweenV6
  <2> QED
    BY <1>1, <2>3
<1>6. Between(ip, <<Tail1(1), Tail1(1)>>) <=> LoopbackBytes(x)
  BY <1>2, Octets DEF LoopbackBytes
<1>7. Between(ip, <<Tail1(0), Tail1(0)>>) <=> \A i \in 1..16 : x[i] = 0
  BY <1>2, Octets
<1>8. 252 <= x[1] /\ x[1] <= 253 <=> x[1] = 252 \/ x[1] = 253
  BY <1>1
<1> QED
  BY <1>3, <1>4, <1>5, <1>6, <1>7, <1>8, HeadRanges DEF ReservedBytes

LEMMA BlockV6 ==
  ASSUME NEW ip, IsV6(ip), NEW p \in V16,
         NEW c \in 1..16, NEW ones \in Nat, 8 * (c - 1) < ones, ones <= 8 * c
  PROVE  Contains(Block(p, ones), ip)
           <=> /\ \A i \in 1..16 : i < c => ip[i] = p[i]
               /\ ip[c] \div Unit(8 * c - ones) = p[c] \div Unit(8 * c - ones)
<1>1. /\ ip \in OctetSeq(16) /\ p \in OctetSeq(16) /\ To4(ip) = ip
  BY DEF IsV6, V16, OctetSeq
<1>2. Len(ip) = 16 /\ Len(p) = 16
  BY V16Len DEF IsV6
<1>3. 16 \in {4, 16}
  OBVIOUS
<1> QED
  BY <1>1, <1>2, <1>3, ContainsCut

\* What each length of an IPv6 mask compares.
LEMMA CutsV6 ==
  ASSUME NEW ip, IsV6(ip), NEW p \in V16
  PROVE  /\ Contains(Block(p, 7), ip) <=> ip[1] \div 2 = p[1] \div 2
         /\ Contains(Block(p, 10), ip) <=> ip[1] = p[1] /\ ip[2] \div 64 = p[2] \div 64
         /\ Contains(Block(p, 128), ip) <=> \A i \in 1..16 : ip[i] = p[i]
<1>1. \A i \in 1..16 : ip[i] \in Int /\ p[i] \in Int
  BY V16Int DEF IsV6
<1>2. Contains(Block(p, 7), ip) <=>
        /\ \A i \in 1..16 : i < 1 => ip[i] = p[i]
        /\ ip[1] \div Unit(8 * 1 - 7) = p[1] \div Unit(8 * 1 - 7)
  BY BlockV6
<1>3. Contains(Block(p, 10), ip) <=>
        /\ \A i \in 1..16 : i < 2 => ip[i] = p[i]
        /\ ip[2] \div Unit(8 * 2 - 10) = p[2] \div Unit(8 * 2 - 10)
  BY BlockV6
<1>4. Contains(Block(p, 128), ip) <=>
        /\ \A i \in 1..16 : i < 16 => ip[i] = p[i]
        /\ ip[16] \div Unit(8 * 16 - 128) = p[16] \div Unit(8 * 16 - 128)
  BY BlockV6
<1>5. (\A i \in 1..16 : i < 2 => ip[i] = p[i]) <=> ip[1] = p[1]
  OBVIOUS
<1>6. (\A i \in 1..16 : i < 16 => ip[i] = p[i]) /\ ip[16] = p[16] <=> \A i \in 1..16 : ip[i] = p[i]
  OBVIOUS
<1>7. 8 * 1 - 7 = 1 /\ 8 * 2 - 10 = 6 /\ 8 * 16 - 128 = 0
  OBVIOUS
<1>8. ip[16] \div 1 = ip[16] /\ p[16] \div 1 = p[16]
  BY <1>1
<1>9. Contains(Block(p, 7), ip) <=> ip[1] \div 2 = p[1] \div 2
  BY <1>2, <1>7, Units
<1>10. Contains(Block(p, 10), ip) <=> ip[1] = p[1] /\ ip[2] \div 64 = p[2] \div 64
  BY <1>3, <1>5, <1>7, Units
<1>11. Contains(Block(p, 128), ip) <=> \A i \in 1..16 : ip[i] = p[i]
  BY <1>4, <1>6, <1>7, <1>8, Units
<1> QED
  BY <1>9, <1>10, <1>11

LEMMA HeadBlocks ==
  BlocksOf6 = {Block(Tail1(1), 128), Block(Head1(252), 7), Block(Head2(254, 128), 10)}
BY Zenon DEF BlocksOf6, Tail1, Head1, Head2

\* The IPv6 blocks, in bytes.
LEMMA BlocksV6 ==
  ASSUME NEW ip, IsV6(ip)
  PROVE  (\E block \in BlocksOf6 : Contains(block, ip))
           <=> \/ LoopbackBytes(ip) \/ ip[1] = 252 \/ ip[1] = 253
               \/ ip[1] = 254 /\ 128 <= ip[2] /\ ip[2] <= 191
<1>1. ip[1] \in Int /\ 0 <= ip[1] /\ ip[1] <= 255 /\ ip[2] \in Int /\ 0 <= ip[2] /\ ip[2] <= 255
  BY V16Int DEF IsV6
<1>2. /\ Tail1(1) \in V16 /\ Tail1(1)[16] = 1 /\ Head1(252) \in V16 /\ Head1(252)[1] = 252
      /\ Head2(254, 128) \in V16 /\ Head2(254, 128)[1] = 254 /\ Head2(254, 128)[2] = 128
  BY Tail1Bytes, Head1Bytes, Head2Bytes, Octets
<1>3. \A i \in 1..15 : Tail1(1)[i] = 0
  BY Tail1Bytes, Octets
<1>4. Contains(Block(Tail1(1), 128), ip) <=> LoopbackBytes(ip)
  <2>1. Contains(Block(Tail1(1), 128), ip) <=> \A i \in 1..16 : ip[i] = Tail1(1)[i]
    BY <1>2, CutsV6
  <2>2. (\A i \in 1..16 : ip[i] = Tail1(1)[i]) <=> (\A i \in 1..15 : ip[i] = 0) /\ ip[16] = 1
    BY <1>2, <1>3
  <2> QED
    BY <2>1, <2>2 DEF LoopbackBytes
<1>5. Contains(Block(Head1(252), 7), ip) <=> ip[1] \div 2 = 252 \div 2
  BY <1>2, CutsV6
<1>6. Contains(Block(Head2(254, 128), 10), ip) <=> ip[1] = 254 /\ ip[2] \div 64 = 128 \div 64
  BY <1>2, CutsV6
<1>7. ip[1] \div 2 = 252 \div 2 <=> ip[1] = 252 \/ ip[1] = 253
  BY <1>1
<1>8. ip[2] \div 64 = 128 \div 64 <=> 128 <= ip[2] /\ ip[2] <= 191
  BY <1>1
<1> QED
  BY <1>4, <1>5, <1>6, <1>7, <1>8, HeadBlocks

\* The masks of one family hold no address of the other.
LEMMA OtherBlocks ==
  ASSUME NEW ip
  PROVE  /\ \A q \in Quad : IsV4(ip, q) => ~\E block \in BlocksOf6 : Contains(block, ip)
         /\ IsV6(ip) => ~\E block \in BlocksOf4 : Contains(block, ip)
<1>1. ASSUME NEW p \in V16, NEW ones, NEW q \in Quad, IsV4(ip, q) PROVE ~Contains(Block(p, ones), ip)
  <2>1. Len(p) = 16 /\ Len(To4(ip)) = 4
    BY <1>1, V16Len, QuadSeq DEF IsV4
  <2> QED
    BY <2>1 DEF Contains, Block
<1>2. ASSUME NEW p \in Quad, NEW ones, IsV6(ip) PROVE ~Contains(Block(p, ones), ip)
  <2>1. Len(p) = 4 /\ Len(To4(ip)) = 16
    BY <1>2, V16Len, QuadSeq DEF IsV6
  <2> QED
    BY <2>1 DEF Contains, Block
<1>3. Tail1(1) \in V16 /\ Head1(252) \in V16 /\ Head2(254, 128) \in V16
  BY Tail1Bytes, Head1Bytes, Head2Bytes, Octets
<1>4. /\ Lo1(10) \in Quad /\ Lo2(172, 16) \in Quad /\ Lo2(192, 168) \in Quad
      /\ Lo2(169, 254) \in Quad /\ Lo1(127) \in Quad /\ Lo1(0) \in Quad
      /\ Lo1(240) \in Quad /\ Hi1(255) \in Quad
  BY EndBytes, Octets
<1>5. \A q \in Quad : IsV4(ip, q) => ~\E block \in BlocksOf6 : Contains(block, ip)
  BY <1>1, <1>3, HeadBlocks
<1>6. IsV6(ip) => ~\E block \in BlocksOf4 : Contains(block, ip)
  BY <1>2, <1>4 DEF BlocksOf4
<1> QED
  BY <1>5, <1>6
-----------------------------------------------------------------------------
(* The policy of each family. *)

LEMMA ZeroAddresses ==
  /\ Zeros(4) \in Quad /\ \A i \in 1..4 : Zeros(4)[i] = 0
  /\ Zeros(16) \in V16 /\ \A i \in 1..16 : Zeros(16)[i] = 0
BY DEF Zeros, Quad, V16

LEMMA NotEmpty == ASSUME NEW s, 1 \in DOMAIN s PROVE s # <<>>
OBVIOUS

\* The predicates of the code are the policy, for IPv4 addresses ...
LEMMA PolicyV4 ==
  ASSUME NEW ip, NEW q, IsV4(ip, q)
  PROVE  /\ IsLoopback(ip) <=> Loopback(ip)
         /\ ~Loopback(ip) => (~isPrivateIP(ip) <=> Public(ip))
<1>1. q \in Quad /\ To4(ip) = q /\ Wide(ip) \in V16 /\ ip \in {q, Mapped(q)}
  BY MappedBytes DEF IsV4
<1>2. Len(q) = 4 /\ q[1] \in Int /\ 0 <= q[1] /\ q[1] <= 255
  BY <1>1, QuadSeq, QuadByte
<1>3. Wide(ip)[1] = 0 /\ Wide(ip)[11] = 255
  BY <1>1, MappedBytes DEF IsV4
<1>4. ~ReservedBytes(Wide(ip)) /\ ~LoopbackBytes(Wide(ip))
  BY <1>3 DEF ReservedBytes, LoopbackBytes
<1>5. Loopback(ip) <=> q[1] = 127
  BY <1>1, <1>4, RangesV4, RangesV6 DEF Loopback
<1>6. IsLoopback(ip) <=> q[1] = 127
  BY <1>1, <1>2 DEF IsLoopback
<1>7. (\E range \in ReservedV4 \cup ReservedV6 : Between(ip, range)) <=> ReservedQuad(q)
  BY <1>1, <1>4, RangesV4, RangesV6
<1>8. IsLinkLocalUnicast(ip) => ReservedQuad(q)
  BY <1>1, <1>2 DEF IsLinkLocalUnicast, ReservedQuad
<1>9. IsMulticast(ip) <=> q[1] \div 16 = 14
  BY <1>1, <1>2 DEF IsMulticast
<1>10. IsUnspecified(ip) => ReservedQuad(q)
  <2>1. ip # Zeros(16)
    <3>1. CASE ip = q
      <4>1. Len(Zeros(16)) = 16
        BY ZeroAddresses, V16Len
      <4> QED
        BY <1>2, <3>1, <4>1
    <3>2. CASE ip = Mapped(q)
      BY <1>1, <3>2, MappedBytes, ZeroAddresses
    <3> QED
      BY <1>1, <3>1, <3>2
  <2>2. q = Zeros(4) => q[1] = 0
    BY ZeroAddresses
  <2> QED
    BY <1>1, <2>1, <2>2 DEF IsUnspecified, ReservedQuad
<1>11. q[1] \div 16 = 14 => 224 <= q[1]
  BY <1>2
<1>12. ip # <<>>
  <2>1. 1 \in DOMAIN q
    BY <1>1 DEF Quad
  <2>2. 1 \in DOMAIN Mapped(q)
    <3>1. Mapped(q) \in V16
      BY <1>1, MappedBytes
    <3> QED
      BY <3>1, V16Len
  <2> QED
    BY <1>1, <2>1, <2>2, NotEmpty
<1>13. ASSUME q[1] # 127 PROVE isPrivateIP(ip) <=> ReservedQuad(q)
  <2>1. ASSUME isPrivateIP(ip) PROVE ReservedQuad(q)
    <3>1. CASE \E block \in privateCIDRs : Contains(block, ip)
      BY <1>1, <1>13, <3>1, Blocks, BlocksV4, OtherBlocks
    <3>2. CASE IsMulticast(ip)
      BY <1>9, <1>11, <3>2 DEF ReservedQuad
    <3> QED
      BY <1>6, <1>8, <1>10, <1>12, <1>13, <2>1, <3>1, <3>2 DEF isPrivateIP
  <2>2. ASSUME ReservedQuad(q) PROVE isPrivateIP(ip)
    BY <1>9, <2>2, Blocks, BlocksV4 DEF isPrivateIP
  <2> QED
    BY <2>1, <2>2
<1>14. Public(ip) <=> q[1] # 127 /\ ~ReservedQuad(q)
  BY <1>5, <1>7 DEF Public
<1> QED
  BY <1>5, <1>6, <1>13, <1>14

\* ... for IPv6 addresses ...
LEMMA PolicyV6 ==
  ASSUME NEW ip, IsV6(ip)
  PROVE  /\ IsLoopback(ip) <=> Loopback(ip)
         /\ ~Loopback(ip) => (~isPrivateIP(ip) <=> Public(ip))
<1>1. ip \in V16 /\ To4(ip) = ip /\ Wide(ip) = ip
  BY DEF IsV6
<1>2. /\ Len(ip) = 16
      /\ ip[1] \in Int /\ 0 <= ip[1] /\ ip[1] <= 255 /\ ip[2] \in Int /\ 0 <= ip[2] /\ ip[2] <= 255
  BY <1>1, V16Len, V16Int
<1>3. (\E range \in ReservedV4 \cup ReservedV6 : Between(ip, range)) <=> ReservedBytes(ip)
  BY <1>1, NotV4, RangesV6
<1>4. Loopback(ip) <=> LoopbackBytes(ip)
  BY <1>1, NotV4, RangesV6 DEF Loopback
<1>5. IsLoopback(ip) <=> LoopbackBytes(ip)
  <2>1. IsLoopback(ip) <=> ip = Tail1(1)
    BY <1>1, <1>2 DEF IsLoopback, Tail1
  <2>2. Tail1(1) \in V16 /\ Tail1(1)[16] = 1 /\ \A i \in 1..15 : Tail1(1)[i] = 0
    BY Tail1Bytes, Octets
  <2>3. ASSUME LoopbackBytes(ip), NEW i \in 1..16 PROVE ip[i] = Tail1(1)[i]
    <3>1. i \in 1..15 \/ i = 16
      OBVIOUS
    <3> QED
      BY <2>2, <2>3, <3>1 DEF LoopbackBytes
  <2>4. ASSUME LoopbackBytes(ip) PROVE ip = Tail1(1)
    BY <1>1, <2>2, <2>3, <2>4, V16Equal
  <2>5. LoopbackBytes(Tail1(1))
    BY <2>2 DEF LoopbackBytes
  <2> QED
    BY <2>1, <2>4, <2>5
<1>6. IsUnspecified(ip) <=> \A i \in 1..16 : ip[i] = 0
  <2>1. ip # Zeros(4)
    <3>1. Len(Zeros(4)) = 4
      BY ZeroAddresses, QuadSeq
    <3> QED
      BY <1>2, <3>1
  <2>2. ASSUME \A i \in 1..16 : ip[i] = 0 PROVE ip = Zeros(16)
    BY <1>1, <2>2, ZeroAddresses, V16Equal
  <2>3. ip = Zeros(16) => \A i \in 1..16 : ip[i] = 0
    BY ZeroAddresses
  <2> QED
    BY <1>1, <2>1, <2>2, <2>3 DEF IsUnspecified
<1>7. IsMulticast(ip) <=> ip[1] = 255
  BY <1>1, <1>2 DEF IsMulticast
<1>8. IsLinkLocalUnicast(ip) <=> ip[1] = 254 /\ 128 <= ip[2] /\ ip[2] <= 191
  <2>1. ip[2] \div 64 = 2 <=> 128 <= ip[2] /\ ip[2] <= 191
    BY <1>2
  <2> QED
    BY <1>1, <1>2, <2>1 DEF IsLinkLocalUnicast
<1>9. ip # <<>>
  <2>1. 1 \in DOMAIN ip
    BY <1>1 DEF V16
  <2> QED
    BY <2>1, NotEmpty
<1>10. (\E block \in privateCIDRs : Contains(block, ip))
         <=> \/ LoopbackBytes(ip) \/ ip[1] = 252 \/ ip[1] = 253
             \/ ip[1] = 254 /\ 128 <= ip[2] /\ ip[2] <= 191
  BY Blocks, BlocksV6, OtherBlocks
<1>11. isPrivateIP(ip) <=> LoopbackBytes(ip) \/ ReservedBytes(ip)
  BY <1>5, <1>6, <1>7, <1>8, <1>9, <1>10 DEF isPrivateIP, ReservedBytes
<1> QED
  BY <1>3, <1>4, <1>5, <1>11 DEF Public

\* ... and so for every address a name can resolve to or a URL can spell.
THEOREM Policy ==
  ASSUME NEW ip \in IP
  PROVE  /\ ip # <<>>
         /\ IsLoopback(ip) <=> Loopback(ip)
         /\ ~Loopback(ip) => (~isPrivateIP(ip) <=> Public(ip))
<1>1. ip # <<>>
  <2>1. 1 \in DOMAIN ip
    BY DEF IP
  <2> QED
    BY <2>1, NotEmpty
<1> QED
  BY <1>1, Forms, PolicyV4, PolicyV6
-----------------------------------------------------------------------------
(* The verdict. *)

LEMMA InitResolved == Init => ResolvedInv
BY DEF Init, ResolvedInv

\* What was checked before the lookup still holds when its answer is judged.
LEMMA NextResolved == ResolvedInv /\ [Next]_vars => ResolvedInv'
<1> SUFFICES ASSUME ResolvedInv, [Next]_vars PROVE ResolvedInv'
  OBVIOUS
<1>1. ASSUME NEW answer \in Answers, LookupIP(answer) PROVE ResolvedInv'
  BY <1>1 DEF LookupIP, ResolvedInv, Askable, DefaultChecks, Literal
<1>2. ASSUME RefuseUrl \/ CheckLiteral \/ CheckResolved \/ OwnValidator PROVE ResolvedInv'
  <2>1. url' = url /\ pc' # "resolved"
    BY <1>2 DEF RefuseUrl, CheckLiteral, CheckResolved, OwnValidator, Reject, Returned
  <2> QED
    BY <2>1 DEF ResolvedInv
<1>3. ASSUME NEW name \in remaining, SanitizeHeader(name) PROVE ResolvedInv'
  BY <1>3 DEF SanitizeHeader, ResolvedInv
<1>4. ASSUME BuildRequest \/ WriteBody PROVE ResolvedInv'
  BY <1>4 DEF BuildRequest, WriteBody, ResolvedInv, Askable
<1>5. CASE UNCHANGED vars
  BY <1>5 DEF vars, ResolvedInv, Askable
<1> QED
  BY <1>1, <1>2, <1>3, <1>4, <1>5 DEF Next

\* isAllowedIP is the policy, for every address and host.
LEMMA Allowed ==
  ASSUME NEW host, NEW ip \in IP, NEW allow
  PROVE  isAllowedIP(host, ip, allow) <=> Public(ip) \/ (allow /\ Loopback(ip) /\ isLocalDestinationHost(host))
BY Policy DEF isAllowedIP, Public

\* Each verdict is the one described.
LEMMA RefuseVerdict == ASSUME RefuseUrl PROVE Verdict
<1> SUFFICES ASSUME w.urlValidator = "default" PROVE pc' # "accepted" /\ ~Described(url, Found, w.allowHTTP)
  BY DEF Verdict
<1>1. pc' # "accepted"
  BY DEF RefuseUrl, Reject
<1>2. ~Askable(url) => ~Described(url, Found, w.allowHTTP)
  BY DEF Askable, hasDisallowedQueryAuthKey, Described
<1>3. ~DefaultChecks(url, w.allowHTTP) => ~Described(url, Found, w.allowHTTP)
  BY DEF DefaultChecks, Described
<1> QED
  BY <1>1, <1>2, <1>3 DEF RefuseUrl

\* What both checks of addresses have in common.
LEMMA CheckedVerdict ==
  ASSUME Askable(url), DefaultChecks(url, w.allowHTTP), NEW ok,
         IF ok THEN Returned(url) ELSE Reject,
         ok <=> /\ Found # {}
                /\ \A ip \in Found : \/ Public(ip)
                                     \/ /\ w.allowHTTP /\ Loopback(ip)
                                        /\ Literal(url) \/ Lower(Hostname(url)) = "localhost"
  PROVE  pc' = "accepted" <=> Described(url, Found, w.allowHTTP)
<1>1. pc' = "accepted" <=> ok /\ Clean(url)
  BY DEF Returned, Reject
<1>2. /\ url.parses /\ ~url.user /\ Hostname(url) # ""
      /\ \A key \in url.query : Lower(TrimSpace(key)) \notin {"token", "auth", "apikey", "api_key"}
      /\ url.scheme = "https" \/ (w.allowHTTP /\ url.scheme = "http")
  BY DEF Askable, hasDisallowedQueryAuthKey, DefaultChecks
<1>3. Clean(url) <=> ~url.fragment
  BY <1>2 DEF Clean
<1> QED
  BY <1>1, <1>2, <1>3 DEF Described

LEMMA LiteralVerdict == ASSUME ResolvedInv, CheckLiteral PROVE Verdict
<1> DEFINE ip == url.host.ip  ok == isAllowedIP(url.host, ip, w.allowHTTP)
<1>1. ip \in IP
  <2>1. url \in Url
    BY PrepareAssumption DEF ResolvedInv
  <2>2. url.host \in Host
    BY <2>1 DEF Url
  <2>3. url.host.ip \in {<<>>} \cup IP
    BY <2>2 DEF Host
  <2> QED
    BY <2>3 DEF CheckLiteral, Literal
<1>2. Found = {ip}
  BY DEF Found, CheckLiteral
<1>3. Loopback(ip) => isLocalDestinationHost(url.host)
  BY <1>1, Policy DEF isLocalDestinationHost
<1>4. ok <=> Public(ip) \/ (w.allowHTTP /\ Loopback(ip))
  <2>1. ok <=> Public(ip) \/ (w.allowHTTP /\ Loopback(ip) /\ isLocalDestinationHost(url.host))
    BY <1>1, Allowed
  <2> QED
    BY <1>3, <2>1
<1>5. Literal(url) /\ Askable(url) /\ DefaultChecks(url, w.allowHTTP) /\ IF ok THEN Returned(url) ELSE Reject
  BY DEF CheckLiteral
<1>6. ok <=> /\ Found # {}
             /\ \A a \in Found : \/ Public(a)
                                 \/ /\ w.allowHTTP /\ Loopback(a)
                                    /\ Literal(url) \/ Lower(Hostname(url)) = "localhost"
  BY <1>2, <1>4, <1>5
<1> HIDE DEF ip, ok
<1> QED
  BY <1>5, <1>6, CheckedVerdict DEF Verdict

LEMMA ResolvedVerdict == ASSUME ResolvedInv, CheckResolved PROVE Verdict
<1> DEFINE ok == ips # <<>> /\ \A i \in DOMAIN ips : isAllowedIP(url.host, ips[i], w.allowHTTP)
<1>1. /\ pc = "resolved" /\ ~Literal(url) /\ ips \in Seq(IP)
      /\ Askable(url) /\ DefaultChecks(url, w.allowHTTP) /\ IF ok THEN Returned(url) ELSE Reject
  BY PrepareAssumption DEF ResolvedInv, CheckResolved
<1>2. Found = {ips[i] : i \in DOMAIN ips}
  BY <1>1 DEF Found
<1>3. ips # <<>> <=> Found # {}
  <2>1. DOMAIN ips = 1..Len(ips)
    BY <1>1, LenProperties
  <2>2. ips # <<>> => Len(ips) \in Nat \ {0}
    BY <1>1, EmptySeq
  <2>3. ips # <<>> => 1 \in DOMAIN ips
    BY <2>1, <2>2
  <2>4. ips = <<>> => DOMAIN ips = {}
    OBVIOUS
  <2> QED
    BY <1>2, <2>3, <2>4
<1>4. isLocalDestinationHost(url.host) <=> Lower(Hostname(url)) = "localhost"
  BY <1>1 DEF isLocalDestinationHost, Literal, Hostname
<1>5. ASSUME NEW i \in DOMAIN ips
      PROVE  isAllowedIP(url.host, ips[i], w.allowHTTP)
               <=> Public(ips[i]) \/ (w.allowHTTP /\ Loopback(ips[i]) /\ Lower(Hostname(url)) = "localhost")
  <2>1. ips[i] \in IP
    BY <1>1, LenProperties, ElementOfSeq
  <2> QED
    BY <1>4, <2>1, Allowed
<1>6. ok <=> /\ Found # {}
             /\ \A a \in Found : \/ Public(a)
                                 \/ /\ w.allowHTTP /\ Loopback(a)
                                    /\ Literal(url) \/ Lower(Hostname(url)) = "localhost"
  BY <1>1, <1>2, <1>3, <1>5
<1> HIDE DEF ok
<1> QED
  BY <1>1, <1>6, CheckedVerdict DEF Verdict

\* No other step reaches a verdict of DefaultURLValidator.
LEMMA NextVerdict == ResolvedInv /\ [Next]_vars => [Verdict]_vars
<1> SUFFICES ASSUME ResolvedInv, [Next]_vars PROVE [Verdict]_vars
  OBVIOUS
<1>1. CASE RefuseUrl
  BY <1>1, RefuseVerdict
<1>2. CASE CheckLiteral
  BY <1>2, LiteralVerdict
<1>3. CASE CheckResolved
  BY <1>3, ResolvedVerdict
<1>4. ASSUME NEW answer \in Answers, LookupIP(answer) PROVE Verdict
  BY <1>4 DEF LookupIP, Verdict
<1>5. CASE OwnValidator
  BY <1>5 DEF OwnValidator, Verdict
<1>6. ASSUME NEW name \in remaining, SanitizeHeader(name) PROVE Verdict
  BY <1>6 DEF SanitizeHeader, Verdict
<1>7. CASE BuildRequest \/ WriteBody
  BY <1>7 DEF BuildRequest, WriteBody, Verdict
<1>8. CASE UNCHANGED vars
  BY <1>8
<1> QED
  BY <1>1, <1>2, <1>3, <1>4, <1>5, <1>6, <1>7, <1>8 DEF Next

\* For every URL a caller may ask for and every answer of the resolver,
\* DefaultURLValidator lets through exactly the destinations its comments
\* describe (validate_default.go:20-44, :96-114).
THEOREM Verdicts == Spec => VerdictIsPolicy
<1>1. Spec => []ResolvedInv
  BY InitResolved, NextResolved, PTL DEF Spec
<1> QED
  BY <1>1, NextVerdict, PTL DEF Spec, VerdictIsPolicy
=============================================================================
