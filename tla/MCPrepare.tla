----------------------------- MODULE MCPrepare -----------------------------
(* An instance of Prepare for TLC: the addresses at both ends of every      *)
(* reserved range and their neighbours, the IPv4 ones in both forms.        *)
EXTENDS Prepare

\* Texts as they are spelled, with their trimmed and lower-case forms.
MCTrimSpace(s) == CASE s = " x " -> "x" [] s = "  " -> "" [] s = "U+3000" -> ""
                    [] s = " TTL" -> "TTL" [] s = " Token " -> "Token" [] OTHER -> s
MCLower(s) == CASE s = "Content-Type" -> "content-type" [] s = "TTL" -> "ttl" [] s = "X-Other" -> "x-other"
                [] s = "Token" -> "token" [] s = "LocalHost" -> "localhost" [] OTHER -> s

\* The numerical neighbours of an address, itself where there is none.
Succ(a) == IF \A i \in DOMAIN a : a[i] = 255 THEN a ELSE
  LET k == CHOOSE i \in DOMAIN a : a[i] # 255 /\ \A j \in DOMAIN a : j > i => a[j] = 255
  IN  [i \in DOMAIN a |-> IF i < k THEN a[i] ELSE IF i = k THEN a[i] + 1 ELSE 0]
Pred(a) == IF \A i \in DOMAIN a : a[i] = 0 THEN a ELSE
  LET k == CHOOSE i \in DOMAIN a : a[i] # 0 /\ \A j \in DOMAIN a : j > i => a[j] = 0
  IN  [i \in DOMAIN a |-> IF i < k THEN a[i] ELSE IF i = k THEN a[i] - 1 ELSE 255]
Edges(range) == {range[1], range[2], Pred(range[1]), Succ(range[2])}

V4 == UNION {Edges(range) : range \in ReservedV4 \cup {LoopbackV4}}
V6Edges == UNION {Edges(range) : range \in ReservedV6 \cup {LoopbackV6}}

\* net.ParseIP returns 16 bytes, the resolver either form.
Literals  == V6Edges \cup {Mapped(a) : a \in V4}
Addresses == V6Edges \cup V4 \cup {Mapped(<<10, 0, 0, 0>>), Mapped(<<127, 0, 0, 1>>)}
Public1   == <<8, 8, 8, 8>>

MCAnswers == {<<>>} \cup {<<a>> : a \in Addresses}
               \cup {<<Public1, a>> : a \in Addresses} \cup {<<a, Public1>> : a \in Addresses}

Plain(scheme, host) ==
  [parses |-> TRUE, scheme |-> scheme, user |-> FALSE, host |-> host, path |-> "plain",
   query |-> {}, fragment |-> FALSE]
Name(n) == [name |-> n, ip |-> <<>>]
Site    == Plain("https", Name("example.com"))

MCUrls ==
  {Plain(s, [name |-> "literal", ip |-> a]) : s \in {"http", "https"}, a \in Literals}
    \cup {Plain(s, Name(n)) : s \in {"http", "https", "ftp"}, n \in {"example.com", "LocalHost", "U+3000", ""}}
    \cup {[Site EXCEPT !.parses = FALSE], [Site EXCEPT !.user = TRUE], [Site EXCEPT !.fragment = TRUE],
          [Site EXCEPT !.path = ""], [Site EXCEPT !.path = "escaped"],
          [Site EXCEPT !.query = {" Token "}], [Site EXCEPT !.query = {"topic", "api_key"}],
          [Site EXCEPT !.query = {"topic"}]}

\* What a validator of the host's own may make of a URL.
MCRewritten ==
  {Plain("https", Name("proxy.example")), [Site EXCEPT !.user = TRUE], [Site EXCEPT !.fragment = TRUE],
   [Site EXCEPT !.parses = FALSE], Plain("https", Name("U+3000"))}

MCBody == <<"begin", "end">>

Spelled == {"Content-Type", "content-type", " TTL", "ttl", "X-Other"}
MCHeaderMaps == UNION {[names -> {"x", " x ", "  ", "y"}] : names \in {n \in SUBSET Spelled : Cardinality(n) <= 2}}
=============================================================================
