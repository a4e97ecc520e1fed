------------------------------ MODULE Prepare ------------------------------
(***************************************************************************)
(* What Wrapper.Send decides before and with each attempt                  *)
(* (src/transport/wrapper.go): the verdict on the destination, with        *)
(* DefaultURLValidator or the host's own validator, the outbound headers   *)
(* gathered from a Go map in any order, and the request each attempt       *)
(* builds from them.  The limit on the body, the revalidation of redirects *)
(* and how the attempts end are in Wrapper.                                *)
(***************************************************************************)
EXTENDS UrlPolicy, FiniteSets

CONSTANTS Urls,          \* URLs that callers ask for
          Answers,       \* what net.LookupIP may return, <<>> for nothing or an error
          Rewritten,     \* URLs a host's own validator may return
          HeaderMaps,    \* Request.Headers: functions from spelled names to values
          Body,          \* Request.Body, as the pieces a client may write it in
          MaxAttempts,   \* requests one Send builds
          Lower(_),      \* strings.ToLower on the names in use
          TrimSpace(_)   \* strings.TrimSpace on the names and values in use

Paths == {"", "plain", "escaped", "twice"}

\* A host is a name, or a literal with the address it denotes.
Host == [name : STRING, ip : {<<>>} \cup IP]
Url  == [parses : BOOLEAN, scheme : STRING, user : BOOLEAN, host : Host, path : Paths,
         query : SUBSET STRING, fragment : BOOLEAN]

ASSUME PrepareAssumption ==
  /\ Urls \subseteq Url /\ Rewritten \subseteq Url
  /\ Answers \subseteq Seq(IP)
  /\ Body \in Seq(STRING)
  /\ MaxAttempts \in Nat

VARIABLES
  w,          \* the Wrapper: its urlValidator and allowHTTP
  url,        \* Request.URL
  pc,         \* "idle", "resolved", "accepted" or "rejected"
  ips,        \* resolvedIPs, between the lookup and the check
  dest,       \* destURL, once accepted
  headers,    \* Request.Headers, chosen when Send comes to them
  remaining,  \* names the range over Headers has still to visit
  sanitized,  \* the map sanitizeOutboundHeaders builds
  wire,       \* the requests built so far
  position    \* how much the client has read of the last one's body

vars == <<w, url, pc, ips, dest, headers, remaining, sanitized, wire, position>>

Empty == [n \in {} |-> ""]

\* NewWrapper replaces a nil validator; a Wrapper{} without one stays as it is.
NewWrapper(validator, allow) ==
  [urlValidator |-> IF validator = "nil" THEN "default" ELSE validator, allowHTTP |-> allow]

Init ==
  /\ w \in {NewWrapper(v, a) : v \in {"nil", "own"}, a \in BOOLEAN}
           \cup {[urlValidator |-> "nil", allowHTTP |-> FALSE]}
  /\ url \in Urls /\ dest = url
  /\ pc = "idle" /\ ips = <<>>
  /\ headers = Empty /\ sanitized = Empty /\ remaining = {} /\ wire = <<>> /\ position = 0
-----------------------------------------------------------------------------
(* validateDestination and DefaultURLValidator. *)

Hostname(u) == TrimSpace(u.host.name)
Literal(u)  == u.host.ip # <<>>            \* net.ParseIP(hostname) != nil

hasDisallowedQueryAuthKey(query) ==
  \E key \in query : Lower(TrimSpace(key)) \in {"token", "auth", "apikey", "api_key"}

isLocalDestinationHost(host) ==
  Lower(TrimSpace(host.name)) = "localhost" \/ (host.ip # <<>> /\ IsLoopback(host.ip))

\* Mutant: allowHTTP opens loopback to every name.
isAllowedIPAnyName(host, ip, allowHTTP) ==
  ip # <<>> /\ IF IsLoopback(ip) THEN allowHTTP ELSE ~isPrivateIP(ip)
isAllowedIP(host, ip, allowHTTP) ==
  ip # <<>> /\ IF IsLoopback(ip) THEN allowHTTP /\ isLocalDestinationHost(host) ELSE ~isPrivateIP(ip)

\* DefaultURLValidator up to the hostname.
DefaultChecks(u, allowHTTP) ==
  /\ u.scheme = "https" \/ (u.scheme = "http" /\ allowHTTP)
  /\ ~u.user
  /\ Hostname(u) # ""

\* validateDestination before and after it asks the validator.
Askable(u) == u.parses /\ ~hasDisallowedQueryAuthKey(u.query) /\ w.urlValidator # "nil"
Clean(v)   == v.parses /\ ~v.user /\ ~v.fragment /\ Hostname(v) # ""

Reject == pc' = "rejected" /\ UNCHANGED <<dest, headers, remaining>>

\* The validator returned v: Send goes on to the headers of its Request.
Returned(v) ==
  IF ~Clean(v) THEN Reject
  ELSE /\ pc' = "accepted"
       /\ dest' = v
       /\ headers' \in HeaderMaps
       /\ remaining' = DOMAIN headers'

RefuseUrl ==
  /\ pc = "idle"
  /\ \/ ~Askable(url)
     \/ w.urlValidator = "default" /\ ~DefaultChecks(url, w.allowHTTP)
  /\ Reject
  /\ UNCHANGED <<w, url, ips, sanitized, wire, position>>

CheckLiteral ==
  /\ pc = "idle" /\ Askable(url)
  /\ w.urlValidator = "default" /\ DefaultChecks(url, w.allowHTTP)
  /\ Literal(url)
  /\ IF isAllowedIP(url.host, url.host.ip, w.allowHTTP) THEN Returned(url) ELSE Reject
  /\ UNCHANGED <<w, url, ips, sanitized, wire, position>>

LookupIP(answer) ==
  /\ pc = "idle" /\ Askable(url)
  /\ w.urlValidator = "default" /\ DefaultChecks(url, w.allowHTTP)
  /\ ~Literal(url)
  /\ ips' = answer
  /\ pc' = "resolved"
  /\ UNCHANGED <<w, url, dest, headers, remaining, sanitized, wire, position>>

\* Mutant: the first address decides.
CheckFirstResolved ==
  /\ pc = "resolved"
  /\ IF ips # <<>> /\ isAllowedIP(url.host, ips[1], w.allowHTTP) THEN Returned(url) ELSE Reject
  /\ ips' = <<>>
  /\ UNCHANGED <<w, url, sanitized, wire, position>>
CheckResolved ==
  /\ pc = "resolved"
  /\ IF ips # <<>> /\ \A i \in DOMAIN ips : isAllowedIP(url.host, ips[i], w.allowHTTP)
     THEN Returned(url) ELSE Reject
  /\ ips' = <<>>
  /\ UNCHANGED <<w, url, sanitized, wire, position>>

\* WithURLValidator: the host's own validator returns a URL, or an error.
OwnValidator ==
  /\ pc = "idle" /\ Askable(url) /\ w.urlValidator = "own"
  /\ Reject \/ \E v \in Rewritten : Returned(v)
  /\ UNCHANGED <<w, url, ips, sanitized, wire, position>>
-----------------------------------------------------------------------------
(* The headers and the requests. *)

allowed == {"content-type", "user-agent", "x-request-id", "x-gotify-key", "authorization",
            "content-encoding", "ttl", "urgency", "topic"}

\* Mutant: names are compared as they are spelled.
normalizedKeyAsSpelled(name) == TrimSpace(name)
normalizedKey(name) == Lower(TrimSpace(name))

\* One turn of the range over Headers, in no particular order. A canonical
\* header key stands for exactly one lower-case name, which is used here.
SanitizeHeader(name) ==
  /\ pc = "accepted" /\ name \in remaining
  /\ remaining' = remaining \ {name}
  /\ LET key == normalizedKey(name) IN
     sanitized' = IF key \notin allowed THEN sanitized
                  ELSE [n \in DOMAIN sanitized \cup {key} |->
                          IF n = key THEN TrimSpace(headers[name]) ELSE sanitized[n]]
  /\ UNCHANGED <<w, url, pc, ips, dest, headers, wire, position>>

buildSafeRequestURL(u) ==
  [scheme |-> u.scheme, host |-> u.host, query |-> u.query,
   path |-> CASE u.path = "" -> "/" [] u.path = "plain" -> "plain" [] OTHER -> "twice"]

\* Header.Set of every entry, and the Content-Type of an empty one.
HttpHeader(h) ==
  IF "content-type" \in DOMAIN h /\ h["content-type"] # "" THEN h
  ELSE [n \in DOMAIN h \cup {"content-type"} |-> IF n = "content-type" THEN "application/json" ELSE h[n]]

\* A bytes.Reader over the body that has been read up to n.
Unread(n) == [i \in 1..(Len(Body) - n) |-> Body[n + i]]

Request(n) ==
  [url |-> buildSafeRequestURL(dest), Host |-> dest.host, Header |-> HttpHeader(sanitized), Body |-> Unread(n)]

\* One attempt of the loop builds its http.Request, with a reader of its own.
\* Mutants: the headers are gathered anew for the next attempt; one reader,
\* made before the loop, serves all attempts.
BuildRequestAgain ==
  /\ pc = "accepted" /\ remaining = {}
  /\ Len(wire) < MaxAttempts
  /\ wire' = Append(wire, Request(0)) /\ position' = 0
  /\ remaining' = DOMAIN headers
  /\ UNCHANGED <<w, url, pc, ips, dest, headers, sanitized>>
BuildRequestOneReader ==
  /\ pc = "accepted" /\ remaining = {}
  /\ Len(wire) < MaxAttempts
  /\ wire' = Append(wire, Request(position))
  /\ UNCHANGED <<w, url, pc, ips, dest, headers, remaining, sanitized, position>>
BuildRequest ==
  /\ pc = "accepted" /\ remaining = {}
  /\ Len(wire) < MaxAttempts
  /\ wire' = Append(wire, Request(0)) /\ position' = 0
  /\ UNCHANGED <<w, url, pc, ips, dest, headers, remaining, sanitized>>

\* client.Do writes a piece of the body. The attempt may end at any piece.
WriteBody ==
  /\ wire # <<>> /\ position < Len(Body)
  /\ position' = position + 1
  /\ UNCHANGED <<w, url, pc, ips, dest, headers, remaining, sanitized, wire>>
-----------------------------------------------------------------------------
Next ==
  \/ RefuseUrl
  \/ CheckLiteral
  \/ \E answer \in Answers : LookupIP(answer)
  \/ CheckResolved
  \/ OwnValidator
  \/ \E name \in remaining : SanitizeHeader(name)
  \/ BuildRequest
  \/ WriteBody

Spec == Init /\ [][Next]_vars
-----------------------------------------------------------------------------
(* Properties. *)

\* The destinations that validate_default.go:96-114 and wrapper.go:244-247
\* describe: found are the addresses of the host.
Described(u, found, allowHTTP) ==
  /\ u.parses /\ ~u.user /\ ~u.fragment /\ Hostname(u) # ""
  /\ \A key \in u.query : Lower(TrimSpace(key)) \notin {"token", "auth", "apikey", "api_key"}
  /\ u.scheme = "https" \/ (allowHTTP /\ u.scheme = "http")
  /\ found # {}
  /\ \A ip \in found :
       Public(ip) \/ (allowHTTP /\ Loopback(ip) /\ (Literal(u) \/ Lower(Hostname(u)) = "localhost"))

\* The addresses a verdict is about. A name refused without a lookup has any:
\* it would be refused wherever it resolved.
Found == CASE Literal(url)    -> {url.host.ip}
           [] pc = "resolved" -> {ips[i] : i \in DOMAIN ips}
           [] OTHER           -> {<<8, 8, 8, 8>>}

Verdict ==
  w.urlValidator = "default" /\ pc \in {"idle", "resolved"} /\ pc' \in {"accepted", "rejected"} =>
    (pc' = "accepted" <=> Described(url, Found, w.allowHTTP))

\* With DefaultURLValidator, Send goes on to build a request exactly for the
\* destinations its documentation describes, whatever the names resolve to.
VerdictIsPolicy == [][Verdict]_vars

\* The path of a destination as its request line has it. What becomes of one
\* with percent-escapes is not as documented (FirstRequestToURL of MCWrapper).
Asked(path) == CASE path = "" -> {"/"} [] path = "plain" -> {path} [] OTHER -> Paths

\* However far the client came with the attempt before, every attempt of a
\* Send makes the same request: the whole Body, the headers of the first
\* attempt, and the URL its validator returned, under that URL's Host. (A path
\* with percent-escapes is the same in all of them, but another one.)
AttemptsAgree ==
  \A i \in DOMAIN wire :
    /\ wire[i] = wire[1]
    /\ wire[i].Body = Body
    /\ wire[i].url.scheme = dest.scheme /\ wire[i].url.query = dest.query
    /\ wire[i].url.host = dest.host /\ wire[i].Host = dest.host
    /\ wire[i].url.path \in Asked(dest.path)

\* Spellings of one header name among those the caller gave.
Spellings(n) == {s \in DOMAIN headers : Lower(TrimSpace(s)) = n}
Values(n)    == {TrimSpace(headers[s]) : s \in Spellings(n)}

\* However its map is ordered and its names are spelled, the allowlisted
\* headers of a Request leave with a value given for them, the others never
\* do, and there is always a Content-Type. The allowlist is the nine names of
\* wrapper.go:337-347; README.md:147-148 knows the first five.
HeadersFaithful ==
  \A i \in DOMAIN wire :
    LET h == wire[i].Header IN
    /\ DOMAIN h = {n \in allowed : Spellings(n) # {}} \cup {"content-type"}
    /\ \A n \in DOMAIN h \ {"content-type"} : h[n] \in Values(n)
    /\ LET given == IF Spellings("content-type") = {} THEN {""} ELSE Values("content-type")
       IN  h["content-type"] \in {IF v = "" THEN "application/json" ELSE v : v \in given}

\* How far the range over Headers has come, and what was built since: the
\* inductive strengthening of the two invariants.
Visited == DOMAIN headers \ remaining
HeaderInv ==
  /\ remaining \subseteq DOMAIN headers
  /\ sanitized = [n \in DOMAIN sanitized |-> sanitized[n]]
  /\ DOMAIN sanitized = {n \in allowed : \E s \in Visited : normalizedKey(s) = n}
  /\ \A n \in DOMAIN sanitized :
       \E s \in Visited : normalizedKey(s) = n /\ sanitized[n] = TrimSpace(headers[s])
WireInv ==
  /\ wire \in Seq({Request(0)})
  /\ wire # <<>> => pc = "accepted" /\ remaining = {}
FreshInv == pc # "accepted" => headers = Empty /\ remaining = {} /\ sanitized = Empty
IInv == HeaderInv /\ WireInv /\ FreshInv

\* What has been found out about a destination whose name was looked up: the
\* inductive strengthening of the verdict.
ResolvedInv ==
  /\ url \in Urls
  /\ pc = "resolved" =>
       /\ w.urlValidator = "default" /\ Askable(url) /\ DefaultChecks(url, w.allowHTTP)
       /\ ~Literal(url) /\ ips \in Answers
=============================================================================
