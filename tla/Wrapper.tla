------------------------------ MODULE Wrapper ------------------------------
(***************************************************************************)
(* transport.Wrapper.Send (src/transport/wrapper.go, retry.go): the        *)
(* destination check, the redirect guard, the retry loop and the capped    *)
(* reading of the response, against a network that loses messages,         *)
(* providers that answer anything, a resolver whose verdict changes and a  *)
(* caller that may cancel.  One member of Sends is one call of Send.       *)
(*                                                                         *)
(* A URL keeps what the checks look at: the host the validator resolves,   *)
(* whether the path holds percent-escapes, and at most one flaw.           *)
(***************************************************************************)
EXTENDS Integers

CONSTANTS Sends,          \* calls of Send, each on a Wrapper of its own
          Host,           \* hosts a URL may name
          Stable,         \* hosts whose addresses are always acceptable
          Location,       \* URLs that callers ask for and Location headers name
          Policies,       \* RetryPolicy.MaxAttempts of the Wrappers
          ClientPolicies, \* CheckRedirect of the clients the factories build
          RedirectLimit,  \* requests per Do a client's policy allows (10 in Go)
          HopBound,       \* model bound on the redirects of one Do
          Replies,        \* final statuses the providers may answer
          Rewrites        \* TRUE: 301/302/303 (POST becomes GET); FALSE: 307/308

Paths  == {"plain", "escaped", "twice"}   \* "twice": escapes escaped again
Flaws  == {"none", "unparsable", "queryAuth", "userinfo", "fragment", "noHost"}
Url    == [host : Host, path : Paths, flaw : Flaws]
Status == {"2xx", "3xx", "4xx", "429", "5xx"}

\* How client.Do can fail: the network, CheckRedirect, a cancelled context.
DoErrors == {"lost", "refused", "aborted"}

ASSUME WrapperAssumption ==
  /\ Stable \subseteq Host
  /\ Location \subseteq Url
  /\ Policies \subseteq Int
  /\ ClientPolicies \subseteq {"nil", "limit", "last"}
  /\ RedirectLimit \in Nat \ {0}
  /\ HopBound \in Nat \ {0}
  /\ Replies \subseteq Status
  /\ Rewrites \subseteq BOOLEAN

VARIABLES
  req,       \* Request.URL of each call
  accepted,  \* hosts the URLValidator accepts now (DNS decides)
  cancelled, \* the caller's context is done
  pc,        \* "idle", "send", "body", "error", "wait" or "done"
  limit,     \* retryPolicy.MaxAttempts
  orig,      \* originalCheckRedirect of the client
  attempt,   \* the loop variable of Send
  at,        \* URL of the request the client sends next
  via,       \* requests this Do has made: len(via) in CheckRedirect
  post,      \* the next request is still a POST with the body
  got,       \* how the last Do ended: "nothing", a Status or a Do error
  open,      \* the response body is open
  result     \* "none", "ok", or the way Send failed

VARIABLES    \* history
  sent,      \* URLs of the requests that left
  requests,  \* how many left
  copies,    \* copies of the message the providers took
  taken,     \* one was taken in this attempt
  seen       \* hosts accepted at some moment of this Send

code    == <<pc, limit, orig, attempt, at, via, post, got, open, result>>
history == <<sent, requests, copies, taken, seen>>
vars    == <<req, accepted, cancelled, code, history>>

Results == {"none", "ok", "rejected", "exhausted", "transport", "unread", "status"}

Init ==
  /\ accepted \in {Stable \cup h : h \in SUBSET (Host \ Stable)}
  /\ cancelled = [s \in Sends |-> FALSE]
  /\ pc        = [s \in Sends |-> "idle"]
  /\ req       \in [Sends -> Location]
  /\ at        = req
  /\ limit     = [s \in Sends |-> 0]
  /\ orig      = [s \in Sends |-> "nil"]
  /\ attempt   = [s \in Sends |-> 0]
  /\ via       = [s \in Sends |-> 0]
  /\ post      = [s \in Sends |-> TRUE]
  /\ got       = [s \in Sends |-> "nothing"]
  /\ open      = [s \in Sends |-> FALSE]
  /\ result    = [s \in Sends |-> "none"]
  /\ sent      = [s \in Sends |-> {}]
  /\ requests  = [s \in Sends |-> 0]
  /\ copies    = [s \in Sends |-> 0]
  /\ taken     = [s \in Sends |-> FALSE]
  /\ seen      = [s \in Sends |-> {}]
-----------------------------------------------------------------------------
(* The pure parts of Send. *)

\* DefaultURLValidator, as far as these URLs differ; it returns rawURL itself.
URLValidator(u, acc) == u.flaw \notin {"unparsable", "userinfo", "noHost"} /\ u.host \in acc

validateDestination(u, acc) ==
  /\ u.flaw # "unparsable"
  /\ u.flaw # "queryAuth"                      \* hasDisallowedQueryAuthKey
  /\ URLValidator(u, acc)
  /\ u.flaw \notin {"userinfo", "fragment", "noHost"}

\* Path := EscapedPath() with no RawPath: String() escapes the escapes again.
buildSafeRequestURL(u) ==
  [host |-> u.host, path |-> IF u.path = "plain" THEN "plain" ELSE "twice", flaw |-> u.flaw]

\* Every error of client.Do is a *url.Error, which is a net.Error.
shouldRetry(g) == g \in DoErrors \cup {"429", "5xx"}

\* Mutants: the guard forgets the original policy, or the destination checks.
CheckRedirectPolicyLost(policy, v, u, acc) ==
  IF validateDestination(u, acc) THEN "follow" ELSE "refuse"
CheckRedirectUnchecked(policy, v, u, acc) ==
  IF policy = "limit" /\ v >= RedirectLimit THEN "refuse" ELSE "follow"

\* CheckRedirect after applyRedirectGuard: the original policy if there is
\* one, then the destination checks. v is len(via).
CheckRedirect(policy, v, u, acc) ==
  CASE policy = "limit" /\ v >= RedirectLimit -> "refuse"
    [] policy = "last"                        -> "useLast"   \* ErrUseLastResponse
    [] OTHER -> IF validateDestination(u, acc) THEN "follow" ELSE "refuse"

\* The loop of line 184: is there an attempt at all, is there one more, which.
\* Mutants: one attempt too few or too many, a counter that stays.
Runs(n) == n >= 1
MoreOneShort(s) == attempt[s] + 1 < limit[s]
MoreOneOver(s) == attempt[s] <= limit[s]
More(s) == attempt[s] < limit[s]
SameAttempt(a) == a
NextAttempt(a) == a + 1
-----------------------------------------------------------------------------
(* Send, lines 168 to 184. *)

\* Oversized body, rejected destination, or a loop that runs no attempt.
Reject(s, oversized, n) ==
  /\ pc[s] = "idle"
  /\ pc' = [pc EXCEPT ![s] = "done"]
  /\ result' = [result EXCEPT ![s] =
        IF oversized \/ ~validateDestination(req[s], accepted) THEN "rejected" ELSE "exhausted"]
  /\ oversized \/ ~validateDestination(req[s], accepted) \/ ~Runs(n)
  /\ UNCHANGED <<req, accepted, cancelled, limit, orig, attempt, at, via, post, got, open, history>>

Begin(s, n, policy) ==
  /\ pc[s] = "idle"
  /\ validateDestination(req[s], accepted)
  /\ Runs(n)
  /\ pc'      = [pc EXCEPT ![s] = "send"]
  /\ at'      = [at EXCEPT ![s] = buildSafeRequestURL(req[s])]
  /\ limit'   = [limit EXCEPT ![s] = n]
  /\ orig'    = [orig EXCEPT ![s] = policy]
  /\ attempt' = [attempt EXCEPT ![s] = 1]
  /\ seen'    = [seen EXCEPT ![s] = accepted]
  /\ UNCHANGED <<req, accepted, cancelled, via, post, got, open, result, sent, requests, copies, taken>>
-----------------------------------------------------------------------------
(* client.Do, one request at a time. *)

\* A request leaves; the client looks at the context before it writes.
Transmit(s) ==
  /\ pc[s] = "send"
  /\ ~cancelled[s]
  /\ sent'     = [sent EXCEPT ![s] = @ \cup {at[s]}]
  /\ requests' = [requests EXCEPT ![s] = @ + 1]
  /\ via'      = [via EXCEPT ![s] = @ + 1]

\* The provider, or nobody, takes the message of a POST.
Consume(s, t) ==
  /\ t => post[s]
  /\ taken'  = [taken EXCEPT ![s] = t]
  /\ copies' = [copies EXCEPT ![s] = IF t THEN @ + 1 ELSE @]

\* Do returns an error.
DoError(s, e) ==
  /\ got' = [got EXCEPT ![s] = e]
  /\ pc'  = [pc EXCEPT ![s] = "error"]

\* Do returns a response, its body still open.
Respond(s, st) ==
  /\ got'  = [got EXCEPT ![s] = st]
  /\ pc'   = [pc EXCEPT ![s] = "body"]
  /\ open' = [open EXCEPT ![s] = TRUE]

Answer(s, st, t) ==
  /\ Transmit(s)
  /\ st = "2xx" /\ post[s] => t
  /\ st \in {"3xx", "429"} => ~t
  /\ Consume(s, t)
  /\ Respond(s, st)
  /\ UNCHANGED <<req, accepted, cancelled, limit, orig, attempt, at, post, result, seen>>

\* The request or its response is lost, or the client's timeout strikes.
Lose(s, t) ==
  /\ Transmit(s)
  /\ Consume(s, t)
  /\ DoError(s, "lost")
  /\ UNCHANGED <<req, accepted, cancelled, limit, orig, attempt, at, post, open, result, seen>>

\* A redirect to u that the client follows.
Follow(s, u, rewrite) ==
  /\ via[s] < HopBound
  /\ Transmit(s)
  /\ CheckRedirect(orig[s], via[s] + 1, u, accepted) = "follow"
  /\ at'   = [at EXCEPT ![s] = u]
  /\ post' = [post EXCEPT ![s] = @ /\ ~rewrite]
  /\ UNCHANGED <<req, accepted, cancelled, pc, limit, orig, attempt, got, open, result, copies, taken, seen>>

\* The policy says ErrUseLastResponse: Do returns the 3xx itself.
UseLast(s, u) ==
  /\ Transmit(s)
  /\ CheckRedirect(orig[s], via[s] + 1, u, accepted) = "useLast"
  /\ Respond(s, "3xx")
  /\ UNCHANGED <<req, accepted, cancelled, limit, orig, attempt, at, post, result, copies, taken, seen>>

\* The policy or the guard refuses u: Do closes the body and fails.
RefuseRedirect(s, u) ==
  /\ Transmit(s)
  /\ CheckRedirect(orig[s], via[s] + 1, u, accepted) = "refuse"
  /\ DoError(s, "refused")
  /\ UNCHANGED <<req, accepted, cancelled, limit, orig, attempt, at, post, open, result, copies, taken, seen>>

\* The context was done before the request left.
Abort(s) ==
  /\ pc[s] = "send"
  /\ cancelled[s]
  /\ DoError(s, "aborted")
  /\ UNCHANGED <<req, accepted, cancelled, limit, orig, attempt, at, via, post, open, result, history>>
-----------------------------------------------------------------------------
(* Send after Do returned, lines 200 to 234. *)

\* The retry decision on an error; every error of Do satisfies shouldRetry.
HandleError(s) ==
  /\ pc[s] = "error"
  /\ IF More(s) /\ shouldRetry(got[s])
     THEN pc' = [pc EXCEPT ![s] = "wait"] /\ UNCHANGED result
     ELSE pc' = [pc EXCEPT ![s] = "done"] /\ result' = [result EXCEPT ![s] = "transport"]
  /\ UNCHANGED <<req, accepted, cancelled, limit, orig, attempt, at, via, post, got, open, history>>

\* What the response, once read and closed, leads to: a retry, an error, a
\* Result. Mutants: an unreadable answer is retried; the last answer is not
\* judged.
JudgeRetriesUnread(s, complete) ==
  IF (~complete \/ shouldRetry(got[s])) /\ More(s)
  THEN pc' = [pc EXCEPT ![s] = "wait"] /\ UNCHANGED result
  ELSE pc' = [pc EXCEPT ![s] = "done"] /\ result' = [result EXCEPT ![s] = "unread"]
JudgeNoStatus(s, complete) ==
  IF complete /\ shouldRetry(got[s]) /\ More(s)
  THEN pc' = [pc EXCEPT ![s] = "wait"] /\ UNCHANGED result
  ELSE pc' = [pc EXCEPT ![s] = "done"] /\ result' = [result EXCEPT ![s] = "ok"]
Judge(s, complete) ==
  IF complete /\ shouldRetry(got[s]) /\ More(s)
  THEN pc' = [pc EXCEPT ![s] = "wait"] /\ UNCHANGED result
  ELSE /\ pc' = [pc EXCEPT ![s] = "done"]
       /\ result' = [result EXCEPT ![s] =
            IF ~complete THEN "unread"
            ELSE IF got[s] \in {"4xx", "429", "5xx"} THEN "status" ELSE "ok"]

\* Read (capped) and close the body, then judge the status.
\* readable: no read error and at most MaxResponseBodyBytes; closed: Close says nil.
\* Mutant: the early return on a read error skips Close.
ReadBodyLeaks(s, readable, closed) ==
  /\ pc[s] = "body"
  /\ open' = [open EXCEPT ![s] = ~readable]
  /\ Judge(s, readable /\ closed)
  /\ UNCHANGED <<req, accepted, cancelled, limit, orig, attempt, at, via, post, got, history>>
ReadBody(s, readable, closed) ==
  /\ pc[s] = "body"
  /\ open' = [open EXCEPT ![s] = FALSE]
  /\ Judge(s, readable /\ closed)
  /\ UNCHANGED <<req, accepted, cancelled, limit, orig, attempt, at, via, post, got, history>>

\* waitBeforeRetry sleeps whatever the context says; the loop starts over.
Retry(s) ==
  /\ pc[s] = "wait"
  /\ pc'      = [pc EXCEPT ![s] = "send"]
  /\ attempt' = [attempt EXCEPT ![s] = NextAttempt(@)]
  /\ at'      = [at EXCEPT ![s] = buildSafeRequestURL(req[s])]
  /\ via'     = [via EXCEPT ![s] = 0]
  /\ post'    = [post EXCEPT ![s] = TRUE]
  /\ taken'   = [taken EXCEPT ![s] = FALSE]
  /\ UNCHANGED <<req, accepted, cancelled, limit, orig, got, open, result, sent, requests, copies, seen>>
-----------------------------------------------------------------------------
(* The surroundings. *)

Cancel(s) ==
  /\ ~cancelled[s]
  /\ pc[s] # "done"
  /\ cancelled' = [cancelled EXCEPT ![s] = TRUE]
  /\ UNCHANGED <<req, accepted, code, history>>

\* The names resolve differently from now on.
Rebind(acc) ==
  /\ acc # accepted
  /\ accepted' = acc
  /\ seen' = [s \in Sends |-> IF pc[s] \in {"idle", "done"} THEN seen[s] ELSE seen[s] \cup acc]
  /\ UNCHANGED <<req, cancelled, code, sent, requests, copies, taken>>

\* What Send and the network do once the call is under way.
Step(s) ==
  \/ \E st \in Replies, t \in BOOLEAN : Answer(s, st, t)
  \/ \E t \in BOOLEAN : Lose(s, t)
  \/ \E u \in Location, rewrite \in Rewrites : Follow(s, u, rewrite)
  \/ \E u \in Location : UseLast(s, u)
  \/ \E u \in Location : RefuseRedirect(s, u)
  \/ Abort(s)
  \/ HandleError(s)
  \/ \E readable \in BOOLEAN, closed \in BOOLEAN : ReadBody(s, readable, closed)
  \/ Retry(s)

Enter(s) ==
  \/ \E oversized \in BOOLEAN, n \in Policies : Reject(s, oversized, n)
  \/ \E n \in Policies, policy \in ClientPolicies : Begin(s, n, policy)

Next ==
  \/ \E s \in Sends : Enter(s) \/ Step(s) \/ Cancel(s)
  \/ \E h \in SUBSET (Host \ Stable) : Rebind(Stable \cup h)

Spec == Init /\ [][Next]_vars

\* Time passes and the client has a timeout, so a call under way never stalls.
FairSpec == Spec /\ \A s \in Sends : WF_vars(Step(s))
-----------------------------------------------------------------------------
(* Properties. *)

\* Every variable holds what its comment says.
TypeOK ==
  /\ req \in [Sends -> Location]
  /\ accepted \subseteq Host
  /\ cancelled \in [Sends -> BOOLEAN]
  /\ pc \in [Sends -> {"idle", "send", "body", "error", "wait", "done"}]
  /\ limit \in [Sends -> Nat]
  /\ orig \in [Sends -> {"nil", "limit", "last"}]
  /\ attempt \in [Sends -> Nat]
  /\ at \in [Sends -> Url]
  /\ via \in [Sends -> Nat]
  /\ post \in [Sends -> BOOLEAN]
  /\ got \in [Sends -> {"nothing"} \cup Status \cup DoErrors]
  /\ open \in [Sends -> BOOLEAN]
  /\ result \in [Sends -> Results]
  /\ sent \in [Sends -> SUBSET Url]
  /\ requests \in [Sends -> Nat]
  /\ copies \in [Sends -> Nat]
  /\ taken \in [Sends -> BOOLEAN]
  /\ seen \in [Sends -> SUBSET Host]

\* No request ever leaves, first or redirected, for a URL that carries
\* credentials, a fragment or an auth query key, or for a host that the
\* validator did not accept at some moment of this Send.
TransmittedVetted ==
  \A s \in Sends : \A u \in sent[s] : u.flaw = "none" /\ u.host \in seen[s]

\* Retries times redirects: a client with a redirect policy makes at most
\* RedirectLimit requests in each attempt, and MaxAttempts bounds the attempts.
RequestBudget ==
  \A s \in Sends : orig[s] # "nil" =>
    /\ attempt[s] <= limit[s]
    /\ requests[s] <= attempt[s] * RedirectLimit

\* A response body is open only until Send has looked at the response: no
\* return, retry or sleep leaves one behind.
BodyClosed == \A s \in Sends : open[s] => pc[s] = "body"

\* An error that blames a transport failure, a 429 or a 5xx is returned only
\* when no attempt is left.
TransientMeansExhausted ==
  \A s \in Sends :
    result[s] = "transport" \/ (result[s] = "status" /\ got[s] \in {"429", "5xx"})
      => attempt[s] = limit[s]

\* A nil error means that the provider took the message in the attempt whose
\* answer is returned, unless a redirect turned the POST into a GET or was
\* itself taken for the answer.
SuccessIsBacked ==
  \A s \in Sends :
    result[s] = "ok" => taken[s] \/ ~post[s] \/ got[s] = "3xx"

\* However often the network loses responses, the provider takes at most one
\* copy of the message per attempt.
CopiesBounded == \A s \in Sends : copies[s] <= attempt[s]

\* A new attempt starts only after a transport failure, a 429 or a 5xx: a
\* message that was accepted or refused for good is not sent again, even when
\* reading that answer failed.
NoResendAfterAnswer ==
  [][\A s \in Sends :
       attempt'[s] > attempt[s] /\ attempt[s] > 0 => shouldRetry(got[s])]_vars

\* Every call under way returns, whatever the providers answer.
Terminates == \A s \in Sends : pc[s] = "send" ~> pc[s] = "done"

\* What one call has done so far, tied together: the inductive strengthening
\* of the invariants above.
CallInv(s) ==
  /\ pc[s] = "idle" =>
        attempt[s] = 0 /\ via[s] = 0 /\ ~taken[s] /\ sent[s] = {}
  /\ attempt[s] = 0 => requests[s] = 0
  /\ result[s] = "none" <=> pc[s] # "done"
  /\ open[s] <=> pc[s] = "body"
  /\ attempt[s] <= limit[s]
  /\ pc[s] \in {"send", "body", "error", "wait"} => attempt[s] >= 1
  /\ pc[s] \in {"send", "body", "error", "wait"} => accepted \subseteq seen[s]
  /\ pc[s] = "send" => at[s].flaw = "none" /\ at[s].host \in seen[s] /\ ~taken[s]
  /\ pc[s] \in {"send", "body", "error", "wait"} =>
        buildSafeRequestURL(req[s]).flaw = "none" /\ buildSafeRequestURL(req[s]).host \in seen[s]
  /\ pc[s] = "body" => got[s] \in Status
  /\ pc[s] = "body" /\ got[s] = "2xx" => taken[s] \/ ~post[s]
  /\ pc[s] = "error" => got[s] \in DoErrors
  /\ pc[s] = "wait" => attempt[s] < limit[s] /\ shouldRetry(got[s])
  /\ copies[s] <= attempt[s] /\ (attempt[s] > 0 /\ ~taken[s] => copies[s] < attempt[s])
  /\ orig[s] # "nil" =>
        /\ via[s] <= RedirectLimit /\ (pc[s] = "send" => via[s] < RedirectLimit)
        /\ attempt[s] >= 1 => requests[s] <= (attempt[s] - 1) * RedirectLimit + via[s]

IInv ==
  /\ TypeOK
  /\ \A s \in Sends : CallInv(s)
  /\ TransmittedVetted
  /\ TransientMeansExhausted
  /\ SuccessIsBacked

\* The contract's variables that are not the model's own.
phase  == [s \in Sends |-> IF pc[s] = "idle" THEN "idle"
                           ELSE IF pc[s] # "done" THEN "running"
                           ELSE IF result[s] = "ok" THEN "ok" ELSE "failed"]
budget == [s \in Sends |-> IF attempt[s] = 0 THEN 0 ELSE limit[s] - attempt[s] + 1]
detoured == [s \in Sends |-> ~post[s] \/ got[s] = "3xx"]

Contract == INSTANCE Delivery

\* Send implements Delivery, whatever the providers answer, redirects included.
Implements == Contract!Spec
=============================================================================
