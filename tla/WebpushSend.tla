---------------------------- MODULE WebpushSend ----------------------------
(***************************************************************************)
(* Time and numbers in webpush.Client.Send (src/providers/webpush): the    *)
(* VAPID token is signed once, for a fixed lifetime, and then serves every *)
(* attempt that transport.Wrapper makes and every sleep between them       *)
(* (Backoff); the TTL comes out of a config map of any values.  The checks *)
(* before the signature and the payload are in Providers.                  *)
(***************************************************************************)
EXTENDS Backoff

CONSTANTS Second,      \* clock ticks per second
          Lifetime,    \* vapidJWTLifetime
          Timeout,     \* bound on preparing a request and on each client.Do
          Idle,        \* times a Client may exist before Send is called
          TTLs,        \* config["ttl"]
          DefaultTTL

Ints == (-MaxInt - 1)..MaxInt

\* A number of the config; a float64 is given in halves.
Value == [type : {"absent", "int", "int64", "float64", "other"}, num : Int]

ASSUME WebpushAssumption ==
  /\ Second \in Nat \ {0}
  /\ Lifetime \in Nat /\ Timeout \in Nat
  /\ Idle \subseteq Nat
  /\ TTLs \subseteq Value
  /\ \A v \in TTLs : v.type \in {"int", "int64"} => v.num \in Ints
  /\ DefaultTTL \in Int

VARIABLES pc,       \* "new", "prepare", "attempt", "failed", "done", "refused" or "panic"
          clock,    \* now, in ticks
          ttl,      \* config["ttl"]
          exp,      \* claim of the token, in seconds
          header    \* value of the TTL header

sendVars == <<vars, pc, clock, ttl, exp, header>>

\* What the field may come out as. int(n) drops the fraction; out of range it is
\* what the machine does: the smallest int, or the nearest.
\* Mutant: JSON numbers, which are float64, are not recognised.
IntFieldOfGo(v) == IF v.type \in {"int", "int64"} THEN {Wrap(v.num)} ELSE {0}
IntField(v) ==
  IF v.type \in {"int", "int64"} THEN {Wrap(v.num)}
  ELSE IF v.type # "float64" THEN {0}
  ELSE IF Half(v.num) \in Ints THEN {Half(v.num)} ELSE {-MaxInt - 1, MaxInt}

TTL(n) == IF n = 0 THEN DefaultTTL ELSE n

\* time.Now().Add(vapidJWTLifetime).Unix().
buildVAPIDHeader(now) == (now + Lifetime) \div Second

SendInit ==
  /\ Init
  /\ pc = "new" /\ clock = 0 /\ exp = 0
  /\ ttl \in TTLs /\ header \in {TTL(n) : n \in IntField(ttl)}

\* Send refuses its config, or fails to render, encrypt or sign.
Refuse ==
  /\ pc = "new"
  /\ pc' = "refused"
  /\ UNCHANGED <<vars, clock, ttl, exp, header>>

\* Send, some time after New: it signs and calls wrapper.Send.
\* Mutant: the token of New is used.
SignAtNew(idle) ==
  /\ pc = "new"
  /\ clock' = clock + idle
  /\ exp' = buildVAPIDHeader(clock)
  /\ pc' = "prepare"
  /\ UNCHANGED <<vars, ttl, header>>
Sign(idle) ==
  /\ pc = "new"
  /\ clock' = clock + idle
  /\ exp' = buildVAPIDHeader(clock')
  /\ pc' = "prepare"
  /\ UNCHANGED <<vars, ttl, header>>

\* wrapper.Send checks the destination, resolving its name, and begins its
\* first attempt.
Prepare(time, valid) ==
  /\ pc = "prepare"
  /\ clock' = clock + time
  /\ pc' = IF valid THEN "attempt" ELSE "refused"
  /\ UNCHANGED <<vars, ttl, exp, header>>

\* client.Do returns; the answer is final, or to be retried.
Attempt(time, retry) ==
  /\ pc = "attempt"
  /\ clock' = clock + time
  /\ pc' = IF retry /\ attempt + 1 < MaxAttempts THEN "failed" ELSE "done"
  /\ UNCHANGED <<vars, ttl, exp, header>>

Retry ==
  /\ pc = "failed"
  /\ waitBeforeRetry
  /\ clock' = clock + (slept' - slept)
  /\ pc' = IF jitter' = Panic THEN "panic" ELSE "attempt"
  /\ UNCHANGED <<ttl, exp, header>>

SendNext ==
  \/ Refuse
  \/ \E idle \in Idle : Sign(idle)
  \/ \E time \in 0..Timeout, valid \in BOOLEAN : Prepare(time, valid)
  \/ \E time \in 0..Timeout, retry \in BOOLEAN : Attempt(time, retry)
  \/ Retry

SendSpec == SendInit /\ [][SendNext]_sendVars
-----------------------------------------------------------------------------
(* Properties. *)

\* Policies under which a Send, from the signature to its last answer, takes
\* less than the lifetime of the token less the second that Unix() may drop:
\* MaxAttempts timeouts and one for the lookup, and as many sleeps as retries.
Enough ==
  2 * (MaxAttempts + 1) * Timeout + 3 * (MaxAttempts - 1) * ceiling + 2 * Second <= 2 * Lifetime

\* However long its Client has existed, and whatever the attempts and sleeps
\* take, a Send of such a policy never uses a token that has expired: not in
\* its first attempt, not in its last.
TokenOutlivesRetries ==
  pc \in {"attempt", "failed", "done"} /\ CapFits /\ Enough => clock < exp * Second

\* Whichever Go type the config holds it in, a whole number is the TTL that is
\* sent; no number, or 0, means DefaultTTL.
TTLHonoured ==
  /\ ttl.type \in {"absent", "other"} \/ ttl.num = 0 => header = DefaultTTL
  /\ ttl.type \in {"int", "int64"} /\ ttl.num # 0 => header = ttl.num
  /\ ttl.type = "float64" /\ ttl.num # 0 /\ ttl.num % 2 = 0 /\ Half(ttl.num) \in Ints => 2 * header = ttl.num

\* Requests and checks a Send has spent Timeout on, the one under way left out.
Spent == IF pc = "prepare" THEN 0 ELSE IF pc = "attempt" THEN attempt + 1 ELSE attempt + 2

\* The clock since the signature, but for the sleeps: the inductive
\* strengthening of TokenOutlivesRetries.
TokenInv ==
  /\ clock \in Nat /\ exp \in Int
  /\ pc \in {"new", "prepare", "attempt", "failed", "done", "refused", "panic"}
  /\ pc \in {"new", "prepare"} => attempt = 0 /\ slept = 0
  /\ pc \in {"prepare", "attempt", "failed", "done"} =>
       clock - slept + Lifetime < (exp + 1) * Second + Spent * Timeout
SendInv == DelayInv /\ TokenInv
=============================================================================
