--------------------------- MODULE Webpush_proofs ---------------------------
(* For every width of a Duration, every policy, clock and config: the sleeps *)
(* between attempts, the life of a VAPID token and the TTL that is sent.     *)
EXTENDS WebpushSend, TLAPS

LEMMA Widths ==
  /\ MaxAttempts \in Nat \ {0} /\ MaxInt \in Nat /\ Modulus \in Nat \ {0} /\ Modulus = 2 * (MaxInt + 1)
  /\ \A n \in 0..MaxAttempts : 2^n \in Nat \ {0}
  /\ \A n \in 0..Width : 2^n \in Nat \ {0}
BY BackoffAssumption, PowerAssumption DEF MaxInt, Modulus

\* A number that fits is not changed.
LEMMA WrapFits == ASSUME NEW x \in Int, 0 <= x, x <= MaxInt PROVE Wrap(x) = x
BY Widths DEF Wrap

LEMMA WrapInts == ASSUME NEW x \in Ints PROVE Wrap(x) = x
<1>1. CASE x >= 0
  BY <1>1, WrapFits, Widths DEF Ints
<1>2. CASE x < 0
  <2>1. x % Modulus = x + Modulus
    BY <1>2, Widths DEF Ints
  <2> QED
    BY <1>2, <2>1, Widths DEF Wrap, Ints
<1> QED
  BY <1>1, <1>2, Widths DEF Ints

LEMMA WrapRange == ASSUME NEW x \in Int PROVE Wrap(x) \in Ints
<1>1. x % Modulus \in 0..(Modulus - 1)
  BY Widths
<1> QED
  BY <1>1, Widths DEF Wrap, Ints

LEMMA ShiftRange ==
  ASSUME NEW x \in Int, NEW n \in Nat PROVE ShiftLeft(x, n) \in Ints
<1>1. CASE n >= Width
  BY <1>1, Widths DEF ShiftLeft, Ints
<1>2. CASE n < Width
  <2>1. x * 2^n \in Int
    BY <1>2, Widths, BackoffAssumption
  <2> QED
    BY <1>2, <2>1, WrapRange, BackoffAssumption DEF ShiftLeft
<1> QED
  BY <1>1, <1>2, BackoffAssumption

\* A delay never exceeds MaxDelay, whatever overflows.
LEMMA DelayRange ==
  ASSUME NEW b \in Int, NEW c \in Int, NEW k \in Nat \ {0}
  PROVE  /\ Delay(b, c, k) \in Int /\ Delay(b, c, k) <= c
         /\ c >= 0 => Delay(b, c, k) >= -MaxInt - 1
<1>1. k - 1 \in Nat
  OBVIOUS
<1>2. ShiftLeft(b, k - 1) \in Int /\ ShiftLeft(b, k - 1) >= -MaxInt - 1
  BY <1>1, ShiftRange, Widths DEF Ints
<1> QED
  BY <1>2, Widths DEF Delay

\* Where the doubling before retry k fits, the shift does not overflow.
LEMMA DelayFits ==
  ASSUME NEW b \in Nat, NEW c \in Nat, NEW k \in 1..(MaxAttempts - 1), b * 2^(k - 1) <= MaxInt
  PROVE  Delay(b, c, k) = Least(b * 2^(k - 1), c)
<1> DEFINE n == k - 1
           P == 2^n
<1>1. P \in Nat \ {0}
  BY Widths, BackoffAssumption
<1>2. b * P \in Nat /\ b * P <= MaxInt
  <2>1. b * P <= MaxInt
    OBVIOUS
  <2> HIDE DEF P
  <2> QED
    BY <1>1, <2>1
<1>3. CASE n < Width
  <2>1. ShiftLeft(b, n) = b * P
    BY <1>2, <1>3, WrapFits, BackoffAssumption DEF ShiftLeft
  <2>2. Delay(b, c, k) = IF b * P > c THEN c ELSE b * P
    BY <2>1 DEF Delay
  <2> HIDE DEF P
  <2> QED
    BY <1>2, <2>2 DEF Least, P, n
<1>4. CASE n >= Width
  <2>1. MaxInt + 1 <= P
    BY <1>4, BackoffAssumption, PowerAssumption DEF MaxInt
  <2>2. b = 0
    <3> HIDE DEF P, n
    <3> QED
      BY <1>1, <1>2, <2>1, Widths
  <2>3. ShiftLeft(b, n) = 0 /\ b * P = 0
    <3>1. ShiftLeft(b, n) = 0
      BY <1>4, BackoffAssumption DEF ShiftLeft
    <3> HIDE DEF P, n
    <3> QED
      BY <1>1, <2>2, <3>1
  <2>4. Delay(b, c, k) = 0
    BY <2>3 DEF Delay
  <2> QED
    BY <2>3, <2>4 DEF Least
<1> QED
  BY <1>3, <1>4, BackoffAssumption

\* Doubling a capped delay, or capping the doubled one.
LEMMA Doubled ==
  ASSUME NEW b \in Nat, NEW c \in Nat, NEW P \in Nat
  PROVE  Least(2 * Least(b * P, c), c) = Least(b * (2 * P), c)
<1> DEFINE x == b * P
<1>1. x \in Nat /\ b * (2 * P) = 2 * x
  OBVIOUS
<1> HIDE DEF x
<1>2. Least(2 * Least(x, c), c) = Least(2 * x, c)
  BY <1>1 DEF Least
<1> QED
  BY <1>1, <1>2 DEF x

\* The delay RetryPolicy documents for the next retry.
LEMMA NextDue ==
  ASSUME DelayInv, Fits, attempt + 1 < MaxAttempts
  PROVE  Due = Least(base * 2^attempt, ceiling)
<1>1. base \in Nat /\ ceiling \in Nat /\ attempt \in Nat
  BY DEF DelayInv, Fits, CapFits
<1>2. CASE attempt = 0
  <2>1. 2^attempt = 1
    BY <1>2, PowerAssumption
  <2> QED
    BY <1>1, <1>2, <2>1 DEF Due
<1>3. CASE attempt > 0
  <2> DEFINE P == 2^(attempt - 1)
  <2>1. P \in Nat /\ 2^attempt = 2 * P
    <3>1. attempt - 1 \in 0..(Width + MaxAttempts) /\ attempt - 1 + 1 = attempt
      BY <1>1, <1>3, BackoffAssumption DEF DelayInv
    <3> QED
      BY <3>1, PowerAssumption
  <2>2. due = Least(base * P, ceiling)
    BY <1>3 DEF DelayInv
  <2>3. Due = Least(2 * due, ceiling)
    BY <1>3 DEF Due
  <2> HIDE DEF P
  <2> QED
    BY <1>1, <2>1, <2>2, <2>3, Doubled
<1> QED
  BY <1>1, <1>2, <1>3

\* The jitter of a delay, never rand.Int's panic: less than half the delay.
LEMMA JitterRange ==
  ASSUME NEW d \in Int, NEW j \in Jitter(d)
  PROVE  j \in Nat /\ j # Panic /\ (j = 0 \/ j * 2 < d)
BY DEF Jitter, RandInt, Half, Panic

\* Where delay and jitter fit, the sleep lies between the delay and half as
\* much again.
LEMMA SleepRange ==
  ASSUME NEW d \in Int, NEW c \in Nat, d <= c, c + Half(c) <= MaxInt, d >= -MaxInt - 1,
         NEW j \in Jitter(d)
  PROVE  /\ Sleep(Wrap(d + j)) \in Nat
         /\ 2 * Sleep(Wrap(d + j)) <= 3 * c
         /\ Sleep(Wrap(d + j)) >= d
         /\ Sleep(Wrap(d + j)) = 0 \/ Sleep(Wrap(d + j)) * 2 < 3 * d
<1>0. j \in Nat /\ (j = 0 \/ j * 2 < d)
  BY JitterRange
<1>1. CASE d <= 0
  <2>1. j = 0
    BY <1>0, <1>1
  <2>2. Wrap(d) = d
    BY <1>1, WrapInts, Widths DEF Ints
  <2> QED
    BY <1>1, <2>1, <2>2 DEF Sleep
<1>2. CASE d > 0
  <2>1. 2 * (d + j) < 3 * d /\ d + j >= 0 /\ d + j \in Int
    BY <1>0, <1>2
  <2>2. d + j <= c + Half(c) /\ Half(c) \in Nat
    BY <1>0, <1>2 DEF Half
  <2>3. Wrap(d + j) = d + j
    BY <2>1, <2>2, WrapFits, Widths
  <2> QED
    BY <1>0, <1>2, <2>1, <2>3 DEF Sleep
<1> QED
  BY <1>1, <1>2

LEMMA InitDelayInv == Init => DelayInv
<1> SUFFICES ASSUME Init PROVE DelayInv
  OBVIOUS
<1>1. base \in Int /\ ceiling \in Int
  BY BackoffAssumption, Widths DEF Init, MaxInt
<1>2. 0 \in 0..(MaxAttempts - 1)
  BY BackoffAssumption
<1>3. SleepBounded
  BY <1>1 DEF Init, SleepBounded
<1> QED
  BY <1>1, <1>2, <1>3 DEF Init, DelayInv

LEMMA RetryDelayInv ==
  ASSUME DelayInv, waitBeforeRetry PROVE DelayInv' /\ jitter' # Panic /\ slept' >= slept
<1> DEFINE k == attempt + 1
           d == Delay(base, ceiling, k)
           z == Sleep(Wrap(d + jitter'))
<1>1. /\ attempt' = k /\ delay' = d /\ jitter' \in Jitter(d)
      /\ due' = Due /\ documented' = documented + Due
      /\ base' = base /\ ceiling' = ceiling /\ k \in 1..(MaxAttempts - 1) /\ k < MaxAttempts
  BY BackoffAssumption DEF DelayInv, waitBeforeRetry
<1>2. d \in Int /\ d <= ceiling /\ (ceiling >= 0 => d >= -MaxInt - 1)
  BY <1>1, DelayRange DEF DelayInv
<1>3. jitter' \in Nat /\ jitter' # Panic
  <2> HIDE DEF d
  <2> QED
    BY <1>1, <1>2, JitterRange
<1>4. slept' = slept + z
  BY <1>1, <1>3 DEF waitBeforeRetry
<1>5. z \in Nat
  <2>1. Wrap(d + jitter') \in Int
    BY <1>2, <1>3, WrapRange, Widths DEF Ints
  <2> HIDE DEF d
  <2> QED
    BY <2>1 DEF Sleep
<1>6. (Fits' <=> Fits) /\ (CapFits' <=> CapFits)
  BY <1>1 DEF Fits, CapFits
<1>7. Due \in Int
  BY DEF Due, DelayInv, Least
<1>8. ASSUME Fits
      PROVE  /\ due' = Least(base * 2^(attempt' - 1), ceiling)
             /\ 0 <= documented' /\ documented' <= slept' /\ (slept' > 0 => slept' * 2 < 3 * documented')
  <2>1. base \in Nat /\ ceiling \in Nat /\ base * 2^(k - 1) <= MaxInt /\ ceiling + Half(ceiling) <= MaxInt
    BY <1>1, <1>8 DEF Fits, CapFits, DelayInv
  <2>2. Due = Least(base * 2^attempt, ceiling) /\ k - 1 = attempt
    BY <1>1, <1>8, NextDue DEF DelayInv
  <2>3. d = Due
    BY <1>1, <2>1, <2>2, DelayFits
  <2>4. d >= 0
    <3>1. 2^attempt \in Nat
      BY <1>1, Widths, BackoffAssumption DEF DelayInv
    <3>2. base * 2^attempt >= 0
      BY <2>1, <3>1
    <3> QED
      BY <2>1, <2>2, <2>3, <3>2 DEF Least
  <2>5. z >= d /\ (z = 0 \/ z * 2 < 3 * d)
    <3> HIDE DEF d
    <3> QED
      BY <1>1, <1>2, <2>1, <2>4, SleepRange, Widths
  <2>6. 0 <= documented /\ documented <= slept /\ (slept > 0 => slept * 2 < 3 * documented)
        /\ slept \in Nat /\ documented \in Int
    BY <1>8 DEF DelayInv, SleepBounded
  <2>7. documented' = documented + d
    BY <1>1, <2>3
  <2> HIDE DEF d, z
  <2> QED
    BY <1>1, <1>2, <1>4, <1>5, <2>2, <2>4, <2>5, <2>6, <2>7
<1>9. ASSUME CapFits PROVE slept' * 2 <= 3 * attempt' * ceiling'
  <2>1. slept * 2 <= 3 * attempt * ceiling /\ ceiling \in Nat /\ ceiling + Half(ceiling) <= MaxInt
    BY <1>9 DEF DelayInv, CapFits, SleepBounded
  <2>2. 2 * z <= 3 * ceiling
    <3> HIDE DEF d
    <3> QED
      BY <1>1, <1>2, <2>1, SleepRange
  <2>3. 3 * k * ceiling = 3 * attempt * ceiling + 3 * ceiling
    BY DEF DelayInv
  <2> HIDE DEF k, d, z
  <2> QED
    BY <1>1, <1>4, <1>5, <2>1, <2>2, <2>3 DEF DelayInv
<1>10. SleepBounded'
  BY <1>6, <1>8, <1>9 DEF SleepBounded
<1>11. Fits' => 0 <= documented' /\ due' = Least(base' * 2^(attempt' - 1), ceiling')
  BY <1>1, <1>6, <1>8
<1>12. slept' \in Nat /\ slept' >= slept
  <2> HIDE DEF z
  <2> QED
    BY <1>4, <1>5 DEF DelayInv
<1>13. attempt' \in 0..(MaxAttempts - 1)
  BY <1>1, BackoffAssumption
<1>14. base' \in Int /\ ceiling' \in Int /\ delay' \in Int /\ due' \in Int /\ documented' \in Int
  BY <1>1, <1>2, <1>7 DEF DelayInv
<1> QED
  BY <1>3, <1>10, <1>11, <1>12, <1>13, <1>14 DEF DelayInv

LEMMA FrameDelayInv == ASSUME DelayInv, UNCHANGED vars PROVE DelayInv'
BY DEF vars, DelayInv, Fits, CapFits, SleepBounded

LEMMA NextDelayInv == DelayInv /\ [SendNext]_sendVars => DelayInv'
<1> SUFFICES ASSUME DelayInv, [SendNext]_sendVars PROVE DelayInv'
  OBVIOUS
<1>1. CASE Retry
  BY <1>1, RetryDelayInv DEF Retry
<1>2. CASE ~Retry
  <2>1. UNCHANGED vars
    BY <1>2 DEF SendNext, sendVars, Refuse, Sign, Prepare, Attempt
  <2> QED
    BY <2>1, FrameDelayInv
<1> QED
  BY <1>1, <1>2

LEMMA InitTokenInv == SendInit => TokenInv
BY DEF SendInit, Init, TokenInv

\* The claim is at most a second short of the lifetime.
LEMMA Signed ==
  ASSUME NEW now \in Nat
  PROVE  /\ buildVAPIDHeader(now) \in Int
         /\ now + Lifetime < (buildVAPIDHeader(now) + 1) * Second
<1> DEFINE q == (now + Lifetime) \div Second
           m == (now + Lifetime) % Second
<1>1. q \in Int /\ m \in 0..(Second - 1) /\ now + Lifetime = Second * q + m
  BY WebpushAssumption
<1> HIDE DEF q, m
<1>2. (q + 1) * Second = Second * q + Second
  BY <1>1, WebpushAssumption
<1> QED
  BY <1>1, <1>2, WebpushAssumption DEF buildVAPIDHeader, q

LEMMA Slid ==
  ASSUME NEW t \in Nat, NEW before \in Nat, NEW after \in Nat
  PROVE  /\ (t + (after - before)) - after = t - before
         /\ after >= before => t + (after - before) \in Nat
OBVIOUS

LEMMA NextTokenInv == SendInv /\ [SendNext]_sendVars => TokenInv'
<1> SUFFICES ASSUME SendInv, [SendNext]_sendVars PROVE TokenInv'
  OBVIOUS
<1>0. DelayInv /\ TokenInv /\ attempt \in Nat /\ slept \in Nat /\ clock \in Nat /\ exp \in Int
  <2>1. DelayInv /\ TokenInv
    BY DEF SendInv
  <2>2. attempt \in Nat /\ slept \in Nat
    BY <2>1, Widths DEF DelayInv
  <2>3. clock \in Nat /\ exp \in Int
    BY <2>1 DEF TokenInv
  <2> QED
    BY <2>1, <2>2, <2>3
<1> USE WebpushAssumption
<1>1. CASE Refuse
  BY <1>0, <1>1 DEF Refuse, TokenInv, vars
<1>2. ASSUME NEW idle \in Idle, Sign(idle) PROVE TokenInv'
  <2>1. clock' \in Nat /\ exp' = buildVAPIDHeader(clock') /\ pc' = "prepare" /\ attempt' = 0 /\ slept' = 0
    BY <1>0, <1>2 DEF Sign, TokenInv, vars
  <2>2. exp' \in Int /\ clock' + Lifetime < (exp' + 1) * Second
    BY <2>1, Signed
  <2>3. clock' - slept' + Lifetime < (exp' + 1) * Second + 0 * Timeout
    BY <2>1, <2>2
  <2> QED
    BY <2>1, <2>2, <2>3 DEF TokenInv, Spent
<1>3. ASSUME NEW time \in 0..Timeout, NEW valid \in BOOLEAN, Prepare(time, valid) PROVE TokenInv'
  <2>1. /\ clock' = clock + time /\ exp' = exp /\ attempt' = 0 /\ slept' = 0 /\ attempt = 0 /\ slept = 0
        /\ pc = "prepare" /\ pc' \in {"attempt", "refused"}
    BY <1>0, <1>3 DEF Prepare, TokenInv, vars
  <2>2. clock + Lifetime < (exp + 1) * Second
    BY <1>0, <2>1 DEF TokenInv, Spent
  <2>3. clock' - slept' + Lifetime < (exp' + 1) * Second + 1 * Timeout
    BY <1>0, <2>1, <2>2
  <2> QED
    BY <1>0, <2>1, <2>3 DEF TokenInv, Spent
<1>4. ASSUME NEW time \in 0..Timeout, NEW retry \in BOOLEAN, Attempt(time, retry) PROVE TokenInv'
  <2>1. /\ clock' = clock + time /\ exp' = exp /\ attempt' = attempt /\ slept' = slept
        /\ pc = "attempt" /\ pc' \in {"failed", "done"}
    BY <1>4 DEF Attempt, vars
  <2>2. clock - slept + Lifetime < (exp + 1) * Second + (attempt + 1) * Timeout
    BY <1>0, <2>1 DEF TokenInv, Spent
  <2>3. (attempt + 2) * Timeout = (attempt + 1) * Timeout + Timeout
    BY <1>0
  <2>4. clock' - slept' + Lifetime < (exp' + 1) * Second + (attempt' + 2) * Timeout
    BY <1>0, <2>1, <2>2, <2>3
  <2> QED
    BY <1>0, <2>1, <2>4 DEF TokenInv, Spent
<1>5. CASE Retry
  <2>1. /\ clock' = clock + (slept' - slept) /\ exp' = exp /\ attempt' = attempt + 1
        /\ pc = "failed" /\ pc' = "attempt"
    BY <1>0, <1>5, RetryDelayInv DEF Retry, waitBeforeRetry
  <2>2. slept' \in Nat
    BY <1>0, <1>5, RetryDelayInv DEF Retry, DelayInv
  <2>3. slept' >= slept
    BY <1>0, <1>5, RetryDelayInv DEF Retry
  <2>4. clock - slept + Lifetime < (exp + 1) * Second + (attempt + 2) * Timeout
    BY <1>0, <2>1 DEF TokenInv, Spent
  <2>5. clock' - slept' + Lifetime < (exp' + 1) * Second + (attempt' + 1) * Timeout
    <3>1. clock' - slept' = clock - slept
      BY <1>0, <2>1, <2>2, Slid
    <3>2. attempt' + 1 = attempt + 2
      BY <1>0, <2>1
    <3> QED
      BY <2>1, <2>4, <3>1, <3>2
  <2>6. clock' \in Nat
    BY <1>0, <2>1, <2>2, <2>3, Slid
  <2> QED
    BY <1>0, <2>1, <2>5, <2>6 DEF TokenInv, Spent
<1>6. CASE UNCHANGED sendVars
  BY <1>0, <1>6 DEF sendVars, vars, TokenInv, Spent
<1> QED
  BY <1>1, <1>2, <1>3, <1>4, <1>5, <1>6 DEF SendNext

\* The strengthened invariant of a Send's sleeps and clock.
THEOREM SendInvariance == SendSpec => []SendInv
<1>1. SendInit => SendInv
  BY InitDelayInv, InitTokenInv DEF SendInit, SendInv
<1>2. SendInv /\ [SendNext]_sendVars => SendInv'
  BY NextDelayInv, NextTokenInv DEF SendInv
<1> QED
  BY <1>1, <1>2, PTL DEF SendSpec

\* Where delay and jitter fit, a Send sleeps at least the delays RetryPolicy
\* documents and less than half as long again; and at most one and a half times
\* MaxDelay a retry even where doubling BaseDelay overflows.
THEOREM Bounded == SendSpec => []SleepBounded
<1>1. SendInv => SleepBounded
  BY DEF SendInv, DelayInv
<1> QED
  BY SendInvariance, <1>1, PTL

\* The bound of the jitter is never one that rand.Int panics on, for any
\* BaseDelay, MaxDelay and width: negative, zero, or overflowed to either.
THEOREM NoPanicInJitter == SendSpec => []NoRandPanic
<1>1. SendInv => NoRandPanic
  BY DEF SendInv, DelayInv, NoRandPanic, Panic
<1> QED
  BY SendInvariance, <1>1, PTL

\* No attempt uses an expired VAPID token, whatever the policy, the timeout and
\* the age of the Client, if a whole Send takes less than the lifetime.
THEOREM TokenLives == SendSpec => []TokenOutlivesRetries
<1>1. ASSUME SendInv PROVE TokenOutlivesRetries
  <2> SUFFICES ASSUME pc \in {"attempt", "failed", "done"}, CapFits, Enough PROVE clock < exp * Second
    BY DEF TokenOutlivesRetries
  <2> USE WebpushAssumption
  <2> DEFINE last == MaxAttempts - 1
  <2>1. /\ attempt \in 0..last /\ last \in Nat /\ slept \in Nat /\ clock \in Nat /\ exp \in Int
        /\ ceiling \in Nat /\ MaxAttempts = last + 1
    BY <1>1, BackoffAssumption DEF SendInv, DelayInv, TokenInv, CapFits
  <2>2. slept * 2 <= 3 * attempt * ceiling
    BY <1>1 DEF SendInv, DelayInv, SleepBounded
  <2>3. clock - slept + Lifetime < (exp + 1) * Second + Spent * Timeout
    BY <1>1 DEF SendInv, TokenInv
  <2>4. Spent \in Nat /\ Spent <= last + 2
    BY <2>1 DEF Spent
  <2>5. 2 * (last + 2) * Timeout + 3 * last * ceiling + 2 * Second <= 2 * Lifetime
    <3>1. MaxAttempts + 1 = last + 2
      BY <2>1
    <3> QED
      BY <3>1 DEF Enough
  <2> HIDE DEF last
  <2>6. Spent * Timeout <= (last + 2) * Timeout
    BY <2>1, <2>4
  <2>7. 3 * attempt * ceiling <= 3 * last * ceiling
    BY <2>1
  <2>8. 2 * (last + 2) * Timeout = 2 * ((last + 2) * Timeout) /\ (exp + 1) * Second = exp * Second + Second
    BY <2>1
  <2>9. Spent * Timeout \in Int /\ (last + 2) * Timeout \in Int /\ 3 * last * ceiling \in Int
        /\ 3 * attempt * ceiling \in Int /\ exp * Second \in Int
    BY <2>1, <2>4
  <2> QED
    BY <2>1, <2>2, <2>3, <2>5, <2>6, <2>7, <2>8, <2>9
<1> QED
  BY <1>1, SendInvariance, PTL

\* The TTL that is sent is the configured one, in whichever type it came.
THEOREM TTLSent == SendSpec => []TTLHonoured
<1> DEFINE Sent == ttl \in TTLs /\ header \in {TTL(n) : n \in IntField(ttl)}
<1>1. SendInit => Sent
  BY DEF SendInit
<1>2. Sent /\ [SendNext]_sendVars => Sent'
  BY DEF SendNext, sendVars, Refuse, Sign, Prepare, Attempt, Retry
<1>3. ASSUME Sent PROVE TTLHonoured
  <2>1. ttl.num \in Int /\ ttl.type \in {"absent", "int", "int64", "float64", "other"}
        /\ (ttl.type \in {"int", "int64"} => ttl.num \in Ints)
    BY <1>3, WebpushAssumption DEF Value
  <2>2. PICK n \in IntField(ttl) : header = TTL(n)
    BY <1>3
  <2>3. CASE ttl.type \in {"int", "int64"}
    <3>1. Wrap(ttl.num) = ttl.num
      BY <2>1, <2>3, WrapInts
    <3>2. n = ttl.num
      BY <2>2, <2>3, <3>1 DEF IntField
    <3> QED
      BY <2>2, <2>3, <3>2 DEF TTLHonoured, TTL
  <2>4. CASE ttl.type \in {"absent", "other"}
    <3>1. n = 0
      BY <2>2, <2>4 DEF IntField
    <3> QED
      BY <2>2, <2>4, <3>1 DEF TTLHonoured, TTL
  <2>5. CASE ttl.type = "float64"
    <3>1. CASE ttl.num = 0
      <4>1. Half(ttl.num) = 0 /\ 0 \in Ints
        BY <3>1, Widths DEF Half, Ints
      <4>2. n = 0
        BY <2>2, <2>5, <4>1 DEF IntField
      <4> QED
        BY <2>2, <2>5, <3>1, <4>2 DEF TTLHonoured, TTL
    <3>2. CASE ttl.num # 0 /\ ttl.num % 2 = 0 /\ Half(ttl.num) \in Ints
      <4>1. 2 * Half(ttl.num) = ttl.num /\ Half(ttl.num) # 0
        BY <2>1, <3>2 DEF Half
      <4>2. n = Half(ttl.num)
        BY <2>2, <2>5, <3>2 DEF IntField
      <4> QED
        BY <2>2, <2>5, <3>2, <4>1, <4>2 DEF TTLHonoured, TTL
    <3>3. CASE ttl.num # 0 /\ ~(ttl.num % 2 = 0 /\ Half(ttl.num) \in Ints)
      BY <2>5, <3>3 DEF TTLHonoured
    <3> QED
      BY <3>1, <3>2, <3>3
  <2> QED
    BY <2>1, <2>3, <2>4, <2>5
<1> QED
  BY <1>1, <1>2, <1>3, PTL DEF SendSpec
=============================================================================
