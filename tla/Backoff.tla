------------------------------ MODULE Backoff ------------------------------
(***************************************************************************)
(* waitBeforeRetry (src/transport/wrapper.go) and defaultJitterNanos       *)
(* (src/transport/retry.go): the sleeps between the attempts of one Send.  *)
(* A time.Duration is an int64; here it has Width bits, so that all the    *)
(* policies of a small width can be tried, the overflowing ones included.  *)
(***************************************************************************)
EXTENDS Integers

CONSTANTS Width,        \* bits of a Duration (64 in Go)
          Durations,    \* BaseDelay and MaxDelay of the policies tried
          MaxAttempts   \* RetryPolicy.MaxAttempts

ASSUME BackoffAssumption ==
  /\ Width \in Nat \ {0}
  /\ MaxAttempts \in Nat \ {0}
  /\ Durations \subseteq (-(2^(Width - 1)))..(2^(Width - 1) - 1)

\* Plain facts about the powers in use, for which the provers have no theory.
ASSUME PowerAssumption ==
  /\ 2^0 = 1
  /\ \A n \in 0..(Width + MaxAttempts) : 2^n \in Nat \ {0} /\ 2^(n + 1) = 2 * 2^n /\ \A m \in 0..n : 2^m <= 2^n

MaxInt  == 2^(Width - 1) - 1
Modulus == 2 * (MaxInt + 1)

VARIABLES base,     \* retryPolicy.BaseDelay
          ceiling,  \* retryPolicy.MaxDelay
          attempt,  \* the attempt that has just failed
          delay,    \* delay, as slept for after that attempt
          jitter,   \* jitter added to it
          slept     \* time really slept so far in this Send

VARIABLES   \* history
  due,        \* the delay RetryPolicy documents for that retry, without jitter
  documented  \* the sum of these

vars == <<base, ceiling, attempt, delay, jitter, slept, due, documented>>

\* Two's complement of Width bits.
Wrap(x) == LET m == x % Modulus IN IF m > MaxInt THEN m - Modulus ELSE m

\* BaseDelay << n on an int64: no overflow check, 0 once every bit is out.
ShiftLeft(x, n) == IF n >= Width THEN 0 ELSE Wrap(x * 2^n)

\* Go's integer division truncates towards zero.
Half(x) == IF x >= 0 THEN x \div 2 ELSE -((-x) \div 2)

\* Mutant: the first retry already doubles.
DelayDoubled(b, c, k) == LET d == ShiftLeft(b, k) IN IF d > c THEN c ELSE d
Delay(b, c, k) == LET d == ShiftLeft(b, k - 1) IN IF d > c THEN c ELSE d

\* crypto/rand.Int: any number in [0, max); it panics if there is none.
Panic == -1
RandInt(max) == IF max <= 0 THEN {Panic} ELSE 0..(max - 1)

\* defaultJitterNanos(delay / 2).
\* Mutants: as much jitter as delay; rand.Int is asked whatever the bound.
JitterFull(d) == IF d <= 0 THEN {0} ELSE RandInt(d + 1)
JitterUnguarded(d) == RandInt(Half(d))
Jitter(d) == IF Half(d) <= 0 THEN {0} ELSE RandInt(Half(d))

\* time.Sleep returns at once for a duration that is not positive.
Sleep(d) == IF d > 0 THEN d ELSE 0

\* RetryPolicy's comment (retry.go:20-25), on unbounded integers: BaseDelay
\* before the first retry, then twice the delay before, MaxDelay at most.
Least(x, y) == IF x <= y THEN x ELSE y
Due == Least(IF attempt = 0 THEN base ELSE 2 * due, ceiling)

Init == /\ base \in Durations /\ ceiling \in Durations
        /\ attempt = 0 /\ delay = 0 /\ jitter = 0 /\ slept = 0
        /\ due = 0 /\ documented = 0

\* Attempt attempt + 1 has failed and another one follows.
waitBeforeRetry ==
  /\ attempt + 1 < MaxAttempts
  /\ attempt' = attempt + 1
  /\ delay' = Delay(base, ceiling, attempt + 1)
  /\ jitter' \in Jitter(Delay(base, ceiling, attempt + 1))
  /\ slept' = slept + IF jitter' = Panic THEN 0 ELSE Sleep(Wrap(delay' + jitter'))
  /\ due' = Due /\ documented' = documented + Due
  /\ UNCHANGED <<base, ceiling>>
-----------------------------------------------------------------------------
(* Properties. *)

\* Policies whose longest delay with its jitter is a Duration; and those of
\* which no doubling of BaseDelay leaves the Durations either.
CapFits == ceiling >= 0 /\ ceiling + Half(ceiling) <= MaxInt
Fits    == CapFits /\ base >= 0 /\ \A k \in 1..(MaxAttempts - 1) : base * 2^(k - 1) <= MaxInt

\* Where the policy fits, all the sleeps of a Send are together no less than
\* the delays RetryPolicy documents, and less than half as much again; and
\* however the shift overflows, one and a half times MaxDelay per retry is the
\* most: a backoff that goes wrong vanishes, and never hangs.
SleepBounded ==
  /\ Fits => documented <= slept /\ (slept > 0 => slept * 2 < 3 * documented)
  /\ CapFits => slept * 2 <= 3 * attempt * ceiling

\* No policy makes the jitter panic: not a delay of 0 or 1, nor one that has
\* overflowed to a negative number or to nothing.
NoRandPanic == jitter # Panic

\* The inductive strengthening of both: the delay of the code, a shift, is the
\* documented one, a doubling.
DelayInv ==
  /\ base \in Int /\ ceiling \in Int /\ delay \in Int
  /\ attempt \in 0..(MaxAttempts - 1) /\ jitter \in Nat /\ slept \in Nat
  /\ due \in Int /\ documented \in Int
  /\ Fits => 0 <= documented
  /\ Fits /\ attempt > 0 => due = Least(base * 2^(attempt - 1), ceiling)
  /\ SleepBounded
=============================================================================
