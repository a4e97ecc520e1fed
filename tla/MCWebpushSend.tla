--------------------------- MODULE MCWebpushSend ---------------------------
(* An instance of WebpushSend for TLC. *)
EXTENDS WebpushSend

\* With 7 bits the largest Duration is 63: 12 overflows before the fourth retry
\* (12 * 2^3 = 96), 20 before the third and 40 before the second; a MaxDelay of
\* 63 overflows once jitter is added.
MCDurations == {-1, 0, 1, 2, 5, 12, 20, 40, 63}
MCIdle == {0, 200}

Num(type, n) == [type |-> type, num |-> n]
MCTTLs == {Num("absent", 0), Num("other", 60), Num("int", 60), Num("int", -1), Num("int64", 60),
           Num("float64", 120), Num("float64", 1), Num("float64", 121), Num("float64", 0), Num("float64", 400)}
=============================================================================
