------------------------------ MODULE Delivery ------------------------------
(***************************************************************************)
(* What one notification Send promises its caller, with no HTTP in it:     *)
(*   - the provider takes at most one copy of the message per attempt, and *)
(*     there are at most as many attempts as the retry policy allows;      *)
(*   - a Send that returns nil has had its message taken in the attempt    *)
(*     whose answer it returns, or that attempt was detoured: a redirect   *)
(*     was itself taken for the answer, or turned the POST into a GET, and *)
(*     then nobody has taken anything in it;                               *)
(*   - a Send that returns an error promises nothing: the message may have *)
(*     been taken any number of times, up to one per attempt;              *)
(*   - once it has returned it does nothing more.                          *)
(* Wrapper implements it; the module is the contract of                    *)
(* src/transport/wrapper.go Send as sender.go states it.                   *)
(***************************************************************************)
EXTENDS Integers

CONSTANTS Sends,     \* the calls of Send
          Policies   \* the MaxAttempts a RetryPolicy may hold

VARIABLES phase,     \* "idle", "running", "ok" or "failed"
          budget,    \* attempts left, the one under way included
          taken,     \* the message was taken in the attempt under way
          detoured,  \* a redirect ended or emptied the attempt under way
          copies     \* copies the provider has taken so far

vars == <<phase, budget, taken, detoured, copies>>

Init == /\ phase  = [s \in Sends |-> "idle"]
        /\ budget = [s \in Sends |-> 0]
        /\ taken  = [s \in Sends |-> FALSE]
        /\ detoured = [s \in Sends |-> FALSE]
        /\ copies = [s \in Sends |-> 0]

\* The call is refused before anything is sent.
Refuse(s) == /\ phase[s] = "idle"
             /\ phase' = [phase EXCEPT ![s] = "failed"]
             /\ UNCHANGED <<budget, taken, detoured, copies>>

Start(s, n) == /\ phase[s] = "idle"
               /\ n >= 1
               /\ phase'  = [phase EXCEPT ![s] = "running"]
               /\ budget' = [budget EXCEPT ![s] = n]
               /\ UNCHANGED <<taken, detoured, copies>>

\* The provider takes one copy: once per attempt at most.
Take(s) == /\ phase[s] = "running"
           /\ ~taken[s] /\ ~detoured[s]
           /\ taken'  = [taken EXCEPT ![s] = TRUE]
           /\ copies' = [copies EXCEPT ![s] = @ + 1]
           /\ UNCHANGED <<phase, budget, detoured>>

\* A 301, 302 or 303 is followed with a GET, or a 3xx is returned by Do.
Detour(s) == /\ phase[s] = "running"
             /\ ~taken[s] /\ ~detoured[s]
             /\ detoured' = [detoured EXCEPT ![s] = TRUE]
             /\ UNCHANGED <<phase, budget, taken, copies>>

Retry(s) == /\ phase[s] = "running"
            /\ budget[s] > 1
            /\ budget' = [budget EXCEPT ![s] = @ - 1]
            /\ taken'  = [taken EXCEPT ![s] = FALSE]
            /\ detoured' = [detoured EXCEPT ![s] = FALSE]
            /\ UNCHANGED <<phase, copies>>

Succeed(s) == /\ phase[s] = "running"
              /\ taken[s] \/ detoured[s]
              /\ phase' = [phase EXCEPT ![s] = "ok"]
              /\ UNCHANGED <<budget, taken, detoured, copies>>

Fail(s) == /\ phase[s] = "running"
           /\ phase' = [phase EXCEPT ![s] = "failed"]
           /\ UNCHANGED <<budget, taken, detoured, copies>>

Next == \E s \in Sends :
          \/ Refuse(s)
          \/ \E n \in Policies : Start(s, n)
          \/ Take(s)
          \/ Detour(s)
          \/ Retry(s)
          \/ Succeed(s)
          \/ Fail(s)

Spec == Init /\ [][Next]_vars
=============================================================================
