------------------------------- MODULE Render -------------------------------
(***************************************************************************)
(* render.Render (src/providers/internal/render/render.go): the template   *)
(* runs in a goroutine of its own that writes a buffer and reports on a    *)
(* channel, while the caller waits for the report or for ExecTimeout.      *)
(* After a timeout the goroutine runs on, unobserved, over the caller's    *)
(* message.  One member of Renders is one call of Render.                  *)
(***************************************************************************)
EXTENDS Integers

CONSTANTS Renders,   \* calls of Render
          Length     \* pieces a complete output has

ASSUME RenderAssumption == Length \in Nat \ {0}

Capacity == 1        \* make(chan error, 1)

VARIABLES
  caller,    \* "start", "select", "built" (body.String() is next) or "returned"
  result,    \* "none", "text", "execError", "refused" or "timeout"
  output,    \* pieces in the text Render returned
  worker,    \* "none", "running", "report" or "exited": the goroutine
  body,      \* pieces in the bytes.Buffer
  execErr,   \* what Execute returned: "nil" or "failed"
  channel,   \* messages in execDone
  expired,   \* time.After(ExecTimeout) has fired
  endless    \* the template never ends

vars == <<caller, result, output, worker, body, execErr, channel, expired, endless>>

Init ==
  /\ caller  = [r \in Renders |-> "start"]
  /\ result  = [r \in Renders |-> "none"]
  /\ output  = [r \in Renders |-> 0]
  /\ worker  = [r \in Renders |-> "none"]
  /\ body    = [r \in Renders |-> 0]
  /\ execErr = [r \in Renders |-> "nil"]
  /\ channel = [r \in Renders |-> 0]
  /\ expired = [r \in Renders |-> FALSE]
  /\ endless \in [Renders -> BOOLEAN]
-----------------------------------------------------------------------------
(* The caller. *)

Return(r, res, n) ==
  /\ caller' = [caller EXCEPT ![r] = "returned"]
  /\ result' = [result EXCEPT ![r] = res]
  /\ output' = [output EXCEPT ![r] = n]

\* The template is too large or does not parse.
Refuse(r) ==
  /\ caller[r] = "start"
  /\ Return(r, "refused", 0)
  /\ UNCHANGED <<worker, body, execErr, channel, expired, endless>>

\* go func() { ... }(), then select with a fresh timer.
Start(r) ==
  /\ caller[r] = "start"
  /\ caller' = [caller EXCEPT ![r] = "select"]
  /\ worker' = [worker EXCEPT ![r] = "running"]
  /\ UNCHANGED <<result, output, body, execErr, channel, expired, endless>>

\* Mutants: the report is taken for success whatever it says; the select does
\* not wait for it.
ReceiveIgnoresError(r) ==
  /\ caller[r] = "select" /\ channel[r] > 0
  /\ channel' = [channel EXCEPT ![r] = @ - 1]
  /\ caller' = [caller EXCEPT ![r] = "built"]
  /\ UNCHANGED <<result, output, worker, body, execErr, expired, endless>>
ReceiveEarly(r) ==
  /\ caller[r] = "select"
  /\ caller' = [caller EXCEPT ![r] = "built"]
  /\ UNCHANGED <<result, output, worker, body, execErr, channel, expired, endless>>
Receive(r) ==
  /\ caller[r] = "select" /\ channel[r] > 0
  /\ channel' = [channel EXCEPT ![r] = @ - 1]
  /\ IF execErr[r] = "failed"
     THEN Return(r, "execError", 0)
     ELSE caller' = [caller EXCEPT ![r] = "built"] /\ UNCHANGED <<result, output>>
  /\ UNCHANGED <<worker, body, execErr, expired, endless>>

\* When both cases of the select are ready either is taken.
\* Mutant: there is no timer.
TimeOutNever(r) == FALSE
TimeOut(r) ==
  /\ caller[r] = "select" /\ expired[r]
  /\ Return(r, "timeout", 0)
  /\ UNCHANGED <<worker, body, execErr, channel, expired, endless>>

ReturnText(r) ==
  /\ caller[r] = "built"
  /\ Return(r, "text", body[r])
  /\ UNCHANGED <<worker, body, execErr, channel, expired, endless>>
-----------------------------------------------------------------------------
(* The goroutine. *)

\* Execute writes a piece: it reads the message and appends to the buffer.
Write(r) ==
  /\ worker[r] = "running"
  /\ body[r] < Length
  /\ body' = [body EXCEPT ![r] = @ + 1]
  /\ UNCHANGED <<caller, result, output, worker, execErr, channel, expired, endless>>

\* Execute returns: the output is complete, or it failed on the way.
Executed(r, e) ==
  /\ worker[r] = "running"
  /\ e = "nil" => body[r] = Length /\ ~endless[r]
  /\ e = "failed" => ~endless[r]
  /\ execErr' = [execErr EXCEPT ![r] = e]
  /\ worker' = [worker EXCEPT ![r] = "report"]
  /\ UNCHANGED <<caller, result, output, body, channel, expired, endless>>

\* execDone <- err, which blocks while the channel is full.
\* Mutant: an unbuffered channel, so somebody must be receiving.
ReportUnbuffered(r) ==
  /\ worker[r] = "report" /\ caller[r] = "select"
  /\ channel' = [channel EXCEPT ![r] = @ + 1]
  /\ worker' = [worker EXCEPT ![r] = "exited"]
  /\ UNCHANGED <<caller, result, output, body, execErr, expired, endless>>
Report(r) ==
  /\ worker[r] = "report" /\ channel[r] < Capacity
  /\ channel' = [channel EXCEPT ![r] = @ + 1]
  /\ worker' = [worker EXCEPT ![r] = "exited"]
  /\ UNCHANGED <<caller, result, output, body, execErr, expired, endless>>

Expire(r) ==
  /\ caller[r] = "select" /\ ~expired[r]
  /\ expired' = [expired EXCEPT ![r] = TRUE]
  /\ UNCHANGED <<caller, result, output, worker, body, execErr, channel, endless>>
-----------------------------------------------------------------------------
Caller(r) == Start(r) \/ Receive(r) \/ TimeOut(r) \/ ReturnText(r)
Worker(r) == Write(r) \/ (\E e \in {"nil", "failed"} : Executed(r, e)) \/ Report(r)

Next == \E r \in Renders : Refuse(r) \/ Caller(r) \/ Worker(r) \/ Expire(r)

Spec == Init /\ [][Next]_vars
-----------------------------------------------------------------------------
(* Properties. *)

\* Every variable holds what its comment says.
TypeOK ==
  /\ caller \in [Renders -> {"start", "select", "built", "returned"}]
  /\ result \in [Renders -> {"none", "text", "execError", "refused", "timeout"}]
  /\ output \in [Renders -> 0..Length]
  /\ worker \in [Renders -> {"none", "running", "report", "exited"}]
  /\ body \in [Renders -> 0..Length]
  /\ execErr \in [Renders -> {"nil", "failed"}]
  /\ channel \in [Renders -> 0..Capacity]
  /\ expired \in [Renders -> BOOLEAN]
  /\ endless \in [Renders -> BOOLEAN]

\* A nil error comes with the whole output: never with what a running or a
\* failed template had written so far.
TextIsComplete == \A r \in Renders : result[r] = "text" => output[r] = Length /\ execErr[r] = "nil"

\* The caller reads the buffer only when the goroutine is done with it.
NoBufferRace == \A r \in Renders : caller[r] = "built" => worker[r] = "exited"

\* Once Render has returned, the goroutine still reads the message in one case
\* only, the timeout: after any other return the host may change msg.Data.
MessageReleased ==
  \A r \in Renders :
    caller[r] = "returned" /\ result[r] # "timeout" => worker[r] \in {"none", "exited"}

\* How far the two sides of one call can be apart: the inductive strengthening
\* of the invariants above.
CallInv(r) ==
  /\ caller[r] = "start" => worker[r] = "none"
  /\ worker[r] = "none" => caller[r] \in {"start", "returned"}
  /\ worker[r] # "exited" => channel[r] = 0
  /\ worker[r] = "exited" /\ caller[r] = "select" => channel[r] = 1
  /\ caller[r] = "built" => worker[r] = "exited" /\ execErr[r] = "nil"
  /\ worker[r] \in {"report", "exited"} /\ execErr[r] = "nil" => body[r] = Length
  /\ result[r] = "text" => worker[r] = "exited"
  /\ result[r] = "none" <=> caller[r] # "returned"

IInv ==
  /\ TypeOK
  /\ \A r \in Renders : CallInv(r)
  /\ TextIsComplete
  /\ MessageReleased

\* A template that ends leaves no goroutine behind, timeout or not.
NoGoroutineLeak ==
  \A r \in Renders : worker[r] = "running" /\ ~endless[r] ~> worker[r] = "exited"
=============================================================================
