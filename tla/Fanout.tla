------------------------------- MODULE Fanout -------------------------------
(***************************************************************************)
(* A host that sends one Message to several destinations (README.md:64-70, *)
(* ARCHITECTURE.md:55-63): providers on transport.Wrapper, whose Send      *)
(* renders the payload (Render) and dispatches it (the contract Delivery   *)
(* that Wrapper implements), and email (Email).  The host calls them in a  *)
(* loop, or each from a goroutine of its own.                              *)
(***************************************************************************)
EXTENDS Render, Email

CONSTANT Policies    \* RetryPolicy.MaxAttempts of the Wrappers

VARIABLES mode,      \* "loop" or "parallel"
          phase, budget, taken, detoured, copies   \* of Delivery, one Send per member of Renders

Wrapper == INSTANCE Delivery WITH Sends <- Renders

delivery == <<phase, budget, taken, detoured, copies>>
fanVars  == <<vars, emailVars, delivery, mode>>

FanInit == Init /\ EmailInit /\ Wrapper!Init /\ mode \in {"loop", "parallel"}
-----------------------------------------------------------------------------
(* The host's calls. *)

Idle(r)      == caller[r] = "start" /\ phase[r] = "idle"
Finished(r)  == phase[r] \in {"ok", "failed"}

\* The loop makes one call at a time.
Turn ==
  mode = "loop" => /\ \A r \in Renders : Idle(r) \/ Finished(r)
                   /\ \A e \in Mails : mail[e] \in {"idle", "returned"}

\* A provider's Send: the config is refused, or the template is rendered.
Call(r) ==
  /\ Idle(r) /\ Turn
  /\ \/ Wrapper!Refuse(r) /\ UNCHANGED vars
     \/ (Refuse(r) \/ Start(r)) /\ UNCHANGED delivery
  /\ UNCHANGED <<emailVars, mode>>

Rendering(r) ==
  /\ Receive(r) \/ TimeOut(r) \/ ReturnText(r)
  /\ UNCHANGED <<delivery, emailVars, mode>>

\* Render has returned: its error is returned; its text may be no payload of
\* the service, or is given to wrapper.Send.
\* Mutant: what Render returned is dispatched in any case.
DispatchAnyway(r) ==
  /\ caller[r] = "returned" /\ phase[r] = "idle"
  /\ \/ Wrapper!Refuse(r)
     \/ \E n \in Policies : Wrapper!Start(r, n)
  /\ UNCHANGED <<vars, emailVars, mode>>
Dispatch(r) ==
  /\ caller[r] = "returned" /\ phase[r] = "idle"
  /\ \/ Wrapper!Refuse(r)
     \/ result[r] = "text" /\ \E n \in Policies : Wrapper!Start(r, n)
  /\ UNCHANGED <<vars, emailVars, mode>>

Dispatching(r) ==
  /\ \/ Wrapper!Take(r) \/ Wrapper!Detour(r)
     \/ Wrapper!Retry(r) \/ Wrapper!Succeed(r) \/ Wrapper!Fail(r)
  /\ UNCHANGED <<vars, emailVars, mode>>

\* email's Send.
Mail(e) ==
  /\ mail[e] = "idle" => Turn
  /\ MailStep(e)
  /\ UNCHANGED <<vars, delivery, mode>>

Provider(r) == Call(r) \/ Rendering(r) \/ Dispatch(r) \/ Dispatching(r)

FanNext ==
  \/ \E r \in Renders : Provider(r)
  \/ \E r \in Renders : (Worker(r) \/ Expire(r)) /\ UNCHANGED <<emailVars, delivery, mode>>
  \/ \E e \in Mails : Mail(e)
  \/ \E list \in Edits : HostEdits(list) /\ UNCHANGED <<vars, delivery, mode>>

FanSpec == FanInit /\ [][FanNext]_fanVars

\* Every goroutine is scheduled, time passes, wrapper.Send returns (Terminates
\* of Wrapper), and so do the host's Renderer and Mailer.
FanFairSpec ==
  /\ FanSpec
  /\ \A r \in Renders : WF_fanVars(Provider(r)) /\ WF_fanVars(Worker(r) /\ UNCHANGED <<emailVars, delivery, mode>>)
                        /\ WF_fanVars(Expire(r) /\ UNCHANGED <<emailVars, delivery, mode>>)
  /\ \A e \in Mails : WF_fanVars(Mail(e))
-----------------------------------------------------------------------------
(* Properties. *)

\* A nil error of an HTTP destination means that what was dispatched was the
\* whole rendering of the Message, and that the provider took it, unless a
\* redirect was followed with a GET or taken for the answer (wrapper.go:223-234
\* returns nil for both); a nil error of email means that the Mailer accepted
\* exactly one mail.
NilMeansDelivered ==
  /\ \A r \in Renders :
       phase[r] = "ok" => /\ copies[r] >= 1 \/ detoured[r]
                          /\ result[r] = "text" /\ output[r] = Length
  /\ \A e \in Mails : err[e] = "nil" => Len(mailed[e]) = 1

\* Every destination is tried and returns, in a loop too: a template that never
\* ends, a failing service or a failing Mailer does not keep the others waiting.
EveryDestinationReturns ==
  /\ \A r \in Renders : <>Finished(r)
  /\ \A e \in Mails : <>(mail[e] = "returned")

\* What the dispatches and the mails owe to the steps before them: the inductive
\* strengthening, with IInv of Render, of NilMeansDelivered, MailAsConfigured and
\* SubjectClean.
HttpInv ==
  /\ phase \in [Renders -> {"idle", "running", "ok", "failed"}]
  /\ taken \in [Renders -> BOOLEAN] /\ detoured \in [Renders -> BOOLEAN] /\ copies \in [Renders -> Nat]
  /\ \A r \in Renders :
       /\ phase[r] \in {"running", "ok"} => caller[r] = "returned" /\ result[r] = "text"
       /\ taken[r] => copies[r] >= 1
       /\ phase[r] = "ok" => copies[r] >= 1 \/ detoured[r]

MailInv ==
  /\ DOMAIN mail = Mails /\ DOMAIN err = Mails /\ DOMAIN mailed = Mails /\ DOMAIN to = Mails
  /\ DOMAIN title = Mails /\ DOMAIN html = Mails /\ message \in Titles
  /\ Lent \/ recipients = StringSliceField(field)
  /\ \A e \in Mails :
       /\ mail[e] \in {"idle", "render", "send"} => mailed[e] = <<>> /\ err[e] = "none"
       /\ mail[e] \in {"render", "send"} => Lent \/ to[e] = Configured
       /\ mail[e] \in {"render", "send"} => Clean(title[e])
       /\ mail[e] = "send" => html[e][2] = title[e]
       /\ err[e] = "nil" => Len(mailed[e]) = 1
       /\ \A i \in DOMAIN mailed[e] : Lent \/ mailed[e][i].to = Configured
  /\ SubjectClean

\* What the refinement of Outbox needs beside MailInv: a Send fixes its list
\* once, all of them sanitize the same Title, and an error is final.
BoxInv ==
  \A e \in Mails :
    /\ mail[e] \in {"idle", "render", "send", "returned"}
    /\ mail[e] = "idle" => to[e] = <<>>
    /\ mail[e] \in {"render", "send"} => to[e] # <<>> /\ title[e] = sanitizeForEmail(message)
FanInv == IInv /\ HttpInv /\ MailInv
=============================================================================
