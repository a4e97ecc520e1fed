----------------------------- MODULE MCWrapper -----------------------------
(***************************************************************************)
(* Instances of Wrapper for TLC, and what the repository's documents say   *)
(* of Send that the model refutes.                                         *)
(***************************************************************************)
EXTENDS Wrapper

CONSTANTS hook, moved   \* a stable host, and one whose addresses change

U(h, p, f) == [host |-> h, path |-> p, flaw |-> f]

\* Clean and flawed URLs, on both hosts.
MCLocation == {U(hook, "plain", "none"), U(moved, "escaped", "none"),
               U(hook, "plain", "fragment"), U(moved, "plain", "queryAuth")}
\* Only URLs that pass, for the runs where rejection is beside the point.
CleanLocation == {U(hook, "plain", "none"), U(moved, "escaped", "none")}
\* MaxAttempts of a misused, a one-shot and the default RetryPolicy.
MCPolicies == {-1, 1, 3}
-----------------------------------------------------------------------------
(* Claims of the repository's text that the code does not keep. *)

\* wrapper.go:301-303, the guard preserves any existing policy: a client with
\* no CheckRedirect stops after ten redirects, and still should when guarded.
ExistingPolicyKept == \A s \in Sends : via[s] <= RedirectLimit

\* ARCHITECTURE.md:43 and sender.go:10-11, Send honours cancellation: once the
\* context is done, no further attempt (and no further sleep) is begun.
CancelStopsRetries ==
  [][\A s \in Sends : cancelled[s] => attempt'[s] <= attempt[s] \/ attempt[s] = 0]_vars

\* wrapper.go:43 and 284-287, the request goes to Request.URL; only userinfo
\* and fragment may be dropped from it.
FirstRequestToURL ==
  \A s \in Sends : pc[s] = "send" /\ via[s] = 0 => at[s] = req[s]
=============================================================================
