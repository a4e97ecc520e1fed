-------------------------- MODULE MCRedirectGuard --------------------------
(* Three calls: two of a Wrapper with strict checks, one of another with    *)
(* WithAllowHTTP, on clients that may be shared.                            *)
EXTENDS RedirectGuard, TLC

CONSTANTS s1, s2, s3, strict, local, public, loopback, c1, c2

MCOwner   == s1 :> strict @@ s2 :> strict @@ s3 :> local
MCAccepts == strict :> {public} @@ local :> {public, loopback}
-----------------------------------------------------------------------------
\* wrapper.go: every redirect target is re-validated through the same
\* destination checks as the initial request.
EveryRedirectRevalidated == \A s \in Sends : followed[s] \subseteq Accepts[Owner[s]]
=============================================================================
