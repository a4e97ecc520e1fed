----------------------------- MODULE MCRegistry -----------------------------
(* Instances of Registry for TLC. *)
EXTENDS Registry

CONSTANTS slack, ntfy

\* Two spellings of one name, another name, a blank.
MCName == {"slack", " Slack", "ntfy", " "}
MCNormalized ==
  [n \in MCName |-> CASE n \in {"slack", " Slack"} -> slack [] n = "ntfy" -> ntfy [] n = " " -> Empty]
=============================================================================
