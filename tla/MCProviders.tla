---------------------------- MODULE MCProviders ----------------------------
(* Small sets of configs and texts for Providers, and what the docs claim. *)
EXTENDS Providers

Keys(p) ==
  {"transport"} \cup
  CASE p \in {"discord", "slack"} -> {"webhook_url"}
    [] p = "pushover" -> {"api_token", "user_key", "base_url"}
    [] p = "telegram" -> {"bot_token", "chat_id", "base_url"}
    [] p \in {"gotify", "ntfy"} -> {"url", "token"}
    [] p = "webhook"  -> {"url"}
    [] p = "webpush"  -> {"vapid_public_key", "vapid_private_key", "vapid_subject", "endpoint",
                          "p256dh", "auth", "urgency", "topic"}

Values(p, key) ==
  {"absent", "number", "empty", "blank", "ok", "bad"}
    \cup (IF p = "discord" /\ key = "webhook_url" THEN {"short", "elsewhere"} ELSE {})

\* Every config with at most one key that is not "ok".
ConfigsOf(p) ==
  UNION {{[key \in Keys(p) |-> IF key = odd THEN v ELSE "ok"] : v \in Values(p, odd)} : odd \in Keys(p)}

MCConfigs ==
  [p \in {"discord", "slack", "pushover", "telegram", "gotify", "ntfy", "webhook", "webpush"} |-> ConfigsOf(p)]

\* Every choice of at most three of the keys some provider looks at.
PayloadKeys == {"message", "content", "embeds", "text", "blocks", "token", "chat_id", "priority"}

ObjectOf(keys, v) ==
  [kind   |-> "object",
   fields |-> [key \in keys |-> IF key = "priority" THEN v ELSE "plain"],
   size   |-> 100]

MCTexts ==
  {ObjectOf(keys, v) : keys \in {ks \in SUBSET PayloadKeys : Cardinality(ks) <= 3},
                       v \in {"plain", "two", "huge", "outOfRange"}}
    \cup {[kind |-> k, fields |-> <<>>, size |-> 4] : k \in {"null", "array"}}
    \cup {[kind |-> "object", fields |-> [key \in {"message"} |-> "plain"], size |-> n] :
            n \in {MaxPlaintextSize, MaxPlaintextSize + 1, recordSize - 102}}

\* A short one, and those at the limit of Web Push and past it.
MCSizes == {100, MaxPlaintextSize, MaxPlaintextSize + 1}

\* What README.md:147-148 says of the headers: these five leave, and anything else
\* in Request.Headers is silently dropped.
OnlyDocumentedHeadersLeave ==
  \A r \in sent :
    r.headers \subseteq {"content-type", "user-agent", "x-request-id", "x-gotify-key", "authorization"}
=============================================================================
