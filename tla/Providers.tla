----------------------------- MODULE Providers -----------------------------
(***************************************************************************)
(* The HTTP providers (src/providers): how a registry config becomes a     *)
(* client (register.go) and how one Send turns a message into one          *)
(* wrapper.Send, or into an error.  All of them run the same pipeline:     *)
(* check the config, render the template, decode the text, see to the      *)
(* fields the service asks for, attach the credentials, dispatch.  A       *)
(* module is one client and one Send; Wrapper says what follows it.        *)
(*                                                                         *)
(* A config value is "absent", "number" (any value that is not a string),  *)
(* "empty", "blank" (spaces), "ok", "bad" (malformed) or, for Discord,     *)
(* "short" (discord://...) and "elsewhere" (another https host).  A text   *)
(* is a record: kind is "invalid", "null", "array" or "object", fields     *)
(* maps the keys of an object to "plain", "two" (the number 2), "huge" (a  *)
(* number with more digits than a float64 keeps) or "outOfRange" (a number *)
(* no float64 holds), and size is its length in bytes.                     *)
(***************************************************************************)
EXTENDS Integers, FiniteSets

CONSTANTS Configs,        \* provider -> the configs its host may pass
          CustomTexts,    \* what custom templates render to
          BuiltInSizes,   \* the lengths of what the built-in templates render to
          MaxPlaintextSize, \* encrypt.go: the longest plaintext it takes
          recordSize      \* encrypt.go: "rs", the record size it announces

ASSUME ProvidersAssumption ==
  /\ DOMAIN Configs = {"discord", "slack", "pushover", "telegram", "gotify", "ntfy", "webhook", "webpush"}
  /\ MaxPlaintextSize \in Nat /\ recordSize \in Nat /\ BuiltInSizes \subseteq Nat
  /\ \A t \in CustomTexts : t.size \in Nat /\ (t.kind # "object" => DOMAIN t.fields = {})

VARIABLES
  provider,   \* the type name given to notify.New
  config,     \* the map given to notify.New
  cfg,        \* the client's Config: key -> string, as regconfig extracted it
  stage,      \* "new", "check", "render", "decode", "normalize", "attach", "dispatch", "done" or "panic"
  built,      \* notify.New returned a client
  selected,   \* the template SelectTemplate chose: "none", "minimal", "detailed" or "custom"
  data,       \* the worst value in msg.Data
  text,       \* what Render returned
  payload,    \* var payload map[string]any
  sent,       \* the requests handed to wrapper.Send, at most one
  result      \* what Send returned: "none", "ok", "config", "render", "payload", "address" or "transport"

vars == <<provider, config, cfg, stage, built, selected, data, text, payload, sent, result>>

NoText == [kind |-> "invalid", fields |-> <<>>, size |-> 0]
DataKinds == {"plain", "huge", "outOfRange", "unmarshalable"}
NilMap == [nil |-> TRUE, fields |-> <<>>]
-----------------------------------------------------------------------------
(* regconfig and register.go. *)

StringField(c, key) == IF c[key] \in {"absent", "number"} THEN "empty" ELSE c[key]

\* strings.TrimSpace, and whether anything is left.
Given(c, key) == c[key] \notin {"empty", "blank"}

\* config["transport"] is the only key a factory insists on.
Init ==
  /\ provider \in DOMAIN Configs
  /\ config \in Configs[provider]
  /\ data \in DataKinds
  /\ cfg = <<>> /\ stage = "new" /\ built = FALSE /\ selected = "none"
  /\ text = NoText /\ payload = NilMap /\ sent = {} /\ result = "none"

NewClient ==
  /\ stage = "new"
  /\ IF config["transport"] = "ok"
     THEN /\ cfg' = [key \in DOMAIN config |-> StringField(config, key)]
          /\ built' = TRUE
          /\ stage' = "check"
          /\ UNCHANGED result
     ELSE stage' = "done" /\ result' = "config" /\ UNCHANGED <<cfg, built>>
  /\ UNCHANGED <<provider, config, selected, data, text, payload, sent>>
-----------------------------------------------------------------------------
(* What each Send wants of its config before it renders anything. *)

ValidateWebhookURL(v) == v \in {"ok", "short"}
isValidRedirectURL(v) == v \in {"ok", "elsewhere"}

DiscordReady(c)  == ValidateWebhookURL(c["webhook_url"]) /\ isValidRedirectURL(c["webhook_url"])
SlackReady(c)    == c["webhook_url"] = "ok"
PushoverReady(c) == Given(c, "api_token") /\ Given(c, "user_key")
GotifyReady(c)   == Given(c, "url")
NtfyReady(c)     == Given(c, "url")
WebhookReady(c)  == Given(c, "url")

\* A "bad" key does not decode, or is not the other's.
verifyVAPIDKeyPairMatches(c) == c["vapid_public_key"] = "ok" /\ c["vapid_private_key"] = "ok"

WebpushReady(c) ==
  /\ \A key \in {"vapid_public_key", "vapid_private_key", "vapid_subject", "endpoint", "p256dh", "auth"} : Given(c, key)
  /\ c["vapid_subject"] # "bad"
  /\ verifyVAPIDKeyPairMatches(c)
  /\ \A key \in {"urgency", "topic"} : Given(c, key) => c[key] = "ok"

\* Telegram's Send has no check of its own.
Ready(p, c) ==
  CASE p = "discord"  -> DiscordReady(c)
    [] p = "slack"    -> SlackReady(c)
    [] p = "pushover" -> PushoverReady(c)
    [] p = "gotify"   -> GotifyReady(c)
    [] p = "ntfy"     -> NtfyReady(c)
    [] p = "webhook"  -> WebhookReady(c)
    [] p = "webpush"  -> WebpushReady(c)
    [] p = "telegram" -> TRUE

CheckConfig ==
  /\ stage = "check"
  /\ IF Ready(provider, cfg)
     THEN stage' = "render" /\ UNCHANGED result
     ELSE stage' = "done" /\ result' = "config"
  /\ UNCHANGED <<provider, config, cfg, built, selected, data, text, payload, sent>>
-----------------------------------------------------------------------------
(* Template selection and rendering. *)

\* The selector is free text: anything but the two names is "custom".
SelectTemplate(selector, custom) ==
  IF selector \in {"minimal", "detailed"} THEN selector
  ELSE IF custom = "" THEN "minimal"
  ELSE "custom"

TemplateData == {"message", "title", "time", "event"}

\* A value json.Marshal refuses (a channel, a NaN) leaves nothing in the text;
\* a json.Number it writes as it is, 1e999 included.
\* Mutant: what is refused becomes null.
toJSONNull(v) == IF v = "unmarshalable" THEN "plain" ELSE v
toJSON(v) == IF v = "unmarshalable" THEN "nothing" ELSE v

\* The texts a template makes of fields, of any length: the body, the title and
\* the data are as long as the host makes them.
Objects(fields) == {[kind |-> "object", fields |-> fields, size |-> n] : n \in BuiltInSizes}

MinimalTemplate == Objects([key \in TemplateData |-> "plain"])

DetailedTemplate(v) ==
  IF toJSON(v) = "nothing" THEN {NoText}
  ELSE Objects([key \in TemplateData \cup {"data"} |-> IF key = "data" THEN toJSON(v) ELSE "plain"])

Rendered(chosen, v) ==
  CASE chosen = "minimal"  -> MinimalTemplate
    [] chosen = "detailed" -> DetailedTemplate(v)
    [] chosen = "custom"   -> CustomTexts \cup {NoText}

\* Render's outcome: the whole text, or one of the errors of module Render.
RenderText(selector, custom, failed) ==
  /\ stage = "render"
  /\ selected' = SelectTemplate(selector, custom)
  /\ IF failed
     THEN stage' = "done" /\ result' = "render" /\ UNCHANGED text
     ELSE /\ \E t \in Rendered(SelectTemplate(selector, custom), data) : text' = t
          /\ stage' = "decode"
          /\ UNCHANGED result
  /\ UNCHANGED <<provider, config, cfg, built, data, payload, sent>>
-----------------------------------------------------------------------------
(***************************************************************************)
(* What tells one Send from another once the config is accepted: into is   *)
(* what the text is decoded into ("map", "any", or "valid" for json.Valid  *)
(* alone); any one of anyOf has to be in the map, "message" is copied to   *)
(* fallback when none is ("" for nowhere); sets is what is written over    *)
(* the template's own keys; raw says that the text itself is sent.         *)
(***************************************************************************)

Row(into, anyOf, fallback, sets, raw) ==
  [into |-> into, anyOf |-> anyOf, fallback |-> fallback, sets |-> sets, raw |-> raw]

Discord  == Row("map",   {"content", "embeds"}, "content", {},                FALSE)
Slack    == Row("map",   {"text", "blocks"},    "text",    {},                FALSE)
Telegram == Row("map",   {"text"},              "text",    {"chat_id"},       FALSE)
Pushover == Row("map",   {"message"},           "",        {"token", "user"}, FALSE)
Gotify   == Row("map",   {"message"},           "",        {},                TRUE)
Ntfy     == Row("map",   {"message"},           "",        {},                TRUE)
Webhook  == Row("valid", {},                    "",        {},                TRUE)
Webpush  == Row("any",   {},                    "",        {},                TRUE)

Provider == [discord |-> Discord, slack |-> Slack, telegram |-> Telegram, pushover |-> Pushover,
             gotify |-> Gotify, ntfy |-> Ntfy, webhook |-> Webhook, webpush |-> Webpush]
-----------------------------------------------------------------------------
(* Decoding: json.Unmarshal into a map, into any (webpush), or json.Valid. *)

InRange(t) == \A key \in DOMAIN t.fields : t.fields[key] # "outOfRange"

\* Every number becomes a float64.
Float(v) == IF v = "huge" THEN "rounded" ELSE v

\* Mutant: json.Valid everywhere.
DecodesSyntaxOnly(p, t) == t.kind # "invalid"
Decodes(p, t) ==
  /\ t.kind # "invalid"
  /\ Provider[p].into # "valid" => InRange(t)
  /\ Provider[p].into = "map" => t.kind \in {"object", "null"}

\* Decoding null leaves the map nil.
Decode ==
  /\ stage = "decode"
  /\ IF Decodes(provider, text)
     THEN /\ payload' = [nil    |-> text.kind # "object",
                         fields |-> [key \in DOMAIN text.fields |-> Float(text.fields[key])]]
          /\ stage' = "normalize"
          /\ UNCHANGED result
     ELSE stage' = "done" /\ result' = "payload" /\ UNCHANGED payload
  /\ UNCHANGED <<provider, config, cfg, built, selected, data, text, sent>>

\* RenderPreview's verdict on the same text.
RenderPreview(t) == t.kind # "invalid" /\ InRange(t)
-----------------------------------------------------------------------------
(* The fields the service asks for. *)

\* Pushover's emergency priority, when it is written as a number.
Emergency(p, fields) == p = "pushover" /\ "priority" \in DOMAIN fields /\ fields["priority"] = "two"

Lacks(need, have) == need.anyOf # {} /\ need.anyOf \cap have = {}

\* The map fields once the given entries are assigned.
Assigned(fields, entries) ==
  [key \in DOMAIN fields \cup DOMAIN entries |-> IF key \in DOMAIN entries THEN entries[key] ELSE fields[key]]

\* Writing to a nil map panics.
Write(entries, next) ==
  IF payload.nil THEN stage' = "panic" /\ UNCHANGED payload
  ELSE payload' = [payload EXCEPT !.fields = Assigned(@, entries)] /\ stage' = next

RefusePayload == stage' = "done" /\ result' = "payload" /\ UNCHANGED payload

\* Mutant: the fallback is taken without looking for "message".
NormalizeUnchecked ==
  LET need == Provider[provider] IN
  /\ stage = "normalize"
  /\ UNCHANGED result
  /\ IF need.fallback # "" /\ Lacks(need, DOMAIN payload.fields) THEN Write([key \in {need.fallback} |-> "plain"], "attach")
     ELSE stage' = "attach" /\ UNCHANGED payload
  /\ UNCHANGED <<provider, config, cfg, built, selected, data, text, sent>>
\* Mutant: the message is found, but not copied.
NormalizeNoFallback ==
  LET need == Provider[provider] have == DOMAIN payload.fields IN
  /\ stage = "normalize"
  /\ IF Lacks(need, have) /\ "message" \notin have THEN RefusePayload
     ELSE stage' = "attach" /\ UNCHANGED <<payload, result>>
  /\ UNCHANGED <<provider, config, cfg, built, selected, data, text, sent>>
\* Mutant: no fallback, as in gotify.go and ntfy.go.
NormalizeStrict ==
  /\ stage = "normalize"
  /\ IF Lacks(Provider[provider], DOMAIN payload.fields) THEN RefusePayload
     ELSE stage' = "attach" /\ UNCHANGED <<payload, result>>
  /\ UNCHANGED <<provider, config, cfg, built, selected, data, text, sent>>
Normalize ==
  LET need == Provider[provider] have == DOMAIN payload.fields IN
  /\ stage = "normalize"
  /\ IF Emergency(provider, payload.fields) THEN RefusePayload
     ELSE IF ~Lacks(need, have) THEN stage' = "attach" /\ UNCHANGED <<payload, result>>
     ELSE IF need.fallback = "" \/ "message" \notin have THEN RefusePayload
     ELSE Write([key \in {need.fallback} |-> payload.fields["message"]], "attach") /\ UNCHANGED result
  /\ UNCHANGED <<provider, config, cfg, built, selected, data, text, sent>>
-----------------------------------------------------------------------------
(* The destination, the credentials and the headers. *)

\* base + path parses: the base when it is given, the token put in the path.
PushoverURL(c) == c["base_url"] # "bad"
TelegramURL(c) == c["base_url"] # "bad" /\ c["bot_token"] # "bad"

\* len(plaintext) > MaxPlaintextSize is refused, and so are bad keys.
\* Mutant: the length is not looked at.
EncryptsAnySize(c, t) == c["p256dh"] = "ok" /\ c["auth"] = "ok"
encryptAES128GCM(c, t) == t.size <= MaxPlaintextSize /\ c["p256dh"] = "ok" /\ c["auth"] = "ok"

\* The salt, the record size, the key's length and the key; the plaintext; the
\* delimiter and the tag.
RecordLength(t) == (16 + 4 + 1 + 65) + t.size + 1 + 16

Addressed(p, c, t) ==
  CASE p = "pushover" -> PushoverURL(c)
    [] p = "telegram" -> TelegramURL(c)
    [] p = "webpush"  -> encryptAES128GCM(c, t) /\ c["endpoint"] # "bad"
    [] OTHER -> TRUE

\* What Send writes over the template's own keys.
Credentials(p) == [key \in Provider[p].sets |-> "config"]

\* Mutant: what the template wrote is kept.
AttachIfMissing ==
  /\ stage = "attach"
  /\ UNCHANGED result
  /\ payload' = [payload EXCEPT !.fields = Assigned(Credentials(provider), @)] /\ stage' = "dispatch"
  /\ UNCHANGED <<provider, config, cfg, built, selected, data, text, sent>>
Attach ==
  /\ stage = "attach"
  /\ IF ~Addressed(provider, cfg, text)
     THEN stage' = "done" /\ result' = "address" /\ UNCHANGED payload
     ELSE /\ IF Provider[provider].sets = {} THEN stage' = "dispatch" /\ UNCHANGED payload
             ELSE Write(Credentials(provider), "dispatch")
          /\ UNCHANGED result
  /\ UNCHANGED <<provider, config, cfg, built, selected, data, text, sent>>

Headers(p, c) ==
  CASE p = "gotify" -> {"content-type", "user-agent"} \cup (IF Given(c, "token") THEN {"x-gotify-key"} ELSE {})
    [] p = "ntfy"   -> {"content-type", "user-agent"} \cup (IF Given(c, "token") THEN {"authorization"} ELSE {})
    [] p = "webpush" -> {"content-type", "content-encoding", "authorization", "ttl"}
                          \cup {key \in {"urgency", "topic"} : Given(c, key)}
    [] OTHER -> {"content-type", "user-agent"}

\* Mutant: the last name is forgotten.
sanitizeNoTopic(headers) ==
  headers \cap {"content-type", "user-agent", "x-request-id", "x-gotify-key", "authorization",
                "content-encoding", "ttl", "urgency"}
sanitizeOutboundHeaders(headers) ==
  headers \cap {"content-type", "user-agent", "x-request-id", "x-gotify-key", "authorization",
                "content-encoding", "ttl", "urgency", "topic"}

\* Gotify, ntfy, webhook and webpush send the rendered text, not the payload.
\* Mutant: everybody re-encodes what was decoded.
BodyReencoded(p) == payload.fields
Body(p) == IF Provider[p].raw THEN text.fields ELSE payload.fields

\* One wrapper.Send, whose error Send wraps and returns.
Dispatch(outcome) ==
  /\ stage = "dispatch"
  /\ sent' = {[fields |-> Body(provider), headers |-> sanitizeOutboundHeaders(Headers(provider, cfg))]}
  /\ stage' = "done"
  /\ result' = IF outcome = "nil" THEN "ok" ELSE "transport"
  /\ UNCHANGED <<provider, config, cfg, built, selected, data, text, payload>>
-----------------------------------------------------------------------------
Next ==
  \/ NewClient
  \/ CheckConfig
  \/ \E selector \in {"minimal", "detailed", "custom"}, custom \in {"", "template"}, failed \in BOOLEAN :
        RenderText(selector, custom, failed)
  \/ Decode
  \/ Normalize
  \/ Attach
  \/ \E outcome \in {"nil", "error"} : Dispatch(outcome)

Spec == Init /\ [][Next]_vars
-----------------------------------------------------------------------------
(* Properties. *)

\* What each service needs to find in a request, whichever template made it.
Needed ==
  [discord  |-> {{"content", "embeds"}},
   slack    |-> {{"text", "blocks"}},
   telegram |-> {{"text"}, {"chat_id"}},
   pushover |-> {{"message"}, {"token"}, {"user"}},
   gotify   |-> {{"message"}},
   ntfy     |-> {{"message"}},
   webhook  |-> {},
   webpush  |-> {}]

\* Nothing is dispatched that the service must refuse for a missing field, after
\* any template, fallback and credential step.
ServiceFieldsSent ==
  \A r \in sent : \A choice \in Needed[provider] : choice \cap DOMAIN r.fields # {}

\* The token, user and chat_id of the config reach the service even when the
\* template writes keys of the same names.
ConfiguredCredentialsWin ==
  \A r \in sent : \A key \in DOMAIN Credentials(provider) :
    key \in DOMAIN r.fields /\ r.fields[key] = "config"

\* A template's own keys are neither dropped nor changed on the way, but for
\* the credentials and for numbers a float64 rounds; the four providers that
\* send the rendered text keep even those. (Keys written twice and text that is
\* not UTF-8, which decoding merges and mends, are outside the abstraction.)
TemplateKeysSurvive ==
  \A r \in sent : \A key \in DOMAIN text.fields \ DOMAIN Credentials(provider) :
    /\ key \in DOMAIN r.fields
    /\ r.fields[key] # text.fields[key] =>
         text.fields[key] = "huge" /\ ~Provider[provider].raw

\* The wrapper's allowlist (wrapper.go:337-347) lets through every header a
\* provider relies on. It holds of the nine names of the code: README.md:147-148
\* knows five of them, with which Web Push would not work.
HeadersReachTheWire == \A r \in sent : Headers(provider, cfg) \subseteq r.headers

\* The two built-in templates do for every provider: once the config passes and
\* Render returns, the payload is refused only if the host's Data does not
\* marshal or holds a number that only webhook, which looks at the syntax,
\* lets pass. (Web Push's length limit is another error.)
BuiltInsAlwaysFit ==
  selected \in {"minimal", "detailed"} /\ result = "payload" =>
    /\ selected = "detailed"
    /\ data = "unmarshalable" \/ (data = "outOfRange" /\ provider # "webhook")

\* A built-in template's payload is sent whole or not at all: Data that
\* json.Marshal refused, an error toJSON drops, stops the Send of every
\* provider, and what is sent has every key of its template. (A custom template
\* may put it where nothing is good JSON, as in [{{toJSON .Data}}].)
HalfBuiltNeverSent ==
  \A r \in sent :
    /\ selected \in {"minimal", "detailed"} => TemplateData \subseteq DOMAIN r.fields
    /\ selected = "detailed" => data # "unmarshalable" /\ "data" \in DOMAIN r.fields

\* No text a template can render, null included, makes Send write to a nil map.
NoPanic == stage # "panic"

\* A custom template RenderPreview refuses is dispatched by no provider but
\* webhook, which looks at the syntax only.
PreviewIsNecessary == sent # {} /\ provider # "webhook" => RenderPreview(text)

\* A Web Push body fits the one record its header announces.
FitsOneRecord == sent # {} /\ provider = "webpush" => RecordLength(text) <= recordSize
-----------------------------------------------------------------------------
(* The inductive strengthening, stage by stage.                            *)

\* The request has been handed to wrapper.Send or is on its way there.
Decoded    == stage \in {"normalize", "attach", "dispatch"} \/ sent # {}
Normalized == stage \in {"attach", "dispatch"} \/ sent # {}
Attached   == stage = "dispatch" \/ sent # {}

\* Whose text it is, until it is refused ...
TextInv ==
  /\ text.size \in Nat /\ (text.kind # "object" => DOMAIN text.fields = {})
  /\ stage = "decode" \/ Decoded =>
       /\ selected = "minimal" => text \in MinimalTemplate
       /\ selected = "detailed" => text \in DetailedTemplate(data)

\* ... what is known of the payload after each step: a nil map is never
\* written to, because whoever writes needs a field that null has not ...
PayloadInv ==
  /\ payload = [nil |-> payload.nil, fields |-> payload.fields]
  /\ Decoded => Decodes(provider, text)
  /\ stage = "normalize" =>
       payload = [nil    |-> text.kind # "object",
                  fields |-> [key \in DOMAIN text.fields |-> Float(text.fields[key])]]
  /\ Normalized =>
       /\ payload.nil => Provider[provider].sets = {}
       /\ ~Lacks(Provider[provider], DOMAIN payload.fields)
       /\ Provider[provider].raw => DOMAIN payload.fields = DOMAIN text.fields
       /\ \A key \in DOMAIN text.fields \ Provider[provider].sets :
            key \in DOMAIN payload.fields /\ payload.fields[key] = Float(text.fields[key])
  /\ Attached =>
       /\ Addressed(provider, cfg, text)
       /\ \A key \in Provider[provider].sets : key \in DOMAIN payload.fields /\ payload.fields[key] = "config"

\* ... and what Send has done when it returns.
WireInv ==
  /\ stage \notin {"done", "panic"} => result = "none" /\ sent = {}
  /\ stage = "panic" => sent = {}
  /\ stage = "done" =>
       \/ sent = {} /\ result \in {"config", "render", "payload", "address"}
       \/ /\ sent = {[fields  |-> Body(provider),
                      headers |-> sanitizeOutboundHeaders(Headers(provider, cfg))]}
          /\ result \in {"ok", "transport"}

IInv ==
  /\ provider \in DOMAIN Configs /\ data \in DataKinds
  /\ TextInv /\ PayloadInv /\ WireInv /\ BuiltInsAlwaysFit /\ NoPanic
=============================================================================
