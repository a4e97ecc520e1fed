--------------------------- MODULE Providers_proofs ---------------------------
(***************************************************************************)
(* Proofs about one Send of any HTTP provider, for any configs, any text a *)
(* custom template may render, and any limits on a Web Push record.        *)
(***************************************************************************)
EXTENDS Providers, TLAPS

\* What distinguishes the providers, as far as the proofs need it.
LEMMA Rows ==
  ASSUME NEW p \in DOMAIN Configs
  PROVE  /\ Provider[p].into = "map" \/ Provider[p].anyOf = {}
         /\ Provider[p].into = "valid" <=> p = "webhook"
         /\ Provider[p].sets # {} => Provider[p].anyOf # {} /\ ~Provider[p].raw
         /\ Provider[p].raw => Provider[p].fallback = ""
         /\ Provider[p].fallback = "" => Provider[p].anyOf \subseteq {"message"}
         /\ Provider[p].fallback # "" => Provider[p].fallback \in Provider[p].anyOf
         /\ Provider[p].anyOf \cap Provider[p].sets = {}
         /\ (TemplateData \cup {"data"}) \cap Provider[p].sets = {}
<1> USE DEF Row, TemplateData
<1>1. CASE p = "discord"
  BY <1>1 DEF Provider, Discord
<1>2. CASE p = "slack"
  BY <1>2 DEF Provider, Slack
<1>3. CASE p = "telegram"
  BY <1>3 DEF Provider, Telegram
<1>4. CASE p = "pushover"
  BY <1>4 DEF Provider, Pushover
<1>5. CASE p = "gotify"
  BY <1>5 DEF Provider, Gotify
<1>6. CASE p = "ntfy"
  BY <1>6 DEF Provider, Ntfy
<1>7. CASE p = "webhook"
  BY <1>7 DEF Provider, Webhook
<1>8. CASE p = "webpush"
  BY <1>8 DEF Provider, Webpush
<1> QED
  BY <1>1, <1>2, <1>3, <1>4, <1>5, <1>6, <1>7, <1>8, ProvidersAssumption

\* A service needs what Send looked for and what Send writes.
LEMMA NeedsMet ==
  ASSUME NEW p \in DOMAIN Configs, NEW choice \in Needed[p]
  PROVE  choice # {} /\ (choice = Provider[p].anyOf \/ \E key \in Provider[p].sets : choice = {key})
<1> USE DEF Needed, Row
<1>1. CASE p = "discord"
  BY <1>1 DEF Provider, Discord
<1>2. CASE p = "slack"
  BY <1>2 DEF Provider, Slack
<1>3. CASE p = "telegram"
  BY <1>3 DEF Provider, Telegram
<1>4. CASE p = "pushover"
  BY <1>4 DEF Provider, Pushover
<1>5. CASE p = "gotify"
  BY <1>5 DEF Provider, Gotify
<1>6. CASE p = "ntfy"
  BY <1>6 DEF Provider, Ntfy
<1>7. CASE p = "webhook"
  BY <1>7 DEF Provider, Webhook
<1>8. CASE p = "webpush"
  BY <1>8 DEF Provider, Webpush
<1> QED
  BY <1>1, <1>2, <1>3, <1>4, <1>5, <1>6, <1>7, <1>8, ProvidersAssumption

\* The allowlist holds all that any provider sends.
LEMMA Allowlisted ==
  ASSUME NEW p \in DOMAIN Configs, NEW c
  PROVE  sanitizeOutboundHeaders(Headers(p, c)) = Headers(p, c)
BY SMT DEF sanitizeOutboundHeaders, Headers, Given

LEMMA InitIInv == Init => IInv
<1> SUFFICES ASSUME Init PROVE IInv
  OBVIOUS
<1>1. TextInv
  BY SMT DEF Init, TextInv, NoText, Decoded
<1>2. PayloadInv
  BY SMT DEF Init, PayloadInv, NilMap, Decoded, Normalized, Attached
<1> QED
  BY <1>1, <1>2, SMT DEF Init, IInv, WireInv, BuiltInsAlwaysFit, NoPanic

LEMMA NewClientIInv == IInv /\ NewClient => IInv'
<1> SUFFICES ASSUME IInv, NewClient PROVE IInv'
  OBVIOUS
<1> USE DEF IInv, NewClient
<1>1. TextInv'
  BY SMT DEF TextInv, WireInv, Decoded
<1>2. PayloadInv'
  BY SMT DEF PayloadInv, WireInv, Decoded, Normalized, Attached
<1>3. WireInv'
  BY SMT DEF WireInv
<1> QED
  BY <1>1, <1>2, <1>3, SMT DEF BuiltInsAlwaysFit, NoPanic, WireInv

LEMMA CheckConfigIInv == IInv /\ CheckConfig => IInv'
<1> SUFFICES ASSUME IInv, CheckConfig PROVE IInv'
  OBVIOUS
<1> USE DEF IInv, CheckConfig
<1>1. TextInv'
  BY SMT DEF TextInv, WireInv, Decoded
<1>2. PayloadInv'
  BY SMT DEF PayloadInv, WireInv, Decoded, Normalized, Attached
<1>3. WireInv'
  BY SMT DEF WireInv
<1> QED
  BY <1>1, <1>2, <1>3, SMT DEF BuiltInsAlwaysFit, NoPanic, WireInv

\* Every text a template renders has a length, and only an object has keys.
LEMMA RenderedTexts ==
  ASSUME NEW chosen \in {"minimal", "detailed", "custom"}, NEW v, NEW t \in Rendered(chosen, v)
  PROVE  t.size \in Nat /\ (t.kind # "object" => DOMAIN t.fields = {})
<1>1. ASSUME NEW fields, t \in Objects(fields) PROVE t.size \in Nat /\ t.kind = "object"
  BY <1>1, ProvidersAssumption DEF Objects
<1>2. CASE chosen = "minimal"
  BY <1>1, <1>2 DEF Rendered, MinimalTemplate
<1>3. CASE chosen = "detailed"
  BY <1>1, <1>3, SMT DEF Rendered, DetailedTemplate, NoText
<1>4. CASE chosen = "custom"
  BY <1>4, ProvidersAssumption, SMT DEF Rendered, NoText
<1> QED
  BY <1>2, <1>3, <1>4

LEMMA RenderTextIInv ==
  ASSUME IInv, NEW selector, NEW custom, NEW failed \in BOOLEAN, RenderText(selector, custom, failed)
  PROVE  IInv'
<1> USE DEF IInv
<1> DEFINE chosen == SelectTemplate(selector, custom)
<1>1. stage = "render" /\ sent = {} /\ selected' = chosen
  BY DEF RenderText, WireInv
<1>2. UNCHANGED <<provider, config, cfg, built, data, payload, sent>>
  BY DEF RenderText
<1>3. CASE failed
  <2>1. stage' = "done" /\ result' = "render" /\ text' = text
    BY <1>3 DEF RenderText
  <2>2. TextInv' /\ WireInv' /\ PayloadInv'
    BY <1>1, <1>2, <2>1, SMT DEF TextInv, WireInv, PayloadInv, Decoded, Normalized, Attached
  <2> QED
    BY <1>1, <1>2, <2>1, <2>2, SMT DEF BuiltInsAlwaysFit, NoPanic
<1>4. CASE ~failed
  <2>1. stage' = "decode" /\ result' = result /\ text' \in Rendered(chosen, data)
    BY <1>4 DEF RenderText
  <2>2. chosen \in {"minimal", "detailed", "custom"}
    BY DEF SelectTemplate
  <2>3. TextInv'
    <3>1. text'.size \in Nat /\ (text'.kind # "object" => DOMAIN text'.fields = {})
      BY <2>1, <2>2, RenderedTexts
    <3>2. chosen = "minimal" => text' \in MinimalTemplate
      BY <2>1 DEF Rendered
    <3>3. chosen = "detailed" => text' \in DetailedTemplate(data)
      BY <2>1 DEF Rendered
    <3> QED
      BY <1>1, <1>2, <3>1, <3>2, <3>3 DEF TextInv, MinimalTemplate, DetailedTemplate
  <2>4. WireInv' /\ PayloadInv'
    BY <1>1, <1>2, <2>1, SMT DEF WireInv, PayloadInv, Decoded, Normalized, Attached
  <2> QED
    BY <1>1, <1>2, <2>1, <2>3, <2>4, SMT DEF BuiltInsAlwaysFit, NoPanic, WireInv
<1> QED
  BY <1>3, <1>4

\* The keys a built-in template's text has, if it is one.
LEMMA BuiltInKeys ==
  ASSUME NEW v, NEW t, t.kind # "invalid"
  PROVE  /\ t \in MinimalTemplate => DOMAIN t.fields = TemplateData
         /\ t \in DetailedTemplate(v) => v # "unmarshalable" /\ DOMAIN t.fields = TemplateData \cup {"data"}
<1>1. t \in MinimalTemplate => DOMAIN t.fields = TemplateData
  BY DEF MinimalTemplate, Objects
<1>2. ASSUME t \in DetailedTemplate(v)
      PROVE  v # "unmarshalable" /\ DOMAIN t.fields = TemplateData \cup {"data"}
  <2>1. toJSON(v) # "nothing"
    BY <1>2 DEF DetailedTemplate, NoText
  <2>2. t \in Objects([key \in TemplateData \cup {"data"} |-> IF key = "data" THEN toJSON(v) ELSE "plain"])
    BY <1>2, <2>1 DEF DetailedTemplate
  <2> QED
    BY <2>1, <2>2 DEF Objects, toJSON
<1> QED
  BY <1>1, <1>2

\* A payload that may be refused, though a built-in template made it.
Excused(p, s, v) == s = "detailed" /\ (v = "unmarshalable" \/ (v = "outOfRange" /\ p # "webhook"))

\* What the built-in templates render every provider can decode, and complete.
LEMMA BuiltInsDecode ==
  ASSUME NEW p \in DOMAIN Configs, NEW v \in DataKinds,
         NEW s \in {"minimal", "detailed"}, ~Excused(p, s, v),
         NEW t \in Rendered(s, v)
  PROVE  /\ Decodes(p, t) /\ t.kind = "object"
         /\ "message" \in DOMAIN t.fields /\ "priority" \notin DOMAIN t.fields
<1>1. /\ t.kind = "object"
      /\ DOMAIN t.fields \in {TemplateData, TemplateData \cup {"data"}}
      /\ p = "webhook" \/ InRange(t)
  <2>1. CASE s = "minimal"
    BY <2>1 DEF Rendered, MinimalTemplate, Objects, InRange
  <2>2. CASE s = "detailed"
    <3>1. v # "unmarshalable" /\ (v # "outOfRange" \/ p = "webhook")
      BY <2>2 DEF Excused
    <3>2. toJSON(v) = v /\ v # "nothing"
      BY <3>1 DEF toJSON, DataKinds
    <3>3. t \in Objects([key \in TemplateData \cup {"data"} |-> IF key = "data" THEN v ELSE "plain"])
      BY <2>2, <3>2 DEF Rendered, DetailedTemplate
    <3> QED
      BY <3>1, <3>3 DEF Objects, InRange
  <2> QED
    BY <2>1, <2>2
<1>2. p = "webhook" => Provider[p].into = "valid"
  BY Rows
<1> QED
  BY <1>1, <1>2 DEF Decodes, TemplateData

LEMMA DecodeIInv == IInv /\ Decode => IInv'
<1> SUFFICES ASSUME IInv, Decode PROVE IInv'
  OBVIOUS
<1> USE DEF IInv
<1>1. stage = "decode" /\ sent = {} /\ result = "none"
      /\ UNCHANGED <<provider, config, cfg, built, selected, data, text, sent>>
  BY SMT DEF Decode, WireInv
<1>2. CASE Decodes(provider, text)
  <2>1. /\ stage' = "normalize" /\ result' = result
        /\ payload' = [nil    |-> text.kind # "object",
                       fields |-> [key \in DOMAIN text.fields |-> Float(text.fields[key])]]
    BY <1>2 DEF Decode
  <2>2. TextInv'
    BY <1>1, <2>1, SMT DEF TextInv, Decoded
  <2>3. PayloadInv'
    <3>1. payload' = [nil |-> payload'.nil, fields |-> payload'.fields]
      BY <2>1
    <3>2. ~Normalized' /\ ~Attached' /\ Decodes(provider, text)'
      BY <1>1, <1>2, <2>1 DEF Normalized, Attached, Decodes, InRange
    <3> QED
      BY <1>1, <2>1, <3>1, <3>2 DEF PayloadInv
  <2> QED
    BY <1>1, <2>1, <2>2, <2>3, SMT DEF WireInv, BuiltInsAlwaysFit, NoPanic
<1>3. CASE ~Decodes(provider, text)
  <2>1. stage' = "done" /\ result' = "payload" /\ payload' = payload
    BY <1>3 DEF Decode
  <2>2. TextInv'
    BY <1>1, <2>1, SMT DEF TextInv, Decoded
  <2>3. PayloadInv'
    BY <1>1, <2>1 DEF PayloadInv, Decoded, Normalized, Attached
  <2>4. BuiltInsAlwaysFit'
    <3>1. selected \in {"minimal", "detailed"} => Excused(provider, selected, data)
      BY <1>1, <1>3, BuiltInsDecode DEF TextInv, Rendered
    <3> QED
      BY <1>1, <3>1 DEF BuiltInsAlwaysFit, Excused
  <2> QED
    BY <1>1, <2>1, <2>2, <2>3, <2>4, SMT DEF WireInv, NoPanic
<1> QED
  BY <1>2, <1>3

\* A step that refuses the payload: no built-in template may have made it.
LEMMA RefuseIInv ==
  ASSUME IInv, stage = "normalize", RefusePayload,
         UNCHANGED <<provider, config, cfg, built, selected, data, text, sent>>,
         selected \in {"minimal", "detailed"} => Excused(provider, selected, data)
  PROVE  IInv'
<1> USE DEF IInv, RefusePayload
<1>1. TextInv'
  BY SMT DEF TextInv, WireInv, Decoded
<1>2. PayloadInv'
  BY SMT DEF PayloadInv, WireInv, Decoded, Normalized, Attached
<1> QED
  BY <1>1, <1>2, SMT DEF WireInv, BuiltInsAlwaysFit, NoPanic, Excused

LEMMA NormalizeIInv == IInv /\ Normalize => IInv'
<1> SUFFICES ASSUME IInv, Normalize PROVE IInv'
  OBVIOUS
<1> USE DEF IInv
<1> DEFINE need == Provider[provider]
           have == DOMAIN payload.fields
           again == [key \in DOMAIN text.fields |-> Float(text.fields[key])]
<1>1. stage = "normalize" /\ sent = {} /\ result = "none"
      /\ UNCHANGED <<provider, config, cfg, built, selected, data, text, sent>>
  BY DEF Normalize, WireInv
<1>2. payload = [nil |-> text.kind # "object", fields |-> again] /\ Decodes(provider, text)
  BY <1>1 DEF PayloadInv, Decoded
<1>3. have = DOMAIN text.fields /\ payload.nil = (text.kind # "object") /\ payload.fields = again
  BY <1>2
<1>4. selected \in {"minimal", "detailed"} /\ ~Excused(provider, selected, data) =>
        ~Emergency(provider, payload.fields) /\ (~Lacks(need, have) \/ (need.fallback # "" /\ "message" \in have))
  <2> SUFFICES ASSUME selected \in {"minimal", "detailed"}, ~Excused(provider, selected, data)
               PROVE  ~Emergency(provider, payload.fields)
                      /\ (~Lacks(need, have) \/ (need.fallback # "" /\ "message" \in have))
    OBVIOUS
  <2>1. text \in Rendered(selected, data)
    BY <1>1 DEF TextInv, Rendered, Decoded
  <2>2. "message" \in have /\ "priority" \notin have
    BY <1>3, <2>1, BuiltInsDecode
  <2>3. Lacks(need, have) => need.fallback # ""
    <3>1. need.fallback = "" => need.anyOf \subseteq {"message"}
      BY Rows
    <3> QED
      BY <2>2, <3>1 DEF Lacks
  <2> QED
    BY <2>2, <2>3 DEF Emergency
<1>5. CASE Emergency(provider, payload.fields) \/ (Lacks(need, have) /\ (need.fallback = "" \/ "message" \notin have))
  <2>1. RefusePayload
    BY <1>5 DEF Normalize
  <2> QED
    BY <1>1, <1>4, <1>5, <2>1, RefuseIInv
<1>6. CASE ~Emergency(provider, payload.fields) /\ ~Lacks(need, have)
  <2>1. stage' = "attach" /\ payload' = payload /\ result' = result
    BY <1>6 DEF Normalize
  <2>2. payload.nil => need.sets = {}
    <3>1. payload.nil => have = {}
      BY <1>3 DEF TextInv
    <3> QED
      BY <3>1, <1>6, Rows DEF Lacks
  <2>3. PayloadInv'
    <3>1. payload' = [nil |-> payload'.nil, fields |-> payload'.fields]
      BY <1>2, <2>1
    <3>2. ~Attached' /\ Decodes(provider, text)'
      BY <1>1, <1>2, <2>1 DEF Attached, Decodes, InRange
    <3>3. ~Lacks(Provider[provider], DOMAIN payload.fields)'
      BY <1>1, <1>6, <2>1 DEF Lacks, Provider
    <3>4. (Provider[provider].raw => DOMAIN payload.fields = DOMAIN text.fields)'
      BY <1>1, <1>3, <2>1
    <3>5. (payload.nil => Provider[provider].sets = {})'
      BY <1>1, <2>1, <2>2
    <3>6. (\A key \in DOMAIN text.fields \ Provider[provider].sets :
             key \in DOMAIN payload.fields /\ payload.fields[key] = Float(text.fields[key]))'
      BY <1>1, <1>3, <2>1
    <3> QED
      BY <2>1, <3>1, <3>2, <3>3, <3>4, <3>5, <3>6 DEF PayloadInv
  <2>4. TextInv'
    BY <1>1, <2>1 DEF TextInv, Decoded
  <2> QED
    BY <1>1, <2>1, <2>3, <2>4, SMT DEF WireInv, BuiltInsAlwaysFit, NoPanic
<1>7. CASE /\ ~Emergency(provider, payload.fields) /\ Lacks(need, have)
           /\ need.fallback # "" /\ "message" \in have
  <2>1. Write([key \in {need.fallback} |-> payload.fields["message"]], "attach") /\ result' = result
    BY <1>7 DEF Normalize
  <2>2. ~payload.nil
    BY <1>3, <1>7 DEF TextInv
  <2> DEFINE filled == Assigned(payload.fields, [key \in {need.fallback} |-> payload.fields["message"]])
  <2>3. stage' = "attach" /\ payload' = [payload EXCEPT !.fields = filled]
    BY <2>1, <2>2 DEF Write
  <2>4. payload'.fields = filled /\ ~payload'.nil /\ payload' = [nil |-> payload'.nil, fields |-> payload'.fields]
    BY <1>2, <2>2, <2>3
  <2>5. DOMAIN filled = have \cup {need.fallback} /\ \A key \in have \ {need.fallback} : filled[key] = payload.fields[key]
    BY DEF Assigned
  <2>6. need.fallback \notin have
    BY <1>7, Rows DEF Lacks
  <2>7. PayloadInv'
    <3>1. ~Attached' /\ Decodes(provider, text)'
      BY <1>1, <1>2, <2>3 DEF Attached, Decodes, InRange
    <3>2. ~Lacks(Provider[provider], DOMAIN payload.fields)'
      BY <1>1, <1>7, <2>4, <2>5, Rows DEF Lacks
    <3>3. ~Provider[provider].raw'
      BY <1>1, <1>7, Rows
    <3>4. (\A key \in DOMAIN text.fields \ Provider[provider].sets :
             key \in DOMAIN payload.fields /\ payload.fields[key] = Float(text.fields[key]))'
      BY <1>1, <1>3, <2>4, <2>5, <2>6
    <3> QED
      BY <2>3, <2>4, <3>1, <3>2, <3>3, <3>4 DEF PayloadInv
  <2>8. TextInv'
    BY <1>1, <2>3 DEF TextInv, Decoded
  <2> QED
    BY <1>1, <2>1, <2>3, <2>7, <2>8, SMT DEF WireInv, BuiltInsAlwaysFit, NoPanic
<1> QED
  BY <1>5, <1>6, <1>7

LEMMA AttachIInv == IInv /\ Attach => IInv'
<1> SUFFICES ASSUME IInv, Attach PROVE IInv'
  OBVIOUS
<1> USE DEF IInv
<1> DEFINE sets == Provider[provider].sets
<1>1. stage = "attach" /\ sent = {} /\ result = "none" /\ Normalized
      /\ UNCHANGED <<provider, config, cfg, built, selected, data, text, sent>>
  BY DEF Attach, WireInv, Normalized
<1>2. TextInv'
  BY <1>1 DEF TextInv, Attach, Write, Decoded
<1>3. CASE ~Addressed(provider, cfg, text)
  <2>1. stage' = "done" /\ result' = "address" /\ payload' = payload
    BY <1>3 DEF Attach
  <2>2. PayloadInv'
    BY <1>1, <2>1 DEF PayloadInv, Decoded, Normalized, Attached
  <2> QED
    BY <1>1, <1>2, <2>1, <2>2, SMT DEF WireInv, BuiltInsAlwaysFit, NoPanic
<1>4. CASE Addressed(provider, cfg, text)
  <2> DEFINE filled == Assigned(payload.fields, Credentials(provider))
  <2>1. stage' = "dispatch" /\ result' = result
        /\ payload' = IF sets = {} THEN payload ELSE [payload EXCEPT !.fields = filled]
    BY <1>1, <1>4 DEF Attach, Write, PayloadInv
  <2>2. payload'.nil = payload.nil /\ payload' = [nil |-> payload'.nil, fields |-> payload'.fields]
    BY <2>1 DEF PayloadInv
  <2>3. /\ DOMAIN payload'.fields = DOMAIN payload.fields \cup sets
        /\ \A key \in sets : payload'.fields[key] = "config"
        /\ \A key \in DOMAIN payload.fields \ sets : payload'.fields[key] = payload.fields[key]
    <3>1. CASE sets = {}
      BY <2>1, <3>1
    <3>2. CASE sets # {}
      <4>1. payload'.fields = filled
        BY <2>1, <3>2 DEF PayloadInv
      <4> QED
        BY <4>1 DEF Assigned, Credentials
    <3> QED
      BY <3>1, <3>2
  <2>4. PayloadInv'
    <3>1. Decodes(provider, text)'
      BY <1>1 DEF PayloadInv, Decoded, Normalized, Decodes, InRange
    <3>2. (payload.nil => sets = {})'
      BY <1>1, <2>2 DEF PayloadInv
    <3>3. ~Lacks(Provider[provider], DOMAIN payload.fields)'
      BY <1>1, <2>3 DEF PayloadInv, Lacks
    <3>4. (Provider[provider].raw => DOMAIN payload.fields = DOMAIN text.fields)'
      BY <1>1, <2>3, Rows DEF PayloadInv
    <3>5. (\A key \in DOMAIN text.fields \ Provider[provider].sets :
             key \in DOMAIN payload.fields /\ payload.fields[key] = Float(text.fields[key]))'
      BY <1>1, <2>3 DEF PayloadInv
    <3>6. Addressed(provider, cfg, text)'
      BY <1>1, <1>4 DEF Addressed, PushoverURL, TelegramURL, encryptAES128GCM
    <3>7. (\A key \in Provider[provider].sets : key \in DOMAIN payload.fields /\ payload.fields[key] = "config")'
      BY <1>1, <2>3
    <3> QED
      BY <2>1, <2>2, <3>1, <3>2, <3>3, <3>4, <3>5, <3>6, <3>7 DEF PayloadInv
  <2> QED
    BY <1>1, <1>2, <2>1, <2>4, SMT DEF WireInv, BuiltInsAlwaysFit, NoPanic
<1> QED
  BY <1>3, <1>4

LEMMA DispatchIInv ==
  ASSUME IInv, NEW outcome \in {"nil", "error"}, Dispatch(outcome)
  PROVE  IInv'
<1> USE DEF IInv
<1>1. stage = "dispatch" /\ stage' = "done" /\ result \in {"none"} /\ Attached
      /\ UNCHANGED <<provider, config, cfg, built, selected, data, text, payload>>
  BY DEF Dispatch, WireInv, Attached
<1>2. TextInv'
  BY <1>1 DEF TextInv, Attached, Decoded
<1>3. PayloadInv'
  BY <1>1 DEF PayloadInv, Decoded, Normalized, Attached, Decodes, InRange, Lacks, Addressed,
              PushoverURL, TelegramURL, encryptAES128GCM
<1>4. WireInv'
  BY <1>1 DEF Dispatch, WireInv, Body, Headers, Given, sanitizeOutboundHeaders
<1> QED
  BY <1>1, <1>2, <1>3, <1>4 DEF Dispatch, BuiltInsAlwaysFit, NoPanic

LEMMA StutterIInv == IInv /\ UNCHANGED vars => IInv'
BY DEF vars, IInv, TextInv, PayloadInv, WireInv, BuiltInsAlwaysFit, NoPanic, Decoded, Normalized, Attached,
       Decodes, InRange, Lacks, Addressed, PushoverURL, TelegramURL, encryptAES128GCM,
       Body, Headers, Given, sanitizeOutboundHeaders

\* What is known of one Send at every stage, whatever the template rendered.
THEOREM Invariance == Spec => []IInv
<1>1. IInv /\ [Next]_vars => IInv'
  BY NewClientIInv, CheckConfigIInv, RenderTextIInv, DecodeIInv, NormalizeIInv, AttachIInv, DispatchIInv,
     StutterIInv DEF Next
<1> QED
  BY <1>1, InitIInv, PTL DEF Spec

\* No text, null included, makes Send write to a nil map.
THEOREM Safe == Spec => []NoPanic
<1>1. IInv => NoPanic
  BY DEF IInv
<1> QED
  BY <1>1, Invariance, PTL

\* The built-in templates do for every provider.
THEOREM BuiltInsFit == Spec => []BuiltInsAlwaysFit
<1>1. IInv => BuiltInsAlwaysFit
  BY DEF IInv
<1> QED
  BY <1>1, Invariance, PTL

\* A request that was dispatched, in full.
LEMMA Sent ==
  ASSUME IInv, NEW r \in sent
  PROVE  /\ r.fields = Body(provider) /\ r.headers = sanitizeOutboundHeaders(Headers(provider, cfg))
         /\ Decoded /\ Normalized /\ Attached
BY DEF IInv, WireInv, Decoded, Normalized, Attached

\* Whatever a service requires is in the request it gets.
THEOREM Complete == Spec => []ServiceFieldsSent
<1>1. ASSUME IInv PROVE ServiceFieldsSent
  <2> SUFFICES ASSUME NEW r \in sent, NEW choice \in Needed[provider] PROVE choice \cap DOMAIN r.fields # {}
    BY DEF ServiceFieldsSent
  <2>1. DOMAIN r.fields = DOMAIN payload.fields
    BY <1>1, Sent DEF IInv, PayloadInv, Body
  <2>2. CASE choice = Provider[provider].anyOf
    <3>1. choice # {}
      BY <1>1, NeedsMet DEF IInv
    <3> QED
      BY <1>1, <2>1, <2>2, <3>1, Sent DEF IInv, PayloadInv, Lacks
  <2>3. CASE \E key \in Provider[provider].sets : choice = {key}
    BY <1>1, <2>1, <2>3, Sent DEF IInv, PayloadInv
  <2> QED
    BY <1>1, <2>2, <2>3, NeedsMet DEF IInv
<1> QED
  BY <1>1, Invariance, PTL

\* A built-in template's payload is sent whole, or not at all.
THEOREM SentWhole == Spec => []HalfBuiltNeverSent
<1>1. ASSUME IInv PROVE HalfBuiltNeverSent
  <2> SUFFICES ASSUME NEW r \in sent
               PROVE  /\ selected \in {"minimal", "detailed"} => TemplateData \subseteq DOMAIN r.fields
                      /\ selected = "detailed" => data # "unmarshalable" /\ "data" \in DOMAIN r.fields
    BY DEF HalfBuiltNeverSent
  <2>1. text.kind # "invalid"
    BY <1>1, Sent DEF IInv, PayloadInv, Decodes
  <2>2. /\ selected \in {"minimal", "detailed"} => TemplateData \subseteq DOMAIN text.fields
        /\ selected = "detailed" => data # "unmarshalable" /\ "data" \in DOMAIN text.fields
    BY <1>1, <2>1, Sent, BuiltInKeys DEF IInv, TextInv
  <2>3. (TemplateData \cup {"data"}) \cap DOMAIN text.fields \subseteq DOMAIN r.fields
    <3>1. DOMAIN r.fields \in {DOMAIN text.fields, DOMAIN payload.fields}
      BY <1>1, Sent DEF Body
    <3>2. (TemplateData \cup {"data"}) \cap DOMAIN text.fields \subseteq DOMAIN payload.fields
      BY <1>1, Sent, Rows DEF IInv, PayloadInv
    <3> QED
      BY <3>1, <3>2
  <2> QED
    BY <2>2, <2>3
<1> QED
  BY <1>1, Invariance, PTL

\* A template cannot replace the configured token, user or chat.
THEOREM CredentialsWin == Spec => []ConfiguredCredentialsWin
<1>1. ASSUME IInv PROVE ConfiguredCredentialsWin
  <2> SUFFICES ASSUME NEW r \in sent, NEW key \in Provider[provider].sets
               PROVE  key \in DOMAIN r.fields /\ r.fields[key] = "config"
    BY DEF ConfiguredCredentialsWin, Credentials
  <2>1. r.fields = payload.fields
    BY <1>1, Sent, Rows DEF IInv, Body
  <2> QED
    BY <1>1, <2>1, Sent DEF IInv, PayloadInv
<1> QED
  BY <1>1, Invariance, PTL

\* What the template wrote reaches the service, long numbers rounded by those
\* that re-encode it.
THEOREM KeysSurvive == Spec => []TemplateKeysSurvive
<1>1. ASSUME IInv PROVE TemplateKeysSurvive
  <2> SUFFICES ASSUME NEW r \in sent, NEW key \in DOMAIN text.fields \ Provider[provider].sets
               PROVE  /\ key \in DOMAIN r.fields
                      /\ r.fields[key] # text.fields[key] => text.fields[key] = "huge" /\ ~Provider[provider].raw
    BY DEF TemplateKeysSurvive, Credentials
  <2>1. CASE Provider[provider].raw
    BY <1>1, <2>1, Sent DEF Body
  <2>2. CASE ~Provider[provider].raw
    <3>1. r.fields = payload.fields
      BY <1>1, <2>2, Sent DEF Body
    <3>2. key \in DOMAIN payload.fields /\ payload.fields[key] = Float(text.fields[key])
      BY <1>1, Sent DEF IInv, PayloadInv
    <3> QED
      BY <2>2, <3>1, <3>2 DEF Float
  <2> QED
    BY <2>1, <2>2
<1> QED
  BY <1>1, Invariance, PTL

\* No header that a provider relies on is stripped.
THEOREM HeadersKept == Spec => []HeadersReachTheWire
<1>1. ASSUME IInv PROVE HeadersReachTheWire
  BY <1>1, Sent, Allowlisted DEF IInv, HeadersReachTheWire
<1> QED
  BY <1>1, Invariance, PTL

\* What RenderPreview refuses, no provider but webhook dispatches.
THEOREM PreviewNecessary == Spec => []PreviewIsNecessary
<1>1. ASSUME IInv PROVE PreviewIsNecessary
  <2> SUFFICES ASSUME sent # {}, provider # "webhook" PROVE RenderPreview(text)
    BY DEF PreviewIsNecessary
  <2>1. Decodes(provider, text)
    BY <1>1 DEF IInv, PayloadInv, Decoded
  <2>2. Provider[provider].into # "valid"
    BY <1>1, Rows DEF IInv
  <2> QED
    BY <2>1, <2>2 DEF Decodes, RenderPreview
<1> QED
  BY <1>1, Invariance, PTL

\* Where the limit on the plaintext leaves room for the 103 bytes around it, a
\* Web Push body is one record. (encrypt.go: 3800 and 4096.)
THEOREM OneRecord == ASSUME MaxPlaintextSize + 103 <= recordSize PROVE Spec => []FitsOneRecord
<1>1. ASSUME IInv PROVE FitsOneRecord
  <2> SUFFICES ASSUME sent # {}, provider = "webpush" PROVE RecordLength(text) <= recordSize
    BY DEF FitsOneRecord
  <2>1. text.size <= MaxPlaintextSize
    BY <1>1 DEF IInv, PayloadInv, Attached, Addressed, encryptAES128GCM
  <2> QED
    BY <1>1, <2>1, ProvidersAssumption DEF IInv, TextInv, RecordLength
<1> QED
  BY <1>1, Invariance, PTL
=============================================================================
