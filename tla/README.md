# A TLA+ verification of go_notify_yourself

`go_notify_yourself` is a Go library that sends notifications to chat services,
push services, webhooks and mail. This directory holds TLA+ models of it, the TLC
configurations that check them on small instances, and TLAPS proofs of the
properties that matter most, for every value of the models' constants. Paths like
`src/transport/wrapper.go` are relative to the repository's root.

## 1. The system

| Component | Source | State it keeps | Operations |
|---|---|---|---|
| Registry | `factory.go` | `registry` map behind `registryMu` (RWMutex) | `Register`, `New`, `RegisteredTypes` |
| Wrapper | `transport/wrapper.go`, `retry.go`, `client_executor.go` | none between calls but the options; per call: attempt, client, response body | `Send` |
| Redirect guard | `transport/wrapper.go:304` | `CheckRedirect` of a client the host may share | `applyRedirectGuard` |
| Backoff | `transport/wrapper.go:426`, `retry.go` | none | `waitBeforeRetry`, `defaultJitterNanos` |
| Destination policy | `transport/validate_default.go` | none (reads DNS) | `DefaultURLValidator`, `isPrivateIP` |
| Rendering | `providers/internal/render` | per call: a buffer, a channel, a goroutine, a timer | `Render`, `SelectTemplate`, `TemplateData` |
| HTTP providers | `providers/{discord,slack,telegram,pushover,gotify,ntfy,webhook,webpush}` | the `Config` | `Send`, `RenderPreview` |
| Factories | `providers/*/register.go`, `providers/internal/regconfig` | none | a `Factory` each, `StringField`, `IntField`, `StringSliceField` |
| Web Push cryptography | `providers/webpush/{encrypt,vapid}.go` | none | `encryptAES128GCM`, VAPID token |
| Email | `providers/email` | the `Config`, its recipients perhaps the host's own slice; the host's `Mailer` and `TemplateRenderer` | `Send` |
| Fan-out | the host's loop (`README.md:64-70`, `ARCHITECTURE.md:55-63`) | the list of senders | `Send` of each |

How they interact: a host imports `providers/all`, whose `init` functions call
`Register`. The host calls `New(type, config)`, which looks the factory up under the
read lock, gives the lock back, and calls the factory. A provider's `Send` checks its
config, renders the template (in a goroutine raced against a timer), decodes and
completes the payload, and hands one request to `Wrapper.Send`. That validates the
destination, takes a client from the host's factory, installs a guard in the
client's `CheckRedirect`, and runs the retry loop over `client.Do`; `Do` calls the
guard back for each redirect, and the guard calls the validator (and the resolver).
Email calls the host's Renderer and Mailer instead. Only the registry, a shared
`*http.Client`, the rendering goroutine's buffer and message, and an email Client's slice
of recipients are touched by more than one goroutine.

What is hard about it: retries meet redirects, cancellation and lost responses;
names resolve differently between the check and the use; a client may be shared by
concurrent Sends; the renderer's goroutine outlives its call after a timeout; the
registry is re-entered by factories; integers overflow in the backoff; a template,
written by a user, renders any JSON there is (or none).

What makes each part correct:

- **Wrapper**: nothing leaves for a destination that was not vetted; the requests, the
  copies the provider may get and the time are bounded; a body never stays open; the
  result says what happened; every Send returns.
- **Destination policy**: exactly the documented destinations are accepted, whatever a name
  resolves to.
- **Outbound request**: every attempt makes the same request, its whole body included; its
  headers do not depend on the order of a Go map beyond what the caller left open.
- **Redirect guard**: a Send's redirects pass its own Wrapper's checks.
- **Backoff**: where nothing overflows, the sleeps are the documented delays and less than half
  as much again; where something does, they are never too long, and jitter never panics.
- **Registry**: no access races with a write; a name is bound once and for good; every call
  answers what the map calls for at one instant of it; no deadlock, re-entrant factories included.
- **Rendering**: a returned text is complete; buffer and message are not shared after
  the return (but for the timeout); Render returns; a goroutine ends if its template does.
- **Providers**: what is dispatched has what the service requires, with the
  configured credentials; a built-in template's payload is sent whole or not at all; no
  rendering can panic.
- **Web Push**: a token outlives the Send it was signed for; the configured TTL is sent.
- **Email**: every mail goes to the configured recipients; no control character reaches a subject.
- **Fan-out**: every destination returns; a nil error of an HTTP destination means that the whole
  text was dispatched and the provider took it, or that a redirect was followed with a GET or
  taken for the answer (`wrapper.go:223-234`); a nil error of email means that the Mailer
  accepted one mail.

## 2. The modules

| Module | Models | Checked by | Proved in |
|---|---|---|---|
| `Delivery` | abstract contract of one Send: copies, attempts, detours by redirects, result | as `Implements` | `Wrapper_proofs` |
| `Wrapper` | `Wrapper.Send` with network, provider, redirects, resolver, cancellation | `MCWrapper` | `Wrapper_proofs` |
| `UrlPolicy` | net.IP's predicates, the CIDR table, `isPrivateIP`; beside them the ranges the comments name | `MCPrepare` | `Prepare_proofs` |
| `Prepare` | `validateDestination`, `DefaultURLValidator`, the headers, each attempt's request | `MCPrepare` | `Prepare_proofs` |
| `RedirectGuard` | `applyRedirectGuard` on shared clients | `MCRedirectGuard` | `RedirectGuard_proofs` |
| `Backoff` | the delays and the jitter, on a fixed-width integer | `MCWebpushSend` | `Webpush_proofs` |
| `WebpushSend` | extends `Backoff`: the VAPID token through attempts and sleeps, the TTL | `MCWebpushSend` | `Webpush_proofs` |
| `WriteOnceMap` | abstract registry: each call atomic and answered from the map, keys bound once | as `Linearizable` | `Registry_proofs` |
| `Registry` | the registry and its RWMutex | `MCRegistry` | `Registry_proofs` |
| `Render` | `Render`'s caller, goroutine, channel and timer | `MCFanout` | `Render_proofs` |
| `Outbox` | abstract contract of email's Sends: one mail, recipients fixed once, what nil means | as `OneMailAsComposed` | `Fanout_proofs` |
| `Email` | email's Sends on one Client, Renderer, Mailer, the host's list | `MCFanout` | `Fanout_proofs` |
| `Fanout` | composes `Render`, `Delivery` (as the dispatch) and `Email` | `MCFanout` | `Fanout_proofs` |
| `Providers` | the eight HTTP providers' pipeline, from config to dispatch | `MCProviders` | `Providers_proofs` |

Some definitions stand beside variants under a comment that begins with "Mutant": plausible
bugs of that definition. Nothing uses them; with one in the definition's place the
property it is meant for fails, which shows that the property can.

### Wrapper

One member of `Sends` is one call. `pc` follows the code: `idle` (before line 167),
`send` (`client.Do` has a request to make), `error` (`doErr != nil`, line 200), `body`
(line 209), `wait` (`waitBeforeRetry`) and `done`.

| Action | Code |
|---|---|
| `Reject` | lines 168-175: oversized body, bad destination; also a loop that runs no attempt (184, 242) |
| `Begin` | lines 172-184: validated, client built, guard installed, attempt 1 |
| `Answer`, `Lose`, `Follow`, `UseLast`, `RefuseRedirect`, `Abort` | one request of `client.Do`: answered, lost, redirected (guard and policy consulted), refused, cancelled before it left |
| `HandleError` | lines 200-207 |
| `ReadBody` | lines 209-234: capped read, Close, the retry decision, the status |
| `Retry` | line 442 and the top of the loop |
| `Cancel`, `Rebind` | the caller's context; a host's addresses change |

A URL is a host, a path that is plain or holds percent-escapes, and at most one flaw
that a check looks for. The network may lose a request before or after the provider
took the message (`Lose(s, FALSE)`, `Lose(s, TRUE)`); a 2xx to a POST means taken, a 429
or a 3xx means not taken, other statuses either. A server that redirects is assumed
not to take the message itself. `http.Client` is modelled from how the code
uses it: CheckRedirect is called with the requests made so far, `ErrUseLastResponse`
returns the 3xx, a 301/302/303 turns the POST into a GET, 307/308 keep it. A nil `ctx`, for
which `NewRequestWithContext` fails, is a misuse left out.
`accepted` is the resolver's verdict, which changes for all hosts not in `Stable`;
`seen` records what was accepted at some moment of the Send.
The history variables `sent`, `requests`, `copies`, `taken`, `seen` feed no guard.

### UrlPolicy and Prepare

An address is a sequence of 4 or 16 bytes, as a `net.IP` is; `To4`, `Contains` and the
predicates of `net.IP` work on bytes and masks, while the policy (`Public`, `Loopback`) is
stated a second time, as intervals of addresses, from the comments of
`validate_default.go:20-44` and `:96-114`. `Prepare` is one call of Send up to its
requests: `RefuseUrl`, `CheckLiteral`, `LookupIP` and `CheckResolved` (the lookup is a
step of its own, and its answer any of `Answers`), `OwnValidator` for a host's own
validator, which may return any URL, then `SanitizeHeader`, one turn of the range over the
map in any order, and `BuildRequest`, once per attempt, with a `bytes.Reader` of its own over the one
`Body`, of which `WriteBody` (the client) writes any part before the attempt ends. Texts are plain values; `Lower` and
`TrimSpace` are constants whose values the instance gives. A host name is what is between
the brackets or before the port. A path is empty, plain or holds percent-escapes, and `buildSafeRequestURL` escapes
those a second time. The body's size, the redirects and the answers are in `Wrapper`.

### RedirectGuard

The guard is a plain read (`Load`) and a plain write (`Store`) of
`client.CheckRedirect`, and each Send wraps whatever it found. `checks[c]` is the chain
of guards, as the Wrappers they belong to. `raced` is history: two installations on the
client overlapped. The data race is modelled by the interleavings of whole reads and
writes; a torn function value is not among the outcomes of a Go build, since a func is
one word.

### Backoff

`Width` is the number of bits of a `time.Duration`, so that every policy of a small
width can be tried. Shift, wrap-around, truncating division and `time.Sleep` of a
non-positive duration are as Go defines them; `RandInt` is `crypto/rand.Int`, which panics on a
bound that is not positive. The history variables `due` and `documented` are the delay that the
comment of `RetryPolicy` gives, by doubling and capping, and the sum of these.

### WebpushSend

The clock around `Backoff`. `Sign` is `buildVAPIDHeader`, whose `exp` is in whole
seconds; `Prepare` and each `Attempt` may take up to `Timeout` (validation with its
lookup; `client.Do` with the default client's timeout), and each `Retry` takes as long as it
sleeps. `Idle` is the time between `New` and `Send`. `IntField` maps each type of config
value to the int it may come out as; a float64 is given in halves, so that a fraction exists,
and one outside the int range has the two outcomes that Go's compilers produce.

### Registry

The RWMutex is modelled as `sync` implements it: a writer first shuts out later readers
(`LockBegin`), then drains the present ones (`LockDrain`), and admits at `Unlock` the
readers that queued (`parked`). Each step of Register, New and RegisteredTypes that
touches lock or map is an action; the range over the map takes one key at a time, in
any order (`Collect`). A factory may itself ask for the list (`Reentrant`).
`WriteOnceMap` has none of this. Each of its calls keeps the key and the Factory it was given,
and its actions are guarded by what the map holds when they happen: `Put` needs a free name, `Panic`
a taken one, no Factory or a blank name, `Get` finds what is bound, `Miss` happens only if nothing is.

### Render

The caller (`Refuse`, `Start`, `Receive`, `TimeOut`, `ReturnText`), the goroutine (`Write`,
`Executed`, `Report`) and the timer (`Expire`). `Capacity` is the channel's buffer.
`endless` marks a template that never ends, chosen at the start. The select takes either
case when both are ready.

### Email

One Client and several calls of Send on it. `recipients` is the array that
`cfg.Recipients` points to: for a `[]string` it is the host's own, which `HostEdits` may
overwrite once; a `[]any` was copied. `Compose` is `email.go:67-84`, `RenderBody` 86-99,
`MailerSend` 101-107. A text is a sequence of characters of which the kind is known:
control, blank or other, with a line feed both and NEL a blank that is no ASCII control.
`SubjectPrefix` and the HTML are left out: a body is the template it was made with and the title.
`Box` shows the Client as an `Outbox`, which knows no texts and no rendering: a Send fixes its
recipients once, to the configured list unless the host has by then written to one it lent, hands
the Mailer at most one mail, to these recipients, and says nil only if that was accepted. Where the
host writes while `Compose` reads, the list counts as written to, so nothing is claimed of what is read.

### Fanout

Each member of `Renders` is one HTTP provider's Send: config check, `Render`'s steps,
then `Dispatch`, after which the abstract `Delivery` stands for `Wrapper.Send`, which is
shown to implement it (`Implements`, `Refinement`). Each member of `Mails` is an email
Send. In mode `loop` the host makes one call at a time, in any order; in mode `parallel` it
starts a goroutine for each.

### Providers

The eight `Send` functions run one pipeline - config check, render, decode, complete
the fields, attach credentials, dispatch - and differ in a `Row`: what the text is
decoded into, which fields the service needs, where `message` is copied when they are
missing, what is written over the template's keys, and whether the rendered text or the
re-encoded payload is sent. JSON is abstracted to its kind, its length, its keys, and for a number
whether it is 2, one with more digits than a float64 keeps, or out of a float64's range. A built-in
template renders a text of any of `BuiltInSizes`, since body, title and `Data` are as long as the
host makes them; `data` is the worst value in `Data`, which may be one that `json.Marshal` refuses, or
a `json.Number` like 1e999 that it writes and only `json.Unmarshal` refuses. Config
values are the cases the code tells apart (absent, not a string, empty, blank, good, malformed,
and two spellings of a Discord URL). `Dispatch` is one `Wrapper.Send`, either of whose
outcomes may happen; `Wrapper` says what is behind them.

## 3. What TLC checks

| Run | Distinct states | What it asks |
|---|---|---|
| `send` | 91,454 | All of one Send's safety properties, `NoResendAfterAnswer`, `Terminates`, and `Implements`: it implements `Delivery`, whatever redirects there are |
| `prepare` | 509,980 | `VerdictIsPolicy` over URLs and resolver answers, `HeadersFaithful`, `AttemptsAgree` |
| `webpush` | 3,512,014 | `SleepBounded`, `NoRandPanic`, `TokenOutlivesRetries`, `TTLHonoured` |
| `fanout` | 368,880 | One HTTP destination and two mails: rendering, delivery, recipients, subjects, `EveryDestinationReturns`, `NoGoroutineLeak`, and `OneMailAsComposed`: email implements `Outbox` |
| `registry` | 134,180 | `NoMapRace`, `OneWinner`, `AllReturn` (no deadlock or starvation), and `Linearizable`: Registry implements `WriteOnceMap` |
| `redirect_guard` | 19,928 | Three Sends of two Wrappers on two clients |
| `providers` | 173,232 | All eight providers |

The inductive invariants of the proofs (`IInv` of each module, `EffectInv` of `Registry`,
`ResolvedInv` of `Prepare`, `FanInv`, `BoxInv`, `SendInv`) were
checked with TLC on the same instances before they were proved; a configuration needs only
their name under INVARIANTS to repeat that.

Bounds and why they are enough:

- `send`: two hosts, one with changing addresses; four URLs, two of them flawed, so that each
  step of the checks decides something; MaxAttempts -1 (misuse), 1 and 3 (the default), so
  that there is a first, a middle and a last attempt; RedirectLimit 3 in place of Go's 10,
  because only "below, at, above" matter; HopBound equal to it, so it cuts nothing off for a
  client with a policy. Redirects of every kind occur: followed with the method or without, refused, and
  returned. The calls of Send share no state but the resolver, which no step of the contract looks at, so
  one call suffices, for the refinement too; `Refinement` is of any number.
- `registry`: two Registers that may pick the same or different names in either spelling, one
  New, one RegisteredTypes, a re-entrant factory: a waiting writer behind a reader, a reader
  behind a waiting writer, and two writers all occur. The proofs cover any number.
- `prepare`: the first and last address of every reserved range and its neighbours outside, IPv4 in 4 and
  in 16 bytes, as a literal, alone or beside a public address on either side: a mask or a
  comparison that is wrong is wrong at one of them. Headers: every map of at most two of five
  spellings of three names, with blank values, because two names are enough to collide. A body of
  two pieces, so that an attempt can end between them.
- `webpush`: 7 bits hold 63. With five attempts the last shift is by three, so a BaseDelay of 12
  overflows before the fourth retry (96), one of 20 before the third and one of 40 before the second, to
  negative delays and to small ones; a MaxDelay of 63 overflows when jitter is added. So there are policies on
  both sides of `Fits` and of `CapFits`. A second has two ticks, so that `Unix()` can drop one; a
  lifetime of 96 lies between what the shortest and the longest policies take, so `Enough`
  holds of some and fails of others.
- `fanout`: a rendering of two pieces, so that a partial one exists; two mails, so that one can
  spoil the list of the other; lists of two with a blank item, an item to be trimmed, one
  that is no string; titles whose ends become blank once control characters are gone. The
  rendering calls share nothing, so one stands for all; the proofs cover any number.
- `redirect_guard`: two Sends of one Wrapper and one of another is the least that has both
  an equal-owner and a mixed race.
- `providers`: configs with at most one key that is not good (checks are conjunctions, so the pairs
  add nothing), texts with every choice of up to three of the eight relevant keys, and the
  non-objects; built-in texts that are short, at Web Push's limit and one byte past it.

`CHECK_DEADLOCK FALSE` in every configuration: each model ends when all its calls have
returned. That no call is stuck is what `Terminates`, `AllReturn` and `EveryDestinationReturns` say.

Fairness. `Wrapper`: weak fairness of a call's own step, because the client has a timeout
(10 s by default, `wrapper.go:128`) after which `Do` fails, and a sleep ends; a host
that supplies a client without a timeout gives it up. Cancelling, redirecting
and changing DNS are under no fairness of their own. `Registry`: the Go scheduler runs every goroutine that can run; the
mutex needs no fairness beyond that, since its queue is modelled. `Fanout`: the caller's and the rendering
goroutine are scheduled and the timer fires; no fairness makes an endless template end.
`Wrapper.Send` returns, which is `Terminates`; that the host's Renderer and Mailer return is
assumed, for email has no timer of its own.

### Where the code differs from its documentation

Five runs expect a violation; each checks one sentence of the repository.

- `policy_lost`: the guard "preserves any existing policy", but a client without a
  CheckRedirect had Go's limit of ten redirects and loses it.
- `cancel_ignored`: after the context is done, Send sleeps and begins further attempts.
- `escaped_twice`: a path with percent-escapes is escaped a second time
  (`Path: EscapedPath()` with no `RawPath`), so the request goes elsewhere.
- `guard_race`: two Wrappers sharing a client can lose a guard, and a redirect is followed that
  the Send's own Wrapper does not accept.
- `headers`: `README.md:147-148` lists five headers that the wrapper lets through and says that anything else
  is silently dropped; the allowlist has nine names (`wrapper.go:337-347`), and Web Push sends all of the
  other four.

Further divergences met while modelling, each visible in the model and not a run of its own:

- The factories check only `transport` (email's: `mailer`); a config without a URL or token
  yields a client whose Send fails, where `regconfig.go:8-11` leaves it to them to return an error
  "at that point".
- A ttl of 0.5 from a JSON config is truncated to 0 and so becomes `DefaultTTL`; a negative one
  is sent as it is (`regconfig.go:51`, `webpush.go:236`). `TTLHonoured` speaks of whole numbers.
- A `[]string` of recipients stays the host's slice (`regconfig.go:73`): a later write to it
  changes who gets mail. A `[]any` is copied. `lent` of `Outbox` is the exception.
- `isLocalDestinationHost` accepts `localhost` in any case, and with `allowHTTP` a name "localhost" that
  resolves to a public address is accepted like any other.
- `sanitizeTransportErrorReason` looks for words in an error text that contains the URL, so a URL with
  "tls" or "timeout" in it gets the wrong reason (`wrapper.go:365`).
- A redirect the guard refuses is retried, though it is no network failure: `shouldRetry`
  holds of every error of `client.Do` (`retry.go:37`).
- A 429 or 5xx whose body cannot be read, or is too large, is not retried (`wrapper.go:211`).
- `Result.Attempts` counts attempts; a followed redirect is a request it leaves out (`wrapper.go:62`).
  For the same reason `MaxAttempts` is not "the total number of HTTP requests" (`retry.go:16-17`):
  `RequestBudget` allows `RedirectLimit` of them per attempt.
- A 3xx that is not followed, and the 2xx to the GET after a 301/302/303, count as success
  (`wrapper.go:223`), where `ARCHITECTURE.md:48-49` has a non-2xx response always be an error.
  `SuccessIsBacked`, `Delivery` and `NilMeansDelivered` name exactly these two exceptions.
- "Each subsequent retry doubles the previous delay (capped at MaxDelay)" (`retry.go:20-21`), but
  `BaseDelay << (attempt - 1)` is not checked for overflow (`wrapper.go:427`): past the top bit the delay is
  negative or zero, the cap does not apply, and Send retries without a pause. On 64 bits it takes about 35
  attempts from a BaseDelay of a second and 23 from one of an hour. `Fits` is the condition under which
  it cannot happen; without it `SleepBounded` only says that no sleep is too long.
- Discord's `ValidateWebhookURL` accepts the `discord://` shorthand, which every `Send` refuses
  (`discord.go:123`).
- `RenderPreview` refuses a number no float64 holds, which webhook's `Send` dispatches
  (`webhook/preview.go:27`); `PreviewIsNecessary` leaves webhook out for that reason. The same number
  in `Data`, as a `json.Number`, makes the "detailed" template fail everywhere but there
  (`BuiltInsAlwaysFit`).
- `toJSON` drops the error of `json.Marshal` (`render.go:52`). `HalfBuiltNeverSent` shows that with a built-in
  template no provider sends the result; a custom template that says `[{{toJSON .Data}}]` does.
- A Send whose policy outlasts the token's lifetime goes on with an expired token (`webpush.go:231`):
  `TokenOutlivesRetries` speaks of policies under which a whole Send fits.

## 4. What is proved

All proofs are for every value of the constants: any number of calls, hosts, URLs, names,
clients and Wrappers, any retry policy. The only assumptions are the named ASSUMEs of the
modules (types of the constants, and that distinguished values differ), which TLC evaluates
on the instances; `PowerAssumption` of `Backoff` states plain arithmetic of powers of two, for
which the provers have no theory.

**Wrapper** (`Wrapper_proofs`). The invariants are not inductive by themselves: that an error
blames an exhausted policy needs `attempt <= limit`; that copies are bounded needs that an
attempt which has not been taken left a copy unspent; that requests are bounded needs what one
`Do` has made so far and that a request is only pending below the limit; that destinations are vetted needs
that the pending request, and the one the next attempt starts with, were. `CallInv` says this for one call, `IInv` joins it to the
type invariant. There is one lemma per action (`AnswerIInv`, ... `RebindIInv`), a lemma `Frame`
that carries the invariant of the calls a step leaves alone, and `NextIInv` joins them. From
`Invariance` follow `Vetted`, `Budget`, `NoBodyLeak`, `Exhaustive`, `BoundedDuplicates`,
`Backed` and the action property `NoResend`.

**The contract** (`Wrapper_proofs`). `Refinement`: Spec implements `Delivery!Spec`, for every kind of
redirect. `detoured` of the contract is that the attempt's request has become a GET or that its answer is a
3xx. `LastInv` says that such an answer is the last, so that no retry begins with it. Each action maps to one
abstract step (`TakesOne`, `Detours`, `Ends`) or to a stutter (`Invisible`); `Straight` and `Replied` say which
answers detour a call. The contract's guards are what the proof has to show of the code: a copy is taken
only in an attempt that was neither taken nor detoured, and success follows only one that was either.

**Registry** (`Registry_proofs`). `LockInv` ties each line of the code to who holds the RWMutex,
`MapInv` and three of the properties tie the map to the outcomes. From them: race freedom, unique winner, snapshots,
stability of what New found, and that no returned call or running factory holds the lock.
`Linearization` shows that Registry implements `WriteOnceMap`. A Register takes effect where it
stores or panics, a New where it reads the map, before it has given the lock back, and a list
where its range over the map is over; the mapping (`asked`, `reply`, `listing`) is put together from
the arguments, `outcome`, `found` and `names` accordingly. The guards of `WriteOnceMap` are what has to be
shown at these moments: a Register that panics under the lock saw its own key taken, a New that answers
"unknown" has just read an unbound key, and one that found something found what is bound. All other steps, the mutex's among them, are
stutters (`Silent`). That a list is the whole map at its moment is `ListIsSnapshot`; that no
call answers before its effect needs `EffectInv`.

**Render** (`Render_proofs`). `CallInv` ties the caller's, the goroutine's and the channel's
states together; from it completeness, race freedom and release of the message.

**Prepare** (`Prepare_proofs`). `HeaderInv` ties the map built so far to the names already
visited: its domain is what they normalise to, and each value was given under one of those
names. `WireInv` says that every request built is the one that would be built now, which holds because
nothing is built before the range is over, and whose body is whole, because each has a reader
that nothing was read from. From them `SameRequest` and `Headers`.

**The destination policy** (`Prepare_proofs`). `Policy`: for every address of 4 or 16 bytes, not
only the edges that TLC tries, the predicates of `net.IP` and the masked comparisons of the
table accept what the intervals stated from the comments accept. The masks and the
intervals are both cut at a byte: an address is in a block when its whole bytes are the
prefix's and the cut byte lies in a range (`ContainsCut`); it is between the first and the last
address of a range under the same condition (`Interval`, which rests on where two addresses first
differ). IPv4 in 16 bytes is carried over to its 4 bytes (`MappedBytes`), and the two
families do not meet. `Verdicts` lifts this to the property of the steps: each verdict of
`DefaultURLValidator`, for every URL and every answer of the resolver, is the policy's. It needs
`ResolvedInv`: an answer that is checked was given to this call, for a URL that had passed the
checks before the lookup.

**Providers** (`Providers_proofs`). The properties speak of what was dispatched, so the invariant
has to carry what each stage established to the last one. `TextInv`: a text whose template was a built-in one
is among what that renders, until it is refused. `PayloadInv`: once decoded, the text is one the provider's decoder
takes; once completed, the required fields are there and a null payload is never written to; once
attached, the configured credentials are there; what the template wrote is otherwise unchanged.
`WireInv`: the request sent is made of these, and the result is its outcome. One lemma per stage; then the nine
properties of the run, for any configs and any texts. That a body fits one record is
proved for every limit that leaves room for the 103 bytes of overhead, as 3800 of 4096 does.

**Backoff and WebpushSend** (`Webpush_proofs`). Where the last doubling fits, no shift overflows, so
the code's delay, a shift, is the documented one, a doubling of the one before; `DelayInv` carries the closed form
of the latter (`due`) and both bounds on the sum of the sleeps so far. The bound under an overflowing
shift needs only that no delay exceeds the cap and that its jitter is under half of it. `TokenInv` bounds the
clock less the sleeps by the number of timeouts a Send has come to. Together they give `TokenLives` by
arithmetic; `Bounded`, `NoPanicInJitter` and `TTLSent` go with it.

**Fanout** (`Fanout_proofs`). A step of the fan-out is a step of Render or leaves it alone
(`FanStepsRender`), so `Render_proofs` carries over. `HttpInv` adds that nothing is dispatched but the
text of a finished rendering, `MailInv` that a Send's list is the configured one from the
moment it is composed, that its title is clean from then on, that the body rendered is of that
title, and that a nil error comes with one mail. From them `Delivered`, `Recipients` and
`Subjects`. The last needs what `sanitizeForEmail` returns for a text of any length:
`PlaceExists` (the k-th kept character exists, by the least place up to which k are kept),
`StripClean` and `TrimSpaceEnds`. `strings.Map` is therefore written as a function from the
number of a kept character to it, on every short text equal to the filter that `SelectSeq` computes by recursion.

**The outbox** (`Fanout_proofs`). `Outboxes`: the fan-out implements `Outbox`, for any number of Sends,
recipients and texts. `Compose` fixes the list or refuses (`ComposeBox`), a failed rendering refuses
(`RenderBodyBox`), `MailerSend` posts (`MailerSendBox`), the host's write lends the list
(`HostEditsBox`), and all else, the HTTP destinations among it, is a stutter. Beside `MailInv` this needs
`BoxInv`: a Send that has not composed has no list, one that has composed has one that is not empty,
and its title is what the Message's sanitizes to. It says more than `Recipients`: a mail composed
before the host's write still goes to the configured list, even if it is sent after it. So the
run checks `OneMailAsComposed`, and `MailAsConfigured`, which it implies, is only proved.

**RedirectGuard** (`RedirectGuard_proofs`). `Alone` says that without a race the chain holds
the guard of each call that installed one, `Linked` that in any case it holds one of some call
on that client. From them `Guarded` and `OneOwner`. `OneLink` counts: without a race each
`Store` adds one call to those that installed a guard, and one guard to the chain.

Model-checked only: the liveness properties (`Terminates`, `AllReturn`, `EveryDestinationReturns`,
`NoGoroutineLeak`), for which the prover has no rules of fairness. Every other property of the
passing runs is also the statement of a theorem. That the intervals of `UrlPolicy` are the ranges
that the comments mean is for the reader to see: they are the specification.

## 5. What is not modelled

- Cryptography of Web Push: encryption and signing succeed or fail. The lengths and the token's
  lifetime are modelled. `GenerateVAPIDKeyPair` keeps no state.
- The wording of errors and hints (`extractProviderErrorHint`, `sanitizeTransportErrorReason`): no
  state or decision depends on it. A hint is cut at a byte, which may split a character.
- The parser of `net/url`: a URL is given as what it parses to. HTML and the text of templates.
- A `ClientFactory` that returns nil, which panics in `client.Do`.
- CI, scripts and release tooling.

## 6. Plan

Done, in this order: `Wrapper` with `Delivery`; `Registry` with `WriteOnceMap`; `Backoff`; `Render`; `Providers`;
`RedirectGuard`; the proofs of the concurrent modules and of the contract; `UrlPolicy` and `Prepare`;
`WebpushSend`; `Email` and `Fanout`; their proofs; `Outbox` and its refinement.

The proofs of `Providers`, of the address policy, of `Linearizable` and of what a mail's subject
may hold followed.

Next: `Fanout` over `Providers`' texts instead of one that is or is not a payload, so that what a
template renders decides which destinations fail.
