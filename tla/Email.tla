------------------------------- MODULE Email -------------------------------
(***************************************************************************)
(* providers/email (src/providers/email): one Client, built by New or by   *)
(* the registered factory from a config map, and its calls of Send, which  *)
(* share the Client's slice of recipients and hand what they compose to    *)
(* the host's Renderer and Mailer.  A text is a sequence of characters, of *)
(* which only the kind matters.                                            *)
(***************************************************************************)
EXTENDS Integers, Sequences, FiniteSets

CONSTANTS Mails,       \* calls of Send on the Client
          Titles,      \* Message.Title (Body is treated alike)
          Fields,      \* config["recipients"]
          Edits,       \* what the host may write over its list later
          Clients      \* the other fields of Config

Control == {"NUL", "LF"}          \* below 0x20, or 0x7F
Blank   == {"LF", "SP", "NEL"}    \* unicode.IsSpace
Char    == Control \cup Blank \cup {"a", "b"}
Text    == Seq(Char)

\* A []string, or a []any whose items need not be strings.
Item  == [isString : BOOLEAN, text : Text]
Field == [type : {"[]string", "[]any", "other"}, items : Seq(Item)]

ASSUME EmailAssumption ==
  /\ Titles \subseteq Text
  /\ Fields \subseteq Field
  /\ \A f \in Fields : f.type = "[]string" => \A i \in DOMAIN f.items : f.items[i].isString
  /\ Edits \subseteq Seq(Text)
  /\ Clients \subseteq [mailer : {"nil", "host"}, renderer : {"nil", "host"}, templateName : {"nil", "host"}]

VARIABLES
  client,      \* cfg but for the recipients
  field,       \* config["recipients"] as New or the factory found it
  recipients,  \* the strings cfg.Recipients points to
  edited,      \* the host has written to the list it passed
  message,     \* Title of the Message that is sent
  mail,        \* "idle", "render", "send" or "returned": each Send
  to,          \* its list of recipients
  title,       \* msg.Title once sanitized
  html,        \* what the body shows: the template and the title
  err,         \* its error: "none", "nil", "refused", "render" or "send"
  mailed       \* what the Mailer was given: recipients, subject, body

emailVars == <<client, field, recipients, edited, message, mail, to, title, html, err, mailed>>

\* config["recipients"] as a []string: nil if one item is no string.
StringSliceField(f) ==
  IF f.type = "other" \/ \E i \in DOMAIN f.items : ~f.items[i].isString THEN <<>>
  ELSE [i \in DOMAIN f.items |-> f.items[i].text]

EmailInit ==
  /\ client \in Clients
  /\ field \in Fields
  /\ recipients = StringSliceField(field)
  /\ edited = FALSE
  /\ message \in Titles
  /\ mail   = [e \in Mails |-> "idle"]
  /\ to     = [e \in Mails |-> <<>>]
  /\ title  = [e \in Mails |-> <<>>]
  /\ html   = [e \in Mails |-> <<>>]
  /\ err    = [e \in Mails |-> "none"]
  /\ mailed = [e \in Mails |-> <<>>]
-----------------------------------------------------------------------------
\* strings.TrimSpace: what is between the first and the last character that is
\* not blank.
TrimSpace(s) ==
  LET solid == {i \in DOMAIN s : s[i] \notin Blank}
  IN  IF solid = {} THEN <<>>
      ELSE SubSeq(s, CHOOSE i \in solid : \A j \in solid : i <= j,
                     CHOOSE i \in solid : \A j \in solid : j <= i)

\* strings.Map with -1 for a control character: the kept characters, in their
\* order, the k-th being the one up to which k are kept.
Kept(s)    == {i \in DOMAIN s : s[i] \notin Control}
UpTo(s, i) == {j \in Kept(s) : j <= i}
Strip(s)   == [k \in 1..Cardinality(Kept(s)) |->
                 s[CHOOSE i \in Kept(s) : Cardinality(UpTo(s, i)) = k]]

\* Mutant: trimmed first, then stripped.
sanitizeForEmailTrimsFirst(s) == Strip(TrimSpace(s))
sanitizeForEmail(s) == TrimSpace(Strip(s))

\* The trimmed addresses that are not blank, in their order.
Addresses(list) ==
  LET NotBlank(s) == s # <<>>
  IN  SelectSeq([i \in DOMAIN list |-> TrimSpace(list[i])], NotBlank)

\* Send returns an error, or nil.
MailReturns(e, how) ==
  /\ mail' = [mail EXCEPT ![e] = "returned"]
  /\ err'  = [err EXCEPT ![e] = how]

\* Send up to the sanitized copy of the message.
\* Mutant: the addresses are gathered in place, in the array of cfg.Recipients.
ComposeInPlace(e) ==
  /\ mail[e] = "idle"
  /\ LET list == Addresses(recipients) IN
     IF client.mailer = "nil" \/ list = <<>>
     THEN MailReturns(e, "refused") /\ UNCHANGED <<recipients, to, title>>
     ELSE /\ mail'  = [mail EXCEPT ![e] = "render"]
          /\ to'    = [to EXCEPT ![e] = list]
          /\ title' = [title EXCEPT ![e] = sanitizeForEmail(message)]
          /\ recipients' = [i \in DOMAIN recipients |-> IF i \in DOMAIN list THEN list[i] ELSE recipients[i]]
          /\ UNCHANGED err
  /\ UNCHANGED <<client, field, edited, message, html, mailed>>
Compose(e) ==
  /\ mail[e] = "idle"
  /\ LET list == Addresses(recipients) IN
     IF client.mailer = "nil" \/ list = <<>>
     THEN MailReturns(e, "refused") /\ UNCHANGED <<to, title>>
     ELSE /\ mail'  = [mail EXCEPT ![e] = "render"]
          /\ to'    = [to EXCEPT ![e] = list]
          /\ title' = [title EXCEPT ![e] = sanitizeForEmail(message)]
          /\ UNCHANGED err
  /\ UNCHANGED <<client, field, recipients, edited, message, html, mailed>>

\* The Renderer, the host's or the default one, which cannot fail.
RenderBody(e, ok) ==
  /\ mail[e] = "render"
  /\ client.renderer = "nil" => ok
  /\ IF ok
     THEN /\ mail' = [mail EXCEPT ![e] = "send"]
          /\ html' = [html EXCEPT ![e] = <<IF client.renderer = "nil" THEN "built-in"
                                            ELSE IF client.templateName = "nil" THEN "default" ELSE "named",
                                           title[e]>>]
          /\ UNCHANGED err
     ELSE MailReturns(e, "render") /\ UNCHANGED html
  /\ UNCHANGED <<client, field, recipients, edited, message, to, title, mailed>>

\* Mailer.Send; SubjectPrefix is left out of the subject.
\* Mutant: the mail goes to what the list has become by now.
MailerSendReads(e, ok) ==
  /\ mail[e] = "send"
  /\ mailed' = [mailed EXCEPT ![e] = Append(@, [to |-> Addresses(recipients), subject |-> title[e], html |-> html[e]])]
  /\ MailReturns(e, IF ok THEN "nil" ELSE "send")
  /\ UNCHANGED <<client, field, recipients, edited, message, to, title, html>>
MailerSend(e, ok) ==
  /\ mail[e] = "send"
  /\ mailed' = [mailed EXCEPT ![e] = Append(@, [to |-> to[e], subject |-> title[e], html |-> html[e]])]
  /\ MailReturns(e, IF ok THEN "nil" ELSE "send")
  /\ UNCHANGED <<client, field, recipients, edited, message, to, title, html>>

\* The host writes to the list it passed: a []string is the Client's own.
HostEdits(list) ==
  /\ ~edited /\ field.type # "other" /\ Len(list) = Len(field.items)
  /\ edited' = TRUE
  /\ recipients' = IF field.type = "[]string" THEN list ELSE recipients
  /\ UNCHANGED <<client, field, message, mail, to, title, html, err, mailed>>

MailStep(e) == Compose(e) \/ \E ok \in BOOLEAN : RenderBody(e, ok) \/ MailerSend(e, ok)
-----------------------------------------------------------------------------
(* Properties. *)

\* Every mail goes to all the non-blank recipients configured, each once, in
\* their order: an earlier Send has not changed the Client's list, and a list
\* that was decoded into a []any is safe from the host's later writes too.
MailAsConfigured ==
  \A e \in Mails : \A i \in DOMAIN mailed[e] :
    (edited /\ field.type = "[]string") \/ mailed[e][i].to = Addresses(StringSliceField(field))

Clean(s) ==
  /\ \A k \in DOMAIN s : s[k] \notin Control
  /\ s # <<>> => s[1] \notin Blank /\ s[Len(s)] \notin Blank

\* No control character of the Title reaches the Mailer, nor blanks around what
\* is left of it; and the body was rendered from that same Title.
SubjectClean ==
  \A e \in Mails : \A i \in DOMAIN mailed[e] :
    Clean(mailed[e][i].subject) /\ mailed[e][i].html[2] = mailed[e][i].subject

\* The host may have written to the Client's own list.
Lent == edited /\ field.type = "[]string"

Configured == Addresses(StringSliceField(field))

\* The Client as an Outbox: a Send fixes its recipients when it composes.
Box == INSTANCE Outbox WITH
  Lists    <- {Addresses(StringSliceField(f)) : f \in Fields},
  Subjects <- {s \in Text : Clean(s)},
  list     <- Configured,
  lent     <- Lent,
  subject  <- sanitizeForEmail(message),
  draft    <- to,
  posted   <- [e \in Mails |-> [i \in DOMAIN mailed[e] |->
                 [to |-> mailed[e][i].to, subject |-> mailed[e][i].subject]]],
  outcome  <- [e \in Mails |-> IF err[e] \in {"none", "nil"} THEN err[e] ELSE "error"]

\* However the Sends, the Renderer, the Mailer and the host's writes interleave,
\* the Client does what Outbox promises: one mail at most, to the recipients as
\* they were when the Send composed it, and nil only if the Mailer accepted it.
OneMailAsComposed == Box!Spec
=============================================================================
