--------------------------- MODULE Fanout_proofs ---------------------------
(* However many destinations, in a loop or in parallel: what a nil error     *)
(* means, whom the mails go to, and what their subjects may hold.            *)
EXTENDS Fanout, Render_proofs, FiniteSetTheorems, WellFoundedInduction

-----------------------------------------------------------------------------
(* What sanitizeForEmail returns, for a text of any length.                  *)

\* A set of naturals that is not empty has a least element.
LEMMA LeastNat ==
  ASSUME NEW S \in SUBSET Nat, S # {}
  PROVE  \E k \in S : \A i \in S : k <= i
<1>1. PICK k \in S : \A i \in S : ~(<<i, k>> \in OpToRel(<, Nat))
  BY NatLessThanWellFounded, WFMin
<1>2. ASSUME NEW i \in S PROVE k <= i
  <2>1. i \in Nat /\ k \in Nat
    OBVIOUS
  <2>2. i < k => <<i, k>> \in OpToRel(<, Nat)
    BY <2>1, Zenon DEF OpToRel
  <2>3. ~(i < k)
    BY <1>1, <2>2, Zenon
  <2> QED
    BY <2>1, <2>3
<1> QED
  BY <1>2

\* One that is bounded has a greatest.
LEMMA GreatestNat ==
  ASSUME NEW n \in Nat, NEW S \in SUBSET (1..n), S # {}
  PROVE  \E k \in S : \A i \in S : i <= k
<1> DEFINE D == {d \in Nat : n - d \in S}
<1>1. PICK i0 \in S : TRUE
  OBVIOUS
<1>2. n - i0 \in D
  OBVIOUS
<1>3. PICK d \in D : \A c \in D : d <= c
  BY <1>2, LeastNat
<1>4. ASSUME NEW i \in S PROVE i <= n - d
  <2>1. n - i \in D
    OBVIOUS
  <2>2. d <= n - i
    BY <1>3, <2>1
  <2> QED
    BY <2>2
<1> QED
  BY <1>3, <1>4

\* The characters kept up to a place: the next one adds itself if it is kept.
LEMMA UpToCounts ==
  ASSUME NEW s \in Text, NEW i \in 0..Len(s)
  PROVE  /\ IsFiniteSet(UpTo(s, i)) /\ Cardinality(UpTo(s, i)) \in Nat
         /\ i > 0 => Cardinality(UpTo(s, i)) =
                       IF i \in Kept(s) THEN Cardinality(UpTo(s, i - 1)) + 1 ELSE Cardinality(UpTo(s, i - 1))
<1>0. Kept(s) \subseteq 1..Len(s) /\ Len(s) \in Nat
  BY DEF Kept, Text
<1>1. \A j \in 0..Len(s) : IsFiniteSet(UpTo(s, j)) /\ Cardinality(UpTo(s, j)) \in Nat
  <2> TAKE j \in 0..Len(s)
  <2>1. IsFiniteSet(1..Len(s))
    BY <1>0, FS_Interval
  <2>2. UpTo(s, j) \in SUBSET (1..Len(s))
    BY <1>0 DEF UpTo
  <2> QED
    BY <2>1, <2>2, FS_Subset, FS_CardinalityType
<1>2. CASE i > 0 /\ i \in Kept(s)
  <2>1. UpTo(s, i) = UpTo(s, i - 1) \cup {i} /\ i \notin UpTo(s, i - 1) /\ i - 1 \in 0..Len(s)
    BY <1>0, <1>2 DEF UpTo
  <2> QED
    BY <1>1, <1>2, <2>1, FS_AddElement
<1>3. CASE i > 0 /\ i \notin Kept(s)
  <2>1. UpTo(s, i) = UpTo(s, i - 1)
    BY <1>0, <1>3 DEF UpTo
  <2> QED
    BY <1>1, <1>3, <2>1
<1>4. CASE ~(i > 0)
  BY <1>1, <1>4
<1> QED
  BY <1>2, <1>3, <1>4

\* As many characters are kept as there are numbers for them.
LEMMA PlaceExists ==
  ASSUME NEW s \in Text, NEW k \in 1..Cardinality(Kept(s))
  PROVE  \E i \in Kept(s) : Cardinality(UpTo(s, i)) = k
<1> DEFINE Enough == {i \in 0..Len(s) : Cardinality(UpTo(s, i)) >= k}
<1>0. Kept(s) \subseteq 1..Len(s) /\ Len(s) \in Nat
  BY DEF Kept, Text
<1>1. UpTo(s, Len(s)) = Kept(s) /\ UpTo(s, 0) = {}
  BY <1>0 DEF UpTo
<1>2. Len(s) \in Enough /\ 0 \notin Enough
  <2>1. Cardinality(Kept(s)) \in Nat
    BY <1>0, <1>1, UpToCounts
  <2> QED
    BY <1>0, <1>1, <2>1, FS_EmptySet
<1>3. PICK i \in Enough : \A j \in Enough : i <= j
  <2>1. Enough # {} /\ Enough \in SUBSET Nat
    BY <1>0, <1>2
  <2> HIDE DEF Enough
  <2> QED
    BY <2>1, LeastNat
<1>4. i \in 1..Len(s) /\ i - 1 \in 0..Len(s) /\ i - 1 \notin Enough
  BY <1>0, <1>2, <1>3
<1>5. Cardinality(UpTo(s, i)) \in Nat /\ Cardinality(UpTo(s, i - 1)) \in Nat
  BY <1>4, UpToCounts
<1>6. Cardinality(UpTo(s, i)) >= k /\ Cardinality(UpTo(s, i - 1)) < k
  BY <1>3, <1>4, <1>5
<1> QED
  BY <1>4, <1>5, <1>6, UpToCounts

\* What strings.Map leaves has no control character.
LEMMA StripClean ==
  ASSUME NEW s \in Text
  PROVE  Strip(s) \in Text /\ \A k \in DOMAIN Strip(s) : Strip(s)[k] \notin Control
<1>1. ASSUME NEW k \in 1..Cardinality(Kept(s))
      PROVE  Strip(s)[k] \in Char \ Control
  <2> DEFINE p == CHOOSE i \in Kept(s) : Cardinality(UpTo(s, i)) = k
  <2>1. p \in Kept(s)
    BY PlaceExists
  <2>2. Strip(s)[k] = s[p]
    BY DEF Strip
  <2>3. s[p] \in Char \ Control
    BY <2>1 DEF Kept, Text
  <2> QED
    BY <2>2, <2>3
<1>2. Cardinality(Kept(s)) \in Nat
  <2>1. Kept(s) = UpTo(s, Len(s)) /\ Len(s) \in 0..Len(s)
    BY DEF UpTo, Kept, Text
  <2> QED
    BY <2>1, UpToCounts
<1>3. Strip(s) \in [1..Cardinality(Kept(s)) -> Char]
  BY <1>1 DEF Strip
<1> QED
  BY <1>1, <1>2, <1>3 DEF Text

\* What strings.TrimSpace leaves begins and ends with a character that is not
\* blank, and holds none that was not there.
LEMMA TrimSpaceEnds ==
  ASSUME NEW s \in Text, TrimSpace(s) # <<>>
  PROVE  /\ TrimSpace(s)[1] \notin Blank /\ TrimSpace(s)[Len(TrimSpace(s))] \notin Blank
         /\ \A k \in DOMAIN TrimSpace(s) : \E i \in DOMAIN s : TrimSpace(s)[k] = s[i]
<1> DEFINE solid == {i \in DOMAIN s : s[i] \notin Blank}
           first == CHOOSE i \in solid : \A j \in solid : i <= j
           last  == CHOOSE i \in solid : \A j \in solid : j <= i
<1>1. solid # {} /\ TrimSpace(s) = SubSeq(s, first, last)
  BY DEF TrimSpace
<1>2. Len(s) \in Nat /\ solid \in SUBSET (1..Len(s))
  BY DEF Text
<1>3. first \in solid /\ \A j \in solid : first <= j
  <2> HIDE DEF solid
  <2>1. solid # {} /\ solid \in SUBSET Nat
    BY <1>1, <1>2
  <2>2. \E i \in solid : \A j \in solid : i <= j
    BY <2>1, LeastNat
  <2> QED
    BY <2>2
<1>4. last \in solid /\ \A j \in solid : j <= last
  BY <1>1, <1>2, GreatestNat
<1>5. first \in 1..Len(s) /\ last \in 1..Len(s) /\ first <= last
  BY <1>2, <1>3, <1>4
<1>6. s[first] \notin Blank /\ s[last] \notin Blank
  BY <1>3, <1>4
<1> HIDE DEF first, last, solid
<1>7. /\ Len(SubSeq(s, first, last)) = last - first + 1
      /\ \A k \in 1..(last - first + 1) : SubSeq(s, first, last)[k] = s[first + k - 1]
  BY <1>5 DEF Text
<1>8. DOMAIN SubSeq(s, first, last) = 1..(last - first + 1)
  BY <1>5 DEF Text
<1>9. ASSUME NEW k \in 1..(last - first + 1) PROVE first + k - 1 \in DOMAIN s
  BY <1>5 DEF Text
<1> QED
  BY <1>1, <1>5, <1>6, <1>7, <1>8, <1>9

LEMMA TrimSpaceText == ASSUME NEW s \in Text PROVE TrimSpace(s) \in Text
<1> DEFINE solid == {i \in DOMAIN s : s[i] \notin Blank}
           first == CHOOSE i \in solid : \A j \in solid : i <= j
           last  == CHOOSE i \in solid : \A j \in solid : j <= i
<1>1. CASE solid = {}
  BY <1>1 DEF TrimSpace, Text
<1>2. CASE solid # {}
  <2>1. Len(s) \in Nat /\ solid \in SUBSET (1..Len(s)) /\ solid \in SUBSET Nat
    BY DEF Text
  <2>2. first \in solid
    BY <1>2, <2>1, LeastNat
  <2>3. last \in solid
    BY <1>2, <2>1, GreatestNat
  <2>4. first \in 1..Len(s) /\ last \in 1..Len(s)
    BY <2>1, <2>2, <2>3
  <2>5. TrimSpace(s) = SubSeq(s, first, last)
    BY <1>2 DEF TrimSpace
  <2> HIDE DEF first, last
  <2> QED
    BY <2>4, <2>5 DEF Text
<1> QED
  BY <1>1, <1>2

LEMMA SanitizedIsText == ASSUME NEW s \in Text PROVE sanitizeForEmail(s) \in Text
BY StripClean, TrimSpaceText DEF sanitizeForEmail

LEMMA SanitizedIsClean == ASSUME NEW s \in Text PROVE Clean(sanitizeForEmail(s))
<1>1. Strip(s) \in Text /\ \A k \in DOMAIN Strip(s) : Strip(s)[k] \notin Control
  BY StripClean
<1>2. CASE TrimSpace(Strip(s)) = <<>>
  BY <1>2 DEF Clean, sanitizeForEmail
<1>3. CASE TrimSpace(Strip(s)) # <<>>
  BY <1>1, <1>3, TrimSpaceEnds DEF Clean, sanitizeForEmail
<1> QED
  BY <1>2, <1>3
-----------------------------------------------------------------------------

\* A step of the fan-out is a step of Render or none.
LEMMA FanStepsRender == [FanNext]_fanVars => [Next]_vars
<1> SUFFICES ASSUME [FanNext]_fanVars PROVE [Next]_vars
  OBVIOUS
<1>1. ASSUME NEW r \in Renders, Provider(r) PROVE [Next]_vars
  <2>1. CASE Call(r)
    BY <2>1 DEF Call, Next, Caller
  <2>2. CASE Rendering(r)
    BY <2>2 DEF Rendering, Next, Caller
  <2>3. CASE Dispatch(r) \/ Dispatching(r)
    BY <2>3 DEF Dispatch, Dispatching
  <2> QED
    BY <1>1, <2>1, <2>2, <2>3 DEF Provider
<1>2. ASSUME NEW r \in Renders, Worker(r) \/ Expire(r) PROVE [Next]_vars
  BY <1>2 DEF Next
<1>3. ASSUME NEW e \in Mails, Mail(e) PROVE [Next]_vars
  BY <1>3 DEF Mail
<1>4. CASE UNCHANGED fanVars
  BY <1>4 DEF fanVars
<1> QED
  BY <1>1, <1>2, <1>3, <1>4 DEF FanNext

LEMMA FanInitInv == FanInit => FanInv
<1> SUFFICES ASSUME FanInit PROVE FanInv
  OBVIOUS
<1>1. IInv
  BY InitIInv DEF FanInit
<1>2. HttpInv
  BY DEF FanInit, Wrapper!Init, HttpInv
<1>3. MailInv
  BY DEF FanInit, EmailInit, MailInv, SubjectClean
<1> QED
  BY <1>1, <1>2, <1>3 DEF FanInv

\* Once Render has returned, neither its caller nor its result changes.
LEMMA ReturnedStays ==
  ASSUME IInv, [Next]_vars, NEW r \in Renders, caller[r] = "returned"
  PROVE  caller'[r] = "returned" /\ result'[r] = result[r]
<1>1. ASSUME NEW q \in Renders, Refuse(q) \/ Receive(q) \/ TimeOut(q) \/ ReturnText(q)
      PROVE  caller'[r] = "returned" /\ result'[r] = result[r]
  BY <1>1 DEF IInv, TypeOK, Refuse, Receive, TimeOut, ReturnText, Return
<1>2. ASSUME NEW q \in Renders, Start(q) \/ Worker(q) \/ Expire(q)
      PROVE  caller'[r] = "returned" /\ result'[r] = result[r]
  BY <1>2 DEF IInv, TypeOK, Start, Worker, Write, Executed, Report, Expire
<1>3. CASE UNCHANGED vars
  BY <1>3 DEF vars
<1> QED
  BY <1>1, <1>2, <1>3 DEF Next, Caller

\* Steps that dispatch nothing.
LEMMA HttpFrame == ASSUME IInv, HttpInv, [Next]_vars, UNCHANGED delivery PROVE HttpInv'
BY ReturnedStays DEF HttpInv, delivery

LEMMA DispatchHttp ==
  ASSUME HttpInv, NEW r \in Renders, Dispatch(r) \/ Dispatching(r) PROVE HttpInv'
<1>1. CASE Dispatch(r)
  <2>1. ASSUME Wrapper!Refuse(r), UNCHANGED vars PROVE HttpInv'
    BY <2>1 DEF HttpInv, Wrapper!Refuse, vars
  <2>2. ASSUME NEW n \in Policies, caller[r] = "returned", result[r] = "text", Wrapper!Start(r, n), UNCHANGED vars
        PROVE HttpInv'
    BY <2>2 DEF HttpInv, Wrapper!Start, vars
  <2> QED
    BY <1>1, <2>1, <2>2 DEF Dispatch
<1>2. CASE Dispatching(r)
  <2> USE <1>2 DEF Dispatching, vars
  <2>1. CASE Wrapper!Take(r)
    BY <2>1 DEF HttpInv, Wrapper!Take
  <2>2. CASE Wrapper!Detour(r)
    BY <2>2 DEF HttpInv, Wrapper!Detour
  <2>3. CASE Wrapper!Retry(r)
    BY <2>3 DEF HttpInv, Wrapper!Retry
  <2>4. CASE Wrapper!Succeed(r)
    BY <2>4 DEF HttpInv, Wrapper!Succeed
  <2>5. CASE Wrapper!Fail(r)
    BY <2>5 DEF HttpInv, Wrapper!Fail
  <2> QED
    BY <2>1, <2>2, <2>3, <2>4, <2>5
<1> QED
  BY <1>1, <1>2

LEMMA NextHttpInv == IInv /\ HttpInv /\ [FanNext]_fanVars => HttpInv'
<1> SUFFICES ASSUME IInv, HttpInv, [FanNext]_fanVars PROVE HttpInv'
  OBVIOUS
<1>1. [Next]_vars
  BY FanStepsRender
<1>2. ASSUME NEW r \in Renders, Call(r) PROVE HttpInv'
  <2>1. ASSUME Wrapper!Refuse(r), UNCHANGED vars PROVE HttpInv'
    BY <2>1 DEF HttpInv, Wrapper!Refuse, vars
  <2> QED
    BY <1>1, <1>2, <2>1, HttpFrame DEF Call
<1>3. ASSUME NEW r \in Renders, Rendering(r) PROVE HttpInv'
  BY <1>1, <1>3, HttpFrame DEF Rendering
<1>4. ASSUME NEW r \in Renders, Dispatch(r) \/ Dispatching(r) PROVE HttpInv'
  BY <1>4, DispatchHttp
<1>5. ASSUME NEW e \in Mails, Mail(e) PROVE HttpInv'
  BY <1>1, <1>5, HttpFrame DEF Mail
<1>6. ASSUME UNCHANGED delivery PROVE HttpInv'
  BY <1>1, <1>6, HttpFrame
<1> QED
  BY <1>2, <1>3, <1>4, <1>5, <1>6 DEF FanNext, Provider, fanVars

LEMMA ComposeInv == ASSUME MailInv, NEW e \in Mails, Compose(e) PROVE MailInv'
<1>1. UNCHANGED <<field, recipients, edited, message, html, mailed>> /\ Lent' = Lent /\ Configured' = Configured
  BY DEF Compose, Lent, Configured
<1>2. CASE client.mailer = "nil" \/ Addresses(recipients) = <<>>
  <2>1. MailReturns(e, "refused") /\ UNCHANGED <<to, title>>
    BY <1>2 DEF Compose
  <2> QED
    BY <1>1, <2>1 DEF MailInv, MailReturns, SubjectClean
<1>3. CASE ~(client.mailer = "nil" \/ Addresses(recipients) = <<>>)
  <2>1. /\ mail' = [mail EXCEPT ![e] = "render"] /\ mail[e] = "idle"
        /\ to' = [to EXCEPT ![e] = Addresses(recipients)]
        /\ title' = [title EXCEPT ![e] = sanitizeForEmail(message)]
        /\ UNCHANGED err
    BY <1>3 DEF Compose
  <2>2. Lent \/ Addresses(recipients) = Configured
    BY DEF MailInv, Configured
  <2>3. Clean(sanitizeForEmail(message))
    BY EmailAssumption, SanitizedIsClean DEF MailInv, EmailAssumption
  <2> QED
    BY <1>1, <2>1, <2>2, <2>3 DEF MailInv, SubjectClean
<1> QED
  BY <1>2, <1>3

LEMMA RenderBodyInv == ASSUME MailInv, NEW e \in Mails, NEW ok \in BOOLEAN, RenderBody(e, ok) PROVE MailInv'
<1>1. /\ UNCHANGED <<field, recipients, edited, message, mailed, to, title>>
      /\ Lent' = Lent /\ Configured' = Configured
  BY DEF RenderBody, Lent, Configured
<1>2. CASE ok
  <2>1. PICK template : html' = [html EXCEPT ![e] = <<template, title[e]>>]
    BY <1>2 DEF RenderBody
  <2>2. mail[e] = "render" /\ mail' = [mail EXCEPT ![e] = "send"] /\ UNCHANGED err
    BY <1>2 DEF RenderBody
  <2> QED
    BY <1>1, <2>1, <2>2 DEF MailInv, SubjectClean
<1>3. CASE ~ok
  <2>1. mail[e] = "render" /\ MailReturns(e, "render") /\ UNCHANGED html
    BY <1>3 DEF RenderBody
  <2> QED
    BY <1>1, <2>1 DEF MailInv, MailReturns, SubjectClean
<1> QED
  BY <1>2, <1>3

LEMMA MailerSendInv == ASSUME MailInv, NEW e \in Mails, NEW ok \in BOOLEAN, MailerSend(e, ok) PROVE MailInv'
<1> DEFINE given == [to |-> to[e], subject |-> title[e], html |-> html[e]]
           how   == IF ok THEN "nil" ELSE "send"
<1>1. /\ UNCHANGED <<field, recipients, edited, message, to, title, html>>
      /\ Lent' = Lent /\ Configured' = Configured
  BY DEF MailerSend, Lent, Configured
<1>2. /\ mail[e] = "send" /\ mailed[e] = <<>> /\ (Lent \/ to[e] = Configured)
      /\ Clean(title[e]) /\ html[e][2] = title[e]
  BY DEF MailerSend, MailInv
<1>3. mailed' = [mailed EXCEPT ![e] = <<given>>]
  BY <1>2 DEF MailerSend, MailInv
<1>4. mail' = [mail EXCEPT ![e] = "returned"] /\ err' = [err EXCEPT ![e] = how]
  BY DEF MailerSend, MailReturns
<1>5. Len(<<given>>) = 1 /\ \A i \in DOMAIN <<given>> : <<given>>[i] = given
  OBVIOUS
<1>6. SubjectClean'
  BY <1>2, <1>3, <1>5 DEF MailInv, SubjectClean
<1> QED
  BY <1>1, <1>2, <1>3, <1>4, <1>5, <1>6 DEF MailInv

LEMMA HostEditsInv == ASSUME MailInv, NEW list, HostEdits(list) PROVE MailInv'
<1>1. UNCHANGED <<field, message, mail, err, mailed, to, title, html>> /\ Configured' = Configured
  BY DEF HostEdits, Configured
<1>2. CASE field.type = "[]string"
  <2>1. Lent'
    BY <1>1, <1>2 DEF HostEdits, Lent
  <2> QED
    BY <1>1, <2>1 DEF MailInv, SubjectClean
<1>3. CASE field.type # "[]string"
  <2>1. recipients' = recipients /\ ~Lent /\ ~Lent'
    BY <1>1, <1>3 DEF HostEdits, Lent
  <2> QED
    BY <1>1, <2>1 DEF MailInv, SubjectClean
<1> QED
  BY <1>2, <1>3

LEMMA NextMailInv == MailInv /\ [FanNext]_fanVars => MailInv'
<1> SUFFICES ASSUME MailInv, [FanNext]_fanVars PROVE MailInv'
  OBVIOUS
<1>1. ASSUME UNCHANGED emailVars PROVE MailInv'
  BY <1>1 DEF emailVars, MailInv, SubjectClean, Lent, Configured
<1>2. ASSUME NEW r \in Renders, Provider(r) PROVE MailInv'
  BY <1>1, <1>2 DEF Provider, Call, Rendering, Dispatch, Dispatching
<1>3. ASSUME NEW e \in Mails, Mail(e) PROVE MailInv'
  BY <1>3, ComposeInv, RenderBodyInv, MailerSendInv DEF Mail, MailStep
<1>4. ASSUME NEW list, HostEdits(list) PROVE MailInv'
  BY <1>4, HostEditsInv
<1> QED
  BY <1>1, <1>2, <1>3, <1>4 DEF FanNext, fanVars

\* The strengthened invariant of the fan-out, for any destinations.
THEOREM FanInvariance == FanSpec => []FanInv
<1>1. FanInv /\ [FanNext]_fanVars => FanInv'
  BY FanStepsRender, NextIInv, NextHttpInv, NextMailInv DEF FanInv
<1> QED
  BY FanInitInv, <1>1, PTL DEF FanSpec

\* A destination that reports no error was given the whole message: the Mailer
\* exactly one mail; an HTTP service a copy of the complete rendering, unless a
\* redirect lost it, which the code does not report.
THEOREM Delivered == FanSpec => []NilMeansDelivered
<1>1. FanInv => NilMeansDelivered
  BY DEF FanInv, HttpInv, MailInv, IInv, TextIsComplete, NilMeansDelivered
<1> QED
  BY FanInvariance, <1>1, PTL

\* No mail goes to others than the configured recipients, as long as the host
\* leaves alone a []string that it passed.
THEOREM Recipients == FanSpec => []MailAsConfigured
<1>1. FanInv => MailAsConfigured
  BY DEF FanInv, MailInv, MailAsConfigured, Lent, Configured
<1> QED
  BY FanInvariance, <1>1, PTL

\* Whatever the Title, no control character of it reaches the Mailer, its subject
\* has no blank at either end, and the body was rendered from the same text.
THEOREM Subjects == FanSpec => []SubjectClean
<1>1. FanInv => SubjectClean
  BY DEF FanInv, MailInv
<1> QED
  BY FanInvariance, <1>1, PTL
-----------------------------------------------------------------------------
(* The mails as an Outbox. *)

\* A Send fixes its list and its title when it composes, and never again.
LEMMA NextBoxInv == MailInv /\ BoxInv /\ [FanNext]_fanVars => BoxInv'
<1> SUFFICES ASSUME MailInv, BoxInv, [FanNext]_fanVars PROVE BoxInv'
  OBVIOUS
<1>0. DOMAIN mail = Mails /\ DOMAIN to = Mails /\ DOMAIN title = Mails
  BY DEF MailInv
<1>1. ASSUME NEW e \in Mails, Compose(e) PROVE BoxInv'
  <2>1. UNCHANGED message /\ mail[e] = "idle"
    BY <1>1 DEF Compose
  <2>2. CASE client.mailer = "nil" \/ Addresses(recipients) = <<>>
    <3>1. mail' = [mail EXCEPT ![e] = "returned"] /\ UNCHANGED <<to, title>>
      BY <1>1, <2>2 DEF Compose, MailReturns
    <3> QED
      BY <1>0, <2>1, <3>1 DEF BoxInv
  <2>3. CASE ~(client.mailer = "nil" \/ Addresses(recipients) = <<>>)
    <3>1. /\ mail' = [mail EXCEPT ![e] = "render"] /\ to' = [to EXCEPT ![e] = Addresses(recipients)]
          /\ title' = [title EXCEPT ![e] = sanitizeForEmail(message)]
      BY <1>1, <2>3 DEF Compose
    <3> QED
      BY <1>0, <2>1, <2>3, <3>1 DEF BoxInv
  <2> QED
    BY <2>2, <2>3
<1>2. ASSUME NEW e \in Mails, NEW ok \in BOOLEAN, RenderBody(e, ok) PROVE BoxInv'
  <2>1. mail[e] = "render" /\ UNCHANGED <<message, to, title>>
    BY <1>2 DEF RenderBody
  <2>2. mail' = [mail EXCEPT ![e] = "send"] \/ mail' = [mail EXCEPT ![e] = "returned"]
    BY <1>2 DEF RenderBody, MailReturns
  <2> QED
    BY <1>0, <2>1, <2>2 DEF BoxInv
<1>3. ASSUME NEW e \in Mails, NEW ok \in BOOLEAN, MailerSend(e, ok) PROVE BoxInv'
  <2>1. mail' = [mail EXCEPT ![e] = "returned"] /\ UNCHANGED <<message, to, title>>
    BY <1>3 DEF MailerSend, MailReturns
  <2> QED
    BY <1>0, <2>1 DEF BoxInv
<1>4. ASSUME UNCHANGED <<mail, to, title, message>> PROVE BoxInv'
  BY <1>4 DEF BoxInv
<1>5. ASSUME UNCHANGED emailVars PROVE BoxInv'
  BY <1>4, <1>5 DEF emailVars
<1>6. ASSUME NEW r \in Renders, Provider(r) PROVE BoxInv'
  BY <1>5, <1>6 DEF Provider, Call, Rendering, Dispatch, Dispatching
<1>7. ASSUME NEW hostList, HostEdits(hostList) PROVE BoxInv'
  BY <1>4, <1>7 DEF HostEdits
<1>8. ASSUME NEW e \in Mails, Mail(e) PROVE BoxInv'
  BY <1>1, <1>2, <1>3, <1>8 DEF Mail, MailStep
<1> QED
  BY <1>5, <1>6, <1>7, <1>8 DEF FanNext, fanVars

\* The error of a Send as an outcome of the Outbox.
Outcome(how) == IF how \in {"none", "nil"} THEN how ELSE "error"

\* A Send that ends its error is refused, or posts its mail.
LEMMA ReturnOutcome ==
  ASSUME MailInv, NEW e \in Mails, NEW how, MailReturns(e, how)
  PROVE  [f \in Mails |-> Outcome(err'[f])] =
           [[f \in Mails |-> Outcome(err[f])] EXCEPT ![e] = Outcome(how)]
BY DEF MailInv, MailReturns

\* Nothing the Outbox shows has changed.
LEMMA BoxSilent ==
  ASSUME UNCHANGED <<field, message, edited, to, mailed, err>> PROVE UNCHANGED Box!vars
BY DEF Box!vars, Configured, Lent

LEMMA ComposeBox ==
  ASSUME MailInv, BoxInv, NEW e \in Mails, Compose(e) PROVE Box!Fix(e) \/ Box!Refuse(e)
<1>1. UNCHANGED <<field, recipients, edited, message, mailed>> /\ Lent' = Lent /\ Configured' = Configured
  BY DEF Compose, Lent, Configured
<1>2. mail[e] = "idle" /\ err[e] = "none" /\ to[e] = <<>> /\ DOMAIN to = Mails
  BY DEF Compose, MailInv, BoxInv
<1>3. CASE client.mailer = "nil" \/ Addresses(recipients) = <<>>
  <2>1. MailReturns(e, "refused") /\ UNCHANGED to
    BY <1>3 DEF Compose
  <2> QED
    BY <1>1, <1>2, <2>1, ReturnOutcome DEF Box!Refuse, Outcome
<1>4. CASE ~(client.mailer = "nil" \/ Addresses(recipients) = <<>>)
  <2>1. to' = [to EXCEPT ![e] = Addresses(recipients)] /\ UNCHANGED err
    BY <1>4 DEF Compose
  <2>2. Lent \/ Addresses(recipients) = Configured
    BY DEF MailInv, Configured
  <2>3. to'[e] = Addresses(recipients) /\ to' = [to EXCEPT ![e] = to'[e]]
    BY <1>2, <2>1
  <2> QED
    BY <1>1, <1>2, <1>4, <2>1, <2>2, <2>3 DEF Box!Fix
<1> QED
  BY <1>3, <1>4

LEMMA RenderBodyBox ==
  ASSUME MailInv, NEW e \in Mails, NEW ok \in BOOLEAN, RenderBody(e, ok)
  PROVE  Box!Refuse(e) \/ UNCHANGED Box!vars
<1>1. UNCHANGED <<field, edited, message, to, mailed>> /\ Lent' = Lent /\ Configured' = Configured
  BY DEF RenderBody, Lent, Configured
<1>2. CASE ok
  BY <1>1, <1>2, BoxSilent DEF RenderBody
<1>3. CASE ~ok
  <2>1. MailReturns(e, "render") /\ err[e] = "none"
    BY <1>3 DEF RenderBody, MailInv
  <2> QED
    BY <1>1, <2>1, ReturnOutcome DEF Box!Refuse, Outcome
<1> QED
  BY <1>2, <1>3

LEMMA MailerSendBox ==
  ASSUME MailInv, BoxInv, NEW e \in Mails, NEW ok \in BOOLEAN, MailerSend(e, ok) PROVE Box!Post(e, ok)
<1> DEFINE given == [to |-> to[e], subject |-> title[e], html |-> html[e]]
           shown(m) == [i \in DOMAIN m |-> [to |-> m[i].to, subject |-> m[i].subject]]
<1>1. UNCHANGED <<field, edited, message, to>> /\ Lent' = Lent /\ Configured' = Configured
  BY DEF MailerSend, Lent, Configured
<1>2. /\ mail[e] = "send" /\ err[e] = "none" /\ to[e] # <<>> /\ title[e] = sanitizeForEmail(message)
      /\ mailed[e] = <<>> /\ DOMAIN mailed = Mails
  BY DEF MailerSend, MailInv, BoxInv
<1>3. mailed' = [mailed EXCEPT ![e] = <<given>>]
  BY <1>2 DEF MailerSend
<1>4. shown(<<given>>) = <<[to |-> to[e], subject |-> sanitizeForEmail(message)]>>
  BY <1>2
<1>5. [f \in Mails |-> shown(mailed'[f])] =
        [[f \in Mails |-> shown(mailed[f])] EXCEPT ![e] = <<[to |-> to[e], subject |-> sanitizeForEmail(message)]>>]
  <2> HIDE DEF shown, given
  <2> QED
    BY <1>2, <1>3, <1>4
<1>6. MailReturns(e, IF ok THEN "nil" ELSE "send")
  BY DEF MailerSend
<1>7. Outcome(IF ok THEN "nil" ELSE "send") = IF ok THEN "nil" ELSE "error"
  BY DEF Outcome
<1>8. [f \in Mails |-> Outcome(err'[f])] =
        [[f \in Mails |-> Outcome(err[f])] EXCEPT ![e] = IF ok THEN "nil" ELSE "error"]
  BY <1>6, <1>7, ReturnOutcome
<1> QED
  BY <1>1, <1>2, <1>5, <1>8 DEF Box!Post, Outcome

LEMMA HostEditsBox ==
  ASSUME NEW hostList, HostEdits(hostList) PROVE Box!Lend \/ UNCHANGED Box!vars
<1>1. UNCHANGED <<field, message, to, mailed, err>> /\ Configured' = Configured /\ ~edited /\ edited' = TRUE
  BY DEF HostEdits, Configured
<1>2. CASE field.type = "[]string"
  BY <1>1, <1>2 DEF Box!Lend, Lent
<1>3. CASE field.type # "[]string"
  <2>1. Lent' = Lent
    BY <1>1, <1>3 DEF Lent
  <2> QED
    BY <1>1, <2>1 DEF Box!vars
<1> QED
  BY <1>2, <1>3

\* The Client starts as an Outbox ...
LEMMA BoxInit == FanInit => Box!Init /\ BoxInv
<1> SUFFICES ASSUME FanInit PROVE Box!Init /\ BoxInv
  OBVIOUS
<1>1. Configured \in {Addresses(StringSliceField(f)) : f \in Fields} /\ Lent = FALSE
  BY DEF FanInit, EmailInit, Configured, Lent
<1>2. Clean(sanitizeForEmail(message)) /\ sanitizeForEmail(message) \in Text
  BY EmailAssumption, SanitizedIsClean, SanitizedIsText DEF FanInit, EmailInit, EmailAssumption
<1>3. mailed = [e \in Mails |-> <<>>] /\ to = [e \in Mails |-> <<>>] /\ err = [e \in Mails |-> "none"]
  BY DEF FanInit, EmailInit
<1>4. BoxInv
  BY DEF FanInit, EmailInit, BoxInv
<1>5. [e \in Mails |-> [i \in DOMAIN mailed[e] |-> [to |-> mailed[e][i].to, subject |-> mailed[e][i].subject]]]
        = [e \in Mails |-> <<>>]
  BY <1>3
<1>6. [e \in Mails |-> IF err[e] \in {"none", "nil"} THEN err[e] ELSE "error"] = [e \in Mails |-> "none"]
  BY <1>3
<1> QED
  BY <1>1, <1>2, <1>3, <1>4, <1>5, <1>6 DEF Box!Init

\* ... and each step of the fan-out is a step of the Outbox or none.
LEMMA BoxNext == MailInv /\ BoxInv /\ [FanNext]_fanVars => [Box!Next]_Box!vars
<1> SUFFICES ASSUME MailInv, BoxInv, [FanNext]_fanVars PROVE [Box!Next]_Box!vars
  OBVIOUS
<1>1. ASSUME UNCHANGED emailVars PROVE UNCHANGED Box!vars
  BY <1>1, BoxSilent DEF emailVars
<1>2. ASSUME NEW r \in Renders, Provider(r) PROVE UNCHANGED Box!vars
  BY <1>1, <1>2 DEF Provider, Call, Rendering, Dispatch, Dispatching
<1>3. ASSUME NEW e \in Mails, Mail(e) PROVE [Box!Next]_Box!vars
  <2>1. CASE Compose(e)
    BY <2>1, ComposeBox DEF Box!Next
  <2>2. ASSUME NEW ok \in BOOLEAN, RenderBody(e, ok) PROVE [Box!Next]_Box!vars
    BY <2>2, RenderBodyBox DEF Box!Next
  <2>3. ASSUME NEW ok \in BOOLEAN, MailerSend(e, ok) PROVE [Box!Next]_Box!vars
    BY <2>3, MailerSendBox DEF Box!Next
  <2> QED
    BY <1>3, <2>1, <2>2, <2>3 DEF Mail, MailStep
<1>4. ASSUME NEW hostList, HostEdits(hostList) PROVE [Box!Next]_Box!vars
  BY <1>4, HostEditsBox DEF Box!Next
<1> QED
  BY <1>1, <1>2, <1>3, <1>4 DEF FanNext, fanVars

\* Any number of Sends on one Client, among any number of HTTP destinations,
\* implement Outbox: one mail each at most, whose recipients are fixed when it is
\* composed, and nil only for a mail that the Mailer accepted.
THEOREM Outboxes == FanSpec => OneMailAsComposed
<1>1. FanInv /\ BoxInv /\ [FanNext]_fanVars => BoxInv' /\ [Box!Next]_Box!vars
  BY NextBoxInv, BoxNext DEF FanInv
<1> QED
  BY BoxInit, <1>1, FanInvariance, PTL DEF FanSpec, OneMailAsComposed, Box!Spec
=============================================================================
