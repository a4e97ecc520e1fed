--------------------------- MODULE Wrapper_proofs ---------------------------
(***************************************************************************)
(* Proofs about Wrapper for any number of calls, any URLs, any retry       *)
(* policies and any redirect limit.                                        *)
(***************************************************************************)
EXTENDS Wrapper, TLAPS

\* buildSafeRequestURL yields a URL and keeps the host and the cleanliness.
LEMMA BuildUrl ==
  ASSUME NEW u \in Url
  PROVE  /\ buildSafeRequestURL(u) \in Url
         /\ buildSafeRequestURL(u).flaw = u.flaw
         /\ buildSafeRequestURL(u).host = u.host
BY SMT DEF Url, Paths, buildSafeRequestURL

\* What validateDestination accepts is clean and on an accepted host.
LEMMA Validated ==
  ASSUME NEW u \in Url, NEW acc, validateDestination(u, acc)
  PROVE  u.flaw = "none" /\ u.host \in acc
BY SMT DEF Url, Flaws, validateDestination, URLValidator

\* An attempt more is a redirect budget more.
LEMMA OneMore ==
  ASSUME NEW a \in Nat, NEW L \in Nat
  PROVE  (a + 1 - 1) * L = (a - 1) * L + L
BY SMT

LEMMA InitIInv == Init => IInv
<1> SUFFICES ASSUME Init PROVE IInv
  OBVIOUS
<1>1. TypeOK
  BY WrapperAssumption, SMT DEF Init, TypeOK, Results, Url, Paths, Flaws, Status, DoErrors
<1>2. ASSUME NEW s \in Sends PROVE CallInv(s)
  <2>1. /\ pc[s] = "idle" /\ result[s] = "none" /\ ~open[s] /\ attempt[s] = 0 /\ limit[s] = 0
        /\ via[s] = 0 /\ ~taken[s] /\ sent[s] = {} /\ requests[s] = 0 /\ copies[s] = 0
        /\ orig[s] = "nil"
    BY SMT DEF Init
  <2> QED
    BY <2>1, SMT DEF CallInv
<1>3. TransmittedVetted /\ TransientMeansExhausted /\ SuccessIsBacked
  BY SMT DEF Init, TransmittedVetted, TransientMeansExhausted, SuccessIsBacked
<1> QED
  BY <1>1, <1>2, <1>3 DEF IInv

\* A call that a step leaves alone keeps its part of the invariant.
LEMMA Frame ==
  ASSUME NEW t \in Sends, CallInv(t),
         pc'[t] = pc[t], attempt'[t] = attempt[t], limit'[t] = limit[t], via'[t] = via[t],
         requests'[t] = requests[t], copies'[t] = copies[t], post'[t] = post[t],
         taken'[t] = taken[t], sent'[t] = sent[t], got'[t] = got[t], result'[t] = result[t],
         open'[t] = open[t], at'[t] = at[t], req'[t] = req[t], orig'[t] = orig[t],
         seen'[t] = seen[t], accepted' = accepted
  PROVE  CallInv(t)'
BY SMT DEF CallInv, buildSafeRequestURL, shouldRetry

LEMMA AnswerIInv ==
  ASSUME IInv, NEW s \in Sends, NEW st \in Replies, NEW t \in BOOLEAN, Answer(s, st, t)
  PROVE  IInv'
<1> USE DEF IInv
<1>1. TypeOK'
  BY WrapperAssumption, SMT DEF TypeOK, Answer, Transmit, Consume, Respond
<1>2. ASSUME NEW r \in Sends PROVE CallInv(r)'
  <2>1. CASE r = s
    BY <2>1, WrapperAssumption, SMT
      DEF TypeOK, CallInv, Answer, Transmit, Consume, Respond, buildSafeRequestURL, Status
  <2>2. CASE r # s
    <3>1. /\ pc'[r] = pc[r] /\ attempt'[r] = attempt[r] /\ limit'[r] = limit[r] /\ via'[r] = via[r]
          /\ requests'[r] = requests[r] /\ copies'[r] = copies[r] /\ sent'[r] = sent[r]
          /\ got'[r] = got[r] /\ result'[r] = result[r] /\ at'[r] = at[r] /\ req'[r] = req[r]
          /\ orig'[r] = orig[r] /\ seen'[r] = seen[r] /\ accepted' = accepted
      BY <2>2, SMT DEF TypeOK, Answer, Transmit, Consume, Respond
    <3>2. post'[r] = post[r] /\ taken'[r] = taken[r] /\ open'[r] = open[r]
      BY <2>2, SMT DEF TypeOK, Answer, Transmit, Consume, Respond
    <3> QED
      BY <3>1, <3>2, Frame
  <2> QED
    BY <2>1, <2>2
<1>3. TransmittedVetted'
  BY SMT DEF TypeOK, TransmittedVetted, CallInv, Answer, Transmit
<1>4. TransientMeansExhausted'
  BY SMT DEF TypeOK, TransientMeansExhausted, CallInv, Answer, Transmit, Respond
<1>5. SuccessIsBacked'
  BY SMT DEF TypeOK, SuccessIsBacked, CallInv, Answer, Transmit, Respond, Consume
<1> QED
  BY <1>1, <1>2, <1>3, <1>4, <1>5

LEMMA LoseIInv ==
  ASSUME IInv, NEW s \in Sends, NEW t \in BOOLEAN, Lose(s, t)
  PROVE  IInv'
<1> USE DEF IInv
<1>1. TypeOK'
  BY WrapperAssumption, SMT DEF TypeOK, Lose, Transmit, Consume, DoError, DoErrors
<1>2. ASSUME NEW r \in Sends PROVE CallInv(r)'
  <2>1. CASE r = s
    BY <2>1, WrapperAssumption, SMT
      DEF TypeOK, CallInv, Lose, Transmit, Consume, DoError, DoErrors, buildSafeRequestURL, shouldRetry
  <2>2. CASE r # s
    BY <2>2, Frame, SMT DEF TypeOK, Lose, Transmit, Consume, DoError, DoErrors
  <2> QED
    BY <2>1, <2>2
<1>3. TransmittedVetted'
  BY SMT DEF TypeOK, TransmittedVetted, CallInv, Lose, Transmit, Consume, DoError, DoErrors
<1>4. TransientMeansExhausted'
  BY SMT DEF TypeOK, TransientMeansExhausted, CallInv, Lose, Transmit, Consume, DoError, DoErrors
<1>5. SuccessIsBacked'
  BY SMT DEF TypeOK, SuccessIsBacked, CallInv, Lose, Transmit, Consume, DoError, DoErrors
<1> QED
  BY <1>1, <1>2, <1>3, <1>4, <1>5

LEMMA FollowIInv ==
  ASSUME IInv, NEW s \in Sends, NEW u \in Location, NEW rewrite \in Rewrites,
         Follow(s, u, rewrite)
  PROVE  IInv'
<1> USE DEF IInv
<1>1. TypeOK'
  BY WrapperAssumption, SMT DEF TypeOK, Follow, Transmit
<1>2. ASSUME NEW r \in Sends PROVE CallInv(r)'
  <2>1. CASE r = s
    BY <2>1, Validated, WrapperAssumption, SMT
      DEF TypeOK, CallInv, Follow, Transmit, CheckRedirect, buildSafeRequestURL, shouldRetry
  <2>2. CASE r # s
    BY <2>2, Frame, SMT DEF TypeOK, Follow, Transmit
  <2> QED
    BY <2>1, <2>2
<1>3. TransmittedVetted'
  BY SMT DEF TypeOK, TransmittedVetted, CallInv, Follow, Transmit
<1>4. TransientMeansExhausted'
  BY SMT DEF TypeOK, TransientMeansExhausted, CallInv, Follow, Transmit
<1>5. SuccessIsBacked'
  BY SMT DEF TypeOK, SuccessIsBacked, CallInv, Follow, Transmit
<1> QED
  BY <1>1, <1>2, <1>3, <1>4, <1>5

LEMMA UseLastIInv ==
  ASSUME IInv, NEW s \in Sends, NEW u \in Location, UseLast(s, u)
  PROVE  IInv'
<1> USE DEF IInv
<1>1. TypeOK'
  BY WrapperAssumption, SMT DEF TypeOK, UseLast, Transmit, Respond, Status
<1>2. ASSUME NEW r \in Sends PROVE CallInv(r)'
  <2>1. CASE r = s
    BY <2>1, WrapperAssumption, SMT
      DEF TypeOK, CallInv, UseLast, Transmit, Respond, Status, buildSafeRequestURL, shouldRetry
  <2>2. CASE r # s
    <3>1. /\ pc'[r] = pc[r] /\ attempt'[r] = attempt[r] /\ limit'[r] = limit[r] /\ via'[r] = via[r]
          /\ requests'[r] = requests[r] /\ copies'[r] = copies[r] /\ sent'[r] = sent[r]
          /\ got'[r] = got[r] /\ result'[r] = result[r] /\ at'[r] = at[r] /\ req'[r] = req[r]
          /\ orig'[r] = orig[r] /\ seen'[r] = seen[r] /\ accepted' = accepted
      BY <2>2, SMT DEF TypeOK, UseLast, Transmit, Respond, Status
    <3>2. post'[r] = post[r] /\ taken'[r] = taken[r] /\ open'[r] = open[r]
      BY <2>2, SMT DEF TypeOK, UseLast, Transmit, Respond, Status
    <3> QED
      BY <3>1, <3>2, Frame
  <2> QED
    BY <2>1, <2>2
<1>3. TransmittedVetted'
  BY SMT DEF TypeOK, TransmittedVetted, CallInv, UseLast, Transmit, Respond, Status
<1>4. TransientMeansExhausted'
  BY SMT DEF TypeOK, TransientMeansExhausted, CallInv, UseLast, Transmit, Respond, Status
<1>5. SuccessIsBacked'
  BY SMT DEF TypeOK, SuccessIsBacked, CallInv, UseLast, Transmit, Respond, Status
<1> QED
  BY <1>1, <1>2, <1>3, <1>4, <1>5

LEMMA RefuseRedirectIInv ==
  ASSUME IInv, NEW s \in Sends, NEW u \in Location, RefuseRedirect(s, u)
  PROVE  IInv'
<1> USE DEF IInv
<1>1. TypeOK'
  BY WrapperAssumption, SMT DEF TypeOK, RefuseRedirect, Transmit, DoError, DoErrors
<1>2. ASSUME NEW r \in Sends PROVE CallInv(r)'
  <2>1. CASE r = s
    BY <2>1, WrapperAssumption, SMT
      DEF TypeOK, CallInv, RefuseRedirect, Transmit, DoError, DoErrors, buildSafeRequestURL, shouldRetry
  <2>2. CASE r # s
    BY <2>2, Frame, SMT DEF TypeOK, RefuseRedirect, Transmit, DoError, DoErrors
  <2> QED
    BY <2>1, <2>2
<1>3. TransmittedVetted'
  BY SMT DEF TypeOK, TransmittedVetted, CallInv, RefuseRedirect, Transmit, DoError, DoErrors
<1>4. TransientMeansExhausted'
  BY SMT DEF TypeOK, TransientMeansExhausted, CallInv, RefuseRedirect, Transmit, DoError, DoErrors
<1>5. SuccessIsBacked'
  BY SMT DEF TypeOK, SuccessIsBacked, CallInv, RefuseRedirect, Transmit, DoError, DoErrors
<1> QED
  BY <1>1, <1>2, <1>3, <1>4, <1>5

LEMMA AbortIInv ==
  ASSUME IInv, NEW s \in Sends, Abort(s)
  PROVE  IInv'
<1> USE DEF IInv
<1>1. TypeOK'
  BY WrapperAssumption, SMT DEF TypeOK, Abort, DoError, DoErrors, history
<1>2. ASSUME NEW r \in Sends PROVE CallInv(r)'
  <2>1. CASE r = s
    BY <2>1, WrapperAssumption, SMT
      DEF TypeOK, CallInv, Abort, DoError, DoErrors, history, buildSafeRequestURL, shouldRetry
  <2>2. CASE r # s
    BY <2>2, Frame, SMT DEF TypeOK, Abort, DoError, DoErrors, history
  <2> QED
    BY <2>1, <2>2
<1>3. TransmittedVetted'
  BY SMT DEF TypeOK, TransmittedVetted, CallInv, Abort, DoError, DoErrors, history
<1>4. TransientMeansExhausted'
  BY SMT DEF TypeOK, TransientMeansExhausted, CallInv, Abort, DoError, DoErrors, history
<1>5. SuccessIsBacked'
  BY SMT DEF TypeOK, SuccessIsBacked, CallInv, Abort, DoError, DoErrors, history
<1> QED
  BY <1>1, <1>2, <1>3, <1>4, <1>5

LEMMA HandleErrorIInv ==
  ASSUME IInv, NEW s \in Sends, HandleError(s)
  PROVE  IInv'
<1> USE DEF IInv
<1>1. TypeOK'
  BY WrapperAssumption, SMT DEF TypeOK, HandleError, More, Results, history
<1>2. ASSUME NEW r \in Sends PROVE CallInv(r)'
  <2>1. CASE r = s
    BY <2>1, WrapperAssumption, SMT
      DEF TypeOK, CallInv, HandleError, More, Results, history, buildSafeRequestURL, shouldRetry
  <2>2. CASE r # s
    BY <2>2, Frame, SMT DEF TypeOK, HandleError, More, Results, history
  <2> QED
    BY <2>1, <2>2
<1>3. TransmittedVetted'
  BY SMT DEF TypeOK, TransmittedVetted, CallInv, HandleError, More, Results, history
<1>4. TransientMeansExhausted'
  BY SMT DEF TypeOK, TransientMeansExhausted, CallInv, HandleError, More, history, shouldRetry
<1>5. SuccessIsBacked'
  BY SMT DEF TypeOK, SuccessIsBacked, CallInv, HandleError, More, Results, history
<1> QED
  BY <1>1, <1>2, <1>3, <1>4, <1>5

LEMMA ReadBodyIInv ==
  ASSUME IInv, NEW s \in Sends, NEW readable \in BOOLEAN, NEW closed \in BOOLEAN,
         ReadBody(s, readable, closed)
  PROVE  IInv'
<1> USE DEF IInv
<1>1. TypeOK'
  BY WrapperAssumption, SMT DEF TypeOK, ReadBody, Judge, More, Results, history, Status, DoErrors, shouldRetry
<1>2. ASSUME NEW r \in Sends PROVE CallInv(r)'
  <2>1. CASE r = s
    BY <2>1, WrapperAssumption, SMT
      DEF TypeOK, CallInv, ReadBody, Judge, More, Results, history, Status, DoErrors, shouldRetry, buildSafeRequestURL
  <2>2. CASE r # s
    <3>1. /\ pc'[r] = pc[r] /\ attempt'[r] = attempt[r] /\ limit'[r] = limit[r] /\ via'[r] = via[r]
          /\ requests'[r] = requests[r] /\ copies'[r] = copies[r] /\ sent'[r] = sent[r]
          /\ got'[r] = got[r] /\ result'[r] = result[r] /\ at'[r] = at[r] /\ req'[r] = req[r]
          /\ orig'[r] = orig[r] /\ seen'[r] = seen[r] /\ accepted' = accepted
      BY <2>2, SMT DEF TypeOK, ReadBody, Judge, More, Results, history, Status, DoErrors, shouldRetry
    <3>2. post'[r] = post[r] /\ taken'[r] = taken[r] /\ open'[r] = open[r]
      BY <2>2, SMT DEF TypeOK, ReadBody, Judge, More, Results, history, Status, DoErrors, shouldRetry
    <3> QED
      BY <3>1, <3>2, Frame
  <2> QED
    BY <2>1, <2>2
<1>3. TransmittedVetted'
  BY SMT DEF TypeOK, TransmittedVetted, CallInv, ReadBody, Judge, More, Results, history, Status, DoErrors, shouldRetry
<1>4. TransientMeansExhausted'
  <2> SUFFICES ASSUME NEW r \in Sends,
                      result'[r] = "transport" \/ (result'[r] = "status" /\ got'[r] \in {"429", "5xx"})
               PROVE  attempt'[r] = limit'[r]
    BY DEF TransientMeansExhausted
  <2>1. CASE r = s
    <3>1. attempt[s] <= limit[s] /\ attempt[s] \in Nat /\ limit[s] \in Nat /\ result[s] = "none"
      BY SMT DEF TypeOK, CallInv, ReadBody, Judge, More
    <3>2. result'[s] = "status" /\ got[s] \in {"429", "5xx"} /\ readable /\ closed
      <4>1. got'[s] = got[s] /\ result \in [Sends -> Results]
        BY SMT DEF TypeOK, ReadBody, Judge, More
      <4>2. CASE ~(readable /\ closed)
        <5>1. result'[s] = "unread"
          BY <3>1, <4>1, <4>2, SMT DEF ReadBody, Judge, More
        <5> QED
          BY <2>1, <5>1
      <4>3. CASE readable /\ closed
        <5>1. result'[s] \in {"none", "status", "ok"}
          BY <3>1, <4>1, <4>3, SMT DEF ReadBody, Judge, More
        <5> QED
          BY <2>1, <4>1, <4>3, <5>1
      <4> QED
        BY <4>2, <4>3
    <3>3. ~(attempt[s] < limit[s])
      BY <3>1, <3>2, SMT DEF TypeOK, ReadBody, Judge, More, shouldRetry
    <3> QED
      BY <2>1, <3>1, <3>3, SMT DEF ReadBody, Judge, More
  <2>2. CASE r # s
    BY <2>2, SMT DEF TypeOK, TransientMeansExhausted, ReadBody, Judge, More
  <2> QED
    BY <2>1, <2>2
<1>5. SuccessIsBacked'
  BY SMT DEF TypeOK, SuccessIsBacked, CallInv, ReadBody, Judge, More, Results, history, Status, DoErrors, shouldRetry
<1> QED
  BY <1>1, <1>2, <1>3, <1>4, <1>5

LEMMA RetryIInv ==
  ASSUME IInv, NEW s \in Sends, Retry(s)
  PROVE  IInv'
<1> USE DEF IInv
<1>1. TypeOK'
  BY BuildUrl, WrapperAssumption, SMT DEF TypeOK, Retry, NextAttempt, history
<1>2. ASSUME NEW r \in Sends PROVE CallInv(r)'
  <2>1. CASE r = s
    <3>1. /\ buildSafeRequestURL(req[s]) \in Url
          /\ attempt[s] \in Nat /\ limit[s] \in Nat /\ RedirectLimit \in Nat \ {0}
          /\ via[s] \in Nat /\ requests[s] \in Nat /\ copies[s] \in Nat
      BY BuildUrl, WrapperAssumption, SMT DEF TypeOK
    <3>2. (attempt[s] + 1 - 1) * RedirectLimit = (attempt[s] - 1) * RedirectLimit + RedirectLimit
      BY <3>1, OneMore
    <3>3. orig[s] # "nil" => requests'[s] <= (attempt'[s] - 1) * RedirectLimit + via'[s]
      BY <3>1, <3>2, SMT DEF TypeOK, CallInv, Retry, NextAttempt
    <3> QED
      BY <2>1, <3>1, <3>3, SMT DEF TypeOK, CallInv, Retry, NextAttempt
  <2>2. CASE r # s
    <3>1. /\ pc'[r] = pc[r] /\ attempt'[r] = attempt[r] /\ limit'[r] = limit[r] /\ via'[r] = via[r]
          /\ requests'[r] = requests[r] /\ copies'[r] = copies[r] /\ sent'[r] = sent[r]
          /\ got'[r] = got[r] /\ result'[r] = result[r] /\ at'[r] = at[r] /\ req'[r] = req[r]
          /\ orig'[r] = orig[r] /\ seen'[r] = seen[r] /\ accepted' = accepted
      BY <2>2, SMT DEF TypeOK, Retry, NextAttempt, history
    <3>2. post'[r] = post[r] /\ taken'[r] = taken[r] /\ open'[r] = open[r]
      BY <2>2, SMT DEF TypeOK, Retry, NextAttempt, history
    <3> QED
      BY <3>1, <3>2, Frame
  <2> QED
    BY <2>1, <2>2
<1>3. TransmittedVetted'
  BY SMT DEF TypeOK, TransmittedVetted, CallInv, Retry, NextAttempt, history
<1>4. TransientMeansExhausted'
  BY SMT DEF TypeOK, TransientMeansExhausted, CallInv, Retry, NextAttempt, history
<1>5. SuccessIsBacked'
  BY SMT DEF TypeOK, SuccessIsBacked, CallInv, Retry, NextAttempt, history
<1> QED
  BY <1>1, <1>2, <1>3, <1>4, <1>5

LEMMA RejectIInv ==
  ASSUME IInv, NEW s \in Sends, NEW oversized \in BOOLEAN, NEW n \in Policies,
         Reject(s, oversized, n)
  PROVE  IInv'
<1> USE DEF IInv
<1>1. TypeOK'
  BY WrapperAssumption, SMT DEF TypeOK, Reject, Results, history
<1>2. ASSUME NEW r \in Sends PROVE CallInv(r)'
  <2>1. CASE r = s
    BY <2>1, WrapperAssumption, SMT
      DEF TypeOK, CallInv, Reject, Results, history, buildSafeRequestURL, shouldRetry
  <2>2. CASE r # s
    BY <2>2, Frame, SMT DEF TypeOK, Reject, Results, history
  <2> QED
    BY <2>1, <2>2
<1>3. TransmittedVetted'
  BY SMT DEF TypeOK, TransmittedVetted, CallInv, Reject, Results, history
<1>4. TransientMeansExhausted'
  BY SMT DEF TypeOK, TransientMeansExhausted, CallInv, Reject, Results, history
<1>5. SuccessIsBacked'
  BY SMT DEF TypeOK, SuccessIsBacked, CallInv, Reject, Results, history
<1> QED
  BY <1>1, <1>2, <1>3, <1>4, <1>5

LEMMA BeginIInv ==
  ASSUME IInv, NEW s \in Sends, NEW n \in Policies, NEW policy \in ClientPolicies,
         Begin(s, n, policy)
  PROVE  IInv'
<1> USE DEF IInv
<1>1. TypeOK'
  BY BuildUrl, WrapperAssumption, SMT DEF TypeOK, Begin, Runs, history
<1>2. ASSUME NEW r \in Sends PROVE CallInv(r)'
  <2>1. CASE r = s
    BY <2>1, BuildUrl, Validated, WrapperAssumption, SMT
      DEF TypeOK, CallInv, Begin, Runs, history, buildSafeRequestURL, shouldRetry
  <2>2. CASE r # s
    BY <2>2, Frame, SMT DEF TypeOK, Begin, Runs, history
  <2> QED
    BY <2>1, <2>2
<1>3. TransmittedVetted'
  BY SMT DEF TypeOK, TransmittedVetted, CallInv, Begin, Runs, history
<1>4. TransientMeansExhausted'
  BY SMT DEF TypeOK, TransientMeansExhausted, CallInv, Begin, Runs, history
<1>5. SuccessIsBacked'
  BY SMT DEF TypeOK, SuccessIsBacked, CallInv, Begin, Runs, history
<1> QED
  BY <1>1, <1>2, <1>3, <1>4, <1>5

LEMMA CancelIInv ==
  ASSUME IInv, NEW s \in Sends, Cancel(s)
  PROVE  IInv'
<1> USE DEF IInv
<1>1. TypeOK'
  BY WrapperAssumption, SMT DEF TypeOK, Cancel, code, history
<1>2. ASSUME NEW r \in Sends PROVE CallInv(r)'
  <2>1. CASE r = s
    BY <2>1, WrapperAssumption, SMT
      DEF TypeOK, CallInv, Cancel, code, history, buildSafeRequestURL, shouldRetry
  <2>2. CASE r # s
    BY <2>2, Frame, SMT DEF TypeOK, Cancel, code, history
  <2> QED
    BY <2>1, <2>2
<1>3. TransmittedVetted'
  BY SMT DEF TypeOK, TransmittedVetted, CallInv, Cancel, code, history
<1>4. TransientMeansExhausted'
  BY SMT DEF TypeOK, TransientMeansExhausted, CallInv, Cancel, code, history
<1>5. SuccessIsBacked'
  BY SMT DEF TypeOK, SuccessIsBacked, CallInv, Cancel, code, history
<1> QED
  BY <1>1, <1>2, <1>3, <1>4, <1>5

LEMMA RebindIInv ==
  ASSUME IInv, NEW h \in SUBSET (Host \ Stable), Rebind(Stable \cup h)
  PROVE  IInv'
<1> USE DEF IInv
<1>1. TypeOK'
  BY WrapperAssumption, SMT DEF TypeOK, Rebind, code
<1>2. ASSUME NEW r \in Sends PROVE CallInv(r)'
  BY SMT DEF TypeOK, CallInv, Rebind, code, buildSafeRequestURL, shouldRetry
<1>3. TransmittedVetted'
  BY SMT DEF TypeOK, TransmittedVetted, Rebind, code
<1>4. TransientMeansExhausted' /\ SuccessIsBacked'
  BY SMT DEF TransientMeansExhausted, SuccessIsBacked, Rebind, code
<1> QED
  BY <1>1, <1>2, <1>3, <1>4

LEMMA StutterIInv == ASSUME IInv, UNCHANGED vars PROVE IInv'
BY SMT DEF IInv, TypeOK, CallInv, TransmittedVetted, TransientMeansExhausted, SuccessIsBacked,
           vars, code, history, buildSafeRequestURL, shouldRetry

LEMMA NextIInv == ASSUME IInv, Next PROVE IInv'
<1>1. ASSUME NEW s \in Sends, Enter(s) PROVE IInv'
  BY <1>1, RejectIInv, BeginIInv DEF Enter
<1>2. ASSUME NEW s \in Sends, Step(s) PROVE IInv'
  BY <1>2, AnswerIInv, LoseIInv, FollowIInv, UseLastIInv, RefuseRedirectIInv, AbortIInv,
     HandleErrorIInv, ReadBodyIInv, RetryIInv DEF Step
<1>3. ASSUME NEW s \in Sends, Cancel(s) PROVE IInv'
  BY <1>3, CancelIInv
<1> QED
  BY <1>1, <1>2, <1>3, RebindIInv DEF Next

\* The inductive invariant holds in every reachable state.
THEOREM Invariance == Spec => []IInv
<1>1. IInv /\ [Next]_vars => IInv'
  BY NextIInv, StutterIInv
<1> QED
  BY <1>1, InitIInv, PTL DEF Spec

\* Every variable always holds what its comment says.
THEOREM TypeCorrect == Spec => []TypeOK
<1>1. IInv => TypeOK
  BY DEF IInv
<1> QED
  BY <1>1, Invariance, PTL

\* No request, first or redirected, first try or retry, leaves for a flawed
\* URL or for a host that was never accepted during the call.
THEOREM Vetted == Spec => []TransmittedVetted
<1>1. IInv => TransmittedVetted
  BY DEF IInv
<1> QED
  BY <1>1, Invariance, PTL

\* Retries times redirects is bounded where the client has a redirect policy.
THEOREM Budget == Spec => []RequestBudget
<1>1. ASSUME IInv PROVE RequestBudget
  <2> SUFFICES ASSUME NEW s \in Sends, orig[s] # "nil"
               PROVE  attempt[s] <= limit[s] /\ requests[s] <= attempt[s] * RedirectLimit
    BY DEF RequestBudget
  <2>1. CallInv(s) /\ attempt[s] \in Nat /\ requests[s] \in Nat /\ via[s] \in Nat
        /\ RedirectLimit \in Nat \ {0}
    BY <1>1, WrapperAssumption, SMT DEF IInv, TypeOK
  <2>2. CASE attempt[s] = 0
    BY <2>1, <2>2, SMT DEF CallInv
  <2>3. CASE attempt[s] >= 1
    <3>1. (attempt[s] - 1) * RedirectLimit + RedirectLimit = attempt[s] * RedirectLimit
      BY <2>1, SMT
    <3> QED
      BY <2>1, <2>3, <3>1, SMT DEF CallInv
  <2> QED
    BY <2>1, <2>2, <2>3, SMT
<1> QED
  BY <1>1, Invariance, PTL

\* No response body outlives Send's look at the response.
THEOREM NoBodyLeak == Spec => []BodyClosed
<1>1. IInv => BodyClosed
  BY DEF IInv, CallInv, BodyClosed
<1> QED
  BY <1>1, Invariance, PTL

\* A transient failure is reported only when no attempt is left.
THEOREM Exhaustive == Spec => []TransientMeansExhausted
<1>1. IInv => TransientMeansExhausted
  BY DEF IInv
<1> QED
  BY <1>1, Invariance, PTL

\* At most one copy of the message is taken per attempt.
THEOREM BoundedDuplicates == Spec => []CopiesBounded
<1>1. IInv => CopiesBounded
  BY DEF IInv, CallInv, CopiesBounded
<1> QED
  BY <1>1, Invariance, PTL

\* A nil error is backed by a copy taken in the attempt that was answered.
THEOREM Backed == Spec => []SuccessIsBacked
<1>1. IInv => SuccessIsBacked
  BY DEF IInv
<1> QED
  BY <1>1, Invariance, PTL

\* What was answered for good is not sent again.
THEOREM NoResend == Spec => NoResendAfterAnswer
<1>1. ASSUME IInv, [Next]_vars, NEW s \in Sends, attempt'[s] > attempt[s], attempt[s] > 0
      PROVE  shouldRetry(got[s])
  <2> USE DEF IInv, TypeOK
  <2>1. ASSUME NEW r \in Sends, Enter(r) PROVE FALSE
    <3>1. pc[r] = "idle" /\ (attempt' = attempt \/ attempt' = [attempt EXCEPT ![r] = 1])
      BY <2>1 DEF Enter, Reject, Begin, Runs
    <3> QED
      BY <1>1, <3>1, SMT DEF CallInv
  <2>2. ASSUME NEW r \in Sends, Step(r) PROVE shouldRetry(got[s])
    <3>1. attempt' = attempt \/ Retry(r)
      BY <2>2 DEF Step, Answer, Lose, Follow, UseLast, RefuseRedirect, Abort, HandleError,
                  ReadBody
    <3>2. CASE attempt' = attempt
      BY <1>1, <3>2, SMT
    <3>3. CASE Retry(r)
      BY <1>1, <3>3, SMT DEF Retry, NextAttempt, CallInv
    <3> QED
      BY <3>1, <3>2, <3>3
  <2>3. ASSUME attempt' = attempt PROVE FALSE
    BY <1>1, <2>3, SMT
  <2>4. ASSUME NEW r \in Sends, Cancel(r) PROVE attempt' = attempt
    BY <2>4 DEF Cancel, code
  <2>5. ASSUME NEW h \in SUBSET (Host \ Stable), Rebind(Stable \cup h) PROVE attempt' = attempt
    BY <2>5 DEF Rebind, code
  <2>6. UNCHANGED vars => attempt' = attempt
    BY DEF vars, code
  <2> QED
    BY <1>1, <2>1, <2>2, <2>3, <2>4, <2>5, <2>6 DEF Next
<1>2. ASSUME IInv, [Next]_vars
      PROVE  [\A s \in Sends : attempt'[s] > attempt[s] /\ attempt[s] > 0 => shouldRetry(got[s])]_vars
  BY <1>1, <1>2
<1> QED
  BY <1>2, Invariance, PTL DEF Spec, NoResendAfterAnswer
-----------------------------------------------------------------------------
(***************************************************************************)
(* Wrapper implements Delivery, for any number of calls, any URLs, retry   *)
(* and redirect policies, and whatever the providers answer.               *)
(***************************************************************************)

\* A redirect that is taken for the answer is the last answer: Send judges it
\* and returns.
LastInv == \A s \in Sends : got[s] = "3xx" => pc[s] \in {"body", "done"}

LEMMA InitLast == Init => LastInv
BY SMT DEF Init, LastInv

LEMMA NextLast ==
  ASSUME IInv, LastInv, [Next]_vars
  PROVE  LastInv'
<1> USE DEF LastInv, TypeOK, IInv
<1>1. ASSUME NEW s \in Sends, Enter(s) PROVE LastInv'
  BY <1>1, SMT DEF Enter, Reject, Begin, Runs
<1>2. ASSUME NEW s \in Sends, Step(s) PROVE LastInv'
  <2>1. ASSUME NEW st \in Replies, NEW t \in BOOLEAN, Answer(s, st, t) PROVE LastInv'
    BY <2>1, SMT DEF Answer, Respond
  <2>2. ASSUME NEW t \in BOOLEAN, Lose(s, t) PROVE LastInv'
    BY <2>2, SMT DEF Lose, DoError
  <2>3. ASSUME NEW u \in Location, NEW rewrite \in Rewrites, Follow(s, u, rewrite) PROVE LastInv'
    BY <2>3, Zenon DEF Follow
  <2>4. ASSUME NEW u \in Location, UseLast(s, u) PROVE LastInv'
    BY <2>4, SMT DEF UseLast, Respond
  <2>5. ASSUME NEW u \in Location, RefuseRedirect(s, u) PROVE LastInv'
    BY <2>5, SMT DEF RefuseRedirect, DoError
  <2>6. CASE Abort(s)
    BY <2>6, SMT DEF Abort, DoError
  <2>7. CASE HandleError(s)
    <3>1. got[s] # "3xx"
      BY <2>7 DEF HandleError
    <3> QED
      BY <2>7, <3>1, SMT DEF HandleError, More
  <2>8. ASSUME NEW readable \in BOOLEAN, NEW closed \in BOOLEAN, ReadBody(s, readable, closed)
        PROVE  LastInv'
    <3>1. shouldRetry(got[s]) => got[s] # "3xx"
      BY DEF shouldRetry, DoErrors
    <3> QED
      BY <2>8, <3>1, SMT DEF ReadBody, Judge, More
  <2>9. CASE Retry(s)
    <3>1. got[s] # "3xx"
      BY <2>9 DEF Retry
    <3> QED
      BY <2>9, <3>1, SMT DEF Retry, NextAttempt
  <2> QED
    BY <1>2, <2>1, <2>2, <2>3, <2>4, <2>5, <2>6, <2>7, <2>8, <2>9 DEF Step
<1>3. ASSUME NEW s \in Sends, Cancel(s) PROVE LastInv'
  BY <1>3, SMT DEF Cancel, code
<1>4. ASSUME NEW h \in SUBSET (Host \ Stable), Rebind(Stable \cup h) PROVE LastInv'
  BY <1>4, SMT DEF Rebind, code
<1>5. CASE UNCHANGED vars
  BY <1>5, SMT DEF vars, code
<1> QED
  BY <1>1, <1>2, <1>3, <1>4, <1>5 DEF Next

\* Two functions on Sends that agree everywhere but at s differ by an EXCEPT.
LEMMA OneDiffers ==
  ASSUME NEW f, NEW g, NEW s \in Sends, NEW v,
         f = [r \in Sends |-> f[r]], g = [r \in Sends |-> g[r]],
         g[s] = v, \A r \in Sends : r # s => g[r] = f[r]
  PROVE  g = [f EXCEPT ![s] = v]
<1>1. DOMAIN g = Sends /\ DOMAIN [f EXCEPT ![s] = v] = Sends
  OBVIOUS
<1>2. \A r \in Sends : g[r] = [f EXCEPT ![s] = v][r]
  OBVIOUS
<1>3. [f EXCEPT ![s] = v] = [r \in Sends |-> [f EXCEPT ![s] = v][r]]
  OBVIOUS
<1>4. [r \in Sends |-> g[r]] = [r \in Sends |-> [f EXCEPT ![s] = v][r]]
  BY <1>2
<1> QED
  BY <1>3, <1>4

LEMMA Functions ==
  /\ phase = [r \in Sends |-> phase[r]] /\ phase' = [r \in Sends |-> phase'[r]]
  /\ budget = [r \in Sends |-> budget[r]] /\ budget' = [r \in Sends |-> budget'[r]]
  /\ detoured = [r \in Sends |-> detoured[r]] /\ detoured' = [r \in Sends |-> detoured'[r]]
BY DEF phase, budget, detoured

\* An answer other than a 3xx, and a request that stays what it is, detour
\* nothing.
LEMMA Straight ==
  ASSUME TypeOK, NEW s \in Sends, post' = post, got[s] # "3xx",
         \/ got' = got
         \/ \E g \in (Status \ {"3xx"}) \cup DoErrors : got' = [got EXCEPT ![s] = g]
  PROVE  detoured' = detoured
<1>1. \A r \in Sends : (got'[r] = "3xx") <=> (got[r] = "3xx")
  BY SMT DEF TypeOK, DoErrors
<1> QED
  BY <1>1, Zenon DEF detoured

\* A 3xx that is taken for the answer detours its call, and no other.
LEMMA Replied ==
  ASSUME TypeOK, NEW s \in Sends, post' = post, got' = [got EXCEPT ![s] = "3xx"]
  PROVE  detoured'[s] /\ \A r \in Sends : r # s => detoured'[r] = detoured[r]
<1>1. got'[s] = "3xx" /\ \A r \in Sends : r # s => got'[r] = got[r]
  BY SMT DEF TypeOK
<1> QED
  BY <1>1, Zenon DEF detoured

\* A step that neither starts, ends nor retries a call, and has nothing taken
\* or detoured, is invisible to the contract.
LEMMA Invisible ==
  ASSUME TypeOK, NEW s \in Sends,
         \/ pc' = pc
         \/ \E p \in {"body", "error", "wait"} : pc' = [pc EXCEPT ![s] = p],
         pc[s] \in {"send", "body", "error"} \/ pc' = pc,
         UNCHANGED <<attempt, limit, result, taken, copies>>, detoured' = detoured
  PROVE  UNCHANGED Contract!vars
<1>1. phase' = phase
  BY SMT DEF TypeOK, phase
<1>2. budget' = budget
  BY SMT DEF budget
<1> QED
  BY <1>1, <1>2 DEF Contract!vars

\* A copy is taken in an attempt that had none.
LEMMA TakesOne ==
  ASSUME TypeOK, NEW s \in Sends, pc[s] = "send", ~taken[s],
         \E p \in {"body", "error"} : pc' = [pc EXCEPT ![s] = p],
         taken' = [taken EXCEPT ![s] = TRUE], copies' = [copies EXCEPT ![s] = @ + 1],
         UNCHANGED <<attempt, limit, result>>, ~detoured[s], detoured' = detoured
  PROVE  Contract!Take(s)
<1>1. phase' = phase /\ phase[s] = "running"
  BY SMT DEF TypeOK, phase
<1>2. budget' = budget
  BY SMT DEF budget
<1> QED
  BY <1>1, <1>2 DEF Contract!Take

\* A redirect ends or empties an attempt that had none, or one more follows it.
LEMMA Detours ==
  ASSUME TypeOK, NEW s \in Sends, pc[s] = "send", ~taken[s],
         pc' = pc \/ pc' = [pc EXCEPT ![s] = "body"],
         UNCHANGED <<attempt, limit, result, taken, copies>>,
         detoured'[s], \A r \in Sends : r # s => detoured'[r] = detoured[r]
  PROVE  Contract!Detour(s) \/ UNCHANGED Contract!vars
<1>1. phase' = phase /\ phase[s] = "running"
  BY SMT DEF TypeOK, phase
<1>2. budget' = budget
  BY SMT DEF budget
<1>3. detoured'[s] = TRUE
  BY DEF detoured
<1>4. detoured' = [detoured EXCEPT ![s] = TRUE]
  BY <1>3, Functions, OneDiffers
<1>5. CASE detoured[s]
  <2>1. detoured[s] = TRUE
    BY <1>5 DEF detoured
  <2>2. \A r \in Sends : detoured'[r] = detoured[r]
    BY <1>3, <2>1
  <2>3. detoured' = detoured
    BY <2>2, Functions
  <2> QED
    BY <1>1, <1>2, <2>3 DEF Contract!vars
<1>6. CASE ~detoured[s]
  BY <1>1, <1>2, <1>4, <1>6 DEF Contract!Detour
<1> QED
  BY <1>5, <1>6

\* A call under way ends with result res.
LEMMA Ends ==
  ASSUME TypeOK, NEW s \in Sends, pc[s] \in {"body", "error"}, NEW res \in Results,
         pc' = [pc EXCEPT ![s] = "done"], result' = [result EXCEPT ![s] = res],
         res = "ok" => taken[s] \/ detoured[s],
         UNCHANGED <<attempt, limit, taken, copies>>, detoured' = detoured
  PROVE  Contract!Succeed(s) \/ Contract!Fail(s)
<1>1. phase[s] = "running"
  BY SMT DEF phase
<1>2. phase' = [phase EXCEPT ![s] = IF res = "ok" THEN "ok" ELSE "failed"]
  <2>1. phase'[s] = IF res = "ok" THEN "ok" ELSE "failed"
    BY SMT DEF TypeOK, phase
  <2>2. \A r \in Sends : r # s => phase'[r] = phase[r]
    BY SMT DEF TypeOK, phase
  <2> QED
    BY <2>1, <2>2, Functions, OneDiffers
<1>3. budget' = budget
  BY SMT DEF budget
<1>4. CASE res = "ok"
  BY <1>1, <1>2, <1>3, <1>4 DEF Contract!Succeed
<1>5. CASE res # "ok"
  BY <1>1, <1>2, <1>3, <1>5 DEF Contract!Fail
<1> QED
  BY <1>4, <1>5

LEMMA RefineInit == Init => Contract!Init
<1> SUFFICES ASSUME Init PROVE Contract!Init
  OBVIOUS
<1>1. phase = [s \in Sends |-> "idle"] /\ budget = [s \in Sends |-> 0]
  BY SMT DEF Init, phase, budget
<1>2. \A s \in Sends : got[s] # "3xx"
  <2>1. got = [s \in Sends |-> "nothing"]
    BY Zenon DEF Init
  <2> QED
    BY <2>1
<1>3. detoured = [s \in Sends |-> FALSE]
  <2>1. \A s \in Sends : post[s]
    BY Zenon DEF Init
  <2> QED
    BY <1>2, <2>1, Zenon DEF detoured
<1> QED
  BY <1>1, <1>3 DEF Init, Contract!Init

LEMMA RefineEnter ==
  ASSUME IInv, NEW s \in Sends, Enter(s)
  PROVE  Contract!Next
<1>1. ASSUME NEW oversized \in BOOLEAN, NEW n \in Policies, Reject(s, oversized, n)
      PROVE  Contract!Refuse(s)
  <2>1. phase[s] = "idle"
    BY <1>1, SMT DEF Reject, phase
  <2>2. phase' = [phase EXCEPT ![s] = "failed"]
    <3> DEFINE res == IF oversized \/ ~validateDestination(req[s], accepted)
                      THEN "rejected" ELSE "exhausted"
    <3>1. /\ pc' = [pc EXCEPT ![s] = "done"]
          /\ result' = [result EXCEPT ![s] = res]
      BY <1>1 DEF Reject
    <3>2. res # "ok"
      OBVIOUS
    <3> HIDE DEF res
    <3>3. phase'[s] = "failed"
      BY <3>1, <3>2, SMT DEF IInv, TypeOK, phase
    <3>4. \A r \in Sends : r # s => phase'[r] = phase[r]
      BY <3>1, SMT DEF IInv, TypeOK, phase
    <3> QED
      BY <3>3, <3>4, Functions, OneDiffers
  <2>3. budget' = budget /\ UNCHANGED <<taken, copies, detoured>>
    BY <1>1, SMT DEF Reject, budget, detoured, history
  <2> QED
    BY <2>1, <2>2, <2>3 DEF Contract!Refuse
<1>2. ASSUME NEW n \in Policies, NEW policy \in ClientPolicies, Begin(s, n, policy)
      PROVE  Contract!Start(s, n)
  <2>1. phase' = [phase EXCEPT ![s] = "running"]
    <3>1. phase'[s] = "running"
      BY <1>2, SMT DEF IInv, TypeOK, Begin, Runs, phase
    <3>2. \A r \in Sends : r # s => phase'[r] = phase[r]
      BY <1>2, SMT DEF IInv, TypeOK, Begin, Runs, phase
    <3> QED
      BY <3>1, <3>2, Functions, OneDiffers
  <2>2. budget' = [budget EXCEPT ![s] = n]
    <3>1. budget'[s] = n
      BY <1>2, WrapperAssumption, SMT DEF IInv, TypeOK, Begin, Runs, budget
    <3>2. \A r \in Sends : r # s => budget'[r] = budget[r]
      BY <1>2, SMT DEF IInv, TypeOK, Begin, Runs, budget
    <3> QED
      BY <3>1, <3>2, Functions, OneDiffers
  <2>3. phase[s] = "idle" /\ detoured' = detoured
    BY <1>2, SMT DEF Begin, Runs, phase, detoured
  <2> QED
    BY <1>2, <2>1, <2>2, <2>3 DEF Begin, Runs, Contract!Start
<1> QED
  BY <1>1, <1>2 DEF Enter, Contract!Next

LEMMA RefineStep ==
  ASSUME IInv, LastInv, NEW s \in Sends, Step(s)
  PROVE  Contract!Next \/ UNCHANGED Contract!vars
<1> USE DEF IInv
<1>0. pc[s] \notin {"body", "done"} => got[s] # "3xx"
  BY DEF LastInv
<1>1. ASSUME NEW t \in BOOLEAN, pc[s] = "send", Consume(s, t), post' = post,
             \E p \in {"body", "error"} : pc' = [pc EXCEPT ![s] = p],
             \E g \in (Status \ {"3xx"}) \cup DoErrors : got' = [got EXCEPT ![s] = g],
             UNCHANGED <<attempt, limit, result>>
      PROVE  Contract!Take(s) \/ UNCHANGED Contract!vars
  <2>1. ~taken[s] /\ detoured' = detoured
    BY <1>0, <1>1, Straight DEF CallInv
  <2>2. CASE t = TRUE
    <3>1. taken' = [taken EXCEPT ![s] = TRUE] /\ copies' = [copies EXCEPT ![s] = @ + 1]
      BY <1>1, <2>2 DEF Consume
    <3>2. ~detoured[s]
      BY <1>0, <1>1, <2>2 DEF Consume, detoured
    <3> QED
      BY <1>1, <2>1, <3>1, <3>2, TakesOne
  <2>3. CASE t = FALSE
    <3>1. taken' = taken
      BY <1>1, <2>1, <2>3 DEF Consume, TypeOK
    <3>2. copies' = copies
      BY <1>1, <2>3, SMT DEF Consume, TypeOK
    <3> QED
      BY <1>1, <2>1, <3>1, <3>2, Invisible
  <2> QED
    BY <2>2, <2>3
<1>2. ASSUME NEW st \in Replies, NEW t \in BOOLEAN, Answer(s, st, t)
      PROVE  Contract!Take(s) \/ Contract!Detour(s) \/ UNCHANGED Contract!vars
  <2>0. st \in Status
    BY WrapperAssumption
  <2>1. CASE st # "3xx"
    <3>1. st \in (Status \ {"3xx"}) \cup DoErrors
      BY <2>0, <2>1
    <3>2. pc[s] = "send" /\ Consume(s, t) /\ post' = post /\ pc' = [pc EXCEPT ![s] = "body"]
          /\ got' = [got EXCEPT ![s] = st] /\ UNCHANGED <<attempt, limit, result>>
      BY <1>2 DEF Answer, Transmit, Respond
    <3> QED
      BY <1>1, <3>1, <3>2
  <2>2. CASE st = "3xx"
    <3>1. ~t /\ pc[s] = "send" /\ pc' = [pc EXCEPT ![s] = "body"] /\ UNCHANGED <<attempt, limit, result>>
          /\ post' = post /\ got' = [got EXCEPT ![s] = "3xx"] /\ Consume(s, t)
      BY <1>2, <2>2 DEF Answer, Transmit, Respond
    <3>2. ~taken[s]
      BY <3>1 DEF CallInv
    <3>3. taken' = taken /\ copies' = copies
      <4>1. t = FALSE
        BY <3>1
      <4>2. taken' = taken
        BY <3>1, <3>2, <4>1 DEF Consume, TypeOK
      <4> QED
        BY <3>1, <4>1, <4>2, SMT DEF Consume, TypeOK
    <3>4. detoured'[s] /\ \A r \in Sends : r # s => detoured'[r] = detoured[r]
      BY <3>1, Replied
    <3> QED
      BY <3>1, <3>2, <3>3, <3>4, Detours
  <2> QED
    BY <2>1, <2>2
<1>3. ASSUME NEW t \in BOOLEAN, Lose(s, t)
      PROVE  Contract!Take(s) \/ UNCHANGED Contract!vars
  <2>1. "lost" \in (Status \ {"3xx"}) \cup DoErrors
    BY DEF DoErrors
  <2>2. pc[s] = "send" /\ Consume(s, t) /\ post' = post /\ pc' = [pc EXCEPT ![s] = "error"]
        /\ got' = [got EXCEPT ![s] = "lost"] /\ UNCHANGED <<attempt, limit, result>>
    BY <1>3 DEF Lose, Transmit, DoError
  <2> QED
    BY <1>1, <2>1, <2>2
<1>4. ASSUME NEW u \in Location, NEW rewrite \in Rewrites, Follow(s, u, rewrite)
      PROVE  Contract!Detour(s) \/ UNCHANGED Contract!vars
  <2>1. pc[s] = "send" /\ pc' = pc /\ got' = got /\ UNCHANGED <<attempt, limit, result, taken, copies>>
        /\ post' = [post EXCEPT ![s] = @ /\ ~rewrite]
    BY <1>4 DEF Follow, Transmit
  <2>2. ~taken[s]
    BY <2>1 DEF CallInv
  <2>3. rewrite \in BOOLEAN
    BY WrapperAssumption
  <2>4. CASE rewrite
    <3>1. ~post'[s] /\ \A r \in Sends : r # s => post'[r] = post[r]
      BY <2>1, <2>4, Zenon DEF TypeOK
    <3>2. detoured'[s] /\ \A r \in Sends : r # s => detoured'[r] = detoured[r]
      BY <2>1, <3>1, Zenon DEF detoured
    <3> QED
      BY <2>1, <2>2, <3>2, Detours
  <2>5. CASE ~rewrite
    <3>1. \A r \in Sends : post'[r] = post[r]
      <4>1. post \in [Sends -> BOOLEAN]
        BY DEF TypeOK
      <4>2. (post[s] /\ ~rewrite) = post[s]
        BY <2>5, <4>1
      <4> QED
        BY <2>1, <4>1, <4>2
    <3>2. detoured' = detoured
      BY <2>1, <3>1, Zenon DEF detoured
    <3> QED
      BY <2>1, <3>2, Invisible
  <2> QED
    BY <2>3, <2>4, <2>5
<1>5. ASSUME NEW u \in Location, UseLast(s, u)
      PROVE  Contract!Detour(s) \/ UNCHANGED Contract!vars
  <2>1. pc[s] = "send" /\ pc' = [pc EXCEPT ![s] = "body"] /\ UNCHANGED <<attempt, limit, result, taken, copies>>
        /\ post' = post /\ got' = [got EXCEPT ![s] = "3xx"]
    BY <1>5 DEF UseLast, Transmit, Respond
  <2>2. ~taken[s]
    BY <2>1 DEF CallInv
  <2>3. detoured'[s] /\ \A r \in Sends : r # s => detoured'[r] = detoured[r]
    BY <2>1, Replied
  <2> QED
    BY <2>1, <2>2, <2>3, Detours
<1>6. ASSUME NEW u \in Location, RefuseRedirect(s, u) PROVE UNCHANGED Contract!vars
  <2>1. pc[s] = "send" /\ pc' = [pc EXCEPT ![s] = "error"] /\ UNCHANGED <<attempt, limit, result, taken, copies>>
        /\ post' = post /\ got' = [got EXCEPT ![s] = "refused"]
    BY <1>6 DEF RefuseRedirect, Transmit, DoError
  <2>2. detoured' = detoured
    BY <1>0, <2>1, Straight DEF DoErrors
  <2> QED
    BY <2>1, <2>2, Invisible
<1>7. ASSUME Abort(s) PROVE UNCHANGED Contract!vars
  <2>1. pc[s] = "send" /\ pc' = [pc EXCEPT ![s] = "error"] /\ UNCHANGED <<attempt, limit, result, taken, copies>>
        /\ post' = post /\ got' = [got EXCEPT ![s] = "aborted"]
    BY <1>7 DEF Abort, DoError, history
  <2>2. detoured' = detoured
    BY <1>0, <2>1, Straight DEF DoErrors
  <2> QED
    BY <2>1, <2>2, Invisible
<1>8. ASSUME HandleError(s)
      PROVE  Contract!Succeed(s) \/ Contract!Fail(s) \/ UNCHANGED Contract!vars
  <2>0. detoured' = detoured
    BY <1>8 DEF HandleError, detoured
  <2>1. CASE attempt[s] < limit[s] /\ shouldRetry(got[s])
    BY <1>8, <2>0, <2>1, Invisible DEF HandleError, More, history
  <2>2. CASE ~(attempt[s] < limit[s] /\ shouldRetry(got[s]))
    BY <1>8, <2>0, <2>2, Ends DEF HandleError, More, history, Results
  <2> QED
    BY <2>1, <2>2
<1>9. ASSUME NEW readable \in BOOLEAN, NEW closed \in BOOLEAN, ReadBody(s, readable, closed)
      PROVE  Contract!Succeed(s) \/ Contract!Fail(s) \/ UNCHANGED Contract!vars
  <2> DEFINE again == readable /\ closed /\ shouldRetry(got[s]) /\ attempt[s] < limit[s]
  <2>0. detoured' = detoured
    BY <1>9 DEF ReadBody, detoured
  <2>1. CASE again
    BY <1>9, <2>0, <2>1, Invisible DEF ReadBody, Judge, More, history
  <2>2. CASE ~again
    <3> DEFINE res == IF ~(readable /\ closed) THEN "unread"
                      ELSE IF got[s] \in {"4xx", "429", "5xx"} THEN "status" ELSE "ok"
    <3>1. pc[s] = "body" /\ pc' = [pc EXCEPT ![s] = "done"] /\ result' = [result EXCEPT ![s] = res]
          /\ UNCHANGED <<attempt, limit, taken, copies>>
      BY <1>9, <2>2 DEF ReadBody, Judge, More, history
    <3>2. res \in Results
      BY DEF Results
    <3>3. res = "ok" => taken[s] \/ detoured[s]
      <4>1. res = "ok" => got[s] \notin {"4xx", "429", "5xx"}
        OBVIOUS
      <4>2. res = "ok" => got[s] \in {"2xx", "3xx"} /\ (got[s] = "2xx" => taken[s] \/ ~post[s])
        BY <3>1, <4>1 DEF CallInv, Status
      <4> QED
        BY <4>2 DEF detoured
    <3> HIDE DEF res
    <3> QED
      BY <2>0, <3>1, <3>2, <3>3, Ends
  <2> QED
    BY <2>1, <2>2
<1>10. ASSUME Retry(s) PROVE Contract!Retry(s)
  <2>1. phase[s] = "running" /\ phase' = phase
    BY <1>10, SMT DEF TypeOK, Retry, NextAttempt, phase
  <2>2. attempt[s] < limit[s] /\ attempt[s] >= 1 /\ attempt[s] \in Nat /\ limit[s] \in Nat
    BY <1>10, SMT DEF TypeOK, CallInv, Retry, NextAttempt
  <2>3. budget[s] > 1
    BY <2>2, SMT DEF budget
  <2>4. budget' = [budget EXCEPT ![s] = @ - 1]
    <3>1. budget'[s] = budget[s] - 1
      BY <1>10, <2>2, SMT DEF TypeOK, Retry, NextAttempt, budget
    <3>2. \A r \in Sends : r # s => budget'[r] = budget[r]
      BY <1>10, SMT DEF TypeOK, Retry, NextAttempt, budget
    <3> QED
      BY <3>1, <3>2, Functions, OneDiffers
  <2>5. detoured' = [detoured EXCEPT ![s] = FALSE]
    <3>1. detoured'[s] = FALSE
      <4>1. post'[s] /\ got'[s] # "3xx"
        BY <1>0, <1>10, Zenon DEF TypeOK, Retry
      <4> QED
        BY <4>1 DEF detoured
    <3>2. \A r \in Sends : r # s => detoured'[r] = detoured[r]
      BY <1>10, SMT DEF TypeOK, Retry, detoured
    <3> QED
      BY <3>1, <3>2, Functions, OneDiffers
  <2> QED
    BY <1>10, <2>1, <2>3, <2>4, <2>5 DEF Retry, NextAttempt, Contract!Retry
<1> QED
  BY <1>2, <1>3, <1>4, <1>5, <1>6, <1>7, <1>8, <1>9, <1>10 DEF Step, Contract!Next

\* Send keeps the contract of Delivery: a nil error means that the message was
\* taken in that attempt, or that a redirect was followed with a GET or stands
\* for the answer; and no attempt delivers twice, redirects included.
THEOREM Refinement == Spec => Implements
<1>1. ASSUME IInv, LastInv, [Next]_vars PROVE [Contract!Next]_(Contract!vars)
  <2>1. ASSUME NEW s \in Sends, Cancel(s) PROVE UNCHANGED Contract!vars
    BY <2>1 DEF Cancel, code, history, Contract!vars, phase, budget, detoured
  <2>2. ASSUME NEW h \in SUBSET (Host \ Stable), Rebind(Stable \cup h)
        PROVE  UNCHANGED Contract!vars
    BY <2>2 DEF Rebind, code, Contract!vars, phase, budget, detoured
  <2>3. CASE UNCHANGED vars
    BY <2>3 DEF vars, code, history, Contract!vars, phase, budget, detoured
  <2> QED
    BY <1>1, <2>1, <2>2, <2>3, RefineEnter, RefineStep DEF Next
<1>2. IInv /\ LastInv /\ [Next]_vars => LastInv'
  BY NextLast
<1> QED
  BY <1>1, <1>2, RefineInit, InitLast, Invariance, PTL DEF Spec, Implements, Contract!Spec
=============================================================================
