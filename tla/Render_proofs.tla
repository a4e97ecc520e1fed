---------------------------- MODULE Render_proofs ----------------------------
(* Render's invariants for any calls and any length of the output. *)
EXTENDS Render, TLAPS

LEMMA InitIInv == Init => IInv
  BY RenderAssumption DEF Init, IInv, TypeOK, CallInv, TextIsComplete, MessageReleased, Capacity

LEMMA RefuseIInv == ASSUME IInv, NEW r \in Renders, Refuse(r) PROVE IInv'
  <1> USE RenderAssumption
  <1>1. TypeOK' BY DEF IInv, TypeOK, CallInv, Refuse, Capacity, Return
  <1>2. \A q \in Renders : CallInv(q)' BY DEF IInv, TypeOK, CallInv, Refuse, Capacity, Return
  <1>3. TextIsComplete' BY DEF IInv, TypeOK, CallInv, TextIsComplete, Refuse, Capacity, Return
  <1>4. MessageReleased' BY DEF IInv, TypeOK, CallInv, MessageReleased, Refuse, Capacity, Return
  <1> QED BY <1>1, <1>2, <1>3, <1>4 DEF IInv

LEMMA StartIInv == ASSUME IInv, NEW r \in Renders, Start(r) PROVE IInv'
  <1> USE RenderAssumption
  <1>1. TypeOK' BY DEF IInv, TypeOK, CallInv, Start, Capacity
  <1>2. \A q \in Renders : CallInv(q)' BY DEF IInv, TypeOK, CallInv, Start, Capacity
  <1>3. TextIsComplete' BY DEF IInv, TypeOK, CallInv, TextIsComplete, Start, Capacity
  <1>4. MessageReleased' BY DEF IInv, TypeOK, CallInv, MessageReleased, Start, Capacity
  <1> QED BY <1>1, <1>2, <1>3, <1>4 DEF IInv

LEMMA ReceiveIInv == ASSUME IInv, NEW r \in Renders, Receive(r) PROVE IInv'
  <1> USE RenderAssumption
  <1>1. TypeOK' BY DEF IInv, TypeOK, CallInv, Receive, Capacity, Return
  <1>2. \A q \in Renders : CallInv(q)' BY DEF IInv, TypeOK, CallInv, Receive, Capacity, Return
  <1>3. TextIsComplete' BY DEF IInv, TypeOK, CallInv, TextIsComplete, Receive, Capacity, Return
  <1>4. MessageReleased' BY DEF IInv, TypeOK, CallInv, MessageReleased, Receive, Capacity, Return
  <1> QED BY <1>1, <1>2, <1>3, <1>4 DEF IInv

LEMMA TimeOutIInv == ASSUME IInv, NEW r \in Renders, TimeOut(r) PROVE IInv'
  <1> USE RenderAssumption
  <1>1. TypeOK' BY DEF IInv, TypeOK, CallInv, TimeOut, Capacity, Return
  <1>2. \A q \in Renders : CallInv(q)' BY DEF IInv, TypeOK, CallInv, TimeOut, Capacity, Return
  <1>3. TextIsComplete' BY DEF IInv, TypeOK, CallInv, TextIsComplete, TimeOut, Capacity, Return
  <1>4. MessageReleased' BY DEF IInv, TypeOK, CallInv, MessageReleased, TimeOut, Capacity, Return
  <1> QED BY <1>1, <1>2, <1>3, <1>4 DEF IInv

LEMMA ReturnTextIInv == ASSUME IInv, NEW r \in Renders, ReturnText(r) PROVE IInv'
  <1> USE RenderAssumption
  <1>1. TypeOK' BY DEF IInv, TypeOK, CallInv, ReturnText, Capacity, Return
  <1>2. \A q \in Renders : CallInv(q)' BY DEF IInv, TypeOK, CallInv, ReturnText, Capacity, Return
  <1>3. TextIsComplete' BY DEF IInv, TypeOK, CallInv, TextIsComplete, ReturnText, Capacity, Return
  <1>4. MessageReleased' BY DEF IInv, TypeOK, CallInv, MessageReleased, ReturnText, Capacity, Return
  <1> QED BY <1>1, <1>2, <1>3, <1>4 DEF IInv

LEMMA WriteIInv == ASSUME IInv, NEW r \in Renders, Write(r) PROVE IInv'
  <1> USE RenderAssumption
  <1>1. TypeOK' BY DEF IInv, TypeOK, CallInv, Write, Capacity
  <1>2. \A q \in Renders : CallInv(q)' BY DEF IInv, TypeOK, CallInv, Write, Capacity
  <1>3. TextIsComplete' BY DEF IInv, TypeOK, CallInv, TextIsComplete, Write, Capacity
  <1>4. MessageReleased' BY DEF IInv, TypeOK, CallInv, MessageReleased, Write, Capacity
  <1> QED BY <1>1, <1>2, <1>3, <1>4 DEF IInv

LEMMA ExecutedIInv == ASSUME IInv, NEW r \in Renders, NEW e \in {"nil", "failed"}, Executed(r, e) PROVE IInv'
  <1> USE RenderAssumption
  <1>1. TypeOK' BY DEF IInv, TypeOK, CallInv, Executed, Capacity
  <1>2. \A q \in Renders : CallInv(q)' BY DEF IInv, TypeOK, CallInv, Executed, Capacity
  <1>3. TextIsComplete' BY DEF IInv, TypeOK, CallInv, TextIsComplete, Executed, Capacity
  <1>4. MessageReleased' BY DEF IInv, TypeOK, CallInv, MessageReleased, Executed, Capacity
  <1> QED BY <1>1, <1>2, <1>3, <1>4 DEF IInv

LEMMA ReportIInv == ASSUME IInv, NEW r \in Renders, Report(r) PROVE IInv'
  <1> USE RenderAssumption
  <1>1. TypeOK' BY DEF IInv, TypeOK, CallInv, Report, Capacity
  <1>2. \A q \in Renders : CallInv(q)' BY DEF IInv, TypeOK, CallInv, Report, Capacity
  <1>3. TextIsComplete' BY DEF IInv, TypeOK, CallInv, TextIsComplete, Report, Capacity
  <1>4. MessageReleased' BY DEF IInv, TypeOK, CallInv, MessageReleased, Report, Capacity
  <1> QED BY <1>1, <1>2, <1>3, <1>4 DEF IInv

LEMMA ExpireIInv == ASSUME IInv, NEW r \in Renders, Expire(r) PROVE IInv'
  <1> USE RenderAssumption
  <1>1. TypeOK' BY DEF IInv, TypeOK, CallInv, Expire, Capacity
  <1>2. \A q \in Renders : CallInv(q)' BY DEF IInv, TypeOK, CallInv, Expire, Capacity
  <1>3. TextIsComplete' BY DEF IInv, TypeOK, CallInv, TextIsComplete, Expire, Capacity
  <1>4. MessageReleased' BY DEF IInv, TypeOK, CallInv, MessageReleased, Expire, Capacity
  <1> QED BY <1>1, <1>2, <1>3, <1>4 DEF IInv

LEMMA NextIInv == IInv /\ [Next]_vars => IInv'
  <1> SUFFICES ASSUME IInv, [Next]_vars PROVE IInv' OBVIOUS
  <1>1. ASSUME NEW r \in Renders, Refuse(r) PROVE IInv' BY <1>1, RefuseIInv
  <1>2. ASSUME NEW r \in Renders, Start(r) PROVE IInv' BY <1>2, StartIInv
  <1>3. ASSUME NEW r \in Renders, Receive(r) PROVE IInv' BY <1>3, ReceiveIInv
  <1>4. ASSUME NEW r \in Renders, TimeOut(r) PROVE IInv' BY <1>4, TimeOutIInv
  <1>5. ASSUME NEW r \in Renders, ReturnText(r) PROVE IInv' BY <1>5, ReturnTextIInv
  <1>6. ASSUME NEW r \in Renders, Write(r) PROVE IInv' BY <1>6, WriteIInv
  <1>7. ASSUME NEW r \in Renders, NEW e \in {"nil", "failed"}, Executed(r, e) PROVE IInv' BY <1>7, ExecutedIInv
  <1>8. ASSUME NEW r \in Renders, Report(r) PROVE IInv' BY <1>8, ReportIInv
  <1>9. ASSUME NEW r \in Renders, Expire(r) PROVE IInv' BY <1>9, ExpireIInv
  <1>10. ASSUME UNCHANGED vars PROVE IInv'
    BY <1>10 DEF vars, IInv, TypeOK, CallInv, TextIsComplete, MessageReleased
  <1> QED BY <1>1, <1>2, <1>3, <1>4, <1>5, <1>6, <1>7, <1>8, <1>9, <1>10 DEF Next, Caller, Worker

\* The strengthened invariant of Render, the goroutine's steps interleaved with
\* the caller's in every way.
THEOREM Invariance == Spec => []IInv
  BY InitIInv, NextIInv, PTL DEF Spec

\* Render never returns a part of the output, nor the output of a template
\* that failed, as the text.
THEOREM Complete == Spec => []TextIsComplete
  <1>1. IInv => TextIsComplete BY DEF IInv
  <1> QED BY <1>1, Invariance, PTL

\* The caller reads the bytes.Buffer only after the goroutine is done with it.
THEOREM RaceFree == Spec => []NoBufferRace
  <1>1. IInv => NoBufferRace BY DEF IInv, CallInv, NoBufferRace
  <1> QED BY <1>1, Invariance, PTL

\* After any return but the timeout the message is the host's again.
THEOREM Released == Spec => []MessageReleased
  <1>1. IInv => MessageReleased BY DEF IInv
  <1> QED BY <1>1, Invariance, PTL
=============================================================================
