------------------------ MODULE RedirectGuard_proofs ------------------------
(* The redirect guard's invariants for any calls, Wrappers and clients. *)
EXTENDS RedirectGuard, FiniteSetTheorems, TLAPS

\* A new guard is the last of the chain, and the earlier ones stay.
LEMMA Appended ==
  ASSUME NEW chain \in Seq(Wrappers), NEW w \in Wrappers
  PROVE  /\ Append(chain, w) \in Seq(Wrappers)
         /\ Len(Append(chain, w)) = Len(chain) + 1
         /\ Len(chain) \in Nat
         /\ Append(chain, w)[Len(chain) + 1] = w
         /\ \A i \in 1..Len(chain) : Append(chain, w)[i] = chain[i]
  OBVIOUS

\* Nothing is installed at first.
LEMMA InitIInv == Init => IInv
  <1> USE GuardAssumption
  <1>1. Init => TypeOK
    BY DEF Init, TypeOK
  <1>2. Init => GuardedUnlessRaced /\ OneOwnerGuarded
    BY DEF Init, GuardedUnlessRaced, OneOwnerGuarded
  <1> QED BY <1>1, <1>2 DEF Init, IInv, Alone, Linked

\* A call that follows only what one of its own Wrapper's guards accepts is
\* within its Wrapper's checks.
LEMMA AllowedByOwn ==
  ASSUME IInv, NEW s \in Sends, NEW u \in Targets, Redirect(s, u)
  PROVE  /\ client[s] \notin raced => u \in Accepts[Owner[s]]
         /\ (\A t \in Sends : client[t] = client[s] => Owner[t] = Owner[s]) => u \in Accepts[Owner[s]]
  BY DEF IInv, Alone, Linked, Redirect, Allowed, GuardIn

LEMMA BuildIInv == ASSUME IInv, NEW s \in Sends, Build(s) PROVE IInv'
  <1> USE GuardAssumption
  <1>1. TypeOK' BY DEF IInv, TypeOK, Build
  <1>2. GuardedUnlessRaced' /\ OneOwnerGuarded'
    BY DEF IInv, Build, GuardedUnlessRaced, OneOwnerGuarded
  <1>3. \A t \in Sends : pc'[t] \in {"store", "do", "done"} => pc'[t] = pc[t]
    BY DEF IInv, TypeOK, Build
  <1>4. \A c : Installing(c)' = Installing(c)
    BY DEF IInv, TypeOK, Build, Installing
  <1>5. \A t \in Sends : GuardIn(t)' <=> GuardIn(t)
    BY DEF Build, GuardIn
  <1>6. \A t \in Sends : pc'[t] \in {"idle", "load", "store"} => pc[t] \in {"idle", "load", "store"}
    BY DEF IInv, TypeOK, Build
  <1>7. \A t \in Sends : Alone(t)' BY <1>3, <1>4, <1>5 DEF IInv, Alone, Build
  <1>8. \A t \in Sends : Linked(t)' BY <1>3 DEF IInv, Linked, Build
  <1>9. \A t \in Sends : pc'[t] \in {"idle", "load", "store"} => followed'[t] = {}
    BY <1>6 DEF IInv, Build
  <1> QED BY <1>1, <1>2, <1>7, <1>8, <1>9 DEF IInv

LEMMA LoadIInv == ASSUME IInv, NEW s \in Sends, Load(s) PROVE IInv'
  <1> USE GuardAssumption
  <1>1. TypeOK' BY DEF IInv, TypeOK, Load
  <1>2. raced \subseteq raced' BY DEF Load
  <1>3. GuardedUnlessRaced' /\ OneOwnerGuarded'
    BY <1>2 DEF IInv, Load, GuardedUnlessRaced, OneOwnerGuarded
  <1>4. \A t \in Sends : pc'[t] \in {"do", "done"} => pc'[t] = pc[t]
    BY DEF IInv, TypeOK, Load
  <1>5. \A t \in Sends : GuardIn(t)' <=> GuardIn(t)
    BY DEF Load, GuardIn
  <1>6. \A t \in Sends : pc'[t] \in {"idle", "load", "store"} => pc[t] \in {"idle", "load", "store"}
    BY DEF IInv, TypeOK, Load
  <1>7. ASSUME NEW t \in Sends, client'[t] \notin raced', pc'[t] = "store"
        PROVE  original'[t] = checks'[client'[t]] /\ Installing(client[t])' = {t}
    <2>1. CASE t = s
      <3>1. Installing(client[s]) = {} BY <1>7, <2>1 DEF Load
      <3>2. Installing(client[s])' = {s}
        BY <3>1 DEF Load, Installing, IInv, TypeOK
      <3> QED BY <2>1, <3>2 DEF Load, IInv, TypeOK
    <2>2. CASE t # s
      <3>1. pc[t] = "store" /\ client[t] \notin raced
        BY <1>2, <1>7, <2>2 DEF Load, IInv, TypeOK
      <3>2. t \in Installing(client[t]) BY <3>1 DEF Installing
      <3>3. client[t] # client[s] BY <3>2, <1>7 DEF Load
      <3>4. Installing(client[t])' = Installing(client[t])
        BY <3>3 DEF Load, Installing, IInv, TypeOK
      <3> QED BY <2>2, <3>1, <3>4 DEF Load, IInv, TypeOK, Alone
    <2> QED BY <2>1, <2>2
  <1>8. \A t \in Sends : Alone(t)' BY <1>2, <1>4, <1>5, <1>7 DEF IInv, Alone, Load
  <1>9. \A t \in Sends : Linked(t)'
    <2>1. UNCHANGED <<client, checks>> BY DEF Load
    <2>2. \A t \in Sends : Linked(t) BY DEF IInv
    <2> QED BY <1>4, <2>1, <2>2 DEF Linked
  <1>10. \A t \in Sends : pc'[t] \in {"idle", "load", "store"} => followed'[t] = {}
    BY <1>6 DEF IInv, Load
  <1> QED BY <1>1, <1>3, <1>8, <1>9, <1>10 DEF IInv

LEMMA StoreIInv == ASSUME IInv, NEW s \in Sends, Store(s) PROVE IInv'
  <1> USE GuardAssumption
  <1> DEFINE c == client[s]
  <1>0. c \in Clients /\ Owner[s] \in Wrappers /\ original[s] \in Seq(Wrappers) /\ pc[s] = "store"
    BY DEF IInv, TypeOK, Store
  <1>1. Append(original[s], Owner[s]) \in Seq(Wrappers) BY <1>0, Appended
  <1>2. TypeOK' BY <1>0, <1>1 DEF IInv, TypeOK, Store
  <1>3. GuardedUnlessRaced' /\ OneOwnerGuarded'
    BY DEF IInv, Store, GuardedUnlessRaced, OneOwnerGuarded
  <1>4. checks'[c] = Append(original[s], Owner[s]) /\ \A d \in Clients \ {c} : checks'[d] = checks[d]
    BY <1>0 DEF IInv, TypeOK, Store
  <1>5. \A t \in Sends \ {s} : pc'[t] = pc[t]
    BY DEF IInv, TypeOK, Store
  <1>6. pc'[s] = "do" BY DEF IInv, TypeOK, Store
  <1>7. UNCHANGED <<client, original, followed, raced>> BY DEF Store
  <1>8. \A t \in Sends : client[t] \in Clients BY DEF IInv, TypeOK
  <1>9. ASSUME NEW t \in Sends, client'[t] \notin raced', pc'[t] = "store"
        PROVE  original'[t] = checks'[client'[t]] /\ Installing(client[t])' = {t}
    <2>1. t # s /\ pc[t] = "store" BY <1>5, <1>6, <1>9
    <2>2. Installing(client[t]) = {t} /\ original[t] = checks[client[t]]
      BY <1>7, <1>9, <2>1 DEF IInv, Alone
    <2>3. client[t] # c BY <1>0, <2>1, <2>2 DEF Installing
    <2>4. Installing(client[t])' = Installing(client[t])
      BY <1>5, <1>6, <1>7, <2>3 DEF Installing
    <2> QED BY <1>4, <1>7, <1>8, <2>2, <2>3, <2>4
  <1>10. ASSUME NEW t \in Sends, client'[t] \notin raced', pc'[t] \in {"do", "done"}
         PROVE  GuardIn(t)'
    <2>1. CASE client[t] = c
      <3>1. original[s] = checks[c] BY <1>0, <1>7, <1>10, <2>1 DEF IInv, Alone
      <3>2. CASE t = s
        BY <1>0, <1>4, <1>7, <3>2, Appended DEF GuardIn
      <3>3. CASE t # s
        <4>1. GuardIn(t) BY <1>5, <1>7, <1>10, <3>3 DEF IInv, Alone
        <4>2. PICK i \in 1..Len(checks[c]) : checks[c][i] = Owner[t] BY <4>1, <2>1 DEF GuardIn
        <4>3. i \in 1..Len(checks'[c]) /\ checks'[c][i] = Owner[t]
          BY <1>0, <1>4, <3>1, <4>2, Appended
        <4> QED BY <1>7, <2>1, <4>3 DEF GuardIn
      <3> QED BY <3>2, <3>3
    <2>2. CASE client[t] # c
      <3>1. t # s BY <2>2
      <3>2. GuardIn(t) BY <1>5, <1>7, <1>10, <3>1 DEF IInv, Alone
      <3>3. checks'[client[t]] = checks[client[t]] BY <1>4, <1>8, <2>2
      <3> QED BY <1>7, <3>2, <3>3 DEF GuardIn
    <2> QED BY <2>1, <2>2
  <1>11. ASSUME NEW t \in Sends, pc'[t] \in {"do", "done"}
         PROVE  \E i \in 1..Len(checks'[client'[t]]) :
                  \E r \in Sends : client'[r] = client'[t] /\ checks'[client'[t]][i] = Owner[r]
    <2>1. CASE client[t] = c
      <3>1. Len(original[s]) + 1 \in 1..Len(checks'[c]) /\ checks'[c][Len(original[s]) + 1] = Owner[s]
        BY <1>0, <1>4, Appended
      <3> QED BY <1>7, <2>1, <3>1
    <2>2. CASE client[t] # c
      <3>1. t # s /\ pc[t] \in {"do", "done"} BY <1>5, <1>11, <2>2
      <3>2. checks'[client[t]] = checks[client[t]] BY <1>4, <1>8, <2>2
      <3> QED BY <1>7, <3>1, <3>2 DEF IInv, Linked
    <2> QED BY <2>1, <2>2
  <1>12. \A t \in Sends : pc'[t] \in {"idle", "load", "store"} => followed'[t] = {}
    BY <1>5, <1>6, <1>7 DEF IInv
  <1>13. \A t \in Sends : Alone(t)' BY <1>7, <1>9, <1>10 DEF Alone
  <1>14. \A t \in Sends : Linked(t)' BY <1>11 DEF Linked
  <1> QED BY <1>2, <1>3, <1>12, <1>13, <1>14 DEF IInv

LEMMA RedirectIInv == ASSUME IInv, NEW s \in Sends, NEW u \in Targets, Redirect(s, u) PROVE IInv'
  <1> USE GuardAssumption
  <1>1. TypeOK' BY DEF IInv, TypeOK, Redirect
  <1>2. followed'[s] = followed[s] \cup {u} /\ \A t \in Sends \ {s} : followed'[t] = followed[t]
    BY DEF IInv, TypeOK, Redirect
  <1>3. UNCHANGED <<pc, client, original, checks, raced>> BY DEF Redirect
  <1>4. GuardedUnlessRaced'
    <2>1. client[s] \notin raced => u \in Accepts[Owner[s]] BY AllowedByOwn
    <2>2. GuardedUnlessRaced BY DEF IInv
    <2> QED BY <1>2, <1>3, <2>1, <2>2 DEF GuardedUnlessRaced
  <1>5. OneOwnerGuarded'
    <2>1. (\A t \in Sends : client[t] = client[s] => Owner[t] = Owner[s]) => u \in Accepts[Owner[s]]
      BY AllowedByOwn
    <2>2. OneOwnerGuarded BY DEF IInv
    <2> QED BY <1>2, <1>3, <2>1, <2>2 DEF OneOwnerGuarded
  <1>6. \A t \in Sends : pc'[t] \in {"idle", "load", "store"} => followed'[t] = {}
    BY <1>2, <1>3 DEF IInv, Redirect
  <1>7. \A d : Installing(d)' = Installing(d) BY <1>3 DEF Installing
  <1>8. \A t \in Sends : GuardIn(t)' <=> GuardIn(t) BY <1>3 DEF GuardIn
  <1>9. \A t \in Sends : Alone(t)' BY <1>3, <1>7, <1>8 DEF IInv, Alone
  <1>10. \A t \in Sends : Linked(t)' BY <1>3 DEF IInv, Linked
  <1> QED BY <1>1, <1>4, <1>5, <1>6, <1>9, <1>10 DEF IInv

LEMMA FinishIInv == ASSUME IInv, NEW s \in Sends, Finish(s) PROVE IInv'
  <1> USE GuardAssumption
  <1>1. TypeOK' BY DEF IInv, TypeOK, Finish
  <1>2. GuardedUnlessRaced' /\ OneOwnerGuarded'
    BY DEF IInv, Finish, GuardedUnlessRaced, OneOwnerGuarded
  <1>3. UNCHANGED <<client, original, checks, followed, raced>> BY DEF Finish
  <1>4. \A t \in Sends : /\ pc'[t] \in {"do", "done"} => pc[t] \in {"do", "done"}
                         /\ pc'[t] \in {"idle", "load", "store"} => pc[t] = pc'[t]
    BY DEF IInv, TypeOK, Finish
  <1>5. \A d : Installing(d)' = Installing(d)
    BY DEF IInv, TypeOK, Finish, Installing
  <1>6. \A t \in Sends : GuardIn(t)' <=> GuardIn(t) BY <1>3 DEF GuardIn
  <1>7. \A t \in Sends : Alone(t)' BY <1>3, <1>4, <1>5, <1>6 DEF IInv, Alone
  <1>8. \A t \in Sends : Linked(t)' BY <1>3, <1>4 DEF IInv, Linked
  <1>9. \A t \in Sends : pc'[t] \in {"idle", "load", "store"} => followed'[t] = {}
    BY <1>3, <1>4 DEF IInv
  <1> QED BY <1>1, <1>2, <1>7, <1>8, <1>9 DEF IInv

LEMMA NextIInv == IInv /\ [Next]_vars => IInv'
  <1> SUFFICES ASSUME IInv, [Next]_vars PROVE IInv' OBVIOUS
  <1>1. ASSUME NEW s \in Sends, Build(s) PROVE IInv' BY <1>1, BuildIInv
  <1>2. ASSUME NEW s \in Sends, Load(s) PROVE IInv' BY <1>2, LoadIInv
  <1>3. ASSUME NEW s \in Sends, Store(s) PROVE IInv' BY <1>3, StoreIInv
  <1>4. ASSUME NEW s \in Sends, NEW u \in Targets, Redirect(s, u) PROVE IInv' BY <1>4, RedirectIInv
  <1>5. ASSUME NEW s \in Sends, Finish(s) PROVE IInv' BY <1>5, FinishIInv
  <1>6. ASSUME UNCHANGED vars PROVE IInv'
    <2>1. UNCHANGED <<pc, client, original, checks, followed, raced>> BY <1>6 DEF vars
    <2>2. TypeOK' BY <2>1 DEF IInv, TypeOK
    <2>3. GuardedUnlessRaced' /\ OneOwnerGuarded'
      BY <2>1 DEF IInv, GuardedUnlessRaced, OneOwnerGuarded
    <2>4. \A t \in Sends : Alone(t)' <=> Alone(t)
      BY <2>1 DEF Alone, GuardIn, Installing
    <2>5. \A t \in Sends : Linked(t)' <=> Linked(t) BY <2>1 DEF Linked
    <2> QED BY <2>1, <2>2, <2>3, <2>4, <2>5 DEF IInv
  <1> QED BY <1>1, <1>2, <1>3, <1>4, <1>5, <1>6 DEF Next

\* The strengthened invariant of applyRedirectGuard, for every set of calls.
THEOREM Invariance == Spec => []IInv
  BY InitIInv, NextIInv, PTL DEF Spec

\* On a client whose guards were installed one after the other, every redirect
\* of a call passes its own Wrapper's checks (applyRedirectGuard keeps the
\* original CheckRedirect).
THEOREM Guarded == Spec => []GuardedUnlessRaced
  <1>1. IInv => GuardedUnlessRaced BY DEF IInv
  <1> QED BY <1>1, Invariance, PTL

\* On a client that only one Wrapper uses, every redirect passes that
\* Wrapper's checks, races included.
THEOREM OneOwner == Spec => []OneOwnerGuarded
  <1>1. IInv => OneOwnerGuarded BY DEF IInv
  <1> QED BY <1>1, Invariance, PTL

LEMMA InitOneLink == Init => OneLinkPerSend
  <1> SUFFICES ASSUME Init, NEW c \in Clients PROVE Len(checks[c]) = Cardinality(Installed(c))
    BY DEF OneLinkPerSend
  <1>1. Installed(c) = {} /\ checks[c] = <<>> BY DEF Init, Installed
  <1> QED BY <1>1, FS_EmptySet

LEMMA StoreOneLink == ASSUME IInv, OneLinkPerSend, NEW s \in Sends, Store(s) PROVE OneLinkPerSend'
  <1> USE GuardAssumption
  <1> SUFFICES ASSUME NEW c \in Clients \ raced PROVE Len(checks'[c]) = Cardinality(Installed(c)')
    BY DEF OneLinkPerSend, Store
  <1>1. Len(checks[c]) = Cardinality(Installed(c)) BY DEF OneLinkPerSend
  <1>2. CASE c = client[s]
    <2>1. checks'[c] = Append(checks[c], Owner[s])
      BY <1>2 DEF IInv, TypeOK, Alone, Store
    <2>2. Installed(c)' = Installed(c) \cup {s} /\ s \notin Installed(c)
      BY <1>2 DEF IInv, TypeOK, Installed, Store
    <2>3. IsFiniteSet(Installed(c)) BY FS_Subset DEF Installed
    <2>4. Cardinality(Installed(c) \cup {s}) = Cardinality(Installed(c)) + 1
      BY <2>2, <2>3, FS_AddElement
    <2>5. Len(Append(checks[c], Owner[s])) = Len(checks[c]) + 1
      BY Appended DEF IInv, TypeOK
    <2> QED BY <1>1, <2>1, <2>2, <2>4, <2>5
  <1>3. CASE c # client[s]
    <2>1. checks'[c] = checks[c] BY <1>3 DEF IInv, TypeOK, Store
    <2>2. Installed(c)' = Installed(c) BY <1>3 DEF IInv, TypeOK, Installed, Store
    <2> QED BY <1>1, <2>1, <2>2
  <1> QED BY <1>2, <1>3

\* The other steps leave the chains alone, and who has installed a guard.
LEMMA NextOneLink == IInv /\ OneLinkPerSend /\ [Next]_vars => OneLinkPerSend'
  <1> SUFFICES ASSUME IInv, OneLinkPerSend, [Next]_vars PROVE OneLinkPerSend' OBVIOUS
  <1>1. ASSUME NEW s \in Sends, Store(s) PROVE OneLinkPerSend' BY <1>1, StoreOneLink
  <1>2. ASSUME checks' = checks, raced \subseteq raced', \A c : Installed(c)' = Installed(c)
        PROVE OneLinkPerSend'
    BY <1>2 DEF OneLinkPerSend
  <1>3. ASSUME NEW s \in Sends, Build(s) \/ Load(s) \/ Finish(s) \/ (\E u \in Targets : Redirect(s, u))
        PROVE OneLinkPerSend'
    <2>1. checks' = checks /\ raced \subseteq raced' BY <1>3 DEF Build, Load, Redirect, Finish
    <2>2. \A c : Installed(c)' = Installed(c)
      BY <1>3 DEF IInv, TypeOK, Installed, Build, Load, Redirect, Finish
    <2> QED BY <1>2, <2>1, <2>2
  <1>4. CASE UNCHANGED vars
    BY <1>2, <1>4 DEF vars, Installed
  <1> QED BY <1>1, <1>3, <1>4 DEF Next

\* A client that is reused grows by exactly one guard per Send, for good.
THEOREM OneLink == Spec => []OneLinkPerSend
  BY InitIInv, NextIInv, InitOneLink, NextOneLink, PTL DEF Spec
=============================================================================
