-------------------------- MODULE Registry_proofs --------------------------
(***************************************************************************)
(* Proofs about Registry for any number of concurrent calls, any names and *)
(* any re-entrant factories.                                               *)
(***************************************************************************)
EXTENDS Registry, TLAPS

LEMMA InitIInv == Init => IInv
<1> SUFFICES ASSUME Init PROVE IInv
  OBVIOUS
<1>1. TypeOK
  BY SMT DEF Init, TypeOK, PCs
<1>2. LockInv
  BY RegistryAssumption, SMT DEF Init, LockInv, Inside, Calls
<1>3. MapInv
  BY RegistryAssumption, SMT DEF Init, MapInv, Calls
<1>4. OneWinner
  <2> SUFFICES ASSUME NEW r \in Registers
               PROVE  /\ outcome[r] # "stored"
                      /\ ~(key(r) # Empty /\ registry[key(r)] = r)
    BY DEF OneWinner
  <2>1. key(r) \in Key \cup {Empty}
    BY RegistryAssumption DEF Init, key
  <2> QED
    BY <2>1, RegistryAssumption, SMT DEF Init, Calls
<1>5. ListIsSnapshot /\ FoundIsCurrent
  BY RegistryAssumption, SMT DEF Init, ListIsSnapshot, FoundIsCurrent, Calls
<1> QED
  BY <1>1, <1>2, <1>3, <1>4, <1>5 DEF IInv

LEMMA RegisterCheckIInv ==
  ASSUME IInv, NEW r \in Registers, RegisterCheck(r)
  PROVE  IInv'
<1> USE RegistryAssumption DEF IInv, Calls, args, mutex, Goto
<1>1. TypeOK'
  BY SMT DEF TypeOK, PCs, RegisterCheck, key
<1>2. LockInv'
  BY SMT DEF TypeOK, LockInv, Inside, RegisterCheck
<1>3. MapInv'
  BY SMT DEF TypeOK, LockInv, MapInv, RegisterCheck, key, Bound
<1>4. OneWinner'
  BY SMT DEF TypeOK, LockInv, MapInv, OneWinner, RegisterCheck, key
<1>5. ListIsSnapshot'
  BY SMT DEF TypeOK, LockInv, MapInv, ListIsSnapshot, RegisterCheck, Bound, Inside
<1>6. FoundIsCurrent'
  BY SMT DEF TypeOK, LockInv, FoundIsCurrent, RegisterCheck, key
<1> QED
  BY <1>1, <1>2, <1>3, <1>4, <1>5, <1>6

LEMMA LockBeginIInv ==
  ASSUME IInv, NEW r \in Registers, LockBegin(r)
  PROVE  IInv'
<1> USE RegistryAssumption DEF IInv, Calls, args, mutex, Goto
<1>1. TypeOK'
  BY SMT DEF TypeOK, PCs, LockBegin, key
<1>2. LockInv'
  BY SMT DEF TypeOK, LockInv, Inside, LockBegin
<1>3. MapInv'
  BY SMT DEF TypeOK, LockInv, MapInv, LockBegin, key, Bound
<1>4. OneWinner'
  BY SMT DEF TypeOK, LockInv, MapInv, OneWinner, LockBegin, key
<1>5. ListIsSnapshot'
  BY SMT DEF TypeOK, LockInv, MapInv, ListIsSnapshot, LockBegin, Bound, Inside
<1>6. FoundIsCurrent'
  BY SMT DEF TypeOK, LockInv, FoundIsCurrent, LockBegin, key
<1> QED
  BY <1>1, <1>2, <1>3, <1>4, <1>5, <1>6

LEMMA LockDrainIInv ==
  ASSUME IInv, NEW r \in Registers, LockDrain(r)
  PROVE  IInv'
<1> USE RegistryAssumption DEF IInv, Calls, args, mutex, Goto
<1>1. TypeOK'
  BY SMT DEF TypeOK, PCs, LockDrain, key
<1>2. LockInv'
  BY SMT DEF TypeOK, LockInv, Inside, LockDrain
<1>3. MapInv'
  BY SMT DEF TypeOK, LockInv, MapInv, LockDrain, key, Bound
<1>4. OneWinner'
  BY SMT DEF TypeOK, LockInv, MapInv, OneWinner, LockDrain, key
<1>5. ListIsSnapshot'
  BY SMT DEF TypeOK, LockInv, MapInv, ListIsSnapshot, LockDrain, Bound, Inside
<1>6. FoundIsCurrent'
  BY SMT DEF TypeOK, LockInv, FoundIsCurrent, LockDrain, key
<1> QED
  BY <1>1, <1>2, <1>3, <1>4, <1>5, <1>6

LEMMA StoreIInv ==
  ASSUME IInv, NEW r \in Registers, Store(r)
  PROVE  IInv'
<1> USE RegistryAssumption DEF IInv, Calls, args, mutex, Goto
<1>1. TypeOK'
  BY SMT DEF TypeOK, PCs, Store, key
<1>2. LockInv'
  BY SMT DEF TypeOK, LockInv, Inside, Store
<1>3. MapInv'
  BY SMT DEF TypeOK, LockInv, MapInv, Store, key, Bound
<1>4. OneWinner'
  BY SMT DEF TypeOK, LockInv, MapInv, OneWinner, Store, key
<1>5. ListIsSnapshot'
  BY SMT DEF TypeOK, LockInv, MapInv, ListIsSnapshot, Store, Bound, Inside
<1>6. FoundIsCurrent'
  <2> SUFFICES ASSUME NEW n \in News, found[n] # Nil
               PROVE  registry'[key(n)] = found[n]
    BY DEF FoundIsCurrent, Store, key
  <2>1. registry[key(n)] = found[n] /\ key(n) # Empty /\ key(n) \in Key \cup {Empty}
    BY DEF FoundIsCurrent, MapInv, TypeOK, key
  <2>2. CASE registry[key(r)] # Nil
    BY <2>1, <2>2 DEF Store
  <2>3. CASE registry[key(r)] = Nil
    <3>1. key(n) # key(r)
      BY <2>1, <2>3
    <3> QED
      BY <2>1, <2>3, <3>1 DEF Store, TypeOK
  <2> QED
    BY <2>2, <2>3
<1> QED
  BY <1>1, <1>2, <1>3, <1>4, <1>5, <1>6

LEMMA RegisterReturnIInv ==
  ASSUME IInv, NEW r \in Registers, RegisterReturn(r)
  PROVE  IInv'
<1> USE RegistryAssumption DEF IInv, Calls, args, mutex, Goto
<1>1. TypeOK'
  BY SMT DEF TypeOK, PCs, RegisterReturn, Unlock, After, key
<1>2. LockInv'
  BY SMT DEF TypeOK, LockInv, Inside, RegisterReturn, Unlock, After
<1>3. MapInv'
  BY SMT DEF TypeOK, LockInv, MapInv, RegisterReturn, Unlock, After, key, Bound
<1>4. OneWinner'
  BY SMT DEF TypeOK, LockInv, MapInv, OneWinner, RegisterReturn, Unlock, After, key
<1>5. ListIsSnapshot'
  BY SMT DEF TypeOK, LockInv, MapInv, ListIsSnapshot, RegisterReturn, Unlock, After, Bound, Inside
<1>6. FoundIsCurrent'
  BY SMT DEF TypeOK, LockInv, FoundIsCurrent, RegisterReturn, Unlock, After, key
<1> QED
  BY <1>1, <1>2, <1>3, <1>4, <1>5, <1>6

LEMMA NewStartIInv ==
  ASSUME IInv, NEW n \in News, NewStart(n)
  PROVE  IInv'
<1> USE RegistryAssumption DEF IInv, Calls, args, mutex, Goto
<1>1. TypeOK'
  BY SMT DEF TypeOK, PCs, NewStart, key
<1>2. LockInv'
  BY SMT DEF TypeOK, LockInv, Inside, NewStart
<1>3. MapInv'
  BY SMT DEF TypeOK, LockInv, MapInv, NewStart, key, Bound
<1>4. OneWinner'
  BY SMT DEF TypeOK, LockInv, MapInv, OneWinner, NewStart, key
<1>5. ListIsSnapshot'
  BY SMT DEF TypeOK, LockInv, MapInv, ListIsSnapshot, NewStart, Bound, Inside
<1>6. FoundIsCurrent'
  BY SMT DEF TypeOK, LockInv, FoundIsCurrent, NewStart, key
<1> QED
  BY <1>1, <1>2, <1>3, <1>4, <1>5, <1>6

LEMMA NewRLockIInv ==
  ASSUME IInv, NEW n \in News, NewRLock(n)
  PROVE  IInv'
<1> USE RegistryAssumption DEF IInv, Calls, args, mutex, Goto
<1>1. TypeOK'
  BY SMT DEF TypeOK, PCs, NewRLock, RLock, key
<1>2. LockInv'
  <2>1. CASE writer = Nobody
    <3>1. /\ readers' = [readers EXCEPT ![n] = @ + 1]
          /\ pc[n] = "rlock" /\ pc' = [pc EXCEPT ![n] = "lookup"]
          /\ UNCHANGED <<writer, parked, outcome>>
      BY <2>1 DEF NewRLock, RLock
    <3>2. \A r \in Registers : pc[r] \notin {"drain", "store", "unlock"}
      BY <2>1, SMT DEF LockInv
    <3>3. n \in Calls /\ n \notin Registers /\ readers[n] = 0 /\ parked' = {}
      BY <2>1, <3>1, SMT DEF TypeOK, LockInv, Inside
    <3> QED
      BY <3>1, <3>2, <3>3, SMT DEF TypeOK, LockInv, Inside
  <2>2. CASE writer # Nobody
    <3>1. parked' = parked \cup {n} /\ pc[n] = "rlock" /\ UNCHANGED <<writer, readers, pc>>
      BY <2>2 DEF NewRLock, RLock
    <3> QED
      BY <2>2, <3>1, SMT DEF TypeOK, LockInv, Inside
  <2> QED
    BY <2>1, <2>2
<1>3. MapInv'
  BY SMT DEF TypeOK, LockInv, MapInv, NewRLock, RLock, key, Bound
<1>4. OneWinner'
  BY SMT DEF TypeOK, LockInv, MapInv, OneWinner, NewRLock, RLock, key
<1>5. ListIsSnapshot'
  BY SMT DEF TypeOK, LockInv, MapInv, ListIsSnapshot, NewRLock, RLock, Bound, Inside
<1>6. FoundIsCurrent'
  BY SMT DEF TypeOK, LockInv, FoundIsCurrent, NewRLock, RLock, key
<1> QED
  BY <1>1, <1>2, <1>3, <1>4, <1>5, <1>6

LEMMA LookupIInv ==
  ASSUME IInv, NEW n \in News, Lookup(n)
  PROVE  IInv'
<1> USE RegistryAssumption DEF IInv, Calls, args, mutex, Goto
<1>1. TypeOK'
  BY SMT DEF TypeOK, PCs, Lookup, key
<1>2. LockInv'
  BY SMT DEF TypeOK, LockInv, Inside, Lookup
<1>3. MapInv'
  BY SMT DEF TypeOK, LockInv, MapInv, Lookup, key, Bound
<1>4. OneWinner'
  BY SMT DEF TypeOK, LockInv, MapInv, OneWinner, Lookup, key
<1>5. ListIsSnapshot'
  BY SMT DEF TypeOK, LockInv, MapInv, ListIsSnapshot, Lookup, Bound, Inside
<1>6. FoundIsCurrent'
  BY SMT DEF TypeOK, LockInv, FoundIsCurrent, Lookup, key
<1> QED
  BY <1>1, <1>2, <1>3, <1>4, <1>5, <1>6

LEMMA NewRUnlockIInv ==
  ASSUME IInv, NEW n \in News, NewRUnlock(n)
  PROVE  IInv'
<1> USE RegistryAssumption DEF IInv, Calls, args, mutex, Goto
<1>1. TypeOK'
  BY SMT DEF TypeOK, PCs, LockInv, Inside, NewRUnlock, RUnlock
<1>2. LockInv'
  BY SMT DEF TypeOK, LockInv, Inside, NewRUnlock, RUnlock
<1>3. MapInv'
  BY SMT DEF TypeOK, LockInv, MapInv, NewRUnlock, RUnlock, key, Bound
<1>4. OneWinner'
  BY SMT DEF TypeOK, LockInv, MapInv, OneWinner, NewRUnlock, RUnlock, key
<1>5. ListIsSnapshot'
  BY SMT DEF TypeOK, LockInv, MapInv, ListIsSnapshot, NewRUnlock, RUnlock, Bound, Inside
<1>6. FoundIsCurrent'
  BY SMT DEF TypeOK, LockInv, FoundIsCurrent, NewRUnlock, RUnlock, key
<1> QED
  BY <1>1, <1>2, <1>3, <1>4, <1>5, <1>6

LEMMA CallFactoryIInv ==
  ASSUME IInv, NEW n \in News, CallFactory(n)
  PROVE  IInv'
<1> USE RegistryAssumption DEF IInv, Calls, args, mutex, Goto
<1>1. TypeOK'
  BY SMT DEF TypeOK, PCs, CallFactory, key
<1>2. LockInv'
  BY SMT DEF TypeOK, LockInv, Inside, CallFactory
<1>3. MapInv'
  BY SMT DEF TypeOK, LockInv, MapInv, CallFactory, key, Bound
<1>4. OneWinner'
  BY SMT DEF TypeOK, LockInv, MapInv, OneWinner, CallFactory, key
<1>5. ListIsSnapshot'
  BY SMT DEF TypeOK, LockInv, MapInv, ListIsSnapshot, CallFactory, Bound, Inside
<1>6. FoundIsCurrent'
  BY SMT DEF TypeOK, LockInv, FoundIsCurrent, CallFactory, key
<1> QED
  BY <1>1, <1>2, <1>3, <1>4, <1>5, <1>6

LEMMA TypesStartIInv ==
  ASSUME IInv, NEW c \in Lists, TypesStart(c)
  PROVE  IInv'
<1> USE RegistryAssumption DEF IInv, Calls, args, mutex, Goto
<1>1. TypeOK'
  BY SMT DEF TypeOK, PCs, TypesStart, key
<1>2. LockInv'
  BY SMT DEF TypeOK, LockInv, Inside, TypesStart
<1>3. MapInv'
  BY SMT DEF TypeOK, LockInv, MapInv, TypesStart, key, Bound
<1>4. OneWinner'
  BY SMT DEF TypeOK, LockInv, MapInv, OneWinner, TypesStart, key
<1>5. ListIsSnapshot'
  BY SMT DEF TypeOK, LockInv, MapInv, ListIsSnapshot, TypesStart, Bound, Inside
<1>6. FoundIsCurrent'
  BY SMT DEF TypeOK, LockInv, FoundIsCurrent, TypesStart, key
<1> QED
  BY <1>1, <1>2, <1>3, <1>4, <1>5, <1>6

LEMMA TypesRLockIInv ==
  ASSUME IInv, NEW c \in News \cup Lists, TypesRLock(c)
  PROVE  IInv'
<1> USE RegistryAssumption DEF IInv, Calls, args, mutex, Goto
<1>1. TypeOK'
  BY SMT DEF TypeOK, PCs, TypesRLock, RLock, key
<1>2. LockInv'
  <2>1. CASE writer = Nobody
    <3>1. /\ readers' = [readers EXCEPT ![c] = @ + 1]
          /\ pc[c] = "rlockAll" /\ pc' = [pc EXCEPT ![c] = "collect"]
          /\ UNCHANGED <<writer, parked, outcome>>
      BY <2>1 DEF TypesRLock, RLock
    <3>2. \A r \in Registers : pc[r] \notin {"drain", "store", "unlock"}
      BY <2>1, SMT DEF LockInv
    <3>3. c \in Calls /\ c \notin Registers /\ readers[c] = 0 /\ parked' = {}
      BY <2>1, <3>1, SMT DEF TypeOK, LockInv, Inside
    <3> QED
      BY <3>1, <3>2, <3>3, SMT DEF TypeOK, LockInv, Inside
  <2>2. CASE writer # Nobody
    <3>1. parked' = parked \cup {c} /\ pc[c] = "rlockAll" /\ UNCHANGED <<writer, readers, pc>>
      BY <2>2 DEF TypesRLock, RLock
    <3> QED
      BY <2>2, <3>1, SMT DEF TypeOK, LockInv, Inside
  <2> QED
    BY <2>1, <2>2
<1>3. MapInv'
  BY SMT DEF TypeOK, LockInv, MapInv, TypesRLock, RLock, key, Bound
<1>4. OneWinner'
  BY SMT DEF TypeOK, LockInv, MapInv, OneWinner, TypesRLock, RLock, key
<1>5. ListIsSnapshot'
  BY SMT DEF TypeOK, LockInv, MapInv, ListIsSnapshot, TypesRLock, RLock, Bound, Inside
<1>6. FoundIsCurrent'
  BY SMT DEF TypeOK, LockInv, FoundIsCurrent, TypesRLock, RLock, key
<1> QED
  BY <1>1, <1>2, <1>3, <1>4, <1>5, <1>6

LEMMA CollectIInv ==
  ASSUME IInv, NEW c \in News \cup Lists, NEW k \in Key, Collect(c, k)
  PROVE  IInv'
<1> USE RegistryAssumption DEF IInv, Calls, args, mutex, Goto
<1>1. TypeOK'
  BY SMT DEF TypeOK, PCs, Collect, key
<1>2. LockInv'
  BY SMT DEF TypeOK, LockInv, Inside, Collect
<1>3. MapInv'
  BY SMT DEF TypeOK, LockInv, MapInv, Collect, key, Bound
<1>4. OneWinner'
  BY SMT DEF TypeOK, LockInv, MapInv, OneWinner, Collect, key
<1>5. ListIsSnapshot'
  BY SMT DEF TypeOK, LockInv, MapInv, ListIsSnapshot, Collect, Bound, Inside
<1>6. FoundIsCurrent'
  BY SMT DEF TypeOK, LockInv, FoundIsCurrent, Collect, key
<1> QED
  BY <1>1, <1>2, <1>3, <1>4, <1>5, <1>6

LEMMA CollectedIInv ==
  ASSUME IInv, NEW c \in News \cup Lists, Collected(c)
  PROVE  IInv'
<1> USE RegistryAssumption DEF IInv, Calls, args, mutex, Goto
<1>1. TypeOK'
  BY SMT DEF TypeOK, PCs, Collected, key
<1>2. LockInv'
  BY SMT DEF TypeOK, LockInv, Inside, Collected
<1>3. MapInv'
  BY SMT DEF TypeOK, LockInv, MapInv, Collected, key, Bound
<1>4. OneWinner'
  BY SMT DEF TypeOK, LockInv, MapInv, OneWinner, Collected, key
<1>5. ListIsSnapshot'
  BY SMT DEF TypeOK, LockInv, MapInv, ListIsSnapshot, Collected, Bound, Inside
<1>6. FoundIsCurrent'
  BY SMT DEF TypeOK, LockInv, FoundIsCurrent, Collected, key
<1> QED
  BY <1>1, <1>2, <1>3, <1>4, <1>5, <1>6

LEMMA TypesReturnIInv ==
  ASSUME IInv, NEW c \in News \cup Lists, TypesReturn(c)
  PROVE  IInv'
<1> USE RegistryAssumption DEF IInv, Calls, args, mutex, Goto
<1>1. TypeOK'
  BY SMT DEF TypeOK, PCs, LockInv, Inside, TypesReturn, RUnlock
<1>2. LockInv'
  BY SMT DEF TypeOK, LockInv, Inside, TypesReturn, RUnlock
<1>3. MapInv'
  BY SMT DEF TypeOK, LockInv, MapInv, TypesReturn, RUnlock, key, Bound
<1>4. OneWinner'
  BY SMT DEF TypeOK, LockInv, MapInv, OneWinner, TypesReturn, RUnlock, key
<1>5. ListIsSnapshot'
  BY SMT DEF TypeOK, LockInv, MapInv, ListIsSnapshot, TypesReturn, RUnlock, Bound, Inside
<1>6. FoundIsCurrent'
  BY SMT DEF TypeOK, LockInv, FoundIsCurrent, TypesReturn, RUnlock, key
<1> QED
  BY <1>1, <1>2, <1>3, <1>4, <1>5, <1>6

LEMMA NextIInv == ASSUME IInv, [Next]_vars PROVE IInv'
<1>1. ASSUME NEW r \in Registers, Register(r) PROVE IInv'
  BY <1>1, RegisterCheckIInv, LockBeginIInv, LockDrainIInv, StoreIInv, RegisterReturnIInv
     DEF Register
<1>2. ASSUME NEW c \in News \cup Lists, RegisteredTypes(c) PROVE IInv'
  BY <1>2, TypesRLockIInv, CollectIInv, CollectedIInv, TypesReturnIInv DEF RegisteredTypes
<1>3. ASSUME NEW n \in News, New(n) PROVE IInv'
  BY <1>2, <1>3, NewStartIInv, NewRLockIInv, LookupIInv, NewRUnlockIInv, CallFactoryIInv DEF New
<1>4. CASE UNCHANGED vars
  BY <1>4 DEF IInv, vars, args, mutex, TypeOK, LockInv, MapInv, OneWinner, ListIsSnapshot,
              FoundIsCurrent, Bound, key
<1> QED
  BY <1>1, <1>2, <1>3, <1>4, TypesStartIInv DEF Next

\* The inductive invariant holds in every reachable state.
THEOREM Invariance == Spec => []IInv
<1>1. IInv /\ [Next]_vars => IInv'
  BY NextIInv
<1> QED
  BY <1>1, InitIInv, PTL DEF Spec

\* Every variable always holds what its comment says.
THEOREM TypeCorrect == Spec => []TypeOK
<1>1. IInv => TypeOK
  BY DEF IInv
<1> QED
  BY <1>1, Invariance, PTL

\* The map is never written while a goroutine reads or writes it.
THEOREM RaceFree == Spec => []NoMapRace
<1>1. ASSUME IInv PROVE NoMapRace
  <2> SUFFICES ASSUME NEW r \in Registers, pc[r] = "store", NEW c \in Calls \ {r}
               PROVE  pc[c] \notin {"store", "lookup", "collect"}
    BY DEF NoMapRace
  <2>1. LockInv
    BY <1>1 DEF IInv
  <2>2. readers[c] = 0 /\ pc[c] \notin Inside
    BY <2>1, SMT DEF LockInv, Calls
  <2>3. pc[c] # "store"
    <3>1. CASE c \in Registers
      <4>1. writer = r /\ c # r
        BY <2>1 DEF LockInv
      <4> QED
        BY <2>1, <3>1, <4>1 DEF LockInv
    <3>2. CASE c \in News \cup Lists
      BY <2>1, <3>2 DEF LockInv
    <3> QED
      BY <3>1, <3>2 DEF Calls
  <2> QED
    BY <2>2, <2>3 DEF Inside
<1> QED
  BY <1>1, Invariance, PTL

\* The factory under a key is that of the one Register that returned normally.
THEOREM UniqueWinner == Spec => []OneWinner
<1>1. IInv => OneWinner
  BY DEF IInv
<1> QED
  BY <1>1, Invariance, PTL

\* Every list of types is the map's content at one moment.
THEOREM Snapshots == Spec => []ListIsSnapshot
<1>1. IInv => ListIsSnapshot
  BY DEF IInv
<1> QED
  BY <1>1, Invariance, PTL

\* A factory that New found stays the registered one.
THEOREM Stable == Spec => []FoundIsCurrent
<1>1. IInv => FoundIsCurrent
  BY DEF IInv
<1> QED
  BY <1>1, Invariance, PTL

\* Whoever has returned, or runs a factory, holds no lock.
THEOREM NothingHeld == Spec => [](LockReturned /\ FactoryRunsUnlocked)
<1>1. ASSUME IInv PROVE LockReturned /\ FactoryRunsUnlocked
  <2>1. ASSUME NEW c \in Calls, pc[c] \in {"done", "factory"} PROVE writer # c /\ readers[c] = 0
    <3>1. readers[c] = 0
      BY <1>1, <2>1, SMT DEF IInv, LockInv, Inside
    <3>2. CASE c \in Registers
      BY <1>1, <2>1, <3>1, <3>2 DEF IInv, LockInv
    <3>3. CASE c \notin Registers
      BY <1>1, <3>1, <3>3, RegistryAssumption DEF IInv, TypeOK, Calls
    <3> QED
      BY <3>2, <3>3
  <2> QED
    BY <2>1 DEF LockReturned, FactoryRunsUnlocked, Calls
<1> QED
  BY <1>1, Invariance, PTL
-----------------------------------------------------------------------------
(***************************************************************************)
(* Each call is atomic: Registry implements WriteOnceMap.  A Register      *)
(* takes effect at its store, a New at its lookup, a list when the range   *)
(* over the map is done, and every other step changes nothing a caller can *)
(* tell.                                                                   *)
(***************************************************************************)

LEMMA InitEffect == Init => EffectInv
BY SMT DEF Init, EffectInv, Calls

LEMMA NextEffect ==
  ASSUME IInv, EffectInv, [Next]_vars
  PROVE  EffectInv'
<1> USE RegistryAssumption DEF IInv, TypeOK, LockInv, EffectInv, Calls, args, mutex, Goto
<1>1. ASSUME NEW r \in Registers, Register(r) PROVE EffectInv'
  <2>1. CASE RegisterCheck(r)
    BY <2>1, SMT DEF RegisterCheck
  <2>2. CASE LockBegin(r)
    BY <2>2, SMT DEF LockBegin
  <2>3. CASE LockDrain(r)
    BY <2>3, SMT DEF LockDrain
  <2>4. CASE Store(r)
    BY <2>4, SMT DEF Store
  <2>5. CASE RegisterReturn(r)
    BY <2>5, SMT DEF RegisterReturn, Unlock, After
  <2> QED
    BY <1>1, <2>1, <2>2, <2>3, <2>4, <2>5 DEF Register
<1>2. ASSUME NEW c \in News \cup Lists, RegisteredTypes(c) PROVE EffectInv'
  <2>1. CASE TypesRLock(c)
    BY <2>1, SMT DEF TypesRLock, RLock
  <2>2. ASSUME NEW k \in Key, Collect(c, k) PROVE EffectInv'
    BY <2>2, SMT DEF Collect
  <2>3. CASE Collected(c)
    BY <2>3, SMT DEF Collected
  <2>4. CASE TypesReturn(c)
    BY <2>4, SMT DEF TypesReturn, RUnlock
  <2> QED
    BY <1>2, <2>1, <2>2, <2>3, <2>4 DEF RegisteredTypes
<1>3. ASSUME NEW n \in News, New(n) PROVE EffectInv'
  <2>1. CASE NewStart(n)
    BY <2>1, SMT DEF NewStart
  <2>2. CASE NewRLock(n)
    BY <2>2, SMT DEF NewRLock, RLock
  <2>3. CASE Lookup(n)
    BY <2>3, SMT DEF Lookup
  <2>4. CASE NewRUnlock(n)
    BY <2>4, SMT DEF NewRUnlock, RUnlock
  <2>5. CASE CallFactory(n)
    BY <2>5, SMT DEF CallFactory
  <2> QED
    BY <1>2, <1>3, <2>1, <2>2, <2>3, <2>4, <2>5 DEF New
<1>4. ASSUME NEW c \in Lists, TypesStart(c) PROVE EffectInv'
  BY <1>4, SMT DEF TypesStart
<1>5. CASE UNCHANGED vars
  BY <1>5 DEF vars
<1> QED
  BY <1>1, <1>2, <1>3, <1>4, <1>5 DEF Next

LEMMA RefineInit == Init => Atomic!Init
<1> SUFFICES ASSUME Init PROVE Atomic!Init
  OBVIOUS
<1>1. asked \in [Registers \cup News -> Key \cup {Empty}]
  BY RegistryAssumption DEF Init, asked, key
<1>2. /\ factory \in [Registers -> Registers \cup {Nil}]
      /\ registry = [k \in Key |-> Nil] /\ found = [n \in News |-> Nil]
  BY DEF Init
<1>3. reply = [c \in Calls |-> "none"] /\ listing = [c \in Calls |-> {}]
  BY SMT DEF Init, Calls, reply, listing
<1> QED
  BY <1>1, <1>2, <1>3 DEF Atomic!Init, Atomic!Calls, Calls

\* No step changes what the calls were given.
LEMMA Given == ASSUME UNCHANGED args PROVE UNCHANGED Atomic!given
BY DEF args, asked, key, Atomic!given

\* Steps that only move calls about, by their effect on pc.
LEMMA Silent ==
  ASSUME IInv, EffectInv, UNCHANGED <<args, registry, found, names, outcome>>,
         \A c \in Calls : pc'[c] # pc[c] =>
           /\ ~(c \in News /\ (pc[c] = "runlock" \/ pc'[c] = "runlock"))
           /\ pc[c] \in {"runlockAll", "done"} => pc'[c] \in {"runlockAll", "done"}
           /\ pc'[c] \in {"runlockAll", "done"} => pc[c] \in {"runlockAll", "done"} \/ names[c] = {}
  PROVE  UNCHANGED Atomic!vars
<1>1. reply' = reply
  BY SMT DEF reply
<1>2. listing' = listing
  BY SMT DEF listing
<1> QED
  BY <1>1, <1>2, Given DEF Atomic!vars

\* Two functions on Calls that agree everywhere but at one differ by an EXCEPT.
LEMMA OneDiffers ==
  ASSUME NEW f, NEW g, NEW d \in Calls, NEW v,
         f = [c \in Calls |-> f[c]], g = [c \in Calls |-> g[c]],
         g[d] = v, \A c \in Calls : c # d => g[c] = f[c]
  PROVE  g = [f EXCEPT ![d] = v]
<1>1. \A c \in Calls : g[c] = [f EXCEPT ![d] = v][c]
  OBVIOUS
<1>2. [f EXCEPT ![d] = v] = [c \in Calls |-> [f EXCEPT ![d] = v][c]]
  OBVIOUS
<1>3. [c \in Calls |-> g[c]] = [c \in Calls |-> [f EXCEPT ![d] = v][c]]
  BY <1>1
<1> QED
  BY <1>2, <1>3

\* What the mapping answers, before and after a step.
LEMMA Mapped ==
  /\ reply = [c \in Calls |-> reply[c]] /\ reply' = [c \in Calls |-> reply'[c]]
  /\ listing = [c \in Calls |-> listing[c]] /\ listing' = [c \in Calls |-> listing'[c]]
BY DEF reply, listing

\* A call that has no list may go anywhere.
LEMMA NothingListed ==
  ASSUME NEW d \in Calls, names[d] = {}, names' = names, \A c \in Calls : c # d => pc'[c] = pc[c]
  PROVE  listing' = listing
BY DEF listing

\* A Register panics, or binds its key, in one abstract step.
LEMMA RefineRegister ==
  ASSUME IInv, EffectInv, NEW r \in Registers, Register(r)
  PROVE  Atomic!Next \/ UNCHANGED Atomic!vars
<1> USE RegistryAssumption DEF IInv, TypeOK, LockInv, EffectInv, Calls, args, mutex, Goto
<1>1. ASSUME RegisterCheck(r) PROVE Atomic!Panic(r) \/ UNCHANGED Atomic!vars
  <2>1. CASE factory[r] = Nil \/ key(r) = Empty
    <3>1. reply[r] = "none"
      BY <1>1, SMT DEF RegisterCheck, reply, MapInv
    <3>2. reply' = [reply EXCEPT ![r] = "panic"]
      <4>1. reply'[r] = "panic"
        BY <1>1, <2>1, SMT DEF RegisterCheck, reply
      <4>2. \A c \in Calls : c # r => reply'[c] = reply[c]
        BY <1>1, <2>1, SMT DEF RegisterCheck, reply
      <4> QED
        BY <4>1, <4>2, Mapped, OneDiffers
    <3>3. UNCHANGED <<registry, found, Atomic!given>>
      BY <1>1, Given DEF RegisterCheck
    <3>4. listing' = listing
      <4>1. names[r] = {} /\ names' = names /\ \A c \in Calls : c # r => pc'[c] = pc[c]
        BY <1>1, SMT DEF RegisterCheck
      <4> QED
        BY <4>1, NothingListed
    <3>5. ~Atomic!Valid(r)
      BY <2>1 DEF Atomic!Valid, asked
    <3> QED
      BY <3>1, <3>2, <3>3, <3>4, <3>5 DEF Atomic!Panic
  <2>2. CASE ~(factory[r] = Nil \/ key(r) = Empty)
    BY <1>1, <2>2, Silent, SMT DEF RegisterCheck
  <2> QED
    BY <2>1, <2>2
<1>2. ASSUME LockBegin(r) PROVE UNCHANGED Atomic!vars
  BY <1>2, Silent, SMT DEF LockBegin
<1>3. ASSUME LockDrain(r) PROVE UNCHANGED Atomic!vars
  BY <1>3, Silent, SMT DEF LockDrain
<1>4. ASSUME Store(r) PROVE Atomic!Panic(r) \/ Atomic!Put(r)
  <2>1. reply[r] = "none" /\ key(r) \in Key /\ factory[r] # Nil /\ key(r) # Empty
    BY <1>4, SMT DEF Store, reply, MapInv, key
  <2>2. listing' = listing /\ found' = found /\ UNCHANGED Atomic!given
    <3>1. listing' = listing
      BY <1>4, SMT DEF Store, listing
    <3> QED
      BY <1>4, <3>1, Given DEF Store
  <2>5. asked[r] = key(r) /\ Atomic!Valid(r)
    BY <2>1 DEF Atomic!Valid, asked
  <2>3. CASE registry[key(r)] # Nil
    <3>1. reply' = [reply EXCEPT ![r] = "panic"]
      <4>1. reply'[r] = "panic"
        BY <1>4, <2>3, SMT DEF Store, reply
      <4>2. \A c \in Calls : c # r => reply'[c] = reply[c]
        BY <1>4, <2>3, SMT DEF Store, reply
      <4> QED
        BY <4>1, <4>2, Mapped, OneDiffers
    <3>2. registry' = registry
      BY <1>4, <2>3 DEF Store
    <3> QED
      BY <2>1, <2>2, <2>3, <2>5, <3>1, <3>2 DEF Atomic!Panic
  <2>4. CASE registry[key(r)] = Nil
    <3>1. reply' = [reply EXCEPT ![r] = "stored"]
      <4>1. reply'[r] = "stored"
        BY <1>4, <2>4, SMT DEF Store, reply
      <4>2. \A c \in Calls : c # r => reply'[c] = reply[c]
        BY <1>4, <2>4, SMT DEF Store, reply
      <4> QED
        BY <4>1, <4>2, Mapped, OneDiffers
    <3>2. registry' = [registry EXCEPT ![key(r)] = factory[r]]
      BY <1>4, <2>1, <2>4 DEF Store
    <3> QED
      BY <2>1, <2>2, <2>4, <2>5, <3>1, <3>2 DEF Atomic!Put
  <2> QED
    BY <2>3, <2>4
<1>5. ASSUME RegisterReturn(r) PROVE UNCHANGED Atomic!vars
  BY <1>5, Silent, SMT DEF RegisterReturn, Unlock, After
<1> QED
  BY <1>1, <1>2, <1>3, <1>4, <1>5 DEF Register, Atomic!Next

\* A list is taken at the moment the range over the map ends.
LEMMA RefineTypes ==
  ASSUME IInv, EffectInv, NEW c \in News \cup Lists, RegisteredTypes(c)
  PROVE  Atomic!Next \/ UNCHANGED Atomic!vars
<1> USE RegistryAssumption DEF IInv, TypeOK, LockInv, EffectInv, Calls, args, mutex, Goto
<1>1. ASSUME TypesRLock(c) PROVE UNCHANGED Atomic!vars
  BY <1>1, Silent, SMT DEF TypesRLock, RLock
<1>2. ASSUME NEW k \in Key, Collect(c, k) PROVE UNCHANGED Atomic!vars
  <2>1. reply' = reply /\ UNCHANGED <<registry, found, Atomic!given>>
    <3>1. reply' = reply
      BY <1>2, SMT DEF Collect, reply
    <3> QED
      BY <1>2, <3>1, Given DEF Collect
  <2>2. listing' = listing
    BY <1>2, SMT DEF Collect, listing
  <2> QED
    BY <2>1, <2>2 DEF Atomic!vars
<1>3. ASSUME Collected(c) PROVE Atomic!List(c)
  <2>1. names[c] = Atomic!Bound
    BY <1>3, SMT DEF Collected, MapInv, Bound, Atomic!Bound
  <2>2. listing[c] = {}
    BY <1>3, SMT DEF Collected, listing
  <2>4. listing' = [listing EXCEPT ![c] = names[c]]
    <3>1. listing'[c] = names[c]
      BY <1>3, SMT DEF Collected, listing
    <3>2. \A d \in Calls : d # c => listing'[d] = listing[d]
      BY <1>3, SMT DEF Collected, listing
    <3> QED
      BY <3>1, <3>2, Mapped, OneDiffers
  <2>3. reply' = reply /\ UNCHANGED <<registry, found, Atomic!given>>
    <3>1. reply' = reply
      BY <1>3, SMT DEF Collected, reply
    <3> QED
      BY <1>3, <3>1, Given DEF Collected
  <2>5. c \in News => reply[c] # "none"
    BY <1>3, SMT DEF Collected, reply
  <2> QED
    BY <2>1, <2>2, <2>3, <2>4, <2>5 DEF Atomic!List
<1>4. ASSUME TypesReturn(c) PROVE UNCHANGED Atomic!vars
  BY <1>4, Silent, SMT DEF TypesReturn, RUnlock
<1> QED
  BY <1>1, <1>2, <1>3, <1>4 DEF RegisteredTypes, Atomic!Next

\* New takes effect when it looks its name up.
LEMMA RefineNew ==
  ASSUME IInv, EffectInv, NEW n \in News, New(n)
  PROVE  Atomic!Next \/ UNCHANGED Atomic!vars
<1> USE RegistryAssumption DEF IInv, TypeOK, LockInv, EffectInv, Calls, args, mutex, Goto
<1>1. ASSUME NewStart(n) PROVE UNCHANGED Atomic!vars
  BY <1>1, Silent, SMT DEF NewStart
<1>2. ASSUME NewRLock(n) PROVE UNCHANGED Atomic!vars
  BY <1>2, Silent, SMT DEF NewRLock, RLock
<1>3. ASSUME Lookup(n) PROVE Atomic!Miss(n) \/ Atomic!Get(n)
  <2> DEFINE fac == IF key(n) = Empty THEN Nil ELSE registry[key(n)]
  <2>1. reply[n] = "none" /\ asked[n] = key(n) /\ found[n] = Nil
    <3>1. reply[n] = "none"
      BY <1>3, SMT DEF Lookup, reply
    <3>2. found[n] = Nil
      BY <1>3, SMT DEF Lookup
    <3> QED
      BY <3>1, <3>2 DEF asked
  <2>2. listing' = listing /\ UNCHANGED <<registry, Atomic!given>>
    <3>1. listing' = listing
      BY <1>3, SMT DEF Lookup, listing
    <3> QED
      BY <1>3, <3>1, Given DEF Lookup
  <2>3. found' = [found EXCEPT ![n] = fac]
    BY <1>3 DEF Lookup
  <2>4. reply' = [reply EXCEPT ![n] = IF fac = Nil THEN "unknown" ELSE "found"]
    <3> HIDE DEF fac
    <3>1. pc[n] = "lookup" /\ pc' = [pc EXCEPT ![n] = "runlock"] /\ outcome' = outcome
      BY <1>3 DEF Lookup
    <3>2. reply'[n] = IF fac = Nil THEN "unknown" ELSE "found"
      BY <2>3, <3>1, SMT DEF reply
    <3>3. \A c \in Calls : c # n => reply'[c] = reply[c]
      BY <2>3, <3>1, SMT DEF reply
    <3> QED
      BY <3>2, <3>3, Mapped, OneDiffers
  <2>5. CASE fac = Nil
    <3>1. found' = found
      <4> HIDE DEF fac
      <4> QED
        BY <2>1, <2>3, <2>5
    <3> QED
      BY <2>1, <2>2, <2>4, <2>5, <3>1 DEF Atomic!Miss
  <2>6. CASE fac # Nil
    BY <2>1, <2>2, <2>3, <2>4, <2>6 DEF Atomic!Get
  <2> QED
    BY <2>5, <2>6
<1>4. ASSUME NewRUnlock(n) PROVE UNCHANGED Atomic!vars
  <2>1. listing' = listing /\ UNCHANGED <<registry, found, Atomic!given>>
    <3>1. listing' = listing
      BY <1>4, SMT DEF NewRUnlock, RUnlock, listing
    <3> QED
      BY <1>4, <3>1, Given DEF NewRUnlock
  <2>2. reply' = reply
    BY <1>4, SMT DEF NewRUnlock, RUnlock, reply
  <2> QED
    BY <2>1, <2>2 DEF Atomic!vars
<1>5. ASSUME CallFactory(n) PROVE UNCHANGED Atomic!vars
  BY <1>5, Silent, SMT DEF CallFactory
<1> QED
  BY <1>1, <1>2, <1>3, <1>4, <1>5, RefineTypes DEF New, Atomic!Next

\* Any number of concurrent Registers, News and lists behave as if each took
\* effect at one moment, on a map whose keys are bound once: the answer of each
\* is that of its own name at that moment, panic, unknown, or the Factory itself.
THEOREM Linearization == Spec => Linearizable
<1>1. ASSUME IInv, EffectInv, [Next]_vars PROVE [Atomic!Next]_(Atomic!vars)
  <2>1. ASSUME NEW c \in Lists, TypesStart(c) PROVE UNCHANGED Atomic!vars
    BY <1>1, <2>1, Silent, RegistryAssumption, SMT
       DEF TypesStart, IInv, TypeOK, EffectInv, Calls, args, mutex, Goto
  <2>2. CASE UNCHANGED vars
    BY <2>2, Given DEF vars, reply, listing, Atomic!vars
  <2> QED
    BY <1>1, <2>1, <2>2, RefineRegister, RefineNew, RefineTypes DEF Next
<1>2. IInv /\ EffectInv /\ [Next]_vars => EffectInv'
  BY NextEffect
<1> QED
  BY <1>1, <1>2, InitEffect, RefineInit, Invariance, PTL DEF Spec, Linearizable, Atomic!Spec
=============================================================================
