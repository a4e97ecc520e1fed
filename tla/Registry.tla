------------------------------ MODULE Registry ------------------------------
(***************************************************************************)
(* The provider registry of src/factory.go: Register, New and              *)
(* RegisteredTypes called from any goroutines, over a map guarded by a     *)
(* sync.RWMutex.  The mutex is modelled as Go implements it: a writer that *)
(* waits keeps later readers out, and lets in at its Unlock all those who  *)
(* queued meanwhile.                                                       *)
(***************************************************************************)
EXTENDS Integers, FiniteSets

CONSTANTS Registers, News, Lists, \* the calls of Register, New, RegisteredTypes
          Name,                   \* names as the callers write them
          Key,                    \* names trimmed and lowercased, none empty
          Empty,                  \* what a blank name becomes
          Normalized,             \* [Name -> Key \cup {Empty}]: ToLower(TrimSpace(name))
          Nil,                    \* the nil Factory; registry entry of an unbound key
          Reentrant,              \* the Registers whose Factory itself calls RegisteredTypes
          Nobody                  \* no goroutine

Calls == Registers \cup News \cup Lists

ASSUME RegistryAssumption ==
  /\ Registers \cap News = {} /\ Registers \cap Lists = {} /\ News \cap Lists = {}
  /\ Nil \notin Calls /\ Nobody \notin Calls
  /\ Empty \notin Key
  /\ Normalized \in [Name -> Key \cup {Empty}]
  /\ Reentrant \subseteq Registers

VARIABLES
  name,      \* the name argument of each Register and New
  factory,   \* the factory argument of a Register: its own, or Nil
  registry,  \* registry: key to factory, Nil where there is none
  pc,        \* where each call is
  found,     \* New's (factory, ok): the factory, Nil if not ok
  names,     \* the keys RegisteredTypes has collected
  outcome,   \* how the call ended, "none" until then
  writer,    \* RWMutex: who holds its writer mutex
  readers,   \* RWMutex: how often each goroutine holds it for reading
  parked     \* RWMutex: readers queued behind the writer

args  == <<name, factory>>
mutex == <<writer, readers, parked>>
vars  == <<args, registry, pc, found, names, outcome, mutex>>

PCs == {"start", "lock", "drain", "store", "unlock", "rlock", "lookup", "runlock",
        "factory", "rlockAll", "collect", "runlockAll", "done"}

key(c) == Normalized[name[c]]
Bound == {k \in Key : registry[k] # Nil}

Init ==
  /\ name \in [Registers \cup News -> Name]
  /\ factory \in [Registers -> Registers \cup {Nil}]
  /\ \A r \in Registers : factory[r] \in {r, Nil}
  /\ registry = [k \in Key |-> Nil]
  /\ pc = [c \in Calls |-> "start"]
  /\ found = [n \in News |-> Nil]
  /\ names = [c \in Calls |-> {}]
  /\ outcome = [c \in Calls |-> "none"]
  /\ writer = Nobody
  /\ readers = [c \in Calls |-> 0]
  /\ parked = {}

Goto(c, l) == pc' = [pc EXCEPT ![c] = l]
-----------------------------------------------------------------------------
(* sync.RWMutex. *)

\* Mutant: the map is read without the lock.
RLockMissing(c, after) == Goto(c, after) /\ UNCHANGED mutex
\* RLock: at once, or parked until the writer unlocks.
RLock(c, after) ==
  \/ /\ writer = Nobody
     /\ readers' = [readers EXCEPT ![c] = @ + 1]
     /\ Goto(c, after)
     /\ UNCHANGED <<writer, parked>>
  \/ /\ writer # Nobody /\ c \notin parked
     /\ parked' = parked \cup {c}
     /\ UNCHANGED <<writer, readers, pc>>

RUnlock(c) ==
  /\ readers' = [readers EXCEPT ![c] = @ - 1]
  /\ UNCHANGED <<writer, parked>>

\* Where RLock continues.
After(l) == IF l = "rlock" THEN "lookup" ELSE "collect"

\* Unlock: every parked reader holds the lock now.
Unlock(c) ==
  /\ writer' = Nobody
  /\ readers' = [d \in Calls |-> IF d \in parked THEN readers[d] + 1 ELSE readers[d]]
  /\ parked' = {}
  /\ pc' = [d \in Calls |-> IF d \in parked THEN After(pc[d])
                            ELSE IF d = c THEN "done" ELSE pc[d]]
-----------------------------------------------------------------------------
(* Register. *)

RegisterCheck(r) ==
  /\ pc[r] = "start"
  /\ IF factory[r] = Nil \/ key(r) = Empty
     THEN Goto(r, "done") /\ outcome' = [outcome EXCEPT ![r] = "panic"]
     ELSE Goto(r, "lock") /\ UNCHANGED outcome
  /\ UNCHANGED <<args, registry, found, names, mutex>>

\* Lock: take the writer mutex, which shuts later readers out ...
LockBegin(r) ==
  /\ pc[r] = "lock"
  /\ writer = Nobody
  /\ writer' = r
  /\ Goto(r, "drain")
  /\ UNCHANGED <<args, registry, found, names, outcome, readers, parked>>

\* ... and wait for the readers that are in.
LockDrain(r) ==
  /\ pc[r] = "drain"
  /\ \A c \in Calls : readers[c] = 0
  /\ Goto(r, "store")
  /\ UNCHANGED <<args, registry, found, names, outcome, mutex>>

\* Mutant: the later registration wins.
StoreOverwrites(r) ==
  /\ pc[r] = "store"
  /\ registry' = [registry EXCEPT ![key(r)] = factory[r]]
  /\ outcome' = [outcome EXCEPT ![r] = "stored"]
  /\ Goto(r, "unlock")
  /\ UNCHANGED <<args, found, names, mutex>>
\* A key that is taken panics; the deferred Unlock runs all the same.
Store(r) ==
  /\ pc[r] = "store"
  /\ IF registry[key(r)] # Nil
     THEN outcome' = [outcome EXCEPT ![r] = "panic"] /\ UNCHANGED registry
     ELSE /\ registry' = [registry EXCEPT ![key(r)] = factory[r]]
          /\ outcome' = [outcome EXCEPT ![r] = "stored"]
  /\ Goto(r, "unlock")
  /\ UNCHANGED <<args, found, names, mutex>>

RegisterReturn(r) ==
  /\ pc[r] = "unlock"
  /\ Unlock(r)
  /\ UNCHANGED <<args, registry, found, names, outcome>>
-----------------------------------------------------------------------------
(* New. *)

NewStart(n) ==
  /\ pc[n] = "start"
  /\ Goto(n, "rlock")
  /\ UNCHANGED <<args, registry, found, names, outcome, mutex>>

\* Mutant: TryRLock, and a registry that is busy holds nothing.
NewTryRLock(n) ==
  /\ pc[n] = "rlock"
  /\ IF writer = Nobody
     THEN RLock(n, "lookup") /\ UNCHANGED outcome
     ELSE /\ Goto(n, "rlockAll") /\ outcome' = [outcome EXCEPT ![n] = "unknown"]
          /\ UNCHANGED mutex
  /\ UNCHANGED <<args, registry, found, names>>
NewRLock(n) ==
  /\ pc[n] = "rlock"
  /\ RLock(n, "lookup")
  /\ UNCHANGED <<args, registry, found, names, outcome>>

Lookup(n) ==
  /\ pc[n] = "lookup"
  /\ found' = [found EXCEPT ![n] = IF key(n) = Empty THEN Nil ELSE registry[key(n)]]
  /\ Goto(n, "runlock")
  /\ UNCHANGED <<args, registry, names, outcome, mutex>>

\* Mutant: RUnlock is left to the end of New. While the factory or the list of
\* types waits for the lock, that is never, so it is left out.
NewRUnlockDeferred(n) ==
  /\ pc[n] = "runlock"
  /\ IF found[n] = Nil
     THEN Goto(n, "rlockAll") /\ outcome' = [outcome EXCEPT ![n] = "unknown"]
     ELSE Goto(n, "factory") /\ outcome' = [outcome EXCEPT ![n] = "found"]
  /\ UNCHANGED <<args, registry, found, names, mutex>>
\* The lock is given up before the factory runs, and before the error message
\* asks for the list of types.
NewRUnlock(n) ==
  /\ pc[n] = "runlock"
  /\ RUnlock(n)
  /\ IF found[n] = Nil
     THEN Goto(n, "rlockAll") /\ outcome' = [outcome EXCEPT ![n] = "unknown"]
     ELSE Goto(n, "factory") /\ outcome' = [outcome EXCEPT ![n] = "found"]
  /\ UNCHANGED <<args, registry, found, names>>

\* The factory looks at its config, and some look at the registry.
CallFactory(n) ==
  /\ pc[n] = "factory"
  /\ Goto(n, IF found[n] \in Reentrant THEN "rlockAll" ELSE "done")
  /\ UNCHANGED <<args, registry, found, names, outcome, mutex>>
-----------------------------------------------------------------------------
(* RegisteredTypes, called by a host, by New's error path or by a factory. *)

TypesStart(c) ==
  /\ pc[c] = "start"
  /\ Goto(c, "rlockAll")
  /\ UNCHANGED <<args, registry, found, names, outcome, mutex>>

TypesRLock(c) ==
  /\ pc[c] = "rlockAll"
  /\ RLock(c, "collect")
  /\ UNCHANGED <<args, registry, found, names, outcome>>

\* One iteration of the range over the map, in any order.
Collect(c, k) ==
  /\ pc[c] = "collect"
  /\ k \in Bound \ names[c]
  /\ names' = [names EXCEPT ![c] = @ \cup {k}]
  /\ UNCHANGED <<args, registry, pc, found, outcome, mutex>>

Collected(c) ==
  /\ pc[c] = "collect"
  /\ Bound \subseteq names[c]
  /\ Goto(c, "runlockAll")
  /\ UNCHANGED <<args, registry, found, names, outcome, mutex>>

TypesReturn(c) ==
  /\ pc[c] = "runlockAll"
  /\ RUnlock(c)
  /\ Goto(c, "done")
  /\ UNCHANGED <<args, registry, found, names, outcome>>
-----------------------------------------------------------------------------
Register(r) == RegisterCheck(r) \/ LockBegin(r) \/ LockDrain(r) \/ Store(r) \/ RegisterReturn(r)

RegisteredTypes(c) ==
  TypesRLock(c) \/ (\E k \in Key : Collect(c, k)) \/ Collected(c) \/ TypesReturn(c)

New(n) == \/ NewStart(n) \/ NewRLock(n) \/ Lookup(n) \/ NewRUnlock(n) \/ CallFactory(n)
          \/ RegisteredTypes(n)

Next == \/ \E r \in Registers : Register(r)
        \/ \E n \in News : New(n)
        \/ \E c \in Lists : TypesStart(c) \/ RegisteredTypes(c)

Spec == Init /\ [][Next]_vars

\* Go schedules every goroutine that can run.
FairSpec == /\ Spec
            /\ \A r \in Registers : WF_vars(Register(r))
            /\ \A n \in News : WF_vars(New(n))
            /\ \A c \in Lists : WF_vars(TypesStart(c) \/ RegisteredTypes(c))
-----------------------------------------------------------------------------
(* Properties. *)

\* Every variable holds what its comment says.
TypeOK ==
  /\ name \in [Registers \cup News -> Name]
  /\ factory \in [Registers -> Registers \cup {Nil}]
  /\ \A r \in Registers : factory[r] \in {r, Nil}
  /\ registry \in [Key -> Registers \cup {Nil}]
  /\ pc \in [Calls -> PCs]
  /\ found \in [News -> Registers \cup {Nil}]
  /\ names \in [Calls -> SUBSET Key]
  /\ outcome \in [Calls -> {"none", "panic", "stored", "found", "unknown"}]
  /\ writer \in Registers \cup {Nobody}
  /\ readers \in [Calls -> Nat]
  /\ parked \subseteq Calls

\* While the map is written nobody reads it or writes it too (the Go runtime
\* would abort the process): neither New nor RegisteredTypes nor a Register.
NoMapRace ==
  \A r \in Registers : pc[r] = "store" =>
    \A c \in Calls \ {r} : pc[c] \notin {"store", "lookup", "collect"}

\* A duplicate registration is refused and shadows nobody: the factory stored
\* under a key is that of the one call that returned without a panic.
OneWinner ==
  \A r \in Registers :
    outcome[r] = "stored" <=> factory[r] # Nil /\ key(r) # Empty /\ registry[key(r)] = r

\* Every call that has returned or panicked has given back the lock.
LockReturned == \A c \in Calls : pc[c] = "done" => writer # c /\ readers[c] = 0

\* A factory runs with the registry unlocked: it may call Register or New.
FactoryRunsUnlocked == \A n \in News : pc[n] = "factory" => writer # n /\ readers[n] = 0

\* The list is a snapshot: when it is complete it is what the map holds then,
\* not a mixture of moments.
ListIsSnapshot == \A c \in Calls : pc[c] = "runlockAll" => names[c] = Bound

\* What New found is never replaced or removed: the factory it calls is the
\* one registered for as long as the program runs.
FoundIsCurrent == \A n \in News : found[n] # Nil => registry[key(n)] = found[n]

\* Every call returns: no goroutine waits for itself or for a queue that never
\* moves, even with factories that ask for the list themselves.
AllReturn == \A c \in Calls : <>(pc[c] = "done")

\* The inductive strengthening: who holds the RWMutex at which line ...
Inside == {"lookup", "runlock", "collect", "runlockAll"}

LockInv ==
  /\ \A r \in Registers : pc[r] \in {"start", "lock", "drain", "store", "unlock", "done"}
  /\ \A c \in News \cup Lists : pc[c] \notin {"lock", "drain", "store", "unlock"}
  /\ \A r \in Registers : pc[r] \in {"drain", "store", "unlock"} <=> writer = r
  /\ \A c \in Calls : readers[c] = IF pc[c] \in Inside THEN 1 ELSE 0
  /\ \A r \in Registers : pc[r] \in {"store", "unlock"} => \A c \in Calls : readers[c] = 0
  /\ \A c \in parked : pc[c] \in {"rlock", "rlockAll"} /\ writer # Nobody

\* ... and what the map holds for whom.
MapInv ==
  /\ \A r \in Registers : pc[r] \in {"start", "lock", "drain", "store"} => outcome[r] = "none"
  /\ \A r \in Registers : pc[r] \in {"lock", "drain", "store"} => factory[r] # Nil /\ key(r) # Empty
  /\ \A c \in Calls : names[c] \subseteq Bound
  /\ \A n \in News : found[n] # Nil => key(n) # Empty

IInv == TypeOK /\ LockInv /\ MapInv /\ OneWinner /\ ListIsSnapshot /\ FoundIsCurrent

\* What each call has yet to do before its effect: no outcome before it, no
\* list before the range over the map, and in a New no range before the outcome.
EffectInv ==
  /\ \A n \in News : pc[n] \in {"start", "rlock", "lookup", "runlock"} => outcome[n] = "none"
  /\ \A n \in News : pc[n] \in {"start", "rlock", "lookup"} => found[n] = Nil
  /\ \A n \in News : pc[n] \in {"factory", "rlockAll", "collect"} => outcome[n] # "none"
  /\ \A l \in Lists : pc[l] \notin {"rlock", "lookup", "runlock", "factory"}
  /\ \A c \in Calls : pc[c] \notin {"collect", "runlockAll", "done"} => names[c] = {}
  /\ \A r \in Registers : names[r] = {}

\* The key each call asks for, and what it has done to the abstract map once it
\* has read or written the map.
asked   == [c \in Registers \cup News |-> key(c)]
reply   == [c \in Calls |-> IF c \in News /\ pc[c] = "runlock"
                            THEN IF found[c] = Nil THEN "unknown" ELSE "found"
                            ELSE outcome[c]]
listing == [c \in Calls |-> IF pc[c] \in {"runlockAll", "done"} THEN names[c] ELSE {}]

Atomic == INSTANCE WriteOnceMap WITH Unbound <- Nil, map <- registry

\* The registry implements the write-once map: a New never misses, nor finds a
\* stale Factory for, a name that is bound at the instant it takes effect, a
\* Register never panics on a name that is free then, and a list is one instant's.
Linearizable == Atomic!Spec
=============================================================================
