--------------------------- MODULE RedirectGuard ---------------------------
(***************************************************************************)
(* Wrapper.applyRedirectGuard (src/transport/wrapper.go) on the client the *)
(* factory returns.  A factory may return the same *http.Client every time *)
(* (the tests' server.Client() does), to one Wrapper or to several, and    *)
(* Sends run concurrently: the guard is a read of client.CheckRedirect and *)
(* a write of it, with no lock.  One member of Sends is one call of Send.  *)
(***************************************************************************)
EXTENDS Integers, Sequences, FiniteSets

CONSTANTS Sends,       \* calls of Wrapper.Send
          Wrappers,
          Owner,       \* the Wrapper of each call
          Clients,     \* the *http.Clients the factories return
          Targets,     \* redirect targets
          Accepts      \* targets each Wrapper's validateDestination accepts

ASSUME GuardAssumption ==
  /\ Owner \in [Sends -> Wrappers]
  /\ Accepts \in [Wrappers -> SUBSET Targets]
  /\ IsFiniteSet(Sends)

VARIABLES
  pc,        \* "idle", "load", "store", "do" or "done"
  client,    \* the client of each call
  original,  \* originalCheckRedirect, a local of applyRedirectGuard
  checks,    \* client.CheckRedirect: the Wrappers whose guards run, in order
  followed,  \* targets each call was redirected to
  raced      \* clients on which two calls installed their guards at once

vars == <<pc, client, original, checks, followed, raced>>

Init ==
  /\ pc       = [s \in Sends |-> "idle"]
  /\ client   \in [Sends -> Clients]
  /\ original = [s \in Sends |-> <<>>]
  /\ checks   = [c \in Clients |-> <<>>]
  /\ followed = [s \in Sends |-> {}]
  /\ raced    = {}
-----------------------------------------------------------------------------
Installing(c) == {s \in Sends : client[s] = c /\ pc[s] = "store"}

\* w.clientFactory(...)
Build(s) ==
  /\ pc[s] = "idle"
  /\ pc' = [pc EXCEPT ![s] = "load"]
  /\ UNCHANGED <<client, original, checks, followed, raced>>

\* originalCheckRedirect := client.CheckRedirect
Load(s) ==
  /\ pc[s] = "load"
  /\ original' = [original EXCEPT ![s] = checks[client[s]]]
  /\ raced' = IF Installing(client[s]) = {} THEN raced ELSE raced \cup {client[s]}
  /\ pc' = [pc EXCEPT ![s] = "store"]
  /\ UNCHANGED <<client, checks, followed>>

\* client.CheckRedirect = func...: the original first, then this Wrapper's checks.
\* Mutants: the original is forgotten; the guard is put on a copy of the client.
StoreForgets(s) ==
  /\ pc[s] = "store"
  /\ checks' = [checks EXCEPT ![client[s]] = <<Owner[s]>>]
  /\ pc' = [pc EXCEPT ![s] = "do"]
  /\ UNCHANGED <<client, original, followed, raced>>
StoreOnCopy(s) ==
  /\ pc[s] = "store"
  /\ pc' = [pc EXCEPT ![s] = "do"]
  /\ UNCHANGED <<client, original, checks, followed, raced>>
Store(s) ==
  /\ pc[s] = "store"
  /\ checks' = [checks EXCEPT ![client[s]] = Append(original[s], Owner[s])]
  /\ pc' = [pc EXCEPT ![s] = "do"]
  /\ UNCHANGED <<client, original, followed, raced>>

\* client.Do calls whatever client.CheckRedirect is now; one refusal ends it.
\* Mutant: the first verdict decides.
AllowedFirst(chain, u) == chain = <<>> \/ u \in Accepts[chain[1]]
Allowed(chain, u) == \A i \in 1..Len(chain) : u \in Accepts[chain[i]]

Redirect(s, u) ==
  /\ pc[s] = "do"
  /\ Allowed(checks[client[s]], u)
  /\ followed' = [followed EXCEPT ![s] = @ \cup {u}]
  /\ UNCHANGED <<pc, client, original, checks, raced>>

Finish(s) ==
  /\ pc[s] = "do"
  /\ pc' = [pc EXCEPT ![s] = "done"]
  /\ UNCHANGED <<client, original, checks, followed, raced>>

Next == \E s \in Sends :
  Build(s) \/ Load(s) \/ Store(s) \/ (\E u \in Targets : Redirect(s, u)) \/ Finish(s)

Spec == Init /\ [][Next]_vars
-----------------------------------------------------------------------------
(* Properties. *)

Installed(c) == {s \in Sends : client[s] = c /\ pc[s] \in {"do", "done"}}

\* Every variable holds what its comment says.
TypeOK ==
  /\ pc \in [Sends -> {"idle", "load", "store", "do", "done"}]
  /\ client \in [Sends -> Clients]
  /\ original \in [Sends -> Seq(Wrappers)]
  /\ checks \in [Clients -> Seq(Wrappers)]
  /\ followed \in [Sends -> SUBSET Targets]
  /\ raced \subseteq Clients

\* On a client whose guards were installed one after the other, a call follows
\* only redirects that its own Wrapper accepts, whoever shares the client.
GuardedUnlessRaced ==
  \A s \in Sends : client[s] \notin raced => followed[s] \subseteq Accepts[Owner[s]]

\* Calls of one Wrapper that share a client are guarded even when they race:
\* whichever write is last, it is a guard of that Wrapper.
OneOwnerGuarded ==
  \A s \in Sends :
    (\A t \in Sends : client[t] = client[s] => Owner[t] = Owner[s])
      => followed[s] \subseteq Accepts[Owner[s]]

\* A client that is reused keeps a guard of every Send it ever served: each of
\* its redirects runs through one more destination check per earlier Send.
OneLinkPerSend ==
  \A c \in Clients \ raced : Len(checks[c]) = Cardinality(Installed(c))

\* The chain holds the guard of every call that has installed its own: of its
\* own Wrapper on a client nobody else uses, of every Wrapper on one without a
\* race. This is what makes the invariants above inductive.
GuardIn(s) == \E i \in 1..Len(checks[client[s]]) : checks[client[s]][i] = Owner[s]

Alone(s) ==
  client[s] \notin raced =>
    /\ pc[s] = "store" => original[s] = checks[client[s]] /\ Installing(client[s]) = {s}
    /\ pc[s] \in {"do", "done"} => GuardIn(s)

Linked(s) ==
  pc[s] \in {"do", "done"} =>
    \E i \in 1..Len(checks[client[s]]) :
      \E t \in Sends : client[t] = client[s] /\ checks[client[s]][i] = Owner[t]

IInv ==
  /\ TypeOK
  /\ \A s \in Sends : Alone(s) /\ Linked(s)
  /\ \A s \in Sends : pc[s] \in {"idle", "load", "store"} => followed[s] = {}
  /\ GuardedUnlessRaced
  /\ OneOwnerGuarded
=============================================================================
