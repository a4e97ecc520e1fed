---------------------------- MODULE WriteOnceMap ----------------------------
(***************************************************************************)
(* What the provider registry promises (src/factory.go), with no lock in   *)
(* it: a map whose keys are bound once, and whose every call takes effect  *)
(* at a single instant between its start and its return.  What a call is   *)
(* given it keeps from the start: a Register its key and its Factory, a    *)
(* New its key.  A Register panics for no other reason than those of the   *)
(* code, and a New answers for its own name, as the map holds it then.     *)
(***************************************************************************)
CONSTANTS Registers, News, Lists,  \* the calls of Register, New, RegisteredTypes
          Key, Empty,              \* normalised provider names; a blank one
          Unbound                  \* no Factory; the factory of r is r itself

VARIABLES asked,    \* the key of each Register and New
          factory,  \* the Factory of each Register, Unbound if nil
          map,      \* [Key -> Registers \cup {Unbound}]
          reply,    \* how a call is answered, "none" before
          found,    \* the Factory a New has found
          listing   \* the names a call has listed

given == <<asked, factory>>
vars  == <<given, map, reply, found, listing>>

Calls == Registers \cup News \cup Lists

Bound == {k \in Key : map[k] # Unbound}

Init == /\ asked \in [Registers \cup News -> Key \cup {Empty}]
        /\ factory \in [Registers -> Registers \cup {Unbound}]
        /\ map = [k \in Key |-> Unbound]
        /\ reply = [c \in Calls |-> "none"]
        /\ found = [n \in News |-> Unbound]
        /\ listing = [c \in Calls |-> {}]

\* A Factory and a name that is not blank.
Valid(r) == factory[r] # Unbound /\ asked[r] # Empty

Put(r) == /\ reply[r] = "none"
          /\ Valid(r) /\ map[asked[r]] = Unbound
          /\ map' = [map EXCEPT ![asked[r]] = factory[r]]
          /\ reply' = [reply EXCEPT ![r] = "stored"]
          /\ UNCHANGED <<given, found, listing>>

\* nil Factory, empty name, or a name that is taken at this moment.
Panic(r) == /\ reply[r] = "none"
            /\ Valid(r) => map[asked[r]] # Unbound
            /\ reply' = [reply EXCEPT ![r] = "panic"]
            /\ UNCHANGED <<given, map, found, listing>>

\* The Factory under the name, if there is one at this moment.
Get(n) == /\ reply[n] = "none"
          /\ asked[n] # Empty /\ map[asked[n]] # Unbound
          /\ found' = [found EXCEPT ![n] = map[asked[n]]]
          /\ reply' = [reply EXCEPT ![n] = "found"]
          /\ UNCHANGED <<given, map, listing>>

\* The name is blank, or not bound at this moment.
Miss(n) == /\ reply[n] = "none"
           /\ asked[n] # Empty => map[asked[n]] = Unbound
           /\ reply' = [reply EXCEPT ![n] = "unknown"]
           /\ UNCHANGED <<given, map, found, listing>>

\* The names that are bound now, all of them and no other; in a New, for its
\* error message or its Factory.
List(c) == /\ c \in News => reply[c] # "none"
           /\ listing[c] = {}
           /\ listing' = [listing EXCEPT ![c] = Bound]
           /\ UNCHANGED <<given, map, reply, found>>

Next == \/ \E r \in Registers : Put(r) \/ Panic(r)
        \/ \E n \in News : Get(n) \/ Miss(n)
        \/ \E c \in News \cup Lists : List(c)

Spec == Init /\ [][Next]_vars
=============================================================================
