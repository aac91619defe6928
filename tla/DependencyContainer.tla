------------------------- MODULE DependencyContainer -------------------------
(***************************************************************************)
(* packages/bootstrap/container.py: registrations by name, resolved one     *)
(* dependency at a time by recursion, each to one instance that is kept.    *)
(*                                                                          *)
(* Abstractions: an instance is the number of the factory call that made    *)
(* it, with the instances injected; a factory may succeed, raise TypeError  *)
(* or raise anything else. Names are numbers in their sorted order.         *)
(***************************************************************************)
EXTENDS Integers, Sequences, FiniteSets, FiniteSetsExt

CONSTANTS
  Name,       \* names of dependencies
  Lists,      \* the dependency lists they are registered with
  None,       \* not registered, not resolved
  MaxMade     \* bound: calls of factories that succeed

ContainerAssumption ==
  Name \subseteq Nat /\ IsFiniteSet(Name) /\ Lists \subseteq Seq(Name) /\ MaxMade \in Nat

VARIABLES
  registered,  \* _registrations: by name, its dependencies or None
  resolved,    \* _resolved: by name, its instance or None
  stack,       \* the calls of resolve in progress: name and next dependency
  todo,        \* the names the call of all() has still to resolve
  outcome,     \* of the last call: "none", "resolve", "all" or the error
  made,        \* history: how many instances were made
  replaced     \* history: names unregistered since the container was empty

vars == <<registered, resolved, stack, todo, outcome, made, replaced>>

Init == /\ registered = [n \in Name |-> None] /\ resolved = [n \in Name |-> None]
        /\ stack = <<>> /\ todo = <<>> /\ outcome = "none"
        /\ made = 0 /\ replaced = {}

Idle == stack = <<>> /\ todo = <<>>

Registered == {n \in Name : registered[n] # None}

\* The registered names that those of s name.
Needed(s) == {d \in Registered : \E m \in s \cap Registered : d \in Range(registered[m])}

\* The registered names n depends on, directly or not: the least set of them that
\* holds what n needs and what its own names do.
Reachable(n) == {m \in Registered : \A s \in SUBSET Registered : Needed({n} \cup s) \subseteq s => m \in s}

\* _has_cycle: a cycle anywhere below n.
HasCycle(n) == \E m \in {n} \cup Reachable(n) : m \in Reachable(m)

-----------------------------------------------------------------------------
(* Registration *)

Register(n, deps) ==
  /\ Idle /\ registered[n] = None
  /\ n \notin Range(deps)
  /\ registered' = [registered EXCEPT ![n] = deps]
  /\ outcome' = "none"
  /\ UNCHANGED <<resolved, stack, todo, made, replaced>>

\* Only the name's own instance is dropped: those it was injected in keep it.
Unregister(n) ==
  /\ Idle /\ registered[n] # None
  /\ registered' = [registered EXCEPT ![n] = None]
  /\ resolved' = [resolved EXCEPT ![n] = None]
  /\ replaced' = replaced \cup {n}
  /\ outcome' = "none"
  /\ UNCHANGED <<stack, todo, made>>

Clear ==
  /\ Idle
  /\ registered' = [n \in Name |-> None] /\ resolved' = [n \in Name |-> None]
  /\ replaced' = {}
  /\ outcome' = "none"
  /\ UNCHANGED <<stack, todo, made>>

-----------------------------------------------------------------------------
(* Resolution *)

\* Mutant: a name that waits for a missing dependency is left out.
SortableWhenAllThere(s) == {n \in Registered \ Range(s) : Range(registered[n]) \subseteq Range(s)}

\* The names without an unsorted dependency; an unregistered one counts for nothing.
Sortable(s) == {n \in Registered \ Range(s) : Range(registered[n]) \cap Registered \subseteq Range(s)}

\* _topological_sort: always the first of the sorted queue. The names on a
\* cycle, and those that depend on one, are never sorted.
Sorted ==
  LET sorted[k \in 0 .. Cardinality(Name)] == IF k = 0 THEN <<>> ELSE
        LET s == sorted[k - 1] IN IF Sortable(s) = {} THEN s ELSE Append(s, Min(Sortable(s)))
  IN sorted[Cardinality(Name)]

Return(what) == /\ stack' = <<>> /\ todo' = <<>> /\ outcome' = what
                /\ UNCHANGED <<registered, resolved, made, replaced>>

Push(n) == /\ stack' = Append(stack, [name |-> n, next |-> 1]) /\ outcome' = "none"
           /\ UNCHANGED <<registered, resolved, made, replaced>>

\* Mutant: the cycle check is left to validate().
EnterUnchecked(n, return) ==
  \/ resolved[n] # None /\ return
  \/ resolved[n] = None /\ registered[n] = None /\ Return("error")
  \/ resolved[n] = None /\ registered[n] # None /\ Push(n) /\ UNCHANGED todo

\* Mutant: what is cached is not looked at.
EnterAfresh(n, return) ==
  \/ return /\ registered[n] # None /\ resolved[n] # None
  \/ (registered[n] = None \/ HasCycle(n)) /\ Return("error")
  \/ registered[n] # None /\ ~HasCycle(n) /\ Push(n) /\ UNCHANGED todo

\* resolve, up to the loop over the dependencies; return: what the caller does
\* with an instance that is there.
Enter(n, return) ==
  \/ resolved[n] # None /\ return
  \/ resolved[n] = None /\ (registered[n] = None \/ HasCycle(n)) /\ Return("error")
  \/ resolved[n] = None /\ registered[n] # None /\ ~HasCycle(n) /\ Push(n) /\ UNCHANGED todo

Resolve(n) == Idle /\ Enter(n, Return("resolve"))

All == /\ Idle
       /\ todo' = Sorted
       /\ outcome' = IF Sorted = <<>> THEN "all" ELSE "none"
       /\ UNCHANGED <<registered, resolved, stack, made, replaced>>

\* The loop of all(); the instance of its first name is there once resolve
\* has returned.
NextOfAll ==
  /\ stack = <<>> /\ todo # <<>>
  /\ Enter(Head(todo), /\ todo' = Tail(todo)
                       /\ outcome' = IF Tail(todo) = <<>> THEN "all" ELSE outcome
                       /\ UNCHANGED <<registered, resolved, stack, made, replaced>>)

Call == stack[Len(stack)]
Unresolved == Call.next <= Len(registered[Call.name])

Advance == /\ stack' = [stack EXCEPT ![Len(stack)].next = @ + 1]
           /\ UNCHANGED <<registered, resolved, todo, outcome, made, replaced>>

\* Mutant: a dependency that is missing is passed over.
ResolveNextLeniently ==
  /\ stack # <<>> /\ Unresolved
  /\ LET d == registered[Call.name][Call.next] IN
     IF registered[d] = None THEN Advance ELSE Enter(d, Advance)

ResolveNext ==
  /\ stack # <<>> /\ Unresolved
  /\ Enter(registered[Call.name][Call.next], Advance)

\* The factory is called. A call that all() made returns to its loop.
Make ==
  /\ stack # <<>> /\ ~Unresolved
  /\ made < MaxMade
  /\ made' = made + 1
  /\ resolved' = [resolved EXCEPT ![Call.name] =
       [id |-> made',
        with |-> [d \in Range(registered[Call.name]) |-> IF resolved[d] = None THEN 0 ELSE resolved[d].id]]]
  /\ stack' = SubSeq(stack, 1, Len(stack) - 1)
  /\ outcome' = IF stack' = <<>> /\ todo = <<>> THEN "resolve" ELSE outcome
  /\ UNCHANGED <<registered, todo, replaced>>

\* A TypeError becomes a ResolutionError, anything else goes through: both end
\* every call in progress, and what was resolved stays.
FactoryFails == /\ stack # <<>> /\ ~Unresolved
                /\ \E error \in {"error", "raised"} : Return(error)

Next == \/ \E n \in Name, deps \in Lists : Register(n, deps)
        \/ \E n \in Name : Unregister(n) \/ Resolve(n)
        \/ Clear \/ All \/ NextOfAll
        \/ ResolveNext \/ Make \/ FactoryFails

Spec == Init /\ [][Next]_vars

-----------------------------------------------------------------------------
(* Properties *)

\* Types; what is resolved is registered, with all its dependencies injected,
\* and the calls in progress are for names that are not resolved yet.
TypeOK ==
  /\ registered \in [Name -> Lists \cup {None}]
  /\ \A n \in Name : resolved[n] # None =>
       /\ registered[n] # None
       /\ resolved[n].id \in 1 .. made
       /\ DOMAIN resolved[n].with = Range(registered[n])
  /\ stack \in Seq([name : Name, next : Nat \ {0}])
  /\ \A i \in DOMAIN stack : registered[stack[i].name] # None /\ resolved[stack[i].name] = None
  /\ todo \in Seq(Name)
  /\ outcome \in {"none", "resolve", "all", "error", "raised"}
  /\ made \in 0 .. MaxMade
  /\ replaced \subseteq Name

\* The recursion ends whatever graph was registered, forward references
\* included: no name is resolved while it is being resolved.
NotReentered == \A i, j \in DOMAIN stack : i # j => stack[i].name # stack[j].name

\* One instance per name: as long as a name is registered its instance stays,
\* through failures of others and repeated calls.
KeepsInstances ==
  \A n \in Name : resolved[n] # None => resolved'[n] = resolved[n] \/ registered'[n] = None

OnePerName == [][KeepsInstances]_vars

\* Everything that was injected is the instance resolve answers with, except
\* where the dependency was unregistered since: those that had it keep the
\* old one, also after a new registration.
InjectedIsShared ==
  \A n \in Name : resolved[n] # None =>
    \A d \in Range(registered[n]) \ replaced : resolved[d] # None /\ resolved[n].with[d] = resolved[d].id

\* A call of all() that returns has resolved every name but those that cannot
\* be, because they are on a cycle or depend on one.
AllAreThere ==
  outcome = "all" => \A n \in Registered : HasCycle(n) \/ resolved[n] # None

\* One graph of instances: complete, and without a call that waits for itself.
InstancesAreShared == TypeOK /\ NotReentered /\ InjectedIsShared /\ AllAreThere
=============================================================================
