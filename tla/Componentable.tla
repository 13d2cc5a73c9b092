---------------------------- MODULE Componentable ----------------------------
(***************************************************************************)
(* gspp::Componentable: a map from types to components under one lock, and *)
(* the references to components it hands out, which do not keep their      *)
(* component alive.  Each member function is a critical section and an     *)
(* action; only the destructor of a component that was replaced or erased  *)
(* is told apart, because it runs while the lock is held.                  *)
(*                                                                         *)
(* Components are numbered as they are made; 0 is a null pointer.          *)
(***************************************************************************)
EXTENDS Integers, Functions

CONSTANTS
    Users,      \* threads that run handlers
    Types,      \* of components
    MaxObjects  \* bound: components made

VARIABLES
    components,  \* _components: what each type that has an entry maps to
    call,        \* where each user's call of a member function is, if it
                 \* holds _componentsLock
    ref,         \* the ComponentRef each user's handler keeps
    made,        \* number of components made
    destroyed,   \* history: the components whose destructor has begun
    removed      \* history: what each user removed since its handler began

vars == <<components, call, ref, made, destroyed, removed>>

TypeOK ==
    /\ DOMAIN components \subseteq Types
    /\ Range(components) \subseteq 0 .. made
    /\ call \in [Users -> {"none", "destroying", "stuck"}]
    /\ ref \in [Users -> 0 .. made]
    /\ made \in 0 .. MaxObjects
    /\ destroyed \subseteq 1 .. made
    /\ removed \in [Users -> SUBSET destroyed]

Init ==
    /\ components = <<>>
    /\ call = [u \in Users |-> "none"]
    /\ ref = [u \in Users |-> 0]
    /\ made = 0
    /\ destroyed = {}
    /\ removed = [u \in Users |-> {}]

-----------------------------------------------------------------------------

(* What GetComponent finds: a type without an entry and an entry that is   *)
(* null give the same reference.                                           *)
Find(k) == IF k \in DOMAIN components THEN components[k] ELSE 0

(* What operator[] leaves: type k maps to o. *)
WithEntry(k, o) ==
    [t \in DOMAIN components \cup {k} |-> IF t = k THEN o ELSE components[t]]

(* A member function begins when lock_guard has got the lock. *)
Unlocked == \A u \in Users : call[u] = "none"

(* The map gives up object o: unless somebody else shares it, its          *)
(* destructor runs, and the lock is held until it returns.                 *)
GivesUp(u, o) ==
    IF o = 0
    THEN UNCHANGED <<call, destroyed, removed>>
    ELSE \/ UNCHANGED <<call, destroyed, removed>>
         \/ /\ call' = [call EXCEPT ![u] = "destroying"]
            /\ destroyed' = destroyed \cup {o}
            /\ removed' = [removed EXCEPT ![u] = @ \cup {o}]

(* The component is made before the lock is taken, or a null pointer is    *)
(* passed; an entry of that type is replaced.                              *)
CreateComponent(u) ==
    /\ Unlocked
    /\ \E k \in Types, o \in {0, made + 1} \cap (0 .. MaxObjects) :
        /\ components' = WithEntry(k, o)
        /\ made' = IF o = 0 THEN made ELSE o
        /\ GivesUp(u, Find(k))
    /\ UNCHANGED ref

(* GetComponent, and GetExistingComponent, whose exception for a null      *)
(* reference ends the handler that called it.                              *)
GetComponent(u) ==
    /\ Unlocked
    /\ \E k \in Types : ref' = [ref EXCEPT ![u] = Find(k)]
    /\ UNCHANGED <<components, call, made, destroyed, removed>>

DestroyComponent(u) ==
    /\ Unlocked
    /\ \E k \in Types :
        /\ components' = Restrict(components, DOMAIN components \ {k})
        /\ GivesUp(u, Find(k))
    /\ UNCHANGED <<ref, made>>

DestructorReturns(u) ==
    /\ call[u] = "destroying"
    /\ call' = [call EXCEPT ![u] = "none"]
    /\ UNCHANGED <<components, ref, made, destroyed, removed>>

(* A component's destructor that asks the object it belongs to for         *)
(* another component locks the same mutex on the same thread again.        *)
DestructorCallsBack(u) ==
    /\ call[u] = "destroying"
    /\ call' = [call EXCEPT ![u] = "stuck"]
    /\ UNCHANGED <<components, ref, made, destroyed, removed>>

(* A handler's references are local to it. *)
Forgets(u) ==
    /\ call[u] = "none"
    /\ ref' = [ref EXCEPT ![u] = 0]
    /\ removed' = [removed EXCEPT ![u] = {}]
    /\ UNCHANGED <<components, call, made, destroyed>>

Calls(u) == CreateComponent(u) \/ GetComponent(u) \/ DestroyComponent(u)
=============================================================================
