-------------------------- MODULE GuardedResource --------------------------
(***************************************************************************)
(* What a provider's shim promises about the resource it makes for one     *)
(* ModelDeployment, whatever its caches hold and whichever calls fail:     *)
(* the resource is made only while the shim's finalizer guards the object, *)
(* and a guarded object goes only after its resource, or once the time for *)
(* the clean-up has run out.                                               *)
(***************************************************************************)
VARIABLES
  object,     \* "absent", "live" or "deleting"
  guarded,    \* the object carries the shim's finalizer
  resource,   \* a resource of this very incarnation of the object is there
  expired     \* the time for the clean-up has run out

vars == <<object, guarded, resource, expired>>

Init == object = "live" /\ ~guarded /\ ~resource /\ ~expired

Create ==
  /\ object = "absent"
  /\ object' = "live" /\ ~guarded' /\ ~resource'
  /\ UNCHANGED expired

\* No finalizer is added to an object under deletion.
Guard ==
  /\ object = "live"
  /\ guarded'
  /\ UNCHANGED <<object, resource, expired>>

Provision ==
  /\ object # "absent" /\ guarded
  /\ resource'
  /\ UNCHANGED <<object, guarded, expired>>

\* Deleted by the shim, by a user, by the garbage collector.
Lose ==
  /\ ~resource'
  /\ UNCHANGED <<object, guarded, expired>>

Delete ==
  /\ object = "live"
  /\ IF guarded THEN object' = "deleting" /\ UNCHANGED <<guarded, resource>>
                ELSE ~resource /\ object' = "absent" /\ ~guarded' /\ ~resource'
  /\ UNCHANGED expired

Expire ==
  /\ object = "deleting"
  /\ expired'
  /\ UNCHANGED <<object, guarded, resource>>

Release ==
  /\ object = "deleting" /\ guarded
  /\ resource => expired
  /\ object' = "absent" /\ ~guarded' /\ ~resource' /\ ~expired'

Next == Create \/ Guard \/ Provision \/ Lose \/ Delete \/ Expire \/ Release

Spec == Init /\ [][Next]_vars
=============================================================================
