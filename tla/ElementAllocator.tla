-------------------------- MODULE ElementAllocator --------------------------
(***************************************************************************)
(* What the element pool promises the timer module: an object that is      *)
(* fetched was free, one that is released can be fetched again, and a      *)
(* fetch fails only when all objects are out.  TimerModule uses the pool   *)
(* in this form: its variable used is out, its choice of e \in Elem \ used *)
(* is Fetch.                                                               *)
(***************************************************************************)
EXTENDS Integers

CONSTANTS
  Object,  \* the objects of the pool
  NULL     \* no object

VARIABLES
  out,     \* objects fetched and not released
  result   \* what the last call returned: an object, or NULL

vars == <<out, result>>

Init == out = {} /\ result = NULL

Fetch ==
  \E o \in Object \ out :
    /\ out' = out \cup {o}
    /\ result' = o

FetchFails ==
  /\ out = Object
  /\ result' = NULL
  /\ UNCHANGED out

Release(o) ==
  /\ o \in out
  /\ out' = out \ {o}
  /\ result' = NULL

Next == Fetch \/ FetchFails \/ \E o \in Object : Release(o)

Spec == Init /\ [][Next]_vars
=============================================================================
