-------------------------- MODULE TimerRefinement --------------------------
(***************************************************************************)
(* The timer module implements TimerService: the timer of a node and an id *)
(* is the element its map points to, and the timer whose callback runs is  *)
(* the current element as long as that is not killed.                      *)
(***************************************************************************)
EXTENDS TimerModule

(* NULL is neither a timer nor the name of one.                            *)
ASSUME NullAssumption ==
  /\ NULL \notin [due : Int, cd : Nat, exact : BOOLEAN, cron : BOOLEAN]
  /\ NULL \notin Node \X Id

phase == IF pc \in {"loop", "drain"} THEN "running" ELSE pc

timers ==
  [n \in Node |-> [i \in Id |->
     IF pc = "down" \/ map[n][i] = NULL
       THEN NULL
       ELSE LET r == elem[map[n][i]]
            IN  [due |-> r.next, cd |-> r.cd, exact |-> r.exact, cron |-> r.cron]]]

firing ==
  IF current = NULL \/ elem[current].erased
    THEN NULL
    ELSE <<elem[current].sink, elem[current].id>>

Service == INSTANCE TimerService WITH cur <- m_qwCurTime

(* The promise kept: every step of the timer module is a step of the       *)
(* service or changes nothing that the service shows.  In particular Run   *)
(* executes timers in the order in which they are due, none of them twice  *)
(* for one expiry, and returns only when no expired one is left.           *)
Implements == Service!Spec
=============================================================================
