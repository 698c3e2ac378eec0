----------------------- MODULE TimerRefinementProofs -----------------------
(***************************************************************************)
(* Proof that the timer module implements TimerService, step by step:      *)
(*                                                                         *)
(*   Refinement   every behaviour of the timer module, seen through the    *)
(*                mapping of TimerRefinement, is one of the service        *)
(*                                                                         *)
(* for Timely constants, when no callback throws and none copies nodes.    *)
(***************************************************************************)
EXTENDS TimerRefinement, TimerPunctualProofs

(* What the service shows of an element.                                   *)
View(r) == [due |-> r.next, cd |-> r.cd, exact |-> r.exact, cron |-> r.cron]

(* What is known of every state of the timer module.                       *)
Known == TypeOK /\ Ownership /\ Registration /\ OnSchedule

-----------------------------------------------------------------------------
(* A timer and the name of a timer are not NULL.                           *)
LEMMA ViewNotNull == \A r \in Element : View(r) # NULL
<1> SUFFICES ASSUME NEW r \in Element
             PROVE  View(r) # NULL
  OBVIOUS
<1>1. View(r) \in [due : Int, cd : Nat, exact : BOOLEAN, cron : BOOLEAN]
  BY DEF View, Element
<1> QED
  BY <1>1, NullAssumption

(* The timers that the service sees.                                       *)
LEMMA TimersSeen ==
  /\ timers = [n \in Node |-> [i \in Id |-> timers[n][i]]]
  /\ \A n \in Node, i \in Id :
       /\ pc = "down" \/ map[n][i] = NULL => timers[n][i] = NULL
       /\ pc # "down" /\ map[n][i] # NULL => timers[n][i] = View(elem[map[n][i]])
BY DEF timers, View

(* What the service takes as registered is what the nodes' maps hold.      *)
LEMMA RegisteredSeen ==
  ASSUME TypeOK, pc # "down", NEW k \in Service!Registered
  PROVE  /\ k[1] \in Node /\ k[2] \in Registered(k[1])
         /\ map[k[1]][k[2]] \in Elem
         /\ Service!Timer(k) = View(elem[map[k[1]][k[2]]])
<1>1. k \in Node \X Id /\ timers[k[1]][k[2]] # NULL
  BY DEF Service!Registered
<1>2. k[1] \in Node /\ k[2] \in Id
  BY <1>1
<1>3. map[k[1]][k[2]] # NULL /\ timers[k[1]][k[2]] = View(elem[map[k[1]][k[2]]])
  BY <1>1, <1>2, TimersSeen
<1> QED
  BY <1>2, <1>3 DEF Service!Timer, Registered, TypeOK

(* Two collections of timers are the same when each timer is.              *)
LEMMA SameTimers ==
  ASSUME NEW T, NEW f, T = [n \in Node |-> [i \in Id |-> f[n][i]]],
         \A n \in Node, i \in Id : timers'[n][i] = f[n][i]
  PROVE  timers' = T
<1>1. timers' = [n \in Node |-> [i \in Id |-> timers'[n][i]]]
  BY DEF timers
<1> HIDE DEF timers
<1> QED
  BY <1>1

(* The service sees no change where a node's map points to the same        *)
(* element as before, and that element shows the same.                     *)
LEMMA TimersSame ==
  ASSUME pc # "down", pc' # "down",
         \A n \in Node, i \in Id :
           /\ map'[n][i] = map[n][i]
           /\ map[n][i] # NULL => View(elem'[map[n][i]]) = View(elem[map[n][i]])
  PROVE  timers' = timers
<1>1. \A n \in Node, i \in Id :
        timers'[n][i] = IF map'[n][i] = NULL THEN NULL ELSE View(elem'[map'[n][i]])
  BY DEF timers, View
<1>2. \A n \in Node, i \in Id : timers'[n][i] = timers[n][i]
  BY <1>1, TimersSeen
<1>3. timers = [n \in Node |-> [i \in Id |-> timers[n][i]]]
  BY DEF timers
<1> QED
  BY <1>2, <1>3, SameTimers

-----------------------------------------------------------------------------
(* The timer whose callback runs, as the service sees it.                  *)
LEMMA FiringSeen ==
  ASSUME Known
  PROVE  /\ pc # "callback" => firing = NULL
         /\ pc = "callback" /\ elem[current].erased => firing = NULL
         /\ pc = "callback" /\ ~elem[current].erased =>
              /\ current \in Elem /\ elem[current].sink \in Node
              /\ elem[current].id \in Id
              /\ firing = <<elem[current].sink, elem[current].id>>
              /\ firing # NULL
              /\ map[elem[current].sink][elem[current].id] = current
<1>1. pc = "callback" <=> current # NULL
  BY DEF Known, Ownership
<1>2. pc = "callback" => current \in Elem /\ current \in Owned
  BY <1>1 DEF Known, TypeOK, Owned
<1>3. pc = "callback" /\ ~elem[current].erased =>
        /\ elem[current].sink \in alive
        /\ elem[current].id \in Id
        /\ map[elem[current].sink][elem[current].id] = current
  BY <1>2 DEF Known, Registration, LiveIsRegistered
<1>4. alive \subseteq Node
  BY DEF Known, TypeOK
<1> QED
  BY <1>1, <1>2, <1>3, <1>4, NullAssumption DEF firing

(* What a call of the API leaves of a fetched element.                     *)
LEMMA FetchedAfter ==
  ASSUME Known, UserStep, NEW e \in used
  PROVE  /\ e \in Elem
         /\ View(elem'[e]) = View(elem[e])
         /\ elem'[e].sink = elem[e].sink
         /\ elem'[e].id = elem[e].id
         /\ elem[e].erased => elem'[e].erased
<1>1. e \in Elem /\ elem \in [Elem -> Element] /\ TypeOK
  BY DEF Known, TypeOK
<1>2. PICK K : elem'[e] = Killed(K)[e]
  BY <1>1, UserStepKeepsFetched
<1>3. /\ Killed(K)[e].next = elem[e].next
      /\ Killed(K)[e].cd = elem[e].cd
      /\ Killed(K)[e].exact = elem[e].exact
      /\ Killed(K)[e].cron = elem[e].cron
      /\ Killed(K)[e].sink = elem[e].sink
      /\ Killed(K)[e].id = elem[e].id
  BY <1>1, KilledKeeps
<1>4. elem[e].erased => Killed(K)[e].erased
  BY <1>1, KilledMarks
<1> QED
  BY <1>1, <1>2, <1>3, <1>4 DEF View

(* A call of the API: the timer whose callback runs goes on being that     *)
(* unless it is among those that were killed or replaced.                  *)
LEMMA FiringAfter ==
  ASSUME Known, Known', UserStep, pc # "down", NEW K \in SUBSET (Node \X Id),
         \A n \in Node, i \in Id :
           /\ <<n, i>> \notin K => map'[n][i] = map[n][i]
           /\ <<n, i>> \in K => map'[n][i] # current
  PROVE  firing' = Service!Without(K)
<1>1. UNCHANGED <<pc, current>>
  BY UserStepKeepsTimes, UserStepKeepsFetched DEF Known
<1>2. CASE pc # "callback"
  <2>1. current = NULL /\ firing = NULL
    BY <1>2, FiringSeen DEF Known, Ownership
  <2>2. firing' = NULL
    BY <1>1, <2>1 DEF firing
  <2> QED
    BY <2>1, <2>2 DEF Service!Without
<1>3. CASE pc = "callback"
  <2>1. current # NULL /\ current \in used
    BY <1>3 DEF Known, Ownership, Owned
  <2>2. /\ elem'[current].sink = elem[current].sink
        /\ elem'[current].id = elem[current].id
        /\ elem[current].erased => elem'[current].erased
    BY <2>1, FetchedAfter
  <2>3. CASE elem[current].erased
    BY <1>1, <2>1, <2>2, <2>3 DEF firing, Service!Without
  <2>4. CASE ~elem[current].erased
    <3> DEFINE n == elem[current].sink
    <3> DEFINE i == elem[current].id
    <3>1. /\ n \in Node /\ i \in Id
          /\ firing = <<n, i>>
          /\ map[n][i] = current
      BY <1>3, <2>4, FiringSeen
    <3>2. ~elem'[current].erased => map'[n][i] = current
      <4>1. current' \in Owned'
        BY <1>1, <2>1 DEF Owned
      <4>2. LiveIsRegistered'
        BY DEF Known, Registration
      <4> QED
        BY <1>1, <2>2, <4>1, <4>2 DEF LiveIsRegistered
    <3>3. elem'[current].erased => map'[n][i] # current
      <4>1. RegisteredIsLive' /\ pc' # "down"
        BY <1>1 DEF Known, Registration
      <4> QED
        BY <2>1, <3>1, <4>1 DEF RegisteredIsLive, Registered
    <3>4. firing' = IF elem'[current].erased THEN NULL ELSE <<n, i>>
      BY <1>1, <2>1, <2>2 DEF firing
    <3> HIDE DEF n, i
    <3> QED
      BY <3>1, <3>2, <3>3, <3>4 DEF Service!Without
  <2> QED
    BY <2>3, <2>4
<1> QED
  BY <1>2, <1>3

(* A call of the API: the service sees the timers of the keys outside K as *)
(* before.                                                                 *)
LEMMA TimersAfter ==
  ASSUME Known, UserStep, pc # "down", NEW n \in Node, NEW i \in Id,
         map'[n][i] = map[n][i]
  PROVE  timers'[n][i] = timers[n][i]
<1>1. pc' = pc
  BY UserStepKeepsTimes
<1>2. CASE map[n][i] = NULL
  BY <1>2 DEF timers
<1>3. CASE map[n][i] # NULL
  <2>1. map[n][i] \in used
    BY <1>3 DEF Known, Registration, RegisteredIsLive, Registered
  <2>2. View(elem'[map[n][i]]) = View(elem[map[n][i]])
    BY <2>1, FetchedAfter
  <2> QED
    BY <1>1, <1>3, <2>2 DEF timers, View
<1> QED
  BY <1>2, <1>3

(* One timer of a node is set or killed.                                   *)
LEMMA SetSeen ==
  ASSUME Known, Known', UserStep, UserCode, NEW n \in Node, NEW i \in Id, NEW t,
         n \in alive, alive' = alive,
         \A o \in Node, j \in Id : <<o, j>> # <<n, i>> => map'[o][j] = map[o][j],
         map'[n][i] # current \/ current = NULL, timers'[n][i] = t
  PROVE  Service!Set(n, i, t)
<1>1. pc # "down" /\ phase \in {"idle", "callback"}
  BY DEF UserCode, phase
<1>2. UNCHANGED <<pc, now, m_qwCurTime, current>>
  BY UserStepKeepsTimes, UserStepKeepsFetched DEF timeVars, Known
<1>3. firing' = Service!Without({<<n, i>>})
  <2>0. CASE current = NULL
    BY <1>2, <2>0 DEF firing, Service!Without
  <2> SUFFICES ASSUME map'[n][i] # current
               PROVE  firing' = Service!Without({<<n, i>>})
    BY <2>0
  <2> DEFINE K == {<<n, i>>}
  <2>1. K \in SUBSET (Node \X Id)
    OBVIOUS
  <2>2. \A o \in Node, j \in Id :
          /\ <<o, j>> \notin K => map'[o][j] = map[o][j]
          /\ <<o, j>> \in K => map'[o][j] # current
    OBVIOUS
  <2> HIDE DEF K
  <2>3. firing' = Service!Without(K)
    BY <1>1, <2>1, <2>2, FiringAfter
  <2> QED
    BY <2>3 DEF K
<1>4. timers' = [timers EXCEPT ![n][i] = t]
  <2> DEFINE T == [timers EXCEPT ![n][i] = t]
  <2> DEFINE f == [o \in Node |-> [j \in Id |-> IF o = n /\ j = i THEN t
                                                               ELSE timers[o][j]]]
  <2>1. T = f
    <3>1. timers = [o \in Node |-> [j \in Id |-> timers[o][j]]]
      BY TimersSeen
    <3> QED
      BY <3>1
  <2>2. \A o \in Node, j \in Id : timers'[o][j] = f[o][j]
    BY <1>1, TimersAfter
  <2>3. f = [o \in Node |-> [j \in Id |-> f[o][j]]]
    OBVIOUS
  <2> HIDE DEF f, T
  <2>4. timers' = f
    BY <2>2, <2>3, SameTimers
  <2> QED
    BY <2>1, <2>4 DEF T
<1> QED
  BY <1>1, <1>2, <1>3, <1>4 DEF Service!Set, Service!UserCode, phase

(* All timers of a node are killed.                                        *)
LEMMA KillAllSeen ==
  ASSUME Known, Known', UserStep, UserCode, NEW n \in Node,
         map' = [map EXCEPT ![n] = NoTimers]
  PROVE  /\ timers' = [timers EXCEPT ![n] = Service!NoTimers]
         /\ firing' = Service!Without({n} \X Id)
<1>1. pc # "down" /\ pc' = pc /\ current' = current
  BY UserStepKeepsTimes, UserStepKeepsFetched DEF UserCode, Known
<1>2. /\ \A o \in Node, j \in Id : o # n => map'[o][j] = map[o][j]
      /\ \A j \in Id : map'[n][j] = NULL
  BY DEF Known, TypeOK, NoTimers
<1>3. firing' = Service!Without({n} \X Id)
  <2>1. CASE current = NULL
    BY <1>1, <2>1 DEF firing, Service!Without
  <2>2. CASE current # NULL
    <3> DEFINE K == {n} \X Id
    <3>1. K \in SUBSET (Node \X Id)
      OBVIOUS
    <3>2. \A o \in Node, j \in Id :
            /\ <<o, j>> \notin K => map'[o][j] = map[o][j]
            /\ <<o, j>> \in K => map'[o][j] # current
      BY <1>2, <2>2
    <3> HIDE DEF K
    <3>3. firing' = Service!Without(K)
      BY <1>1, <3>1, <3>2, FiringAfter
    <3> QED
      BY <3>3 DEF K
  <2> QED
    BY <2>1, <2>2
<1>4. timers' = [timers EXCEPT ![n] = Service!NoTimers]
  <2> DEFINE T == [timers EXCEPT ![n] = Service!NoTimers]
  <2> DEFINE f == [o \in Node |-> [j \in Id |-> IF o = n THEN NULL ELSE timers[o][j]]]
  <2>1. T = f
    <3>1. timers = [o \in Node |-> [j \in Id |-> timers[o][j]]]
      BY TimersSeen
    <3> QED
      BY <3>1 DEF Service!NoTimers
  <2>2. \A o \in Node, j \in Id : timers'[o][j] = f[o][j]
    <3>1. \A o \in Node, j \in Id : o # n => timers'[o][j] = timers[o][j]
      BY <1>1, <1>2, TimersAfter
    <3>2. \A j \in Id : timers'[n][j] = NULL
      BY <1>2 DEF timers
    <3> QED
      BY <3>1, <3>2
  <2>3. f = [o \in Node |-> [j \in Id |-> f[o][j]]]
    OBVIOUS
  <2> HIDE DEF f, T
  <2>4. timers' = f
    BY <2>2, <2>3, SameTimers
  <2> QED
    BY <2>1, <2>4 DEF T
<1> QED
  BY <1>3, <1>4

(* CopyFrom: the sources with the smallest ids get copies that are due     *)
(* when they are; "before" is what n had, or nothing.                      *)
LEMMA CopySeen ==
  ASSUME Known, Known', UserStep, pc = "idle", NEW n \in Node, NEW m \in alive,
         NEW before \in {map[n], NoTimers}, NEW K, CopyInto(n, m, before, K),
         alive' = alive \cup {n}
  PROVE  \/ Service!Copy(n, m, timers[n])
         \/ Service!Copy(n, m, Service!NoTimers)
<1>1. PICK ids \in SUBSET Registered(m) :
        /\ \A i \in ids, j \in Registered(m) \ ids : i < j
        /\ \E new \in [ids -> Elem \ used] : CopyElements(n, m, before, K, ids, new)
  BY DEF CopyInto
<1>2. PICK new \in [ids -> Elem \ used] : CopyElements(n, m, before, K, ids, new)
  BY <1>1
<1> DEFINE first == {i \in Id : \E j \in ids : i <= j}
<1> DEFINE old == IF before = map[n] THEN timers[n] ELSE Service!NoTimers
<1>3. /\ pc' = pc /\ current' = current /\ current = NULL
      /\ UNCHANGED <<now, m_qwCurTime>>
      /\ m \in Node
  BY UserStepKeepsTimes, UserStepKeepsFetched
     DEF Known, Ownership, TypeOK, timeVars
<1>4. /\ map' = [map EXCEPT ![n] = [i \in Id |-> IF i \in ids THEN new[i]
                                                           ELSE before[i]]]
      /\ \A i \in ids : elem'[new[i]] = [elem[map[m][i]] EXCEPT !.sink = n]
  <2> DEFINE copies == {new[i] : i \in ids}
  <2> DEFINE id(e) == CHOOSE i \in ids : new[i] = e
  <2>1. /\ \A i, j \in ids : new[i] = new[j] => i = j
        /\ \A e \in copies : elem'[e] = [elem[map[m][id(e)]] EXCEPT !.sink = n]
    BY <1>2 DEF CopyElements
  <2>2. \A i \in ids : new[i] \in copies /\ id(new[i]) = i
    BY <2>1
  <2> QED
    BY <1>2, <2>1, <2>2 DEF CopyElements
<1>5. first \in SUBSET Id /\ \A i \in first, j \in Id \ first : i < j
  <2> SUFFICES ASSUME NEW i \in first, NEW j \in Id \ first
               PROVE  i < j
    OBVIOUS
  <2>1. PICK l \in ids : i <= l
    OBVIOUS
  <2>2. i \in Nat /\ j \in Nat /\ l \in Nat
    BY ModuleAssumption DEF Registered
  <2>3. ~(j <= l)
    BY <2>1
  <2> QED
    BY <2>1, <2>2, <2>3
<1>6. \A i \in Id : i \in first /\ map[m][i] # NULL <=> i \in ids
  <2> SUFFICES ASSUME NEW i \in Id
               PROVE  i \in first /\ map[m][i] # NULL <=> i \in ids
    OBVIOUS
  <2>1. i \in Nat /\ ids \subseteq Nat
    BY ModuleAssumption DEF Registered
  <2>2. i \in ids => i \in first /\ map[m][i] # NULL
    BY <2>1 DEF Registered
  <2>3. ASSUME i \in first, map[m][i] # NULL, i \notin ids
        PROVE  FALSE
    <3>1. PICK l \in ids : i <= l
      BY <2>3
    <3>2. l < i
      BY <1>1, <2>3 DEF Registered
    <3> QED
      BY <2>1, <3>1, <3>2
  <2> QED
    BY <2>2, <2>3
<1>7. \A i \in ids : timers'[n][i] = timers[m][i] /\ timers[m][i] # NULL
  <2> SUFFICES ASSUME NEW i \in ids
               PROVE  timers'[n][i] = timers[m][i] /\ timers[m][i] # NULL
    OBVIOUS
  <2> DEFINE r == elem[map[m][i]]
  <2>1. i \in Id /\ map[m][i] # NULL /\ map[m][i] \in Elem
    BY <1>3 DEF Registered, Known, TypeOK
  <2>2. r \in Element
    BY <2>1 DEF Known, TypeOK
  <2>3. map'[n][i] = new[i] /\ new[i] # NULL
    BY <1>4, <2>1, ModuleAssumption DEF Known, TypeOK
  <2>4. View([r EXCEPT !.sink = n]) = View(r)
    BY <2>2 DEF View, Element
  <2>5. timers'[n][i] = View(elem'[new[i]])
    BY <1>3, <2>1, <2>3 DEF timers, View
  <2>6. timers[m][i] = View(r)
    BY <1>3, <2>1 DEF timers, View
  <2> QED
    BY <1>4, <2>2, <2>4, <2>5, <2>6, ViewNotNull
<1>8. \A i \in Id : i \notin ids => timers'[n][i] = old[i]
  <2>1. ASSUME NEW i \in Id, i \notin ids, before = map[n]
        PROVE  timers'[n][i] = timers[n][i]
    <3>1. map'[n][i] = map[n][i]
      BY <1>4, <2>1 DEF Known, TypeOK
    <3> QED
      BY <3>1, TimersAfter
  <2>2. ASSUME NEW i \in Id, i \notin ids, before = NoTimers
        PROVE  timers'[n][i] = NULL
    <3>1. map'[n][i] = NULL
      BY <1>4, <2>2 DEF Known, TypeOK, NoTimers
    <3> QED
      BY <3>1 DEF timers
  <2>3. \A i \in Id : Service!NoTimers[i] = NULL
    BY DEF Service!NoTimers
  <2> QED
    BY <2>1, <2>2, <2>3
<1>9. \A o \in Node, i \in Id : o # n => timers'[o][i] = timers[o][i]
  <2>1. \A o \in Node, i \in Id : o # n => map'[o][i] = map[o][i]
    BY <1>4 DEF Known, TypeOK
  <2> QED
    BY <2>1, TimersAfter
<1>10. \A i \in Id : timers[m][i] # NULL => map[m][i] # NULL
  BY <1>3 DEF timers
<1> HIDE DEF first, old
<1>11. timers' = [timers EXCEPT ![n] =
                    [i \in Id |-> IF i \in first /\ timers[m][i] # NULL
                                    THEN timers[m][i] ELSE old[i]]]
  <2> DEFINE row == [i \in Id |-> IF i \in first /\ timers[m][i] # NULL
                                    THEN timers[m][i] ELSE old[i]]
  <2> DEFINE f == [o \in Node |-> [i \in Id |-> IF o = n THEN row[i]
                                                        ELSE timers[o][i]]]
  <2>1. \A i \in Id : timers'[n][i] = row[i]
    BY <1>6, <1>7, <1>8, <1>10
  <2>2. [timers EXCEPT ![n] = row] = f
    <3>1. timers = [o \in Node |-> [i \in Id |-> timers[o][i]]]
      BY TimersSeen
    <3>2. row = [i \in Id |-> row[i]]
      OBVIOUS
    <3> HIDE DEF row
    <3> QED
      BY <3>1, <3>2
  <2> HIDE DEF row
  <2>3. \A o \in Node, i \in Id : timers'[o][i] = f[o][i]
    BY <1>9, <2>1
  <2>4. f = [o \in Node |-> [i \in Id |-> f[o][i]]]
    OBVIOUS
  <2> HIDE DEF f
  <2>5. timers' = f
    BY <2>3, <2>4, SameTimers
  <2> QED
    BY <2>2, <2>5 DEF row
<1>12. firing' = firing /\ phase = "idle" /\ phase' = phase
  BY <1>3 DEF firing, phase
<1>13. Service!Copy(n, m, old)
  BY <1>3, <1>5, <1>11, <1>12 DEF Service!Copy
<1> QED
  BY <1>13 DEF old

(* SetTimer and SetTimerCron: a timer that is due first, or gap, from now. *)
LEMMA RegisterSeen ==
  ASSUME Timely, Known, Known', NEW n \in Node, NEW id \in Id,
         UserStep, UserCode, n \in alive,
         NEW e \in Elem \ used, NEW r \in Element, Register(n, id, e, r)
  PROVE  Service!Set(n, id, View(r))
<1>1. /\ map' = [map EXCEPT ![n][id] = e]
      /\ elem'[e] = r
      /\ alive' = alive
      /\ pc' = pc
  BY DEF Register, Killed, timeVars
<1>2. \A o \in Node, j \in Id : <<o, j>> # <<n, id>> => map'[o][j] = map[o][j]
  BY <1>1 DEF Known, TypeOK
<1>3. map'[n][id] = e
  BY <1>1 DEF Known, TypeOK
<1>4. e # current /\ e # NULL
  <2>1. current \in used \cup {NULL} /\ e \in Elem /\ e \notin used
    BY DEF Known, Ownership, Owned
  <2> QED
    BY <2>1, ModuleAssumption
<1>5. timers'[n][id] = View(r)
  BY <1>1, <1>3, <1>4 DEF timers, View, UserCode
<1>6. map'[n][id] # current
  BY <1>3, <1>4
<1> DEFINE t == View(r)
<1> HIDE DEF t
<1>7. timers'[n][id] = t
  BY <1>5 DEF t
<1>8. Service!Set(n, id, t)
  BY <1>1, <1>2, <1>6, <1>7, SetSeen
<1> QED
  BY <1>8 DEF t

(* The calls of the API are calls of the service, or nothing.              *)
LEMMA UserStepSeen ==
  ASSUME Timely, ~CopyInCallback, Known, Known', UserStep
  PROVE  Service!UserStep \/ UNCHANGED Service!vars
<1> PICK n \in Node :
      \/ Construct(n)
      \/ KillAll(n)
      \/ Destroy(n)
      \/ SetTimerCronThrows(n)
      \/ \E m \in Node : CopyFrom(n, m) \/ Assign(n, m) \/ CopyConstruct(n, m)
      \/ \E id \in Id :
           \/ KillTimer(n, id)
           \/ \E q \in Requests : SetTimer(n, id, q)
           \/ \E gap \in CronGaps : SetTimerCron(n, id, gap)
  BY DEF UserStep
<1>0. /\ UNCHANGED <<pc, now, m_qwCurTime, current>>
      /\ phase' = phase
      /\ UserCode => phase \in {"idle", "callback"} /\ pc # "down"
  BY UserStepKeepsTimes, UserStepKeepsFetched DEF Known, timeVars, phase, UserCode
<1>1. CASE Construct(n) \/ SetTimerCronThrows(n)
  <2>1. UserCode /\ UNCHANGED <<map, elem>>
    BY <1>1 DEF Construct, SetTimerCronThrows, nodeVars
  <2>2. timers' = timers /\ firing' = firing
    BY <1>0, <2>1, TimersSame DEF firing
  <2>3. CASE Construct(n)
    <3>1. Service!Construct(n)
      BY <1>0, <2>1, <2>2, <2>3 DEF Construct, Service!Construct, Service!UserCode
    <3> QED
      BY <3>1 DEF Service!UserStep
  <2>4. CASE SetTimerCronThrows(n)
    BY <1>0, <2>2, <2>4 DEF SetTimerCronThrows, Service!vars, nodeVars
  <2> QED
    BY <1>1, <2>3, <2>4
<1>2. CASE KillAll(n) \/ Destroy(n)
  <2>1. UserCode /\ n \in alive /\ map' = [map EXCEPT ![n] = NoTimers]
    BY <1>2 DEF KillAll, Destroy
  <2>2. /\ timers' = [timers EXCEPT ![n] = Service!NoTimers]
        /\ firing' = Service!Without({n} \X Id)
    BY <2>1, KillAllSeen
  <2>3. Service!KillAll(n) \/ Service!Destroy(n)
    BY <1>0, <1>2, <2>1, <2>2
       DEF KillAll, Destroy, Service!KillAll, Service!Destroy, Service!UserCode
  <2> QED
    BY <2>3 DEF Service!UserStep
<1>3. ASSUME NEW m \in Node,
             CopyFrom(n, m) \/ Assign(n, m) \/ CopyConstruct(n, m)
      PROVE  Service!UserStep \/ UNCHANGED Service!vars
  <2>1. PICK before, K : /\ CopyInto(n, m, before, K)
                         /\ before \in {map[n], NoTimers}
    BY <1>3 DEF CopyFrom, Assign, CopyConstruct
  <2>2. pc = "idle" /\ m \in alive /\ alive' = alive \cup {n}
    BY <1>3 DEF CopyFrom, Assign, CopyConstruct, CopyAllowed
  <2>3. Service!Copy(n, m, timers[n]) \/ Service!Copy(n, m, Service!NoTimers)
    BY <2>1, <2>2, CopySeen
  <2> QED
    BY <2>3 DEF Service!UserStep
<1>4. ASSUME NEW id \in Id, KillTimer(n, id)
      PROVE  Service!UserStep \/ UNCHANGED Service!vars
  <2>1. /\ UserCode /\ n \in alive /\ alive' = alive
        /\ map' = [map EXCEPT ![n][id] = NULL]
    BY <1>4 DEF KillTimer
  <2>2. \A o \in Node, j \in Id : <<o, j>> # <<n, id>> => map'[o][j] = map[o][j]
    BY <2>1 DEF Known, TypeOK
  <2>3. map'[n][id] = NULL /\ timers'[n][id] = NULL
    BY <2>1 DEF Known, TypeOK, timers
  <2>4. Service!Set(n, id, NULL)
    BY <2>1, <2>2, <2>3, SetSeen
  <2> QED
    BY <2>4 DEF Service!UserStep, Service!Kill
<1>5. ASSUME NEW id \in Id, NEW q \in Requests, SetTimer(n, id, q)
      PROVE  Service!UserStep \/ UNCHANGED Service!vars
  <2> DEFINE r == [sink |-> n, id |-> id, next |-> (now + q.first) % WORD,
                   cd |-> q.cd, exact |-> q.exact, cron |-> FALSE, erased |-> FALSE]
  <2>1. UserCode /\ n \in alive /\ \E e \in Elem \ used : Register(n, id, e, r)
    BY <1>5 DEF SetTimer
  <2>2. TypeOK /\ now \in Nat /\ now <= MaxNow
    BY DEF Known, TypeOK, OnSchedule, TimesInOrder
  <2>3. r \in Element /\ (now + q.first) % WORD = now + q.first
    BY <2>2, NewTimerType, NewTimerTimely
  <2>4. View(r) = [due |-> now + q.first, cd |-> q.cd, exact |-> q.exact,
                   cron |-> FALSE]
    BY <2>3 DEF View
  <2> HIDE DEF r
  <2>5. Service!Set(n, id, View(r))
    BY <2>1, <2>3, RegisterSeen
  <2>6. Service!SetTimer(n, id, q)
    BY <2>4, <2>5 DEF Service!SetTimer
  <2> QED
    BY <2>6 DEF Service!UserStep
<1>6. ASSUME NEW id \in Id, NEW gap \in CronGaps, SetTimerCron(n, id, gap)
      PROVE  Service!UserStep \/ UNCHANGED Service!vars
  <2> DEFINE r == [sink |-> n, id |-> id, next |-> (now + gap) % WORD,
                   cd |-> 0, exact |-> FALSE, cron |-> TRUE, erased |-> FALSE]
  <2>1. UserCode /\ n \in alive /\ \E e \in Elem \ used : Register(n, id, e, r)
    BY <1>6 DEF SetTimerCron
  <2>2. TypeOK /\ now \in Nat /\ now <= MaxNow
    BY DEF Known, TypeOK, OnSchedule, TimesInOrder
  <2>3. r \in Element /\ (now + gap) % WORD = now + gap
    BY <2>2, NewTimerType, NewTimerTimely
  <2>4. View(r) = [due |-> now + gap, cd |-> 0, exact |-> FALSE, cron |-> TRUE]
    BY <2>3 DEF View
  <2> HIDE DEF r
  <2>5. Service!Set(n, id, View(r))
    BY <2>1, <2>3, RegisterSeen
  <2>6. Service!SetTimerCron(n, id, gap)
    BY <2>4, <2>5 DEF Service!SetTimerCron
  <2> QED
    BY <2>6 DEF Service!UserStep
<1> QED
  BY <1>1, <1>2, <1>3, <1>4, <1>5, <1>6

-----------------------------------------------------------------------------
(* Steps that leave alone what the service sees.                           *)
LEMMA Unseen ==
  ASSUME Known, pc # "down", pc' # "down", phase' = phase,
         UNCHANGED <<now, m_qwCurTime, alive, map>>,
         firing' = firing,
         \A n \in Node : \A i \in Registered(n) : elem'[map[n][i]] = elem[map[n][i]]
  PROVE  UNCHANGED Service!vars
<1>1. timers' = timers
  BY TimersSame DEF Registered
<1> QED
  BY <1>1 DEF Service!vars

(* Entering a callback: the timer is registered, it expired before the     *)
(* time that Run has read, and no other one expired earlier.               *)
LEMMA FireSeen ==
  ASSUME Known, NEW e \in Elem, Fire(e)
  PROVE  \E k \in Node \X Id : Service!Fire(k)
<1> DEFINE n == elem[e].sink
<1> DEFINE i == elem[e].id
<1> DEFINE k == <<n, i>>
<1>1. /\ pc = "drain" /\ pc' = "callback" /\ e \in work /\ ~elem[e].erased
      /\ current' = e
      /\ UNCHANGED <<timeVars, elem, nodeVars, vec>>
  BY DEF Fire
<1>2. TypeOK /\ WheelOnTime /\ TimesInOrder /\ FiresOnItsTick /\ RegisteredIsOwned
  BY DEF Known, OnSchedule
<1>3. n \in Node /\ i \in Id /\ map[n][i] = e /\ e # NULL
  <2>1. n \in alive /\ i \in Id /\ map[n][i] = e
    BY <1>1 DEF Known, Registration, LiveIsRegistered, Owned
  <2> QED
    BY <1>2, <2>1, ModuleAssumption DEF TypeOK
<1>4. timers[n][i] = View(elem[e])
  BY <1>1, <1>3, TimersSeen
<1>5. elem[e] \in Element /\ View(elem[e]) # NULL /\ View(elem[e]).due = elem[e].next
  BY <1>2, ViewNotNull DEF TypeOK, View
<1>6. k \in Service!Registered /\ Service!Timer(k) = View(elem[e])
  BY <1>3, <1>4, <1>5 DEF Service!Registered, Service!Timer
<1>7. elem[e].next = m_qwLastTime /\ m_qwLastTime < m_qwCurTime
  BY <1>1, <1>2 DEF FiresOnItsTick, TimesInOrder
<1>8. ASSUME NEW l \in Service!Registered
      PROVE  elem[e].next <= Service!Timer(l).due
  <2> DEFINE d == map[l[1]][l[2]]
  <2>1. /\ l[1] \in Node /\ l[2] \in Registered(l[1])
        /\ d \in Elem
        /\ Service!Timer(l) = View(elem[d])
    BY <1>1, <1>2, RegisteredSeen
  <2>2. d \in Linked \cup work
    <3>1. d \in Owned
      BY <1>1, <1>2, <2>1 DEF RegisteredIsOwned
    <3>2. current = NULL
      BY <1>1 DEF Known, Ownership
    <3> QED
      BY <3>1, <3>2 DEF Owned
  <2>3. elem[d].next \in Int /\ m_qwLastTime \in Int
    BY <1>2, <2>1 DEF TypeOK, Element
  <2>4. elem[d].next >= m_qwLastTime
    <3>1. d \in work => elem[d].next = m_qwLastTime
      BY <1>2 DEF FiresOnItsTick
    <3>2. d \in Linked => elem[d].next >= m_qwLastTime
      BY <1>2, LinkedNotPast
    <3> QED
      BY <2>2, <2>3, <3>1, <3>2
  <2>5. Service!Timer(l).due = elem[d].next
    BY <2>1 DEF View
  <2> QED
    BY <1>7, <2>3, <2>4, <2>5
<1>9. timers' = timers
  BY <1>1, TimersSame DEF nodeVars
<1>10. firing' = k
  BY <1>1, <1>3 DEF firing
<1>11. phase = "running" /\ phase' = "callback"
  BY <1>1 DEF phase
<1>12. k \in Node \X Id
  BY <1>3
<1> HIDE DEF k, n, i
<1>13. Service!Fire(k)
  BY <1>1, <1>5, <1>6, <1>7, <1>8, <1>9, <1>10, <1>11
     DEF Service!Fire, timeVars, nodeVars
<1> QED
  BY <1>12, <1>13

(* Run returns: nothing that was due before the time it has read is left.  *)
LEMMA RunReturnSeen ==
  ASSUME Known, RunReturn
  PROVE  Service!RunEnd
<1>1. /\ pc = "loop" /\ pc' = "idle" /\ m_qwCurTime = m_qwLastTime
      /\ UNCHANGED <<timeVars, wheelVars, elem, nodeVars>>
  BY DEF RunReturn
<1>2. TypeOK /\ Ownership /\ WheelOnTime /\ RegisteredIsOwned
  BY DEF Known, OnSchedule
<1>3. ASSUME NEW l \in Service!Registered
      PROVE  Service!Timer(l).due >= m_qwCurTime
  <2> DEFINE d == map[l[1]][l[2]]
  <2>1. /\ l[1] \in Node /\ l[2] \in Registered(l[1])
        /\ Service!Timer(l) = View(elem[d])
    BY <1>1, <1>2, RegisteredSeen
  <2>2. d \in Linked
    BY <1>1, <1>2, <2>1, RegisteredOnWheel
  <2>3. elem[d].next >= m_qwLastTime
    BY <1>2, <2>2, LinkedNotPast
  <2> QED
    BY <1>1, <2>1, <2>3 DEF View
<1>4. timers' = timers /\ firing' = firing
  BY <1>1, TimersSame DEF nodeVars, wheelVars, firing
<1>5. phase = "running" /\ phase' = "idle"
  BY <1>1 DEF phase
<1> QED
  BY <1>1, <1>3, <1>4, <1>5 DEF Service!RunEnd, timeVars, nodeVars

(* The steps of Run are steps of the service, or nothing.                  *)
LEMMA RunStepSeen ==
  ASSUME Known, RunBegin \/ RunStep
  PROVE  Service!Next \/ UNCHANGED Service!vars
<1>0. pc # "callback" /\ current = NULL
  BY DEF Known, Ownership, RunBegin, RunStep, ProcessTick, ReleaseErased, Fire,
         NextTick, RunReturn
<1>1. CASE RunBegin
  <2>1. /\ pc = "idle" /\ pc' = "loop" /\ m_qwCurTime' = now
        /\ UNCHANGED <<now, elem, current, alive, map>>
    BY <1>1 DEF RunBegin, wheelVars, nodeVars
  <2>2. timers' = timers /\ firing' = firing
    BY <2>1, TimersSame DEF firing
  <2>3. phase = "idle" /\ phase' = "running"
    BY <2>1 DEF phase
  <2> QED
    BY <2>1, <2>2, <2>3 DEF Service!RunBegin, Service!Next
<1>2. CASE ProcessTick \/ NextTick
  <2>1. /\ pc \in {"loop", "drain"} /\ pc' \in {"loop", "drain"}
        /\ UNCHANGED <<now, m_qwCurTime, elem, current, alive, map>>
    BY <1>2 DEF ProcessTick, NextTick, timeVars, wheelVars, nodeVars
  <2>2. phase' = phase /\ firing' = firing
    BY <2>1 DEF phase, firing
  <2> QED
    BY <2>1, <2>2, Unseen
<1>3. ASSUME NEW e \in Elem, ReleaseErased(e)
      PROVE  UNCHANGED Service!vars
  <2>1. /\ pc = "drain" /\ pc' = "drain" /\ elem[e].erased
        /\ elem' = [elem EXCEPT ![e] = Blank]
        /\ UNCHANGED <<now, m_qwCurTime, current, alive, map>>
    BY <1>3 DEF ReleaseErased, Release, timeVars, nodeVars
  <2>2. phase' = phase /\ firing' = firing
    BY <1>0, <2>1 DEF phase, firing
  <2>3. \A n \in Node : \A i \in Registered(n) : elem'[map[n][i]] = elem[map[n][i]]
    BY <2>1 DEF Known, Registration, RegisteredIsLive, TypeOK
  <2> QED
    BY <2>1, <2>2, <2>3, Unseen
<1>4. ASSUME NEW e \in Elem, Fire(e)
      PROVE  Service!Next
  BY <1>4, FireSeen DEF Service!Next
<1>5. CASE RunReturn
  BY <1>5, RunReturnSeen DEF Service!Next
<1> QED
  BY <1>1, <1>2, <1>3, <1>4, <1>5 DEF RunStep

(* The callback of a killed timer returns: nothing is due again.           *)
LEMMA ReturnErasedSeen ==
  ASSUME Known, ReturnErased
  PROVE  Service!Return(0)
<1>1. /\ pc = "callback" /\ pc' = "drain" /\ elem[current].erased
      /\ current' = NULL
      /\ elem' = [elem EXCEPT ![current] = Blank]
      /\ UNCHANGED <<now, m_qwCurTime, alive, map>>
  BY DEF ReturnErased, Release, timeVars, nodeVars
<1>2. firing = NULL /\ firing' = NULL
  BY <1>1 DEF firing
<1>3. \A n \in Node : \A i \in Registered(n) : elem'[map[n][i]] = elem[map[n][i]]
  BY <1>1 DEF Known, Registration, RegisteredIsLive, TypeOK
<1>4. timers' = timers
  BY <1>1, <1>3, TimersSame DEF Registered
<1>5. phase = "callback" /\ phase' = "running"
  BY <1>1 DEF phase
<1> QED
  BY <1>1, <1>2, <1>4, <1>5 DEF Service!Return

(* A callback returns and its timer is due again, as the service says.     *)
LEMMA RescheduleSeen ==
  ASSUME Timely, Known, pc = "callback",
         NEW gap \in IF elem[current].cron THEN CronGaps ELSE {0}, Reschedule(gap)
  PROVE  Service!Return(gap)
<1> DEFINE r == elem[current]
<1> DEFINE n == r.sink
<1> DEFINE i == r.id
<1> DEFINE next == Successor(r, gap)
<1>1. /\ pc' = "drain" /\ ~r.erased /\ current' = NULL
      /\ elem' = [elem EXCEPT ![current] = [r EXCEPT !.next = next]]
      /\ UNCHANGED <<now, m_qwCurTime, alive, map>>
  BY DEF Reschedule, timeVars, nodeVars
<1>2. /\ current \in Elem /\ n \in Node /\ i \in Id
      /\ firing = <<n, i>> /\ firing # NULL
      /\ map[n][i] = current
  BY <1>1, FiringSeen
<1>3. r \in Element /\ current # NULL
  BY <1>2, ModuleAssumption DEF Known, TypeOK
<1>4. next = CASE r.cron -> m_qwCurTime + gap
               [] ~r.cron /\ ~r.exact /\ m_qwCurTime >= r.next + r.cd ->
                    m_qwCurTime + r.cd
               [] OTHER -> r.next + r.cd
  BY <1>2, SuccessorTimely DEF Known, OnSchedule
<1> HIDE DEF next
<1>5. timers[n][i] = View(r)
  BY <1>2, <1>3, TimersSeen
<1>6. Service!Timer(firing) = View(r) /\ firing[1] = n /\ firing[2] = i
  BY <1>2, <1>5 DEF Service!Timer
<1>7. Service!Later(View(r), gap) = next
  BY <1>4 DEF Service!Later, View
<1> DEFINE t == [View(r) EXCEPT !.due = next]
<1>8. timers'[n][i] = t
  <2>1. elem'[current] = [r EXCEPT !.next = next]
    BY <1>1, <1>2 DEF Known, TypeOK
  <2>2. View([r EXCEPT !.next = next]) = t
    BY <1>3 DEF View, Element
  <2>3. map'[n][i] = current
    BY <1>1, <1>2
  <2>4. timers'[n][i] = View(elem'[current])
    BY <1>1, <1>3, <2>3, <1>2 DEF timers, View
  <2> QED
    BY <2>1, <2>2, <2>4
<1>9. \A o \in Node, j \in Id : <<o, j>> # <<n, i>> => timers'[o][j] = timers[o][j]
  <2> SUFFICES ASSUME NEW o \in Node, NEW j \in Id, <<o, j>> # <<n, i>>
               PROVE  timers'[o][j] = timers[o][j]
    OBVIOUS
  <2>1. map[o][j] # NULL => /\ map[o][j] \in Elem
                            /\ elem[map[o][j]].sink = o /\ elem[map[o][j]].id = j
    BY DEF Known, Registration, RegisteredIsLive, Registered, TypeOK
  <2>2. map[o][j] # NULL => map[o][j] # current
    BY <2>1
  <2>3. map[o][j] # NULL => elem'[map[o][j]] = elem[map[o][j]]
    BY <1>1, <2>1, <2>2 DEF Known, TypeOK
  <2> QED
    BY <1>1, <2>3 DEF timers
<1> HIDE DEF t
<1>10. timers' = [timers EXCEPT ![n][i] = t]
  <2> DEFINE T == [timers EXCEPT ![n][i] = t]
  <2> DEFINE f == [o \in Node |-> [j \in Id |-> IF o = n /\ j = i THEN t
                                                               ELSE timers[o][j]]]
  <2> HIDE DEF n, i
  <2>1. T = f
    <3>1. timers = [o \in Node |-> [j \in Id |-> timers[o][j]]]
      BY TimersSeen
    <3> QED
      BY <1>2, <3>1
  <2>2. \A o \in Node, j \in Id : timers'[o][j] = f[o][j]
    BY <1>2, <1>8, <1>9
  <2>3. f = [o \in Node |-> [j \in Id |-> f[o][j]]]
    OBVIOUS
  <2> HIDE DEF f, T
  <2>4. timers' = f
    BY <2>2, <2>3, SameTimers
  <2> QED
    BY <2>1, <2>4 DEF T
<1>11. timers' = [timers EXCEPT ![firing[1]][firing[2]] =
                    [@ EXCEPT !.due = Service!Later(Service!Timer(firing), gap)]]
  BY <1>5, <1>6, <1>7, <1>10 DEF t
<1>12. firing' = NULL /\ phase = "callback" /\ phase' = "running"
  BY <1>1 DEF firing, phase
<1>13. Service!Timer(firing).cron => gap \in CronGaps
  BY <1>6 DEF View
<1> QED
  BY <1>1, <1>2, <1>11, <1>12, <1>13 DEF Service!Return

(* A callback returns.                                                     *)
LEMMA CallbackReturnSeen ==
  ASSUME Timely, ~CallbackThrows, Known, CallbackReturn
  PROVE  Service!Next
<1>1. pc = "callback" /\ ~ThrowFromCallback
  BY DEF CallbackReturn, ThrowFromCallback
<1>2. CASE ReturnErased
  <2>1. Service!Return(0)
    BY <1>2, ReturnErasedSeen
  <2> QED
    BY <2>1 DEF Service!Next
<1>3. ASSUME NEW gap \in IF elem[current].cron THEN CronGaps ELSE {0},
             Reschedule(gap)
      PROVE  Service!Next
  <2>1. Service!Return(gap)
    BY <1>1, <1>3, RescheduleSeen
  <2>2. gap \in CronGaps \cup {0}
    OBVIOUS
  <2> QED
    BY <2>1, <2>2 DEF Service!Next
<1> QED
  BY <1>1, <1>2, <1>3 DEF CallbackReturn

(* Time passes where the program's code runs.                              *)
LEMMA ElapseSeen ==
  ASSUME Elapse
  PROVE  Service!Next
<1>1. /\ pc \in {"idle", "callback"} /\ now < MaxNow /\ now' = now + 1
      /\ UNCHANGED <<pc, m_qwCurTime, current, elem, alive, map>>
  BY DEF Elapse, wheelVars, nodeVars
<1>2. timers' = timers /\ firing' = firing
  BY <1>1, TimersSame DEF firing
<1>3. phase \in {"idle", "callback"} /\ phase' = phase
  BY <1>1 DEF phase
<1>4. Service!Elapse
  BY <1>1, <1>2, <1>3 DEF Service!Elapse, Service!UserCode
<1> QED
  BY <1>4 DEF Service!Next

(* With the module gone there are no timers.                               *)
LEMMA ShutdownSeen ==
  ASSUME Known, Shutdown
  PROVE  Service!Next
<1>1. /\ pc = "idle" /\ pc' = "down"
      /\ UNCHANGED <<now, m_qwCurTime, current, alive>>
  BY DEF Shutdown, timeVars, nodeVars
<1>2. current = NULL
  BY <1>1 DEF Known, Ownership
<1>3. timers' = [n \in Node |-> Service!NoTimers]
  BY <1>1 DEF timers, Service!NoTimers
<1>4. firing' = firing
  BY <1>1, <1>2 DEF firing
<1>5. phase = "idle" /\ phase' = "down"
  BY <1>1 DEF phase
<1>6. Service!Shutdown
  BY <1>1, <1>3, <1>4, <1>5 DEF Service!Shutdown
<1> QED
  BY <1>6 DEF Service!Next

(* Every step of the timer module is one of the service, or is not seen.   *)
LEMMA StepSeen ==
  ASSUME Timely, ~CopyInCallback, ~CallbackThrows, Known, Known', [Next]_vars
  PROVE  [Service!Next]_(Service!vars)
<1>1. CASE UNCHANGED vars
  <2>1. UNCHANGED <<pc, now, m_qwCurTime, current, elem, alive, map>>
    BY <1>1 DEF vars, timeVars, wheelVars, nodeVars
  <2> QED
    BY <2>1 DEF Service!vars, phase, timers, firing
<1>2. CASE UserStep
  BY <1>2, UserStepSeen DEF Service!Next
<1> QED
  BY <1>1, <1>2, ElapseSeen, RunStepSeen, CallbackReturnSeen, ShutdownSeen DEF Next

(* At first there is nothing.                                              *)
LEMMA InitSeen == Init => Service!Init
<1> SUFFICES ASSUME Init
             PROVE  Service!Init
  OBVIOUS
<1>1. phase = "idle" /\ firing = NULL
  BY DEF Init, phase, firing
<1>2. timers = [n \in Node |-> Service!NoTimers]
  BY DEF Init, NoTimers, timers, Service!NoTimers
<1> QED
  BY <1>1, <1>2 DEF Init, Service!Init

(* The timer module keeps the promise of TimerService: seen from outside,  *)
(* a node has one timer per id, and a Run executes the timers that were    *)
(* due before the time it has read, the earliest first and each once per   *)
(* expiry, and does not return before none of them is left.                *)
THEOREM Refinement ==
  ASSUME Timely, ~CopyInCallback, ~CallbackThrows
  PROVE  Spec => Implements
<1>1. Init => Service!Init
  BY InitSeen
<1>2. Known /\ Known' /\ [Next]_vars => [Service!Next]_(Service!vars)
  BY StepSeen
<1>3. TypeOK /\ Ownership /\ RegisteredIsLive /\ LiveIsRegistered /\ OnSchedule
        => Known
  BY DEF Known, Registration
<1> QED
  BY <1>1, <1>2, <1>3, OwnershipHolds, RegistrationHolds, Schedule, PTL
     DEF Spec, Implements, Service!Spec
=============================================================================
