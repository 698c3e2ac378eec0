------------------------ MODULE TimerPunctualProofs ------------------------
(***************************************************************************)
(* Proofs that timers are on time, for every number of nodes, ids and      *)
(* elements, every size of the wheel, all requests and every schedule:     *)
(*                                                                         *)
(*   Punctual         the wheel is sound, work_list holds the timers of    *)
(*                    the present tick, and Run leaves no expired timer    *)
(*   Schedule         the inductive invariant that this follows from       *)
(*                                                                         *)
(* They hold for Timely constants, when no callback throws and none copies *)
(* nodes: both leave timers in slots that Run has emptied already.         *)
(***************************************************************************)
EXTENDS TimerModuleProofs

(* The tick being processed never passes the time that Run has read, nor   *)
(* that the time itself; inside a tick there is one more to process.       *)
TimesInOrder ==
  /\ m_qwLastTime <= m_qwCurTime
  /\ m_qwCurTime <= now
  /\ now <= MaxNow
  /\ pc \in {"drain", "callback"} => m_qwLastTime < m_qwCurTime

(* Times and periods for which no difference reads as negative.            *)
TimelyElement(r) ==
  /\ r.next >= 0
  /\ 2 * r.next < WORD
  /\ 2 * (MaxNow + r.cd) < WORD
  /\ r.exact => r.cd > 0

ElementsTimely == \A e \in Elem : TimelyElement(elem[e])

(* Every registered timer can still be reached.                            *)
RegisteredIsOwned ==
  pc # "down" => \A n \in Node : \A i \in Registered(n) : map[n][i] \in Owned

(* Every list of the wheel is visited in time; within a tick, none at it.  *)
WheelOnTime ==
  /\ OnTime(vec, m_qwLastTime, NextOf)
  /\ pc \in {"drain", "callback"} => Cleared(vec, m_qwLastTime)

(* The callback that runs is the callback of the present tick.             *)
CurrentOnTime == pc = "callback" => elem[current].next = m_qwLastTime

(* The inductive invariant.                                                *)
OnSchedule ==
  /\ TimesInOrder
  /\ ElementsTimely
  /\ RegisteredIsOwned
  /\ WheelOnTime
  /\ FiresOnItsTick
  /\ CurrentOnTime

-----------------------------------------------------------------------------
(* A time that is bounded is not changed by the width of a word.           *)
LEMMA NoWrap == \A t \in Int : 0 <= t /\ 2 * t < WORD => t % WORD = t
BY WheelAssumption, SMT

(* Kill changes nothing but m_bErased.                                     *)
LEMMA KilledKeeps ==
  ASSUME elem \in [Elem -> Element], NEW K, NEW e \in Elem
  PROVE  /\ Killed(K)[e].next = elem[e].next
         /\ Killed(K)[e].cd = elem[e].cd
         /\ Killed(K)[e].exact = elem[e].exact
         /\ Killed(K)[e].cron = elem[e].cron
         /\ Killed(K)[e].sink = elem[e].sink
         /\ Killed(K)[e].id = elem[e].id
<1>1. elem[e] \in Element
  OBVIOUS
<1>2. Killed(K)[e] = IF e \in K THEN [elem[e] EXCEPT !.erased = TRUE] ELSE elem[e]
  BY DEF Killed
<1> QED
  BY <1>1, <1>2 DEF Element

(* A reset element is timely.                                              *)
LEMMA BlankTimely == Timely => TimelyElement(Blank)
BY ModuleAssumption, WheelAssumption DEF Timely, TimelyElement, Blank

(* What SetTimer and SetTimerCron give an element is timely, and does not  *)
(* expire before now.                                                      *)
LEMMA NewTimerTimely ==
  ASSUME Timely, TypeOK, now <= MaxNow
  PROVE  /\ \A q \in Requests :
              /\ (now + q.first) % WORD = now + q.first
              /\ 2 * (now + q.first) < WORD
              /\ 2 * (MaxNow + q.cd) < WORD
              /\ q.exact => q.cd > 0
              /\ q.first \in Nat /\ q.cd \in Nat
         /\ \A gap \in CronGaps :
              /\ (now + gap) % WORD = now + gap
              /\ 2 * (now + gap) < WORD
              /\ gap \in Nat
<1>1. now \in Nat /\ MaxNow \in Nat /\ WORD \in Nat
  BY ModuleAssumption, WheelAssumption DEF TypeOK
<1>2. ASSUME NEW d \in Nat, 2 * (MaxNow + d) < WORD
      PROVE  (now + d) % WORD = now + d /\ 2 * (now + d) < WORD
  <2>1. now + d \in Int /\ 0 <= now + d /\ 2 * (now + d) < WORD
    BY <1>1, <1>2
  <2> QED
    BY <2>1, NoWrap
<1>3. \A q \in Requests : q.first \in Nat /\ q.cd \in Nat
  BY ModuleAssumption
<1>4. \A gap \in CronGaps : gap \in Nat
  BY ModuleAssumption DEF Timely
<1> QED
  BY <1>2, <1>3, <1>4 DEF Timely

(* The next time of an element that has just run is timely and after the   *)
(* present tick.                                                           *)
LEMMA SuccessorTimely ==
  ASSUME Timely, TypeOK, TimesInOrder, ElementsTimely, CurrentOnTime,
         pc = "callback", current \in Elem,
         NEW gap, gap \in IF elem[current].cron THEN CronGaps ELSE {0}
  PROVE  LET r == elem[current]
             t == Successor(r, gap)
         IN  /\ t \in Int
             /\ t > m_qwLastTime
             /\ 2 * t < WORD
             /\ t = CASE r.cron -> m_qwCurTime + gap
                      [] ~r.cron /\ ~r.exact /\ m_qwCurTime >= r.next + r.cd ->
                           m_qwCurTime + r.cd
                      [] OTHER -> r.next + r.cd
<1> DEFINE r == elem[current]
<1>1. r \in Element
  BY DEF TypeOK
<1>2. r.cd \in Nat /\ r.next \in Int /\ r.cron \in BOOLEAN /\ r.exact \in BOOLEAN
  BY <1>1 DEF Element
<1>3. TimelyElement(r) /\ r.next = m_qwLastTime
  BY DEF ElementsTimely, CurrentOnTime
<1>4. /\ m_qwLastTime \in Nat /\ m_qwCurTime \in Nat /\ MaxNow \in Nat /\ WORD \in Nat
      /\ m_qwLastTime < m_qwCurTime /\ m_qwCurTime <= MaxNow
  <2>1. /\ m_qwLastTime \in Nat /\ m_qwCurTime \in Nat /\ MaxNow \in Nat
        /\ WORD \in Nat /\ now \in Nat
    BY ModuleAssumption, WheelAssumption DEF TypeOK
  <2> QED
    BY <2>1 DEF TimesInOrder
<1>5. \A t, d \in Nat : t <= MaxNow /\ 2 * (MaxNow + d) < WORD
        => (t + d) % WORD = t + d /\ 2 * (t + d) < WORD
  <2> TAKE t, d \in Nat
  <2> HAVE t <= MaxNow /\ 2 * (MaxNow + d) < WORD
  <2>1. t + d \in Int /\ 0 <= t + d /\ 2 * (t + d) < WORD
    BY <1>4
  <2> QED
    BY <2>1, NoWrap
<1>6. r.cron => /\ gap \in Nat
                /\ (m_qwCurTime + gap) % WORD = m_qwCurTime + gap
                /\ 2 * (m_qwCurTime + gap) < WORD
  BY <1>4, <1>5, ModuleAssumption DEF Timely
<1>7. /\ (m_qwCurTime + r.cd) % WORD = m_qwCurTime + r.cd
      /\ 2 * (m_qwCurTime + r.cd) < WORD
  BY <1>2, <1>3, <1>4, <1>5 DEF TimelyElement
<1>8. /\ (r.next + r.cd) % WORD = r.next + r.cd
      /\ 2 * (r.next + r.cd) < WORD
  BY <1>2, <1>3, <1>4, <1>5 DEF TimelyElement
<1>9. r.exact => r.cd > 0
  BY <1>3 DEF TimelyElement
<1> DEFINE t == Successor(r, gap)
<1> HIDE DEF r
<1>10. t = CASE r.cron -> m_qwCurTime + gap
             [] ~r.cron /\ ~r.exact /\ m_qwCurTime >= r.next + r.cd ->
                  m_qwCurTime + r.cd
             [] OTHER -> r.next + r.cd
  BY <1>2, <1>6, <1>7, <1>8 DEF Successor
<1> HIDE DEF t
<1>11. CASE r.cron
  BY <1>2, <1>4, <1>6, <1>10, <1>11 DEF t, r
<1>12. CASE ~r.cron /\ ~r.exact /\ m_qwCurTime >= r.next + r.cd
  BY <1>2, <1>4, <1>7, <1>10, <1>12 DEF t, r
<1>13. CASE ~r.cron /\ ~(~r.exact /\ m_qwCurTime >= r.next + r.cd)
  <2>1. t = r.next + r.cd
    BY <1>2, <1>10, <1>13
  <2>2. t \in Int /\ t > m_qwLastTime /\ 2 * t < WORD
    BY <1>2, <1>3, <1>4, <1>8, <1>9, <1>13, <2>1
  <2> QED
    BY <1>10, <2>2 DEF t, r
<1> QED
  BY <1>11, <1>12, <1>13

-----------------------------------------------------------------------------
(* The steps in the order of Next, each keeping one part of the invariant. *)

(* The calls of the API do not touch the times.                            *)
LEMMA UserStepKeepsTimes == UserStep => UNCHANGED <<pc, timeVars>>
<1> SUFFICES ASSUME UserStep
             PROVE  UNCHANGED <<pc, timeVars>>
  OBVIOUS
<1> PICK n \in Node :
      \/ Construct(n)
      \/ KillAll(n)
      \/ Destroy(n)
      \/ SetTimerCronThrows(n)
      \/ \E m \in Node : CopyFrom(n, m) \/ Assign(n, m) \/ CopyConstruct(n, m)
      \/ \E id \in Id :
           \/ KillTimer(n, id)
           \/ \E q \in Requests : SetTimer(n, id, q)
           \/ \E gap \in CronGaps : SetTimerCron(n, id, gap)
  BY DEF UserStep
<1>1. CASE Construct(n) \/ KillAll(n) \/ Destroy(n) \/ SetTimerCronThrows(n)
  BY <1>1 DEF Construct, KillAll, Destroy, SetTimerCronThrows
<1>2. CASE \E m \in Node : CopyFrom(n, m) \/ Assign(n, m) \/ CopyConstruct(n, m)
  BY <1>2 DEF CopyFrom, Assign, CopyConstruct
<1>3. CASE \E id \in Id : KillTimer(n, id)
  BY <1>3 DEF KillTimer
<1>4. CASE \E id \in Id : \/ \E q \in Requests : SetTimer(n, id, q)
                          \/ \E gap \in CronGaps : SetTimerCron(n, id, gap)
  BY <1>4 DEF SetTimer, SetTimerCron, Register
<1> QED
  BY <1>1, <1>2, <1>3, <1>4

(* Run never passes the time it has read.                                  *)
LEMMA TimesNext ==
  ASSUME TypeOK, TimesInOrder, [Next]_vars
  PROVE  TimesInOrder'
<1>1. /\ now \in Nat /\ m_qwCurTime \in Nat /\ m_qwLastTime \in Nat
      /\ MaxNow \in Nat
  BY ModuleAssumption DEF TypeOK
<1>2. CASE Elapse
  BY <1>1, <1>2 DEF Elapse, TimesInOrder
<1>3. CASE UserStep
  BY <1>3, UserStepKeepsTimes DEF timeVars, TimesInOrder
<1>4. CASE RunBegin
  BY <1>1, <1>4 DEF RunBegin, TimesInOrder
<1>5. CASE RunStep
  <2>1. CASE ProcessTick
    BY <1>1, <2>1 DEF ProcessTick, timeVars, TimesInOrder
  <2>2. CASE \E e \in Elem : ReleaseErased(e) \/ Fire(e)
    BY <2>2 DEF ReleaseErased, Fire, timeVars, TimesInOrder
  <2>3. CASE NextTick
    BY <1>1, <2>3 DEF NextTick, TimesInOrder
  <2>4. CASE RunReturn
    BY <2>4 DEF RunReturn, timeVars, TimesInOrder
  <2> QED
    BY <1>5, <2>1, <2>2, <2>3, <2>4 DEF RunStep
<1>6. CASE CallbackReturn
  BY <1>6 DEF CallbackReturn, ReturnErased, Reschedule, ThrowFromCallback,
              timeVars, TimesInOrder
<1>7. CASE Shutdown
  BY <1>7 DEF Shutdown, timeVars, TimesInOrder
<1>8. CASE UNCHANGED vars
  BY <1>8 DEF vars, timeVars, TimesInOrder
<1> QED
  BY <1>2, <1>3, <1>4, <1>5, <1>6, <1>7, <1>8 DEF Next

(* Killing elements keeps them timely.                                     *)
LEMMA KilledTimely ==
  ASSUME TypeOK, ElementsTimely, NEW K
  PROVE  \A e \in Elem : TimelyElement(Killed(K)[e])
<1> SUFFICES ASSUME NEW e \in Elem
             PROVE  TimelyElement(Killed(K)[e])
  OBVIOUS
<1>1. TimelyElement(elem[e])
  BY DEF ElementsTimely
<1>2. /\ Killed(K)[e].next = elem[e].next
      /\ Killed(K)[e].cd = elem[e].cd
      /\ Killed(K)[e].exact = elem[e].exact
  BY KilledKeeps DEF TypeOK
<1> QED
  BY <1>1, <1>2 DEF TimelyElement

(* The calls of the API keep the elements timely.                          *)
LEMMA TimelyUserStep ==
  ASSUME Timely, TypeOK, TimesInOrder, ElementsTimely, UserStep
  PROVE  ElementsTimely'
<1> PICK n \in Node :
      \/ Construct(n)
      \/ KillAll(n)
      \/ Destroy(n)
      \/ SetTimerCronThrows(n)
      \/ \E m \in Node : CopyFrom(n, m) \/ Assign(n, m) \/ CopyConstruct(n, m)
      \/ \E id \in Id :
           \/ KillTimer(n, id)
           \/ \E q \in Requests : SetTimer(n, id, q)
           \/ \E gap \in CronGaps : SetTimerCron(n, id, gap)
  BY DEF UserStep
<1>1. CASE Construct(n) \/ SetTimerCronThrows(n)
  BY <1>1 DEF Construct, SetTimerCronThrows, ElementsTimely
<1>2. CASE KillAll(n) \/ Destroy(n) \/ \E id \in Id : KillTimer(n, id)
  <2>1. \E K : elem' = Killed(K)
    BY <1>2 DEF KillAll, Destroy, KillTimer
  <2> QED
    BY <2>1, KilledTimely DEF ElementsTimely
<1>3. ASSUME NEW m \in Node,
             CopyFrom(n, m) \/ Assign(n, m) \/ CopyConstruct(n, m)
      PROVE  ElementsTimely'
  <2>1. PICK before, K : CopyInto(n, m, before, K)
    BY <1>3 DEF CopyFrom, Assign, CopyConstruct
  <2>2. PICK ids \in SUBSET Registered(m) :
          \E new \in [ids -> Elem \ used] : CopyElements(n, m, before, K, ids, new)
    BY <2>1 DEF CopyInto
  <2>3. PICK new \in [ids -> Elem \ used] : CopyElements(n, m, before, K, ids, new)
    BY <2>2
  <2> DEFINE copies == {new[i] : i \in ids}
  <2> DEFINE id(e) == CHOOSE i \in ids : new[i] = e
  <2> DEFINE source(e) == elem[map[m][id(e)]]
  <2> DEFINE killed == Killed(K \cup {before[i] : i \in ids})
  <2>4. elem' = [e \in Elem |-> IF e \in copies THEN [source(e) EXCEPT !.sink = n]
                                               ELSE killed[e]]
    BY <2>3 DEF CopyElements
  <2>5. \A e \in copies : id(e) \in ids
    OBVIOUS
  <2>6. \A e \in copies : source(e) \in Element /\ TimelyElement(source(e))
    BY <2>5 DEF Registered, TypeOK, ElementsTimely
  <2>7. \A r \in Element : TimelyElement(r) => TimelyElement([r EXCEPT !.sink = n])
    BY DEF Element, TimelyElement
  <2>8. \A e \in Elem : TimelyElement(killed[e])
    BY KilledTimely
  <2> HIDE DEF copies, source, killed
  <2> QED
    BY <2>4, <2>6, <2>7, <2>8 DEF ElementsTimely
<1>4. ASSUME NEW id \in Id,
             \/ \E q \in Requests : SetTimer(n, id, q)
             \/ \E gap \in CronGaps : SetTimerCron(n, id, gap)
      PROVE  ElementsTimely'
  <2>1. now \in Nat /\ now <= MaxNow /\ 2 * MaxNow < WORD /\ MaxNow \in Nat
    <3>1. now \in Nat /\ m_qwCurTime \in Nat /\ m_qwLastTime \in Nat
      BY DEF TypeOK
    <3> QED
      BY <3>1, ModuleAssumption DEF TimesInOrder, Timely
  <2>2. \E e \in Elem \ used, r \in Element :
          Register(n, id, e, r) /\ TimelyElement(r)
    <3>1. CASE \E q \in Requests : SetTimer(n, id, q)
      <4>1. PICK q \in Requests : SetTimer(n, id, q)
        BY <3>1
      <4> DEFINE r == [sink |-> n, id |-> id, next |-> (now + q.first) % WORD,
                       cd |-> q.cd, exact |-> q.exact, cron |-> FALSE,
                       erased |-> FALSE]
      <4>2. r \in Element
        BY <2>1, NewTimerType
      <4>3. TimelyElement(r)
        BY <2>1, NewTimerTimely DEF TimelyElement
      <4> QED
        BY <4>1, <4>2, <4>3 DEF SetTimer
    <3>2. CASE \E gap \in CronGaps : SetTimerCron(n, id, gap)
      <4>1. PICK gap \in CronGaps : SetTimerCron(n, id, gap)
        BY <3>2
      <4> DEFINE r == [sink |-> n, id |-> id, next |-> (now + gap) % WORD,
                       cd |-> 0, exact |-> FALSE, cron |-> TRUE, erased |-> FALSE]
      <4>2. r \in Element
        BY <2>1, NewTimerType
      <4>3. TimelyElement(r)
        BY <2>1, NewTimerTimely DEF TimelyElement
      <4> QED
        BY <4>1, <4>2, <4>3 DEF SetTimerCron
    <3> QED
      BY <1>4, <3>1, <3>2
  <2>3. PICK e \in Elem \ used, r \in Element :
          Register(n, id, e, r) /\ TimelyElement(r)
    BY <2>2
  <2>4. elem' = [Killed({map[n][id]}) EXCEPT ![e] = r]
    BY <2>3 DEF Register
  <2>5. Killed({map[n][id]}) \in [Elem -> Element]
    BY KilledType DEF TypeOK
  <2> QED
    BY <2>3, <2>4, <2>5, KilledTimely DEF ElementsTimely
<1> QED
  BY <1>1, <1>2, <1>3, <1>4

(* Every step keeps the elements timely.                                   *)
LEMMA TimelyNext ==
  ASSUME Timely, TypeOK, Ownership, TimesInOrder, ElementsTimely, CurrentOnTime,
         [Next]_vars
  PROVE  ElementsTimely'
<1>1. CASE Elapse \/ RunBegin \/ ProcessTick \/ NextTick \/ RunReturn
           \/ ThrowFromCallback \/ UNCHANGED vars
  BY <1>1 DEF Elapse, RunBegin, ProcessTick, NextTick, RunReturn,
              ThrowFromCallback, vars, ElementsTimely
<1>2. CASE \E e \in Elem : ReleaseErased(e) \/ Fire(e)
  <2>1. \A e \in Elem : elem'[e] = elem[e] \/ elem'[e] = Blank
    BY <1>2 DEF ReleaseErased, Release, Fire, TypeOK
  <2> QED
    BY <2>1, BlankTimely DEF ElementsTimely
<1>3. CASE CallbackReturn
  <2>0. pc = "callback" /\ current \in Elem
    BY <1>3 DEF CallbackReturn, Ownership, TypeOK
  <2>1. CASE ReturnErased
    <3>1. \A e \in Elem : elem'[e] = elem[e] \/ elem'[e] = Blank
      BY <2>1 DEF ReturnErased, Release, TypeOK
    <3> QED
      BY <3>1, BlankTimely DEF ElementsTimely
  <2>2. ASSUME NEW gap \in IF elem[current].cron THEN CronGaps ELSE {0},
               Reschedule(gap)
        PROVE  ElementsTimely'
    <3> DEFINE next == Successor(elem[current], gap)
    <3>1. next \in Int /\ next > m_qwLastTime /\ 2 * next < WORD
      BY <2>0, SuccessorTimely
    <3>2. elem' = [elem EXCEPT ![current] = [elem[current] EXCEPT !.next = next]]
      BY <2>2 DEF Reschedule
    <3> HIDE DEF next
    <3>3. next >= 0
      BY <3>1 DEF TypeOK
    <3>4. elem[current] \in Element /\ TimelyElement(elem[current])
      BY <2>0 DEF TypeOK, ElementsTimely
    <3>5. TimelyElement([elem[current] EXCEPT !.next = next])
      BY <3>1, <3>3, <3>4 DEF TimelyElement, Element
    <3> QED
      BY <2>0, <3>2, <3>5 DEF ElementsTimely, TypeOK
  <2>3. CASE ThrowFromCallback
    BY <1>1, <2>3
  <2> QED
    BY <1>3, <2>1, <2>2, <2>3 DEF CallbackReturn
<1>4. CASE Shutdown
  <2>1. \A e \in Elem : elem'[e] = elem[e] \/ elem'[e] = Blank
    BY <1>4 DEF Shutdown
  <2> QED
    BY <2>1, BlankTimely DEF ElementsTimely
<1> QED
  BY <1>1, <1>2, <1>3, <1>4, TimelyUserStep DEF Next, RunStep

-----------------------------------------------------------------------------
(* A step that registers nothing new and takes no registered element away. *)
LEMMA ReachStays ==
  ASSUME RegisteredIsOwned, NEW D, pc # "down", Owned \ D \subseteq Owned',
         \A n \in Node, i \in Id :
           map'[n][i] # NULL =>
             \/ map'[n][i] \in Owned'
             \/ map'[n][i] = map[n][i] /\ map[n][i] \notin D
  PROVE  RegisteredIsOwned'
BY DEF RegisteredIsOwned, Registered

(* The calls of the API keep every registered timer within reach.          *)
LEMMA ReachUserStep ==
  ASSUME TypeOK, Ownership, RegisteredIsOwned, UserStep
  PROVE  RegisteredIsOwned'
<1> PICK n \in Node :
      \/ Construct(n)
      \/ KillAll(n)
      \/ Destroy(n)
      \/ SetTimerCronThrows(n)
      \/ \E m \in Node : CopyFrom(n, m) \/ Assign(n, m) \/ CopyConstruct(n, m)
      \/ \E id \in Id :
           \/ KillTimer(n, id)
           \/ \E q \in Requests : SetTimer(n, id, q)
           \/ \E gap \in CronGaps : SetTimerCron(n, id, gap)
  BY DEF UserStep
<1>0. pc # "down"
  BY DEF Construct, KillAll, Destroy, SetTimerCronThrows, CopyFrom, Assign,
         CopyConstruct, KillTimer, SetTimer, SetTimerCron, UserCode, CopyAllowed
<1>1. CASE \/ Construct(n) \/ KillAll(n) \/ Destroy(n) \/ SetTimerCronThrows(n)
           \/ \E id \in Id : KillTimer(n, id)
  <2>1. UNCHANGED wheelVars
    BY <1>1 DEF Construct, KillAll, Destroy, SetTimerCronThrows, KillTimer
  <2>2. Owned' = Owned
    BY <2>1 DEF wheelVars, Owned, Linked
  <2>3. \A o \in Node, i \in Id : map'[o][i] # NULL => map'[o][i] = map[o][i]
    <3>1. CASE Construct(n) \/ SetTimerCronThrows(n)
      BY <3>1 DEF Construct, SetTimerCronThrows, nodeVars
    <3>2. CASE KillAll(n) \/ Destroy(n)
      BY <3>2 DEF KillAll, Destroy, NoTimers, TypeOK
    <3>3. ASSUME NEW id \in Id, KillTimer(n, id)
          PROVE  \A o \in Node, i \in Id :
                   map'[o][i] # NULL => map'[o][i] = map[o][i]
      BY <3>3 DEF KillTimer, TypeOK
    <3> QED
      BY <1>1, <3>1, <3>2, <3>3
  <2> QED
    BY <1>0, <2>2, <2>3, ReachStays
<1>2. ASSUME NEW m \in Node,
             CopyFrom(n, m) \/ Assign(n, m) \/ CopyConstruct(n, m)
      PROVE  RegisteredIsOwned'
  <2>1. PICK before, K : /\ CopyInto(n, m, before, K)
                         /\ before \in {map[n], NoTimers}
    BY <1>2 DEF CopyFrom, Assign, CopyConstruct
  <2>2. PICK ids \in SUBSET Registered(m) :
          \E new \in [ids -> Elem \ used] : CopyElements(n, m, before, K, ids, new)
    BY <2>1 DEF CopyInto
  <2>3. PICK new \in [ids -> Elem \ used] : CopyElements(n, m, before, K, ids, new)
    BY <2>2
  <2> DEFINE copies == {new[i] : i \in ids}
  <2>4. On(vec') = Linked \cup copies
    BY <2>3, CopyAdds
  <2>5. UNCHANGED <<work, current>>
    BY <1>2 DEF CopyFrom, Assign, CopyConstruct
  <2>6. Owned' = Owned \cup copies
    BY <2>4, <2>5 DEF Owned, Linked
  <2>7. map' = [map EXCEPT ![n] = [i \in Id |-> IF i \in ids THEN new[i]
                                                            ELSE before[i]]]
    BY <2>3 DEF CopyElements
  <2>8. \A o \in Node, i \in Id : map'[o][i] # NULL =>
          map'[o][i] \in copies \/ map'[o][i] = map[o][i]
    BY <2>1, <2>7 DEF TypeOK, NoTimers
  <2> HIDE DEF copies
  <2> QED
    BY <1>0, <2>6, <2>8, ReachStays
<1>3. ASSUME NEW id \in Id,
             \/ \E q \in Requests : SetTimer(n, id, q)
             \/ \E gap \in CronGaps : SetTimerCron(n, id, gap)
      PROVE  RegisteredIsOwned'
  <2>1. now \in Nat
    BY DEF TypeOK
  <2>2. PICK e \in Elem \ used, r \in Element : Register(n, id, e, r)
    BY <1>3, <2>1, NewTimerType DEF SetTimer, SetTimerCron
  <2>3. r.next \in Int
    BY DEF Element
  <2>4. On(vec') = Linked \cup {e}
    BY <2>2, <2>3, AddKeepsType DEF Register
  <2>5. Owned' = Owned \cup {e}
    BY <2>2, <2>4 DEF Register, Owned, Linked
  <2>6. \A o \in Node, i \in Id : map'[o][i] = e \/ map'[o][i] = map[o][i]
    BY <2>2 DEF Register, TypeOK
  <2> QED
    BY <1>0, <2>5, <2>6, ReachStays
<1> QED
  BY <1>1, <1>2, <1>3

(* The steps of Run keep every registered timer within reach.              *)
LEMMA ReachRunStep ==
  ASSUME TypeOK, Ownership, Registration, RegisteredIsOwned, RunBegin \/ RunStep
  PROVE  RegisteredIsOwned'
<1>0. pc # "down" /\ UNCHANGED map
  BY DEF RunBegin, RunStep, ProcessTick, ReleaseErased, Fire, NextTick, RunReturn,
         nodeVars
<1>1. CASE RunBegin \/ NextTick \/ RunReturn
  <2>1. Owned' = Owned
    BY <1>1 DEF RunBegin, NextTick, RunReturn, wheelVars, Owned, Linked
  <2> QED
    BY <1>0, <2>1, ReachStays
<1>2. CASE ProcessTick
  <2> DEFINE v == CascadeAll(vec, m_qwLastTime, NextOf)
  <2> DEFINE slot == <<1, Index(1, m_qwLastTime)>>
  <2>1. v \in [Slot -> SUBSET Elem] /\ On(v) = Linked
    BY CascadeKeepsType DEF Ownership
  <2>2. slot \in Slot
    BY IndexRange DEF TypeOK, Slot, Level, Width
  <2>3. /\ work' = v[slot]
        /\ vec' = [v EXCEPT ![slot] = {}]
        /\ pc = "loop"
        /\ current' = current
    BY <1>2 DEF ProcessTick
  <2> HIDE DEF v, slot
  <2>4. On(vec') \cup work' = Linked
    BY <2>1, <2>2, <2>3 DEF On
  <2>5. work = {}
    BY <2>3 DEF Ownership
  <2>6. Owned' = Owned
    BY <2>3, <2>4, <2>5 DEF Owned, Linked
  <2> QED
    BY <1>0, <2>6, ReachStays
<1>3. ASSUME NEW e \in Elem, ReleaseErased(e)
      PROVE  RegisteredIsOwned'
  <2>1. Owned \ {e} \subseteq Owned'
    BY <1>3 DEF ReleaseErased, Owned, Linked
  <2>2. \A n \in Node, i \in Id : map[n][i] # NULL => map[n][i] # e
    BY <1>0, <1>3 DEF ReleaseErased, Registration, RegisteredIsLive, Registered
  <2> QED
    BY <1>0, <2>1, <2>2, ReachStays
<1>4. ASSUME NEW e \in Elem, Fire(e)
      PROVE  RegisteredIsOwned'
  <2>1. current = NULL /\ e # NULL
    BY <1>4, ModuleAssumption DEF Fire, Ownership
  <2>2. Owned' = Owned
    BY <1>4, <2>1 DEF Fire, Owned, Linked
  <2> QED
    BY <1>0, <2>2, ReachStays
<1> QED
  BY <1>1, <1>2, <1>3, <1>4 DEF RunStep

(* A callback that returns keeps every registered timer within reach.      *)
LEMMA ReachCallbackReturn ==
  ASSUME TypeOK, Ownership, Registration, RegisteredIsOwned, CallbackReturn,
         ~CallbackThrows
  PROVE  RegisteredIsOwned'
<1>0. current \in Elem /\ pc # "down"
  BY DEF CallbackReturn, Ownership, TypeOK
<1>1. CASE ReturnErased
  <2>1. Owned \ {current} \subseteq Owned'
    BY <1>1 DEF ReturnErased, Owned, Linked
  <2>2. \A n \in Node, i \in Id : map[n][i] # NULL => map[n][i] # current
    BY <1>0, <1>1 DEF ReturnErased, Registration, RegisteredIsLive, Registered
  <2>3. UNCHANGED map
    BY <1>1 DEF ReturnErased, nodeVars
  <2> QED
    BY <1>0, <2>1, <2>2, <2>3, ReachStays
<1>2. ASSUME NEW gap \in Int, Reschedule(gap)
      PROVE  RegisteredIsOwned'
  <2> DEFINE next == Successor(elem[current], gap)
  <2>1. next \in Int
    BY <1>0, SuccessorType DEF TypeOK
  <2>2. vec' = Add(vec, current, next, m_qwLastTime)
    BY <1>2 DEF Reschedule
  <2> HIDE DEF next
  <2>3. On(vec') = Linked \cup {current}
    BY <1>0, <2>1, <2>2, AddKeepsType
  <2>4. Owned \subseteq Owned' /\ UNCHANGED map
    BY <1>2, <2>3 DEF Reschedule, Owned, Linked, nodeVars
  <2> QED
    BY <1>0, <2>4, ReachStays
<1>3. CronGaps \cup {0} \subseteq Int
  BY ModuleAssumption
<1> QED
  BY <1>1, <1>2, <1>3 DEF CallbackReturn, ThrowFromCallback

(* Every step keeps every registered timer within reach.                   *)
LEMMA ReachNext ==
  ASSUME TypeOK, Ownership, Registration, RegisteredIsOwned, [Next]_vars,
         ~CallbackThrows
  PROVE  RegisteredIsOwned'
<1>1. CASE Elapse
  <2>1. Owned' = Owned /\ UNCHANGED map /\ pc # "down"
    BY <1>1 DEF Elapse, wheelVars, nodeVars, Owned, Linked
  <2> QED
    BY <2>1, ReachStays
<1>2. CASE Shutdown
  BY <1>2 DEF Shutdown, RegisteredIsOwned
<1>3. CASE UNCHANGED vars
  BY <1>3 DEF vars, wheelVars, nodeVars, RegisteredIsOwned, Registered, Owned, Linked
<1> QED
  BY <1>1, <1>2, <1>3, ReachUserStep, ReachRunStep, ReachCallbackReturn DEF Next

-----------------------------------------------------------------------------
(* The elements of C go on the wheel; what is on it keeps its time.        *)
LEMMA WheelAdds ==
  ASSUME TypeOK, WheelOnTime, elem' \in [Elem -> Element], NEW C \in SUBSET Elem,
         m_qwLastTime' = m_qwLastTime,
         pc' \in {"drain", "callback"} => pc = "callback",
         vec' \in [Slot -> SUBSET Elem],
         \A s \in Slot :
           vec'[s] \subseteq
             vec[s] \cup {e \in C : SlotOf(elem'[e].next, m_qwLastTime) = s},
         \A e \in Linked : elem'[e].next = elem[e].next,
         \A e \in C : /\ m_qwLastTime <= elem'[e].next
                      /\ 2 * elem'[e].next < WORD
                      /\ pc = "callback" => m_qwLastTime < elem'[e].next
  PROVE  WheelOnTime'
<1> DEFINE last == m_qwLastTime
<1> DEFINE nextNew == NextOf'
<1>1. /\ \A e \in Elem : NextOf[e] = elem[e].next /\ nextNew[e] = elem'[e].next
      /\ vec \in [Slot -> SUBSET Elem]
  BY DEF NextOf, TypeOK
<1>2. \A s \in Slot : \A e \in vec'[s] :
        \/ e \in vec[s] /\ nextNew[e] = NextOf[e]
        \/ e \in C /\ SlotOf(nextNew[e], last) = s
  <2> SUFFICES ASSUME NEW s \in Slot, NEW e \in vec'[s]
               PROVE  \/ e \in vec[s] /\ nextNew[e] = NextOf[e]
                      \/ e \in C /\ SlotOf(nextNew[e], last) = s
    OBVIOUS
  <2>1. e \in Elem
    OBVIOUS
  <2>2. CASE e \in vec[s]
    <3>1. e \in Linked
      BY <2>2 DEF Linked, On
    <3> QED
      BY <1>1, <2>1, <2>2, <3>1
  <2>3. CASE e \in C /\ SlotOf(elem'[e].next, m_qwLastTime) = s
    BY <1>1, <2>1, <2>3
  <2> QED
    BY <2>2, <2>3
<1>3. last \in Int /\ last >= 0 /\ WORD \in Int
  BY WheelAssumption DEF TypeOK
<1>4. \A e \in C : /\ nextNew[e] \in Int
                   /\ last <= nextNew[e]
                   /\ 2 * (nextNew[e] - last) < WORD
  <2> SUFFICES ASSUME NEW e \in C
               PROVE  /\ nextNew[e] \in Int
                      /\ last <= nextNew[e]
                      /\ 2 * (nextNew[e] - last) < WORD
    OBVIOUS
  <2>1. elem'[e].next \in Int
    BY DEF Element
  <2> QED
    BY <1>1, <1>3, <2>1
<1>5. OnTime(vec, last, NextOf)
  BY DEF WheelOnTime
<1> HIDE DEF nextNew
<1>6. /\ OnTime(vec', last, nextNew)
      /\ Cleared(vec, last) /\ (\A e \in C : last < nextNew[e]) => Cleared(vec', last)
  <2>1. Joined(vec, NextOf, vec', nextNew, C, last)
    BY <1>2, <1>4 DEF Joined
  <2> QED
    BY <1>3, <1>5, <2>1, AddsOnTime
<1>7. pc = "callback" => \A e \in C : last < nextNew[e]
  BY <1>1
<1>8. pc = "callback" => Cleared(vec, last)
  BY DEF WheelOnTime
<1> QED
  BY <1>6, <1>7, <1>8 DEF WheelOnTime, nextNew

(* The wheel is not touched, nor the times of what is on it.               *)
LEMMA WheelStays ==
  ASSUME WheelOnTime, TypeOK, m_qwLastTime' = m_qwLastTime, vec' = vec,
         pc' \in {"drain", "callback"} => pc \in {"drain", "callback"},
         \A e \in Linked : elem'[e].next = elem[e].next
  PROVE  WheelOnTime'
<1>1. \A s \in Slot : \A e \in vec[s] : NextOf'[e] = NextOf[e]
  BY DEF NextOf, TypeOK, Linked, On
<1> QED
  BY <1>1 DEF WheelOnTime, OnTime

(* Everything the wheel holds expires at the present tick or after it.     *)
LEMMA LinkedNotPast ==
  ASSUME TypeOK, WheelOnTime, NEW e \in Linked
  PROVE  elem[e].next >= m_qwLastTime
<1>1. PICK s \in Slot : e \in vec[s]
  BY DEF Linked, On
<1>2. e \in Elem
  BY <1>1 DEF TypeOK
<1>3. elem[e].next \in Int /\ m_qwLastTime \in Int
  BY <1>2 DEF TypeOK, Element
<1>4. Visit(s, m_qwLastTime) <= elem[e].next
  BY <1>1, <1>2 DEF WheelOnTime, OnTime, NextOf
<1>5. Visit(s, m_qwLastTime) \in Int /\ Visit(s, m_qwLastTime) >= m_qwLastTime
  BY <1>3, VisitIsFirst
<1> QED
  BY <1>3, <1>4, <1>5

(* Within a tick, after it.                                                *)
LEMMA LinkedLater ==
  ASSUME TypeOK, WheelOnTime, pc \in {"drain", "callback"}, NEW e \in Linked
  PROVE  elem[e].next > m_qwLastTime
<1>1. PICK s \in Slot : e \in vec[s]
  BY DEF Linked, On
<1>2. e \in Elem
  BY <1>1 DEF TypeOK
<1>3. elem[e].next \in Int /\ m_qwLastTime \in Int
  BY <1>2 DEF TypeOK, Element
<1>4. Visit(s, m_qwLastTime) <= elem[e].next /\ Visit(s, m_qwLastTime) # m_qwLastTime
  BY <1>1, <1>2 DEF WheelOnTime, OnTime, Cleared, NextOf
<1>5. Visit(s, m_qwLastTime) \in Int /\ Visit(s, m_qwLastTime) >= m_qwLastTime
  BY <1>3, VisitIsFirst
<1> QED
  BY <1>3, <1>4, <1>5

(* SetTimer and SetTimerCron put on the wheel an element that was free,    *)
(* with a time not before now.                                             *)
LEMMA WheelRegister ==
  ASSUME TypeOK, TypeOK', Ownership, TimesInOrder, WheelOnTime,
         NEW n \in Node, NEW id \in Id, NEW e \in Elem \ used, NEW r \in Element,
         UserCode, Register(n, id, e, r), now <= r.next, 2 * r.next < WORD
  PROVE  WheelOnTime'
<1>1. vec' = Add(vec, e, r.next, m_qwLastTime)
  BY DEF Register
<1>2. UNCHANGED <<pc, m_qwLastTime>>
  BY DEF Register, timeVars
<1>3. \A d \in Elem : d # e => elem'[d].next = elem[d].next
  <2>1. \A d \in Elem : Killed({map[n][id]})[d].next = elem[d].next
    BY KilledKeeps DEF TypeOK
  <2>2. \A d \in Elem : d # e => elem'[d] = Killed({map[n][id]})[d]
    BY DEF Register, Killed
  <2> QED
    BY <2>1, <2>2
<1>4. elem'[e] = r
  BY DEF Register, Killed
<1>5. e \notin Linked /\ Linked \subseteq Elem
  BY DEF Ownership, Owned, TypeOK, Linked, On
<1>6. \A s \in Slot :
        vec'[s] \subseteq
          vec[s] \cup {d \in {e} : SlotOf(elem'[d].next, m_qwLastTime) = s}
  BY <1>1, <1>4 DEF Add, TypeOK
<1>7. m_qwLastTime <= r.next /\ (pc = "callback" => m_qwLastTime < r.next)
  BY DEF TimesInOrder, TypeOK, Element
<1>8. elem' \in [Elem -> Element] /\ vec' \in [Slot -> SUBSET Elem]
  BY DEF TypeOK
<1> DEFINE C == {e}
<1>9. C \in SUBSET Elem
  OBVIOUS
<1>10. \A d \in Linked : elem'[d].next = elem[d].next
  BY <1>3, <1>5
<1>11. \A d \in C : /\ m_qwLastTime <= elem'[d].next
                    /\ 2 * elem'[d].next < WORD
                    /\ pc = "callback" => m_qwLastTime < elem'[d].next
  BY <1>4, <1>7
<1>12. \A s \in Slot :
         vec'[s] \subseteq
           vec[s] \cup {d \in C : SlotOf(elem'[d].next, m_qwLastTime) = s}
  BY <1>6
<1>13. pc' \in {"drain", "callback"} => pc = "callback"
  BY <1>2 DEF UserCode
<1> HIDE DEF C
<1> QED
  BY <1>2, <1>8, <1>9, <1>10, <1>11, <1>12, <1>13, WheelAdds

(* The calls of the API change of a fetched element only m_bErased, and    *)
(* touch neither work_list nor the callback that runs.                     *)
LEMMA UserStepKeepsFetched ==
  ASSUME TypeOK, UserStep
  PROVE  /\ UNCHANGED <<work, current>>
         /\ \E K : \A e \in used : elem'[e] = Killed(K)[e]
<1> PICK n \in Node :
      \/ Construct(n)
      \/ KillAll(n)
      \/ Destroy(n)
      \/ SetTimerCronThrows(n)
      \/ \E m \in Node : CopyFrom(n, m) \/ Assign(n, m) \/ CopyConstruct(n, m)
      \/ \E id \in Id :
           \/ KillTimer(n, id)
           \/ \E q \in Requests : SetTimer(n, id, q)
           \/ \E gap \in CronGaps : SetTimerCron(n, id, gap)
  BY DEF UserStep
<1>0. used \subseteq Elem
  BY DEF TypeOK
<1>1. CASE Construct(n) \/ SetTimerCronThrows(n)
  <2>1. \A e \in Elem : Killed({})[e] = elem[e]
    BY DEF Killed
  <2>2. elem' = elem /\ UNCHANGED <<work, current>>
    BY <1>1 DEF Construct, SetTimerCronThrows, wheelVars
  <2> QED
    BY <1>0, <2>1, <2>2
<1>2. CASE KillAll(n) \/ Destroy(n) \/ \E id \in Id : KillTimer(n, id)
  <2>1. \E K : elem' = Killed(K)
    BY <1>2 DEF KillAll, Destroy, KillTimer
  <2>2. UNCHANGED <<work, current>>
    BY <1>2 DEF KillAll, Destroy, KillTimer, wheelVars
  <2> QED
    BY <2>1, <2>2
<1>3. ASSUME NEW m \in Node,
             CopyFrom(n, m) \/ Assign(n, m) \/ CopyConstruct(n, m)
      PROVE  /\ UNCHANGED <<work, current>>
             /\ \E K : \A e \in used : elem'[e] = Killed(K)[e]
  <2>1. PICK before, K : CopyInto(n, m, before, K)
    BY <1>3 DEF CopyFrom, Assign, CopyConstruct
  <2>2. PICK ids \in SUBSET Registered(m) :
          \E new \in [ids -> Elem \ used] : CopyElements(n, m, before, K, ids, new)
    BY <2>1 DEF CopyInto
  <2>3. PICK new \in [ids -> Elem \ used] : CopyElements(n, m, before, K, ids, new)
    BY <2>2
  <2> DEFINE copies == {new[i] : i \in ids}
  <2> DEFINE L == K \cup {before[i] : i \in ids}
  <2>4. \A e \in Elem : e \notin copies => elem'[e] = Killed(L)[e]
    BY <2>3 DEF CopyElements
  <2>5. copies \cap used = {}
    OBVIOUS
  <2> HIDE DEF L, copies
  <2>6. \A e \in used : elem'[e] = Killed(L)[e]
    BY <1>0, <2>4, <2>5
  <2>7. UNCHANGED <<work, current>>
    BY <1>3 DEF CopyFrom, Assign, CopyConstruct
  <2> QED
    BY <2>6, <2>7
<1>4. ASSUME NEW id \in Id,
             \/ \E q \in Requests : SetTimer(n, id, q)
             \/ \E gap \in CronGaps : SetTimerCron(n, id, gap)
      PROVE  /\ UNCHANGED <<work, current>>
             /\ \E K : \A e \in used : elem'[e] = Killed(K)[e]
  <2>1. now \in Nat
    BY DEF TypeOK
  <2>2. PICK e \in Elem \ used, r \in Element : Register(n, id, e, r)
    BY <1>4, <2>1, NewTimerType DEF SetTimer, SetTimerCron
  <2>3. elem' = [Killed({map[n][id]}) EXCEPT ![e] = r]
    BY <2>2 DEF Register
  <2>4. \A d \in used : elem'[d] = Killed({map[n][id]})[d]
    BY <1>0, <2>3 DEF Killed
  <2>5. UNCHANGED <<work, current>>
    BY <2>2 DEF Register
  <2> QED
    BY <2>4, <2>5
<1> QED
  BY <1>1, <1>2, <1>3, <1>4

(* So what is fetched keeps its time.                                      *)
LEMMA FetchedKeepsTime ==
  ASSUME TypeOK, Ownership, UserStep
  PROVE  \A e \in Owned : e \in Elem /\ elem'[e].next = elem[e].next
<1>1. PICK K : \A e \in used : elem'[e] = Killed(K)[e]
  BY UserStepKeepsFetched
<1>2. used \subseteq Elem /\ Owned \subseteq used
  BY DEF TypeOK, Ownership
<1>3. \A e \in Elem : Killed(K)[e].next = elem[e].next
  BY KilledKeeps DEF TypeOK
<1> QED
  BY <1>1, <1>2, <1>3

(* Outside Run, everything a node has registered is on the wheel.          *)
LEMMA RegisteredOnWheel ==
  ASSUME TypeOK, Ownership, RegisteredIsOwned, pc \in {"idle", "loop"},
         NEW n \in Node, NEW i \in Registered(n)
  PROVE  map[n][i] \in Linked
BY DEF RegisteredIsOwned, Owned, Ownership

(* CopyFrom puts the copies on the wheel with the times of their sources.  *)
LEMMA WheelCopy ==
  ASSUME TypeOK, TypeOK', Ownership, ElementsTimely, RegisteredIsOwned, WheelOnTime,
         NEW n \in Node, NEW m \in Node, NEW before, NEW K,
         CopyInto(n, m, before, K), pc = "idle", UNCHANGED <<pc, timeVars>>,
         \A e \in Linked : elem'[e].next = elem[e].next
  PROVE  WheelOnTime'
<1>1. PICK ids \in SUBSET Registered(m) :
        \E new \in [ids -> Elem \ used] : CopyElements(n, m, before, K, ids, new)
  BY DEF CopyInto
<1>2. PICK new \in [ids -> Elem \ used] : CopyElements(n, m, before, K, ids, new)
  BY <1>1
<1> DEFINE C == {new[i] : i \in ids}
<1> DEFINE id(e) == CHOOSE i \in ids : new[i] = e
<1> DEFINE source(e) == elem[map[m][id(e)]]
<1>3. /\ vec' = [s \in Slot |->
                   vec[s] \cup {e \in C : SlotOf(source(e).next, m_qwLastTime) = s}]
      /\ \A e \in C : elem'[e] = [source(e) EXCEPT !.sink = n]
  BY <1>2 DEF CopyElements
<1>4. \A e \in C : id(e) \in ids
  OBVIOUS
<1>5. \A i \in ids : map[m][i] \in Linked
  BY RegisteredOnWheel
<1>6. \A e \in C : /\ source(e) \in Element
                   /\ source(e).next >= m_qwLastTime
                   /\ TimelyElement(source(e))
  <2> SUFFICES ASSUME NEW e \in C
               PROVE  /\ source(e) \in Element
                      /\ source(e).next >= m_qwLastTime
                      /\ TimelyElement(source(e))
    OBVIOUS
  <2>1. map[m][id(e)] \in Linked
    BY <1>4, <1>5
  <2>2. map[m][id(e)] \in Elem
    BY <2>1 DEF Linked, On, TypeOK
  <2> QED
    BY <2>1, <2>2, LinkedNotPast DEF TypeOK, ElementsTimely
<1> HIDE DEF source
<1>7. \A e \in C : elem'[e].next = source(e).next
  <2>1. \A r \in Element : [r EXCEPT !.sink = n].next = r.next
    BY DEF Element
  <2> QED
    BY <1>3, <1>6, <2>1
<1>8. C \in SUBSET Elem
  OBVIOUS
<1> HIDE DEF C
<1>9. \A s \in Slot :
        vec'[s] \subseteq
          vec[s] \cup {e \in C : SlotOf(elem'[e].next, m_qwLastTime) = s}
  BY <1>3, <1>7
<1>10. \A e \in C : /\ m_qwLastTime <= elem'[e].next
                    /\ 2 * elem'[e].next < WORD
                    /\ pc = "callback" => m_qwLastTime < elem'[e].next
  <2> SUFFICES ASSUME NEW e \in C
               PROVE  m_qwLastTime <= elem'[e].next /\ 2 * elem'[e].next < WORD
    OBVIOUS
  <2>1. source(e).next \in Int /\ m_qwLastTime \in Int
    BY <1>6 DEF Element, TypeOK
  <2> QED
    BY <1>6, <1>7, <2>1 DEF TimelyElement
<1>11. /\ elem' \in [Elem -> Element]
       /\ vec' \in [Slot -> SUBSET Elem]
       /\ m_qwLastTime' = m_qwLastTime
       /\ pc' \in {"drain", "callback"} => pc = "callback"
  BY DEF TypeOK, timeVars
<1> QED
  BY <1>8, <1>9, <1>10, <1>11, WheelAdds

(* The calls of the API leave everything on time.                          *)
LEMMA WheelUserStep ==
  ASSUME Timely, ~CopyInCallback, TypeOK, TypeOK', Ownership, TimesInOrder,
         ElementsTimely, RegisteredIsOwned, WheelOnTime, UserStep
  PROVE  WheelOnTime'
<1> PICK n \in Node :
      \/ Construct(n)
      \/ KillAll(n)
      \/ Destroy(n)
      \/ SetTimerCronThrows(n)
      \/ \E m \in Node : CopyFrom(n, m) \/ Assign(n, m) \/ CopyConstruct(n, m)
      \/ \E id \in Id :
           \/ KillTimer(n, id)
           \/ \E q \in Requests : SetTimer(n, id, q)
           \/ \E gap \in CronGaps : SetTimerCron(n, id, gap)
  BY DEF UserStep
<1>0. /\ \A e \in Linked : elem'[e].next = elem[e].next
      /\ UNCHANGED <<pc, timeVars>>
  BY FetchedKeepsTime, UserStepKeepsTimes DEF Owned
<1>1. CASE \/ Construct(n) \/ KillAll(n) \/ Destroy(n) \/ SetTimerCronThrows(n)
           \/ \E id \in Id : KillTimer(n, id)
  <2>1. vec' = vec
    BY <1>1 DEF Construct, KillAll, Destroy, SetTimerCronThrows, KillTimer, wheelVars
  <2> QED
    BY <1>0, <2>1, WheelStays DEF timeVars
<1>2. ASSUME NEW m \in Node,
             CopyFrom(n, m) \/ Assign(n, m) \/ CopyConstruct(n, m)
      PROVE  WheelOnTime'
  <2>1. pc = "idle" /\ \E before, K : CopyInto(n, m, before, K)
    BY <1>2 DEF CopyFrom, Assign, CopyConstruct, CopyAllowed
  <2> QED
    BY <1>0, <2>1, WheelCopy
<1>3. ASSUME NEW id \in Id,
             \/ \E q \in Requests : SetTimer(n, id, q)
             \/ \E gap \in CronGaps : SetTimerCron(n, id, gap)
      PROVE  WheelOnTime'
  <2>1. now \in Nat /\ now <= MaxNow
    BY DEF TypeOK, TimesInOrder
  <2>2. PICK e \in Elem \ used, r \in Element :
          /\ Register(n, id, e, r)
          /\ UserCode
          /\ now <= r.next
          /\ 2 * r.next < WORD
    <3>1. ASSUME NEW q \in Requests, SetTimer(n, id, q)
          PROVE  \E e \in Elem \ used, r \in Element :
                   /\ Register(n, id, e, r)
                   /\ UserCode
                   /\ now <= r.next
                   /\ 2 * r.next < WORD
      <4> DEFINE r == [sink |-> n, id |-> id, next |-> (now + q.first) % WORD,
                       cd |-> q.cd, exact |-> q.exact, cron |-> FALSE,
                       erased |-> FALSE]
      <4>1. r \in Element
        BY <2>1, NewTimerType
      <4>2. now <= r.next /\ 2 * r.next < WORD
        BY <2>1, NewTimerTimely
      <4> QED
        BY <3>1, <4>1, <4>2 DEF SetTimer
    <3>2. ASSUME NEW gap \in CronGaps, SetTimerCron(n, id, gap)
          PROVE  \E e \in Elem \ used, r \in Element :
                   /\ Register(n, id, e, r)
                   /\ UserCode
                   /\ now <= r.next
                   /\ 2 * r.next < WORD
      <4> DEFINE r == [sink |-> n, id |-> id, next |-> (now + gap) % WORD,
                       cd |-> 0, exact |-> FALSE, cron |-> TRUE, erased |-> FALSE]
      <4>1. r \in Element
        BY <2>1, NewTimerType
      <4>2. now <= r.next /\ 2 * r.next < WORD
        BY <2>1, NewTimerTimely
      <4> QED
        BY <3>2, <4>1, <4>2 DEF SetTimerCron
    <3> QED
      BY <1>3, <3>1, <3>2
  <2> QED
    BY <2>2, WheelRegister
<1> QED
  BY <1>1, <1>2, <1>3

(* The parts of the invariant that speak of lists and callbacks.           *)
ListsOnTime == WheelOnTime /\ FiresOnItsTick /\ CurrentOnTime

(* A tick begins: the cascades are done and the elements due are taken.    *)
LEMMA ProcessTickOnTime ==
  ASSUME TypeOK, Ownership, ElementsTimely, ListsOnTime, ProcessTick
  PROVE  ListsOnTime'
<1> DEFINE last == m_qwLastTime
<1> DEFINE v == CascadeAll(vec, last, NextOf)
<1> DEFINE slot == <<1, Index(1, last)>>
<1>1. /\ NextOf \in [Elem -> Int]
      /\ \A e \in Elem : NextOf[e] = elem[e].next
      /\ last \in Int /\ last >= 0 /\ vec \in [Slot -> SUBSET Elem]
      /\ WORD \in Int
  BY WheelAssumption DEF NextOf, TypeOK, Element
<1>2. Within(vec, last, NextOf)
  <2> SUFFICES ASSUME NEW s \in Slot, NEW e \in vec[s]
               PROVE  2 * (NextOf[e] - last) < WORD
    BY DEF Within
  <2>1. e \in Elem /\ NextOf[e] \in Int
    BY <1>1
  <2>2. 2 * NextOf[e] < WORD
    BY <1>1, <2>1 DEF ElementsTimely, TimelyElement
  <2> QED
    BY <1>1, <2>1, <2>2
<1>3. OnTime(vec, last, NextOf)
  BY DEF ListsOnTime, WheelOnTime
<1>4. v \in [Slot -> SUBSET Elem]
  BY CascadeKeepsType DEF Ownership
<1>5. /\ OnTime(v, last, NextOf)
      /\ \A s \in Slot : Visit(s, last) = last /\ v[s] # {} => s = slot
  BY <1>1, <1>2, <1>3, CascadeAllOnTime
<1>6. slot \in Slot /\ Visit(slot, last) = last
  BY <1>1, RootVisited
<1>7. slot[1] = 1
  OBVIOUS
<1>8. /\ work' = v[slot]
      /\ vec' = [v EXCEPT ![slot] = {}]
      /\ pc' = "drain"
      /\ UNCHANGED <<timeVars, elem>>
  BY DEF ProcessTick
<1> HIDE DEF v, slot
<1>9. /\ \A s \in Slot : vec'[s] = IF s = slot THEN {} ELSE v[s]
      /\ NextOf' = NextOf
  BY <1>4, <1>6, <1>8 DEF NextOf
<1>10. OnTime(vec', last, NextOf) /\ Cleared(vec', last)
  BY <1>5, <1>9 DEF OnTime, Cleared
<1>11. \A e \in work' : elem'[e].next = last
  <2> SUFFICES ASSUME NEW e \in v[slot]
               PROVE  elem[e].next = last
    BY <1>8
  <2>1. e \in Elem
    BY <1>4, <1>6
  <2> QED
    BY <1>1, <1>5, <1>6, <1>7, <2>1 DEF OnTime
<1> QED
  BY <1>8, <1>9, <1>10, <1>11
     DEF ListsOnTime, WheelOnTime, FiresOnItsTick, CurrentOnTime, timeVars

(* The steps of Run leave everything on time.                              *)
LEMMA ListsRunStep ==
  ASSUME TypeOK, Ownership, ElementsTimely, ListsOnTime, RunBegin \/ RunStep
  PROVE  ListsOnTime'
<1>1. CASE RunBegin \/ RunReturn
  <2>1. /\ UNCHANGED <<m_qwLastTime, vec, work, elem>>
        /\ pc' \notin {"drain", "callback"}
    BY <1>1 DEF RunBegin, RunReturn, timeVars, wheelVars
  <2>2. WheelOnTime'
    BY <2>1, WheelStays DEF ListsOnTime
  <2> QED
    BY <2>1, <2>2 DEF ListsOnTime, FiresOnItsTick, CurrentOnTime
<1>2. ASSUME NEW e \in Elem, ReleaseErased(e)
      PROVE  ListsOnTime'
  <2>1. /\ e \in work /\ e \notin Linked
        /\ work' = work \ {e}
        /\ \A d \in Elem : d # e => elem'[d] = elem[d]
        /\ Linked \subseteq Elem
        /\ UNCHANGED <<pc, m_qwLastTime, vec>>
        /\ pc = "drain"
    BY <1>2 DEF ReleaseErased, Release, timeVars, Ownership, TypeOK, Linked, On
  <2>2. WheelOnTime'
    BY <2>1, WheelStays DEF ListsOnTime
  <2>3. FiresOnItsTick'
    BY <2>1 DEF ListsOnTime, FiresOnItsTick, TypeOK
  <2> QED
    BY <2>1, <2>2, <2>3 DEF ListsOnTime, CurrentOnTime
<1>3. ASSUME NEW e \in Elem, Fire(e)
      PROVE  ListsOnTime'
  <2>1. /\ pc = "drain" /\ pc' = "callback" /\ current' = e
        /\ e \in work /\ work' = work \ {e}
        /\ UNCHANGED <<m_qwLastTime, vec, elem>>
    BY <1>3 DEF Fire, timeVars
  <2>2. WheelOnTime'
    BY <2>1, WheelStays DEF ListsOnTime
  <2> QED
    BY <2>1, <2>2 DEF ListsOnTime, FiresOnItsTick, CurrentOnTime
<1>4. CASE NextTick
  <2>1. /\ pc = "drain" /\ pc' = "loop" /\ work = {}
        /\ m_qwLastTime' = m_qwLastTime + 1
        /\ UNCHANGED <<vec, work, elem>>
    BY <1>4 DEF NextTick, wheelVars
  <2>2. NextOf' = NextOf
    BY <2>1 DEF NextOf
  <2>3. OnTime(vec, m_qwLastTime + 1, NextOf)
    <3>1. /\ OnTime(vec, m_qwLastTime, NextOf)
          /\ Cleared(vec, m_qwLastTime)
          /\ m_qwLastTime \in Int
      BY <2>1 DEF ListsOnTime, WheelOnTime, TypeOK
    <3> QED
      BY <3>1, OnTimeNextTick
  <2> QED
    BY <2>1, <2>2, <2>3 DEF ListsOnTime, WheelOnTime, FiresOnItsTick, CurrentOnTime
<1> QED
  BY <1>1, <1>2, <1>3, <1>4, ProcessTickOnTime DEF RunStep

(* A callback that returns leaves everything on time.                      *)
LEMMA ListsCallbackReturn ==
  ASSUME Timely, ~CallbackThrows, TypeOK, TypeOK', Ownership, TimesInOrder,
         ElementsTimely, ListsOnTime, CallbackReturn
  PROVE  ListsOnTime'
<1>0. /\ pc = "callback" /\ current \in Elem
      /\ current \notin Linked \cup work
      /\ Linked \cup work \subseteq Elem
  BY DEF CallbackReturn, Ownership, TypeOK, Linked, On
<1>1. CASE ReturnErased
  <2>1. /\ pc' = "drain"
        /\ UNCHANGED <<m_qwLastTime, vec, work>>
        /\ \A d \in Elem : d # current => elem'[d] = elem[d]
    BY <1>0, <1>1 DEF ReturnErased, Release, timeVars, TypeOK
  <2>2. WheelOnTime'
    BY <1>0, <2>1, WheelStays DEF ListsOnTime
  <2> QED
    BY <1>0, <2>1, <2>2 DEF ListsOnTime, FiresOnItsTick, CurrentOnTime
<1>2. ASSUME NEW gap \in IF elem[current].cron THEN CronGaps ELSE {0},
             Reschedule(gap)
      PROVE  ListsOnTime'
  <2> DEFINE next == Successor(elem[current], gap)
  <2>1. next \in Int /\ next > m_qwLastTime /\ 2 * next < WORD
    BY <1>0, SuccessorTimely DEF ListsOnTime
  <2>2. /\ vec' = Add(vec, current, next, m_qwLastTime)
        /\ elem' = [elem EXCEPT ![current] = [elem[current] EXCEPT !.next = next]]
        /\ pc' = "drain"
        /\ UNCHANGED <<m_qwLastTime, work>>
    BY <1>2 DEF Reschedule, timeVars
  <2> HIDE DEF next
  <2>3. /\ elem'[current].next = next
        /\ \A d \in Elem : d # current => elem'[d] = elem[d]
    <3>1. \A r \in Element : [r EXCEPT !.next = next].next = next
      BY DEF Element
    <3> QED
      BY <1>0, <2>2, <3>1 DEF TypeOK
  <2>4. WheelOnTime'
    <3> DEFINE C == {current}
    <3>1. C \in SUBSET Elem
      BY <1>0
    <3>2. \A s \in Slot :
            vec'[s] \subseteq
              vec[s] \cup {e \in C : SlotOf(elem'[e].next, m_qwLastTime) = s}
      BY <2>2, <2>3 DEF Add, TypeOK
    <3>3. \A e \in C : /\ m_qwLastTime <= elem'[e].next
                       /\ 2 * elem'[e].next < WORD
                       /\ pc = "callback" => m_qwLastTime < elem'[e].next
      <4>1. m_qwLastTime <= next
        BY <2>1 DEF TypeOK
      <4> QED
        BY <2>1, <2>3, <4>1
    <3>4. /\ elem' \in [Elem -> Element]
          /\ vec' \in [Slot -> SUBSET Elem]
      BY DEF TypeOK
    <3>5. \A e \in Linked : elem'[e].next = elem[e].next
      BY <1>0, <2>3
    <3> HIDE DEF C
    <3> QED
      BY <1>0, <2>2, <3>1, <3>2, <3>3, <3>4, <3>5, WheelAdds DEF ListsOnTime
  <2>5. FiresOnItsTick'
    BY <1>0, <2>2, <2>3 DEF ListsOnTime, FiresOnItsTick
  <2> QED
    BY <2>2, <2>4, <2>5 DEF ListsOnTime, CurrentOnTime
<1> QED
  BY <1>1, <1>2 DEF CallbackReturn, ThrowFromCallback

(* Every step leaves everything on time.                                   *)
LEMMA ListsNext ==
  ASSUME Timely, ~CopyInCallback, ~CallbackThrows, TypeOK, TypeOK', Ownership,
         TimesInOrder, ElementsTimely, RegisteredIsOwned, ListsOnTime, [Next]_vars
  PROVE  ListsOnTime'
<1>1. CASE Elapse \/ UNCHANGED vars
  <2>1. UNCHANGED <<pc, m_qwLastTime, vec, work, current, elem>>
    BY <1>1 DEF Elapse, vars, timeVars, wheelVars
  <2>2. WheelOnTime'
    BY <2>1, WheelStays DEF ListsOnTime
  <2> QED
    BY <2>1, <2>2 DEF ListsOnTime, FiresOnItsTick, CurrentOnTime
<1>2. CASE UserStep
  <2>1. /\ UNCHANGED <<pc, m_qwLastTime, work, current>>
        /\ \A e \in Owned : elem'[e].next = elem[e].next
    BY <1>2, UserStepKeepsFetched, UserStepKeepsTimes, FetchedKeepsTime DEF timeVars
  <2>2. WheelOnTime'
    BY <1>2, WheelUserStep DEF ListsOnTime
  <2>3. FiresOnItsTick'
    BY <2>1 DEF ListsOnTime, FiresOnItsTick, Owned
  <2>4. CurrentOnTime'
    BY <2>1 DEF ListsOnTime, CurrentOnTime, Owned, Ownership
  <2> QED
    BY <2>2, <2>3, <2>4 DEF ListsOnTime
<1>3. CASE Shutdown
  <2>1. /\ vec' = [s \in Slot |-> {}] /\ pc' = "down"
        /\ work' = work /\ work = {}
    BY <1>3 DEF Shutdown, Ownership
  <2> QED
    BY <2>1 DEF ListsOnTime, WheelOnTime, OnTime, FiresOnItsTick, CurrentOnTime
<1> QED
  BY <1>1, <1>2, <1>3, ListsRunStep, ListsCallbackReturn DEF Next

-----------------------------------------------------------------------------
LEMMA OnScheduleInit == Timely /\ Init => OnSchedule
<1> SUFFICES ASSUME Timely, Init
             PROVE  OnSchedule
  OBVIOUS
<1>1. TimesInOrder
  BY ModuleAssumption DEF Init, TimesInOrder
<1>2. ElementsTimely
  BY BlankTimely DEF Init, ElementsTimely
<1>3. RegisteredIsOwned
  BY DEF Init, RegisteredIsOwned, Registered, NoTimers
<1>4. WheelOnTime /\ FiresOnItsTick /\ CurrentOnTime
  BY DEF Init, WheelOnTime, OnTime, FiresOnItsTick, CurrentOnTime
<1> QED
  BY <1>1, <1>2, <1>3, <1>4 DEF OnSchedule

LEMMA OnScheduleNext ==
  ASSUME Timely, ~CopyInCallback, ~CallbackThrows, TypeOK, TypeOK', Ownership,
         Registration, OnSchedule, [Next]_vars
  PROVE  OnSchedule'
<1>1. TimesInOrder'
  BY TimesNext DEF OnSchedule
<1>2. ElementsTimely'
  BY TimelyNext DEF OnSchedule
<1>3. RegisteredIsOwned'
  BY ReachNext DEF OnSchedule
<1>4. ListsOnTime'
  BY ListsNext DEF OnSchedule, ListsOnTime
<1> QED
  BY <1>1, <1>2, <1>3, <1>4 DEF OnSchedule, ListsOnTime

(* What the inductive invariant says of the properties.                    *)
LEMMA OnScheduleImplies ==
  ASSUME TypeOK, Ownership, OnSchedule
  PROVE  WheelInv /\ FiresOnItsTick /\ RunExecutesAllExpired
<1>1. WheelInv
  <2> DEFINE inTick == pc \in {"drain", "callback"}
  <2> DEFINE from == IF inTick THEN m_qwLastTime + 1 ELSE m_qwLastTime
  <2> SUFFICES ASSUME NEW s \in Slot, NEW e \in vec[s]
               PROVE  /\ Visit(s, from) <= elem[e].next
                      /\ s[1] = 1 => Visit(s, from) = elem[e].next
    BY DEF WheelInv
  <2>1. e \in Elem /\ m_qwLastTime \in Int
    BY DEF TypeOK
  <2>2. /\ Visit(s, m_qwLastTime) <= elem[e].next
        /\ s[1] = 1 => Visit(s, m_qwLastTime) = elem[e].next
    BY <2>1 DEF OnSchedule, WheelOnTime, OnTime, NextOf
  <2>3. inTick => Visit(s, m_qwLastTime) # m_qwLastTime
    BY DEF OnSchedule, WheelOnTime, Cleared
  <2>4. Visit(s, from) = Visit(s, m_qwLastTime)
    BY <2>1, <2>3, VisitFromNextTick
  <2> QED
    BY <2>2, <2>4
<1>2. RunExecutesAllExpired
  <2> SUFFICES ASSUME pc = "idle", NEW n \in Node, NEW i \in Registered(n)
               PROVE  ~Due(map[n][i], m_qwLastTime - 1)
    BY DEF RunExecutesAllExpired
  <2>1. map[n][i] \in Linked
    BY RegisteredOnWheel DEF OnSchedule
  <2>2. elem[map[n][i]].next >= m_qwLastTime
    BY <2>1, LinkedNotPast DEF OnSchedule
  <2>3. map[n][i] \in Elem /\ m_qwLastTime \in Int
    BY <2>1 DEF Linked, On, TypeOK
  <2>4. elem[map[n][i]].next \in Int
    BY <2>3 DEF TypeOK, Element
  <2> QED
    BY <2>2, <2>3, <2>4 DEF Due
<1> QED
  BY <1>1, <1>2 DEF OnSchedule

(* The inductive invariant, for the proofs of what rests on it.            *)
THEOREM Schedule == ASSUME Timely, ~CopyInCallback, ~CallbackThrows
                    PROVE  Spec => []OnSchedule
<1>1. Init => OnSchedule
  BY OnScheduleInit
<1>2. TypeOK /\ TypeOK' /\ Ownership /\ Registration /\ OnSchedule /\ [Next]_vars
        => OnSchedule'
  BY OnScheduleNext
<1>3. RegisteredIsLive /\ LiveIsRegistered => Registration
  BY DEF Registration
<1> QED
  BY <1>1, <1>2, <1>3, OwnershipHolds, RegistrationHolds, PTL DEF Spec

(* Timers are on time: every list of the wheel is visited not later than   *)
(* its elements expire, so that a tick's work_list holds exactly timers    *)
(* of that tick, and Run returns with no expired timer left, however late  *)
(* it is called and whatever is set, killed and copied meanwhile.          *)
THEOREM Punctual ==
  ASSUME Timely, ~CopyInCallback, ~CallbackThrows
  PROVE  Spec => [](WheelInv /\ FiresOnItsTick /\ RunExecutesAllExpired)
<1>1. TypeOK /\ Ownership /\ OnSchedule
        => WheelInv /\ FiresOnItsTick /\ RunExecutesAllExpired
  BY OnScheduleImplies
<1> QED
  BY <1>1, OwnershipHolds, Schedule, PTL
=============================================================================
