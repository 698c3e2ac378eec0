------------------------- MODULE TimerModuleProofs -------------------------
(***************************************************************************)
(* Proofs about the timer module, for every number of nodes, ids, elements *)
(* and requests, every size of the wheel and every schedule:               *)
(*                                                                         *)
(*   OwnershipHolds     types, and the elements are on the lists as they   *)
(*                      should be                                          *)
(*   RegistrationHolds  nodes and elements agree on what is registered     *)
(*   Silence            no callback for a timer that is not registered     *)
(*   NothingLost        no element is lost, unless a cron expression is    *)
(*                      invalid or a callback throws                       *)
(***************************************************************************)
EXTENDS TimerModule, TimerWheelProofs

(* Reducing a time to the width of a word keeps it a number.               *)
LEMMA WordArithmetic == \A t \in Int : t % WORD \in Int
BY WheelAssumption, SMT

(* A reset element is an element.                                          *)
LEMMA BlankType == Blank \in Element
BY DEF Blank, Element

(* An empty map is a map.                                                  *)
LEMMA NoTimersType == NoTimers \in [Id -> Elem \cup {NULL}]
BY DEF NoTimers

(* Killing elements keeps the types.                                       *)
LEMMA KilledType ==
  ASSUME elem \in [Elem -> Element], NEW K
  PROVE  Killed(K) \in [Elem -> Element]
BY DEF Killed, Element

(* Kill marks the elements it is given and no other.                       *)
LEMMA KilledMarks ==
  ASSUME elem \in [Elem -> Element], NEW K, NEW e \in Elem
  PROVE  /\ e \notin K => Killed(K)[e] = elem[e]
         /\ e \in K => Killed(K)[e].erased
<1>1. elem[e] \in Element
  OBVIOUS
<1>2. [elem[e] EXCEPT !.erased = TRUE].erased
  BY <1>1 DEF Element
<1> QED
  BY <1>2 DEF Killed

(* The next expiry time is a number.                                       *)
LEMMA SuccessorType ==
  ASSUME NEW r \in Element, NEW gap \in Int, m_qwCurTime \in Nat
  PROVE  Successor(r, gap) \in Int
<1>1. r.next + r.cd \in Int /\ m_qwCurTime + gap \in Int
  BY DEF Element
<1>2. m_qwCurTime + r.cd \in Int
  BY DEF Element
<1> QED
  BY <1>1, <1>2, WordArithmetic DEF Successor

(* The contents that SetTimer and SetTimerCron give an element.            *)
LEMMA NewTimerType ==
  ASSUME NEW n \in Node, NEW id \in Id, now \in Nat
  PROVE  /\ \A q \in Requests :
              [sink |-> n, id |-> id, next |-> (now + q.first) % WORD, cd |-> q.cd,
               exact |-> q.exact, cron |-> FALSE, erased |-> FALSE] \in Element
         /\ \A gap \in CronGaps :
              [sink |-> n, id |-> id, next |-> (now + gap) % WORD, cd |-> 0,
               exact |-> FALSE, cron |-> TRUE, erased |-> FALSE] \in Element
<1>1. \A q \in Requests : /\ (now + q.first) % WORD \in Int
                          /\ q.cd \in Nat
                          /\ q.exact \in BOOLEAN
  BY ModuleAssumption, WordArithmetic
<1>2. \A gap \in CronGaps : (now + gap) % WORD \in Int
  BY ModuleAssumption, WordArithmetic
<1> QED
  BY <1>1, <1>2 DEF Element

(* AddTimerElement in a state of the module.                               *)
LEMMA AddKeepsType ==
  ASSUME TypeOK, NEW e \in Elem, NEW expires \in Int
  PROVE  /\ Add(vec, e, expires, m_qwLastTime) \in [Slot -> SUBSET Elem]
         /\ On(Add(vec, e, expires, m_qwLastTime)) = Linked \cup {e}
         /\ Disjoint(vec) /\ e \notin Linked
              => Disjoint(Add(vec, e, expires, m_qwLastTime))
<1>1. m_qwLastTime \in Int /\ vec \in [Slot -> SUBSET Elem]
  BY DEF TypeOK
<1> QED
  BY <1>1, AddKeeps DEF Linked

-----------------------------------------------------------------------------
(* The type invariant.                                                     *)
LEMMA TypeInit == Init => TypeOK
BY ModuleAssumption, BlankType, NoTimersType DEF Init, TypeOK

(* SetTimer and SetTimerCron keep the types.                               *)
LEMMA TypeRegister ==
  ASSUME TypeOK, NEW n \in Node, NEW id \in Id, NEW e \in Elem \ used,
         NEW r \in Element, Register(n, id, e, r)
  PROVE  TypeOK'
<1>1. Add(vec, e, r.next, m_qwLastTime) \in [Slot -> SUBSET Elem]
  <2>1. r.next \in Int
    BY DEF Element
  <2> QED
    BY <2>1, AddKeepsType
<1>2. Killed({map[n][id]}) \in [Elem -> Element]
  BY KilledType DEF TypeOK
<1>3. elem' \in [Elem -> Element]
  BY <1>2 DEF Register
<1>4. map' \in [Node -> [Id -> Elem \cup {NULL}]]
  BY DEF Register, TypeOK
<1> QED
  BY <1>1, <1>3, <1>4 DEF Register, TypeOK, timeVars

(* Copying timers from node to node keeps the types.                       *)
LEMMA TypeCopy ==
  ASSUME TypeOK, NEW n \in Node, NEW m \in Node,
         NEW before \in [Id -> Elem \cup {NULL}], NEW K,
         NEW ids \in SUBSET Registered(m), NEW new \in [ids -> Elem \ used],
         CopyElements(n, m, before, K, ids, new)
  PROVE  /\ used' \in SUBSET Elem
         /\ vec' \in [Slot -> SUBSET Elem]
         /\ elem' \in [Elem -> Element]
         /\ map' \in [Node -> [Id -> Elem \cup {NULL}]]
<1> DEFINE copies == {new[i] : i \in ids}
<1> DEFINE id(e) == CHOOSE i \in ids : new[i] = e
<1> DEFINE source(e) == elem[map[m][id(e)]]
<1> DEFINE killed == Killed(K \cup {before[i] : i \in ids})
<1>1. \A e \in copies : id(e) \in ids
  OBVIOUS
<1>2. \A e \in copies : source(e) \in Element
  BY <1>1 DEF Registered, TypeOK
<1>3. killed \in [Elem -> Element]
  BY KilledType DEF TypeOK
<1>4. /\ used' = used \cup copies
      /\ vec' = [s \in Slot |->
                   vec[s] \cup {e \in copies :
                                 SlotOf(source(e).next, m_qwLastTime) = s}]
      /\ elem' = [e \in Elem |->
                    IF e \in copies THEN [source(e) EXCEPT !.sink = n]
                                    ELSE killed[e]]
      /\ map' = [map EXCEPT ![n] = [i \in Id |-> IF i \in ids THEN new[i]
                                                             ELSE before[i]]]
  BY DEF CopyElements
<1>5. copies \subseteq Elem
  OBVIOUS
<1> HIDE DEF source, killed, copies
<1>6. \A e \in copies : [source(e) EXCEPT !.sink = n] \in Element
  BY <1>2 DEF Element
<1>7. elem' \in [Elem -> Element]
  BY <1>3, <1>4, <1>6
<1>8. /\ used' \in SUBSET Elem
      /\ vec' \in [Slot -> SUBSET Elem]
  BY <1>4, <1>5 DEF TypeOK
<1>9. map' \in [Node -> [Id -> Elem \cup {NULL}]]
  BY <1>4 DEF TypeOK
<1> QED
  BY <1>7, <1>8, <1>9

(* Cascading, in a state of the module.                                    *)
LEMMA CascadeKeepsType ==
  ASSUME TypeOK, Disjoint(vec)
  PROVE  /\ CascadeAll(vec, m_qwLastTime, NextOf) \in [Slot -> SUBSET Elem]
         /\ On(CascadeAll(vec, m_qwLastTime, NextOf)) = Linked
         /\ Disjoint(CascadeAll(vec, m_qwLastTime, NextOf))
<1>1. NextOf \in [Elem -> Int]
  BY DEF NextOf, TypeOK, Element
<1>2. m_qwLastTime \in Int /\ vec \in [Slot -> SUBSET Elem]
  BY DEF TypeOK
<1> QED
  BY <1>1, <1>2, CascadeAllKeeps DEF Linked

(* One step keeps the types, if the lists are disjoint.                    *)
LEMMA TypeUserStep ==
  ASSUME TypeOK, UserStep
  PROVE  TypeOK'
<1> PICK n \in Node :
      \/ Construct(n)
      \/ KillAll(n)
      \/ Destroy(n)
      \/ SetTimerCronThrows(n)
      \/ \E m \in Node : CopyFrom(n, m) \/ Assign(n, m) \/ CopyConstruct(n, m)
      \/ \E id \in Id :
           \/ KillTimer(n, id)
           \/ \E q \in Requests : SetTimer(n, id, q)
           \/ \E gap \in CronGaps : SetTimerCron(n, id, gap)
  BY DEF UserStep
<1>1. CASE Construct(n)
  BY <1>1 DEF Construct, TypeOK, timeVars, wheelVars
<1>2. CASE KillAll(n)
  <2>1. elem' \in [Elem -> Element]
    BY <1>2, KilledType DEF KillAll, TypeOK
  <2> QED
    BY <1>2, <2>1, NoTimersType DEF KillAll, TypeOK, timeVars, wheelVars
<1>3. CASE Destroy(n)
  <2>1. elem' \in [Elem -> Element]
    BY <1>3, KilledType DEF Destroy, TypeOK
  <2> QED
    BY <1>3, <2>1, NoTimersType DEF Destroy, TypeOK, timeVars, wheelVars
<1>4. CASE SetTimerCronThrows(n)
  BY <1>4 DEF SetTimerCronThrows, TypeOK, timeVars, wheelVars, nodeVars
<1>5. ASSUME NEW m \in Node,
             CopyFrom(n, m) \/ Assign(n, m) \/ CopyConstruct(n, m)
      PROVE  TypeOK'
  <2>1. PICK before, K : /\ before \in [Id -> Elem \cup {NULL}]
                         /\ CopyInto(n, m, before, K)
    <3>1. map[n] \in [Id -> Elem \cup {NULL}]
      BY DEF TypeOK
    <3> QED
      BY <1>5, <3>1, NoTimersType DEF CopyFrom, Assign, CopyConstruct
  <2>2. /\ used' \in SUBSET Elem
        /\ vec' \in [Slot -> SUBSET Elem]
        /\ elem' \in [Elem -> Element]
        /\ map' \in [Node -> [Id -> Elem \cup {NULL}]]
    BY <2>1, TypeCopy DEF CopyInto
  <2>3. /\ UNCHANGED <<pc, timeVars, work, current>>
        /\ alive' \in SUBSET Node
    BY <1>5 DEF CopyFrom, Assign, CopyConstruct, TypeOK
  <2> QED
    BY <2>2, <2>3 DEF TypeOK, timeVars
<1>6. ASSUME NEW id \in Id, KillTimer(n, id)
      PROVE  TypeOK'
  <2>1. elem' \in [Elem -> Element]
    BY <1>6, KilledType DEF KillTimer, TypeOK
  <2>2. map' \in [Node -> [Id -> Elem \cup {NULL}]]
    BY <1>6 DEF KillTimer, TypeOK
  <2> QED
    BY <1>6, <2>1, <2>2 DEF KillTimer, TypeOK, timeVars, wheelVars
<1>7. ASSUME NEW id \in Id,
             \/ \E q \in Requests : SetTimer(n, id, q)
             \/ \E gap \in CronGaps : SetTimerCron(n, id, gap)
      PROVE  TypeOK'
  <2>1. now \in Nat
    BY DEF TypeOK
  <2>2. \E e \in Elem \ used, r \in Element : Register(n, id, e, r)
    BY <1>7, <2>1, NewTimerType DEF SetTimer, SetTimerCron
  <2> QED
    BY <2>2, TypeRegister
<1> QED
  BY <1>1, <1>2, <1>3, <1>4, <1>5, <1>6, <1>7

(* The steps of Run keep the types.                                        *)
LEMMA TypeRunStep ==
  ASSUME TypeOK, Disjoint(vec), RunBegin \/ RunStep
  PROVE  TypeOK'
<1>1. CASE RunBegin
  BY <1>1 DEF RunBegin, TypeOK, wheelVars, nodeVars
<1>2. CASE ProcessTick
  <2>1. /\ work' \in SUBSET Elem
        /\ vec' \in [Slot -> SUBSET Elem]
    <3> DEFINE v == CascadeAll(vec, m_qwLastTime, NextOf)
    <3> DEFINE slot == <<1, Index(1, m_qwLastTime)>>
    <3>1. v \in [Slot -> SUBSET Elem]
      BY CascadeKeepsType
    <3>2. slot \in Slot
      BY IndexRange DEF TypeOK, Slot, Level, Width
    <3>3. work' = v[slot] /\ vec' = [v EXCEPT ![slot] = {}]
      BY <1>2 DEF ProcessTick
    <3> HIDE DEF v, slot
    <3> QED
      BY <3>1, <3>2, <3>3
  <2> QED
    BY <1>2, <2>1 DEF ProcessTick, TypeOK, timeVars, nodeVars
<1>3. ASSUME NEW e \in Elem, ReleaseErased(e)
      PROVE  TypeOK'
  BY <1>3, BlankType DEF ReleaseErased, Release, TypeOK, timeVars, nodeVars
<1>4. ASSUME NEW e \in Elem, Fire(e)
      PROVE  TypeOK'
  BY <1>4 DEF Fire, TypeOK, timeVars, nodeVars
<1>5. CASE NextTick
  BY <1>5 DEF NextTick, TypeOK, wheelVars, nodeVars
<1>6. CASE RunReturn
  BY <1>6 DEF RunReturn, TypeOK, timeVars, wheelVars, nodeVars
<1> QED
  BY <1>1, <1>2, <1>3, <1>4, <1>5, <1>6 DEF RunStep

(* A callback that returns or throws keeps the types.                      *)
LEMMA TypeCallbackReturn ==
  ASSUME TypeOK, CallbackReturn, current \in Elem
  PROVE  TypeOK'
<1>1. CASE ReturnErased
  BY <1>1, BlankType DEF ReturnErased, Release, TypeOK, timeVars, nodeVars
<1>2. ASSUME NEW gap \in Int, Reschedule(gap)
      PROVE  TypeOK'
  <2> DEFINE next == Successor(elem[current], gap)
  <2>1. elem[current] \in Element
    BY DEF TypeOK
  <2>2. next \in Int
    BY <2>1, SuccessorType DEF TypeOK
  <2> HIDE DEF next
  <2>3. Add(vec, current, next, m_qwLastTime) \in [Slot -> SUBSET Elem]
    BY <2>2, AddKeepsType
  <2>4. [elem[current] EXCEPT !.next = next] \in Element
    BY <2>1, <2>2 DEF Element
  <2>5. elem' = [elem EXCEPT ![current] = [elem[current] EXCEPT !.next = next]]
    BY <1>2 DEF Reschedule, next
  <2>6. elem' \in [Elem -> Element]
    BY <2>4, <2>5 DEF TypeOK
  <2>7. vec' \in [Slot -> SUBSET Elem]
    BY <1>2, <2>3 DEF Reschedule, next
  <2> QED
    BY <1>2, <2>6, <2>7 DEF Reschedule, TypeOK, timeVars, nodeVars
<1>3. CASE ThrowFromCallback
  BY <1>3 DEF ThrowFromCallback, TypeOK, timeVars, nodeVars
<1>4. CronGaps \cup {0} \subseteq Int
  BY ModuleAssumption
<1> QED
  BY <1>1, <1>2, <1>3, <1>4 DEF CallbackReturn

(* Every step keeps the types.                                             *)
LEMMA TypeNext ==
  ASSUME TypeOK, Ownership, [Next]_vars
  PROVE  TypeOK'
<1>1. Disjoint(vec)
  BY DEF Ownership
<1>2. CASE Elapse
  BY <1>2 DEF Elapse, TypeOK, wheelVars, nodeVars
<1>3. CASE CallbackReturn
  <2>1. current \in Elem
    BY <1>3 DEF CallbackReturn, Ownership, TypeOK
  <2> QED
    BY <1>3, <2>1, TypeCallbackReturn
<1>4. CASE Shutdown
  <2>1. elem' \in [Elem -> Element]
    BY <1>4, BlankType DEF Shutdown, TypeOK
  <2> QED
    BY <1>4, <2>1 DEF Shutdown, TypeOK, timeVars, nodeVars
<1>5. CASE UNCHANGED vars
  BY <1>5 DEF vars, TypeOK, timeVars, wheelVars, nodeVars
<1> QED
  BY <1>1, <1>2, <1>3, <1>4, <1>5, TypeUserStep, TypeRunStep DEF Next

-----------------------------------------------------------------------------
(* Ownership: elements are on the lists as they should be.                 *)
LEMMA OwnershipInit == Init => Ownership
<1> SUFFICES ASSUME Init PROVE Ownership
  OBVIOUS
<1>1. \A s \in Slot : vec[s] = {}
  BY DEF Init
<1>2. Linked = {} /\ Disjoint(vec)
  BY <1>1 DEF Linked, On, Disjoint
<1> QED
  BY <1>2 DEF Init, Ownership, Owned

(* A step that moves no element and releases none.                         *)
LEMMA OwnershipStays ==
  ASSUME Ownership, UNCHANGED <<pc, vec, work, current>>, used \subseteq used'
  PROVE  Ownership'
BY DEF Ownership, Owned, Linked

(* A step that puts fetched elements on lists of the wheel.                *)
LEMMA OwnershipAdds ==
  ASSUME Ownership, UNCHANGED <<pc, work, current>>,
         NEW E \in SUBSET Elem, E \cap used = {}, used' = used \cup E,
         On(vec') = Linked \cup E, Disjoint(vec')
  PROVE  Ownership'
<1>1. Linked' = Linked \cup E
  BY DEF Linked
<1>2. Owned' = Owned \cup E
  BY <1>1 DEF Owned
<1>3. E \cap Owned = {}
  BY DEF Ownership
<1>4. current \notin E
  BY <1>3, ModuleAssumption DEF Owned
<1>5. /\ Owned' \subseteq used'
      /\ work' \cap Linked' = {}
      /\ current' \notin Linked' \cup work'
  BY <1>1, <1>2, <1>3, <1>4 DEF Ownership, Owned
<1> QED
  BY <1>5 DEF Ownership

(* A timer that is set: its fetched element goes on one list.              *)
LEMMA OwnershipRegister ==
  ASSUME TypeOK, Ownership, NEW n \in Node, NEW id \in Id,
         NEW e \in Elem \ used, NEW r \in Element, Register(n, id, e, r)
  PROVE  Ownership'
<1>1. r.next \in Int
  BY DEF Element
<1>2. Disjoint(vec) /\ e \notin Linked
  BY DEF Ownership, Owned
<1>3. On(vec') = Linked \cup {e} /\ Disjoint(vec')
  BY <1>1, <1>2, AddKeepsType DEF Register
<1>4. /\ UNCHANGED <<pc, work, current>>
      /\ {e} \cap used = {}
      /\ used' = used \cup {e}
  BY DEF Register
<1> QED
  BY <1>3, <1>4, OwnershipAdds

(* What CopyElements does to the lists.                                    *)
LEMMA CopyAdds ==
  ASSUME TypeOK, Ownership, NEW n \in Node, NEW m \in Node, NEW before, NEW K,
         NEW ids \in SUBSET Registered(m), NEW new \in [ids -> Elem \ used],
         CopyElements(n, m, before, K, ids, new)
  PROVE  /\ On(vec') = Linked \cup {new[i] : i \in ids}
         /\ Disjoint(vec')
<1> DEFINE copies == {new[i] : i \in ids}
<1> DEFINE to(e) == SlotOf(elem[map[m][CHOOSE i \in ids : new[i] = e]].next,
                           m_qwLastTime)
<1>1. vec' = [s \in Slot |-> vec[s] \cup {e \in copies : to(e) = s}]
  BY DEF CopyElements
<1>2. \A e \in copies : to(e) \in Slot
  <2> SUFFICES ASSUME NEW e \in copies
               PROVE  to(e) \in Slot
    OBVIOUS
  <2> DEFINE i == CHOOSE i \in ids : new[i] = e
  <2>1. i \in ids
    OBVIOUS
  <2> HIDE DEF i
  <2>2. elem[map[m][i]] \in Element
    BY <2>1 DEF Registered, TypeOK
  <2>3. elem[map[m][i]].next \in Int /\ m_qwLastTime \in Int
    BY <2>2 DEF Element, TypeOK
  <2> QED
    BY <2>3, SlotOfType DEF i
<1>3. copies \cap Linked = {}
  BY DEF Ownership, Owned
<1> HIDE DEF copies, to
<1>4. On(vec') = Linked \cup copies
  BY <1>1, <1>2 DEF On, Linked
<1>5. Disjoint(vec')
  BY <1>1, <1>3 DEF On, Linked, Disjoint, Ownership
<1> QED
  BY <1>4, <1>5 DEF copies

(* The calls of the API keep Ownership.                                    *)
LEMMA OwnershipUserStep ==
  ASSUME TypeOK, Ownership, UserStep
  PROVE  Ownership'
<1> PICK n \in Node :
      \/ Construct(n)
      \/ KillAll(n)
      \/ Destroy(n)
      \/ SetTimerCronThrows(n)
      \/ \E m \in Node : CopyFrom(n, m) \/ Assign(n, m) \/ CopyConstruct(n, m)
      \/ \E id \in Id :
           \/ KillTimer(n, id)
           \/ \E q \in Requests : SetTimer(n, id, q)
           \/ \E gap \in CronGaps : SetTimerCron(n, id, gap)
  BY DEF UserStep
<1>1. CASE \/ Construct(n)
           \/ KillAll(n)
           \/ Destroy(n)
           \/ SetTimerCronThrows(n)
           \/ \E id \in Id : KillTimer(n, id)
  BY <1>1, OwnershipStays
     DEF Construct, KillAll, Destroy, SetTimerCronThrows, KillTimer, wheelVars
<1>2. ASSUME NEW m \in Node,
             CopyFrom(n, m) \/ Assign(n, m) \/ CopyConstruct(n, m)
      PROVE  Ownership'
  <2>1. PICK before, K : CopyInto(n, m, before, K)
    BY <1>2 DEF CopyFrom, Assign, CopyConstruct
  <2>2. PICK ids \in SUBSET Registered(m) :
          \E new \in [ids -> Elem \ used] : CopyElements(n, m, before, K, ids, new)
    BY <2>1 DEF CopyInto
  <2>3. PICK new \in [ids -> Elem \ used] : CopyElements(n, m, before, K, ids, new)
    BY <2>2
  <2> DEFINE copies == {new[i] : i \in ids}
  <2>4. On(vec') = Linked \cup copies /\ Disjoint(vec')
    BY <2>3, CopyAdds
  <2>5. used' = used \cup copies
    BY <2>3 DEF CopyElements
  <2>6. copies \in SUBSET Elem /\ copies \cap used = {}
    OBVIOUS
  <2>7. UNCHANGED <<pc, work, current>>
    BY <1>2 DEF CopyFrom, Assign, CopyConstruct
  <2> HIDE DEF copies
  <2> QED
    BY <2>4, <2>5, <2>6, <2>7, OwnershipAdds
<1>3. ASSUME NEW id \in Id,
             \/ \E q \in Requests : SetTimer(n, id, q)
             \/ \E gap \in CronGaps : SetTimerCron(n, id, gap)
      PROVE  Ownership'
  <2>1. now \in Nat
    BY DEF TypeOK
  <2>2. \E e \in Elem \ used, r \in Element : Register(n, id, e, r)
    BY <1>3, <2>1, NewTimerType DEF SetTimer, SetTimerCron
  <2> QED
    BY <2>2, OwnershipRegister
<1> QED
  BY <1>1, <1>2, <1>3

(* The steps of Run keep Ownership.                                        *)
LEMMA OwnershipRunStep ==
  ASSUME TypeOK, Ownership, RunBegin \/ RunStep
  PROVE  Ownership'
<1>1. CASE RunBegin \/ NextTick \/ RunReturn
  BY <1>1 DEF RunBegin, NextTick, RunReturn, timeVars, wheelVars,
              Ownership, Owned, Linked
<1>2. CASE ProcessTick
  <2> DEFINE v == CascadeAll(vec, m_qwLastTime, NextOf)
  <2> DEFINE slot == <<1, Index(1, m_qwLastTime)>>
  <2>1. v \in [Slot -> SUBSET Elem] /\ On(v) = Linked /\ Disjoint(v)
    BY CascadeKeepsType DEF Ownership
  <2>2. slot \in Slot
    BY IndexRange DEF TypeOK, Slot, Level, Width
  <2>3. /\ work' = v[slot]
        /\ vec' = [v EXCEPT ![slot] = {}]
        /\ pc = "loop" /\ pc' = "drain"
        /\ current' = current /\ used' = used
    BY <1>2 DEF ProcessTick
  <2> HIDE DEF v, slot
  <2>4. Disjoint(vec') /\ work' \cap On(vec') = {}
    BY <2>1, <2>2, <2>3 DEF Disjoint, On
  <2>5. On(vec') \cup work' = Linked
    BY <2>1, <2>2, <2>3 DEF On
  <2> QED
    BY <2>3, <2>4, <2>5 DEF Ownership, Owned, Linked
<1>3. ASSUME NEW e \in Elem, ReleaseErased(e)
      PROVE  Ownership'
  BY <1>3 DEF ReleaseErased, Release, Ownership, Owned, Linked
<1>4. ASSUME NEW e \in Elem, Fire(e)
      PROVE  Ownership'
  <2>1. e # NULL
    BY ModuleAssumption
  <2> QED
    BY <1>4, <2>1 DEF Fire, Ownership, Owned, Linked
<1> QED
  BY <1>1, <1>2, <1>3, <1>4 DEF RunStep

(* A callback that returns or throws keeps Ownership.                      *)
LEMMA OwnershipCallbackReturn ==
  ASSUME TypeOK, Ownership, CallbackReturn
  PROVE  Ownership'
<1>0. current \in Elem /\ current # NULL /\ current \notin Linked \cup work
  BY DEF CallbackReturn, Ownership, TypeOK
<1>5. NULL \notin used
  BY ModuleAssumption DEF TypeOK
<1>1. CASE ReturnErased
  <2>1. NULL \notin Linked \cup work
    BY <1>5 DEF Ownership, Owned
  <2> QED
    BY <1>0, <1>1, <2>1 DEF ReturnErased, Release, Ownership, Owned, Linked
<1>2. ASSUME NEW gap \in Int, Reschedule(gap)
      PROVE  Ownership'
  <2> DEFINE next == Successor(elem[current], gap)
  <2>1. next \in Int
    BY <1>0, SuccessorType DEF TypeOK
  <2>2. vec' = Add(vec, current, next, m_qwLastTime)
    BY <1>2 DEF Reschedule
  <2> HIDE DEF next
  <2>3. Linked' = Linked \cup {current} /\ Disjoint(vec')
    BY <1>0, <2>1, <2>2, AddKeepsType DEF Ownership, Linked
  <2>4. /\ pc' = "drain" /\ current' = NULL
        /\ work' = work /\ used' = used
    BY <1>2 DEF Reschedule
  <2>5. NULL \notin Linked' \cup work'
    <3>1. Linked' \cup work' \subseteq used
      BY <1>0, <2>3, <2>4 DEF Ownership, Owned
    <3> QED
      BY <1>5, <3>1
  <2> QED
    BY <1>0, <2>3, <2>4, <2>5 DEF Ownership, Owned
<1>3. CASE ThrowFromCallback
  <2>1. NULL \notin Linked
    BY <1>5 DEF Ownership, Owned
  <2> QED
    BY <1>3, <2>1 DEF ThrowFromCallback, Ownership, Owned, Linked
<1>4. CronGaps \cup {0} \subseteq Int
  BY ModuleAssumption
<1> QED
  BY <1>1, <1>2, <1>3, <1>4 DEF CallbackReturn

(* Every step keeps Ownership.                                             *)
LEMMA OwnershipNext ==
  ASSUME TypeOK, Ownership, [Next]_vars
  PROVE  Ownership'
<1>1. CASE Elapse
  BY <1>1, OwnershipStays DEF Elapse, wheelVars
<1>2. CASE Shutdown
  <2>1. vec' = [s \in Slot |-> {}]
    BY <1>2 DEF Shutdown
  <2>2. Linked' = {} /\ Disjoint(vec')
    BY <2>1 DEF Linked, On, Disjoint
  <2> QED
    BY <1>2, <2>2 DEF Shutdown, Ownership, Owned
<1>3. CASE UNCHANGED vars
  BY <1>3, OwnershipStays DEF vars, wheelVars
<1> QED
  BY <1>1, <1>2, <1>3, OwnershipUserStep, OwnershipRunStep,
     OwnershipCallbackReturn DEF Next

(* The two invariants need each other: an element goes back on the wheel   *)
(* only from a callback, and there current is an element.                  *)
THEOREM OwnershipHolds == Spec => [](TypeOK /\ Ownership)
<1>1. Init => TypeOK /\ Ownership
  BY TypeInit, OwnershipInit
<1>2. TypeOK /\ Ownership /\ [Next]_vars => (TypeOK /\ Ownership)'
  BY TypeNext, OwnershipNext
<1> QED
  BY <1>1, <1>2, PTL DEF Spec

-----------------------------------------------------------------------------
(* Registration: nodes and elements agree on what is registered.           *)
Registration == RegisteredIsLive /\ LiveIsRegistered

(* At the start nothing is registered and nothing is linked.               *)
LEMMA RegistrationInit == Init => Registration
<1> SUFFICES ASSUME Init PROVE Registration
  OBVIOUS
<1>1. \A n \in Node : Registered(n) = {}
  BY DEF Init, Registered, NoTimers
<1>2. Owned = {}
  BY DEF Init, Owned, Linked, On
<1> QED
  BY <1>1, <1>2 DEF Registration, RegisteredIsLive, LiveIsRegistered

(* A step that registers nothing, kills nothing and releases nothing.      *)
LEMMA RegistrationStays ==
  ASSUME TypeOK, Ownership, Registration, pc # "down",
         used \subseteq used', alive \subseteq alive', map' = map,
         Owned' \subseteq Owned,
         \A e \in Elem : /\ elem'[e].sink = elem[e].sink
                        /\ elem'[e].id = elem[e].id
                        /\ elem'[e].erased = elem[e].erased
  PROVE  Registration'
<1>1. \A n \in Node : Registered(n)' = Registered(n)
  BY DEF Registered
<1>2. \A n \in Node : \A i \in Registered(n) : i \in Id /\ map[n][i] \in Elem
  BY DEF Registered, TypeOK
<1>3. RegisteredIsLive'
  BY <1>1, <1>2 DEF Registration, RegisteredIsLive
<1>4. Owned \subseteq Elem
  BY DEF Ownership, TypeOK
<1>5. LiveIsRegistered'
  BY <1>4 DEF Registration, LiveIsRegistered
<1> QED
  BY <1>3, <1>5 DEF Registration

(* A step that releases a killed element.                                  *)
LEMMA RegistrationReleases ==
  ASSUME TypeOK, Ownership, Registration, pc # "down",
         NEW e \in Elem, elem[e].erased, Release(e), UNCHANGED nodeVars,
         Owned' \subseteq Owned \ {e}
  PROVE  Registration'
<1>1. \A f \in Elem : f # e => elem'[f] = elem[f]
  BY DEF Release, TypeOK
<1>2. map' = map /\ alive' = alive
  BY DEF nodeVars
<1>3. \A n \in Node : \A i \in Registered(n) :
        i \in Id /\ map[n][i] \in Elem /\ map[n][i] # e
  BY DEF Registered, TypeOK, Registration, RegisteredIsLive
<1>4. \A n \in Node : Registered(n)' = Registered(n)
  BY <1>2 DEF Registered
<1>5. used' = used \ {e}
  BY DEF Release
<1>6. RegisteredIsLive'
  BY <1>1, <1>2, <1>3, <1>4, <1>5 DEF Registration, RegisteredIsLive
<1>7. Owned \subseteq Elem
  BY DEF Ownership, TypeOK
<1>8. LiveIsRegistered'
  BY <1>1, <1>2, <1>7 DEF Registration, LiveIsRegistered
<1> QED
  BY <1>6, <1>8 DEF Registration

(* A step that kills the timers of node n with the ids in I.               *)
Kills(n, I) ==
  /\ elem' = Killed({map[n][i] : i \in I})
  /\ map' = [map EXCEPT ![n] = [i \in Id |-> IF i \in I THEN NULL
                                                     ELSE map[n][i]]]
  /\ alive' = alive \/ (alive' = alive \ {n} /\ I = Registered(n))
  /\ used' = used
  /\ Owned' = Owned

(* Timers of one node killed and taken out of its map together.            *)
LEMMA RegistrationKills ==
  ASSUME TypeOK, Ownership, Registration, pc # "down",
         NEW n \in Node, NEW I \in SUBSET Registered(n), Kills(n, I)
  PROVE  Registration'
<1> DEFINE K == {map[n][i] : i \in I}
<1>0. elem' = Killed(K)
  BY DEF Kills
<1> HIDE DEF K
<1>1. \A e \in Elem : e \notin K => elem'[e] = elem[e]
  BY <1>0, KilledMarks DEF TypeOK
<1>2. \A e \in Elem : e \in K => elem'[e].erased
  BY <1>0, KilledMarks DEF TypeOK
<1>3. \A e \in K : \E i \in I : e = map[n][i]
  BY DEF K
<1>4. \A m \in Node, i \in Id :
        map'[m][i] = IF m = n /\ i \in I THEN NULL ELSE map[m][i]
  BY DEF Kills, TypeOK
<1>5. \A m \in Node : \A i \in Registered(m) :
        /\ i \in Id
        /\ map[m][i] \in used
        /\ map[m][i] \in Elem
        /\ ~elem[map[m][i]].erased
        /\ elem[map[m][i]].sink = m
        /\ elem[map[m][i]].id = i
        /\ m \in alive
  BY DEF Registered, TypeOK, Registration, RegisteredIsLive
<1>6. \A m \in Node : \A i \in Registered(m) :
        ~(m = n /\ i \in I) => map[m][i] \notin K
  BY <1>3, <1>5
<1>7. \A m \in Node : \A i \in Registered(m)' :
        i \in Registered(m) /\ ~(m = n /\ i \in I) /\ map'[m][i] = map[m][i]
  BY <1>4 DEF Registered
<1>8. \A m \in Node : \A i \in Registered(m)' : m \in alive'
  BY <1>5, <1>7 DEF Kills
<1>9. RegisteredIsLive'
  <2> SUFFICES ASSUME NEW m \in Node, NEW i \in Id, map'[m][i] # NULL
               PROVE  /\ m \in alive'
                      /\ map'[m][i] \in used'
                      /\ ~elem'[map'[m][i]].erased
                      /\ elem'[map'[m][i]].sink = m
                      /\ elem'[map'[m][i]].id = i
    BY DEF RegisteredIsLive, Registered
  <2>0. i \in Registered(m)'
    BY DEF Registered
  <2>1. i \in Registered(m) /\ map'[m][i] = map[m][i]
    BY <1>7, <2>0
  <2>2. elem'[map[m][i]] = elem[map[m][i]]
    BY <1>1, <1>5, <1>6, <1>7, <2>0
  <2>3. m \in alive'
    BY <1>8, <2>0
  <2>4. used' = used
    BY DEF Kills
  <2> QED
    BY <1>5, <2>1, <2>2, <2>3, <2>4
<1>10. LiveIsRegistered'
  <2> SUFFICES ASSUME NEW e \in Owned, ~elem'[e].erased
               PROVE  /\ elem'[e].sink \in alive'
                      /\ elem'[e].id \in Id
                      /\ map'[elem'[e].sink][elem'[e].id] = e
    BY DEF LiveIsRegistered, Kills
  <2>1. e \in Elem
    BY DEF Ownership, TypeOK
  <2>2. e \notin K /\ elem'[e] = elem[e]
    BY <1>1, <1>2, <2>1
  <2> DEFINE m == elem[e].sink
  <2> DEFINE i == elem[e].id
  <2>3. m \in alive /\ i \in Id /\ map[m][i] = e
    BY <2>2 DEF Registration, LiveIsRegistered
  <2>4. m \in Node /\ i \in Registered(m)
    BY <2>1, <2>3, ModuleAssumption DEF TypeOK, Registered
  <2>5. ~(m = n /\ i \in I)
    BY <2>2, <2>3 DEF K
  <2> HIDE DEF m, i
  <2>6. map'[m][i] = e
    BY <1>4, <2>3, <2>4, <2>5
  <2>7. m \in alive'
    BY <2>3, <2>4, <2>5 DEF Kills
  <2> QED
    BY <2>2, <2>3, <2>6, <2>7 DEF m, i
<1> QED
  BY <1>9, <1>10 DEF Registration

(* A step that registers, with node n and under the ids in ids, the        *)
(* elements new[i], fetched for it.  Of the timers n had, those that are   *)
(* not in "before" are killed, and so are those under an id in ids.        *)
Registers(n, before, K, ids, new) ==
  /\ \A i \in Id : \/ before[i] = map[n][i]
                   \/ before[i] = NULL /\ map[n][i] \in K
  /\ \A e \in K : \E i \in Registered(n) : e = map[n][i] /\ before[i] = NULL
  /\ \A i \in ids : /\ elem'[new[i]].sink = n
                    /\ elem'[new[i]].id = i
                    /\ ~elem'[new[i]].erased
  /\ \A e \in Elem : (\A i \in ids : new[i] # e) =>
        elem'[e] = Killed(K \cup {before[i] : i \in ids})[e]
  /\ map' = [map EXCEPT ![n] = [i \in Id |-> IF i \in ids THEN new[i]
                                                       ELSE before[i]]]
  /\ alive \subseteq alive' /\ n \in alive'
  /\ used' = used \cup {new[i] : i \in ids}
  /\ Owned' \subseteq Owned \cup {new[i] : i \in ids}

(* Timers registered on fetched elements, what they replace killed.        *)
LEMMA RegistrationAdds ==
  ASSUME TypeOK, Ownership, Registration, pc # "down",
         NEW n \in Node, NEW before, NEW K,
         NEW ids \in SUBSET Id, NEW new \in [ids -> Elem \ used],
         Registers(n, before, K, ids, new)
  PROVE  Registration'
<1> USE DEF Registers
<1> DEFINE X == K \cup {before[i] : i \in ids}
<1>1. \A e \in used : e \in Elem /\ elem'[e] = Killed(X)[e]
  <2> SUFFICES ASSUME NEW e \in used
               PROVE  e \in Elem /\ \A i \in ids : new[i] # e
    OBVIOUS
  <2> QED
    BY DEF TypeOK
<1> HIDE DEF X
<1>2. \A e \in used : e \notin X => elem'[e] = elem[e]
  BY <1>1, KilledMarks DEF TypeOK
<1>3. \A e \in used : e \in X => elem'[e].erased
  BY <1>1, KilledMarks DEF TypeOK
<1>4. \A m \in Node, i \in Id :
        map'[m][i] = IF m # n THEN map[m][i]
                     ELSE IF i \in ids THEN new[i] ELSE before[i]
  BY DEF TypeOK
<1>5. \A m \in Node : \A i \in Registered(m) :
        /\ i \in Id
        /\ map[m][i] \in used
        /\ map[m][i] \in Elem
        /\ ~elem[map[m][i]].erased
        /\ elem[map[m][i]].sink = m
        /\ elem[map[m][i]].id = i
        /\ m \in alive
  BY DEF Registered, TypeOK, Registration, RegisteredIsLive
(* What is killed was registered with n, under an id that changes.         *)
<1>6. \A e \in X : e # NULL =>
        \E i \in Registered(n) : e = map[n][i] /\ (before[i] = NULL \/ i \in ids)
  <2> SUFFICES ASSUME NEW i \in ids, before[i] # NULL
               PROVE  before[i] = map[n][i] /\ i \in Registered(n)
    BY DEF X
  <2> QED
    BY DEF Registered
<1>7. RegisteredIsLive'
  <2> SUFFICES ASSUME NEW m \in Node, NEW i \in Id, map'[m][i] # NULL
               PROVE  /\ m \in alive'
                      /\ map'[m][i] \in used'
                      /\ ~elem'[map'[m][i]].erased
                      /\ elem'[map'[m][i]].sink = m
                      /\ elem'[map'[m][i]].id = i
    BY DEF RegisteredIsLive, Registered
  <2>1. CASE m = n /\ i \in ids
    BY <1>4, <2>1
  <2>2. CASE ~(m = n /\ i \in ids)
    <3>1. /\ map'[m][i] = map[m][i]
          /\ i \in Registered(m)
          /\ m = n => before[i] # NULL
      BY <1>4, <2>2 DEF Registered
    <3>2. map[m][i] \notin X
      <4> SUFFICES ASSUME map[m][i] \in X
                   PROVE  FALSE
        OBVIOUS
      <4>1. PICK j \in Registered(n) :
              map[m][i] = map[n][j] /\ (before[j] = NULL \/ j \in ids)
        BY <1>6, <3>1 DEF Registered
      <4>2. m = n /\ i = j
        BY <1>5, <3>1, <4>1
      <4> QED
        BY <2>2, <3>1, <4>1, <4>2
    <3>3. elem'[map[m][i]] = elem[map[m][i]]
      BY <1>2, <1>5, <3>1, <3>2
    <3> QED
      BY <1>5, <3>1, <3>3
  <2> QED
    BY <2>1, <2>2
<1>8. LiveIsRegistered'
  <2> SUFFICES ASSUME NEW e \in Owned', ~elem'[e].erased
               PROVE  /\ elem'[e].sink \in alive'
                      /\ elem'[e].id \in Id
                      /\ map'[elem'[e].sink][elem'[e].id] = e
    BY DEF LiveIsRegistered
  <2>1. CASE \E i \in ids : e = new[i]
    BY <1>4, <2>1
  <2>2. CASE ~(\E i \in ids : e = new[i])
    <3>1. e \in Owned /\ e \in used
      BY <2>2 DEF Ownership
    <3>2. e \notin X /\ elem'[e] = elem[e]
      BY <1>2, <1>3, <3>1
    <3> DEFINE m == elem[e].sink
    <3> DEFINE i == elem[e].id
    <3>3. m \in alive /\ m \in Node /\ i \in Id /\ map[m][i] = e
      BY <3>1, <3>2 DEF Registration, LiveIsRegistered, TypeOK
    <3> HIDE DEF m, i
    <3>4. map'[m][i] = e
      <4>1. CASE m # n
        BY <1>4, <3>3, <4>1
      <4>2. CASE m = n
        <5>1. before[i] = e
          BY <3>2, <3>3, <4>2 DEF X
        <5>2. i \notin ids
          BY <3>2, <5>1 DEF X
        <5> QED
          BY <1>4, <3>3, <4>2, <5>1, <5>2
      <4> QED
        BY <4>1, <4>2
    <3> QED
      BY <3>2, <3>3, <3>4 DEF m, i
  <2> QED
    BY <2>1, <2>2
<1> QED
  BY <1>7, <1>8 DEF Registration

(* Setting a timer is such a registration of one id.                       *)
LEMMA RegistrationRegister ==
  ASSUME TypeOK, Ownership, Registration, pc # "down",
         NEW n \in Node, NEW id \in Id, n \in alive, NEW e \in Elem \ used,
         NEW r \in Element, r.sink = n, r.id = id, ~r.erased,
         Register(n, id, e, r)
  PROVE  Registration'
<1> DEFINE before == map[n]
<1> DEFINE ids == {id}
<1> DEFINE new == [i \in ids |-> e]
<1>1. {} \cup {before[i] : i \in ids} = {map[n][id]} /\ {new[i] : i \in ids} = {e}
  OBVIOUS
<1>2. elem'[e] = r /\ \A f \in Elem : f # e => elem'[f] = Killed({map[n][id]})[f]
  BY DEF Register, Killed
<1>3. map' = [map EXCEPT ![n] = [i \in Id |-> IF i \in ids THEN new[i]
                                                      ELSE before[i]]]
  <2>1. [map[n] EXCEPT ![id] = e]
          = [i \in Id |-> IF i \in ids THEN new[i] ELSE before[i]]
    BY DEF TypeOK
  <2>2. map' = [map EXCEPT ![n] = [map[n] EXCEPT ![id] = e]]
    BY DEF Register
  <2> QED
    BY <2>1, <2>2
<1>4. Owned' \subseteq Owned \cup {e}
  <2>1. r.next \in Int
    BY DEF Element
  <2>2. Linked' = Linked \cup {e}
    BY <2>1, AddKeepsType DEF Register, Linked
  <2> QED
    BY <2>2 DEF Register, Owned
<1>5. used' = used \cup {e} /\ alive' = alive
  BY DEF Register
<1>6. ids \in SUBSET Id /\ new \in [ids -> Elem \ used]
  OBVIOUS
<1>7. \A i \in Id : before[i] = map[n][i]
  OBVIOUS
<1>8. \A i \in ids : new[i] = e /\ i = id
  OBVIOUS
<1>9. \A f \in Elem : (\A i \in ids : new[i] # f) => f # e
  OBVIOUS
<1>10. \A f \in Elem : (\A i \in ids : new[i] # f) =>
          elem'[f] = Killed({} \cup {before[i] : i \in ids})[f]
  BY <1>1, <1>2, <1>9
<1>11. \A i \in ids : /\ elem'[new[i]].sink = n
                      /\ elem'[new[i]].id = i
                      /\ ~elem'[new[i]].erased
  BY <1>2, <1>8
<1>12. /\ used' = used \cup {new[i] : i \in ids}
       /\ Owned' \subseteq Owned \cup {new[i] : i \in ids}
       /\ alive \subseteq alive' /\ n \in alive'
  BY <1>1, <1>4, <1>5
<1>13. \A f \in {} : \E i \in Registered(n) : f = map[n][i] /\ before[i] = NULL
  OBVIOUS
<1> HIDE DEF before, ids, new
<1>14. Registers(n, before, {}, ids, new)
  BY <1>3, <1>7, <1>10, <1>11, <1>12, <1>13 DEF Registers
<1> QED
  BY <1>6, <1>14, RegistrationAdds

(* Copying to n, whose timers are kept (CopyFrom) or all killed            *)
(* (assignment), or which has none (copy constructor).                     *)
LEMMA RegistrationCopy ==
  ASSUME TypeOK, Ownership, Registration, pc # "down",
         NEW n \in Node, NEW m \in Node, NEW before, NEW K,
         \/ before = map[n] /\ K = {}
         \/ before = NoTimers /\ K = ElementsOf(n),
         CopyInto(n, m, before, K),
         UNCHANGED <<work, current>>,
         alive \subseteq alive', n \in alive'
  PROVE  Registration'
<1>1. PICK ids \in SUBSET Registered(m) :
        \E new \in [ids -> Elem \ used] : CopyElements(n, m, before, K, ids, new)
  BY DEF CopyInto
<1>2. PICK new \in [ids -> Elem \ used] : CopyElements(n, m, before, K, ids, new)
  BY <1>1
<1> DEFINE copies == {new[i] : i \in ids}
<1> DEFINE id(e) == CHOOSE i \in ids : new[i] = e
<1> DEFINE source(e) == elem[map[m][id(e)]]
<1> DEFINE killed == Killed(K \cup {before[i] : i \in ids})
<1>3. /\ \A i, j \in ids : new[i] = new[j] => i = j
      /\ used' = used \cup copies
      /\ elem' = [e \in Elem |->
                    IF e \in copies THEN [source(e) EXCEPT !.sink = n]
                                    ELSE killed[e]]
      /\ map' = [map EXCEPT ![n] = [i \in Id |-> IF i \in ids THEN new[i]
                                                             ELSE before[i]]]
  BY <1>2 DEF CopyElements
<1>4. ids \subseteq Id /\ \A i \in ids : i \in Registered(m)
  BY DEF Registered
<1>5. \A i \in ids : elem'[new[i]] = [elem[map[m][i]] EXCEPT !.sink = n]
  <2> SUFFICES ASSUME NEW i \in ids
               PROVE  elem'[new[i]] = [elem[map[m][i]] EXCEPT !.sink = n]
    OBVIOUS
  <2>1. id(new[i]) = i
    BY <1>3
  <2>2. new[i] \in Elem /\ new[i] \in copies
    OBVIOUS
  <2>3. elem'[new[i]] = [source(new[i]) EXCEPT !.sink = n]
    BY <1>3, <2>2
  <2> HIDE DEF id
  <2> QED
    BY <2>1, <2>3
<1>6. \A i \in ids : /\ elem[map[m][i]] \in Element
                     /\ elem[map[m][i]].id = i
                     /\ ~elem[map[m][i]].erased
  BY <1>4 DEF Registered, TypeOK, Registration, RegisteredIsLive
<1>7. \A i \in ids : /\ elem'[new[i]].sink = n
                     /\ elem'[new[i]].id = i
                     /\ ~elem'[new[i]].erased
  <2>1. \A r \in Element : /\ [r EXCEPT !.sink = n].sink = n
                           /\ [r EXCEPT !.sink = n].id = r.id
                           /\ [r EXCEPT !.sink = n].erased = r.erased
    BY DEF Element
  <2> SUFFICES ASSUME NEW i \in ids
               PROVE  /\ elem'[new[i]].sink = n
                      /\ elem'[new[i]].id = i
                      /\ ~elem'[new[i]].erased
    OBVIOUS
  <2> DEFINE r == elem[map[m][i]]
  <2>2. elem'[new[i]] = [r EXCEPT !.sink = n] /\ r \in Element
    BY <1>5, <1>6
  <2>3. r.id = i /\ ~r.erased
    BY <1>6
  <2> HIDE DEF r
  <2> QED
    BY <2>1, <2>2, <2>3
<1>8. \A e \in Elem : (\A i \in ids : new[i] # e) =>
         elem'[e] = Killed(K \cup {before[i] : i \in ids})[e]
  BY <1>3
<1>9. \A i \in Id : \/ before[i] = map[n][i]
                    \/ before[i] = NULL /\ map[n][i] \in K
  BY DEF NoTimers, ElementsOf, Registered
<1>10. \A e \in K : \E i \in Registered(n) : e = map[n][i] /\ before[i] = NULL
  BY DEF NoTimers, ElementsOf, Registered
<1>11. Owned' \subseteq Owned \cup copies
  <2>1. On(vec') = Linked \cup copies
    BY <1>2, CopyAdds
  <2> HIDE DEF copies
  <2> QED
    BY <2>1 DEF Owned, Linked
<1>12. /\ used' = used \cup {new[i] : i \in ids}
       /\ Owned' \subseteq Owned \cup {new[i] : i \in ids}
       /\ map' = [map EXCEPT ![n] = [i \in Id |-> IF i \in ids THEN new[i]
                                                              ELSE before[i]]]
       /\ ids \in SUBSET Id
  BY <1>3, <1>4, <1>11
<1> HIDE DEF copies, id, source, killed
<1>13. Registers(n, before, K, ids, new)
  BY <1>7, <1>8, <1>9, <1>10, <1>12 DEF Registers
<1> QED
  BY <1>12, <1>13, RegistrationAdds

(* The calls of the API keep Registration.                                 *)
LEMMA RegistrationUserStep ==
  ASSUME TypeOK, Ownership, Registration, UserStep
  PROVE  Registration'
<1> PICK n \in Node :
      \/ Construct(n)
      \/ KillAll(n)
      \/ Destroy(n)
      \/ SetTimerCronThrows(n)
      \/ \E m \in Node : CopyFrom(n, m) \/ Assign(n, m) \/ CopyConstruct(n, m)
      \/ \E id \in Id :
           \/ KillTimer(n, id)
           \/ \E q \in Requests : SetTimer(n, id, q)
           \/ \E gap \in CronGaps : SetTimerCron(n, id, gap)
  BY DEF UserStep
<1>0. pc # "down"
  BY DEF UserCode, CopyAllowed, Construct, KillAll, Destroy, SetTimerCronThrows,
         CopyFrom, Assign, CopyConstruct, KillTimer, SetTimer, SetTimerCron
<1>1. CASE Construct(n) \/ SetTimerCronThrows(n)
  <2>1. /\ UNCHANGED <<elem, map, vec, work, current>>
        /\ used \subseteq used' /\ alive \subseteq alive'
    BY <1>1 DEF Construct, SetTimerCronThrows, wheelVars, nodeVars
  <2>2. Owned' = Owned
    BY <2>1 DEF Owned, Linked
  <2> QED
    BY <1>0, <2>1, <2>2, RegistrationStays
<1>2. CASE KillAll(n) \/ Destroy(n)
  <2> DEFINE I == Registered(n)
  <2>1. UNCHANGED <<vec, work, current, used>>
    BY <1>2 DEF KillAll, Destroy, wheelVars
  <2>2. Owned' = Owned
    BY <2>1 DEF Owned, Linked
  <2>3. NoTimers = [i \in Id |-> IF i \in I THEN NULL ELSE map[n][i]]
    BY DEF NoTimers, Registered
  <2>4. Kills(n, I)
    BY <1>2, <2>1, <2>2, <2>3 DEF KillAll, Destroy, Kills, ElementsOf
  <2> QED
    BY <1>0, <2>4, RegistrationKills
<1>3. ASSUME NEW id \in Id, KillTimer(n, id)
      PROVE  Registration'
  <2>1. UNCHANGED <<vec, work, current, used, alive>>
    BY <1>3 DEF KillTimer, wheelVars
  <2>2. Owned' = Owned
    BY <2>1 DEF Owned, Linked
  <2>3. [map[n] EXCEPT ![id] = NULL]
          = [i \in Id |-> IF i \in {id} THEN NULL ELSE map[n][i]]
    BY DEF TypeOK
  <2>4. map' = [map EXCEPT ![n] = [map[n] EXCEPT ![id] = NULL]]
    BY <1>3 DEF KillTimer
  <2>5. {map[n][i] : i \in {id}} = {map[n][id]} /\ {id} \in SUBSET Registered(n)
    BY <1>3 DEF KillTimer
  <2>6. Kills(n, {id})
    BY <1>3, <2>1, <2>2, <2>3, <2>4, <2>5 DEF KillTimer, Kills
  <2> QED
    BY <1>0, <2>5, <2>6, RegistrationKills
<1>4. ASSUME NEW m \in Node,
             CopyFrom(n, m) \/ Assign(n, m) \/ CopyConstruct(n, m)
      PROVE  Registration'
  <2>1. /\ UNCHANGED <<work, current>>
        /\ alive \subseteq alive' /\ n \in alive'
    BY <1>4 DEF CopyFrom, Assign, CopyConstruct
  <2>2. CASE CopyFrom(n, m)
    BY <1>0, <2>1, <2>2, RegistrationCopy DEF CopyFrom
  <2>3. CASE Assign(n, m)
    BY <1>0, <2>1, <2>3, RegistrationCopy DEF Assign
  <2>4. CASE CopyConstruct(n, m)
    <3>1. ElementsOf(n) = {}
      BY <1>0, <2>4 DEF CopyConstruct, ElementsOf, Registration, RegisteredIsLive
    <3>2. CopyInto(n, m, NoTimers, ElementsOf(n))
      BY <2>4, <3>1 DEF CopyConstruct
    <3> QED
      BY <1>0, <2>1, <3>2, RegistrationCopy
  <2> QED
    BY <1>4, <2>2, <2>3, <2>4
<1>5. ASSUME NEW id \in Id, NEW q \in Requests, SetTimer(n, id, q)
      PROVE  Registration'
  <2> DEFINE r == [sink |-> n, id |-> id, next |-> (now + q.first) % WORD,
                   cd |-> q.cd, exact |-> q.exact, cron |-> FALSE, erased |-> FALSE]
  <2>1. r \in Element
    BY NewTimerType DEF TypeOK
  <2>2. n \in alive /\ \E e \in Elem \ used : Register(n, id, e, r)
    BY <1>5 DEF SetTimer
  <2>3. r.sink = n /\ r.id = id /\ ~r.erased
    OBVIOUS
  <2> HIDE DEF r
  <2> QED
    BY <1>0, <2>1, <2>2, <2>3, RegistrationRegister
<1>6. ASSUME NEW id \in Id, NEW gap \in CronGaps, SetTimerCron(n, id, gap)
      PROVE  Registration'
  <2> DEFINE r == [sink |-> n, id |-> id, next |-> (now + gap) % WORD, cd |-> 0,
                   exact |-> FALSE, cron |-> TRUE, erased |-> FALSE]
  <2>1. r \in Element
    BY NewTimerType DEF TypeOK
  <2>2. n \in alive /\ \E e \in Elem \ used : Register(n, id, e, r)
    BY <1>6 DEF SetTimerCron
  <2>3. r.sink = n /\ r.id = id /\ ~r.erased
    OBVIOUS
  <2> HIDE DEF r
  <2> QED
    BY <1>0, <2>1, <2>2, <2>3, RegistrationRegister
<1> QED
  BY <1>1, <1>2, <1>3, <1>4, <1>5, <1>6

(* The steps of Run that move elements but change none.                    *)
LEMMA RegistrationMoves ==
  ASSUME TypeOK, Ownership, Registration, pc # "down",
         UNCHANGED <<used, elem, nodeVars>>, Owned' \subseteq Owned
  PROVE  Registration'
BY RegistrationStays DEF nodeVars

(* The steps of Run keep Registration.                                     *)
LEMMA RegistrationRunStep ==
  ASSUME TypeOK, Ownership, Registration, RunBegin \/ RunStep
  PROVE  Registration'
<1>1. CASE RunBegin \/ NextTick \/ RunReturn
  <2>1. Owned' = Owned
    BY <1>1 DEF RunBegin, NextTick, RunReturn, wheelVars, Owned, Linked
  <2> QED
    BY <1>1, <2>1, RegistrationMoves DEF RunBegin, NextTick, RunReturn
<1>2. CASE ProcessTick
  <2> DEFINE v == CascadeAll(vec, m_qwLastTime, NextOf)
  <2> DEFINE slot == <<1, Index(1, m_qwLastTime)>>
  <2>1. v \in [Slot -> SUBSET Elem] /\ On(v) = Linked
    BY CascadeKeepsType DEF Ownership
  <2>2. slot \in Slot
    BY IndexRange DEF TypeOK, Slot, Level, Width
  <2>3. /\ work' = v[slot]
        /\ vec' = [v EXCEPT ![slot] = {}]
        /\ current' = current
    BY <1>2 DEF ProcessTick
  <2> HIDE DEF v, slot
  <2>4. On(vec') \cup work' \subseteq Linked
    BY <2>1, <2>2, <2>3 DEF On
  <2>5. Owned' \subseteq Owned
    BY <2>3, <2>4 DEF Owned, Linked
  <2> QED
    BY <1>2, <2>5, RegistrationMoves DEF ProcessTick
<1>3. ASSUME NEW e \in Elem, ReleaseErased(e)
      PROVE  Registration'
  <2>1. Owned' \subseteq Owned \ {e}
    BY <1>3 DEF ReleaseErased, Owned, Linked, Ownership
  <2> QED
    BY <1>3, <2>1, RegistrationReleases DEF ReleaseErased
<1>4. ASSUME NEW e \in Elem, Fire(e)
      PROVE  Registration'
  <2>1. Owned' \subseteq Owned
    BY <1>4 DEF Fire, Owned, Linked
  <2> QED
    BY <1>4, <2>1, RegistrationMoves DEF Fire
<1> QED
  BY <1>1, <1>2, <1>3, <1>4 DEF RunStep

(* A callback that returns or throws keeps Registration.                   *)
LEMMA RegistrationCallbackReturn ==
  ASSUME TypeOK, Ownership, Registration, CallbackReturn
  PROVE  Registration'
<1>0. current \in Elem /\ current # NULL /\ pc # "down"
  BY DEF CallbackReturn, Ownership, TypeOK
<1>1. CASE ReturnErased
  <2>1. Owned' \subseteq Owned \ {current}
    BY <1>1 DEF ReturnErased, Owned, Linked, Ownership
  <2> QED
    BY <1>0, <1>1, <2>1, RegistrationReleases DEF ReturnErased
<1>2. ASSUME NEW gap \in Int, Reschedule(gap)
      PROVE  Registration'
  <2> DEFINE next == Successor(elem[current], gap)
  <2>1. elem[current] \in Element /\ next \in Int
    BY <1>0, SuccessorType DEF TypeOK
  <2>2. /\ vec' = Add(vec, current, next, m_qwLastTime)
        /\ elem' = [elem EXCEPT ![current] = [elem[current] EXCEPT !.next = next]]
        /\ current' = NULL
        /\ UNCHANGED <<work, used, nodeVars>>
    BY <1>2 DEF Reschedule
  <2> HIDE DEF next
  <2>3. On(vec') = Linked \cup {current}
    BY <1>0, <2>1, <2>2, AddKeepsType
  <2>4. Owned' \subseteq Owned
    BY <1>0, <2>2, <2>3 DEF Owned, Linked
  <2>5. \A e \in Elem : /\ elem'[e].sink = elem[e].sink
                       /\ elem'[e].id = elem[e].id
                       /\ elem'[e].erased = elem[e].erased
    <3>1. \A r \in Element : /\ [r EXCEPT !.next = next].sink = r.sink
                             /\ [r EXCEPT !.next = next].id = r.id
                             /\ [r EXCEPT !.next = next].erased = r.erased
      BY DEF Element
    <3>2. \A e \in Elem : elem'[e] = IF e = current
                                       THEN [elem[current] EXCEPT !.next = next]
                                       ELSE elem[e]
      BY <2>2 DEF TypeOK
    <3> QED
      BY <2>1, <3>1, <3>2
  <2> QED
    BY <1>0, <2>2, <2>4, <2>5, RegistrationStays DEF nodeVars
<1>3. CASE ThrowFromCallback
  <2>1. Owned' \subseteq Owned
    BY <1>3 DEF ThrowFromCallback, Owned, Linked
  <2> QED
    BY <1>0, <1>3, <2>1, RegistrationMoves DEF ThrowFromCallback
<1>4. CronGaps \cup {0} \subseteq Int
  BY ModuleAssumption
<1> QED
  BY <1>1, <1>2, <1>3, <1>4 DEF CallbackReturn

(* Every step keeps Registration.                                          *)
LEMMA RegistrationNext ==
  ASSUME TypeOK, Ownership, Registration, [Next]_vars
  PROVE  Registration'
<1>1. CASE Elapse
  <2>1. Owned' = Owned
    BY <1>1 DEF Elapse, wheelVars, Owned, Linked
  <2> QED
    BY <1>1, <2>1, RegistrationMoves DEF Elapse
<1>2. CASE Shutdown
  <2>1. Owned' = {}
    <3>1. vec' = [s \in Slot |-> {}]
      BY <1>2 DEF Shutdown
    <3>2. Linked' = {}
      BY <3>1 DEF Linked, On
    <3> QED
      BY <1>2, <3>2 DEF Shutdown, Owned, Ownership
  <2> QED
    BY <1>2, <2>1 DEF Shutdown, Registration, RegisteredIsLive, LiveIsRegistered
<1>3. CASE UNCHANGED vars
  <2>1. UNCHANGED <<pc, used, elem, alive, map, vec, work, current>>
    BY <1>3 DEF vars, wheelVars, nodeVars
  <2> QED
    BY <2>1 DEF Registration, RegisteredIsLive, LiveIsRegistered, Registered,
                Owned, Linked
<1> QED
  BY <1>1, <1>2, <1>3, RegistrationUserStep, RegistrationRunStep,
     RegistrationCallbackReturn DEF Next

(* Nodes and elements agree: a registered timer has a fetched element that *)
(* is not killed, and an element that is not killed is a registered timer  *)
(* of a living node.                                                       *)
THEOREM RegistrationHolds == Spec => [](RegisteredIsLive /\ LiveIsRegistered)
<1>1. Init => Registration
  BY RegistrationInit
<1>2. TypeOK /\ Ownership /\ Registration /\ [Next]_vars => Registration'
  BY RegistrationNext
<1>3. Registration => RegisteredIsLive /\ LiveIsRegistered
  BY DEF Registration
<1> QED
  BY <1>1, <1>2, <1>3, OwnershipHolds, PTL DEF Spec

(* The program's own code calls nothing that moves control.                *)
LEMMA UserStepStays ==
  ASSUME UserStep
  PROVE  UNCHANGED <<pc, work, current>> /\ pc # "down"
<1> PICK n \in Node :
      \/ Construct(n)
      \/ KillAll(n)
      \/ Destroy(n)
      \/ SetTimerCronThrows(n)
      \/ \E m \in Node : CopyFrom(n, m) \/ Assign(n, m) \/ CopyConstruct(n, m)
      \/ \E id \in Id :
           \/ KillTimer(n, id)
           \/ \E q \in Requests : SetTimer(n, id, q)
           \/ \E gap \in CronGaps : SetTimerCron(n, id, gap)
  BY DEF UserStep
<1>1. CASE \/ Construct(n)
           \/ KillAll(n)
           \/ Destroy(n)
           \/ SetTimerCronThrows(n)
           \/ \E id \in Id : KillTimer(n, id)
  BY <1>1 DEF Construct, KillAll, Destroy, SetTimerCronThrows, KillTimer, UserCode,
              wheelVars
<1>2. CASE \E m \in Node : CopyFrom(n, m) \/ Assign(n, m) \/ CopyConstruct(n, m)
  BY <1>2 DEF CopyFrom, Assign, CopyConstruct, CopyAllowed
<1>3. ASSUME NEW id \in Id,
             \/ \E q \in Requests : SetTimer(n, id, q)
             \/ \E gap \in CronGaps : SetTimerCron(n, id, gap)
      PROVE  UNCHANGED <<pc, work, current>> /\ pc # "down"
  <2>1. \A e, r : Register(n, id, e, r) => UNCHANGED <<pc, work, current>>
    BY DEF Register
  <2> QED
    BY <1>3, <2>1 DEF SetTimer, SetTimerCron, UserCode
<1> QED
  BY <1>1, <1>2, <1>3

(* The only step that makes an element current takes it from work_list.    *)
LEMMA OnlyFireEnters ==
  ASSUME [Next]_vars, current' \notin {current, NULL}
  PROVE  \E e \in work : ~elem[e].erased /\ current' = e
<1>1. \A e \in Elem : Fire(e) => e \in work /\ ~elem[e].erased /\ current' = e
  BY DEF Fire
<1>2. CASE \E e \in Elem : Fire(e)
  BY <1>1, <1>2
<1>3. CASE ~(\E e \in Elem : Fire(e))
  <2>1. UserStep => current' = current
    BY UserStepStays
  <2>2. RunStep \/ RunBegin => current' = current
    BY <1>3 DEF RunStep, RunBegin, ProcessTick, ReleaseErased, NextTick, RunReturn,
           wheelVars
  <2>3. CallbackReturn => current' = NULL
    BY DEF CallbackReturn, ReturnErased, Reschedule, ThrowFromCallback
  <2>4. Elapse \/ Shutdown \/ UNCHANGED vars => current' = current
    BY DEF Elapse, Shutdown, vars, wheelVars
  <2> QED
    BY <2>1, <2>2, <2>3, <2>4 DEF Next
<1> QED
  BY <1>2, <1>3

(* A callback is entered only for a timer that is registered at that       *)
(* moment with a living node: KillTimer, setting an id again, assigning to *)
(* a node and destroying it all silence the timer at once, although its    *)
(* element stays on the wheel until it expires.                            *)
THEOREM Silence == Spec => KilledTimersStaySilent
<1>1. ASSUME TypeOK, Ownership, LiveIsRegistered, [Next]_vars,
             current' \notin {current, NULL}
      PROVE  /\ elem[current'].sink \in alive
             /\ map[elem[current'].sink][elem[current'].id] = current'
  <2>1. PICK e \in work : ~elem[e].erased /\ current' = e
    BY <1>1, OnlyFireEnters
  <2>2. e \in Owned
    BY DEF Owned
  <2> QED
    BY <1>1, <2>1, <2>2 DEF LiveIsRegistered
<1>2. TypeOK /\ Ownership /\ LiveIsRegistered /\ [Next]_vars =>
        [current' \notin {current, NULL} =>
           /\ elem[current'].sink \in alive
           /\ map[elem[current'].sink][elem[current'].id] = current']_vars
  BY <1>1
<1> QED
  BY <1>2, OwnershipHolds, RegistrationHolds, PTL DEF Spec, KilledTimersStaySilent

-----------------------------------------------------------------------------
(* Nothing is lost.                                                        *)
LEMMA NoLeakInit == Init => NoLeak
BY DEF Init, NoLeak

(* The calls of the API lose no element.                                   *)
LEMMA NoLeakUserStep ==
  ASSUME TypeOK, Ownership, NoLeak, UserStep, ~BadCron
  PROVE  NoLeak'
<1> PICK n \in Node :
      \/ Construct(n)
      \/ KillAll(n)
      \/ Destroy(n)
      \/ SetTimerCronThrows(n)
      \/ \E m \in Node : CopyFrom(n, m) \/ Assign(n, m) \/ CopyConstruct(n, m)
      \/ \E id \in Id :
           \/ KillTimer(n, id)
           \/ \E q \in Requests : SetTimer(n, id, q)
           \/ \E gap \in CronGaps : SetTimerCron(n, id, gap)
  BY DEF UserStep
<1>1. CASE \/ Construct(n)
           \/ KillAll(n)
           \/ Destroy(n)
           \/ \E id \in Id : KillTimer(n, id)
  BY <1>1 DEF Construct, KillAll, Destroy, KillTimer, wheelVars, NoLeak, Owned, Linked
<1>2. CASE SetTimerCronThrows(n)
  BY <1>2 DEF SetTimerCronThrows
<1>3. ASSUME NEW m \in Node,
             CopyFrom(n, m) \/ Assign(n, m) \/ CopyConstruct(n, m)
      PROVE  NoLeak'
  <2>1. PICK before, K : CopyInto(n, m, before, K)
    BY <1>3 DEF CopyFrom, Assign, CopyConstruct
  <2>2. PICK ids \in SUBSET Registered(m) :
          \E new \in [ids -> Elem \ used] : CopyElements(n, m, before, K, ids, new)
    BY <2>1 DEF CopyInto
  <2>3. PICK new \in [ids -> Elem \ used] : CopyElements(n, m, before, K, ids, new)
    BY <2>2
  <2> DEFINE copies == {new[i] : i \in ids}
  <2>4. On(vec') = Linked \cup copies
    BY <2>3, CopyAdds
  <2>5. used' = used \cup copies
    BY <2>3 DEF CopyElements
  <2>6. UNCHANGED <<work, current>>
    BY <1>3 DEF CopyFrom, Assign, CopyConstruct
  <2> HIDE DEF copies
  <2> QED
    BY <2>4, <2>5, <2>6 DEF NoLeak, Owned, Linked
<1>4. ASSUME NEW id \in Id,
             \/ \E q \in Requests : SetTimer(n, id, q)
             \/ \E gap \in CronGaps : SetTimerCron(n, id, gap)
      PROVE  NoLeak'
  <2>1. now \in Nat
    BY DEF TypeOK
  <2>2. PICK e \in Elem \ used, r \in Element : Register(n, id, e, r)
    BY <1>4, <2>1, NewTimerType DEF SetTimer, SetTimerCron
  <2>3. r.next \in Int
    BY DEF Element
  <2>4. On(vec') = Linked \cup {e}
    BY <2>2, <2>3, AddKeepsType DEF Register
  <2>5. used' = used \cup {e} /\ UNCHANGED <<work, current>>
    BY <2>2 DEF Register
  <2> QED
    BY <2>4, <2>5 DEF NoLeak, Owned, Linked
<1> QED
  BY <1>1, <1>2, <1>3, <1>4

(* The steps of Run lose no element.                                       *)
LEMMA NoLeakRunStep ==
  ASSUME TypeOK, Ownership, NoLeak, RunBegin \/ RunStep
  PROVE  NoLeak'
<1>1. CASE RunBegin \/ NextTick \/ RunReturn
  BY <1>1 DEF RunBegin, NextTick, RunReturn, wheelVars, NoLeak, Owned, Linked
<1>2. CASE ProcessTick
  <2> DEFINE v == CascadeAll(vec, m_qwLastTime, NextOf)
  <2> DEFINE slot == <<1, Index(1, m_qwLastTime)>>
  <2>1. v \in [Slot -> SUBSET Elem] /\ On(v) = Linked
    BY CascadeKeepsType DEF Ownership
  <2>2. slot \in Slot
    BY IndexRange DEF TypeOK, Slot, Level, Width
  <2>3. /\ work' = v[slot]
        /\ vec' = [v EXCEPT ![slot] = {}]
        /\ pc = "loop"
        /\ current' = current /\ used' = used
    BY <1>2 DEF ProcessTick
  <2> HIDE DEF v, slot
  <2>4. On(vec') \cup work' = Linked
    BY <2>1, <2>2, <2>3 DEF On
  <2>5. work = {}
    BY <2>3 DEF Ownership
  <2> QED
    BY <2>3, <2>4, <2>5 DEF NoLeak, Owned, Linked
<1>3. ASSUME NEW e \in Elem, ReleaseErased(e)
      PROVE  NoLeak'
  BY <1>3 DEF ReleaseErased, Release, NoLeak, Owned, Linked
<1>4. ASSUME NEW e \in Elem, Fire(e)
      PROVE  NoLeak'
  <2>1. current = NULL /\ e # NULL
    BY <1>4, ModuleAssumption DEF Fire, Ownership
  <2> QED
    BY <1>4, <2>1 DEF Fire, NoLeak, Owned, Linked
<1> QED
  BY <1>1, <1>2, <1>3, <1>4 DEF RunStep

(* A callback that returns loses no element.                               *)
LEMMA NoLeakCallbackReturn ==
  ASSUME TypeOK, Ownership, NoLeak, CallbackReturn, ~CallbackThrows
  PROVE  NoLeak'
<1>0. current \in Elem
  BY DEF CallbackReturn, Ownership, TypeOK
<1>1. CASE ReturnErased
  BY <1>1 DEF ReturnErased, Release, NoLeak, Owned, Linked
<1>2. ASSUME NEW gap \in Int, Reschedule(gap)
      PROVE  NoLeak'
  <2> DEFINE next == Successor(elem[current], gap)
  <2>1. next \in Int
    BY <1>0, SuccessorType DEF TypeOK
  <2>2. vec' = Add(vec, current, next, m_qwLastTime)
    BY <1>2 DEF Reschedule
  <2> HIDE DEF next
  <2>3. On(vec') = Linked \cup {current}
    BY <1>0, <2>1, <2>2, AddKeepsType
  <2> QED
    BY <1>2, <2>3 DEF Reschedule, NoLeak, Owned, Linked
<1>3. CronGaps \cup {0} \subseteq Int
  BY ModuleAssumption
<1> QED
  BY <1>1, <1>2, <1>3 DEF CallbackReturn, ThrowFromCallback

(* No step loses an element, short of an exception.                        *)
LEMMA NoLeakNext ==
  ASSUME TypeOK, Ownership, NoLeak, [Next]_vars, ~BadCron, ~CallbackThrows
  PROVE  NoLeak'
<1>1. CASE Elapse
  BY <1>1 DEF Elapse, wheelVars, NoLeak, Owned, Linked
<1>2. CASE Shutdown
  <2>1. work = {} /\ current = NULL
    BY <1>2 DEF Shutdown, Ownership
  <2>2. used' = {}
    BY <1>2, <2>1 DEF Shutdown, NoLeak, Owned
  <2> QED
    BY <2>2 DEF NoLeak
<1>3. CASE UNCHANGED vars
  BY <1>3 DEF vars, wheelVars, NoLeak, Owned, Linked
<1> QED
  BY <1>1, <1>2, <1>3, NoLeakUserStep, NoLeakRunStep, NoLeakCallbackReturn DEF Next

(* Unless a cron expression is invalid or a callback throws, every element *)
(* fetched from the pool is on a list or in its callback until it goes     *)
(* back, whatever is set, killed, copied and destroyed, in callbacks too.  *)
THEOREM NothingLost == ASSUME ~BadCron, ~CallbackThrows
                       PROVE  Spec => []NoLeak
<1>1. Init => NoLeak
  BY NoLeakInit
<1>2. TypeOK /\ Ownership /\ NoLeak /\ [Next]_vars => NoLeak'
  BY NoLeakNext
<1> QED
  BY <1>1, <1>2, OwnershipHolds, PTL DEF Spec

(* So the pool's assertion holds when the program ends.                    *)
LEMMA PoolFullNext ==
  ASSUME TypeOK, Ownership, NoLeak, PoolFullAtShutdown, [Next]_vars
  PROVE  PoolFullAtShutdown'
<1>1. CASE Shutdown
  BY <1>1 DEF Shutdown, PoolFullAtShutdown, NoLeak, Owned, Ownership
<1>2. CASE UNCHANGED vars
  BY <1>2 DEF vars, PoolFullAtShutdown
<1>3. UserStep => pc' # "down"
  BY UserStepStays
<1>4. Elapse \/ RunBegin \/ RunStep \/ CallbackReturn => pc' # "down"
  BY DEF Elapse, RunBegin, RunStep, ProcessTick, ReleaseErased, Fire, NextTick,
         RunReturn, CallbackReturn, ReturnErased, Reschedule, ThrowFromCallback
<1> QED
  BY <1>1, <1>2, <1>3, <1>4 DEF Next, PoolFullAtShutdown

(* ~CDMRapidPool finds the pool full.                                      *)
THEOREM PoolFull == ASSUME ~BadCron, ~CallbackThrows
                    PROVE  Spec => []PoolFullAtShutdown
<1>1. Init => PoolFullAtShutdown
  BY DEF Init, PoolFullAtShutdown
<1>2. TypeOK /\ Ownership /\ NoLeak /\ PoolFullAtShutdown /\ [Next]_vars
        => PoolFullAtShutdown'
  BY PoolFullNext
<1> QED
  BY <1>1, <1>2, OwnershipHolds, NothingLost, PTL DEF Spec
=============================================================================
