----------------------------- MODULE TimerModule -----------------------------
(***************************************************************************)
(* The timer engine: the CDMTimerModule singleton (wheel, clock readings,  *)
(* Run) together with the CDMTimerNode objects that register timers with   *)
(* it.  All of it runs in one thread; what interleaves is the code of Run  *)
(* with the API calls that the program makes between two Runs and, nested  *)
(* in a Run, inside an OnTimer callback or a timer's function.             *)
(*                                                                         *)
(* pc says where control is:                                               *)
(*   "idle"      outside Run: the program's own code                       *)
(*   "loop"      at the test of Run's outer while                          *)
(*   "drain"     at the test of Run's inner while, over work_list          *)
(*   "callback"  in OnTimer or in m_funTimer of element current            *)
(*   "down"      after ~CDMTimerModule                                     *)
(***************************************************************************)
EXTENDS TimerWheel, FiniteSets

CONSTANTS
  Node,            \* CDMTimerNode objects
  Id,              \* timer ids (qwIDEvent); a set of numbers
  Elem,            \* slots of the element pool
  NULL,            \* no element, no node
  Requests,        \* [cd, first, exact] arguments given to SetTimer
  CronGaps,        \* cron_next(cex, cur) - cur, in ms; negative when it fails
  BadCron,         \* TRUE: SetTimerCron may be given an invalid expression
  CallbackThrows,  \* TRUE: a callback may throw through Run
  CopyInCallback,  \* TRUE: nodes may be copied inside a callback
  MaxNow           \* bound on time: the clock stops here

ASSUME ModuleAssumption ==
  /\ Id \subseteq Nat
  /\ NULL \notin Elem \cup Node \cup Id
  /\ Requests \subseteq [cd : Nat, first : Nat, exact : BOOLEAN]
  /\ CronGaps \subseteq Int
  /\ BadCron \in BOOLEAN
  /\ CallbackThrows \in BOOLEAN
  /\ CopyInCallback \in BOOLEAN
  /\ MaxNow \in Nat

VARIABLES
  pc,            \* where control is, see above
  now,           \* what GetBootTime() returns, in scaled milliseconds
  m_qwCurTime,   \* now, as read when Run was last entered
  m_qwLastTime,  \* the next tick to process
  vec,           \* the lists of the wheel: [Slot -> SUBSET Elem]
  work,          \* work_list: the elements left to run in this tick
  current,       \* the element whose callback runs, or NULL
  used,          \* elements fetched from the pool and not released
  elem,          \* [Elem -> the CDMTimerElement in that pool slot]
  alive,         \* nodes constructed and not destroyed
  map            \* [Node -> m_oTimerElementMap: [Id -> Elem or NULL]]

wheelVars == <<vec, work, current>>
timeVars  == <<now, m_qwCurTime, m_qwLastTime>>
nodeVars  == <<alive, map>>
vars == <<pc, timeVars, wheelVars, used, elem, nodeVars>>

-----------------------------------------------------------------------------
(* CDMTimerElement::Reset.                                                 *)
Blank ==
  [sink |-> NULL, id |-> NULL, next |-> 0, cd |-> 0,
   exact |-> FALSE, cron |-> FALSE, erased |-> FALSE]

Element ==
  [sink : Node \cup {NULL}, id : Id \cup {NULL}, next : Int, cd : Nat,
   exact : BOOLEAN, cron : BOOLEAN, erased : BOOLEAN]

NoTimers == [i \in Id |-> NULL]

(* The ids registered with node n, and their elements.                     *)
Registered(n) == {i \in Id : map[n][i] # NULL}
ElementsOf(n) == {map[n][i] : i \in Registered(n)}

(* Everything on a list of the wheel.                                      *)
Linked == On(vec)

NextOf == [e \in Elem |-> elem[e].next]

(* elem after Kill() of the elements of K.                                 *)
Killed(K) ==
  [e \in Elem |-> IF e \in K THEN [elem[e] EXCEPT !.erased = TRUE] ELSE elem[e]]

Init ==
  /\ pc = "idle"
  /\ now = 0
  /\ m_qwCurTime = 0
  /\ m_qwLastTime = 0
  /\ vec = [s \in Slot |-> {}]
  /\ work = {}
  /\ current = NULL
  /\ used = {}
  /\ elem = [e \in Elem |-> Blank]
  /\ alive = {}
  /\ map = [n \in Node |-> NoTimers]

-----------------------------------------------------------------------------
(* Time passes.  Nothing reads the clock at pc "loop" or "drain": time     *)
(* that passes there is counted at the next callback or return.            *)
Elapse ==
  /\ pc \in {"idle", "callback"}
  /\ now < MaxNow
  /\ now' = now + 1
  /\ UNCHANGED <<pc, m_qwCurTime, m_qwLastTime, wheelVars, used, elem, nodeVars>>

(* Where the program's own code runs, and so may call the API.             *)
UserCode == pc \in {"idle", "callback"}

(***************************************************************************)
(* CDMTimerNode.                                                           *)
(***************************************************************************)
Construct(n) ==
  /\ UserCode
  /\ n \notin alive
  /\ alive' = alive \cup {n}
  /\ UNCHANGED <<pc, timeVars, wheelVars, used, elem, map>>

(* The end of SetTimer, SetTimerLambda and SetTimerCron: the fetched       *)
(* element e gets the contents r and goes on the wheel; an element that    *)
(* was registered under the same id is killed.                             *)
Register(n, id, e, r) ==
  /\ used' = used \cup {e}
  /\ vec' = Add(vec, e, r.next, m_qwLastTime)
  /\ elem' = [Killed({map[n][id]}) EXCEPT ![e] = r]
  /\ map' = [map EXCEPT ![n][id] = e]
  /\ UNCHANGED <<pc, timeVars, work, current, alive>>

(* SetTimer and SetTimerLambda.  With the pool exhausted FetchElement      *)
(* returns NULL and nothing changes: no step.                              *)
SetTimer(n, id, q) ==
  /\ UserCode
  /\ n \in alive
  /\ \E e \in Elem \ used :
       Register(n, id, e,
         [sink |-> n, id |-> id, next |-> (now + q.first) % WORD, cd |-> q.cd,
          exact |-> q.exact, cron |-> FALSE, erased |-> FALSE])

SetTimerCron(n, id, gap) ==
  /\ UserCode
  /\ n \in alive
  /\ \E e \in Elem \ used :
       Register(n, id, e,
         [sink |-> n, id |-> id, next |-> (now + gap) % WORD, cd |-> 0,
          exact |-> FALSE, cron |-> TRUE, erased |-> FALSE])

(* make_cron throws bad_cronexpr when the element has been fetched and is  *)
(* on no list yet.                                                         *)
SetTimerCronThrows(n) ==
  /\ BadCron
  /\ UserCode
  /\ n \in alive
  /\ \E e \in Elem \ used : used' = used \cup {e}
  /\ UNCHANGED <<pc, timeVars, wheelVars, elem, nodeVars>>

(* Wrong: the killed timer stays in the node's map.                        *)
KillTimerKeepsEntry(n, id) ==
  /\ UserCode
  /\ n \in alive
  /\ id \in Registered(n)
  /\ elem' = Killed({map[n][id]})
  /\ UNCHANGED <<pc, timeVars, wheelVars, used, nodeVars>>

KillTimer(n, id) ==
  /\ UserCode
  /\ n \in alive
  /\ id \in Registered(n)
  /\ elem' = Killed({map[n][id]})
  /\ map' = [map EXCEPT ![n][id] = NULL]
  /\ UNCHANGED <<pc, timeVars, wheelVars, used, alive>>

(* KillTimer() and Reset().                                                *)
KillAll(n) ==
  /\ UserCode
  /\ n \in alive
  /\ elem' = Killed(ElementsOf(n))
  /\ map' = [map EXCEPT ![n] = NoTimers]
  /\ UNCHANGED <<pc, timeVars, wheelVars, used, alive>>

(* Wrong: the destructor kills nothing.                                    *)
DestroyLeavesTimers(n) ==
  /\ UserCode
  /\ n \in alive
  /\ map' = [map EXCEPT ![n] = NoTimers]
  /\ alive' = alive \ {n}
  /\ UNCHANGED <<pc, timeVars, wheelVars, used, elem>>

(* ~CDMTimerNode.                                                          *)
Destroy(n) ==
  /\ UserCode
  /\ n \in alive
  /\ elem' = Killed(ElementsOf(n))
  /\ map' = [map EXCEPT ![n] = NoTimers]
  /\ alive' = alive \ {n}
  /\ UNCHANGED <<pc, timeVars, wheelVars, used>>
CopyAllowed == pc = "idle" \/ (CopyInCallback /\ pc = "callback")

(* Wrong: a copy does not kill the timer it replaces.                      *)
CopyElementsKeepsOld(n, m, before, K, ids, new) ==
  LET copies    == {new[i] : i \in ids}
      id(e)     == CHOOSE i \in ids : new[i] = e
      source(e) == elem[map[m][id(e)]]
  IN
  /\ \A i, j \in ids : new[i] = new[j] => i = j
  /\ used' = used \cup copies
  /\ vec' = [s \in Slot |->
               vec[s] \cup {e \in copies :
                             SlotOf(source(e).next, m_qwLastTime) = s}]
  /\ elem' = [e \in Elem |->
                IF e \in copies THEN [source(e) EXCEPT !.sink = n] ELSE Killed(K)[e]]
  /\ map' = [map EXCEPT ![n] = [i \in Id |-> IF i \in ids THEN new[i]
                                                         ELSE before[i]]]

(* CopyFrom copies the timers of m with the ids in ids to n, expiry time   *)
(* included: timer i to the fetched element new[i].  "before" is n's map   *)
(* when the copying starts, K the elements killed by then.                 *)
CopyElements(n, m, before, K, ids, new) ==
  LET copies    == {new[i] : i \in ids}
      id(e)     == CHOOSE i \in ids : new[i] = e
      source(e) == elem[map[m][id(e)]]
      replaced  == {before[i] : i \in ids}
  IN
  /\ \A i, j \in ids : new[i] = new[j] => i = j
  /\ used' = used \cup copies
  /\ vec' = [s \in Slot |->
               vec[s] \cup {e \in copies :
                             SlotOf(source(e).next, m_qwLastTime) = s}]
  /\ elem' = [e \in Elem |->
                IF e \in copies THEN [source(e) EXCEPT !.sink = n]
                                ELSE Killed(K \cup replaced)[e]]
  /\ map' = [map EXCEPT ![n] = [i \in Id |-> IF i \in ids THEN new[i]
                                                         ELSE before[i]]]

(* The ids are taken in their order; once the pool is empty the remaining  *)
(* ones are skipped.                                                       *)
CopyInto(n, m, before, K) ==
  \E ids \in SUBSET Registered(m) : \E new \in [ids -> Elem \ used] :
    /\ ids = Registered(m) \/ Elem \ used = {new[i] : i \in ids}
    /\ \A i \in ids, j \in Registered(m) \ ids : i < j
    /\ CopyElements(n, m, before, K, ids, new)

(* A call of the public CopyFrom; n = m is allowed.                        *)
CopyFrom(n, m) ==
  /\ CopyAllowed
  /\ {n, m} \subseteq alive
  /\ CopyInto(n, m, map[n], {})
  /\ UNCHANGED <<pc, timeVars, work, current, alive>>

(* operator=: Reset, then CopyFrom.                                        *)
Assign(n, m) ==
  /\ CopyAllowed
  /\ {n, m} \subseteq alive
  /\ n # m
  /\ CopyInto(n, m, NoTimers, ElementsOf(n))
  /\ UNCHANGED <<pc, timeVars, work, current, alive>>

CopyConstruct(n, m) ==
  /\ CopyAllowed
  /\ n \notin alive
  /\ m \in alive
  /\ alive' = alive \cup {n}
  /\ CopyInto(n, m, NoTimers, {})
  /\ UNCHANGED <<pc, timeVars, work, current>>

(***************************************************************************)
(* CDMTimerModule::Run.                                                    *)
(***************************************************************************)
RunBegin ==
  /\ pc = "idle"
  /\ m_qwCurTime' = now
  /\ pc' = "loop"
  /\ UNCHANGED <<now, m_qwLastTime, wheelVars, used, elem, nodeVars>>

(* The body of the outer while up to the inner one: cascade, then move the *)
(* list of this tick to work_list.                                         *)
ProcessTick ==
  LET v    == CascadeAll(vec, m_qwLastTime, NextOf)
      slot == <<1, Index(1, m_qwLastTime)>>
  IN
  /\ pc = "loop"
  /\ m_qwCurTime # m_qwLastTime
  /\ work' = v[slot]
  /\ vec' = [v EXCEPT ![slot] = {}]
  /\ pc' = "drain"
  /\ UNCHANGED <<timeVars, current, used, elem, nodeVars>>

(* ReleaseElement; the destructor resets the element.                      *)
Release(e) ==
  /\ used' = used \ {e}
  /\ elem' = [elem EXCEPT ![e] = Blank]

(* Wrong: the erased element is taken off the list and forgotten.          *)
ReleaseErasedForgets(e) ==
  /\ pc = "drain"
  /\ e \in work
  /\ elem[e].erased
  /\ work' = work \ {e}
  /\ UNCHANGED <<pc, timeVars, vec, current, used, elem, nodeVars>>

(* An element found erased before its callback.                            *)
ReleaseErased(e) ==
  /\ pc = "drain"
  /\ e \in work
  /\ elem[e].erased
  /\ work' = work \ {e}
  /\ Release(e)
  /\ UNCHANGED <<pc, timeVars, vec, current, nodeVars>>

(* Wrong: the callback is entered with the element still on work_list.     *)
FireStillLinked(e) ==
  /\ pc = "drain"
  /\ e \in work
  /\ ~elem[e].erased
  /\ current' = e
  /\ pc' = "callback"
  /\ UNCHANGED <<timeVars, vec, work, used, elem, nodeVars>>

(* Wrong: m_bErased is not looked at before the callback.                  *)
FireErased(e) ==
  /\ pc = "drain"
  /\ e \in work
  /\ work' = work \ {e}
  /\ current' = e
  /\ pc' = "callback"
  /\ UNCHANGED <<timeVars, vec, used, elem, nodeVars>>

(* OnTimer or m_funTimer is entered.                                       *)
Fire(e) ==
  /\ pc = "drain"
  /\ e \in work
  /\ ~elem[e].erased
  /\ work' = work \ {e}
  /\ current' = e
  /\ pc' = "callback"
  /\ UNCHANGED <<timeVars, vec, used, elem, nodeVars>>

(* Wrong: an element killed in its own callback is not released.           *)
ReturnErasedLeaks ==
  /\ pc = "callback"
  /\ elem[current].erased
  /\ current' = NULL
  /\ pc' = "drain"
  /\ UNCHANGED <<timeVars, vec, work, used, elem, nodeVars>>

(* The callback returns and its own element was killed meanwhile.          *)
ReturnErased ==
  /\ pc = "callback"
  /\ elem[current].erased
  /\ Release(current)
  /\ current' = NULL
  /\ pc' = "drain"
  /\ UNCHANGED <<timeVars, vec, work, nodeVars>>

(* Wrong: exact timers skip the calls they missed, as the others do.       *)
SuccessorNeverExact(r, gap) ==
  LET onTime == (r.next + r.cd) % WORD
  IN  CASE r.cron -> (m_qwCurTime + gap) % WORD
        [] ~r.cron /\ m_qwCurTime >= onTime -> (m_qwCurTime + r.cd) % WORD
        [] OTHER -> onTime

(* The next expiry time of an element that has just run.  An exact timer   *)
(* keeps its rhythm; another one that is late starts a new one from now.   *)
Successor(r, gap) ==
  LET onTime == (r.next + r.cd) % WORD
  IN  CASE r.cron -> (m_qwCurTime + gap) % WORD
        [] ~r.cron /\ ~r.exact /\ m_qwCurTime >= onTime ->
             (m_qwCurTime + r.cd) % WORD
        [] OTHER -> onTime

(* The callback returns and its element goes back on the wheel.            *)
Reschedule(gap) ==
  LET next == Successor(elem[current], gap)
  IN
  /\ pc = "callback"
  /\ ~elem[current].erased
  /\ elem' = [elem EXCEPT ![current].next = next]
  /\ vec' = Add(vec, current, next, m_qwLastTime)
  /\ current' = NULL
  /\ pc' = "drain"
  /\ UNCHANGED <<timeVars, work, used, nodeVars>>

(* The callback throws.  The exception leaves through Run: work_list, a    *)
(* local of Run, and the element whose callback ran are on no list of the  *)
(* module any more, and the tick is not counted.                           *)
ThrowFromCallback ==
  /\ CallbackThrows
  /\ pc = "callback"
  /\ work' = {}
  /\ current' = NULL
  /\ pc' = "idle"
  /\ UNCHANGED <<timeVars, vec, used, elem, nodeVars>>

(* Wrong: the tick is not counted.                                         *)
NextTickStuck ==
  /\ pc = "drain"
  /\ work = {}
  /\ pc' = "loop"
  /\ UNCHANGED <<timeVars, wheelVars, used, elem, nodeVars>>

(* Wrong: the wheel turns backwards.                                       *)
NextTickBack ==
  /\ pc = "drain"
  /\ work = {}
  /\ m_qwLastTime' = m_qwLastTime - 1
  /\ pc' = "loop"
  /\ UNCHANGED <<now, m_qwCurTime, wheelVars, used, elem, nodeVars>>

NextTick ==
  /\ pc = "drain"
  /\ work = {}
  /\ m_qwLastTime' = m_qwLastTime + 1
  /\ pc' = "loop"
  /\ UNCHANGED <<now, m_qwCurTime, wheelVars, used, elem, nodeVars>>

RunReturn ==
  /\ pc = "loop"
  /\ m_qwCurTime = m_qwLastTime
  /\ pc' = "idle"
  /\ UNCHANGED <<timeVars, wheelVars, used, elem, nodeVars>>

(* Wrong: UnInit forgets m_tv1.                                            *)
ShutdownForgetsRoot ==
  LET found == UNION {vec[s] : s \in {t \in Slot : t[1] # 1}}
  IN
  /\ pc = "idle"
  /\ pc' = "down"
  /\ used' = used \ found
  /\ elem' = [e \in Elem |-> IF e \in found THEN Blank ELSE elem[e]]
  /\ vec' = [s \in Slot |-> {}]
  /\ UNCHANGED <<timeVars, work, current, nodeVars>>

(* ~CDMTimerModule: UnInit releases every element on a list of the wheel.  *)
Shutdown ==
  /\ pc = "idle"
  /\ pc' = "down"
  /\ used' = used \ Linked
  /\ elem' = [e \in Elem |-> IF e \in Linked THEN Blank ELSE elem[e]]
  /\ vec' = [s \in Slot |-> {}]
  /\ UNCHANGED <<timeVars, work, current, nodeVars>>

-----------------------------------------------------------------------------
UserStep ==
  \E n \in Node :
    \/ Construct(n)
    \/ KillAll(n)
    \/ Destroy(n)
    \/ SetTimerCronThrows(n)
    \/ \E m \in Node : CopyFrom(n, m) \/ Assign(n, m) \/ CopyConstruct(n, m)
    \/ \E id \in Id :
         \/ KillTimer(n, id)
         \/ \E q \in Requests : SetTimer(n, id, q)
         \/ \E gap \in CronGaps : SetTimerCron(n, id, gap)

CallbackReturn ==
  /\ pc = "callback"
  /\ \/ ReturnErased
     \/ \E gap \in IF elem[current].cron THEN CronGaps ELSE {0} : Reschedule(gap)
     \/ ThrowFromCallback

RunStep ==
  \/ ProcessTick
  \/ \E e \in Elem : ReleaseErased(e) \/ Fire(e)
  \/ NextTick
  \/ RunReturn

Next == Elapse \/ UserStep \/ RunBegin \/ RunStep \/ CallbackReturn \/ Shutdown

Spec == Init /\ [][Next]_vars

(* A clock goes on; the main loop calls Run again and again; Run and the   *)
(* callbacks are sequential code that goes on when it can.  Time is let    *)
(* pass only where the clock can be read, so it needs strong fairness.     *)
Fairness ==
  /\ SF_vars(Elapse)
  /\ WF_vars(RunBegin)
  /\ WF_vars(RunStep)
  /\ WF_vars(CallbackReturn)

FairSpec == Spec /\ Fairness

-----------------------------------------------------------------------------
(***************************************************************************)
(* Properties.                                                             *)
(***************************************************************************)
TypeOK ==
  /\ pc \in {"idle", "loop", "drain", "callback", "down"}
  /\ now \in Nat
  /\ m_qwCurTime \in Nat
  /\ m_qwLastTime \in Nat
  /\ vec \in [Slot -> SUBSET Elem]
  /\ work \in SUBSET Elem
  /\ current \in Elem \cup {NULL}
  /\ used \in SUBSET Elem
  /\ elem \in [Elem -> Element]
  /\ alive \in SUBSET Node
  /\ map \in [Node -> [Id -> Elem \cup {NULL}]]

(* Constants under which timers can be on time: no time that is reached is *)
(* so far ahead that its difference to another one reads as negative, an   *)
(* exact timer has a period, and every cron expression has a next time.    *)
Timely ==
  /\ 2 * MaxNow < WORD
  /\ \A q \in Requests :
       /\ 2 * (MaxNow + q.first) < WORD
       /\ 2 * (MaxNow + q.cd) < WORD
       /\ q.exact => q.cd > 0
  /\ \A gap \in CronGaps : gap >= 0 /\ 2 * (MaxNow + gap) < WORD

(* What the module can still reach: a list of the wheel, work_list, or the *)
(* element whose callback runs.                                            *)
Owned == Linked \cup work \cup ({current} \ {NULL})

(* An element is linked on at most one list and never twice; it is off all *)
(* lists while its callback runs, so that RemoveTimerElement finds it      *)
(* pending (DMASSERT(0) otherwise) and AddTimerElement does not corrupt a  *)
(* list; and no list holds a released element.                             *)
Ownership ==
  /\ Owned \subseteq used
  /\ Disjoint(vec)
  /\ work \cap Linked = {}
  /\ current \notin Linked \cup work
  /\ pc = "callback" <=> current # NULL
  /\ pc \notin {"drain", "callback"} => work = {}

(* No fetched element is lost: what is not free can still be reached.      *)
NoLeak == used \subseteq Owned

(* When the program ends the pool has all its elements back, as            *)
(* ~CDMRapidPool asserts.                                                  *)
PoolFullAtShutdown == pc = "down" => used = {}

(* What a node's map points to is a fetched element, not killed, that      *)
(* carries the node and the id it is registered under; a dead node has     *)
(* none.                                                                   *)
RegisteredIsLive ==
  pc # "down" =>
    \A n \in Node : \A i \in Registered(n) :
      /\ n \in alive
      /\ map[n][i] \in used
      /\ ~elem[map[n][i]].erased
      /\ elem[map[n][i]].sink = n
      /\ elem[map[n][i]].id = i

(* An element that is not killed is the registered timer of a living node: *)
(* none is left behind by a timer set again under its id, by KillTimer, by *)
(* an assignment or by a destructor, so no callback reaches a dead object. *)
LiveIsRegistered ==
  \A e \in Owned :
    ~elem[e].erased =>
      /\ elem[e].sink \in alive
      /\ elem[e].id \in Id
      /\ map[elem[e].sink][elem[e].id] = e

(* A callback is entered only for the timer that is registered at that     *)
(* moment under its id with a living node: a timer killed or replaced by   *)
(* an earlier callback of the same tick stays silent.                      *)
KilledTimersStaySilent ==
  [][current' \notin {current, NULL} =>
       /\ elem[current'].sink \in alive
       /\ map[elem[current'].sink][elem[current'].id] = current']_vars

(* A timer is due at its expiry time if that is not later than t.          *)
Due(e, t) == elem[e].next <= t

(* When Run has returned, every registered timer that had expired by then  *)
(* has been run: what is registered expires at or after the next tick.     *)
RunExecutesAllExpired ==
  pc = "idle" =>
    \A n \in Node : \A i \in Registered(n) :
      ~Due(map[n][i], m_qwLastTime - 1)

(* work_list holds nothing but the timers of the tick being processed: no  *)
(* callback comes early, none comes late.                                  *)
FiresOnItsTick == \A e \in work : elem[e].next = m_qwLastTime

(* The wheel is sound: each element lies in a slot that Run will empty, by *)
(* a cascade or to run it, not later than the element expires, and in      *)
(* m_tv1 exactly then.                                                     *)
WheelInv ==
  LET from == IF pc \in {"drain", "callback"} THEN m_qwLastTime + 1
                                              ELSE m_qwLastTime
  IN  \A s \in Slot : \A e \in vec[s] :
        /\ Visit(s, from) <= elem[e].next
        /\ s[1] = 1 => Visit(s, from) = elem[e].next

(* Run catches up with the clock it has read and stops there.              *)
RunTerminates == pc \in {"loop", "drain", "callback"} ~> pc = "idle"

(* A timer that expires while the clock goes on is run, or is killed.      *)
DueTimersFire ==
  \A e \in Elem :
    (e \in Linked /\ ~elem[e].erased /\ Due(e, MaxNow - 1))
      ~> (current = e \/ elem[e].erased \/ pc = "down")

(* A killed timer gives its element back to the pool.                      *)
ErasedIsReleased ==
  \A e \in Elem :
    (elem[e].erased /\ Due(e, MaxNow - 1)) ~> (e \notin used)
=============================================================================
