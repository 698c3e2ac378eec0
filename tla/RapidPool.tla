------------------------------ MODULE RapidPool ------------------------------
(***************************************************************************)
(* The pool of the timer elements: CDynamicRapidPool, a chain of pools of  *)
(* SIZE slots each (CDMRapidPool), the first of which exists from the      *)
(* start; the others are made when all those before them are empty.  A     *)
(* pool keeps its free slots in a list threaded through the slots: dwFlag  *)
(* of a free slot is the index of the next one.                            *)
(*                                                                         *)
(* An object is named by its pool (dwIndex) and its slot.  The callers are *)
(* taken to release only what they hold; dmtimermodule.cpp releases an     *)
(* element once, when it leaves its last list (Ownership in TimerModule).  *)
(* A release ends with the destructor ~T(), which destroys what the        *)
(* timer's function has captured: code of the program, that may set a      *)
(* timer and so fetch while the release is still under way.                *)
(***************************************************************************)
EXTENDS Integers, FiniteSets

CONSTANTS
  SIZE,    \* slots of one pool (50000 in the code)
  INDEX,   \* pools that can be added (1000 in the code)
  NULL     \* no pool, no object

Slots  == 0 .. SIZE - 1
Object == (0 .. INDEX) \X Slots

PoolRecord ==
  [use : [Slots -> BOOLEAN], flag : [Slots -> 0 .. SIZE],
   first : 0 .. SIZE, free : 0 .. SIZE]

ASSUME PoolAssumption ==
  /\ SIZE \in Nat \ {0}
  /\ INDEX \in Nat
  /\ NULL \notin Object \cup PoolRecord

VARIABLES
  pool,    \* [0 .. INDEX -> the CDMRapidPool, or NULL when not made yet]
  out,     \* the objects that the callers hold
  dying,   \* the object whose destructor runs, or NULL
  result   \* what the last call returned

vars == <<pool, out, dying, result>>

-----------------------------------------------------------------------------
(* Wrong: the slots are numbered from 1.                                   *)
NewPoolFromOne ==
  [use   |-> [s \in Slots |-> FALSE],
   flag  |-> [s \in Slots |-> s + 2],
   first |-> 1,
   free  |-> SIZE]

(* CDMRapidPool: use is dwUse, flag dwFlag, first m_wFirstFlag and free    *)
(* m_nFreeCount.                                                           *)
NewPool ==
  [use   |-> [s \in Slots |-> FALSE],
   flag  |-> [s \in Slots |-> s + 1],
   first |-> 0,
   free  |-> SIZE]

Empty(p)  == p.free = 0
IsFull(p) == p.free = SIZE

(* Wrong: the list of free slots does not advance past the slot taken.     *)
TakenSameFirst(p) ==
  [p EXCEPT !.free = @ - 1, !.use[p.first] = TRUE]

(* FetchObj of a pool that is not empty; the slot taken is p.first.        *)
Taken(p) ==
  [use   |-> [p.use EXCEPT ![p.first] = TRUE],
   flag  |-> p.flag,
   first |-> p.flag[p.first],
   free  |-> p.free - 1]

(* ReleaseObj of slot s: it becomes the first of the free ones.            *)
GivenBack(p, s) ==
  [use   |-> [p.use EXCEPT ![s] = FALSE],
   flag  |-> [p.flag EXCEPT ![s] = p.first],
   first |-> s,
   free  |-> p.free + 1]

-----------------------------------------------------------------------------
Init ==
  /\ pool = [i \in 0 .. INDEX |-> IF i = 0 THEN NewPool ELSE NULL]
  /\ out = {}
  /\ dying = NULL
  /\ result = NULL

Standing == pool[0] # NULL

(* The pools FetchObj looks at from the first on: the first that has a     *)
(* free slot or does not exist yet serves the call.                        *)
Serves(i) ==
  /\ Standing
  /\ pool[i] # NULL => ~Empty(pool[i])
  /\ \A j \in 0 .. (i - 1) : pool[j] # NULL /\ Empty(pool[j])

FetchObj(i) ==
  LET p == IF pool[i] = NULL THEN NewPool ELSE pool[i]
  IN
  /\ Serves(i)
  /\ pool' = [pool EXCEPT ![i] = Taken(p)]
  /\ result' = <<i, p.first>>
  /\ out' = out \cup {<<i, p.first>>}
  /\ UNCHANGED dying

(* No pool has a free slot: NULL, in a build without assertions.           *)
FetchFails ==
  /\ Standing
  /\ \A i \in 0 .. INDEX : pool[i] # NULL /\ Empty(pool[i])
  /\ result' = NULL
  /\ UNCHANGED <<pool, out, dying>>

(* Wrong: every object goes back to the first pool.                        *)
ReleaseToFirst(o) ==
  /\ o \in out /\ dying = NULL
  /\ dying' = o
  /\ pool' = [pool EXCEPT ![0] = GivenBack(@, o[2])]
  /\ out' = out \ {o}
  /\ result' = NULL

(* The slot is free, and is the next to be taken, before ~T() begins.  A   *)
(* destructor releases nothing: only Run and the module's end do.          *)
ReleaseObj(o) ==
  /\ o \in out /\ dying = NULL
  /\ dying' = o
  /\ pool' = [pool EXCEPT ![o[1]] = GivenBack(@, o[2])]
  /\ out' = out \ {o}
  /\ result' = NULL

(* Wrong: the slot becomes the first of the free ones after ~T().          *)
DestructedRelinks ==
  /\ dying # NULL
  /\ pool' = [pool EXCEPT ![dying[1]].first = dying[2]]
  /\ dying' = NULL
  /\ UNCHANGED <<out, result>>

(* ~T() returns, and with it ReleaseObj.                                   *)
Destructed ==
  /\ dying # NULL
  /\ dying' = NULL
  /\ UNCHANGED <<pool, out, result>>

(* ~CDynamicRapidPool, with the timer module, when UnInit has released     *)
(* everything (PoolFullAtShutdown in TimerModule).                         *)
Teardown ==
  /\ Standing /\ out = {} /\ dying = NULL
  /\ pool' = [i \in 0 .. INDEX |-> NULL]
  /\ UNCHANGED <<out, dying, result>>

Next ==
  \/ \E i \in 0 .. INDEX : FetchObj(i)
  \/ FetchFails
  \/ \E o \in Object : ReleaseObj(o)
  \/ Destructed
  \/ Teardown

Spec == Init /\ [][Next]_vars

-----------------------------------------------------------------------------
Made == {i \in 0 .. INDEX : pool[i] # NULL}

(* Types.  first is SIZE when the last slot of a pool is taken.            *)
PoolTypeOK ==
  /\ pool \in [0 .. INDEX -> PoolRecord \cup {NULL}]
  /\ \A i \in Made : Standing
  /\ out \in SUBSET Object
  /\ {dying, result} \subseteq Object \cup {NULL}

Free(p) == {s \in Slots : ~p.use[s]}

(* chain numbers the free slots of p in the order of the list.             *)
Threads(chain, p) ==
  /\ \A k \in 0 .. p.free - 1 : \A l \in 0 .. p.free - 1 :
       chain[k] = chain[l] => k = l
  /\ Free(p) = {chain[k] : k \in 0 .. p.free - 1}
  /\ p.free > 0 => chain[0] = p.first
  /\ \A k \in 1 .. p.free - 1 : p.flag[chain[k - 1]] = chain[k]

(* The list of the free slots goes through every free slot once, and its   *)
(* length is m_nFreeCount: in whatever order slots are taken and given     *)
(* back, also by a destructor inside a release, FetchObj never meets a slot*)
(* in use (it would abort) and no free slot is lost.                       *)
FreeListThreadsFree ==
  \A i \in Made :
    \E chain \in [0 .. pool[i].free - 1 -> Slots] : Threads(chain, pool[i])

(* A slot is in use exactly when a caller holds its object, so ReleaseObj  *)
(* never aborts, and a pool that is destroyed after the last release is    *)
(* full, as its destructor asserts.                                        *)
UsedIsOut ==
  /\ \A i \in Made : \A s \in Slots : pool[i].use[s] <=> <<i, s>> \in out
  /\ \A o \in out : o[1] \in Made
  /\ out = {} => \A i \in Made : IsFull(pool[i])

(* The pool promises what ElementAllocator says.                           *)
Allocator == INSTANCE ElementAllocator
ImplementsAllocator == Allocator!Spec
=============================================================================
