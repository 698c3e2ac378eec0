---------------------------- MODULE TimerAppProofs ----------------------------
(***************************************************************************)
(* What the worker and the handler of Ctrl-C find alive, for any number of *)
(* signals and however long the program runs.                              *)
(***************************************************************************)
EXTENDS TimerApp, SequenceTheorems, TLAPS

(* How far the construction and the destruction can have come.             *)
Built0 == << >>
Built1 == <<"module">>
Built2 == <<"module", "console">>
Built3 == <<"module", "console", "CMain">>

LEMMA AliveThen ==
  /\ ToSet(Built0) = {} /\ ToSet(Built1) = {"module"}
  /\ ToSet(Built2) = {"module", "console"} /\ ToSet(Built3) = Object
BY DEF ToSet, Built0, Built1, Built2, Built3, Object

LEMMA Lengths ==
  /\ Len(Built0) = 0 /\ Len(Built1) = 1 /\ Len(Built2) = 2 /\ Len(Built3) = 3
  /\ Built1 # << >> /\ Built2 # << >> /\ Built3 # << >>
BY DEF Built0, Built1, Built2, Built3

LEMMA Sequences ==
  {Built0, Built1, Built2, Built3} \subseteq Seq(Object)
BY DEF Built0, Built1, Built2, Built3, Object

LEMMA Completed ==
  /\ Append(Built0, "module") = Built1
  /\ Append(Built1, "console") = Built2
  /\ Append(Built2, "CMain") = Built3
<1>1. /\ Append(Built0, "module") \in Seq(Object)
      /\ Append(Built1, "console") \in Seq(Object)
      /\ Append(Built2, "CMain") \in Seq(Object)
  BY Sequences DEF Object
<1>2. /\ Len(Append(Built0, "module")) = 1 /\ Append(Built0, "module")[1] = "module"
  BY Sequences, Lengths
<1>3. /\ Len(Append(Built1, "console")) = 2
      /\ Append(Built1, "console")[1] = "module" /\ Append(Built1, "console")[2] = "console"
  BY Sequences, Lengths DEF Built1
<1>4. /\ Len(Append(Built2, "CMain")) = 3
      /\ Append(Built2, "CMain")[1] = "module" /\ Append(Built2, "CMain")[2] = "console"
      /\ Append(Built2, "CMain")[3] = "CMain"
  BY Sequences, Lengths DEF Built2
<1>5. Append(Built0, "module") = Built1
  <2>1. \A i \in 1 .. 1 : Append(Built0, "module")[i] = Built1[i]
    BY <1>2 DEF Built1
  <2> QED BY <1>1, <1>2, <2>1, Sequences, Lengths, SeqEqual
<1>6. Append(Built1, "console") = Built2
  <2>1. \A i \in 1 .. 2 : Append(Built1, "console")[i] = Built2[i]
    BY <1>3 DEF Built2
  <2> QED BY <1>1, <1>3, <2>1, Sequences, Lengths, SeqEqual
<1>7. Append(Built2, "CMain") = Built3
  <2>1. \A i \in 1 .. 3 : Append(Built2, "CMain")[i] = Built3[i]
    BY <1>4 DEF Built3
  <2> QED BY <1>1, <1>4, <2>1, Sequences, Lengths, SeqEqual
<1> QED BY <1>5, <1>6, <1>7

LEMMA Destroyed ==
  /\ Last(Built3) = "CMain" /\ Last(Built2) = "console" /\ Last(Built1) = "module"
  /\ Front(Built3) = Built2 /\ Front(Built2) = Built1 /\ Front(Built1) = Built0
<1>1. Last(Built3) = "CMain" /\ Last(Built2) = "console" /\ Last(Built1) = "module"
  BY Lengths DEF Last, Built1, Built2, Built3
<1>2. Front(Built3) = Built2
  <2>1. SubSeq(Built3, 1, 2) \in Seq(Object) /\ Len(SubSeq(Built3, 1, 2)) = 2
    BY Sequences, Lengths
  <2>2. \A i \in 1 .. 2 : SubSeq(Built3, 1, 2)[i] = Built2[i]
    BY Sequences, Lengths DEF Built2, Built3
  <2> QED BY <2>1, <2>2, Sequences, Lengths, SeqEqual DEF Front
<1>3. Front(Built2) = Built1
  <2>1. SubSeq(Built2, 1, 1) \in Seq(Object) /\ Len(SubSeq(Built2, 1, 1)) = 1
    BY Sequences, Lengths
  <2>2. \A i \in 1 .. 1 : SubSeq(Built2, 1, 1)[i] = Built1[i]
    BY Sequences, Lengths DEF Built1, Built2
  <2> QED BY <2>1, <2>2, Sequences, Lengths, SeqEqual DEF Front
<1>4. Front(Built1) = Built0
  BY Sequences, Lengths, SubSeqEmpty DEF Front, Built0
<1> QED BY <1>1, <1>2, <1>3, <1>4
-----------------------------------------------------------------------------
(* What is alive where main is.                                            *)
BuiltInv ==
  /\ pc = "load" => built = Built0
  /\ pc = "construct" => built = Built1
  /\ pc \in {"signal", "constructed"} => built = Built2
  /\ pc \in {"start", "thread", "keep", "wait"} => built = Built3
  /\ pc = "exit" => built \in {Built0, Built1, Built2, Built3}

(* Main and the worker: it is started after m_poThread is stored, and main *)
(* returns after it has ended.                                             *)
ThreadInv ==
  /\ wpc # "none" => pc \in {"keep", "wait", "exit"}
  /\ pc = "exit" => wpc = "ended" /\ m_oThread = "joined"
  /\ pc \in {"thread", "keep", "wait", "exit"} => m_poThread = "CMain"

(* m_bOnce is used up by the one close event; there is none before the     *)
(* handler is installed, so that ConstructCMain does not renew it.         *)
CloseInv ==
  /\ closes = IF m_bOnce THEN 0 ELSE 1
  /\ ~installed => m_bOnce
  /\ installed <=> pc \notin {"load", "construct", "signal"}
  /\ ~installed => \A t \in Thread : hpc[t] = "out"

IInv == AppTypeOK /\ BuiltInv /\ ThreadInv /\ CloseInv

LEMMA BuiltIsOneOf ==
  ASSUME IInv
  PROVE  built \in {Built0, Built1, Built2, Built3}
BY DEF IInv, AppTypeOK, BuiltInv

LEMMA BuiltFits ==
  ASSUME NEW b \in {Built0, Built1, Built2, Built3}
  PROVE  ToSet(b) \subseteq Object /\ Len(b) <= 3
<1>1. ToSet(b) \in {{}, {"module"}, {"module", "console"}, Object}
  BY AliveThen
<1>2. Len(b) \in 0 .. 3
  BY Lengths
<1> QED BY <1>1, <1>2 DEF Object

(* The worker finds the module made.                                       *)
LEMMA ModuleMade ==
  ASSUME built = Built3
  PROVE  \A o \in Object : Instance(o) = built
BY AliveThen DEF Instance, Alive

LEMMA InitIInv == Init => IInv
<1> SUFFICES ASSUME Init PROVE IInv
  OBVIOUS
<1>1. built = Built0
  BY DEF Init, Built0
<1>2. AppTypeOK
  <2>1. Alive \subseteq Object /\ Len(built) <= 3
    BY <1>1, BuiltFits DEF Alive
  <2> QED BY <2>1 DEF Init, AppTypeOK
<1> QED BY <1>1, <1>2 DEF Init, IInv, BuiltInv, ThreadInv, CloseInv

(* A step of main up to its return.                                        *)
LEMMA MainIInv ==
  ASSUME IInv,
         \/ StaticInit \/ ConstructCMain \/ InstallHandler \/ CMainConstructed
         \/ StartStore \/ StartThread \/ StartKeep \/ WaitFor
  PROVE  IInv'
<1> USE DEF Main, objects
<1>1. /\ pc' \in {"construct", "signal", "constructed", "start", "thread", "keep",
                  "wait", "exit"}
      /\ hpc' = hpc /\ status' = status /\ wpc' \in {wpc, "begin"}
      /\ now' = now /\ signals' = signals /\ closes' = closes /\ stopAt' = stopAt
      /\ m_bStop' \in {m_bStop, FALSE}
  BY DEF StaticInit, ConstructCMain, InstallHandler, CMainConstructed,
         StartStore, StartThread, StartKeep, WaitFor
<1>2. BuiltInv'
  <2>1. CASE StaticInit
    <3>1. built = Built0 /\ pc' = "construct"
      BY <2>1 DEF StaticInit, IInv, BuiltInv
    <3>2. built' = Built1
      BY <2>1, <3>1, AliveThen, Completed DEF StaticInit, Instance, Alive
    <3> QED BY <3>1, <3>2 DEF BuiltInv
  <2>2. CASE ConstructCMain
    <3>1. built = Built1 /\ pc' = "signal"
      BY <2>2 DEF ConstructCMain, IInv, BuiltInv
    <3>2. built' = Built2
      BY <2>2, <3>1, AliveThen, Completed DEF ConstructCMain, Instance, Alive
    <3> QED BY <3>1, <3>2 DEF BuiltInv
  <2>3. CASE CMainConstructed
    BY <2>3, Completed DEF CMainConstructed, IInv, BuiltInv
  <2>4. CASE InstallHandler \/ StartStore \/ StartThread \/ StartKeep \/ WaitFor
    BY <2>4 DEF InstallHandler, StartStore, StartThread, StartKeep, WaitFor, IInv, BuiltInv
  <2> QED BY <2>1, <2>2, <2>3, <2>4
<1>3. ThreadInv'
  BY DEF StaticInit, ConstructCMain, InstallHandler, CMainConstructed,
         StartStore, StartThread, StartKeep, WaitFor, IInv, ThreadInv
<1>4. CloseInv'
  BY DEF StaticInit, ConstructCMain, InstallHandler, CMainConstructed,
         StartStore, StartThread, StartKeep, WaitFor, IInv, CloseInv
<1>5. AppTypeOK'
  <2>1. built' \in {Built0, Built1, Built2, Built3}
    BY <1>1, <1>2 DEF BuiltInv
  <2>2. Alive' \subseteq Object /\ Len(built') <= 3
    BY <2>1, BuiltFits DEF Alive
  <2>3. /\ m_pConsoleSink' \in {NULL, "CMain"} /\ m_poThread' \in {NULL, "CMain"}
        /\ m_oThread' \in {NULL, "joinable", "joined"}
        /\ {installed, m_bOnce, m_bStop}' \subseteq BOOLEAN
    BY DEF StaticInit, ConstructCMain, InstallHandler, CMainConstructed,
           StartStore, StartThread, StartKeep, WaitFor, IInv, AppTypeOK
  <2> QED BY <1>1, <2>2, <2>3 DEF IInv, AppTypeOK
<1> QED BY <1>2, <1>3, <1>4, <1>5 DEF IInv

(* The destruction of the object completed last.                           *)
LEMMA DestroyIInv ==
  ASSUME IInv, DestroyLast
  PROVE  /\ IInv'
         /\ "CMain" \in Alive => status' = "running"
<1>1. /\ pc = "exit" /\ pc' = "exit" /\ built # << >> /\ built' = Front(built)
      /\ status = "running" /\ m_oThread = "joined" /\ wpc = "ended"
      /\ UNCHANGED <<wpc, hpc, m_pConsoleSink, m_bOnce, m_poThread, m_oThread,
                     installed, m_bStop, stopAt, now, signals, closes>>
  BY DEF DestroyLast, Main, Running, IInv, ThreadInv
<1>2. built \in {Built1, Built2, Built3}
  BY <1>1, BuiltIsOneOf DEF Built0
<1>3. built' \in {Built0, Built1, Built2}
  BY <1>1, <1>2, Destroyed
<1>4. Alive' \subseteq Object /\ Len(built') <= 3
  BY <1>3, BuiltFits DEF Alive
<1>5. status' = "running"
  <2>1. CASE built = Built3
    <3>1. Last(built) = "CMain" /\ "module" \in Alive
      BY <2>1, Destroyed, AliveThen DEF Alive, Object
    <3> QED BY <1>1, <3>1 DEF DestroyLast
  <2>2. CASE built # Built3
    <3>1. Last(built) # "CMain"
      BY <1>2, <2>2, Destroyed
    <3> QED BY <1>1, <3>1 DEF DestroyLast
  <2> QED BY <2>1, <2>2
<1>6. AppTypeOK'
  BY <1>1, <1>4, <1>5 DEF IInv, AppTypeOK
<1>7. BuiltInv' /\ ThreadInv' /\ CloseInv'
  BY <1>1, <1>3 DEF IInv, BuiltInv, ThreadInv, CloseInv
<1> QED BY <1>5, <1>6, <1>7 DEF IInv

(* What the worker does; nothing it needs is missing.                      *)
LEMMA WorkerIInv ==
  ASSUME IInv, WorkerStep
  PROVE  IInv' /\ status' = "running"
<1>1. /\ wpc \in {"begin", "set", "loop", "run"} /\ status = "running"
      /\ wpc' \in {"set", "loop", "run", "ended"}
  BY DEF WorkerStep, ThreadBegin, SetTimers, LoopOn, LoopEnd, RunTimers, Worker, Running
<1>2. pc \in {"keep", "wait"} /\ m_poThread = "CMain" /\ built = Built3
  BY <1>1 DEF IInv, ThreadInv, BuiltInv
<1>3. m_poThread # NULL
  BY <1>2, AppAssumption
<1>4. built' = built
  <2>1. Instance("module") = built
    BY <1>2, ModuleMade DEF Object
  <2> QED BY <2>1 DEF WorkerStep, ThreadBegin, SetTimers, LoopOn, LoopEnd, RunTimers, objects
<1>5. /\ status' = "running"
      /\ UNCHANGED <<pc, hpc, m_pConsoleSink, m_bOnce, m_poThread, m_oThread,
                     installed, now, signals, closes>>
  BY <1>1, <1>3 DEF WorkerStep, ThreadBegin, SetTimers, LoopOn, LoopEnd, RunTimers, objects
<1>6. m_bStop' \in BOOLEAN /\ stopAt' \in Nat \union {NULL}
  <2>1. CASE SetTimers
    <3>1. now + STOP \in Nat
      BY AppAssumption DEF IInv, AppTypeOK
    <3> QED BY <2>1, <3>1 DEF SetTimers, IInv, AppTypeOK
  <2>2. CASE RunTimers
    <3>1. stopAt' = stopAt /\ m_bStop' = (m_bStop \/ now > stopAt)
      BY <2>2 DEF RunTimers
    <3>2. m_bStop' \in BOOLEAN
      BY <3>1, Zenon
    <3> QED BY <3>1, <3>2 DEF IInv, AppTypeOK
  <2>3. CASE ThreadBegin \/ LoopOn \/ LoopEnd
    BY <2>3 DEF ThreadBegin, LoopOn, LoopEnd, IInv, AppTypeOK
  <2> QED BY <2>1, <2>2, <2>3 DEF WorkerStep
<1>7. AppTypeOK'
  BY <1>1, <1>4, <1>5, <1>6 DEF IInv, AppTypeOK, Alive
<1>8. BuiltInv' /\ ThreadInv' /\ CloseInv'
  BY <1>1, <1>2, <1>4, <1>5 DEF IInv, BuiltInv, ThreadInv, CloseInv
<1> QED BY <1>5, <1>7, <1>8 DEF IInv

(* A Ctrl-C and its handler, on either thread.                             *)
LEMMA HandlerIInv ==
  ASSUME IInv, NEW t \in Thread, Interrupt(t) \/ HandlerStep(t)
  PROVE  IInv' /\ (wpc # "none" /\ "CMain" \in Alive => status' = "running")
<1>1. /\ status = "running"
      /\ UNCHANGED <<pc, wpc, built, installed, m_pConsoleSink, m_poThread, m_oThread,
                     stopAt, now>>
  BY DEF Interrupt, HandlerStep, OnCloseEvent, SinkStops, SinkIsGone, objects, Running
<1>2. /\ hpc' \in [Thread -> {"out", "event", "sink"}]
      /\ {m_bOnce, m_bStop}' \subseteq BOOLEAN /\ signals' \in Nat
      /\ status' \in {"running", "killed", "null_thread", "dead_sink"}
  <2>1. hpc' = [hpc EXCEPT ![t] = hpc'[t]] /\ hpc'[t] \in {"out", "event", "sink"}
    BY DEF Interrupt, HandlerStep, OnCloseEvent, SinkStops, SinkIsGone, IInv, AppTypeOK
  <2>2. {m_bOnce, m_bStop}' \subseteq BOOLEAN
    BY DEF Interrupt, HandlerStep, OnCloseEvent, SinkStops, SinkIsGone, objects,
           IInv, AppTypeOK
  <2>3. signals' \in Nat
    BY DEF Interrupt, HandlerStep, OnCloseEvent, SinkStops, SinkIsGone, IInv, AppTypeOK
  <2>4. status' \in {"running", "killed", "null_thread", "dead_sink"}
    BY <1>1 DEF Interrupt, HandlerStep, OnCloseEvent, SinkStops, SinkIsGone
  <2> QED BY <2>1, <2>2, <2>3, <2>4 DEF IInv, AppTypeOK
<1>3. CloseInv'
  <2>1. CASE Interrupt(t)
    BY <2>1 DEF Interrupt, objects, IInv, CloseInv, AppTypeOK
  <2>2. CASE OnCloseEvent(t)
    <3>1. installed
      BY <2>2 DEF OnCloseEvent, IInv, CloseInv
    <3> QED BY <1>1, <2>2, <3>1 DEF OnCloseEvent, IInv, CloseInv
  <2>3. CASE SinkStops(t) \/ SinkIsGone(t)
    <3>1. installed
      BY <2>3 DEF SinkStops, SinkIsGone, IInv, CloseInv
    <3> QED BY <1>1, <2>3, <3>1 DEF SinkStops, SinkIsGone, objects, IInv, CloseInv
  <2> QED BY <2>1, <2>2, <2>3 DEF HandlerStep
<1>4. closes' \in Nat
  BY <1>3 DEF CloseInv
<1>5. AppTypeOK'
  BY <1>1, <1>2, <1>4 DEF IInv, AppTypeOK, Alive
<1>6. BuiltInv' /\ ThreadInv'
  BY <1>1 DEF IInv, BuiltInv, ThreadInv
<1>7. ASSUME wpc # "none", "CMain" \in Alive
      PROVE  status' = "running"
  <2>1. pc \in {"keep", "wait", "exit"} /\ m_poThread = "CMain" /\ installed
    BY <1>7 DEF IInv, ThreadInv, CloseInv, AppTypeOK
  <2> QED BY <1>1, <1>7, <2>1, AppAssumption
          DEF Interrupt, HandlerStep, OnCloseEvent, SinkStops, SinkIsGone, SinkIsCMain
<1> QED BY <1>3, <1>5, <1>6, <1>7 DEF IInv

LEMMA NextIInv == IInv /\ [Next]_vars => IInv'
<1> SUFFICES ASSUME IInv, [Next]_vars PROVE IInv'
  OBVIOUS
<1>1. CASE MainStep
  <2>1. CASE Exit
    BY <2>1 DEF Exit, Main, objects, IInv, AppTypeOK, BuiltInv, ThreadInv, CloseInv, Alive
  <2> QED BY <1>1, <2>1, MainIInv, DestroyIInv DEF MainStep
<1>2. CASE WorkerStep
  BY <1>2, WorkerIInv
<1>3. ASSUME NEW t \in Thread, Interrupt(t) \/ HandlerStep(t)
      PROVE  IInv'
  BY <1>3, HandlerIInv
<1>4. CASE Elapse
  BY <1>4 DEF Elapse, objects, IInv, AppTypeOK, BuiltInv, ThreadInv, CloseInv, Alive
<1>5. CASE UNCHANGED vars
  BY <1>5 DEF vars, objects, IInv, AppTypeOK, BuiltInv, ThreadInv, CloseInv, Alive
<1> QED BY <1>1, <1>2, <1>3, <1>4, <1>5 DEF Next, Ended

-----------------------------------------------------------------------------
(* Main, worker, handlers and process are in states they can be in, and    *)
(* at most the three static objects are complete.                          *)
THEOREM TypesHold == Spec => []AppTypeOK
<1>1. IInv => AppTypeOK
  BY DEF IInv
<1> QED BY InitIInv, NextIInv, <1>1, PTL DEF Spec

(* As long as the worker runs, the timer module, the console manager and   *)
(* the CMain it calls are alive; CMain is destroyed before the module its  *)
(* nodes belong to.                                                        *)
THEOREM LifetimesHold == Spec => [](WorkerWithinLifetimes /\ ModuleOutlivesNodes)
<1>1. ASSUME IInv
      PROVE  WorkerWithinLifetimes
  <2>1. wpc \notin {"none", "ended"} => built = Built3
    BY <1>1 DEF IInv, ThreadInv, BuiltInv
  <2> QED BY <2>1, AliveThen DEF WorkerWithinLifetimes, Alive
<1>2. ASSUME IInv
      PROVE  ModuleOutlivesNodes
  <2>1. Alive \in {{}, {"module"}, {"module", "console"}, Object}
    BY <1>1, <1>2, BuiltIsOneOf, AliveThen DEF Alive
  <2> QED BY <2>1 DEF ModuleOutlivesNodes, Object
<1> QED BY InitIInv, NextIInv, <1>1, <1>2, PTL DEF Spec

(* The sink gets one close event at most, however many Ctrl-C come.        *)
THEOREM ClosedOnce == Spec => []CloseOnce
<1>1. IInv => CloseOnce
  BY DEF IInv, CloseInv, CloseOnce
<1> QED BY InitIInv, NextIInv, <1>1, PTL DEF Spec

(* Once the worker is started and until CMain is destroyed no Ctrl-C and   *)
(* no order of the threads' steps makes the program crash.                 *)
THEOREM NoCrash == Spec => NoCrashWhileStarted
<1>1. ASSUME IInv, [Next]_vars, wpc # "none", "CMain" \in Alive, vars' # vars
      PROVE  status' \in {"running", "exited"}
  <2>1. CASE MainStep
    <3>1. CASE Exit \/ DestroyLast
      BY <1>1, <3>1, DestroyIInv DEF Exit
    <3>2. CASE ~(Exit \/ DestroyLast)
      BY <2>1, <3>2 DEF MainStep, StaticInit, ConstructCMain, InstallHandler,
         CMainConstructed, StartStore, StartThread, StartKeep, WaitFor, Main, Running
    <3> QED BY <3>1, <3>2
  <2>2. CASE WorkerStep
    BY <1>1, <2>2, WorkerIInv
  <2>3. ASSUME NEW t \in Thread, Interrupt(t) \/ HandlerStep(t)
        PROVE  status' \in {"running", "exited"}
    BY <1>1, <2>3, HandlerIInv
  <2>4. CASE Elapse
    BY <2>4 DEF Elapse, Running
  <2> QED BY <1>1, <2>1, <2>2, <2>3, <2>4 DEF Next, Ended
<1>2. IInv /\ [Next]_vars
        => [wpc # "none" /\ "CMain" \in Alive => status' \in {"running", "exited"}]_vars
  BY <1>1
<1> QED BY InitIInv, NextIInv, <1>2, PTL DEF Spec, NoCrashWhileStarted
=============================================================================
