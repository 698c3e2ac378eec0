------------------------------- MODULE TimerApp -------------------------------
(***************************************************************************)
(* The program around the timers, as the test programs are built: static   *)
(* construction, main and its worker thread, the handler of Ctrl-C on      *)
(* either thread, and destruction in the reverse order of construction.    *)
(*                                                                         *)
(* Three objects have static storage: the timer module (CDMSafeSingleton), *)
(* the console manager and the program's CMain (TSingleton), which is at   *)
(* once timer node, thread control, the thread's procedure and the sink of *)
(* the close event.  The timers are reduced to the one that stops the      *)
(* program.  Signals are those of a POSIX system: the handler stays        *)
(* installed and is not entered again on the thread that is in it.         *)
(***************************************************************************)
EXTENDS Naturals, Sequences, SequencesExt

CONSTANTS
  STOP,        \* eTimerTime_STOP, in the units of now
  MaxNow,      \* bound of the clock
  MaxSignals,  \* bound of the number of Ctrl-C
  NULL

ASSUME AppAssumption ==
  /\ STOP \in Nat /\ MaxNow \in Nat /\ MaxSignals \in Nat
  /\ NULL \notin Nat /\ NULL # "CMain"

Thread == {"main", "worker"}
Object == {"module", "console", "CMain"}

VARIABLES
  pc,              \* where main is
  wpc,             \* where the worker is
  hpc,             \* [Thread -> where the handler on it is]
  status,          \* "running", or how the process ended
  built,           \* the static objects alive, in the order they were completed
  installed,       \* signal() was called
  m_pConsoleSink,  \* NULL or CMain
  m_bOnce,
  m_poThread,      \* NULL or CMain
  m_oThread,       \* the std::thread: NULL, "joinable" or "joined"
  m_bStop,
  stopAt,          \* when the timer that stops the program is due, or NULL
  now,
  signals,         \* Ctrl-C so far
  closes           \* auxiliary: close events the sink was given

objects == <<built, m_pConsoleSink, m_bOnce, m_poThread, m_oThread>>
vars == <<pc, wpc, hpc, status, objects, installed, m_bStop, stopAt, now, signals, closes>>

Alive == ToSet(built)
Running == status = "running"

(* Wrong: the object is made at every call.                                *)
InstanceAgain(o) == Append(built, o)

(* Instance() completes the object when it is the first to ask for it.     *)
Instance(o) == IF o \in Alive THEN built ELSE Append(built, o)

(* Main steps on unless it is in the handler.                              *)
Main(from, to) ==
  /\ Running /\ pc = from /\ hpc["main"] = "out"
  /\ pc' = to

Worker(from, to) ==
  /\ Running /\ wpc = from /\ hpc["worker"] = "out"
  /\ wpc' = to

-----------------------------------------------------------------------------
Init ==
  /\ pc = "load" /\ wpc = "none" /\ hpc = [t \in Thread |-> "out"]
  /\ status = "running" /\ built = << >> /\ installed = FALSE
  /\ m_pConsoleSink = NULL /\ m_bOnce = TRUE
  /\ m_poThread = NULL /\ m_oThread = NULL
  /\ m_bStop = FALSE /\ stopAt = NULL
  /\ now = 0 /\ signals = 0 /\ closes = 0

(* Wrong: the module is made when it is first used.                        *)
StaticInitLazy ==
  /\ Main("load", "construct")
  /\ UNCHANGED <<wpc, hpc, status, objects, installed, m_bStop, stopAt, now, signals, closes>>

(* s_oCreator asks for the module before main is entered.                  *)
StaticInit ==
  /\ Main("load", "construct")
  /\ built' = Instance("module")
  /\ UNCHANGED <<wpc, hpc, status, m_pConsoleSink, m_bOnce, m_poThread, m_oThread,
                 installed, m_bStop, stopAt, now, signals, closes>>

(* CMain::Instance(): the bases, the members, then the console manager,    *)
(* which so is completed before CMain, and its sink.                       *)
ConstructCMain ==
  /\ Main("construct", "signal")
  /\ m_poThread' = NULL /\ m_bStop' = FALSE
  /\ built' = Instance("console") /\ m_bOnce' = TRUE
  /\ m_pConsoleSink' = "CMain"
  /\ UNCHANGED <<wpc, hpc, status, m_oThread, installed, stopAt, now, signals, closes>>

InstallHandler ==
  /\ Main("signal", "constructed")
  /\ installed' = TRUE
  /\ UNCHANGED <<wpc, hpc, status, objects, m_bStop, stopAt, now, signals, closes>>

CMainConstructed ==
  /\ Main("constructed", "start")
  /\ built' = Append(built, "CMain")
  /\ UNCHANGED <<wpc, hpc, status, m_pConsoleSink, m_bOnce, m_poThread, m_oThread,
                 installed, m_bStop, stopAt, now, signals, closes>>

(* Wrong: m_poThread is not stored.                                        *)
StartForgets ==
  /\ Main("start", "thread")
  /\ UNCHANGED <<wpc, hpc, status, objects, installed, m_bStop, stopAt, now, signals, closes>>

(* Start: m_poThread is stored, ...                                        *)
StartStore ==
  /\ Main("start", "thread")
  /\ m_poThread' = "CMain"
  /\ UNCHANGED <<wpc, hpc, status, built, m_pConsoleSink, m_bOnce, m_oThread,
                 installed, m_bStop, stopAt, now, signals, closes>>

(* ... the thread is made, and runs from here on, ...                      *)
StartThread ==
  /\ Main("thread", "keep")
  /\ wpc' = "begin"
  /\ UNCHANGED <<hpc, status, objects, installed, m_bStop, stopAt, now, signals, closes>>

(* ... and is moved to m_oThread; it is not detached.                      *)
StartKeep ==
  /\ Main("keep", "wait")
  /\ m_oThread' = "joinable"
  /\ UNCHANGED <<wpc, hpc, status, built, m_pConsoleSink, m_bOnce, m_poThread,
                 installed, m_bStop, stopAt, now, signals, closes>>

(* Wrong: main does not wait.                                              *)
WaitForNothing ==
  /\ Main("wait", "exit")
  /\ m_oThread' = "joined"
  /\ UNCHANGED <<wpc, hpc, status, built, m_pConsoleSink, m_bOnce, m_poThread,
                 installed, m_bStop, stopAt, now, signals, closes>>

WaitFor ==
  /\ Main("wait", "exit")
  /\ m_oThread = "joinable" /\ wpc = "ended"
  /\ m_oThread' = "joined"
  /\ UNCHANGED <<wpc, hpc, status, built, m_pConsoleSink, m_bOnce, m_poThread,
                 installed, m_bStop, stopAt, now, signals, closes>>

(* main has returned: the object completed last is destroyed.  ~CMain      *)
(* kills the timers of its nodes, whose elements are the module's, and     *)
(* destroys the std::thread, which must be joined.                         *)
DestroyLast ==
  /\ Main("exit", "exit") /\ built # << >>
  /\ status' = IF Last(built) # "CMain" THEN status
               ELSE IF "module" \notin Alive THEN "dead_module"
               ELSE IF m_oThread = "joinable" THEN "terminated"
               ELSE status
  /\ built' = Front(built)
  /\ UNCHANGED <<wpc, hpc, m_pConsoleSink, m_bOnce, m_poThread, m_oThread,
                 installed, m_bStop, stopAt, now, signals, closes>>

Exit ==
  /\ Main("exit", "exit") /\ built = << >>
  /\ status' = "exited"
  /\ UNCHANGED <<wpc, hpc, objects, installed, m_bStop, stopAt, now, signals, closes>>

-----------------------------------------------------------------------------
(* The worker: StaticThreadFunc, then CMain::ThrdProc.                     *)

(* Wrong: the flag is reset where the thread starts.                       *)
ThreadBeginResets ==
  /\ Worker("begin", "set")
  /\ status' = IF m_poThread = NULL THEN "null_thread" ELSE status
  /\ m_bStop' = FALSE
  /\ UNCHANGED <<pc, hpc, objects, installed, stopAt, now, signals, closes>>

(* ThrdProc is called through m_poThread.                                  *)
ThreadBegin ==
  /\ Worker("begin", "set")
  /\ status' = IF m_poThread = NULL THEN "null_thread" ELSE status
  /\ UNCHANGED <<pc, hpc, objects, installed, m_bStop, stopAt, now, signals, closes>>

SetTimers ==
  /\ Worker("set", "loop")
  /\ built' = Instance("module")
  /\ stopAt' = now + STOP
  /\ UNCHANGED <<pc, hpc, status, m_pConsoleSink, m_bOnce, m_poThread, m_oThread,
                 installed, m_bStop, now, signals, closes>>

LoopOn ==
  /\ Worker("loop", "run") /\ ~m_bStop
  /\ UNCHANGED <<pc, hpc, status, objects, installed, m_bStop, stopAt, now, signals, closes>>

LoopEnd ==
  /\ Worker("loop", "ended") /\ m_bStop
  /\ UNCHANGED <<pc, hpc, status, objects, installed, m_bStop, stopAt, now, signals, closes>>

(* Wrong: the timer runs only in a Run that reads the very time after its  *)
(* own, as a Run that is never late does.                                  *)
RunTimersExactly ==
  /\ Worker("run", "loop")
  /\ m_bStop' = (m_bStop \/ now = stopAt + 1)
  /\ UNCHANGED <<pc, hpc, status, objects, installed, stopAt, now, signals, closes>>

(* Run goes through the ticks before the time it reads, not that one, and  *)
(* calls OnTimer of their timers, which for eTimerID_STOP calls Stop and so*)
(* Terminate.                                                              *)
RunTimers ==
  /\ Worker("run", "loop")
  /\ m_bStop' = (m_bStop \/ now > stopAt)
  /\ UNCHANGED <<pc, hpc, status, objects, installed, stopAt, now, signals, closes>>

-----------------------------------------------------------------------------
(* Ctrl-C comes to a thread that is not in the handler already.            *)
Exists(t) == t = "worker" => wpc \notin {"none", "ended"}

Interrupt(t) ==
  /\ Running /\ Exists(t) /\ hpc[t] = "out" /\ signals < MaxSignals
  /\ signals' = signals + 1
  /\ IF installed
     THEN hpc' = [hpc EXCEPT ![t] = "event"] /\ UNCHANGED status
     ELSE status' = "killed" /\ UNCHANGED hpc
  /\ UNCHANGED <<pc, wpc, objects, installed, m_bStop, stopAt, now, closes>>

(* Wrong: m_bOnce is read but not exchanged.                               *)
OnCloseEventAgain(t) ==
  /\ Running /\ hpc[t] = "event"
  /\ hpc' = [hpc EXCEPT ![t] = IF m_pConsoleSink # NULL /\ m_bOnce THEN "sink" ELSE "out"]
  /\ closes' = IF m_pConsoleSink # NULL /\ m_bOnce THEN closes + 1 ELSE closes
  /\ UNCHANGED <<pc, wpc, status, objects, installed, m_bStop, stopAt, now, signals>>

(* HDMConsoleMgr::OnCloseEvent, whose fields outlive its destructor.       *)
OnCloseEvent(t) ==
  /\ Running /\ hpc[t] = "event"
  /\ IF m_pConsoleSink # NULL /\ m_bOnce
     THEN m_bOnce' = FALSE /\ hpc' = [hpc EXCEPT ![t] = "sink"] /\ closes' = closes + 1
     ELSE hpc' = [hpc EXCEPT ![t] = "out"] /\ UNCHANGED <<m_bOnce, closes>>
  /\ UNCHANGED <<pc, wpc, status, built, m_pConsoleSink, m_poThread, m_oThread,
                 installed, m_bStop, stopAt, now, signals>>

(* The sink is CMain unless that has been destroyed.                       *)
SinkIsCMain == ~(pc = "exit" /\ "CMain" \notin Alive)

(* CMain::OnCloseEvent: Stop, which calls Terminate through m_poThread.    *)
SinkStops(t) ==
  /\ Running /\ hpc[t] = "sink" /\ SinkIsCMain
  /\ hpc' = [hpc EXCEPT ![t] = "out"]
  /\ IF m_poThread = NULL
     THEN status' = "null_thread" /\ UNCHANGED m_bStop
     ELSE m_bStop' = TRUE /\ UNCHANGED status
  /\ UNCHANGED <<pc, wpc, objects, installed, stopAt, now, signals, closes>>

(* A virtual call on the destroyed object: the empty one of the base class,*)
(* or a crash.                                                             *)
SinkIsGone(t) ==
  /\ Running /\ hpc[t] = "sink" /\ ~SinkIsCMain
  /\ hpc' = [hpc EXCEPT ![t] = "out"]
  /\ status' \in {status, "dead_sink"}
  /\ UNCHANGED <<pc, wpc, objects, installed, m_bStop, stopAt, now, signals, closes>>

Elapse ==
  /\ Running /\ now < MaxNow
  /\ now' = now + 1
  /\ UNCHANGED <<pc, wpc, hpc, status, objects, installed, m_bStop, stopAt, signals, closes>>

Ended == ~Running /\ UNCHANGED vars

MainStep ==
  \/ StaticInit \/ ConstructCMain \/ InstallHandler \/ CMainConstructed
  \/ StartStore \/ StartThread \/ StartKeep \/ WaitFor \/ DestroyLast \/ Exit

WorkerStep ==
  ThreadBegin \/ SetTimers \/ LoopOn \/ LoopEnd \/ RunTimers

HandlerStep(t) == OnCloseEvent(t) \/ SinkStops(t) \/ SinkIsGone(t)

Next ==
  \/ MainStep \/ WorkerStep \/ Elapse \/ Ended
  \/ \E t \in Thread : Interrupt(t) \/ HandlerStep(t)

Spec == Init /\ [][Next]_vars

(* Every thread goes on, in the handler too.  Nothing is assumed of time   *)
(* nor of signals.                                                         *)
FairSpec ==
  /\ Spec
  /\ WF_vars(MainStep) /\ WF_vars(WorkerStep)
  /\ \A t \in Thread : WF_vars(HandlerStep(t))

-----------------------------------------------------------------------------
AppTypeOK ==
  /\ pc \in {"load", "construct", "signal", "constructed", "start", "thread",
             "keep", "wait", "exit"}
  /\ wpc \in {"none", "begin", "set", "loop", "run", "ended"}
  /\ hpc \in [Thread -> {"out", "event", "sink"}]
  /\ status \in {"running", "exited", "killed", "null_thread", "dead_sink",
                 "dead_module", "terminated"}
  /\ Alive \subseteq Object /\ Len(built) <= 3
  /\ m_pConsoleSink \in {NULL, "CMain"} /\ m_poThread \in {NULL, "CMain"}
  /\ m_oThread \in {NULL, "joinable", "joined"}
  /\ {installed, m_bOnce, m_bStop} \subseteq BOOLEAN
  /\ stopAt \in Nat \union {NULL}
  /\ now \in Nat /\ signals \in Nat /\ closes \in Nat

(* Whatever the worker touches is alive as long as it runs: the module, the*)
(* console manager and CMain are complete before it starts, and none is    *)
(* destroyed before it has ended.                                          *)
WorkerWithinLifetimes ==
  wpc \notin {"none", "ended"} => Object \subseteq Alive

(* The nodes are destroyed before the module whose elements they mark: as  *)
(* long as CMain is alive, so is the module, whoever asked for it first.   *)
ModuleOutlivesNodes == "CMain" \in Alive => "module" \in Alive

(* However many Ctrl-C come to whichever threads, the sink is given at most*)
(* one close event.                                                        *)
CloseOnce == closes <= 1

(* From the start of the worker to the destruction of CMain no Ctrl-C, on  *)
(* either thread, and no order of the two threads makes the process crash. *)
NoCrashWhileStarted ==
  [][wpc # "none" /\ "CMain" \in Alive => status' \in {"running", "exited"}]_vars

(* A Ctrl-C that reaches the sink of a program that has started its worker *)
(* stops it, also when it comes before the worker has set its timers.      *)
InterruptEnds ==
  \A t \in Thread : hpc[t] = "sink" /\ m_poThread # NULL ~> ~Running

(* Once the time of the timer that stops the program is past, the program  *)
(* ends, however late Run is called.                                       *)
StopTimerEnds == stopAt # NULL /\ stopAt < now ~> ~Running
=============================================================================
