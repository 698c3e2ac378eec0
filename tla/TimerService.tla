---------------------------- MODULE TimerService ----------------------------
(***************************************************************************)
(* What the timer module promises the program, without wheel, lists or     *)
(* elements: every node has at most one timer per id, a timer has a time   *)
(* at which it is due, and a Run executes the timers that were due before  *)
(* the time it has read, the earliest first, each once per expiry.         *)
(***************************************************************************)
EXTENDS Integers

CONSTANTS
  Node, Id,
  NULL,       \* no timer
  Requests,   \* [cd, first, exact] arguments of SetTimer
  CronGaps,   \* time from now to the next occurrence of a cron expression
  MaxNow      \* bound on time

VARIABLES
  phase,   \* "idle", "running", "callback" (a callback of Run runs), "down"
  now,     \* the time
  cur,     \* the time the current Run has read
  alive,   \* the nodes that exist
  timers,  \* [Node -> [Id -> the timer registered, or NULL]]
  firing   \* <<node, id>> of the timer whose callback runs; NULL as soon as
           \* that timer is killed or replaced

vars == <<phase, now, cur, alive, timers, firing>>

NoTimers == [i \in Id |-> NULL]

Registered == {k \in Node \X Id : timers[k[1]][k[2]] # NULL}
Timer(k)   == timers[k[1]][k[2]]

Init ==
  /\ phase = "idle"
  /\ now = 0
  /\ cur = 0
  /\ alive = {}
  /\ timers = [n \in Node |-> NoTimers]
  /\ firing = NULL

UserCode == phase \in {"idle", "callback"}

Elapse ==
  /\ UserCode
  /\ now < MaxNow
  /\ now' = now + 1
  /\ UNCHANGED <<phase, cur, alive, timers, firing>>

(* firing when the timers of the keys K are killed or replaced.            *)
Without(K) == IF firing \in K THEN NULL ELSE firing

Construct(n) ==
  /\ UserCode
  /\ n \notin alive
  /\ alive' = alive \cup {n}
  /\ UNCHANGED <<phase, now, cur, timers, firing>>

Set(n, i, timer) ==
  /\ UserCode
  /\ n \in alive
  /\ timers' = [timers EXCEPT ![n][i] = timer]
  /\ firing' = Without({<<n, i>>})
  /\ UNCHANGED <<phase, now, cur, alive>>

SetTimer(n, i, q) ==
  Set(n, i, [due |-> now + q.first, cd |-> q.cd, exact |-> q.exact, cron |-> FALSE])

SetTimerCron(n, i, gap) ==
  Set(n, i, [due |-> now + gap, cd |-> 0, exact |-> FALSE, cron |-> TRUE])

Kill(n, i) == Set(n, i, NULL)

KillAll(n) ==
  /\ UserCode
  /\ n \in alive
  /\ timers' = [timers EXCEPT ![n] = NoTimers]
  /\ firing' = Without({n} \X Id)
  /\ UNCHANGED <<phase, now, cur, alive>>

Destroy(n) ==
  /\ UserCode
  /\ n \in alive
  /\ alive' = alive \ {n}
  /\ timers' = [timers EXCEPT ![n] = NoTimers]
  /\ firing' = Without({n} \X Id)
  /\ UNCHANGED <<phase, now, cur>>

(* n takes over the timers of m, due when m's are; those of the largest    *)
(* ids may be missing when resources run out.  What n had before is kept   *)
(* (CopyFrom) or not (the assignment and the copy constructor).            *)
Copy(n, m, before) ==
  /\ phase = "idle"
  /\ m \in alive
  /\ alive' = alive \cup {n}
  /\ \E first \in SUBSET Id :
       /\ \A i \in first, j \in Id \ first : i < j
       /\ timers' = [timers EXCEPT ![n] =
                       [i \in Id |-> IF i \in first /\ timers[m][i] # NULL
                                       THEN timers[m][i] ELSE before[i]]]
  /\ UNCHANGED <<phase, now, cur, firing>>

RunBegin ==
  /\ phase = "idle"
  /\ cur' = now
  /\ phase' = "running"
  /\ UNCHANGED <<now, alive, timers, firing>>

Fire(k) ==
  /\ phase = "running"
  /\ k \in Registered
  /\ Timer(k).due < cur
  /\ \A l \in Registered : Timer(k).due <= Timer(l).due
  /\ firing' = k
  /\ phase' = "callback"
  /\ UNCHANGED <<now, cur, alive, timers>>

(* The next time a timer is due.  An exact timer keeps its rhythm, however *)
(* late it runs; another one that is late starts a new rhythm.             *)
Later(t, gap) ==
  CASE t.cron -> cur + gap
    [] ~t.cron /\ ~t.exact /\ cur >= t.due + t.cd -> cur + t.cd
    [] OTHER -> t.due + t.cd

Return(gap) ==
  /\ phase = "callback"
  /\ firing # NULL /\ Timer(firing).cron => gap \in CronGaps
  /\ phase' = "running"
  /\ firing' = NULL
  /\ timers' = IF firing = NULL THEN timers
               ELSE [timers EXCEPT ![firing[1]][firing[2]] =
                                      [@ EXCEPT !.due = Later(Timer(firing), gap)]]
  /\ UNCHANGED <<now, cur, alive>>

(* A Run ends only when nothing is left that was due before it began.      *)
RunEnd ==
  /\ phase = "running"
  /\ \A k \in Registered : Timer(k).due >= cur
  /\ phase' = "idle"
  /\ UNCHANGED <<now, cur, alive, timers, firing>>

Shutdown ==
  /\ phase = "idle"
  /\ phase' = "down"
  /\ timers' = [n \in Node |-> NoTimers]
  /\ UNCHANGED <<now, cur, alive, firing>>

UserStep ==
  \E n \in Node :
    \/ Construct(n)
    \/ KillAll(n)
    \/ Destroy(n)
    \/ \E m \in Node : Copy(n, m, timers[n]) \/ Copy(n, m, NoTimers)
    \/ \E i \in Id :
         \/ Kill(n, i)
         \/ \E q \in Requests : SetTimer(n, i, q)
         \/ \E gap \in CronGaps : SetTimerCron(n, i, gap)

Next ==
  \/ Elapse
  \/ UserStep
  \/ RunBegin
  \/ \E k \in Node \X Id : Fire(k)
  \/ \E gap \in CronGaps \cup {0} : Return(gap)
  \/ RunEnd
  \/ Shutdown

Spec == Init /\ [][Next]_vars
=============================================================================
