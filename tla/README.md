# A model of dmtimer

dmtimer is a C++ timer library: a program registers timers with objects of class
`CDMTimerNode` and calls `CDMTimerModule::Instance()->Run()` from its main loop, which
calls the timers that have expired. The timers lie on a hashed hierarchical timing wheel.
This directory models the library in TLA+, checks the models with TLC and proves theorems
about them with TLAPS.

Paths below are relative to the repository.

## 1. Inventory

| Part | State | Operations | Source |
|---|---|---|---|
| timing wheel | five vectors of lists `m_tv1` .. `m_tv5` | `AddTimerElement`, `__Cascade`, choice of the vectors to cascade in `Run` | `src/dmtimermodule.cpp` |
| timer engine | `m_qwLastTime`, `m_qwCurTime`, `work_list`, elements in use | `Run`, `RemoveTimerElement`, `FetchElement`, `ReleaseElement`, `Init`, `UnInit` | `src/dmtimermodule.cpp`, `include/dmtimersink.h` |
| timer nodes | `m_oTimerElementMap` per node | `SetTimer`, `SetTimerLambda`, `SetTimerCron`, `KillTimer(id)`, `KillTimer()`, `Reset`, `CopyFrom`, `operator=`, copy constructor, destructor | `src/dmtimernode.cpp` |
| scaled clock | `m_dwTickCount`, `m_qwTotalTickCount`, `m_dwSpeed` | `GetBootTime`, `SetSpeed`, `GetTickCount32` | `src/dmtimermodule.cpp`, `include/dmtimermodule.h` |
| element pool | free lists of the pools, pools made so far | `FetchObj`, `ReleaseObj` with the destructor it ends in, the pool's end | `include/dmrapidpool.h` |
| intrusive lists | `next`, `prev` of every `list_head` | `list_add`, `list_add_tail`, `list_del`, `list_replace`, `list_move`, `list_cut_position`, `list_splice` and their variants; in the module `__Cascade`, `__ReleaseElement`, `RemoveTimerElement` | `include/dmlist.h`, `src/dmtimermodule.cpp` |
| threads and console | `m_poThread`, `m_oThread`, `m_bStop`, `m_bOnce`, `m_pConsoleSink` | `Start`, `WaitFor`, `Stop`, `SetHandlerHook`, `OnCloseEvent`, the main loop | `include/dmthread.h`, `include/dmconsole.h`, `test/dmtimertest/main.cpp` |
| cron expressions | none (pure) | `make_cron`, `cron_next` | `include/dmcroncpp.h` |
| singletons | the instances | `Instance`, construction and destruction order | `include/dmsingleton.h` |
| queue | ring buffer (used by nothing) | `Init`, `PushBack`, `PopFront` | `include/dmqueue.h` |
| `dm::any`, utilities, platform | values | pure functions and system calls | `include/dmany.h`, `dmutil.h`, `dmos.h` |

**How they interact.** A node fetches an element from the pool through the module, fills it,
links it on the wheel with `AddTimerElement` and enters it in its map. `Run` reads the clock,
and for every tick since the last one cascades, detaches the list of the tick, and for each
element on it either releases it (it is marked `m_bErased`) or calls the timer's function or
the node's `OnTimer`. The callback is the program's code and may call any operation of any
node, its own destructor included. Deletion is lazy: `KillTimer` marks the element and takes it
out of the map; only `Run` unlinks and releases it, when its time comes. The lists of the wheel
are rings of pointers that go through the elements themselves, so an element is on one list at
most. A program constructs the module before `main`, starts a worker thread that sets the
timers and loops over `Run`, and waits for it in `main`; a handler of Ctrl-C, on either thread,
sets the flag that ends the loop.

**What is hard.** The timer code runs in one thread, so the difficulty is *reentrancy*: what a
callback does to timers that `Run` is holding, and what the destructor of a released element
does to the pool; *aliasing* of pointers in the rings, which `__Cascade` goes through while it
relinks what it goes through; *ordering* over wheel levels and ticks; *boundaries* of the
wheel, of 32 and 64 bit arithmetic and of the pool; *failures* in the middle of a call (an
exhausted pool, an exception). Around it, the *interleaving* of main, worker and signal handler
and the *order of construction and destruction*. The hazards, each at its line, are in `PROJECT.json`.

**What makes the parts correct.**
- wheel: an element is visited no later than it expires, on every vector;
- engine: a callback comes on the tick of the expiry, only for a timer that is registered,
  in order of time, once per expiry; `Run` leaves no expired timer and ends; an element is on
  one list or none, is released once and never lost;
- nodes: the map and the live elements agree, whatever was replaced, copied or destroyed;
- clock: never ahead of the speed set and bounded in its loss, over wraps of the counter;
- pool: the free lists thread exactly the free slots, and an object is never handed out twice;
- lists: every list is a ring of its own, and behaves as a sequence of its entries;
- program: the worker only meets what is alive, one close event is given, a stop is not lost;
- cron expressions: a timer runs at a time its expression names, and skips
  none when it is set or run at such a time.

## 2. Modules

| Module | Models | Uses |
|---|---|---|
| `TimerWheel` | the wheel as pure operators over `vec`, the slots' sets of elements | |
| `TimerModule` | engine and nodes: the state machine | `TimerWheel` |
| `TimerService` | abstract: what the engine promises, without wheel and elements | |
| `TimerRefinement` | the mapping from `TimerModule` to `TimerService` | both |
| `MCTimer` | values of the constants for TLC | `TimerRefinement` |
| `TimerClock`, `MCClock` | the scaled clock | |
| `IntrusiveList` | the rings of `list_head`, pointer by pointer, and the module's use of them | |
| `ListQueues` | abstract: lists as sequences of entries | |
| `ListRefinement` | the mapping from `IntrusiveList` to `ListQueues`; TLC runs it as it is | both |
| `TimerApp` | main, worker and Ctrl-C from static construction to destruction | |
| `RapidPool` | the pool with its threaded free lists | `ElementAllocator` |
| `ElementAllocator` | abstract: what the pool promises | |
| `CronTimer`, `MCCron` | cron expressions, and a cron timer on the wall clock | |
| `TimerWheelProofs`, `TimerModuleProofs`, `TimerClockProofs`, `RapidPoolProofs`, `TimerAppProofs` | lemmas and theorems | the modules they are named after |
| `IntrusiveListProofs` | lemmas and theorems, the refinement among them | `ListRefinement` |
| `TimerPunctualProofs` | theorems: timers are on time | `TimerModuleProofs`, `TimerWheelProofs` |
| `TimerRefinementProofs` | theorem: the refinement | `TimerRefinement`, `TimerPunctualProofs` |

### TimerWheel
`vec[<<k, i>>]` is the set of elements on slot `i` of `m_tv`k. The order inside a list decides
only the order of the callbacks of one tick; `TimerModule` takes every order, so nothing it
shows depends on it. `Index` is `DM_INDEX` and the masks; `LevelOf` and `SlotOf` are the `if`
chain of `AddTimerElement`; `SlotOf` has the signed test of a 64 bit difference (`Negative`)
and the clamp at the far end of the wheel; `Cascade` is `__Cascade`; `CascadeIfDue` the `&&` chain of `Run`.
The numbers of slots and the width of a word are constants.

### TimerModule
`pc` is where control is. `Run` is split where the program's code can come in between or where
the choice of the next element is made:

| Action | Code (`src/dmtimermodule.cpp`) |
|---|---|
| `RunBegin` | 167-171: read the clock into `m_qwCurTime` |
| `ProcessTick` | 173-187: cascade, detach the list of the tick |
| `ReleaseErased` | 189-199: next element is erased, release it |
| `Fire` | 189-210: next element's callback is entered |
| `ReturnErased`, `Reschedule` | 212-238: the callback returned |
| `ThrowFromCallback` | an exception leaves `Run` from 205 or 209 |
| `NextTick`, `RunReturn` | 241, 173 and 244 |
| `Shutdown` | 151-165: `~CDMTimerModule` |

The operations of the nodes (`src/dmtimernode.cpp`) are one action each: they run to
completion, and they are enabled at `pc = "idle"` (between two Runs) and at `pc = "callback"`.
`SetTimer` stands for all overloads and for `SetTimerLambda`, which differ in how the callback
is reached, not in what is stored about time. An exhausted pool makes `SetTimer` return false
and change nothing; the model is of a build without assertions, where `DMASSERT(0)` and
`assert(0)` on that path do nothing. `CopyInto` takes ids in their order and skips the rest
once the pool is empty. `UnInit` runs when the program is in no Run.

Time is `now`, which `Elapse` advances where the code may read it. It stands for the value
`GetBootTime` would return; how that value is computed is the subject of `TimerClock`.

Three constants switch on what is a fault of the program rather than of a schedule:
`BadCron`, `CallbackThrows`, `CopyInCallback`. The run `lifecycle` checks what holds with all
three, the other passing runs what holds only without them.

Not in `TimerModule`: a `Run` nested in a callback; the wall clock of cron timers, whose next
time is any gap of the constant `CronGaps`; `m_qwIDEvent` and `m_strTimerObjName`, which only a
debugger reads; the queries `GetTimerElapse` and `GetTimerRemain`; the data bound to a timer.

### TimerClock
`real` is the machine's millisecond clock, `GetTickCount32` its low 32 bits. `ideal` sums the
milliseconds of each reading times the speed at the reading, `samples` counts the readings;
both exist only to state what the division drops. The one assumption is that the program reads
the clock at least once in a round of the counter (guard of `Millisecond`): a longer pause
loses whole rounds, and no code could tell. Below the normal speed the loss may be all there
is: at half of it a clock that is read every millisecond stands still, which `DriftBounded`
allows, since each reading may lose one millisecond.

### IntrusiveList, ListQueues
`mem` holds the fields `next` and `prev` of every node: the heads (`Slot`, those of the wheel,
and `Local`, the `work_list` and `tv_list` on the stack) and the entries. Each function of
`dmlist.h` is an operator from memory to memory. The stores to one field stand in the order of
the code, and a field that is read again after a store is read from the new memory, because the
nodes of a call may coincide: `list_replace` of an empty list works only because its third
store reads what the second one wrote.

`owner` says on which list a caller takes an entry to be. It appears in guards only where the
functions ask something of their callers (an entry that is added is on no list; one that is
removed is on one) and never in what they do to `mem`. `lists` are the heads that are lists at
the moment: a head on the stack is one between `LIST_HEAD` or `list_replace_init` and the end of
its function. That callers keep to this is what `Ownership` of `TimerModule` says.

| Action | Code |
|---|---|
| `AddLast` | `AddTimerElement` from the choice of the slot on |
| `RemoveFirst` | `RemoveTimerElement` of the first entry, as `Run` and `__ReleaseElement` do it |
| `ReplaceInit`, `Return` | a list goes over to `work_list`; the function is left |
| `CascadeBegin`, `CascadeStep`, `CascadeEnd` | `__Cascade`: detach, relink `pTimer` anywhere and go on with `pTemp`, leave |
| the others | the function of `dmlist.h` of that name, which a user of the header may call |

`ListQueues` has a sequence of entries for every head, and one sequence operation for every
call. `ListRefinement` maps memory to it by following `next` from each head, and the rest of a
cascade from `pTimer` on (`Contents`). It does not look at `owner`. A list that was not closed would spell a sequence no operation of `ListQueues`
gives.

### TimerApp
The program of `test/dmtimertest/main.cpp`, whose shape the other test programs share. `pc`
is main, `wpc` the worker, `hpc[t]` the handler of Ctrl-C on thread `t`; a thread stands still
while it is in the handler. `built` is the stack of the static objects that are complete:
`Instance` pushes, `DestroyLast` pops, in the reverse order as the language prescribes. `Start`
is three actions (`StartStore`, `StartThread`, `StartKeep`), since the worker and the handler
may come in between. The timers are reduced to `stopAt`, the time of the one that calls `Stop`;
what the module does with timers is the subject of `TimerModule`, and `RunTimers` uses of it
that a timer whose time is before the one Run reads is run (`RunExecutesAllExpired`,
`Implements`): Run goes through the ticks before that time and not through its own, so that
the timer of `stopAt` runs when `now > stopAt`.

`status` says how the process ended: `exited`; `killed` by a Ctrl-C before the handler was
installed; or by a fault: `null_thread` (a call through `m_poThread` before it is stored),
`dead_module`, `terminated` (a thread destroyed unjoined), `dead_sink` (a signal after the end
of `CMain`, whose outcome is undefined: the model takes each). `null_thread` and `dead_sink` do
happen in the model, before the worker is started and after `CMain` is gone.

Signals are POSIX's: the handler stays installed, and a signal is not delivered to a thread
that is handling one. The accesses to `m_bStop`, a volatile flag of one byte, are taken to be
indivisible and seen in some finite time. Not in the model: a detached worker; `m_bIsStop`,
which nothing reads; Windows, where signals come on a thread of their own and the handler must
be installed again.

### RapidPool
A pool is a record of `dwUse`, `dwFlag`, `m_wFirstFlag`, `m_nFreeCount`; `pool[i]` is `NULL`
until `FetchObj` makes it. Callers release only what they hold; that the timer module does so
is `Ownership` and `NoLeak` of `TimerModule`. `ReleaseObj` puts the slot on the free list
first and runs `~T()` then: the model stops in between (`dying`), where the destructor of
something a timer's function captured may fetch, and gets the very slot that is being
destroyed. The lists survive that; what happens to the contents of an object which is
constructed inside its own destructor is not modelled. `Teardown` is the end of the chain.

### CronTimer
`make_cron` and `cron_next` are operators, `MakeCron` and `CronNext`, over a calendar that is
scaled as the wheel is; the search is recursive as in the code, with the marked fields, the
renormalisation by `mktime` after each change of a field, and the limits on days and years. The
machine sets a cron timer with any of `Texts` at any of `Starts`, lets the wall clock come to
the time it is linked for, or pass it (`Delays`), and runs it. Texts are split into items;
strings, names of days and the trailing comma are not modelled beyond that a field which cannot
be split has no items. Daylight saving is not modelled. The timer is linked on the wall clock
itself: how its distance is converted to the clock of the wheel is `SetTimerCron` of
`TimerModule`, with any gap.

## 3. Runs

`CHECK_DEADLOCK FALSE` wherever the model has a clock: it stops at its bound, and the timer
program ends at `pc = "down"`.

| Run | Checks | Bounds |
|---|---|---|
| `wheel` | `WheelInv`, `FiresOnItsTick`, `RunExecutesAllExpired` | 2 slots per vector: vectors of 1, 2, 4, 8, 16 ticks a slot, 32 in all; time to 36, past a full turn; requests on all five vectors and beyond the wheel; one timer at a time, since wheel positions of different elements do not influence each other |
| `lifecycle` | `TypeOK`, `Ownership`, `RegisteredIsLive`, `LiveIsRegistered`, `KilledTimersStaySilent` | 2 nodes, 1 id, 3 elements, time to 3, all three faults: enough for two timers due on one tick, one of which kills, replaces or copies the other or throws, with the pool exhausted |
| `service` | `Implements`, `RunTerminates`, `DueTimersFire`, `ErasedIsReleased` | 1 node, 2 ids, 2 elements, time to 4: two timers of different periods, exact and not, late by up to four periods, with cascades from the second and third vector |
| `copies` | `NoLeak`, `PoolFullAtShutdown`, `Implements` | 2 nodes, 2 ids, 3 elements, no faults: copies of two timers where only one element is left |
| `clock` | `ClockTypeOK`, `DriftBounded`, `WholeMultiplesExact` | counter of 8 values, started at 0 and shortly before its wrap, 17 ms: two wraps; speeds 0, 1/2, 1, 7/4 and 2 |
| `pool` | `PoolTypeOK`, `FreeListThreadsFree`, `UsedIsOut`, `ImplementsAllocator` | two pools of three slots: all orders of a free list, growth, exhaustion, fetches inside a release |
| `list` | `ListTypeOK`, `RingInv`, `WalkInv`, `ImplementsQueues`, `CascadeEnds` | 2 slots, 2 heads on the stack, 3 entries: lists that are empty, of one entry, of two and longer, where the pointers of a call coincide in every way they can; a cascade of up to three entries into the detached slot (which the wheel's own cascades never choose), another one or a list on the stack |
| `app` | `AppTypeOK`, `WorkerWithinLifetimes`, `ModuleOutlivesNodes`, `CloseOnce`, `NoCrashWhileStarted`, `InterruptEnds`, `StopTimerEnds` | the stop timer after 2, time to 5, so that Run reads times before, at and up to three after that of the timer; 3 signals: one for each thread at once and one more |
| `cron` | `NextMatches`, `NoneSkipped` | years of 10 or 11 days in months of 4, 2 (in leap years 3) and 4, days of 18 seconds, weeks of 2 days, a cron_int of 8 values; every second of the first two years, every set of seconds, minutes and hours with some ranges and steps, every set of days of the month or of the week in every set of months; a Run late by 0, 1 or 5 seconds |

The bounds that cap counters are `MaxNow` (`TimerModule`, `TimerApp`), `MaxSignals` (`TimerApp`),
`MaxReal` (`TimerClock`), `INDEX` (pools, in `RapidPool`; the code has it too), and `MaxTime` and
`LastYear` (`CronTimer`; no search from a time before `MaxTime` leaves the calendar).
`Symmetry` permutes elements and nodes, which the model treats alike; ids are numbers, because
a copy takes them in order, and are not permuted. The runs with liveness use no symmetry.

### Runs that end in a violation
Each contradicts a sentence of the documentation, a comment or an assertion of the code (quoted in
`PROJECT.json` under `findings`).

- `copy_in_callback`: a node copied inside a callback while one of its timers is due. The copy
  is linked in the slot of the current tick, which Run has emptied: it is not run now, nor
  before the first vector has turned once more (256 ms).
- `bad_cron`: `SetTimerCron` with an invalid expression loses the element fetched for it; the
  pool is not full when it is destroyed, which it asserts.
- `cron_days`: an expression that restricts both the day of the month and the day of the week
  may match on no day of a whole year. `find_next_day` tries 366 days and returns the day of the
  month of the last; if that is the one it was called with, as when a February 29 lies between,
  `find_next` takes it for a match. In the calendar of the code: `0 0 0 31 * MON` asked at
  midnight of 2023-08-05 gives 2024-08-05.

### Fairness
`FairSpec` of `TimerModule` assumes weak fairness of `RunBegin` (the main loop of the program calls Run again
and again, `src/doc/tutorial.md:8`), of `RunStep` and of `CallbackReturn` (sequential code that
goes on, and callbacks that return), and strong fairness of `Elapse`: time goes on, but the
model lets it pass only where the clock can be read, so that it is enabled again and again and
not always. Nothing is assumed of the program's own calls. No fairness is assumed of
`Shutdown`; the liveness properties allow for it.

`FairSpec` of `IntrusiveList` assumes weak fairness of the steps of a cascade, a loop that
nothing interrupts. `FairSpec` of `TimerApp` assumes it of main, of the worker and of each
handler separately: the system runs every thread. Nothing is assumed of time or of signals,
so `StopTimerEnds` begins when the time of the timer is past. At that very time Run does not yet
execute it, and the program goes on until time does.

## 4. Theorems

All are proved for every value of the constants (sets of nodes, ids, elements and requests,
sizes of the wheel, lists and entries, pools and slots, number of signals) and every schedule,
from the assumptions of the modules: `WheelAssumption` and `ModuleAssumption` (the constants are
sets of the right kind, a vector has a slot, the outer ones at least two, and the wheel spans
at most half a word), `NullAssumption` (no timer is NULL),
`ClockAssumption`, `ListAssumption` (heads, entries and the marks for no pointer are different
things), `EntryAssumption` (there are finitely many entries; only the refinement of the lists needs
it), `PoolAssumption` (a pool has a slot), `AppAssumption`.

- `OwnershipHolds`: `TypeOK` and `Ownership` hold always, faults included. The conjunction is
  inductive. `Add` and the cascade are reduced to lemmas of `TimerWheelProofs` (`AddKeeps`,
  `CascadeAllKeeps`): they keep the slots disjoint, lose nothing and add only the element given.
- `RegistrationHolds`: `RegisteredIsLive` and `LiveIsRegistered` hold always. Each is needed
  for the other: that a replaced element can be killed through the map needs that the map
  points to it, and that killing it does not leave a dangling map entry needs that no other
  entry points to it. `Ownership` is used for "a released element is on no list".
- `Silence`: `KilledTimersStaySilent` from the two invariants above: only `Fire` enters a
  callback, with an element that is not erased and is on `work_list`, hence registered.
- `NothingLost`, `PoolFull`: `NoLeak` and `PoolFullAtShutdown`, assuming that no cron expression
  is invalid and no callback throws. The run `bad_cron` shows that the first is needed; an
  exception out of a callback loses `work_list`, so the second is.
- `Punctual`: `WheelInv`, `FiresOnItsTick` and `RunExecutesAllExpired`. `Schedule`: the inductive
  invariant behind it. See below.
- `Refinement`: `Implements`, the timer module implements `TimerService`. See below.
- `Drift`, `WholeMultiples`: the bound on what the clock loses, and that it loses nothing at
  multiples of the normal speed. The invariant says that `m_dwTickCount` is the counter at the
  last reading and that less than a round has passed since; then the 32 bit difference is the
  real one (`Difference`), and the division drops less than one unit per reading (`Dropped`).

- `RingsHold`: `RingInv` and `WalkInv`. The lemmas state it of any memory and any assignment of
  nodes to lists (`Rings`): what `__list_add`, `__list_del`, `list_replace`, the cut and the
  splice do to both, with the cases in which nodes coincide. Every action is then one or two of
  these. During a cascade the rings of the other lists need that the detached head is none of
  `lists`, and the rest of the walk needs that no two of its entries have one successor and
  none leads back to `pTimer`: otherwise relinking `pTimer` would change what is still ahead.
- `QueuesHold`: `ImplementsQueues`, the rings implement `ListQueues`. See below.
- `FreeListsHold`, `UsedHolds`, `PoolIsAllocator`: a free list is a numbering `chain` of the
  free slots; `TakenFits` drops its first, `GivenFits` puts one in front, and neither
  depends on whether a release is under way, which is why a fetch by a destructor does no harm.
  That a pool is full when nothing is out follows from the length of the list, a bijection
  with the slots. The refinement is step by step: a pool that is made or torn down is a
  stutter of the allocator.
- `LifetimesHold`, `ClosedOnce`, `NoCrash`: the invariant says what is built at each `pc`, that
  the worker is running only between `keep` and `exit` with `m_poThread` stored and has ended
  when `m_oThread` is joined, and that `closes` is 1 exactly when `m_bOnce` is taken. Nothing in
  it counts signals or time. `TypesHold` is the part of it that says the types.

### Timers are on time
`Punctual` rests on arithmetic of the wheel and on the inductive invariant `OnSchedule`.

*The wheel* (`TimerWheelProofs`). `Visit(s, t)` is the first tick from `t` on at which Run empties
the slot `s`. Time is divided into rounds of a slot's vector; `SameSlotSameRound` says that of two
times less than a turn apart the same index means the same slot's round, and `RoundReached`,
`VisitIsFirst` and `RootVisited` give `Visit` its meaning. From these, `SlotOnTime`: the slot that
`AddTimerElement` chooses is visited not later than the element expires, on every vector, at the
boundaries between them and for the clamp at the end of the wheel; in `m_tv1` at that very tick.
`CascadeOnTime` and `CascadeAllOnTime` carry it through `__Cascade` and the `&&` chain of Run:
an outer slot is visited when all inner indices are 0 and its elements are then put again, which
leaves no list that is due at this tick but the one of `m_tv1`. Elements that are clamped to
the end of the wheel are covered; when their slot is cascaded they may be clamped again, to the
slot before it, never to the same one.

*The invariant* (`TimerPunctualProofs`). `OnSchedule` is the conjunction of
- `TimesInOrder`: `m_qwLastTime <= m_qwCurTime <= now`, strictly inside a tick. It also says that
  the loop of Run, which stops at equality, never passes it;
- `ElementsTimely`: no time or period that is stored comes near half a word, so that the signed
  difference of `AddTimerElement` is the real one;
- `RegisteredIsOwned`: a registered element is on a list, on `work_list` or current. Without it
  nothing about lists would say anything about timers;
- `WheelOnTime`: every slot is visited in time, and inside a tick no slot that this tick visits
  holds anything: `WheelInv` alone is not inductive, since Run may link elements while it drains;
- `FiresOnItsTick`, and `CurrentOnTime`, the same of the element whose callback runs: it must be
  later than this tick when it is put back, which is where an exact timer needs a period.

A copied timer carries the time of its source, so the proof of `CopyFrom` needs that the source
is on the wheel (`RegisteredOnWheel`), which holds outside Run.

*The hypotheses.* `Timely`: neither the time nor a requested time or period beyond it reaches half
a word, an exact timer has a period, and a cron expression has a next time. Every passing run has
such constants (`RunsAreTimely` in `MCTimer`); what lies outside is listed as hazards.
`~CopyInCallback`: the run `copy_in_callback` shows that it is needed. `~CallbackThrows`: after an
exception the timers of the tick are registered but on no list; they do not run, and a copy
of such a timer is linked in the past. Invalid cron expressions are allowed.

### The refinement
`TimerRefinementProofs` follows the steps. The proof of `StepSeen` uses all of the invariants:
- calls (`UserStepSeen`): a timer that is set, killed or copied shows what the service says
  (`SetSeen`, `KillAllSeen`, `CopySeen`), no other one changes (`TimersAfter`), and the one whose
  callback runs stays `firing` exactly when it was not killed or replaced (`FiringAfter`, from
  `RegisteredIsLive` and `LiveIsRegistered`);
- `FireSeen`: the element is registered (`LiveIsRegistered`), due before the time Run has read
  (`FiresOnItsTick`, `TimesInOrder`), and no registered timer was due earlier (`RegisteredIsOwned`,
  `WheelOnTime`): the order of execution follows from the wheel's punctuality;
- `RescheduleSeen`: the time set is the service's, with no wrap of the word (`ElementsTimely`);
- `RunReturnSeen`: no registered timer was due before the time read;
- cascades, releases and the turn of the wheel change nothing that the service shows (`Unseen`).

### The rings are sequences
`Row(m, q, x, y, S)` says that from `x` the `next` pointers of a memory `m` lead through the
sequence `q` to `y`, and that `q` holds the entries of `S`, each once. It is no recursive
definition: a sequence *has* the property. So what a store does to a row is reasoning about
indices, not induction: `RowSplit` cuts a row at an entry, `RowJoin` joins two, `RowTo` gives a row
another end, and every function of `dmlist.h` is a few of these (`AddFirstRows`, `AddLastRows`,
`DelRows`, `ReplaceRows`, `JoinFirstRows`, `JoinLastRows`, `DetachRows`, `CutRows`), with `Rings`
for where the neighbours are. The entries that a cut takes, given in the model by the pointers
alone, are a prefix of the row (`FrontIs`).

That the loop of the refinement mapping meets exactly the row (`RowIsUpTo`) is the one place where
numbers are counted up: `SetInduction` states it of a set instead of a predicate, from the
well-foundedness of the naturals (of the steps at which the loop were elsewhere one would be the
least). The loop is cut off after as many steps as there are entries; `RowLength` shows that this
is enough, because a row without repetitions is no longer than that.

The invariant `QInv` says that the contents of every head are a row of its entries, for the
traversed list from `pTimer` on. `NextQueues` takes each action to its step of `ListQueues`. In
`CascadeStepQueues` the row of the detached list loses its first entry, although the store to
that entry's `next` has just led it into another list: the rest of the row does not go through it.

**Model-checked only.** Liveness (`RunTerminates`, `DueTimersFire`, `ErasedIsReleased`,
`CascadeEnds`, `InterruptEnds`, `StopTimerEnds`), which is outside what TLAPS proves.
`NextMatches` and `NoneSkipped`, since `cron_next` is recursive. Every other property of the
passing runs is proved.

`NoneSkipped` is as strong as the code allows. Asked at a time that does not match, `cron_next`
may skip some: seconds that moved forward are not set back when the minute moves after them, and
a date on the 31st that is moved to a shorter month ends in the month after (`0 0 0 * 2 *` asked
at midnight of 2023-03-31 gives February 2025). Steps so large that the 8 bit sum of
`set_cron_field` wraps are left out of the texts.

## 5. Not modelled

- `CDMQueue`, `CDMSingleton`, `CDMSingletonFrame` and `hlist`: nothing in the repository uses
  them.
- `dm::any`, `dmutil.h`, `dmos.h`, `dmtypes.h`: values, formatting and system calls without state
  of the program. The queries `GetTimerElapse` and `GetTimerRemain` change nothing either.
- A `Run` called from a callback of `Run`; more than one thread that uses timers. No document
  allows either and no program here does it.
- The contents of timers: what a function captured, the value bound to it, an object that is
  fetched while it is being destroyed.
- Daylight saving, and the relation between the wall clock of cron timers and the scaled clock.
- The benchmark and unit tests beyond the shape of `dmtimertest`; build files; googletest.

## 6. Plan

In order of importance:

1. (done) `TimerWheel`, `TimerModule`: engine and nodes; ownership, registration and silence
   checked and proved; `TimerService` and the refinement checked.
2. (done) `TimerClock`: checked and proved. `RapidPool` against `ElementAllocator`, with
   destructors inside `ReleaseObj`: checked and proved.
3. (done) `IntrusiveList` against `ListQueues`: checked; the rings and the refinement proved.
4. (done) `TimerApp`: main, worker and Ctrl-C; checked, and its safety proved.
5. (done) `CronTimer`: `cron_next` over a scaled calendar against what an expression says.
6. (done) Proofs: timers are on time; `TimerModule` implements `TimerService`.
7. Left: of `CronTimer`, what does not search (fields and their sets) in a module without
   recursive operators, so that lemmas about it can be proved.
