# TLA+ models of the Linux timer code and of the experiment that measures it

The repository studies Linux timers: it carries the kernel's timer sources
(`src/linux_source/`), a benchmark that measures how late `clock_nanosleep()`
returns (`src/src/timer_benchmark.c`), a load generator, scripts that run the
measurements and Python programs that analyse them. This directory holds TLA+
models of the parts in which steps of several actors meet, TLC configurations
that check them on small instances, and proofs, checked by TLAPS, that hold for
every value of the constants.

Paths in this file are relative to the repository (`src/...`), module names to
this directory. `PROJECT.json` has, for every definition, the lines it models.

## 1. The system

| Component | Source | State | Operations | Model |
|---|---|---|---|---|
| hrtimer: bases and locks | `linux_source/kernel/time/hrtimer.c` | `timer->base`, `is_queued`, per clock base `running`, `seq`, the queue; per CPU base `lock`, `online` | start, try_to_cancel, cancel, active, expiry of a timer, CPU dying and starting | `HrtimerBase`, `HrtimerAbs` |
| hrtimer: expiry and event device | same | `expires_next`, `next_timer`, `softirq_expires_next`, `softirq_activated`, `deferred_*`, `hang_detected`, offsets, `clock_was_set_seq`, the device | interrupt, softirq, deferred rearm, start and cancel, retrigger IPI, `clock_was_set()` | `HrtimerEvent` |
| hrtimer: nanosleep | same | the sleeper on the stack, the task's state, the restart block | the system call, the wakeup callback, signals, restart | `Nanosleep` |
| hrtimer: arithmetic, time-ordered queue | same, `lib/timerqueue.c` | none, linked rbtree | `ktime_add_safe`, `hrtimer_forward`, `timerqueue_linked_add` | planned |
| timer wheel: buckets | `timer.c` | `clk`, `next_expiry`, `next_expiry_recalc`, `timers_pending`, `is_idle`, bitmap, vectors, `running_timer` | `mod_timer` and its variants, `timer_delete`, `__run_timers`, idle entry and exit | `TimerWheel` |
| timer wheel: bases | `timer.c` | `timer->flags` (CPU, `TIMER_PINNED`, `TIMER_MIGRATING`), `timer->function`, the local and the global base of each CPU | start and its variants, deletion and shutdown with and without waiting, local and remote expiry, `timers_dead_cpu` | `TimerBase` |
| POSIX interval timers | `posix-timers.c` | `k_itimer`, hash, signal state | `timer_create/settime/gettime/getoverrun/delete`, expiry, signal delivery, exit | `PosixTimers` |
| clocksource watchdog | `clocksource.c` | the last readings, `watchdog_reset_pending`, the sequence number of two CPUs | watchdog timer, frequency check, handshake with a remote CPU | `Watchdog` |
| clocksource selection | `clocksource.c` | the two lists, ratings and flags, `watchdog`, `curr_clocksource`, `suspend_clocksource`, timer, work item and thread | register, unbind, override, choose, mark unstable, demote | `Clocksource` |
| timekeeping: values | `timekeeping.c` | `struct timekeeper`, leap second and suspend state | tick, set, steer, leap second, change of clocksource, suspend, resume, every read function | `Timekeeping` |
| timekeeping: publication | `timekeeping.c` | `tk_core.seq`, vDSO data, two latches | write an update, read it from any context | `TkReaders` |
| clock event devices | `clockevents.c` | device state, `next_event`, `min_delta_ns` | program, shutdown, replacement | planned |
| jiffies | `jiffies.c` | one counter | read under a sequence lock | no (as `TkReaders`) |
| experiment | `src/timer_benchmark.c`, `src/cpu_load.c`, `scripts/run_*.sh`, `final_report/supplementary/` | processes, signals, result files | see the plan | planned |
| one-call helpers | `src/check_resolution.c`, `supplementary/slackexec.c` | none | one system call each | no |
| analysis, plots, report | `scripts/*.py`, `final_report/**/*.py` | files | statistics in floating point, layout | no |
| kernel `Makefile` | `linux_source/Makefile` | none | build configuration | no |

How they interact. User space sleeps through `hrtimer_nanosleep()`, which puts an
hrtimer and a sleeper on the stack of the task, starts the timer and schedules.
`hrtimer_start()` queues the timer on a clock base of some CPU, possibly moving it
there, and programs the CPU's clock event device if the timer is the first. The
device's interrupt runs expired hard timers and raises the softirq for soft ones;
the callback of a sleep wakes the task. `timekeeping.c` owns the clock offsets and
calls `clock_was_set()` when they change, which tells every CPU to look at its
timers again. POSIX timers are users of hrtimers that add a signal, a lock of
their own and overruns. The timer wheel is driven by jiffies from the tick, needs
no device, and tells the idle loop how long the tick may be stopped; its global timers
may be expired by another CPU. `clocksource.c` chooses the counter `timekeeping.c`
computes time from, checks it against another with a timer of the wheel, and takes it out
of use through a work item and a thread when it is found bad.

What is hard here, in the order in which the models take it on:

- Lockless readers and lookups: `hrtimer_active()` decides from four loads,
  `lock_hrtimer_base()` and `lock_timer_base()` find the lock through a pointer
  that the lock protects, `mod_timer()` looks before it locks.
- Locks that are dropped around callbacks and between two bases, so that anything
  happens to the timer in the middle of an operation.
- Work that is left to somebody else: a rearm left to the end of the interrupt, a
  start left to the softirq, a first timer left to an IPI, an expired timer left to
  the caller, a clock change left to a CPU that has seen its sequence number.
- Cached summaries (`expires_next`, `next_expiry`, the bitmap) that must mirror a
  queue.
- Wakeups, signals and timeouts that meet in one task state.
- CPUs that go away and come back, and clocks that are set.
- Readers in NMIs, which must neither wait for the writer they interrupt nor see half an
  update, and several interfaces to one time that are written one after the other.
- Two CPUs that wait for each other with interrupts off, and give up.
- Arithmetic on words that wrap, rounding, and capacity limits.

The full list, each at its line and with the properties that guard it, is under
`hazards` in `PROJECT.json`.

## 2. Modules

| Module | Contents |
|---|---|
| `HrtimerAbs` | what the hrtimer core promises: a timer is armed, disarmed, fires, finishes |
| `HrtimerBase` | the locks, bases, migration, expiry, cancel, hotplug |
| `HrtimerBase_proofs` | its inductive invariant, safety and refinement of `HrtimerAbs` |
| `HrtimerEvent` | the queues by time, interrupt, softirq, device, clock setting |
| `HrtimerEvent_proofs` | `expires_next` mirrors the device and is in time for every timer, also when the clock is set |
| `Nanosleep` | the sleeping task over `HrtimerAbs` |
| `Nanosleep_proofs` | its inductive invariant, safety and use of `HrtimerAbs` |
| `TimerWheel` | one base of the timer wheel, by time, with the idle CPU |
| `TimerWheel_proofs` | its inductive invariant: no timer is lost, early or late, and an idle CPU wakes up |
| `TimerBase` | the bases of all CPUs: migration, deletion, shutdown, hotplug |
| `TimerBase_proofs` | its inductive invariant and all its properties |
| `PosixTimers` | the POSIX timers of a process: system calls, expiry, signals |
| `PosixTimers_proofs` | its inductive invariant, references, IDs and overruns; which signals are accepted, and that a periodic timer stays alive |
| `Timekeeping` | the values the clocks show |
| `TkReaders` | how an update reaches the readers, word by word |
| `Timekeeping_proofs` | two invariants: the clocks never go back, all interfaces tell one time, and leap seconds are announced (`Timekeeping`); a reader gets one update, and no older one afterwards (`TkReaders`) |
| `Watchdog` | the judgement of one clocksource, and the handshake of two CPUs |
| `Clocksource` | the lists of clocksources and the choices made from them |
| `Clocksource_proofs` | its inductive invariant and safety; a good clocksource is kept and the skew of one that passes is bounded (`Watchdog`) |
| `MC*` | values of constants and symmetry sets for TLC |

`HrtimerAbs` is where the modules meet: `HrtimerBase` is shown to implement it,
`Nanosleep` uses a timer that behaves like it, and `HrtimerEvent` supplies the
fact `Nanosleep` takes as fairness, that a queued timer fires when its time comes.
`PosixTimers` has its hrtimers behave in the same way. The other modules meet at one
event each: `Timekeeping` hands the offsets to the hrtimer bases (`UpdateOffsets`), which
`HrtimerEvent` starts from; `TkReaders` takes a whole update of `Timekeeping` as a number;
`TimerBase` lets any set of a base's timers expire, of which `TimerWheel` says when;
`Watchdog` judges one clocksource, and `Clocksource` takes any judgement.

### HrtimerBase

Each CPU has one clock base (the clock bases of a CPU share nothing but its lock).
A step is a section of code in which no other context can tell the order of the
accesses: a whole locked section, or one write of it where a lockless reader can
see between two, or one load of that reader. Expiry times are left out: any queued
timer may expire, so every order of expiry is covered.

| Actions | Code |
|---|---|
| `LockRead`, `LockAcquire` | `lock_hrtimer_base()`: read `timer->base`, lock it, check it is still the base |
| `StartKeep`, `StartRemoveInactive`, `StartRemove`, `Switch*`, `Enqueue`, `StartDone`, `StartExpired` | `hrtimer_start_range_ns()` and its `_user` variant, `switch_hrtimer_base()` with `migration_base`, a target CPU chosen by `get_nohz_timer_target()` among the online ones, a refusal when the timer is too early for the target |
| `ActBase` ... `ActRecheck`, `CancelRunning`, `CancelRemove` | `hrtimer_active()` load by load, `hrtimer_try_to_cancel()`, `hrtimer_cancel()` |
| `ExpBegin` ... `ExpClear` | `__hrtimer_run_queues()` and `__run_hrtimer()` with its two barriers |
| `CpuDying`, `CpuStarting` | the hotplug callbacks, which move all timers to another CPU and reset a base |

`LockProtects`, `QueueMatchesBase`, `CancelSeesInactive` and the refinement
`ImplementsAbs` are checked; `TypeOK` and `OfflineIsEmpty` are proved. `quiet` and
`strayed` are history variables, updated by `Observe` in every action: whether the
timer was inactive at some moment of the call, and whether `timer->base` moved away
from the base the reader had taken.

### HrtimerEvent

High resolution mode, several CPUs, hard and soft timers, on CLOCK_MONOTONIC and
CLOCK_REALTIME. A section that holds one base lock is one step, so the C functions
are operators from the `struct hrtimer_cpu_base` record to its new value
(`UpdateNextEvent`, `Reprogram`, `Rearm`, `Remove`, `ProgramNoUpdate`, `Program`),
composed in the order the code calls them. `walk` says for each CPU and mode how
far `__hrtimer_run_queues()` has got; the callback runs with the lock dropped, so
`StartKeep`, `StartMove` and `Cancel` from any CPU interleave. `setter` is
`clock_was_set()`: it looks at each CPU under its lock (`Look`), and interrupts those
that need it (`Retrigger`). Time passes at any moment, also while callbacks run, which
is how the three passes and the hang delay of `hrtimer_interrupt()` come about.

Assumptions made where the code leaves `hrtimer.c`: programming the device
succeeds (clamping to `min_delta_ns` is in `clockevents.c`); the deferred rearm
happens before interrupts are enabled again and before the softirq runs;
`smp_call_function_many()` runs the function on every CPU of its mask; timers of
equal expiry are taken in any fixed order. Not in the module: the low resolution
path, PREEMPT_RT expiry locks, `hrtimer_forward()`, CPU hotplug.

### Nanosleep

One action per access to a word that sleeper, callback and signals share: the
task's state, `sleeper->task`, the pending signal. `StartQueued` and
`StartRefused` are the two outcomes of `hrtimer_start_expires_user()`; the
callback is three steps (`t->task = NULL`, `wake_up_process()`, return). `Handled`, `Restart`
and `Again` model what the signal code does with `-ERESTART_RESTARTBLOCK` and
`-ERESTARTNOHAND`; it is outside this repository. `due` is history: the time the
caller has asked for.

### TimerWheel

One timer base. Jiffies, the clock and the expiry times are words of `W` bits and
all comparisons are the wrapping ones of the code; the wheel's parameters
(`LVL_CLK_SHIFT`, `LVL_BITS`, `LVL_DEPTH`) are constants, and `1 << n` is `Pow2[n]`. A
caller may ask for any time that is less than `Reach` away from jiffies: half a word, but for what the
base itself may be ahead or behind. A list of timers is the set
of timers that carry its index (`Vector`) plus the timers moved to the local lists of
`__run_timers()` (`Collected`), because a collected timer keeps the index of the bucket
it has left; the order within a list is left open.

| Actions | Code |
|---|---|
| `ModPending`, `ModInactive`, `ModNothing` | `__mod_timer()`: `mod_timer`, `mod_timer_pending`, `timer_reduce`, `add_timer` |
| `Delete` | `timer_delete()` |
| `Collect`, `Expire`, `CallbackDone`, `RunDone` | `__run_timers()`, `collect_expired_timers()`, `timer_recalc_next_expiry()`, `expire_timers()` with the lock dropped around each callback |
| `TryToSetIdle`, `ClearIdle` | `__get_next_timer_interrupt()` with its forwarding of clock and `next_expiry`, `timer_clear_idle()` |
| `Tick` | the passing of a jiffy |

`due` and `placed` are history: the time of the bucket a timer was put into, and
whether it was beyond the capacity of the wheel or modified after it had been
collected. `ModPending` compares the old bucket with the new one or, for a caller that found the timer
inactive when it looked without the lock, does not. `NoWarning` has the two `WARN_ON_ONCE()`: that of
`__run_timers()`, and that of `__forward_timer_base()` at each place that calls it, `mod_timer()` whenever the
lock is free, and the idle loop if the next expiry it has computed is not after jiffies (else the clock is
forwarded to jiffies and the condition is not looked at). Assumptions: the idle loop's notion of "now" is the current jiffy, and
an idle CPU takes its timer interrupt no later than `MaxLag` after the time it was
programmed for, and one that was sent an IPI runs its softirq no later than `MaxLag` after
`next_expiry`, as a busy one. Not in the module: deferrable timers, several bases (see `TimerBase`),
the timer migration hierarchy.

### TimerBase

The other half of `timer.c`: two bases per CPU, local and global, and no time. A section that
holds one base lock is one step. Between the look at `timer->flags` and the lock,
between the lock of the old base and that of the new one, and around the callback,
anything may happen. A callback is a context of its own, the one of the CPU that runs it.

| Actions | Code |
|---|---|
| `ModTimer`, `AddTimer`, `AddTimerOn`, `Delete`, `DeleteSync` | the calls up to `lock_timer_base()`: the unlocked look, the change of `TIMER_PINNED`, the first read of the flags |
| `ReadAgain` | the loop of `lock_timer_base()` |
| `NothingToDo`, `Enqueue`, `Leave`, `Arrive` | the rest of `__mod_timer()` and `add_timer_on()`: nothing, on the same base, to another base |
| `DeleteLocked`, `TryToDelete` | `__timer_delete()`, `__try_to_del_timer_sync()`, each with its shutdown |
| `RunTimers`, `CallbackDone` | `__run_timers()`, `expire_timers()`, by the softirq or by `timer_expire_remote()` |
| `CpuDying`, `TimersDead`, `CpuPrepare` | the hotplug callbacks |

Assumptions, from the comments in the code: `add_timer()` and its variants are not used
beside another call that starts the timer; who calls `add_timer_on()` keeps the CPU
online; a CPU is not taken down while a move to it is under way (interrupts are off there);
remote expiry of a CPU is over when `timers_dead_cpu()` runs. `strayed` is history: an
`add_timer()` variant has changed the flags of a timer while its function ran
(section 5). Not in the module: the deferrable base, which behaves as the local one, and
`timer->expires`.

### PosixTimers

The timers of one process, called from several threads. A step is a section with
`it_lock` (or the lock of a hash bucket) held; between the lookup under RCU and the
lock, between a back-off and the next attempt, and between `siglock` and `it_lock` in
the delivery of a signal, anything may happen. A `k_itimer` is a record of its reference
count, its place in the hash, its setting and its sequence numbers; its hrtimer is
`HrtimerAbs` with an expiry time.

| Actions | Code |
|---|---|
| `Create`, `AddAt`, `AddFails`, `Publish`, `CreateFails` | `do_timer_create()`, `posix_timer_add()` with an ID of the counter or of the caller |
| `Lookup`, `LookupFails`, `GetTime` | `lock_timer()`, `common_timer_get()` |
| `SetRetry`, `Again`, `Set` | `do_timer_settime()`, `common_timer_set()`, `common_hrtimer_arm()` |
| `Delete`, `DeleteAgain`, `UnhashAndFree`, `Exit` | `timer_delete()`, `exit_itimers()` |
| `Fire`, `PosixTimerFn`, `FnDone` | the hrtimer core and `posix_timer_fn()` |
| `DeliverStale`, `DeliverOneShot`, `DeliverInterval` | `posixtimer_deliver_signal()`, `common_hrtimer_rearm()` |

`Dequeue`, `SendSigqueue`, `Ignore`, `Unignore` and `Flush` stand for `kernel/signal.c`,
which is not in the repository, as the comments and reference counts here rely on it.
`first`, `reported` and `fired` are history: the first expiry of
the setting, the intervals reported for it, and whether it has expired. Freed memory may be used for a new timer as soon as no reader under RCU
can hold it. Not in the module: hash buckets, the copying of arguments to and from user
space, the clamping of the overrun count to an `int`, CPU and alarm timers, and the
clock system calls of the file.

### Timekeeping

A counter of `size` values is read by every CPU; `tk` is `struct timekeeper` with shifted
nanoseconds kept shifted. A section that holds `tk_core.lock` is one step and builds the
new timekeeper from the old by the functions of the code, in their order: the shadow copy
is the old value of `tk` when an update is given up.

| Actions | Code |
|---|---|
| `UpdateWallTime` | `update_wall_time()`: logarithmic accumulation, `timekeeping_adjust()`, the second overflow and the leap second |
| `SetTimeOfDay`, `AdjSetOffset`, `AdjStatus`, `AdjFrequency` | `do_settimeofday64()`, `do_adjtimex()` by what it changes |
| `ChangeClocksource` | `change_clocksource()` |
| `Suspend`, `Sleep`, `Resume`, `RtcResume` | `timekeeping_suspend()`, `timekeeping_resume()`, `timekeeping_inject_sleeptime64()` |
| `UpdateOffsets` | `ktime_get_update_offsets_now()` |
| `Pass` | time |

The read functions are operators (`Mono`, `Raw`, `WithOffset`, `Ts64`, `RealTs64`, `RealFast`,
`CoarseTs64`, ...), each computing from the fields that its code reads; the properties compare
them. NTP is any multiplier within `MaxAdj` of that of the clocksource and the state of
the leap second; positive and negative leap seconds are at the end of a `Day` of two
seconds. The multiplication of cycles wraps at `W` bits where the code's does, and
takes the wide path where the code does. A loop that takes whole seconds out of the
nanoseconds is a step (`NextSec`) taken as often as there are seconds (`AccumulateSecs`). What
the code takes care of elsewhere is named at the end of the module and assumed true by
`MCTimekeeping`: an update comes in time (`UpdatesInTime`), NTP changes less than a second in an interval
(`SteersSlowly`), and a counter that is one behind is told from one that has run far
(`SeesLagging`, a condition of that part of `ReadersAgree`). `LeapIsAnnounced` compares what an hrtimer base takes with
what the tick will do where the leap second is known to come (`LeapIsKnown`: an insertion, not a deletion, whose
second is still ahead; section 5 has what that leaves out) and the clocks are below `KTIME_MAX`, which
stands for no leap second (`BeforeEndOfTime`, true of every state of the run). Not in the module: `ntp.c`, auxiliary clocks, the
multigrain floor, cross timestamps.

### TkReaders

One update is written in the order of `timekeeping_update_from_shadow()`: sequence counter, vDSO
data, the latch of the monotonic clock, that of the raw clock, the seconds, the copy of the
timekeeper, sequence counter. A copy of several words is written and read word by word;
what a word holds is the number of the update it belongs to. The readers: those that wait for
`tk_core.seq`, those that read a latch (from an NMI too), the vDSO, and the unlocked
seconds of `ktime_get_real_seconds()`. `suspend` and `resume` are
updates with a frozen latch (`halt`) in between, during which only NMIs run. The vDSO's own sequence counter is
outside the file and taken as atomic.

### Watchdog

`walk` is the program counter of the watchdog timer's handler on CPU 0 with the local
variables of `watchdog_check_freq()`; `side[c]` are the two executions of
`watchdog_check_skew()` for the remote CPU `c`, and `cpu[c]` the data they share. Time passes at any moment
and is the watchdog's counter, which wraps at `WdWidth` bits; the clocksource runs at a rate of
its own and is seen with a skew on other CPUs. `source` is the clocksource under watch; `walk.start` is no
variable of the code but remembers when the check of a CPU began, for
`SuccessBoundsSkew`. (The specification is called `WatchdogSpec`, since `Clocksource_proofs` is about both modules.)

| Actions | Code |
|---|---|
| `Expire`, `ReadFirst`, `ReadSecond`, `ReadLate`, `ReadDone` | the timer, the readout with its retries, the comparison and the resets |
| `SkipSelf`, `SkipBusy`, `StartCheck`, `RunRemote`, `EnterRemote` | the choice of the CPU to be tested, the asynchronous call, its arrival (which drops the lock of the call), and the start of its function |
| `Arrive`, `LookOn`, `ReadTurn`, `GiveUp`, `TimeOut`, `Compare`, `LeaveRemote`, `TakeResult` | the turns, on both sides, and the results |
| `CheckResult`, `LeftAlone`, `Rearm`, `Stop` | what is made of the result; the timer; a debugger that stops the machine |

### Clocksource

Who holds `clocksource_mutex` goes from one step to the next with it (`op`): a choice, its
notification to timekeeping, the choice of a watchdog, the end of the call. The watchdog's
handler and `clocksource_mark_unstable()` take `watchdog_lock` only and come in between.

| Actions | Code |
|---|---|
| `Register`, `Unbind`, `Store`, `Select`, `Notify`, `RegisterEnds`, `ReplaceWatchdog`, `UnbindBusy`, `UnbindEnds` | the calls that hold the mutex |
| `MarkUnstable`, `Fire`, `Scan`, `ScanStopped` | the timer's handler on any verdict, and who else marks a clocksource |
| `StartThread`, `StartFails`, `RunThread`, `Demote` | the work item and the thread |
| `DoneBooting`, `SwitchToOneshot` | the end of the boot, the tick |

A clocksource whose module or device cannot be had (`try_module_get()`, `enable()`) is one
of `MayBreak`, one that the architecture may mark unstable is `Distrusted`, whether it is watched (it is on
`watchdog_list` already) or not (`MarkUnstable` puts it there). A user does not register a clocksource
that is on one of the lists, since that would overwrite its links. `Select` walks the list in one step: each change
of a flag that it may miss or see in part calls for another choice. `present` and `outcome` are history: what the
users have registered and not removed, and what became of the last choice. The properties use them to name
the cases in which the code does not do what it should (section 5): an unstable clocksource that is not
to be verified is put back on the list by the thread after its removal (`Strays`); a choice is refused, or made
for a tick mode that has changed when it is installed. No action is kept from taking place to exclude these.

## 3. What the runs check

| Run | Question | Bounds |
|---|---|---|
| `hrtimer_base` | Is a timer always under the lock of its base, in one queue, and does a lockless cancel see the truth, through CPU hotplug too? Is the whole a `HrtimerAbs`? | 2 CPUs, 1 timer, 2 callers of which one cancels, `base->seq` up to 4 (two expiries on one base) |
| `event_softirq` | Does the device follow `expires_next`, also through overlong callbacks, and does every timer, hard or soft, expire? | 1 CPU, time to 4, 4 starts, hang delay 1 |
| `event_clock_set` | Is every timer covered, on all CPUs, while the clock is set? | 2 CPUs, 2 hard timers, one on each clock, 2 settings, 2 starts, slack 1 |
| `nanosleep` | No lost wakeup, no early return, no live timer on a dead stack | 1 task, 2 calls, 2 signals, 1 stray wakeup, time to 4 |
| `posix_timers` | References, IDs, overruns, stale signals and the life of a periodic timer | 2 timers, one of them SIGEV_NONE, 2 threads, 4 calls, 2 IDs, time to 2, clock set back once |
| `timer_wheel` | Is no timer of the wheel lost, late or early, and does an idle CPU wake up for it? | 2 timers, 3 levels of 4 buckets, 7 ticks, words of 8 bits |
| `timer_base` | Do the synchronous deletions return when the timer is idle, is a shutdown final, is a timer on the base its flags name and never called twice at a time? | 2 CPUs with 2 bases, both may go offline; 1 timer; a thread that starts it in every way, one that stops it in every way, a callback that starts it |
| `timekeeping` | Do the clocks agree, never go back, count a sleep once, and are leap seconds seen in time? | 2 counters of 16 and 8 values, 2 operations and any number of ticks in 6 ns with 3 ns to the second |
| `tk_readers` | Does a reader get one update, not older than what another interface has shown, and does an NMI get an answer at all? | 1 reader of any kind, 3 updates, suspend and resume |
| `watchdog` | Is a good clocksource kept and a skewed one found, and does nobody wait for ever? | 2 CPUs, 3 turns each, counters of 3 and 4 bits, skew 1 either way, time to 9, one stop |
| `clocksource` | Is nothing removed in use, the best one in use in the end, and is a bad one demoted? | jiffies, 2 watchdogs of which one may be marked unstable, 1 to be watched; 3 calls, 2 threads, 1 that cannot be started |
| `coarse_back` | Do the coarse clocks never go back? (they do) | 1 counter, 1 `adjtimex()`, 9 ns with 4 ns to the second |

Why the bounds suffice. In `HrtimerBase` contexts interact only through one timer and
one base at a time, and the shortest surprising behaviours (section 5)
need two bases, one canceller and one starter and two expiries; the proofs remove the
bounds. In `HrtimerEvent` a decision depends on at most the first timer, the one
that is started, and the mode and clock of each; each run has two timers
that differ in the aspect it is about. `event_clock_set` has hard timers only, all of which
its two properties are about (`Sure`); with a soft one beside them those on CLOCK_REALTIME would be excepted. `Nanosleep` has one task because tasks share
nothing. In `TimerWheel` two timers suffice to share a bucket, to be collected
together, and to be first and second; the requested distances put a timer
on level 1 (5; on level 2 when the clock of the base lags), beyond the capacity (13) and
into the past (255 = -1); rounding and stale clocks put it on level 0. The run starts 3
ticks before the word, and with it every level, wraps, and 7 ticks let a timer of level 2
expire. In this run uptime
is shorter than `TIMER_NEXT_MAX_DELTA`, so that `WithinDelta`, the hypothesis of the theorems, is true of
each of its states; see sections 4 and 5.

In `PosixTimers` two threads meet on one timer in every combination of calls and delivery,
two timers suffice to collide on an ID, with two IDs the counter wraps, and four calls
create two timers, delete one and create it again. Two ticks and a clock that can be set
back make a late delivery with overruns, an expiry that repeats, and a rearm that has
expired already.

In `TimerBase` two CPUs with two bases each allow every move: between CPUs, between the bases
of one CPU, by hotplug, and remote expiry of one base while the other is local. One timer
shows what happens to a timer between bases; what several timers on one list
add is covered by the proofs. `Timekeeping` has seconds of 3 ns and tick intervals of 2 ns,
so that seconds and intervals do not coincide, counters that wrap, one of them twice, during the
run, idle times (5 ns) beyond what one multiplication may take, and days of two seconds, so
that leap seconds of both signs are taken. In `TkReaders` a reader that is delayed can meet the third update, when
both halves of a latch have been written anew; the proofs remove the bound. In `Watchdog` a time of 9 allows
three rounds, hence a late call of the first in the second, also one that has dropped its lock and not begun; the sequence number may
stop anywhere. In `Clocksource` three calls register one and unbind another, or register two and
override one; a stray that is in use again takes a fourth call, which was looked at without the liveness property.

`CHECK_DEADLOCK FALSE` is given where modelled time or the number of calls is
bounded, so that the model stops at the bound.

Fairness. `HrtimerEvent!Fairness` asks that time passes, that an interrupt whose time
has come is taken, that a handler that has begun goes on and that a callback
returns: what hardware and the interrupt code provide. It does not ask that any
timer expires, which is the property. `Nanosleep!Fairness` asks that time passes, that a
task or callback that can run does, and that a queued timer past its hard expiry
fires, which is `EveryTimerExpires` of the run `event_softirq`. `TkReaders` asks that
readers go on, each by itself; nothing is asked of the writer, so that an NMI reader
may not wait for it. `Watchdog` asks that time passes and that both sides of a check go on once they
have begun or the interrupt has come, since they run with interrupts off; the remote call may never come. `Clocksource` asks that work items, threads and
timers run and that who has the mutex goes on. The other modules have no fairness
and no liveness.

## 4. What is proved

For every number of CPUs, timers, callers and tasks, and every value of the bounds:

| Theorem (`HrtimerBase_proofs`) | Statement |
|---|---|
| `TypeCorrect`, `LocksProtect`, `NoTimerLost`, `OfflineStaysEmpty` | `Spec => []TypeOK`, `[]LockProtects`, `[]QueueMatchesBase`, `[]OfflineIsEmpty` |
| `CancelSound` | `Spec => CancelSeesInactive` |
| `Refinement` | `Spec => ImplementsAbs` |

| Theorem (`Nanosleep_proofs`) | Statement |
|---|---|
| `TypeCorrect`, `FrameStaysDead`, `NeverReturnsEarly` | `Spec => []TypeOK`, `[]FrameIsDead`, `[]NeverEarly` |
| `RestSuffices`, `ExpiryIsKept` | `Spec => RestIsEnough`, `RestartKeepsExpiry` |
| `Refinement` | `Spec => UsesHrtimer` |

| Theorem (`PosixTimers_proofs`) | Statement |
|---|---|
| `TypeCorrect`, `ReferencesExact` | `Spec => []TypeOK`, `[]RefsAreExact` |
| `IdsUnique`, `OverrunsSum` | `Spec => []IdsAreUnique`, `[]OverrunsAddUp` |
| `SignalsCurrent`, `PeriodicAlive` | `Spec => []SignalIsCurrent`, `[]PeriodicStaysAlive` |

| Theorem (`HrtimerEvent_proofs`) | Statement |
|---|---|
| `NextMirrors` | `Spec => []NextMirrorsDevice` |
| `EventNotMissed`, `ClockSetFollowed` | `Spec => []NoMissedEvent`, `[]ClockSetTakesEffect`, of all timers but the hard ones on CLOCK_REALTIME where others are soft |

| Theorem (`Clocksource_proofs`) | Statement |
|---|---|
| `UnboundUnused`, `WatchedChecked` | `Spec => []UnboundIsUnused`, `[]WatchedIsChecked` |
| `BestUsed` | `Spec => []BestIsUsed` |
| `WatchdogChecks`, `SkewBounded` | `WatchdogSpec => []ChecksInv`, `[]SuccessBoundsSkew` (`Watchdog`) |
| `GoodKept` | `WatchdogSpec => []NoFalseSkew`, if `CsNeverWraps` (`Watchdog`) |

| Theorem (`Timekeeping_proofs`) | Statement |
|---|---|
| `ClocksNeverBack` | `Spec => MonotonicNeverBack`, if `UpdatesInTime` and `SteersSlowly` |
| `SleepCounted`, `ReadersShowOneTime` | `Spec => []SleepCountedOnce`, `[]ReadersAgree`, likewise |
| `LeapsAreAnnounced` | `Spec => LeapIsAnnounced`, likewise, with the invariant `LeapInv` |
| `ReadersTypeCorrect`, `ReadersGetOneUpdate`, `TimeDoesNotGoBack` | `ReadersSpec => []TypeOK`, `[]ReadsAreWhole`, `[]NeverOlder` (`TkReaders`) |

| Theorem (`TimerWheel_proofs`) | Statement |
|---|---|
| `NothingMissedAlways`, `WakesInTimeAlways` | `Spec => []NothingMissed`, `[]WakesInTime`, if `[]WithinDelta` |
| `FiresOnTimeAlways`, `NoWarningAlways` | `Spec => FiresOnTime`, `NoWarning`, if `[]WithinDelta` |

| Theorem (`TimerBase_proofs`) | Statement |
|---|---|
| `TypeCorrect`, `ShutdownFinal`, `Serialized`, `WhereFlagsSay` | `Spec => []TypeOK`, `[]ShutdownIsFinal`, `[]SerializedWithItself`, `[]QueuedWhereFlagsSay` |
| `SomebodyActs` | `Spec => []NobodyWaitsInVain` |
| `SyncReturnsIdle` | `Spec => SyncMeansIdle` |

Assumptions: `ConstAssumption` of each module (`MaxAssumption` of `TkReaders`,
`SourceAssumption` of `Clocksource`, `SkewAssumption` of `Watchdog`), which only says what kinds of values
the constants are (in `Watchdog` also that a skew is less than an eighth of the counter, a readout takes less than
half a lap of the watchdog's, and a check is three turns or more each; and that the threads of a process are finitely many, since they are
counted); TLC evaluates it on every run. Some theorems have a hypothesis
of their own, each because the property fails without it. For two, section 5 reports how:
`WithinDelta` (a base does not stay empty for `TIMER_NEXT_MAX_DELTA` ticks without an idle entry,
and no timer expires exactly that many ticks after the clock; it is a predicate of the state, and assumed of every state of a behaviour), and `CsNeverWraps` (the counter of the clocksource does not wrap in the time looked at; those
that have to be verified, as the TSC, have 64 bits, while the watchdog's counter may wrap at any time). The two of `Timekeeping` are about what its functions are given.
`UpdatesInTime`: no more than half the counter passes between updates; `clocks_calc_max_nsecs()`
computes `max_idle_ns` with that margin and `timekeeping_max_deferment()` hands it to
the idle loop. `SteersSlowly`: the multiplier moves so little that an interval gains or loses less than
a second, which is why `timekeeping_apply_adjustment()` has one `if`
and no loop. The configurations of the runs satisfy all of them.

The argument for `HrtimerBase`. None of the safety properties is inductive by itself. The
invariant `IInv` has four structural parts and one about the lockless reader.
`ExpiryInv` says which locks an expiry context holds at each of its steps and that the
timer it runs is on its base. `CallerInv` says the same of the callers, and that the
target of a switch is online. `ParkInv` says that a timer on `migration_base` is in the
hands of exactly one caller, and `QueueInv` relates queues, `is_queued` and `base`. They
need one another: that a queue holds only timers of its base rests on the lock being held
by whoever moves a timer, and the lock being the right one rests on nobody else moving
`timer->base`. `ReaderInv` is about `hrtimer_active()`: as long as its view of
`timer->base` has held and the timer has not been inactive during the call, either the
timer is queued or running on that base, or the sequence count has moved on since it was
read. From this the reader's last comparison must fail, unless the timer left the base
and came back, which is the exception in `CancelSeesInactive` and the first observation of
section 5.

The argument for `Nanosleep`. `Idle` says in which phases of the call the timer may still
be live, `Times` how its expiry relates to the time asked for in each phase, and `Cleared`
that the sleeper is cleared only after that time.

The argument for `PosixTimers`. The reference count of a timer is exact (`Exact`), but that
alone does not say that the reference of the hash is put once, and late enough. `OneOwner`
says that at most one thread creates or deletes a timer, `ThreadInv` that it owns a timer
which no lookup, signal or delivery accepts, and `TimerInv` that an hrtimer which is queued
or runs belongs to a valid timer or to one whose owner waits for the callback. Given these,
`IdsUnique` needs only that one step puts a timer into the hash and none changes the ID of
one that is there (`HashKept`), and `OverrunsSum` that each step that moves the expiry by a
number of intervals adds that number to one of the two counts (`CountsStep`), while the others
leave the setting of a valid timer alone (`SumKept`). A new timer has no interval, and
only `timer_settime()` gives it one.

The argument for its signals. `qseq` is a copy of the timer's sequence that only an
expiry makes, and whatever makes a signal on its way stale (a setting, a deletion, the
rearm) counts the sequence up. So `SignalOK` is inductive: `qseq` is never ahead, and a signal on its way
with the present sequence stands for an expiry of the present setting. `AliveOK` needs
in addition that such a signal is remembered as periodic, since that is what keeps it on the list
when it is ignored, and that a timer whose last reference is put has no signal
(from the reference counts). `RetryOK` says which threads may be in the middle of a setting.

The argument for `HrtimerEvent`. `expires_next` and the device differ only while a handler is
between its first pass and the rearm, which `deferred_rearm` marks, or while the hang delay
runs. `IInv` says so of each `hrtimer_cpu_base` as a whole; each function that takes and
returns one is shown to keep it (`Keeps`), with `deferred_rearm` unchanged, and the
actions of the handler set and clear that flag around everything else. Nothing about the
contents of the queues is needed. That `expires_next` is in time for the queues is the second
invariant, `XInv`. `Covered` relates a time to the queues of a CPU: no hard timer expires before it, and
unless the softirq is raised `softirq_expires_next` is not before it and no soft timer
expires before that. The code skips a reprogramming in many places, and `XInv` names what
answers for the timers at each: an event that is earlier anyway (`Covered`: the timer was not the
first, or is started on another CPU and is not ahead of its event); `deferred_needs_update`, or a
`deferred_expires_next` that still covers the queues, while a rearm is pending (`CoverOK`); a
setter that has the CPU still to look at, or an IPI on its way, while `clock_was_set_seq` is behind
(`SettingOK`, and `Known`, which knows of no timer of a CPU until its IPI has come). `WalkOK` says that
the function of a timer runs on the CPU of the timer, so that requeueing it is a matter of that CPU.
There is a lemma for every function that programs the device (`UpdateNextEventCovers`, `ReprogramCovers`, ...)
and one for every action; that the next timer of the queues exists and is first
is by well-founded induction (`SomeLeast`, `NextEventIsNext`). The step that cannot be
kept for all timers is the softirq, which takes over a new offset and looks only at soft timers:
hence `Sure` in the properties and in the invariant.

The argument for `TkReaders`. `ContentInv` says which update every word holds at each step of the
writer: the half of a latch that readers are pointed at is never the one being
written. `WriterInv` ties the counters to the writer's position. `FastInv` and `CoreInv` say
of a reader under way that the words it has read are those that are still there if
its counter has not moved, so that the comparison at the end decides; `Forward` is what no
step of the writer does to them, and every step is one. `SeenInv` is why time does not go back between interfaces: the order of
publication.

The argument for `TimerWheel`. All comparisons of times are of words that wrap, so `Minus(a, clk)`,
how far a time is ahead of the clock of the base, takes the place of the times themselves; the
comparisons tell past from future as long as these distances stay below half a word. `ClockInv` bounds those of
`next_expiry` and jiffies, `IdleInv` that of the wakeup of an idle CPU, and `ExpiryInv` what a timer
asked for. `QueueInv` is the heart: the time of a timer's bucket lies in the lap of
its level that begins at the clock (`InLap`) and not before `next_expiry`. Within a lap a bucket has one time, so a
set bit of `pending_map` that the search of a level finds (`NextPendingBucket`) is the time of the timers in it; the
search over the levels, which counts the clock up from level to level, is shown to find the first of
these times (`EarliestIs`, `NextPendingIs`). `FirstInv` and `MapInv` tie the two caches to the timers, and
`HeadsInv` says that what was collected is due. When the clock is forwarded, `next_expiry` is ahead of it and the
lap moves with it (`InLapShift`); when a timer is enqueued its bucket is in
the lap because of the rounding (`WheelIs`). The capacity and the distance from jiffies are what
`ConstAssumption` is about: the last level goes round no later than in `TIMER_NEXT_MAX_DELTA + 1` ticks.

The argument for `TimerBase`. `QueueInv` says that a queued timer is on the base its flags name,
is not marked and has a function; it rests on `ExecInv`, which ties each base under
expiry to the one CPU that does it and a running timer to that base (or `strayed`), and on `MoveInv`:
a marked timer has exactly one caller on its way with it, to a CPU that is online. `CallerInv`
says what `add_timer()` gains from being alone: the timer stays inactive and its
flags stay as set until the lock is taken. `SyncMeansIdle` then follows in one step: the base
that was locked is the one that would be calling the timer.

The argument for `Clocksource`. Nothing removed is in use because of who may remove: `OwnerInv`
says what holder of the mutex stands where, in particular that an unbinding that has passed the
watchdog does not remove the watchdog, and that a choice in `Notify` is registered; `UseInv` says
that what is in use is registered, by its users or as one of `Strays`, and that what is watched is registered and to be
verified, or a stray that the thread has still to put back. `WatchInv` is about the timer: it is armed or its handler is at work whenever it
is said to run, and it runs whenever there is something to watch, except during a
registration, which starts it. For `BestUsed`, `SortInv` says that insertion keeps the list
sorted, and `ChoiceInv` that the clocksource in use is `Settled`: it is the best of those that are
not `Flagged` for the thread, seen from the list as the present call will leave it
(`Remaining`), or is itself flagged, in which case the thread will choose again. A flag that is set
between choice and installation, under the other lock, is thus no exception: it
makes the choice best among fewer, or the clocksource flagged. "Best" is meant for the mode of the
tick that the choice was made for (`Mode`), so that a switch of the tick leaves it as it is. After such a switch
the choice is still the best one if the new mode permits it, because it permits fewer of the others. The lemmas about lists (the first element of a set,
what a filter keeps, an insertion) go by the least counterexample, as the
induction theorems of the library cannot be used.

The argument for `Watchdog`. Of a check that nobody has ended early `SeqInv` says that the sequence number is the
number of turns both sides have had (`Done`) and that neither is a turn ahead of its order; so the side that finds
its number reached is the only one with a turn (`OneTurn`), even while the call of the other CPU has not come. Hence what it
compares are two time stamps that were taken in this order, both since the check began
(`StampInv`), whichever side was late. From there it is arithmetic modulo the counter (`SeenApart`): if the later
stamp is not behind, the skew is no more than what was counted in between, which `BoundInv` keeps for each side, and a successful
check has compared on both (`MAX_SEQ` is 6 or more); and with no skew it cannot be behind. A call left over
from an earlier check whose function is at work keeps the next check from beginning (`NoCall`). One whose function
has yet to begin (`EnterRemote`) does not, but then it takes the turns of this check like its own call, which comes when
CPU 0 has had all of its turns (`Open`): `SeqInv` is at an end by then, the bounds stand, and the
stamps which the second call compares are still in order. For the speed, `FreqInv` says of the
last and of the present readout between which two times the clocksource was read, at most one unit apart: so the two
deltas differ by one at most, if neither is off by a lap; that, the test for a reset provides
for the watchdog's counter (`Judged`), and `CsNeverWraps` for the other.

The argument for `Timekeeping`. What a clock shows is a sum of shifted nanoseconds at the last
update (`Sum`, `RawSum`) plus the cycles since then times the multiplier, all shifted down. An update moves
nanoseconds to seconds, cycles to nanoseconds, and the time between `xtime_sec` and the offset,
each by another function. Each function has a lemma that says what it adds to the sum: most add
nothing, the accumulation of an interval adds the cycles it takes from the counter times the
multiplier, and a change of the multiplier takes from the nanoseconds what it adds to the remaining
cycles. So an update does not change what is shown at that moment, and between updates
the sum grows with the counter. That needs three facts. `Gap`, the distance from the last update
modulo the size of the counter, must be the number of cycles that have really passed:
`UpdateInv` bounds it, with an interval that an update may leave behind, and `UpdatesInTime`
keeps the bound under half the counter, beyond which the code takes a delta for a step back. A product that wraps must
never be used: `max_cycles` decides for the wide path. And a whole second
must not be lost in the last division: `Settled` says that less than one is left to be counted. `PowerInv`
says which part of a sleep is in `offs_boot` already, so that the resume and the RTC do
not both add it, and `Offsets` and `Shows` tie the fields that are computed
for the readers to those they are computed from.

For the leap second, `LeapInv` says that `next_leap_ktime` is what NTP announces, moved to CLOCK_MONOTONIC by
the present offset: every action that changes NTP, the seconds or the offsets publishes it again
(`StepPublishes`, `PublishedLeap`). `Takes` is followed through all the rounds of an update: the offset moves by one
second at most, because a taken second leaves NTP in `WAIT`, and only if the status asks for
one; with `StepMovesForward`, which says that nothing else moves, that is what a tick may do. That the base takes
the offset at the right moment (`OffsetIsAhead`) is a comparison of two roundings. The base compares
nanoseconds with the announced second, the timekeeper counts whole seconds out of shifted nanoseconds:
`DivNest` says that dividing by a unit and then by a second is dividing by their product, and
`InsertsSecond` that the rounds pass the announced second exactly if there are enough of them.

What stays with TLC: liveness (`EveryTimerExpires`, `CallsReturn`, `FastReadersReturn`,
`ChecksEnd`, `UnstableIsDemoted`), which is out of the prover's reach, as is `ENABLED`. Every
other property of the passing runs is proved.

## 5. Findings and observations

One run shows the code doing something else than a comment of it says; `PROJECT.json`
quotes the comment.

- `coarse_back`. `timekeeping_apply_adjustment()` takes a second back (`xtime_sec--`,
  `timekeeping.c:2492`) when a new multiplier makes `xtime_nsec` negative. After an
  `adjtimex()` between two ticks nothing is accumulated and `coarse_nsec` is kept (2659), but
  the seconds are published: the coarse clocks go back by a whole second until the next
  tick. `coarse_nsec` exists so that they do not go back at all.

Observations, each with the way to see it in the model; they are not runs.

hrtimer and POSIX timers:

- `hrtimer_active()` can return false for a timer that was active during the whole call,
  against its comment: the reader takes `timer->base == migration_base` during one migration, and
  compares again during the next one; in between the timer was queued, expired and rearmed.
  (`HrtimerBase` with `Starters = {p1}`, `Cancellers = {p2}`, `Hotplug = {}`, `MaxSeq = 2` and the property
  `NoFalseNegative`.)
- `update_needs_ipi()` passes over a CPU whose `clock_was_set_seq` is current, as having
  handled the change. The softirq takes over offsets and sequence but reprograms
  the device only with a view to soft timers, so a hard CLOCK_REALTIME timer that has become
  due earlier stays behind the programmed event. (`HrtimerEvent` with a soft and a hard timer and `Sure` all of
  `Timers`: a setting between the expiry of the soft and that of the hard one.)
- The delivery of a signal compares `it_signal_seq` with a field of the timer, which
  the next expiry overwrites. A signal that was taken off the queue before
  `timer_settime()`, whose new setting has queued a signal of its own before the delivery gets
  `it_lock`, is delivered and rearms the timer. The second signal is then dropped if the
  timer is periodic, and delivered as well if it is not; the properties of `posix_timers`
  hold all the same.
- `timer_getoverrun()` is documented to return 1 to INT_MAX overruns. It returns 0 when there were
  none, and -1 when CLOCK_REALTIME was set back between expiry and delivery: the count
  starts at -1 and `hrtimer_forward()` adds nothing.

Timer wheel:

- `mod_timer()` compares the bucket of the new expiry with the index in
  `timer->flags` also when the timer has been moved to the list being expired. If they are
  equal the timer keeps its place in that list and fires at once, up to a lap of
  level 0 early. (`TimerWheel` with `Deltas = {0, 3}` and the property `NeverEarly`.)
- A `mod_timer()` that finds the timer pending, and takes the lock after the timer has
  expired, also compares the old index. If it equals the new one the call returns 1
  and the timer is not armed, although the documentation of `mod_timer()` says it is
  activated in any case. (`ModNothing` in `TimerWheel`, `NothingToDo` in `TimerBase`.)
- `next_expiry` of an empty base is only moved on by an expiry or by an idle entry. If a
  base stays empty for nearly `TIMER_NEXT_MAX_DELTA` ticks (about 12 days at HZ=1000) without either,
  a far timer is enqueued behind `next_expiry`, `timers_pending` stays false, and the next
  idle entry may move `next_expiry` past that timer. `WithinDelta` excludes this: it is the hypothesis of the
  theorems, and the bound on ticks in `timer_wheel` keeps uptime below it.
- A base counts as empty when its `next_expiry` is `clk + TIMER_NEXT_MAX_DELTA` (`timer.c:1925`),
  which is also the time of a bucket: with `HZ > 100` the last level goes round in 64 << 24 ticks, and
  `TIMER_NEXT_MAX_DELTA` is one less. If the first timer is exactly that far from the clock, as one
  that is one tick short of the capacity of the wheel may be, the idle entry that recalculates clears `timers_pending`, and if it stops
  the tick it programs no wakeup. (`TimerWheel` with `W = 7`, `TIMER_NEXT_MAX_DELTA = 15`, `Start = 125` and
  `Deltas = {5, 11}`: `NothingMissed` fails.)
- `add_timer_local()`, `add_timer_global()` and `add_timer_on()` change the base that the flags of
  a timer name while its function may still run on the old base; `timer_delete_sync()` then looks
  at the new base and returns while the function runs. The documentation forbids only
  `add_timer_on()` from the function itself. (`TimerBase` without the exception for `strayed` in
  `SyncMeansIdle`.)

Timekeeping:

- `ktime_get_real_seconds()` reads `xtime_sec` without the counter on 64 bits, and may
  therefore return an older second than a vDSO read that came before it; `NeverOlder` compares
  each interface with those whose data is written after its own.
- `clocks_calc_max_nsecs()` makes `max_cycles` the lesser of what a multiplication may take and
  the mask. If it is the mask, as for a narrow counter with a small multiplier, no delta is above it, and
  `timekeeping_cycles_to_ns()` does not look for a counter that is a little behind
  `cycle_last`: the reader's time is a lap of the counter ahead. It does so for a counter of 24 bits as
  `acpi_pm`, which is one device and does not lag.
  (`Timekeeping` with `max_cycles` one less than `size`, and `ReadersAgree` without its condition `SeesLagging`.)
- A leap second that falls into a suspend is not taken: the clock passes the end of
  the day by injection, and the next second overflow is beyond it.
- `skip_second_overflow`, set when a second is taken back (`timekeeping.c:2492`), is cleared by the next second
  that is accumulated or by a new clocksource only (2519, 425), so that it survives a suspend and a setting. If
  these put the clock into the last second before an announced leap second, the timekeeper passes over
  that second overflow and does not take the leap second, while the hrtimer bases have shifted
  at `next_leap_ktime`. (`Timekeeping` with `Sleeps = {3}`, `MaxTime = 10` and `LeapIsAnnounced` without
  the last conjunct of `LeapIsKnown`.)
- If an insertion is cancelled by `adjtimex()` after an hrtimer base has taken the leap second ahead of the
  tick, the base keeps the offset it took: the change of status does not count
  `clock_was_set_seq`, and `ktime_get_update_offsets_now()` copies the offset only on a new count, so that the base is a
  second off until the next setting. (`Timekeeping`, with the invariant that a base with the sequence number of `tk`, before
  `next_leap_ktime`, has its `offs_real`.)
- An announced deletion that is changed into an insertion is announced as one only by a second overflow that
  moves NTP's state on; until then `LeapIsKnown` is false.

Clocksource:

- The watchdog allows the time of its own last readout for the deviation, not that of the
  readout which the last values come from. After a readout that was late but accepted because of
  a reset, a second run that follows at once may trip. (`Watchdog` with `Skews <- MCNoSkew`,
  `Stops = {5}`, `WdWidth = 4`, `MaxTime = 12` and the invariant `NotTripped`; hence the second case
  of `NoFalseSkew`.)
- A run of the watchdog so late that the clocksource has gone round since the last one is not seen as such: both
  deltas are below the limits of a reset, or 0 because they look negative, and a good clocksource of few bits may be given
  up. Those that are watched have 64. (`Watchdog` with `WdWidth = 4`, `CsWidth = 3`, `Skews <- MCNoSkew`,
  `MaxLate = 12`, `MaxStops = 0`, `MaxTime = 17` and `NoFalseSkew`; hence `CsNeverWraps`.)
- The lock of a remote call is dropped before its function counts `remote_inprogress` up (`clocksource.c:362`), so that
  for some instructions the test at 394 sees neither, and a check begun then is met by the call of the one before
  it. The model has this (`RunRemote`, `EnterRemote`), and the properties hold. `StartCheck` however looks, resets the sequence number and
  calls in one step: a leftover call that begins in between may lose its first turn to the reset (399), and the check
  times out.
- CPU 0 takes the result of a check when its own side has ended, which may be before the remote
  side's last comparison; that verdict then counts for the next round of `Watchdog`.
- A clocksource that need not be verified, is marked unstable and then unbound stays on `watchdog_list`, which
  `clocksource_dequeue_watchdog()` leaves alone for it: the thread re-rates it, which
  puts it back on `clocksource_list`, and with four calls it is in use again. (`Clocksource` without
  `Strays` in `UnboundIsUnused`.)
- If the tick goes to oneshot mode between the choice of a clocksource (`clocksource.c:1111`) and
  `timekeeping_notify()` (1156), one that does not allow high resolution stays in use, against the comment at
  1131-1134. The other way round, if the clocksource that was in use is verified in the same moment, it is
  the current one still and is not asked to be chosen again, although only it fits the mode. (`Clocksource` without
  `"switched"` or `"late"` in `BestIsUsed`.)
- If no thread can be started, the comment at `clocksource.c:183-184` expects the next watchdog scan to find the
  unstable clocksource again. If nothing else is watched the timer does not run, and one that need not be verified
  is not demoted. (`Clocksource` without the exception in `UnstableIsDemoted`.)
- If the chosen clocksource cannot be had, no other is tried; and an unstable clocksource stays
  `suspend_clocksource`. `BestIsUsed` asks nothing while the last choice has been refused.

Clock events: `next_event_forced` is not cleared when the coupled path programs the device
(`clockevents.c:360`). Seen while reading; no model.

## 6. Plan

Done: `HrtimerAbs` and `HrtimerBase`, `HrtimerEvent`, `Nanosleep`, `PosixTimers`, `Timekeeping`, `TkReaders`,
`TimerWheel`, `TimerBase`, `Clocksource` and `Watchdog`, all with proofs of their safety.

Left:

1. `ClockEvents`: programming with the clamp to `min_delta_ns` and its retries, the replacement of a
   device, and its composition with `HrtimerEvent`, which takes programming to succeed.
2. `Experiment`: a measurement script, the load process with its workers and the
   benchmark, signals at any moment. A signal while the script sleeps
   before the benchmark kills the load and lets the benchmark run unloaded.
3. Pure operators (`ktime_add_safe`, `hrtimer_forward`, the linked time queue with ties)
   against reference definitions.
5. The low resolution path of `hrtimer.c`, the auxiliary clocks and the multigrain floor of
   `timekeeping.c`, the timer migration hierarchy behind the remote expiry of `TimerBase`.

## Not modelled

NTP (`ntp.c` is not in the repository; its results are inputs of `Timekeeping`), jiffies (one counter
under a sequence lock, the protocol that `TkReaders` has for `tk_core`), the
Python programs (sequential statistics in floating point, plots and layout), the one-call helpers
and the Makefile (no state).
