---------------------------- MODULE HrtimerBase ----------------------------
(***************************************************************************)
(* Locking, migration, expiry and cancellation of high resolution timers,  *)
(* linux_source/kernel/time/hrtimer.c.                                     *)
(*                                                                         *)
(* A timer belongs to one clock base at a time (timer->base).  Everything  *)
(* about the timer is protected by the lock of the CPU base it belongs to, *)
(* so a caller first has to find the base, lock it, and check that the     *)
(* timer is still there (lock_hrtimer_base).  A timer is moved between     *)
(* CPUs by parking it on migration_base while neither CPU's lock is held   *)
(* (switch_hrtimer_base).  The callback runs with the lock dropped.        *)
(* hrtimer_active() looks at all of this without any lock.                 *)
(*                                                                         *)
(* Steps are as fine as what another context can see: one step per section *)
(* that holds a lock from beginning to end, split further wherever the     *)
(* order of two writes matters to the lockless reader, and one step per    *)
(* load of the lockless reader.  Each CPU has one clock base here; the     *)
(* clock bases of a CPU share nothing but its lock.  Expiry times are left *)
(* to HrtimerEvent: here any queued timer may expire.                      *)
(***************************************************************************)
EXTENDS Naturals, FiniteSets

CONSTANTS
    Cpus,       \* CPUs; also names the clock base and expiry context of each
    Timers,     \* struct hrtimer instances
    Starters,   \* contexts that call hrtimer_start_range_ns() and its _user variant
    Cancellers, \* contexts that call hrtimer_cancel() and hrtimer_try_to_cancel()
    Hotplug,    \* the CPUs that may go offline
    Migration,  \* migration_base
    Nobody,     \* a free lock, a NULL running pointer
    MaxSeq      \* bound on base->seq, which counts the barriers of __run_hrtimer()

Callers == Starters \cup Cancellers

ASSUME ConstAssumption ==
    /\ Cpus # {}
    /\ Hotplug \subseteq Cpus
    /\ Migration \notin Cpus
    /\ Nobody \notin Cpus \cup Callers \cup Timers
    /\ Cpus \cap Callers = {}
    /\ MaxSeq \in Nat

VARIABLES
    base,     \* timer->base
    queued,   \* timer->is_queued
    active,   \* base->active: the timers linked into the base's timerqueue
    running,  \* base->running
    seq,      \* base->seq
    online,   \* cpu_base->online
    lock,     \* cpu_base->lock: its holder
    pc, op, tm,          \* per caller: where it is, which API call, on which timer
    rb, rs, cpu, tgt,    \* per caller: base, seq, this CPU, new_cpu_base
    was_armed,           \* per caller: a start found the timer queued
    ret,                 \* per caller: what the last call returned
    epc, etm,            \* per CPU: the expiry context and the timer it runs
    quiet, strayed       \* history: see Observe

shared == <<base, queued, active, running, seq, online, lock>>
locals == <<pc, op, tm, rb, rs, cpu, tgt, was_armed, ret>>
expiry == <<epc, etm>>
history == <<quiet, strayed>>
vars == <<shared, locals, expiry, history>>

Cancels == {"cancel", "try_to_cancel"}
Ops == {"start"} \cup Cancels

Init ==
    /\ base \in [Timers -> Cpus]
    /\ queued = [t \in Timers |-> FALSE]
    /\ active = [c \in Cpus |-> {}]
    /\ running = [c \in Cpus |-> Nobody]
    /\ seq = [c \in Cpus |-> 0]
    /\ online = [c \in Cpus |-> TRUE]
    /\ lock = [c \in Cpus |-> Nobody]
    /\ pc = [p \in Callers |-> "idle"]
    /\ op = [p \in Callers |-> "start"]
    /\ tm \in [Callers -> Timers]
    /\ rb = [p \in Callers |-> Migration]
    /\ rs = [p \in Callers |-> 0]
    /\ cpu = [p \in Callers |-> Migration]
    /\ tgt = [p \in Callers |-> Migration]
    /\ was_armed = [p \in Callers |-> FALSE]
    /\ ret = [p \in Callers |-> "none"]
    /\ epc = [c \in Cpus |-> "idle"]
    /\ etm = [c \in Cpus |-> Nobody]
    /\ quiet = [p \in Callers |-> FALSE]
    /\ strayed = [p \in Callers |-> FALSE]

-----------------------------------------------------------------------------
(* Helpers shared by the callers' steps.                                   *)

\* The stack frame of the call dies with its result.
Return(p, r) ==
    /\ pc' = [pc EXCEPT ![p] = "idle"]
    /\ ret' = [ret EXCEPT ![p] = r]
    /\ rb' = [rb EXCEPT ![p] = Migration]
    /\ rs' = [rs EXCEPT ![p] = 0]
    /\ cpu' = [cpu EXCEPT ![p] = Migration]
    /\ tgt' = [tgt EXCEPT ![p] = Migration]
    /\ was_armed' = [was_armed EXCEPT ![p] = FALSE]
    /\ op' = [op EXCEPT ![p] = "start"]
    /\ UNCHANGED tm

Goto(p, l) ==
    /\ pc' = [pc EXCEPT ![p] = l]
    /\ UNCHANGED <<op, tm, ret>>

\* Contexts that run with interrupts disabled, from taking a base lock to
\* dropping the last one; nothing else runs on their CPU meanwhile.
Holding == {"locked", "switch", "enqueue", "armed"}
Parking == {"switch_lock", "switch_back"}
IrqsOff(p) == pc[p] \in Holding \cup Parking
Occupied(c) ==
    \/ epc[c] \notin {"idle", "callback"}
    \/ \E p \in Callers : IrqsOff(p) /\ cpu[p] = c

Unlock(c) == lock' = [lock EXCEPT ![c] = Nobody]

Lock(c, who) ==
    /\ lock[c] = Nobody
    /\ lock' = [lock EXCEPT ![c] = who]

\* enqueue_hrtimer(), and the requeue of remove_and_enqueue_same_base()
EnqueueIn(t, c) ==
    /\ queued' = [queued EXCEPT ![t] = TRUE]
    /\ active' = [active EXCEPT ![c] = @ \cup {t}]

\* __remove_hrtimer() with the new value of is_queued
RemoveFrom(t, c, newstate) ==
    /\ queued' = [queued EXCEPT ![t] = newstate]
    /\ active' = [active EXCEPT ![c] = @ \ {t}]

-----------------------------------------------------------------------------
(* History variables: every action observes itself, and none asks them.    *)
(*   quiet[p]    in the current cancel call of p its timer has at some       *)
(*               moment been inactive: neither queued, nor running, nor an    *)
(*               armed timer that a start is moving                          *)
(*   strayed[p]  timer->base has differed from the value that this pass of   *)
(*               hrtimer_active() read                                       *)

\* A start has the timer in its hands: out of every queue, though still marked
\* as queued if it was.
InHands(p) == pc[p] \in {"switch", "enqueue"} \cup Parking

Inactive(p) ==
    /\ ~queued[tm[p]]
    /\ \A c \in Cpus : running[c] # tm[p]
    /\ \A q \in Callers : InHands(q) /\ tm[q] = tm[p] => ~was_armed[q]

\* hrtimer_active() between its read of timer->base and its verdict
ActReads == {"act_seq", "act_queued", "act_running", "act_retry", "act_recheck"}

Observe ==
    /\ quiet' = [p \in Callers |->
          pc'[p] # "idle" /\ op'[p] \in Cancels /\ (quiet[p] \/ Inactive(p)')]
    /\ strayed' = [p \in Callers |->
          /\ pc[p] \in ActReads /\ pc'[p] \in ActReads
          /\ strayed[p] \/ base'[tm[p]] # rb[p]]

-----------------------------------------------------------------------------
(* hrtimer_start_range_ns(), hrtimer_start_range_ns_user()                 *)

BeginStart(p, t) ==
    /\ p \in Starters /\ pc[p] = "idle"
    /\ op' = [op EXCEPT ![p] = "start"]
    /\ tm' = [tm EXCEPT ![p] = t]
    /\ pc' = [pc EXCEPT ![p] = "lock_read"]
    /\ ret' = [ret EXCEPT ![p] = "none"]
    /\ UNCHANGED <<shared, rb, rs, cpu, tgt, was_armed, expiry>>
    /\ Observe

\* lock_hrtimer_base(): the lockless read of timer->base, spinning on migration_base
LockRead(p) ==
    /\ pc[p] = "lock_read"
    /\ base[tm[p]] # Migration
    /\ rb' = [rb EXCEPT ![p] = base[tm[p]]]
    /\ Goto(p, "lock_acquire")
    /\ UNCHANGED <<shared, rs, cpu, tgt, was_armed, expiry>>
    /\ Observe

\* mutant: no second look at timer->base
LockAcquireNoRecheck(p) ==
    /\ pc[p] = "lock_acquire"
    /\ Lock(rb[p], p)
    /\ \E c \in Cpus : ~Occupied(c) /\ cpu' = [cpu EXCEPT ![p] = c]
    /\ Goto(p, "locked")
    /\ UNCHANGED <<base, queued, active, running, seq, online, rb, rs, tgt, was_armed, expiry>>
    /\ Observe

\* lock_hrtimer_base(): take the lock, look again, drop it and retry if the
\* timer has moved.  With interrupts off the caller stays on CPU c.
LockAcquire(p) ==
    /\ pc[p] = "lock_acquire"
    /\ lock[rb[p]] = Nobody
    /\ IF base[tm[p]] = rb[p]
       THEN /\ Lock(rb[p], p)
            /\ \E c \in Cpus : ~Occupied(c) /\ cpu' = [cpu EXCEPT ![p] = c]
            /\ Goto(p, "locked")
       ELSE /\ Goto(p, "lock_read")
            /\ UNCHANGED <<lock, cpu>>
    /\ UNCHANGED <<base, queued, active, running, seq, online, rb, rs, tgt, was_armed, expiry>>
    /\ Observe

\* hrtimer_keep_base(): a timer whose callback runs has to stay; a local one
\* may stay (first, pinned, tick running).  An offline CPU keeps nothing.
KeepBase(p) ==
    /\ online[cpu[p]]
    /\ running[rb[p]] = tm[p] \/ rb[p] = cpu[p]

StartKeep(p) ==
    /\ pc[p] = "locked" /\ op[p] = "start"
    /\ KeepBase(p)
    /\ EnqueueIn(tm[p], rb[p])
    /\ Goto(p, "armed")
    /\ UNCHANGED <<base, running, seq, online, lock, rb, rs, cpu, tgt, was_armed, expiry>>
    /\ Observe

\* get_target_base(): this CPU or another one, but an online one
TargetBase == {c \in Cpus : online[c]}

\* mutant: the timer looks inactive while it is moved
StartRemoveInactive(p) ==
    /\ pc[p] = "locked" /\ op[p] = "start"
    /\ ~(online[cpu[p]] /\ running[rb[p]] = tm[p])
    /\ RemoveFrom(tm[p], rb[p], FALSE)
    /\ was_armed' = [was_armed EXCEPT ![p] = queued[tm[p]]]
    /\ \E c \in TargetBase : tgt' = [tgt EXCEPT ![p] = c]
    /\ Goto(p, "switch")
    /\ UNCHANGED <<base, running, seq, online, lock, rb, rs, cpu, expiry>>
    /\ Observe

\* remove_hrtimer() that keeps the ENQUEUED state, then get_target_base()
StartRemove(p) ==
    /\ pc[p] = "locked" /\ op[p] = "start"
    /\ ~(online[cpu[p]] /\ running[rb[p]] = tm[p])
    /\ RemoveFrom(tm[p], rb[p], queued[tm[p]])
    /\ was_armed' = [was_armed EXCEPT ![p] = queued[tm[p]]]
    /\ \E c \in TargetBase : tgt' = [tgt EXCEPT ![p] = c]
    /\ Goto(p, "switch")
    /\ UNCHANGED <<base, running, seq, online, lock, rb, rs, cpu, expiry>>
    /\ Observe

\* hrtimer_suitable_target() always accepts the local CPU, and any CPU when the
\* local one is offline; a remote target depends on its next event.
MayRefuse(p) == tgt[p] # cpu[p] /\ online[cpu[p]]

\* switch_hrtimer_base() when the target is the base the timer is on, or the
\* callback runs there
SwitchStay(p) ==
    /\ pc[p] = "switch"
    /\ tgt[p] = rb[p] \/ running[rb[p]] = tm[p]
    /\ Goto(p, "enqueue")
    /\ UNCHANGED <<shared, rb, rs, cpu, tgt, was_armed, expiry>>
    /\ Observe

\* the target is the timer's remote base, but its next event is too late
SwitchRetarget(p) ==
    /\ pc[p] = "switch"
    /\ tgt[p] = rb[p] /\ MayRefuse(p)
    /\ tgt' = [tgt EXCEPT ![p] = cpu[p]]
    /\ UNCHANGED <<shared, pc, op, tm, ret, rb, rs, cpu, was_armed, expiry>>
    /\ Observe

\* park the timer on migration_base and drop the old lock
SwitchPark(p) ==
    /\ pc[p] = "switch"
    /\ tgt[p] # rb[p] /\ running[rb[p]] # tm[p]
    /\ base' = [base EXCEPT ![tm[p]] = Migration]
    /\ Unlock(rb[p])
    /\ Goto(p, "switch_lock")
    /\ UNCHANGED <<queued, active, running, seq, online, rb, rs, cpu, tgt, was_armed, expiry>>
    /\ Observe

\* lock the new base and hand the timer to it
SwitchAccept(p) ==
    /\ pc[p] = "switch_lock"
    /\ Lock(tgt[p], p)
    /\ base' = [base EXCEPT ![tm[p]] = tgt[p]]
    /\ rb' = [rb EXCEPT ![p] = tgt[p]]
    /\ Goto(p, "enqueue")
    /\ UNCHANGED <<queued, active, running, seq, online, rs, cpu, tgt, was_armed, expiry>>
    /\ Observe

\* lock the new base, find it unsuitable, drop its lock
SwitchRefuse(p) ==
    /\ pc[p] = "switch_lock"
    /\ lock[tgt[p]] = Nobody
    /\ MayRefuse(p)
    /\ Goto(p, "switch_back")
    /\ UNCHANGED <<shared, rb, rs, cpu, tgt, was_armed, expiry>>
    /\ Observe

\* relock the old base, restore timer->base, and try again with the local CPU
SwitchBack(p) ==
    /\ pc[p] = "switch_back"
    /\ Lock(rb[p], p)
    /\ base' = [base EXCEPT ![tm[p]] = rb[p]]
    /\ tgt' = [tgt EXCEPT ![p] = cpu[p]]
    /\ Goto(p, "switch")
    /\ UNCHANGED <<queued, active, running, seq, online, rb, rs, cpu, was_armed, expiry>>
    /\ Observe

Enqueue(p) ==
    /\ pc[p] = "enqueue"
    /\ EnqueueIn(tm[p], rb[p])
    /\ Goto(p, "armed")
    /\ UNCHANGED <<base, running, seq, online, lock, rb, rs, cpu, tgt, was_armed, expiry>>
    /\ Observe

\* unlock_hrtimer_base() after a start
StartDone(p) ==
    /\ pc[p] = "armed"
    /\ Unlock(rb[p])
    /\ Return(p, "none")
    /\ UNCHANGED <<base, queued, active, running, seq, online, expiry>>
    /\ Observe

\* hrtimer_start_range_ns_user(): hrtimer_check_user_timer() finds the expiry
\* time already in the past
StartExpired(p) ==
    /\ pc[p] = "armed"
    /\ RemoveFrom(tm[p], rb[p], FALSE)
    /\ Unlock(rb[p])
    /\ Return(p, "none")
    /\ UNCHANGED <<base, running, seq, online, expiry>>
    /\ Observe

-----------------------------------------------------------------------------
(* hrtimer_active(), hrtimer_try_to_cancel(), hrtimer_cancel()             *)

BeginCancel(p, t) ==
    /\ p \in Cancellers /\ pc[p] = "idle"
    /\ \E o \in Cancels : op' = [op EXCEPT ![p] = o]
    /\ tm' = [tm EXCEPT ![p] = t]
    /\ pc' = [pc EXCEPT ![p] = "act_base"]
    /\ ret' = [ret EXCEPT ![p] = "none"]
    /\ UNCHANGED <<shared, rb, rs, cpu, tgt, was_armed, expiry>>
    /\ Observe

ActBase(p) ==
    /\ pc[p] = "act_base"
    /\ rb' = [rb EXCEPT ![p] = base[tm[p]]]
    /\ Goto(p, "act_seq")
    /\ UNCHANGED <<shared, rs, cpu, tgt, was_armed, expiry>>
    /\ Observe

\* migration_base has a seqcount of its own, which nothing ever changes
SeqOf(b) == IF b = Migration THEN 0 ELSE seq[b]
RunningOn(b) == IF b = Migration THEN Nobody ELSE running[b]

ActSeq(p) ==
    /\ pc[p] = "act_seq"
    /\ rs' = [rs EXCEPT ![p] = SeqOf(rb[p])]
    /\ Goto(p, "act_queued")
    /\ UNCHANGED <<shared, rb, cpu, tgt, was_armed, expiry>>
    /\ Observe

ActQueued(p) ==
    /\ pc[p] = "act_queued"
    /\ Goto(p, IF queued[tm[p]] THEN "lock_read" ELSE "act_running")
    /\ UNCHANGED <<shared, rb, rs, cpu, tgt, was_armed, expiry>>
    /\ Observe

ActRunning(p) ==
    /\ pc[p] = "act_running"
    /\ Goto(p, IF RunningOn(rb[p]) = tm[p] THEN "lock_read" ELSE "act_retry")
    /\ UNCHANGED <<shared, rb, rs, cpu, tgt, was_armed, expiry>>
    /\ Observe

\* read_seqcount_retry()
ActRetry(p) ==
    /\ pc[p] = "act_retry"
    /\ Goto(p, IF SeqOf(rb[p]) # rs[p] THEN "act_base" ELSE "act_recheck")
    /\ UNCHANGED <<shared, rb, rs, cpu, tgt, was_armed, expiry>>
    /\ Observe

\* base != READ_ONCE(timer->base); hrtimer_try_to_cancel() returns 0 when
\* hrtimer_active() said no
ActRecheck(p) ==
    /\ pc[p] = "act_recheck"
    /\ IF base[tm[p]] # rb[p]
       THEN Goto(p, "act_base") /\ UNCHANGED <<rb, rs, cpu, tgt, was_armed>>
       ELSE Return(p, "inactive")
    /\ UNCHANGED <<shared, expiry>>
    /\ Observe

\* The timer's callback is running: hrtimer_try_to_cancel() gives up with -1,
\* hrtimer_cancel() relaxes and starts over.
CancelRunning(p) ==
    /\ pc[p] = "locked" /\ op[p] \in Cancels
    /\ running[rb[p]] = tm[p]
    /\ Unlock(rb[p])
    /\ IF op[p] = "cancel"
       THEN Goto(p, "act_base") /\ UNCHANGED <<rb, rs, cpu, tgt, was_armed>>
       ELSE Return(p, "running")
    /\ UNCHANGED <<base, queued, active, running, seq, online, expiry>>
    /\ Observe

CancelRemove(p) ==
    /\ pc[p] = "locked" /\ op[p] \in Cancels
    /\ running[rb[p]] # tm[p]
    /\ RemoveFrom(tm[p], rb[p], FALSE)
    /\ Unlock(rb[p])
    /\ Return(p, IF queued[tm[p]] THEN "cancelled" ELSE "inactive")
    /\ UNCHANGED <<base, running, seq, online, expiry>>
    /\ Observe

-----------------------------------------------------------------------------
(* __hrtimer_run_queues(), __run_hrtimer() on CPU c                        *)

\* hrtimer_interrupt(), hrtimer_run_softirq(), hrtimer_run_queues() take the lock
ExpBegin(c) ==
    /\ epc[c] = "idle" /\ active[c] # {} /\ ~Occupied(c)
    /\ Lock(c, c)
    /\ epc' = [epc EXCEPT ![c] = "select"]
    /\ UNCHANGED <<base, queued, active, running, seq, online, locals, etm>>
    /\ Observe

\* base->running = timer
ExpSelect(c) ==
    /\ epc[c] = "select"
    /\ seq[c] + 2 <= MaxSeq       \* bound
    /\ \E t \in active[c] :
          /\ running' = [running EXCEPT ![c] = t]
          /\ etm' = [etm EXCEPT ![c] = t]
    /\ epc' = [epc EXCEPT ![c] = "barrier1"]
    /\ UNCHANGED <<base, queued, active, seq, online, lock, locals>>
    /\ Observe

\* no further timer of this base has expired
ExpEnd(c) ==
    /\ epc[c] = "select"
    /\ Unlock(c)
    /\ epc' = [epc EXCEPT ![c] = "idle"]
    /\ UNCHANGED <<base, queued, active, running, seq, online, locals, etm>>
    /\ Observe

Barrier(c, from, to) ==
    /\ epc[c] = from
    /\ seq' = [seq EXCEPT ![c] = @ + 1]
    /\ epc' = [epc EXCEPT ![c] = to]
    /\ UNCHANGED <<base, queued, active, running, online, lock, locals, etm>>
    /\ Observe

\* raw_write_seqcount_barrier() increments twice; nobody can tell the value
\* between the two from the one after.  The first barrier stands between the
\* writes of base->running and timer->is_queued.
ExpBarrier1(c) == Barrier(c, "barrier1", "dequeue")

\* mutant: dequeues with HRTIMER_STATE_ENQUEUED
ExpDequeueEnqueued(c) ==
    /\ epc[c] = "dequeue"
    /\ RemoveFrom(etm[c], c, TRUE)
    /\ Unlock(c)
    /\ epc' = [epc EXCEPT ![c] = "callback"]
    /\ UNCHANGED <<base, running, seq, online, locals, etm>>
    /\ Observe

\* __remove_hrtimer(INACTIVE), drop the lock, call the function
ExpDequeue(c) ==
    /\ epc[c] = "dequeue"
    /\ RemoveFrom(etm[c], c, FALSE)
    /\ Unlock(c)
    /\ epc' = [epc EXCEPT ![c] = "callback"]
    /\ UNCHANGED <<base, running, seq, online, locals, etm>>
    /\ Observe

\* the function has returned: relock, requeue if it asks for that and nobody
\* has queued the timer in the meantime
ExpReturn(c) ==
    /\ epc[c] = "callback" /\ ~Occupied(c)
    /\ Lock(c, c)
    /\ \E restart \in BOOLEAN :
          IF restart /\ ~queued[etm[c]]
          THEN EnqueueIn(etm[c], c)
          ELSE UNCHANGED <<queued, active>>
    /\ epc' = [epc EXCEPT ![c] = "barrier2"]
    /\ UNCHANGED <<base, running, seq, online, locals, etm>>
    /\ Observe

ExpBarrier2(c) == Barrier(c, "barrier2", "clear")

\* base->running = NULL
ExpClear(c) ==
    /\ epc[c] = "clear"
    /\ running' = [running EXCEPT ![c] = Nobody]
    /\ etm' = [etm EXCEPT ![c] = Nobody]
    /\ epc' = [epc EXCEPT ![c] = "select"]
    /\ UNCHANGED <<base, queued, active, seq, online, lock, locals>>
    /\ Observe

-----------------------------------------------------------------------------
(* CPU hotplug                                                             *)

\* mutant: the migrated timers keep their old base pointer
CpuDyingKeepsBase(c) ==
    /\ c \in Hotplug /\ online[c] /\ epc[c] = "idle"
    /\ \A p \in Callers : ~IrqsOff(p)
    /\ \A d \in Cpus : lock[d] = Nobody
    /\ \E n \in Cpus \ {c} :
          /\ online[n]
          /\ active' = [active EXCEPT ![c] = {}, ![n] = @ \cup active[c]]
    /\ online' = [online EXCEPT ![c] = FALSE]
    /\ UNCHANGED <<base, queued, running, seq, lock, locals, expiry>>
    /\ Observe

\* hrtimers_cpu_dying() runs while every other CPU is held in stop_machine with
\* interrupts disabled: no section that disables interrupts is under way, and
\* nothing expires on the dying CPU.  migrate_hrtimer_list() moves every timer.
CpuDying(c) ==
    /\ c \in Hotplug /\ online[c] /\ epc[c] = "idle"
    /\ \A p \in Callers : ~IrqsOff(p)
    /\ \A d \in Cpus : lock[d] = Nobody
    /\ \E n \in Cpus \ {c} :
          /\ online[n]
          /\ base' = [t \in Timers |-> IF t \in active[c] THEN n ELSE base[t]]
          /\ active' = [active EXCEPT ![c] = {}, ![n] = @ \cup active[c]]
    /\ online' = [online EXCEPT ![c] = FALSE]
    /\ UNCHANGED <<queued, running, seq, lock, locals, expiry>>
    /\ Observe

\* hrtimers_prepare_cpu(), hrtimers_cpu_starting()
CpuStarting(c) ==
    /\ ~online[c] /\ ~Occupied(c)
    /\ active' = [active EXCEPT ![c] = {}]
    /\ seq' = [seq EXCEPT ![c] = 0]
    /\ online' = [online EXCEPT ![c] = TRUE]
    /\ UNCHANGED <<base, queued, running, lock, locals, expiry>>
    /\ Observe

-----------------------------------------------------------------------------
CallerStep(p) ==
    \/ \E t \in Timers : BeginStart(p, t) \/ BeginCancel(p, t)
    \/ LockRead(p) \/ LockAcquire(p)
    \/ StartKeep(p) \/ StartRemove(p) \/ Enqueue(p) \/ StartDone(p) \/ StartExpired(p)
    \/ SwitchStay(p) \/ SwitchRetarget(p) \/ SwitchPark(p)
    \/ SwitchAccept(p) \/ SwitchRefuse(p) \/ SwitchBack(p)
    \/ ActBase(p) \/ ActSeq(p) \/ ActQueued(p) \/ ActRunning(p) \/ ActRetry(p) \/ ActRecheck(p)
    \/ CancelRunning(p) \/ CancelRemove(p)

ExpiryStep(c) ==
    \/ ExpBegin(c) \/ ExpSelect(c) \/ ExpEnd(c) \/ ExpBarrier1(c) \/ ExpDequeue(c)
    \/ ExpReturn(c) \/ ExpBarrier2(c) \/ ExpClear(c)

Next ==
    \/ \E p \in Callers : CallerStep(p)
    \/ \E c \in Cpus : ExpiryStep(c) \/ CpuDying(c) \/ CpuStarting(c)

Spec == Init /\ [][Next]_vars

-----------------------------------------------------------------------------
(* Properties                                                              *)

TypeOK ==
    /\ base \in [Timers -> Cpus \cup {Migration}]
    /\ queued \in [Timers -> BOOLEAN]
    /\ active \in [Cpus -> SUBSET Timers]
    /\ running \in [Cpus -> Timers \cup {Nobody}]
    /\ seq \in [Cpus -> 0 .. MaxSeq]
    /\ online \in [Cpus -> BOOLEAN]
    /\ lock \in [Cpus -> Cpus \cup Callers \cup {Nobody}]
    /\ pc \in [Callers -> {"idle", "lock_read", "lock_acquire", "act_base"}
                          \cup Holding \cup Parking \cup ActReads]
    /\ op \in [Callers -> Ops]
    /\ tm \in [Callers -> Timers]
    /\ rb \in [Callers -> Cpus \cup {Migration}]
    /\ rs \in [Callers -> 0 .. MaxSeq]
    /\ cpu \in [Callers -> Cpus \cup {Migration}]
    /\ tgt \in [Callers -> Cpus \cup {Migration}]
    /\ was_armed \in [Callers -> BOOLEAN]
    /\ ret \in [Callers -> {"none", "inactive", "running", "cancelled"}]
    /\ epc \in [Cpus -> {"idle", "select", "barrier1", "dequeue", "callback", "barrier2", "clear"}]
    /\ etm \in [Cpus -> Timers \cup {Nobody}]
    /\ quiet \in [Callers -> BOOLEAN]
    /\ strayed \in [Callers -> BOOLEAN]

\* A caller is between the two locks of switch_hrtimer_base() with timer t.
Parks(p, t) == pc[p] \in Parking /\ tm[p] = t

\* "All state transitions are protected by cpu_base->lock": while a context is
\* inside a locked section it owns the lock of the base its timer is on, and a
\* timer parked on migration_base is in the hands of exactly one caller.
LockProtects ==
    /\ \A p \in Callers : pc[p] \in Holding =>
          lock[rb[p]] = p /\ base[tm[p]] = rb[p]
    /\ \A p \in Callers : pc[p] \in Parking => base[tm[p]] = Migration
    /\ \A p, q \in Callers : pc[p] \in Parking /\ pc[q] \in Parking /\ tm[p] = tm[q] => p = q
    /\ \A t \in Timers : base[t] = Migration => \E p \in Callers : Parks(p, t)
    \* while its callback runs it stays on the base that runs it, so that
    \* __run_hrtimer() requeues it, and clears ->running, in the right place
    /\ \A c \in Cpus, t \in Timers : running[c] = t => base[t] = c

\* No timer is lost or linked twice: a queue holds only timers that belong to
\* it, and a timer marked as queued is in the queue of its base unless a start
\* has it in its hands.
QueueMatchesBase ==
    /\ \A c \in Cpus : \A t \in active[c] : base[t] = c /\ queued[t]
    /\ \A t \in Timers : queued[t] =>
          \/ base[t] # Migration /\ t \in active[base[t]]
          \/ \E p \in Callers : tm[p] = t /\ InHands(p)

\* WARN_ON_ONCE(!base->cpu_base->online) in enqueue_hrtimer(): nothing is
\* queued, or runs, on a CPU after hrtimers_cpu_dying() has emptied it.
OfflineIsEmpty ==
    \A c \in Cpus : ~online[c] => active[c] = {} /\ running[c] = Nobody

\* What a cancel that returns 0 or 1 has seen.
CancelReturns(p) ==
    pc[p] # "idle" /\ pc'[p] = "idle" /\ op[p] \in Cancels /\ ret'[p] # "running"

\* hrtimer_try_to_cancel() and hrtimer_cancel() return 0 or 1 only if at some
\* moment of the call the timer was neither queued nor running, although
\* hrtimer_active() takes no lock: the callback that ran when the call began
\* has finished.  The one exception is a timer that left the base that was
\* read and was back on it for the second look.
CancelSeesInactive ==
    [][\A p \in Callers : CancelReturns(p) =>
          quiet[p] \/ Inactive(p)' \/ (strayed[p] /\ base[tm[p]] = rb[p])]_vars

\* "A timer is active, when it is enqueued into the rbtree or the callback
\* function is running or it's in the state of being migrated to another cpu.
\* It is important for this function to not return a false negative."
NoFalseNegative ==
    [][\A p \in Callers : CancelReturns(p) => quiet[p] \/ Inactive(p)']_vars

\* The callback as the users of the timer see it: from the moment it is taken
\* out of the queue until base->running is cleared.
Runs == [t \in Timers |->
            \E c \in Cpus : etm[c] = t /\ epc[c] \in {"callback", "barrier2", "clear"}]

Abs == INSTANCE HrtimerAbs WITH runs <- Runs

\* Seen from outside, locks, migration and hotplug disappear: every step arms,
\* disarms, fires or finishes a timer as HrtimerAbs allows, or changes nothing.
ImplementsAbs == Abs!Spec

=============================================================================
