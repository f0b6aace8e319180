----------------------------- MODULE TimerBase -----------------------------
(***************************************************************************)
(* The timers of the wheel and the bases they are on                        *)
(* (linux_source/kernel/time/timer.c): how they move from CPU to CPU, how    *)
(* they are deleted while their function runs, and how they are shut down.   *)
(*                                                                         *)
(* A timer names its base in timer->flags, and the lock of that base         *)
(* protects the flags.  What TimerWheel has of a base - buckets, clocks - is *)
(* left out here: any set of its timers may expire at any moment.  A section *)
(* that holds one lock is one step; the lock is dropped around a callback    *)
(* and between two bases.                                                   *)
(***************************************************************************)
EXTENDS Integers

CONSTANTS
    Cpus,
    Timers,
    Threads,     \* callers outside of callbacks
    None,
    Hotplug,     \* CPUs that may go offline
    Uses         \* the calls that each thread, and the callbacks on each CPU, may make

ASSUME ConstAssumption ==
    /\ Hotplug \subseteq Cpus /\ Cpus \cap Threads = {}
    /\ None \notin Timers /\ None \notin Cpus \X {"local", "global"}

VARIABLES
    flags,           \* per timer: its CPU, TIMER_PINNED and TIMER_MIGRATING
    function,        \* per timer: timer->function is not NULL
    vectors,         \* per base: the timers in its buckets
    running_timer,   \* per base
    run,             \* per CPU: the base it expires, the timer it calls, those collected with it
    call,            \* per context: the call it is in, see Idle
    cpu,             \* per CPU: "online", "dying" or "dead"
    strayed          \* history: see Observe

queues == <<vectors, running_timer, run>>
vars == <<flags, function, queues, call, cpu, strayed>>

\* BASE_LOCAL and BASE_GLOBAL; a deferrable timer has a third one, like BASE_LOCAL
Kinds == {"local", "global"}
Bases == Cpus \X Kinds
Flags == [cpu : Cpus, pinned : BOOLEAN, migrating : BOOLEAN]

\* A callback is a context of its own: the one of its CPU
Contexts == Cpus \cup Threads

\* pc: "lock" in lock_timer_base() and after it, "move" between two bases.  looked:
\* the timer was pending at the look without the lock.  tf: the flags that were read
\* for the lock.  to: the base to move to.
NoFlags == [cpu |-> None, pinned |-> FALSE, migrating |-> FALSE]
Idle == [pc |-> "idle", op |-> "none", timer |-> None, looked |-> FALSE, tf |-> NoFlags,
         to |-> None]
Rest == [pc |-> "idle", base |-> None, timer |-> None, heads |-> {}]

Init ==
    /\ flags \in [Timers -> {f \in Flags : ~f.migrating}]
    /\ function = [t \in Timers |-> TRUE]
    /\ vectors = [b \in Bases |-> {}]
    /\ running_timer = [b \in Bases |-> None]
    /\ run = [c \in Cpus |-> Rest]
    /\ call = [p \in Contexts |-> Idle]
    /\ cpu = [c \in Cpus |-> "online"]
    /\ strayed = [t \in Timers |-> FALSE]

-----------------------------------------------------------------------------
\* get_timer_base(), with kind the choice of get_timer_cpu_base()
Kind(f) == IF f.pinned THEN "local" ELSE "global"
Base(f) == <<f.cpu, Kind(f)>>

\* timer_pending()
Pending(t) == \/ \E b \in Bases : t \in vectors[b]
              \/ \E c \in Cpus : t \in run[c].heads

\* detach_timer(): a list needs no owner for that
Detach(t) ==
    /\ vectors' = [b \in Bases |-> vectors[b] \ {t}]
    /\ run' = [c \in Cpus |-> [run[c] EXCEPT !.heads = @ \ {t}]]

\* detach_timer() and enqueue_timer() on base b
Requeue(t, b) ==
    /\ vectors' = [n \in Bases |-> IF n = b THEN vectors[n] \cup {t} ELSE vectors[n] \ {t}]
    /\ run' = [c \in Cpus |-> [run[c] EXCEPT !.heads = @ \ {t}]]

\* Its function is being called.
Running(t) == \E c \in Cpus : run[c].timer = t

\* Calls that start timer t, and those of them that are not made beside others
Starts == {"mod", "pending", "add", "on"}
Starter(q, t) == call[q].timer = t /\ call[q].op \in Starts
Adder(q, t)   == call[q].timer = t /\ call[q].op \in {"add", "on"}

\* History: an add_timer() has changed the flags of a timer whose function ran.
Observe ==
    strayed' = [t \in Timers |->
        /\ Running(t)'
        /\ \/ strayed[t]
           \/ /\ Running(t) /\ flags'[t] # flags[t]
              /\ \E p \in Contexts : Adder(p, t) \/ Adder(p, t)']

-----------------------------------------------------------------------------
(* The calls up to lock_timer_base()                                       *)

\* A callback may make calls until it returns.  The flags are read a first time.
Begin(p, t, op, looked, to) ==
    /\ op \in Uses[p] /\ call[p].pc = "idle" /\ (p \in Cpus => run[p].pc = "call")
    /\ call' = [call EXCEPT ![p] =
          [pc |-> "lock", op |-> op, timer |-> t, looked |-> looked, tf |-> flags'[t],
           to |-> to]]
    /\ UNCHANGED <<function, queues, cpu>>
    /\ Observe

\* mod_timer() and timer_reduce(), mod_timer_pending().  "If there are multiple
\* unserialized concurrent users of the same timer, then mod_timer() is the only safe
\* way to modify the timeout": the others are not called at the same time.
ModTimer(p, t, op) ==
    /\ \A q \in Contexts : ~Adder(q, t)
    /\ UNCHANGED flags
    /\ Begin(p, t, op, Pending(t), None)

\* add_timer(), which leaves TIMER_PINNED as it is, add_timer_local(), add_timer_global()
AddTimer(p, t, pinned) ==
    /\ \A q \in Contexts : ~Starter(q, t)
    /\ ~Pending(t)
    /\ flags' = [flags EXCEPT ![t].pinned = pinned]
    /\ Begin(p, t, "add", FALSE, None)

\* add_timer_on()
AddTimerOn(p, t, c) ==
    /\ \A q \in Contexts : ~Starter(q, t)
    /\ ~Pending(t) /\ cpu[c] = "online"
    /\ flags' = [flags EXCEPT ![t].pinned = TRUE]
    /\ Begin(p, t, "on", FALSE, <<c, "local">>)

\* mutant: timer_shutdown() takes the lock only if the timer is pending
DeleteUnlocked(p, t, op) ==
    /\ UNCHANGED flags
    /\ \/ Pending(t) /\ Begin(p, t, op, FALSE, None)
       \/ /\ ~Pending(t) /\ op = "shutdown" /\ op \in Uses[p] /\ call[p].pc = "idle"
          /\ function' = [function EXCEPT ![t] = FALSE]
          /\ UNCHANGED <<queues, call, cpu>>
          /\ Observe

\* timer_delete() and timer_shutdown()
Delete(p, t, op) ==
    /\ op = "delete" => Pending(t)
    /\ UNCHANGED flags
    /\ Begin(p, t, op, FALSE, None)

\* timer_delete_sync() and timer_shutdown_sync(), not from a callback
DeleteSync(p, t, op) ==
    /\ p \in Threads
    /\ UNCHANGED flags
    /\ Begin(p, t, op, FALSE, None)

\* lock_timer_base(): they are being changed, or have changed when the lock is taken
ReadAgain(p) ==
    /\ call[p].pc = "lock"
    /\ call[p].tf # flags[call[p].timer]
    /\ call' = [call EXCEPT ![p].tf = flags[call[p].timer]]
    /\ UNCHANGED <<flags, function, queues, cpu>>
    /\ Observe

\* lock_timer_base() has returned the base
Locked(p, ops) ==
    /\ call[p].pc = "lock" /\ call[p].op \in ops
    /\ call[p].tf = flags[call[p].timer] /\ ~call[p].tf.migrating

Return(p) == call' = [call EXCEPT ![p] = Idle]

-----------------------------------------------------------------------------
(* Starting a timer: __mod_timer() and add_timer_on() with the lock         *)

\* It was shut down, mod_timer_pending() finds it inactive, or the new expiry falls
\* into the bucket that the flags name, although the timer may have left it.
NothingToDo(p) ==
    /\ Locked(p, Starts)
    /\ \/ ~function[call[p].timer]
       \/ call[p].op = "pending" /\ ~Pending(call[p].timer)
       \/ call[p].looked
    /\ Return(p)
    /\ UNCHANGED <<flags, function, queues, cpu>>
    /\ Observe

\* the CPU a context is on: a thread runs anywhere
This(p) == IF p \in Cpus THEN {p} ELSE {c \in Cpus : cpu[c] = "online"}

\* get_timer_this_cpu_base(), or what the caller of add_timer_on() asks for
NewBases(p) ==
    IF call[p].op = "on" THEN {call[p].to} ELSE This(p) \X {Kind(call[p].tf)}

\* mutant: also a timer whose function runs changes its base
StaysIdle(p, new) == new = Base(call[p].tf)

\* A timer stays on its base while its function runs, but for add_timer_on().
Stays(p, new) ==
    \/ new = Base(call[p].tf)
    \/ call[p].op # "on" /\ running_timer[Base(call[p].tf)] = call[p].timer

Starting(p) ==
    /\ Locked(p, Starts) /\ function[call[p].timer]
    /\ call[p].op = "pending" => Pending(call[p].timer)

Enqueue(p) ==
    /\ Starting(p)
    /\ \E new \in NewBases(p) : Stays(p, new)
    /\ Requeue(call[p].timer, Base(call[p].tf))
    /\ Return(p)
    /\ UNCHANGED <<flags, function, running_timer, cpu>>
    /\ Observe

\* to another base: mark the timer, drop the lock
Leave(p) ==
    /\ Starting(p)
    /\ \E new \in NewBases(p) :
          /\ ~Stays(p, new)
          /\ call' = [call EXCEPT ![p].pc = "move", ![p].to = new]
    /\ flags' = [flags EXCEPT ![call[p].timer].migrating = TRUE]
    /\ Detach(call[p].timer)
    /\ UNCHANGED <<function, running_timer, cpu>>
    /\ Observe

\* with the lock of the new base
Arrive(p) ==
    /\ call[p].pc = "move"
    /\ flags' = [flags EXCEPT ![call[p].timer] =
          [@ EXCEPT !.cpu = call[p].to[1], !.migrating = FALSE]]
    /\ Requeue(call[p].timer, call[p].to)
    /\ Return(p)
    /\ UNCHANGED <<function, running_timer, cpu>>
    /\ Observe

-----------------------------------------------------------------------------
(* Stopping a timer: __timer_delete(), __try_to_del_timer_sync()            *)

Shutdown(p) == call[p].op \in {"shutdown", "shutdown_sync"}

Remove(p) ==
    /\ Detach(call[p].timer)
    /\ function' = [function EXCEPT ![call[p].timer] = @ /\ ~Shutdown(p)]
    /\ Return(p)
    /\ UNCHANGED <<flags, running_timer, cpu>>
    /\ Observe

DeleteLocked(p) == Locked(p, {"delete", "shutdown"}) /\ Remove(p)

\* while the function runs: again and again
TryToDelete(p) ==
    /\ Locked(p, {"sync", "shutdown_sync"})
    /\ running_timer[Base(call[p].tf)] # call[p].timer
    /\ Remove(p)

-----------------------------------------------------------------------------
(* __run_timers() and expire_timers()                                      *)

\* One timer of those that were collected: set running_timer, detach the timer, drop
\* the lock, call the function
Expire(c, b, expired) ==
    \E t \in expired :
        /\ function[t]
        /\ running_timer' = [running_timer EXCEPT ![b] = t]
        /\ vectors' = [vectors EXCEPT ![b] = @ \ expired]
        /\ run' = [run EXCEPT ![c] =
              [pc |-> "call", base |-> b, timer |-> t, heads |-> expired \ {t}]]

\* mutant: the base may be expired by two CPUs
RunTimersTwice(c, b) ==
    /\ run[c].pc = "idle" /\ cpu[c] = "online"
    /\ b[1] = c \/ (b[2] = "global" /\ cpu[b[1]] # "dead")
    /\ \E expired \in SUBSET vectors[b] : Expire(c, b, expired)
    /\ UNCHANGED <<flags, function, call, cpu>>
    /\ Observe

\* the softirq of the CPU, or timer_expire_remote() for the global timers of another;
\* nobody does it for a base that is being expired
RunTimers(c, b) ==
    /\ run[c].pc = "idle" /\ cpu[c] = "online"
    /\ b[1] = c \/ (b[2] = "global" /\ cpu[b[1]] # "dead")
    /\ running_timer[b] = None
    /\ \E expired \in SUBSET vectors[b] : Expire(c, b, expired)
    /\ UNCHANGED <<flags, function, call, cpu>>
    /\ Observe

\* The function has returned and the lock is taken again: the next one that was
\* collected, another round of __run_timers(), or the end.  "Should never happen":
\* a timer without function is taken off the list.
CallbackDone(c) ==
    LET b == run[c].base
        heads == {t \in run[c].heads : function[t]}
    IN  /\ run[c].pc = "call" /\ call[c].pc = "idle"
        /\ \/ Expire(c, b, heads)
           \/ heads = {} /\ \E expired \in SUBSET vectors[b] : Expire(c, b, expired)
           \/ /\ heads = {}
              /\ running_timer' = [running_timer EXCEPT ![b] = None]
              /\ run' = [run EXCEPT ![c] = Rest]
              /\ UNCHANGED vectors
        /\ UNCHANGED <<flags, function, call, cpu>>
        /\ Observe

-----------------------------------------------------------------------------
(* CPU hotplug                                                             *)

\* No caller is on its way to a base of c: a move is made with interrupts off on the
\* CPU it leads to, and the user of add_timer_on() has to keep the CPU online.
Untouched(c) == \A p \in Contexts : call[p].to \notin {c} \X Kinds

CpuDying(c) ==
    /\ c \in Hotplug /\ cpu[c] = "online" /\ run[c].pc = "idle"
    /\ \E n \in Cpus \ {c} : cpu[n] = "online"
    /\ Untouched(c)
    /\ cpu' = [cpu EXCEPT ![c] = "dying"]
    /\ UNCHANGED <<flags, function, queues, call>>
    /\ Observe

\* mutant: the flags of the timers that are moved are left alone
FlagsKept(c, n) == UNCHANGED flags

\* migrate_timer_list() of both bases
FlagsMoved(c, n) ==
    flags' = [t \in Timers |->
        IF \E k \in Kinds : t \in vectors[<<c, k>>]
        THEN [flags[t] EXCEPT !.cpu = n, !.migrating = FALSE] ELSE flags[t]]

\* timers_dead_cpu() on CPU n.  By then no other CPU expires timers of c.
TimersDead(c, n) ==
    /\ cpu[c] = "dying" /\ cpu[n] = "online"
    /\ \A k \in Kinds : running_timer[<<c, k>>] = None
    /\ FlagsMoved(c, n)
    /\ vectors' = [b \in Bases |->
          IF b[1] = c THEN {}
          ELSE IF b[1] = n THEN vectors[b] \cup vectors[<<c, b[2]>>] ELSE vectors[b]]
    /\ cpu' = [cpu EXCEPT ![c] = "dead"]
    /\ UNCHANGED <<function, running_timer, run, call>>
    /\ Observe

\* timers_prepare_cpu() resets what is left out here
CpuPrepare(c) ==
    /\ cpu[c] = "dead"
    /\ cpu' = [cpu EXCEPT ![c] = "online"]
    /\ UNCHANGED <<flags, function, queues, call>>
    /\ Observe

-----------------------------------------------------------------------------
Calls(p, t) ==
    \/ \E op \in {"mod", "pending"} : ModTimer(p, t, op)
    \/ \E pinned \in BOOLEAN : AddTimer(p, t, pinned)
    \/ \E c \in Cpus : AddTimerOn(p, t, c)
    \/ \E op \in {"delete", "shutdown"} : Delete(p, t, op)
    \/ \E op \in {"sync", "shutdown_sync"} : DeleteSync(p, t, op)

Step(p) ==
    \/ ReadAgain(p)
    \/ NothingToDo(p) \/ Enqueue(p) \/ Leave(p) \/ Arrive(p)
    \/ DeleteLocked(p) \/ TryToDelete(p)

Expiry(c) == CallbackDone(c) \/ \E b \in Bases : RunTimers(c, b)

HotplugStep(c) == CpuDying(c) \/ CpuPrepare(c) \/ \E n \in Cpus : TimersDead(c, n)

Next ==
    \/ \E p \in Contexts : Step(p) \/ \E t \in Timers : Calls(p, t)
    \/ \E c \in Cpus : Expiry(c) \/ HotplugStep(c)

Spec == Init /\ [][Next]_vars

-----------------------------------------------------------------------------
(* Properties                                                              *)

\* "Upon exit the timer is not queued and the handler is not running on any CPU":
\* also if the handler, or somebody else before the call, has started the timer again,
\* on this CPU or another one.  Excepted are timers whose flags add_timer_on(),
\* add_timer_local() or add_timer_global() have changed while the handler ran.
SyncMeansIdle ==
    [][\A p \in Threads, t \in Timers : call[p].timer = t /\ TryToDelete(p) =>
          ~Pending(t)' /\ (Running(t)' => strayed[t])]_vars

\* A timer that was shut down cannot be enqueued again, not even by a caller who had
\* looked at it before, and no list that is being expired holds it.
ShutdownIsFinal ==
    \A t \in Timers : ~function[t] =>
        /\ ~Pending(t)
        /\ \A p \in Contexts : call[p].pc = "move" => call[p].timer # t

\* "This also guarantees that the timer is serialized wrt itself."
SerializedWithItself ==
    \A c, d \in Cpus : run[c].timer = run[d].timer /\ run[c].timer # None =>
        c = d \/ strayed[run[c].timer]

\* A timer that is queued is on the base that its flags name, so that who locks that
\* base may detach it, and no timer is left behind on a CPU that is gone.
QueuedWhereFlagsSay ==
    /\ \A t \in Timers, b \in Bases : t \in vectors[b] =>
          Base(flags[t]) = b /\ ~flags[t].migrating /\ cpu[b[1]] # "dead"
    /\ \A t \in Timers, c \in Cpus : t \in run[c].heads =>
          Base(flags[t]) = run[c].base /\ ~flags[t].migrating /\ cpu[run[c].base[1]] # "dead"

\* What the spinning callers wait for will come: a running timer of a base is being
\* called, and a timer that is marked is on its way.
NobodyWaitsInVain ==
    /\ \A b \in Bases : running_timer[b] # None =>
          \E c \in Cpus : run[c].base = b /\ run[c].timer = running_timer[b]
    /\ \A t \in Timers : flags[t].migrating =>
          \E p \in Contexts : call[p].pc = "move" /\ call[p].timer = t
=============================================================================
