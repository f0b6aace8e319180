---------------------------- MODULE HrtimerEvent ----------------------------
(***************************************************************************)
(* When hrtimers expire: the queues of each CPU, hrtimer_interrupt(), the  *)
(* timer softirq, and the programming of the clock event device,           *)
(* linux_source/kernel/time/hrtimer.c in high resolution mode.             *)
(*                                                                         *)
(* Every path that queues, removes or expires a timer has to leave the     *)
(* CPU's one-shot device programmed for the earliest timer, or leave       *)
(* behind an obligation (a rearm, a softirq, an IPI, the hang delay) that   *)
(* will.  Several decide not to touch the device because somebody else is  *)
(* expected to; this module is about those decisions.                      *)
(*                                                                         *)
(* A section that holds one cpu_base lock from beginning to end is one     *)
(* step (HrtimerBase has the locking).  The C functions that update a       *)
(* struct hrtimer_cpu_base are operators from the record to its new value. *)
(***************************************************************************)
EXTENDS Integers, FiniteSets, FiniteSetsExt

CONSTANTS
    Cpus,
    Timers,     \* struct hrtimer instances, by default hard CLOCK_MONOTONIC
    Soft,       \* those that expire in the softirq (timer->is_soft)
    Real,       \* those on the CLOCK_REALTIME bases
    Lazy,       \* those set up with HRTIMER_MODE_LAZY_REARM
    None,       \* a NULL pointer
    KTIME_MAX,
    MaxTime,    \* the end of the modelled time, which starts at 0
    Slacks,     \* values of delta_ns
    Offsets,    \* values of the CLOCK_REALTIME offset; the first one is 0
    HangDelay,  \* min(100ms, max_hang_time)
    Deferred,   \* CONFIG_HRTIMER_REARM_DEFERRED
    MaxStarts,  \* bound on the hrtimer_start() calls and the restarts
    MaxSets     \* bound on the settings of the clock

ASSUME ConstAssumption ==
    /\ Cpus # {} /\ IsFiniteSet(Timers)
    /\ Soft \subseteq Timers /\ Real \subseteq Timers
    /\ Lazy \subseteq Timers \ (Soft \cup Real)
    /\ None \notin Timers
    /\ {MaxTime, HangDelay, MaxStarts, MaxSets} \subseteq Nat
    /\ Slacks \subseteq Nat /\ Offsets \subseteq Nat
    /\ Deferred \in BOOLEAN
    /\ KTIME_MAX \in Nat
    /\ \A d \in Slacks : KTIME_MAX > MaxTime + d
    /\ KTIME_MAX > MaxTime + HangDelay

Clocks == {"mono", "real"}
Modes == {"hard", "soft"}

VARIABLES
    now,       \* CLOCK_MONOTONIC
    tk,        \* the timekeeper: offs_real and clock_was_set_seq
    timer,     \* per timer: its CPU, is_queued, node.expires, _softexpires
    cpu_base,  \* per CPU: struct hrtimer_cpu_base and what its device is programmed to
    walk,      \* per CPU and mode: how far __hrtimer_run_queues() has got
    setter,    \* clock_was_set(): CPUs still to look at, CPUs to interrupt
    starts     \* starts so far

vars == <<now, tk, timer, cpu_base, walk, setter, starts>>

\* A walk that is not under way
Off == [pc |-> "off", now |-> 0, tries |-> 0, left |-> {}, clock |-> "none",
        basenow |-> 0, timer |-> None]

Init ==
    /\ now = 0
    /\ tk = [offset |-> 0, clock_was_set_seq |-> 0]
    /\ timer \in [Timers -> [cpu : Cpus, queued : {FALSE}, expires : {0}, softexpires : {0}]]
    /\ cpu_base = [c \in Cpus |->
          [expires_next |-> KTIME_MAX, next_timer |-> None,
           softirq_expires_next |-> KTIME_MAX, softirq_activated |-> FALSE,
           deferred_rearm |-> FALSE, deferred_needs_update |-> FALSE,
           deferred_expires_next |-> KTIME_MAX, hang_detected |-> FALSE,
           offset |-> 0, clock_was_set_seq |-> 0,
           dev |-> KTIME_MAX]]
    /\ walk = [c \in Cpus |-> [m \in Modes |-> Off]]
    /\ setter = [pc |-> "idle", left |-> {}, mask |-> {}]
    /\ starts = 0

-----------------------------------------------------------------------------
(* Who may run.  A lock is held, and interrupts are off, exactly while a    *)
(* walk is between two callbacks.                                           *)

Locked(c) == \E m \in Modes : walk[c][m].pc = "walk"

\* Interrupts are on: no hard interrupt handler on the CPU, no softirq inside
\* its locked section.
IrqsOn(c) == walk[c]["hard"].pc = "off" /\ walk[c]["soft"].pc # "walk"

Running(t) == \E c \in Cpus, m \in Modes : walk[c][m].pc = "callback" /\ walk[c][m].timer = t

-----------------------------------------------------------------------------
(* Queries on the queues.  T is the value of timer the query is made on.    *)

Mode(t) == IF t \in Soft THEN "soft" ELSE "hard"
Clock(t) == IF t \in Real THEN "real" ELSE "mono"

OffsetOf(b, clock) == IF clock = "real" THEN b.offset ELSE 0

\* A timer's expiry on CLOCK_MONOTONIC
Mono(b, T, t) == T[t].expires - OffsetOf(b, Clock(t))

AtLeast0(e) == IF e < 0 THEN 0 ELSE e

Base(T, c, m, clock) ==
    {t \in Timers : T[t].queued /\ T[t].cpu = c /\ Mode(t) = m /\ Clock(t) = clock}

ActiveBases(T, c, m) == {k \in Clocks : Base(T, c, m, k) # {}}

\* timers that no other timer of the base is ahead of
Earliest(T, S) == {t \in S : \A u \in S : T[t].expires <= T[u].expires}

\* clock_base_next_timer().  Equal expiry times are served in the order of their
\* arrival, which is not kept here: one of them stands first.
First(T, S) == CHOOSE t \in Earliest(T, S) : TRUE

\* hrtimer_bases_first(): the next timer of the bases of one mode, by the first
\* base in index order when there is a tie
NextTimer(b, T, c, m) ==
    LET firsts == {First(T, Base(T, c, m, k)) : k \in ActiveBases(T, c, m)}
        ahead == {t \in firsts : \A u \in firsts : Mono(b, T, t) <= Mono(b, T, u)}
    IN IF firsts = {} THEN None
       ELSE CHOOSE t \in ahead : Clock(t) = "mono" \/ \A u \in ahead : Clock(u) = "real"

\* __hrtimer_get_next_event() for one mode
NextEvent(b, T, c, m) ==
    LET t == NextTimer(b, T, c, m)
    IN IF t = None THEN KTIME_MAX ELSE AtLeast0(Mono(b, T, t))

\* hrtimer_update_next_event(), its value: a raised softirq will look after the
\* soft timers itself
NextOfAll(b, T, c) ==
    LET hard == NextEvent(b, T, c, "hard")
        soft == IF b.softirq_activated THEN KTIME_MAX ELSE NextEvent(b, T, c, "soft")
    IN IF soft < hard THEN soft ELSE hard

\* hrtimer_update_next_event(), what it writes
UpdateNextEvent(b, T, c) ==
    LET hard == NextEvent(b, T, c, "hard")
        soft == IF b.softirq_activated THEN KTIME_MAX ELSE NextEvent(b, T, c, "soft")
    IN [b EXCEPT
          !.softirq_expires_next = IF b.softirq_activated THEN @ ELSE soft,
          !.next_timer = IF soft < hard THEN NextTimer(b, T, c, "soft")
                                        ELSE NextTimer(b, T, c, "hard")]

-----------------------------------------------------------------------------
(* Programming the device                                                  *)

\* hrtimer_update_base()
UpdateBase(b) == [b EXCEPT !.offset = tk.offset, !.clock_was_set_seq = tk.clock_was_set_seq]

\* __hrtimer_reprogram(): the hang delay stays in the device
SetEvent(b, e) ==
    [b EXCEPT !.expires_next = e, !.dev = IF b.hang_detected THEN @ ELSE e]

\* hrtimer_force_reprogram()
ForceReprogram(b, T, c, skip_equal) ==
    LET e == NextOfAll(b, T, c)
        u == UpdateNextEvent(b, T, c)
    IN IF skip_equal /\ e = b.expires_next THEN u ELSE SetEvent(u, e)

\* hrtimer_reprogram() on the cpu_base of the timer's base; only the CPU itself
\* can program its device
Reprogram(b, T, t, local) ==
    LET e == AtLeast0(Mono(b, T, t))
        s == IF t \in Soft THEN [b EXCEPT !.softirq_expires_next = e] ELSE b
    IN IF t \in Soft /\ (b.softirq_activated \/ e >= b.softirq_expires_next) THEN b
       ELSE IF ~local \/ e >= b.expires_next \/ b.deferred_rearm THEN s
       ELSE SetEvent([s EXCEPT !.next_timer = t], e)

\* mutant: the rearm leaves expires_next alone
RearmKeepsNext(b, e) == [b EXCEPT !.deferred_rearm = FALSE, !.dev = e]

\* hrtimer_rearm(); the hang delay is cut at the end of time
Rearm(b, e) ==
    LET late == IF now + HangDelay > MaxTime THEN MaxTime ELSE now + HangDelay
    IN [b EXCEPT !.expires_next = e, !.deferred_rearm = FALSE,
                 !.dev = IF b.hang_detected THEN late ELSE e]

-----------------------------------------------------------------------------
(* hrtimer_start_range_ns(), hrtimer_start_range_ns_user()                 *)

\* __remove_hrtimer() on cpu_base b, T being the queues before the removal
Remove(b, T, t, c, reprogram) ==
    LET S == Base(T, c, Mode(t), Clock(t))
        U == [T EXCEPT ![t].queued = FALSE]
    IN IF ~T[t].queued \/ First(T, S) # t \/ ~reprogram \/ t # b.next_timer \/ t \in Lazy
       THEN b
       ELSE IF b.deferred_rearm THEN [b EXCEPT !.deferred_needs_update = TRUE]
       ELSE ForceReprogram(b, U, c, TRUE)

\* hrtimer_keep_base(): a running timer must stay, a local one may; the first
\* one of the local CPU, and a pinned one, does
MayKeep(t, this) == Running(t) \/ timer[t].cpu = this
MayMove(t, this) ==
    ~Running(t) /\ ~(timer[t].cpu = this /\ cpu_base[this].next_timer = t)

\* hrtimer_suitable_target()
Suitable(b, e, t, local) == local \/ e - OffsetOf(b, Clock(t)) >= b.expires_next

\* The timer is the leftmost one of its base: strictly ahead of the others when it
\* is linked in, not behind the others when the first one is updated in place.
Leftmost(T, t, in_place) ==
    \A u \in Base(T, T[t].cpu, Mode(t), Clock(t)) \ {t} :
        T[t].expires < T[u].expires \/ (in_place /\ T[t].expires = T[u].expires)

\* hrtimer_check_user_timer(): the expiry time has passed already
Expired(b, T, t) ==
    LET e == T[t].softexpires - OffsetOf(b, Clock(t))
    IN e < b.expires_next /\ e <= now

\* mutant: nobody is told that a timer was queued before the rearm
ProgramNoUpdate(b, T, t, was_first, first, local, user) ==
    LET gone == user /\ Expired(b, T, t)
        U == [T EXCEPT ![t].queued = ~gone]
    IN IF b.deferred_rearm
       THEN [timer |-> T, base |-> b]
       ELSE IF ~was_first \/ ~local
       THEN IF ~first THEN [timer |-> T, base |-> b]
            ELSE [timer |-> U, base |-> IF gone THEN b ELSE Reprogram(b, T, t, local)]
       ELSE IF t \in Lazy /\ b.expires_next <= T[t].expires THEN [timer |-> T, base |-> b]
       ELSE [timer |-> U, base |-> ForceReprogram(b, U, T[t].cpu, TRUE)]

\* The end of __hrtimer_start_range_ns() and what its callers make of its value:
\* the queues, and the cpu_base b of the timer's CPU, that the start leaves behind.
\* HRTIMER_REPROGRAM_NONE, _REPROGRAM (checked first), _REPROGRAM_NONE for a lazy
\* timer, and _REPROGRAM_FORCE, which reevaluates even if the timer is dropped.
Program(b, T, t, was_first, first, local, user) ==
    LET gone == user /\ Expired(b, T, t)
        U == [T EXCEPT ![t].queued = ~gone]
    IN IF b.deferred_rearm
       THEN [timer |-> T, base |-> [b EXCEPT !.deferred_needs_update = TRUE]]
       ELSE IF ~was_first \/ ~local
       THEN IF ~first THEN [timer |-> T, base |-> b]
            ELSE [timer |-> U, base |-> IF gone THEN b ELSE Reprogram(b, T, t, local)]
       ELSE IF t \in Lazy /\ b.expires_next <= T[t].expires THEN [timer |-> T, base |-> b]
       ELSE [timer |-> U, base |-> ForceReprogram(b, U, T[t].cpu, TRUE)]

\* The values a start may ask for: absolute times
StartTimes == {[s |-> s, e |-> s + d] : s \in 0 .. MaxTime, d \in Slacks}

\* keep_base: remove_and_enqueue_same_base() leaves the timer where it is
StartKeep(this, t, x, user) ==
    LET c == timer[t].cpu
        b == cpu_base[c]
        head == timer[t].queued /\ First(timer, Base(timer, c, Mode(t), Clock(t))) = t
        T == [timer EXCEPT ![t] = [cpu |-> c, queued |-> TRUE,
                                   expires |-> x.e, softexpires |-> x.s]]
        r == Program(b, T, t, b.next_timer = t, Leftmost(T, t, head), c = this, user)
    IN /\ starts < MaxStarts /\ ~Locked(this) /\ ~Locked(c)
       /\ MayKeep(t, this)
       /\ timer' = r.timer
       /\ cpu_base' = [cpu_base EXCEPT ![c] = r.base]
       /\ starts' = starts + 1
       /\ UNCHANGED <<now, tk, walk, setter>>

\* remove_hrtimer(), switch_hrtimer_base() to this CPU or a suitable remote one,
\* enqueue_hrtimer()
StartMove(this, t, x, user, dest) ==
    LET c == timer[t].cpu
        was_first == cpu_base[c].next_timer = t
        B == [cpu_base EXCEPT ![c] = Remove(@, timer, t, c, c = this)]
        T == [timer EXCEPT ![t] = [cpu |-> dest, queued |-> TRUE,
                                   expires |-> x.e, softexpires |-> x.s]]
        r == Program(B[dest], T, t, was_first, Leftmost(T, t, FALSE), dest = this, user)
    IN /\ starts < MaxStarts /\ ~Locked(this) /\ ~Locked(c) /\ ~Locked(dest)
       /\ MayMove(t, this)
       /\ Suitable(B[dest], x.e, t, dest = this)
       /\ timer' = r.timer
       /\ cpu_base' = [B EXCEPT ![dest] = r.base]
       /\ starts' = starts + 1
       /\ UNCHANGED <<now, tk, walk, setter>>

\* hrtimer_try_to_cancel() of a timer that is queued and does not run
Cancel(this, t) ==
    LET c == timer[t].cpu
    IN /\ timer[t].queued /\ ~Running(t) /\ ~Locked(this) /\ ~Locked(c)
       /\ timer' = [timer EXCEPT ![t].queued = FALSE]
       /\ cpu_base' = [cpu_base EXCEPT ![c] = Remove(@, timer, t, c, c = this)]
       /\ UNCHANGED <<now, tk, walk, setter, starts>>

-----------------------------------------------------------------------------
(* __hrtimer_run_queues(): the bases that were active at its start, in index *)
(* order, each with the time read when its turn comes.                      *)

\* the first timers of the base under way that have reached their soft expiry
Due(c, m) ==
    LET w == walk[c][m]
        S == IF w.clock = "none" THEN {} ELSE Base(timer, c, m, w.clock)
    IN {t \in Earliest(timer, S) : timer[t].softexpires <= w.basenow}

\* a base is left when its first timer is not due, or there is none
BaseDone(c, m) ==
    LET w == walk[c][m]
        S == IF w.clock = "none" THEN {} ELSE Base(timer, c, m, w.clock)
    IN \/ S = {}
       \/ \E t \in Earliest(timer, S) : timer[t].softexpires > w.basenow

NextBase(c, m) ==
    LET w == walk[c][m]
        k == IF "mono" \in w.left THEN "mono" ELSE "real"
    IN /\ w.pc = "walk" /\ BaseDone(c, m) /\ w.left # {}
       /\ walk' = [walk EXCEPT ![c][m] =
             [w EXCEPT !.clock = k, !.left = @ \ {k},
                       !.basenow = w.now + OffsetOf(cpu_base[c], k)]]
       /\ UNCHANGED <<now, tk, timer, cpu_base, setter, starts>>

\* __run_hrtimer() up to the call of the function, without reprogramming
RunTimer(c, m) ==
    /\ walk[c][m].pc = "walk"
    /\ \E t \in Due(c, m) :
          /\ timer' = [timer EXCEPT ![t].queued = FALSE]
          /\ walk' = [walk EXCEPT ![c][m].pc = "callback", ![c][m].timer = t]
    /\ UNCHANGED <<now, tk, cpu_base, setter, starts>>

\* A softirq goes on only when no interrupt is being handled on top of it.
Resumes(c, m) == walk[c][m].pc = "callback" /\ (m = "soft" => walk[c]["hard"].pc = "off")

Resume(c, m) == walk' = [walk EXCEPT ![c][m].pc = "walk", ![c][m].timer = None]

\* the function returned HRTIMER_NORESTART, or the timer is queued again already
ReturnNoRestart(c, m) ==
    /\ Resumes(c, m)
    /\ Resume(c, m)
    /\ UNCHANGED <<now, tk, timer, cpu_base, setter, starts>>

\* HRTIMER_RESTART after hrtimer_forward(): enqueue_hrtimer(), no reprogramming
ReturnRestart(c, m) ==
    /\ Resumes(c, m) /\ starts < MaxStarts
    /\ LET t == walk[c][m].timer
       IN /\ ~timer[t].queued
          /\ \E x \in StartTimes :
                /\ x.s > timer[t].softexpires
                /\ x.e - x.s = timer[t].expires - timer[t].softexpires
                /\ timer' = [timer EXCEPT ![t] = [cpu |-> c, queued |-> TRUE,
                                                  expires |-> x.e, softexpires |-> x.s]]
    /\ Resume(c, m)
    /\ starts' = starts + 1
    /\ UNCHANGED <<now, tk, cpu_base, setter>>

-----------------------------------------------------------------------------
(* hrtimer_interrupt()                                                     *)

StartWalk(c, m, tries) ==
    walk' = [walk EXCEPT ![c][m] =
        [Off EXCEPT !.pc = "walk", !.now = now, !.tries = tries,
                    !.left = ActiveBases(timer, c, m)]]

\* mutant: the due soft timers are forgotten, no softirq is raised for them
BeginPassNoRaise(b) ==
    [b EXCEPT !.deferred_rearm = TRUE, !.expires_next = KTIME_MAX,
              !.softirq_expires_next = IF now >= @ THEN KTIME_MAX ELSE @]

\* from the label retry: remote CPUs are kept from queueing here, a due softirq is
\* raised
BeginPass(b) ==
    LET due == now >= b.softirq_expires_next
    IN [b EXCEPT !.deferred_rearm = TRUE, !.expires_next = KTIME_MAX,
                 !.softirq_expires_next = IF due THEN KTIME_MAX ELSE @,
                 !.softirq_activated = @ \/ due]

\* The device has fired.
Interrupt(c) ==
    /\ IrqsOn(c)
    /\ cpu_base[c].dev <= now
    /\ cpu_base' = [cpu_base EXCEPT ![c] = BeginPass(UpdateBase([@ EXCEPT !.dev = KTIME_MAX]))]
    /\ StartWalk(c, "hard", 0)
    /\ UNCHANGED <<now, tk, timer, setter, starts>>

PassDone(c, m) == walk[c][m].pc = "walk" /\ BaseDone(c, m) /\ walk[c][m].left = {}

\* the state after a pass: offsets and the next event reevaluated
AfterPass(c) == UpdateNextEvent(UpdateBase([cpu_base[c] EXCEPT !.hang_detected = FALSE]), timer, c)
AfterEvent(c) == NextOfAll(UpdateBase(cpu_base[c]), timer, c)

\* the next timer has expired meanwhile: one of at most three attempts
Retry(c) ==
    /\ PassDone(c, "hard")
    /\ AfterEvent(c) < now /\ walk[c]["hard"].tries + 1 < 3
    /\ cpu_base' = [cpu_base EXCEPT ![c] = BeginPass(AfterPass(c))]
    /\ StartWalk(c, "hard", walk[c]["hard"].tries + 1)
    /\ UNCHANGED <<now, tk, timer, setter, starts>>

\* hrtimer_interrupt_rearm(): cache the next event for the rearm on the way out of
\* the interrupt, or rearm at once
InterruptDone(c) ==
    LET e == AfterEvent(c)
        b == [AfterPass(c) EXCEPT !.hang_detected = e < now]
    IN /\ PassDone(c, "hard")
       /\ e >= now \/ walk[c]["hard"].tries + 1 >= 3
       /\ IF Deferred
          THEN /\ cpu_base' = [cpu_base EXCEPT ![c] =
                     [b EXCEPT !.deferred_needs_update = FALSE, !.deferred_expires_next = e]]
               /\ walk' = [walk EXCEPT ![c]["hard"] = [Off EXCEPT !.pc = "rearm"]]
          ELSE /\ cpu_base' = [cpu_base EXCEPT ![c] = Rearm(b, e)]
               /\ walk' = [walk EXCEPT ![c]["hard"] = Off]
       /\ UNCHANGED <<now, tk, timer, setter, starts>>

\* __hrtimer_rearm_deferred(), before interrupts are enabled again
RearmDeferred(c) ==
    LET b == cpu_base[c]
        u == UpdateBase(b)
    IN /\ walk[c]["hard"].pc = "rearm"
       /\ cpu_base' = [cpu_base EXCEPT ![c] =
             IF b.deferred_needs_update
             THEN Rearm(UpdateNextEvent(u, timer, c), NextOfAll(u, timer, c))
             ELSE Rearm(b, b.deferred_expires_next)]
       /\ walk' = [walk EXCEPT ![c]["hard"] = Off]
       /\ UNCHANGED <<now, tk, timer, setter, starts>>

-----------------------------------------------------------------------------
(* hrtimer_run_softirq()                                                   *)

Softirq(c) ==
    /\ cpu_base[c].softirq_activated
    /\ walk[c]["hard"].pc = "off" /\ walk[c]["soft"].pc = "off"
    /\ cpu_base' = [cpu_base EXCEPT ![c] = UpdateBase(@)]
    /\ StartWalk(c, "soft", 0)
    /\ UNCHANGED <<now, tk, timer, setter, starts>>

\* hrtimer_update_softirq_timer()
SoftBase(b, c) ==
    LET u == [b EXCEPT !.softirq_activated = FALSE]
        t == NextTimer(u, timer, c, "soft")
    IN IF t = None THEN u ELSE Reprogram(u, timer, t, TRUE)

SoftirqDone(c) ==
    /\ PassDone(c, "soft")
    /\ cpu_base' = [cpu_base EXCEPT ![c] = SoftBase(@, c)]
    /\ walk' = [walk EXCEPT ![c]["soft"] = Off]
    /\ UNCHANGED <<now, tk, timer, setter, starts>>

-----------------------------------------------------------------------------
(* clock_settime() and clock_was_set()                                     *)

\* The timekeeper takes a new offset; clock_was_set() follows.  Without memory for
\* the mask every CPU is interrupted.
SetClock(off) ==
    /\ setter.pc = "idle" /\ tk.clock_was_set_seq < MaxSets /\ off # tk.offset
    /\ tk' = [offset |-> off, clock_was_set_seq |-> tk.clock_was_set_seq + 1]
    /\ \/ setter' = [pc |-> "look", left |-> Cpus, mask |-> {}]
       \/ setter' = [pc |-> "ipi", left |-> {}, mask |-> Cpus]
    /\ UNCHANGED <<now, timer, cpu_base, walk, starts>>

\* mutant: a CPU is not interrupted for a timer that moves ahead of its next event
FirstMovesAheadNever(b, c) == FALSE

\* update_needs_ipi(): the first timer of an affected base moves ahead of the next
\* event
FirstMovesAhead(b, c) ==
    \E m \in Modes :
        /\ "real" \in ActiveBases(timer, c, m)
        /\ LET S == Base(timer, c, m, "real")
               e == Mono(b, timer, First(timer, S))
           IN \/ e < b.expires_next
              \/ m = "soft" /\ ~b.softirq_activated /\ e < b.softirq_expires_next

\* update_needs_ipi() for CPU c
Look(c) ==
    LET b == cpu_base[c]
        u == UpdateBase(b)
        changed == b.clock_was_set_seq # tk.clock_was_set_seq
    IN /\ setter.pc = "look" /\ c \in setter.left /\ ~Locked(c)
       /\ cpu_base' = [cpu_base EXCEPT ![c] =
             [u EXCEPT !.deferred_needs_update = @ \/ (changed /\ b.deferred_rearm)]]
       /\ setter' = [pc |-> IF setter.left = {c} THEN "ipi" ELSE "look",
                     left |-> setter.left \ {c},
                     mask |-> IF changed /\ ~b.deferred_rearm /\ FirstMovesAhead(u, c)
                              THEN setter.mask \cup {c} ELSE setter.mask]
       /\ UNCHANGED <<now, tk, timer, walk, starts>>

\* retrigger_next_event() by an IPI
Retrigger(c) ==
    /\ setter.pc = "ipi" /\ c \in setter.mask /\ IrqsOn(c)
    /\ cpu_base' = [cpu_base EXCEPT ![c] = ForceReprogram(UpdateBase(@), timer, c, FALSE)]
    /\ setter' = [setter EXCEPT !.mask = @ \ {c}]
    /\ UNCHANGED <<now, tk, timer, walk, starts>>

\* every CPU has answered
SetClockDone ==
    /\ setter.pc = "ipi" /\ setter.mask = {}
    /\ setter' = [setter EXCEPT !.pc = "idle"]
    /\ UNCHANGED <<now, tk, timer, cpu_base, walk, starts>>

-----------------------------------------------------------------------------
Tick ==
    /\ now < MaxTime
    /\ now' = now + 1
    /\ UNCHANGED <<tk, timer, cpu_base, walk, setter, starts>>

\* The walk of one mode goes on, and so does the handler it belongs to.
Walk(c, m) ==
    NextBase(c, m) \/ RunTimer(c, m) \/ ReturnNoRestart(c, m) \/ ReturnRestart(c, m)

Handler(c) == Walk(c, "hard") \/ Retry(c) \/ InterruptDone(c) \/ RearmDeferred(c)
SoftHandler(c) == Walk(c, "soft") \/ SoftirqDone(c)

Call(this) ==
    \E t \in Timers :
        \/ \E x \in StartTimes, user \in BOOLEAN : StartKeep(this, t, x, user)
        \/ \E x \in StartTimes, user \in BOOLEAN, dest \in Cpus :
              StartMove(this, t, x, user, dest)
        \/ Cancel(this, t)

Next ==
    \/ Tick
    \/ \E c \in Cpus : Call(c) \/ Interrupt(c) \/ Softirq(c)
                       \/ Handler(c) \/ SoftHandler(c) \/ Look(c) \/ Retrigger(c)
    \/ \E off \in Offsets : SetClock(off)
    \/ SetClockDone

Spec == Init /\ [][Next]_vars

\* Time passes, the device's interrupt is delivered, its handler, the rearm and the
\* softirq it raises run to their ends, callbacks return.  Nobody has to start, cancel
\* or restart a timer, or to set the clock.
Fairness ==
    /\ WF_vars(Tick)
    /\ \A c \in Cpus :
          /\ WF_vars(Interrupt(c)) /\ WF_vars(Handler(c))
          /\ WF_vars(Softirq(c)) /\ WF_vars(SoftHandler(c))
          /\ WF_vars(Look(c)) /\ WF_vars(Retrigger(c))
    /\ WF_vars(SetClockDone)

FairSpec == Spec /\ Fairness

-----------------------------------------------------------------------------
(* Properties                                                              *)

\* No handler that will reprogram the device is at work on the CPU or due by IPI.
Settled(c) == ~cpu_base[c].deferred_rearm /\ ~Locked(c) /\ c \notin setter.mask

\* The device will interrupt in time for the event e: it is programmed no later, or
\* the hang delay is running.
Covers(b, e) == b.dev <= e \/ (b.hang_detected /\ b.dev <= now + HangDelay)

\* The timers that are never missed: all of them, but where there are soft timers the
\* softirq takes over a new offset of CLOCK_REALTIME without a look at the hard ones
\* (hrtimer_run_softirq()), and those on that clock may be missed.
Sure == IF Soft = {} THEN Timers ELSE Timers \ (Real \ Soft)

\* No timer is forgotten: whenever a CPU is settled its device interrupts by the time
\* the earliest of its hard timers expires, and for a soft timer the softirq has been
\* raised or will be by that interrupt.  The code skips reprogramming when the first
\* timer is unchanged, when a rearm is pending, when a softirq is, and when the timer
\* is on another CPU.  Excepted are the timers that are not in Sure.
NoMissedEvent ==
    \A c \in Cpus : Settled(c) =>
        \A t \in Sure :
            LET b == cpu_base[c]
                e == AtLeast0(Mono(b, timer, t))
            IN timer[t].queued /\ timer[t].cpu = c =>
                  IF t \in Soft
                  THEN b.softirq_activated \/ (Covers(b, e) /\ b.softirq_expires_next <= e)
                  ELSE Covers(b, e)

\* cpu_base->expires_next, from which other CPUs decide whether they may queue a timer
\* here and every start whether it has to touch the device, is what the device is
\* programmed for; only the hang delay makes them differ.
NextMirrorsDevice ==
    \A c \in Cpus : ~cpu_base[c].deferred_rearm =>
        \/ cpu_base[c].dev = cpu_base[c].expires_next
        \/ cpu_base[c].hang_detected /\ cpu_base[c].dev <= now + HangDelay

\* Every timer expires: no timer whose time comes within the modelled time stays queued
\* for good.
EveryTimerExpires ==
    \A t \in Timers : <>[](timer[t].queued =>
        timer[t].expires - OffsetOf(tk, Clock(t)) > MaxTime)

\* When clock_was_set() has returned, the timers on CLOCK_REALTIME follow the new
\* setting: no CPU that is settled would let one pass, unless its softirq is about to
\* look at it.  Excepted are those that are not in Sure.
ClockSetTakesEffect ==
    setter.pc = "idle" => \A c \in Cpus : Settled(c) =>
        \A t \in Real \cap Sure : timer[t].queued /\ timer[t].cpu = c =>
            \/ t \in Soft /\ cpu_base[c].softirq_activated
            \/ Covers(cpu_base[c], AtLeast0(Mono(tk, timer, t)))
=============================================================================
