----------------------------- MODULE TimerWheel -----------------------------
(***************************************************************************)
(* The timer wheel of one timer base, linux_source/kernel/time/timer.c.    *)
(*                                                                         *)
(* A timer is put into a bucket of one of several levels, the further away *)
(* its expiry the coarser the level, and never moves to another level.     *)
(* next_expiry caches the time of the first bucket that holds a timer; it   *)
(* is what decides whether the softirq runs at all, how far the clock of    *)
(* the base may be forwarded, and how long an idle CPU sleeps.              *)
(*                                                                         *)
(* Every section that holds base->lock is one step, except that expiring    *)
(* drops it around each callback: anything may happen to the other timers   *)
(* that were collected together.  Jiffies are words of W bits and wrap.      *)
(* Several bases, timer_delete_sync() and timer_shutdown() are not in this   *)
(* module.                                                                 *)
(***************************************************************************)
EXTENDS Integers

CONSTANTS
    Timers,       \* struct timer_list instances of this base
    None,         \* no running timer
    Never,        \* a CPU that sleeps without a wakeup time
    W,            \* bits of an unsigned long
    LVL_CLK_SHIFT, LVL_BITS, LVL_DEPTH, TIMER_NEXT_MAX_DELTA,
    Start,        \* jiffies at boot
    Deltas,       \* distances from jiffies that callers ask for; Word - 1 is one tick ago
    MaxTicks,     \* bound on the ticks since boot
    MaxLag        \* bound on the jiffies by which the softirq or an IPI may be late

\* 1 << n
Pow2[n \in 0 .. W] == IF n = 0 THEN 1 ELSE 2 * Pow2[n - 1]

Word == Pow2[W]
Levels == 0 .. LVL_DEPTH - 1
LVL_SIZE == Pow2[LVL_BITS]
LVL_CLK_DIV == Pow2[LVL_CLK_SHIFT]
LVL_GRAN(l) == Pow2[l * LVL_CLK_SHIFT]
LVL_START(l) == (LVL_SIZE - 1) * LVL_GRAN(l - 1)
WHEEL_TIMEOUT_CUTOFF == LVL_START(LVL_DEPTH)
WHEEL_TIMEOUT_MAX == WHEEL_TIMEOUT_CUTOFF - LVL_GRAN(LVL_DEPTH - 1)
Buckets == Levels \X (0 .. LVL_SIZE - 1)
Times == 0 .. Word - 1

\* What a time that is asked for may be away from jiffies, so that the comparisons of
\* unsigned longs tell past from future until the timer has expired.
Reach == Word \div 2 - (TIMER_NEXT_MAX_DELTA + MaxLag + 2)

\* The last level goes round once in TIMER_NEXT_MAX_DELTA + 1 ticks at most.
ASSUME ConstAssumption ==
    /\ {W, LVL_CLK_SHIFT, LVL_BITS, LVL_DEPTH, MaxLag} \subseteq Nat \ {0}
    /\ LVL_CLK_SHIFT < LVL_BITS
    /\ LVL_BITS + (LVL_DEPTH - 1) * LVL_CLK_SHIFT < W
    /\ TIMER_NEXT_MAX_DELTA \in Nat
    /\ LVL_SIZE * LVL_GRAN(LVL_DEPTH - 1) <= TIMER_NEXT_MAX_DELTA + 1
    /\ LVL_GRAN(LVL_DEPTH - 1) <= Reach
    /\ Start \in Times /\ MaxTicks \in Nat
    /\ Deltas # {} /\ \A d \in Deltas : d \in Times /\ (d < Reach \/ Word - d < Reach)
    /\ None \notin Timers /\ Never \notin Times

VARIABLES
    jiffies,
    clk, next_expiry, next_expiry_recalc, timers_pending, is_idle,  \* struct timer_base
    pending_map, running_timer,                                     \* struct timer_base
    list,                 \* per timer: linked into "vectors" or "heads", or "none"
    expires,              \* per timer: timer->expires while it is pending, else Start
    bucket,               \* per timer: the array index in timer->flags, see Forget
    run,                  \* __run_timers() is at work
    wakeup, kicked,       \* an idle CPU: when its tick is programmed, IPI on its way
    due, placed           \* history: see Enqueue

base == <<clk, next_expiry, next_expiry_recalc, timers_pending, is_idle, pending_map, list>>
sleep == <<wakeup, kicked>>
history == <<due, placed>>
vars == <<jiffies, base, running_timer, expires, bucket, run, sleep, history>>

-----------------------------------------------------------------------------
(* Arithmetic on unsigned long                                             *)

Plus(a, b) == (a + b) % Word
Minus(a, b) == (a - b) % Word
Before(a, b) == Minus(a, b) >= Word \div 2         \* time_before()
AtOrAfter(a, b) == ~Before(a, b)                   \* time_after_eq()
Earliest(S) == CHOOSE a \in S : \A b \in S : AtOrAfter(b, a)
Ticks == Minus(jiffies, Start)

\* mutant: rounds down
CalcIndexDown(e, l) ==
    LET n == e \div LVL_GRAN(l)
    IN  [bucket |-> <<l, n % LVL_SIZE>>, expiry |-> (n * LVL_GRAN(l)) % Word]

\* calc_index(): round up to the granularity of the level
CalcIndex(e, l) ==
    LET n == e \div LVL_GRAN(l) + 1
    IN  [bucket |-> <<l, n % LVL_SIZE>>, expiry |-> (n * LVL_GRAN(l)) % Word]

\* calc_wheel_index() with the clock c of the base
WheelIndex(e, c) ==
    LET delta == Minus(e, c)
        fits == {l \in Levels : delta < LVL_START(l + 1)}
        past == Before(e, c)
    IN  IF fits # {} THEN CalcIndex(e, CHOOSE l \in fits : \A k \in fits : l <= k)
        ELSE IF past THEN [bucket |-> <<0, c % LVL_SIZE>>, expiry |-> c]
        ELSE CalcIndex(Plus(c, WHEEL_TIMEOUT_MAX), LVL_DEPTH - 1)

\* mutant: forwarded to jiffies whatever is due before
ForwardedPast(basej, ne) == IF AtOrAfter(clk, basej) THEN clk ELSE basej

\* base->clk after __forward_timer_base() to basej, when next_expiry is ne
Forwarded(basej, ne) ==
    IF AtOrAfter(clk, basej) THEN clk
    ELSE IF Before(basej, ne) THEN basej
    ELSE IF Before(ne, clk) THEN clk
    ELSE ne

\* mutant: no adjustment of the clock of the next level
LevelClkTruncated(c) ==
    LET at[l \in Levels] == IF l = 0 THEN c ELSE at[l - 1] \div LVL_CLK_DIV
    IN  at

\* the clock timer_recalc_next_expiry() looks at a level with: rounded up, as
\* that is the next bucket of the level to expire
LevelClk(c) ==
    LET at[l \in Levels] ==
            IF l = 0 THEN c
            ELSE at[l - 1] \div LVL_CLK_DIV + (IF at[l - 1] % LVL_CLK_DIV # 0 THEN 1 ELSE 0)
    IN  at

\* timer_recalc_next_expiry() with the clock c: the levels up to the first one
\* whose next bucket expires before the level above it is due
NextPending(map, c) ==
    LET at == LevelClk(c)
        Dist(l) == {d \in 0 .. LVL_SIZE - 1 : <<l, (at[l] + d) % LVL_SIZE>> \in map}
        Pos(l) == CHOOSE d \in Dist(l) : \A n \in Dist(l) : d <= n
        Stops(l) == Dist(l) # {} /\ Pos(l) <= (LVL_CLK_DIV - (at[l] % LVL_CLK_DIV)) % LVL_CLK_DIV
        reached == {l \in Levels : \A k \in Levels : k < l => ~Stops(k)}
        found == {((at[l] + Pos(l)) * LVL_GRAN(l)) % Word : l \in {k \in reached : Dist(k) # {}}}
    IN  Earliest(found \cup {Plus(c, TIMER_NEXT_MAX_DELTA)})

-----------------------------------------------------------------------------
Init ==
    /\ jiffies = Start
    /\ clk = Start
    /\ next_expiry = Plus(Start, TIMER_NEXT_MAX_DELTA)
    /\ next_expiry_recalc = FALSE /\ timers_pending = FALSE /\ is_idle = FALSE
    /\ pending_map = {}
    /\ list = [t \in Timers |-> "none"]
    /\ running_timer = None
    /\ expires = [t \in Timers |-> Start]
    /\ bucket = [t \in Timers |-> <<0, 0>>]
    /\ run = FALSE
    /\ wakeup = Never /\ kicked = FALSE
    /\ due = [t \in Timers |-> Start]
    /\ placed = [t \in Timers |-> "exact"]

\* base->vectors + b, and the lists that collect_expired_timers() has moved;
\* a timer carries the index of its bucket to either
Vector(b) == {t \in Timers : list[t] = "vectors" /\ bucket[t] = b}
Collected == {t \in Timers : list[t] = "heads"}
Pending(t) == list[t] # "none"                      \* timer_pending()
Unlocked == ~run \/ running_timer # None    \* nobody holds base->lock

\* mutant: the bit is cleared with every timer
EmptiedAlways(t) == Pending(t)

\* hlist_is_singular_node(): the timer is alone in its bucket of the wheel
Emptied(t) == list[t] = "vectors" /\ Vector(bucket[t]) = {t}

\* mutant: next_expiry is taken to be valid after a deletion
DetachNoRecalc(t) ==
    /\ list' = [list EXCEPT ![t] = "none"]
    /\ pending_map' = IF Emptied(t) THEN pending_map \ {bucket[t]} ELSE pending_map
    /\ UNCHANGED next_expiry_recalc

\* Nobody asks for the expiry and the index of a timer that is not pending (but
\* see ModNothing).
Forget(t) ==
    /\ bucket' = [bucket EXCEPT ![t] = <<0, 0>>]
    /\ expires' = [expires EXCEPT ![t] = Start]
    /\ due' = [due EXCEPT ![t] = Start]
    /\ placed' = [placed EXCEPT ![t] = "exact"]

\* detach_if_pending(), detach_timer()
Detach(t) ==
    /\ list' = [list EXCEPT ![t] = "none"]
    /\ pending_map' = IF Emptied(t) THEN pending_map \ {bucket[t]} ELSE pending_map
    /\ next_expiry_recalc' = (next_expiry_recalc \/ Emptied(t))

\* mutant: an idle CPU is left asleep
KickNobody == UNCHANGED kicked

\* trigger_dyntick_cpu(): wake_up_nohz_cpu() on an idle base
Kick == kicked' = (kicked \/ is_idle)

Placed(e, c) ==
    IF AtOrAfter(e, c) /\ Minus(e, c) >= WHEEL_TIMEOUT_CUTOFF THEN "capped" ELSE "exact"

\* The rest of __mod_timer() once it has forwarded the clock to c: detach the
\* timer, enqueue it for e.  History: due is the time of its bucket; placed is
\* "capped" when e is beyond the capacity of the wheel.
Enqueue(t, e, c) ==
    LET i == WheelIndex(e, c)
        first == Before(i.expiry, next_expiry)
    IN  /\ expires' = [expires EXCEPT ![t] = e]
        /\ bucket' = [bucket EXCEPT ![t] = i.bucket]
        /\ list' = [list EXCEPT ![t] = "vectors"]
        /\ pending_map' = {i.bucket} \cup
                          (IF Emptied(t) THEN pending_map \ {bucket[t]} ELSE pending_map)
        /\ IF first
           THEN /\ next_expiry' = i.expiry
                /\ timers_pending' = TRUE
                /\ next_expiry_recalc' = FALSE
                /\ Kick
           ELSE /\ next_expiry_recalc' = (next_expiry_recalc \/ Emptied(t))
                /\ UNCHANGED <<next_expiry, timers_pending, kicked>>
        /\ due' = [due EXCEPT ![t] = i.expiry]
        /\ placed' = [placed EXCEPT ![t] = Placed(e, c)]

-----------------------------------------------------------------------------
(* __mod_timer(): mod_timer(), mod_timer_pending(), timer_reduce(),         *)
(* add_timer()                                                             *)

\* The options only decide whether a call has an effect: MOD_TIMER_REDUCE not to
\* move a pending timer later, MOD_TIMER_PENDING_ONLY not to start one.
\* MOD_TIMER_NOTPENDING is no option on a timer that is not pending, and
\* add_timer() rejects one that is.

\* With the lock, the clock is forwarded first.
Clk == Forwarded(jiffies, next_expiry)
ForwardOnly ==
    /\ clk' = Clk
    /\ UNCHANGED <<jiffies, next_expiry, next_expiry_recalc, timers_pending, is_idle, pending_map,
                   list, running_timer, bucket, run, sleep, due>>

\* The new expiry falls into the bucket that the timer says it is in: only the
\* expiry is changed.  History: placed is "left" when the timer waits on a
\* collected list instead.
SameBucket(t, e) == WheelIndex(e, Clk).bucket = bucket[t]
KeepBucket(t, e) ==
    /\ ForwardOnly
    /\ expires' = [expires EXCEPT ![t] = e]
    /\ placed' = [placed EXCEPT ![t] = IF list[t] = "heads" THEN "left" ELSE Placed(e, Clk)]

Requeue(t, e) ==
    /\ clk' = Clk
    /\ Enqueue(t, e, Clk)
    /\ UNCHANGED <<jiffies, is_idle, running_timer, run, wakeup>>

\* A call that finds the expiry unchanged returns without the lock, and one that
\* found the timer inactive when it looked without the lock does not ask whether
\* the bucket stays the same.
ModPending(t, d) ==
    LET e == Plus(jiffies, d)
    IN  /\ Unlocked /\ Pending(t)
        /\ \/ e # expires[t] /\ SameBucket(t, e) /\ KeepBucket(t, e)
           \/ Requeue(t, e)

ModInactive(t, d) == Unlocked /\ ~Pending(t) /\ Requeue(t, Plus(jiffies, d))

\* A call that leaves the timers alone once it has the lock: mod_timer_pending()
\* of an inactive one, timer_reduce() to no earlier time, and mod_timer() of one
\* that was pending at the look before the lock, is not any more, and whose old
\* index is the new one.
ModNothing == Unlocked /\ ForwardOnly /\ UNCHANGED <<expires, placed>>

\* timer_delete() of a pending timer
Delete(t) ==
    /\ Unlocked /\ Pending(t)
    /\ Detach(t)
    /\ Forget(t)
    /\ UNCHANGED <<jiffies, clk, next_expiry, timers_pending, is_idle, running_timer, run, sleep>>

-----------------------------------------------------------------------------
(* __run_timers(), collect_expired_timers(), expire_timers()               *)

Due == AtOrAfter(jiffies, next_expiry)

\* run_local_timers() in the tick raises the softirq, __run_timer_base() looks
\* again and takes the lock.  A CPU that sleeps has no tick before its wakeup.
SoftirqStarts ==
    /\ ~run
    /\ is_idle => wakeup # Never /\ AtOrAfter(jiffies, wakeup)

\* All the lists that were collected have been expired.
ExpireDone == run /\ running_timer = None /\ Collected = {}

\* The bucket of each level that is due at c: an outer level only when the
\* clock of the level below has come round.
DueBuckets(c) ==
    {<<l, (c \div LVL_GRAN(l)) % LVL_SIZE>> : l \in {k \in Levels : c % LVL_GRAN(k) = 0}}

\* One pass of the loop: collect the lists that are due, count the clock one
\* up, find the next expiry.
Collect ==
    LET hit == DueBuckets(next_expiry) \cap pending_map
        map == pending_map \ hit
        c == Plus(next_expiry, 1)
        next == NextPending(map, c)
    IN  /\ SoftirqStarts \/ ExpireDone
        /\ Due /\ AtOrAfter(jiffies, clk)
        /\ list' = [t \in Timers |->
              IF list[t] = "vectors" /\ bucket[t] \in hit THEN "heads" ELSE list[t]]
        /\ pending_map' = map
        /\ clk' = c
        /\ next_expiry' = next
        /\ next_expiry_recalc' = FALSE
        /\ timers_pending' = (next # Plus(c, TIMER_NEXT_MAX_DELTA))
        /\ run' = TRUE
        /\ UNCHANGED <<jiffies, is_idle, running_timer, expires, bucket, sleep, history>>

\* expire_timers(), outermost level first: detach the timer, drop the lock,
\* call the function
Expire ==
    /\ run /\ running_timer = None
    /\ \E t \in Collected :
          /\ \A n \in Collected : bucket[n][1] <= bucket[t][1]
          /\ running_timer' = t
          /\ list' = [list EXCEPT ![t] = "none"]
          /\ Forget(t)
    /\ UNCHANGED <<jiffies, clk, next_expiry, next_expiry_recalc, timers_pending, is_idle, pending_map,
                   run, sleep>>

\* the function has returned and the lock is taken again
CallbackDone ==
    /\ running_timer # None
    /\ running_timer' = None
    /\ UNCHANGED <<jiffies, base, expires, bucket, run, sleep, history>>

RunDone ==
    /\ ExpireDone /\ ~(Due /\ AtOrAfter(jiffies, clk))
    /\ run' = FALSE
    /\ UNCHANGED <<jiffies, base, running_timer, expires, bucket, sleep, history>>

-----------------------------------------------------------------------------
(* Time, and the idle CPU                                                  *)

\* Bounds: the softirq is not late by more than MaxLag, nor is a sleeping CPU
\* behind its wakeup or the IPI behind the timer it is sent for.
Tick ==
    /\ Ticks < MaxTicks
    /\ is_idle /\ wakeup # Never => Before(jiffies, Plus(wakeup, MaxLag))
    /\ ~is_idle \/ kicked => Before(jiffies, Plus(next_expiry, MaxLag))
    /\ jiffies' = Plus(jiffies, 1)
    /\ UNCHANGED <<base, running_timer, expires, bucket, run, sleep, history>>

\* __get_next_timer_interrupt() in the idle loop, which stops the tick if the
\* next event is more than a tick away, and programs it again after each
\* interrupt that leaves the CPU in the idle loop
TryToSetIdle ==
    LET found == IF next_expiry_recalc THEN NextPending(pending_map, clk) ELSE next_expiry
        some == IF next_expiry_recalc
                THEN found # Plus(clk, TIMER_NEXT_MAX_DELTA) ELSE timers_pending
        next == IF some THEN found ELSE Plus(jiffies, TIMER_NEXT_MAX_DELTA)
    IN  /\ ~run
        /\ next_expiry' = next
        /\ next_expiry_recalc' = FALSE
        /\ timers_pending' = some
        /\ clk' = Forwarded(jiffies, next)
        /\ IF is_idle \/ Before(Plus(jiffies, 1), next)
           THEN is_idle' = TRUE /\ wakeup' = (IF some THEN next ELSE Never)
           ELSE UNCHANGED <<is_idle, wakeup>>
        /\ UNCHANGED <<jiffies, pending_map, list, running_timer, expires, bucket, run,
                       kicked, history>>

\* timer_clear_idle(), at any interrupt that makes the CPU leave the idle loop
ClearIdle ==
    /\ is_idle
    /\ is_idle' = FALSE /\ wakeup' = Never /\ kicked' = FALSE
    /\ UNCHANGED <<jiffies, clk, next_expiry, next_expiry_recalc, timers_pending, pending_map,
                   list, running_timer, expires, bucket, run, history>>

-----------------------------------------------------------------------------
Next ==
    \/ \E t \in Timers, d \in Deltas :
          ModPending(t, d) \/ ModInactive(t, d)
    \/ ModNothing
    \/ \E t \in Timers : Delete(t)
    \/ Collect \/ Expire \/ CallbackDone \/ RunDone
    \/ Tick \/ TryToSetIdle \/ ClearIdle

Spec == Init /\ [][Next]_vars

-----------------------------------------------------------------------------
(* Properties                                                              *)

\* A caller's timer on an empty base expires before next_expiry, which is
\* TIMER_NEXT_MAX_DELTA after the last expiry or idle entry, and none expires at
\* exactly that distance from the clock: it would be taken for an empty base.
WithinDelta ==
    \A d \in Deltas :
        LET at == WheelIndex(Plus(jiffies, d), Clk).expiry
        IN  /\ at # Plus(Clk, TIMER_NEXT_MAX_DELTA)
            /\ ~timers_pending => Before(at, next_expiry)

\* No timer is missed or taken for one of another lap of the wheel: its bucket
\* is not behind the clock, next_expiry is not behind the clock and not after
\* any bucket, and the timer comes no later than one granularity of its level
\* after the time it was asked for.
NothingMissed ==
    /\ AtOrAfter(next_expiry, clk)
    /\ \A t \in Timers : list[t] = "vectors" =>
          /\ AtOrAfter(due[t], next_expiry)
          /\ timers_pending
          /\ \/ /\ Before(expires[t], due[t])
                /\ \/ Minus(due[t], expires[t]) <= LVL_GRAN(bucket[t][1])
                   \/ bucket[t][1] = 0                     \* it was in the past
             \/ placed[t] = "capped"

Starts(t) == running_timer' = t /\ running_timer # t

\* "The timer wheel has to guarantee that a timer does not fire early", and the
\* buckets that are collected at a clock are the ones of that clock.  Excepted
\* are timers beyond the capacity of the wheel, and timers that were given a
\* new expiry for their old bucket when they had left it.
FiresOnTime ==
    [][\A t \in Timers : Starts(t) =>
          /\ AtOrAfter(jiffies, due[t])
          /\ placed[t] = "exact" => AtOrAfter(jiffies, expires[t])]_vars

\* A timer within the capacity of the wheel does not fire early, whatever
\* mod_timer() did to it.
NeverEarly ==
    [][\A t \in Timers : Starts(t) /\ placed[t] # "capped" => AtOrAfter(jiffies, expires[t])]_vars

\* An idle CPU wakes up in time for the first bucket, or an IPI is on its way.
WakesInTime ==
    is_idle /\ ~kicked =>
        \A t \in Timers : list[t] = "vectors" => wakeup # Never /\ AtOrAfter(due[t], wakeup)

\* The two WARN_ON_ONCE() of the code: __run_timers() finds a bucket unless
\* something was deleted or the base is empty, and next_expiry is not behind the
\* clock when __forward_timer_base() is called: by mod_timer(), which does so as
\* soon as it has the lock, and by the idle loop with the next_expiry it has just
\* computed, of which it is asked if that is not after jiffies.
Collects == Collected = {} /\ run' = TRUE /\ clk' = Plus(next_expiry, 1)

NoWarning ==
    [][/\ Collects =>
            \/ DueBuckets(next_expiry) \cap pending_map # {}
            \/ next_expiry_recalc \/ ~timers_pending
       /\ Unlocked => AtOrAfter(next_expiry, clk)
       /\ TryToSetIdle /\ ~Before(jiffies, next_expiry') => AtOrAfter(next_expiry', clk)]_vars

=============================================================================
