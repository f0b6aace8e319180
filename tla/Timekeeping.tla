---------------------------- MODULE Timekeeping ----------------------------
(***************************************************************************)
(* The values the timekeeper hands out: linux_source/kernel/time/           *)
(* timekeeping.c.  A hardware counter that wraps is turned into             *)
(* CLOCK_MONOTONIC, CLOCK_MONOTONIC_RAW, CLOCK_REALTIME, CLOCK_BOOTTIME and *)
(* CLOCK_TAI by a pair (cycle_last, xtime_nsec) that the tick moves along,  *)
(* while the clock is set, steered, given a leap second, moved to another   *)
(* counter, suspended and resumed.                                          *)
(*                                                                         *)
(* A section that holds tk_core.lock is one step: it works on the shadow    *)
(* timekeeper and publishes it, or restores it, so that outside of the lock *)
(* the two copies are equal and one variable stands for both (TkReaders has *)
(* the steps of the publication).  Shifted nanoseconds keep their shift.    *)
(***************************************************************************)
EXTENDS Integers

CONSTANTS
    Clocks,      \* the clocksources
    Source,      \* per clocksource: mult, shift, size (mask + 1), max_cycles,
                 \* and of the hardware: period, phase, nonstop
    Default,     \* clocksource_default_clock()
    NSEC_PER_SEC,
    NTP_INTERVAL_LENGTH,
    MaxAdj,      \* how far NTP steers the multiplier from that of the source
    W,           \* the width of the words in which cycles are multiplied
    Day,         \* seconds; leap seconds are taken at its end
    KTIME_MAX,
    MaxTime,     \* bound on the modelled time
    MaxIdle,     \* the longest time without an update
    Sets,        \* values CLOCK_REALTIME may be set to
    Shifts,      \* values it may be moved by
    Sleeps,      \* how long the system may sleep
    MaxOps       \* bound on the operations besides the tick

VARIABLES
    now,      \* the time that has passed while awake, in ns
    slept,    \* the time spent in suspend
    tk,       \* struct timekeeper
    ntp,      \* external, ntp.c: time_state, the leap bits of time_status, next leap
    power,    \* timekeeping_suspended, cycles_at_suspend, suspend_timing_needed,
              \* and slept when the RTC was read last
    base,     \* what one hrtimer base has got: clock_was_set_seq and offs_real
    ops,      \* operations so far
    updated   \* when cycle_last was moved last, to bound the idle time

vars == <<now, slept, tk, ntp, power, base, ops, updated>>

\* max_cycles is computed such that the multiplication does not overflow.  (That a power of
\* two is positive has to be said to the provers.)
SourceAssumption(s) ==
    /\ {s.mult, s.shift, s.size, s.max_cycles, s.phase} \subseteq Nat /\ s.period \in Nat \ {0}
    /\ s.nonstop \in BOOLEAN
    /\ s.size > 2 /\ s.mult > MaxAdj
    /\ 2 ^ s.shift > 0
    /\ s.max_cycles * (s.mult + MaxAdj) + NSEC_PER_SEC * 2 ^ s.shift < 2 ^ W

ASSUME ConstAssumption ==
    /\ Default \in Clocks
    /\ {NSEC_PER_SEC, NTP_INTERVAL_LENGTH, Day} \subseteq Nat \ {0}
    /\ {MaxAdj, W, KTIME_MAX, MaxTime, MaxIdle, MaxOps} \subseteq Nat
    /\ Sets \subseteq Nat /\ Shifts \subseteq Int /\ Sleeps \subseteq Nat \ {0}
    /\ \A c \in Clocks : SourceAssumption(Source[c])

-----------------------------------------------------------------------------
\* The counters

Pow2(s) == 2^s

\* NSEC_PER_SEC << shift of the clocksource
ShiftedSec(t) == NSEC_PER_SEC * Pow2(Source[t.clock].shift)

\* clock->read(): a counter that wraps, and stops in suspend unless nonstop
Read(c) ==
    ((now + (IF Source[c].nonstop THEN slept ELSE 0) + Source[c].phase)
        \div Source[c].period) % Source[c].size

\* External, clocksource_delta(): a delta beyond max_raw_delta is motion backwards
ClocksourceDelta(t) ==
    LET size  == Source[t.clock].size
        mask  == size - 1
        delta == (Read(t.clock) - t.cycle_last) % size
    IN IF delta > mask \div 2 + mask \div 4 + mask \div 8 THEN 0 ELSE delta

\* Mutants: the quick product for every delta; no check for a lagging counter
CyclesToNsQuick(t, mult, xtime_nsec, cycles) ==
    ((((cycles - t.cycle_last) % Source[t.clock].size) * mult + xtime_nsec) % Pow2(W))
        \div Pow2(Source[t.clock].shift)
CyclesToNsUnsigned(t, mult, xtime_nsec, cycles) ==
    (((cycles - t.cycle_last) % Source[t.clock].size) * mult + xtime_nsec)
        \div Pow2(Source[t.clock].shift)

\* timekeeping_cycles_to_ns(): the quick product is W bits wide, the safe one is not
CyclesToNs(t, mult, xtime_nsec, cycles) ==
    LET s     == Source[t.clock]
        delta == (cycles - t.cycle_last) % s.size
    IN IF delta <= s.max_cycles THEN ((delta * mult + xtime_nsec) % Pow2(W)) \div Pow2(s.shift)
       ELSE IF delta >= s.size \div 2 THEN xtime_nsec \div Pow2(s.shift)
       ELSE (delta * mult + xtime_nsec) \div Pow2(s.shift)

\* cycle_interval of tk_setup_internals(), rounded to whole cycles
CycleInterval(c) ==
    LET s == Source[c]
        cycles == (NTP_INTERVAL_LENGTH * Pow2(s.shift) + s.mult \div 2) \div s.mult
    IN IF cycles = 0 THEN 1 ELSE cycles

-----------------------------------------------------------------------------
\* Operators on struct timekeeper

\* tk_normalize_xtime()
Normalize(t) ==
    [t EXCEPT !.xtime_sec = @ + t.xtime_nsec \div ShiftedSec(t),
              !.xtime_nsec = @ % ShiftedSec(t),
              !.raw_sec = @ + t.raw_nsec \div ShiftedSec(t),
              !.raw_nsec = @ % ShiftedSec(t)]

\* tk_update_coarse_nsecs()
UpdateCoarse(t) == [t EXCEPT !.coarse_nsec = t.xtime_nsec \div Pow2(Source[t.clock].shift)]

\* tk_xtime()
Xtime(t) == t.xtime_sec * NSEC_PER_SEC + t.xtime_nsec \div Pow2(Source[t.clock].shift)

\* tk_set_xtime()
SetXtime(t, ts) ==
    UpdateCoarse([t EXCEPT !.xtime_sec = ts \div NSEC_PER_SEC,
                           !.xtime_nsec = (ts % NSEC_PER_SEC) * Pow2(Source[t.clock].shift)])

\* tk_xtime_add()
XtimeAdd(t, ts) ==
    UpdateCoarse(Normalize(
        [t EXCEPT !.xtime_sec = @ + ts \div NSEC_PER_SEC,
                  !.xtime_nsec = @ + (ts % NSEC_PER_SEC) * Pow2(Source[t.clock].shift)]))

\* tk_set_wall_to_mono()
SetWallToMono(t, wtm) ==
    [t EXCEPT !.wall_to_monotonic = wtm, !.offs_real = -wtm,
              !.offs_tai = t.tai_offset * NSEC_PER_SEC - wtm]

\* __timekeeping_set_tai_offset()
SetTaiOffset(t, tai) ==
    [t EXCEPT !.tai_offset = tai, !.offs_tai = t.offs_real + tai * NSEC_PER_SEC]

\* timekeeping_forward_now(): the loop over chunks of max_cycles keeps the
\* product within 64 bits
ForwardNow(t) ==
    LET delta == ClocksourceDelta(t)
    IN UpdateCoarse(Normalize(
          [t EXCEPT !.cycle_last = Read(t.clock),
                    !.xtime_nsec = @ + delta * t.mult,
                    !.raw_nsec = @ + delta * Source[t.clock].mult]))

\* tk_setup_internals() on a change of the clocksource
SetupInternals(t, new) ==
    LET change(ns) == (ns * Pow2(Source[new].shift)) \div Pow2(Source[t.clock].shift)
    IN [t EXCEPT !.clock = new, !.cycle_last = Read(new), !.mult = Source[new].mult,
                 !.xtime_nsec = change(t.xtime_nsec), !.raw_nsec = change(t.raw_nsec),
                 !.skip_second_overflow = FALSE]

\* External, ntp_get_next_leap(): an insertion that has been announced
NextLeap(n) == IF n.state = "INS" /\ n.status = "INS" /\ n.leap_sec # KTIME_MAX
               THEN n.leap_sec * NSEC_PER_SEC ELSE KTIME_MAX

\* Mutant: the leap second is not converted to CLOCK_MONOTONIC
UpdateLeapStateReal(t, n) == [t EXCEPT !.next_leap_ktime = NextLeap(n)]

\* tk_update_leap_state()
UpdateLeapState(t, n) ==
    [t EXCEPT !.next_leap_ktime =
        IF NextLeap(n) = KTIME_MAX THEN KTIME_MAX ELSE NextLeap(n) - t.offs_real]

\* tk_update_ktime_data()
UpdateKtimeData(t) ==
    LET seconds == t.xtime_sec + t.wall_to_monotonic \div NSEC_PER_SEC
        nsec    == t.wall_to_monotonic % NSEC_PER_SEC
        sum     == nsec + t.xtime_nsec \div Pow2(Source[t.clock].shift)
    IN [t EXCEPT !.base = seconds * NSEC_PER_SEC + nsec,
                 !.ktime_sec = IF sum >= NSEC_PER_SEC THEN seconds + 1 ELSE seconds,
                 !.raw_base = t.raw_sec * NSEC_PER_SEC]

\* External, ntp_clear(): a leap second that is pending is forgotten
NtpClear(n) == [n EXCEPT !.leap_sec = KTIME_MAX]

\* timekeeping_update_from_shadow() without TK_CLEAR_NTP
Published(t, n, clock_was_set) ==
    LET u == UpdateKtimeData(UpdateLeapState(t, n))
    IN [u EXCEPT !.base_real = u.base + u.offs_real,
                 !.clock_was_set_seq = IF clock_was_set THEN @ + 1 ELSE @]

\* timekeeping_update_from_shadow() with TK_UPDATE_ALL
UpdateAll(t) ==
    /\ ntp' = NtpClear(ntp)
    /\ tk' = Published(t, NtpClear(ntp), TRUE)
    /\ updated' = now

-----------------------------------------------------------------------------
\* Accumulation

\* External, second_overflow() of ntp.c: the state and the leap of second sec
SecondOverflow(n, sec) ==
    CASE n.state = "OK" /\ n.status = "INS" ->
            [ntp |-> [n EXCEPT !.state = "INS", !.leap_sec = sec + Day - (sec % Day)], leap |-> 0]
      [] n.state = "OK" /\ n.status = "DEL" ->
            [ntp |-> [n EXCEPT !.state = "DEL", !.leap_sec = sec + Day - ((sec + 1) % Day)], leap |-> 0]
      [] n.state \in {"INS", "DEL"} /\ n.status # n.state ->
            [ntp |-> [n EXCEPT !.state = "OK", !.leap_sec = KTIME_MAX], leap |-> 0]
      [] n.state \in {"INS", "DEL"} /\ n.status = n.state /\ sec = n.leap_sec ->
            [ntp |-> [n EXCEPT !.state = "WAIT", !.leap_sec = KTIME_MAX],
             leap |-> IF n.state = "INS" THEN -1 ELSE 1]
      [] n.state = "WAIT" /\ n.status = "none" ->
            [ntp |-> [n EXCEPT !.state = "OK"], leap |-> 0]
      [] OTHER -> [ntp |-> n, leap |-> 0]

\* A leap second: the wall clock jumps, CLOCK_MONOTONIC and CLOCK_TAI do not
ApplyLeap(t, leap) ==
    SetTaiOffset(SetWallToMono([t EXCEPT !.xtime_sec = @ + leap],
                               t.wall_to_monotonic - leap * NSEC_PER_SEC),
                 t.tai_offset - leap)

\* One round of accumulate_nsecs_to_secs(): NTP is told of the second, unless it was before
NextSec(a) ==
    LET t == [a.tk EXCEPT !.xtime_nsec = @ - ShiftedSec(a.tk), !.xtime_sec = @ + 1,
                          !.skip_second_overflow = FALSE]
        o == SecondOverflow(a.ntp, t.xtime_sec)
    IN IF a.tk.skip_second_overflow THEN [a EXCEPT !.tk = t]
       ELSE IF o.leap = 0 THEN [a EXCEPT !.tk = t, !.ntp = o.ntp]
       ELSE [tk |-> ApplyLeap(t, o.leap), ntp |-> o.ntp, clock_set |-> TRUE]

\* accumulate_nsecs_to_secs(): as many rounds as there are whole seconds
WholeSecs(t) == IF t.xtime_nsec < 0 THEN 0 ELSE t.xtime_nsec \div ShiftedSec(t)
AccumulateSecs(a) ==
    LET round[n \in 0 .. WholeSecs(a.tk)] == IF n = 0 THEN a ELSE NextSec(round[n - 1])
    IN round[WholeSecs(a.tk)]

\* Mutant: only the multiplier changes
ApplyMult(t, offset, mult) == [t EXCEPT !.mult = mult]

\* timekeeping_apply_adjustment(): the time of the last update moves so that
\* the current time does not
ApplyAdjustment(t, offset, mult) ==
    [t EXCEPT !.mult = mult, !.xtime_nsec = @ - offset * (mult - t.mult)]

\* Mutant: xtime_nsec stays negative
AdjustOnly(t, offset, mult) == ApplyAdjustment(t, offset, mult)

\* timekeeping_adjust(): the new multiplier is left open (whether ntp_error is
\* positive, and what NTP asks for, is 64-bit arithmetic of ntp.c); xtime_nsec
\* may become negative
Adjust(t, offset, mult) ==
    LET u == ApplyAdjustment(t, offset, mult)
    IN IF u.xtime_nsec >= 0 THEN u
       ELSE [u EXCEPT !.xtime_nsec = @ + ShiftedSec(u), !.xtime_sec = @ - 1,
                      !.skip_second_overflow = TRUE]

\* logarithmic_accumulation() until less than an interval is left: chunks of
\* powers of two add up to whole intervals
AccumulateIntervals(t, n) ==
    LET cycles == n * CycleInterval(t.clock)
        u == [t EXCEPT !.cycle_last = (@ + cycles) % Source[t.clock].size,
                       !.xtime_nsec = @ + cycles * t.mult,
                       !.raw_nsec = @ + cycles * Source[t.clock].mult]
    IN [u EXCEPT !.raw_sec = @ + u.raw_nsec \div ShiftedSec(t),
                 !.raw_nsec = @ % ShiftedSec(t)]

\* __timekeeping_advance() with the multiplier it arrives at
Advanced(t, n, mult) ==
    LET offset == ClocksourceDelta(t)
        whole  == offset \div CycleInterval(t.clock)
        a == AccumulateSecs([tk |-> AccumulateIntervals(t, whole), ntp |-> n, clock_set |-> FALSE])
        b == AccumulateSecs([a EXCEPT !.tk = Adjust(@, offset % CycleInterval(t.clock), mult)])
    IN [b EXCEPT !.tk = IF whole > 0 THEN UpdateCoarse(b.tk) ELSE b.tk]

-----------------------------------------------------------------------------
\* Readers.  A seqcount reader that need not retry has read one published
\* timekeeper, and the counter while that was current.

\* ktime_get(), and ktime_get_mono_fast_ns(), whose clock stands still in suspend
Mono == tk.base + CyclesToNs(tk, tk.mult, tk.xtime_nsec,
                             IF power.suspended THEN power.cycles ELSE Read(tk.clock))
\* ktime_get_raw()
Raw == tk.raw_base + CyclesToNs(tk, Source[tk.clock].mult, tk.raw_nsec,
                                IF power.suspended THEN power.cycles ELSE Read(tk.clock))
\* ktime_get_with_offset()
WithOffset(offs) == Mono + offs
\* ktime_get_real_ts64(), ktime_get_ts64()
RealTs64 == tk.xtime_sec * NSEC_PER_SEC
              + CyclesToNs(tk, tk.mult, tk.xtime_nsec,
                           IF power.suspended THEN power.cycles ELSE Read(tk.clock))
Ts64 == RealTs64 + tk.wall_to_monotonic
\* ktime_get_real_fast_ns()
RealFast == Mono - tk.base + tk.base_real
\* ktime_get_coarse_with_offset(), ktime_get_coarse_ts64()
CoarseWithOffset(offs) == tk.base + offs + tk.coarse_nsec
CoarseTs64 == tk.xtime_sec * NSEC_PER_SEC + tk.coarse_nsec + tk.wall_to_monotonic
\* ktime_get() on a CPU whose counter is one cycle behind
LaggingMono == tk.base + CyclesToNs(tk, tk.mult, tk.xtime_nsec, Read(tk.clock) - 1)

-----------------------------------------------------------------------------
\* The system

\* timekeeping_init(): read_persistent_clock64() of this tree returns zero
Init ==
    /\ now = 0 /\ slept = 0 /\ ops = 0 /\ updated = 0
    /\ ntp = [state |-> "OK", status |-> "none", leap_sec |-> KTIME_MAX]
    /\ tk = Published(
          [clock |-> Default, cycle_last |-> Read(Default), mult |-> Source[Default].mult,
           xtime_sec |-> 0, xtime_nsec |-> 0, coarse_nsec |-> 0, raw_sec |-> 0, raw_nsec |-> 0,
           wall_to_monotonic |-> 0, offs_real |-> 0, offs_boot |-> 0, offs_tai |-> 0,
           tai_offset |-> 0, next_leap_ktime |-> KTIME_MAX, clock_was_set_seq |-> 0,
           skip_second_overflow |-> FALSE,
           base |-> 0, base_real |-> 0, raw_base |-> 0, ktime_sec |-> 0], ntp, TRUE)
    /\ power = [suspended |-> FALSE, cycles |-> 0, timing_needed |-> FALSE, rtc |-> 0]
    /\ base = [clock_was_set_seq |-> 0, offs_real |-> 0]

\* Time passes; timekeeping_max_deferment() bounds how long the tick is off
Pass ==
    /\ ~power.suspended
    /\ now < MaxTime /\ now < updated + MaxIdle
    /\ now' = now + 1
    /\ UNCHANGED <<slept, tk, ntp, power, base, ops, updated>>

\* An operation other than the tick: user space runs when the resume is complete
Op == ops < MaxOps /\ ops' = ops + 1 /\ ~power.suspended /\ ~power.timing_needed

\* The multipliers NTP may ask for
Mults == Source[tk.clock].mult - MaxAdj .. Source[tk.clock].mult + MaxAdj

\* What timekeeping_advance() stores
Advance(a, whole) ==
    /\ ntp' = a.ntp
    /\ tk' = Published(a.tk, a.ntp, a.clock_set)
    /\ updated' = IF whole > 0 THEN now ELSE updated

\* update_wall_time(), with TK_ADV_TICK: nothing to do before an interval is over
UpdateWallTime ==
    /\ ~power.suspended
    /\ LET whole == ClocksourceDelta(tk) \div CycleInterval(tk.clock)
       IN /\ whole > 0
          /\ \E mult \in Mults : Advance(Advanced(tk, ntp, mult), whole)
    /\ UNCHANGED <<now, slept, power, base, ops>>

\* do_settimeofday64(): CLOCK_REALTIME must not fall behind CLOCK_MONOTONIC,
\* otherwise the shadow timekeeper is restored
SetTimeOfDay(ts) ==
    LET t == ForwardNow(tk)
        delta == ts - Xtime(t)
    IN /\ Op
       /\ t.wall_to_monotonic <= delta
       /\ UpdateAll(SetXtime(SetWallToMono(t, t.wall_to_monotonic - delta), ts))
       /\ UNCHANGED <<now, slept, power, base>>

\* __timekeeping_inject_offset() of the core timekeeper
MayInject(t, delta) == t.wall_to_monotonic <= delta /\ Xtime(t) + delta >= 0
Inject(t, delta) == SetWallToMono(XtimeAdd(t, delta), t.wall_to_monotonic - delta)

\* __do_adjtimex() with ADJ_SETOFFSET, which ends with the update of the leap
\* state; timekeeping_warp_clock() has the same effect
AdjSetOffset(delta) ==
    LET t == ForwardNow(tk)
    IN /\ Op
       /\ MayInject(t, delta)
       /\ UpdateAll(Inject(t, delta))
       /\ UNCHANGED <<now, slept, power, base>>

\* __do_adjtimex() with ADJ_STATUS or ADJ_TAI: a new TAI offset is published
\* and counts as a setting of the clock, otherwise only the leap state is updated
AdjStatus(status, tai) ==
    LET n == [ntp EXCEPT !.status = status]
    IN /\ Op
       /\ <<status, tai>> # <<ntp.status, tk.tai_offset>>
       /\ ntp' = n
       /\ tk' = IF tai = tk.tai_offset THEN UpdateLeapState(tk, n)
                ELSE Published(SetTaiOffset(tk, tai), n, TRUE)
       /\ UNCHANGED <<now, slept, power, base, updated>>

\* __do_adjtimex() with ADJ_FREQUENCY or ADJ_TICK: TK_ADV_FREQ also without
\* an interval to accumulate
AdjFrequency(mult) ==
    /\ Op
    /\ Advance(Advanced(UpdateLeapState(tk, ntp), ntp, mult),
               ClocksourceDelta(tk) \div CycleInterval(tk.clock))
    /\ UNCHANGED <<now, slept, power, base>>

\* timekeeping_notify() and change_clocksource(), under stop_machine()
ChangeClocksource(new) ==
    /\ Op
    /\ new # tk.clock
    /\ UpdateAll(SetupInternals(ForwardNow(tk), new))
    /\ UNCHANGED <<now, slept, power, base>>

\* timekeeping_suspend() and halt_fast_timekeeper(), without persistent clock
Suspend ==
    /\ Op
    /\ tk' = Published(ForwardNow(tk), ntp, FALSE)
    /\ power' = [suspended |-> TRUE, cycles |-> Read(tk.clock),
                 timing_needed |-> TRUE, rtc |-> slept]
    /\ updated' = now
    /\ UNCHANGED <<now, slept, ntp, base>>

Sleep(d) ==
    /\ power.suspended /\ slept = power.rtc
    /\ slept' = slept + d
    /\ UNCHANGED <<now, tk, ntp, power, base, ops, updated>>

\* __timekeeping_inject_sleeptime()
InjectSleep(t, d) ==
    [SetWallToMono(XtimeAdd(t, d), t.wall_to_monotonic - d) EXCEPT !.offs_boot = @ + d]

\* Mutant: the RTC adds the sleep time again
ResumeStillNeeded ==
    LET d == IF Source[tk.clock].nonstop THEN slept - power.rtc ELSE 0
        t == IF d > 0 THEN InjectSleep(tk, d) ELSE tk
    IN /\ power.suspended /\ slept > power.rtc
       /\ power' = [power EXCEPT !.suspended = FALSE]
       /\ tk' = Published([t EXCEPT !.cycle_last = Read(t.clock)], ntp, TRUE)
       /\ updated' = now
       /\ UNCHANGED <<now, slept, ntp, base, ops>>

\* timekeeping_resume(): a counter that kept counting tells how long it took,
\* as clocksource_stop_suspend_timing() has it; otherwise it is left to the RTC
Resume ==
    LET d == IF Source[tk.clock].nonstop THEN slept - power.rtc ELSE 0
        t == IF d > 0 THEN InjectSleep(tk, d) ELSE tk
    IN /\ power.suspended /\ slept > power.rtc
       /\ power' = [power EXCEPT !.suspended = FALSE, !.timing_needed = @ /\ d = 0]
       /\ tk' = Published([t EXCEPT !.cycle_last = Read(t.clock)], ntp, TRUE)
       /\ updated' = now
       /\ UNCHANGED <<now, slept, ntp, base, ops>>

\* rtc_resume(), unless timekeeping_rtc_skipresume(): timekeeping_inject_sleeptime64()
RtcResume ==
    /\ ~power.suspended /\ power.timing_needed
    /\ power' = [power EXCEPT !.timing_needed = FALSE]
    /\ UpdateAll(InjectSleep(ForwardNow(tk), slept - power.rtc))
    /\ UNCHANGED <<now, slept, base, ops>>

\* ktime_get_update_offsets_now(): the offsets are copied if the sequence has
\* changed; an inserted leap second is taken into account ahead of the tick
OffsetsNow(b) ==
    [clock_was_set_seq |-> tk.clock_was_set_seq,
     offs_real |-> IF Mono >= tk.next_leap_ktime THEN tk.offs_real - NSEC_PER_SEC
                   ELSE IF b.clock_was_set_seq # tk.clock_was_set_seq THEN tk.offs_real
                   ELSE b.offs_real]

\* hrtimer_update_base() of one CPU
UpdateOffsets ==
    /\ ~power.suspended
    /\ base' = OffsetsNow(base)
    /\ UNCHANGED <<now, slept, tk, ntp, power, ops, updated>>

Next ==
    \/ Pass \/ UpdateWallTime \/ Suspend \/ Resume \/ RtcResume \/ UpdateOffsets
    \/ \E ts \in Sets : SetTimeOfDay(ts)
    \/ \E d \in Shifts : AdjSetOffset(d)
    \/ \E status \in {"none", "INS", "DEL"}, tai \in 0 .. 1 : AdjStatus(status, tai)
    \/ \E mult \in Mults : AdjFrequency(mult)
    \/ \E c \in Clocks : ChangeClocksource(c)
    \/ \E d \in Sleeps : Sleep(d)

Spec == Init /\ [][Next]_vars

-----------------------------------------------------------------------------
\* What the clocks need of the sources and of NTP

\* An update comes before a counter has gone half way round: timekeeping_max_deferment() and
\* clocks_calc_max_nsecs() bound the time without a tick, and an update leaves less than an
\* interval.
UpdatesInTime ==
    \A c \in Clocks :
        MaxIdle \div Source[c].period + 1 + CycleInterval(c) <= Source[c].size \div 2

\* What NTP changes in an interval is less than a second.
SteersSlowly ==
    \A c \in Clocks :
        2 * MaxAdj * CycleInterval(c) <= NSEC_PER_SEC * Pow2(Source[c].shift)

\* max_cycles leaves out the largest delta, that of a counter which is one behind.
SeesLagging(c) == Source[c].max_cycles < Source[c].size - 1

\* What is shown, and is announced, is before KTIME_MAX.
BeforeEndOfTime ==
    /\ Mono < KTIME_MAX /\ RealTs64 < KTIME_MAX
    /\ ntp.leap_sec = KTIME_MAX \/ ntp.leap_sec * NSEC_PER_SEC < KTIME_MAX

-----------------------------------------------------------------------------
\* Properties

Boot == WithOffset(tk.offs_boot)
Tai == WithOffset(tk.offs_tai)

\* CLOCK_MONOTONIC, CLOCK_MONOTONIC_RAW and CLOCK_BOOTTIME never go backwards: not when
\* the clock is set, steered, moved to another counter or suspended, nor when a
\* counter wraps or a late update lets the product overflow.  Only the passing of
\* time moves them: no update, not even to another counter, changes what a reader gets at
\* that moment (the comment on timekeeping_apply_adjustment()).
MonotonicNeverBack ==
    [][/\ Mono' >= Mono /\ Raw' >= Raw /\ Boot' >= Boot
       /\ now' = now => Mono' = Mono /\ Raw' = Raw]_vars

\* All interfaces tell the same time, although they read different fields; a CPU
\* whose counter is a little behind reads a time between the last update and the
\* correct one, where the code can tell.
ReadersAgree ==
    ~power.suspended =>
        /\ Ts64 = Mono
        /\ RealTs64 = WithOffset(tk.offs_real) /\ RealFast = RealTs64
        /\ CoarseTs64 = CoarseWithOffset(0)
        /\ tk.offs_tai - tk.offs_real = tk.tai_offset * NSEC_PER_SEC
        /\ tk.ktime_sec = (Xtime(tk) + tk.wall_to_monotonic) \div NSEC_PER_SEC
        /\ SeesLagging(tk.clock) =>
              LaggingMono \in Xtime(tk) + tk.wall_to_monotonic .. Mono

\* NTP inserts a second that it has announced, or nothing; and the timekeeper will not
\* pass over it, because the clock is beyond it or because its overflow counts as told
LeapIsKnown ==
    /\ ntp.status # "DEL" /\ (ntp.status = "INS" => ntp.state \in {"INS", "WAIT"})
    /\ tk.xtime_sec < ntp.leap_sec
    /\ tk.skip_second_overflow => tk.xtime_sec + 1 # ntp.leap_sec

\* hrtimers see an announced leap second at the moment it happens and not at the
\* next tick: a new offset they take is the one the timekeeper will have when it has
\* accumulated the current time.
\* Nothing else moves CLOCK_REALTIME at a tick, and CLOCK_TAI does not see it.
LeapIsAnnounced ==
    [][/\ UpdateOffsets /\ LeapIsKnown /\ BeforeEndOfTime
         => base'.offs_real =
              AccumulateSecs([tk |-> [tk EXCEPT !.xtime_nsec = @ + ClocksourceDelta(tk) * tk.mult],
                              ntp |-> ntp, clock_set |-> FALSE]).tk.offs_real
       /\ UpdateWallTime =>
            /\ Tai' = Tai
            /\ RealTs64' - RealTs64 \in {-NSEC_PER_SEC, 0, NSEC_PER_SEC}
            /\ RealTs64' # RealTs64 => ntp.status # "none"]_vars

\* The time spent asleep is added to CLOCK_BOOTTIME once, by timekeeping_resume() or by
\* the RTC.
SleepCountedOnce ==
    ~power.suspended /\ ~power.timing_needed => tk.offs_boot = slept

\* What the comment before tk_update_coarse_nsecs() asks for: the coarse clocks do not
\* go backwards (here, once the first second is over).
CoarseNeverBack == [][tk.xtime_sec > 0 => CoarseTs64' >= CoarseTs64]_vars
=============================================================================
