------------------------------ MODULE Watchdog ------------------------------
(***************************************************************************)
(* The clocksource watchdog (linux_source/kernel/time/clocksource.c): every *)
(* half second a timer compares the clocksource with a slower one, which is *)
(* taken to be right, and then compares the clocksource as two CPUs see it. *)
(* For the second test the CPU of the timer and a remote one, called by an  *)
(* interrupt, take turns through a sequence number; each waits for the      *)
(* other, either may give up, and the call may arrive when nobody waits for *)
(* it any more.                                                             *)
(*                                                                         *)
(* There is one clocksource under watch, CPU 0 is the one of the timer and  *)
(* the unit of time is WATCHDOG_READOUT_MAX_NS.                             *)
(***************************************************************************)
EXTENDS Integers

CONSTANTS
    Cpus,          \* 0 .. n, the online CPUs; 0 runs the timer
    MAX_SEQ,       \* WATCHDOG_REMOTE_MAX_SEQ
    INTERVAL,      \* WATCHDOG_INTERVAL
    ppm_shift,     \* SHIFT_500PPM or SHIFT_4000PPM
    Timeout,       \* wd->timeout_ns
    WdWidth,       \* the bits of the watchdog's counter,
    CsWidth,       \* and of the clocksource
    Skews,         \* how far the clocksource of the other CPUs may be ahead of CPU 0's
    Rates,         \* of the clocksource, in quarters: 4 is right
    Stops,         \* how long a debugger stops the machine
    MaxLate,       \* how late the timer may be but for a debugger
    MaxReadout,    \* how long a readout may take: less than the watchdog's counter needs to wrap
    MaxStops,      \* bounds
    MaxTime

BIT(n) == 2 ^ n

\* A skew is seen modulo the width of the counter, and in turns of both sides
ASSUME SkewAssumption ==
    /\ Cpus \subseteq Nat /\ 0 \in Cpus
    /\ MAX_SEQ \in Nat /\ MAX_SEQ % 2 = 0 /\ MAX_SEQ >= 6
    /\ {INTERVAL, Timeout, MaxLate, MaxReadout, MaxStops, MaxTime, ppm_shift, WdWidth, CsWidth} \subseteq Nat
    /\ BIT(ppm_shift) >= 1 /\ BIT(WdWidth) >= 8 /\ BIT(CsWidth) >= 8
    /\ MaxReadout <= BIT(WdWidth) \div 2
    /\ Rates \subseteq Nat /\ Stops \subseteq Nat /\ Skews \subseteq Int
    /\ \A s \in Skews : s < BIT(CsWidth) \div 8 /\ -s < BIT(CsWidth) \div 8

VARIABLES
    now,
    flaw,      \* what is wrong with the clocksource: rate and skew
    walk,      \* clocksource_watchdog(): pc and its local variables, and when it began a check
    expires,   \* watchdog_timer.expires
    source,    \* struct clocksource: wd_last, cs_last and two of the flags
    reset,     \* watchdog_reset_pending
    stops,     \* stops so far
    data,      \* watchdog_data: result and curr_cpu
    cpu,       \* watchdog_cpu_data per remote CPU: the lock of csd, seq, result, cpu_ts
    side       \* per remote CPU and side (0: CPU 0, 1: the remote CPU, which is remote_inprogress
               \* from "arrive" to "leave"): watchdog_check_skew()

watchdog_vars == <<now, flaw, walk, expires, source, reset, stops, data, cpu, side>>

Remotes == Cpus \ {0}
Sides   == 0 .. 1
READOUT_MAX == 1
RETRIES == 3     \* WATCHDOG_FREQ_RETRIES

-----------------------------------------------------------------------------
\* The counters

Mask(width) == BIT(width) - 1
MaxRawDelta(width) == Mask(width) \div 2 + Mask(width) \div 4 + Mask(width) \div 8
MaxIdle(width) == Mask(width) \div 2

\* External: the watchdog's counter, and the clocksource as CPU 0 (0) or another (1) reads it
Wd == now % BIT(WdWidth)
Cycles(t) == (t * flaw.rate) \div 4
Cs(i) == (Cycles(now) + (IF i = 1 THEN flaw.skew ELSE 0)) % BIT(CsWidth)

\* clocksource_delta() as cycles_to_nsec_safe() uses it: 0 for a counter that went back
Delta(new, old, width) ==
    LET d == (new - old) % BIT(width) IN IF d > MaxRawDelta(width) THEN 0 ELSE d

AtLeast(a, b) == IF a < b THEN b ELSE a
Least(a, b) == IF a < b THEN a ELSE b
Distance(a, b) == AtLeast(a - b, b - a)

-----------------------------------------------------------------------------
\* clocksource_watchdog() and watchdog_check_freq()

Off == [pc |-> "idle", wd_ts0 |-> 0, cs_ts |-> 0, retries |-> 0,
        wd_delta |-> 0, cs_delta |-> 0, reset_pending |-> FALSE, start |-> 0]

\* The timer
Expire ==
    /\ walk.pc = "idle" /\ expires <= now
    /\ walk' = [Off EXCEPT !.pc = "wd0", !.reset_pending = reset > 0]
    /\ UNCHANGED <<now, flaw, expires, source, reset, stops, data, cpu, side>>

\* wd_ts0 = watchdog->read(watchdog)
ReadFirst ==
    /\ walk.pc = "wd0" /\ ~source.unstable
    /\ walk' = [walk EXCEPT !.pc = "cs", !.wd_ts0 = Wd]
    /\ UNCHANGED <<now, flaw, expires, source, reset, stops, data, cpu, side>>

\* cs_ts = cs->read(cs)
ReadSecond ==
    /\ walk.pc = "cs"
    /\ walk' = [walk EXCEPT !.pc = "wd1", !.cs_ts = Cs(0)]
    /\ UNCHANGED <<now, flaw, expires, source, reset, stops, data, cpu, side>>

\* wd_seq, the time between the two readouts of the watchdog, the second one now
ReadoutTime == Delta(Wd, walk.wd_ts0, WdWidth)

\* The readout took too long: one of three attempts
ReadLate ==
    /\ walk.pc = "wd1" /\ ReadoutTime > READOUT_MAX
    /\ IF walk.retries + 1 < RETRIES
       THEN /\ walk' = [walk EXCEPT !.pc = "wd0", !.retries = @ + 1]
            /\ UNCHANGED data
       ELSE /\ walk' = [walk EXCEPT !.pc = "result"]
            /\ data' = [data EXCEPT !.result = "FREQ_TIMEOUT"]
    /\ UNCHANGED <<now, flaw, expires, source, reset, stops, cpu, side>>

\* Mutant: no regard for counters that may have wrapped
ResetOnRequest(wd_delta, cs_delta) == ~source.watched \/ walk.reset_pending

\* The readouts start anew
Reset(wd_delta, cs_delta) ==
    ~source.watched \/ walk.reset_pending
    \/ AtLeast(wd_delta, cs_delta) > MaxIdle(CsWidth) \/ AtLeast(wd_delta, cs_delta) > MaxIdle(WdWidth)

Matches(wd_delta, cs_delta) ==
    Distance(wd_delta, cs_delta) < AtLeast(wd_delta, cs_delta) \div BIT(ppm_shift) + ReadoutTime

\* A good readout replaces the last one, and is judged by what came in between
ReadDone ==
    /\ walk.pc = "wd1" /\ ReadoutTime <= READOUT_MAX
    /\ LET wd_delta == Delta(walk.wd_ts0, source.wd_last, WdWidth)
           cs_delta == Delta(walk.cs_ts, source.cs_last, CsWidth)
           resets == Reset(wd_delta, cs_delta)
           matches == ~resets /\ Matches(wd_delta, cs_delta)
       IN /\ source' = [source EXCEPT !.wd_last = walk.wd_ts0, !.cs_last = walk.cs_ts,
                              !.watched = @ \/ resets]
          /\ data' = [data EXCEPT !.result = IF resets THEN "FREQ_RESET"
                                             ELSE IF matches THEN "SUCCESS" ELSE "FREQ_SKEWED"]
          /\ walk' = [Off EXCEPT !.reset_pending = walk.reset_pending,
                                 !.wd_delta = IF resets \/ matches THEN 0 ELSE wd_delta,
                                 !.cs_delta = IF resets \/ matches THEN 0 ELSE cs_delta,
                                 !.pc = IF matches THEN "cpu" ELSE "result"]
    /\ UNCHANGED <<now, flaw, expires, reset, stops, cpu, side>>

-----------------------------------------------------------------------------
\* watchdog_check_cpu_skew()

NextCpu == IF data.curr_cpu + 1 \in Cpus THEN data.curr_cpu + 1 ELSE 0

\* Mutant: only a call that has not been taken is waited for
NoCallPending(c) == ~cpu[c].locked

\* remote_inprogress and wd_csd_locked(): as far as they tell, the CPU has come to, and done
\* with, the call of an earlier check
NoCall(c) == ~cpu[c].locked /\ side[c][1].pc \in {"off", "start"}

\* It is this CPU's turn
SkipSelf ==
    /\ walk.pc = "cpu" /\ NextCpu = 0
    /\ data' = [data EXCEPT !.curr_cpu = 0]
    /\ walk' = [walk EXCEPT !.pc = "result"]
    /\ UNCHANGED <<now, flaw, expires, source, reset, stops, cpu, side>>

\* The CPU has not come to, or not done with, the call of an earlier check
SkipBusy ==
    /\ walk.pc = "cpu" /\ NextCpu # 0 /\ ~NoCall(NextCpu)
    /\ data' = [data EXCEPT !.curr_cpu = NextCpu, !.result = "CPU_TIMEOUT"]
    /\ walk' = [walk EXCEPT !.pc = "result"]
    /\ UNCHANGED <<now, flaw, expires, source, reset, stops, cpu, side>>

\* The CPU is called, and this one goes into watchdog_check_skew() at once
StartCheck ==
    /\ walk.pc = "cpu" /\ NextCpu # 0 /\ NoCall(NextCpu)
    /\ now + Timeout <= MaxTime
    /\ data' = [data EXCEPT !.curr_cpu = NextCpu]
    /\ cpu' = [cpu EXCEPT ![NextCpu] = [@ EXCEPT !.locked = TRUE, !.seq = 0, !.result = "SUCCESS"]]
    /\ side' = [side EXCEPT ![NextCpu][0] = [pc |-> "arrive", seq |-> 0, waited |-> 0]]
    /\ walk' = [walk EXCEPT !.pc = "sync", !.start = now]
    /\ UNCHANGED <<now, flaw, expires, source, reset, stops>>

\* External: the interrupt drops the lock of the call, and then calls its function.
RunRemote(c) ==
    /\ cpu[c].locked /\ side[c][1].pc = "off"
    /\ cpu' = [cpu EXCEPT ![c].locked = FALSE]
    /\ side' = [side EXCEPT ![c][1].pc = "start"]
    /\ UNCHANGED <<now, flaw, walk, expires, source, reset, stops, data>>

\* watchdog_check_skew_remote() begins, and counts remote_inprogress up.
EnterRemote(c) ==
    /\ side[c][1].pc = "start"
    /\ side' = [side EXCEPT ![c][1] = [pc |-> "arrive", seq |-> 1, waited |-> 0]]
    /\ UNCHANGED <<now, flaw, walk, expires, source, reset, stops, data, cpu>>

-----------------------------------------------------------------------------
\* watchdog_check_skew() of side i for the CPU c

\* watchdog_set_result(): the first one counts, and frees the other side
SetResult(wd, result) ==
    IF wd.result = "SUCCESS" THEN [wd EXCEPT !.seq = MAX_SEQ, !.result = result] ELSE wd

Goto(c, i, pc) == side' = [side EXCEPT ![c][i].pc = pc]

\* On to the next turn
NextTurn(c, i) ==
    [side[c][i] EXCEPT !.seq = @ + 2, !.pc = IF side[c][i].seq + 2 < MAX_SEQ THEN "wait" ELSE "leave"]

\* The first time stamp, and atomic_inc(&wd->seq)
Arrive(c, i) ==
    /\ side[c][i].pc = "arrive"
    /\ cpu' = [cpu EXCEPT ![c].cpu_ts[i] = Cs(i), ![c].seq = @ + 1]
    /\ side' = [side EXCEPT ![c][i] = NextTurn(c, i)]
    /\ UNCHANGED <<now, flaw, walk, expires, source, reset, stops, data>>

\* watchdog_wait_seq() finds that it is not this side's turn yet, and goes on to look
\* at the result and at the time
LookOn(c, i) ==
    /\ side[c][i].pc = "wait" /\ cpu[c].seq < side[c][i].seq
    /\ Goto(c, i, "look")
    /\ UNCHANGED <<now, flaw, walk, expires, source, reset, stops, data, cpu>>

\* it is this side's turn: the time stamp is taken and stored
ReadTurn(c, i) ==
    /\ side[c][i].pc \in {"wait", "look"} /\ cpu[c].seq >= side[c][i].seq
    /\ cpu' = [cpu EXCEPT ![c].cpu_ts[i] = Cs(i)]
    /\ Goto(c, i, "compare")
    /\ UNCHANGED <<now, flaw, walk, expires, source, reset, stops, data>>

\* the other side has set a result
GiveUp(c, i) ==
    /\ side[c][i].pc = "look" /\ cpu[c].result # "SUCCESS"
    /\ Goto(c, i, "leave")
    /\ UNCHANGED <<now, flaw, walk, expires, source, reset, stops, data, cpu>>

\* Mutant: CPU 0 takes it that the other one comes
TimeOutRemote(c, i) ==
    /\ i = 1 /\ side[c][i].pc = "look" /\ side[c][i].waited = Timeout
    /\ cpu' = [cpu EXCEPT ![c] = SetResult(@, "CPU_TIMEOUT")]
    /\ Goto(c, i, "leave")
    /\ UNCHANGED <<now, flaw, walk, expires, source, reset, stops, data>>

\* the other side has not reacted in time.  It may do so now.
TimeOut(c, i) ==
    /\ side[c][i].pc = "look" /\ side[c][i].waited = Timeout
    /\ cpu' = [cpu EXCEPT ![c] = SetResult(@, "CPU_TIMEOUT")]
    /\ Goto(c, i, "leave")
    /\ UNCHANGED <<now, flaw, walk, expires, source, reset, stops, data>>

\* Mutant: the step of CPU 0 only is looked at
BehindRemote(c, i) == i = 0 /\ (cpu[c].cpu_ts[i] - cpu[c].cpu_ts[1 - i]) % BIT(CsWidth) > MaxRawDelta(CsWidth)

\* The clocksource is behind what the other side read before
Behind(c, i) == (cpu[c].cpu_ts[i] - cpu[c].cpu_ts[1 - i]) % BIT(CsWidth) > MaxRawDelta(CsWidth)

\* The turn ends with the other side's time stamp and atomic_inc(&wd->seq)
Compare(c, i) ==
    /\ side[c][i].pc = "compare"
    /\ IF Behind(c, i)
       THEN cpu' = [cpu EXCEPT ![c] = SetResult(@, "CPU_SKEWED")] /\ Goto(c, i, "leave")
       ELSE /\ cpu' = [cpu EXCEPT ![c].seq = @ + 1]
            /\ side' = [side EXCEPT ![c][i] = NextTurn(c, i)]
    /\ UNCHANGED <<now, flaw, walk, expires, source, reset, stops, data>>

\* watchdog_check_skew_remote() ends
LeaveRemote(c) ==
    /\ side[c][1].pc = "leave"
    /\ side' = [side EXCEPT ![c][1] = [pc |-> "off", seq |-> 0, waited |-> 0]]
    /\ UNCHANGED <<now, flaw, walk, expires, source, reset, stops, data, cpu>>

\* __watchdog_check_cpu_skew() takes the result
TakeResult ==
    LET c == data.curr_cpu
    IN /\ walk.pc = "sync" /\ side[c][0].pc = "leave"
       /\ data' = [data EXCEPT !.result = cpu[c].result]
       /\ side' = [side EXCEPT ![c][0] = [pc |-> "off", seq |-> 0, waited |-> 0]]
       /\ walk' = [walk EXCEPT !.pc = "result"]
       /\ UNCHANGED <<now, flaw, expires, source, reset, stops, cpu>>

-----------------------------------------------------------------------------
\* The timer is armed again, for the time that it should have been
Rearm ==
    /\ reset' = IF walk.reset_pending THEN reset - 1 ELSE reset
    /\ expires' = expires + INTERVAL
    /\ walk' = Off

\* watchdog_check_result()
CheckResult ==
    /\ walk.pc = "result"
    /\ source' = [source EXCEPT
          !.watched = @ /\ data.result \notin {"FREQ_TIMEOUT", "FREQ_SKEWED", "CPU_SKEWED"},
          !.unstable = data.result \in {"FREQ_SKEWED", "CPU_SKEWED"}]
    /\ Rearm
    /\ UNCHANGED <<now, flaw, stops, data, cpu, side>>

\* A clocksource that is unstable already is left to the kthread
LeftAlone ==
    /\ walk.pc = "wd0" /\ source.unstable
    /\ Rearm
    /\ UNCHANGED <<now, flaw, source, stops, data, cpu, side>>

\* Time goes on for those who wait too
Elapse(d) ==
    /\ now' = now + d
    /\ side' = [c \in Remotes |-> [i \in Sides |->
                  [side[c][i] EXCEPT !.waited =
                      IF side[c][i].pc \in {"off", "start"} THEN @ ELSE Least(@ + d, Timeout)]]]

\* External: a debugger stops the machine, and calls clocksource_touch_watchdog()
Stop(d) ==
    /\ stops < MaxStops /\ now + d <= MaxTime /\ walk.pc = "idle"
    /\ Elapse(d)
    /\ stops' = stops + 1 /\ reset' = reset + 1
    /\ UNCHANGED <<flaw, walk, expires, source, data, cpu>>

Tick ==
    /\ now < MaxTime
    /\ walk.pc = "idle" => now # expires + MaxLate
    /\ walk.pc \in {"cs", "wd1"} => ReadoutTime < MaxReadout
    /\ Elapse(1)
    /\ UNCHANGED <<flaw, walk, expires, source, reset, stops, data, cpu>>

CheckSkew(c, i) ==
    Arrive(c, i) \/ LookOn(c, i) \/ ReadTurn(c, i) \/ GiveUp(c, i) \/ TimeOut(c, i) \/ Compare(c, i)

Walk ==
    Expire \/ ReadFirst \/ ReadSecond \/ ReadLate \/ ReadDone \/ SkipSelf \/ SkipBusy
    \/ StartCheck \/ TakeResult \/ CheckResult \/ LeftAlone

-----------------------------------------------------------------------------
WatchdogInit ==
    /\ now = 0 /\ expires = INTERVAL /\ reset = 0 /\ stops = 0
    /\ flaw \in [rate : Rates, skew : Skews]
    /\ walk = Off
    /\ source = [wd_last |-> 0, cs_last |-> 0, watched |-> FALSE, unstable |-> FALSE]
    /\ data = [result |-> "SUCCESS", curr_cpu |-> 0]
    /\ cpu = [c \in Remotes |-> [locked |-> FALSE, seq |-> 0, result |-> "SUCCESS",
                                 cpu_ts |-> [i \in Sides |-> 0]]]
    /\ side = [c \in Remotes |-> [i \in Sides |-> [pc |-> "off", seq |-> 0, waited |-> 0]]]

WatchdogNext ==
    \/ Walk \/ Tick
    \/ \E d \in Stops : Stop(d)
    \/ \E c \in Remotes :
          RunRemote(c) \/ EnterRemote(c) \/ LeaveRemote(c) \/ \E i \in Sides : CheckSkew(c, i)

\* Both sides run with interrupts off: they go on, and time does
WatchdogSpec ==
    /\ WatchdogInit /\ [][WatchdogNext]_watchdog_vars
    /\ WF_watchdog_vars(Tick)
    /\ \A c \in Remotes : WF_watchdog_vars(EnterRemote(c))
    /\ \A c \in Remotes, i \in Sides : WF_watchdog_vars(CheckSkew(c, i))

-----------------------------------------------------------------------------
\* Properties

\* No good clocksource is given up because of a slow or lost interrupt, a late time stamp or a
\* call of an earlier round; nor because of a late readout, a counter that has wrapped
\* meanwhile or a suspend, unless the watchdog ran twice within a time too short to make
\* up for the time that a readout may take (watchdog_check_freq(), watchdog_check_skew()).
NoFalseSkew ==
    /\ data.result = "CPU_SKEWED" => flaw.skew # 0
    /\ walk.pc = "result" /\ data.result = "FREQ_SKEWED" =>
          flaw.rate # 4
          \/ AtLeast(walk.wd_delta, walk.cs_delta) \div BIT(ppm_shift) <= READOUT_MAX

\* When the check of a CPU has ended well (__watchdog_check_cpu_skew()), its clock is no
\* further off than the check took by that clock.
SuccessBoundsSkew ==
    walk.pc = "sync" =>
        LET c == data.curr_cpu
        IN side[c][0].pc = "leave" /\ cpu[c].result = "SUCCESS" =>
              Distance(flaw.skew, 0) <= Cycles(now) - Cycles(walk.start)

\* A check (watchdog_wait_seq()) ends on both CPUs, also when the other one never comes.
ChecksEnd ==
    \A c \in Remotes, i \in Sides : side[c][i].pc # "off" ~> side[c][i].pc \in {"off", "leave"}

\* "so as not to incorrectly trip the watchdog": a clocksource that runs at the right
\* speed is not given up.  (A readout that takes no time at all is not held against the
\* code: it needs two that differ.)
NotTripped ==
    walk.pc = "result" /\ data.result = "FREQ_SKEWED" =>
        flaw.rate # 4 \/ walk.wd_delta = walk.cs_delta
=============================================================================
