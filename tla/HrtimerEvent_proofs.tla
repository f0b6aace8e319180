------------------------- MODULE HrtimerEvent_proofs -------------------------
(***************************************************************************)
(* For any number of CPUs and timers:                                       *)
(*                                                                         *)
(* 1. NextMirrorsDevice: expires_next is what the device is programmed for, *)
(* unless an interrupt handler or its deferred rearm is at work, or the     *)
(* hang delay is running. hang_detected changes, and the device fires, only *)
(* while deferred_rearm is set (a handler is between its first pass and the *)
(* rearm). Outside of it every function that writes expires_next goes       *)
(* through SetEvent, which writes the device too or leaves the hang delay   *)
(* in it, and hrtimer_rearm() reestablishes the match.                      *)
(*                                                                         *)
(* 2. NoMissedEvent and ClockSetTakesEffect: expires_next is in time for    *)
(* every queued timer that is in Sure, also after the clock was set: the    *)
(* invariant speaks of these alone.  Wherever the code skips a              *)
(* reprogramming, something else answers for the timer: an event that is    *)
(* earlier anyway (Covered), a raised softirq, deferred_needs_update for a  *)
(* handler that is to rearm (CoverOK), or a CPU that clock_was_set() has    *)
(* still to look at or to interrupt (SettingOK, Known).                     *)
(* With part 1, what expires_next covers, the device fires for.             *)
(***************************************************************************)
EXTENDS HrtimerEvent, WellFoundedInduction, TLAPS

Fields == {"expires_next", "next_timer", "softirq_expires_next", "softirq_activated",
           "deferred_rearm", "deferred_needs_update", "deferred_expires_next",
           "hang_detected", "offset", "clock_was_set_seq", "dev"}

\* A struct hrtimer_cpu_base; what the times are made of does not matter here.
IsBase(b) ==
    /\ b = [f \in Fields |-> b[f]]
    /\ b.hang_detected \in BOOLEAN /\ b.deferred_rearm \in BOOLEAN

\* expires_next and the device agree, or the device holds the hang delay.
Agrees(b) ==
    ~b.deferred_rearm =>
        IF b.hang_detected THEN b.dev \in Int /\ b.dev <= now + HangDelay
                           ELSE b.dev = b.expires_next

\* What a function that works on a cpu_base outside of the interrupt does to it
Keeps(b, u) == IsBase(u) /\ Agrees(u) /\ u.deferred_rearm = b.deferred_rearm

Good(b) == IsBase(b) /\ Agrees(b)

IInv ==
    /\ now \in Nat
    /\ cpu_base = [c \in Cpus |-> cpu_base[c]]
    /\ walk = [c \in Cpus |-> [m \in Modes |-> walk[c][m]]]
    /\ \A c \in Cpus : /\ Good(cpu_base[c])
                       /\ walk[c]["hard"].pc # "off" => cpu_base[c].deferred_rearm

-----------------------------------------------------------------------------
\* The functions that update a struct hrtimer_cpu_base

LEMMA UpdateNextEventKeeps ==
    ASSUME NEW b, Good(b), NEW T, NEW c
    PROVE  Keeps(b, UpdateNextEvent(b, T, c))
  BY DEF Good, IsBase, Agrees, Keeps, UpdateNextEvent, Fields

LEMMA UpdateBaseKeeps ==
    ASSUME NEW b, Good(b)
    PROVE  Keeps(b, UpdateBase(b))
  BY DEF Good, IsBase, Agrees, Keeps, UpdateBase, Fields

LEMMA SetEventKeeps ==
    ASSUME NEW b, Good(b), NEW e
    PROVE  Keeps(b, SetEvent(b, e))
  BY DEF Good, IsBase, Agrees, Keeps, SetEvent, Fields

LEMMA ForceReprogramKeeps ==
    ASSUME NEW b, Good(b), NEW T, NEW c, NEW skip
    PROVE  Keeps(b, ForceReprogram(b, T, c, skip))
  <1>1. Keeps(b, UpdateNextEvent(b, T, c))
    BY UpdateNextEventKeeps
  <1>2. Keeps(b, SetEvent(UpdateNextEvent(b, T, c), NextOfAll(b, T, c)))
    BY <1>1, SetEventKeeps DEF Keeps, Good
  <1> QED BY <1>1, <1>2 DEF ForceReprogram

LEMMA ReprogramKeeps ==
    ASSUME NEW b, Good(b), NEW T, NEW t, NEW local
    PROVE  Keeps(b, Reprogram(b, T, t, local))
  <1> DEFINE e == AtLeast0(Mono(b, T, t))
             s == IF t \in Soft THEN [b EXCEPT !.softirq_expires_next = e] ELSE b
             n == [s EXCEPT !.next_timer = t]
  <1>1. Keeps(b, b)
    BY DEF Keeps, Good
  <1>2. Keeps(b, s)
    <2> HIDE DEF e
    <2> QED BY DEF Good, IsBase, Agrees, Keeps, Fields
  <1>3. Keeps(b, n)
    <2> HIDE DEF s
    <2> QED BY <1>2 DEF Good, IsBase, Agrees, Keeps, Fields
  <1>4. Keeps(b, SetEvent(n, e))
    <2> HIDE DEF n, e
    <2> QED BY <1>3, SetEventKeeps DEF Keeps, Good
  <1>5. Reprogram(b, T, t, local) \in {b, s, SetEvent(n, e)}
    BY DEF Reprogram
  <1> HIDE DEF s, n, e
  <1> QED BY <1>1, <1>2, <1>4, <1>5

LEMMA RemoveKeeps ==
    ASSUME NEW b, Good(b), NEW T, NEW t, NEW c, NEW reprogram
    PROVE  Keeps(b, Remove(b, T, t, c, reprogram))
  <1> DEFINE U == [T EXCEPT ![t].queued = FALSE]
             m == [b EXCEPT !.deferred_needs_update = TRUE]
  <1>1. Keeps(b, b)
    BY DEF Keeps, Good
  <1>2. Keeps(b, m)
    BY DEF Good, IsBase, Agrees, Keeps, Fields
  <1>3. Keeps(b, ForceReprogram(b, U, c, TRUE))
    <2> HIDE DEF U
    <2> QED BY ForceReprogramKeeps
  <1>4. Remove(b, T, t, c, reprogram) \in {b, m, ForceReprogram(b, U, c, TRUE)}
    BY DEF Remove
  <1> HIDE DEF U, m
  <1> QED BY <1>1, <1>2, <1>3, <1>4

LEMMA ProgramKeeps ==
    ASSUME NEW b, Good(b), NEW T, NEW t, NEW was_first, NEW first, NEW local, NEW user
    PROVE  Keeps(b, Program(b, T, t, was_first, first, local, user).base)
  <1> DEFINE gone == user /\ Expired(b, T, t)
             U == [T EXCEPT ![t].queued = ~gone]
             m == [b EXCEPT !.deferred_needs_update = TRUE]
             f == ForceReprogram(b, U, T[t].cpu, TRUE)
             r == Reprogram(b, T, t, local)
  <1>1. Keeps(b, b)
    BY DEF Keeps, Good
  <1>2. Keeps(b, m)
    BY DEF Good, IsBase, Agrees, Keeps, Fields
  <1>3. Keeps(b, f)
    <2> HIDE DEF U
    <2> QED BY ForceReprogramKeeps
  <1>4. Keeps(b, r)
    BY ReprogramKeeps
  <1>5. Program(b, T, t, was_first, first, local, user).base \in {b, m, f, r}
    BY DEF Program
  <1> HIDE DEF m, f, r
  <1> QED BY <1>1, <1>2, <1>3, <1>4, <1>5

LEMMA SoftBaseKeeps ==
    ASSUME NEW b, Good(b), NEW c
    PROVE  Keeps(b, SoftBase(b, c))
  <1> DEFINE u == [b EXCEPT !.softirq_activated = FALSE]
             t == NextTimer(u, timer, c, "soft")
  <1>1. Keeps(b, u)
    BY DEF Good, IsBase, Agrees, Keeps, Fields
  <1>2. Keeps(b, Reprogram(u, timer, t, TRUE))
    <2> HIDE DEF u, t
    <2>1. Good(u) /\ u.deferred_rearm = b.deferred_rearm
      BY <1>1 DEF Keeps, Good
    <2>2. Keeps(u, Reprogram(u, timer, t, TRUE))
      BY <2>1, ReprogramKeeps
    <2> QED BY <2>1, <2>2 DEF Keeps
  <1>3. SoftBase(b, c) \in {u, Reprogram(u, timer, t, TRUE)}
    BY DEF SoftBase
  <1> HIDE DEF u, t
  <1> QED BY <1>1, <1>2, <1>3

\* hrtimer_rearm() makes the two agree whatever they were.
LEMMA RearmAgrees ==
    ASSUME NEW b, IsBase(b), NEW e, now \in Nat
    PROVE  Good(Rearm(b, e))
  <1> DEFINE late == IF now + HangDelay > MaxTime THEN MaxTime ELSE now + HangDelay
             u == Rearm(b, e)
  <1>1. late \in Int /\ late <= now + HangDelay
    <2>1. MaxTime \in Nat /\ HangDelay \in Nat
      BY ConstAssumption
    <2> QED BY <2>1
  <1>2. u = [b EXCEPT !.expires_next = e, !.deferred_rearm = FALSE,
                      !.dev = IF b.hang_detected THEN late ELSE e]
    BY DEF Rearm
  <1> HIDE DEF u, late
  <1>3. IsBase(u) /\ ~u.deferred_rearm /\ u.hang_detected = b.hang_detected
    BY <1>2 DEF IsBase, Fields
  <1>4. u.expires_next = e /\ u.dev = IF b.hang_detected THEN late ELSE e
    BY <1>2 DEF IsBase, Fields
  <1>5. Good(u)
    BY <1>1, <1>3, <1>4 DEF Good, Agrees
  <1> QED BY <1>5 DEF u

\* A pass begins with deferred_rearm set.
LEMMA BeginPassDefers ==
    ASSUME NEW b, IsBase(b)
    PROVE  Good(BeginPass(b)) /\ BeginPass(b).deferred_rearm
  BY DEF Good, IsBase, Agrees, BeginPass, Fields

LEMMA AfterPassIsBase ==
    ASSUME NEW c, IsBase(cpu_base[c]), cpu_base[c].deferred_rearm
    PROVE  IsBase(AfterPass(c)) /\ AfterPass(c).deferred_rearm
  <1> DEFINE h == [cpu_base[c] EXCEPT !.hang_detected = FALSE]
  <1>1. Good(h) /\ h.deferred_rearm
    BY DEF Good, IsBase, Agrees, Fields
  <1> HIDE DEF h
  <1>2. Good(UpdateBase(h)) /\ UpdateBase(h).deferred_rearm
    BY <1>1, UpdateBaseKeeps DEF Keeps, Good
  <1>3. Keeps(UpdateBase(h), UpdateNextEvent(UpdateBase(h), timer, c))
    BY <1>2, UpdateNextEventKeeps
  <1> QED BY <1>2, <1>3 DEF AfterPass, Keeps, h

-----------------------------------------------------------------------------
\* The initial states and the steps

LEMMA InitInv == Init => IInv
  <1> SUFFICES ASSUME Init PROVE IInv
    OBVIOUS
  <1>1. now \in Nat /\ walk = [c \in Cpus |-> [m \in Modes |-> walk[c][m]]]
    BY DEF Init
  <1>2. cpu_base = [c \in Cpus |-> cpu_base[c]]
    BY DEF Init
  <1>3. ASSUME NEW c \in Cpus
        PROVE  Good(cpu_base[c]) /\ walk[c]["hard"].pc = "off"
    <2>1. walk[c]["hard"].pc = "off"
      BY DEF Init, Off, Modes
    <2>2. cpu_base[c].hang_detected = FALSE /\ cpu_base[c].deferred_rearm = FALSE
          /\ cpu_base[c].dev = KTIME_MAX /\ cpu_base[c].expires_next = KTIME_MAX
      BY DEF Init
    <2>3. cpu_base[c] = [f \in Fields |-> cpu_base[c][f]]
      BY DEF Init, Fields
    <2> QED BY <2>1, <2>2, <2>3 DEF Good, IsBase, Agrees
  <1> QED BY <1>1, <1>2, <1>3 DEF IInv

\* A step that gives one CPU a new cpu_base and leaves the time alone
LEMMA OneBase ==
    ASSUME IInv, NEW c \in Cpus, NEW u,
           now' = now, cpu_base' = [cpu_base EXCEPT ![c] = u], Good(u),
           walk' = [d \in Cpus |-> [m \in Modes |-> walk'[d][m]]],
           \A d \in Cpus \ {c} : walk'[d]["hard"].pc # "off" => walk[d]["hard"].pc # "off",
           walk'[c]["hard"].pc # "off" => u.deferred_rearm
    PROVE  IInv'
  <1>1. now' \in Nat /\ cpu_base' = [d \in Cpus |-> cpu_base'[d]]
    BY DEF IInv
  <1>2. ASSUME NEW d \in Cpus
        PROVE  Good(cpu_base[d])' /\ (walk[d]["hard"].pc # "off" => cpu_base[d].deferred_rearm)'
    <2>1. CASE d = c
      <3>1. cpu_base'[d] = u
        BY <2>1 DEF IInv
      <3> QED BY <2>1, <3>1 DEF Good, IsBase, Agrees
    <2>2. CASE d # c
      <3>1. cpu_base'[d] = cpu_base[d] /\ Good(cpu_base[d])
        BY <2>2 DEF IInv
      <3> QED BY <2>2, <3>1 DEF IInv, Good, IsBase, Agrees
    <2> QED BY <2>1, <2>2
  <1> QED BY <1>1, <1>2 DEF IInv

\* A start, a cancellation, or nothing at all: the walks stay, each cpu_base is kept.
LEMMA KeptBases ==
    ASSUME IInv, now' = now, walk' = walk, cpu_base' = [d \in Cpus |-> cpu_base'[d]],
           \A d \in Cpus : Keeps(cpu_base[d], cpu_base'[d])
    PROVE  IInv'
  BY DEF IInv, Keeps, Good, IsBase, Agrees

LEMMA StartMoveInv ==
    ASSUME IInv, NEW this \in Cpus, NEW t \in Timers, NEW x, NEW user, NEW dest \in Cpus,
           StartMove(this, t, x, user, dest), timer[t].cpu \in Cpus
    PROVE  IInv'
  <1> DEFINE c == timer[t].cpu
             was_first == cpu_base[c].next_timer = t
             B == [cpu_base EXCEPT ![c] = Remove(@, timer, t, c, c = this)]
             T == [timer EXCEPT ![t] = [cpu |-> dest, queued |-> TRUE,
                                        expires |-> x.e, softexpires |-> x.s]]
             r == Program(B[dest], T, t, was_first, Leftmost(T, t, FALSE), dest = this, user)
  <1>1. /\ now' = now /\ walk' = walk
        /\ cpu_base' = [B EXCEPT ![dest] = r.base]
    BY DEF StartMove
  <1>2. /\ B = [d \in Cpus |-> B[d]]
        /\ \A d \in Cpus : Keeps(cpu_base[d], B[d])
    <2>1. Keeps(cpu_base[c], Remove(cpu_base[c], timer, t, c, c = this))
      BY RemoveKeeps DEF IInv
    <2>2. \A d \in Cpus : Keeps(cpu_base[d], cpu_base[d])
      BY DEF IInv, Keeps, Good
    <2>3. /\ B = [cpu_base EXCEPT ![c] = Remove(cpu_base[c], timer, t, c, c = this)]
          /\ cpu_base = [d \in Cpus |-> cpu_base[d]]
      BY DEF IInv
    <2> QED BY <2>1, <2>2, <2>3
  <1>3. Keeps(B[dest], r.base)
    <2>1. Good(B[dest])
      BY <1>2 DEF Keeps, Good
    <2> HIDE DEF B, T, c, was_first
    <2> QED BY <2>1, ProgramKeeps
  <1> HIDE DEF B, r
  <1>4. /\ cpu_base' = [d \in Cpus |-> cpu_base'[d]]
        /\ \A d \in Cpus : Keeps(cpu_base[d], cpu_base'[d])
    BY <1>1, <1>2, <1>3 DEF Keeps
  <1> QED BY <1>1, <1>4, KeptBases

LEMMA StartKeepInv ==
    ASSUME IInv, NEW this \in Cpus, NEW t \in Timers, NEW x, NEW user,
           StartKeep(this, t, x, user), timer[t].cpu \in Cpus
    PROVE  IInv'
  <1> DEFINE c == timer[t].cpu
             b == cpu_base[c]
             head == timer[t].queued /\ First(timer, Base(timer, c, Mode(t), Clock(t))) = t
             T == [timer EXCEPT ![t] = [cpu |-> c, queued |-> TRUE,
                                        expires |-> x.e, softexpires |-> x.s]]
             r == Program(b, T, t, b.next_timer = t, Leftmost(T, t, head), c = this, user)
  <1>1. now' = now /\ walk' = walk /\ cpu_base' = [cpu_base EXCEPT ![c] = r.base]
    BY DEF StartKeep
  <1>2. Good(b)
    BY DEF IInv
  <1>3. Keeps(b, r.base)
    <2> HIDE DEF b, T, head
    <2> QED BY <1>2, ProgramKeeps
  <1> HIDE DEF r
  <1>4. /\ cpu_base' = [d \in Cpus |-> cpu_base'[d]]
        /\ \A d \in Cpus : Keeps(cpu_base[d], cpu_base'[d])
    BY <1>1, <1>3 DEF IInv, Keeps, Good
  <1> QED BY <1>1, <1>4, KeptBases

LEMMA CancelInv ==
    ASSUME IInv, NEW this \in Cpus, NEW t \in Timers, Cancel(this, t), timer[t].cpu \in Cpus
    PROVE  IInv'
  <1> DEFINE c == timer[t].cpu
             u == Remove(cpu_base[c], timer, t, c, c = this)
  <1>1. now' = now /\ walk' = walk /\ cpu_base' = [cpu_base EXCEPT ![c] = u]
    BY DEF Cancel
  <1>2. Keeps(cpu_base[c], u)
    BY RemoveKeeps DEF IInv
  <1> HIDE DEF u
  <1>3. /\ cpu_base' = [d \in Cpus |-> cpu_base'[d]]
        /\ \A d \in Cpus : Keeps(cpu_base[d], cpu_base'[d])
    BY <1>1, <1>2 DEF IInv, Keeps, Good
  <1> QED BY <1>1, <1>3, KeptBases

\* A step of a walk leaves the cpu_base alone and starts no handler.
LEMMA WalkInv ==
    ASSUME IInv, NEW c \in Cpus, NEW m \in Modes, Walk(c, m)
    PROVE  IInv'
  <1>1. now' = now /\ cpu_base' = cpu_base
    BY DEF Walk, NextBase, RunTimer, ReturnNoRestart, ReturnRestart
  <1>2. PICK v : walk' = [walk EXCEPT ![c][m] = v] /\ walk[c][m].pc # "off"
    <2>1. CASE NextBase(c, m)
      BY <2>1 DEF NextBase
    <2>2. CASE RunTimer(c, m)
      <3>1. PICK t : walk' = [walk EXCEPT ![c][m].pc = "callback", ![c][m].timer = t]
        BY <2>2 DEF RunTimer
      <3>2. walk' = [walk EXCEPT ![c][m] = [walk[c][m] EXCEPT !.pc = "callback", !.timer = t]]
        BY <3>1 DEF IInv
      <3> QED BY <2>2, <3>2 DEF RunTimer
    <2>3. CASE ReturnNoRestart(c, m) \/ ReturnRestart(c, m)
      <3>1. walk' = [walk EXCEPT ![c][m].pc = "walk", ![c][m].timer = None]
            /\ walk[c][m].pc = "callback"
        BY <2>3 DEF ReturnNoRestart, ReturnRestart, Resume, Resumes
      <3>2. walk' = [walk EXCEPT ![c][m] = [walk[c][m] EXCEPT !.pc = "walk", !.timer = None]]
        BY <3>1 DEF IInv
      <3> QED BY <3>1, <3>2
    <2> QED BY <2>1, <2>2, <2>3 DEF Walk
  <1>3. walk' = [d \in Cpus |-> [n \in Modes |-> walk'[d][n]]]
    BY <1>2 DEF IInv
  <1>4. \A d \in Cpus : walk'[d]["hard"].pc # "off" => walk[d]["hard"].pc # "off"
    BY <1>2 DEF IInv, Modes
  <1> QED BY <1>1, <1>3, <1>4 DEF IInv, Good, IsBase, Agrees

-----------------------------------------------------------------------------
\* Where the timers are

\* The values of timer; no timer expires at the end of time.
Times == 0 .. KTIME_MAX

Queues == [Timers -> [cpu : Cpus, queued : BOOLEAN, expires : Times, softexpires : Int]]

TimersOK == timer \in Queues

LEMMA StartTimesInt == \A x \in StartTimes : x.s \in Nat /\ x.e \in Times /\ x.s <= x.e
  <1>1. MaxTime \in Nat /\ Slacks \subseteq Nat /\ KTIME_MAX \in Nat
        /\ \A d \in Slacks : KTIME_MAX > MaxTime + d
    BY ConstAssumption
  <1>2. ASSUME NEW s \in 0 .. MaxTime, NEW d \in Slacks
        PROVE  s \in Nat /\ s + d \in Times /\ s <= s + d
    BY <1>1 DEF Times
  <1> QED BY <1>2 DEF StartTimes

LEMMA ProgramTimers ==
    ASSUME NEW b, NEW T, NEW t \in Timers, NEW was_first, NEW first, NEW local, NEW user,
           T \in Queues
    PROVE  Program(b, T, t, was_first, first, local, user).timer \in Queues
  <1> DEFINE gone == user /\ Expired(b, T, t)
             U == [T EXCEPT ![t].queued = ~gone]
  <1>1. U \in Queues
    <2>1. (~gone) \in BOOLEAN
      OBVIOUS
    <2> HIDE DEF gone
    <2> QED BY <2>1 DEF Queues
  <1>2. Program(b, T, t, was_first, first, local, user).timer \in {T, U}
    BY DEF Program
  <1> HIDE DEF U
  <1> QED BY <1>1, <1>2

LEMMA TimersStay ==
    ASSUME TimersOK, [Next]_vars
    PROVE  TimersOK'
  <1>0. CASE UNCHANGED timer
    BY <1>0 DEF TimersOK
  <1>1. ASSUME NEW this \in Cpus, Call(this) PROVE TimersOK'
    <2>1. ASSUME NEW t \in Timers, NEW x \in StartTimes, NEW user \in BOOLEAN,
                 StartKeep(this, t, x, user)
          PROVE  TimersOK'
      <3> DEFINE c == timer[t].cpu
                 T == [timer EXCEPT ![t] = [cpu |-> c, queued |-> TRUE,
                                            expires |-> x.e, softexpires |-> x.s]]
      <3>1. PICK b, f, g, h : timer' = Program(b, T, t, f, g, h, user).timer
        BY <2>1 DEF StartKeep
      <3>2. T \in Queues
        BY StartTimesInt DEF TimersOK, Queues
      <3> HIDE DEF T
      <3> QED BY <3>1, <3>2, ProgramTimers DEF TimersOK
    <2>2. ASSUME NEW t \in Timers, NEW x \in StartTimes, NEW user \in BOOLEAN,
                 NEW dest \in Cpus, StartMove(this, t, x, user, dest)
          PROVE  TimersOK'
      <3> DEFINE T == [timer EXCEPT ![t] = [cpu |-> dest, queued |-> TRUE,
                                            expires |-> x.e, softexpires |-> x.s]]
      <3>1. PICK b, f, g, h : timer' = Program(b, T, t, f, g, h, user).timer
        BY <2>2 DEF StartMove
      <3>2. T \in Queues
        BY StartTimesInt DEF TimersOK, Queues
      <3> HIDE DEF T
      <3> QED BY <3>1, <3>2, ProgramTimers DEF TimersOK
    <2>3. ASSUME NEW t \in Timers, Cancel(this, t) PROVE TimersOK'
      BY <2>3 DEF Cancel, TimersOK, Queues
    <2> QED BY <1>1, <2>1, <2>2, <2>3 DEF Call
  <1>2. ASSUME NEW c \in Cpus, NEW m \in Modes, Walk(c, m) PROVE TimersOK'
    <2>1. CASE NextBase(c, m) \/ ReturnNoRestart(c, m)
      BY <1>0, <2>1 DEF NextBase, ReturnNoRestart
    <2>2. CASE RunTimer(c, m)
      <3>1. PICK t \in Timers : timer' = [timer EXCEPT ![t].queued = FALSE]
        BY <2>2 DEF RunTimer, Due, Earliest, Base
      <3> QED BY <3>1 DEF TimersOK, Queues
    <2>3. CASE ReturnRestart(c, m)
      <3>1. PICK x \in StartTimes :
                timer' = [timer EXCEPT ![walk[c][m].timer] =
                             [cpu |-> c, queued |-> TRUE, expires |-> x.e, softexpires |-> x.s]]
        BY <2>3 DEF ReturnRestart
      <3>2. /\ [cpu |-> c, queued |-> TRUE, expires |-> x.e, softexpires |-> x.s]
                  \in [cpu : Cpus, queued : BOOLEAN, expires : Times, softexpires : Int]
        BY StartTimesInt
      <3> QED BY <3>1, <3>2 DEF TimersOK, Queues
    <2> QED BY <1>2, <2>1, <2>2, <2>3 DEF Walk
  <1>3. CASE UNCHANGED vars \/ Tick \/ SetClockDone \/ \E off \in Offsets : SetClock(off)
    <2>1. UNCHANGED timer
      BY <1>3 DEF vars, Tick, SetClockDone, SetClock
    <2> QED BY <1>0, <2>1
  <1>4. ASSUME NEW c \in Cpus,
               Interrupt(c) \/ Softirq(c) \/ Look(c) \/ Retrigger(c) \/ Retry(c)
               \/ InterruptDone(c) \/ RearmDeferred(c) \/ SoftirqDone(c)
        PROVE  TimersOK'
    <2>1. UNCHANGED timer
      BY <1>4 DEF Interrupt, Softirq, Look, Retrigger, Retry, InterruptDone, RearmDeferred,
                  SoftirqDone
    <2> QED BY <1>0, <2>1
  <1> QED BY <1>1, <1>2, <1>3, <1>4 DEF Next, Handler, SoftHandler, Modes

-----------------------------------------------------------------------------
\* The handlers

\* Putting one entry in place of a CPU's walk of one mode
LEMMA OneWalk ==
    ASSUME IInv, NEW c \in Cpus, NEW m \in Modes, NEW v, walk' = [walk EXCEPT ![c][m] = v]
    PROVE  /\ walk' = [d \in Cpus |-> [n \in Modes |-> walk'[d][n]]]
           /\ \A d \in Cpus \ {c} : walk'[d]["hard"] = walk[d]["hard"]
           /\ walk'[c]["hard"] = IF m = "hard" THEN v ELSE walk[c]["hard"]
  BY DEF IInv, Modes

LEMMA InterruptInv == ASSUME IInv, NEW c \in Cpus, Interrupt(c) PROVE IInv'
  <1> DEFINE f == [cpu_base[c] EXCEPT !.dev = KTIME_MAX]
             u == BeginPass(UpdateBase(f))
  <1>1. PICK v : walk' = [walk EXCEPT ![c]["hard"] = v]
    BY DEF Interrupt, StartWalk
  <1>2. now' = now /\ cpu_base' = [cpu_base EXCEPT ![c] = u]
    BY DEF Interrupt
  <1>3. IsBase(UpdateBase(f))
    BY DEF IInv, Good, IsBase, UpdateBase, Fields
  <1>4. Good(u) /\ u.deferred_rearm
    BY <1>3, BeginPassDefers
  <1> HIDE DEF u
  <1>5. "hard" \in Modes
    BY DEF Modes
  <1>6. /\ walk' = [d \in Cpus |-> [n \in Modes |-> walk'[d][n]]]
        /\ \A d \in Cpus \ {c} : walk'[d]["hard"] = walk[d]["hard"]
    BY <1>1, <1>5, OneWalk
  <1> QED BY <1>2, <1>4, <1>6, OneBase

LEMMA RetryInv == ASSUME IInv, NEW c \in Cpus, Retry(c) PROVE IInv'
  <1> DEFINE u == BeginPass(AfterPass(c))
  <1>1. PICK v : walk' = [walk EXCEPT ![c]["hard"] = v]
    BY DEF Retry, StartWalk
  <1>2. now' = now /\ cpu_base' = [cpu_base EXCEPT ![c] = u]
    BY DEF Retry
  <1>3. IsBase(cpu_base[c]) /\ cpu_base[c].deferred_rearm
    BY DEF Retry, PassDone, IInv, Good
  <1>4. Good(u) /\ u.deferred_rearm
    BY <1>3, AfterPassIsBase, BeginPassDefers
  <1> HIDE DEF u
  <1>5. "hard" \in Modes
    BY DEF Modes
  <1>6. /\ walk' = [d \in Cpus |-> [n \in Modes |-> walk'[d][n]]]
        /\ \A d \in Cpus \ {c} : walk'[d]["hard"] = walk[d]["hard"]
    BY <1>1, <1>5, OneWalk
  <1> QED BY <1>2, <1>4, <1>6, OneBase

LEMMA InterruptDoneInv == ASSUME IInv, NEW c \in Cpus, InterruptDone(c) PROVE IInv'
  <1> DEFINE e == AfterEvent(c)
             b == [AfterPass(c) EXCEPT !.hang_detected = e < now]
             d == [b EXCEPT !.deferred_needs_update = FALSE, !.deferred_expires_next = e]
             u == IF Deferred THEN d ELSE Rearm(b, e)
  <1>1. IsBase(AfterPass(c)) /\ AfterPass(c).deferred_rearm
    <2>1. IsBase(cpu_base[c]) /\ cpu_base[c].deferred_rearm
      BY DEF InterruptDone, PassDone, IInv, Good
    <2> QED BY <2>1, AfterPassIsBase
  <1>2. IsBase(b) /\ b.deferred_rearm
    <2>1. (e < now) \in BOOLEAN
      OBVIOUS
    <2> HIDE DEF e
    <2> QED BY <1>1, <2>1 DEF IsBase, Fields
  <1>3. Good(d) /\ d.deferred_rearm
    <2> HIDE DEF b, e
    <2> QED BY <1>2 DEF Good, IsBase, Agrees, Fields
  <1>4. Good(Rearm(b, e))
    <2> HIDE DEF b, e
    <2> QED BY <1>2, RearmAgrees DEF IInv
  <1>5. now' = now /\ cpu_base' = [cpu_base EXCEPT ![c] = u]
    BY DEF InterruptDone
  <1>6. PICK v : /\ walk' = [walk EXCEPT ![c]["hard"] = v]
                 /\ ~Deferred => v.pc = "off"
    <2>1. CASE Deferred
      BY <2>1 DEF InterruptDone
    <2>2. CASE ~Deferred
      <3>1. walk' = [walk EXCEPT ![c]["hard"] = Off] /\ Off.pc = "off"
        BY <2>2 DEF InterruptDone, Off
      <3> QED BY <3>1
    <2> QED BY <2>1, <2>2
  <1>7. /\ walk' = [k \in Cpus |-> [n \in Modes |-> walk'[k][n]]]
        /\ \A k \in Cpus \ {c} : walk'[k]["hard"] = walk[k]["hard"]
        /\ walk'[c]["hard"] = v
    <2>1. "hard" \in Modes
      BY DEF Modes
    <2> QED BY <1>6, <2>1, OneWalk
  <1>8. Good(u) /\ (walk'[c]["hard"].pc # "off" => u.deferred_rearm)
    <2> HIDE DEF d, b, e
    <2> QED BY <1>3, <1>4, <1>6, <1>7
  <1> HIDE DEF u
  <1> QED BY <1>5, <1>7, <1>8, OneBase

LEMMA RearmDeferredInv == ASSUME IInv, NEW c \in Cpus, RearmDeferred(c) PROVE IInv'
  <1> DEFINE b == cpu_base[c]
             n == UpdateNextEvent(UpdateBase(b), timer, c)
             e == NextOfAll(UpdateBase(b), timer, c)
             u == IF b.deferred_needs_update THEN Rearm(n, e)
                                             ELSE Rearm(b, b.deferred_expires_next)
  <1>1. Good(b) /\ now \in Nat
    BY DEF IInv
  <1>2. IsBase(n)
    BY <1>1, UpdateBaseKeeps, UpdateNextEventKeeps DEF Keeps, Good
  <1>3. Good(u)
    <2> HIDE DEF b, n, e
    <2> QED BY <1>1, <1>2, RearmAgrees DEF Good
  <1>4. now' = now /\ cpu_base' = [cpu_base EXCEPT ![c] = u]
    BY DEF RearmDeferred
  <1>5. walk' = [walk EXCEPT ![c]["hard"] = Off]
    BY DEF RearmDeferred
  <1>6. /\ walk' = [k \in Cpus |-> [m \in Modes |-> walk'[k][m]]]
        /\ \A k \in Cpus \ {c} : walk'[k]["hard"] = walk[k]["hard"]
        /\ walk'[c]["hard"] = Off
    <2>1. "hard" \in Modes
      BY DEF Modes
    <2> QED BY <1>5, <2>1, OneWalk
  <1>7. walk'[c]["hard"].pc = "off"
    BY <1>6 DEF Off
  <1> HIDE DEF u
  <1> QED BY <1>3, <1>4, <1>6, <1>7, OneBase

\* The softirq, the setter's look at a CPU and its interrupt keep the cpu_base.
LEMMA KeptByOne ==
    ASSUME IInv, NEW c \in Cpus, NEW u, Keeps(cpu_base[c], u),
           now' = now, cpu_base' = [cpu_base EXCEPT ![c] = u],
           walk' = walk \/ \E v : walk' = [walk EXCEPT ![c]["soft"] = v]
    PROVE  IInv'
  <1>1. /\ walk' = [k \in Cpus |-> [m \in Modes |-> walk'[k][m]]]
        /\ \A k \in Cpus : walk'[k]["hard"] = walk[k]["hard"]
    <2>1. CASE walk' = walk
      BY <2>1 DEF IInv
    <2>2. ASSUME NEW v, walk' = [walk EXCEPT ![c]["soft"] = v]
          PROVE  /\ walk' = [k \in Cpus |-> [m \in Modes |-> walk'[k][m]]]
                 /\ \A k \in Cpus : walk'[k]["hard"] = walk[k]["hard"]
      BY <2>2, OneWalk DEF Modes
    <2> QED BY <2>1, <2>2
  <1>2. Good(u) /\ (walk'[c]["hard"].pc # "off" => u.deferred_rearm)
    BY <1>1 DEF IInv, Keeps, Good
  <1> QED BY <1>1, <1>2, OneBase

LEMMA SoftInv ==
    ASSUME IInv, NEW c \in Cpus, Softirq(c) \/ SoftirqDone(c)
    PROVE  IInv'
  <1>0. Good(cpu_base[c])
    BY DEF IInv
  <1>1. CASE Softirq(c)
    <2>1. now' = now /\ cpu_base' = [cpu_base EXCEPT ![c] = UpdateBase(cpu_base[c])]
          /\ \E v : walk' = [walk EXCEPT ![c]["soft"] = v]
      BY <1>1 DEF Softirq, StartWalk
    <2> QED BY <1>0, <2>1, UpdateBaseKeeps, KeptByOne
  <1>2. CASE SoftirqDone(c)
    <2>1. now' = now /\ cpu_base' = [cpu_base EXCEPT ![c] = SoftBase(cpu_base[c], c)]
          /\ \E v : walk' = [walk EXCEPT ![c]["soft"] = v]
      BY <1>2 DEF SoftirqDone
    <2> QED BY <1>0, <2>1, SoftBaseKeeps, KeptByOne
  <1> QED BY <1>1, <1>2

LEMMA SetterInv ==
    ASSUME IInv, NEW c \in Cpus, Look(c) \/ Retrigger(c)
    PROVE  IInv'
  <1> DEFINE b == cpu_base[c]
             u == UpdateBase(b)
  <1>0. Good(b)
    BY DEF IInv
  <1>1. Keeps(b, u)
    BY <1>0, UpdateBaseKeeps
  <1>2. CASE Look(c)
    <2> DEFINE changed == b.clock_was_set_seq # tk.clock_was_set_seq
               n == [u EXCEPT !.deferred_needs_update = @ \/ (changed /\ b.deferred_rearm)]
    <2>1. now' = now /\ walk' = walk /\ cpu_base' = [cpu_base EXCEPT ![c] = n]
      BY <1>2 DEF Look
    <2>2. Keeps(b, n)
      <3> HIDE DEF b, u, changed
      <3> QED BY <1>1 DEF Keeps, Good, IsBase, Agrees, Fields
    <2> HIDE DEF n
    <2> QED BY <2>1, <2>2, KeptByOne
  <1>3. CASE Retrigger(c)
    <2>1. now' = now /\ walk' = walk
          /\ cpu_base' = [cpu_base EXCEPT ![c] = ForceReprogram(u, timer, c, FALSE)]
      BY <1>3 DEF Retrigger
    <2>2. Keeps(u, ForceReprogram(u, timer, c, FALSE))
      <3>1. Good(u)
        BY <1>1 DEF Keeps, Good
      <3> HIDE DEF u
      <3> QED BY <3>1, ForceReprogramKeeps
    <2>3. Keeps(b, ForceReprogram(u, timer, c, FALSE))
      BY <1>1, <2>2 DEF Keeps
    <2> HIDE DEF u, b
    <2> QED BY <2>1, <2>3, KeptByOne DEF b
  <1> QED BY <1>2, <1>3

-----------------------------------------------------------------------------
LEMMA NextInv ==
    ASSUME IInv, TimersOK, [Next]_vars
    PROVE  IInv'
  <1>1. CASE UNCHANGED vars \/ SetClockDone \/ \E off \in Offsets : SetClock(off)
    <2>1. UNCHANGED <<now, cpu_base, walk>>
      BY <1>1 DEF vars, SetClockDone, SetClock
    <2> QED BY <2>1 DEF IInv, Good, IsBase, Agrees
  <1>2. CASE Tick
    <2>1. now' = now + 1 /\ UNCHANGED <<cpu_base, walk>> /\ HangDelay \in Nat
      BY <1>2, ConstAssumption DEF Tick
    <2>2. \A c \in Cpus : Good(cpu_base[c])'
      BY <2>1 DEF IInv, Good, IsBase, Agrees
    <2>3. now' \in Nat
      BY <2>1 DEF IInv
    <2> QED BY <2>1, <2>2, <2>3 DEF IInv
  <1>3. ASSUME NEW c \in Cpus, Call(c) PROVE IInv'
    <2>1. \A t \in Timers : timer[t].cpu \in Cpus
      BY DEF TimersOK, Queues
    <2> QED BY <1>3, <2>1, StartKeepInv, StartMoveInv, CancelInv DEF Call
  <1>4. ASSUME NEW c \in Cpus,
               Interrupt(c) \/ Softirq(c) \/ Handler(c) \/ SoftHandler(c) \/ Look(c) \/ Retrigger(c)
        PROVE  IInv'
    <2>1. "hard" \in Modes /\ "soft" \in Modes
      BY DEF Modes
    <2> QED BY <1>4, <2>1, InterruptInv, SoftInv, WalkInv, RetryInv, InterruptDoneInv,
               RearmDeferredInv, SetterInv DEF Handler, SoftHandler
  <1> QED BY <1>1, <1>2, <1>3, <1>4 DEF Next

LEMMA InitTimers == Init => TimersOK
  <1>1. [cpu : Cpus, queued : {FALSE}, expires : {0}, softexpires : {0}]
        \subseteq [cpu : Cpus, queued : BOOLEAN, expires : Times, softexpires : Int]
    <2>1. KTIME_MAX \in Nat
      BY ConstAssumption
    <2>2. {FALSE} \subseteq BOOLEAN /\ {0} \subseteq Times /\ {0} \subseteq Int
      BY <2>1 DEF Times
    <2> QED BY <2>2, Zenon
  <1> QED BY <1>1 DEF Init, TimersOK, Queues

LEMMA Mirrors == IInv => NextMirrorsDevice
  BY DEF IInv, Good, IsBase, Agrees, NextMirrorsDevice

\* Every start, cancellation, interrupt, softirq, rearm and setting of the clock, on
\* any number of CPUs, leaves expires_next equal to what the device is programmed for,
\* or the hang delay in the device.
THEOREM NextMirrors == Spec => []NextMirrorsDevice
  <1>1. TimersOK /\ IInv /\ [Next]_vars => TimersOK' /\ IInv'
    BY TimersStay, NextInv
  <1> QED BY <1>1, InitTimers, InitInv, Mirrors, PTL DEF Spec

-----------------------------------------------------------------------------
\* The next timer of the queues

\* A nonempty set of timers has one that comes first, by any measure.
LEMMA SomeLeast ==
    ASSUME NEW S, S # {}, NEW f, \A s \in S : f[s] \in Nat
    PROVE  \E s \in S : \A u \in S : f[s] <= f[u]
  <1> DEFINE V == {f[s] : s \in S}
  <1>1. V \subseteq Nat /\ V # {}
    OBVIOUS
  <1> HIDE DEF V
  <1>2. PICK x \in V : \A y \in V : ~(<<y, x>> \in OpToRel(<, Nat))
    BY <1>1, NatLessThanWellFounded, WFMin
  <1>3. \A y \in V : ~(y < x)
    BY <1>1, <1>2 DEF OpToRel
  <1>4. \A y \in V : x <= y
    BY <1>1, <1>3
  <1> USE DEF V
  <1>5. PICK s \in S : x = f[s]
    OBVIOUS
  <1> QED BY <1>4, <1>5

\* The first timer of a base
LEMMA FirstIsLeast ==
    ASSUME NEW T \in Queues, NEW S, S \subseteq Timers, S # {}
    PROVE  First(T, S) \in S /\ \A u \in S : T[First(T, S)].expires <= T[u].expires
  <1> DEFINE f == [s \in S |-> T[s].expires]
  <1>1. \A s \in S : f[s] \in Nat
    BY ConstAssumption DEF Queues, Times
  <1>2. PICK s \in S : \A u \in S : f[s] <= f[u]
    <2> HIDE DEF f
    <2> QED BY <1>1, SomeLeast
  <1>3. s \in Earliest(T, S)
    BY <1>2 DEF Earliest
  <1>4. First(T, S) \in Earliest(T, S)
    BY <1>3 DEF First
  <1> QED BY <1>4 DEF Earliest

\* The timers of one mode on a CPU
Of(T, c, m) == {t \in Timers : T[t].queued /\ T[t].cpu = c /\ Mode(t) = m}

\* A timer's expiry as the device takes it
Event(b, T, t) == AtLeast0(Mono(b, T, t))

\* The time at which the device takes an expiry is one of its times.
LEMMA EventTime ==
    ASSUME NEW b, b.offset \in Nat, NEW T \in Queues, NEW t \in Timers
    PROVE  /\ Mono(b, T, t) \in Int /\ Mono(b, T, t) + b.offset \in Nat
           /\ Event(b, T, t) \in Times /\ Mono(b, T, t) <= Event(b, T, t)
  <1>1. T[t].expires \in Times /\ KTIME_MAX \in Nat
    BY ConstAssumption DEF Queues
  <1>2. OffsetOf(b, Clock(t)) \in {0, b.offset}
    BY DEF OffsetOf
  <1> QED BY <1>1, <1>2 DEF Mono, Event, AtLeast0, Times

\* An earlier expiry is an earlier event.
LEMMA EventOrder ==
    ASSUME NEW b, b.offset \in Nat, NEW T \in Queues, NEW t \in Timers, NEW u \in Timers,
           Mono(b, T, t) <= Mono(b, T, u)
    PROVE  Event(b, T, t) <= Event(b, T, u)
  BY EventTime DEF Event, AtLeast0

\* The next timer of a mode is queued, and none of the mode expires before it.
LEMMA NextTimerIsNext ==
    ASSUME NEW b, b.offset \in Nat, NEW T \in Queues, NEW c, NEW m
    PROVE  LET n == NextTimer(b, T, c, m)
           IN IF Of(T, c, m) = {} THEN n = None
              ELSE /\ n \in Of(T, c, m)
                   /\ \A t \in Of(T, c, m) : Mono(b, T, n) <= Mono(b, T, t)
  <1> DEFINE firsts == {First(T, Base(T, c, m, k)) : k \in ActiveBases(T, c, m)}
             ahead == {t \in firsts : \A u \in firsts : Mono(b, T, t) <= Mono(b, T, u)}
             n == NextTimer(b, T, c, m)
  <1>1. ASSUME NEW k \in ActiveBases(T, c, m)
        PROVE  /\ First(T, Base(T, c, m, k)) \in Base(T, c, m, k)
               /\ \A u \in Base(T, c, m, k) :
                     T[First(T, Base(T, c, m, k))].expires <= T[u].expires
    <2>1. Base(T, c, m, k) \subseteq Timers /\ Base(T, c, m, k) # {}
      BY DEF ActiveBases, Base
    <2> QED BY <2>1, FirstIsLeast
  <1>2. firsts \subseteq Of(T, c, m)
    BY <1>1 DEF Base, Of
  <1>3. ASSUME NEW t \in Of(T, c, m)
        PROVE  \E u \in firsts : Mono(b, T, u) <= Mono(b, T, t)
    <2>1. t \in Base(T, c, m, Clock(t)) /\ Clock(t) \in ActiveBases(T, c, m)
      BY DEF Of, Base, ActiveBases, Clock, Clocks
    <2> DEFINE u == First(T, Base(T, c, m, Clock(t)))
    <2>2. u \in firsts /\ u \in Timers /\ Clock(u) = Clock(t) /\ T[u].expires <= T[t].expires
      BY <1>1, <2>1 DEF Base
    <2>3. OffsetOf(b, Clock(t)) \in Int /\ T[u].expires \in Int /\ T[t].expires \in Int
      BY <2>2, ConstAssumption DEF OffsetOf, Queues, Times, Of
    <2>4. Mono(b, T, u) <= Mono(b, T, t)
      <3> HIDE DEF u
      <3> QED BY <2>2, <2>3 DEF Mono
    <2> QED BY <2>2, <2>4
  <1>4. CASE Of(T, c, m) = {}
    <2>1. firsts = {}
      BY <1>2, <1>4
    <2> QED BY <1>4, <2>1 DEF NextTimer
  <1>5. CASE Of(T, c, m) # {}
    <2>1. firsts # {}
      <3> HIDE DEF firsts
      <3> QED BY <1>3, <1>5
    <2> HIDE DEF firsts
    <2> DEFINE f == [s \in firsts |-> Mono(b, T, s) + b.offset]
    <2>2. \A s \in firsts : f[s] \in Nat /\ Mono(b, T, s) \in Int
      BY <1>2, EventTime DEF Of
    <2>3. PICK s \in firsts : \A u \in firsts : f[s] <= f[u]
      <3> HIDE DEF f
      <3> QED BY <2>1, <2>2, SomeLeast
    <2>4. \A u \in firsts : Mono(b, T, s) <= Mono(b, T, u)
      BY <2>2, <2>3
    <2>5. s \in ahead
      BY <2>4
    <2>6. \E t \in ahead : Clock(t) = "mono" \/ \A u \in ahead : Clock(u) = "real"
      <3> HIDE DEF ahead
      <3> QED BY <2>5 DEF Clock
    <2>7. n = CHOOSE t \in ahead : Clock(t) = "mono" \/ \A u \in ahead : Clock(u) = "real"
      BY <2>1 DEF NextTimer, firsts
    <2>8. n \in ahead
      <3> HIDE DEF ahead, n
      <3> QED BY <2>6, <2>7
    <2>9. n \in firsts /\ \A u \in firsts : Mono(b, T, n) <= Mono(b, T, u)
      <3> HIDE DEF n
      <3> QED BY <2>8
    <2>10. ASSUME NEW t \in Of(T, c, m) PROVE Mono(b, T, n) <= Mono(b, T, t)
      <3> HIDE DEF n
      <3>1. PICK u \in firsts : Mono(b, T, u) <= Mono(b, T, t)
        BY <1>3
      <3>2. Mono(b, T, n) \in Int /\ Mono(b, T, u) \in Int /\ Mono(b, T, t) \in Int
        BY <1>2, <2>9, EventTime DEF Of
      <3> QED BY <2>9, <3>1, <3>2
    <2> HIDE DEF n
    <2> QED BY <1>2, <1>5, <2>9, <2>10 DEF n
  <1> QED BY <1>4, <1>5

\* No timer of the mode expires before the next event.
LEMMA NextEventIsNext ==
    ASSUME NEW b, b.offset \in Nat, NEW T \in Queues, NEW c, NEW m
    PROVE  /\ NextEvent(b, T, c, m) \in Times
           /\ \A t \in Of(T, c, m) : NextEvent(b, T, c, m) <= Event(b, T, t)
           /\ Of(T, c, m) = {} => NextEvent(b, T, c, m) = KTIME_MAX
  <1> DEFINE n == NextTimer(b, T, c, m)
  <1>1. CASE Of(T, c, m) = {}
    <2>1. n = None
      BY <1>1, NextTimerIsNext
    <2>2. NextEvent(b, T, c, m) = KTIME_MAX
      BY <2>1 DEF NextEvent
    <2> QED BY <1>1, <2>2, ConstAssumption DEF Times
  <1>2. CASE Of(T, c, m) # {}
    <2>1. n \in Of(T, c, m) /\ \A t \in Of(T, c, m) : Mono(b, T, n) <= Mono(b, T, t)
      BY <1>2, NextTimerIsNext
    <2> HIDE DEF n
    <2>2. n \in Timers /\ n # None
      BY <2>1, ConstAssumption DEF Of
    <2>3. NextEvent(b, T, c, m) = Event(b, T, n)
      BY <2>2 DEF NextEvent, Event, n
    <2> QED BY <1>2, <2>1, <2>2, <2>3, EventTime, EventOrder DEF Of
  <1> QED BY <1>1, <1>2

-----------------------------------------------------------------------------
\* The functions that update a struct hrtimer_cpu_base cover the queues

\* A cpu_base: a raised softirq leaves no time to wait for, and without soft timers
\* there is neither.
Typed(b) ==
    /\ IsBase(b)
    /\ b.expires_next \in Times /\ b.softirq_expires_next \in Times
    /\ b.deferred_expires_next \in Times
    /\ b.softirq_activated \in BOOLEAN /\ b.deferred_needs_update \in BOOLEAN
    /\ b.offset \in Nat /\ b.clock_was_set_seq \in Nat
    /\ b.softirq_activated => b.softirq_expires_next = KTIME_MAX
    /\ Soft = {} => ~b.softirq_activated /\ b.softirq_expires_next = KTIME_MAX

\* The timers of S queued on c in T are covered by an event at next: a hard one does
\* not expire before it, a soft one has the softirq raised by it in time, or raised
\* already.
Covered(S, b, next, T, c) ==
    /\ \A t \in S \cap Of(T, c, "hard") : next <= Event(b, T, t)
    /\ b.softirq_activated
       \/ /\ next <= b.softirq_expires_next
          /\ \A t \in S \cap Of(T, c, "soft") : b.softirq_expires_next <= Event(b, T, t)

\* What a function that programs the device may do to the rest of a cpu_base
Programs(b, u) ==
    /\ Typed(u)
    /\ u.offset = b.offset /\ u.clock_was_set_seq = b.clock_was_set_seq
    /\ u.softirq_activated = b.softirq_activated
    /\ u.deferred_rearm = b.deferred_rearm
    /\ u.deferred_expires_next = b.deferred_expires_next
    /\ b.deferred_needs_update => u.deferred_needs_update

\* Fewer timers, and another record that agrees on the softirq and the offset, are
\* covered by the same event.
LEMMA CoveredLess ==
    ASSUME NEW S, NEW b, NEW next, NEW T, NEW c, Covered(S, b, next, T, c),
           NEW R, NEW d, NEW U,
           d.softirq_activated = b.softirq_activated,
           d.softirq_expires_next = b.softirq_expires_next, d.offset = b.offset,
           \A t \in R : U[t].queued /\ U[t].cpu = c =>
               t \in S /\ T[t].queued /\ T[t].cpu = c /\ T[t].expires = U[t].expires
    PROVE  Covered(R, d, next, U, c)
  <1>1. \A m : R \cap Of(U, c, m) \subseteq S \cap Of(T, c, m)
    BY DEF Of
  <1>2. \A m : \A t \in R \cap Of(U, c, m) : Event(d, U, t) = Event(b, T, t)
    BY DEF Of, Event, Mono, OffsetOf
  <1> QED BY <1>1, <1>2 DEF Covered

\* An earlier event covers as much.
LEMMA CoveredEarlier ==
    ASSUME NEW S, NEW b, Typed(b), NEW next \in Times, NEW T \in Queues, NEW c,
           Covered(S, b, next, T, c), S \subseteq Timers,
           NEW e \in Times, e <= next
    PROVE  Covered(S, b, e, T, c)
  <1>1. \A t \in S \cap Of(T, c, "hard") : Event(b, T, t) \in Times
    BY EventTime DEF Typed
  <1> QED BY <1>1, ConstAssumption DEF Covered, Times, Typed

\* The next event of all queues is a time.
LEMMA NextOfAllTime ==
    ASSUME NEW b, b.offset \in Nat, NEW T \in Queues, NEW c
    PROVE  NextOfAll(b, T, c) \in Times
  <1>1. NextEvent(b, T, c, "hard") \in Times /\ NextEvent(b, T, c, "soft") \in Times
        /\ KTIME_MAX \in Times
    BY NextEventIsNext, ConstAssumption DEF Times
  <1> QED BY <1>1 DEF NextOfAll

\* hrtimer_update_next_event() covers all queues of the CPU.
LEMMA UpdateNextEventCovers ==
    ASSUME NEW b, Typed(b), NEW T \in Queues, NEW c, NEW S, S \subseteq Timers
    PROVE  LET u == UpdateNextEvent(b, T, c)
           IN /\ Programs(b, u)
              /\ u.expires_next = b.expires_next /\ u.hang_detected = b.hang_detected
              /\ Covered(S, u, NextOfAll(b, T, c), T, c)
  <1> DEFINE hard == NextEvent(b, T, c, "hard")
             some == NextEvent(b, T, c, "soft")
             soft == IF b.softirq_activated THEN KTIME_MAX ELSE some
             e == NextOfAll(b, T, c)
             u == UpdateNextEvent(b, T, c)
             n == IF soft < hard THEN NextTimer(b, T, c, "soft") ELSE NextTimer(b, T, c, "hard")
             s == IF b.softirq_activated THEN b.softirq_expires_next ELSE soft
  <1>1. /\ hard \in Times /\ some \in Times
        /\ \A t \in Of(T, c, "hard") : hard <= Event(b, T, t)
        /\ \A t \in Of(T, c, "soft") : some <= Event(b, T, t)
        /\ Of(T, c, "soft") = {} => some = KTIME_MAX
    BY NextEventIsNext DEF Typed
  <1>2. Soft = {} => some = KTIME_MAX
    BY <1>1 DEF Of, Mode
  <1>3. e = (IF soft < hard THEN soft ELSE hard) /\ KTIME_MAX \in Times
    BY ConstAssumption DEF NextOfAll, Times
  <1>4. u = [b EXCEPT !.softirq_expires_next = s, !.next_timer = n]
    BY DEF UpdateNextEvent, Typed, IsBase, Fields
  <1> HIDE DEF u, n
  <1>5. /\ IsBase(u) /\ u.softirq_expires_next = s
        /\ u.offset = b.offset /\ u.clock_was_set_seq = b.clock_was_set_seq
        /\ u.softirq_activated = b.softirq_activated
        /\ u.deferred_rearm = b.deferred_rearm
        /\ u.deferred_expires_next = b.deferred_expires_next
        /\ u.deferred_needs_update = b.deferred_needs_update
        /\ u.expires_next = b.expires_next /\ u.hang_detected = b.hang_detected
    <2> HIDE DEF s
    <2> QED BY <1>4 DEF Typed, IsBase, Fields
  <1> HIDE DEF hard, some, e
  <1>6. Programs(b, u)
    BY <1>1, <1>2, <1>3, <1>5 DEF Programs, Typed
  <1>7. \A t \in S : Event(u, T, t) = Event(b, T, t)
    BY <1>5 DEF Event, Mono, OffsetOf
  <1>8. e \in Int /\ e <= hard /\ (~b.softirq_activated => e <= some /\ s = some)
    BY <1>1, <1>3 DEF Times
  <1>9. \A t \in S \cap Of(T, c, "hard") : e <= Event(u, T, t)
    <2> SUFFICES ASSUME NEW t \in S \cap Of(T, c, "hard") PROVE e <= Event(u, T, t)
      OBVIOUS
    <2>1. Event(b, T, t) \in Times /\ hard <= Event(b, T, t)
      BY <1>1, EventTime DEF Typed
    <2> QED BY <1>1, <1>7, <1>8, <2>1 DEF Times
  <1>10. Covered(S, u, e, T, c)
    BY <1>1, <1>5, <1>7, <1>8, <1>9 DEF Covered
  <1> QED BY <1>5, <1>6, <1>10 DEF e, u

\* __hrtimer_reprogram() to the time e
LEMMA SetEventSets ==
    ASSUME NEW b, Typed(b), NEW e \in Times
    PROVE  LET u == SetEvent(b, e)
           IN /\ Programs(b, u) /\ u.expires_next = e
              /\ u.softirq_expires_next = b.softirq_expires_next
  <1> DEFINE u == SetEvent(b, e)
             d == IF b.hang_detected THEN b.dev ELSE e
  <1>1. u = [b EXCEPT !.expires_next = e, !.dev = d]
    BY DEF SetEvent, Typed, IsBase, Fields
  <1> HIDE DEF u, d
  <1>2. /\ IsBase(u) /\ u.expires_next = e
        /\ u.softirq_expires_next = b.softirq_expires_next
        /\ u.offset = b.offset /\ u.clock_was_set_seq = b.clock_was_set_seq
        /\ u.softirq_activated = b.softirq_activated
        /\ u.deferred_rearm = b.deferred_rearm
        /\ u.deferred_expires_next = b.deferred_expires_next
        /\ u.deferred_needs_update = b.deferred_needs_update
    BY <1>1 DEF Typed, IsBase, Fields
  <1> QED BY <1>2 DEF Programs, Typed, u

\* hrtimer_force_reprogram() covers all queues, also when it finds the event unchanged.
LEMMA ForceReprogramCovers ==
    ASSUME NEW b, Typed(b), NEW T \in Queues, NEW c, NEW S, S \subseteq Timers, NEW skip
    PROVE  LET u == ForceReprogram(b, T, c, skip)
           IN Programs(b, u) /\ Covered(S, u, u.expires_next, T, c)
  <1> DEFINE e == NextOfAll(b, T, c)
             n == UpdateNextEvent(b, T, c)
             u == ForceReprogram(b, T, c, skip)
  <1>1. e \in Times
    BY NextOfAllTime DEF Typed
  <1>2. Programs(b, n) /\ n.expires_next = b.expires_next /\ Covered(S, n, e, T, c)
    BY UpdateNextEventCovers
  <1>3. Typed(n)
    BY <1>2 DEF Programs
  <1>4. u = IF skip /\ e = b.expires_next THEN n ELSE SetEvent(n, e)
    BY DEF ForceReprogram
  <1> HIDE DEF n, e, u
  <1>5. CASE u = n /\ e = b.expires_next
    BY <1>2, <1>5 DEF u
  <1>6. CASE u = SetEvent(n, e)
    <2>1. Programs(n, u) /\ u.expires_next = e /\ u.softirq_expires_next = n.softirq_expires_next
      BY <1>1, <1>3, <1>6, SetEventSets
    <2>2. Programs(b, u)
      BY <1>2, <2>1 DEF Programs
    <2>3. u.softirq_activated = n.softirq_activated /\ u.offset = n.offset
      BY <2>1 DEF Programs
    <2>4. Covered(S, u, e, T, c)
      BY <1>2, <2>1, <2>3, CoveredLess
    <2> QED BY <2>1, <2>2, <2>4 DEF u
  <1> QED BY <1>4, <1>5, <1>6

\* One more timer is covered if the event, or the softirq, is in time for it.
LEMMA CoveredMore ==
    ASSUME NEW S, NEW b, NEW next, NEW T, NEW c, NEW t, Covered(S \ {t}, b, next, T, c),
           IF t \in Soft THEN b.softirq_activated \/ b.softirq_expires_next <= Event(b, T, t)
                         ELSE next <= Event(b, T, t)
    PROVE  Covered(S, b, next, T, c)
  <1>1. CASE t \in Soft
    <2>1. S \cap Of(T, c, "hard") = (S \ {t}) \cap Of(T, c, "hard")
      BY <1>1 DEF Of, Mode
    <2> QED BY <1>1, <2>1 DEF Covered
  <1>2. CASE t \notin Soft
    <2>1. S \cap Of(T, c, "soft") = (S \ {t}) \cap Of(T, c, "soft")
      BY <1>2 DEF Of, Mode
    <2> QED BY <1>2, <2>1 DEF Covered
  <1> QED BY <1>1, <1>2

\* An earlier softirq, and an event in time for it
LEMMA CoveredSooner ==
    ASSUME NEW S, S \subseteq Timers, NEW b, Typed(b), NEW T \in Queues, NEW c,
           Covered(S, b, b.expires_next, T, c), ~b.softirq_activated,
           NEW u, ~u.softirq_activated, u.offset = b.offset,
           u.softirq_expires_next \in Times, u.softirq_expires_next <= b.softirq_expires_next,
           NEW next \in Times, next <= b.expires_next, next <= u.softirq_expires_next
    PROVE  Covered(S, u, next, T, c)
  <1>1. \A t \in S : Event(b, T, t) \in Times /\ Event(u, T, t) = Event(b, T, t)
    BY EventTime DEF Typed, Event, Mono, OffsetOf
  <1>2. KTIME_MAX \in Int /\ b.expires_next \in Times /\ b.softirq_expires_next \in Times
    BY ConstAssumption DEF Typed
  <1>3. \A t \in S \cap Of(T, c, "hard") : next <= Event(u, T, t)
    BY <1>1, <1>2 DEF Covered, Times
  <1>4. \A t \in S \cap Of(T, c, "soft") : u.softirq_expires_next <= Event(u, T, t)
    BY <1>1, <1>2 DEF Covered, Times
  <1> QED BY <1>3, <1>4 DEF Covered

\* hrtimer_reprogram() covers the timer it is called for, if it is called on the timer's
\* CPU, or the softirq will look at the timer, or the timer is not ahead of the event.
LEMMA ReprogramCovers ==
    ASSUME NEW b, Typed(b), NEW T \in Queues, NEW t \in Timers, NEW c,
           NEW S, S \subseteq Timers, Covered(S \ {t}, b, b.expires_next, T, c),
           ~b.deferred_rearm, NEW local,
           local \/ (t \in Soft /\ b.softirq_activated) \/ b.expires_next <= Mono(b, T, t)
    PROVE  LET u == Reprogram(b, T, t, local)
           IN Programs(b, u) /\ Covered(S, u, u.expires_next, T, c)
  <1> DEFINE e == Event(b, T, t)
             s == IF t \in Soft THEN [b EXCEPT !.softirq_expires_next = e] ELSE b
             n == [s EXCEPT !.next_timer = t]
             u == Reprogram(b, T, t, local)
             idle == t \in Soft /\ (b.softirq_activated \/ e >= b.softirq_expires_next)
             late == ~local \/ e >= b.expires_next
  <1>1. /\ e \in Times /\ Mono(b, T, t) \in Int /\ Mono(b, T, t) <= e
        /\ KTIME_MAX \in Times /\ e \in Int
        /\ b.expires_next \in Int /\ b.softirq_expires_next \in Int
    BY EventTime, ConstAssumption DEF Typed, Times
  <1>2. u = IF idle THEN b ELSE IF late THEN s ELSE SetEvent(n, e)
    BY DEF Reprogram, Event
  <1>3. ~idle /\ late => b.expires_next <= e
    <2> HIDE DEF e
    <2> QED BY <1>1
  <1>4. Programs(b, b)
    BY DEF Programs
  <1>5. CASE idle
    <2>1. Covered(S, b, b.expires_next, T, c)
      <3> HIDE DEF e
      <3>1. b.softirq_activated \/ b.softirq_expires_next <= e
        BY <1>1, <1>5 DEF Typed
      <3> QED BY <1>5, <3>1, CoveredMore DEF e
    <2> QED BY <1>2, <1>4, <1>5, <2>1
  <1> HIDE DEF idle, late, u
  <1>6. CASE ~idle /\ t \notin Soft
    <2>1. s = b /\ n = [b EXCEPT !.next_timer = t]
      BY <1>6
    <2>2. CASE late
      <3>1. b.expires_next <= Event(b, T, t)
        BY <1>3, <1>6, <2>2
      <3>2. Covered(S, b, b.expires_next, T, c)
        BY <1>6, <3>1, CoveredMore
      <3> QED BY <1>2, <1>4, <1>6, <2>1, <2>2, <3>2 DEF u
    <2>3. CASE ~late
      <3> HIDE DEF n, s
      <3>1. /\ Programs(b, n) /\ n.softirq_expires_next = b.softirq_expires_next
        BY <2>1 DEF Typed, IsBase, Fields, Programs
      <3> HIDE DEF e
      <3>2. Programs(n, u) /\ u.expires_next = e /\ u.softirq_expires_next = n.softirq_expires_next
        BY <1>1, <1>2, <1>6, <2>3, <3>1, SetEventSets DEF Programs
      <3>3. Programs(b, u)
        BY <3>1, <3>2 DEF Programs
      <3>4. e <= b.expires_next
        BY <1>1, <2>3 DEF late
      <3>5. Covered(S \ {t}, b, e, T, c)
        <4>1. S \ {t} \subseteq Timers /\ b.expires_next \in Times
          BY DEF Typed
        <4> QED BY <1>1, <3>4, <4>1, CoveredEarlier
      <3>6. Covered(S, b, e, T, c)
        <4>1. e <= Event(b, T, t)
          BY <1>1 DEF e
        <4> QED BY <1>6, <3>5, <4>1, CoveredMore
      <3>7. Covered(S, u, e, T, c)
        <4>1. u.softirq_activated = b.softirq_activated /\ u.offset = b.offset
              /\ u.softirq_expires_next = b.softirq_expires_next
          BY <3>1, <3>2, <3>3 DEF Programs
        <4> QED BY <3>6, <4>1, CoveredLess
      <3> QED BY <3>2, <3>3, <3>7 DEF u
    <2> QED BY <2>2, <2>3
  <1>7. CASE ~idle /\ t \in Soft
    <2>1. s = [b EXCEPT !.softirq_expires_next = e]
      BY <1>7
    <2>2. e < b.softirq_expires_next /\ ~b.softirq_activated
      <3> HIDE DEF e
      <3> QED BY <1>1, <1>7 DEF idle
    <2> HIDE DEF s, e
    <2>3. Programs(b, s) /\ s.softirq_expires_next = e /\ s.expires_next = b.expires_next
      <3>1. /\ IsBase(s) /\ s.expires_next = b.expires_next
            /\ s.softirq_expires_next = e
            /\ s.offset = b.offset /\ s.clock_was_set_seq = b.clock_was_set_seq
            /\ s.softirq_activated = b.softirq_activated
            /\ s.deferred_rearm = b.deferred_rearm
            /\ s.deferred_expires_next = b.deferred_expires_next
            /\ s.deferred_needs_update = b.deferred_needs_update
        BY <2>1 DEF Typed, IsBase, Fields
      <3> QED BY <1>1, <1>7, <2>2, <3>1 DEF Programs, Typed
    <2>4. Programs(b, n) /\ n.softirq_expires_next = e
      BY <2>3 DEF Typed, IsBase, Fields, Programs
    <2> HIDE DEF n
    <2>5. /\ Programs(b, u) /\ u.softirq_expires_next = e
          /\ u.expires_next \in Times /\ u.expires_next <= b.expires_next
          /\ u.expires_next <= e
      <3>1. CASE late
        BY <1>1, <1>2, <1>3, <1>7, <2>3, <3>1 DEF Typed, Times
      <3>2. CASE ~late
        <4>1. u = SetEvent(n, e) /\ e <= b.expires_next
          BY <1>1, <1>2, <1>7, <3>2 DEF late
        <4>2. Programs(n, u) /\ u.expires_next = e /\ u.softirq_expires_next = n.softirq_expires_next
          BY <1>1, <2>4, <4>1, SetEventSets DEF Programs
        <4>3. Programs(b, u)
          BY <2>4, <4>2 DEF Programs
        <4> QED BY <1>1, <2>4, <4>1, <4>2, <4>3
      <3> QED BY <3>1, <3>2
    <2>6. ~u.softirq_activated /\ u.offset = b.offset
      BY <2>2, <2>5 DEF Programs
    <2>7. e <= b.softirq_expires_next
      BY <1>1, <2>2
    <2>8. Covered(S \ {t}, u, u.expires_next, T, c)
      <3>1. S \ {t} \subseteq Timers
        OBVIOUS
      <3> QED BY <1>1, <2>2, <2>5, <2>6, <2>7, <3>1, CoveredSooner
    <2>9. Event(u, T, t) = e
      BY <2>6 DEF e, Event, Mono, OffsetOf
    <2>10. Covered(S, u, u.expires_next, T, c)
      BY <1>1, <1>7, <2>5, <2>8, <2>9, CoveredMore
    <2> QED BY <2>5, <2>10 DEF u
  <1> QED BY <1>5, <1>6, <1>7

\* __remove_hrtimer(): the timers that stay are covered as before.
LEMMA RemoveCovers ==
    ASSUME NEW b, Typed(b), NEW T \in Queues, NEW t \in Timers, NEW c,
           NEW S, S \subseteq Timers, NEW reprogram
    PROVE  LET u == Remove(b, T, t, c, reprogram)
           IN /\ Programs(b, u)
              /\ b.deferred_rearm => u.softirq_expires_next = b.softirq_expires_next
              /\ ~b.deferred_rearm /\ Covered(S, b, b.expires_next, T, c)
                    => Covered(S \ {t}, u, u.expires_next, T, c)
  <1> DEFINE U == [T EXCEPT ![t].queued = FALSE]
             m == [b EXCEPT !.deferred_needs_update = TRUE]
             f == ForceReprogram(b, U, c, TRUE)
             u == Remove(b, T, t, c, reprogram)
  <1>1. u = b \/ (b.deferred_rearm /\ u = m) \/ (~b.deferred_rearm /\ u = f)
    BY DEF Remove
  <1> HIDE DEF u
  <1>2. CASE u = b
    <2>1. Covered(S, b, b.expires_next, T, c) => Covered(S \ {t}, b, b.expires_next, T, c)
      BY CoveredLess
    <2> QED BY <1>2, <2>1 DEF Programs, u
  <1>3. CASE b.deferred_rearm /\ u = m
    <2>1. Programs(b, m) /\ m.softirq_expires_next = b.softirq_expires_next
      BY DEF Typed, IsBase, Fields, Programs
    <2> QED BY <1>3, <2>1 DEF u
  <1>4. CASE ~b.deferred_rearm /\ u = f
    <2>1. U \in Queues
      BY DEF Queues
    <2>2. S \ {t} \subseteq Timers
      OBVIOUS
    <2> HIDE DEF U
    <2>3. Programs(b, f) /\ Covered(S \ {t}, f, f.expires_next, U, c)
      BY <2>1, <2>2, ForceReprogramCovers
    <2>4. \A x \in S \ {t} : U[x] = T[x]
      BY DEF U, Queues
    <2> HIDE DEF f
    <2>5. Covered(S \ {t}, f, f.expires_next, T, c)
      BY <2>3, <2>4, CoveredLess
    <2> QED BY <1>4, <2>3, <2>5 DEF u
  <1> QED BY <1>1, <1>2, <1>3, <1>4

\* A timer that is not the leftmost one of its base is covered by the one ahead of it.
LEMMA BehindCovered ==
    ASSUME NEW b, Typed(b), NEW T \in Queues, NEW t \in Timers, T[t].queued,
           NEW S, S \subseteq Timers, NEW in_place, ~Leftmost(T, t, in_place),
           NEW next \in Times, Covered(S \ {t}, b, next, T, T[t].cpu),
           Base(T, T[t].cpu, Mode(t), Clock(t)) \subseteq S
    PROVE  Covered(S, b, next, T, T[t].cpu)
  <1>1. PICK u \in Base(T, T[t].cpu, Mode(t), Clock(t)) \ {t} : ~(T[t].expires < T[u].expires)
    BY DEF Leftmost
  <1>2. /\ u \in Timers /\ u \in S \ {t} /\ u \in Of(T, T[t].cpu, Mode(t))
        /\ Clock(u) = Clock(t) /\ Mode(u) = Mode(t)
    BY <1>1 DEF Base, Of
  <1>3. T[t].expires \in Int /\ T[u].expires \in Int /\ OffsetOf(b, Clock(t)) \in Int
    BY <1>2, ConstAssumption DEF Queues, Times, OffsetOf, Typed
  <1>4. Mono(b, T, u) <= Mono(b, T, t)
    BY <1>1, <1>2, <1>3 DEF Mono
  <1>5. Event(b, T, u) <= Event(b, T, t)
    BY <1>2, <1>4, EventOrder DEF Typed
  <1>6. Event(b, T, u) \in Int /\ Event(b, T, t) \in Int
        /\ next \in Int /\ b.softirq_expires_next \in Int
    BY <1>2, EventTime, ConstAssumption DEF Typed, Times
  <1>7. IF t \in Soft THEN b.softirq_activated \/ b.softirq_expires_next <= Event(b, T, t)
                      ELSE next <= Event(b, T, t)
    BY <1>2, <1>5, <1>6 DEF Covered, Mode
  <1> QED BY <1>7, CoveredMore

\* S holds all of a base of the queues T or nothing of it.
Whole(S, T) == \A t \in S : Base(T, T[t].cpu, Mode(t), Clock(t)) \subseteq S

\* The end of a start: the timer that was queued is covered like the others, or a
\* pending rearm knows of it.
LEMMA ProgramCovers ==
    ASSUME NEW b, Typed(b), NEW T \in Queues, NEW t \in Timers, T[t].queued,
           NEW S, S \subseteq Timers, Whole(S, T),
           NEW was_first, NEW in_place, NEW local \in BOOLEAN, NEW user,
           ~b.deferred_rearm => Covered(S \ {t}, b, b.expires_next, T, T[t].cpu),
           b.deferred_rearm \/ local \/ (t \in Soft /\ b.softirq_activated)
              \/ b.expires_next <= Mono(b, T, t)
    PROVE  LET r == Program(b, T, t, was_first, Leftmost(T, t, in_place), local, user)
           IN /\ Programs(b, r.base)
              /\ b.deferred_rearm => r.base.deferred_needs_update
              /\ ~b.deferred_rearm
                    => Covered(S, r.base, r.base.expires_next, r.timer, T[t].cpu)
  <1> DEFINE c == T[t].cpu
             first == Leftmost(T, t, in_place)
             gone == user /\ Expired(b, T, t)
             U == [T EXCEPT ![t].queued = ~gone]
             m == [b EXCEPT !.deferred_needs_update = TRUE]
             f == ForceReprogram(b, U, c, TRUE)
             p == Reprogram(b, T, t, local)
             r == Program(b, T, t, was_first, first, local, user)
             lazy == t \in Lazy /\ b.expires_next <= T[t].expires
  <1>1. r = IF b.deferred_rearm THEN [timer |-> T, base |-> m]
            ELSE IF ~was_first \/ ~local
            THEN IF ~first THEN [timer |-> T, base |-> b]
                 ELSE [timer |-> U, base |-> IF gone THEN b ELSE p]
            ELSE IF lazy THEN [timer |-> T, base |-> b]
            ELSE [timer |-> U, base |-> f]
    BY DEF Program
  <1>2. Programs(b, b)
    BY DEF Programs
  <1>3. U \in Queues /\ (\A x \in Timers \ {t} : U[x] = T[x]) /\ U[t].queued = ~gone
        /\ U[t].cpu = T[t].cpu /\ U[t].expires = T[t].expires
    <2>1. (~gone) \in BOOLEAN
      OBVIOUS
    <2> HIDE DEF gone
    <2> QED BY <2>1 DEF Queues
  <1> HIDE DEF r, U, gone, first, lazy
  <1>4. CASE b.deferred_rearm
    <2>1. Programs(b, m) /\ m.deferred_needs_update
      BY DEF Typed, IsBase, Fields, Programs
    <2>2. r.base = m
      BY <1>1, <1>4
    <2> QED BY <1>4, <2>1, <2>2 DEF r, first
  <1>5. CASE ~b.deferred_rearm
    <2>0. Covered(S \ {t}, b, b.expires_next, T, c)
      BY <1>5
    <2>1. CASE r = [timer |-> T, base |-> b] /\ ~first
      <3>1. Covered(S, b, b.expires_next, T, c)
        <4>1. CASE t \in S
          <5>1. Base(T, T[t].cpu, Mode(t), Clock(t)) \subseteq S
            BY <4>1 DEF Whole
          <5>2. b.expires_next \in Times
            BY DEF Typed
          <5> QED BY <2>0, <2>1, <5>1, <5>2, BehindCovered DEF first
        <4>2. CASE t \notin S
          BY <2>0, <4>2, CoveredLess
        <4> QED BY <4>1, <4>2
      <3> QED BY <1>2, <1>5, <2>1, <3>1 DEF r, first
    <2>2. CASE r = [timer |-> U, base |-> b] /\ gone
      <3>1. \A x \in S : U[x].queued /\ U[x].cpu = c =>
                x \in S \ {t} /\ T[x].queued /\ T[x].cpu = c /\ T[x].expires = U[x].expires
        BY <1>3, <2>2
      <3>2. Covered(S, b, b.expires_next, U, c)
        <4> HIDE DEF c
        <4> QED BY <2>0, <3>1, CoveredLess
      <3> QED BY <1>2, <1>5, <2>2, <3>2 DEF r, first
    <2>3. CASE r = [timer |-> U, base |-> p] /\ ~gone
      <3>1. Programs(b, p) /\ Covered(S, p, p.expires_next, T, c)
        BY <1>5, <2>0, ReprogramCovers
      <3> HIDE DEF p
      <3>2. Covered(S, p, p.expires_next, U, c)
        BY <1>3, <3>1, CoveredLess
      <3> QED BY <1>5, <2>3, <3>1, <3>2 DEF r, first
    <2>4. CASE r = [timer |-> T, base |-> b] /\ lazy
      <3>1. Clock(t) = "mono" /\ t \notin Soft
        BY <2>4, ConstAssumption DEF lazy, Clock
      <3>2. Mono(b, T, t) <= Event(b, T, t) /\ Mono(b, T, t) = T[t].expires
            /\ Event(b, T, t) \in Int /\ T[t].expires \in Int /\ b.expires_next \in Int
        BY <3>1, EventTime, ConstAssumption DEF Typed, Mono, OffsetOf, Queues, Times
      <3>3. b.expires_next <= Event(b, T, t)
        BY <2>4, <3>2 DEF lazy
      <3>4. Covered(S, b, b.expires_next, T, c)
        BY <2>0, <3>1, <3>3, CoveredMore
      <3> QED BY <1>2, <1>5, <2>4, <3>4 DEF r, first
    <2>5. CASE r = [timer |-> U, base |-> f]
      <3>1. Programs(b, f) /\ Covered(S, f, f.expires_next, U, c)
        BY <1>3, ForceReprogramCovers
      <3> HIDE DEF f
      <3> QED BY <1>5, <2>5, <3>1 DEF r, first
    <2> HIDE DEF p, f, c
    <2> QED BY <1>1, <1>5, <2>1, <2>2, <2>3, <2>4, <2>5
  <1> QED BY <1>4, <1>5

\* The end of the softirq covers the soft timers that are left.
LEMMA SoftBaseCovers ==
    ASSUME TimersOK, NEW b, Typed(b), b.softirq_activated, ~b.deferred_rearm, NEW c,
           NEW S, S \subseteq Timers, Covered(S, b, b.expires_next, timer, c)
    PROVE  LET u == SoftBase(b, c)
           IN /\ Typed(u) /\ ~u.softirq_activated
              /\ u.offset = b.offset /\ u.clock_was_set_seq = b.clock_was_set_seq
              /\ u.deferred_rearm = b.deferred_rearm
              /\ Covered(S, u, u.expires_next, timer, c)
  <1> DEFINE n == [b EXCEPT !.softirq_activated = FALSE]
             t == NextTimer(n, timer, c, "soft")
             H == {x \in S : x \notin Soft} \cup {t}
             u == SoftBase(b, c)
  <1>1. /\ Typed(n) /\ ~n.softirq_activated /\ n.softirq_expires_next = KTIME_MAX
        /\ n.expires_next = b.expires_next
        /\ n.offset = b.offset /\ n.clock_was_set_seq = b.clock_was_set_seq
        /\ n.deferred_rearm = b.deferred_rearm
    BY DEF Typed, IsBase, Fields
  <1>2. n.expires_next <= KTIME_MAX
    BY <1>1, ConstAssumption DEF Typed, Times
  <1>3. u = IF t = None THEN n ELSE Reprogram(n, timer, t, TRUE)
    BY DEF SoftBase
  <1>4. /\ Of(timer, c, "soft") = {} => t = None
        /\ Of(timer, c, "soft") # {} =>
              /\ t \in Of(timer, c, "soft")
              /\ \A x \in Of(timer, c, "soft") : Mono(n, timer, t) <= Mono(n, timer, x)
    BY <1>1, NextTimerIsNext DEF Typed, TimersOK
  <1> HIDE DEF n, t, u
  <1>5. \A x \in S \cap Of(timer, c, "hard") : n.expires_next <= Event(n, timer, x)
    BY <1>1 DEF Covered, Event, Mono, OffsetOf
  <1>6. CASE Of(timer, c, "soft") = {}
    <2>1. Covered(S, n, n.expires_next, timer, c)
      BY <1>1, <1>2, <1>5, <1>6 DEF Covered
    <2> QED BY <1>1, <1>3, <1>4, <1>6, <2>1 DEF u
  <1>7. CASE Of(timer, c, "soft") # {}
    <2>1. t \in Timers /\ t \in Soft /\ u = Reprogram(n, timer, t, TRUE)
      BY <1>3, <1>4, <1>7, ConstAssumption DEF Of, Mode
    <2>2. (H \ {t}) \cap Of(timer, c, "hard") \subseteq S \cap Of(timer, c, "hard")
          /\ (H \ {t}) \cap Of(timer, c, "soft") = {} /\ H \subseteq Timers
      BY <2>1 DEF Of, Mode
    <2>3. Covered(H \ {t}, n, n.expires_next, timer, c)
      BY <1>1, <1>2, <1>5, <2>2 DEF Covered
    <2> HIDE DEF H
    <2>4. Programs(n, u) /\ Covered(H, u, u.expires_next, timer, c)
      <3>1. timer \in Queues /\ TRUE \in BOOLEAN /\ ~n.deferred_rearm
        BY <1>1 DEF TimersOK
      <3> QED BY <1>1, <2>1, <2>2, <2>3, <3>1, ReprogramCovers
    <2>5. ~u.softirq_activated /\ u.offset = n.offset
      BY <1>1, <2>4 DEF Programs
    <2>6. \A x \in Timers : Event(u, timer, x) = Event(n, timer, x)
      BY <2>5 DEF Event, Mono, OffsetOf
    <2>7. \A x \in S \cap Of(timer, c, "hard") : u.expires_next <= Event(u, timer, x)
      <3>1. S \cap Of(timer, c, "hard") \subseteq H \cap Of(timer, c, "hard")
        BY DEF H, Of, Mode
      <3> QED BY <2>4, <3>1 DEF Covered
    <2>8. u.expires_next <= u.softirq_expires_next /\ u.softirq_expires_next <= Event(u, timer, t)
      <3>1. t \in H \cap Of(timer, c, "soft")
        BY <1>4, <1>7 DEF H
      <3> QED BY <2>4, <2>5, <3>1 DEF Covered
    <2>9. ASSUME NEW x \in S \cap Of(timer, c, "soft")
          PROVE  u.softirq_expires_next <= Event(u, timer, x)
      <3>1. Event(n, timer, t) <= Event(n, timer, x)
        BY <1>1, <1>4, <1>7, <2>1, EventOrder DEF Typed, TimersOK
      <3>2. Event(n, timer, t) \in Times /\ Event(n, timer, x) \in Times
        BY <1>1, <2>1, EventTime DEF Typed, TimersOK
      <3>3. u.softirq_expires_next \in Times /\ KTIME_MAX \in Int
        BY <2>4, ConstAssumption DEF Typed, Programs
      <3>4. Event(u, timer, t) = Event(n, timer, t) /\ Event(u, timer, x) = Event(n, timer, x)
        BY <2>1, <2>6
      <3> QED BY <2>8, <3>1, <3>2, <3>3, <3>4 DEF Times
    <2>10. Covered(S, u, u.expires_next, timer, c)
      BY <2>7, <2>8, <2>9 DEF Covered
    <2> QED BY <1>1, <2>4, <2>5, <2>10 DEF Programs, u
  <1> QED BY <1>6, <1>7

-----------------------------------------------------------------------------
\* The inductive invariant

\* Those that the device of c is programmed for: none while an IPI is on its way
Known(c) == IF c \in setter.mask THEN {} ELSE Sure

\* A cpu_base that has not seen the last setting of the clock will be looked at.
SettingOK(b, c) ==
    /\ b.clock_was_set_seq <= tk.clock_was_set_seq
    /\ b.clock_was_set_seq = tk.clock_was_set_seq => b.offset = tk.offset
    /\ \/ b.offset = tk.offset
       \/ setter.pc = "look" /\ c \in setter.left
       \/ setter.pc = "ipi" /\ c \in setter.mask

\* The device covers the queues, or the pending rearm will.
CoverOK(b, w, c) ==
    /\ ~b.deferred_rearm => Covered(Known(c), b, b.expires_next, timer, c)
    /\ w["hard"].pc = "rearm" =>
          b.deferred_needs_update \/ Covered(Sure, b, b.deferred_expires_next, timer, c)

WalkFields == {"pc", "now", "tries", "left", "clock", "basenow", "timer"}

\* How the handlers of a CPU and its cpu_base go together
WalkOK(b, w, c) ==
    /\ w["soft"].pc # "off" => b.softirq_activated
    /\ b.deferred_rearm <=> w["hard"].pc # "off"
    /\ w["soft"].pc = "walk" => w["hard"].pc = "off"
    /\ \A m \in Modes :
          /\ w[m] = [f \in WalkFields |-> w[m][f]]
          /\ w[m].pc = "callback" =>
                w[m].timer \in Timers /\ Mode(w[m].timer) = m /\ timer[w[m].timer].cpu = c

CpuInv(c) ==
    /\ Typed(cpu_base[c])
    /\ SettingOK(cpu_base[c], c)
    /\ CoverOK(cpu_base[c], walk[c], c)
    /\ WalkOK(cpu_base[c], walk[c], c)

CoverageInv ==
    /\ now <= MaxTime
    /\ tk.offset \in Nat /\ tk.clock_was_set_seq \in Nat
    /\ setter = [f \in {"pc", "left", "mask"} |-> setter[f]]
    /\ setter.left \subseteq Cpus /\ setter.mask \subseteq Cpus
    /\ setter.pc = "idle" => setter.mask = {}
    /\ \A c \in Cpus : CpuInv(c)

XInv == IInv /\ TimersOK /\ CoverageInv

-----------------------------------------------------------------------------
\* Starts and cancellations

\* What is known of a CPU leaves no base of the queues in half.
LEMMA KnownWhole ==
    ASSUME NEW c, NEW T
    PROVE  Known(c) \subseteq Timers /\ Whole(Known(c), T)
  BY DEF Known, Sure, Whole, Base, Mode, Clock

\* What covers all timers that are never missed covers those that are known.
LEMMA KnownLess ==
    ASSUME NEW c, NEW b, NEW next, NEW T, Covered(Sure, b, next, T, c)
    PROVE  Covered(Known(c), b, next, T, c)
  BY CoveredLess DEF Known

\* In this step d gets no timer it did not have.
Fewer(d) ==
    \A t \in Timers : timer'[t].queued /\ timer'[t].cpu = d =>
        timer[t].queued /\ timer[t].cpu = d /\ timer[t].expires = timer'[t].expires

\* In this step the timers whose functions run on d stay there.
Stay(d) ==
    \A m \in Modes : walk[d][m].pc = "callback" => timer'[walk[d][m].timer].cpu = d

\* A step that only programs the cpu_base of a CPU
LEMMA Programmed ==
    ASSUME NEW c \in Cpus, CpuInv(c), UNCHANGED <<tk, setter>>, walk'[c] = walk[c], Stay(c),
           NEW u, cpu_base'[c] = u, Programs(cpu_base[c], u),
           ~u.deferred_rearm => Covered(Known(c), u, u.expires_next, timer', c),
           u.deferred_rearm => \/ u.deferred_needs_update
                               \/ /\ u.softirq_expires_next = cpu_base[c].softirq_expires_next
                                  /\ Fewer(c)
    PROVE  CpuInv(c)'
  <1> DEFINE b == cpu_base[c]
  <1>1. Typed(u) /\ SettingOK(u, c)'
    BY DEF CpuInv, Programs, SettingOK
  <1>2. WalkOK(u, walk[c], c)'
    BY DEF CpuInv, WalkOK, Programs, Stay
  <1>3. ASSUME walk[c]["hard"].pc = "rearm"
        PROVE  u.deferred_needs_update \/ Covered(Sure, u, u.deferred_expires_next, timer', c)
    <2>1. u.deferred_rearm /\ u.deferred_expires_next = b.deferred_expires_next
          /\ u.softirq_activated = b.softirq_activated /\ u.offset = b.offset
          /\ (b.deferred_needs_update => u.deferred_needs_update)
      BY <1>3 DEF CpuInv, WalkOK, Programs
    <2>2. CASE u.deferred_needs_update
      BY <2>2
    <2>3. CASE ~u.deferred_needs_update
      <3>1. Covered(Sure, b, b.deferred_expires_next, timer, c)
        BY <1>3, <2>1, <2>3 DEF CpuInv, CoverOK
      <3>2. u.softirq_expires_next = b.softirq_expires_next /\ Fewer(c)
        BY <2>1, <2>3
      <3>3. Sure \subseteq Timers
        BY DEF Sure
      <3>4. Covered(Sure, u, b.deferred_expires_next, timer', c)
        BY <2>1, <3>1, <3>2, <3>3, CoveredLess DEF Fewer
      <3> QED BY <2>1, <3>4
    <2> QED BY <2>2, <2>3
  <1>4. CoverOK(u, walk[c], c)'
    BY <1>3 DEF CoverOK, Known
  <1> QED BY <1>1, <1>2, <1>4 DEF CpuInv, Typed, Covered

\* A CPU that a step does not touch
LEMMA Untouched ==
    ASSUME NEW c \in Cpus, CpuInv(c), UNCHANGED <<tk, setter>>, walk'[c] = walk[c],
           cpu_base'[c] = cpu_base[c], Stay(c), Fewer(c)
    PROVE  CpuInv(c)'
  <1>1. Programs(cpu_base[c], cpu_base[c])
    BY DEF CpuInv, Programs
  <1>2. ASSUME ~cpu_base[c].deferred_rearm
        PROVE  Covered(Known(c), cpu_base[c], cpu_base[c].expires_next, timer', c)
    <2>1. Covered(Known(c), cpu_base[c], cpu_base[c].expires_next, timer, c)
      BY <1>2 DEF CpuInv, CoverOK
    <2>2. Known(c) \subseteq Timers
      BY KnownWhole
    <2> QED BY <2>1, <2>2, CoveredLess DEF Fewer
  <1> QED BY <1>1, <1>2, Programmed

\* What is said of the CPUs together
LEMMA AllCpus ==
    ASSUME CoverageInv, UNCHANGED <<now, tk, setter>>, \A c \in Cpus : CpuInv(c)'
    PROVE  CoverageInv'
  BY DEF CoverageInv

\* A timer whose function does not run may leave its CPU.
LEMMA NotRunningStays ==
    ASSUME NEW d \in Cpus, CpuInv(d), NEW t,
           ~Running(t) \/ timer'[t].cpu = timer[t].cpu,
           \A x \in Timers \ {t} : timer'[x].cpu = timer[x].cpu
    PROVE  Stay(d)
  BY DEF CpuInv, WalkOK, Stay, Running

\* The end of a start changes at most whether the timer itself stays queued.
LEMMA ProgramOthers ==
    ASSUME NEW b, NEW T \in Queues, NEW t \in Timers,
           NEW was_first, NEW first, NEW local, NEW user
    PROVE  LET U == Program(b, T, t, was_first, first, local, user).timer
           IN (\A x \in Timers \ {t} : U[x] = T[x]) /\ U[t].cpu = T[t].cpu
  <1> DEFINE gone == user /\ Expired(b, T, t)
             U == [T EXCEPT ![t].queued = ~gone]
  <1>1. (\A x \in Timers \ {t} : U[x] = T[x]) /\ U[t].cpu = T[t].cpu
    <2> HIDE DEF gone
    <2> QED BY DEF Queues
  <1>2. Program(b, T, t, was_first, first, local, user).timer \in {T, U}
    BY DEF Program
  <1> HIDE DEF U
  <1> QED BY <1>1, <1>2

\* The queues with t linked in anew
LEMMA Requeued ==
    ASSUME TimersOK, NEW t \in Timers, NEW d \in Cpus, NEW x \in StartTimes
    PROVE  LET T == [timer EXCEPT ![t] = [cpu |-> d, queued |-> TRUE,
                                          expires |-> x.e, softexpires |-> x.s]]
           IN /\ T \in Queues /\ T[t].cpu = d /\ T[t].queued /\ T[t].expires = x.e
              /\ \A y \in Timers \ {t} : T[y] = timer[y]
  BY StartTimesInt DEF TimersOK, Queues

\* hrtimer_start_range_ns() that leaves the timer on its CPU
LEMMA StartKeepCovers ==
    ASSUME XInv, NEW this \in Cpus, NEW t \in Timers, NEW x \in StartTimes,
           NEW user \in BOOLEAN, StartKeep(this, t, x, user),
           NEW c \in Cpus, timer[t].cpu = c
    PROVE  CoverageInv'
  <1> DEFINE b == cpu_base[c]
             head == timer[t].queued /\ First(timer, Base(timer, c, Mode(t), Clock(t))) = t
             T == [timer EXCEPT ![t] = [cpu |-> c, queued |-> TRUE,
                                        expires |-> x.e, softexpires |-> x.s]]
             local == c = this
             was_first == b.next_timer = t
             first == Leftmost(T, t, head)
             r == Program(b, T, t, was_first, first, local, user)
             u == r.base
  <1>1. /\ UNCHANGED <<now, tk, walk, setter>> /\ MayKeep(t, this)
        /\ timer' = r.timer /\ cpu_base' = [cpu_base EXCEPT ![c] = u]
    BY DEF StartKeep
  <1>2. TimersOK /\ IInv /\ \A d \in Cpus : CpuInv(d)
    BY DEF XInv, CoverageInv, TimersOK, Queues
  <1>3. T \in Queues /\ T[t].cpu = c /\ T[t].queued /\ \A y \in Timers \ {t} : T[y] = timer[y]
    BY <1>2, Requeued
  <1>4. Typed(b) /\ local \in BOOLEAN
    BY <1>2 DEF CpuInv
  <1>5. local \/ b.deferred_rearm \/ (t \in Soft /\ b.softirq_activated)
    <2>1. CASE ~local
      <3>1. PICK d \in Cpus, m \in Modes : walk[d][m].pc = "callback" /\ walk[d][m].timer = t
        BY <1>1, <2>1 DEF MayKeep, Running
      <3>2. WalkOK(cpu_base[d], walk[d], d)
        BY <1>2 DEF CpuInv
      <3>3. c = d /\ Mode(t) = m
        BY <3>1, <3>2 DEF WalkOK
      <3> QED BY <3>1, <3>2, <3>3 DEF WalkOK, Mode, Modes
    <2> QED BY <2>1
  <1> HIDE DEF T, b, local, head, was_first, first
  <1>6. \A y \in Timers : timer'[y].cpu = timer[y].cpu
    <2>1. \A y \in Timers : timer'[y].cpu = T[y].cpu
      BY <1>1, <1>3, ProgramOthers
    <2> QED BY <1>3, <2>1
  <1>7. \A d \in Cpus : Stay(d)
    BY <1>2, <1>6, NotRunningStays
  <1>8. ~b.deferred_rearm => Covered(Known(c) \ {t}, b, b.expires_next, T, c)
    <2>1. ~b.deferred_rearm => Covered(Known(c), b, b.expires_next, timer, c)
      BY <1>2 DEF CpuInv, CoverOK, b
    <2>2. \A y \in Known(c) \ {t} : T[y] = timer[y]
      BY <1>3, KnownWhole
    <2> QED BY <2>1, <2>2, CoveredLess
  <1>9. /\ Programs(b, u)
        /\ b.deferred_rearm => u.deferred_needs_update
        /\ ~b.deferred_rearm => Covered(Known(c), u, u.expires_next, timer', c)
    <2>1. Known(c) \subseteq Timers /\ Whole(Known(c), T)
      BY KnownWhole
    <2>2. ~b.deferred_rearm => Covered(Known(c) \ {t}, b, b.expires_next, T, T[t].cpu)
      BY <1>3, <1>8
    <2>4. b.deferred_rearm \/ local \/ (t \in Soft /\ b.softirq_activated)
             \/ b.expires_next <= Mono(b, T, t)
      BY <1>5
    <2>5. T \in Queues /\ T[t].queued
      BY <1>3
    <2>3. LET p == Program(b, T, t, was_first, Leftmost(T, t, head), local, user)
          IN /\ Programs(b, p.base)
             /\ b.deferred_rearm => p.base.deferred_needs_update
             /\ ~b.deferred_rearm
                   => Covered(Known(c), p.base, p.base.expires_next, p.timer, T[t].cpu)
      BY <1>4, <2>1, <2>2, <2>4, <2>5, ProgramCovers
    <2> QED BY <1>1, <1>3, <2>3 DEF first
  <1>10. \A y \in Timers \ {t} : timer'[y] = timer[y]
    <2>1. (\A y \in Timers \ {t} : r.timer[y] = T[y]) /\ r.timer[t].cpu = T[t].cpu
      BY <1>3, ProgramOthers
    <2> QED BY <1>1, <1>3, <2>1
  <1> HIDE DEF u, r
  <1>11. cpu_base'[c] = u /\ \A d \in Cpus \ {c} : cpu_base'[d] = cpu_base[d]
    BY <1>1, <1>2 DEF IInv
  <1>12. CpuInv(c)'
    <2>1. /\ CpuInv(c) /\ UNCHANGED <<tk, setter>> /\ walk'[c] = walk[c] /\ Stay(c)
          /\ Programs(cpu_base[c], u)
      BY <1>1, <1>2, <1>7, <1>9 DEF b
    <2>2. u.deferred_rearm = b.deferred_rearm
      BY <1>9 DEF Programs
    <2>3. cpu_base'[c] = u /\ c \in Cpus
      BY <1>2, <1>11
    <2>4. ~u.deferred_rearm => Covered(Known(c), u, u.expires_next, timer', c)
      BY <1>9, <2>2
    <2>5. u.deferred_rearm => u.deferred_needs_update
      BY <1>9, <2>2
    <2> QED BY <2>1, <2>3, <2>4, <2>5, Programmed
  <1>13. ASSUME NEW d \in Cpus \ {c} PROVE CpuInv(d)'
    <2>1. Fewer(d)
      BY <1>6, <1>10 DEF Fewer
    <2>2. /\ d \in Cpus /\ CpuInv(d) /\ UNCHANGED <<tk, setter>> /\ walk'[d] = walk[d]
          /\ cpu_base'[d] = cpu_base[d] /\ Stay(d)
      BY <1>1, <1>2, <1>7, <1>11
    <2> QED BY <2>1, <2>2, Untouched
  <1>14. \A d \in Cpus : CpuInv(d)'
    BY <1>12, <1>13
  <1> QED BY <1>1, <1>14, AllCpus DEF XInv

\* __remove_hrtimer() of a timer of c
LEMMA RemoveFromCpu ==
    ASSUME TimersOK, NEW c \in Cpus, CpuInv(c), NEW t \in Timers, NEW l
    PROVE  LET u == Remove(cpu_base[c], timer, t, c, l)
           IN /\ Programs(cpu_base[c], u)
              /\ cpu_base[c].deferred_rearm
                    => u.softirq_expires_next = cpu_base[c].softirq_expires_next
              /\ ~cpu_base[c].deferred_rearm
                    => Covered(Known(c) \ {t}, u, u.expires_next, timer, c)
  <1> DEFINE b == cpu_base[c]
  <1>1. Typed(b) /\ timer \in Queues
    BY DEF CpuInv, TimersOK
  <1>2. ~b.deferred_rearm => Covered(Known(c), b, b.expires_next, timer, c)
    BY DEF CpuInv, CoverOK
  <1>3. Known(c) \subseteq Timers
    BY KnownWhole
  <1> HIDE DEF b
  <1>4. LET u == Remove(b, timer, t, c, l)
        IN /\ Programs(b, u)
           /\ b.deferred_rearm => u.softirq_expires_next = b.softirq_expires_next
           /\ ~b.deferred_rearm /\ Covered(Known(c), b, b.expires_next, timer, c)
                 => Covered(Known(c) \ {t}, u, u.expires_next, timer, c)
    BY <1>1, <1>3, RemoveCovers
  <1> QED BY <1>2, <1>4 DEF b

\* hrtimer_start_range_ns() that takes the timer to another CPU
LEMMA StartMoveCovers ==
    ASSUME XInv, NEW this \in Cpus, NEW t \in Timers, NEW x \in StartTimes,
           NEW user \in BOOLEAN, NEW dest \in Cpus, StartMove(this, t, x, user, dest),
           NEW c \in Cpus, timer[t].cpu = c
    PROVE  CoverageInv'
  <1> DEFINE was_first == cpu_base[c].next_timer = t
             l == c = this
             v == Remove(cpu_base[c], timer, t, c, l)
             B == [cpu_base EXCEPT ![c] = Remove(@, timer, t, c, c = this)]
             T == [timer EXCEPT ![t] = [cpu |-> dest, queued |-> TRUE,
                                        expires |-> x.e, softexpires |-> x.s]]
             local == dest = this
             first == Leftmost(T, t, FALSE)
             r == Program(B[dest], T, t, was_first, first, local, user)
             u == r.base
  <1>1. /\ UNCHANGED <<now, tk, walk, setter>> /\ ~Running(t)
        /\ Suitable(B[dest], x.e, t, local)
        /\ timer' = r.timer /\ cpu_base' = [B EXCEPT ![dest] = u]
    BY DEF StartMove, MayMove
  <1>2. TimersOK /\ IInv /\ \A d \in Cpus : CpuInv(d)
    BY DEF XInv, CoverageInv, TimersOK, Queues
  <1>3. /\ T \in Queues /\ T[t].cpu = dest /\ T[t].queued /\ T[t].expires = x.e
        /\ \A y \in Timers \ {t} : T[y] = timer[y]
    BY <1>2, Requeued
  <1>4. B = [d \in Cpus |-> IF d = c THEN v ELSE cpu_base[d]]
    BY <1>2 DEF IInv
  <1>5. B[c] = v /\ \A d \in Cpus \ {c} : B[d] = cpu_base[d]
    BY <1>2, <1>4
  <1> HIDE DEF T, B, local, was_first, l, first
  <1>6. \A d \in Cpus : Known(d) \subseteq Timers /\ Whole(Known(d), T)
    BY KnownWhole
  <1>7. /\ Programs(cpu_base[c], v)
        /\ cpu_base[c].deferred_rearm
              => v.softirq_expires_next = cpu_base[c].softirq_expires_next
        /\ ~cpu_base[c].deferred_rearm
              => Covered(Known(c) \ {t}, v, v.expires_next, timer, c)
    BY <1>2, RemoveFromCpu
  <1> HIDE DEF v
  <1>8. ASSUME NEW d \in Cpus
        PROVE  /\ Programs(cpu_base[d], B[d])
               /\ B[d].deferred_rearm = cpu_base[d].deferred_rearm
               /\ B[d].deferred_rearm
                     => B[d].softirq_expires_next = cpu_base[d].softirq_expires_next
               /\ ~B[d].deferred_rearm
                     => Covered(Known(d) \ {t}, B[d], B[d].expires_next, timer, d)
    <2>1. CASE d = c
      BY <1>5, <1>7, <2>1 DEF Programs
    <2>2. CASE d # c
      <3>1. Programs(cpu_base[d], cpu_base[d]) /\ B[d] = cpu_base[d]
        BY <1>2, <1>5, <2>2 DEF CpuInv, Programs
      <3>2. ~cpu_base[d].deferred_rearm
               => Covered(Known(d), cpu_base[d], cpu_base[d].expires_next, timer, d)
        BY <1>2 DEF CpuInv, CoverOK
      <3>3. ~cpu_base[d].deferred_rearm
               => Covered(Known(d) \ {t}, cpu_base[d], cpu_base[d].expires_next, timer, d)
        BY <3>2, CoveredLess
      <3> QED BY <3>1, <3>3
    <2> QED BY <2>1, <2>2
  <1>9. /\ Programs(B[dest], u)
        /\ B[dest].deferred_rearm => u.deferred_needs_update
        /\ ~B[dest].deferred_rearm => Covered(Known(dest), u, u.expires_next, timer', dest)
    <2>1. Typed(B[dest]) /\ local \in BOOLEAN
      BY <1>8 DEF Programs, local
    <2>2. local \/ B[dest].expires_next <= Mono(B[dest], T, t)
      <3>1. local \/ x.e - OffsetOf(B[dest], Clock(t)) >= B[dest].expires_next
        BY <1>1 DEF Suitable
      <3>2. Mono(B[dest], T, t) = x.e - OffsetOf(B[dest], Clock(t))
        BY <1>3 DEF Mono
      <3>3. Mono(B[dest], T, t) \in Int /\ B[dest].expires_next \in Int
        BY <1>3, <2>1, EventTime, ConstAssumption DEF Typed, Times
      <3> QED BY <3>1, <3>2, <3>3
    <2>3. ~B[dest].deferred_rearm
             => Covered(Known(dest) \ {t}, B[dest], B[dest].expires_next, T, dest)
      <3>1. \A y \in Known(dest) \ {t} : T[y] = timer[y]
        BY <1>3, <1>6
      <3>2. ~B[dest].deferred_rearm
               => Covered(Known(dest) \ {t}, B[dest], B[dest].expires_next, timer, dest)
        BY <1>8
      <3> QED BY <3>1, <3>2, CoveredLess
    <2> QED BY <1>1, <1>3, <1>6, <2>1, <2>2, <2>3, ProgramCovers DEF first
  <1>10. (\A y \in Timers \ {t} : timer'[y] = timer[y]) /\ timer'[t].cpu = dest
    <2>1. (\A y \in Timers \ {t} : r.timer[y] = T[y]) /\ r.timer[t].cpu = T[t].cpu
      BY <1>3, ProgramOthers
    <2> QED BY <1>1, <1>3, <2>1
  <1> HIDE DEF u, r
  <1>11. cpu_base'[dest] = u /\ \A d \in Cpus \ {dest} : cpu_base'[d] = B[d]
    BY <1>1, <1>4
  <1>12. \A d \in Cpus : Stay(d)
    BY <1>1, <1>2, <1>10, NotRunningStays
  <1>13. CpuInv(dest)'
    <2>1. Programs(cpu_base[dest], B[dest])
      BY <1>8
    <2>2. Programs(cpu_base[dest], u)
      BY <1>9, <2>1 DEF Programs
    <2>3. u.deferred_rearm = B[dest].deferred_rearm
      BY <1>9 DEF Programs
    <2> QED BY <1>1, <1>2, <1>9, <1>11, <1>12, <2>2, <2>3, Programmed
  <1>14. ASSUME NEW d \in Cpus \ {dest} PROVE CpuInv(d)'
    <2>1. Fewer(d)
      BY <1>10 DEF Fewer
    <2>2. ~B[d].deferred_rearm => Covered(Known(d), B[d], B[d].expires_next, timer', d)
      <3>1. \A y \in Known(d) : timer'[y].queued /\ timer'[y].cpu = d =>
               /\ y \in Known(d) \ {t} /\ timer[y].queued /\ timer[y].cpu = d
               /\ timer[y].expires = timer'[y].expires
        BY <1>6, <1>10
      <3>2. ~B[d].deferred_rearm => Covered(Known(d) \ {t}, B[d], B[d].expires_next, timer, d)
        BY <1>8
      <3> QED BY <3>1, <3>2, CoveredLess
    <2>3. Programs(cpu_base[d], B[d]) /\ cpu_base'[d] = B[d] /\ walk'[d] = walk[d]
      BY <1>1, <1>8, <1>11
    <2> QED BY <1>1, <1>2, <1>8, <1>12, <2>1, <2>2, <2>3, Programmed
  <1> QED BY <1>1, <1>13, <1>14, AllCpus DEF XInv

\* hrtimer_try_to_cancel()
LEMMA CancelCovers ==
    ASSUME XInv, NEW this \in Cpus, NEW t \in Timers, Cancel(this, t),
           NEW c \in Cpus, timer[t].cpu = c
    PROVE  CoverageInv'
  <1> DEFINE b == cpu_base[c]
             l == c = this
             u == Remove(b, timer, t, c, l)
  <1>1. /\ UNCHANGED <<now, tk, walk, setter>>
        /\ timer' = [timer EXCEPT ![t].queued = FALSE]
        /\ cpu_base' = [cpu_base EXCEPT ![c] = u]
    BY DEF Cancel
  <1>2. timer \in Queues /\ IInv /\ \A d \in Cpus : CpuInv(d)
    BY DEF XInv, CoverageInv, TimersOK, Queues
  <1>3. (\A y \in Timers \ {t} : timer'[y] = timer[y]) /\ timer'[t].cpu = timer[t].cpu
        /\ ~timer'[t].queued
    BY <1>1, <1>2 DEF Queues
  <1>4. /\ Programs(b, u)
        /\ b.deferred_rearm => u.softirq_expires_next = b.softirq_expires_next
        /\ ~b.deferred_rearm => Covered(Known(c) \ {t}, u, u.expires_next, timer, c)
    <2>1. TimersOK /\ CpuInv(c)
      BY <1>2 DEF TimersOK
    <2> QED BY <2>1, RemoveFromCpu
  <1> HIDE DEF u
  <1>5. cpu_base'[c] = u /\ \A d \in Cpus \ {c} : cpu_base'[d] = cpu_base[d]
    BY <1>1, <1>2 DEF IInv
  <1>6. \A d \in Cpus : Stay(d) /\ Fewer(d)
    BY <1>2, <1>3, NotRunningStays DEF Fewer
  <1>7. CpuInv(c)'
    <2>1. ~b.deferred_rearm => Covered(Known(c), u, u.expires_next, timer', c)
      <3>1. \A y \in Known(c) : timer'[y].queued /\ timer'[y].cpu = c =>
               /\ y \in Known(c) \ {t} /\ timer[y].queued /\ timer[y].cpu = c
               /\ timer[y].expires = timer'[y].expires
        BY <1>3, KnownWhole
      <3> HIDE DEF b
      <3> QED BY <1>4, <3>1, CoveredLess
    <2>2. u.deferred_rearm = b.deferred_rearm /\ walk'[c] = walk[c] /\ CpuInv(c)
      BY <1>1, <1>2, <1>4 DEF Programs
    <2>3. /\ cpu_base'[c] = u /\ c \in Cpus /\ UNCHANGED <<tk, setter>>
          /\ Programs(cpu_base[c], u) /\ Stay(c) /\ Fewer(c)
      BY <1>1, <1>2, <1>4, <1>5, <1>6
    <2>4. ~u.deferred_rearm => Covered(Known(c), u, u.expires_next, timer', c)
      BY <2>1, <2>2
    <2>5. u.deferred_rearm => u.softirq_expires_next = cpu_base[c].softirq_expires_next
      BY <1>4, <2>2
    <2> HIDE DEF b
    <2> QED BY <2>2, <2>3, <2>4, <2>5, Programmed
  <1>8. ASSUME NEW d \in Cpus \ {c} PROVE CpuInv(d)'
    BY <1>1, <1>2, <1>5, <1>6, Untouched
  <1> QED BY <1>1, <1>7, <1>8, AllCpus DEF XInv

-----------------------------------------------------------------------------
\* The handlers

\* A step that touches nothing but the cpu_base and one walk of a CPU
LEMMA HandlerStep ==
    ASSUME XInv, NEW c \in Cpus, NEW u, NEW m \in Modes, NEW v, NEW w,
           UNCHANGED <<now, tk, timer, setter>>,
           cpu_base' = [cpu_base EXCEPT ![c] = u], walk' = [walk EXCEPT ![c][m] = v],
           w = [walk[c] EXCEPT ![m] = v],
           Typed(u), SettingOK(u, c), CoverOK(u, w, c), WalkOK(u, w, c)
    PROVE  CoverageInv'
  <1>1. /\ cpu_base'[c] = u /\ walk'[c] = w
        /\ \A d \in Cpus \ {c} : cpu_base'[d] = cpu_base[d] /\ walk'[d] = walk[d]
    BY DEF XInv, IInv
  <1>2. CpuInv(c)'
    <2>1. SettingOK(u, c)' /\ CoverOK(u, w, c)' /\ WalkOK(u, w, c)'
      BY DEF SettingOK, CoverOK, WalkOK, Known
    <2> QED BY <1>1, <2>1 DEF CpuInv, Typed
  <1>3. ASSUME NEW d \in Cpus \ {c} PROVE CpuInv(d)'
    <2>1. CpuInv(d)
      BY DEF XInv, CoverageInv
    <2>2. Stay(d) /\ Fewer(d)
      BY <2>1 DEF Stay, Fewer, CpuInv, WalkOK
    <2> QED BY <1>1, <2>1, <2>2, Untouched
  <1>4. \A d \in Cpus : CpuInv(d)'
    BY <1>2, <1>3
  <1> QED BY <1>4, AllCpus DEF XInv

IsWalk(v) == v = [f \in WalkFields |-> v[f]]

\* A handler that is not at work
LEMMA OffIsWalk == IsWalk(Off) /\ Off.pc = "off" /\ Off.timer = None
  BY DEF IsWalk, Off, WalkFields

\* A step of a walk: a timer leaves the queues, or one of the walk's mode comes back to
\* them, which the softirq or the rearm will look after.
LEMMA WalkStep ==
    ASSUME XInv, NEW c \in Cpus, NEW m \in Modes, NEW v,
           UNCHANGED <<now, tk, cpu_base, setter>>, walk' = [walk EXCEPT ![c][m] = v],
           walk[c][m].pc # "off", IsWalk(v), v.pc \in {"walk", "callback"},
           m = "soft" /\ v.pc = "walk" => walk[c]["hard"].pc = "off",
           v.pc = "callback" => v.timer \in Timers /\ Mode(v.timer) = m /\ timer[v.timer].cpu = c,
           \A x \in Timers : timer'[x].cpu = timer[x].cpu,
           \A x \in Timers : timer'[x].queued =>
              \/ timer[x].queued /\ timer'[x].expires = timer[x].expires
              \/ timer[x].cpu = c /\ Mode(x) = m
    PROVE  CoverageInv'
  <1>a. PICK b : b = cpu_base[c]
    OBVIOUS
  <1>b. PICK w : w = [walk[c] EXCEPT ![m] = v]
    OBVIOUS
  <1>1. /\ cpu_base'[c] = b
        /\ walk'[c] = w /\ w[m] = v /\ \A n \in Modes \ {m} : w[n] = walk[c][n]
        /\ \A d \in Cpus \ {c} : walk'[d] = walk[d]
    BY <1>a, <1>b DEF XInv, IInv
  <1>2. \A d \in Cpus : CpuInv(d)
    BY DEF XInv, CoverageInv
  <1>3. \A d \in Cpus : Stay(d)
    <2>1. ASSUME NEW d \in Cpus, NEW n \in Modes, walk[d][n].pc = "callback"
          PROVE  timer'[walk[d][n].timer].cpu = d
      <3>1. WalkOK(cpu_base[d], walk[d], d)
        BY <1>2 DEF CpuInv
      <3>2. walk[d][n].timer \in Timers /\ timer[walk[d][n].timer].cpu = d
        BY <2>1, <3>1 DEF WalkOK
      <3> QED BY <3>2
    <2> QED BY <2>1 DEF Stay
  <1>4. WalkOK(b, w, c)'
    <2>1. WalkOK(b, walk[c], c)
      BY <1>a, <1>2 DEF CpuInv
    <2>2. CASE m = "soft"
      BY <1>1, <2>1, <2>2 DEF WalkOK, Modes, IsWalk
    <2>3. CASE m = "hard"
      BY <1>1, <2>1, <2>3 DEF WalkOK, Modes, IsWalk
    <2> QED BY <2>2, <2>3 DEF Modes
  <1>5. ASSUME NEW S, S \subseteq Timers, NEW next, Covered(S, b, next, timer, c), m = "soft"
        PROVE  Covered(S, b, next, timer', c)
    <2>1. b.softirq_activated
      BY <1>a, <1>2, <1>5 DEF CpuInv, WalkOK
    <2>2. ASSUME NEW x \in S \cap Of(timer', c, "hard") PROVE next <= Event(b, timer', x)
      <3>1. x \in S \cap Of(timer, c, "hard") /\ timer'[x].expires = timer[x].expires
        BY <1>5, <2>2 DEF Of
      <3>2. Event(b, timer', x) = Event(b, timer, x)
        BY <3>1 DEF Event, Mono
      <3> QED BY <1>5, <3>1, <3>2 DEF Covered
    <2> QED BY <2>1, <2>2 DEF Covered
  <1>6. CoverOK(b, w, c)'
    <2>1. CoverOK(b, walk[c], c) /\ WalkOK(b, walk[c], c)
      BY <1>a, <1>2 DEF CpuInv
    <2>2. CASE m = "hard"
      <3>1. b.deferred_rearm /\ w["hard"].pc # "rearm"
        BY <1>1, <2>1, <2>2 DEF WalkOK
      <3> QED BY <3>1 DEF CoverOK
    <2>3. CASE m = "soft"
      <3>1. w["hard"] = walk[c]["hard"]
        BY <1>1, <2>3 DEF Modes
      <3>2. Known(c) \subseteq Timers /\ Sure \subseteq Timers
        BY KnownWhole DEF Sure
      <3>3. ~b.deferred_rearm => Covered(Known(c), b, b.expires_next, timer', c)
        BY <1>5, <2>1, <2>3, <3>2 DEF CoverOK
      <3>4. w["hard"].pc = "rearm" =>
               b.deferred_needs_update \/ Covered(Sure, b, b.deferred_expires_next, timer', c)
        BY <1>5, <2>1, <2>3, <3>1, <3>2 DEF CoverOK
      <3> QED BY <3>3, <3>4 DEF CoverOK, Known
    <2> QED BY <2>2, <2>3 DEF Modes
  <1>7. CpuInv(c)'
    BY <1>a, <1>1, <1>2, <1>4, <1>6 DEF CpuInv, Typed, SettingOK
  <1>8. ASSUME NEW d \in Cpus \ {c} PROVE CpuInv(d)'
    <2>1. Fewer(d)
      BY DEF Fewer
    <2> QED BY <1>1, <1>2, <1>3, <2>1, Untouched
  <1>9. \A d \in Cpus : CpuInv(d)'
    BY <1>7, <1>8
  <1> QED BY <1>9, AllCpus DEF XInv

\* __hrtimer_run_queues(), one timer at a time
LEMMA WalkCovers ==
    ASSUME XInv, NEW c \in Cpus, NEW m \in Modes, Walk(c, m)
    PROVE  CoverageInv'
  <1> DEFINE w == walk[c][m]
  <1>1. IsWalk(w) /\ WalkOK(cpu_base[c], walk[c], c)
    BY DEF XInv, CoverageInv, CpuInv, WalkOK, IsWalk
  <1>2. m = "soft" /\ w.pc = "walk" => walk[c]["hard"].pc = "off"
    BY <1>1 DEF WalkOK
  <1>3. walk = [d \in Cpus |-> [n \in Modes |-> walk[d][n]]]
    BY DEF XInv, IInv
  <1>4. timer \in Queues
    BY DEF XInv, TimersOK
  <1>5. CASE NextBase(c, m)
    <2>1. PICK k, l, t : walk' = [walk EXCEPT ![c][m] =
                                     [w EXCEPT !.clock = k, !.left = l, !.basenow = t]]
      BY <1>5 DEF NextBase
    <2> DEFINE v == [w EXCEPT !.clock = k, !.left = l, !.basenow = t]
    <2>2. IsWalk(v) /\ v.pc = w.pc /\ w.pc = "walk"
      BY <1>1, <1>5 DEF IsWalk, WalkFields, NextBase
    <2>3. UNCHANGED <<now, tk, timer, cpu_base, setter>> /\ walk' = [walk EXCEPT ![c][m] = v]
      BY <1>5, <2>1 DEF NextBase
    <2> HIDE DEF v
    <2> QED BY <1>2, <2>2, <2>3, WalkStep
  <1>6. CASE RunTimer(c, m)
    <2>1. PICK t \in Due(c, m) :
             /\ timer' = [timer EXCEPT ![t].queued = FALSE]
             /\ walk' = [walk EXCEPT ![c][m].pc = "callback", ![c][m].timer = t]
      BY <1>6 DEF RunTimer
    <2> DEFINE v == [w EXCEPT !.pc = "callback", !.timer = t]
    <2>2. t \in Timers /\ timer[t].cpu = c /\ Mode(t) = m
      BY DEF Due, Earliest, Base
    <2>3. IsWalk(v) /\ v.pc = "callback" /\ v.timer = t
      BY <1>1 DEF IsWalk, WalkFields
    <2>4. walk' = [walk EXCEPT ![c][m] = v]
      BY <1>3, <2>1
    <2>5. UNCHANGED <<now, tk, cpu_base, setter>> /\ w.pc = "walk"
      BY <1>6 DEF RunTimer
    <2>6. \A x \in Timers : /\ timer'[x].cpu = timer[x].cpu
                            /\ timer'[x].queued => timer[x].queued
                            /\ timer'[x].expires = timer[x].expires
      BY <1>4, <2>1, <2>2 DEF Queues
    <2> HIDE DEF v
    <2> QED BY <2>2, <2>3, <2>4, <2>5, <2>6, WalkStep
  <1>7. CASE ReturnNoRestart(c, m) \/ ReturnRestart(c, m)
    <2> DEFINE v == [w EXCEPT !.pc = "walk", !.timer = None]
               t == w.timer
    <2>1. /\ w.pc = "callback" /\ (m = "soft" => walk[c]["hard"].pc = "off")
          /\ walk' = [walk EXCEPT ![c][m].pc = "walk", ![c][m].timer = None]
          /\ UNCHANGED <<now, tk, cpu_base, setter>>
      BY <1>7 DEF ReturnNoRestart, ReturnRestart, Resumes, Resume
    <2>2. IsWalk(v) /\ v.pc = "walk"
      BY <1>1 DEF IsWalk, WalkFields
    <2>3. walk' = [walk EXCEPT ![c][m] = v]
      BY <1>3, <2>1
    <2>4. t \in Timers /\ Mode(t) = m /\ timer[t].cpu = c
      BY <1>1, <2>1 DEF WalkOK
    <2>5. \A x \in Timers :
             /\ timer'[x].cpu = timer[x].cpu
             /\ timer'[x] = timer[x] \/ x = t
      <3>1. CASE ReturnNoRestart(c, m)
        BY <3>1 DEF ReturnNoRestart
      <3>2. CASE ReturnRestart(c, m)
        <4>1. PICK x : timer' = [timer EXCEPT ![t] = [cpu |-> c, queued |-> TRUE,
                                                      expires |-> x.e, softexpires |-> x.s]]
          BY <3>2 DEF ReturnRestart
        <4> HIDE DEF t
        <4> QED BY <1>4, <2>4, <4>1 DEF Queues
      <3> QED BY <1>7, <3>1, <3>2
    <2> HIDE DEF v, t, w
    <2>6. /\ \A x \in Timers : timer'[x].cpu = timer[x].cpu
          /\ \A x \in Timers : timer'[x].queued =>
                \/ timer[x].queued /\ timer'[x].expires = timer[x].expires
                \/ timer[x].cpu = c /\ Mode(x) = m
      BY <2>4, <2>5
    <2>7. m = "soft" /\ v.pc = "walk" => walk[c]["hard"].pc = "off"
      BY <2>1
    <2>8. walk[c][m].pc # "off" /\ v.pc \in {"walk", "callback"} /\ v.pc # "callback"
      BY <2>1, <2>2 DEF w
    <2> QED BY <2>1, <2>2, <2>3, <2>6, <2>7, <2>8, WalkStep
  <1> QED BY <1>5, <1>6, <1>7 DEF Walk

\* A new entry for the hard walk
LEMMA HardWalkOK ==
    ASSUME NEW c \in Cpus, NEW b, NEW o, WalkOK(b, o, c), o = [m \in Modes |-> o[m]],
           NEW u, NEW v, NEW w, w = [o EXCEPT !["hard"] = v],
           IsWalk(v), v.pc # "callback", b.softirq_activated => u.softirq_activated,
           u.deferred_rearm <=> v.pc # "off", v.pc # "off" => o["soft"].pc # "walk"
    PROVE  WalkOK(u, w, c)
  <1>1. w["hard"] = v /\ w["soft"] = o["soft"]
    BY DEF Modes
  <1> QED BY <1>1 DEF WalkOK, Modes, IsWalk

\* A new entry for the soft walk
LEMMA SoftWalkOK ==
    ASSUME NEW c \in Cpus, NEW b, NEW o, WalkOK(b, o, c), o = [m \in Modes |-> o[m]],
           NEW u, NEW v, NEW w, w = [o EXCEPT !["soft"] = v],
           IsWalk(v), v.pc # "callback", v.pc # "off" => u.softirq_activated,
           u.deferred_rearm = b.deferred_rearm, v.pc = "walk" => o["hard"].pc = "off"
    PROVE  WalkOK(u, w, c)
  <1>1. w["soft"] = v /\ w["hard"] = o["hard"]
    BY DEF Modes
  <1> QED BY <1>1 DEF WalkOK, Modes, IsWalk

\* What the steps of a handler know of their CPU
LEMMA CpuFacts ==
    ASSUME XInv, NEW c \in Cpus
    PROVE  /\ Typed(cpu_base[c]) /\ SettingOK(cpu_base[c], c)
           /\ CoverOK(cpu_base[c], walk[c], c) /\ WalkOK(cpu_base[c], walk[c], c)
           /\ walk[c] = [m \in Modes |-> walk[c][m]]
           /\ timer \in Queues /\ now \in Nat /\ now <= MaxTime
           /\ tk.offset \in Nat /\ tk.clock_was_set_seq \in Nat
  BY DEF XInv, CoverageInv, CpuInv, IInv, TimersOK

\* hrtimer_update_base() leaves a cpu_base that has seen the setting of the clock.
LEMMA UpdateBaseSets ==
    ASSUME NEW b, Typed(b), tk.offset \in Nat, tk.clock_was_set_seq \in Nat
    PROVE  LET u == UpdateBase(b)
           IN /\ Typed(u) /\ u.offset = tk.offset /\ u.clock_was_set_seq = tk.clock_was_set_seq
              /\ u.expires_next = b.expires_next
              /\ u.softirq_expires_next = b.softirq_expires_next
              /\ u.softirq_activated = b.softirq_activated
              /\ u.deferred_rearm = b.deferred_rearm
              /\ u.deferred_needs_update = b.deferred_needs_update
              /\ u.deferred_expires_next = b.deferred_expires_next
  BY DEF Typed, IsBase, UpdateBase, Fields

\* The start of a pass: the softirq is raised if one of its timers is due.
LEMMA BeginPassSets ==
    ASSUME NEW b, Typed(b), now \in Nat, now <= MaxTime
    PROVE  LET u == BeginPass(b)
           IN /\ Typed(u) /\ u.offset = b.offset /\ u.clock_was_set_seq = b.clock_was_set_seq
              /\ u.deferred_rearm
              /\ b.softirq_activated => u.softirq_activated
  <1> DEFINE due == now >= b.softirq_expires_next
             e == IF due THEN KTIME_MAX ELSE b.softirq_expires_next
             a == b.softirq_activated \/ due
             u == BeginPass(b)
  <1>1. u = [b EXCEPT !.deferred_rearm = TRUE, !.expires_next = KTIME_MAX,
                      !.softirq_expires_next = e, !.softirq_activated = a]
    BY DEF BeginPass
  <1>2. KTIME_MAX \in Times /\ e \in Times /\ a \in BOOLEAN
    BY ConstAssumption DEF Times, Typed
  <1>3. a => e = KTIME_MAX
    BY DEF Typed
  <1>4. Soft = {} => ~a /\ e = KTIME_MAX
    <2>1. KTIME_MAX \in Nat /\ MaxTime \in Nat /\ HangDelay \in Nat
          /\ KTIME_MAX > MaxTime + HangDelay
      BY ConstAssumption
    <2>2. KTIME_MAX > now
      BY <2>1
    <2> QED BY <2>1, <2>2 DEF Typed
  <1>5. b.softirq_activated => a
    OBVIOUS
  <1> HIDE DEF e, a, u
  <1>6. /\ IsBase(u) /\ u.softirq_expires_next = e /\ u.softirq_activated = a
        /\ u.expires_next = KTIME_MAX /\ u.deferred_rearm
        /\ u.offset = b.offset /\ u.clock_was_set_seq = b.clock_was_set_seq
        /\ u.deferred_expires_next = b.deferred_expires_next
        /\ u.deferred_needs_update = b.deferred_needs_update
    BY <1>1 DEF Typed, IsBase, Fields
  <1>7. Typed(u)
    BY <1>2, <1>3, <1>4, <1>6 DEF Typed
  <1> QED BY <1>5, <1>6, <1>7 DEF u

\* The next event of all queues depends on no more than this of a cpu_base.
LEMMA NextOfAllSame ==
    ASSUME NEW b, NEW d, b.offset = d.offset, b.softirq_activated = d.softirq_activated,
           NEW T, NEW c
    PROVE  NextOfAll(b, T, c) = NextOfAll(d, T, c)
  <1>1. \A t : Mono(b, T, t) = Mono(d, T, t)
    BY DEF Mono, OffsetOf
  <1>2. \A m : NextTimer(b, T, c, m) = NextTimer(d, T, c, m)
    <2> SUFFICES ASSUME NEW m PROVE NextTimer(b, T, c, m) = NextTimer(d, T, c, m)
      OBVIOUS
    <2> DEFINE firsts == {First(T, Base(T, c, m, k)) : k \in ActiveBases(T, c, m)}
               ahead == {t \in firsts : \A u \in firsts : Mono(b, T, t) <= Mono(b, T, u)}
               later == {t \in firsts : \A u \in firsts : Mono(d, T, t) <= Mono(d, T, u)}
               C(S) == CHOOSE t \in S : Clock(t) = "mono" \/ \A u \in S : Clock(u) = "real"
    <2>1. ahead = later
      <3> HIDE DEF firsts
      <3> QED BY <1>1
    <2>2. /\ NextTimer(b, T, c, m) = IF firsts = {} THEN None ELSE C(ahead)
          /\ NextTimer(d, T, c, m) = IF firsts = {} THEN None ELSE C(later)
      BY DEF NextTimer
    <2> HIDE DEF firsts, ahead, later, C
    <2> QED BY <2>1, <2>2
  <1>3. \A m : NextEvent(b, T, c, m) = NextEvent(d, T, c, m)
    BY <1>1, <1>2 DEF NextEvent
  <1> QED BY <1>3 DEF NextOfAll

\* The state after a pass: its next event covers all queues at the present offset.
LEMMA AfterPassCovers ==
    ASSUME XInv, NEW c \in Cpus, NEW S, S \subseteq Timers
    PROVE  LET u == AfterPass(c)
           IN /\ Typed(u) /\ u.offset = tk.offset /\ u.clock_was_set_seq = tk.clock_was_set_seq
              /\ u.softirq_activated = cpu_base[c].softirq_activated
              /\ u.deferred_rearm = cpu_base[c].deferred_rearm
              /\ Covered(S, u, AfterEvent(c), timer, c) /\ AfterEvent(c) \in Times
  <1> DEFINE b == cpu_base[c]
             h == [b EXCEPT !.hang_detected = FALSE]
             n == UpdateBase(h)
             u == AfterPass(c)
  <1>1. Typed(b) /\ timer \in Queues /\ tk.offset \in Nat /\ tk.clock_was_set_seq \in Nat
    BY CpuFacts
  <1>2. Typed(h) /\ h.softirq_activated = b.softirq_activated
        /\ h.deferred_rearm = b.deferred_rearm
    <2> HIDE DEF b
    <2> QED BY <1>1 DEF Typed, IsBase, Fields
  <1> HIDE DEF h
  <1>3. Typed(n) /\ n.offset = tk.offset /\ n.clock_was_set_seq = tk.clock_was_set_seq
        /\ n.softirq_activated = b.softirq_activated /\ n.deferred_rearm = b.deferred_rearm
    BY <1>1, <1>2, UpdateBaseSets
  <1>4. Typed(UpdateBase(b)) /\ UpdateBase(b).offset = tk.offset
        /\ UpdateBase(b).softirq_activated = b.softirq_activated
    BY <1>1, UpdateBaseSets
  <1> HIDE DEF n
  <1>5. AfterEvent(c) = NextOfAll(n, timer, c)
    BY <1>3, <1>4, NextOfAllSame DEF AfterEvent
  <1>6. u = UpdateNextEvent(n, timer, c)
    BY DEF AfterPass, n, h
  <1>7. Programs(n, u) /\ Covered(S, u, NextOfAll(n, timer, c), timer, c)
    BY <1>1, <1>3, <1>6, UpdateNextEventCovers
  <1>8. NextOfAll(n, timer, c) \in Times
    BY <1>1, <1>3, NextOfAllTime DEF Typed
  <1> HIDE DEF u
  <1> QED BY <1>3, <1>5, <1>7, <1>8 DEF Programs, u

\* hrtimer_interrupt() up to its first pass
LEMMA InterruptCovers == ASSUME XInv, NEW c \in Cpus, Interrupt(c) PROVE CoverageInv'
  <1> DEFINE b == cpu_base[c]
             f == [b EXCEPT !.dev = KTIME_MAX]
             u == BeginPass(UpdateBase(f))
             v == [Off EXCEPT !.pc = "walk", !.now = now, !.tries = 0,
                              !.left = ActiveBases(timer, c, "hard")]
             w == [walk[c] EXCEPT !["hard"] = v]
  <1>1. /\ UNCHANGED <<now, tk, timer, setter>> /\ IrqsOn(c)
        /\ cpu_base' = [cpu_base EXCEPT ![c] = u] /\ walk' = [walk EXCEPT ![c]["hard"] = v]
    BY DEF Interrupt, StartWalk
  <1>2. /\ Typed(b) /\ WalkOK(b, walk[c], c) /\ walk[c] = [m \in Modes |-> walk[c][m]]
        /\ now \in Nat /\ now <= MaxTime /\ tk.offset \in Nat /\ tk.clock_was_set_seq \in Nat
    BY CpuFacts
  <1>3. Typed(f) /\ f.softirq_activated = b.softirq_activated
    <2> HIDE DEF b
    <2> QED BY <1>2 DEF Typed, IsBase, Fields
  <1>4. /\ Typed(u) /\ u.offset = tk.offset /\ u.clock_was_set_seq = tk.clock_was_set_seq
        /\ u.deferred_rearm /\ (b.softirq_activated => u.softirq_activated)
    <2> HIDE DEF f
    <2> QED BY <1>2, <1>3, UpdateBaseSets, BeginPassSets
  <1>5. IsWalk(v) /\ v.pc = "walk"
    BY DEF IsWalk, Off, WalkFields
  <1> HIDE DEF u, v
  <1>6. WalkOK(u, w, c)
    <2>1. walk[c]["soft"].pc # "walk"
      BY <1>1 DEF IrqsOn
    <2> HIDE DEF b
    <2> QED BY <1>2, <1>4, <1>5, <2>1, HardWalkOK
  <1>7. CoverOK(u, w, c)
    <2>1. w["hard"] = v
      BY <1>2 DEF Modes
    <2> HIDE DEF w
    <2> QED BY <1>4, <1>5, <2>1 DEF CoverOK
  <1>8. SettingOK(u, c)
    BY <1>2, <1>4 DEF SettingOK
  <1>9. "hard" \in Modes
    BY DEF Modes
  <1> QED BY <1>1, <1>4, <1>6, <1>7, <1>8, <1>9, HandlerStep

\* hrtimer_interrupt(): one more pass
LEMMA RetryCovers == ASSUME XInv, NEW c \in Cpus, Retry(c) PROVE CoverageInv'
  <1> DEFINE b == cpu_base[c]
             u == BeginPass(AfterPass(c))
             v == [Off EXCEPT !.pc = "walk", !.now = now, !.tries = walk[c]["hard"].tries + 1,
                              !.left = ActiveBases(timer, c, "hard")]
             w == [walk[c] EXCEPT !["hard"] = v]
  <1>1. /\ UNCHANGED <<now, tk, timer, setter>> /\ walk[c]["hard"].pc = "walk"
        /\ cpu_base' = [cpu_base EXCEPT ![c] = u] /\ walk' = [walk EXCEPT ![c]["hard"] = v]
    BY DEF Retry, PassDone, StartWalk
  <1>2. /\ Typed(b) /\ WalkOK(b, walk[c], c) /\ walk[c] = [m \in Modes |-> walk[c][m]]
        /\ now \in Nat /\ now <= MaxTime /\ tk.offset \in Nat /\ tk.clock_was_set_seq \in Nat
    BY CpuFacts
  <1>3. /\ Typed(AfterPass(c)) /\ AfterPass(c).offset = tk.offset
        /\ AfterPass(c).clock_was_set_seq = tk.clock_was_set_seq
        /\ AfterPass(c).softirq_activated = b.softirq_activated
    BY AfterPassCovers
  <1>4. /\ Typed(u) /\ u.offset = tk.offset /\ u.clock_was_set_seq = tk.clock_was_set_seq
        /\ u.deferred_rearm /\ (b.softirq_activated => u.softirq_activated)
    BY <1>2, <1>3, BeginPassSets
  <1>5. IsWalk(v) /\ v.pc = "walk"
    BY DEF IsWalk, Off, WalkFields
  <1> HIDE DEF u, v
  <1>6. WalkOK(u, w, c)
    <2>1. walk[c]["soft"].pc # "walk"
      BY <1>1, <1>2 DEF WalkOK
    <2> HIDE DEF b
    <2> QED BY <1>2, <1>4, <1>5, <2>1, HardWalkOK
  <1>7. CoverOK(u, w, c)
    <2>1. w["hard"] = v
      BY <1>2 DEF Modes
    <2> HIDE DEF w
    <2> QED BY <1>4, <1>5, <2>1 DEF CoverOK
  <1>8. SettingOK(u, c)
    BY <1>2, <1>4 DEF SettingOK
  <1>9. "hard" \in Modes
    BY DEF Modes
  <1> QED BY <1>1, <1>4, <1>6, <1>7, <1>8, <1>9, HandlerStep

\* hrtimer_rearm() sets the event and ends the rearm.
LEMMA RearmSets ==
    ASSUME NEW b, Typed(b), NEW e \in Times
    PROVE  LET u == Rearm(b, e)
           IN /\ Typed(u) /\ u.expires_next = e /\ ~u.deferred_rearm
              /\ u.offset = b.offset /\ u.clock_was_set_seq = b.clock_was_set_seq
              /\ u.softirq_activated = b.softirq_activated
              /\ u.softirq_expires_next = b.softirq_expires_next
  <1> DEFINE late == IF now + HangDelay > MaxTime THEN MaxTime ELSE now + HangDelay
             d == IF b.hang_detected THEN late ELSE e
             u == Rearm(b, e)
  <1>1. u = [b EXCEPT !.expires_next = e, !.deferred_rearm = FALSE, !.dev = d]
    BY DEF Rearm
  <1> HIDE DEF u, d
  <1>2. /\ IsBase(u) /\ u.expires_next = e /\ ~u.deferred_rearm
        /\ u.offset = b.offset /\ u.clock_was_set_seq = b.clock_was_set_seq
        /\ u.softirq_activated = b.softirq_activated
        /\ u.softirq_expires_next = b.softirq_expires_next
        /\ u.deferred_expires_next = b.deferred_expires_next
        /\ u.deferred_needs_update = b.deferred_needs_update
    BY <1>1 DEF Typed, IsBase, Fields
  <1>3. Typed(u)
    BY <1>2 DEF Typed
  <1> QED BY <1>2, <1>3 DEF u

\* A rearm to an event that covers the queues
LEMMA RearmCovers ==
    ASSUME NEW c \in Cpus, NEW b, Typed(b), NEW e \in Times, Covered(Sure, b, e, timer, c)
    PROVE  LET u == Rearm(b, e)
           IN ~u.deferred_rearm /\ Covered(Known(c), u, u.expires_next, timer, c)
  <1> DEFINE u == Rearm(b, e)
  <1>1. /\ u.expires_next = e /\ ~u.deferred_rearm /\ u.offset = b.offset
        /\ u.softirq_activated = b.softirq_activated
        /\ u.softirq_expires_next = b.softirq_expires_next
    BY RearmSets
  <1> HIDE DEF u
  <1>2. Covered(Sure, u, e, timer, c)
    BY <1>1, CoveredLess
  <1>3. Covered(Known(c), u, e, timer, c)
    BY <1>2, KnownLess
  <1> QED BY <1>1, <1>3 DEF u

\* hrtimer_interrupt() from its last pass to the rearm
LEMMA InterruptDoneCovers == ASSUME XInv, NEW c \in Cpus, InterruptDone(c) PROVE CoverageInv'
  <1> DEFINE o == cpu_base[c]
             a == AfterPass(c)
             e == AfterEvent(c)
             hang == e < now
             b == [a EXCEPT !.hang_detected = hang]
             d == [b EXCEPT !.deferred_needs_update = FALSE, !.deferred_expires_next = e]
             u == IF Deferred THEN d ELSE Rearm(b, e)
             r == [Off EXCEPT !.pc = "rearm"]
             v == IF Deferred THEN r ELSE Off
             w == [walk[c] EXCEPT !["hard"] = v]
  <1>1. /\ UNCHANGED <<now, tk, timer, setter>> /\ walk[c]["hard"].pc = "walk"
        /\ cpu_base' = [cpu_base EXCEPT ![c] = u] /\ walk' = [walk EXCEPT ![c]["hard"] = v]
    BY DEF InterruptDone, PassDone
  <1>2. /\ Typed(o) /\ WalkOK(o, walk[c], c) /\ walk[c] = [m \in Modes |-> walk[c][m]]
        /\ tk.offset \in Nat /\ tk.clock_was_set_seq \in Nat
    BY CpuFacts
  <1>3. /\ Typed(a) /\ a.offset = tk.offset /\ a.clock_was_set_seq = tk.clock_was_set_seq
        /\ a.softirq_activated = o.softirq_activated /\ a.deferred_rearm = o.deferred_rearm
        /\ Covered(Sure, a, e, timer, c) /\ e \in Times
    BY AfterPassCovers DEF Sure
  <1>4. o.deferred_rearm /\ walk[c]["soft"].pc # "walk"
    BY <1>1, <1>2 DEF WalkOK
  <1>5. hang \in BOOLEAN
    OBVIOUS
  <1> HIDE DEF a, e, hang, o
  <1>6. /\ Typed(b) /\ b.offset = a.offset /\ b.clock_was_set_seq = a.clock_was_set_seq
        /\ b.softirq_activated = a.softirq_activated
        /\ b.softirq_expires_next = a.softirq_expires_next
        /\ b.deferred_rearm = a.deferred_rearm
    BY <1>3, <1>5 DEF Typed, IsBase, Fields
  <1> HIDE DEF b
  <1>7. Covered(Sure, b, e, timer, c)
    BY <1>3, <1>6, CoveredLess
  <1>8. IsWalk(r) /\ r.pc = "rearm" /\ IsWalk(Off) /\ Off.pc = "off"
    BY DEF IsWalk, Off, WalkFields
  <1>9. w["hard"] = v /\ "hard" \in Modes
    BY <1>2 DEF Modes
  <1>10. CASE Deferred
    <2>1. /\ Typed(d) /\ d.offset = b.offset /\ d.clock_was_set_seq = b.clock_was_set_seq
          /\ d.softirq_activated = b.softirq_activated
          /\ d.softirq_expires_next = b.softirq_expires_next
          /\ d.deferred_rearm = b.deferred_rearm /\ d.deferred_expires_next = e
      BY <1>3, <1>6 DEF Typed, IsBase, Fields
    <2>2. u = d /\ v = r
      BY <1>10
    <2> HIDE DEF d, u, v, r
    <2>3. Covered(Sure, u, u.deferred_expires_next, timer, c)
      BY <1>7, <2>1, <2>2, CoveredLess
    <2>4. Typed(u) /\ u.deferred_rearm /\ (o.softirq_activated => u.softirq_activated)
      BY <1>3, <1>4, <1>6, <2>1, <2>2
    <2>5. WalkOK(u, w, c)
      BY <1>2, <1>4, <1>8, <2>2, <2>4, HardWalkOK
    <2>6. CoverOK(u, w, c)
      BY <2>3, <2>4 DEF CoverOK
    <2>7. SettingOK(u, c)
      BY <1>2, <1>3, <1>6, <2>1, <2>2 DEF SettingOK
    <2> QED BY <1>1, <1>9, <2>4, <2>5, <2>6, <2>7, HandlerStep
  <1>11. CASE ~Deferred
    <2>2. u = Rearm(b, e) /\ v = Off
      BY <1>11
    <2> HIDE DEF d, u, v, r
    <2>3. /\ Typed(u) /\ ~u.deferred_rearm /\ u.offset = b.offset
          /\ u.clock_was_set_seq = b.clock_was_set_seq
          /\ u.softirq_activated = b.softirq_activated
      BY <1>3, <1>6, <2>2, RearmSets
    <2>4. Covered(Known(c), u, u.expires_next, timer, c)
      BY <1>3, <1>6, <1>7, <2>2, RearmCovers
    <2>5. o.softirq_activated => u.softirq_activated
      BY <1>3, <1>6, <2>3
    <2>6. WalkOK(u, w, c)
      BY <1>2, <1>8, <2>2, <2>3, <2>5, HardWalkOK
    <2>7. CoverOK(u, w, c)
      BY <1>8, <1>9, <2>2, <2>4 DEF CoverOK
    <2>8. SettingOK(u, c)
      BY <1>2, <1>3, <1>6, <2>3 DEF SettingOK
    <2> QED BY <1>1, <1>9, <2>3, <2>6, <2>7, <2>8, HandlerStep
  <1> QED BY <1>10, <1>11

\* hrtimer_rearm_deferred(): the queues changed since the interrupt, or they did not
LEMMA RearmDeferredCovers == ASSUME XInv, NEW c \in Cpus, RearmDeferred(c) PROVE CoverageInv'
  <1> DEFINE b == cpu_base[c]
             n == UpdateBase(b)
             a == UpdateNextEvent(n, timer, c)
             e == NextOfAll(n, timer, c)
             u == IF b.deferred_needs_update THEN Rearm(a, e)
                                             ELSE Rearm(b, b.deferred_expires_next)
             w == [walk[c] EXCEPT !["hard"] = Off]
  <1>1. /\ UNCHANGED <<now, tk, timer, setter>> /\ walk[c]["hard"].pc = "rearm"
        /\ cpu_base' = [cpu_base EXCEPT ![c] = u] /\ walk' = [walk EXCEPT ![c]["hard"] = Off]
    BY DEF RearmDeferred
  <1>2. /\ Typed(b) /\ WalkOK(b, walk[c], c) /\ walk[c] = [m \in Modes |-> walk[c][m]]
        /\ CoverOK(b, walk[c], c) /\ SettingOK(b, c) /\ timer \in Queues
        /\ tk.offset \in Nat /\ tk.clock_was_set_seq \in Nat
    BY CpuFacts
  <1>3. /\ Typed(n) /\ n.offset = tk.offset /\ n.clock_was_set_seq = tk.clock_was_set_seq
        /\ n.softirq_activated = b.softirq_activated
    BY <1>2, UpdateBaseSets
  <1>4. Programs(n, a) /\ Covered(Sure, a, e, timer, c) /\ e \in Times
    <2>1. Sure \subseteq Timers /\ n.offset \in Nat
      BY <1>2, <1>3 DEF Sure
    <2> HIDE DEF n
    <2> QED BY <1>2, <1>3, <2>1, UpdateNextEventCovers, NextOfAllTime
  <1> HIDE DEF n, a, e
  <1>5. /\ Typed(u) /\ ~u.deferred_rearm /\ SettingOK(u, c)
        /\ u.softirq_activated = b.softirq_activated
        /\ Covered(Known(c), u, u.expires_next, timer, c)
    <2>1. CASE b.deferred_needs_update
      <3>1. u = Rearm(a, e) /\ Typed(a)
        BY <1>4, <2>1 DEF Programs
      <3> HIDE DEF u, b
      <3>2. /\ Typed(u) /\ ~u.deferred_rearm /\ u.offset = a.offset
            /\ u.clock_was_set_seq = a.clock_was_set_seq
            /\ u.softirq_activated = a.softirq_activated
        BY <1>4, <3>1, RearmSets
      <3>3. Covered(Known(c), u, u.expires_next, timer, c)
        BY <1>4, <3>1, RearmCovers
      <3>4. u.offset = tk.offset /\ u.clock_was_set_seq = tk.clock_was_set_seq
            /\ u.softirq_activated = b.softirq_activated
        BY <1>3, <1>4, <3>2 DEF Programs
      <3> QED BY <1>2, <3>2, <3>3, <3>4 DEF SettingOK
    <2>2. CASE ~b.deferred_needs_update
      <3>1. u = Rearm(b, b.deferred_expires_next) /\ b.deferred_expires_next \in Times
        BY <1>2, <2>2 DEF Typed
      <3>2. Covered(Sure, b, b.deferred_expires_next, timer, c)
        BY <1>1, <1>2, <2>2 DEF CoverOK
      <3> HIDE DEF u, b
      <3>3. /\ Typed(u) /\ ~u.deferred_rearm /\ u.offset = b.offset
            /\ u.clock_was_set_seq = b.clock_was_set_seq
            /\ u.softirq_activated = b.softirq_activated
        BY <1>2, <3>1, RearmSets
      <3>4. Covered(Known(c), u, u.expires_next, timer, c)
        BY <1>2, <3>1, <3>2, RearmCovers
      <3> QED BY <1>2, <3>3, <3>4 DEF SettingOK
    <2> QED BY <2>1, <2>2
  <1> HIDE DEF u
  <1>6. WalkOK(u, w, c)
    <2> HIDE DEF b
    <2> QED BY <1>2, <1>5, OffIsWalk, HardWalkOK
  <1>7. CoverOK(u, w, c)
    <2>1. w["hard"] = Off /\ Off.pc = "off"
      BY <1>2, OffIsWalk DEF Modes
    <2> HIDE DEF w
    <2> QED BY <1>5, <2>1 DEF CoverOK
  <1>8. "hard" \in Modes
    BY DEF Modes
  <1> QED BY <1>1, <1>5, <1>6, <1>7, <1>8, HandlerStep

\* hrtimer_run_softirq() up to its pass
LEMMA SoftirqCovers == ASSUME XInv, NEW c \in Cpus, Softirq(c) PROVE CoverageInv'
  <1> DEFINE b == cpu_base[c]
             u == UpdateBase(b)
             v == [Off EXCEPT !.pc = "walk", !.now = now, !.tries = 0,
                              !.left = ActiveBases(timer, c, "soft")]
             w == [walk[c] EXCEPT !["soft"] = v]
  <1>1. /\ UNCHANGED <<now, tk, timer, setter>> /\ b.softirq_activated
        /\ walk[c]["hard"].pc = "off"
        /\ cpu_base' = [cpu_base EXCEPT ![c] = u] /\ walk' = [walk EXCEPT ![c]["soft"] = v]
    BY DEF Softirq, StartWalk
  <1>2. /\ Typed(b) /\ WalkOK(b, walk[c], c) /\ walk[c] = [m \in Modes |-> walk[c][m]]
        /\ CoverOK(b, walk[c], c) /\ tk.offset \in Nat /\ tk.clock_was_set_seq \in Nat
    BY CpuFacts
  <1>3. /\ Typed(u) /\ u.offset = tk.offset /\ u.clock_was_set_seq = tk.clock_was_set_seq
        /\ u.softirq_activated = b.softirq_activated /\ u.deferred_rearm = b.deferred_rearm
        /\ u.expires_next = b.expires_next
    BY <1>2, UpdateBaseSets
  <1>4. IsWalk(v) /\ v.pc = "walk"
    BY DEF IsWalk, Off, WalkFields
  <1> HIDE DEF u, v, b
  <1>5. WalkOK(u, w, c)
    BY <1>1, <1>2, <1>3, <1>4, SoftWalkOK
  <1>6. Covered(Known(c), u, u.expires_next, timer, c)
    <2>1. ~b.deferred_rearm
      BY <1>1, <1>2 DEF WalkOK
    <2>2. Covered(Known(c), b, b.expires_next, timer, c)
      BY <1>2, <2>1 DEF CoverOK
    <2>3. Soft # {}
      BY <1>1, <1>2 DEF Typed
    <2>4. ASSUME NEW t \in Known(c) \cap Of(timer, c, "hard")
          PROVE  Event(u, timer, t) = Event(b, timer, t)
      <3>1. t \notin Real
        BY <2>3 DEF Known, Sure, Of, Mode
      <3> QED BY <3>1 DEF Event, Mono, OffsetOf, Clock
    <2> QED BY <1>1, <1>3, <2>2, <2>4 DEF Covered
  <1>7. CoverOK(u, w, c)
    <2>1. w["hard"] = walk[c]["hard"]
      BY <1>2 DEF Modes
    <2> HIDE DEF w
    <2> QED BY <1>1, <1>6, <2>1 DEF CoverOK
  <1>8. SettingOK(u, c)
    BY <1>2, <1>3 DEF SettingOK
  <1>9. "soft" \in Modes
    BY DEF Modes
  <1> QED BY <1>1, <1>3, <1>5, <1>7, <1>8, <1>9, HandlerStep

\* hrtimer_update_softirq_timer() at the end of the softirq
LEMMA SoftirqDoneCovers == ASSUME XInv, NEW c \in Cpus, SoftirqDone(c) PROVE CoverageInv'
  <1> DEFINE b == cpu_base[c]
             u == SoftBase(b, c)
             w == [walk[c] EXCEPT !["soft"] = Off]
  <1>1. /\ UNCHANGED <<now, tk, timer, setter>> /\ walk[c]["soft"].pc = "walk"
        /\ cpu_base' = [cpu_base EXCEPT ![c] = u] /\ walk' = [walk EXCEPT ![c]["soft"] = Off]
    BY DEF SoftirqDone, PassDone
  <1>2. /\ Typed(b) /\ WalkOK(b, walk[c], c) /\ walk[c] = [m \in Modes |-> walk[c][m]]
        /\ CoverOK(b, walk[c], c) /\ SettingOK(b, c)
    BY CpuFacts
  <1>3. b.softirq_activated /\ walk[c]["hard"].pc = "off" /\ ~b.deferred_rearm
    BY <1>1, <1>2 DEF WalkOK
  <1>4. /\ Typed(u) /\ ~u.softirq_activated
        /\ u.offset = b.offset /\ u.clock_was_set_seq = b.clock_was_set_seq
        /\ u.deferred_rearm = b.deferred_rearm
        /\ Covered(Known(c), u, u.expires_next, timer, c)
    <2>1. Covered(Known(c), b, b.expires_next, timer, c) /\ Known(c) \subseteq Timers
      BY <1>2, <1>3, KnownWhole DEF CoverOK
    <2> HIDE DEF b
    <2> QED BY <1>2, <1>3, <2>1, SoftBaseCovers DEF XInv
  <1> HIDE DEF u, b
  <1>5. WalkOK(u, w, c)
    BY <1>2, <1>4, OffIsWalk, SoftWalkOK
  <1>6. CoverOK(u, w, c)
    <2>1. w["hard"] = walk[c]["hard"]
      BY <1>2 DEF Modes
    <2> HIDE DEF w
    <2> QED BY <1>3, <1>4, <2>1 DEF CoverOK
  <1>7. SettingOK(u, c)
    BY <1>2, <1>4 DEF SettingOK
  <1>8. "soft" \in Modes
    BY DEF Modes
  <1> QED BY <1>1, <1>4, <1>5, <1>6, <1>7, <1>8, HandlerStep

-----------------------------------------------------------------------------
\* The setting of the clock

\* A CPU that the setter leaves alone
LEMMA SetterUntouched ==
    ASSUME NEW d \in Cpus, CpuInv(d), UNCHANGED <<tk, timer, walk>>,
           cpu_base'[d] = cpu_base[d], d \in setter'.mask <=> d \in setter.mask,
           SettingOK(cpu_base[d], d)'
    PROVE  CpuInv(d)'
  BY DEF CpuInv, Typed, CoverOK, WalkOK, Known

\* A CPU whose cpu_base the setter updates
LEMMA SetterTouched ==
    ASSUME NEW c \in Cpus, CpuInv(c), UNCHANGED <<tk, timer, walk>>,
           NEW u, cpu_base'[c] = u, Typed(u),
           u.softirq_activated = cpu_base[c].softirq_activated,
           u.deferred_rearm = cpu_base[c].deferred_rearm, SettingOK(u, c)', CoverOK(u, walk[c], c)'
    PROVE  CpuInv(c)'
  BY DEF CpuInv, Typed, WalkOK

\* update_needs_ipi() found no reason for an IPI: the queues are covered at the new
\* offset as they were at the old one.
LEMMA NoneMovesAhead ==
    ASSUME NEW c \in Cpus, NEW b, Typed(b), timer \in Queues, NEW S, S \subseteq Timers,
           Covered(S, b, b.expires_next, timer, c),
           NEW u, u.offset \in Nat, u.expires_next = b.expires_next,
           u.softirq_expires_next = b.softirq_expires_next,
           u.softirq_activated = b.softirq_activated, ~FirstMovesAhead(u, c)
    PROVE  Covered(S, u, u.expires_next, timer, c)
  <1>1. ASSUME NEW m \in Modes, NEW t \in S \cap Of(timer, c, m), t \in Real
        PROVE  /\ b.expires_next <= Event(u, timer, t)
               /\ m = "soft" => b.softirq_activated
                                \/ b.softirq_expires_next <= Event(u, timer, t)
    <2> DEFINE B == Base(timer, c, m, "real")
               f == First(timer, B)
    <2>1. t \in B /\ B \subseteq Timers
      BY <1>1 DEF Base, Of, Clock
    <2>2. f \in B /\ timer[f].expires <= timer[t].expires
      BY <2>1, FirstIsLeast
    <2>3. "real" \in ActiveBases(timer, c, m)
      BY <2>1 DEF ActiveBases, Clocks
    <2>4. /\ ~(Mono(u, timer, f) < u.expires_next)
          /\ ~(m = "soft" /\ ~u.softirq_activated /\ Mono(u, timer, f) < u.softirq_expires_next)
      BY <2>3 DEF FirstMovesAhead
    <2> HIDE DEF f
    <2>5. Clock(f) = Clock(t) /\ f \in Timers /\ t \in Timers
      BY <1>1, <2>1, <2>2 DEF Base, Clock
    <2> HIDE DEF B
    <2>6. timer[f].expires \in Int /\ timer[t].expires \in Int /\ OffsetOf(u, Clock(t)) \in Int
      BY <2>5, ConstAssumption DEF Queues, Times, OffsetOf
    <2>7. Mono(u, timer, f) <= Mono(u, timer, t)
      BY <2>2, <2>5, <2>6 DEF Mono
    <2>8. /\ Mono(u, timer, f) \in Int /\ Mono(u, timer, t) \in Int
          /\ Mono(u, timer, t) <= Event(u, timer, t) /\ Event(u, timer, t) \in Times
      BY <2>5, EventTime
    <2>9. /\ Event(u, timer, t) \in Int /\ b.expires_next \in Int
          /\ b.softirq_expires_next \in Int
      BY <2>8, ConstAssumption DEF Typed, Times
    <2> QED BY <2>4, <2>7, <2>8, <2>9
  <1>2. ASSUME NEW t \in S, t \notin Real PROVE Event(u, timer, t) = Event(b, timer, t)
    BY <1>2 DEF Event, Mono, OffsetOf, Clock
  <1>3. \A t \in S \cap Of(timer, c, "hard") : u.expires_next <= Event(u, timer, t)
    BY <1>1, <1>2 DEF Covered, Modes
  <1>4. \A t \in S \cap Of(timer, c, "soft") :
           u.softirq_activated \/ u.softirq_expires_next <= Event(u, timer, t)
    BY <1>1, <1>2 DEF Covered, Modes
  <1> QED BY <1>3, <1>4 DEF Covered

\* clock_was_set() looks at a CPU.
LEMMA LookCovers == ASSUME XInv, NEW c \in Cpus, Look(c) PROVE CoverageInv'
  <1>a. PICK b : b = cpu_base[c]
    OBVIOUS
  <1> DEFINE n == UpdateBase(b)
             changed == b.clock_was_set_seq # tk.clock_was_set_seq
             needs == n.deferred_needs_update \/ (changed /\ b.deferred_rearm)
             ipi == changed /\ ~b.deferred_rearm /\ FirstMovesAhead(n, c)
  <1>b. PICK u : u = [n EXCEPT !.deferred_needs_update = needs]
    OBVIOUS
  <1>1. /\ UNCHANGED <<now, tk, timer, walk>> /\ setter.pc = "look" /\ c \in setter.left
        /\ cpu_base' = [cpu_base EXCEPT ![c] = u]
        /\ setter' = [pc |-> IF setter.left = {c} THEN "ipi" ELSE "look",
                      left |-> setter.left \ {c},
                      mask |-> IF ipi THEN setter.mask \cup {c} ELSE setter.mask]
    BY <1>a, <1>b DEF Look
  <1>2. /\ Typed(b) /\ WalkOK(b, walk[c], c) /\ CoverOK(b, walk[c], c) /\ SettingOK(b, c)
        /\ timer \in Queues /\ tk.offset \in Nat /\ tk.clock_was_set_seq \in Nat
    BY <1>a, CpuFacts
  <1>3. /\ Typed(n) /\ n.offset = tk.offset /\ n.clock_was_set_seq = tk.clock_was_set_seq
        /\ n.expires_next = b.expires_next
        /\ n.softirq_expires_next = b.softirq_expires_next
        /\ n.softirq_activated = b.softirq_activated /\ n.deferred_rearm = b.deferred_rearm
        /\ n.deferred_needs_update = b.deferred_needs_update
        /\ n.deferred_expires_next = b.deferred_expires_next
    BY <1>2, UpdateBaseSets
  <1>4. changed \in BOOLEAN /\ needs \in BOOLEAN /\ ipi \in BOOLEAN
    OBVIOUS
  <1>5. /\ needs <=> (b.deferred_needs_update \/ (changed /\ b.deferred_rearm))
        /\ ~changed => n.offset = b.offset
        /\ ipi => changed /\ ~b.deferred_rearm
        /\ changed /\ ~b.deferred_rearm /\ ~ipi => ~FirstMovesAhead(n, c)
    BY <1>2, <1>3 DEF SettingOK
  <1> HIDE DEF n, changed, needs, ipi
  <1>6. /\ Typed(u) /\ u.offset = tk.offset /\ u.clock_was_set_seq = tk.clock_was_set_seq
        /\ u.expires_next = b.expires_next
        /\ u.softirq_expires_next = b.softirq_expires_next
        /\ u.softirq_activated = b.softirq_activated /\ u.deferred_rearm = b.deferred_rearm
        /\ u.deferred_needs_update = needs
        /\ u.deferred_expires_next = b.deferred_expires_next
    BY <1>b, <1>3, <1>4 DEF Typed, IsBase, Fields
  <1>7. /\ cpu_base'[c] = u /\ \A d \in Cpus \ {c} : cpu_base'[d] = cpu_base[d]
        /\ \A d \in Cpus : CpuInv(d)
    BY <1>1 DEF XInv, IInv, CoverageInv
  <1>8. ~u.deferred_rearm => Covered(Known(c)', u, u.expires_next, timer, c)
    <2> SUFFICES ASSUME ~u.deferred_rearm
                 PROVE  Covered(Known(c)', u, u.expires_next, timer, c)
      OBVIOUS
    <2>1. Covered(Known(c), b, b.expires_next, timer, c) /\ ~b.deferred_rearm
      BY <1>2, <1>6 DEF CoverOK
    <2>2. CASE ~changed
      <3>1. Known(c)' = Known(c)
        BY <1>1, <1>5, <2>2 DEF Known
      <3>2. u.offset = b.offset
        BY <1>3, <1>5, <1>6, <2>2
      <3>3. Covered(Known(c), u, b.expires_next, timer, c)
        BY <1>6, <2>1, <3>2, CoveredLess
      <3> QED BY <1>6, <3>1, <3>3
    <2>3. CASE changed /\ ipi
      <3>1. Known(c)' = {}
        BY <1>1, <2>3 DEF Known
      <3>2. u.softirq_activated \/ u.expires_next <= u.softirq_expires_next
        BY <1>6, <2>1 DEF Covered
      <3> QED BY <3>1, <3>2 DEF Covered
    <2>4. CASE changed /\ ~ipi
      <3>1. Known(c)' = Known(c)
        BY <1>1, <2>4 DEF Known
      <3>2. ~FirstMovesAhead(n, c)
        BY <1>5, <2>1, <2>4
      <3>3. Known(c) \subseteq Timers
        BY KnownWhole
      <3>4. Covered(Known(c), n, n.expires_next, timer, c)
        BY <1>2, <1>3, <2>1, <3>2, <3>3, NoneMovesAhead
      <3>5. Covered(Known(c), u, n.expires_next, timer, c)
        BY <1>3, <1>6, <3>4, CoveredLess
      <3> QED BY <1>3, <1>6, <3>1, <3>5
    <2> QED BY <2>2, <2>3, <2>4
  <1>9. walk[c]["hard"].pc = "rearm" =>
           u.deferred_needs_update \/ Covered(Sure, u, u.deferred_expires_next, timer, c)
    <2> SUFFICES ASSUME walk[c]["hard"].pc = "rearm", ~u.deferred_needs_update
                 PROVE  Covered(Sure, u, u.deferred_expires_next, timer, c)
      OBVIOUS
    <2>1. b.deferred_rearm
      BY <1>2 DEF WalkOK
    <2>2. ~changed /\ ~b.deferred_needs_update
      BY <1>5, <1>6, <2>1
    <2>3. Covered(Sure, b, b.deferred_expires_next, timer, c)
      BY <1>2, <2>2 DEF CoverOK
    <2>4. u.offset = b.offset
      BY <1>3, <1>5, <1>6, <2>2
    <2>5. Covered(Sure, u, b.deferred_expires_next, timer, c)
      BY <1>6, <2>3, <2>4, CoveredLess
    <2> QED BY <1>6, <2>5
  <1>10. CpuInv(c)'
    <2>1. CoverOK(u, walk[c], c)'
      BY <1>1, <1>8, <1>9 DEF CoverOK
    <2>2. SettingOK(u, c)'
      BY <1>1, <1>2, <1>6 DEF SettingOK
    <2>3. u.softirq_activated = cpu_base[c].softirq_activated
          /\ u.deferred_rearm = cpu_base[c].deferred_rearm
      BY <1>a, <1>6
    <2> QED BY <1>1, <1>6, <1>7, <2>1, <2>2, <2>3, SetterTouched
  <1>11. ASSUME NEW d \in Cpus \ {c} PROVE CpuInv(d)'
    <2>1. d \in setter'.mask <=> d \in setter.mask
      BY <1>1
    <2>2. SettingOK(cpu_base[d], d)'
      BY <1>1, <1>7 DEF CpuInv, SettingOK
    <2> QED BY <1>1, <1>7, <2>1, <2>2, SetterUntouched
  <1>12. /\ setter' = [f \in {"pc", "left", "mask"} |-> setter'[f]]
         /\ setter'.left \subseteq Cpus /\ setter'.mask \subseteq Cpus /\ setter'.pc # "idle"
    BY <1>1 DEF XInv, CoverageInv
  <1>13. \A d \in Cpus : CpuInv(d)'
    BY <1>10, <1>11
  <1> QED BY <1>1, <1>12, <1>13 DEF XInv, CoverageInv

\* retrigger_next_event() on a CPU that was sent the IPI
LEMMA RetriggerCovers == ASSUME XInv, NEW c \in Cpus, Retrigger(c) PROVE CoverageInv'
  <1>a. PICK b : b = cpu_base[c]
    OBVIOUS
  <1> DEFINE n == UpdateBase(b)
  <1>b. PICK u : u = ForceReprogram(n, timer, c, FALSE)
    OBVIOUS
  <1>1. /\ UNCHANGED <<now, tk, timer, walk>> /\ setter.pc = "ipi" /\ c \in setter.mask
        /\ cpu_base' = [cpu_base EXCEPT ![c] = u]
        /\ setter' = [setter EXCEPT !.mask = setter.mask \ {c}]
        /\ walk[c]["hard"].pc = "off"
    BY <1>a, <1>b DEF Retrigger, IrqsOn
  <1>2. /\ Typed(b) /\ WalkOK(b, walk[c], c) /\ timer \in Queues
        /\ tk.offset \in Nat /\ tk.clock_was_set_seq \in Nat
    BY <1>a, CpuFacts
  <1>3. /\ Typed(n) /\ n.offset = tk.offset /\ n.clock_was_set_seq = tk.clock_was_set_seq
        /\ n.softirq_activated = b.softirq_activated /\ n.deferred_rearm = b.deferred_rearm
    BY <1>2, UpdateBaseSets
  <1> HIDE DEF n
  <1>4. /\ Programs(n, u) /\ Covered(Sure, u, u.expires_next, timer, c)
    <2>1. Sure \subseteq Timers
      BY DEF Sure
    <2> QED BY <1>b, <1>2, <1>3, <2>1, ForceReprogramCovers
  <1>5. /\ cpu_base'[c] = u /\ \A d \in Cpus \ {c} : cpu_base'[d] = cpu_base[d]
        /\ \A d \in Cpus : CpuInv(d)
    BY <1>1 DEF XInv, IInv, CoverageInv
  <1>6. /\ setter'.pc = "ipi" /\ setter'.left = setter.left /\ setter'.mask = setter.mask \ {c}
        /\ setter' = [f \in {"pc", "left", "mask"} |-> setter'[f]]
    BY <1>1 DEF XInv, CoverageInv
  <1>7. CpuInv(c)'
    <2>1. CoverOK(u, walk[c], c)'
      <3>1. Known(c)' = Sure
        BY <1>6 DEF Known
      <3> QED BY <1>1, <1>4, <3>1 DEF CoverOK
    <2>2. SettingOK(u, c)'
      BY <1>1, <1>2, <1>3, <1>4 DEF SettingOK, Programs
    <2>3. /\ Typed(u) /\ u.softirq_activated = cpu_base[c].softirq_activated
          /\ u.deferred_rearm = cpu_base[c].deferred_rearm
      BY <1>a, <1>3, <1>4 DEF Programs
    <2> QED BY <1>1, <1>5, <2>1, <2>2, <2>3, SetterTouched
  <1>8. ASSUME NEW d \in Cpus \ {c} PROVE CpuInv(d)'
    <2>1. d \in setter'.mask <=> d \in setter.mask
      BY <1>6
    <2>2. SettingOK(cpu_base[d], d)'
      BY <1>1, <1>5, <1>6 DEF CpuInv, SettingOK
    <2> QED BY <1>1, <1>5, <2>1, <2>2, SetterUntouched
  <1>9. \A d \in Cpus : CpuInv(d)'
    BY <1>7, <1>8
  <1> QED BY <1>1, <1>6, <1>9 DEF XInv, CoverageInv

\* clock_settime(): the timekeeper takes a new offset; clock_was_set() returns.
LEMMA SetClockCovers ==
    ASSUME XInv, (\E off \in Offsets : SetClock(off)) \/ SetClockDone
    PROVE  CoverageInv'
  <1>0. \A d \in Cpus : CpuInv(d)
    BY DEF XInv, CoverageInv
  <1>1. ASSUME NEW off \in Offsets, SetClock(off) PROVE CoverageInv'
    <2>1. /\ UNCHANGED <<now, timer, cpu_base, walk>> /\ setter.pc = "idle"
          /\ tk' = [offset |-> off, clock_was_set_seq |-> tk.clock_was_set_seq + 1]
          /\ \/ setter' = [pc |-> "look", left |-> Cpus, mask |-> {}]
             \/ setter' = [pc |-> "ipi", left |-> {}, mask |-> Cpus]
      BY <1>1 DEF SetClock
    <2>2. setter.mask = {} /\ tk.clock_was_set_seq \in Nat /\ off \in Nat
      BY <2>1, ConstAssumption DEF XInv, CoverageInv
    <2>3. tk'.offset \in Nat /\ tk'.clock_was_set_seq = tk.clock_was_set_seq + 1
          /\ tk'.clock_was_set_seq \in Nat
      BY <2>1, <2>2
    <2>4. ASSUME NEW d \in Cpus PROVE CpuInv(d)'
      <3>a. PICK b : b = cpu_base[d]
        OBVIOUS
      <3>1. SettingOK(b, d)'
        <4>1. b.clock_was_set_seq \in Nat /\ b.clock_was_set_seq <= tk.clock_was_set_seq
          BY <1>0, <3>a DEF CpuInv, Typed, SettingOK
        <4>2. b.clock_was_set_seq < tk'.clock_was_set_seq
          BY <2>2, <2>3, <4>1
        <4>3. /\ b.clock_was_set_seq <= tk'.clock_was_set_seq
              /\ b.clock_was_set_seq # tk'.clock_was_set_seq
          BY <2>2, <2>3, <4>1, <4>2
        <4> QED BY <2>1, <4>3 DEF SettingOK
      <3>2. CoverOK(b, walk[d], d)'
        <4>1. CoverOK(b, walk[d], d)
          BY <1>0, <3>a DEF CpuInv
        <4>2. Known(d)' = {} \/ Known(d)' = Known(d)
          BY <2>1, <2>2 DEF Known
        <4>3. Known(d)' \subseteq Known(d)
          BY <4>2
        <4>4. ~b.deferred_rearm => Covered(Known(d), b, b.expires_next, timer, d)
          BY <4>1 DEF CoverOK
        <4>5. ~b.deferred_rearm => Covered(Known(d)', b, b.expires_next, timer, d)
          BY <4>3, <4>4, CoveredLess
        <4> QED BY <2>1, <4>1, <4>5 DEF CoverOK
      <3> QED BY <1>0, <2>1, <3>a, <3>1, <3>2 DEF CpuInv, Typed, WalkOK
    <2> QED BY <2>1, <2>3, <2>4 DEF XInv, CoverageInv
  <1>2. CASE SetClockDone
    <2>1. /\ UNCHANGED <<now, tk, timer, cpu_base, walk>> /\ setter.pc = "ipi"
          /\ setter.mask = {} /\ setter' = [setter EXCEPT !.pc = "idle"]
      BY <1>2 DEF SetClockDone
    <2>2. /\ setter'.pc = "idle" /\ setter'.left = setter.left /\ setter'.mask = {}
          /\ setter' = [f \in {"pc", "left", "mask"} |-> setter'[f]]
      BY <2>1 DEF XInv, CoverageInv
    <2>3. ASSUME NEW d \in Cpus PROVE CpuInv(d)'
      <3>1. SettingOK(cpu_base[d], d)'
        BY <1>0, <2>1, <2>2 DEF CpuInv, SettingOK
      <3>2. d \in setter'.mask <=> d \in setter.mask
        BY <2>1, <2>2
      <3> QED BY <1>0, <2>1, <3>1, <3>2, SetterUntouched
    <2> QED BY <2>1, <2>2, <2>3 DEF XInv, CoverageInv
  <1> QED BY <1>1, <1>2

-----------------------------------------------------------------------------
\* The initial states and all steps

\* Nothing is queued at the start, and every device is off.
LEMMA InitCovers == Init => CoverageInv
  <1> SUFFICES ASSUME Init PROVE CoverageInv
    OBVIOUS
  <1>1. /\ KTIME_MAX \in Times /\ 0 \in Nat /\ MaxTime \in Nat
    BY ConstAssumption DEF Times
  <1>2. /\ now = 0 /\ tk.offset = 0 /\ tk.clock_was_set_seq = 0
        /\ setter = [pc |-> "idle", left |-> {}, mask |-> {}]
    BY DEF Init
  <1>3. ASSUME NEW c \in Cpus PROVE CpuInv(c)
    <2> DEFINE b == cpu_base[c]
    <2>1. b = [expires_next |-> KTIME_MAX, next_timer |-> None,
               softirq_expires_next |-> KTIME_MAX, softirq_activated |-> FALSE,
               deferred_rearm |-> FALSE, deferred_needs_update |-> FALSE,
               deferred_expires_next |-> KTIME_MAX, hang_detected |-> FALSE,
               offset |-> 0, clock_was_set_seq |-> 0, dev |-> KTIME_MAX]
      BY DEF Init
    <2>2. walk[c] = [m \in Modes |-> Off]
      BY DEF Init
    <2> HIDE DEF b
    <2>3. Typed(b)
      BY <1>1, <2>1 DEF Typed, IsBase, Fields
    <2>4. SettingOK(b, c)
      BY <1>2, <2>1 DEF SettingOK
    <2>5. CoverOK(b, walk[c], c)
      <3>1. \A m : Of(timer, c, m) = {}
        BY DEF Init, Of
      <3>2. KTIME_MAX <= KTIME_MAX
        BY <1>1 DEF Times
      <3>3. Covered(Known(c), b, b.expires_next, timer, c)
        BY <2>1, <3>1, <3>2 DEF Covered
      <3>4. walk[c]["hard"].pc = "off"
        BY <2>2, OffIsWalk DEF Modes
      <3> QED BY <3>3, <3>4 DEF CoverOK
    <2>6. WalkOK(b, walk[c], c)
      BY <2>1, <2>2, OffIsWalk DEF WalkOK, Modes, IsWalk
    <2> QED BY <2>3, <2>4, <2>5, <2>6 DEF CpuInv, b
  <1>4. /\ setter = [f \in {"pc", "left", "mask"} |-> setter[f]]
        /\ setter.left = {} /\ setter.mask = {}
    BY <1>2
  <1> QED BY <1>1, <1>2, <1>3, <1>4 DEF CoverageInv

\* Time passes.
LEMMA TickCovers == ASSUME XInv, Tick \/ UNCHANGED vars PROVE CoverageInv'
  <1>1. UNCHANGED <<tk, timer, cpu_base, walk, setter>>
    BY DEF Tick, vars
  <1>2. now' <= MaxTime
    BY ConstAssumption DEF Tick, vars, XInv, IInv, CoverageInv
  <1>3. ASSUME NEW c \in Cpus PROVE CpuInv(c)'
    <2>1. CpuInv(c)
      BY DEF XInv, CoverageInv
    <2> QED BY <1>1, <2>1 DEF CpuInv, Typed, SettingOK, CoverOK, WalkOK, Known
  <1> QED BY <1>1, <1>2, <1>3 DEF XInv, CoverageInv

\* Every step keeps the invariant.
LEMMA NextCovers ==
    ASSUME XInv, [Next]_vars
    PROVE  XInv'
  <1>1. IInv' /\ TimersOK'
    BY NextInv, TimersStay DEF XInv
  <1>2. ASSUME NEW c \in Cpus, Call(c) PROVE CoverageInv'
    <2>1. PICK t \in Timers :
             \/ \E x \in StartTimes, user \in BOOLEAN : StartKeep(c, t, x, user)
             \/ \E x \in StartTimes, user \in BOOLEAN, dest \in Cpus :
                   StartMove(c, t, x, user, dest)
             \/ Cancel(c, t)
      BY <1>2 DEF Call
    <2>2. PICK d \in Cpus : timer[t].cpu = d
      BY DEF XInv, TimersOK, Queues
    <2> QED BY <2>1, <2>2, StartKeepCovers, StartMoveCovers, CancelCovers
  <1>3. ASSUME NEW c \in Cpus,
               Interrupt(c) \/ Softirq(c) \/ Handler(c) \/ SoftHandler(c) \/ Look(c) \/ Retrigger(c)
        PROVE  CoverageInv'
    <2>1. "hard" \in Modes /\ "soft" \in Modes
      BY DEF Modes
    <2> QED BY <1>3, <2>1, InterruptCovers, SoftirqCovers, WalkCovers, RetryCovers,
               InterruptDoneCovers, RearmDeferredCovers, SoftirqDoneCovers, LookCovers,
               RetriggerCovers DEF Handler, SoftHandler
  <1>4. CoverageInv'
    BY <1>2, <1>3, SetClockCovers, TickCovers DEF Next
  <1> QED BY <1>1, <1>4 DEF XInv

\* The invariant of the second part
LEMMA SpecCovers == Spec => []XInv
  <1>1. Init => XInv
    BY InitInv, InitTimers, InitCovers DEF XInv
  <1> QED BY <1>1, NextCovers, PTL DEF Spec

\* The device of c will fire, or the softirq look, in time for t.
Served(c, t) ==
    LET b == cpu_base[c]
        e == Event(b, timer, t)
    IN IF t \in Soft
       THEN b.softirq_activated \/ (Covers(b, e) /\ b.softirq_expires_next <= e)
       ELSE Covers(b, e)

\* The device of a settled CPU covers its timers.
LEMMA CoveredByDevice ==
    ASSUME XInv, NEW c \in Cpus, Settled(c), NEW t \in Sure,
           timer[t].queued, timer[t].cpu = c
    PROVE  Served(c, t)
  <1> DEFINE b == cpu_base[c]
             e == Event(b, timer, t)
  <1>1. /\ Typed(b) /\ CoverOK(b, walk[c], c) /\ timer \in Queues /\ Good(b) /\ now \in Nat
    BY CpuFacts DEF XInv, IInv
  <1>2. Covered(Sure, b, b.expires_next, timer, c)
    BY <1>1 DEF Settled, CoverOK, Known
  <1>3. t \in Timers /\ t \in Of(timer, c, Mode(t))
    BY DEF Sure, Of
  <1>4. e \in Times
    BY <1>1, <1>3, EventTime DEF Typed
  <1> HIDE DEF e, b
  <1>5. e \in Int /\ b.expires_next \in Int /\ b.softirq_expires_next \in Int
    BY <1>1, <1>4, ConstAssumption DEF Typed, Times
  <1>6. ~b.deferred_rearm
    BY DEF Settled, b
  <1>7. b.expires_next <= e => Covers(b, e)
    BY <1>1, <1>5, <1>6 DEF Good, Agrees, Covers
  <1>8. CASE t \in Soft
    <2>1. b.softirq_activated
          \/ (b.expires_next <= b.softirq_expires_next /\ b.softirq_expires_next <= e)
      BY <1>2, <1>3, <1>8 DEF Covered, Mode, e
    <2> QED BY <1>5, <1>7, <1>8, <2>1 DEF b, e, Served
  <1>9. CASE t \notin Soft
    <2>1. b.expires_next <= e
      BY <1>2, <1>3, <1>9 DEF Covered, Mode, e
    <2> QED BY <1>7, <1>9, <2>1 DEF b, e, Served
  <1> QED BY <1>8, <1>9

\* NoMissedEvent follows from the invariant.
LEMMA NoneMissed == XInv => NoMissedEvent
  BY CoveredByDevice DEF NoMissedEvent, Served, Event

\* ClockSetTakesEffect follows from the invariant.
LEMMA ClockSetSeen == XInv => ClockSetTakesEffect
  <1> SUFFICES ASSUME XInv, setter.pc = "idle", NEW c \in Cpus, Settled(c),
                      NEW t \in Real \cap Sure, timer[t].queued, timer[t].cpu = c
               PROVE  \/ t \in Soft /\ cpu_base[c].softirq_activated
                      \/ Covers(cpu_base[c], AtLeast0(Mono(tk, timer, t)))
    BY DEF ClockSetTakesEffect
  <1>1. cpu_base[c].offset = tk.offset
    BY DEF XInv, CoverageInv, CpuInv, SettingOK
  <1>2. Event(cpu_base[c], timer, t) = AtLeast0(Mono(tk, timer, t))
    BY <1>1 DEF Event, Mono, OffsetOf
  <1> QED BY <1>2, CoveredByDevice DEF Served

-----------------------------------------------------------------------------
\* No start, cancellation, interrupt, softirq, rearm or setting of the clock, in any
\* order on any number of CPUs, leaves a timer queued without the device of its CPU
\* firing for it, or the softirq looking at it, in time; but for the hard timers on
\* CLOCK_REALTIME where there are soft ones.
THEOREM EventNotMissed == Spec => []NoMissedEvent
  <1> QED BY NoneMissed, SpecCovers, PTL

\* When clock_was_set() has returned, every settled CPU would fire for the timers on
\* CLOCK_REALTIME at the new offset: each CPU was looked at or interrupted, and those
\* that were not interrupted had no timer that moved ahead of their next event.  The
\* same timers are excepted.
THEOREM ClockSetFollowed == Spec => []ClockSetTakesEffect
  <1> QED BY ClockSetSeen, SpecCovers, PTL
=============================================================================
