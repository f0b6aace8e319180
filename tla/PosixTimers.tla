---------------------------- MODULE PosixTimers -----------------------------
(***************************************************************************)
(* POSIX interval timers, linux_source/kernel/time/posix-timers.c: a timer  *)
(* of a process is an hrtimer, a signal that is queued at most once, and    *)
(* bookkeeping that relates the two.                                       *)
(*                                                                         *)
(* The expiry function, the system calls and the delivery of the signal     *)
(* meet under it_lock; a section that holds it is one step.  The expiry      *)
(* function has no way to back off, so a caller that finds it running has    *)
(* to drop the lock and try again.  A signal that was queued for an earlier  *)
(* setting is told from a current one by it_signal_seq.  The timer is found  *)
(* without a lock, under RCU, and lives until its last reference is put.     *)
(*                                                                         *)
(* The hrtimer is as HrtimerAbs promises it.  External: the signal queue,     *)
(* modelled as the comments and the reference counts of this file need it.   *)
(***************************************************************************)
EXTENDS Integers, FiniteSets

CONSTANTS
    Timers,      \* memory for struct k_itimer
    Threads,     \* of one process
    SigevNone,   \* those of Timers that are created with SIGEV_NONE
    NoTimer,
    INT_MAX,     \* the largest timer ID
    Values,      \* the expiry times that callers ask for; 0 disarms
    Intervals,   \* the intervals they ask for; 0 makes a one-shot timer
    ClockBack,   \* how far CLOCK_REALTIME may be set back
    MaxTime, MaxCalls, MaxIgnores, MaxSeq     \* bounds

Ids == 0 .. INT_MAX

ASSUME ConstAssumption ==
    /\ NoTimer \notin Timers /\ SigevNone \subseteq Timers /\ IsFiniteSet(Threads)
    /\ {INT_MAX, ClockBack, MaxTime, MaxCalls, MaxIgnores, MaxSeq} \subseteq Nat
    /\ Values \subseteq Nat /\ Intervals \subseteq Nat

VARIABLES
    now,         \* CLOCK_MONOTONIC
    offset,      \* CLOCK_REALTIME is ahead by that much
    next_id,     \* signal->next_posix_timer_id
    timr,        \* struct k_itimer
    hr,          \* its hrtimer: queued, callback, expires
    sigq,        \* its signal: queued, on the list of ignored timers, or none
    ignoring,    \* the signal is ignored
    exiting,     \* the last thread is in exit_itimers()
    thread,      \* where a thread is, and with what
    calls, ignores,          \* so far
    first, reported, fired   \* history, see Set

external == <<ignoring, ignores>>
clock == <<now, offset>>
history == <<first, reported, fired>>
vars == <<clock, next_id, timr, hr, sigq, external, exiting, thread, calls, history>>

\* alloc_posix_timer(); what is not mentioned in a new timer is not read before it is set
Blank == [refs |-> 0, hashed |-> FALSE, id |-> 0, valid |-> FALSE, status |-> "DISARMED",
          interval |-> 0, kclock |-> "real", seq |-> 0, qseq |-> 0, periodic |-> FALSE,
          overrun |-> -1]
Inactive == [queued |-> FALSE, runs |-> "no", expires |-> 0]
\* a thread in user mode
User == [pc |-> "user", op |-> "none", obj |-> NoTimer, id |-> 0, cnt |-> 0]

Init ==
    /\ now = 0 /\ offset = ClockBack
    /\ next_id = 0
    /\ timr = [k \in Timers |-> Blank]
    /\ hr = [k \in Timers |-> Inactive]
    /\ sigq = [k \in Timers |-> "none"]
    /\ ignoring = FALSE /\ exiting = FALSE
    /\ thread = [p \in Threads |-> User]
    /\ calls = 0 /\ ignores = 0
    /\ first = [k \in Timers |-> 0]
    /\ reported = [k \in Timers |-> 0]
    /\ fired = [k \in Timers |-> FALSE]

-----------------------------------------------------------------------------
\* kclock->clock_get_ktime()
Clock(kclock) == IF kclock = "real" THEN now + offset ELSE now

At(p, pc) == thread[p].pc = pc
Go(p, pc) == thread' = [thread EXCEPT ![p].pc = pc]
Leave(p) == thread' = [thread EXCEPT ![p] = User]

\* posixtimer_putref(): the memory may be used again when the last reference is gone
\* and no reader that has found the timer before is left (kfree_rcu())
Put(r) == IF r.refs = 1 THEN Blank ELSE [r EXCEPT !.refs = @ - 1]
Free(k) ==
    /\ timr[k].refs = 0
    /\ \A p \in Threads : thread[p].obj = k => ~(At(p, "found") \/ At(p, "wait"))

\* External: posixtimer_send_sigqueue() to a process that takes, or ignores, the signal.
\* The signal is queued once, with a reference to the timer, and the sequence is the
\* one of the latest expiry.  That of a periodic timer that is ignored is remembered on
\* a list, with a reference as well.
Sent(r) == [r EXCEPT !.qseq = r.seq, !.periodic = (r.status = "REQUEUE_PENDING")]
SendSigqueue(r, q) ==
    LET s == Sent(r)
    IN  IF ~ignoring
        THEN [timr |-> IF q = "none" THEN [s EXCEPT !.refs = @ + 1] ELSE s, sigq |-> "pending"]
        ELSE CASE q = "none" /\ s.periodic -> [timr |-> [s EXCEPT !.refs = @ + 1], sigq |-> "ignored"]
               [] q = "ignored" /\ ~s.periodic -> [timr |-> Put(s), sigq |-> "none"]
               [] OTHER -> [timr |-> s, sigq |-> q]

\* posix_timer_queue_signal()
QueueSignal(r, q) ==
    IF ~r.valid THEN [timr |-> r, sigq |-> q]
    ELSE SendSigqueue([r EXCEPT !.status =
             IF r.interval # 0 THEN "REQUEUE_PENDING" ELSE "DISARMED"], q)

\* hrtimer_forward(): the number of intervals that bring e behind c
Forward(e, interval, c) == IF c < e THEN 0 ELSE (c - e) \div interval + 1

\* common_timer_get(): an interval timer that waits for its signal, or never has one, is
\* made to look as if it had been requeued.
Overruns(k) ==
    IF timr[k].interval # 0 /\ timr[k].status # "ARMED"
    THEN Forward(hr[k].expires, timr[k].interval, Clock(timr[k].kclock)) ELSE 0

-----------------------------------------------------------------------------
(* timer_create()                                                          *)

\* A thread makes its next system call.
Calls(p) == At(p, "user") /\ ~exiting /\ calls < MaxCalls /\ calls' = calls + 1

\* the counter, as it is used: clamped
Next_id(id) == (id + 1) % (INT_MAX + 1)

\* alloc_posix_timer(), and the next ID of the counter; or, for a process that restores
\* its timers, an ID of its own choice
Create(p, k) ==
    /\ Calls(p) /\ Free(k)
    /\ timr' = [timr EXCEPT ![k] = [Blank EXCEPT !.refs = 1]]
    /\ hr' = [hr EXCEPT ![k] = Inactive]
    /\ \/ /\ thread' = [thread EXCEPT ![p] = [User EXCEPT !.pc = "add", !.op = "create",
                                                         !.obj = k, !.id = next_id]]
          /\ next_id' = Next_id(next_id)
       \/ /\ \E id \in Ids : thread' = [thread EXCEPT ![p] =
                     [User EXCEPT !.pc = "add", !.op = "restore", !.obj = k, !.id = id]]
          /\ UNCHANGED next_id
    /\ UNCHANGED <<clock, sigq, external, exiting, history>>

\* mutant: a timer that is being created or deleted does not count
HashedValid(id) == \E k \in Timers : timr[k].hashed /\ timr[k].valid /\ timr[k].id = id

\* posix_timer_hashed()
Hashed(id) == \E k \in Timers : timr[k].hashed /\ timr[k].id = id

\* posix_timer_add_at() with the lock of the hash bucket: the timer is not valid yet
AddAt(p) ==
    LET t == thread[p]
    IN  /\ At(p, "add") /\ ~Hashed(t.id)
        /\ timr' = [timr EXCEPT ![t.obj].hashed = TRUE, ![t.obj].id = t.id]
        /\ next_id' = IF t.op = "restore" THEN Next_id(t.id) ELSE next_id
        /\ thread' = [thread EXCEPT ![p] = [User EXCEPT !.pc = "setup", !.obj = t.obj]]
        /\ UNCHANGED <<clock, hr, sigq, external, exiting, calls, history>>

\* The ID is taken: try the next one, or fail, with EBUSY for an ID of the caller's choice
\* and with EAGAIN after INT_MAX + 1 attempts.
AddFails(p) ==
    LET t == thread[p]
    IN  /\ At(p, "add") /\ Hashed(t.id)
        /\ IF t.op = "restore" \/ t.cnt = INT_MAX
           THEN timr' = [timr EXCEPT ![t.obj] = Put(@)] /\ Leave(p) /\ UNCHANGED next_id
           ELSE /\ thread' = [thread EXCEPT ![p].id = next_id, ![p].cnt = @ + 1]
                /\ next_id' = Next_id(next_id)
                /\ UNCHANGED timr
        /\ UNCHANGED <<clock, hr, sigq, external, exiting, calls, history>>

\* the rest of do_timer_create(): the timer is made valid with it_lock held
Publish(p) ==
    LET k == thread[p].obj
    IN  /\ At(p, "setup")
        /\ timr' = [timr EXCEPT ![k].valid = TRUE]
        /\ Leave(p)
        /\ UNCHANGED <<clock, next_id, hr, sigq, external, exiting, calls, history>>

\* no such notification, or the ID could not be copied out
CreateFails(p) ==
    /\ At(p, "setup")
    /\ Go(p, "unhash")
    /\ UNCHANGED <<clock, next_id, timr, hr, sigq, external, exiting, calls, history>>

-----------------------------------------------------------------------------
(* lock_timer() and the system calls on a timer                            *)

\* posix_timer_by_id() under RCU
Lookup(p, k, op) ==
    /\ Calls(p)
    /\ timr[k].hashed /\ timr[k].valid
    /\ thread' = [thread EXCEPT ![p] = [User EXCEPT !.pc = "found", !.op = op, !.obj = k]]
    /\ UNCHANGED <<clock, next_id, timr, hr, sigq, external, exiting, history>>

\* The timer was deleted before the lock was taken.
LookupFails(p) ==
    /\ At(p, "found") /\ ~timr[thread[p].obj].valid
    /\ Leave(p)
    /\ UNCHANGED <<clock, next_id, timr, hr, sigq, external, exiting, calls, history>>

Locked(p, op) == At(p, "found") /\ thread[p].op = op /\ timr[thread[p].obj].valid

\* timer_gettime(); timer_getoverrun() changes nothing
GetTime(p) ==
    LET k == thread[p].obj
    IN  /\ Locked(p, "get")
        /\ timr' = [timr EXCEPT ![k].overrun = @ + Overruns(k)]
        /\ hr' = [hr EXCEPT ![k].expires = @ + Overruns(k) * timr[k].interval]
        /\ Leave(p)
        /\ UNCHANGED <<clock, next_id, sigq, external, exiting, calls, history>>

\* timer_try_to_cancel(): hrtimer_try_to_cancel() fails while the callback runs
Running(k) == hr[k].runs # "no"

Sets(p) == Locked(p, "set") \/ Locked(p, "retry")

\* timer_settime() finds the callback running (TIMER_RETRY), drops the lock and waits.
\* Before that it gets the old setting, if the caller wants it, and not in a retry.
SetRetry(p, old) ==
    LET k == thread[p].obj
        n == IF old THEN Overruns(k) ELSE 0
    IN  /\ Sets(p) /\ Running(k) /\ timr[k].seq < MaxSeq
        /\ old => thread[p].op = "set"
        /\ timr' = [timr EXCEPT ![k].seq = @ + 1, ![k].overrun = @ + n]
        /\ hr' = [hr EXCEPT ![k].expires = @ + n * timr[k].interval]
        /\ thread' = [thread EXCEPT ![p].pc = "wait", ![p].op = "retry"]
        /\ UNCHANGED <<clock, next_id, sigq, external, exiting, calls, history>>

\* timer_wait_running() is a pause; then the timer is looked up again.
Again(p) ==
    LET k == thread[p].obj
    IN  /\ At(p, "wait")
        /\ IF timr[k].valid THEN Go(p, "found") ELSE Leave(p)
        /\ UNCHANGED <<clock, next_id, timr, hr, sigq, external, exiting, calls, history>>

Settings == {s \in [value : Values, interval : Intervals, kclock : {"real", "mono"}] :
                s.value = 0 => s.interval = 0 /\ s.kclock = "real"}

\* mutant: it_signal_seq is counted up only for a retry
NewSettingSameSeq(k, s) ==
    [timr[k] EXCEPT !.status = "DISARMED", !.interval = s.interval, !.overrun = -1,
                    !.kclock = IF s.value = 0 THEN @ ELSE s.kclock]

\* do_timer_settime() and common_timer_set() up to arming.  A relative expiry of
\* CLOCK_REALTIME is one of CLOCK_MONOTONIC under the hood.
NewSetting(k, s) ==
    [timr[k] EXCEPT !.seq = @ + 1, !.status = "DISARMED", !.interval = s.interval, !.overrun = -1,
                    !.kclock = IF s.value = 0 THEN @ ELSE s.kclock]

\* timer_settime() with setting s; expired: hrtimer_start_expires_user() says so.  What
\* common_timer_get() does for the old setting is overwritten.  History: the first expiry
\* of the setting, the intervals reported for it, and whether it has expired.
Set(p, s, expired) ==
    LET k == thread[p].obj
        r == NewSetting(k, s)
        e == IF s.kclock = "real" THEN s.value ELSE now + s.value
        queued == QueueSignal(r, sigq[k])
    IN  /\ Sets(p) /\ ~Running(k) /\ timr[k].seq < MaxSeq
        /\ expired => s.value # 0 /\ k \notin SigevNone /\ e <= Clock(s.kclock)
        /\ hr' = [hr EXCEPT ![k].queued = s.value # 0 /\ k \notin SigevNone /\ ~expired,
                            ![k].expires = IF s.value = 0 THEN @ ELSE e]
        /\ IF expired
           THEN timr' = [timr EXCEPT ![k] = queued.timr] /\ sigq' = [sigq EXCEPT ![k] = queued.sigq]
           ELSE /\ timr' = [timr EXCEPT ![k] = [r EXCEPT !.status =
                              IF s.value # 0 /\ k \notin SigevNone THEN "ARMED" ELSE @]]
                /\ UNCHANGED sigq
        /\ first' = [first EXCEPT ![k] = e]
        /\ reported' = [reported EXCEPT ![k] = 0]
        /\ fired' = [fired EXCEPT ![k] = expired]
        /\ Leave(p)
        /\ UNCHANGED <<clock, next_id, external, exiting, calls>>

-----------------------------------------------------------------------------
(* timer_delete() and exit_itimers()                                        *)

\* mutant: the reference of the ignored list is forgotten
InvalidatedLeak(k) == [timr[k] EXCEPT !.seq = @ + 1, !.valid = FALSE]

\* posix_timer_delete() up to timer_del(): no lookup, signal or delivery accepts the timer
\* from now on, and it is taken off the list of ignored ones
Invalidated(k) ==
    LET r == [timr[k] EXCEPT !.seq = @ + 1, !.valid = FALSE]
    IN  IF sigq[k] = "ignored" THEN Put(r) ELSE r

\* common_timer_del() succeeds
Cancelled(k) == ~Running(k)

Invalidate(p, k) ==
    /\ timr[k].seq < MaxSeq
    /\ timr' = [timr EXCEPT ![k] = IF Cancelled(k) THEN [Invalidated(k) EXCEPT !.status = "DISARMED"]
                                   ELSE Invalidated(k)]
    /\ sigq' = [sigq EXCEPT ![k] = IF @ = "ignored" THEN "none" ELSE @]
    /\ hr' = [hr EXCEPT ![k].queued = @ /\ ~Cancelled(k)]
    /\ thread' = [thread EXCEPT ![p].pc = IF Cancelled(k) THEN "unhash" ELSE "del_wait", ![p].obj = k]
    /\ UNCHANGED <<clock, next_id, external, calls, history>>

Delete(p) == Locked(p, "delete") /\ Invalidate(p, thread[p].obj) /\ UNCHANGED exiting

\* the callback is done, and the lock taken again
DeleteAgain(p) ==
    LET k == thread[p].obj
    IN  /\ At(p, "del_wait") /\ Cancelled(k)
        /\ timr' = [timr EXCEPT ![k].status = "DISARMED"]
        /\ hr' = [hr EXCEPT ![k].queued = FALSE]
        /\ Go(p, "unhash")
        /\ UNCHANGED <<clock, next_id, sigq, external, exiting, calls, history>>

\* posix_timer_unhash_and_free()
UnhashAndFree(p) ==
    LET k == thread[p].obj
    IN  /\ At(p, "unhash")
        /\ timr' = [timr EXCEPT ![k] = Put([@ EXCEPT !.hashed = FALSE])]
        /\ Leave(p)
        /\ UNCHANGED <<clock, next_id, hr, sigq, external, exiting, calls, history>>

\* exit_itimers(): the last thread deletes the timers one by one
Exit(p, k) ==
    /\ \A q \in Threads : At(q, "user")
    /\ timr[k].valid
    /\ exiting' = TRUE
    /\ Invalidate(p, k)

-----------------------------------------------------------------------------
(* Expiry: posix_timer_fn()                                                *)

\* the hrtimer core starts the callback
Fire(k) ==
    /\ hr[k].queued /\ ~Running(k) /\ hr[k].expires <= Clock(timr[k].kclock)
    /\ hr' = [hr EXCEPT ![k].queued = FALSE, ![k].runs = "fn"]
    /\ UNCHANGED <<clock, next_id, timr, sigq, external, exiting, thread, calls, history>>

\* with it_lock held
PosixTimerFn(k) ==
    LET q == QueueSignal(timr[k], sigq[k])
    IN  /\ hr[k].runs = "fn"
        /\ timr' = [timr EXCEPT ![k] = q.timr]
        /\ sigq' = [sigq EXCEPT ![k] = q.sigq]
        /\ hr' = [hr EXCEPT ![k].runs = "end"]
        /\ fired' = [fired EXCEPT ![k] = TRUE]
        /\ UNCHANGED <<clock, next_id, external, exiting, thread, calls, first, reported>>

\* HRTIMER_NORESTART, back in the core
FnDone(k) ==
    /\ hr[k].runs = "end"
    /\ hr' = [hr EXCEPT ![k].runs = "no"]
    /\ UNCHANGED <<clock, next_id, timr, sigq, external, exiting, thread, calls, history>>

-----------------------------------------------------------------------------
(* The signal                                                              *)

\* External: a thread on its way to user mode takes the signal off the queue and calls
\* posixtimer_deliver_signal(), which drops siglock before it takes it_lock.
Dequeue(p, k) ==
    /\ At(p, "user") /\ ~exiting /\ sigq[k] = "pending"
    /\ sigq' = [sigq EXCEPT ![k] = "none"]
    /\ thread' = [thread EXCEPT ![p] =
                     [User EXCEPT !.pc = "deliver", !.obj = k]]
    /\ UNCHANGED <<clock, next_id, timr, hr, external, exiting, calls, history>>

\* __posixtimer_deliver_signal() accepts the signal, and rearms the timer
Accepts(k) == timr[k].seq = timr[k].qseq
Rearms(k) == timr[k].interval # 0 /\ timr[k].status = "REQUEUE_PENDING"

\* the signal of an earlier setting, or of a deleted timer, is dropped
DeliverStale(p) ==
    LET k == thread[p].obj
    IN  /\ At(p, "deliver") /\ ~(Accepts(k) /\ timr[k].valid)
        /\ timr' = [timr EXCEPT ![k] = Put(@)]
        /\ Leave(p)
        /\ UNCHANGED <<clock, next_id, hr, sigq, external, exiting, calls, history>>

DeliverOneShot(p) ==
    LET k == thread[p].obj
    IN  /\ At(p, "deliver") /\ Accepts(k) /\ timr[k].valid /\ ~Rearms(k)
        /\ timr' = [timr EXCEPT ![k] = Put(@)]
        /\ Leave(p)
        /\ UNCHANGED <<clock, next_id, hr, sigq, external, exiting, calls, history>>

\* mutant: overruns are counted on
AfterRearmKeepsOverrun(r) == [r EXCEPT !.seq = @ + 1]

\* the bookkeeping after timer_rearm()
AfterRearm(r) == [r EXCEPT !.overrun = -1, !.seq = @ + 1]

\* mutant: an expiry that the rearm finds in the past is lost
RearmedAnyway(r, q, expired) == [timr |-> [r EXCEPT !.status = "ARMED"], sigq |-> q]

\* after the rearm: the hrtimer is queued again, or it has expired already
Rearmed(r, q, expired) ==
    IF expired THEN QueueSignal(r, q) ELSE [timr |-> [r EXCEPT !.status = "ARMED"], sigq |-> q]

\* common_hrtimer_rearm(), with the clock read at most a tick before the start, and the
\* next signal at once if the start finds the timer expired.  The reference of the signal
\* is put last.
DeliverInterval(p, expired) ==
    LET k == thread[p].obj
        r == timr[k]
    IN  /\ At(p, "deliver") /\ Accepts(k) /\ r.valid /\ Rearms(k) /\ r.seq < MaxSeq
        /\ \E c \in {Clock(r.kclock), Clock(r.kclock) - 1} :
              LET n == Forward(hr[k].expires, r.interval, c)
                  e == hr[k].expires + n * r.interval
                  after == Rearmed(AfterRearm(r), sigq[k], expired)
              IN  /\ expired => e <= Clock(r.kclock)
                  /\ hr' = [hr EXCEPT ![k].expires = e, ![k].queued = ~expired]
                  /\ timr' = [timr EXCEPT ![k] = Put(after.timr)]
                  /\ sigq' = [sigq EXCEPT ![k] = after.sigq]
                  /\ reported' = [reported EXCEPT ![k] = @ + r.overrun + n + 1]
        /\ Leave(p)
        /\ UNCHANGED <<clock, next_id, external, exiting, calls, first, fired>>

\* External: sigaction(SIG_IGN) moves the signals of periodic timers to the list of ignored
\* ones and drops the others.
Ignore ==
    /\ ~ignoring /\ ignores < MaxIgnores
    /\ ignoring' = TRUE /\ ignores' = ignores + 1
    /\ LET Kept(k) == timr[k].valid /\ timr[k].periodic
       IN  /\ timr' = [k \in Timers |->
                 IF sigq[k] = "pending" /\ ~Kept(k) THEN Put(timr[k]) ELSE timr[k]]
           /\ sigq' = [k \in Timers |->
                 IF sigq[k] # "pending" THEN sigq[k] ELSE IF Kept(k) THEN "ignored" ELSE "none"]
    /\ UNCHANGED <<clock, next_id, hr, exiting, thread, calls, history>>

\* External: a handler is installed again, and the ignored signals are queued.
Unignore ==
    /\ ignoring
    /\ ignoring' = FALSE
    /\ sigq' = [k \in Timers |-> IF sigq[k] = "ignored" THEN "pending" ELSE sigq[k]]
    /\ UNCHANGED <<clock, next_id, timr, hr, ignores, exiting, thread, calls, history>>

\* External: what is still queued is flushed when the process is gone, after exit_itimers().
Flush(k) ==
    /\ exiting /\ \A j \in Timers : ~timr[j].hashed
    /\ sigq[k] = "pending"
    /\ sigq' = [sigq EXCEPT ![k] = "none"]
    /\ timr' = [timr EXCEPT ![k] = Put(@)]
    /\ UNCHANGED <<clock, next_id, hr, external, exiting, thread, calls, history>>

-----------------------------------------------------------------------------
Tick ==
    /\ now < MaxTime
    /\ now' = now + 1
    /\ UNCHANGED <<offset, next_id, timr, hr, sigq, external, exiting, thread, calls, history>>

SetBack ==
    /\ offset > 0
    /\ offset' = 0
    /\ UNCHANGED <<now, next_id, timr, hr, sigq, external, exiting, thread, calls, history>>

Ops == {"get", "set", "delete"}

\* a thread goes on with its system call or its delivery
Step(p) ==
    \/ AddAt(p) \/ AddFails(p) \/ Publish(p) \/ CreateFails(p)
    \/ LookupFails(p) \/ GetTime(p) \/ Again(p)
    \/ \E old \in BOOLEAN : SetRetry(p, old)
    \/ \E s \in Settings, expired \in BOOLEAN : Set(p, s, expired)
    \/ Delete(p) \/ DeleteAgain(p) \/ UnhashAndFree(p)
    \/ DeliverStale(p) \/ DeliverOneShot(p)
    \/ \E expired \in BOOLEAN : DeliverInterval(p, expired)

Expiry(k) == PosixTimerFn(k) \/ FnDone(k)

Next ==
    \/ \E p \in Threads :
          \/ Step(p)
          \/ \E k \in Timers : Create(p, k) \/ Exit(p, k) \/ Dequeue(p, k)
          \/ \E k \in Timers, op \in Ops : Lookup(p, k, op)
    \/ \E k \in Timers : Fire(k) \/ Expiry(k) \/ Flush(k)
    \/ Ignore \/ Unignore
    \/ Tick \/ SetBack

Spec == Init /\ [][Next]_vars

-----------------------------------------------------------------------------
(* Properties                                                              *)

KItimer == [refs : Nat, hashed : BOOLEAN, id : Ids, valid : BOOLEAN,
            status : {"DISARMED", "ARMED", "REQUEUE_PENDING"}, interval : Nat,
            kclock : {"real", "mono"}, seq : 0 .. MaxSeq, qseq : 0 .. MaxSeq,
            periodic : BOOLEAN, overrun : Int]
Hrtimer == [queued : BOOLEAN, runs : {"no", "fn", "end"}, expires : Nat]
Pcs == {"user", "add", "setup", "found", "wait", "del_wait", "unhash", "deliver"}
ThreadState == [pc : Pcs, op : Ops \cup {"create", "restore", "retry", "none"},
                obj : Timers \cup {NoTimer}, id : Ids, cnt : Ids]

TypeOK ==
    /\ now \in 0 .. MaxTime /\ offset \in 0 .. ClockBack
    /\ next_id \in Ids
    /\ timr \in [Timers -> KItimer]
    /\ hr \in [Timers -> Hrtimer]
    /\ sigq \in [Timers -> {"none", "pending", "ignored"}]
    /\ ignoring \in BOOLEAN /\ exiting \in BOOLEAN
    /\ thread \in [Threads -> ThreadState]
    /\ calls \in 0 .. MaxCalls /\ ignores \in 0 .. MaxIgnores
    /\ first \in [Timers -> Nat] /\ reported \in [Timers -> Int] /\ fired \in [Timers -> BOOLEAN]

\* the threads that are at pc with timer k; who creates a timer, or its hash, holds a reference
With(pc, k) == {p \in Threads : At(p, pc) /\ thread[p].obj = k}
Owned(k) == timr[k].hashed \/ With("add", k) # {}

\* The references are exactly those of the hash (or of the thread that creates the timer),
\* of the queued or ignored signal and of the threads that deliver it: nothing is leaked,
\* and nothing whose hrtimer is armed or running, or which is about to be unhashed, is freed.
RefsAreExact ==
    \A k \in Timers :
        /\ timr[k].refs = (IF Owned(k) THEN 1 ELSE 0) + (IF sigq[k] # "none" THEN 1 ELSE 0)
                          + Cardinality(With("deliver", k))
        /\ sigq[k] = "ignored" => timr[k].valid
        /\ hr[k].queued \/ Running(k) \/ With("del_wait", k) \cup With("unhash", k) # {} => Owned(k)

\* "This guarantees that there can't be duplicate timer IDs handed out", with a counter
\* that wraps, threads that create timers at the same time, and timers half deleted.
IdsAreUnique ==
    \A j, k \in Timers : timr[j].hashed /\ timr[k].hashed /\ timr[j].id = timr[k].id => j = k

\* timer_settime() has begun to replace the setting
Replacing(k) == \E p \in Threads : thread[p].op = "retry" /\ thread[p].obj = k

\* A periodic timer does not die: it is in the hrtimer queue, its callback is about to queue
\* the signal, or the signal, whose delivery arms the timer again, is on its way and will
\* be accepted.
PeriodicStaysAlive ==
    \A k \in Timers \ SigevNone :
        timr[k].valid /\ timr[k].interval # 0 /\ ~Replacing(k) =>
            \/ timr[k].status = "ARMED" /\ (hr[k].queued \/ hr[k].runs = "fn")
            \/ /\ timr[k].status = "REQUEUE_PENDING" /\ Accepts(k)
               /\ sigq[k] # "none" \/ \E p \in Threads : At(p, "deliver") /\ thread[p].obj = k

\* What the delivery of a signal relies on when it accepts one, after siglock was dropped
\* and with settings and deletions in between (two WARN_ON_ONCE): the timer is valid, its
\* present setting has expired, and a periodic timer waits to be armed again.
SignalIsCurrent ==
    \A p \in Threads :
        LET k == thread[p].obj
        IN  At(p, "deliver") /\ Accepts(k) =>
                /\ timr[k].valid /\ fired[k]
                /\ timr[k].interval # 0 => timr[k].status = "REQUEUE_PENDING"

\* The overruns that are reported with the signals of a periodic timer, and those counted
\* for the next one, add up to the intervals since its first expiry, whoever has asked for the time
\* in between and however the clock is set.
OverrunsAddUp ==
    \A k \in Timers :
        timr[k].valid /\ timr[k].interval # 0 =>
            hr[k].expires = first[k] + timr[k].interval * (reported[k] + timr[k].overrun + 1)

=============================================================================
