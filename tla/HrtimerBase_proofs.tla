------------------------- MODULE HrtimerBase_proofs -------------------------
(* Proofs about HrtimerBase, for any number of CPUs, timers and callers.   *)
EXTENDS HrtimerBase, TLAPS

-----------------------------------------------------------------------------
(* The inductive invariant, in parts.                                      *)

\* The expiry context of a CPU: running is what it runs, and it owns the lock
\* everywhere but before the first timer and in the callback.
ExpiryInv ==
    \A c \in Cpus :
        /\ running[c] = etm[c]
        /\ epc[c] \in {"idle", "select"} <=> etm[c] = Nobody
        /\ epc[c] \notin {"idle", "callback"} => lock[c] = c
        /\ epc[c] \in {"barrier1", "dequeue"} => etm[c] \in active[c]
        /\ epc[c] = "barrier1" => seq[c] + 2 <= MaxSeq
        /\ epc[c] \in {"dequeue", "callback", "barrier2"} => seq[c] + 1 <= MaxSeq
        /\ \A t \in Timers : running[c] = t => base[t] = c

\* The caller in a locked section, or with the timer parked on migration_base
CallerInv ==
    \A p \in Callers :
        /\ IrqsOff(p) => rb[p] \in Cpus /\ cpu[p] \in Cpus
        /\ pc[p] = "lock_acquire" => rb[p] \in Cpus
        /\ pc[p] \in Holding => lock[rb[p]] = p /\ base[tm[p]] = rb[p]
        /\ pc[p] \in Parking => base[tm[p]] = Migration
        /\ pc[p] \in {"switch"} \cup Parking => tgt[p] \in Cpus /\ online[tgt[p]]
        /\ pc[p] = "switch_back" => online[cpu[p]]
        /\ pc[p] = "enqueue" => online[rb[p]]
        /\ pc[p] \in {"act_base"} \cup ActReads => op[p] \in Cancels
        /\ pc[p] \in {"switch", "enqueue", "armed"} \cup Parking => op[p] = "start"

ParkInv ==
    /\ \A p, q \in Callers : pc[p] \in Parking /\ pc[q] \in Parking /\ tm[p] = tm[q] => p = q
    /\ \A t \in Timers : base[t] = Migration => \E p \in Callers : Parks(p, t)

QueueInv ==
    /\ \A c \in Cpus : \A t \in active[c] : base[t] = c /\ queued[t]
    /\ \A t \in Timers : queued[t] =>
          \/ base[t] \in Cpus /\ t \in active[base[t]]
          \/ \E p \in Callers : tm[p] = t /\ InHands(p)
    /\ \A p \in Callers : InHands(p) =>
          /\ \A c \in Cpus : tm[p] \notin active[c]
          /\ queued[tm[p]] => online[rb[p]]
          /\ was_armed[p] => queued[tm[p]]
    /\ \A c \in Cpus : ~online[c] => active[c] = {} /\ running[c] = Nobody

\* What hrtimer_active() knows while its view of timer->base has held and the
\* timer has not been inactive during the call.
Unquiet(p) == ~quiet[p] /\ ~strayed[p]

ReaderOK(p) ==
    /\ pc[p] \in ActReads /\ ~strayed[p] => base[tm[p]] = rb[p]
    /\ Inactive(p) /\ pc[p] # "idle" /\ op[p] \in Cancels => quiet[p]
    /\ Unquiet(p) /\ rb[p] \in Cpus /\ pc[p] \in ActReads \ {"act_seq"} => rs[p] <= seq[rb[p]]
    /\ Unquiet(p) /\ pc[p] = "act_running" =>
          /\ rb[p] \in Cpus
          /\ \/ rs[p] < seq[rb[p]]
             \/ /\ running[rb[p]] = tm[p]
                /\ epc[rb[p]] = "clear" => ~queued[tm[p]]
    /\ Unquiet(p) /\ pc[p] = "act_retry" => rb[p] \in Cpus /\ rs[p] < seq[rb[p]]
    /\ pc[p] = "act_recheck" => quiet[p] \/ strayed[p]

ReaderInv == \A p \in Callers : ReaderOK(p)

BaseInv == TypeOK /\ ExpiryInv /\ CallerInv /\ ParkInv /\ QueueInv
IInv == BaseInv /\ ReaderInv
-----------------------------------------------------------------------------
(* Every action updates the history variables.                             *)

\* No action of the model forgets its history variables.
LEMMA StepObserves == Next => Observe
<1>1. ASSUME NEW p \in Callers, CallerStep(p) PROVE Observe
  BY <1>1 DEF CallerStep, BeginStart, BeginCancel, LockRead, LockAcquire, StartKeep,
     StartRemove, Enqueue, StartDone, StartExpired, SwitchStay, SwitchRetarget, SwitchPark,
     SwitchAccept, SwitchRefuse, SwitchBack, ActBase, ActSeq, ActQueued, ActRunning, ActRetry,
     ActRecheck, CancelRunning, CancelRemove
<1>2. ASSUME NEW c \in Cpus, ExpiryStep(c) \/ CpuDying(c) \/ CpuStarting(c) PROVE Observe
  BY <1>2 DEF ExpiryStep, ExpBegin, ExpSelect, ExpEnd, ExpBarrier1, ExpDequeue, ExpReturn,
     ExpBarrier2, ExpClear, Barrier, CpuDying, CpuStarting
<1> QED
  BY <1>1, <1>2 DEF Next

-----------------------------------------------------------------------------
(* Types                                                                   *)

\* What the helpers shared by the actions do to the variables they write
LEMMA EnqueueType ==
  ASSUME TypeOK, NEW t \in Timers, NEW c \in Cpus \cup {Migration}, EnqueueIn(t, c)
  PROVE  queued' \in [Timers -> BOOLEAN] /\ active' \in [Cpus -> SUBSET Timers]
<1>1. queued' \in [Timers -> BOOLEAN]
  BY DEF TypeOK, EnqueueIn
<1>2. active' \in [Cpus -> SUBSET Timers]
  BY DEF TypeOK, EnqueueIn
<1> QED
  BY <1>1, <1>2

\* RemoveFrom (__remove_hrtimer) keeps the types of what it writes.
LEMMA RemoveType ==
  ASSUME TypeOK, NEW t \in Timers, NEW c \in Cpus \cup {Migration}, NEW s \in BOOLEAN,
         RemoveFrom(t, c, s)
  PROVE  queued' \in [Timers -> BOOLEAN] /\ active' \in [Cpus -> SUBSET Timers]
<1>1. queued' \in [Timers -> BOOLEAN]
  BY DEF TypeOK, RemoveFrom
<1>2. active' \in [Cpus -> SUBSET Timers]
  BY DEF TypeOK, RemoveFrom
<1> QED
  BY <1>1, <1>2

LocalTypes ==
    /\ pc \in [Callers -> {"idle", "lock_read", "lock_acquire", "act_base"}
                          \cup Holding \cup Parking \cup ActReads]
    /\ op \in [Callers -> Ops]
    /\ tm \in [Callers -> Timers]
    /\ rb \in [Callers -> Cpus \cup {Migration}]
    /\ rs \in [Callers -> 0 .. MaxSeq]
    /\ cpu \in [Callers -> Cpus \cup {Migration}]
    /\ tgt \in [Callers -> Cpus \cup {Migration}]
    /\ was_armed \in [Callers -> BOOLEAN]
    /\ ret \in [Callers -> {"none", "inactive", "running", "cancelled"}]

\* The end of a call keeps the types of the caller's local variables.
LEMMA ReturnType ==
  ASSUME TypeOK, NEW p \in Callers, NEW r \in {"none", "inactive", "running", "cancelled"},
         Return(p, r)
  PROVE  LocalTypes'
  BY ConstAssumption DEF TypeOK, Return, LocalTypes, Ops

\* Dropping a base lock keeps the type of lock.
LEMMA UnlockType ==
  ASSUME TypeOK, NEW c \in Cpus \cup {Migration}, Unlock(c)
  PROVE  lock' \in [Cpus -> Cpus \cup Callers \cup {Nobody}]
  BY DEF TypeOK, Unlock

\* Observe keeps the types of the history variables.
LEMMA HistoryType ==
  ASSUME Observe
  PROVE  quiet' \in [Callers -> BOOLEAN] /\ strayed' \in [Callers -> BOOLEAN]
  BY DEF Observe

\* Every step, and stuttering, keeps the type invariant.
LEMMA TypeStep == TypeOK /\ ExpiryInv /\ [Next]_vars => TypeOK'
<1> SUFFICES ASSUME TypeOK, ExpiryInv, [Next]_vars PROVE TypeOK'
  OBVIOUS
<1> USE DEF TypeOK, shared, locals, expiry, history
<1>1. CASE UNCHANGED vars
  BY <1>1 DEF vars
<1>2. CASE Next
  <2>1. quiet' \in [Callers -> BOOLEAN] /\ strayed' \in [Callers -> BOOLEAN]
    BY <1>2, StepObserves, HistoryType
  <2>2. ASSUME NEW p \in Callers, NEW t \in Timers, BeginStart(p, t) \/ BeginCancel(p, t)
        PROVE  TypeOK'
    <3>1. CASE BeginStart(p, t)
      BY SMTT(30), <2>1, <3>1 DEF BeginStart, Ops
    <3>2. CASE BeginCancel(p, t)
      BY SMTT(30), <2>1, <3>2 DEF BeginCancel, Ops
    <3> QED
      BY <2>2, <3>1, <3>2
  <2>3. ASSUME NEW p \in Callers, LockRead(p) PROVE TypeOK'
    BY <2>1, <2>3 DEF LockRead, Goto, Holding, Parking, ActReads
  <2>4. ASSUME NEW p \in Callers, LockAcquire(p) PROVE TypeOK'
    <3>1. lock' \in [Cpus -> Cpus \cup Callers \cup {Nobody}]
      BY <2>4 DEF LockAcquire, Lock
    <3>2. cpu' \in [Callers -> Cpus \cup {Migration}]
      BY <2>4 DEF LockAcquire
    <3>3. pc' = [pc EXCEPT ![p] = "locked"] \/ pc' = [pc EXCEPT ![p] = "lock_read"]
      BY <2>4 DEF LockAcquire, Goto
    <3> QED
      BY <2>1, <2>4, <3>1, <3>2, <3>3 DEF LockAcquire, Goto, Holding, Parking, ActReads
  <2>5. ASSUME NEW p \in Callers, StartKeep(p) PROVE TypeOK'
    BY <2>1, <2>5, EnqueueType DEF StartKeep, Goto, Holding, Parking, ActReads
  <2>6. ASSUME NEW p \in Callers, StartRemove(p) PROVE TypeOK'
    <3>1. tm[p] \in Timers /\ rb[p] \in Cpus \cup {Migration} /\ queued[tm[p]] \in BOOLEAN
      OBVIOUS
    <3>2. queued' \in [Timers -> BOOLEAN] /\ active' \in [Cpus -> SUBSET Timers]
      BY <2>6, <3>1, RemoveType DEF StartRemove
    <3> QED
      BY <2>1, <2>6, <3>2 DEF StartRemove, Goto, TargetBase, Holding, Parking, ActReads
  <2>7. ASSUME NEW p \in Callers, Enqueue(p) PROVE TypeOK'
    BY <2>1, <2>7, EnqueueType DEF Enqueue, Goto, Holding, Parking, ActReads
  <2>8. ASSUME NEW p \in Callers, StartDone(p) PROVE TypeOK'
    BY <2>1, <2>8, ReturnType, UnlockType DEF StartDone, LocalTypes, Holding, Parking, ActReads
  <2>9. ASSUME NEW p \in Callers, StartExpired(p) PROVE TypeOK'
    BY <2>1, <2>9, RemoveType, ReturnType, UnlockType DEF StartExpired, LocalTypes, Holding, Parking, ActReads
  <2>10. ASSUME NEW p \in Callers, SwitchStay(p) PROVE TypeOK'
    BY <2>1, <2>10 DEF SwitchStay, Goto, Holding, Parking, ActReads
  <2>11. ASSUME NEW p \in Callers, SwitchRetarget(p) PROVE TypeOK'
    BY <2>1, <2>11 DEF SwitchRetarget, MayRefuse, Holding, Parking, ActReads
  <2>12. ASSUME NEW p \in Callers, SwitchPark(p) PROVE TypeOK'
    BY <2>1, <2>12, UnlockType DEF SwitchPark, Goto, Holding, Parking, ActReads
  <2>13. ASSUME NEW p \in Callers, SwitchAccept(p) PROVE TypeOK'
    BY <2>1, <2>13 DEF SwitchAccept, Goto, Lock, Holding, Parking, ActReads
  <2>14. ASSUME NEW p \in Callers, SwitchRefuse(p) PROVE TypeOK'
    BY <2>1, <2>14 DEF SwitchRefuse, Goto, MayRefuse, Holding, Parking, ActReads
  <2>15. ASSUME NEW p \in Callers, SwitchBack(p) PROVE TypeOK'
    BY <2>1, <2>15 DEF SwitchBack, Goto, Lock, Holding, Parking, ActReads
  <2>16. ASSUME NEW p \in Callers, ActBase(p) PROVE TypeOK'
    BY <2>1, <2>16 DEF ActBase, Goto, Holding, Parking, ActReads
  <2>17. ASSUME NEW p \in Callers, ActSeq(p) PROVE TypeOK'
    BY ConstAssumption, <2>1, <2>17 DEF ActSeq, Goto, SeqOf, Holding, Parking, ActReads
  <2>18. ASSUME NEW p \in Callers, ActQueued(p) PROVE TypeOK'
    BY <2>1, <2>18 DEF ActQueued, Goto, Holding, Parking, ActReads
  <2>19. ASSUME NEW p \in Callers, ActRunning(p) PROVE TypeOK'
    BY <2>1, <2>19 DEF ActRunning, Goto, Holding, Parking, ActReads
  <2>20. ASSUME NEW p \in Callers, ActRetry(p) PROVE TypeOK'
    BY <2>1, <2>20 DEF ActRetry, Goto, SeqOf, Holding, Parking, ActReads
  <2>21. ASSUME NEW p \in Callers, ActRecheck(p) PROVE TypeOK'
    BY <2>1, <2>21, ReturnType DEF ActRecheck, Goto, LocalTypes, Holding, Parking, ActReads
  <2>22. ASSUME NEW p \in Callers, CancelRunning(p) PROVE TypeOK'
    BY <2>1, <2>22, ReturnType, UnlockType DEF CancelRunning, Goto, LocalTypes, Holding, Parking, ActReads
  <2>23. ASSUME NEW p \in Callers, CancelRemove(p) PROVE TypeOK'
    BY <2>1, <2>23, RemoveType, ReturnType, UnlockType DEF CancelRemove, LocalTypes, Holding, Parking, ActReads
  <2>24. ASSUME NEW c \in Cpus, ExpBegin(c) PROVE TypeOK'
    BY ConstAssumption, <2>1, <2>24 DEF ExpBegin, Lock
  <2>25. ASSUME NEW c \in Cpus, ExpSelect(c) PROVE TypeOK'
    BY ConstAssumption, <2>1, <2>25 DEF ExpSelect
  <2>26. ASSUME NEW c \in Cpus, ExpEnd(c) PROVE TypeOK'
    BY ConstAssumption, <2>1, <2>26, UnlockType DEF ExpEnd
  <2>27. ASSUME NEW c \in Cpus, ExpBarrier1(c) PROVE TypeOK'
    BY ConstAssumption, <2>1, <2>27 DEF ExpBarrier1, Barrier, ExpiryInv
  <2>28. ASSUME NEW c \in Cpus, ExpDequeue(c) PROVE TypeOK'
    BY ConstAssumption, <2>1, <2>28, RemoveType, UnlockType DEF ExpDequeue, ExpiryInv
  <2>29. ASSUME NEW c \in Cpus, ExpReturn(c) PROVE TypeOK'
    <3>1. etm[c] \in Timers
      BY <2>29, ConstAssumption DEF ExpReturn, ExpiryInv
    <3>2. queued' \in [Timers -> BOOLEAN] /\ active' \in [Cpus -> SUBSET Timers]
      BY <2>29, <3>1, EnqueueType DEF ExpReturn
    <3> QED
      BY <2>1, <2>29, <3>2 DEF ExpReturn, Lock
  <2>30. ASSUME NEW c \in Cpus, ExpBarrier2(c) PROVE TypeOK'
    BY ConstAssumption, <2>1, <2>30 DEF ExpBarrier2, Barrier, ExpiryInv
  <2>31. ASSUME NEW c \in Cpus, ExpClear(c) PROVE TypeOK'
    BY ConstAssumption, <2>1, <2>31 DEF ExpClear
  <2>32. ASSUME NEW c \in Cpus, CpuDying(c) PROVE TypeOK'
    BY ConstAssumption, <2>1, <2>32 DEF CpuDying
  <2>33. ASSUME NEW c \in Cpus, CpuStarting(c) PROVE TypeOK'
    BY ConstAssumption, <2>1, <2>33 DEF CpuStarting
  <2> QED
    BY <1>2, <2>2, <2>3, <2>4, <2>5, <2>6, <2>7, <2>8, <2>9, <2>10, <2>11, <2>12,
       <2>13, <2>14, <2>15, <2>16, <2>17, <2>18, <2>19, <2>20, <2>21, <2>22, <2>23,
       <2>24, <2>25, <2>26, <2>27, <2>28, <2>29, <2>30, <2>31, <2>32, <2>33
    DEF Next, CallerStep, ExpiryStep
<1> QED
  BY <1>1, <1>2

\* Every step keeps what is known of a CPU's expiry context (__run_hrtimer).
LEMMA ExpiryInvStep == BaseInv /\ TypeOK' /\ Next => ExpiryInv'
<1> SUFFICES ASSUME BaseInv, TypeOK', Next PROVE ExpiryInv'
  OBVIOUS
<1> USE ConstAssumption DEF BaseInv, TypeOK, ExpiryInv, CallerInv, QueueInv, shared, locals, expiry, Holding, Parking, ActReads
<1>1. ASSUME NEW p \in Callers, NEW t \in Timers, BeginStart(p, t) \/ BeginCancel(p, t)
      PROVE  ExpiryInv'
  BY <1>1 DEF BeginStart, BeginCancel, Ops, Cancels
<1>2. ASSUME NEW p \in Callers, LockRead(p) PROVE ExpiryInv'
  BY <1>2 DEF LockRead, Goto
<1>3. ASSUME NEW p \in Callers, LockAcquire(p) PROVE ExpiryInv'
  BY <1>3 DEF LockAcquire, Goto, Lock, Occupied
<1>4. ASSUME NEW p \in Callers, StartKeep(p) PROVE ExpiryInv'
  BY <1>4 DEF StartKeep, Goto, EnqueueIn, KeepBase
<1>5. ASSUME NEW p \in Callers, StartRemove(p) PROVE ExpiryInv'
  BY <1>5 DEF StartRemove, Goto, RemoveFrom, TargetBase
<1>6. ASSUME NEW p \in Callers, Enqueue(p) PROVE ExpiryInv'
  BY <1>6 DEF Enqueue, Goto, EnqueueIn
<1>7. ASSUME NEW p \in Callers, StartDone(p) PROVE ExpiryInv'
  BY <1>7 DEF StartDone, Return, Unlock
<1>8. ASSUME NEW p \in Callers, StartExpired(p) PROVE ExpiryInv'
  BY <1>8 DEF StartExpired, Return, Unlock, RemoveFrom
<1>9. ASSUME NEW p \in Callers, SwitchStay(p) PROVE ExpiryInv'
  BY <1>9 DEF SwitchStay, Goto
<1>10. ASSUME NEW p \in Callers, SwitchRetarget(p) PROVE ExpiryInv'
  BY <1>10 DEF SwitchRetarget, MayRefuse
<1>11. ASSUME NEW p \in Callers, SwitchPark(p) PROVE ExpiryInv'
  BY <1>11 DEF SwitchPark, Goto, Unlock
<1>12. ASSUME NEW p \in Callers, SwitchAccept(p) PROVE ExpiryInv'
  BY <1>12 DEF SwitchAccept, Goto, Lock
<1>13. ASSUME NEW p \in Callers, SwitchRefuse(p) PROVE ExpiryInv'
  BY <1>13 DEF SwitchRefuse, Goto, MayRefuse
<1>14. ASSUME NEW p \in Callers, SwitchBack(p) PROVE ExpiryInv'
  BY <1>14 DEF SwitchBack, Goto, Lock
<1>15. ASSUME NEW p \in Callers, ActBase(p) PROVE ExpiryInv'
  BY <1>15 DEF ActBase, Goto
<1>16. ASSUME NEW p \in Callers, ActSeq(p) PROVE ExpiryInv'
  BY <1>16 DEF ActSeq, Goto, SeqOf
<1>17. ASSUME NEW p \in Callers, ActQueued(p) PROVE ExpiryInv'
  BY <1>17 DEF ActQueued, Goto
<1>18. ASSUME NEW p \in Callers, ActRunning(p) PROVE ExpiryInv'
  BY <1>18 DEF ActRunning, Goto, RunningOn
<1>19. ASSUME NEW p \in Callers, ActRetry(p) PROVE ExpiryInv'
  BY <1>19 DEF ActRetry, Goto, SeqOf
<1>20. ASSUME NEW p \in Callers, ActRecheck(p) PROVE ExpiryInv'
  BY <1>20 DEF ActRecheck, Goto, Return
<1>21. ASSUME NEW p \in Callers, CancelRunning(p) PROVE ExpiryInv'
  BY <1>21 DEF CancelRunning, Goto, Return, Unlock
<1>22. ASSUME NEW p \in Callers, CancelRemove(p) PROVE ExpiryInv'
  BY <1>22 DEF CancelRemove, Return, Unlock, RemoveFrom
<1>23. ASSUME NEW c \in Cpus, ExpBegin(c) PROVE ExpiryInv'
  BY <1>23 DEF ExpBegin, Lock, Occupied
<1>24. ASSUME NEW c \in Cpus, ExpSelect(c) PROVE ExpiryInv'
  BY <1>24 DEF ExpSelect
<1>25. ASSUME NEW c \in Cpus, ExpEnd(c) PROVE ExpiryInv'
  BY <1>25 DEF ExpEnd, Unlock
<1>26. ASSUME NEW c \in Cpus, ExpBarrier1(c) PROVE ExpiryInv'
  BY <1>26 DEF ExpBarrier1, Barrier
<1>27. ASSUME NEW c \in Cpus, ExpDequeue(c) PROVE ExpiryInv'
  BY <1>27 DEF ExpDequeue, Unlock, RemoveFrom
<1>28. ASSUME NEW c \in Cpus, ExpReturn(c) PROVE ExpiryInv'
  BY <1>28 DEF ExpReturn, Lock, EnqueueIn, Occupied
<1>29. ASSUME NEW c \in Cpus, ExpBarrier2(c) PROVE ExpiryInv'
  BY <1>29 DEF ExpBarrier2, Barrier
<1>30. ASSUME NEW c \in Cpus, ExpClear(c) PROVE ExpiryInv'
  BY <1>30 DEF ExpClear
<1>31. ASSUME NEW c \in Cpus, CpuDying(c) PROVE ExpiryInv'
  BY <1>31 DEF CpuDying
<1>32. ASSUME NEW c \in Cpus, CpuStarting(c) PROVE ExpiryInv'
  BY <1>32 DEF CpuStarting, Occupied
<1> HIDE DEF BaseInv, TypeOK, ExpiryInv, CallerInv, QueueInv
<1> QED
  BY <1>1, <1>2, <1>3, <1>4, <1>5, <1>6, <1>7, <1>8, <1>9, <1>10, <1>11,
     <1>12, <1>13, <1>14, <1>15, <1>16, <1>17, <1>18, <1>19, <1>20, <1>21, <1>22,
     <1>23, <1>24, <1>25, <1>26, <1>27, <1>28, <1>29, <1>30, <1>31, <1>32
  DEF Next, CallerStep, ExpiryStep

\* Nobody else has the timer in its hands while a caller has just locked it.
LEMMA HolderAlone ==
  ASSUME BaseInv, NEW p \in Callers, pc[p] = "locked", NEW q \in Callers, InHands(q)
  PROVE  tm[q] # tm[p]
<1> USE DEF BaseInv, CallerInv, Holding, Parking, IrqsOff, InHands
<1>1. rb[p] \in Cpus /\ base[tm[p]] = rb[p] /\ lock[rb[p]] = p
  OBVIOUS
<1>2. CASE pc[q] \in {"switch", "enqueue"}
  BY <1>1, <1>2
<1>3. CASE pc[q] \in Parking
  BY <1>1, <1>3, ConstAssumption
<1> QED
  BY <1>2, <1>3

\* Steps that park no timer and pick none up
LEMMA ParkFrame ==
  ASSUME BaseInv, TypeOK', base' = base,
         \A q \in Callers : pc'[q] \in Parking <=> pc[q] \in Parking,
         \A q \in Callers : pc[q] \in Parking => tm'[q] = tm[q]
  PROVE  ParkInv'
  BY DEF BaseInv, TypeOK, ParkInv, Parks

\* Steps that leave the queues, and the timers in the callers' hands, alone
LEMMA QueueFrame ==
  ASSUME BaseInv, TypeOK', UNCHANGED <<base, queued, active, running, online>>,
         \A q \in Callers : InHands(q)' <=> InHands(q),
         \A q \in Callers : InHands(q) => /\ tm'[q] = tm[q] /\ rb'[q] = rb[q]
                                        /\ was_armed'[q] = was_armed[q]
  PROVE  QueueInv'
  BY DEF BaseInv, TypeOK, QueueInv

\* Every step keeps what is known of a caller inside a locked or parking section.
LEMMA CallerInvStep == BaseInv /\ TypeOK' /\ Next => CallerInv'
<1> SUFFICES ASSUME BaseInv, TypeOK', Next PROVE CallerInv'
  OBVIOUS
<1> USE ConstAssumption DEF BaseInv, TypeOK, ExpiryInv, CallerInv, ParkInv, QueueInv, IrqsOff, InHands, shared, locals, expiry, Holding, Parking, ActReads
<1>1. ASSUME NEW p \in Callers, NEW t \in Timers, BeginStart(p, t) \/ BeginCancel(p, t)
      PROVE  CallerInv'
  <2>1. CASE BeginStart(p, t)
    BY <2>1 DEF BeginStart
  <2>2. CASE BeginCancel(p, t)
    BY <2>2 DEF BeginCancel, Ops, Cancels
  <2> QED
    BY <1>1, <2>1, <2>2
<1>2. ASSUME NEW p \in Callers, LockRead(p) PROVE CallerInv'
  BY <1>2 DEF LockRead, Goto
<1>3. ASSUME NEW p \in Callers, LockAcquire(p) PROVE CallerInv'
  <2>1. CASE base[tm[p]] = rb[p]
    BY <1>3, <2>1 DEF LockAcquire, Goto, Lock, Occupied
  <2>2. CASE ~(base[tm[p]] = rb[p])
    BY <1>3, <2>2 DEF LockAcquire, Goto, Lock, Occupied
  <2> QED
    BY <2>1, <2>2
<1>4. ASSUME NEW p \in Callers, StartKeep(p) PROVE CallerInv'
  BY <1>4 DEF StartKeep, Goto, EnqueueIn, KeepBase
<1>5. ASSUME NEW p \in Callers, StartRemove(p) PROVE CallerInv'
  BY <1>5 DEF StartRemove, Goto, RemoveFrom, TargetBase
<1>6. ASSUME NEW p \in Callers, Enqueue(p) PROVE CallerInv'
  BY <1>6 DEF Enqueue, Goto, EnqueueIn
<1>7. ASSUME NEW p \in Callers, StartDone(p) PROVE CallerInv'
  BY <1>7 DEF StartDone, Return, Unlock
<1>8. ASSUME NEW p \in Callers, StartExpired(p) PROVE CallerInv'
  BY <1>8 DEF StartExpired, Return, Unlock, RemoveFrom
<1>9. ASSUME NEW p \in Callers, SwitchStay(p) PROVE CallerInv'
  BY <1>9 DEF SwitchStay, Goto
<1>10. ASSUME NEW p \in Callers, SwitchRetarget(p) PROVE CallerInv'
  BY <1>10 DEF SwitchRetarget, MayRefuse
<1>11. ASSUME NEW p \in Callers, SwitchPark(p) PROVE CallerInv'
  BY <1>11 DEF SwitchPark, Goto, Unlock
<1>12. ASSUME NEW p \in Callers, SwitchAccept(p) PROVE CallerInv'
  BY <1>12 DEF SwitchAccept, Goto, Lock
<1>13. ASSUME NEW p \in Callers, SwitchRefuse(p) PROVE CallerInv'
  BY <1>13 DEF SwitchRefuse, Goto, MayRefuse
<1>14. ASSUME NEW p \in Callers, SwitchBack(p) PROVE CallerInv'
  BY <1>14 DEF SwitchBack, Goto, Lock
<1>15. ASSUME NEW p \in Callers, ActBase(p) PROVE CallerInv'
  BY <1>15 DEF ActBase, Goto
<1>16. ASSUME NEW p \in Callers, ActSeq(p) PROVE CallerInv'
  BY <1>16 DEF ActSeq, Goto, SeqOf
<1>17. ASSUME NEW p \in Callers, ActQueued(p) PROVE CallerInv'
  BY <1>17 DEF ActQueued, Goto
<1>18. ASSUME NEW p \in Callers, ActRunning(p) PROVE CallerInv'
  BY <1>18 DEF ActRunning, Goto, RunningOn
<1>19. ASSUME NEW p \in Callers, ActRetry(p) PROVE CallerInv'
  BY <1>19 DEF ActRetry, Goto, SeqOf
<1>20. ASSUME NEW p \in Callers, ActRecheck(p) PROVE CallerInv'
  <2>1. CASE base[tm[p]] # rb[p]
    BY <1>20, <2>1 DEF ActRecheck, Goto, Return
  <2>2. CASE ~(base[tm[p]] # rb[p])
    BY <1>20, <2>2 DEF ActRecheck, Goto, Return
  <2> QED
    BY <2>1, <2>2
<1>21. ASSUME NEW p \in Callers, CancelRunning(p) PROVE CallerInv'
  <2>1. CASE op[p] = "cancel"
    BY <1>21, <2>1 DEF CancelRunning, Goto, Return, Unlock
  <2>2. CASE ~(op[p] = "cancel")
    BY <1>21, <2>2 DEF CancelRunning, Goto, Return, Unlock
  <2> QED
    BY <2>1, <2>2
<1>22. ASSUME NEW p \in Callers, CancelRemove(p) PROVE CallerInv'
  BY <1>22 DEF CancelRemove, Return, Unlock, RemoveFrom
<1>23. ASSUME NEW c \in Cpus, ExpBegin(c) PROVE CallerInv'
  BY <1>23 DEF ExpBegin, Lock, Occupied
<1>24. ASSUME NEW c \in Cpus, ExpSelect(c) PROVE CallerInv'
  BY <1>24 DEF ExpSelect
<1>25. ASSUME NEW c \in Cpus, ExpEnd(c) PROVE CallerInv'
  <2>1. lock[c] = c /\ \A p \in Callers : pc[p] \in Holding => rb[p] # c
    BY SMTT(30), <1>25 DEF ExpEnd
  <2>2. \A p \in Callers : pc[p] \in Holding => lock'[rb[p]] = lock[rb[p]]
    BY <1>25, <2>1 DEF ExpEnd, Unlock
  <2>3. UNCHANGED <<base, online, locals>>
    BY <1>25 DEF ExpEnd
  <2> QED
    BY <2>2, <2>3
<1>26. ASSUME NEW c \in Cpus, ExpBarrier1(c) PROVE CallerInv'
  BY <1>26 DEF ExpBarrier1, Barrier
<1>27. ASSUME NEW c \in Cpus, ExpDequeue(c) PROVE CallerInv'
  BY <1>27 DEF ExpDequeue, Unlock, RemoveFrom
<1>28. ASSUME NEW c \in Cpus, ExpReturn(c) PROVE CallerInv'
  <2>1. CASE UNCHANGED <<queued, active>>
    BY <1>28, <2>1 DEF ExpReturn, Lock
  <2>2. CASE EnqueueIn(etm[c], c)
    BY <1>28, <2>2 DEF ExpReturn, Lock, EnqueueIn
  <2> QED
    BY <1>28, <2>1, <2>2 DEF ExpReturn
<1>29. ASSUME NEW c \in Cpus, ExpBarrier2(c) PROVE CallerInv'
  BY <1>29 DEF ExpBarrier2, Barrier
<1>30. ASSUME NEW c \in Cpus, ExpClear(c) PROVE CallerInv'
  BY <1>30 DEF ExpClear
<1>31. ASSUME NEW c \in Cpus, CpuDying(c) PROVE CallerInv'
  BY <1>31 DEF CpuDying
<1>32. ASSUME NEW c \in Cpus, CpuStarting(c) PROVE CallerInv'
  BY <1>32 DEF CpuStarting, Occupied
<1> HIDE DEF BaseInv, TypeOK, ExpiryInv, CallerInv, ParkInv, QueueInv, IrqsOff, InHands
<1> QED
  BY <1>1, <1>2, <1>3, <1>4, <1>5, <1>6, <1>7, <1>8, <1>9, <1>10, <1>11,
     <1>12, <1>13, <1>14, <1>15, <1>16, <1>17, <1>18, <1>19, <1>20, <1>21, <1>22,
     <1>23, <1>24, <1>25, <1>26, <1>27, <1>28, <1>29, <1>30, <1>31, <1>32
  DEF Next, CallerStep, ExpiryStep

\* Every step keeps a timer on migration_base in exactly one caller's hands.
LEMMA ParkInvStep == BaseInv /\ TypeOK' /\ Next => ParkInv'
<1> SUFFICES ASSUME BaseInv, TypeOK', Next PROVE ParkInv'
  OBVIOUS
<1> USE ConstAssumption DEF BaseInv, TypeOK, CallerInv, ParkInv, Parks, IrqsOff, shared, locals, expiry, Holding, Parking, ActReads
<1>1. ASSUME NEW p \in Callers, NEW t \in Timers, BeginStart(p, t) \/ BeginCancel(p, t)
      PROVE  ParkInv'
  <2>1. base' = base /\ \A q \in Callers : pc'[q] \in Parking <=> pc[q] \in Parking
    BY <1>1 DEF BeginStart, BeginCancel
  <2>2. \A q \in Callers : pc[q] \in Parking => tm'[q] = tm[q]
    BY <1>1 DEF BeginStart, BeginCancel
  <2> QED
    BY <2>1, <2>2, ParkFrame
<1>2. ASSUME NEW p \in Callers, LockRead(p) PROVE ParkInv'
  BY <1>2 DEF LockRead, Goto
<1>3. ASSUME NEW p \in Callers, LockAcquire(p) PROVE ParkInv'
  <2>1. base' = base /\ UNCHANGED tm
    BY <1>3 DEF LockAcquire, Goto
  <2>2. \A q \in Callers : pc'[q] \in Parking <=> pc[q] \in Parking
    BY <1>3 DEF LockAcquire, Goto
  <2> QED
    BY <2>1, <2>2, ParkFrame
<1>4. ASSUME NEW p \in Callers, StartKeep(p) PROVE ParkInv'
  BY <1>4 DEF StartKeep, Goto, EnqueueIn, KeepBase
<1>5. ASSUME NEW p \in Callers, StartRemove(p) PROVE ParkInv'
  BY <1>5 DEF StartRemove, Goto, RemoveFrom, TargetBase
<1>6. ASSUME NEW p \in Callers, Enqueue(p) PROVE ParkInv'
  BY <1>6 DEF Enqueue, Goto, EnqueueIn
<1>7. ASSUME NEW p \in Callers, StartDone(p) PROVE ParkInv'
  BY <1>7 DEF StartDone, Return, Unlock
<1>8. ASSUME NEW p \in Callers, StartExpired(p) PROVE ParkInv'
  BY <1>8 DEF StartExpired, Return, Unlock, RemoveFrom
<1>9. ASSUME NEW p \in Callers, SwitchStay(p) PROVE ParkInv'
  BY <1>9 DEF SwitchStay, Goto
<1>10. ASSUME NEW p \in Callers, SwitchRetarget(p) PROVE ParkInv'
  BY <1>10 DEF SwitchRetarget, MayRefuse
<1>11. ASSUME NEW p \in Callers, SwitchPark(p) PROVE ParkInv'
  BY <1>11 DEF SwitchPark, Goto, Unlock
<1>12. ASSUME NEW p \in Callers, SwitchAccept(p) PROVE ParkInv'
  BY <1>12 DEF SwitchAccept, Goto, Lock
<1>13. ASSUME NEW p \in Callers, SwitchRefuse(p) PROVE ParkInv'
  BY <1>13 DEF SwitchRefuse, Goto, MayRefuse
<1>14. ASSUME NEW p \in Callers, SwitchBack(p) PROVE ParkInv'
  BY <1>14 DEF SwitchBack, Goto, Lock
<1>15. ASSUME NEW p \in Callers, ActBase(p) PROVE ParkInv'
  BY <1>15 DEF ActBase, Goto
<1>16. ASSUME NEW p \in Callers, ActSeq(p) PROVE ParkInv'
  BY <1>16 DEF ActSeq, Goto, SeqOf
<1>17. ASSUME NEW p \in Callers, ActQueued(p) PROVE ParkInv'
  BY <1>17 DEF ActQueued, Goto
<1>18. ASSUME NEW p \in Callers, ActRunning(p) PROVE ParkInv'
  BY <1>18 DEF ActRunning, Goto, RunningOn
<1>19. ASSUME NEW p \in Callers, ActRetry(p) PROVE ParkInv'
  BY <1>19 DEF ActRetry, Goto, SeqOf
<1>20. ASSUME NEW p \in Callers, ActRecheck(p) PROVE ParkInv'
  <2>1. base' = base /\ UNCHANGED tm
    BY <1>20 DEF ActRecheck, Goto, Return
  <2>2. \A q \in Callers : pc'[q] \in Parking <=> pc[q] \in Parking
    BY <1>20 DEF ActRecheck, Goto, Return
  <2> QED
    BY <2>1, <2>2, ParkFrame
<1>21. ASSUME NEW p \in Callers, CancelRunning(p) PROVE ParkInv'
  <2>1. base' = base /\ UNCHANGED tm
    BY <1>21 DEF CancelRunning, Goto, Return
  <2>2. \A q \in Callers : pc'[q] \in Parking <=> pc[q] \in Parking
    BY <1>21 DEF CancelRunning, Goto, Return
  <2> QED
    BY <2>1, <2>2, ParkFrame
<1>22. ASSUME NEW p \in Callers, CancelRemove(p) PROVE ParkInv'
  BY <1>22 DEF CancelRemove, Return, Unlock, RemoveFrom
<1>23. ASSUME NEW c \in Cpus, ExpBegin(c) PROVE ParkInv'
  BY <1>23 DEF ExpBegin, Lock, Occupied
<1>24. ASSUME NEW c \in Cpus, ExpSelect(c) PROVE ParkInv'
  BY <1>24 DEF ExpSelect
<1>25. ASSUME NEW c \in Cpus, ExpEnd(c) PROVE ParkInv'
  BY <1>25 DEF ExpEnd, Unlock
<1>26. ASSUME NEW c \in Cpus, ExpBarrier1(c) PROVE ParkInv'
  BY <1>26 DEF ExpBarrier1, Barrier
<1>27. ASSUME NEW c \in Cpus, ExpDequeue(c) PROVE ParkInv'
  BY <1>27 DEF ExpDequeue, Unlock, RemoveFrom
<1>28. ASSUME NEW c \in Cpus, ExpReturn(c) PROVE ParkInv'
  <2>1. CASE UNCHANGED <<queued, active>>
    BY <1>28, <2>1 DEF ExpReturn, Lock
  <2>2. CASE EnqueueIn(etm[c], c)
    BY <1>28, <2>2 DEF ExpReturn, Lock, EnqueueIn
  <2> QED
    BY <1>28, <2>1, <2>2 DEF ExpReturn
<1>29. ASSUME NEW c \in Cpus, ExpBarrier2(c) PROVE ParkInv'
  BY <1>29 DEF ExpBarrier2, Barrier
<1>30. ASSUME NEW c \in Cpus, ExpClear(c) PROVE ParkInv'
  BY <1>30 DEF ExpClear
<1>31. ASSUME NEW c \in Cpus, CpuDying(c) PROVE ParkInv'
  BY <1>31 DEF CpuDying
<1>32. ASSUME NEW c \in Cpus, CpuStarting(c) PROVE ParkInv'
  BY <1>32 DEF CpuStarting, Occupied
<1> HIDE DEF BaseInv, TypeOK, CallerInv, ParkInv, Parks, IrqsOff
<1> QED
  BY <1>1, <1>2, <1>3, <1>4, <1>5, <1>6, <1>7, <1>8, <1>9, <1>10, <1>11,
     <1>12, <1>13, <1>14, <1>15, <1>16, <1>17, <1>18, <1>19, <1>20, <1>21, <1>22,
     <1>23, <1>24, <1>25, <1>26, <1>27, <1>28, <1>29, <1>30, <1>31, <1>32
  DEF Next, CallerStep, ExpiryStep

\* Every step keeps the queues, is_queued and timer->base consistent.
LEMMA QueueInvStep == BaseInv /\ TypeOK' /\ Next => QueueInv'
<1> SUFFICES ASSUME BaseInv, TypeOK', Next PROVE QueueInv'
  OBVIOUS
<1> USE ConstAssumption DEF BaseInv, TypeOK, ExpiryInv, CallerInv, ParkInv, QueueInv, IrqsOff, InHands, Parks, shared, locals, expiry, Holding, Parking, ActReads
<1>1. ASSUME NEW p \in Callers, NEW t \in Timers, BeginStart(p, t) \/ BeginCancel(p, t)
      PROVE  QueueInv'
  <2>1. UNCHANGED <<base, queued, active, running, online, rb, was_armed>>
    BY <1>1 DEF BeginStart, BeginCancel
  <2>2. \A q \in Callers : InHands(q)' <=> InHands(q)
    BY <1>1 DEF BeginStart, BeginCancel
  <2>3. \A q \in Callers : InHands(q) => tm'[q] = tm[q]
    BY <1>1 DEF BeginStart, BeginCancel
  <2> QED
    BY <2>1, <2>2, <2>3, QueueFrame
<1>2. ASSUME NEW p \in Callers, LockRead(p) PROVE QueueInv'
  BY <1>2 DEF LockRead, Goto
<1>3. ASSUME NEW p \in Callers, LockAcquire(p) PROVE QueueInv'
  <2>1. UNCHANGED <<base, queued, active, running, online, tm>>
    BY <1>3 DEF LockAcquire, Goto
  <2>2. \A q \in Callers : InHands(q)' <=> InHands(q)
    BY <1>3 DEF LockAcquire, Goto
  <2>3. \A q \in Callers : InHands(q) => rb'[q] = rb[q] /\ was_armed'[q] = was_armed[q]
    BY <1>3 DEF LockAcquire, Goto
  <2> QED
    BY <2>1, <2>2, <2>3, QueueFrame
<1>4. ASSUME NEW p \in Callers, StartKeep(p) PROVE QueueInv'
  BY <1>4 DEF StartKeep, Goto, EnqueueIn, KeepBase
<1>5. ASSUME NEW p \in Callers, StartRemove(p) PROVE QueueInv'
  <2>1. queued' = queued /\ UNCHANGED <<base, running, online, tm, rb>>
    BY <1>5 DEF StartRemove, Goto, RemoveFrom
  <2>2. \A c \in Cpus : active'[c] = active[c] \ {tm[p]}
    BY <1>5 DEF StartRemove, RemoveFrom
  <2>3. InHands(p)' /\ \A q \in Callers \ {p} : InHands(q)' <=> InHands(q)
    BY <1>5 DEF StartRemove, Goto
  <2>4. pc[p] = "locked" /\ base[tm[p]] = rb[p] /\ lock[rb[p]] = p
    BY <1>5 DEF StartRemove
  <2>5. \A q \in Callers : InHands(q) => tm[q] # tm[p]
    BY <2>4, HolderAlone
  <2>6. queued[tm[p]] => online[rb[p]]
    <3>1. queued[tm[p]] => tm[p] \in active[rb[p]] /\ rb[p] \in Cpus
      BY <2>4, <2>5
    <3>2. \A c \in Cpus : ~online[c] => active[c] = {}
      BY DEF QueueInv
    <3> QED
      BY <3>1, <3>2
  <2>7. was_armed' = [was_armed EXCEPT ![p] = queued[tm[p]]]
    BY <1>5 DEF StartRemove
  <2>8. \A q \in Callers : InHands(q)' =>
           /\ \A c \in Cpus : tm[q] \notin active'[c]
           /\ queued[tm[q]] => online[rb[q]]
           /\ was_armed'[q] => queued[tm[q]]
    BY <2>2, <2>3, <2>6, <2>7 DEF QueueInv
  <2>9. \A t \in Timers : queued[t] =>
           \/ base[t] \in Cpus /\ t \in active'[base[t]]
           \/ \E q \in Callers : tm[q] = t /\ InHands(q)'
    BY <2>2, <2>3 DEF QueueInv
  <2> QED
    BY <2>1, <2>2, <2>8, <2>9 DEF QueueInv
<1>6. ASSUME NEW p \in Callers, Enqueue(p) PROVE QueueInv'
  BY <1>6 DEF Enqueue, Goto, EnqueueIn
<1>7. ASSUME NEW p \in Callers, StartDone(p) PROVE QueueInv'
  <2>1. UNCHANGED <<base, queued, active, running, online, tm>>
    BY <1>7 DEF StartDone, Return
  <2>2. \A q \in Callers : InHands(q)' <=> InHands(q)
    BY <1>7 DEF StartDone, Return
  <2>3. \A q \in Callers : InHands(q) => rb'[q] = rb[q] /\ was_armed'[q] = was_armed[q]
    <3>1. TypeOK
      OBVIOUS
    <3> HIDE DEF BaseInv, ExpiryInv, CallerInv, ParkInv, QueueInv
    <3>2. pc[p] = "armed"
      BY <1>7 DEF StartDone
    <3>3. \A q \in Callers \ {p} : rb'[q] = rb[q] /\ was_armed'[q] = was_armed[q]
      BY <1>7, <3>1 DEF StartDone, Return
    <3> QED
      BY <3>2, <3>3
  <2> QED
    BY <2>1, <2>2, <2>3, QueueFrame
<1>8. ASSUME NEW p \in Callers, StartExpired(p) PROVE QueueInv'
  BY <1>8 DEF StartExpired, Return, Unlock, RemoveFrom
<1>9. ASSUME NEW p \in Callers, SwitchStay(p) PROVE QueueInv'
  BY <1>9 DEF SwitchStay, Goto
<1>10. ASSUME NEW p \in Callers, SwitchRetarget(p) PROVE QueueInv'
  BY <1>10 DEF SwitchRetarget, MayRefuse
<1>11. ASSUME NEW p \in Callers, SwitchPark(p) PROVE QueueInv'
  BY <1>11 DEF SwitchPark, Goto, Unlock
<1>12. ASSUME NEW p \in Callers, SwitchAccept(p) PROVE QueueInv'
  BY <1>12 DEF SwitchAccept, Goto, Lock
<1>13. ASSUME NEW p \in Callers, SwitchRefuse(p) PROVE QueueInv'
  BY <1>13 DEF SwitchRefuse, Goto, MayRefuse
<1>14. ASSUME NEW p \in Callers, SwitchBack(p) PROVE QueueInv'
  BY <1>14 DEF SwitchBack, Goto, Lock
<1>15. ASSUME NEW p \in Callers, ActBase(p) PROVE QueueInv'
  BY <1>15 DEF ActBase, Goto
<1>16. ASSUME NEW p \in Callers, ActSeq(p) PROVE QueueInv'
  BY <1>16 DEF ActSeq, Goto, SeqOf
<1>17. ASSUME NEW p \in Callers, ActQueued(p) PROVE QueueInv'
  BY <1>17 DEF ActQueued, Goto
<1>18. ASSUME NEW p \in Callers, ActRunning(p) PROVE QueueInv'
  BY <1>18 DEF ActRunning, Goto, RunningOn
<1>19. ASSUME NEW p \in Callers, ActRetry(p) PROVE QueueInv'
  BY <1>19 DEF ActRetry, Goto, SeqOf
<1>20. ASSUME NEW p \in Callers, ActRecheck(p) PROVE QueueInv'
  <2>1. UNCHANGED <<base, queued, active, running, online, tm>>
    BY <1>20 DEF ActRecheck, Goto, Return
  <2>2. \A q \in Callers : InHands(q)' <=> InHands(q)
    BY <1>20 DEF ActRecheck, Goto, Return
  <2>3. \A q \in Callers : InHands(q) => rb'[q] = rb[q] /\ was_armed'[q] = was_armed[q]
    BY <1>20 DEF ActRecheck, Goto, Return
  <2> QED
    BY <2>1, <2>2, <2>3, QueueFrame
<1>21. ASSUME NEW p \in Callers, CancelRunning(p) PROVE QueueInv'
  <2>1. UNCHANGED <<base, queued, active, running, online, tm>>
    BY <1>21 DEF CancelRunning, Goto, Return
  <2>2. \A q \in Callers : InHands(q)' <=> InHands(q)
    BY <1>21 DEF CancelRunning, Goto, Return
  <2>3. \A q \in Callers : InHands(q) => rb'[q] = rb[q] /\ was_armed'[q] = was_armed[q]
    BY <1>21 DEF CancelRunning, Goto, Return
  <2> QED
    BY <2>1, <2>2, <2>3, QueueFrame
<1>22. ASSUME NEW p \in Callers, CancelRemove(p) PROVE QueueInv'
  BY <1>22 DEF CancelRemove, Return, Unlock, RemoveFrom
<1>23. ASSUME NEW c \in Cpus, ExpBegin(c) PROVE QueueInv'
  BY <1>23 DEF ExpBegin, Lock, Occupied
<1>24. ASSUME NEW c \in Cpus, ExpSelect(c) PROVE QueueInv'
  BY <1>24 DEF ExpSelect
<1>25. ASSUME NEW c \in Cpus, ExpEnd(c) PROVE QueueInv'
  BY <1>25 DEF ExpEnd, Unlock
<1>26. ASSUME NEW c \in Cpus, ExpBarrier1(c) PROVE QueueInv'
  BY <1>26 DEF ExpBarrier1, Barrier
<1>27. ASSUME NEW c \in Cpus, ExpDequeue(c) PROVE QueueInv'
  BY <1>27 DEF ExpDequeue, Unlock, RemoveFrom
<1>28. ASSUME NEW c \in Cpus, ExpReturn(c) PROVE QueueInv'
  <2>1. CASE UNCHANGED <<queued, active>>
    BY <1>28, <2>1 DEF ExpReturn, Lock
  <2>2. CASE EnqueueIn(etm[c], c)
    BY <1>28, <2>2 DEF ExpReturn, Lock, EnqueueIn
  <2> QED
    BY <1>28, <2>1, <2>2 DEF ExpReturn
<1>29. ASSUME NEW c \in Cpus, ExpBarrier2(c) PROVE QueueInv'
  BY <1>29 DEF ExpBarrier2, Barrier
<1>30. ASSUME NEW c \in Cpus, ExpClear(c) PROVE QueueInv'
  BY <1>30 DEF ExpClear
<1>31. ASSUME NEW c \in Cpus, CpuDying(c) PROVE QueueInv'
  BY <1>31 DEF CpuDying
<1>32. ASSUME NEW c \in Cpus, CpuStarting(c) PROVE QueueInv'
  BY <1>32 DEF CpuStarting, Occupied
<1> HIDE DEF BaseInv, TypeOK, ExpiryInv, CallerInv, ParkInv, QueueInv, IrqsOff, InHands, Parks
<1> QED
  BY <1>1, <1>2, <1>3, <1>4, <1>5, <1>6, <1>7, <1>8, <1>9, <1>10, <1>11,
     <1>12, <1>13, <1>14, <1>15, <1>16, <1>17, <1>18, <1>19, <1>20, <1>21, <1>22,
     <1>23, <1>24, <1>25, <1>26, <1>27, <1>28, <1>29, <1>30, <1>31, <1>32
  DEF Next, CallerStep, ExpiryStep

\* A caller that is not inside hrtimer_active()
LEMMA ReaderAway ==
  ASSUME Observe, NEW p \in Callers, pc'[p] \notin ActReads
  PROVE  ReaderOK(p)'
<1>1. Inactive(p)' /\ pc'[p] # "idle" /\ op'[p] \in Cancels => quiet'[p]
  BY DEF Observe
<1> QED
  BY <1>1 DEF ReaderOK, ActReads

\* A caller that does not move, while nothing is armed, run or migrated
LEMMA ReaderStays ==
  ASSUME IInv, Observe, NEW q \in Callers, UNCHANGED <<base, running, seq, epc>>,
         \A t \in Timers : queued'[t] => queued[t],
         /\ pc'[q] = pc[q] /\ op'[q] = op[q] /\ tm'[q] = tm[q]
         /\ rb'[q] = rb[q] /\ rs'[q] = rs[q]
  PROVE  ReaderOK(q)'
<1>1. CASE pc[q] \notin ActReads
  BY <1>1, ReaderAway
<1>2. CASE pc[q] \in ActReads
  <2>1. Inactive(q)' /\ pc'[q] # "idle" /\ op'[q] \in Cancels => quiet'[q]
    BY DEF Observe
  <2>2. op[q] \in Cancels /\ pc[q] # "idle" /\ tm[q] \in Timers
    BY <1>2 DEF IInv, BaseInv, CallerInv, TypeOK, ActReads
  <2>3. quiet[q] => quiet'[q]
    BY <2>2 DEF Observe
  <2>4. strayed'[q] <=> strayed[q] \/ base[tm[q]] # rb[q]
    BY <1>2 DEF Observe
  <2>5. ReaderOK(q)
    BY DEF IInv, ReaderInv
  <2> QED
    BY <1>2, <2>1, <2>2, <2>3, <2>4, <2>5 DEF ReaderOK, Unquiet
<1> QED
  BY <1>1, <1>2

\* A step of caller p that arms and migrates nothing concerns only p.
LEMMA ReaderOthers ==
  ASSUME IInv, Observe, NEW p \in Callers, UNCHANGED <<base, running, seq, epc>>,
         \A t \in Timers : queued'[t] => queued[t],
         \A q \in Callers \ {p} : /\ pc'[q] = pc[q] /\ op'[q] = op[q] /\ tm'[q] = tm[q]
                                  /\ rb'[q] = rb[q] /\ rs'[q] = rs[q],
         ReaderOK(p)'
  PROVE  ReaderInv'
<1>1. ASSUME NEW q \in Callers, q # p PROVE ReaderOK(q)'
  BY <1>1, ReaderStays
<1> QED
  BY <1>1 DEF ReaderInv

\* Every step keeps what hrtimer_active() may conclude from its lockless reads.
LEMMA ReaderInvStep == IInv /\ BaseInv' /\ Next => ReaderInv'
<1> SUFFICES ASSUME IInv, BaseInv', Next PROVE ReaderInv'
  OBVIOUS
<1>0. Observe
  BY StepObserves
<1>T. TypeOK
  BY DEF IInv, BaseInv
<1>1. ASSUME NEW p \in Callers, NEW t \in Timers, BeginStart(p, t) \/ BeginCancel(p, t)
      PROVE  ReaderInv'
  <2>1. pc'[p] \notin ActReads
    BY <1>1, <1>T DEF BeginStart, BeginCancel, TypeOK, ActReads
  <2>2. UNCHANGED <<base, queued, running, seq, epc, rb, rs>>
    BY <1>1 DEF BeginStart, BeginCancel, shared, expiry
  <2>3. \A q \in Callers \ {p} : pc'[q] = pc[q] /\ op'[q] = op[q] /\ tm'[q] = tm[q]
    BY <1>1, <1>T DEF BeginStart, BeginCancel, TypeOK
  <2> QED
    BY <1>0, <2>1, <2>2, <2>3, ReaderAway, ReaderOthers
<1>2. ASSUME NEW p \in Callers, LockRead(p) PROVE ReaderInv'
  <2>1. ReaderOK(p)'
    <3>1. pc'[p] \notin ActReads
      BY <1>2, <1>T DEF LockRead, Goto, TypeOK, ActReads
    <3> QED
      BY <1>0, <3>1, ReaderAway
  <2>2. UNCHANGED <<base, running, seq, epc>> /\ \A t \in Timers : queued'[t] => queued[t]
    BY <1>2, <1>T DEF LockRead, Goto, TypeOK, shared, expiry
  <2>3. \A q \in Callers \ {p} : /\ pc'[q] = pc[q] /\ op'[q] = op[q] /\ tm'[q] = tm[q]
                                /\ rb'[q] = rb[q] /\ rs'[q] = rs[q]
    BY <1>2, <1>T DEF LockRead, Goto, TypeOK
  <2> QED
    BY <1>0, <2>1, <2>2, <2>3, ReaderOthers
<1>3. ASSUME NEW p \in Callers, LockAcquire(p) PROVE ReaderInv'
  <2>1. ReaderOK(p)'
    <3>1. pc'[p] \notin ActReads
      BY <1>3, <1>T DEF LockAcquire, Goto, TypeOK, ActReads
    <3> QED
      BY <1>0, <3>1, ReaderAway
  <2>2. UNCHANGED <<base, running, seq, epc>> /\ \A t \in Timers : queued'[t] => queued[t]
    BY <1>3, <1>T DEF LockAcquire, Goto, TypeOK, shared, expiry
  <2>3. \A q \in Callers \ {p} : /\ pc'[q] = pc[q] /\ op'[q] = op[q] /\ tm'[q] = tm[q]
                                /\ rb'[q] = rb[q] /\ rs'[q] = rs[q]
    BY <1>3, <1>T DEF LockAcquire, Goto, TypeOK
  <2> QED
    BY <1>0, <2>1, <2>2, <2>3, ReaderOthers
<1>4. ASSUME NEW p \in Callers, StartKeep(p) PROVE ReaderInv'
  BY SMTT(30), <1>0, <1>4, ConstAssumption DEF StartKeep, Goto, EnqueueIn, KeepBase, Observe, IInv, BaseInv, TypeOK,
     ExpiryInv, CallerInv, QueueInv, ReaderInv, ReaderOK, Unquiet, Inactive, InHands, IrqsOff,
     Holding, Parking, ActReads, Cancels, shared, locals, expiry
<1>5. ASSUME NEW p \in Callers, StartRemove(p) PROVE ReaderInv'
  <2>1. ReaderOK(p)'
    <3>1. pc'[p] \notin ActReads
      BY <1>5, <1>T DEF StartRemove, Goto, TypeOK, ActReads
    <3> QED
      BY <1>0, <3>1, ReaderAway
  <2>2. UNCHANGED <<base, running, seq, epc>> /\ \A t \in Timers : queued'[t] => queued[t]
    BY <1>5, <1>T DEF StartRemove, Goto, RemoveFrom, TypeOK, shared, expiry
  <2>3. \A q \in Callers \ {p} : /\ pc'[q] = pc[q] /\ op'[q] = op[q] /\ tm'[q] = tm[q]
                                /\ rb'[q] = rb[q] /\ rs'[q] = rs[q]
    BY <1>5, <1>T DEF StartRemove, Goto, TypeOK
  <2> QED
    BY <1>0, <2>1, <2>2, <2>3, ReaderOthers
<1>6. ASSUME NEW p \in Callers, Enqueue(p) PROVE ReaderInv'
  BY SMTT(30), <1>0, <1>6, ConstAssumption DEF Enqueue, Goto, EnqueueIn, Observe, IInv, BaseInv, TypeOK,
     ExpiryInv, CallerInv, QueueInv, ReaderInv, ReaderOK, Unquiet, Inactive, InHands, IrqsOff,
     Holding, Parking, ActReads, Cancels, shared, locals, expiry
<1>7. ASSUME NEW p \in Callers, StartDone(p) PROVE ReaderInv'
  <2>1. ReaderOK(p)'
    <3>1. pc'[p] \notin ActReads
      BY <1>7, <1>T DEF StartDone, Return, TypeOK, ActReads
    <3> QED
      BY <1>0, <3>1, ReaderAway
  <2>2. UNCHANGED <<base, running, seq, epc>> /\ \A t \in Timers : queued'[t] => queued[t]
    BY <1>7, <1>T DEF StartDone, Return, TypeOK, shared, expiry
  <2>3. \A q \in Callers \ {p} : /\ pc'[q] = pc[q] /\ op'[q] = op[q] /\ tm'[q] = tm[q]
                                /\ rb'[q] = rb[q] /\ rs'[q] = rs[q]
    BY <1>7, <1>T DEF StartDone, Return, TypeOK
  <2> QED
    BY <1>0, <2>1, <2>2, <2>3, ReaderOthers
<1>8. ASSUME NEW p \in Callers, StartExpired(p) PROVE ReaderInv'
  <2>1. ReaderOK(p)'
    <3>1. pc'[p] \notin ActReads
      BY <1>8, <1>T DEF StartExpired, Return, TypeOK, ActReads
    <3> QED
      BY <1>0, <3>1, ReaderAway
  <2>2. UNCHANGED <<base, running, seq, epc>> /\ \A t \in Timers : queued'[t] => queued[t]
    BY <1>8, <1>T DEF StartExpired, Return, RemoveFrom, TypeOK, shared, expiry
  <2>3. \A q \in Callers \ {p} : /\ pc'[q] = pc[q] /\ op'[q] = op[q] /\ tm'[q] = tm[q]
                                /\ rb'[q] = rb[q] /\ rs'[q] = rs[q]
    BY <1>8, <1>T DEF StartExpired, Return, TypeOK
  <2> QED
    BY <1>0, <2>1, <2>2, <2>3, ReaderOthers
<1>9. ASSUME NEW p \in Callers, SwitchStay(p) PROVE ReaderInv'
  <2>1. ReaderOK(p)'
    <3>1. pc'[p] \notin ActReads
      BY <1>9, <1>T DEF SwitchStay, Goto, TypeOK, ActReads
    <3> QED
      BY <1>0, <3>1, ReaderAway
  <2>2. UNCHANGED <<base, running, seq, epc>> /\ \A t \in Timers : queued'[t] => queued[t]
    BY <1>9, <1>T DEF SwitchStay, Goto, TypeOK, shared, expiry
  <2>3. \A q \in Callers \ {p} : /\ pc'[q] = pc[q] /\ op'[q] = op[q] /\ tm'[q] = tm[q]
                                /\ rb'[q] = rb[q] /\ rs'[q] = rs[q]
    BY <1>9, <1>T DEF SwitchStay, Goto, TypeOK
  <2> QED
    BY <1>0, <2>1, <2>2, <2>3, ReaderOthers
<1>10. ASSUME NEW p \in Callers, SwitchRetarget(p) PROVE ReaderInv'
  <2>1. ReaderOK(p)'
    <3>1. pc'[p] \notin ActReads
      BY <1>10, <1>T DEF SwitchRetarget, TypeOK, ActReads
    <3> QED
      BY <1>0, <3>1, ReaderAway
  <2>2. UNCHANGED <<base, running, seq, epc>> /\ \A t \in Timers : queued'[t] => queued[t]
    BY <1>10, <1>T DEF SwitchRetarget, TypeOK, shared, expiry
  <2>3. \A q \in Callers \ {p} : /\ pc'[q] = pc[q] /\ op'[q] = op[q] /\ tm'[q] = tm[q]
                                /\ rb'[q] = rb[q] /\ rs'[q] = rs[q]
    BY <1>10, <1>T DEF SwitchRetarget, TypeOK
  <2> QED
    BY <1>0, <2>1, <2>2, <2>3, ReaderOthers
<1>11. ASSUME NEW p \in Callers, SwitchPark(p) PROVE ReaderInv'
  BY SMTT(30), <1>0, <1>11, ConstAssumption DEF SwitchPark, Goto, Unlock, Observe, IInv, BaseInv, TypeOK,
     ExpiryInv, CallerInv, QueueInv, ReaderInv, ReaderOK, Unquiet, Inactive, InHands, IrqsOff,
     Holding, Parking, ActReads, Cancels, shared, locals, expiry
<1>12. ASSUME NEW p \in Callers, SwitchAccept(p) PROVE ReaderInv'
  BY SMTT(30), <1>0, <1>12, ConstAssumption DEF SwitchAccept, Goto, Lock, Observe, IInv, BaseInv, TypeOK,
     ExpiryInv, CallerInv, QueueInv, ReaderInv, ReaderOK, Unquiet, Inactive, InHands, IrqsOff,
     Holding, Parking, ActReads, Cancels, shared, locals, expiry
<1>13. ASSUME NEW p \in Callers, SwitchRefuse(p) PROVE ReaderInv'
  <2>1. ReaderOK(p)'
    <3>1. pc'[p] \notin ActReads
      BY <1>13, <1>T DEF SwitchRefuse, Goto, TypeOK, ActReads
    <3> QED
      BY <1>0, <3>1, ReaderAway
  <2>2. UNCHANGED <<base, running, seq, epc>> /\ \A t \in Timers : queued'[t] => queued[t]
    BY <1>13, <1>T DEF SwitchRefuse, Goto, TypeOK, shared, expiry
  <2>3. \A q \in Callers \ {p} : /\ pc'[q] = pc[q] /\ op'[q] = op[q] /\ tm'[q] = tm[q]
                                /\ rb'[q] = rb[q] /\ rs'[q] = rs[q]
    BY <1>13, <1>T DEF SwitchRefuse, Goto, TypeOK
  <2> QED
    BY <1>0, <2>1, <2>2, <2>3, ReaderOthers
<1>14. ASSUME NEW p \in Callers, SwitchBack(p) PROVE ReaderInv'
  BY SMTT(30), <1>0, <1>14, ConstAssumption DEF SwitchBack, Goto, Lock, Observe, IInv, BaseInv, TypeOK,
     ExpiryInv, CallerInv, QueueInv, ReaderInv, ReaderOK, Unquiet, Inactive, InHands, IrqsOff,
     Holding, Parking, ActReads, Cancels, shared, locals, expiry
<1>15. ASSUME NEW p \in Callers, ActBase(p) PROVE ReaderInv'
  <2>1. ReaderOK(p)'
    BY SMTT(30), <1>0, <1>15, ConstAssumption DEF ActBase, Goto, Observe, IInv, BaseInv, TypeOK,
       ExpiryInv, CallerInv, QueueInv, ReaderInv, ReaderOK, Unquiet, Inactive, InHands, Parking,
       ActReads, Cancels, shared, expiry
  <2>2. UNCHANGED <<base, running, seq, epc>> /\ \A t \in Timers : queued'[t] => queued[t]
    BY <1>15, <1>T DEF ActBase, Goto, TypeOK, shared, expiry
  <2>3. \A q \in Callers \ {p} : /\ pc'[q] = pc[q] /\ op'[q] = op[q] /\ tm'[q] = tm[q]
                                /\ rb'[q] = rb[q] /\ rs'[q] = rs[q]
    BY <1>15, <1>T DEF ActBase, Goto, TypeOK
  <2> QED
    BY <1>0, <2>1, <2>2, <2>3, ReaderOthers
<1>16. ASSUME NEW p \in Callers, ActSeq(p) PROVE ReaderInv'
  <2>1. ReaderOK(p)'
    BY SMTT(30), <1>0, <1>16, ConstAssumption DEF ActSeq, Goto, SeqOf, Observe, IInv, BaseInv, TypeOK,
       ExpiryInv, CallerInv, QueueInv, ReaderInv, ReaderOK, Unquiet, Inactive, InHands, Parking,
       ActReads, Cancels, shared, expiry
  <2>2. UNCHANGED <<base, running, seq, epc>> /\ \A t \in Timers : queued'[t] => queued[t]
    BY <1>16, <1>T DEF ActSeq, Goto, TypeOK, shared, expiry
  <2>3. \A q \in Callers \ {p} : /\ pc'[q] = pc[q] /\ op'[q] = op[q] /\ tm'[q] = tm[q]
                                /\ rb'[q] = rb[q] /\ rs'[q] = rs[q]
    BY <1>16, <1>T DEF ActSeq, Goto, TypeOK
  <2> QED
    BY <1>0, <2>1, <2>2, <2>3, ReaderOthers
<1>17. ASSUME NEW p \in Callers, ActQueued(p) PROVE ReaderInv'
  <2>1. ReaderOK(p)'
    BY SMTT(30), <1>0, <1>17, ConstAssumption DEF ActQueued, Goto, Observe, IInv, BaseInv, TypeOK,
       ExpiryInv, CallerInv, QueueInv, ReaderInv, ReaderOK, Unquiet, Inactive, InHands, Parking,
       ActReads, Cancels, shared, expiry
  <2>2. UNCHANGED <<base, running, seq, epc>> /\ \A t \in Timers : queued'[t] => queued[t]
    BY <1>17, <1>T DEF ActQueued, Goto, TypeOK, shared, expiry
  <2>3. \A q \in Callers \ {p} : /\ pc'[q] = pc[q] /\ op'[q] = op[q] /\ tm'[q] = tm[q]
                                /\ rb'[q] = rb[q] /\ rs'[q] = rs[q]
    BY <1>17, <1>T DEF ActQueued, Goto, TypeOK
  <2> QED
    BY <1>0, <2>1, <2>2, <2>3, ReaderOthers
<1>18. ASSUME NEW p \in Callers, ActRunning(p) PROVE ReaderInv'
  <2>1. ReaderOK(p)'
    BY SMTT(30), <1>0, <1>18, ConstAssumption DEF ActRunning, Goto, RunningOn, Observe, IInv, BaseInv, TypeOK,
       ExpiryInv, CallerInv, QueueInv, ReaderInv, ReaderOK, Unquiet, Inactive, InHands, Parking,
       ActReads, Cancels, shared, expiry
  <2>2. UNCHANGED <<base, running, seq, epc>> /\ \A t \in Timers : queued'[t] => queued[t]
    BY <1>18, <1>T DEF ActRunning, Goto, TypeOK, shared, expiry
  <2>3. \A q \in Callers \ {p} : /\ pc'[q] = pc[q] /\ op'[q] = op[q] /\ tm'[q] = tm[q]
                                /\ rb'[q] = rb[q] /\ rs'[q] = rs[q]
    BY <1>18, <1>T DEF ActRunning, Goto, TypeOK
  <2> QED
    BY <1>0, <2>1, <2>2, <2>3, ReaderOthers
<1>19. ASSUME NEW p \in Callers, ActRetry(p) PROVE ReaderInv'
  <2>1. ReaderOK(p)'
    BY SMTT(30), <1>0, <1>19, ConstAssumption DEF ActRetry, Goto, SeqOf, Observe, IInv, BaseInv, TypeOK,
       ExpiryInv, CallerInv, QueueInv, ReaderInv, ReaderOK, Unquiet, Inactive, InHands, Parking,
       ActReads, Cancels, shared, expiry
  <2>2. UNCHANGED <<base, running, seq, epc>> /\ \A t \in Timers : queued'[t] => queued[t]
    BY <1>19, <1>T DEF ActRetry, Goto, TypeOK, shared, expiry
  <2>3. \A q \in Callers \ {p} : /\ pc'[q] = pc[q] /\ op'[q] = op[q] /\ tm'[q] = tm[q]
                                /\ rb'[q] = rb[q] /\ rs'[q] = rs[q]
    BY <1>19, <1>T DEF ActRetry, Goto, TypeOK
  <2> QED
    BY <1>0, <2>1, <2>2, <2>3, ReaderOthers
<1>20. ASSUME NEW p \in Callers, ActRecheck(p) PROVE ReaderInv'
  <2>1. ReaderOK(p)'
    BY SMTT(30), <1>0, <1>20, ConstAssumption DEF ActRecheck, Goto, Return, Observe, IInv, BaseInv, TypeOK,
       ExpiryInv, CallerInv, QueueInv, ReaderInv, ReaderOK, Unquiet, Inactive, InHands, Parking,
       ActReads, Cancels, shared, expiry
  <2>2. UNCHANGED <<base, running, seq, epc>> /\ \A t \in Timers : queued'[t] => queued[t]
    BY <1>20, <1>T DEF ActRecheck, Goto, Return, TypeOK, shared, expiry
  <2>3. \A q \in Callers \ {p} : /\ pc'[q] = pc[q] /\ op'[q] = op[q] /\ tm'[q] = tm[q]
                                /\ rb'[q] = rb[q] /\ rs'[q] = rs[q]
    BY <1>20, <1>T DEF ActRecheck, Goto, Return, TypeOK
  <2> QED
    BY <1>0, <2>1, <2>2, <2>3, ReaderOthers
<1>21. ASSUME NEW p \in Callers, CancelRunning(p) PROVE ReaderInv'
  <2>1. ReaderOK(p)'
    <3>1. pc'[p] \notin ActReads
      BY <1>21, <1>T DEF CancelRunning, Goto, Return, TypeOK, ActReads
    <3> QED
      BY <1>0, <3>1, ReaderAway
  <2>2. UNCHANGED <<base, running, seq, epc>> /\ \A t \in Timers : queued'[t] => queued[t]
    BY <1>21, <1>T DEF CancelRunning, Goto, Return, TypeOK, shared, expiry
  <2>3. \A q \in Callers \ {p} : /\ pc'[q] = pc[q] /\ op'[q] = op[q] /\ tm'[q] = tm[q]
                                /\ rb'[q] = rb[q] /\ rs'[q] = rs[q]
    BY <1>21, <1>T DEF CancelRunning, Goto, Return, TypeOK
  <2> QED
    BY <1>0, <2>1, <2>2, <2>3, ReaderOthers
<1>22. ASSUME NEW p \in Callers, CancelRemove(p) PROVE ReaderInv'
  <2>1. ReaderOK(p)'
    <3>1. pc'[p] \notin ActReads
      BY <1>22, <1>T DEF CancelRemove, Return, TypeOK, ActReads
    <3> QED
      BY <1>0, <3>1, ReaderAway
  <2>2. UNCHANGED <<base, running, seq, epc>> /\ \A t \in Timers : queued'[t] => queued[t]
    BY <1>22, <1>T DEF CancelRemove, Return, RemoveFrom, TypeOK, shared, expiry
  <2>3. \A q \in Callers \ {p} : /\ pc'[q] = pc[q] /\ op'[q] = op[q] /\ tm'[q] = tm[q]
                                /\ rb'[q] = rb[q] /\ rs'[q] = rs[q]
    BY <1>22, <1>T DEF CancelRemove, Return, TypeOK
  <2> QED
    BY <1>0, <2>1, <2>2, <2>3, ReaderOthers
<1>23. ASSUME NEW c \in Cpus, ExpBegin(c) PROVE ReaderInv'
  BY SMTT(30), <1>0, <1>23, ConstAssumption DEF ExpBegin, Lock, Occupied, Observe, IInv, BaseInv, TypeOK,
     ExpiryInv, CallerInv, QueueInv, ReaderInv, ReaderOK, Unquiet, Inactive, InHands, IrqsOff,
     Holding, Parking, ActReads, Cancels, shared, locals, expiry
<1>24. ASSUME NEW c \in Cpus, ExpSelect(c) PROVE ReaderInv'
  BY SMTT(30), <1>0, <1>24, ConstAssumption DEF ExpSelect, Observe, IInv, BaseInv, TypeOK,
     ExpiryInv, CallerInv, QueueInv, ReaderInv, ReaderOK, Unquiet, Inactive, InHands, IrqsOff,
     Holding, Parking, ActReads, Cancels, shared, locals, expiry
<1>25. ASSUME NEW c \in Cpus, ExpEnd(c) PROVE ReaderInv'
  BY SMTT(30), <1>0, <1>25, ConstAssumption DEF ExpEnd, Unlock, Observe, IInv, BaseInv, TypeOK,
     ExpiryInv, CallerInv, QueueInv, ReaderInv, ReaderOK, Unquiet, Inactive, InHands, IrqsOff,
     Holding, Parking, ActReads, Cancels, shared, locals, expiry
<1>26. ASSUME NEW c \in Cpus, ExpBarrier1(c) PROVE ReaderInv'
  BY SMTT(30), <1>0, <1>26, ConstAssumption DEF ExpBarrier1, Barrier, Observe, IInv, BaseInv, TypeOK,
     ExpiryInv, CallerInv, QueueInv, ReaderInv, ReaderOK, Unquiet, Inactive, InHands, IrqsOff,
     Holding, Parking, ActReads, Cancels, shared, locals, expiry
<1>27. ASSUME NEW c \in Cpus, ExpDequeue(c) PROVE ReaderInv'
  BY SMTT(30), <1>0, <1>27, ConstAssumption DEF ExpDequeue, Unlock, RemoveFrom, Observe, IInv, BaseInv, TypeOK,
     ExpiryInv, CallerInv, QueueInv, ReaderInv, ReaderOK, Unquiet, Inactive, InHands, IrqsOff,
     Holding, Parking, ActReads, Cancels, shared, locals, expiry
<1>28. ASSUME NEW c \in Cpus, ExpReturn(c) PROVE ReaderInv'
  BY SMTT(30), <1>0, <1>28, ConstAssumption DEF ExpReturn, Lock, EnqueueIn, Occupied, Observe, IInv, BaseInv, TypeOK,
     ExpiryInv, CallerInv, QueueInv, ReaderInv, ReaderOK, Unquiet, Inactive, InHands, IrqsOff,
     Holding, Parking, ActReads, Cancels, shared, locals, expiry
<1>29. ASSUME NEW c \in Cpus, ExpBarrier2(c) PROVE ReaderInv'
  BY SMTT(30), <1>0, <1>29, ConstAssumption DEF ExpBarrier2, Barrier, Observe, IInv, BaseInv, TypeOK,
     ExpiryInv, CallerInv, QueueInv, ReaderInv, ReaderOK, Unquiet, Inactive, InHands, IrqsOff,
     Holding, Parking, ActReads, Cancels, shared, locals, expiry
<1>30. ASSUME NEW c \in Cpus, ExpClear(c) PROVE ReaderInv'
  BY SMTT(30), <1>0, <1>30, ConstAssumption DEF ExpClear, Observe, IInv, BaseInv, TypeOK,
     ExpiryInv, CallerInv, QueueInv, ReaderInv, ReaderOK, Unquiet, Inactive, InHands, IrqsOff,
     Holding, Parking, ActReads, Cancels, shared, locals, expiry
<1>31. ASSUME NEW c \in Cpus, CpuDying(c) PROVE ReaderInv'
  BY SMTT(30), <1>0, <1>31, ConstAssumption DEF CpuDying, Observe, IInv, BaseInv, TypeOK,
     ExpiryInv, CallerInv, QueueInv, ReaderInv, ReaderOK, Unquiet, Inactive, InHands, IrqsOff,
     Holding, Parking, ActReads, Cancels, shared, locals, expiry
<1>32. ASSUME NEW c \in Cpus, CpuStarting(c) PROVE ReaderInv'
  BY SMTT(30), <1>0, <1>32, ConstAssumption DEF CpuStarting, Occupied, Observe, IInv, BaseInv, TypeOK,
     ExpiryInv, CallerInv, QueueInv, ReaderInv, ReaderOK, Unquiet, Inactive, InHands, IrqsOff,
     Holding, Parking, ActReads, Cancels, shared, locals, expiry
<1> QED
  BY <1>1, <1>2, <1>3, <1>4, <1>5, <1>6, <1>7, <1>8, <1>9, <1>10, <1>11,
     <1>12, <1>13, <1>14, <1>15, <1>16, <1>17, <1>18, <1>19, <1>20, <1>21, <1>22,
     <1>23, <1>24, <1>25, <1>26, <1>27, <1>28, <1>29, <1>30, <1>31, <1>32
  DEF Next, CallerStep, ExpiryStep

-----------------------------------------------------------------------------
(* Theorems                                                                *)

\* The inductive invariant holds initially.
LEMMA InitInv == Init => IInv
<1> SUFFICES ASSUME Init PROVE IInv
  OBVIOUS
<1> USE ConstAssumption DEF Init
<1>1. TypeOK
  BY DEF TypeOK, Ops
<1>2. ExpiryInv
  BY DEF ExpiryInv
<1>3. CallerInv /\ ParkInv
  BY DEF CallerInv, ParkInv, IrqsOff, Holding, Parking, ActReads
<1>4. QueueInv
  BY DEF QueueInv, InHands, Parking
<1>5. ReaderInv
  BY DEF ReaderInv, ReaderOK, ActReads, Cancels
<1> QED
  BY <1>1, <1>2, <1>3, <1>4, <1>5 DEF IInv, BaseInv

\* Every step, and stuttering, keeps the inductive invariant.
LEMMA StepInv == IInv /\ [Next]_vars => IInv'
<1> SUFFICES ASSUME IInv, [Next]_vars PROVE IInv'
  OBVIOUS
<1>1. TypeOK'
  BY TypeStep DEF IInv, BaseInv
<1>2. CASE Next
  <2>1. BaseInv'
    <3>1. BaseInv
      BY DEF IInv
    <3> QED
      BY <3>1, <1>1, <1>2, ExpiryInvStep, CallerInvStep, ParkInvStep, QueueInvStep DEF BaseInv
  <2> QED
    BY <1>2, <2>1, ReaderInvStep DEF IInv
<1>3. CASE UNCHANGED vars
  <2> USE <1>3 DEF IInv, vars, shared, locals, expiry, history
  <2>1. ExpiryInv' /\ CallerInv'
    BY DEF BaseInv, ExpiryInv, CallerInv, IrqsOff
  <2>2. ParkInv' /\ QueueInv'
    BY DEF BaseInv, ParkInv, QueueInv, Parks, InHands
  <2>3. ReaderInv'
    BY DEF ReaderInv, ReaderOK, Unquiet, Inactive, InHands
  <2> QED
    BY <1>1, <2>1, <2>2, <2>3 DEF BaseInv
<1> QED
  BY <1>2, <1>3

\* The inductive invariant holds throughout.
LEMMA Invariance == Spec => []IInv
  BY InitInv, StepInv, PTL DEF Spec

\* Type correctness, for any number of CPUs, timers and callers; the seqcount
\* stays within its bound because an expiry starts only with room for both
\* of its barriers.
THEOREM TypeCorrect == Spec => []TypeOK
<1>1. IInv => TypeOK
  BY DEF IInv, BaseInv
<1> QED
  BY <1>1, Invariance, PTL

\* "All state transitions are protected by cpu_base->lock": whoever is inside a
\* locked section owns the lock of the base the timer is on, and a timer parked
\* on migration_base is in the hands of exactly one caller.
THEOREM LocksProtect == Spec => []LockProtects
<1>1. IInv => LockProtects
  BY DEF IInv, BaseInv, CallerInv, ParkInv, ExpiryInv, LockProtects
<1> QED
  BY <1>1, Invariance, PTL

\* No timer is lost, and none is linked into a queue it does not belong to.
THEOREM NoTimerLost == Spec => []QueueMatchesBase
<1>1. IInv => QueueMatchesBase
  <2> SUFFICES ASSUME IInv PROVE QueueMatchesBase
    OBVIOUS
  <2>1. \A t \in Timers : base[t] \in Cpus => base[t] # Migration
    BY ConstAssumption
  <2> QED
    BY <2>1 DEF IInv, BaseInv, QueueInv, QueueMatchesBase, InHands
<1> QED
  BY <1>1, Invariance, PTL

\* Nothing is queued or runs on a CPU that has gone through hrtimers_cpu_dying().
THEOREM OfflineStaysEmpty == Spec => []OfflineIsEmpty
<1>1. IInv => OfflineIsEmpty
  BY DEF IInv, BaseInv, QueueInv, OfflineIsEmpty
<1> QED
  BY <1>1, Invariance, PTL

\* What the lockless hrtimer_active() does guarantee to hrtimer_try_to_cancel()
\* and hrtimer_cancel(): an answer of 0 or 1 means that the timer was inactive
\* at some moment of the call, unless timer->base went away and came back
\* between its two reads.
THEOREM CancelSound == Spec => CancelSeesInactive
<1> DEFINE Seen(p) == CancelReturns(p) =>
        quiet[p] \/ Inactive(p)' \/ (strayed[p] /\ base[tm[p]] = rb[p])
<1>1. IInv /\ [Next]_vars => [\A p \in Callers : Seen(p)]_vars
  <2> SUFFICES ASSUME IInv, Next, NEW p \in Callers, CancelReturns(p) PROVE Seen(p)
    OBVIOUS
  <2> USE DEF IInv, BaseInv, TypeOK
  <2>1. pc[p] # "idle" /\ pc'[p] = "idle" /\ op[p] \in Cancels /\ ret'[p] # "running"
    BY DEF CancelReturns
  <2>2. CASE ActRecheck(p)
    <3>1. base[tm[p]] = rb[p]
      BY <2>1, <2>2 DEF ActRecheck, Goto
    <3>2. quiet[p] \/ strayed[p]
      BY <2>2 DEF ActRecheck, ReaderInv, ReaderOK
    <3> QED
      BY <3>1, <3>2
  <2>3. CASE CancelRemove(p)
    <3>1. \A c \in Cpus : running[c] # tm[p]
      BY <2>3, ConstAssumption DEF CancelRemove, ExpiryInv, CallerInv, Holding
    <3>2. ~queued'[tm[p]] /\ running' = running /\ tm' = tm
      BY <2>3 DEF CancelRemove, RemoveFrom, Return
    <3>3. \A q \in Callers : InHands(q) => tm[q] # tm[p]
      BY <2>3, HolderAlone DEF CancelRemove
    <3>4. \A q \in Callers : InHands(q)' => InHands(q)
      BY <2>3 DEF CancelRemove, Return, InHands, Parking
    <3> QED
      BY <3>1, <3>2, <3>3, <3>4 DEF Inactive
  <2>4. ActRecheck(p) \/ CancelRemove(p)
    <3>1. ASSUME NEW q \in Callers, CallerStep(q) PROVE q = p
      BY <2>1, <3>1 DEF CallerStep, BeginStart, BeginCancel, LockRead, LockAcquire, StartKeep,
         StartRemove, Enqueue, StartDone, StartExpired, SwitchStay, SwitchRetarget, SwitchPark,
         SwitchAccept, SwitchRefuse, SwitchBack, ActBase, ActSeq, ActQueued, ActRunning, ActRetry,
         ActRecheck, CancelRunning, CancelRemove, Goto, Return
    <3>2. CallerStep(p)
      BY <2>1, <3>1 DEF Next, ExpiryStep, ExpBegin, ExpSelect, ExpEnd, ExpBarrier1,
         ExpDequeue, ExpReturn, ExpBarrier2, ExpClear, Barrier, CpuDying, CpuStarting, locals
    <3>3. ~StartDone(p) /\ ~StartExpired(p)
      BY <2>1 DEF StartDone, StartExpired, CallerInv, Cancels
    <3>4. ~CancelRunning(p)
      BY <2>1 DEF CancelRunning, Return, Goto
    <3> QED
      BY <2>1, <3>2, <3>3, <3>4 DEF CallerStep, BeginStart, BeginCancel, LockRead, LockAcquire, StartKeep,
         StartRemove, Enqueue, SwitchStay, SwitchRetarget, SwitchPark,
         SwitchAccept, SwitchRefuse, SwitchBack, ActBase, ActSeq, ActQueued, ActRunning, ActRetry, Goto
  <2> QED
    BY <2>2, <2>3, <2>4
<1> QED
  BY <1>1, Invariance, PTL DEF Spec, CancelSeesInactive

-----------------------------------------------------------------------------
(* Refinement of HrtimerAbs                                                *)

\* Callers and hotplug never touch a callback: what they do to a timer is to
\* arm it, to disarm it or nothing that shows.
LEMMA CallerRefines ==
  ASSUME IInv, UNCHANGED expiry,
         \/ queued' = queued
         \/ \E t \in Timers, b \in BOOLEAN : queued' = [queued EXCEPT ![t] = b]
  PROVE  [Abs!Next]_<<queued, Runs>>
<1>1. Runs' = Runs
  BY DEF expiry, Runs
<1>2. CASE queued' = queued
  BY <1>1, <1>2
<1>3. ASSUME NEW t \in Timers, NEW b \in BOOLEAN, queued' = [queued EXCEPT ![t] = b]
      PROVE  Abs!Arm(t) \/ Abs!Disarm(t)
  BY <1>1, <1>3 DEF Abs!Arm, Abs!Disarm
<1> QED
  BY <1>2, <1>3 DEF Abs!Next

\* A step of an expiry context that neither starts nor ends a callback
LEMMA RunsUnchanged ==
  ASSUME IInv, NEW c \in Cpus,
         \A d \in Cpus \ {c} : etm'[d] = etm[d] /\ epc'[d] = epc[d],
         \/ epc[c] \notin {"callback", "barrier2", "clear"} /\ epc'[c] \notin {"callback", "barrier2", "clear"}
         \/ /\ epc[c] \in {"callback", "barrier2", "clear"} /\ epc'[c] \in {"callback", "barrier2", "clear"}
            /\ etm'[c] = etm[c]
  PROVE  Runs' = Runs
  BY DEF Runs

\* Every step arms, disarms, fires or finishes a timer as HrtimerAbs, or stutters.
LEMMA AbsStep == IInv /\ [Next]_vars => [Abs!Next]_<<queued, Runs>>
<1> SUFFICES ASSUME IInv, [Next]_vars PROVE [Abs!Next]_<<queued, Runs>>
  OBVIOUS
<1> USE DEF IInv, BaseInv, TypeOK
<1>1. CASE UNCHANGED vars
  BY <1>1, CallerRefines DEF vars, shared
<1>2. ASSUME NEW p \in Callers, CallerStep(p)
      PROVE  [Abs!Next]_<<queued, Runs>>
  <2>1. UNCHANGED expiry
    BY <1>2 DEF CallerStep, BeginStart, BeginCancel, LockRead, LockAcquire, StartKeep,
       StartRemove, Enqueue, StartDone, StartExpired, SwitchStay, SwitchRetarget, SwitchPark,
       SwitchAccept, SwitchRefuse, SwitchBack, ActBase, ActSeq, ActQueued, ActRunning, ActRetry,
       ActRecheck, CancelRunning, CancelRemove
  <2>2. \/ queued' = queued
        \/ \E b \in BOOLEAN : queued' = [queued EXCEPT ![tm[p]] = b]
    <3>1. CASE StartRemove(p) \/ StartExpired(p) \/ CancelRemove(p)
      BY <3>1 DEF StartRemove, StartExpired, CancelRemove, RemoveFrom
    <3>2. CASE StartKeep(p) \/ Enqueue(p)
      BY <3>2 DEF StartKeep, Enqueue, EnqueueIn
    <3>3. CASE ~(StartRemove(p) \/ StartExpired(p) \/ CancelRemove(p) \/ StartKeep(p) \/ Enqueue(p))
      BY <1>2, <3>3 DEF CallerStep, BeginStart, BeginCancel, LockRead, LockAcquire, StartDone,
         SwitchStay, SwitchRetarget, SwitchPark, SwitchAccept, SwitchRefuse, SwitchBack, ActBase,
         ActSeq, ActQueued, ActRunning, ActRetry, ActRecheck, CancelRunning, shared
    <3> QED
      BY <3>1, <3>2, <3>3
  <2> QED
    BY <2>1, <2>2, CallerRefines
<1>3. ASSUME NEW c \in Cpus, CpuDying(c) \/ CpuStarting(c)
      PROVE  [Abs!Next]_<<queued, Runs>>
  BY <1>3, CallerRefines DEF CpuDying, CpuStarting
<1>4. ASSUME NEW c \in Cpus, ExpDequeue(c)
      PROVE  Abs!Fire(etm[c])
  <2>1. etm[c] \in Timers /\ queued[etm[c]] /\ queued' = [queued EXCEPT ![etm[c]] = FALSE]
    BY <1>4, ConstAssumption DEF ExpDequeue, RemoveFrom, ExpiryInv, QueueInv
  <2>2. \A d \in Cpus : etm[d] = etm[c] => d = c
    BY <2>1 DEF ExpiryInv
  <2>3. epc' = [epc EXCEPT ![c] = "callback"] /\ etm' = etm /\ epc[c] = "dequeue"
    BY <1>4 DEF ExpDequeue
  <2>4. ~Runs[etm[c]]
    BY <2>1, <2>2, <2>3 DEF Runs
  <2>5. Runs' = [Runs EXCEPT ![etm[c]] = TRUE]
    BY <2>1, <2>2, <2>3 DEF Runs
  <2> QED
    BY <2>1, <2>4, <2>5 DEF Abs!Fire
<1>5. ASSUME NEW c \in Cpus, ExpClear(c)
      PROVE  Abs!Finish(etm[c])
  <2>1. etm[c] \in Timers /\ queued' = queued
    BY <1>5, ConstAssumption DEF ExpClear, ExpiryInv
  <2>2. \A d \in Cpus : etm[d] = etm[c] => d = c
    BY <2>1 DEF ExpiryInv
  <2>3. epc' = [epc EXCEPT ![c] = "select"] /\ etm' = [etm EXCEPT ![c] = Nobody] /\ epc[c] = "clear"
    BY <1>5 DEF ExpClear
  <2>4. Runs[etm[c]]
    BY <2>1, <2>3 DEF Runs
  <2>5. Runs' = [Runs EXCEPT ![etm[c]] = FALSE]
    <3>1. \A d \in Cpus : etm'[d] = (IF d = c THEN Nobody ELSE etm[d])
      BY <2>3
    <3>2. \A d \in Cpus : d # c => epc'[d] = epc[d]
      BY <2>3
    <3>3. ASSUME NEW t \in Timers PROVE Runs'[t] = IF t = etm[c] THEN FALSE ELSE Runs[t]
      <4>1. CASE t = etm[c]
        BY <2>1, <2>2, <3>1, <4>1, ConstAssumption DEF Runs
      <4>2. CASE t # etm[c]
        BY <3>1, <3>2, <4>2, ConstAssumption DEF Runs
      <4> QED
        BY <4>1, <4>2
    <3>4. Runs \in [Timers -> BOOLEAN] /\ Runs' \in [Timers -> BOOLEAN]
      BY DEF Runs
    <3> QED
      BY <2>1, <3>3, <3>4
  <2> QED
    BY <2>1, <2>4, <2>5 DEF Abs!Finish
<1>6. ASSUME NEW c \in Cpus, ExpReturn(c)
      PROVE  [Abs!Next]_<<queued, Runs>>
  <2>1. Runs' = Runs
    BY <1>6, RunsUnchanged DEF ExpReturn
  <2>2. etm[c] \in Timers
    BY <1>6 DEF ExpReturn, ExpiryInv
  <2>3. queued' = queued \/ queued' = [queued EXCEPT ![etm[c]] = TRUE]
    BY <1>6 DEF ExpReturn, EnqueueIn
  <2>4. UNCHANGED <<queued, Runs>> \/ Abs!Arm(etm[c])
    BY <2>1, <2>3 DEF Abs!Arm
  <2> QED
    BY <2>2, <2>4 DEF Abs!Next
<1>7. ASSUME NEW c \in Cpus, ExpBegin(c) \/ ExpSelect(c) \/ ExpEnd(c) \/ ExpBarrier1(c) \/ ExpBarrier2(c)
      PROVE  UNCHANGED <<queued, Runs>>
  <2>1. Runs' = Runs
    BY <1>7, RunsUnchanged DEF ExpBegin, ExpSelect, ExpEnd, ExpBarrier1, ExpBarrier2, Barrier
  <2> QED
    BY <1>7, <2>1 DEF ExpBegin, ExpSelect, ExpEnd, ExpBarrier1, ExpBarrier2, Barrier
<1>8. ASSUME NEW c \in Cpus, ExpDequeue(c) \/ ExpClear(c)
      PROVE  Abs!Next
  <2>1. etm[c] \in Timers
    <3>1. epc[c] \in {"dequeue", "clear"}
      BY <1>8 DEF ExpDequeue, ExpClear
    <3> QED
      BY <3>1, ConstAssumption DEF ExpiryInv
  <2> QED
    BY <1>4, <1>5, <1>8, <2>1 DEF Abs!Next
<1> QED
  BY <1>1, <1>2, <1>3, <1>6, <1>7, <1>8 DEF Next, ExpiryStep

\* Locks, migration, the seqcount and hotplug add up to what HrtimerAbs says: a
\* timer fires only when armed, leaves the queue and starts its callback in one
\* visible step, and never runs twice at a time.
THEOREM Refinement == Spec => ImplementsAbs
<1>1. Init => Abs!Init
  BY DEF Init, Abs!Init, Runs
<1> QED
  BY <1>1, AbsStep, Invariance, PTL DEF Spec, ImplementsAbs, Abs!Spec

=============================================================================
