------------------------- MODULE PosixTimers_proofs -------------------------
(***************************************************************************)
(* Proofs about PosixTimers, for any number of timers, threads and IDs.     *)
(*                                                                         *)
(* The references are counted: one for the hash, or the thread on its way   *)
(* there; one for the signal; one for each thread that delivers.  That the   *)
(* first is put once needs that a timer has one owner while it is created   *)
(* or deleted (OneOwner), which owns a timer nobody accepts (ThreadInv).     *)
(* That it is not put too early needs that an hrtimer which is queued or     *)
(* runs belongs to a valid timer or to one whose owner waits (TimerInv).     *)
(*                                                                         *)
(* The second half is about signals: which of them a delivery accepts, and   *)
(* that a periodic timer always has somebody who arms it again.              *)
(***************************************************************************)
EXTENDS PosixTimers, FiniteSetTheorems, TLAPS

-----------------------------------------------------------------------------
(* The inductive invariant, in parts.                                      *)

\* A thread that holds the reference of the hash, or is about to give it to the hash
Owns(p) == thread[p].pc \in {"add", "setup", "del_wait", "unhash"}

OneOwner ==
    \A p, q \in Threads : Owns(p) /\ Owns(q) /\ thread[p].obj = thread[q].obj => p = q

ThreadOK(p) ==
    LET k == thread[p].obj
    IN  /\ ~At(p, "user") => k \in Timers
        /\ Owns(p) => ~timr[k].valid /\ (timr[k].hashed <=> ~At(p, "add"))
        /\ At(p, "add") \/ At(p, "setup") => timr[k].interval = 0

ThreadInv == \A p \in Threads : ThreadOK(p)

Exact(k) ==
    timr[k].refs = (IF Owned(k) THEN 1 ELSE 0) + (IF sigq[k] # "none" THEN 1 ELSE 0)
                   + Cardinality(With("deliver", k))
TimerOK(k) ==
    /\ Exact(k)
    /\ timr[k].valid => timr[k].hashed
    /\ sigq[k] = "ignored" => timr[k].valid
    /\ hr[k].queued \/ Running(k) => timr[k].valid \/ With("del_wait", k) # {}

TimerInv == \A k \in Timers : TimerOK(k)

IInv == TypeOK /\ OneOwner /\ ThreadInv /\ TimerInv

-----------------------------------------------------------------------------
(* Counting the threads at a place.                                        *)

\* There are finitely many.
LEMMA WithNat ==
  ASSUME NEW pc, NEW k
  PROVE  /\ Cardinality(With(pc, k)) \in Nat /\ IsFiniteSet(With(pc, k))
         /\ Cardinality(With(pc, k)') \in Nat /\ IsFiniteSet(With(pc, k)')
<1>1. IsFiniteSet(With(pc, k)) /\ IsFiniteSet(With(pc, k)')
  BY ConstAssumption, FS_Subset DEF With
<1> QED
  BY <1>1, FS_CardinalityType

\* Cardinality counts it as one.
LEMMA WithCount ==
  ASSUME NEW pc, NEW k, NEW p \in Threads
  PROVE  /\ Cardinality(With(pc, k)) \in Nat
         /\ Cardinality(With(pc, k) \cup {p}) =
               Cardinality(With(pc, k)) + (IF p \in With(pc, k) THEN 0 ELSE 1)
         /\ Cardinality(With(pc, k) \ {p}) =
               Cardinality(With(pc, k)) - (IF p \in With(pc, k) THEN 1 ELSE 0)
<1>1. IsFiniteSet(With(pc, k))
  BY WithNat
<1>2. Cardinality(With(pc, k)) \in Nat
  BY WithNat
<1>3. Cardinality(With(pc, k) \cup {p}) =
         IF p \in With(pc, k) THEN Cardinality(With(pc, k)) ELSE Cardinality(With(pc, k)) + 1
  BY <1>1, FS_AddElement
<1>4. Cardinality(With(pc, k) \ {p}) =
         IF p \in With(pc, k) THEN Cardinality(With(pc, k)) - 1 ELSE Cardinality(With(pc, k))
  BY <1>1, FS_RemoveElement
<1> QED
  BY <1>2, <1>3, <1>4

-----------------------------------------------------------------------------
(* What the helpers do to the record of a timer.                           *)

Sigqs == {"none", "pending", "ignored"}

\* What new records hold is of the right type.
LEMMA BlankTypes == Blank \in KItimer /\ Inactive \in Hrtimer /\ User \in ThreadState
<1>1. 0 \in Ids /\ 0 \in 0 .. MaxSeq
  BY ConstAssumption DEF Ids
<1> QED
  BY <1>1 DEF Blank, KItimer, Inactive, Hrtimer, User, ThreadState, Pcs, Ops

\* A timer that has more references than the one that is put, or none of the hash, is
\* as before or gone.
LEMMA PutFacts ==
  ASSUME NEW r \in KItimer, r.refs >= 1, r.refs = 1 => ~r.hashed, r.valid => r.hashed
  PROVE  /\ Put(r) \in KItimer
         /\ Put(r).refs = r.refs - 1
         /\ Put(r).hashed = r.hashed /\ Put(r).valid = r.valid
         /\ r.refs # 1 => Put(r).interval = r.interval /\ Put(r).id = r.id /\ Put(r).seq = r.seq
         /\ r.interval = 0 => Put(r).interval = 0

<1>1. CASE r.refs = 1
  <2>1. Put(r) = Blank
    BY <1>1 DEF Put
  <2>2. Blank \in KItimer /\ Blank.refs = 0 /\ Blank.hashed = FALSE /\ Blank.valid = FALSE
        /\ Blank.interval = 0
    BY BlankTypes DEF Blank
  <2>3. r.hashed = FALSE /\ r.valid = FALSE
    BY <1>1 DEF KItimer
  <2>4. Put(r).refs = r.refs - 1
    BY <1>1, <2>1, <2>2
  <2> QED
    BY <1>1, <2>1, <2>2, <2>3, <2>4
<1>2. CASE r.refs # 1
  <2> DEFINE n == r.refs - 1
             s == [r EXCEPT !.refs = n]
  <2>1. Put(r) = s /\ n \in Nat
    BY <1>2 DEF Put, KItimer
  <2>2. s \in KItimer
    BY <2>1 DEF KItimer
  <2> QED
    BY <1>2, <2>1, <2>2 DEF KItimer
<1> QED
  BY <1>1, <1>2

\* Sending the signal of a valid timer takes a reference if the signal is queued, or
\* remembered, and was not; it changes nothing else but what is remembered of the signal.
LEMMA QueueFacts ==
  ASSUME NEW r \in KItimer, NEW q \in Sigqs,
         ignoring \in BOOLEAN,
         r.refs >= (IF q # "none" THEN 2 ELSE 1) \/ ~r.valid,
         NEW s, s = QueueSignal(r, q)
  PROVE  /\ s.timr \in KItimer /\ s.sigq \in Sigqs
         /\ s.timr.refs + (IF q # "none" THEN 1 ELSE 0) = r.refs + (IF s.sigq # "none" THEN 1 ELSE 0)
         /\ s.timr.hashed = r.hashed /\ s.timr.valid = r.valid /\ s.timr.id = r.id
         /\ s.timr.interval = r.interval /\ s.timr.overrun = r.overrun
         /\ s.sigq = "ignored" => r.valid \/ q = "ignored"
<1> DEFINE st == IF r.interval # 0 THEN "REQUEUE_PENDING" ELSE "DISARMED"
           v == [r EXCEPT !.status = st]
           w == [v EXCEPT !.qseq = v.seq, !.periodic = (v.status = "REQUEUE_PENDING")]
<1>1. CASE ~r.valid
  BY <1>1 DEF QueueSignal, Sigqs
<1>2. CASE r.valid
  <2>1. s = SendSigqueue(v, q)
    BY <1>2 DEF QueueSignal
  <2>2. v \in KItimer /\ v.refs = r.refs /\ v.hashed = r.hashed /\ v.valid = r.valid /\ v.id = r.id
        /\ v.interval = r.interval /\ v.overrun = r.overrun
    BY DEF KItimer
  <2>3. w \in KItimer /\ w.refs = r.refs /\ w.hashed = r.hashed /\ w.valid = r.valid /\ w.id = r.id
        /\ w.interval = r.interval /\ w.overrun = r.overrun
    BY <2>2 DEF KItimer
  <2>4. Sent(v) = w
    BY DEF Sent
  <2> HIDE DEF v, w
  <2> DEFINE n == w.refs + 1
             u == [w EXCEPT !.refs = n]
  <2>5. u \in KItimer /\ u.refs = r.refs + 1 /\ u.hashed = r.hashed /\ u.valid = r.valid
        /\ u.id = r.id /\ u.interval = r.interval /\ u.overrun = r.overrun
    <3>1. n \in Nat /\ n = r.refs + 1
      BY <2>3 DEF KItimer
    <3> HIDE DEF n
    <3> QED
      BY <2>3, <3>1 DEF KItimer
  <2>6. r.refs \in Nat
    BY DEF KItimer
  <2>7. q = "ignored" => /\ Put(w) \in KItimer /\ Put(w).refs = r.refs - 1
                         /\ Put(w) = [w EXCEPT !.refs = @ - 1]
    BY <1>2, <2>3, <2>6 DEF Put, KItimer
  <2>8. q = "ignored" => /\ Put(w).hashed = r.hashed /\ Put(w).valid = r.valid /\ Put(w).id = r.id
                         /\ Put(w).interval = r.interval /\ Put(w).overrun = r.overrun
    BY <2>3, <2>7 DEF KItimer
  <2> HIDE DEF u
  <2>9. CASE ~ignoring
    <3>1. s = [timr |-> IF q = "none" THEN u ELSE w, sigq |-> "pending"]
      BY <2>1, <2>4, <2>9 DEF SendSigqueue, u, n
    <3>2. s.timr = (IF q = "none" THEN u ELSE w) /\ s.sigq = "pending"
      BY <3>1
    <3>3. s.timr \in KItimer /\ s.sigq \in Sigqs
      BY <2>3, <2>5, <2>6, <3>2 DEF Sigqs
    <3>4. s.timr.refs + (IF q # "none" THEN 1 ELSE 0) = r.refs + (IF s.sigq # "none" THEN 1 ELSE 0)
      BY <2>3, <2>5, <2>6, <3>2
    <3>5. s.timr.hashed = r.hashed /\ s.timr.valid = r.valid /\ s.timr.id = r.id
         /\ s.timr.interval = r.interval /\ s.timr.overrun = r.overrun
      BY <2>3, <2>5, <2>6, <3>2
    <3> QED
      BY <1>2, <3>3, <3>4, <3>5
  <2>10. CASE ignoring /\ q = "none" /\ w.periodic
    <3>1. s = [timr |-> u, sigq |-> "ignored"]
      BY <2>1, <2>4, <2>10 DEF SendSigqueue, u, n
    <3>2. s.timr = u /\ s.sigq = "ignored"
      BY <3>1
    <3>3. s.timr \in KItimer /\ s.sigq \in Sigqs
      BY <2>5, <2>6, <2>10, <3>2 DEF Sigqs
    <3>4. s.timr.refs + (IF q # "none" THEN 1 ELSE 0) = r.refs + (IF s.sigq # "none" THEN 1 ELSE 0)
      BY <2>5, <2>6, <2>10, <3>2
    <3>5. s.timr.hashed = r.hashed /\ s.timr.valid = r.valid /\ s.timr.id = r.id
         /\ s.timr.interval = r.interval /\ s.timr.overrun = r.overrun
      BY <2>5, <2>6, <2>10, <3>2
    <3> QED
      BY <1>2, <3>3, <3>4, <3>5
  <2>11. CASE ignoring /\ q = "ignored" /\ ~w.periodic
    <3>1. s = [timr |-> Put(w), sigq |-> "none"]
      BY <2>1, <2>4, <2>11 DEF SendSigqueue
    <3>2. s.timr = Put(w) /\ s.sigq = "none"
      BY <3>1
    <3>3. s.timr \in KItimer /\ s.sigq \in Sigqs
      BY <2>6, <2>7, <2>8, <2>11, <3>2 DEF Sigqs
    <3>4. s.timr.refs + (IF q # "none" THEN 1 ELSE 0) = r.refs + (IF s.sigq # "none" THEN 1 ELSE 0)
      BY <2>6, <2>7, <2>8, <2>11, <3>2
    <3>5. s.timr.hashed = r.hashed /\ s.timr.valid = r.valid /\ s.timr.id = r.id
         /\ s.timr.interval = r.interval /\ s.timr.overrun = r.overrun
      BY <2>6, <2>7, <2>8, <2>11, <3>2
    <3> QED
      BY <1>2, <3>3, <3>4, <3>5
  <2>12. CASE ignoring /\ ~(q = "none" /\ w.periodic) /\ ~(q = "ignored" /\ ~w.periodic)
    <3>1. s = [timr |-> w, sigq |-> q]
      BY <2>1, <2>4, <2>12 DEF SendSigqueue
    <3>2. s.timr = w /\ s.sigq = q
      BY <3>1
    <3> QED
      BY <1>2, <2>3, <2>6, <3>2 DEF Sigqs
  <2> QED
    BY <2>9, <2>10, <2>11, <2>12
<1> QED
  BY <1>1, <1>2

\* The counter stays in the space of IDs.
LEMMA IdTypes == \A id \in Ids : Next_id(id) \in Ids
<1> SUFFICES ASSUME NEW id \in Ids PROVE Next_id(id) \in Ids
  OBVIOUS
<1>1. INT_MAX \in Nat /\ id + 1 \in Nat
  BY ConstAssumption DEF Ids
<1>2. ASSUME NEW m \in Nat, NEW n \in Nat PROVE m % (n + 1) \in 0 .. n
  OBVIOUS
<1> QED
  BY <1>1, <1>2 DEF Next_id, Ids

-----------------------------------------------------------------------------
(* Steps                                                                   *)

\* There are no timers at first.
LEMMA InitOK == Init => IInv
<1> SUFFICES ASSUME Init PROVE IInv
  OBVIOUS
<1>1. TypeOK
  <2>1. 0 \in Ids /\ 0 \in 0 .. MaxTime /\ ClockBack \in 0 .. ClockBack /\ 0 \in 0 .. MaxCalls
        /\ 0 \in 0 .. MaxIgnores
    BY ConstAssumption DEF Ids
  <2>2. timr \in [Timers -> KItimer] /\ hr \in [Timers -> Hrtimer] /\ thread \in [Threads -> ThreadState]
    BY BlankTypes DEF Init
  <2>3. /\ sigq \in [Timers -> {"none", "pending", "ignored"}] /\ first \in [Timers -> Nat]
        /\ reported \in [Timers -> Int] /\ fired \in [Timers -> BOOLEAN]
    BY DEF Init
  <2> QED
    BY <2>1, <2>2, <2>3 DEF Init, TypeOK
<1>2. OneOwner /\ ThreadInv
  BY DEF Init, OneOwner, ThreadInv, ThreadOK, Owns, At, User
<1>3. ASSUME NEW k \in Timers PROVE TimerOK(k)
  <2>1. With("deliver", k) = {} /\ With("add", k) = {} 
    BY DEF Init, With, At, User
  <2>2. Cardinality(With("deliver", k)) = 0
    BY <2>1, FS_EmptySet
  <2> QED
    BY <2>1, <2>2 DEF TimerOK, Exact, Owned, Running, Init, Blank, Inactive
<1> QED
  BY <1>1, <1>2, <1>3 DEF IInv, TimerInv

\* A thread that makes its new timer valid gives up the reference to the hash.
LEMMA PublishStep ==
  ASSUME IInv, NEW p \in Threads, Publish(p)
  PROVE  IInv'
<1> DEFINE k == thread[p].obj
<1> USE DEF IInv
<1>k. k \in Timers
  BY DEF ThreadInv, ThreadOK, Publish, At
<1>1. TypeOK'
  BY <1>k, BlankTypes DEF Publish, TypeOK, KItimer, Leave, clock, external, history
<1>w. ASSUME NEW pc \in {"add", "del_wait", "deliver"}, NEW j \in Timers
      PROVE With(pc, j)' = With(pc, j)
  BY DEF With, At, Publish, Leave, User, TypeOK
<1>2. OneOwner'
  BY DEF Publish, OneOwner, Leave, Owns, At, TypeOK, User
<1>3. ThreadInv'
  BY <1>k DEF Publish, ThreadInv, ThreadOK, OneOwner, Leave, Owns, At, TypeOK, User, KItimer
<1>4. ASSUME NEW j \in Timers PROVE TimerOK(j)'
  BY <1>k, <1>w DEF Publish, TimerInv, TimerOK, Exact, Owned, Running, ThreadInv, ThreadOK, Owns, At, TypeOK, KItimer
<1> QED
  BY <1>1, <1>2, <1>3, <1>4 DEF TimerInv

\* The steps that only take a thread from one place to another keep the invariant.
LEMMA WalkStep ==
  ASSUME IInv, NEW p \in Threads, NEW k \in Timers, NEW op \in Ops,
         Lookup(p, k, op) \/ LookupFails(p) \/ Again(p) \/ CreateFails(p)
  PROVE  IInv'
<1> USE DEF IInv
<1>1. calls' \in 0 .. MaxCalls /\ UNCHANGED <<clock, next_id, timr, hr, sigq, external, exiting, history>>
  BY ConstAssumption DEF Lookup, LookupFails, Again, CreateFails, Calls, TypeOK
<1>2. PICK x \in ThreadState :
         /\ thread' = [thread EXCEPT ![p] = x]
         /\ x.pc \in {"user", "found", "unhash"}
         /\ x.pc # "user" => x.obj \in Timers
         /\ x.pc = "unhash" => thread[p].pc = "setup" /\ x.obj = thread[p].obj
         /\ thread[p].pc \in {"user", "found", "wait", "setup"}
  <2>1. CASE Lookup(p, k, op)
    <3> DEFINE x == [User EXCEPT !.pc = "found", !.op = op, !.obj = k]
    <3>1. x \in ThreadState /\ x.pc = "found" /\ x.obj = k
      BY BlankTypes DEF User, ThreadState, Pcs
    <3>2. thread' = [thread EXCEPT ![p] = x] /\ thread[p].pc = "user"
      BY <2>1 DEF Lookup, Calls, At
    <3> QED
      BY <3>1, <3>2
  <2>2. ASSUME Leave(p), At(p, "found") \/ At(p, "wait")
        PROVE  \E x \in ThreadState : thread' = [thread EXCEPT ![p] = x] /\ x.pc = "user"
    BY <2>2, BlankTypes DEF Leave, User
  <2>3. ASSUME NEW pc \in {"found", "unhash"}, Go(p, pc), At(p, "wait") \/ At(p, "setup")
        PROVE  \E x \in ThreadState :
                  thread' = [thread EXCEPT ![p] = x] /\ x.pc = pc /\ x.obj = thread[p].obj /\ x.obj \in Timers
    <3> DEFINE x == [thread[p] EXCEPT !.pc = pc]
    <3>1. x \in ThreadState /\ x.pc = pc /\ x.obj = thread[p].obj
      BY DEF TypeOK, ThreadState, Pcs
    <3>2. thread' = [thread EXCEPT ![p] = x] /\ thread[p].obj \in Timers
      BY <2>3 DEF Go, At, ThreadInv, ThreadOK
    <3> QED
      BY <3>1, <3>2
  <2>4. CASE LookupFails(p)
    BY <2>2, <2>4 DEF LookupFails, At
  <2>5. CASE Again(p)
    BY <2>2, <2>3, <2>5 DEF Again, At
  <2>6. CASE CreateFails(p)
    BY <2>3, <2>6 DEF CreateFails, At
  <2> QED
    BY <2>1, <2>4, <2>5, <2>6
<1>3. TypeOK'
  BY <1>1, <1>2 DEF TypeOK, clock, external, history
<1>4. ASSUME NEW pc \in {"add", "del_wait", "deliver"}, NEW j \in Timers
      PROVE With(pc, j)' = With(pc, j)
  BY <1>2 DEF With, At, TypeOK
<1>5. OneOwner'
  BY <1>2 DEF OneOwner, Owns, TypeOK
<1>6. ThreadInv'
  BY <1>1, <1>2 DEF ThreadInv, ThreadOK, Owns, At, TypeOK
<1>7. ASSUME NEW j \in Timers PROVE TimerOK(j)'
  BY <1>1, <1>4 DEF TimerInv, TimerOK, Exact, Owned, Running
<1> QED
  BY <1>3, <1>5, <1>6, <1>7 DEF TimerInv

\* Allocating a timer keeps the invariant: nobody owns memory without references.
LEMMA CreateStep ==
  ASSUME IInv, NEW p \in Threads, NEW k \in Timers, Create(p, k)
  PROVE  IInv'
<1> USE DEF IInv
<1>1. PICK id \in Ids, op \in {"create", "restore"} :
         thread' = [thread EXCEPT ![p] = [User EXCEPT !.pc = "add", !.op = op, !.obj = k, !.id = id]]
  BY DEF Create, TypeOK
<1>2. TypeOK'
  <2>1. [User EXCEPT !.pc = "add", !.op = op, !.obj = k, !.id = id] \in ThreadState
    BY BlankTypes DEF User, ThreadState, Pcs
  <2>2. [Blank EXCEPT !.refs = 1] \in KItimer
    BY BlankTypes DEF Blank, KItimer
  <2>3. next_id' \in Ids /\ calls' \in 0 .. MaxCalls
    <3>1. next_id' \in Ids
      BY IdTypes DEF Create, TypeOK
    <3>2. calls' \in 0 .. MaxCalls
      <4>1. calls' = calls + 1 /\ calls < MaxCalls
        BY DEF Create, Calls
      <4> QED
        BY <4>1, ConstAssumption DEF TypeOK
    <3> QED
      BY <3>1, <3>2
  <2>4. thread' \in [Threads -> ThreadState] /\ timr' \in [Timers -> KItimer] /\ hr' \in [Timers -> Hrtimer]
    BY <1>1, <2>1, <2>2, BlankTypes DEF Create, TypeOK
  <2> QED
    BY <2>3, <2>4 DEF Create, TypeOK, clock, external, history
<1>3. At(p, "user") /\ timr[k].refs = 0
  BY DEF Create, Calls, Free
<1>4. ~timr[k].hashed /\ ~timr[k].valid /\ With("add", k) = {} /\ sigq[k] = "none"
  <2>1. Cardinality(With("deliver", k)) \in Nat
    BY WithNat
  <2> QED
    BY <1>3, <2>1 DEF TimerInv, TimerOK, Exact, Owned
<1>5. \A q \in Threads : Owns(q) => thread[q].obj # k
  BY <1>4 DEF ThreadInv, ThreadOK, Owns, At, With
<1>6. OneOwner'
  BY <1>1, <1>5 DEF OneOwner, Owns, TypeOK, ThreadState, User
<1>7. ThreadInv'
  <2>1. ~timr'[k].hashed /\ ~timr'[k].valid /\ timr'[k].interval = 0
    BY DEF Create, TypeOK, Blank
  <2>2. ThreadOK(p)'
    BY <1>1, <2>1 DEF ThreadOK, Owns, At, TypeOK, User
  <2>3. ASSUME NEW q \in Threads, q # p PROVE ThreadOK(q)'
    BY <1>1, <1>5, <2>3 DEF Create, ThreadInv, ThreadOK, Owns, At, TypeOK
  <2> QED
    BY <2>2, <2>3 DEF ThreadInv
<1>8. ASSUME NEW pc \in {"add", "del_wait", "deliver"}, NEW j \in Timers, pc # "add" \/ j # k
      PROVE With(pc, j)' = With(pc, j)
  BY <1>1, <1>3, <1>8 DEF With, At, TypeOK, User
<1>9. p \in With("add", k)'
  BY <1>1 DEF With, At, TypeOK, User
<1>10. ASSUME NEW j \in Timers PROVE TimerOK(j)'
  <2>1. CASE j = k
    <3>1. timr'[k].refs = 1 /\ ~timr'[k].hashed /\ ~timr'[k].valid /\ sigq'[k] = "none"
          /\ ~hr'[k].queued /\ hr'[k].runs = "no"
      BY <1>4 DEF Create, TypeOK, Blank, Inactive
    <3>2. Cardinality(With("deliver", k)') = 0
      <4>1. Cardinality(With("deliver", k)) \in Nat
        BY WithNat
      <4>2. Cardinality(With("deliver", k)) = 0
        BY <1>3, <1>4, <4>1 DEF TimerInv, TimerOK, Exact, Owned
      <4> QED
        BY <1>8, <4>2
    <3> QED
      BY <2>1, <1>9, <3>1, <3>2 DEF TimerOK, Exact, Owned, Running
  <2>2. CASE j # k
    BY <2>2, <1>8 DEF Create, TypeOK, TimerInv, TimerOK, Exact, Owned, Running
  <2> QED
    BY <2>1, <2>2
<1> QED
  BY <1>2, <1>6, <1>7, <1>10 DEF TimerInv

\* Adding a timer to the hash hands the reference over.
LEMMA AddAtStep ==
  ASSUME IInv, NEW p \in Threads, AddAt(p)
  PROVE  IInv'
<1> DEFINE k == thread[p].obj
           x == [User EXCEPT !.pc = "setup", !.obj = k]
<1> USE DEF IInv
<1>1. /\ k \in Timers /\ At(p, "add") /\ Owns(p) /\ thread[p].id \in Ids
      /\ timr' = [timr EXCEPT ![k].hashed = TRUE, ![k].id = thread[p].id]
      /\ thread' = [thread EXCEPT ![p] = x]
  BY DEF ThreadInv, ThreadOK, AddAt, At, Owns, TypeOK, ThreadState
<1>2. TypeOK'
  <2>1. x \in ThreadState
    BY <1>1, BlankTypes DEF User, ThreadState, Pcs
  <2>2. thread' \in [Threads -> ThreadState] /\ timr' \in [Timers -> KItimer]
    <3> DEFINE r == [timr[k] EXCEPT !.hashed = TRUE, !.id = thread[p].id]
    <3>1. timr' \in [Timers -> KItimer]
      <4>1. r \in KItimer
        <5>1. thread[p].id \in Ids /\ timr[k] \in KItimer
          BY <1>1 DEF TypeOK
        <5> QED
          BY <5>1 DEF KItimer
      <4>2. timr' = [timr EXCEPT ![k] = r]
        BY <1>1 DEF TypeOK
      <4> QED
        BY <4>1, <4>2 DEF TypeOK
    <3> QED
      BY <1>1, <2>1, <3>1 DEF TypeOK
  <2>3. next_id' \in Ids
    BY <1>1, IdTypes DEF AddAt, TypeOK
  <2> QED
    BY <2>2, <2>3 DEF AddAt, TypeOK, clock, external, history
<1>3. OneOwner'
  BY <1>1 DEF OneOwner, Owns, At, TypeOK, ThreadState, User
<1>4. ThreadInv'
  BY <1>1 DEF ThreadInv, ThreadOK, OneOwner, Owns, At, TypeOK, ThreadState, User, KItimer
<1>5. ASSUME NEW pc \in {"add", "del_wait", "deliver"}, NEW j \in Timers, pc # "add" \/ j # k
      PROVE With(pc, j)' = With(pc, j)
  BY <1>1, <1>5 DEF With, At, TypeOK, User
<1>6. ASSUME NEW j \in Timers PROVE TimerOK(j)'
  <2>1. p \in With("add", k) /\ Owned(k) /\ ~timr[k].valid
    BY <1>1 DEF With, Owned, ThreadInv, ThreadOK
  <2> QED
    BY <1>1, <1>5, <2>1 DEF AddAt, TypeOK, KItimer, TimerInv, TimerOK, Exact, Owned, Running
<1> QED
  BY <1>2, <1>3, <1>4, <1>6 DEF TimerInv

\* A timer whose ID is taken is tried with another, or freed with its only reference.
LEMMA AddFailsStep ==
  ASSUME IInv, NEW p \in Threads, AddFails(p)
  PROVE  IInv'
<1> USE DEF IInv
<1>0. PICK k \in Timers : k = thread[p].obj
  BY DEF ThreadInv, ThreadOK, AddFails, At
<1>1. k = thread[p].obj /\ At(p, "add") /\ Owns(p) /\ p \in With("add", k)
  BY <1>0 DEF AddFails, At, Owns, With
<1>2. Owned(k) /\ ~timr[k].hashed /\ ~timr[k].valid /\ timr[k].interval = 0 /\ sigq[k] # "ignored"
  BY <1>1 DEF ThreadInv, ThreadOK, Owned, TimerInv, TimerOK
<1>3. ASSUME NEW pc \in {"add", "del_wait", "deliver"}, NEW j \in Timers, pc # "add" \/ j # k
      PROVE With(pc, j)' = With(pc, j)
  <2>1. \A q \in Threads : q # p => thread'[q] = thread[q]
    BY DEF AddFails, Leave, TypeOK
  <2>2. p \notin With(pc, j)
    BY <1>1, <1>3 DEF With, At
  <2>3. thread'[p].pc = "user" \/ (thread'[p].pc = "add" /\ thread'[p].obj = k)
    BY <1>1 DEF AddFails, Leave, User, TypeOK, ThreadState, At
  <2>4. p \notin With(pc, j)'
    BY <1>3, <2>3 DEF With, At
  <2> QED BY <2>1, <2>2, <2>4 DEF With, At
<1>4. CASE thread[p].op = "restore" \/ thread[p].cnt = INT_MAX
  <2>1. timr' = [timr EXCEPT ![k] = Put(@)] /\ Leave(p) /\ UNCHANGED next_id
    BY <1>1, <1>4 DEF AddFails
  <2>2. timr[k] \in KItimer /\ timr[k].refs >= 1
    <3>1. Cardinality(With("deliver", k)) \in Nat
      BY WithNat
    <3> QED
      BY <1>1, <1>2, <3>1 DEF TimerInv, TimerOK, Exact, TypeOK
  <2>3. /\ timr'[k] \in KItimer /\ timr'[k].refs = timr[k].refs - 1 /\ ~timr'[k].hashed
        /\ ~timr'[k].valid /\ timr'[k].interval = 0
    BY <1>1, <1>2, <2>1, <2>2, PutFacts DEF TypeOK
  <2>4. TypeOK'
    <3>1. timr' \in [Timers -> KItimer] /\ thread' \in [Threads -> ThreadState]
      BY <1>1, <2>1, <2>3, BlankTypes DEF TypeOK, Leave
    <3> QED
      BY <2>1, <3>1 DEF AddFails, TypeOK, clock, external, history
  <2>5. OneOwner'
    BY <2>1 DEF OneOwner, Leave, Owns, TypeOK, ThreadState, User
  <2>6. ThreadInv'
    BY <1>1, <2>1, <2>3 DEF ThreadInv, ThreadOK, OneOwner, Leave, Owns, At, TypeOK, ThreadState, User
  <2>7. With("add", k)' = {}
    <3> SUFFICES ASSUME NEW q \in Threads, thread'[q].pc = "add", thread'[q].obj = k PROVE FALSE
      BY DEF With, At
    <3>1. q # p
      BY <2>1 DEF Leave, User, TypeOK
    <3>2. thread'[q] = thread[q]
      BY <2>1, <3>1 DEF Leave, TypeOK
    <3> QED
      BY <1>1, <3>1, <3>2 DEF OneOwner, Owns
  <2>8. ASSUME NEW j \in Timers PROVE TimerOK(j)'
    <3>1. CASE j = k
      <4>1. Cardinality(With("deliver", k)) \in Nat
        BY WithNat
      <4>2. timr[k].refs = 1 + (IF sigq[k] # "none" THEN 1 ELSE 0) + Cardinality(With("deliver", k))
        BY <1>1, <1>2 DEF TimerInv, TimerOK, Exact
      <4>3. ~Owned(k)' /\ sigq' = sigq /\ hr' = hr
        BY <2>3, <2>7 DEF AddFails, Owned
      <4>4. Exact(k)'
        BY <1>1, <1>3, <2>3, <4>1, <4>2, <4>3 DEF Exact
      <4> QED
        BY <3>1, <1>1, <1>2, <1>3, <2>3, <4>3, <4>4 DEF TimerInv, TimerOK, Running
    <3>2. CASE j # k
      BY <3>2, <1>1, <1>3, <2>1 DEF AddFails, TypeOK, TimerInv, TimerOK, Exact, Owned, Running
    <3> QED
      BY <3>1, <3>2
  <2> QED
    BY <2>4, <2>5, <2>6, <2>8 DEF TimerInv
<1>5. CASE ~(thread[p].op = "restore" \/ thread[p].cnt = INT_MAX)
  <2>1. /\ thread' = [thread EXCEPT ![p].id = next_id, ![p].cnt = @ + 1]
        /\ next_id' = Next_id(next_id) /\ timr' = timr
    BY <1>5 DEF AddFails
  <2>2. TypeOK'
    <3>1. thread[p].cnt + 1 \in Ids
      BY <1>5, ConstAssumption DEF TypeOK, ThreadState, Ids
    <3>2. thread' \in [Threads -> ThreadState]
      <4> DEFINE x == [thread[p] EXCEPT !.id = next_id, !.cnt = @ + 1]
      <4>1. x \in ThreadState
        BY <3>1 DEF TypeOK, ThreadState
      <4>2. thread' = [thread EXCEPT ![p] = x]
        BY <2>1 DEF TypeOK
      <4> QED
        BY <4>1, <4>2 DEF TypeOK
    <3>3. next_id' \in Ids
      BY <2>1, IdTypes DEF TypeOK
    <3> QED
      BY <2>1, <3>2, <3>3 DEF AddFails, TypeOK, clock, external, history
  <2>3. OneOwner' /\ ThreadInv'
    BY <2>1 DEF OneOwner, ThreadInv, ThreadOK, Owns, At, TypeOK, ThreadState
  <2>4. \A j \in Timers : With("add", j)' = With("add", j)
    BY <2>1 DEF With, At, TypeOK, ThreadState
  <2>5. TimerInv'
    BY <1>3, <2>1, <2>4 DEF AddFails, TimerInv, TimerOK, Exact, Owned, Running
  <2> QED
    BY <2>2, <2>3, <2>5
<1> QED
  BY <1>4, <1>5

Held(q) == IF q # "none" THEN 1 ELSE 0

\* What a step on one timer has to keep, if the threads that own timers stay where they are
LEMMA TimerStep ==
  ASSUME IInv, TypeOK', NEW k \in Timers,
         \A j \in Timers \ {k} : timr'[j] = timr[j] /\ hr'[j] = hr[j] /\ sigq'[j] = sigq[j],
         timr'[k].hashed = timr[k].hashed, timr'[k].valid = timr[k].valid,
         timr[k].valid \/ timr'[k].interval = timr[k].interval \/ timr'[k].interval = 0,
         sigq'[k] = "ignored" => timr[k].valid \/ sigq[k] = "ignored",
         hr'[k].queued \/ hr'[k].runs # "no" => hr[k].queued \/ hr[k].runs # "no" \/ timr[k].valid,
         \A q \in Threads : /\ Owns(q) \/ Owns(q)' => thread'[q].pc = thread[q].pc /\ thread'[q].obj = thread[q].obj
                            /\ thread'[q].pc # "user" => thread'[q].obj \in Timers,
         \A j \in Timers \ {k} : With("deliver", j)' = With("deliver", j),
         timr'[k].refs = timr[k].refs - Held(sigq[k]) + Held(sigq'[k])
                         - Cardinality(With("deliver", k)) + Cardinality(With("deliver", k)')
  PROVE  IInv'
<1> USE DEF IInv
<1>1. OneOwner'
  BY DEF OneOwner, Owns
<1>2. ASSUME NEW q \in Threads PROVE ThreadOK(q)'
  <2>1. ThreadOK(q) /\ (~At(q, "user"))' => thread'[q].obj \in Timers
    BY DEF At, ThreadInv
  <2>2. CASE Owns(q)'
    <3>1. Owns(q) /\ thread'[q].pc = thread[q].pc /\ thread'[q].obj = thread[q].obj /\ thread[q].obj \in Timers
      BY <2>1, <2>2 DEF Owns, ThreadInv, ThreadOK, At
    <3>2. ~timr[thread[q].obj].valid /\ (timr[thread[q].obj].hashed <=> ~At(q, "add"))
          /\ (At(q, "add") \/ At(q, "setup") => timr[thread[q].obj].interval = 0)
      BY <3>1 DEF ThreadInv, ThreadOK
    <3>3. CASE thread[q].obj = k
      BY <2>1, <3>1, <3>2, <3>3 DEF ThreadOK, At
    <3>4. CASE thread[q].obj # k
      BY <2>1, <3>1, <3>2, <3>4 DEF ThreadOK, At
    <3> QED
      BY <3>3, <3>4
  <2>3. CASE ~Owns(q)'
    BY <2>1, <2>3 DEF ThreadInv, ThreadOK, Owns, At
  <2> QED
    BY <2>2, <2>3
<1>3. ASSUME NEW pc \in {"add", "del_wait"}, NEW j \in Timers PROVE With(pc, j)' = With(pc, j)
  BY DEF With, At, Owns
<1>4. ASSUME NEW j \in Timers, j # k PROVE TimerOK(j)'
  BY <1>3, <1>4 DEF TimerInv, TimerOK, Exact, Owned, Running
<1>5. TimerOK(k)'
  <2>1. TimerOK(k) /\ (Owned(k)' <=> Owned(k))
    BY <1>3 DEF TimerInv, Owned
  <2>2. Exact(k)'
    <3>1. timr[k].refs = (IF Owned(k) THEN 1 ELSE 0) + Held(sigq[k]) + Cardinality(With("deliver", k))
      BY <2>1 DEF TimerOK, Exact, Held
    <3>2. Cardinality(With("deliver", k)) \in Nat
      BY WithNat
    <3>4. Cardinality(With("deliver", k)') \in Nat
      BY WithNat
    <3>5. timr'[k].refs = (IF Owned(k) THEN 1 ELSE 0) + Held(sigq'[k]) + Cardinality(With("deliver", k)')
      BY <3>1, <3>2, <3>4 DEF Held
    <3> QED
      BY <2>1, <3>5 DEF Exact, Held
  <2> QED
    BY <1>3, <2>1, <2>2 DEF TimerOK, Running
<1> QED
  BY <1>1, <1>2, <1>4, <1>5 DEF ThreadInv, TimerInv

\* The intervals that have passed, and the time they take, are natural numbers.
LEMMA ForwardTypes ==
  ASSUME NEW e \in Nat, NEW c \in Int, NEW i \in Nat, i # 0
  PROVE  Forward(e, i, c) \in Nat /\ e + Forward(e, i, c) * i \in Nat
<1>1. ASSUME NEW a \in Nat, NEW b \in Nat PROVE a * b \in Nat
  OBVIOUS
<1>2. ASSUME NEW a \in Nat, NEW b \in Nat \ {0} PROVE a \div b \in Nat
  OBVIOUS
<1>3. Forward(e, i, c) \in Nat
  <2>1. CASE c < e
    BY <2>1 DEF Forward
  <2>2. CASE ~(c < e)
    <3>1. c - e \in Nat /\ i \in Nat \ {0}
      BY <2>2
    <3>2. (c - e) \div i \in Nat
      BY <1>2, <3>1
    <3> QED
      BY <2>2, <3>2 DEF Forward
  <2> QED
    BY <2>1, <2>2
<1>4. Forward(e, i, c) * i \in Nat
  BY <1>1, <1>3
<1> QED
  BY <1>3, <1>4

\* The clocks are natural numbers.
LEMMA ClockTypes == ASSUME TypeOK, NEW kclock \in {"real", "mono"} PROVE Clock(kclock) \in Nat
  BY ConstAssumption DEF TypeOK, Clock

\* So are the overruns, and there are none of a one-shot timer.
LEMMA OverrunTypes ==
  ASSUME TypeOK, NEW k \in Timers
  PROVE  /\ Overruns(k) \in Nat /\ hr[k].expires + Overruns(k) * timr[k].interval \in Nat
         /\ timr[k].interval = 0 => Overruns(k) = 0
<1>1. /\ hr[k].expires \in Nat /\ timr[k].interval \in Nat /\ Clock(timr[k].kclock) \in Nat
  BY ClockTypes DEF TypeOK, KItimer, Hrtimer
<1>2. CASE timr[k].interval # 0 /\ timr[k].status # "ARMED"
  <2>1. Overruns(k) = Forward(hr[k].expires, timr[k].interval, Clock(timr[k].kclock))
    BY <1>2 DEF Overruns
  <2>2. Clock(timr[k].kclock) \in Int
    BY <1>1
  <2> HIDE DEF Clock
  <2> QED
    BY <1>1, <1>2, <2>1, <2>2, ForwardTypes
<1>3. CASE ~(timr[k].interval # 0 /\ timr[k].status # "ARMED")
  BY <1>1, <1>3 DEF Overruns
<1> QED
  BY <1>2, <1>3

\* A thread that finds its timer under the lock
LEMMA LockedFacts ==
  ASSUME IInv, NEW p \in Threads, Locked(p, "get") \/ Sets(p) \/ Locked(p, "delete")
  PROVE  /\ thread[p].obj \in Timers /\ timr[thread[p].obj].valid /\ timr[thread[p].obj].hashed
         /\ thread[p].pc = "found"
         /\ \A q \in Threads : Owns(q) => thread[q].obj # thread[p].obj
         /\ timr[thread[p].obj].refs >= 1
<1> USE DEF IInv
<1>1. PICK k \in Timers : k = thread[p].obj /\ timr[k].valid /\ thread[p].pc = "found"
  BY DEF Locked, Sets, At, ThreadInv, ThreadOK
<1>2. Cardinality(With("deliver", k)) \in Nat
  BY WithNat
<1>3. timr[k].hashed /\ timr[k].refs >= 1
  BY <1>1, <1>2 DEF TimerInv, TimerOK, Exact, Owned
<1> QED
  BY <1>1, <1>3 DEF ThreadInv, ThreadOK

\* A thread that owns no timer, and goes where it owns none
LEMMA MoveFacts ==
  ASSUME IInv, NEW p \in Threads, NEW x \in ThreadState, thread' = [thread EXCEPT ![p] = x],
         ~Owns(p), x.pc \in {"user", "found", "wait", "deliver"}, x.pc # "user" => x.obj \in Timers
  PROVE  /\ \A q \in Threads :
               /\ Owns(q) \/ Owns(q)' => thread'[q].pc = thread[q].pc /\ thread'[q].obj = thread[q].obj
               /\ thread'[q].pc # "user" => thread'[q].obj \in Timers
         /\ \A j \in Timers : p \notin With("deliver", j) /\ ~(x.pc = "deliver" /\ x.obj = j)
               => With("deliver", j)' = With("deliver", j)
<1>1. ASSUME NEW q \in Threads
      PROVE  /\ Owns(q) \/ Owns(q)' => thread'[q].pc = thread[q].pc /\ thread'[q].obj = thread[q].obj
             /\ thread'[q].pc # "user" => thread'[q].obj \in Timers
  BY DEF IInv, Owns, TypeOK, ThreadInv, ThreadOK, At
<1>2. ASSUME NEW j \in Timers, p \notin With("deliver", j), ~(x.pc = "deliver" /\ x.obj = j)
      PROVE  With("deliver", j)' = With("deliver", j)
  <2>1. With("deliver", j)' = With("deliver", j) \ {p}
    BY <1>2 DEF IInv, TypeOK, With, At
  <2> QED
    BY <1>2, <2>1
<1> QED
  BY <1>1, <1>2

\* timer_gettime() changes the expiry and the overrun count of one valid timer.
LEMMA GetTimeStep ==
  ASSUME IInv, NEW p \in Threads, GetTime(p)
  PROVE  IInv'
<1> USE DEF IInv
<1>1. PICK k \in Timers : k = thread[p].obj /\ timr[k].valid /\ thread[p].pc = "found"
  BY LockedFacts DEF GetTime
<1>2. /\ timr' = [timr EXCEPT ![k].overrun = @ + Overruns(k)]
      /\ hr' = [hr EXCEPT ![k].expires = @ + Overruns(k) * timr[k].interval]
      /\ thread' = [thread EXCEPT ![p] = User]
      /\ UNCHANGED <<clock, next_id, sigq, external, exiting, calls, history>>
  BY <1>1 DEF GetTime, Leave
<1> DEFINE r == [timr[k] EXCEPT !.overrun = @ + Overruns(k)]
           h == [hr[k] EXCEPT !.expires = @ + Overruns(k) * timr[k].interval]
<1>3. r \in KItimer /\ h \in Hrtimer
  <2>1. timr[k] \in KItimer /\ hr[k] \in Hrtimer
    BY DEF TypeOK
  <2>2. r \in KItimer
    <3>1. timr[k].overrun + Overruns(k) \in Int
      BY <2>1, OverrunTypes DEF KItimer
    <3> QED
      BY <2>1, <3>1 DEF KItimer
  <2>3. h \in Hrtimer
    <3>1. hr[k].expires + Overruns(k) * timr[k].interval \in Nat
      BY OverrunTypes
    <3> QED
      BY <2>1, <3>1 DEF Hrtimer
  <2> QED
    BY <2>2, <2>3
<1>4. timr' = [timr EXCEPT ![k] = r] /\ hr' = [hr EXCEPT ![k] = h]
  BY <1>2 DEF TypeOK
<1>5. TypeOK'
  BY <1>2, <1>3, <1>4, BlankTypes DEF TypeOK, clock, external, history
<1>6. User.pc = "user" /\ ~Owns(p) /\ \A j \in Timers : p \notin With("deliver", j)
  BY <1>1 DEF Owns, User, With, At
<1>7. /\ \A j \in Timers : With("deliver", j)' = With("deliver", j)
      /\ \A q \in Threads :
             /\ Owns(q) \/ Owns(q)' => thread'[q].pc = thread[q].pc /\ thread'[q].obj = thread[q].obj
             /\ thread'[q].pc # "user" => thread'[q].obj \in Timers
  BY <1>2, <1>6, MoveFacts, BlankTypes
<1>8. /\ \A j \in Timers \ {k} : timr'[j] = timr[j] /\ hr'[j] = hr[j] /\ sigq'[j] = sigq[j]
      /\ timr'[k].hashed = timr[k].hashed /\ timr'[k].valid = timr[k].valid /\ timr'[k].refs = timr[k].refs
      /\ sigq'[k] = sigq[k]
  BY <1>2, <1>4 DEF TypeOK, KItimer
<1>9. timr'[k].refs = timr[k].refs - Held(sigq[k]) + Held(sigq'[k])
                      - Cardinality(With("deliver", k)) + Cardinality(With("deliver", k)')
  <2>1. Cardinality(With("deliver", k)) \in Nat /\ timr[k].refs \in Nat
    BY WithNat DEF TypeOK, KItimer
  <2> QED
    BY <1>7, <1>8, <2>1 DEF Held
<1> QED
  BY <1>1, <1>5, <1>7, <1>8, <1>9, TimerStep

\* timer_settime() that has to wait changes the same, and the sequence.
LEMMA SetRetryStep ==
  ASSUME IInv, NEW p \in Threads, NEW old \in BOOLEAN, SetRetry(p, old)
  PROVE  IInv'
<1> USE DEF IInv
<1>1. PICK k \in Timers : k = thread[p].obj /\ timr[k].valid /\ thread[p].pc = "found"
  BY LockedFacts DEF SetRetry
<1> DEFINE n == IF old THEN Overruns(k) ELSE 0
           r == [timr[k] EXCEPT !.seq = @ + 1, !.overrun = @ + n]
           h == [hr[k] EXCEPT !.expires = @ + n * timr[k].interval]
           x == [thread[p] EXCEPT !.pc = "wait", !.op = "retry"]
<1>2. /\ timr' = [timr EXCEPT ![k] = r] /\ hr' = [hr EXCEPT ![k] = h]
      /\ thread' = [thread EXCEPT ![p] = x] /\ timr[k].seq < MaxSeq
      /\ UNCHANGED <<clock, next_id, sigq, external, exiting, calls, history>>
  BY <1>1 DEF SetRetry, TypeOK
<1>3. timr[k] \in KItimer /\ hr[k] \in Hrtimer /\ thread[p] \in ThreadState
  BY DEF TypeOK
<1>4. n \in Nat /\ hr[k].expires + n * timr[k].interval \in Nat
  BY <1>3, OverrunTypes DEF KItimer, Hrtimer
<1>5. r \in KItimer /\ r.hashed = timr[k].hashed /\ r.valid = timr[k].valid /\ r.refs = timr[k].refs
  <2>1. timr[k].overrun + n \in Int /\ timr[k].seq + 1 \in 0 .. MaxSeq
    BY <1>2, <1>3, <1>4, ConstAssumption DEF KItimer
  <2> HIDE DEF n
  <2> QED
    BY <1>3, <2>1 DEF KItimer
<1>6. h \in Hrtimer /\ h.queued = hr[k].queued /\ h.runs = hr[k].runs
  BY <1>3, <1>4 DEF Hrtimer
<1>7. x \in ThreadState /\ x.pc = "wait" /\ x.obj = k
  BY <1>1, <1>3 DEF ThreadState, Pcs
<1> HIDE DEF r, h, x
<1>8. TypeOK'
  BY <1>2, <1>5, <1>6, <1>7 DEF TypeOK, clock, external, history
<1>9. ~Owns(p) /\ \A j \in Timers : p \notin With("deliver", j)
  BY <1>1 DEF Owns, With, At
<1>10. /\ \A j \in Timers : With("deliver", j)' = With("deliver", j)
       /\ \A q \in Threads :
              /\ Owns(q) \/ Owns(q)' => thread'[q].pc = thread[q].pc /\ thread'[q].obj = thread[q].obj
              /\ thread'[q].pc # "user" => thread'[q].obj \in Timers
  BY <1>2, <1>7, <1>9, MoveFacts
<1>11. /\ \A j \in Timers \ {k} : timr'[j] = timr[j] /\ hr'[j] = hr[j] /\ sigq'[j] = sigq[j]
       /\ timr'[k] = r /\ hr'[k] = h /\ sigq'[k] = sigq[k]
  BY <1>2 DEF TypeOK
<1>12. timr'[k].refs = timr[k].refs - Held(sigq[k]) + Held(sigq'[k])
                       - Cardinality(With("deliver", k)) + Cardinality(With("deliver", k)')
  <2>1. Cardinality(With("deliver", k)) \in Nat /\ timr[k].refs \in Nat
    BY WithNat DEF TypeOK, KItimer
  <2> QED
    BY <1>5, <1>10, <1>11, <2>1 DEF Held
<1> QED
  BY <1>1, <1>5, <1>6, <1>8, <1>10, <1>11, <1>12, TimerStep

\* The new setting of a timer keeps what does not belong to the setting.
LEMMA SettingFacts ==
  ASSUME TypeOK, NEW k \in Timers, timr[k].seq < MaxSeq, NEW s \in Settings
  PROVE  /\ NewSetting(k, s) \in KItimer
         /\ NewSetting(k, s).hashed = timr[k].hashed /\ NewSetting(k, s).valid = timr[k].valid
         /\ NewSetting(k, s).refs = timr[k].refs /\ NewSetting(k, s).id = timr[k].id
         /\ NewSetting(k, s).overrun = -1 /\ NewSetting(k, s).interval = s.interval
<1>1. timr[k] \in KItimer /\ timr[k].seq + 1 \in 0 .. MaxSeq
  BY ConstAssumption DEF TypeOK, KItimer
<1>2. s.interval \in Nat /\ s.kclock \in {"real", "mono"}
  BY ConstAssumption DEF Settings
<1> DEFINE kc == IF s.value = 0 THEN timr[k].kclock ELSE s.kclock
           n == timr[k].seq + 1
           r == [timr[k] EXCEPT !.seq = n, !.status = "DISARMED", !.interval = s.interval,
                                !.overrun = -1, !.kclock = kc]
<1>3. kc \in {"real", "mono"} /\ n \in 0 .. MaxSeq
  BY <1>1, <1>2 DEF KItimer
<1>4. NewSetting(k, s) = r
  BY DEF NewSetting
<1> HIDE DEF kc, n
<1>5. r \in KItimer
  <2> DEFINE t == timr[k]
             i == s.interval
             m == -1
             v == [t EXCEPT !.seq = n, !.status = "DISARMED"]
  <2>1. t \in KItimer /\ i \in Nat /\ m \in Int
    BY <1>1, <1>2
  <2>2. v \in KItimer
    <3> HIDE DEF t
    <3> QED
      BY <1>3, <2>1 DEF KItimer
  <2>3. r = [v EXCEPT !.interval = i, !.overrun = m, !.kclock = kc]
    BY <2>1 DEF KItimer
  <2> HIDE DEF v, i, m, r
  <2> QED
    BY <1>3, <2>1, <2>2, <2>3 DEF KItimer
<1>6. /\ r.hashed = timr[k].hashed /\ r.valid = timr[k].valid
      /\ r.refs = timr[k].refs /\ r.id = timr[k].id
      /\ r.overrun = -1 /\ r.interval = s.interval
  BY <1>1 DEF KItimer
<1> QED
  BY <1>4, <1>5, <1>6

\* A valid timer has a reference for the hash, one for its signal and one for each delivery.
LEMMA ValidRefs ==
  ASSUME IInv, NEW k \in Timers, timr[k].valid
  PROVE  /\ timr[k].refs = 1 + Held(sigq[k]) + Cardinality(With("deliver", k))
         /\ timr[k].hashed /\ Cardinality(With("deliver", k)) \in Nat
<1>1. Cardinality(With("deliver", k)) \in Nat
  BY WithNat
<1> QED
  BY <1>1 DEF IInv, TimerInv, TimerOK, Exact, Owned, Held

\* A new setting, with its signal if it has expired already
LEMMA SetStep ==
  ASSUME IInv, NEW p \in Threads, NEW s \in Settings, NEW expired \in BOOLEAN, Set(p, s, expired)
  PROVE  IInv'
<1> USE DEF IInv
<1>1. PICK k \in Timers : k = thread[p].obj /\ timr[k].valid /\ thread[p].pc = "found"
  BY LockedFacts DEF Set
<1> DEFINE r == NewSetting(k, s)
           e == IF s.kclock = "real" THEN s.value ELSE now + s.value
           queued == QueueSignal(r, sigq[k])
           armed == s.value # 0 /\ k \notin SigevNone
           status == IF armed THEN "ARMED" ELSE r.status
           f == IF expired THEN queued.timr ELSE [r EXCEPT !.status = status]
           g == IF expired THEN queued.sigq ELSE sigq[k]
           x == IF s.value = 0 THEN hr[k].expires ELSE e
           h == [hr[k] EXCEPT !.queued = armed /\ ~expired, !.expires = x]
<1>2. /\ timr' = [timr EXCEPT ![k] = f] /\ sigq' = [sigq EXCEPT ![k] = g]
      /\ hr' = [hr EXCEPT ![k] = h] /\ thread' = [thread EXCEPT ![p] = User]
      /\ timr[k].seq < MaxSeq
      /\ first' = [first EXCEPT ![k] = e] /\ reported' = [reported EXCEPT ![k] = 0]
      /\ fired' = [fired EXCEPT ![k] = expired]
      /\ UNCHANGED <<clock, next_id, external, exiting, calls>>
  <2>1. /\ hr' = [hr EXCEPT ![k].queued = armed /\ ~expired, ![k].expires = IF s.value = 0 THEN @ ELSE e]
        /\ IF expired
           THEN timr' = [timr EXCEPT ![k] = queued.timr] /\ sigq' = [sigq EXCEPT ![k] = queued.sigq]
           ELSE timr' = [timr EXCEPT ![k] = [r EXCEPT !.status = IF armed THEN "ARMED" ELSE @]] /\ sigq' = sigq
        /\ Leave(p) /\ timr[k].seq < MaxSeq
        /\ first' = [first EXCEPT ![k] = e] /\ reported' = [reported EXCEPT ![k] = 0]
        /\ fired' = [fired EXCEPT ![k] = expired]
        /\ UNCHANGED <<clock, next_id, external, exiting, calls>>
    BY <1>1 DEF Set
  <2> HIDE DEF r, e, queued, armed
  <2>2. hr' = [hr EXCEPT ![k] = h]
    BY <2>1 DEF TypeOK
  <2>3. timr' = [timr EXCEPT ![k] = f] /\ sigq' = [sigq EXCEPT ![k] = g]
    BY <2>1 DEF TypeOK
  <2> QED
    BY <2>1, <2>2, <2>3 DEF Leave
<1>3. /\ r \in KItimer /\ r.hashed = timr[k].hashed /\ r.valid = timr[k].valid
      /\ r.refs = timr[k].refs /\ r.interval = s.interval
  BY <1>2, SettingFacts
<1>4. /\ timr[k].refs = 1 + Held(sigq[k]) + Cardinality(With("deliver", k))
      /\ Cardinality(With("deliver", k)) \in Nat /\ sigq[k] \in Sigqs
  BY <1>1, ValidRefs DEF TypeOK, Sigqs
<1>5. f \in KItimer /\ f.hashed = timr[k].hashed /\ f.valid = timr[k].valid /\ g \in Sigqs
  <2>1. CASE expired
    <3>1. r.refs >= (IF sigq[k] # "none" THEN 2 ELSE 1)
      BY <1>3, <1>4 DEF Held
    <3> QED
      BY <1>3, <1>4, <2>1, <3>1, QueueFacts DEF TypeOK
  <2>2. CASE ~expired
    <3>1. status \in {"DISARMED", "ARMED", "REQUEUE_PENDING"}
      BY <1>3 DEF KItimer
    <3> HIDE DEF status, r
    <3> QED
      BY <1>3, <1>4, <2>2, <3>1 DEF KItimer
  <2> QED
    BY <2>1, <2>2
<1>6. f.refs = timr[k].refs - Held(sigq[k]) + Held(g)
  <2>1. CASE expired
    <3>1. r.refs >= (IF sigq[k] # "none" THEN 2 ELSE 1)
      BY <1>3, <1>4 DEF Held
    <3>2. queued.timr.refs + Held(sigq[k]) = r.refs + Held(queued.sigq) /\ queued.timr \in KItimer
      BY <1>3, <1>4, <3>1, QueueFacts DEF TypeOK, Held
    <3>3. f = queued.timr /\ g = queued.sigq /\ f.refs \in Nat
      BY <2>1, <3>2 DEF KItimer
    <3> HIDE DEF f, g, queued, r
    <3> QED
      BY <1>3, <1>4, <3>2, <3>3 DEF Held
  <2>2. CASE ~expired
    <3>1. f.refs = r.refs /\ g = sigq[k]
      BY <2>2, <1>3 DEF KItimer
    <3> HIDE DEF f, g, r
    <3> QED
      BY <1>3, <1>4, <3>1 DEF Held
  <2> QED
    BY <2>1, <2>2
<1>7. h \in Hrtimer /\ h.runs = hr[k].runs /\ e \in Nat
  <2>1. e \in Nat /\ x \in Nat /\ hr[k] \in Hrtimer
    <3>0. s.value \in Values
      BY DEF Settings
    <3>1. s.value \in Nat
      BY <3>0, ConstAssumption
    <3>3. now \in Nat
      BY DEF TypeOK
    <3>4. hr[k] \in Hrtimer
      BY DEF TypeOK
    <3>2. hr[k].expires \in Nat
      BY <3>4 DEF Hrtimer
    <3> QED
      BY <3>1, <3>2, <3>3, <3>4
  <2> HIDE DEF e, x, armed
  <2> QED
    BY <2>1 DEF Hrtimer
<1> HIDE DEF r, e, queued, f, g, h
<1>8. TypeOK'
  <2>1. timr' \in [Timers -> KItimer] /\ hr' \in [Timers -> Hrtimer] /\ thread' \in [Threads -> ThreadState]
        /\ sigq' \in [Timers -> Sigqs]
    BY <1>2, <1>5, <1>7, BlankTypes DEF TypeOK, Sigqs
  <2>2. first' \in [Timers -> Nat] /\ reported' \in [Timers -> Int] /\ fired' \in [Timers -> BOOLEAN]
    BY <1>2, <1>7 DEF TypeOK
  <2> QED
    BY <1>2, <2>1, <2>2 DEF TypeOK, Sigqs, clock, external
<1>9. User.pc = "user" /\ ~Owns(p) /\ \A j \in Timers : p \notin With("deliver", j)
  BY <1>1 DEF Owns, With, At, User
<1>10. /\ \A j \in Timers : With("deliver", j)' = With("deliver", j)
       /\ \A q \in Threads :
              /\ Owns(q) \/ Owns(q)' => thread'[q].pc = thread[q].pc /\ thread'[q].obj = thread[q].obj
              /\ thread'[q].pc # "user" => thread'[q].obj \in Timers
  BY <1>2, <1>9, MoveFacts, BlankTypes
<1>11. /\ \A j \in Timers \ {k} : timr'[j] = timr[j] /\ hr'[j] = hr[j] /\ sigq'[j] = sigq[j]
       /\ timr'[k] = f /\ hr'[k] = h /\ sigq'[k] = g
  BY <1>2 DEF TypeOK
<1>12. timr'[k].refs = timr[k].refs - Held(sigq[k]) + Held(sigq'[k])
                       - Cardinality(With("deliver", k)) + Cardinality(With("deliver", k)')
  BY <1>4, <1>6, <1>10, <1>11 DEF Held
<1> QED
  BY <1>1, <1>5, <1>8, <1>10, <1>11, <1>12, TimerStep

\* No thread moves.
LEMMA StayFacts ==
  ASSUME IInv, thread' = thread
  PROVE  /\ \A q \in Threads :
               /\ Owns(q) \/ Owns(q)' => thread'[q].pc = thread[q].pc /\ thread'[q].obj = thread[q].obj
               /\ thread'[q].pc # "user" => thread'[q].obj \in Timers
         /\ \A pc : \A j \in Timers : With(pc, j)' = With(pc, j)
<1>1. \A q \in Threads : /\ Owns(q) \/ Owns(q)' => thread'[q].pc = thread[q].pc /\ thread'[q].obj = thread[q].obj
                         /\ thread'[q].pc # "user" => thread'[q].obj \in Timers
  BY DEF IInv, ThreadInv, ThreadOK, At
<1>2. ASSUME NEW pc, NEW j \in Timers PROVE With(pc, j)' = With(pc, j)
  BY DEF With, At
<1> QED
  BY <1>1, <1>2

\* The reference count of a timer with the same signal and the same deliveries
LEMMA SameRefs ==
  ASSUME TypeOK, NEW k \in Timers, timr'[k].refs = timr[k].refs, sigq'[k] = sigq[k],
         With("deliver", k)' = With("deliver", k)
  PROVE  timr'[k].refs = timr[k].refs - Held(sigq[k]) + Held(sigq'[k])
                         - Cardinality(With("deliver", k)) + Cardinality(With("deliver", k)')
<1>1. Cardinality(With("deliver", k)) \in Nat /\ timr[k].refs \in Nat
  BY WithNat DEF TypeOK, KItimer
<1> QED
  BY <1>1 DEF Held

\* The hrtimer core starts the callback of a queued timer, and gets back from it.
LEMMA FireStep ==
  ASSUME IInv, NEW k \in Timers, Fire(k) \/ FnDone(k)
  PROVE  IInv'
<1> USE DEF IInv
<1>1. PICK h \in Hrtimer : hr' = [hr EXCEPT ![k] = h] /\ (h.queued => hr[k].queued)
                           /\ (hr[k].queued \/ hr[k].runs # "no")
  <2>1. CASE Fire(k)
    <3> DEFINE h == [hr[k] EXCEPT !.queued = FALSE, !.runs = "fn"]
    <3>1. h \in Hrtimer /\ ~h.queued
      BY DEF TypeOK, Hrtimer
    <3>2. hr' = [hr EXCEPT ![k] = h] /\ hr[k].queued
      BY <2>1 DEF Fire, TypeOK
    <3> QED
      BY <3>1, <3>2
  <2>2. CASE FnDone(k)
    <3> DEFINE h == [hr[k] EXCEPT !.runs = "no"]
    <3>1. h \in Hrtimer /\ (h.queued => hr[k].queued)
      BY DEF TypeOK, Hrtimer
    <3>2. hr' = [hr EXCEPT ![k] = h] /\ hr[k].runs = "end"
      BY <2>2 DEF FnDone, TypeOK
    <3> QED
      BY <3>1, <3>2
  <2> QED
    BY <2>1, <2>2
<1>2. UNCHANGED <<clock, next_id, timr, sigq, external, exiting, thread, calls, history>>
  BY DEF Fire, FnDone
<1>3. TypeOK'
  BY <1>1, <1>2 DEF TypeOK, clock, external, history
<1>4. \A j \in Timers \ {k} : timr'[j] = timr[j] /\ hr'[j] = hr[j] /\ sigq'[j] = sigq[j]
  BY <1>1, <1>2 DEF TypeOK
<1>5. thread' = thread /\ timr' = timr /\ sigq' = sigq
  BY <1>2
<1> QED
  BY <1>1, <1>3, <1>4, <1>5, StayFacts, SameRefs, TimerStep

\* posix_timer_fn() takes a reference with the signal, if the timer is valid.
LEMMA PosixTimerFnStep ==
  ASSUME IInv, NEW k \in Timers, PosixTimerFn(k)
  PROVE  IInv'
<1> USE DEF IInv
<1> DEFINE s == QueueSignal(timr[k], sigq[k])
           h == [hr[k] EXCEPT !.runs = "end"]
<1>1. /\ timr' = [timr EXCEPT ![k] = s.timr] /\ sigq' = [sigq EXCEPT ![k] = s.sigq]
      /\ hr' = [hr EXCEPT ![k] = h] /\ hr[k].runs = "fn" /\ fired' = [fired EXCEPT ![k] = TRUE]
      /\ UNCHANGED <<clock, next_id, external, exiting, thread, calls, first, reported>>
  BY DEF PosixTimerFn, TypeOK
<1>2. timr[k] \in KItimer /\ sigq[k] \in Sigqs /\ h \in Hrtimer /\ (h.queued => hr[k].queued)
  BY DEF TypeOK, Sigqs, Hrtimer
<1>3. timr[k].refs >= (IF sigq[k] # "none" THEN 2 ELSE 1) \/ ~timr[k].valid
  BY ValidRefs DEF Held
<1>4. /\ s.timr \in KItimer /\ s.sigq \in Sigqs
      /\ s.timr.refs + Held(sigq[k]) = timr[k].refs + Held(s.sigq)
      /\ s.timr.hashed = timr[k].hashed /\ s.timr.valid = timr[k].valid
      /\ s.timr.interval = timr[k].interval
      /\ s.sigq = "ignored" => timr[k].valid \/ sigq[k] = "ignored"
  BY <1>2, <1>3, QueueFacts DEF TypeOK, Held
<1> HIDE DEF s, h
<1>5. TypeOK'
  <2>1. timr' \in [Timers -> KItimer] /\ hr' \in [Timers -> Hrtimer] /\ sigq' \in [Timers -> Sigqs]
        /\ fired' \in [Timers -> BOOLEAN]
    BY <1>1, <1>2, <1>4 DEF TypeOK, Sigqs
  <2> QED
    BY <1>1, <2>1 DEF TypeOK, clock, external, Sigqs
<1>6. /\ \A j \in Timers \ {k} : timr'[j] = timr[j] /\ hr'[j] = hr[j] /\ sigq'[j] = sigq[j]
      /\ timr'[k] = s.timr /\ sigq'[k] = s.sigq /\ hr'[k] = h
  BY <1>1 DEF TypeOK
<1>7. With("deliver", k)' = With("deliver", k) /\ Cardinality(With("deliver", k)) \in Nat
  BY <1>1, StayFacts, WithNat
<1>8. timr'[k].refs = timr[k].refs - Held(sigq[k]) + Held(sigq'[k])
                      - Cardinality(With("deliver", k)) + Cardinality(With("deliver", k)')
  <2>1. timr[k].refs \in Nat /\ s.timr.refs \in Nat
    BY <1>2, <1>4 DEF KItimer
  <2> QED
    BY <1>4, <1>6, <1>7, <2>1 DEF Held
<1> QED
  BY <1>1, <1>2, <1>4, <1>5, <1>6, <1>8, StayFacts, TimerStep

\* The signal and its reference go to the thread that delivers it.
LEMMA DequeueStep ==
  ASSUME IInv, NEW p \in Threads, NEW k \in Timers, Dequeue(p, k)
  PROVE  IInv'
<1> USE DEF IInv
<1> DEFINE x == [User EXCEPT !.pc = "deliver", !.obj = k]
<1>1. /\ thread' = [thread EXCEPT ![p] = x] /\ sigq' = [sigq EXCEPT ![k] = "none"]
      /\ thread[p].pc = "user" /\ sigq[k] = "pending"
      /\ UNCHANGED <<clock, next_id, timr, hr, external, exiting, calls, history>>
  BY DEF Dequeue, At
<1>2. x \in ThreadState /\ x.pc = "deliver" /\ x.obj = k
  <2>1. timr[k].qseq \in 0 .. MaxSeq
    BY DEF TypeOK, KItimer
  <2> QED
    BY <2>1, BlankTypes DEF User, ThreadState, Pcs
<1> HIDE DEF x
<1>3. TypeOK'
  BY <1>1, <1>2 DEF TypeOK, clock, external, history
<1>4. ~Owns(p) /\ \A j \in Timers : p \notin With("deliver", j)
  BY <1>1 DEF Owns, With, At
<1>5. /\ \A j \in Timers \ {k} : With("deliver", j)' = With("deliver", j)
      /\ \A q \in Threads :
             /\ Owns(q) \/ Owns(q)' => thread'[q].pc = thread[q].pc /\ thread'[q].obj = thread[q].obj
             /\ thread'[q].pc # "user" => thread'[q].obj \in Timers
  BY <1>1, <1>2, <1>4, MoveFacts
<1>6. Cardinality(With("deliver", k)') = Cardinality(With("deliver", k)) + 1
  <2>1. With("deliver", k)' = With("deliver", k) \cup {p}
    <3>1. thread \in [Threads -> ThreadState] /\ thread' = [thread EXCEPT ![p] = x]
      BY <1>1 DEF TypeOK
    <3> QED
      BY <1>2, <3>1 DEF With, At
  <2> QED
    BY <1>4, <2>1, WithCount
<1>7. /\ \A j \in Timers \ {k} : timr'[j] = timr[j] /\ hr'[j] = hr[j] /\ sigq'[j] = sigq[j]
      /\ timr' = timr /\ hr' = hr /\ sigq'[k] = "none"
  BY <1>1 DEF TypeOK
<1>8. timr'[k].refs = timr[k].refs - Held(sigq[k]) + Held(sigq'[k])
                      - Cardinality(With("deliver", k)) + Cardinality(With("deliver", k)')
  <2>1. Cardinality(With("deliver", k)) \in Nat /\ timr[k].refs \in Nat
    BY WithNat DEF TypeOK, KItimer
  <2> QED
    BY <1>1, <1>6, <1>7, <2>1 DEF Held
<1> QED
  BY <1>3, <1>5, <1>7, <1>8, TimerStep

\* Putting the reference of a signal leaves an owned timer alone.
LEMMA PutStep ==
  ASSUME IInv, NEW k \in Timers, With("deliver", k) # {} \/ sigq[k] # "none"
  PROVE  /\ Put(timr[k]) \in KItimer /\ Put(timr[k]).refs = timr[k].refs - 1
         /\ Put(timr[k]).hashed = timr[k].hashed /\ Put(timr[k]).valid = timr[k].valid
         /\ Put(timr[k]).interval = timr[k].interval \/ Put(timr[k]).interval = 0
         /\ timr[k].hashed => Put(timr[k]) = [timr[k] EXCEPT !.refs = @ - 1]
<1> USE DEF IInv
<1>1. Cardinality(With("deliver", k)) \in Nat /\ (Cardinality(With("deliver", k)) = 0 <=> With("deliver", k) = {})
  BY WithNat, FS_EmptySet
<1>2. timr[k] \in KItimer /\ Exact(k) /\ (timr[k].valid => timr[k].hashed)
  BY DEF TypeOK, TimerInv, TimerOK
<1>3. timr[k].refs >= 1 /\ (timr[k].refs = 1 => ~timr[k].hashed)
  BY <1>1, <1>2 DEF Exact, Owned
<1>4. timr[k].refs = 1 => Put(timr[k]).interval = 0
  BY DEF Put, Blank
<1>5. timr[k].hashed => Put(timr[k]) = [timr[k] EXCEPT !.refs = @ - 1]
  BY <1>3 DEF Put
<1> QED
  BY <1>2, <1>3, <1>4, <1>5, PutFacts

\* A delivered signal that does not rearm the timer
LEMMA DeliverStep ==
  ASSUME IInv, NEW p \in Threads, DeliverStale(p) \/ DeliverOneShot(p)
  PROVE  IInv'
<1> USE DEF IInv
<1>1. PICK k \in Timers : k = thread[p].obj /\ thread[p].pc = "deliver" /\ p \in With("deliver", k)
  BY DEF DeliverStale, DeliverOneShot, At, ThreadInv, ThreadOK, With
<1> DEFINE r == Put(timr[k])
<1>2. /\ thread' = [thread EXCEPT ![p] = User] /\ timr' = [timr EXCEPT ![k] = r]
      /\ UNCHANGED <<clock, next_id, hr, sigq, external, exiting, calls, history>>
  BY <1>1 DEF DeliverStale, DeliverOneShot, Leave
<1>3. /\ r \in KItimer /\ r.refs = timr[k].refs - 1 /\ r.hashed = timr[k].hashed /\ r.valid = timr[k].valid
      /\ r.interval = timr[k].interval \/ r.interval = 0
  BY <1>1, PutStep
<1> HIDE DEF r
<1>4. TypeOK'
  BY <1>2, <1>3, BlankTypes DEF TypeOK, clock, external, history
<1>5. User.pc = "user" /\ ~Owns(p) /\ \A j \in Timers \ {k} : p \notin With("deliver", j)
  BY <1>1 DEF Owns, With, At, User
<1>6. /\ \A j \in Timers \ {k} : With("deliver", j)' = With("deliver", j)
      /\ \A q \in Threads :
             /\ Owns(q) \/ Owns(q)' => thread'[q].pc = thread[q].pc /\ thread'[q].obj = thread[q].obj
             /\ thread'[q].pc # "user" => thread'[q].obj \in Timers
  BY <1>2, <1>5, MoveFacts, BlankTypes
<1>7. Cardinality(With("deliver", k)') = Cardinality(With("deliver", k)) - 1
  <2>1. With("deliver", k)' = With("deliver", k) \ {p}
    <3>1. thread \in [Threads -> ThreadState] /\ thread' = [thread EXCEPT ![p] = User]
      BY <1>2 DEF TypeOK
    <3>2. ~(User.pc = "deliver" /\ User.obj = k)
      BY <1>5
    <3> QED
      BY <3>1, <3>2 DEF With, At
  <2> QED
    BY <1>1, <2>1, WithCount
<1>8. /\ \A j \in Timers \ {k} : timr'[j] = timr[j] /\ hr'[j] = hr[j] /\ sigq'[j] = sigq[j]
      /\ timr'[k] = r /\ hr' = hr /\ sigq' = sigq
  BY <1>2 DEF TypeOK
<1>9. timr'[k].refs = timr[k].refs - Held(sigq[k]) + Held(sigq'[k])
                      - Cardinality(With("deliver", k)) + Cardinality(With("deliver", k)')
  <2>1. Cardinality(With("deliver", k)) \in Nat /\ timr[k].refs \in Nat
    BY WithNat DEF TypeOK, KItimer
  <2> QED
    BY <1>3, <1>7, <1>8, <2>1 DEF Held
<1> QED
  BY <1>3, <1>4, <1>6, <1>8, <1>9, TimerStep

\* The bookkeeping of a delivery that rearms the timer
LEMMA RearmFacts ==
  ASSUME IInv, NEW k \in Timers, With("deliver", k) # {}, timr[k].valid, timr[k].seq < MaxSeq,
         NEW expired, NEW after, after = Rearmed(AfterRearm(timr[k]), sigq[k], expired)
  PROVE  /\ Put(after.timr) \in KItimer /\ after.sigq \in Sigqs
         /\ Put(after.timr).refs = timr[k].refs - Held(sigq[k]) + Held(after.sigq) - 1
         /\ Put(after.timr).hashed = timr[k].hashed /\ Put(after.timr).valid = timr[k].valid
         /\ Put(after.timr).id = timr[k].id
         /\ Put(after.timr).interval = timr[k].interval /\ Put(after.timr).overrun = -1
<1> USE DEF IInv
<1> DEFINE r == timr[k]
           n == r.seq + 1
           m == -1
           a == [r EXCEPT !.overrun = m, !.seq = n]
           s == QueueSignal(a, sigq[k])
           b == [a EXCEPT !.status = "ARMED"]
<1>1. r \in KItimer /\ sigq[k] \in Sigqs
  BY DEF TypeOK, Sigqs
<1>2. n \in 0 .. MaxSeq /\ m \in Int
  BY <1>1, ConstAssumption DEF KItimer
<1>3. AfterRearm(r) = a
  BY DEF AfterRearm
<1>4. /\ a \in KItimer /\ a.refs = r.refs /\ a.hashed = r.hashed /\ a.valid = r.valid /\ a.id = r.id
      /\ a.interval = r.interval /\ a.overrun = m
  <2> HIDE DEF r, n, m
  <2> QED
    BY <1>1, <1>2 DEF KItimer
<1>5. /\ r.refs = 1 + Held(sigq[k]) + Cardinality(With("deliver", k))
      /\ r.hashed /\ Cardinality(With("deliver", k)) \in Nat
  BY ValidRefs
<1>6. Cardinality(With("deliver", k)) # 0
  <2>1. IsFiniteSet(With("deliver", k))
    BY WithNat
  <2> QED
    BY <2>1, FS_EmptySet
<1> HIDE DEF a, r, n
<1>7. /\ after.timr \in KItimer /\ after.sigq \in Sigqs
      /\ after.timr.refs = r.refs - Held(sigq[k]) + Held(after.sigq)
      /\ after.timr.hashed = r.hashed /\ after.timr.valid = r.valid /\ after.timr.id = r.id
      /\ after.timr.interval = r.interval /\ after.timr.overrun = m
  <2>1. CASE expired
    <3>1. after = s
      BY <1>3, <2>1 DEF Rearmed, r
    <3>2. a.refs >= (IF sigq[k] # "none" THEN 2 ELSE 1) /\ ignoring \in BOOLEAN
      BY <1>4, <1>5, <1>6 DEF Held, TypeOK
    <3>3. /\ s.timr \in KItimer /\ s.sigq \in Sigqs
          /\ s.timr.refs + Held(sigq[k]) = a.refs + Held(s.sigq)
          /\ s.timr.hashed = a.hashed /\ s.timr.valid = a.valid /\ s.timr.id = a.id
          /\ s.timr.interval = a.interval /\ s.timr.overrun = a.overrun
      BY <1>1, <1>4, <3>2, QueueFacts DEF Held
    <3> HIDE DEF s
    <3>4. s.timr.refs = r.refs - Held(sigq[k]) + Held(s.sigq)
      <4>1. s.timr.refs \in Nat /\ r.refs \in Nat
        BY <1>1, <3>3 DEF KItimer
      <4> QED
        BY <1>4, <3>3, <4>1 DEF Held
    <3> QED
      BY <1>4, <3>1, <3>3, <3>4
  <2>2. CASE ~expired
    <3>1. after.timr = b /\ after.sigq = sigq[k]
      BY <1>3, <2>2 DEF Rearmed, r
    <3>2. /\ b \in KItimer /\ b.refs = a.refs /\ b.hashed = a.hashed /\ b.valid = a.valid /\ b.id = a.id
          /\ b.interval = a.interval /\ b.overrun = a.overrun
      BY <1>4 DEF KItimer
    <3> HIDE DEF b
    <3>3. b.refs = r.refs - Held(sigq[k]) + Held(sigq[k])
      BY <1>1, <1>4, <3>2 DEF Held, KItimer
    <3> QED
      BY <1>1, <1>4, <3>1, <3>2, <3>3
  <2> QED
    BY <2>1, <2>2
<1> DEFINE z == after.timr
<1>8. z.refs \in Nat /\ z.refs >= 2
  <2>1. r.refs \in Nat /\ z.refs \in Nat
    BY <1>1, <1>7 DEF KItimer
  <2> QED
    BY <1>5, <1>6, <1>7, <2>1 DEF Held
<1>9. Put(after.timr) = [after.timr EXCEPT !.refs = @ - 1]
  BY <1>8 DEF Put
<1>10. Put(z) \in KItimer /\ Put(z).refs = z.refs - 1
  <2>1. z \in KItimer /\ z.refs >= 1 /\ z.refs # 1 /\ (z.valid => z.hashed)
    BY <1>5, <1>7, <1>8
  <2> HIDE DEF z
  <2> QED
    BY <2>1, PutFacts
<1>11. /\ Put(after.timr).hashed = r.hashed /\ Put(after.timr).valid = r.valid /\ Put(after.timr).id = r.id
       /\ Put(after.timr).interval = r.interval /\ Put(after.timr).overrun = m
  BY <1>7, <1>9 DEF KItimer
<1>12. Put(after.timr).refs = r.refs - Held(sigq[k]) + Held(after.sigq) - 1
  <2>1. z.refs = r.refs - Held(sigq[k]) + Held(after.sigq) /\ Put(z).refs = z.refs - 1 /\ z.refs \in Nat
        /\ r.refs \in Nat
    BY <1>1, <1>7, <1>8, <1>10 DEF KItimer
  <2> HIDE DEF z
  <2>2. Put(z).refs = r.refs - Held(sigq[k]) + Held(after.sigq) - 1
    BY <2>1 DEF Held
  <2> QED
    BY <2>2 DEF z
<1> QED
  BY <1>7, <1>10, <1>11, <1>12 DEF r

\* A delivered signal that rearms the timer puts its reference last.
LEMMA DeliverIntervalStep ==
  ASSUME IInv, NEW p \in Threads, NEW expired \in BOOLEAN, DeliverInterval(p, expired)
  PROVE  IInv'
<1> USE DEF IInv
<1>1. PICK k \in Timers : k = thread[p].obj /\ thread[p].pc = "deliver" /\ p \in With("deliver", k)
  BY DEF DeliverInterval, At, ThreadInv, ThreadOK, With
<1>2. timr[k].valid /\ timr[k].seq < MaxSeq /\ timr[k].interval # 0
  BY <1>1 DEF DeliverInterval, Rearms
<1>a. PICK after : after = Rearmed(AfterRearm(timr[k]), sigq[k], expired)
  OBVIOUS
<1>3. PICK c \in {Clock(timr[k].kclock), Clock(timr[k].kclock) - 1} :
         LET n == Forward(hr[k].expires, timr[k].interval, c)
             e == hr[k].expires + n * timr[k].interval
         IN  /\ hr' = [hr EXCEPT ![k].expires = e, ![k].queued = ~expired]
             /\ timr' = [timr EXCEPT ![k] = Put(after.timr)]
             /\ sigq' = [sigq EXCEPT ![k] = after.sigq]
             /\ reported' = [reported EXCEPT ![k] = @ + timr[k].overrun + n + 1]
  BY <1>1, <1>a DEF DeliverInterval
<1>4. /\ Leave(p) /\ UNCHANGED <<clock, next_id, external, exiting, calls, first, fired>>
  BY DEF DeliverInterval
<1> DEFINE n == Forward(hr[k].expires, timr[k].interval, c)
           e == hr[k].expires + n * timr[k].interval
           h == [hr[k] EXCEPT !.expires = e, !.queued = ~expired]
           r == Put(after.timr)
           q == after.sigq
<1>5. n \in Nat /\ e \in Nat
  <2>1. /\ hr[k].expires \in Nat /\ timr[k].interval \in Nat /\ timr[k].kclock \in {"real", "mono"}
    BY DEF TypeOK, KItimer, Hrtimer
  <2>2. c \in Int
    <3>1. Clock(timr[k].kclock) \in Nat
      BY <2>1, ClockTypes
    <3> QED
      BY <3>1
  <2> QED
    BY <1>2, <2>1, <2>2, ForwardTypes
<1>6. /\ r \in KItimer /\ q \in Sigqs
      /\ r.refs = timr[k].refs - Held(sigq[k]) + Held(q) - 1
      /\ r.hashed = timr[k].hashed /\ r.valid = timr[k].valid
      /\ r.interval = timr[k].interval
  <2>1. With("deliver", k) # {}
    BY <1>1
  <2>2. Put(after.timr) \in KItimer /\ after.sigq \in Sigqs
    BY <1>2, <1>a, <2>1, RearmFacts
  <2>3. Put(after.timr).refs = timr[k].refs - Held(sigq[k]) + Held(after.sigq) - 1
    BY <1>2, <1>a, <2>1, RearmFacts
  <2>4. Put(after.timr).hashed = timr[k].hashed
    BY <1>2, <1>a, <2>1, RearmFacts
  <2>5. Put(after.timr).valid = timr[k].valid
    BY <1>2, <1>a, <2>1, RearmFacts
  <2>6. Put(after.timr).interval = timr[k].interval
    BY <1>2, <1>a, <2>1, RearmFacts
  <2> QED
    BY <2>2, <2>3, <2>4, <2>5, <2>6
<1>7. h \in Hrtimer
  <2> HIDE DEF e
  <2> QED
    BY <1>5 DEF TypeOK, Hrtimer
<1>8. /\ hr' = [hr EXCEPT ![k] = h] /\ timr' = [timr EXCEPT ![k] = r] /\ sigq' = [sigq EXCEPT ![k] = q]
      /\ reported' = [reported EXCEPT ![k] = @ + timr[k].overrun + n + 1]
      /\ thread' = [thread EXCEPT ![p] = User]
  <2>1. hr' = [hr EXCEPT ![k].expires = e, ![k].queued = ~expired]
        /\ timr' = [timr EXCEPT ![k] = r] /\ sigq' = [sigq EXCEPT ![k] = q]
        /\ reported' = [reported EXCEPT ![k] = @ + timr[k].overrun + n + 1]
    BY <1>3
  <2>2. hr' = [hr EXCEPT ![k] = h]
    <3> HIDE DEF e
    <3> QED
      BY <2>1 DEF TypeOK
  <2> HIDE DEF n
  <2> QED
    BY <1>4, <2>1, <2>2 DEF Leave
<1> HIDE DEF h, r, q, n, e
<1>9. TypeOK'
  <2>1. timr' \in [Timers -> KItimer] /\ hr' \in [Timers -> Hrtimer] /\ thread' \in [Threads -> ThreadState]
        /\ sigq' \in [Timers -> Sigqs]
    BY <1>6, <1>7, <1>8, BlankTypes DEF TypeOK, Sigqs
  <2>2. reported' \in [Timers -> Int]
    <3>1. reported[k] + timr[k].overrun + n + 1 \in Int
      BY <1>5 DEF TypeOK, KItimer
    <3> QED
      BY <1>8, <3>1 DEF TypeOK
  <2> QED
    BY <1>4, <2>1, <2>2 DEF TypeOK, Sigqs, clock, external
<1>10. User.pc = "user" /\ ~Owns(p) /\ \A j \in Timers \ {k} : p \notin With("deliver", j)
  BY <1>1 DEF Owns, With, At, User
<1>11. /\ \A j \in Timers \ {k} : With("deliver", j)' = With("deliver", j)
       /\ \A t \in Threads :
              /\ Owns(t) \/ Owns(t)' => thread'[t].pc = thread[t].pc /\ thread'[t].obj = thread[t].obj
              /\ thread'[t].pc # "user" => thread'[t].obj \in Timers
  BY <1>8, <1>10, MoveFacts, BlankTypes
<1>12. Cardinality(With("deliver", k)') = Cardinality(With("deliver", k)) - 1
  <2>1. With("deliver", k)' = With("deliver", k) \ {p}
    <3>1. thread \in [Threads -> ThreadState] /\ thread' = [thread EXCEPT ![p] = User]
      BY <1>8 DEF TypeOK
    <3>2. ~(User.pc = "deliver" /\ User.obj = k)
      BY <1>10
    <3> QED
      BY <3>1, <3>2 DEF With, At
  <2> QED
    BY <1>1, <2>1, WithCount
<1>13. /\ \A j \in Timers \ {k} : timr'[j] = timr[j] /\ hr'[j] = hr[j] /\ sigq'[j] = sigq[j]
       /\ timr'[k] = r /\ hr'[k] = h /\ sigq'[k] = q
  BY <1>8 DEF TypeOK
<1>14. timr'[k].refs = timr[k].refs - Held(sigq[k]) + Held(sigq'[k])
                       - Cardinality(With("deliver", k)) + Cardinality(With("deliver", k)')
  <2>1. Cardinality(With("deliver", k)) \in Nat /\ timr[k].refs \in Nat
    BY WithNat DEF TypeOK, KItimer
  <2> QED
    BY <1>6, <1>12, <1>13, <2>1 DEF Held
<1> QED
  BY <1>2, <1>6, <1>9, <1>11, <1>13, <1>14, TimerStep

\* Flushing a signal puts its reference.
LEMMA FlushStep ==
  ASSUME IInv, NEW k \in Timers, Flush(k)
  PROVE  IInv'
<1> USE DEF IInv
<1> DEFINE r == Put(timr[k])
<1>1. /\ timr' = [timr EXCEPT ![k] = r] /\ sigq' = [sigq EXCEPT ![k] = "none"] /\ sigq[k] = "pending"
      /\ UNCHANGED <<clock, next_id, hr, external, exiting, thread, calls, history>>
  BY DEF Flush
<1>2. /\ r \in KItimer /\ r.refs = timr[k].refs - 1 /\ r.hashed = timr[k].hashed /\ r.valid = timr[k].valid
      /\ r.interval = timr[k].interval \/ r.interval = 0
  BY <1>1, PutStep
<1> HIDE DEF r
<1>3. TypeOK'
  BY <1>1, <1>2 DEF TypeOK, clock, external, history
<1>4. /\ \A j \in Timers \ {k} : timr'[j] = timr[j] /\ hr'[j] = hr[j] /\ sigq'[j] = sigq[j]
      /\ timr'[k] = r /\ hr' = hr /\ sigq'[k] = "none" /\ thread' = thread
  BY <1>1 DEF TypeOK
<1>5. timr'[k].refs = timr[k].refs - Held(sigq[k]) + Held(sigq'[k])
                      - Cardinality(With("deliver", k)) + Cardinality(With("deliver", k)')
  <2>1. Cardinality(With("deliver", k)) \in Nat /\ timr[k].refs \in Nat /\ With("deliver", k)' = With("deliver", k)
    BY <1>4, StayFacts, WithNat DEF TypeOK, KItimer
  <2> QED
    BY <1>1, <1>2, <1>4, <2>1 DEF Held
<1> QED
  BY <1>2, <1>3, <1>4, <1>5, StayFacts, TimerStep

\* Time and the clock change no timer.
LEMMA ClockStep ==
  ASSUME IInv, Tick \/ SetBack
  PROVE  IInv'
<1> USE DEF IInv
<1>1. TypeOK'
  BY ConstAssumption DEF Tick, SetBack, TypeOK, external, history
<1>2. timr' = timr /\ hr' = hr /\ sigq' = sigq /\ thread' = thread
  BY DEF Tick, SetBack
<1>3. OneOwner' /\ ThreadInv'
  BY <1>2 DEF OneOwner, ThreadInv, ThreadOK, Owns, At
<1>4. ASSUME NEW k \in Timers PROVE TimerOK(k)'
  BY <1>2, StayFacts DEF TimerInv, TimerOK, Exact, Owned, Running
<1> QED
  BY <1>1, <1>3, <1>4 DEF TimerInv

\* Deleting a valid timer takes the reference of the ignored list, if it is there.
LEMMA InvalidatedFacts ==
  ASSUME IInv, NEW k \in Timers, timr[k].valid, timr[k].seq < MaxSeq,
         NEW r, r = Invalidated(k), NEW q, q = (IF sigq[k] = "ignored" THEN "none" ELSE sigq[k])
  PROVE  /\ r \in KItimer /\ q \in Sigqs /\ q # "ignored"
         /\ r.hashed /\ ~r.valid /\ r.id = timr[k].id
         /\ r.refs = 1 + Held(q) + Cardinality(With("deliver", k))
<1> USE DEF IInv
<1> DEFINE n == timr[k].seq + 1
           t == [timr[k] EXCEPT !.seq = n, !.valid = FALSE]
<1>1. timr[k] \in KItimer /\ sigq[k] \in Sigqs /\ n \in 0 .. MaxSeq
  <2>1. timr[k] \in KItimer /\ sigq[k] \in Sigqs
    BY DEF TypeOK, Sigqs
  <2> QED
    BY <2>1, ConstAssumption DEF KItimer
<1>2. /\ timr[k].refs = 1 + Held(sigq[k]) + Cardinality(With("deliver", k))
      /\ timr[k].hashed /\ Cardinality(With("deliver", k)) \in Nat
  BY ValidRefs
<1> HIDE DEF n
<1>3. t \in KItimer /\ t.refs = timr[k].refs /\ t.hashed /\ ~t.valid /\ t.id = timr[k].id
  BY <1>1, <1>2 DEF KItimer
<1> HIDE DEF t
<1>4. CASE sigq[k] = "ignored"
  <2>1. r = Put(t) /\ q = "none"
    BY <1>4 DEF Invalidated, t, n
  <2>2. t.refs >= 2 /\ t.refs \in Nat
    BY <1>2, <1>3, <1>4 DEF Held
  <2>3. t.refs >= 1 /\ t.refs # 1
    BY <2>2
  <2>4. r \in KItimer
    BY <1>3, <2>1, <2>3, PutFacts
  <2>5. r = [t EXCEPT !.refs = @ - 1]
    BY <2>1, <2>3 DEF Put
  <2>6. r.hashed /\ ~r.valid /\ r.id = t.id /\ r.refs = t.refs - 1
    BY <1>3, <2>5 DEF KItimer
  <2>7. r.refs = 1 + Held(q) + Cardinality(With("deliver", k))
    BY <1>2, <1>3, <1>4, <2>1, <2>2, <2>6 DEF Held
  <2> QED
    BY <1>3, <2>1, <2>4, <2>6, <2>7 DEF Sigqs
<1>5. CASE sigq[k] # "ignored"
  <2>1. r = t /\ q = sigq[k]
    BY <1>5 DEF Invalidated, t, n
  <2> QED
    BY <1>1, <1>2, <1>3, <1>5, <2>1
<1> QED
  BY <1>4, <1>5

\* The thread that deletes a timer becomes its owner, and keeps it as long as the callback runs.
LEMMA InvalidateStep ==
  ASSUME IInv, NEW p \in Threads, NEW k \in Timers, timr[k].valid,
         thread[p].pc \in {"user", "found"}, exiting' \in BOOLEAN, Invalidate(p, k)
  PROVE  IInv'
<1> USE DEF IInv
<1>1. PICK r, q : r = Invalidated(k) /\ q = (IF sigq[k] = "ignored" THEN "none" ELSE sigq[k])
  OBVIOUS
<1> DEFINE f == IF Cancelled(k) THEN [r EXCEPT !.status = "DISARMED"] ELSE r
           h == [hr[k] EXCEPT !.queued = @ /\ ~Cancelled(k)]
           pc == IF Cancelled(k) THEN "unhash" ELSE "del_wait"
           x == [thread[p] EXCEPT !.pc = pc, !.obj = k]
<1>2. /\ timr' = [timr EXCEPT ![k] = f] /\ sigq' = [sigq EXCEPT ![k] = q]
      /\ hr' = [hr EXCEPT ![k] = h] /\ thread' = [thread EXCEPT ![p] = x]
      /\ timr[k].seq < MaxSeq
      /\ UNCHANGED <<clock, next_id, external, calls, history>>
  BY <1>1 DEF Invalidate, TypeOK
<1>3. /\ r \in KItimer /\ q \in Sigqs /\ q # "ignored"
      /\ r.hashed /\ ~r.valid
  BY <1>1, <1>2, InvalidatedFacts
<1>4. r.refs = 1 + Held(q) + Cardinality(With("deliver", k))
  BY <1>1, <1>2, InvalidatedFacts
<1>5. f \in KItimer /\ f.refs = r.refs /\ f.hashed /\ ~f.valid
  BY <1>3 DEF KItimer
<1>6. /\ h \in Hrtimer /\ h.runs = hr[k].runs
      /\ h.queued \/ h.runs # "no" => pc = "del_wait"
  <2>1. hr[k] \in Hrtimer
    BY DEF TypeOK
  <2> QED
    BY <2>1 DEF Hrtimer, Cancelled, Running
<1>7. x \in ThreadState /\ x.pc = pc /\ pc \in {"unhash", "del_wait"} /\ x.obj = k
  <2>1. thread[p] \in ThreadState /\ pc \in {"unhash", "del_wait"}
    BY DEF TypeOK
  <2> HIDE DEF pc
  <2> QED
    BY <2>1 DEF ThreadState, Pcs
<1> HIDE DEF f, h, x, pc
<1>8. TypeOK'
  <2>1. timr' \in [Timers -> KItimer] /\ hr' \in [Timers -> Hrtimer] /\ thread' \in [Threads -> ThreadState]
        /\ sigq' \in [Timers -> Sigqs]
    BY <1>2, <1>3, <1>5, <1>6, <1>7 DEF TypeOK, Sigqs
  <2> QED
    BY <1>2, <2>1 DEF TypeOK, Sigqs, clock, external, history
<1>9. \A t \in Threads : Owns(t) => thread[t].obj # k
  BY DEF ThreadInv, ThreadOK
<1>10. /\ \A t \in Threads \ {p} : thread'[t] = thread[t]
       /\ thread'[p] = x
       /\ \A j \in Timers \ {k} : timr'[j] = timr[j] /\ hr'[j] = hr[j] /\ sigq'[j] = sigq[j]
       /\ timr'[k] = f /\ hr'[k] = h /\ sigq'[k] = q
  BY <1>2 DEF TypeOK
<1>11. OneOwner'
  BY <1>7, <1>9, <1>10 DEF OneOwner, Owns
<1>12. ASSUME NEW t \in Threads PROVE ThreadOK(t)'
  <2>1. CASE t = p
    BY <1>5, <1>7, <1>10, <2>1 DEF ThreadOK, Owns, At
  <2>2. CASE t # p
    <3>1. thread'[t] = thread[t] /\ ThreadOK(t) /\ (Owns(t) => thread[t].obj # k)
      BY <1>9, <1>10, <2>2 DEF ThreadInv
    <3> QED
      BY <1>10, <3>1 DEF ThreadOK, Owns, At
  <2> QED
    BY <2>1, <2>2
<1>13. ASSUME NEW c \in {"add", "del_wait", "deliver"}, NEW j \in Timers, c # "del_wait" \/ j # k
       PROVE  With(c, j)' = With(c, j)
  BY <1>7, <1>10, <1>13 DEF With, At
<1>14. ASSUME NEW j \in Timers PROVE TimerOK(j)'
  <2>1. CASE j = k
    <3>1. Exact(k)' /\ ~timr'[k].valid /\ sigq'[k] # "ignored"
      BY <1>3, <1>4, <1>5, <1>10, <1>13 DEF Exact, Owned, Held
    <3>2. hr'[k].queued \/ hr'[k].runs # "no" => p \in With("del_wait", k)'
      BY <1>6, <1>7, <1>10 DEF With, At
    <3> QED
      BY <2>1, <3>1, <3>2 DEF TimerOK, Running
  <2>2. CASE j # k
    BY <1>10, <1>13, <2>2 DEF TimerInv, TimerOK, Exact, Owned, Running
  <2> QED
    BY <2>1, <2>2
<1> QED
  BY <1>8, <1>11, <1>12, <1>14 DEF ThreadInv, TimerInv

\* timer_delete(), and exit_itimers()
LEMMA DeleteStep ==
  ASSUME IInv, NEW p \in Threads, NEW k \in Timers, Delete(p) \/ Exit(p, k)
  PROVE  IInv'
<1>1. CASE Delete(p)
  <2>1. PICK j \in Timers : j = thread[p].obj /\ timr[j].valid /\ thread[p].pc = "found"
    BY <1>1, LockedFacts DEF Delete
  <2> QED
    BY <1>1, <2>1, InvalidateStep DEF Delete, IInv, TypeOK
<1>2. CASE Exit(p, k)
  BY <1>2, InvalidateStep DEF Exit, At
<1> QED
  BY <1>1, <1>2

\* The callback is done, and the thread goes on to take the timer out of the hash.
LEMMA DeleteAgainStep ==
  ASSUME IInv, NEW p \in Threads, DeleteAgain(p)
  PROVE  IInv'
<1> USE DEF IInv
<1>1. PICK k \in Timers : k = thread[p].obj /\ thread[p].pc = "del_wait" /\ hr[k].runs = "no"
  BY DEF DeleteAgain, At, ThreadInv, ThreadOK, Cancelled, Running
<1> DEFINE f == [timr[k] EXCEPT !.status = "DISARMED"]
           h == [hr[k] EXCEPT !.queued = FALSE]
           x == [thread[p] EXCEPT !.pc = "unhash"]
<1>2. /\ timr' = [timr EXCEPT ![k] = f] /\ hr' = [hr EXCEPT ![k] = h] /\ thread' = [thread EXCEPT ![p] = x]
      /\ UNCHANGED <<clock, next_id, sigq, external, exiting, calls, history>>
  BY <1>1 DEF DeleteAgain, Go, TypeOK
<1>3. /\ f \in KItimer /\ f.refs = timr[k].refs /\ f.hashed = timr[k].hashed /\ f.valid = timr[k].valid
      /\ f.interval = timr[k].interval
  BY DEF TypeOK, KItimer
<1>4. h \in Hrtimer /\ ~h.queued /\ h.runs = "no"
  BY <1>1 DEF TypeOK, Hrtimer
<1>5. x \in ThreadState /\ x.pc = "unhash" /\ x.obj = k
  BY <1>1 DEF TypeOK, ThreadState, Pcs
<1> HIDE DEF f, h, x
<1>6. TypeOK'
  BY <1>2, <1>3, <1>4, <1>5 DEF TypeOK, clock, external, history
<1>7. /\ \A t \in Threads \ {p} : thread'[t] = thread[t]
      /\ thread'[p] = x
      /\ \A j \in Timers \ {k} : timr'[j] = timr[j] /\ hr'[j] = hr[j]
      /\ timr'[k] = f /\ hr'[k] = h /\ sigq' = sigq
  BY <1>2 DEF TypeOK
<1>8. OneOwner'
  BY <1>1, <1>5, <1>7 DEF OneOwner, Owns
<1>9. ASSUME NEW t \in Threads PROVE ThreadOK(t)'
  <2>1. ThreadOK(t)
    BY DEF ThreadInv
  <2>2. \A j \in Timers : /\ timr'[j].hashed = timr[j].hashed /\ timr'[j].valid = timr[j].valid
                          /\ timr'[j].interval = timr[j].interval
    BY <1>3, <1>7
  <2> QED
    BY <1>1, <1>5, <1>7, <2>1, <2>2 DEF ThreadOK, Owns, At
<1>10. ASSUME NEW c \in {"add", "del_wait", "deliver"}, NEW j \in Timers, c # "del_wait" \/ j # k
       PROVE  With(c, j)' = With(c, j)
  BY <1>1, <1>5, <1>7, <1>10 DEF With, At
<1>11. ASSUME NEW j \in Timers PROVE TimerOK(j)'
  <2>1. TimerOK(j)
    BY DEF TimerInv
  <2>2. CASE j = k
    BY <1>3, <1>4, <1>7, <1>10, <2>1, <2>2 DEF TimerOK, Exact, Owned, Running
  <2>3. CASE j # k
    BY <1>7, <1>10, <2>1, <2>3 DEF TimerOK, Exact, Owned, Running
  <2> QED
    BY <2>2, <2>3
<1> QED
  BY <1>6, <1>8, <1>9, <1>11 DEF ThreadInv, TimerInv

\* The owner puts the reference of the hash when nothing can run any more.
LEMMA UnhashStep ==
  ASSUME IInv, NEW p \in Threads, UnhashAndFree(p)
  PROVE  IInv'
<1> USE DEF IInv
<1>1. PICK k \in Timers : k = thread[p].obj /\ thread[p].pc = "unhash" /\ Owns(p)
  BY DEF UnhashAndFree, At, ThreadInv, ThreadOK, Owns
<1>2. timr[k].hashed /\ ~timr[k].valid /\ sigq[k] # "ignored"
  BY <1>1 DEF ThreadInv, ThreadOK, At, TimerInv, TimerOK
<1>3. Cardinality(With("deliver", k)) \in Nat
  BY WithNat
<1>4. timr[k].refs = 1 + Held(sigq[k]) + Cardinality(With("deliver", k))
  BY <1>2 DEF TimerInv, TimerOK, Exact, Owned, Held
<1> DEFINE v == [timr[k] EXCEPT !.hashed = FALSE]
           f == Put(v)
<1>5. /\ timr' = [timr EXCEPT ![k] = f] /\ thread' = [thread EXCEPT ![p] = User]
      /\ UNCHANGED <<clock, next_id, hr, sigq, external, exiting, calls, history>>
  BY <1>1 DEF UnhashAndFree, Leave, TypeOK
<1>6. v \in KItimer /\ v.refs = timr[k].refs /\ v.hashed = FALSE /\ ~v.valid
  BY <1>2 DEF TypeOK, KItimer
<1>7. v.refs >= 1
  BY <1>3, <1>4, <1>6 DEF Held
<1> HIDE DEF v
<1>8. f \in KItimer /\ f.refs = v.refs - 1 /\ ~f.hashed /\ ~f.valid
  BY <1>6, <1>7, PutFacts
<1> HIDE DEF f
<1>9. TypeOK'
  BY <1>5, <1>8, BlankTypes DEF TypeOK, clock, external, history
<1>10. /\ \A t \in Threads \ {p} : thread'[t] = thread[t] /\ (Owns(t) => thread[t].obj # k)
       /\ thread'[p] = User /\ User.pc = "user"
       /\ \A j \in Timers \ {k} : timr'[j] = timr[j]
       /\ timr'[k] = f /\ hr' = hr /\ sigq' = sigq
  BY <1>1, <1>5 DEF TypeOK, OneOwner, User
<1>11. OneOwner'
  BY <1>10 DEF OneOwner, Owns
<1>12. ASSUME NEW t \in Threads PROVE ThreadOK(t)'
  <2>1. ThreadOK(t)
    BY DEF ThreadInv
  <2>2. CASE t = p
    BY <1>10, <2>2 DEF ThreadOK, Owns, At
  <2>3. CASE t # p
    <3>1. thread'[t] = thread[t] /\ (Owns(t) => thread[t].obj # k)
      BY <1>10, <2>3
    <3> QED
      BY <1>10, <2>1, <3>1 DEF ThreadOK, Owns, At
  <2> QED
    BY <2>2, <2>3
<1>13. ASSUME NEW c \in {"add", "del_wait", "deliver"}, NEW j \in Timers
       PROVE  With(c, j)' = With(c, j)
  BY <1>1, <1>10 DEF With, At
<1>14. With("add", k) = {} /\ With("del_wait", k) = {}
  BY <1>1, <1>10 DEF With, At, Owns
<1>15. ASSUME NEW j \in Timers PROVE TimerOK(j)'
  <2>1. TimerOK(j)
    BY DEF TimerInv
  <2>2. CASE j = k
    <3>1. f.refs = Held(sigq[k]) + Cardinality(With("deliver", k))
      BY <1>3, <1>4, <1>6, <1>8 DEF Held
    <3>2. ~Owned(k)'
      BY <1>8, <1>10, <1>13, <1>14 DEF Owned
    <3>3. Exact(k)'
      BY <1>3, <1>10, <1>13, <3>1, <3>2 DEF Exact, Held
    <3>4. ~(hr[k].queued \/ Running(k))
      BY <1>2, <1>14, <2>1, <2>2 DEF TimerOK
    <3> QED
      BY <1>2, <1>8, <1>10, <2>2, <3>3, <3>4 DEF TimerOK, Running
  <2>3. CASE j # k
    BY <1>10, <1>13, <2>1, <2>3 DEF TimerOK, Exact, Owned, Running
  <2> QED
    BY <2>2, <2>3
<1> QED
  BY <1>9, <1>11, <1>12, <1>15 DEF ThreadInv, TimerInv

\* What sigaction() does to the signal of one timer
LEMMA IgnoreFacts ==
  ASSUME IInv, Ignore \/ Unignore, NEW k \in Timers
  PROVE  /\ \/ timr'[k] = timr[k] /\ (sigq'[k] # "none" <=> sigq[k] # "none")
            \/ timr'[k] = Put(timr[k]) /\ sigq[k] # "none" /\ sigq'[k] = "none"
         /\ sigq'[k] = "ignored" => sigq[k] = "ignored" \/ timr[k].valid
         /\ sigq'[k] \in Sigqs
<1> USE DEF IInv
<1>1. sigq[k] \in Sigqs
  BY DEF TypeOK, Sigqs
<1>2. CASE Ignore
  <2> DEFINE Kept == timr[k].valid /\ timr[k].periodic
  <2>1. /\ timr'[k] = IF sigq[k] = "pending" /\ ~Kept THEN Put(timr[k]) ELSE timr[k]
        /\ sigq'[k] = IF sigq[k] # "pending" THEN sigq[k] ELSE IF Kept THEN "ignored" ELSE "none"
    BY <1>2 DEF Ignore
  <2> QED
    BY <1>1, <2>1 DEF Sigqs
<1>3. CASE Unignore
  <2>1. timr'[k] = timr[k] /\ sigq'[k] = IF sigq[k] = "ignored" THEN "pending" ELSE sigq[k]
    BY <1>3 DEF Unignore
  <2> QED
    BY <1>1, <2>1 DEF Sigqs
<1> QED
  BY <1>2, <1>3

\* A signal that becomes ignored keeps its reference on the list, or puts it.
LEMMA IgnoreStep ==
  ASSUME IInv, Ignore \/ Unignore
  PROVE  IInv'
<1> USE DEF IInv
<1>1. /\ hr' = hr /\ thread' = thread /\ ignoring' \in BOOLEAN /\ ignores' \in 0 .. MaxIgnores
      /\ UNCHANGED <<clock, next_id, exiting, calls, history>>
  <2>1. hr' = hr /\ thread' = thread /\ UNCHANGED <<clock, next_id, exiting, calls, history>>
    BY DEF Ignore, Unignore
  <2>2. CASE Ignore
    <3>1. ignoring' = TRUE /\ ignores' = ignores + 1 /\ ignores < MaxIgnores
      BY <2>2 DEF Ignore
    <3> QED
      BY <2>1, <3>1, ConstAssumption DEF TypeOK
  <2>3. CASE Unignore
    BY <2>1, <2>3 DEF Unignore, TypeOK
  <2> QED
    BY <2>2, <2>3
<1>2. ASSUME NEW k \in Timers
      PROVE  /\ \/ timr'[k] = timr[k] /\ (sigq'[k] # "none" <=> sigq[k] # "none")
                \/ timr'[k] = Put(timr[k]) /\ sigq[k] # "none" /\ sigq'[k] = "none"
             /\ sigq'[k] = "ignored" => sigq[k] = "ignored" \/ timr[k].valid
             /\ sigq'[k] \in Sigqs
  BY IgnoreFacts
<1>3. ASSUME NEW k \in Timers
      PROVE  /\ timr'[k] \in KItimer
             /\ timr'[k].hashed = timr[k].hashed /\ timr'[k].valid = timr[k].valid
             /\ timr'[k].refs = timr[k].refs - Held(sigq[k]) + Held(sigq'[k])
             /\ timr'[k].interval = timr[k].interval \/ timr'[k].interval = 0
  <2>1. timr[k] \in KItimer /\ timr[k].refs \in Nat
    BY DEF TypeOK, KItimer
  <2>2. CASE timr'[k] = timr[k] /\ (sigq'[k] # "none" <=> sigq[k] # "none")
    BY <2>1, <2>2 DEF Held
  <2>3. CASE timr'[k] = Put(timr[k]) /\ sigq[k] # "none" /\ sigq'[k] = "none"
    <3>1. /\ Put(timr[k]) \in KItimer /\ Put(timr[k]).refs = timr[k].refs - 1
          /\ Put(timr[k]).hashed = timr[k].hashed /\ Put(timr[k]).valid = timr[k].valid
          /\ Put(timr[k]).interval = timr[k].interval \/ Put(timr[k]).interval = 0
      BY <2>3, PutStep
    <3>2. timr[k].refs - 1 = timr[k].refs - Held(sigq[k]) + Held(sigq'[k])
      BY <2>1, <2>3 DEF Held
    <3> QED
      BY <2>3, <3>1, <3>2
  <2> QED
    BY <1>2, <2>2, <2>3
<1>4. TypeOK'
  <2>1. timr' \in [Timers -> KItimer] /\ sigq' \in [Timers -> Sigqs]
    <3>1. timr' = [k \in Timers |-> timr'[k]] /\ sigq' = [k \in Timers |-> sigq'[k]]
      BY DEF Ignore, Unignore, TypeOK
    <3> QED
      BY <1>2, <1>3, <3>1
  <2> QED
    BY <1>1, <2>1 DEF TypeOK, Sigqs, clock, history
<1>5. OneOwner'
  BY <1>1 DEF OneOwner, Owns
<1>6. ASSUME NEW t \in Threads PROVE ThreadOK(t)'
  <2>1. thread'[t] = thread[t] /\ ThreadOK(t)
    BY <1>1 DEF ThreadInv
  <2> QED
    BY <1>3, <2>1 DEF ThreadOK, Owns, At
<1>7. \A pc : \A k \in Timers : With(pc, k)' = With(pc, k)
  BY <1>1, StayFacts
<1>8. ASSUME NEW k \in Timers PROVE TimerOK(k)'
  <2>1. TimerOK(k) /\ (Owned(k)' <=> Owned(k))
    BY <1>3, <1>7 DEF TimerInv, Owned
  <2>2. Cardinality(With("deliver", k)) \in Nat
    BY WithNat
  <2>3. timr[k].refs = (IF Owned(k) THEN 1 ELSE 0) + Held(sigq[k]) + Cardinality(With("deliver", k))
    BY <2>1 DEF TimerOK, Exact, Held
  <2>4. timr'[k].refs = (IF Owned(k) THEN 1 ELSE 0) + Held(sigq'[k]) + Cardinality(With("deliver", k))
    <3>1. timr'[k].refs = timr[k].refs - Held(sigq[k]) + Held(sigq'[k])
      BY <1>3
    <3> QED
      BY <2>2, <2>3, <3>1 DEF Held
  <2>5. Exact(k)'
    BY <1>7, <2>1, <2>4 DEF Exact, Held
  <2> QED
    BY <1>1, <1>2, <1>3, <1>7, <2>1, <2>5 DEF TimerOK, Running
<1> QED
  BY <1>4, <1>5, <1>6, <1>8 DEF ThreadInv, TimerInv

-----------------------------------------------------------------------------
(* The theorems                                                            *)

\* Every step keeps the invariant.
LEMMA NextStep == IInv /\ [Next]_vars => IInv'
<1> SUFFICES ASSUME IInv, [Next]_vars PROVE IInv'
  OBVIOUS
<1>1. CASE UNCHANGED vars
  <2>1. UNCHANGED <<now, offset, next_id, timr, hr, sigq, ignoring, ignores, exiting, thread, calls,
                    first, reported, fired>>
    BY <1>1 DEF vars, clock, external, history
  <2>2. TypeOK'
    BY <2>1 DEF IInv, TypeOK
  <2>3. OneOwner' /\ ThreadInv'
    BY <2>1 DEF IInv, OneOwner, ThreadInv, ThreadOK, Owns, At
  <2>4. ASSUME NEW k \in Timers PROVE TimerOK(k)'
    BY <2>1, StayFacts DEF IInv, TimerInv, TimerOK, Exact, Owned, Running
  <2> QED
    BY <2>2, <2>3, <2>4 DEF IInv, TimerInv
<1>2. ASSUME NEW p \in Threads, Step(p) PROVE IInv'
  <2>1. CASE Publish(p) \/ AddAt(p) \/ AddFails(p)
    BY <2>1, PublishStep, AddAtStep, AddFailsStep
  <2>2. CASE CreateFails(p) \/ LookupFails(p) \/ Again(p)
    <3>1. CASE Timers # {}
      BY <2>2, <3>1, WalkStep DEF Ops
    <3>2. thread[p].obj \in Timers
      BY <2>2 DEF IInv, ThreadInv, ThreadOK, At, CreateFails, LookupFails, Again
    <3> QED
      BY <3>1, <3>2
  <2>3. CASE GetTime(p)
    BY <2>3, GetTimeStep
  <2>4. CASE \E old \in BOOLEAN : SetRetry(p, old)
    BY <2>4, SetRetryStep
  <2>5. CASE \E s \in Settings, expired \in BOOLEAN : Set(p, s, expired)
    BY <2>5, SetStep
  <2>6. CASE Delete(p)
    <3>1. thread[p].obj \in Timers
      BY <2>6, LockedFacts DEF Delete
    <3> QED
      BY <2>6, <3>1, DeleteStep
  <2>7. CASE DeleteAgain(p) \/ UnhashAndFree(p)
    BY <2>7, DeleteAgainStep, UnhashStep
  <2>8. CASE DeliverStale(p) \/ DeliverOneShot(p)
    BY <2>8, DeliverStep
  <2>9. CASE \E expired \in BOOLEAN : DeliverInterval(p, expired)
    BY <2>9, DeliverIntervalStep
  <2> QED
    BY <1>2, <2>1, <2>2, <2>3, <2>4, <2>5, <2>6, <2>7, <2>8, <2>9 DEF Step
<1>3. ASSUME NEW p \in Threads, NEW k \in Timers, Create(p, k) \/ Exit(p, k) \/ Dequeue(p, k)
      PROVE  IInv'
  BY <1>3, CreateStep, DeleteStep, DequeueStep
<1>4. ASSUME NEW p \in Threads, NEW k \in Timers, NEW op \in Ops, Lookup(p, k, op) PROVE IInv'
  BY <1>4, WalkStep
<1>5. ASSUME NEW k \in Timers, Fire(k) \/ Expiry(k) \/ Flush(k) PROVE IInv'
  BY <1>5, FireStep, PosixTimerFnStep, FlushStep DEF Expiry
<1>6. CASE Ignore \/ Unignore
  BY <1>6, IgnoreStep
<1>7. CASE Tick \/ SetBack
  BY <1>7, ClockStep
<1> QED
  BY <1>1, <1>2, <1>3, <1>4, <1>5, <1>6, <1>7 DEF Next

\* The inductive invariant holds in every behaviour.
THEOREM Invariance == Spec => []IInv
<1> QED
  BY InitOK, NextStep, PTL DEF Spec

\* The reference counts, sequences and states of the timers and threads of posix-timers.c
\* keep their types.
THEOREM TypeCorrect == Spec => []TypeOK
<1>1. IInv => TypeOK
  BY DEF IInv
<1> QED
  BY Invariance, <1>1, PTL

\* No reference of a POSIX timer is leaked or put twice, and posixtimer_putref() frees none that
\* is hashed, queued, running, or waited for by its deletion.
THEOREM ReferencesExact == Spec => []RefsAreExact
<1>1. IInv => RefsAreExact
  <2> SUFFICES ASSUME IInv, NEW k \in Timers
               PROVE  /\ Exact(k)
                      /\ sigq[k] = "ignored" => timr[k].valid
                      /\ hr[k].queued \/ Running(k) \/ With("del_wait", k) \cup With("unhash", k) # {} => Owned(k)
    BY DEF RefsAreExact, Exact
  <2>1. TimerOK(k)
    BY DEF IInv, TimerInv
  <2>2. ASSUME With("del_wait", k) \cup With("unhash", k) # {} PROVE Owned(k)
    <3>1. PICK p \in Threads : thread[p].pc \in {"del_wait", "unhash"} /\ thread[p].obj = k
      BY <2>2 DEF With, At
    <3> QED
      BY <3>1 DEF IInv, ThreadInv, ThreadOK, Owns, At, Owned
  <2>3. hr[k].queued \/ Running(k) => Owned(k)
    BY <2>1, <2>2 DEF TimerOK, Owned
  <2> QED
    BY <2>1, <2>2, <2>3 DEF TimerOK
<1> QED
  BY Invariance, <1>1, PTL

-----------------------------------------------------------------------------
(* The IDs                                                                 *)

\* Only AddAt puts a timer into the hash, and nothing changes the ID of one that is there.
LEMMA HashKept ==
  ASSUME IInv, Next, NEW k \in Timers,
         \A p \in Threads : ~AddAt(p)
  PROVE  timr'[k].hashed => timr[k].hashed /\ timr'[k].id = timr[k].id
<1> USE DEF IInv
<1> DEFINE Found(j) == timr'[j].hashed => timr[j].hashed /\ timr'[j].id = timr[j].id
<1>0. \A j \in Timers : timr[j] \in KItimer /\ sigq[j] \in Sigqs
  BY DEF TypeOK, Sigqs
<1>a. ASSUME NEW j \in Timers, NEW r, timr' = [timr EXCEPT ![j] = r],
             r.hashed => timr[j].hashed /\ r.id = timr[j].id
      PROVE  Found(k)
  BY <1>a DEF TypeOK
<1>1. ASSUME NEW p \in Threads, NEW j \in Timers, j = thread[p].obj,
             Publish(p) \/ GetTime(p) \/ DeleteAgain(p) \/ \E old \in BOOLEAN : SetRetry(p, old)
      PROVE  Found(k)
  <2> DEFINE Same(r) == timr' = [timr EXCEPT ![j] = r] /\ r.hashed = timr[j].hashed /\ r.id = timr[j].id
  <2>1. CASE Publish(p)
    <3> DEFINE r == [timr[j] EXCEPT !.valid = TRUE]
    <3>1. Same(r)
      BY <1>0, <1>1, <2>1 DEF Publish, TypeOK, KItimer
    <3> QED
      BY <1>a, <3>1
  <2>2. CASE GetTime(p)
    <3> DEFINE n == timr[j].overrun + Overruns(j)
               r == [timr[j] EXCEPT !.overrun = n]
    <3>1. timr' = [timr EXCEPT ![j] = r]
      BY <1>0, <1>1, <2>2 DEF GetTime, TypeOK
    <3>2. Same(r)
      <4> HIDE DEF n
      <4> QED
        BY <1>0, <3>1 DEF KItimer
    <3> QED
      BY <1>a, <3>2
  <2>3. CASE DeleteAgain(p)
    <3> DEFINE r == [timr[j] EXCEPT !.status = "DISARMED"]
    <3>1. Same(r)
      BY <1>0, <1>1, <2>3 DEF DeleteAgain, TypeOK, KItimer
    <3> QED
      BY <1>a, <3>1
  <2>4. ASSUME NEW old \in BOOLEAN, SetRetry(p, old)
        PROVE  Found(k)
    <3> DEFINE n == timr[j].overrun + (IF old THEN Overruns(j) ELSE 0)
               m == timr[j].seq + 1
               r == [timr[j] EXCEPT !.seq = m, !.overrun = n]
    <3>1. timr' = [timr EXCEPT ![j] = r]
      BY <1>0, <1>1, <2>4 DEF SetRetry, TypeOK
    <3>2. Same(r)
      <4> HIDE DEF n, m
      <4> QED
        BY <1>0, <3>1 DEF KItimer
    <3> QED
      BY <1>a, <3>2
  <2> QED
    BY <1>1, <2>1, <2>2, <2>3, <2>4
<1>2. ASSUME NEW p \in Threads,
             \/ CreateFails(p) \/ LookupFails(p) \/ Again(p) \/ \E j \in Timers : Dequeue(p, j)
             \/ \E j \in Timers, op \in Ops : Lookup(p, j, op)
      PROVE  Found(k)
  BY <1>2 DEF CreateFails, LookupFails, Again, Dequeue, Lookup
<1>3. ASSUME Unignore \/ Tick \/ SetBack \/ \E j \in Timers : Fire(j) \/ FnDone(j)
      PROVE  Found(k)
  BY <1>3 DEF Unignore, Tick, SetBack, Fire, FnDone
<1>4. ASSUME NEW p \in Threads, NEW j \in Timers, Create(p, j)
      PROVE  Found(k)
  BY <1>4 DEF Create, Blank, TypeOK
<1>5. ASSUME NEW p \in Threads, AddFails(p)
      PROVE  Found(k)
  <2>1. PICK j \in Timers : j = thread[p].obj /\ p \in With("add", j) /\ ~timr[j].hashed /\ ~timr[j].valid
    BY <1>5 DEF AddFails, ThreadInv, ThreadOK, At, Owns, With
  <2>2. timr' = timr \/ timr' = [timr EXCEPT ![j] = Put(timr[j])]
    BY <1>5, <2>1 DEF AddFails
  <2>3. timr[j].refs >= 1
    <3>1. Cardinality(With("deliver", j)) \in Nat
      BY WithNat
    <3> QED
      BY <2>1, <3>1 DEF TimerInv, TimerOK, Exact, Owned
  <2>4. ~Put(timr[j]).hashed
    BY <1>0, <2>1, <2>3, PutFacts
  <2> QED
    BY <1>a, <2>2, <2>4
<1>6. ASSUME NEW p \in Threads, NEW s \in Settings, NEW expired \in BOOLEAN, Set(p, s, expired)
      PROVE  Found(k)
  <2>1. PICK j \in Timers : j = thread[p].obj /\ timr[j].valid
    BY <1>6, LockedFacts DEF Set
  <2>2. PICK r, q : r = NewSetting(j, s) /\ q = QueueSignal(r, sigq[j])
    OBVIOUS
  <2>3. \/ timr' = [timr EXCEPT ![j] = q.timr]
        \/ \E st : timr' = [timr EXCEPT ![j] = [r EXCEPT !.status = st]]
    <3>1. CASE expired
      BY <1>6, <2>1, <2>2, <3>1 DEF Set
    <3>2. CASE ~expired
      BY <1>6, <2>1, <2>2, <3>2 DEF Set
    <3> QED
      BY <3>1, <3>2
  <2>4. timr[j].seq < MaxSeq
    BY <1>6, <2>1 DEF Set
  <2>5. r \in KItimer /\ r.hashed = timr[j].hashed /\ r.id = timr[j].id /\ r.refs = timr[j].refs
    BY <2>2, <2>4, SettingFacts
  <2>6. r.refs >= (IF sigq[j] # "none" THEN 2 ELSE 1) /\ ignoring \in BOOLEAN
    BY <2>1, <2>5, ValidRefs DEF Held, TypeOK
  <2>7. q.timr.hashed = r.hashed /\ q.timr.id = r.id
    BY <1>0, <2>2, <2>5, <2>6, QueueFacts
  <2>8. ASSUME NEW st PROVE [r EXCEPT !.status = st].hashed = r.hashed /\ [r EXCEPT !.status = st].id = r.id
    BY <2>5 DEF KItimer
  <2> QED
    BY <1>a, <2>3, <2>5, <2>7, <2>8
<1>7. ASSUME NEW p \in Threads, NEW j \in Timers, timr[j].valid, Invalidate(p, j)
      PROVE  Found(k)
  <2>1. PICK r, q : r = Invalidated(j) /\ q = (IF sigq[j] = "ignored" THEN "none" ELSE sigq[j])
    OBVIOUS
  <2>2. r \in KItimer /\ r.hashed /\ r.id = timr[j].id
    BY <1>7, <2>1, InvalidatedFacts DEF Invalidate
  <2>3. timr' = [timr EXCEPT ![j] = r] \/ timr' = [timr EXCEPT ![j] = [r EXCEPT !.status = "DISARMED"]]
    BY <1>7, <2>1 DEF Invalidate
  <2>4. timr[j].hashed
    BY <1>7, ValidRefs
  <2>5. [r EXCEPT !.status = "DISARMED"].id = r.id
    BY <2>2 DEF KItimer
  <2> QED
    BY <1>a, <2>2, <2>3, <2>4, <2>5
<1>8. ASSUME NEW p \in Threads, NEW j \in Timers, Delete(p) \/ Exit(p, j)
      PROVE  Found(k)
  <2>1. CASE Delete(p)
    <3>1. thread[p].obj \in Timers /\ timr[thread[p].obj].valid
      BY <2>1, LockedFacts DEF Delete
    <3> QED
      BY <1>7, <2>1, <3>1 DEF Delete
  <2>2. CASE Exit(p, j)
    BY <1>7, <2>2 DEF Exit
  <2> QED
    BY <1>8, <2>1, <2>2
<1>9. ASSUME NEW p \in Threads, UnhashAndFree(p)
      PROVE  Found(k)
  <2>1. PICK j \in Timers : j = thread[p].obj
    BY <1>9 DEF UnhashAndFree, ThreadInv, ThreadOK, At
  <2> DEFINE v == [timr[j] EXCEPT !.hashed = FALSE]
  <2>2. v.hashed = FALSE
    BY <1>0 DEF KItimer
  <2>3. Put(v).hashed = FALSE
    <3>1. CASE v.refs = 1
      BY <3>1 DEF Put, Blank
    <3>2. CASE v.refs # 1
      <4>1. Put(v) = [v EXCEPT !.refs = @ - 1]
        BY <3>2 DEF Put
      <4> QED
        BY <1>0, <4>1 DEF KItimer
    <3> QED
      BY <3>1, <3>2
  <2>4. timr' = [timr EXCEPT ![j] = Put(v)]
    BY <1>9, <2>1 DEF UnhashAndFree, TypeOK
  <2> HIDE DEF v
  <2> QED
    BY <1>a, <2>3, <2>4
<1>10. ASSUME NEW j \in Timers, With("deliver", j) # {} \/ sigq[j] # "none", timr' = [timr EXCEPT ![j] = Put(timr[j])]
       PROVE  Found(k)
  <2>1. /\ timr[j].hashed => Put(timr[j]) = [timr[j] EXCEPT !.refs = @ - 1]
        /\ Put(timr[j]).hashed = timr[j].hashed
    BY <1>10, PutStep
  <2>2. timr[j].hashed => Put(timr[j]).id = timr[j].id
    BY <1>0, <2>1 DEF KItimer
  <2> QED
    BY <1>a, <1>10, <2>1, <2>2
<1>11. ASSUME NEW p \in Threads, DeliverStale(p) \/ DeliverOneShot(p)
       PROVE  Found(k)
  <2>1. PICK j \in Timers : j = thread[p].obj /\ p \in With("deliver", j)
    BY <1>11 DEF DeliverStale, DeliverOneShot, ThreadInv, ThreadOK, At, With
  <2> QED
    BY <1>10, <1>11, <2>1 DEF DeliverStale, DeliverOneShot
<1>12. ASSUME NEW j \in Timers, Flush(j)
       PROVE  Found(k)
  BY <1>10, <1>12 DEF Flush
<1>13. ASSUME NEW p \in Threads, NEW expired \in BOOLEAN, DeliverInterval(p, expired)
       PROVE  Found(k)
  <2>1. PICK j \in Timers : j = thread[p].obj /\ p \in With("deliver", j) /\ timr[j].valid /\ timr[j].seq < MaxSeq
    BY <1>13 DEF DeliverInterval, ThreadInv, ThreadOK, At, With
  <2>2. PICK after : after = Rearmed(AfterRearm(timr[j]), sigq[j], expired)
    OBVIOUS
  <2>3. timr' = [timr EXCEPT ![j] = Put(after.timr)]
    BY <1>13, <2>1, <2>2 DEF DeliverInterval
  <2>4. With("deliver", j) # {}
    BY <2>1
  <2>5. Put(after.timr).hashed = timr[j].hashed
    BY <2>1, <2>2, <2>4, RearmFacts
  <2>6. Put(after.timr).id = timr[j].id
    BY <2>1, <2>2, <2>4, RearmFacts
  <2> QED
    BY <1>a, <2>3, <2>5, <2>6
<1>14. ASSUME NEW j \in Timers, PosixTimerFn(j)
       PROVE  Found(k)
  <2>1. PICK q : q = QueueSignal(timr[j], sigq[j])
    OBVIOUS
  <2>2. timr[j].refs >= (IF sigq[j] # "none" THEN 2 ELSE 1) \/ ~timr[j].valid
    BY ValidRefs DEF Held
  <2>3. q.timr.hashed = timr[j].hashed /\ q.timr.id = timr[j].id
    BY <1>0, <2>1, <2>2, QueueFacts DEF TypeOK
  <2>4. timr' = [timr EXCEPT ![j] = q.timr]
    BY <1>14, <2>1 DEF PosixTimerFn
  <2> QED
    BY <1>a, <2>3, <2>4
<1>15. ASSUME Ignore
       PROVE  Found(k)
  <2>1. timr'[k] = timr[k] \/ (timr'[k] = Put(timr[k]) /\ sigq[k] # "none")
    BY <1>15, IgnoreFacts
  <2>2. CASE timr'[k] = Put(timr[k]) /\ sigq[k] # "none"
    <3>1. /\ timr[k].hashed => Put(timr[k]) = [timr[k] EXCEPT !.refs = @ - 1]
          /\ Put(timr[k]).hashed = timr[k].hashed
      BY <2>2, PutStep
    <3>2. timr[k].hashed => Put(timr[k]).id = timr[k].id
      BY <1>0, <3>1 DEF KItimer
    <3> QED
      BY <2>2, <3>1, <3>2
  <2> QED
    BY <2>1, <2>2
<1>16. ASSUME NEW p \in Threads, Step(p)
       PROVE  Found(k)
  <2>1. Publish(p) \/ GetTime(p) \/ DeleteAgain(p) \/ (\E old \in BOOLEAN : SetRetry(p, old))
           => thread[p].obj \in Timers
    BY LockedFacts DEF Publish, GetTime, DeleteAgain, SetRetry, ThreadInv, ThreadOK, At
  <2> HIDE DEF Found
  <2>2. CASE Publish(p) \/ GetTime(p) \/ DeleteAgain(p) \/ \E old \in BOOLEAN : SetRetry(p, old)
    BY <1>1, <2>1, <2>2
  <2>3. CASE CreateFails(p) \/ LookupFails(p) \/ Again(p) \/ AddFails(p)
    BY <1>2, <1>5, <2>3
  <2>4. CASE \E s \in Settings, expired \in BOOLEAN : Set(p, s, expired)
    BY <1>6, <2>4
  <2>5. CASE Delete(p) \/ UnhashAndFree(p) \/ DeliverStale(p) \/ DeliverOneShot(p)
    BY <1>8, <1>9, <1>11, <2>5
  <2>6. CASE \E expired \in BOOLEAN : DeliverInterval(p, expired)
    BY <1>13, <2>6
  <2> QED
    BY <1>16, <2>2, <2>3, <2>4, <2>5, <2>6 DEF Step
<1> HIDE DEF Found
<1>17. ASSUME NEW p \in Threads,
              \/ \E j \in Timers : Create(p, j) \/ Exit(p, j) \/ Dequeue(p, j)
              \/ \E j \in Timers, op \in Ops : Lookup(p, j, op)
       PROVE  Found(k)
  BY <1>2, <1>4, <1>8, <1>17
<1>18. ASSUME \E j \in Timers : Fire(j) \/ Expiry(j) \/ Flush(j)
       PROVE  Found(k)
  <2>1. PICK j \in Timers : Fire(j) \/ Expiry(j) \/ Flush(j)
    BY <1>18
  <2> QED
    BY <1>3, <1>12, <1>14, <2>1 DEF Expiry
<1>19. Found(k)
  <2>1. CASE \E p \in Threads :
                \/ Step(p)
                \/ \E j \in Timers : Create(p, j) \/ Exit(p, j) \/ Dequeue(p, j)
                \/ \E j \in Timers, op \in Ops : Lookup(p, j, op)
    <3>1. PICK p \in Threads :
                \/ Step(p)
                \/ \E j \in Timers : Create(p, j) \/ Exit(p, j) \/ Dequeue(p, j)
                \/ \E j \in Timers, op \in Ops : Lookup(p, j, op)
      BY <2>1
    <3> QED
      BY <1>16, <1>17, <3>1
  <2> QED
    BY <1>3, <1>15, <1>18, <2>1 DEF Next
<1> QED
  BY <1>19 DEF Found

\* No two timers that can be found have the same ID, whatever the counter, the callers' own IDs
\* and the order of creations and deletions: posix_timer_add_at() looks and adds under one lock.
THEOREM IdsUnique == Spec => []IdsAreUnique
<1>1. Init => IdsAreUnique
  BY DEF Init, Blank, IdsAreUnique
<1>2. ASSUME IInv, IdsAreUnique, [Next]_vars PROVE IdsAreUnique'
  <2>1. CASE UNCHANGED vars
    BY <1>2, <2>1 DEF vars, IdsAreUnique
  <2>2. ASSUME NEW p \in Threads, AddAt(p) PROVE IdsAreUnique'
    <3>1. PICK k \in Timers : k = thread[p].obj
      BY <1>2, <2>2 DEF IInv, ThreadInv, ThreadOK, AddAt, At
    <3>2. /\ timr' = [timr EXCEPT ![k].hashed = TRUE, ![k].id = thread[p].id]
          /\ \A j \in Timers : timr[j].hashed => timr[j].id # thread[p].id
      BY <2>2, <3>1 DEF AddAt, Hashed
    <3>3. timr'[k].id = thread[p].id /\ \A j \in Timers \ {k} : timr'[j] = timr[j]
      BY <1>2, <3>2 DEF IInv, TypeOK, KItimer
    <3> SUFFICES ASSUME NEW i \in Timers, NEW j \in Timers, timr'[i].hashed, timr'[j].hashed,
                        timr'[i].id = timr'[j].id
                 PROVE  i = j
      BY DEF IdsAreUnique
    <3>4. CASE i = k /\ j # k
      BY <3>2, <3>3, <3>4
    <3>5. CASE j = k /\ i # k
      BY <3>2, <3>3, <3>5
    <3>6. CASE i # k /\ j # k
      BY <1>2, <3>3, <3>6 DEF IdsAreUnique
    <3> QED
      BY <3>4, <3>5, <3>6
  <2>3. CASE Next /\ \A p \in Threads : ~AddAt(p)
    <3>1. \A k \in Timers : timr'[k].hashed => timr[k].hashed /\ timr'[k].id = timr[k].id
      BY <1>2, <2>3, HashKept
    <3> QED
      BY <1>2, <3>1 DEF IdsAreUnique
  <2> QED
    BY <1>2, <2>1, <2>2, <2>3
<1> QED
  BY <1>1, <1>2, Invariance, PTL DEF Spec

-----------------------------------------------------------------------------
(* The overruns                                                            *)

\* What OverrunsAddUp says of one timer
Sum(k) ==
    timr[k].valid /\ timr[k].interval # 0 =>
        hr[k].expires = first[k] + timr[k].interval * (reported[k] + timr[k].overrun + 1)

Counts(p) ==
    \/ Publish(p) \/ GetTime(p)
    \/ \E old \in BOOLEAN : SetRetry(p, old)
    \/ \E s \in Settings, expired \in BOOLEAN : Set(p, s, expired)
    \/ \E expired \in BOOLEAN : DeliverInterval(p, expired)

\* Counting n more intervals
LEMMA Distribute ==
  ASSUME NEW i \in Int, NEW a \in Int, NEW n \in Int
  PROVE  i * (a + n) = i * a + n * i
  OBVIOUS

\* The steps that count no overruns leave the setting of a valid timer alone.
LEMMA SumKept ==
  ASSUME IInv, Next, NEW k \in Timers, \A p \in Threads : ~Counts(p)
  PROVE  timr'[k].valid => /\ timr[k].valid /\ timr'[k].interval = timr[k].interval
                           /\ timr'[k].overrun = timr[k].overrun /\ hr'[k].expires = hr[k].expires
                           /\ first' = first /\ reported' = reported
<1> USE DEF IInv
<1> DEFINE Same(r, j) == r.valid => /\ timr[j].valid /\ r.interval = timr[j].interval
                                    /\ r.overrun = timr[j].overrun
           Timr == timr'[k].valid => /\ timr[k].valid /\ timr'[k].interval = timr[k].interval
                                     /\ timr'[k].overrun = timr[k].overrun
           Rest == hr'[k].expires = hr[k].expires /\ first' = first /\ reported' = reported
<1>0. \A j \in Timers : timr[j] \in KItimer /\ sigq[j] \in Sigqs /\ hr[j] \in Hrtimer
  BY DEF TypeOK, Sigqs
<1>a. ASSUME NEW j \in Timers, NEW r, timr' = [timr EXCEPT ![j] = r], Same(r, j)
      PROVE  Timr
  BY <1>a DEF TypeOK
<1>b. ASSUME NEW j \in Timers, NEW h, hr' = [hr EXCEPT ![j] = h], h.expires = hr[j].expires
      PROVE  hr'[k].expires = hr[k].expires
  BY <1>b DEF TypeOK
<1>1. ASSUME NEW p \in Threads,
             \/ CreateFails(p) \/ LookupFails(p) \/ Again(p) \/ \E j \in Timers : Dequeue(p, j)
             \/ \E j \in Timers, op \in Ops : Lookup(p, j, op)
      PROVE  Timr /\ Rest
  BY <1>1 DEF CreateFails, LookupFails, Again, Dequeue, Lookup, history
<1>2. ASSUME Unignore \/ Tick \/ SetBack
      PROVE  Timr /\ Rest
  BY <1>2 DEF Unignore, Tick, SetBack, history
<1>3. ASSUME NEW j \in Timers, Fire(j) \/ FnDone(j)
      PROVE  Timr /\ Rest
  <2>1. timr' = timr /\ first' = first /\ reported' = reported
    BY <1>3 DEF Fire, FnDone, history
  <2>2. hr' = [hr EXCEPT ![j] = [hr[j] EXCEPT !.queued = FALSE, !.runs = "fn"]]
        \/ hr' = [hr EXCEPT ![j] = [hr[j] EXCEPT !.runs = "no"]]
    BY <1>3 DEF Fire, FnDone, TypeOK
  <2>3. /\ [hr[j] EXCEPT !.queued = FALSE, !.runs = "fn"].expires = hr[j].expires
        /\ [hr[j] EXCEPT !.runs = "no"].expires = hr[j].expires
    BY <1>0 DEF Hrtimer
  <2> QED
    BY <1>b, <2>1, <2>2, <2>3
<1>4. ASSUME NEW p \in Threads, NEW j \in Timers, Create(p, j)
      PROVE  Timr /\ (timr'[k].valid => Rest)
  BY <1>4 DEF Create, Blank, TypeOK, history
<1>5. ASSUME NEW p \in Threads, AddAt(p) \/ AddFails(p)
      PROVE  Timr /\ Rest
  <2>1. PICK j \in Timers : j = thread[p].obj /\ p \in With("add", j) /\ ~timr[j].hashed /\ ~timr[j].valid
    BY <1>5 DEF AddAt, AddFails, ThreadInv, ThreadOK, At, Owns, With
  <2> DEFINE r == [timr[j] EXCEPT !.hashed = TRUE, !.id = thread[p].id]
  <2>2. timr' = timr \/ timr' = [timr EXCEPT ![j] = Put(timr[j])] \/ timr' = [timr EXCEPT ![j] = r]
    BY <1>5, <2>1 DEF AddAt, AddFails, TypeOK
  <2>3. timr[j].refs >= 1
    <3>1. Cardinality(With("deliver", j)) \in Nat
      BY WithNat
    <3> QED
      BY <2>1, <3>1 DEF TimerInv, TimerOK, Exact, Owned
  <2>4. ~Put(timr[j]).valid
    BY <1>0, <2>1, <2>3, PutFacts
  <2>5. ~r.valid
    BY <1>0, <2>1 DEF KItimer
  <2>6. Rest
    BY <1>5 DEF AddAt, AddFails, history
  <2> HIDE DEF r
  <2> QED
    BY <1>a, <2>2, <2>4, <2>5, <2>6
<1>6. ASSUME NEW p \in Threads, NEW j \in Timers, timr[j].valid, Invalidate(p, j)
      PROVE  Timr /\ (timr'[k].valid => Rest)
  <2>1. PICK r, q : r = Invalidated(j) /\ q = (IF sigq[j] = "ignored" THEN "none" ELSE sigq[j])
    OBVIOUS
  <2>2. r \in KItimer /\ ~r.valid
    BY <1>6, <2>1, InvalidatedFacts DEF Invalidate
  <2>3. timr' = [timr EXCEPT ![j] = r] \/ timr' = [timr EXCEPT ![j] = [r EXCEPT !.status = "DISARMED"]]
    BY <1>6, <2>1 DEF Invalidate
  <2>4. ~[r EXCEPT !.status = "DISARMED"].valid
    BY <2>2 DEF KItimer
  <2>5. Timr
    BY <1>a, <2>2, <2>3, <2>4
  <2>6. Rest
    <3> DEFINE c == hr[j].queued /\ ~Cancelled(j)
               h == [hr[j] EXCEPT !.queued = c]
    <3>1. hr' = [hr EXCEPT ![j] = h]
      BY <1>6 DEF Invalidate, TypeOK
    <3>2. h.expires = hr[j].expires
      <4> HIDE DEF c
      <4> QED
        BY <1>0 DEF Hrtimer
    <3> QED
      BY <1>6, <1>b, <3>1, <3>2 DEF Invalidate, history
  <2> QED
    BY <2>5, <2>6
<1>7. ASSUME NEW p \in Threads, NEW j \in Timers, Delete(p) \/ Exit(p, j)
      PROVE  Timr /\ (timr'[k].valid => Rest)
  <2>1. CASE Delete(p)
    <3>1. thread[p].obj \in Timers /\ timr[thread[p].obj].valid
      BY <2>1, LockedFacts DEF Delete
    <3> QED
      BY <1>6, <2>1, <3>1 DEF Delete
  <2>2. CASE Exit(p, j)
    BY <1>6, <2>2 DEF Exit
  <2> QED
    BY <1>7, <2>1, <2>2
<1>8. ASSUME NEW p \in Threads, DeleteAgain(p) \/ UnhashAndFree(p)
      PROVE  Timr /\ Rest
  <2>1. PICK j \in Timers : j = thread[p].obj /\ ~timr[j].valid /\ timr[j].hashed
    BY <1>8 DEF DeleteAgain, UnhashAndFree, ThreadInv, ThreadOK, At, Owns
  <2> DEFINE v == [timr[j] EXCEPT !.hashed = FALSE]
             w == [timr[j] EXCEPT !.status = "DISARMED"]
             h == [hr[j] EXCEPT !.queued = FALSE]
  <2>2. v \in KItimer /\ ~v.hashed /\ ~v.valid /\ ~w.valid /\ v.refs = timr[j].refs
    BY <1>0, <2>1 DEF KItimer
  <2>7. h.expires = hr[j].expires
    BY <1>0 DEF Hrtimer
  <2>3. timr' = [timr EXCEPT ![j] = Put(v)] \/ timr' = [timr EXCEPT ![j] = w]
    BY <1>8, <2>1 DEF DeleteAgain, UnhashAndFree, TypeOK
  <2>4. ~Put(v).valid
    <3>1. timr[j].refs >= 1
      <4>1. Cardinality(With("deliver", j)) \in Nat
        BY WithNat
      <4> QED
        BY <2>1, <4>1 DEF TimerInv, TimerOK, Exact, Owned
    <3> QED
      BY <2>2, <3>1, PutFacts
  <2>5. hr' = hr \/ hr' = [hr EXCEPT ![j] = h]
    BY <1>8, <2>1 DEF DeleteAgain, UnhashAndFree, TypeOK
  <2>6. first' = first /\ reported' = reported
    BY <1>8 DEF DeleteAgain, UnhashAndFree, history
  <2> HIDE DEF v, w, h
  <2> QED
    BY <1>a, <1>b, <2>2, <2>3, <2>4, <2>5, <2>6, <2>7
<1>9. ASSUME NEW j \in Timers, With("deliver", j) # {} \/ sigq[j] # "none"
      PROVE  Same(Put(timr[j]), j)
  <2>1. /\ timr[j].hashed => Put(timr[j]) = [timr[j] EXCEPT !.refs = @ - 1]
        /\ Put(timr[j]).valid = timr[j].valid
    BY <1>9, PutStep
  <2>2. timr[j].valid => timr[j].hashed
    BY DEF TimerInv, TimerOK
  <2> QED
    BY <1>0, <2>1, <2>2 DEF KItimer
<1>10. ASSUME NEW p \in Threads, DeliverStale(p) \/ DeliverOneShot(p)
       PROVE  Timr /\ Rest
  <2>1. PICK j \in Timers : j = thread[p].obj /\ p \in With("deliver", j)
    BY <1>10 DEF DeliverStale, DeliverOneShot, ThreadInv, ThreadOK, At, With
  <2>2. timr' = [timr EXCEPT ![j] = Put(timr[j])] /\ Rest
    BY <1>10, <2>1 DEF DeliverStale, DeliverOneShot, history
  <2> QED
    BY <1>9, <1>a, <2>1, <2>2
<1>11. ASSUME NEW j \in Timers, Flush(j)
       PROVE  Timr /\ Rest
  <2>1. timr' = [timr EXCEPT ![j] = Put(timr[j])] /\ Rest /\ sigq[j] # "none"
    BY <1>11 DEF Flush, history
  <2> QED
    BY <1>9, <1>a, <2>1
<1>12. ASSUME Ignore
       PROVE  Timr /\ Rest
  <2>1. timr'[k] = timr[k] \/ (timr'[k] = Put(timr[k]) /\ sigq[k] # "none")
    BY <1>12, IgnoreFacts
  <2>2. Rest
    BY <1>12 DEF Ignore, history
  <2> QED
    BY <1>9, <2>1, <2>2
<1>13. ASSUME NEW j \in Timers, PosixTimerFn(j)
       PROVE  Timr /\ Rest
  <2>1. PICK q : q = QueueSignal(timr[j], sigq[j])
    OBVIOUS
  <2>2. timr[j].refs >= (IF sigq[j] # "none" THEN 2 ELSE 1) \/ ~timr[j].valid
    BY ValidRefs DEF Held
  <2>3. Same(q.timr, j)
    BY <1>0, <2>1, <2>2, QueueFacts DEF TypeOK
  <2> DEFINE h == [hr[j] EXCEPT !.runs = "end"]
  <2>4. /\ timr' = [timr EXCEPT ![j] = q.timr] /\ hr' = [hr EXCEPT ![j] = h]
        /\ first' = first /\ reported' = reported
    BY <1>13, <2>1 DEF PosixTimerFn, TypeOK
  <2>5. h.expires = hr[j].expires
    BY <1>0 DEF Hrtimer
  <2> HIDE DEF h
  <2> QED
    BY <1>a, <1>b, <2>3, <2>4, <2>5
<1> HIDE DEF Timr, Rest
<1>14. ASSUME NEW p \in Threads, Step(p)
       PROVE  Timr /\ (timr'[k].valid => Rest)
  <2>1. CASE CreateFails(p) \/ LookupFails(p) \/ Again(p) \/ AddAt(p) \/ AddFails(p)
    BY <1>1, <1>5, <2>1
  <2>2. CASE Delete(p) \/ DeleteAgain(p) \/ UnhashAndFree(p) \/ DeliverStale(p) \/ DeliverOneShot(p)
    BY <1>7, <1>8, <1>10, <2>2
  <2> QED
    BY <1>14, <2>1, <2>2 DEF Step, Counts
<1>15. ASSUME NEW p \in Threads,
              \/ \E j \in Timers : Create(p, j) \/ Exit(p, j) \/ Dequeue(p, j)
              \/ \E j \in Timers, op \in Ops : Lookup(p, j, op)
       PROVE  Timr /\ (timr'[k].valid => Rest)
  BY <1>1, <1>4, <1>7, <1>15
<1>16. ASSUME NEW j \in Timers, Fire(j) \/ Expiry(j) \/ Flush(j)
       PROVE  Timr /\ Rest
  BY <1>3, <1>11, <1>13, <1>16 DEF Expiry
<1>17. Timr /\ (timr'[k].valid => Rest)
  <2>1. CASE \E p \in Threads :
                \/ Step(p)
                \/ \E j \in Timers : Create(p, j) \/ Exit(p, j) \/ Dequeue(p, j)
                \/ \E j \in Timers, op \in Ops : Lookup(p, j, op)
    <3>1. PICK p \in Threads :
                \/ Step(p)
                \/ \E j \in Timers : Create(p, j) \/ Exit(p, j) \/ Dequeue(p, j)
                \/ \E j \in Timers, op \in Ops : Lookup(p, j, op)
      BY <2>1
    <3> QED
      BY <1>14, <1>15, <3>1
  <2> QED
    BY <1>2, <1>12, <1>16, <2>1 DEF Next
<1> QED
  BY <1>17 DEF Timr, Rest

\* The sum of a timer that gets n more intervals, in its expiry and in one of its counts
LEMMA SumStep ==
  ASSUME NEW e \in Int, NEW f \in Int, NEW i \in Int, NEW c \in Int, NEW n \in Int,
         e = f + i * (c + 1)
  PROVE  e + n * i = f + i * (c + n + 1)
<1>1. c + n + 1 = (c + 1) + n
  OBVIOUS
<1>2. i * (c + n + 1) = i * (c + 1) + n * i
  BY <1>1, Distribute
<1> DEFINE x == i * (c + 1)
           y == n * i
<1>3. x \in Int /\ y \in Int
  OBVIOUS
<1> HIDE DEF x, y
<1>4. e + y = f + (x + y)
  BY <1>3 DEF x
<1> QED
  BY <1>2, <1>4 DEF x, y

\* The steps that count overruns, for the timer they are about
LEMMA CountsStep ==
  ASSUME IInv, NEW p \in Threads, Counts(p), NEW k \in Timers, k = thread[p].obj, Sum(k)
  PROVE  Sum(k)'
<1> USE DEF IInv
<1>0. /\ timr[k] \in KItimer /\ sigq[k] \in Sigqs /\ hr[k] \in Hrtimer
      /\ first[k] \in Nat /\ reported[k] \in Int
  BY DEF TypeOK, Sigqs
<1> DEFINE i == timr[k].interval
           o == timr[k].overrun
           e == hr[k].expires
<1>1. i \in Nat /\ o \in Int /\ e \in Nat
  BY <1>0 DEF KItimer, Hrtimer
<1>2. ASSUME NEW n \in Nat, timr[k].valid,
             timr'[k].interval = i, timr'[k].overrun = o + n, hr'[k].expires = e + n * i,
             first' = first, reported' = reported
      PROVE  Sum(k)'
  <2>1. CASE i # 0
    <3>1. e = first[k] + i * (reported[k] + o + 1)
      BY <1>2, <2>1 DEF Sum
    <3> HIDE DEF i, o, e
    <3>2. e + n * i = first[k] + i * ((reported[k] + o) + n + 1)
      BY <1>0, <1>1, <1>2, <3>1, SumStep
    <3>3. (reported[k] + o) + n + 1 = reported[k] + (o + n) + 1
      BY <1>0, <1>1
    <3> QED
      BY <1>2, <3>2, <3>3 DEF Sum
  <2>2. CASE i = 0
    BY <1>2, <2>2 DEF Sum
  <2> QED
    BY <2>1, <2>2
<1>3. CASE Publish(p)
  <2>1. timr[k].interval = 0
    BY <1>3 DEF Publish, ThreadInv, ThreadOK, At
  <2>2. timr' = [timr EXCEPT ![k] = [timr[k] EXCEPT !.valid = TRUE]]
    BY <1>3 DEF Publish, TypeOK
  <2>3. timr'[k].interval = 0
    BY <1>0, <2>1, <2>2 DEF TypeOK, KItimer
  <2> QED
    BY <2>3 DEF Sum
<1>4. CASE GetTime(p)
  <2> DEFINE n == Overruns(k)
             r == [timr[k] EXCEPT !.overrun = o + n]
             x == e + n * i
             h == [hr[k] EXCEPT !.expires = x]
  <2>1. n \in Nat
    BY OverrunTypes
  <2>2. timr[k].valid
    BY <1>4, LockedFacts DEF GetTime
  <2>3. timr' = [timr EXCEPT ![k] = r] /\ hr' = [hr EXCEPT ![k] = h] /\ first' = first /\ reported' = reported
    BY <1>4 DEF GetTime, TypeOK, history
  <2> HIDE DEF n
  <2>4. r.interval = i /\ r.overrun = o + n
    BY <1>0 DEF KItimer
  <2>5. h.expires = x
    <3> HIDE DEF x
    <3> QED
      BY <1>0 DEF Hrtimer
  <2>6. timr'[k] = r /\ hr'[k] = h
    BY <2>3 DEF TypeOK
  <2> QED
    BY <1>2, <2>1, <2>2, <2>3, <2>4, <2>5, <2>6
<1>5. ASSUME NEW old \in BOOLEAN, SetRetry(p, old)
      PROVE  Sum(k)'
  <2> DEFINE n == IF old THEN Overruns(k) ELSE 0
             m == timr[k].seq + 1
             r == [timr[k] EXCEPT !.seq = m, !.overrun = o + n]
             x == e + n * i
             h == [hr[k] EXCEPT !.expires = x]
  <2>1. n \in Nat
    BY OverrunTypes
  <2>2. timr[k].valid
    BY <1>5, LockedFacts DEF SetRetry
  <2>3. timr' = [timr EXCEPT ![k] = r] /\ hr' = [hr EXCEPT ![k] = h] /\ first' = first /\ reported' = reported
    BY <1>5 DEF SetRetry, TypeOK, history
  <2> HIDE DEF n, m
  <2>4. r.interval = i /\ r.overrun = o + n
    BY <1>0 DEF KItimer
  <2>5. h.expires = x
    <3> HIDE DEF x
    <3> QED
      BY <1>0 DEF Hrtimer
  <2>6. timr'[k] = r /\ hr'[k] = h
    BY <2>3 DEF TypeOK
  <2> QED
    BY <1>2, <2>1, <2>2, <2>3, <2>4, <2>5, <2>6
<1>6. ASSUME NEW s \in Settings, NEW expired \in BOOLEAN, Set(p, s, expired)
      PROVE  Sum(k)'
  <2> DEFINE x == IF s.kclock = "real" THEN s.value ELSE now + s.value
             armed == s.value # 0 /\ k \notin SigevNone
             h == [hr[k] EXCEPT !.queued = armed /\ ~expired, !.expires = x]
  <2>1. PICK r, q : r = NewSetting(k, s) /\ q = QueueSignal(r, sigq[k])
    OBVIOUS
  <2>2. /\ \/ timr' = [timr EXCEPT ![k] = q.timr]
           \/ \E st : timr' = [timr EXCEPT ![k] = [r EXCEPT !.status = st]]
        /\ timr[k].seq < MaxSeq /\ timr[k].valid
    <3>1. CASE expired
      BY <1>6, <2>1, <3>1, LockedFacts DEF Set
    <3>2. CASE ~expired
      BY <1>6, <2>1, <3>2, LockedFacts DEF Set
    <3> QED
      BY <3>1, <3>2
  <2>3. r \in KItimer /\ r.interval = s.interval /\ r.overrun = -1 /\ r.refs = timr[k].refs
    BY <2>1, <2>2, SettingFacts
  <2>4. r.refs >= (IF sigq[k] # "none" THEN 2 ELSE 1) /\ ignoring \in BOOLEAN
    BY <2>2, <2>3, ValidRefs DEF Held, TypeOK
  <2>5. q.timr.interval = r.interval /\ q.timr.overrun = r.overrun
    BY <1>0, <2>1, <2>3, <2>4, QueueFacts
  <2>6. ASSUME NEW st PROVE [r EXCEPT !.status = st].interval = r.interval /\ [r EXCEPT !.status = st].overrun = r.overrun
    BY <2>3 DEF KItimer
  <2>7. timr'[k].interval = s.interval /\ timr'[k].overrun = -1
    <3>1. PICK z : timr' = [timr EXCEPT ![k] = z] /\ z.interval = r.interval /\ z.overrun = r.overrun
      BY <2>2, <2>5, <2>6
    <3>2. timr'[k] = z
      BY <3>1 DEF TypeOK
    <3> QED
      BY <2>3, <3>1, <3>2
  <2>8. first'[k] = x /\ reported'[k] = 0
    BY <1>6 DEF Set, TypeOK
  <2>9. CASE s.value = 0
    BY <2>7, <2>9 DEF Settings, Sum
  <2>10. CASE s.value # 0
    <3>1. hr' = [hr EXCEPT ![k] = h]
      <4> HIDE DEF x
      <4> QED
        BY <1>6, <2>10 DEF Set, TypeOK, x
    <3>2. h.expires = x
      <4> HIDE DEF x, armed
      <4> QED
        BY <1>0 DEF Hrtimer
    <3>3. hr'[k].expires = x
      BY <3>1, <3>2 DEF TypeOK
    <3>4. x \in Int /\ s.interval \in Nat
      <4>1. s.value \in Values /\ s.interval \in Intervals
        BY DEF Settings
      <4>2. s.value \in Nat /\ s.interval \in Nat
        BY <4>1, ConstAssumption
      <4>3. now \in Nat
        BY DEF TypeOK
      <4> QED
        BY <4>2, <4>3
    <3> HIDE DEF x
    <3>5. 0 + -1 + 1 = 0 /\ s.interval * 0 = 0
      BY <3>4
    <3>6. x = x + s.interval * (0 + -1 + 1)
      BY <3>4, <3>5
    <3> QED
      BY <2>7, <2>8, <3>3, <3>6 DEF Sum
  <2> QED
    BY <2>9, <2>10
<1>7. ASSUME NEW expired \in BOOLEAN, DeliverInterval(p, expired)
      PROVE  Sum(k)'
  <2>1. thread[p].pc = "deliver" /\ timr[k].valid /\ timr[k].seq < MaxSeq /\ i # 0
    BY <1>7 DEF DeliverInterval, At, Rearms
  <2>2. PICK after : after = Rearmed(AfterRearm(timr[k]), sigq[k], expired)
    OBVIOUS
  <2>3. PICK c \in {Clock(timr[k].kclock), Clock(timr[k].kclock) - 1} :
           LET n == Forward(e, i, c)
           IN  /\ hr' = [hr EXCEPT ![k].expires = e + n * i, ![k].queued = ~expired]
               /\ timr' = [timr EXCEPT ![k] = Put(after.timr)]
               /\ reported' = [reported EXCEPT ![k] = @ + o + n + 1]
    BY <1>7, <2>2 DEF DeliverInterval
  <2> DEFINE n == Forward(e, i, c)
  <2>4. n \in Nat
    <3>1. Clock(timr[k].kclock) \in Nat
      BY <1>0, ClockTypes DEF KItimer
    <3>2. c \in Int
      BY <3>1
    <3> QED
      BY <1>1, <2>1, <3>2, ForwardTypes
  <2> DEFINE x == e + n * i
             h == [hr[k] EXCEPT !.expires = x, !.queued = ~expired]
             b == reported[k] + o + n + 1
  <2>5. hr' = [hr EXCEPT ![k] = h] /\ timr' = [timr EXCEPT ![k] = Put(after.timr)]
        /\ reported' = [reported EXCEPT ![k] = b]
    <3> HIDE DEF n
    <3> QED
      BY <2>3 DEF TypeOK, n
  <2>6. first' = first
    BY <1>7 DEF DeliverInterval
  <2>7. With("deliver", k) # {}
    BY <2>1 DEF With, At
  <2>8. Put(after.timr).interval = i /\ Put(after.timr).overrun = -1
    BY <2>1, <2>2, <2>7, RearmFacts
  <2> HIDE DEF n
  <2>9. h.expires = x
    <3> HIDE DEF x
    <3> QED
      BY <1>0 DEF Hrtimer
  <2>10. /\ hr'[k].expires = x /\ timr'[k].interval = i /\ timr'[k].overrun = -1
         /\ reported'[k] = b
    BY <2>5, <2>8, <2>9 DEF TypeOK
  <2>11. e = first[k] + i * (reported[k] + o + 1)
    BY <2>1 DEF Sum
  <2> HIDE DEF i, o, e
  <2>12. x = first[k] + i * ((reported[k] + o) + n + 1)
    BY <1>0, <1>1, <2>4, <2>11, SumStep
  <2>13. (reported[k] + o) + n + 1 = b + -1 + 1
    BY <1>0, <1>1, <2>4
  <2> QED
    BY <2>6, <2>10, <2>12, <2>13 DEF Sum
<1> QED
  BY <1>3, <1>4, <1>5, <1>6, <1>7 DEF Counts

\* ... and for the other timers
LEMMA OtherTimer ==
  ASSUME IInv, NEW p \in Threads, Counts(p), NEW k \in Timers, k # thread[p].obj
  PROVE  /\ timr'[k] = timr[k] /\ hr'[k].expires = hr[k].expires
         /\ first'[k] = first[k] /\ reported'[k] = reported[k]
<1> USE DEF IInv
<1>1. CASE Publish(p) \/ GetTime(p)
  BY <1>1 DEF Publish, GetTime, TypeOK, history
<1>2. ASSUME NEW old \in BOOLEAN, SetRetry(p, old)
      PROVE  /\ timr'[k] = timr[k] /\ hr'[k] = hr[k] /\ first' = first /\ reported' = reported
  BY <1>2 DEF SetRetry, TypeOK, history
<1>3. ASSUME NEW s \in Settings, NEW expired \in BOOLEAN, Set(p, s, expired)
      PROVE  /\ timr'[k] = timr[k] /\ hr'[k] = hr[k]
             /\ first'[k] = first[k] /\ reported'[k] = reported[k]
  BY <1>3 DEF Set, TypeOK
<1>4. ASSUME NEW expired \in BOOLEAN, DeliverInterval(p, expired)
      PROVE  /\ timr'[k] = timr[k] /\ hr'[k] = hr[k]
             /\ first'[k] = first[k] /\ reported'[k] = reported[k]
  BY <1>4 DEF DeliverInterval, TypeOK
<1> QED
  BY <1>1, <1>2, <1>3, <1>4 DEF Counts

\* The overruns reported with the signals and those counted for the next signal add up to the
\* intervals since the first expiry, with a rearm in the delivery, and calls that ask for the time
\* or replace the setting in between.
THEOREM OverrunsSum == Spec => []OverrunsAddUp
<1> DEFINE Sums == \A k \in Timers : Sum(k)
<1>1. Init => Sums
  BY DEF Init, Blank, Sum
<1>2. ASSUME IInv, Sums, [Next]_vars PROVE Sums'
  <2> SUFFICES ASSUME NEW k \in Timers PROVE Sum(k)'
    OBVIOUS
  <2>0. Sum(k)
    BY <1>2
  <2>1. CASE UNCHANGED vars
    BY <2>0, <2>1 DEF vars, history, Sum
  <2>2. ASSUME NEW p \in Threads, Counts(p) PROVE Sum(k)'
    <3>1. CASE k = thread[p].obj
      BY <1>2, <2>0, <2>2, <3>1, CountsStep
    <3>2. CASE k # thread[p].obj
      <4>1. /\ timr'[k] = timr[k] /\ hr'[k].expires = hr[k].expires
            /\ first'[k] = first[k] /\ reported'[k] = reported[k]
        BY <1>2, <2>2, <3>2, OtherTimer
      <4> QED
        BY <2>0, <4>1 DEF Sum
    <3> QED
      BY <3>1, <3>2
  <2>3. CASE Next /\ \A p \in Threads : ~Counts(p)
    <3>1. timr'[k].valid => /\ timr[k].valid /\ timr'[k].interval = timr[k].interval
                            /\ timr'[k].overrun = timr[k].overrun /\ hr'[k].expires = hr[k].expires
                            /\ first' = first /\ reported' = reported
      BY <1>2, <2>3, SumKept
    <3> QED
      BY <2>0, <3>1 DEF Sum
  <2> QED
    BY <1>2, <2>1, <2>2, <2>3
<1>3. Sums => OverrunsAddUp
  BY DEF Sum, OverrunsAddUp
<1> QED
  BY <1>1, <1>2, <1>3, Invariance, PTL DEF Spec

-----------------------------------------------------------------------------
(***************************************************************************)
(* The signals of PosixTimers, for any number of timers and threads: what a *)
(* delivery accepts is the signal of the present setting, and a periodic     *)
(* timer does not die.                                                     *)
(*                                                                         *)
(* The sequence of a timer is counted up by whatever makes a signal on its   *)
(* way stale, and only an expiry copies it (qseq).  So a signal that is on   *)
(* its way and current was sent after the last of these steps, by an expiry *)
(* that left the timer REQUEUE_PENDING if it is periodic.  That one is alive *)
(* follows if nothing takes such a signal away but a delivery, which arms    *)
(* the timer again: the signals of periodic timers are kept when they are   *)
(* ignored.                                                                *)
(***************************************************************************)

\* A signal is queued, remembered, or taken off the queue and not delivered yet.
InFlight(k) == sigq[k] # "none" \/ With("deliver", k) # {}

\* What an accepted signal stands for
Current(k) ==
    /\ timr[k].valid /\ fired[k]
    /\ timr[k].interval # 0 => timr[k].status = "REQUEUE_PENDING"

SignalOK(k) ==
    /\ timr[k].qseq <= timr[k].seq
    /\ InFlight(k) /\ Accepts(k) => Current(k)

\* It is armed or expiring, or its current signal is on its way and would not be dropped.
Alive(k) ==
    \/ timr[k].status = "ARMED" /\ (hr[k].queued \/ hr[k].runs = "fn")
    \/ timr[k].status = "REQUEUE_PENDING" /\ Accepts(k) /\ InFlight(k) /\ timr[k].periodic

AliveOK(k) ==
    k \notin SigevNone /\ timr[k].valid /\ timr[k].interval # 0 /\ ~Replacing(k) => Alive(k)

RetryOK == \A p \in Threads : thread[p].op = "retry" => thread[p].pc \in {"found", "wait"}

SInv == RetryOK /\ \A k \in Timers : SignalOK(k) /\ AliveOK(k)

-----------------------------------------------------------------------------
(* What the helpers do to the record of a timer.                           *)

\* Putting a reference leaves the rest alone, or the timer is gone.
LEMMA PutSeq ==
  ASSUME NEW r \in KItimer, NEW s, s = Put(r)
  PROVE  \/ s.refs = 0 /\ ~s.valid /\ s.seq = 0 /\ s.qseq = 0
         \/ /\ s.seq = r.seq /\ s.qseq = r.qseq /\ s.valid = r.valid /\ s.status = r.status
            /\ s.interval = r.interval /\ s.periodic = r.periodic
<1>1. CASE r.refs = 1
  BY <1>1 DEF Put, Blank
<1>2. CASE r.refs # 1
  <2>1. s = [r EXCEPT !.refs = @ - 1]
    BY <1>2 DEF Put
  <2> QED
    BY <2>1 DEF KItimer
<1> QED
  BY <1>1, <1>2

\* The signal of an expiry has the present sequence; that of a periodic timer is queued
\* or remembered, and the timer waits for its delivery.
LEMMA QueueSeq ==
  ASSUME NEW r \in KItimer, NEW q \in Sigqs, r.valid, r.refs >= (IF q # "none" THEN 2 ELSE 1),
         NEW s, s = QueueSignal(r, q)
  PROVE  /\ s.timr.valid /\ s.timr.seq = r.seq /\ s.timr.qseq = r.seq /\ s.timr.interval = r.interval
         /\ r.interval # 0 => /\ s.timr.status = "REQUEUE_PENDING" /\ s.timr.periodic
                              /\ s.sigq # "none"
<1> DEFINE st == IF r.interval # 0 THEN "REQUEUE_PENDING" ELSE "DISARMED"
           v == [r EXCEPT !.status = st]
           w == [v EXCEPT !.qseq = v.seq, !.periodic = (v.status = "REQUEUE_PENDING")]
           u == [w EXCEPT !.refs = @ + 1]
           d == [w EXCEPT !.refs = @ - 1]
           Good(t) == /\ t.valid /\ t.seq = r.seq /\ t.qseq = r.seq /\ t.interval = r.interval
                      /\ r.interval # 0 => t.status = "REQUEUE_PENDING" /\ t.periodic
<1>1. s = SendSigqueue(v, q) /\ Sent(v) = w
  BY DEF QueueSignal, Sent
<1>2. v.seq = r.seq /\ v.valid /\ v.interval = r.interval /\ v.refs = r.refs /\ v \in KItimer
      /\ v.status = st
  BY DEF KItimer
<1>3. Good(w) /\ Good(u) /\ Good(d) /\ w.refs = r.refs
      /\ (w.periodic <=> r.interval # 0)
  <2> HIDE DEF v
  <2> QED
    BY <1>2 DEF KItimer
<1>4. q = "ignored" => Put(w) = d
  BY <1>3 DEF Put
<1> HIDE DEF v, w, u, d
<1>5. CASE ~ignoring
  <2>1. s.timr \in {u, w} /\ s.sigq = "pending"
    BY <1>1, <1>5 DEF SendSigqueue, u
  <2> QED
    BY <1>3, <2>1
<1>6. CASE ignoring /\ q = "none" /\ w.periodic
  <2>1. s.timr = u /\ s.sigq = "ignored"
    BY <1>1, <1>6 DEF SendSigqueue, u
  <2> QED
    BY <1>3, <2>1
<1>7. CASE ignoring /\ q = "ignored" /\ ~w.periodic
  <2>1. s.timr = d /\ s.sigq = "none"
    BY <1>1, <1>4, <1>7 DEF SendSigqueue
  <2> QED
    BY <1>3, <1>7, <2>1
<1>8. CASE ignoring /\ ~(q = "none" /\ w.periodic) /\ ~(q = "ignored" /\ ~w.periodic)
  <2>1. s.timr = w /\ s.sigq = q
    BY <1>1, <1>8 DEF SendSigqueue
  <2> QED
    BY <1>3, <1>8, <2>1
<1> QED
  BY <1>5, <1>6, <1>7, <1>8

\* A timer that is gone has no signal on its way.
LEMMA GoneIsQuiet ==
  ASSUME NEW k \in Timers
  PROVE  /\ IInv /\ timr[k].refs = 0 => ~InFlight(k)
         /\ IInv' /\ timr'[k].refs = 0 => ~InFlight(k)'
<1>1. ASSUME IInv, timr[k].refs = 0 PROVE ~InFlight(k)
  <2>1. Exact(k) /\ Cardinality(With("deliver", k)) \in Nat /\ IsFiniteSet(With("deliver", k))
    BY <1>1, WithNat DEF IInv, TimerInv, TimerOK
  <2>2. sigq[k] = "none" /\ Cardinality(With("deliver", k)) = 0
    BY <1>1, <2>1 DEF Exact
  <2> QED
    BY <2>1, <2>2, FS_EmptySet DEF InFlight
<1>2. ASSUME IInv', timr'[k].refs = 0 PROVE ~InFlight(k)'
  <2>1. Exact(k)' /\ Cardinality(With("deliver", k)') \in Nat /\ IsFiniteSet(With("deliver", k)')
    BY <1>2, WithNat DEF IInv, TimerInv, TimerOK
  <2>2. sigq'[k] = "none" /\ Cardinality(With("deliver", k)') = 0
    BY <1>2, <2>1 DEF Exact
  <2> QED
    BY <2>1, <2>2, FS_EmptySet DEF InFlight
<1> QED
  BY <1>1, <1>2

-----------------------------------------------------------------------------
(* What may happen to a timer in a step.                                   *)

Core(k) == <<timr[k].seq, timr[k].qseq, timr[k].valid, timr[k].status, timr[k].interval,
             timr[k].periodic, fired[k]>>

\* What matters stays: a signal is only taken away if it is none that a periodic timer
\* waits for, and an hrtimer of a valid timer does not leave the queue but to expire.
LEMMA Stays ==
  ASSUME NEW k \in Timers, SignalOK(k), AliveOK(k),
         Core(k)' = Core(k),
         InFlight(k)' => InFlight(k),
         Alive(k) /\ timr[k].valid /\ timr[k].interval # 0 => Alive(k)',
         Replacing(k) => Replacing(k)' \/ ~timr[k].valid
  PROVE  SignalOK(k)' /\ AliveOK(k)'
<1>1. /\ timr'[k].seq = timr[k].seq /\ timr'[k].qseq = timr[k].qseq /\ timr'[k].valid = timr[k].valid
      /\ timr'[k].status = timr[k].status /\ timr'[k].interval = timr[k].interval
      /\ fired'[k] = fired[k]
  BY DEF Core
<1>2. SignalOK(k)'
  BY <1>1 DEF SignalOK, Current, Accepts
<1>3. AliveOK(k)'
  BY <1>1 DEF AliveOK
<1> QED
  BY <1>2, <1>3

\* The timer is not valid, and no signal on its way is accepted.
LEMMA IsDead ==
  ASSUME NEW k \in Timers, ~timr'[k].valid, timr'[k].qseq <= timr'[k].seq,
         InFlight(k)' => timr'[k].qseq # timr'[k].seq
  PROVE  SignalOK(k)' /\ AliveOK(k)'
  BY DEF SignalOK, AliveOK, Accepts

\* It has just expired.
LEMMA HasExpired ==
  ASSUME NEW k \in Timers, timr'[k].valid, fired'[k], timr'[k].qseq = timr'[k].seq, timr'[k].seq \in Nat,
         timr'[k].interval # 0 => /\ timr'[k].status = "REQUEUE_PENDING" /\ timr'[k].periodic
                                  /\ sigq'[k] # "none"
  PROVE  SignalOK(k)' /\ AliveOK(k)'
  BY DEF SignalOK, AliveOK, Accepts, Current, Alive, InFlight

\* Signals on their way are stale, and the timer is armed, or about to be.
LEMMA IsArmed ==
  ASSUME NEW k \in Timers, timr'[k].qseq < timr'[k].seq, timr'[k].qseq \in Nat, timr'[k].seq \in Nat,
         k \in SigevNone \/ timr'[k].interval = 0 \/ Replacing(k)'
            \/ (timr'[k].status = "ARMED" /\ hr'[k].queued)
  PROVE  SignalOK(k)' /\ AliveOK(k)'
  BY DEF SignalOK, AliveOK, Accepts, Alive

-----------------------------------------------------------------------------
(* Threads                                                                 *)

\* A step of thread p that has to do with timer k: what it means for the threads that are
\* with another timer, and for those with k.
LEMMA ThreadMoves ==
  ASSUME IInv, RetryOK, NEW p \in Threads, NEW k, NEW x, thread' = [thread EXCEPT ![p] = x],
         thread[p].pc = "user" \/ thread[p].obj = k,
         x.pc = "user" \/ x.obj = k,
         x.op = "retry" => x.pc \in {"found", "wait"}
  PROVE  /\ RetryOK'
         /\ \A j \in Timers \ {k} : With("deliver", j)' = With("deliver", j)
                                    /\ (Replacing(j)' <=> Replacing(j))
         /\ x.pc # "deliver" => With("deliver", k)' \subseteq With("deliver", k)
         /\ thread[p].pc # "deliver" => With("deliver", k) \subseteq With("deliver", k)'
         /\ thread[p].op # "retry" \/ x.op = "retry" => (Replacing(k) => Replacing(k)')
<1>0. /\ thread'[p] = x /\ \A q \in Threads \ {p} : thread'[q] = thread[q]
  BY DEF IInv, TypeOK
<1>1. thread[p].op = "retry" => thread[p].obj = k
  BY DEF RetryOK
<1>2. x.op = "retry" => x.obj = k
  OBVIOUS
<1>3. RetryOK'
  BY <1>0 DEF RetryOK
<1>4. ASSUME NEW j \in Timers \ {k} PROVE With("deliver", j)' = With("deliver", j)
  BY <1>0 DEF With, At
<1>5. ASSUME NEW j \in Timers \ {k} PROVE Replacing(j)' <=> Replacing(j)
  BY <1>0, <1>1, <1>2 DEF Replacing
<1>6. x.pc # "deliver" => With("deliver", k)' \subseteq With("deliver", k)
  BY <1>0 DEF With, At
<1>7. thread[p].pc # "deliver" => With("deliver", k) \subseteq With("deliver", k)'
  BY <1>0 DEF With, At
<1>8. thread[p].op # "retry" \/ x.op = "retry" => (Replacing(k) => Replacing(k)')
  <2> SUFFICES ASSUME thread[p].op # "retry" \/ x.op = "retry", Replacing(k) PROVE Replacing(k)'
    OBVIOUS
  <2>1. PICK q \in Threads : thread[q].op = "retry" /\ thread[q].obj = k
    BY DEF Replacing
  <2>2. thread'[q].op = "retry" /\ thread'[q].obj = k
    BY <1>0, <1>2, <2>1
  <2> QED
    BY <2>2 DEF Replacing
<1> QED
  BY <1>3, <1>4, <1>5, <1>6, <1>7, <1>8

\* A timer that a step has nothing to do with
LEMMA NotConcerned ==
  ASSUME NEW j \in Timers, SignalOK(j), AliveOK(j),
         timr'[j] = timr[j], hr'[j] = hr[j], sigq'[j] = sigq[j], fired'[j] = fired[j],
         With("deliver", j)' = With("deliver", j), Replacing(j)' <=> Replacing(j)
  PROVE  SignalOK(j)' /\ AliveOK(j)'
<1>1. Core(j)' = Core(j)
  BY DEF Core
<1>2. InFlight(j)' <=> InFlight(j)
  BY DEF InFlight
<1>3. Alive(j)' <=> Alive(j)
  BY <1>2 DEF Alive, Accepts
<1> QED
  BY <1>1, <1>2, <1>3, Stays

\* A step of thread p that has to do with timer k, and what becomes of it
LEMMA OneTimer ==
  ASSUME IInv, SInv, NEW p \in Threads, NEW k \in Timers, NEW x, thread' = [thread EXCEPT ![p] = x],
         thread[p].pc = "user" \/ thread[p].obj = k,
         x.pc = "user" \/ x.obj = k,
         x.op = "retry" => x.pc \in {"found", "wait"},
         \A j \in Timers \ {k} : /\ timr'[j] = timr[j] /\ hr'[j] = hr[j]
                                 /\ sigq'[j] = sigq[j] /\ fired'[j] = fired[j],
         SignalOK(k)' /\ AliveOK(k)'
  PROVE  SInv'
<1>1. /\ RetryOK'
      /\ \A j \in Timers \ {k} : With("deliver", j)' = With("deliver", j)
                                 /\ (Replacing(j)' <=> Replacing(j))
  BY ThreadMoves DEF SInv
<1>2. ASSUME NEW j \in Timers \ {k} PROVE SignalOK(j)' /\ AliveOK(j)'
  <2>1. SignalOK(j) /\ AliveOK(j)
    BY DEF SInv
  <2> QED
    BY <1>1, <2>1, NotConcerned
<1> QED
  BY <1>1, <1>2 DEF SInv

\* A step of nobody's, that concerns one timer
LEMMA NoThread ==
  ASSUME IInv, SInv, NEW k \in Timers, thread' = thread,
         \A j \in Timers \ {k} : /\ timr'[j] = timr[j] /\ hr'[j] = hr[j]
                                 /\ sigq'[j] = sigq[j] /\ fired'[j] = fired[j],
         SignalOK(k)' /\ AliveOK(k)'
  PROVE  SInv'
<1>1. \A j \in Timers : With("deliver", j)' = With("deliver", j) /\ (Replacing(j)' <=> Replacing(j))
  BY DEF With, At, Replacing
<1>2. ASSUME NEW j \in Timers \ {k} PROVE SignalOK(j)' /\ AliveOK(j)'
  <2>1. SignalOK(j) /\ AliveOK(j)
    BY DEF SInv
  <2> QED
    BY <1>1, <2>1, NotConcerned
<1>3. RetryOK'
  BY DEF SInv, RetryOK
<1> QED
  BY <1>2, <1>3 DEF SInv

-----------------------------------------------------------------------------
(* Steps that leave the timers alone, or what matters of them              *)

\* The clocks, and a handler for the signals
LEMMA QuietStep ==
  ASSUME IInv, SInv, UNCHANGED vars \/ Tick \/ SetBack \/ Unignore
  PROVE  SInv'
<1>1. timr' = timr /\ hr' = hr /\ thread' = thread /\ fired' = fired
  BY DEF vars, Tick, SetBack, Unignore, clock, external, history
<1>2. \A k \in Timers : sigq[k] # "none" <=> sigq'[k] # "none"
  BY DEF vars, Tick, SetBack, Unignore, IInv, TypeOK
<1>3. ASSUME NEW k \in Timers PROVE SignalOK(k)' /\ AliveOK(k)'
  <2>1. SignalOK(k) /\ AliveOK(k)
    BY DEF SInv
  <2>2. With("deliver", k)' = With("deliver", k) /\ (Replacing(k)' <=> Replacing(k)) /\ Core(k)' = Core(k)
    BY <1>1 DEF With, At, Replacing, Core
  <2>3. InFlight(k)' <=> InFlight(k)
    BY <1>2, <2>2 DEF InFlight
  <2>4. Alive(k)' <=> Alive(k)
    BY <1>1, <2>3 DEF Alive, Accepts
  <2> QED
    BY <2>1, <2>2, <2>3, <2>4, Stays
<1>4. RetryOK'
  BY <1>1 DEF SInv, RetryOK
<1> QED
  BY <1>3, <1>4 DEF SInv

\* The pieces of an action on timer k that keep what matters of it, with no signal that
\* comes or goes
LEMMA KeptTimer ==
  ASSUME NEW k \in Timers, SInv, Core(k)' = Core(k), sigq'[k] = sigq[k],
         With("deliver", k)' = With("deliver", k),
         hr[k].queued \/ hr[k].runs = "fn" => hr'[k].queued \/ hr'[k].runs = "fn",
         Replacing(k) => Replacing(k)' \/ ~timr[k].valid
  PROVE  SignalOK(k)' /\ AliveOK(k)'
<1>1. InFlight(k)' <=> InFlight(k)
  BY DEF InFlight
<1>2. /\ timr'[k].status = timr[k].status /\ timr'[k].seq = timr[k].seq /\ timr'[k].qseq = timr[k].qseq
      /\ timr'[k].periodic = timr[k].periodic
  BY DEF Core
<1>3. Alive(k) => Alive(k)'
  BY <1>1, <1>2 DEF Alive, Accepts
<1>4. SignalOK(k) /\ AliveOK(k)
  BY DEF SInv
<1> QED
  BY <1>1, <1>3, <1>4, Stays

\* A lookup, and the ways of a thread that change no timer
LEMMA WalkKeeps ==
  ASSUME IInv, SInv, NEW p \in Threads, NEW k \in Timers, NEW op \in Ops,
         Lookup(p, k, op) \/ (thread[p].obj = k /\ (CreateFails(p) \/ LookupFails(p) \/ Again(p)))
  PROVE  SInv'
<1>1. timr' = timr /\ hr' = hr /\ sigq' = sigq /\ fired' = fired
  BY DEF Lookup, CreateFails, LookupFails, Again, history
<1>2. Core(k)' = Core(k)
  BY <1>1 DEF Core
<1>3. PICK x : /\ thread' = [thread EXCEPT ![p] = x]
               /\ thread[p].pc = "user" \/ thread[p].obj = k
               /\ x.pc = "user" \/ x.obj = k
               /\ x.op = "retry" => x.pc \in {"found", "wait"}
               /\ x.pc # "deliver" /\ thread[p].pc # "deliver"
               /\ thread[p].op # "retry" \/ x.op = "retry" \/ ~timr[k].valid
  <2>1. CASE Lookup(p, k, op)
    <3> DEFINE x == [User EXCEPT !.pc = "found", !.op = op, !.obj = k]
    <3>1. thread' = [thread EXCEPT ![p] = x] /\ thread[p].pc = "user"
      BY <2>1 DEF Lookup, Calls, At
    <3>2. x.pc = "found" /\ x.obj = k
      BY DEF User
    <3>3. thread[p].op # "retry"
      BY <3>1 DEF SInv, RetryOK
    <3> HIDE DEF x
    <3> QED
      BY <3>1, <3>2, <3>3
  <2>2. CASE CreateFails(p)
    <3> DEFINE x == [thread[p] EXCEPT !.pc = "unhash"]
    <3>1. thread' = [thread EXCEPT ![p] = x] /\ thread[p].pc = "setup"
      BY <2>2 DEF CreateFails, Go, At, IInv, TypeOK
    <3>2. x.pc = "unhash" /\ x.obj = thread[p].obj /\ x.op = thread[p].op
      BY DEF IInv, TypeOK, ThreadState
    <3>3. thread[p].op # "retry"
      BY <3>1 DEF SInv, RetryOK
    <3> HIDE DEF x
    <3> QED
      BY <2>2, <3>1, <3>2, <3>3 DEF CreateFails, Lookup, Calls, At
  <2>3. CASE LookupFails(p) \/ (Again(p) /\ ~timr[k].valid)
    <3>1. thread' = [thread EXCEPT ![p] = User] /\ ~timr[k].valid /\ thread[p].pc \in {"found", "wait"}
          /\ thread[p].obj = k
      BY <2>3 DEF LookupFails, Again, Leave, At, Lookup, Calls
    <3>2. User.pc = "user" /\ User.op = "none"
      BY DEF User
    <3> QED
      BY <3>1, <3>2
  <2>4. CASE Again(p) /\ timr[k].valid
    <3> DEFINE x == [thread[p] EXCEPT !.pc = "found"]
    <3>1. thread' = [thread EXCEPT ![p] = x] /\ thread[p].pc = "wait" /\ thread[p].obj = k
      BY <2>4 DEF Again, Go, At, IInv, TypeOK, Lookup, Calls
    <3>2. x.pc = "found" /\ x.obj = thread[p].obj /\ x.op = thread[p].op
      BY DEF IInv, TypeOK, ThreadState
    <3> HIDE DEF x
    <3> QED
      BY <3>1, <3>2
  <2> QED
    BY <2>1, <2>2, <2>3, <2>4
<1>4. With("deliver", k)' = With("deliver", k) /\ (Replacing(k) => Replacing(k)' \/ ~timr[k].valid)
  <2>1. RetryOK
    BY DEF SInv
  <2>2. /\ With("deliver", k)' \subseteq With("deliver", k) /\ With("deliver", k) \subseteq With("deliver", k)'
        /\ thread[p].op # "retry" \/ x.op = "retry" => (Replacing(k) => Replacing(k)')
    BY <1>3, <2>1, ThreadMoves
  <2> QED
    BY <1>3, <2>2
<1>5. SignalOK(k)' /\ AliveOK(k)'
  BY <1>1, <1>2, <1>4, KeptTimer
<1> QED
  BY <1>1, <1>3, <1>5, OneTimer

\* The hrtimer core starts the callback, and gets back from it.
LEMMA FireKeeps ==
  ASSUME IInv, SInv, NEW k \in Timers, Fire(k) \/ FnDone(k)
  PROVE  SInv'
<1>1. /\ timr' = timr /\ sigq' = sigq /\ fired' = fired /\ thread' = thread
      /\ \A j \in Timers \ {k} : hr'[j] = hr[j]
  BY DEF Fire, FnDone, history, IInv, TypeOK
<1>2. hr[k].queued \/ hr[k].runs = "fn" => hr'[k].queued \/ hr'[k].runs = "fn"
  BY DEF Fire, FnDone, IInv, TypeOK, Hrtimer
<1>3. Core(k)' = Core(k) /\ With("deliver", k)' = With("deliver", k) /\ (Replacing(k)' <=> Replacing(k))
  BY <1>1 DEF Core, With, At, Replacing
<1>4. SignalOK(k)' /\ AliveOK(k)'
  BY <1>1, <1>2, <1>3, KeptTimer
<1> QED
  BY <1>1, <1>4, NoThread

-----------------------------------------------------------------------------
(* Creation                                                                *)

LEMMA CreateKeeps ==
  ASSUME IInv, IInv', SInv, NEW p \in Threads, NEW k \in Timers, Create(p, k)
  PROVE  SInv'
<1>1. /\ timr[k].refs = 0 /\ thread[p].pc = "user" /\ sigq' = sigq /\ fired' = fired
      /\ timr' = [timr EXCEPT ![k] = [Blank EXCEPT !.refs = 1]]
      /\ hr' = [hr EXCEPT ![k] = Inactive]
  BY DEF Create, Calls, At, Free, history
<1>2. PICK x : /\ thread' = [thread EXCEPT ![p] = x] /\ x.pc = "add" /\ x.obj = k /\ x.op # "retry"
  <2>1. ASSUME NEW op \in {"create", "restore"}, NEW id
        PROVE  LET x == [User EXCEPT !.pc = "add", !.op = op, !.obj = k, !.id = id]
               IN  x.pc = "add" /\ x.obj = k /\ x.op # "retry"
    BY DEF User
  <2>2. PICK op \in {"create", "restore"}, id \in Ids :
            thread' = [thread EXCEPT ![p] = [User EXCEPT !.pc = "add", !.op = op, !.obj = k, !.id = id]]
    BY DEF Create, IInv, TypeOK
  <2> QED
    BY <2>1, <2>2
<1>3. ~InFlight(k)
  BY <1>1, GoneIsQuiet
<1>4. With("deliver", k)' \subseteq With("deliver", k)
  BY <1>1, <1>2, ThreadMoves DEF SInv
<1>5. ~InFlight(k)'
  BY <1>1, <1>3, <1>4 DEF InFlight
<1>6. /\ \A j \in Timers \ {k} : timr'[j] = timr[j] /\ hr'[j] = hr[j]
      /\ ~timr'[k].valid /\ timr'[k].qseq <= timr'[k].seq
  BY <1>1 DEF IInv, TypeOK, Blank
<1>7. SignalOK(k)' /\ AliveOK(k)'
  BY <1>5, <1>6, IsDead
<1> QED
  BY <1>1, <1>2, <1>6, <1>7, OneTimer

\* Into the hash with the timer, or on with the next ID
LEMMA AddKeeps ==
  ASSUME IInv, IInv', SInv, NEW p \in Threads, AddAt(p) \/ AddFails(p) \/ Publish(p) \/ UnhashAndFree(p)
                                            \/ DeleteAgain(p)
  PROVE  SInv'
<1>1. PICK k \in Timers : /\ k = thread[p].obj /\ thread[p].pc \in {"add", "setup", "unhash", "del_wait"}
                          /\ ~timr[k].valid
  BY DEF AddAt, AddFails, Publish, UnhashAndFree, DeleteAgain, At, IInv, ThreadInv, ThreadOK, Owns
<1>2. /\ sigq' = sigq /\ fired' = fired
      /\ \A j \in Timers \ {k} : timr'[j] = timr[j] /\ hr'[j] = hr[j]
  BY <1>1 DEF AddAt, AddFails, Publish, UnhashAndFree, DeleteAgain, history, IInv, TypeOK
<1>3. thread[p].op # "retry"
  BY <1>1 DEF SInv, RetryOK
<1>4. PICK x : /\ thread' = [thread EXCEPT ![p] = x]
               /\ x.pc = "user" \/ x.obj = k
               /\ x.pc # "deliver" /\ x.op # "retry"
  <2>1. User.pc = "user" /\ User.op = "none" /\ thread[p] \in ThreadState /\ thread \in [Threads -> ThreadState]
    BY DEF User, IInv, TypeOK
  <2>2. CASE AddAt(p)
    <3> DEFINE x == [User EXCEPT !.pc = "setup", !.obj = k]
    <3>1. thread' = [thread EXCEPT ![p] = x]
      BY <1>1, <2>2 DEF AddAt
    <3>2. x.pc = "setup" /\ x.obj = k /\ x.op = "none"
      BY DEF User
    <3> HIDE DEF x
    <3> QED
      BY <3>1, <3>2
  <2>3. CASE AddFails(p) /\ ~Leave(p)
    <3> DEFINE x == [thread[p] EXCEPT !.id = next_id, !.cnt = @ + 1]
    <3>1. thread' = [thread EXCEPT ![p] = x] /\ thread[p].pc = "add"
      BY <2>1, <2>3 DEF AddFails, At
    <3>2. x.pc = thread[p].pc /\ x.obj = thread[p].obj /\ x.op = thread[p].op
      BY <2>1 DEF ThreadState
    <3> HIDE DEF x
    <3> QED
      BY <1>1, <1>3, <3>1, <3>2
  <2>4. CASE Leave(p)
    BY <2>1, <2>4 DEF Leave
  <2>5. CASE DeleteAgain(p)
    <3> DEFINE x == [thread[p] EXCEPT !.pc = "unhash"]
    <3>1. thread' = [thread EXCEPT ![p] = x]
      BY <2>1, <2>5 DEF DeleteAgain, Go
    <3>2. x.pc = "unhash" /\ x.obj = thread[p].obj /\ x.op = thread[p].op
      BY <2>1 DEF ThreadState
    <3> HIDE DEF x
    <3> QED
      BY <1>1, <1>3, <3>1, <3>2
  <2> QED
    BY <2>2, <2>3, <2>4, <2>5 DEF Publish, UnhashAndFree
<1>a. /\ thread' = [thread EXCEPT ![p] = x] /\ x.pc # "deliver"
      /\ thread[p].pc = "user" \/ thread[p].obj = k
      /\ x.pc = "user" \/ x.obj = k
      /\ x.op = "retry" => x.pc \in {"found", "wait"}
      /\ thread[p].pc # "deliver"
  BY <1>1, <1>4
<1>5. With("deliver", k)' = With("deliver", k)
  <2>1. RetryOK
    BY DEF SInv
  <2>2. With("deliver", k)' \subseteq With("deliver", k) /\ With("deliver", k) \subseteq With("deliver", k)'
    BY <1>a, <2>1, ThreadMoves
  <2> QED
    BY <2>2
<1>6. InFlight(k)' <=> InFlight(k)
  BY <1>2, <1>5 DEF InFlight
<1>7. timr[k].qseq <= timr[k].seq /\ (InFlight(k) => timr[k].qseq # timr[k].seq)
  BY <1>1 DEF SInv, SignalOK, Accepts, Current
<1>8. SignalOK(k)' /\ AliveOK(k)'
  <2>1. CASE AddFails(p) \/ UnhashAndFree(p)
    <3>1. PICK r \in KItimer : /\ timr'[k] = Put(r) \/ timr'[k] = r
                               /\ r.seq = timr[k].seq /\ r.qseq = timr[k].qseq /\ ~r.valid
      <4>1. timr[k] \in KItimer /\ timr \in [Timers -> KItimer]
        BY DEF IInv, TypeOK
      <4>2. CASE AddFails(p)
        <5>1. timr'[k] = Put(timr[k]) \/ timr'[k] = timr[k]
          BY <1>1, <4>1, <4>2 DEF AddFails
        <5> QED
          BY <1>1, <4>1, <5>1
      <4>3. CASE UnhashAndFree(p)
        <5> DEFINE r == [timr[k] EXCEPT !.hashed = FALSE]
        <5>1. timr'[k] = Put(r)
          BY <1>1, <4>1, <4>3 DEF UnhashAndFree
        <5>2. r \in KItimer /\ r.seq = timr[k].seq /\ r.qseq = timr[k].qseq /\ r.valid = timr[k].valid
          BY <4>1 DEF KItimer
        <5> HIDE DEF r
        <5> QED
          BY <1>1, <5>1, <5>2
      <4> QED
        BY <2>1, <4>2, <4>3
    <3>2. \/ timr'[k].refs = 0 /\ ~timr'[k].valid /\ timr'[k].seq = 0 /\ timr'[k].qseq = 0
          \/ ~timr'[k].valid /\ timr'[k].seq = timr[k].seq /\ timr'[k].qseq = timr[k].qseq
      <4>1. CASE timr'[k] = r
        BY <3>1, <4>1
      <4>2. CASE timr'[k] = Put(r)
        BY <3>1, <4>2, PutSeq
      <4> QED
        BY <3>1, <4>1, <4>2
    <3>3. timr'[k].refs = 0 => ~InFlight(k)'
      BY GoneIsQuiet
    <3> QED
      BY <1>6, <1>7, <3>2, <3>3, IsDead
  <2>2. CASE DeleteAgain(p)
    <3>1. /\ timr'[k].seq = timr[k].seq /\ timr'[k].qseq = timr[k].qseq /\ timr'[k].valid = timr[k].valid
      BY <1>1, <2>2 DEF DeleteAgain, IInv, TypeOK, KItimer
    <3> QED
      BY <1>1, <1>6, <1>7, <3>1, IsDead
  <2>3. CASE AddAt(p)
    <3>1. /\ timr'[k].seq = timr[k].seq /\ timr'[k].qseq = timr[k].qseq /\ timr'[k].valid = timr[k].valid
      BY <1>1, <2>3 DEF AddAt, IInv, TypeOK, KItimer
    <3> QED
      BY <1>1, <1>6, <1>7, <3>1, IsDead
  <2>4. CASE Publish(p)
    <3>1. /\ timr'[k].seq = timr[k].seq /\ timr'[k].qseq = timr[k].qseq
          /\ timr'[k].interval = timr[k].interval
      BY <1>1, <2>4 DEF Publish, IInv, TypeOK, KItimer
    <3>2. timr[k].interval = 0
      BY <1>1, <2>4 DEF Publish, IInv, ThreadInv, ThreadOK
    <3> QED
      BY <1>6, <1>7, <3>1, <3>2 DEF SignalOK, AliveOK, Accepts
  <2> QED
    BY <2>1, <2>2, <2>3, <2>4
<1> QED
  BY <1>2, <1>8, <1>a, OneTimer

-----------------------------------------------------------------------------
(* System calls on a timer                                                 *)

LEMMA Sequences ==
  ASSUME IInv, SInv, NEW k \in Timers
  PROVE  /\ timr[k].seq \in Nat /\ timr[k].qseq \in Nat /\ timr[k].qseq <= timr[k].seq
         /\ SignalOK(k) /\ AliveOK(k) /\ timr[k] \in KItimer /\ sigq[k] \in Sigqs
         /\ RetryOK
<1>1. SignalOK(k) /\ AliveOK(k) /\ RetryOK
  BY DEF SInv
<1>2. timr[k] \in KItimer /\ sigq[k] \in Sigqs
  BY DEF IInv, TypeOK, Sigqs
<1>3. timr[k].seq \in 0 .. MaxSeq /\ timr[k].qseq \in 0 .. MaxSeq
  BY <1>2 DEF KItimer
<1> QED
  BY <1>1, <1>2, <1>3 DEF SignalOK

\* timer_gettime()
LEMMA GetTimeKeeps ==
  ASSUME IInv, SInv, NEW p \in Threads, GetTime(p)
  PROVE  SInv'
<1>1. PICK k \in Timers : k = thread[p].obj /\ thread[p].pc = "found"
  BY LockedFacts DEF GetTime
<1> DEFINE o == timr[k].overrun + Overruns(k)
           e == hr[k].expires + Overruns(k) * timr[k].interval
<1>2. /\ timr' = [timr EXCEPT ![k].overrun = o] /\ hr' = [hr EXCEPT ![k].expires = e]
      /\ thread' = [thread EXCEPT ![p] = User] /\ thread[p].op = "get"
      /\ sigq' = sigq /\ fired' = fired
  BY <1>1 DEF GetTime, Locked, Leave, history, IInv, TypeOK
<1> HIDE DEF o, e
<1>3. /\ Core(k)' = Core(k) /\ hr'[k].queued = hr[k].queued /\ hr'[k].runs = hr[k].runs
      /\ \A j \in Timers \ {k} : timr'[j] = timr[j] /\ hr'[j] = hr[j]
  BY <1>2 DEF Core, IInv, TypeOK, KItimer, Hrtimer
<1>4. User.pc = "user" /\ User.op = "none" /\ RetryOK
  BY DEF User, SInv
<1>5. /\ With("deliver", k)' \subseteq With("deliver", k) /\ With("deliver", k) \subseteq With("deliver", k)'
      /\ (Replacing(k) => Replacing(k)')
  BY <1>1, <1>2, <1>4, ThreadMoves
<1>6. SignalOK(k)' /\ AliveOK(k)'
  <2>1. With("deliver", k)' = With("deliver", k) /\ sigq'[k] = sigq[k]
    BY <1>2, <1>5
  <2> QED
    BY <1>3, <1>5, <2>1, KeptTimer
<1> QED
  BY <1>1, <1>2, <1>3, <1>4, <1>6, OneTimer

\* timer_settime() finds the callback running
LEMMA SetRetryKeeps ==
  ASSUME IInv, SInv, NEW p \in Threads, NEW old \in BOOLEAN, SetRetry(p, old)
  PROVE  SInv'
<1>1. PICK k \in Timers : k = thread[p].obj /\ thread[p].pc = "found"
  BY LockedFacts DEF SetRetry
<1> DEFINE n == IF old THEN Overruns(k) ELSE 0
           o == timr[k].overrun + n
           q == timr[k].seq + 1
           e == hr[k].expires + n * timr[k].interval
           x == [thread[p] EXCEPT !.pc = "wait", !.op = "retry"]
<1>2. /\ timr' = [timr EXCEPT ![k].seq = q, ![k].overrun = o]
      /\ hr' = [hr EXCEPT ![k].expires = e]
      /\ thread' = [thread EXCEPT ![p] = x]
      /\ sigq' = sigq /\ fired' = fired
  <2>1. /\ timr' = [timr EXCEPT ![k].seq = @ + 1, ![k].overrun = @ + n]
        /\ hr' = [hr EXCEPT ![k].expires = @ + n * timr[k].interval]
        /\ thread' = [thread EXCEPT ![p].pc = "wait", ![p].op = "retry"]
        /\ sigq' = sigq /\ fired' = fired
    BY <1>1 DEF SetRetry, history
  <2> HIDE DEF n
  <2> QED
    BY <2>1 DEF IInv, TypeOK, KItimer
<1>3. x.pc = "wait" /\ x.op = "retry" /\ x.obj = k
  BY <1>1 DEF IInv, TypeOK, ThreadState
<1> HIDE DEF n, o, e, x
<1>4. /\ timr'[k].seq = timr[k].seq + 1 /\ timr'[k].qseq = timr[k].qseq
      /\ \A j \in Timers \ {k} : timr'[j] = timr[j] /\ hr'[j] = hr[j]
  BY <1>2 DEF IInv, TypeOK, KItimer
<1>5. Replacing(k)'
  <2>1. thread'[p] = x
    BY <1>2 DEF IInv, TypeOK
  <2> QED
    BY <1>3, <2>1 DEF Replacing
<1>6. SignalOK(k)' /\ AliveOK(k)'
  <2>1. timr'[k].qseq < timr'[k].seq /\ timr'[k].qseq \in Nat /\ timr'[k].seq \in Nat
    BY <1>4, Sequences
  <2> QED
    BY <1>5, <2>1, IsArmed
<1> QED
  BY <1>1, <1>2, <1>3, <1>4, <1>6, OneTimer

\* timer_settime()
LEMMA SetKeeps ==
  ASSUME IInv, SInv, NEW p \in Threads, NEW s \in Settings, NEW expired \in BOOLEAN, Set(p, s, expired)
  PROVE  SInv'
<1>1. PICK k \in Timers : k = thread[p].obj /\ thread[p].pc = "found" /\ timr[k].valid /\ timr[k].refs >= 1
  BY LockedFacts DEF Set
<1> DEFINE r == NewSetting(k, s)
           g == QueueSignal(r, sigq[k])
           armed == s.value # 0 /\ k \notin SigevNone
           a == [r EXCEPT !.status = IF armed THEN "ARMED" ELSE @]
<1>2. /\ thread' = [thread EXCEPT ![p] = User] /\ timr[k].seq < MaxSeq
      /\ fired' = [fired EXCEPT ![k] = expired]
      /\ hr' = [hr EXCEPT ![k].queued = armed /\ ~expired,
                          ![k].expires = IF s.value = 0 THEN @
                                         ELSE IF s.kclock = "real" THEN s.value ELSE now + s.value]
      /\ IF expired THEN timr' = [timr EXCEPT ![k] = g.timr] /\ sigq' = [sigq EXCEPT ![k] = g.sigq]
                    ELSE timr' = [timr EXCEPT ![k] = a] /\ sigq' = sigq
  BY <1>1 DEF Set, Leave
<1>3. /\ \A j \in Timers \ {k} : /\ timr'[j] = timr[j] /\ hr'[j] = hr[j]
                                 /\ sigq'[j] = sigq[j] /\ fired'[j] = fired[j]
      /\ fired'[k] = expired /\ hr'[k].queued = (armed /\ ~expired)
      /\ expired => timr'[k] = g.timr /\ sigq'[k] = g.sigq
      /\ ~expired => timr'[k] = a
  <2>0. timr \in [Timers -> KItimer] /\ hr \in [Timers -> Hrtimer] /\ fired \in [Timers -> BOOLEAN]
        /\ sigq \in [Timers -> {"none", "pending", "ignored"}]
    BY DEF IInv, TypeOK
  <2> HIDE DEF g, a, armed
  <2>1. \A j \in Timers \ {k} : /\ timr'[j] = timr[j] /\ hr'[j] = hr[j]
                                /\ sigq'[j] = sigq[j] /\ fired'[j] = fired[j]
    BY <1>2, <2>0
  <2>2. fired'[k] = expired /\ hr'[k].queued = (armed /\ ~expired)
    BY <1>2, <2>0 DEF Hrtimer
  <2>3. /\ expired => timr'[k] = g.timr /\ sigq'[k] = g.sigq
        /\ ~expired => timr'[k] = a
    BY <1>2, <2>0
  <2> QED
    BY <2>1, <2>2, <2>3
<1>4. /\ r \in KItimer /\ r.valid /\ r.interval = s.interval /\ r.refs = timr[k].refs
      /\ r.seq = timr[k].seq + 1 /\ r.qseq = timr[k].qseq
  <2>1. r \in KItimer /\ r.valid /\ r.interval = s.interval /\ r.refs = timr[k].refs
    BY <1>1, <1>2, SettingFacts DEF IInv
  <2>2. r.seq = timr[k].seq + 1 /\ r.qseq = timr[k].qseq
    BY DEF NewSetting, IInv, TypeOK, KItimer
  <2> QED
    BY <2>1, <2>2
<1>5. SignalOK(k)' /\ AliveOK(k)'
  <2>1. CASE expired
    <3>1. r.refs >= (IF sigq[k] # "none" THEN 2 ELSE 1)
      BY <1>1, <1>4, ValidRefs DEF Held
    <3>2. /\ g.timr.valid /\ g.timr.seq = r.seq /\ g.timr.qseq = r.seq /\ g.timr.interval = r.interval
          /\ r.interval # 0 => /\ g.timr.status = "REQUEUE_PENDING" /\ g.timr.periodic
                               /\ g.sigq # "none"
      <4> HIDE DEF r
      <4> QED
        BY <1>4, <3>1, Sequences, QueueSeq
    <3>3. r.seq \in Nat
      BY <1>4, Sequences
    <3> HIDE DEF r, g
    <3> QED
      BY <1>3, <2>1, <3>2, <3>3, HasExpired
  <2>2. CASE ~expired
    <3>1. /\ a.seq = r.seq /\ a.qseq = r.qseq /\ a.interval = r.interval
          /\ armed => a.status = "ARMED"
      <4> HIDE DEF r, armed
      <4> QED
        BY <1>4 DEF KItimer
    <3>2. s.value = 0 => s.interval = 0
      BY DEF Settings
    <3> HIDE DEF r, a
    <3>3. timr'[k].qseq < timr'[k].seq /\ timr'[k].qseq \in Nat /\ timr'[k].seq \in Nat
      BY <1>3, <1>4, <2>2, <3>1, Sequences
    <3>4. k \in SigevNone \/ timr'[k].interval = 0 \/ (timr'[k].status = "ARMED" /\ hr'[k].queued)
      BY <1>3, <1>4, <2>2, <3>1, <3>2
    <3> QED
      BY <3>3, <3>4, IsArmed
  <2> QED
    BY <2>1, <2>2
<1>6. User.pc = "user" /\ User.op = "none"
  BY DEF User
<1> QED
  BY <1>1, <1>2, <1>3, <1>5, <1>6, OneTimer

\* timer_delete(), and exit_itimers()
LEMMA InvalidateKeeps ==
  ASSUME IInv, IInv', SInv, NEW p \in Threads, NEW k \in Timers, Invalidate(p, k),
         thread[p].pc = "user" \/ thread[p].obj = k, thread[p].op # "retry",
         thread[p].pc \in {"user", "found"}, timr[k].valid
  PROVE  SInv'
<1> DEFINE n == timr[k].seq + 1
           t == [timr[k] EXCEPT !.seq = n, !.valid = FALSE]
           x == [thread[p] EXCEPT !.pc = IF Cancelled(k) THEN "unhash" ELSE "del_wait", !.obj = k]
<1>1. /\ timr[k].seq < MaxSeq /\ thread' = [thread EXCEPT ![p] = x]
      /\ \A j \in Timers \ {k} : /\ timr'[j] = timr[j] /\ hr'[j] = hr[j]
                                 /\ sigq'[j] = sigq[j] /\ fired'[j] = fired[j]
      /\ timr'[k] = IF Cancelled(k) THEN [Invalidated(k) EXCEPT !.status = "DISARMED"] ELSE Invalidated(k)
  BY DEF Invalidate, history, IInv, TypeOK
<1>2. t \in KItimer /\ ~t.valid /\ t.seq = n /\ t.qseq = timr[k].qseq /\ n \in Nat
  <2>1. timr[k] \in KItimer /\ timr[k].seq \in 0 .. MaxSeq
    BY DEF IInv, TypeOK, KItimer
  <2>2. n \in 0 .. MaxSeq /\ n \in Nat
    BY <1>1, <2>1, ConstAssumption
  <2> HIDE DEF n
  <2>3. t \in KItimer
    BY <2>1, <2>2 DEF KItimer
  <2>4. ~t.valid /\ t.seq = n /\ t.qseq = timr[k].qseq
    BY <2>1 DEF KItimer
  <2> QED
    BY <2>2, <2>3, <2>4
<1>3. PICK r : r = Invalidated(k) /\ (r = t \/ r = Put(t))
  BY DEF Invalidated
<1> HIDE DEF t
<1>4. \/ ~r.valid /\ r.seq = 0 /\ r.qseq = 0 /\ r.refs = 0
      \/ ~r.valid /\ r.seq = n /\ r.qseq = timr[k].qseq
  BY <1>2, <1>3, PutSeq
<1>5. \/ ~timr'[k].valid /\ timr'[k].seq = 0 /\ timr'[k].qseq = 0 /\ timr'[k].refs = 0
      \/ ~timr'[k].valid /\ timr'[k].seq = n /\ timr'[k].qseq = timr[k].qseq
  <2>1. r \in KItimer
    BY <1>1, <1>3, InvalidatedFacts
  <2>2. CASE Cancelled(k)
    <3>1. timr'[k] = [r EXCEPT !.status = "DISARMED"]
      BY <1>1, <1>3, <2>2
    <3> QED
      BY <1>4, <2>1, <3>1 DEF KItimer
  <2>3. CASE ~Cancelled(k)
    BY <1>1, <1>3, <1>4, <2>3
  <2> QED
    BY <2>2, <2>3
<1>6. SignalOK(k)' /\ AliveOK(k)'
  <2>1. timr'[k].refs = 0 => ~InFlight(k)'
    BY GoneIsQuiet
  <2>2. timr[k].qseq <= timr[k].seq /\ timr[k].qseq \in Nat /\ timr[k].seq \in Nat
    BY Sequences
  <2> QED
    BY <1>5, <2>1, <2>2, IsDead
<1>7. x.pc # "user" /\ x.obj = k /\ x.op # "retry"
  BY DEF IInv, TypeOK, ThreadState
<1> HIDE DEF x
<1> QED
  BY <1>1, <1>6, <1>7, OneTimer

LEMMA DeleteKeeps ==
  ASSUME IInv, IInv', SInv, NEW p \in Threads, NEW k \in Timers,
         Exit(p, k) \/ (Delete(p) /\ thread[p].obj = k)
  PROVE  SInv'
<1>1. CASE Exit(p, k)
  <2>1. thread[p].pc = "user" /\ Invalidate(p, k) /\ timr[k].valid /\ thread[p].op # "retry"
    BY <1>1 DEF Exit, At, SInv, RetryOK
  <2> QED
    BY <2>1, InvalidateKeeps
<1>2. CASE Delete(p) /\ thread[p].obj = k
  <2>1. thread[p].pc = "found" /\ Invalidate(p, k) /\ timr[k].valid /\ thread[p].op = "delete"
    BY <1>2 DEF Delete, Locked, At
  <2> QED
    BY <1>2, <2>1, InvalidateKeeps
<1> QED
  BY <1>1, <1>2

-----------------------------------------------------------------------------
(* The signal                                                              *)

\* A reference is put, with a signal that no periodic timer waits for.
LEMMA PutKeeps ==
  ASSUME IInv, IInv', SInv, NEW k \in Timers, timr'[k] = Put(timr[k]),
         hr'[k] = hr[k], fired'[k] = fired[k],
         With("deliver", k) # {} \/ sigq[k] # "none",
         InFlight(k)' => InFlight(k), Replacing(k) => Replacing(k)',
         timr[k].valid => timr[k].interval = 0 \/ ~Accepts(k) \/ ~timr[k].periodic
  PROVE  SignalOK(k)' /\ AliveOK(k)'
<1>1. CASE timr[k].valid
  <2>1. timr'[k] = [timr[k] EXCEPT !.refs = @ - 1]
    BY <1>1, PutStep, ValidRefs
  <2>2. timr[k] \in KItimer /\ SignalOK(k) /\ AliveOK(k)
    BY Sequences
  <2>3. Core(k)' = Core(k)
    BY <2>1, <2>2 DEF Core, KItimer
  <2>4. timr'[k].status = timr[k].status
    BY <2>3 DEF Core
  <2>5. Alive(k) /\ timr[k].valid /\ timr[k].interval # 0 => Alive(k)'
    BY <1>1, <2>4 DEF Alive
  <2> QED
    BY <2>2, <2>3, <2>5, Stays
<1>2. CASE ~timr[k].valid
  <2>1. /\ timr[k].qseq <= timr[k].seq
        /\ InFlight(k) => timr[k].qseq # timr[k].seq
    BY <1>2, Sequences DEF SignalOK, Accepts, Current
  <2>2. \/ timr'[k].refs = 0 /\ ~timr'[k].valid /\ timr'[k].seq = 0 /\ timr'[k].qseq = 0
        \/ ~timr'[k].valid /\ timr'[k].seq = timr[k].seq /\ timr'[k].qseq = timr[k].qseq
    BY <1>2, Sequences, PutSeq
  <2>3. timr'[k].refs = 0 => ~InFlight(k)'
    BY GoneIsQuiet
  <2> QED
    BY <2>1, <2>2, <2>3, IsDead
<1> QED
  BY <1>1, <1>2

\* posix_timer_fn()
LEMMA PosixTimerFnKeeps ==
  ASSUME IInv, SInv, NEW k \in Timers, PosixTimerFn(k)
  PROVE  SInv'
<1> DEFINE s == QueueSignal(timr[k], sigq[k])
<1>1. /\ thread' = thread
      /\ \A j \in Timers \ {k} : /\ timr'[j] = timr[j] /\ hr'[j] = hr[j]
                                 /\ sigq'[j] = sigq[j] /\ fired'[j] = fired[j]
      /\ timr'[k] = s.timr /\ sigq'[k] = s.sigq /\ fired'[k]
  <2>1. /\ timr' = [timr EXCEPT ![k] = s.timr] /\ sigq' = [sigq EXCEPT ![k] = s.sigq]
        /\ hr' = [hr EXCEPT ![k].runs = "end"] /\ fired' = [fired EXCEPT ![k] = TRUE]
        /\ thread' = thread
    BY DEF PosixTimerFn
  <2> HIDE DEF s
  <2> QED
    BY <2>1 DEF IInv, TypeOK
<1>2. SignalOK(k)' /\ AliveOK(k)'
  <2>1. CASE timr[k].valid
    <3>1. timr[k].refs >= (IF sigq[k] # "none" THEN 2 ELSE 1)
      BY <2>1, ValidRefs DEF Held
    <3>2. /\ s.timr.valid /\ s.timr.seq = timr[k].seq /\ s.timr.qseq = timr[k].seq
          /\ timr[k].interval = s.timr.interval
          /\ timr[k].interval # 0 => /\ s.timr.status = "REQUEUE_PENDING" /\ s.timr.periodic
                                     /\ s.sigq # "none"
      BY <2>1, <3>1, Sequences, QueueSeq
    <3> HIDE DEF s
    <3> QED
      BY <1>1, <3>2, Sequences, HasExpired
  <2>2. CASE ~timr[k].valid
    <3>1. s.timr = timr[k] /\ s.sigq = sigq[k]
      BY <2>2 DEF QueueSignal
    <3>2. timr'[k] = timr[k] /\ (InFlight(k)' <=> InFlight(k))
      BY <1>1, <3>1 DEF InFlight, With, At
    <3>3. /\ timr[k].qseq <= timr[k].seq
          /\ InFlight(k) => timr[k].qseq # timr[k].seq
      BY <2>2, Sequences DEF SignalOK, Accepts, Current
    <3> QED
      BY <2>2, <3>2, <3>3, IsDead
  <2> QED
    BY <2>1, <2>2
<1> QED
  BY <1>1, <1>2, NoThread

\* The signal goes from the queue to the thread that delivers it.
LEMMA DequeueKeeps ==
  ASSUME IInv, SInv, NEW p \in Threads, NEW k \in Timers, Dequeue(p, k)
  PROVE  SInv'
<1> DEFINE x == [User EXCEPT !.pc = "deliver", !.obj = k]
<1>1. /\ thread' = [thread EXCEPT ![p] = x] /\ thread[p].pc = "user" /\ sigq[k] = "pending"
      /\ timr' = timr /\ hr' = hr /\ fired' = fired
      /\ \A j \in Timers \ {k} : sigq'[j] = sigq[j]
  BY DEF Dequeue, At, history, IInv, TypeOK
<1>2. x.pc = "deliver" /\ x.obj = k /\ x.op = "none"
  BY DEF User
<1> HIDE DEF x
<1>3. thread[p].op # "retry" /\ RetryOK
  BY <1>1 DEF SInv, RetryOK
<1>4. InFlight(k) /\ InFlight(k)'
  <2>1. thread'[p] = x
    BY <1>1 DEF IInv, TypeOK
  <2> QED
    BY <1>1, <1>2, <2>1 DEF InFlight, With, At
<1>5. Replacing(k) => Replacing(k)'
  BY <1>1, <1>2, <1>3, ThreadMoves
<1>6. SignalOK(k)' /\ AliveOK(k)'
  <2>1. Core(k)' = Core(k)
    BY <1>1 DEF Core
  <2>2. Alive(k) => Alive(k)'
    BY <1>1, <1>4 DEF Alive, Accepts
  <2> QED
    BY <1>4, <1>5, <2>1, <2>2, Sequences, Stays
<1> QED
  BY <1>1, <1>2, <1>6, OneTimer

\* A signal that is stale, or of a one-shot timer
LEMMA DeliverKeeps ==
  ASSUME IInv, IInv', SInv, NEW p \in Threads, DeliverStale(p) \/ DeliverOneShot(p)
  PROVE  SInv'
<1>1. PICK k \in Timers : k = thread[p].obj /\ thread[p].pc = "deliver" /\ p \in With("deliver", k)
  BY DEF DeliverStale, DeliverOneShot, At, IInv, ThreadInv, ThreadOK, With
<1>2. /\ thread' = [thread EXCEPT ![p] = User] /\ timr' = [timr EXCEPT ![k] = Put(timr[k])]
      /\ hr' = hr /\ sigq' = sigq /\ fired' = fired
      /\ ~(Accepts(k) /\ timr[k].valid) \/ ~Rearms(k)
  BY <1>1 DEF DeliverStale, DeliverOneShot, Leave, history
<1>3. User.pc = "user" /\ User.op = "none"
  BY DEF User
<1>4. thread[p].op # "retry" /\ RetryOK
  BY <1>1 DEF SInv, RetryOK
<1>5. With("deliver", k)' \subseteq With("deliver", k) /\ (Replacing(k) => Replacing(k)')
  BY <1>1, <1>2, <1>3, <1>4, ThreadMoves
<1>6. InFlight(k) /\ (InFlight(k)' => InFlight(k))
  BY <1>1, <1>2, <1>5 DEF InFlight
<1>7. timr[k].valid => timr[k].interval = 0 \/ ~Accepts(k)
  <2>1. Accepts(k) => Current(k)
    BY <1>6, Sequences DEF SignalOK
  <2> QED
    BY <1>2, <2>1 DEF Current, Rearms
<1>8. timr'[k] = Put(timr[k]) /\ \A j \in Timers \ {k} : timr'[j] = timr[j]
  BY <1>2 DEF IInv, TypeOK
<1>9. SignalOK(k)' /\ AliveOK(k)'
  BY <1>1, <1>2, <1>5, <1>6, <1>7, <1>8, PutKeeps
<1> QED
  BY <1>1, <1>2, <1>3, <1>8, <1>9, OneTimer

\* The bookkeeping of a delivery that rearms the timer, before the reference is put: it has
\* expired again, or signals that are still on their way are stale.
LEMMA RearmSeq ==
  ASSUME IInv, SInv, NEW k \in Timers, With("deliver", k) # {}, timr[k].valid, timr[k].seq < MaxSeq,
         NEW expired, NEW after, after = Rearmed(AfterRearm(timr[k]), sigq[k], expired)
  PROVE  /\ after.timr \in KItimer
         /\ after.timr.seq = timr[k].seq + 1
         /\ after.timr.interval = timr[k].interval
         /\ expired => /\ after.timr.qseq = after.timr.seq
                       /\ timr[k].interval # 0 => /\ after.timr.status = "REQUEUE_PENDING"
                                                  /\ after.timr.periodic /\ after.sigq # "none"
         /\ ~expired => after.timr.qseq = timr[k].qseq /\ after.timr.status = "ARMED"
<1> DEFINE n == timr[k].seq + 1
           m == -1
           a == [timr[k] EXCEPT !.overrun = m, !.seq = n]
           b == [a EXCEPT !.status = "ARMED"]
           s == QueueSignal(a, sigq[k])
<1>1. timr[k] \in KItimer /\ sigq[k] \in Sigqs
  BY Sequences
<1>2. n \in 0 .. MaxSeq /\ m \in Int
  <2>1. timr[k].seq \in 0 .. MaxSeq
    BY <1>1 DEF KItimer
  <2> QED
    BY <2>1, ConstAssumption
<1>3. AfterRearm(timr[k]) = a
  BY DEF AfterRearm
<1> HIDE DEF n, m
<1>4. /\ a \in KItimer /\ a.refs = timr[k].refs /\ a.valid = timr[k].valid /\ a.seq = n
      /\ a.qseq = timr[k].qseq /\ a.interval = timr[k].interval
  BY <1>1, <1>2 DEF KItimer
<1> HIDE DEF a
<1>5. b \in KItimer /\ b.seq = n /\ b.qseq = timr[k].qseq /\ b.interval = timr[k].interval
      /\ b.status = "ARMED"
  BY <1>4 DEF KItimer
<1>6. CASE expired
  <2>1. after = s
    BY <1>3, <1>6 DEF Rearmed
  <2>2. a.refs >= (IF sigq[k] # "none" THEN 2 ELSE 1) /\ ignoring \in BOOLEAN
    BY <1>4, ValidRefs DEF Held, IInv, TypeOK
  <2>3. s.timr \in KItimer
    BY <1>1, <1>4, <2>2, QueueFacts
  <2>4. /\ s.timr.valid /\ s.timr.seq = a.seq /\ s.timr.qseq = a.seq /\ s.timr.interval = a.interval
        /\ a.interval # 0 => /\ s.timr.status = "REQUEUE_PENDING" /\ s.timr.periodic
                             /\ s.sigq # "none"
    BY <1>1, <1>4, <2>2, QueueSeq
  <2> HIDE DEF s
  <2> QED
    BY <1>4, <1>6, <2>1, <2>3, <2>4 DEF n
<1>7. CASE ~expired
  <2>1. after.timr = b
    BY <1>3, <1>7 DEF Rearmed
  <2> HIDE DEF b
  <2> QED
    BY <1>5, <1>7, <2>1 DEF n
<1> QED
  BY <1>6, <1>7

\* The timer is armed again, or has expired already.
LEMMA DeliverIntervalKeeps ==
  ASSUME IInv, SInv, NEW p \in Threads, NEW expired \in BOOLEAN, DeliverInterval(p, expired)
  PROVE  SInv'
<1>1. PICK k \in Timers : k = thread[p].obj /\ thread[p].pc = "deliver" /\ p \in With("deliver", k)
  BY DEF DeliverInterval, At, IInv, ThreadInv, ThreadOK, With
<1> DEFINE after == Rearmed(AfterRearm(timr[k]), sigq[k], expired)
<1>2. /\ thread' = [thread EXCEPT ![p] = User] /\ fired' = fired
      /\ timr' = [timr EXCEPT ![k] = Put(after.timr)] /\ sigq' = [sigq EXCEPT ![k] = after.sigq]
      /\ \E e : hr' = [hr EXCEPT ![k].expires = e, ![k].queued = ~expired]
      /\ Accepts(k) /\ timr[k].valid /\ timr[k].seq < MaxSeq
  BY <1>1 DEF DeliverInterval, Leave
<1>3. /\ after.timr \in KItimer
      /\ after.timr.seq = timr[k].seq + 1
      /\ after.timr.interval = timr[k].interval
      /\ expired => /\ after.timr.qseq = after.timr.seq
                    /\ timr[k].interval # 0 => /\ after.timr.status = "REQUEUE_PENDING"
                                               /\ after.timr.periodic /\ after.sigq # "none"
      /\ ~expired => after.timr.qseq = timr[k].qseq /\ after.timr.status = "ARMED"
  BY <1>1, <1>2, RearmSeq
<1>4. Put(after.timr).valid
  BY <1>1, <1>2, RearmFacts
<1> HIDE DEF after
<1>5. /\ timr'[k] = Put(after.timr) /\ sigq'[k] = after.sigq /\ hr'[k].queued = ~expired
      /\ \A j \in Timers \ {k} : timr'[j] = timr[j] /\ hr'[j] = hr[j] /\ sigq'[j] = sigq[j]
  BY <1>2 DEF IInv, TypeOK, Hrtimer
<1>6. /\ timr'[k].valid /\ timr'[k].seq = after.timr.seq /\ timr'[k].qseq = after.timr.qseq
      /\ timr'[k].status = after.timr.status /\ timr'[k].interval = after.timr.interval
      /\ timr'[k].periodic = after.timr.periodic
  BY <1>3, <1>4, <1>5, PutSeq
<1>7. SignalOK(k)' /\ AliveOK(k)'
  <2>1. CASE expired
    <3>1. fired'[k]
      <4>1. Current(k)
        BY <1>1, <1>2, Sequences DEF SignalOK, InFlight
      <4> QED
        BY <1>2, <4>1 DEF Current
    <3>2. timr'[k].seq \in Nat /\ timr'[k].qseq = timr'[k].seq
      BY <1>3, <1>6, <2>1, Sequences
    <3> QED
      BY <1>3, <1>5, <1>6, <2>1, <3>1, <3>2, HasExpired
  <2>2. CASE ~expired
    <3>1. timr'[k].qseq < timr'[k].seq /\ timr'[k].qseq \in Nat /\ timr'[k].seq \in Nat
      BY <1>3, <1>6, <2>2, Sequences
    <3> QED
      BY <1>3, <1>5, <1>6, <2>2, <3>1, IsArmed
  <2> QED
    BY <2>1, <2>2
<1>8. User.pc = "user" /\ User.op = "none"
  BY DEF User
<1> QED
  BY <1>1, <1>2, <1>5, <1>7, <1>8, OneTimer

\* The signals of periodic timers are kept on their list; the others are dropped.
LEMMA IgnoreKeeps ==
  ASSUME IInv, IInv', SInv, Ignore
  PROVE  SInv'
<1>1. thread' = thread /\ hr' = hr /\ fired' = fired
  BY DEF Ignore, history
<1>2. ASSUME NEW k \in Timers PROVE SignalOK(k)' /\ AliveOK(k)'
  <2>1. With("deliver", k)' = With("deliver", k) /\ (Replacing(k)' <=> Replacing(k))
    BY <1>1 DEF With, At, Replacing
  <2>2. CASE sigq[k] = "pending" /\ ~(timr[k].valid /\ timr[k].periodic)
    <3>1. timr'[k] = Put(timr[k]) /\ sigq'[k] = "none"
      BY <2>2 DEF Ignore
    <3>2. InFlight(k)
      BY <2>2 DEF InFlight
    <3> QED
      BY <1>1, <2>1, <2>2, <3>1, <3>2, PutKeeps
  <2>3. CASE ~(sigq[k] = "pending" /\ ~(timr[k].valid /\ timr[k].periodic))
    <3>1. timr'[k] = timr[k] /\ (sigq'[k] # "none" <=> sigq[k] # "none")
      BY <2>3 DEF Ignore
    <3>2. InFlight(k)' <=> InFlight(k)
      BY <2>1, <3>1 DEF InFlight
    <3>3. Core(k)' = Core(k) /\ (Alive(k)' <=> Alive(k))
      BY <1>1, <3>1, <3>2 DEF Core, Alive, Accepts
    <3> QED
      BY <2>1, <3>2, <3>3, Sequences, Stays
  <2> QED
    BY <2>2, <2>3
<1>3. RetryOK'
  BY <1>1 DEF SInv, RetryOK
<1> QED
  BY <1>2, <1>3 DEF SInv

\* After exit_itimers() no timer is left that a signal could be for.
LEMMA FlushKeeps ==
  ASSUME IInv, IInv', SInv, NEW k \in Timers, Flush(k)
  PROVE  SInv'
<1>1. /\ thread' = thread /\ hr' = hr /\ fired' = fired
      /\ timr' = [timr EXCEPT ![k] = Put(timr[k])] /\ sigq' = [sigq EXCEPT ![k] = "none"]
      /\ sigq[k] = "pending" /\ ~timr[k].hashed
  BY DEF Flush, history, IInv, TypeOK
<1>2. /\ timr'[k] = Put(timr[k])
      /\ \A j \in Timers \ {k} : timr'[j] = timr[j] /\ sigq'[j] = sigq[j]
  BY <1>1 DEF IInv, TypeOK
<1>3. ~timr[k].valid
  BY <1>1 DEF IInv, TimerInv, TimerOK
<1>4. InFlight(k) /\ (Replacing(k)' <=> Replacing(k))
  BY <1>1 DEF InFlight, Replacing
<1>5. SignalOK(k)' /\ AliveOK(k)'
  BY <1>1, <1>2, <1>3, <1>4, PutKeeps
<1> QED
  BY <1>1, <1>2, <1>5, NoThread

-----------------------------------------------------------------------------
(* The theorems                                                            *)

LEMMA InitSignals == Init => SInv
<1> SUFFICES ASSUME Init PROVE SInv
  OBVIOUS
<1>1. \A k \in Timers : timr[k].valid = FALSE /\ timr[k].qseq = 0 /\ timr[k].seq = 0 /\ sigq[k] = "none"
  BY DEF Init, Blank
<1>2. \A p \in Threads : thread[p].pc = "user" /\ thread[p].op = "none"
  BY DEF Init, User
<1>3. \A k \in Timers : ~InFlight(k)
  BY <1>1, <1>2 DEF InFlight, With, At
<1> QED
  BY <1>1, <1>2, <1>3 DEF SInv, SignalOK, AliveOK, RetryOK

LEMMA NextKeeps == IInv /\ IInv' /\ SInv /\ [Next]_vars => SInv'
<1> SUFFICES ASSUME IInv, IInv', SInv, [Next]_vars PROVE SInv'
  OBVIOUS
<1>1. CASE UNCHANGED vars \/ Tick \/ SetBack \/ Unignore
  BY <1>1, QuietStep
<1>2. ASSUME NEW p \in Threads, Step(p) PROVE SInv'
  <2>1. CASE Publish(p) \/ AddAt(p) \/ AddFails(p) \/ DeleteAgain(p) \/ UnhashAndFree(p)
    BY <2>1, AddKeeps
  <2>2. CASE CreateFails(p) \/ LookupFails(p) \/ Again(p)
    <3>1. thread[p].obj \in Timers
      BY <2>2 DEF IInv, ThreadInv, ThreadOK, At, CreateFails, LookupFails, Again
    <3> QED
      BY <2>2, <3>1, WalkKeeps DEF Ops
  <2>3. CASE GetTime(p)
    BY <2>3, GetTimeKeeps
  <2>4. CASE \E old \in BOOLEAN : SetRetry(p, old)
    BY <2>4, SetRetryKeeps
  <2>5. CASE \E s \in Settings, expired \in BOOLEAN : Set(p, s, expired)
    BY <2>5, SetKeeps
  <2>6. CASE Delete(p)
    <3>1. thread[p].obj \in Timers
      BY <2>6, LockedFacts DEF Delete
    <3> QED
      BY <2>6, <3>1, DeleteKeeps
  <2>7. CASE DeliverStale(p) \/ DeliverOneShot(p)
    BY <2>7, DeliverKeeps
  <2>8. CASE \E expired \in BOOLEAN : DeliverInterval(p, expired)
    BY <2>8, DeliverIntervalKeeps
  <2> QED
    BY <1>2, <2>1, <2>2, <2>3, <2>4, <2>5, <2>6, <2>7, <2>8 DEF Step
<1>3. ASSUME NEW p \in Threads, NEW k \in Timers, Create(p, k) \/ Exit(p, k) \/ Dequeue(p, k)
      PROVE  SInv'
  BY <1>3, CreateKeeps, DeleteKeeps, DequeueKeeps
<1>4. ASSUME NEW p \in Threads, NEW k \in Timers, NEW op \in Ops, Lookup(p, k, op) PROVE SInv'
  BY <1>4, WalkKeeps
<1>5. ASSUME NEW k \in Timers, Fire(k) \/ Expiry(k) \/ Flush(k) PROVE SInv'
  BY <1>5, FireKeeps, PosixTimerFnKeeps, FlushKeeps DEF Expiry
<1>6. CASE Ignore
  BY <1>6, IgnoreKeeps
<1> QED
  BY <1>1, <1>2, <1>3, <1>4, <1>5, <1>6 DEF Next

LEMMA SignalsHold == Spec => [](IInv /\ SInv)
<1>1. IInv /\ SInv /\ [Next]_vars => (IInv /\ SInv)'
  BY NextStep, NextKeeps
<1>2. Init => IInv /\ SInv
  BY InitOK, InitSignals
<1> QED
  BY <1>1, <1>2, PTL DEF Spec

\* __posixtimer_deliver_signal() accepts no signal of an earlier setting or of a deleted
\* timer, although siglock is dropped before it_lock is taken: what it accepts has expired,
\* and a periodic timer then waits to be armed.
THEOREM SignalsCurrent == Spec => []SignalIsCurrent
<1>1. IInv /\ SInv => SignalIsCurrent
  <2> SUFFICES ASSUME IInv, SInv, NEW p \in Threads, NEW k, k = thread[p].obj, At(p, "deliver"), Accepts(k)
               PROVE  Current(k)
    BY DEF SignalIsCurrent, Current
  <2>1. k \in Timers
    BY DEF IInv, ThreadInv, ThreadOK, At
  <2>2. InFlight(k)
    BY DEF InFlight, With
  <2> QED
    BY <2>1, <2>2 DEF SInv, SignalOK
<1> QED
  BY <1>1, SignalsHold, PTL

\* A periodic POSIX timer that is valid is armed, expiring, or will be armed by the delivery
\* of a signal on its way, whoever sets it, deletes others, or ignores signals.
THEOREM PeriodicAlive == Spec => []PeriodicStaysAlive
<1>1. IInv /\ SInv => PeriodicStaysAlive
  <2> SUFFICES ASSUME IInv, SInv, NEW k \in Timers \ SigevNone, timr[k].valid, timr[k].interval # 0,
                      ~Replacing(k)
               PROVE  \/ timr[k].status = "ARMED" /\ (hr[k].queued \/ hr[k].runs = "fn")
                      \/ /\ timr[k].status = "REQUEUE_PENDING" /\ Accepts(k)
                         /\ sigq[k] # "none" \/ \E p \in Threads : At(p, "deliver") /\ thread[p].obj = k
    BY DEF PeriodicStaysAlive
  <2>1. Alive(k)
    BY DEF SInv, AliveOK
  <2> QED
    BY <2>1 DEF Alive, InFlight, With
<1> QED
  BY <1>1, SignalsHold, PTL
=============================================================================
