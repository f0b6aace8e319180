-------------------------- MODULE TimerBase_proofs --------------------------
(***************************************************************************)
(* Proofs about TimerBase, for any number of CPUs, timers and callers.  The *)
(* inductive invariant ties a timer's flags to the lists it is on, the base  *)
(* that is being expired to the CPU that does it, and the mark of a          *)
(* migration to the one caller that made it.                                *)
(***************************************************************************)
EXTENDS TimerBase, TLAPS

Stops == {"delete", "shutdown", "sync", "shutdown_sync"}

CallTypes ==
    {Idle} \cup [pc : {"lock", "move"}, op : Starts \cup Stops, timer : Timers,
                 looked : BOOLEAN, tf : Flags, to : Bases \cup {None}]
RunTypes == {Rest} \cup [pc : {"call"}, base : Bases, timer : Timers, heads : SUBSET Timers]

TypeOK ==
    /\ flags \in [Timers -> Flags]
    /\ function \in [Timers -> BOOLEAN]
    /\ vectors \in [Bases -> SUBSET Timers]
    /\ running_timer \in [Bases -> Timers \cup {None}]
    /\ run \in [Cpus -> RunTypes]
    /\ call \in [Contexts -> CallTypes]
    /\ cpu \in [Cpus -> {"online", "dying", "dead"}]
    /\ strayed \in [Timers -> BOOLEAN]

\* A queued timer is where its flags say, and has not been shut down.
QueueInv ==
    /\ \A b \in Bases : \A t \in vectors[b] :
          Base(flags[t]) = b /\ ~flags[t].migrating /\ cpu[b[1]] # "dead" /\ function[t]
    /\ \A c \in Cpus : \A t \in run[c].heads :
          Base(flags[t]) = run[c].base /\ ~flags[t].migrating /\ function[t]

\* A base is expired by one CPU, which calls its running timer.
ExecInv ==
    /\ \A c \in Cpus : run[c].pc = "call" =>
          /\ running_timer[run[c].base] = run[c].timer
          /\ cpu[run[c].base[1]] # "dead" /\ cpu[c] = "online"
    /\ \A c, d \in Cpus : run[c].pc = "call" /\ run[d].pc = "call" /\ run[c].base = run[d].base =>
          c = d
    /\ \A b \in Bases : running_timer[b] # None =>
          \E c \in Cpus : run[c].pc = "call" /\ run[c].base = b
    /\ \A c \in Cpus : run[c].pc = "call" /\ ~strayed[run[c].timer] =>
          Base(flags[run[c].timer]) = run[c].base /\ ~flags[run[c].timer].migrating

\* A timer that is marked is on its way with one caller, to a CPU that is online.
MoveInv ==
    /\ \A p \in Contexts : call[p].pc = "move" =>
          /\ flags[call[p].timer].migrating /\ function[call[p].timer]
          /\ call[p].op \in Starts /\ call[p].to \in Bases
          /\ cpu[call[p].to[1]] = "online" /\ Kind(flags[call[p].timer]) = call[p].to[2]
    /\ \A p, q \in Contexts :
          call[p].pc = "move" /\ call[q].pc = "move" /\ call[p].timer = call[q].timer => p = q
    /\ \A t \in Timers : flags[t].migrating =>
          \E p \in Contexts : call[p].pc = "move" /\ call[p].timer = t

\* Who uses add_timer() has the timer for himself, as far as starting it goes.
CallerInv ==
    /\ \A p, q \in Contexts, t \in Timers : Adder(p, t) /\ Starter(q, t) => p = q
    /\ \A p \in Contexts : call[p].pc = "lock" /\ call[p].op = "on" =>
          /\ ~Pending(call[p].timer) /\ flags[call[p].timer].pinned
          /\ call[p].to \in Bases /\ call[p].to[2] = "local" /\ cpu[call[p].to[1]] = "online"
    /\ \A p \in Cpus : call[p].pc # "idle" => run[p].pc = "call"

IInv == TypeOK /\ QueueInv /\ ExecInv /\ MoveInv /\ CallerInv

-----------------------------------------------------------------------------
\* What the types say of a call and of an expiry

LEMMA CallFacts ==
    ASSUME TypeOK, NEW p \in Contexts
    PROVE  /\ call[p].pc \in {"idle", "lock", "move"}
           /\ call[p].pc = "idle" => call[p] = Idle
           /\ call[p].pc # "idle" =>
                 /\ call[p] \in [pc : {"lock", "move"}, op : Starts \cup Stops, timer : Timers,
                                 looked : BOOLEAN, tf : Flags, to : Bases \cup {None}]
                 /\ call[p].timer \in Timers /\ call[p].op \in Starts \cup Stops
                 /\ call[p].tf \in Flags /\ call[p].to \in Bases \cup {None}
           /\ call[p].op \in Starts => call[p].pc # "idle"
  <1>1. call[p] \in CallTypes
    BY DEF TypeOK
  <1>2. CASE call[p] = Idle
    BY <1>2 DEF Idle, Starts
  <1>3. CASE call[p] # Idle
    <2>1. call[p] \in [pc : {"lock", "move"}, op : Starts \cup Stops, timer : Timers,
                      looked : BOOLEAN, tf : Flags, to : Bases \cup {None}]
      BY <1>1, <1>3 DEF CallTypes
    <2> QED BY <2>1
  <1> QED BY <1>2, <1>3

LEMMA RunFacts ==
    ASSUME TypeOK, NEW c \in Cpus
    PROVE  /\ run[c].pc \in {"idle", "call"}
           /\ run[c].pc = "idle" => run[c] = Rest /\ run[c].heads = {} /\ run[c].timer = None
           /\ run[c].pc = "call" =>
                 /\ run[c] \in [pc : {"call"}, base : Bases, timer : Timers, heads : SUBSET Timers]
                 /\ run[c].base \in Bases /\ run[c].timer \in Timers /\ run[c].heads \subseteq Timers
           /\ run[c].timer # None => run[c].pc = "call"
           /\ run[c].heads # {} => run[c].pc = "call"
           /\ run[c].heads \subseteq Timers
  <1>1. run[c] \in RunTypes
    BY DEF TypeOK
  <1>2. CASE run[c] = Rest
    BY <1>2 DEF Rest
  <1>3. CASE run[c] # Rest
    <2>1. run[c] \in [pc : {"call"}, base : Bases, timer : Timers, heads : SUBSET Timers]
      BY <1>1, <1>3 DEF RunTypes
    <2> QED BY <2>1
  <1> QED BY <1>2, <1>3

LEMMA FlagFacts ==
    ASSUME NEW f \in Flags
    PROVE  /\ Kind(f) \in Kinds /\ Base(f) \in Bases
           /\ Base(f)[1] = f.cpu /\ Base(f)[2] = Kind(f)
           /\ f.cpu \in Cpus /\ f.pinned \in BOOLEAN /\ f.migrating \in BOOLEAN
  BY DEF Flags, Kind, Base, Kinds, Bases

LEMMA InitInv == Init => IInv
  <1> SUFFICES ASSUME Init PROVE IInv
    OBVIOUS
  <1> USE DEF Init
  <1>1. TypeOK
    BY DEF TypeOK, Flags, CallTypes, RunTypes, Bases
  <1>2. /\ \A p \in Contexts : call[p] = Idle /\ call[p].pc = "idle" /\ call[p].op = "none"
        /\ \A c \in Cpus : run[c].pc = "idle" /\ run[c].heads = {}
    BY DEF Idle, Rest, Contexts
  <1>3. QueueInv /\ ExecInv
    BY <1>2 DEF QueueInv, ExecInv
  <1>4. MoveInv /\ CallerInv
    <2>1. \A t \in Timers : ~flags[t].migrating
      OBVIOUS
    <2> QED BY <1>2, <2>1 DEF MoveInv, CallerInv, Adder, Starter, Contexts
  <1> QED BY <1>1, <1>3, <1>4 DEF IInv
-----------------------------------------------------------------------------
\* What a step leaves alone

LEMMA ObserveTypes ==
    ASSUME TypeOK, Observe
    PROVE  strayed' \in [Timers -> BOOLEAN]
  BY DEF Observe

\* A timer that still runs and has not strayed kept its flags, or nobody adds it.
LEMMA StrayedFacts ==
    ASSUME TypeOK, Observe, NEW c \in Cpus, run[c].timer \in Timers,
           run'[c].timer = run[c].timer, ~strayed'[run[c].timer]
    PROVE  /\ ~strayed[run[c].timer]
           /\ \/ flags'[run[c].timer] = flags[run[c].timer]
              \/ \A p \in Contexts : ~Adder(p, run[c].timer) /\ ~Adder(p, run[c].timer)'
  <1> DEFINE t == run[c].timer
  <1>1. Running(t) /\ Running(t)'
    BY DEF Running
  <1>2. ~(/\ Running(t)'
          /\ \/ strayed[t]
             \/ /\ Running(t) /\ flags'[t] # flags[t]
                /\ \E p \in Contexts : Adder(p, t) \/ Adder(p, t)')
    <2> HIDE DEF t
    <2> QED BY DEF Observe, t
  <1> QED BY <1>1, <1>2

\* Nothing on the lists has changed, nor the flags of what is on them.
LEMMA QueuesKept ==
    ASSUME IInv, Observe, flags' \in [Timers -> Flags], UNCHANGED <<function, queues, cpu>>,
           \A u \in Timers : flags'[u] = flags[u] \/ ~Pending(u),
           \A u \in Timers : flags'[u] = flags[u] \/ \E p \in Contexts : Adder(p, u)'
    PROVE  QueueInv' /\ ExecInv'
  <1>1. TypeOK /\ QueueInv /\ ExecInv
    BY DEF IInv
  <1>2. QueueInv'
    <2>1. \A b \in Bases : \A t \in vectors[b] : t \in Timers /\ flags'[t] = flags[t]
      BY <1>1 DEF TypeOK, Pending
    <2>2. \A c \in Cpus : \A t \in run[c].heads : t \in Timers /\ flags'[t] = flags[t]
      BY <1>1, RunFacts DEF Pending
    <2> QED BY <1>1, <2>1, <2>2 DEF QueueInv, queues, Base, Kind
  <1>3. ASSUME NEW c \in Cpus, run[c].pc = "call", ~strayed'[run[c].timer]
        PROVE  ~strayed[run[c].timer] /\ flags'[run[c].timer] = flags[run[c].timer]
    <2>1. run[c].timer \in Timers /\ run'[c].timer = run[c].timer
      BY <1>1, <1>3, RunFacts DEF queues
    <2> QED BY <1>1, <1>3, <2>1, StrayedFacts
  <1>4. ExecInv'
    BY <1>1, <1>3 DEF ExecInv, queues, Base, Kind
  <1> QED BY <1>2, <1>4

\* A record in call is replaced.
LEMMA CallTypesKept ==
    ASSUME TypeOK, Observe, flags' \in [Timers -> Flags], UNCHANGED <<function, queues, cpu>>,
           NEW p \in Contexts, NEW r \in CallTypes, call' = [call EXCEPT ![p] = r]
    PROVE  TypeOK'
  <1>1. strayed' \in [Timers -> BOOLEAN]
    BY ObserveTypes
  <1> QED BY <1>1 DEF TypeOK, queues

-----------------------------------------------------------------------------
\* The calls up to the lock

LEMMA BeginKeeps ==
    ASSUME IInv, flags' \in [Timers -> Flags],
           NEW p \in Contexts, NEW t \in Timers, NEW op \in Starts \cup Stops,
           NEW looked \in BOOLEAN, NEW to \in Bases \cup {None}, Begin(p, t, op, looked, to),
           \A u \in Timers : flags'[u].migrating = flags[u].migrating,
           \A u \in Timers : flags'[u] # flags[u] => u = t /\ ~Pending(t) /\ op \in {"add", "on"},
           op \in {"add", "on"} => \A q \in Contexts : ~Starter(q, t),
           op \in Starts => \A q \in Contexts : ~Adder(q, t),
           op = "on" => /\ ~Pending(t) /\ flags'[t].pinned
                        /\ to \in Bases /\ to[2] = "local" /\ cpu[to[1]] = "online"
    PROVE  IInv'
  <1> DEFINE r == [pc |-> "lock", op |-> op, timer |-> t, looked |-> looked, tf |-> flags'[t],
                   to |-> to]
  <1>0. TypeOK /\ QueueInv /\ ExecInv /\ MoveInv /\ CallerInv
    BY DEF IInv
  <1>1. /\ call[p].pc = "idle" /\ (p \in Cpus => run[p].pc = "call")
        /\ call' = [call EXCEPT ![p] = r]
        /\ UNCHANGED <<function, queues, cpu>> /\ Observe
    BY DEF Begin
  <1>2. r \in CallTypes
    BY DEF CallTypes
  <1>3. TypeOK'
    BY <1>0, <1>1, <1>2, CallTypesKept
  <1>4. call'[p] = r /\ \A q \in Contexts \ {p} : call'[q] = call[q]
    BY <1>0, <1>1 DEF TypeOK
  <1>5. QueueInv' /\ ExecInv'
    <2>1. op \in {"add", "on"} => Adder(p, t)'
      BY <1>4 DEF Adder
    <2> QED BY <1>1, <2>1, QueuesKept
  <1>6. \A q \in Contexts : call'[q].pc = "move" => q # p /\ call[q].pc = "move"
    BY <1>4
  <1>7. ASSUME NEW q \in Contexts, call[q].pc = "move"
        PROVE  /\ q # p /\ call[q].timer \in Timers /\ call[q].op \in Starts
               /\ flags'[call[q].timer] = flags[call[q].timer]
    <2>1. q # p /\ call[q].timer \in Timers /\ call[q].op \in Starts
      BY <1>0, <1>1, <1>7, CallFacts DEF MoveInv
    <2>2. Starter(q, call[q].timer)
      BY <2>1 DEF Starter
    <2> QED BY <2>1, <2>2
  <1>8. MoveInv'
    <2>1. ASSUME NEW q \in Contexts, call'[q].pc = "move"
          PROVE  /\ flags'[call'[q].timer].migrating /\ function'[call'[q].timer]
                 /\ call'[q].op \in Starts /\ call'[q].to \in Bases
                 /\ cpu'[call'[q].to[1]] = "online"
                 /\ Kind(flags'[call'[q].timer]) = call'[q].to[2]
      BY <1>0, <1>1, <1>4, <1>6, <1>7, <2>1 DEF MoveInv
    <2>2. \A q, s \in Contexts :
            call'[q].pc = "move" /\ call'[s].pc = "move" /\ call'[q].timer = call'[s].timer => q = s
      BY <1>0, <1>4, <1>6 DEF MoveInv
    <2>3. \A u \in Timers : flags'[u].migrating =>
            \E q \in Contexts : call'[q].pc = "move" /\ call'[q].timer = u
      BY <1>0, <1>1, <1>4 DEF MoveInv
    <2> QED BY <2>1, <2>2, <2>3 DEF MoveInv, Kind
  <1>9. CallerInv'
    <2>1. ASSUME NEW q \in Contexts, NEW s \in Contexts, NEW u \in Timers,
                 Adder(q, u)', Starter(s, u)'
          PROVE  q = s
      <3>1. CASE q = p /\ s # p
        BY <1>4, <2>1, <3>1 DEF Adder, Starter
      <3>2. CASE s = p /\ q # p
        BY <1>4, <2>1, <3>2 DEF Adder, Starter
      <3>3. CASE q # p /\ s # p
        BY <1>0, <1>4, <2>1, <3>3 DEF Adder, Starter, CallerInv
      <3> QED BY <3>1, <3>2, <3>3
    <2>2. ASSUME NEW q \in Contexts, call'[q].pc = "lock", call'[q].op = "on"
          PROVE  /\ ~Pending(call[q].timer)' /\ flags'[call'[q].timer].pinned
                 /\ call'[q].to \in Bases /\ call'[q].to[2] = "local"
                 /\ cpu'[call'[q].to[1]] = "online"
      <3>1. CASE q = p
        <4>1. call'[q] = r /\ op = "on" /\ r.timer = t /\ r.to = to
          BY <1>4, <2>2, <3>1
        <4>2. ~Pending(call[q].timer)'
          BY <1>1, <4>1 DEF Pending, queues
        <4> QED BY <1>1, <4>1, <4>2
      <3>2. CASE q # p
        <4>1. call[q].timer \in Timers /\ Starter(q, call[q].timer) /\ call'[q] = call[q]
          BY <1>0, <1>4, <2>2, <3>2, CallFacts DEF Starter, Starts
        <4>2. flags'[call[q].timer] = flags[call[q].timer]
          BY <4>1
        <4>3. /\ ~Pending(call[q].timer) /\ flags[call[q].timer].pinned
              /\ call[q].to \in Bases /\ call[q].to[2] = "local" /\ cpu[call[q].to[1]] = "online"
          BY <1>0, <2>2, <4>1 DEF CallerInv
        <4>4. ~Pending(call[q].timer)'
          BY <1>1, <4>1, <4>3 DEF Pending, queues
        <4> QED BY <1>1, <4>1, <4>2, <4>3, <4>4
      <3> QED BY <3>1, <3>2
    <2>3. \A q \in Cpus : call'[q].pc # "idle" => run'[q].pc = "call"
      BY <1>0, <1>1, <1>4 DEF CallerInv, queues, Contexts
    <2> QED BY <2>1, <2>2, <2>3 DEF CallerInv, Adder, Starter, Pending
  <1> QED BY <1>3, <1>5, <1>8, <1>9 DEF IInv
LEMMA CallsKeep ==
    ASSUME IInv, NEW p \in Contexts, NEW t \in Timers, Calls(p, t)
    PROVE  IInv'
  <1>1. TypeOK /\ Contexts = Cpus \cup Threads
    BY DEF IInv, Contexts
  <1>2. ASSUME NEW op \in {"mod", "pending"}, ModTimer(p, t, op) PROVE IInv'
    <2> DEFINE look == Pending(t)
    <2>1. /\ Begin(p, t, op, look, None) /\ flags' = flags
          /\ \A q \in Contexts : ~Adder(q, t)
      BY <1>2 DEF ModTimer
    <2>3. look \in BOOLEAN
      BY DEF Pending
    <2>2. /\ op \in Starts \cup Stops /\ op \notin {"add", "on"} /\ flags' \in [Timers -> Flags]
          /\ None \in Bases \cup {None}
      BY <1>1, <2>1 DEF Starts, TypeOK
    <2> HIDE DEF look
    <2> QED BY <2>1, <2>2, <2>3, BeginKeeps
  <1>3. ASSUME NEW pinned \in BOOLEAN, AddTimer(p, t, pinned) PROVE IInv'
    <2>1. /\ Begin(p, t, "add", FALSE, None) /\ flags' = [flags EXCEPT ![t].pinned = pinned]
          /\ ~Pending(t) /\ \A q \in Contexts : ~Starter(q, t)
      BY <1>3 DEF AddTimer
    <2>2. "add" \in Starts \cup Stops /\ None \in Bases \cup {None} /\ flags' \in [Timers -> Flags]
      BY <1>1, <2>1 DEF Starts, TypeOK, Flags
    <2>3. /\ \A u \in Timers : flags'[u].migrating = flags[u].migrating
          /\ \A u \in Timers : flags'[u] # flags[u] => u = t
      BY <1>1, <2>1 DEF TypeOK, Flags
    <2>4. \A q \in Contexts : ~Adder(q, t)
      BY <2>1 DEF Adder, Starter, Starts
    <2> QED BY <2>1, <2>2, <2>3, <2>4, BeginKeeps
  <1>4. ASSUME NEW c \in Cpus, AddTimerOn(p, t, c) PROVE IInv'
    <2>1. /\ Begin(p, t, "on", FALSE, <<c, "local">>) /\ flags' = [flags EXCEPT ![t].pinned = TRUE]
          /\ ~Pending(t) /\ cpu[c] = "online" /\ \A q \in Contexts : ~Starter(q, t)
      BY <1>4 DEF AddTimerOn
    <2>2. "on" \in Starts \cup Stops /\ <<c, "local">> \in Bases /\ flags' \in [Timers -> Flags]
      BY <1>1, <2>1 DEF Starts, TypeOK, Flags, Bases, Kinds
    <2>3. /\ \A u \in Timers : flags'[u].migrating = flags[u].migrating
          /\ \A u \in Timers : flags'[u] # flags[u] => u = t
          /\ flags'[t].pinned
      BY <1>1, <2>1 DEF TypeOK, Flags
    <2>4. \A q \in Contexts : ~Adder(q, t)
      BY <2>1 DEF Adder, Starter, Starts
    <2>5. <<c, "local">>[1] = c /\ <<c, "local">>[2] = "local"
      OBVIOUS
    <2> QED BY <2>1, <2>2, <2>3, <2>4, <2>5, BeginKeeps
  <1>5. ASSUME NEW op \in Stops, flags' = flags, Begin(p, t, op, FALSE, None) PROVE IInv'
    <2>1. /\ op \notin Starts /\ op \notin {"add", "on"} /\ None \in Bases \cup {None}
          /\ flags' \in [Timers -> Flags]
      BY <1>1, <1>5 DEF Starts, Stops, TypeOK
    <2> QED BY <1>5, <2>1, BeginKeeps
  <1>6. ASSUME NEW op \in {"delete", "shutdown"}, Delete(p, t, op) PROVE IInv'
    <2>1. op \in Stops
      BY DEF Stops
    <2> QED BY <1>5, <1>6, <2>1 DEF Delete
  <1>7. ASSUME NEW op \in {"sync", "shutdown_sync"}, DeleteSync(p, t, op) PROVE IInv'
    <2>1. op \in Stops
      BY DEF Stops
    <2> QED BY <1>5, <1>7, <2>1 DEF DeleteSync
  <1> QED BY <1>2, <1>3, <1>4, <1>6, <1>7 DEF Calls

-----------------------------------------------------------------------------
\* The calls with the lock

\* A call that ends, or goes on with the same aim, without marking a timer, takes
\* nothing from the others.
LEMMA LessCalls ==
    ASSUME IInv, NEW p \in Contexts, NEW r \in CallTypes, call' = [call EXCEPT ![p] = r],
           call[p].pc = "lock",
           \/ r = Idle
           \/ /\ r.pc = "lock" /\ r.op = call[p].op /\ r.timer = call[p].timer
              /\ r.to = call[p].to,
           flags' = flags, cpu' = cpu,
           \A c \in Cpus : run'[c].pc = run[c].pc,
           \A u \in Timers : flags[u].migrating => function'[u] = function[u],
           \A q \in Contexts : call'[q].pc = "lock" /\ call[q].op = "on" =>
                (~Pending(call[q].timer) => ~Pending(call[q].timer)')
    PROVE  MoveInv' /\ CallerInv'
  <1>0. TypeOK /\ MoveInv /\ CallerInv
    BY DEF IInv
  <1>1. call'[p] = r /\ \A q \in Contexts \ {p} : call'[q] = call[q]
    BY <1>0 DEF TypeOK
  <1>2. r.pc # "move" /\ (r.pc = "idle" => r.op \notin Starts)
    BY DEF Idle, Starts
  <1>3. MoveInv'
    <2>1. \A q \in Contexts : call'[q].pc = "move" => q # p /\ call[q].pc = "move"
      BY <1>1, <1>2
    <2>2. ASSUME NEW q \in Contexts, call'[q].pc = "move"
          PROVE  /\ flags'[call'[q].timer].migrating /\ function'[call'[q].timer]
                 /\ call'[q].op \in Starts /\ call'[q].to \in Bases
                 /\ cpu'[call'[q].to[1]] = "online"
                 /\ Kind(flags'[call'[q].timer]) = call'[q].to[2]
      <3>1. call'[q] = call[q] /\ call[q].pc = "move" /\ call[q].timer \in Timers
        BY <1>0, <1>1, <2>1, <2>2, CallFacts
      <3> QED BY <1>0, <3>1 DEF MoveInv
    <2>3. \A q, s \in Contexts :
            call'[q].pc = "move" /\ call'[s].pc = "move" /\ call'[q].timer = call'[s].timer => q = s
      BY <1>0, <1>1, <2>1 DEF MoveInv
    <2>4. \A u \in Timers : flags'[u].migrating =>
            \E q \in Contexts : call'[q].pc = "move" /\ call'[q].timer = u
      BY <1>0, <1>1 DEF MoveInv
    <2> QED BY <2>2, <2>3, <2>4 DEF MoveInv, Kind
  <1>4. CallerInv'
    <2>1. ASSUME NEW q \in Contexts, NEW u \in Timers
          PROVE  (Adder(q, u)' => Adder(q, u)) /\ (Starter(q, u)' => Starter(q, u))
      <3>1. CASE q = p /\ r = Idle
        BY <1>1, <3>1 DEF Adder, Starter, Idle, Starts
      <3>2. CASE q = p /\ r # Idle
        BY <1>1, <3>2 DEF Adder, Starter
      <3>3. CASE q # p
        BY <1>1, <3>3 DEF Adder, Starter
      <3> QED BY <3>1, <3>2, <3>3
    <2>2. \A q, s \in Contexts, u \in Timers : Adder(q, u)' /\ Starter(s, u)' => q = s
      BY <1>0, <2>1 DEF CallerInv, Adder, Starter
    <2>3. ASSUME NEW q \in Contexts, call'[q].pc = "lock", call'[q].op = "on"
          PROVE  /\ ~Pending(call[q].timer)' /\ flags'[call'[q].timer].pinned
                 /\ call'[q].to \in Bases /\ call'[q].to[2] = "local"
                 /\ cpu'[call'[q].to[1]] = "online"
      <3>1. /\ call[q].op = "on" /\ call[q].pc = "lock"
            /\ call'[q].timer = call[q].timer /\ call'[q].to = call[q].to
        BY <1>1, <2>3 DEF Idle
      <3>2. /\ ~Pending(call[q].timer) /\ flags[call[q].timer].pinned
            /\ call[q].to \in Bases /\ call[q].to[2] = "local" /\ cpu[call[q].to[1]] = "online"
        BY <1>0, <3>1 DEF CallerInv
      <3>3. ~Pending(call[q].timer)'
        BY <2>3, <3>1, <3>2
      <3> QED BY <3>1, <3>2, <3>3
    <2>4. \A q \in Cpus : call'[q].pc # "idle" => run'[q].pc = "call"
      BY <1>0, <1>1 DEF CallerInv, Contexts
    <2> QED BY <2>2, <2>3, <2>4 DEF CallerInv, Adder, Starter, Pending
  <1> QED BY <1>3, <1>4
LEMMA ReadAgainKeeps ==
    ASSUME IInv, NEW p \in Contexts, ReadAgain(p)
    PROVE  IInv'
  <1> DEFINE r == [call[p] EXCEPT !.tf = flags[call[p].timer]]
  <1>1. /\ TypeOK /\ call[p].pc = "lock" /\ UNCHANGED <<flags, function, queues, cpu>> /\ Observe
        /\ call' = [call EXCEPT ![p] = r]
    BY DEF ReadAgain, IInv
  <1>2. r \in CallTypes /\ r.pc = "lock" /\ r.op = call[p].op /\ r.timer = call[p].timer /\ r.to = call[p].to
    <2>1. flags[call[p].timer] \in Flags
      BY <1>1, CallFacts DEF TypeOK
    <2> QED BY <1>1, <2>1, CallFacts DEF CallTypes
  <1>3. TypeOK'
    <2>1. flags' \in [Timers -> Flags]
      BY <1>1 DEF TypeOK
    <2> HIDE DEF r
    <2> QED BY <1>1, <1>2, <2>1, CallTypesKept
  <1>4. QueueInv' /\ ExecInv'
    <2>1. flags' \in [Timers -> Flags] /\ \A u \in Timers : flags'[u] = flags[u]
      BY <1>1 DEF TypeOK
    <2> QED BY <1>1, <2>1, QueuesKept
  <1>5. MoveInv' /\ CallerInv'
    <2>1. \A q \in Contexts : call'[q].pc = "lock" /\ call[q].op = "on" =>
                (~Pending(call[q].timer) => ~Pending(call[q].timer)')
      <3>1. \A q \in Contexts : call'[q].timer = call[q].timer
        BY <1>1, <1>2 DEF TypeOK
      <3> QED BY <1>1, <3>1 DEF Pending, queues
    <2>2. \A c \in Cpus : run'[c].pc = run[c].pc
      BY <1>1 DEF queues
    <2> HIDE DEF r
    <2> QED BY <1>1, <1>2, <2>1, <2>2, LessCalls
  <1> QED BY <1>3, <1>4, <1>5 DEF IInv

LEMMA NothingKeeps ==
    ASSUME IInv, NEW p \in Contexts, NothingToDo(p)
    PROVE  IInv'
  <1>1. /\ TypeOK /\ call[p].pc = "lock" /\ UNCHANGED <<flags, function, queues, cpu>> /\ Observe
        /\ call' = [call EXCEPT ![p] = Idle] /\ Idle \in CallTypes
    BY DEF NothingToDo, Locked, Return, IInv, CallTypes
  <1>2. flags' \in [Timers -> Flags] /\ \A u \in Timers : flags'[u] = flags[u]
    BY <1>1 DEF TypeOK
  <1>3. TypeOK' /\ QueueInv' /\ ExecInv'
    BY <1>1, <1>2, CallTypesKept, QueuesKept
  <1>4. MoveInv' /\ CallerInv'
    <2>1. \A q \in Contexts : call'[q].pc = "lock" /\ call[q].op = "on" =>
                (~Pending(call[q].timer) => ~Pending(call[q].timer)')
      <3>1. \A q \in Contexts : call'[q].pc = "lock" => call'[q].timer = call[q].timer
        BY <1>1 DEF TypeOK, Idle
      <3> QED BY <1>1, <3>1 DEF Pending, queues
    <2>2. \A c \in Cpus : run'[c].pc = run[c].pc
      BY <1>1 DEF queues
    <2> QED BY <1>1, <2>1, <2>2, LessCalls
  <1> QED BY <1>3, <1>4 DEF IInv

\* A timer is taken out of whatever list it is on.
HeadsLess(t) == run' = [c \in Cpus |-> [run[c] EXCEPT !.heads = @ \ {t}]]

LEMMA HeadsLessFacts ==
    ASSUME TypeOK, NEW t \in Timers, HeadsLess(t)
    PROVE  /\ run' \in [Cpus -> RunTypes]
           /\ \A c \in Cpus :
                 /\ run'[c].pc = run[c].pc /\ run'[c].base = run[c].base
                 /\ run'[c].timer = run[c].timer /\ run'[c].heads = run[c].heads \ {t}
  <1>1. ASSUME NEW c \in Cpus
        PROVE  /\ run'[c] \in RunTypes
               /\ run'[c].pc = run[c].pc /\ run'[c].base = run[c].base
               /\ run'[c].timer = run[c].timer /\ run'[c].heads = run[c].heads \ {t}
    <2>1. run'[c] = [run[c] EXCEPT !.heads = @ \ {t}]
      BY DEF HeadsLess
    <2>2. CASE run[c].pc = "idle"
      <3>1. run[c] = Rest
        BY <2>2, RunFacts
      <3> QED BY <2>1, <3>1 DEF Rest, RunTypes
    <2>3. CASE run[c].pc = "call"
      <3>1. run[c] \in [pc : {"call"}, base : Bases, timer : Timers, heads : SUBSET Timers]
        BY <2>3, RunFacts
      <3> QED BY <2>1, <3>1 DEF RunTypes
    <2> QED BY <2>2, <2>3, RunFacts
  <1> QED BY <1>1 DEF HeadsLess

\* Then the timers that are called are the same.
LEMMA ExecKept ==
    ASSUME TypeOK, ExecInv, Observe, UNCHANGED <<running_timer, cpu>>,
           \A c \in Cpus : /\ run'[c].pc = run[c].pc /\ run'[c].base = run[c].base
                           /\ run'[c].timer = run[c].timer,
           \A c \in Cpus : run[c].pc = "call" /\ ~strayed'[run[c].timer] =>
              \/ flags'[run[c].timer] = flags[run[c].timer]
              \/ \E p \in Contexts : Adder(p, run[c].timer) \/ Adder(p, run[c].timer)'
    PROVE  ExecInv'
  <1>1. ASSUME NEW c \in Cpus, run[c].pc = "call", ~strayed'[run[c].timer]
        PROVE  ~strayed[run[c].timer] /\ flags'[run[c].timer] = flags[run[c].timer]
    <2>1. run[c].timer \in Timers /\ run'[c].timer = run[c].timer
      BY <1>1, RunFacts
    <2>2. \/ flags'[run[c].timer] = flags[run[c].timer]
          \/ \E p \in Contexts : Adder(p, run[c].timer) \/ Adder(p, run[c].timer)'
      BY <1>1
    <2> HIDE DEF Adder
    <2> QED BY <1>1, <2>1, <2>2, StrayedFacts
  <1>2. ASSUME NEW c \in Cpus, run[c].pc = "call", ~strayed'[run[c].timer]
        PROVE  Base(flags'[run[c].timer]) = run[c].base /\ ~flags'[run[c].timer].migrating
    BY <1>1, <1>2 DEF ExecInv, Base, Kind
  <1> QED BY <1>2 DEF ExecInv, Base, Kind

LEMMA LockedFacts ==
    ASSUME TypeOK, NEW p \in Contexts, NEW ops, Locked(p, ops)
    PROVE  /\ call[p].pc = "lock" /\ call[p].op \in ops
           /\ call[p].timer \in Timers /\ call[p].tf = flags[call[p].timer]
           /\ ~flags[call[p].timer].migrating
           /\ flags[call[p].timer] \in Flags /\ Base(flags[call[p].timer]) \in Bases
  <1>1. call[p].pc = "lock" /\ call[p].op \in ops /\ call[p].timer \in Timers
        /\ call[p].tf = flags[call[p].timer] /\ ~call[p].tf.migrating
    BY CallFacts DEF Locked
  <1>2. flags[call[p].timer] \in Flags
    BY <1>1 DEF TypeOK
  <1> QED BY <1>1, <1>2, FlagFacts
\* The CPU that a timer is started on exists.
LEMMA NewBaseAlive ==
    ASSUME IInv, NEW p \in Contexts, Starting(p), NEW new \in NewBases(p)
    PROVE  new \in Bases /\ cpu[new[1]] = "online"
  <1>1. /\ TypeOK /\ ExecInv /\ CallerInv /\ Locked(p, Starts)
        /\ call[p].pc = "lock" /\ call[p].tf \in Flags
    BY LockedFacts DEF IInv, Starting
  <1>2. CASE call[p].op = "on"
    BY <1>1, <1>2 DEF NewBases, CallerInv
  <1>3. CASE call[p].op # "on"
    <2>1. new \in This(p) \X {Kind(call[p].tf)} /\ Kind(call[p].tf) \in Kinds
      BY <1>1, <1>3, FlagFacts DEF NewBases
    <2>2. \A c \in This(p) : c \in Cpus /\ cpu[c] = "online"
      <3>1. CASE p \in Cpus
        <4>1. run[p].pc = "call"
          BY <1>1, <3>1 DEF CallerInv
        <4>2. cpu[p] = "online"
          BY <1>1, <3>1, <4>1 DEF ExecInv
        <4> QED BY <3>1, <4>2 DEF This
      <3>2. CASE p \notin Cpus
        BY <3>2 DEF This
      <3> QED BY <3>1, <3>2
    <2> QED BY <2>1, <2>2 DEF Bases
  <1> QED BY <1>2, <1>3

LEMMA EnqueueKeeps ==
    ASSUME ConstAssumption, IInv, NEW p \in Contexts, Enqueue(p)
    PROVE  IInv'
  <1> DEFINE t == call[p].timer
             b == Base(call[p].tf)
  <1>1. /\ TypeOK /\ QueueInv /\ ExecInv /\ CallerInv /\ Starting(p) /\ function[t]
        /\ UNCHANGED <<flags, function, running_timer, cpu>> /\ Observe
        /\ call' = [call EXCEPT ![p] = Idle] /\ Idle \in CallTypes
        /\ vectors' = [n \in Bases |-> IF n = b THEN vectors[n] \cup {t} ELSE vectors[n] \ {t}]
        /\ HeadsLess(t)
    BY DEF Enqueue, Requeue, HeadsLess, Starting, Return, IInv, CallTypes
  <1>2. /\ call[p].pc = "lock" /\ call[p].op \in Starts /\ t \in Timers
        /\ b = Base(flags[t]) /\ ~flags[t].migrating /\ b \in Bases
    BY <1>1, LockedFacts DEF Starting
  <1>3. cpu[b[1]] # "dead"
    <2>1. PICK new \in NewBases(p) : Stays(p, new)
      BY DEF Enqueue
    <2>2. CASE new = b
      BY <1>1, <2>2, NewBaseAlive
    <2>3. CASE running_timer[b] = t
      <3>1. running_timer[b] # None
        BY <1>2, <2>3 DEF ConstAssumption
      <3> QED BY <1>1, <1>2, <3>1 DEF ExecInv
    <2> QED BY <2>1, <2>2, <2>3 DEF Stays
  <1>4. /\ run' \in [Cpus -> RunTypes]
        /\ \A c \in Cpus :
              /\ run'[c].pc = run[c].pc /\ run'[c].base = run[c].base
              /\ run'[c].timer = run[c].timer /\ run'[c].heads = run[c].heads \ {t}
    BY <1>1, <1>2, HeadsLessFacts
  <1>5. TypeOK'
    <2>1. vectors' \in [Bases -> SUBSET Timers]
      BY <1>1, <1>2 DEF TypeOK
    <2>2. strayed' \in [Timers -> BOOLEAN]
      BY <1>1, ObserveTypes
    <2> QED BY <1>1, <1>4, <2>1, <2>2 DEF TypeOK
  <1>6. QueueInv'
    <2>1. ASSUME NEW n \in Bases, NEW u \in vectors'[n]
          PROVE  Base(flags[u]) = n /\ ~flags[u].migrating /\ cpu[n[1]] # "dead" /\ function[u]
      <3>1. CASE u = t
        BY <1>1, <1>2, <1>3, <2>1, <3>1
      <3>2. CASE u # t
        BY <1>1, <2>1, <3>2 DEF QueueInv
      <3> QED BY <3>1, <3>2
    <2>2. \A c \in Cpus : \A u \in run'[c].heads :
            Base(flags[u]) = run'[c].base /\ ~flags[u].migrating /\ function[u]
      BY <1>1, <1>4 DEF QueueInv
    <2> QED BY <1>1, <2>1, <2>2 DEF QueueInv, Base, Kind
  <1>7. ExecInv'
    BY <1>1, <1>4, ExecKept
  <1>8. MoveInv' /\ CallerInv'
    <2>1. ASSUME NEW q \in Contexts, call'[q].pc = "lock", call[q].op = "on",
                 ~Pending(call[q].timer)
          PROVE  ~Pending(call[q].timer)'
      <3>1. q # p /\ call'[q].timer = call[q].timer
        BY <1>1, <2>1 DEF TypeOK, Idle
      <3>2. call[q].timer # t
        <4>1. call[q].timer = t => Adder(q, t) /\ Starter(p, t)
          BY <1>2, <2>1 DEF Adder, Starter
        <4> QED BY <1>1, <1>2, <3>1, <4>1 DEF CallerInv
      <3>3. /\ \A n \in Bases : call[q].timer \notin vectors[n]
            /\ \A c \in Cpus : call[q].timer \notin run[c].heads
        BY <2>1 DEF Pending
      <3>4. /\ \A n \in Bases : call[q].timer \notin vectors'[n]
            /\ \A c \in Cpus : call[q].timer \notin run'[c].heads
        BY <1>1, <1>4, <3>2, <3>3
      <3> QED BY <3>1, <3>4 DEF Pending
    <2> QED BY <1>1, <1>2, <1>4, <2>1, LessCalls
  <1> QED BY <1>5, <1>6, <1>7, <1>8 DEF IInv

LEMMA RemoveKeeps ==
    ASSUME IInv, NEW p \in Contexts, NEW ops, Locked(p, ops), Remove(p)
    PROVE  IInv'
  <1> DEFINE t == call[p].timer
  <1>1. /\ TypeOK /\ QueueInv /\ ExecInv
        /\ UNCHANGED <<flags, running_timer, cpu>> /\ Observe
        /\ function' = [function EXCEPT ![t] = @ /\ ~Shutdown(p)]
        /\ call' = [call EXCEPT ![p] = Idle] /\ Idle \in CallTypes
        /\ vectors' = [b \in Bases |-> vectors[b] \ {t}] /\ HeadsLess(t)
    BY DEF Remove, Detach, HeadsLess, Return, IInv, CallTypes
  <1>2. call[p].pc = "lock" /\ t \in Timers /\ ~flags[t].migrating
    BY <1>1, LockedFacts
  <1>3. /\ run' \in [Cpus -> RunTypes]
        /\ \A c \in Cpus :
              /\ run'[c].pc = run[c].pc /\ run'[c].base = run[c].base
              /\ run'[c].timer = run[c].timer /\ run'[c].heads = run[c].heads \ {t}
    BY <1>1, <1>2, HeadsLessFacts
  <1>4. \A u \in Timers : u # t => function'[u] = function[u]
    BY <1>1 DEF TypeOK
  <1>5. TypeOK'
    <2>1. vectors' \in [Bases -> SUBSET Timers] /\ function' \in [Timers -> BOOLEAN]
      BY <1>1, <1>2 DEF TypeOK
    <2>2. strayed' \in [Timers -> BOOLEAN]
      BY <1>1, ObserveTypes
    <2> QED BY <1>1, <1>3, <2>1, <2>2 DEF TypeOK
  <1>6. QueueInv'
    <2>1. \A b \in Bases : \A u \in vectors'[b] : u \in vectors[b] /\ u # t /\ u \in Timers
      BY <1>1 DEF TypeOK
    <2>2. \A c \in Cpus : \A u \in run'[c].heads : u \in run[c].heads /\ u # t /\ u \in Timers
      BY <1>1, <1>3, RunFacts
    <2> QED BY <1>1, <1>3, <1>4, <2>1, <2>2 DEF QueueInv, Base, Kind
  <1>7. ExecInv'
    BY <1>1, <1>3, ExecKept
  <1>8. MoveInv' /\ CallerInv'
    <2>1. \A q \in Contexts : call'[q].pc = "lock" /\ call[q].op = "on" =>
                (~Pending(call[q].timer) => ~Pending(call[q].timer)')
      <3>1. \A q \in Contexts : call'[q].pc = "lock" => call'[q].timer = call[q].timer
        BY <1>1 DEF TypeOK, Idle
      <3> QED BY <1>1, <1>3, <3>1 DEF Pending
    <2>2. \A u \in Timers : flags[u].migrating => function'[u] = function[u]
      BY <1>2, <1>4
    <2> QED BY <1>1, <1>2, <1>3, <2>1, <2>2, LessCalls
  <1> QED BY <1>5, <1>6, <1>7, <1>8 DEF IInv
-----------------------------------------------------------------------------
\* From one base to another

LEMMA LeaveKeeps ==
    ASSUME IInv, NEW p \in Contexts, Leave(p)
    PROVE  IInv'
  <1> DEFINE t == call[p].timer
  <1>1. PICK new \in NewBases(p) :
          ~Stays(p, new) /\ call' = [call EXCEPT ![p].pc = "move", ![p].to = new]
    BY DEF Leave
  <1>2. /\ TypeOK /\ QueueInv /\ ExecInv /\ MoveInv /\ CallerInv /\ Starting(p) /\ function[t]
        /\ flags' = [flags EXCEPT ![t].migrating = TRUE]
        /\ vectors' = [b \in Bases |-> vectors[b] \ {t}] /\ HeadsLess(t)
        /\ UNCHANGED <<function, running_timer, cpu>> /\ Observe
    BY DEF Leave, Detach, HeadsLess, Starting, IInv
  <1>3. /\ call[p].pc = "lock" /\ call[p].op \in Starts /\ t \in Timers
        /\ call[p].tf = flags[t] /\ ~flags[t].migrating /\ flags[t] \in Flags
    BY <1>2, LockedFacts DEF Starting
  <1>4. new \in Bases /\ cpu[new[1]] = "online"
    BY <1>2, NewBaseAlive
  <1>5. /\ run' \in [Cpus -> RunTypes]
        /\ \A c \in Cpus :
              /\ run'[c].pc = run[c].pc /\ run'[c].base = run[c].base
              /\ run'[c].timer = run[c].timer /\ run'[c].heads = run[c].heads \ {t}
    BY <1>2, <1>3, HeadsLessFacts
  <1>6. /\ call'[p] \in CallTypes /\ call'[p].pc = "move" /\ call'[p].to = new
        /\ call'[p].op = call[p].op /\ call'[p].timer = t
        /\ \A q \in Contexts \ {p} : call'[q] = call[q]
    <2>1. call[p] \in [pc : {"lock", "move"}, op : Starts \cup Stops, timer : Timers,
                      looked : BOOLEAN, tf : Flags, to : Bases \cup {None}]
      BY <1>2, <1>3, CallFacts
    <2>2. call'[p] = [call[p] EXCEPT !.pc = "move", !.to = new]
          /\ \A q \in Contexts \ {p} : call'[q] = call[q]
      BY <1>1, <1>2 DEF TypeOK
    <2> QED BY <1>4, <2>1, <2>2 DEF CallTypes
  <1>7. /\ flags' \in [Timers -> Flags] /\ flags'[t].migrating
        /\ \A u \in Timers : u # t => flags'[u] = flags[u]
        /\ \A u \in Timers : flags'[u].pinned = flags[u].pinned /\ Kind(flags'[u]) = Kind(flags[u])
    BY <1>2, <1>3 DEF TypeOK, Flags, Kind
  <1>8. TypeOK'
    <2>1. vectors' \in [Bases -> SUBSET Timers]
      BY <1>2 DEF TypeOK
    <2>2. call' \in [Contexts -> CallTypes]
      BY <1>1, <1>2, <1>6 DEF TypeOK
    <2>3. strayed' \in [Timers -> BOOLEAN]
      BY <1>2, ObserveTypes
    <2> QED BY <1>2, <1>5, <1>7, <2>1, <2>2, <2>3 DEF TypeOK
  <1>9. QueueInv'
    <2>1. \A b \in Bases : \A u \in vectors'[b] :
            u \in vectors[b] /\ u # t /\ u \in Timers /\ flags'[u] = flags[u]
      BY <1>2, <1>7 DEF TypeOK
    <2>2. \A c \in Cpus : \A u \in run'[c].heads :
            u \in run[c].heads /\ u # t /\ u \in Timers /\ flags'[u] = flags[u]
      BY <1>2, <1>5, <1>7, RunFacts
    <2> QED BY <1>2, <1>5, <2>1, <2>2 DEF QueueInv, Base, Kind
  <1>10. ExecInv'
    <2>1. ASSUME NEW c \in Cpus, run[c].pc = "call", ~strayed'[run[c].timer]
          PROVE  \/ flags'[run[c].timer] = flags[run[c].timer]
                 \/ \E q \in Contexts : Adder(q, run[c].timer) \/ Adder(q, run[c].timer)'
      <3>1. run[c].timer \in Timers /\ run'[c].timer = run[c].timer
        BY <1>2, <1>5, <2>1, RunFacts
      <3>2. CASE run[c].timer # t
        BY <1>7, <3>1, <3>2
      <3>3. CASE run[c].timer = t /\ call[p].op = "on"
        BY <3>3 DEF Adder
      <3>4. CASE run[c].timer = t /\ call[p].op # "on"
        <4>1. ~strayed[t]
          BY <1>2, <2>1, <3>1, <3>4, StrayedFacts
        <4>2. running_timer[Base(flags[t])] = t
          BY <1>2, <2>1, <3>4, <4>1 DEF ExecInv
        <4> QED BY <1>1, <1>3, <3>4, <4>2 DEF Stays
      <3> QED BY <3>2, <3>3, <3>4
    <2> HIDE DEF Adder
    <2> QED BY <1>2, <1>5, <2>1, ExecKept
  <1>11. MoveInv'
    <2>1. Kind(flags[t]) = new[2]
      <3>1. CASE call[p].op = "on"
        BY <1>2, <1>3, <3>1 DEF NewBases, CallerInv, Kind
      <3>2. CASE call[p].op # "on"
        BY <1>3, <3>2 DEF NewBases
      <3> QED BY <3>1, <3>2
    <2>2. \A q \in Contexts : call[q].pc = "move" => call[q].timer \in Timers /\ call[q].timer # t
      BY <1>2, <1>3, CallFacts DEF MoveInv
    <2>3. ASSUME NEW q \in Contexts, call'[q].pc = "move"
          PROVE  /\ flags'[call'[q].timer].migrating /\ function'[call'[q].timer]
                 /\ call'[q].op \in Starts /\ call'[q].to \in Bases
                 /\ cpu'[call'[q].to[1]] = "online"
                 /\ Kind(flags'[call'[q].timer]) = call'[q].to[2]
      <3>1. CASE q = p
        BY <1>2, <1>3, <1>4, <1>6, <1>7, <2>1, <3>1
      <3>2. CASE q # p
        BY <1>2, <1>6, <1>7, <2>2, <2>3, <3>2 DEF MoveInv
      <3> QED BY <3>1, <3>2
    <2>4. \A q, s \in Contexts :
            call'[q].pc = "move" /\ call'[s].pc = "move" /\ call'[q].timer = call'[s].timer => q = s
      BY <1>2, <1>6, <2>2 DEF MoveInv
    <2>5. \A u \in Timers : flags'[u].migrating =>
            \E q \in Contexts : call'[q].pc = "move" /\ call'[q].timer = u
      <3>1. ASSUME NEW u \in Timers, u # t, flags'[u].migrating
            PROVE  \E q \in Contexts : call'[q].pc = "move" /\ call'[q].timer = u
        BY <1>2, <1>3, <1>6, <1>7, <3>1 DEF MoveInv
      <3> QED BY <1>6, <3>1
    <2> QED BY <2>3, <2>4, <2>5 DEF MoveInv, Kind
  <1>12. CallerInv'
    <2>1. \A q \in Contexts : call'[q].op = call[q].op /\ call'[q].timer = call[q].timer
      BY <1>6
    <2>2. ASSUME NEW q \in Contexts, call'[q].pc = "lock", call'[q].op = "on"
          PROVE  /\ ~Pending(call[q].timer)' /\ flags'[call'[q].timer].pinned
                 /\ call'[q].to \in Bases /\ call'[q].to[2] = "local"
                 /\ cpu'[call'[q].to[1]] = "online"
      <3>1. q # p /\ call'[q] = call[q] /\ call[q].timer \in Timers
        BY <1>2, <1>6, <2>2, CallFacts
      <3>2. /\ ~Pending(call[q].timer) /\ flags[call[q].timer].pinned
            /\ call[q].to \in Bases /\ call[q].to[2] = "local" /\ cpu[call[q].to[1]] = "online"
        BY <1>2, <2>2, <3>1 DEF CallerInv
      <3>3. ~Pending(call[q].timer)'
        BY <1>2, <1>5, <3>1, <3>2 DEF Pending
      <3> QED BY <1>2, <1>7, <3>1, <3>2, <3>3
    <2>3. \A q \in Cpus : call'[q].pc # "idle" => run'[q].pc = "call"
      BY <1>2, <1>3, <1>5, <1>6 DEF CallerInv, Contexts
    <2>4. \A q, s \in Contexts, u \in Timers : Adder(q, u)' /\ Starter(s, u)' => q = s
      BY <1>2, <2>1 DEF CallerInv, Adder, Starter
    <2> QED BY <2>2, <2>3, <2>4 DEF CallerInv, Adder, Starter, Pending
  <1> QED BY <1>8, <1>9, <1>10, <1>11, <1>12 DEF IInv

LEMMA ArriveKeeps ==
    ASSUME IInv, NEW p \in Contexts, Arrive(p)
    PROVE  IInv'
  <1> DEFINE t == call[p].timer
             b == call[p].to
  <1>1. /\ TypeOK /\ QueueInv /\ ExecInv /\ MoveInv /\ CallerInv /\ call[p].pc = "move"
        /\ flags' = [flags EXCEPT ![t] = [@ EXCEPT !.cpu = b[1], !.migrating = FALSE]]
        /\ vectors' = [n \in Bases |-> IF n = b THEN vectors[n] \cup {t} ELSE vectors[n] \ {t}]
        /\ HeadsLess(t) /\ call' = [call EXCEPT ![p] = Idle]
        /\ UNCHANGED <<function, running_timer, cpu>> /\ Observe
    BY DEF Arrive, Requeue, HeadsLess, Return, IInv
  <1>2. /\ t \in Timers /\ flags[t] \in Flags /\ flags[t].migrating /\ function[t]
        /\ call[p].op \in Starts /\ b \in Bases /\ cpu[b[1]] = "online"
        /\ Kind(flags[t]) = b[2]
    <2>1. t \in Timers
      BY <1>1, CallFacts
    <2> QED BY <1>1, <2>1 DEF MoveInv, TypeOK
  <1>3. /\ run' \in [Cpus -> RunTypes]
        /\ \A c \in Cpus :
              /\ run'[c].pc = run[c].pc /\ run'[c].base = run[c].base
              /\ run'[c].timer = run[c].timer /\ run'[c].heads = run[c].heads \ {t}
    BY <1>1, <1>2, HeadsLessFacts
  <1>4. /\ call'[p] = Idle /\ Idle \in CallTypes
        /\ \A q \in Contexts \ {p} : call'[q] = call[q]
        /\ \A q \in Contexts : call'[q].pc # "idle" => q # p
        /\ \A q \in Contexts : call'[q].op \in Starts => q # p
    BY <1>1 DEF TypeOK, CallTypes, Idle, Starts
  <1>5. /\ flags' \in [Timers -> Flags] /\ ~flags'[t].migrating /\ Base(flags'[t]) = b
        /\ \A u \in Timers : u # t => flags'[u] = flags[u]
        /\ \A u \in Timers : flags'[u].pinned = flags[u].pinned
    <2>1. b[1] \in Cpus /\ b = <<b[1], b[2]>>
      BY <1>2 DEF Bases
    <2> QED BY <1>1, <1>2, <2>1 DEF TypeOK, Flags, Kind, Base
  <1>6. TypeOK'
    <2>1. vectors' \in [Bases -> SUBSET Timers]
      BY <1>1, <1>2 DEF TypeOK
    <2>2. strayed' \in [Timers -> BOOLEAN]
      BY <1>1, ObserveTypes
    <2> QED BY <1>1, <1>3, <1>4, <1>5, <2>1, <2>2 DEF TypeOK
  <1>7. QueueInv'
    <2>1. ASSUME NEW n \in Bases, NEW u \in vectors'[n]
          PROVE  Base(flags'[u]) = n /\ ~flags'[u].migrating /\ cpu[n[1]] # "dead" /\ function[u]
      <3>1. CASE u = t
        BY <1>1, <1>2, <1>5, <2>1, <3>1
      <3>2. CASE u # t
        <4>1. u \in vectors[n] /\ u \in Timers
          BY <1>1, <2>1, <3>2 DEF TypeOK
        <4> QED BY <1>1, <1>5, <3>2, <4>1 DEF QueueInv
      <3> QED BY <3>1, <3>2
    <2>2. ASSUME NEW c \in Cpus, NEW u \in run'[c].heads
          PROVE  Base(flags'[u]) = run'[c].base /\ ~flags'[u].migrating /\ function[u]
      <3>1. u \in run[c].heads /\ u # t /\ u \in Timers
        BY <1>1, <1>3, <2>2, RunFacts
      <3> QED BY <1>1, <1>3, <1>5, <3>1 DEF QueueInv
    <2> QED BY <1>1, <2>1, <2>2 DEF QueueInv, Base, Kind
  <1>8. ExecInv'
    <2>1. ASSUME NEW c \in Cpus, run[c].pc = "call", ~strayed'[run[c].timer]
          PROVE  flags'[run[c].timer] = flags[run[c].timer]
      <3>1. run[c].timer \in Timers /\ run'[c].timer = run[c].timer
        BY <1>1, <1>3, <2>1, RunFacts
      <3>2. ~strayed[run[c].timer]
        BY <1>1, <2>1, <3>1, StrayedFacts
      <3>3. run[c].timer # t
        BY <1>1, <1>2, <2>1, <3>2 DEF ExecInv
      <3> QED BY <1>5, <3>1, <3>3
    <2> QED BY <1>1, <1>3, <2>1, ExecKept
  <1>9. MoveInv'
    <2>1. ASSUME NEW q \in Contexts, call'[q].pc = "move"
          PROVE  /\ call'[q] = call[q] /\ call[q].timer \in Timers /\ call[q].timer # t
                 /\ flags'[call[q].timer] = flags[call[q].timer]
      <3>1. q # p /\ call'[q] = call[q] /\ call[q].timer \in Timers
        BY <1>1, <1>4, <2>1, CallFacts
      <3>2. call[q].timer # t
        BY <1>1, <2>1, <3>1 DEF MoveInv
      <3> QED BY <1>5, <3>1, <3>2
    <2>2. ASSUME NEW u \in Timers, flags'[u].migrating
          PROVE  \E q \in Contexts : call'[q].pc = "move" /\ call'[q].timer = u
      <3>1. u # t /\ flags[u].migrating
        BY <1>5, <2>2
      <3>2. PICK q \in Contexts : call[q].pc = "move" /\ call[q].timer = u
        BY <1>1, <3>1 DEF MoveInv
      <3> QED BY <1>4, <3>1, <3>2
    <2>3. \A q, s \in Contexts :
            call'[q].pc = "move" /\ call'[s].pc = "move" /\ call'[q].timer = call'[s].timer => q = s
      BY <1>1, <2>1 DEF MoveInv
    <2> QED BY <1>1, <2>1, <2>2, <2>3 DEF MoveInv, Kind
  <1>10. CallerInv'
    <2>1. ASSUME NEW q \in Contexts, call'[q].pc = "lock", call'[q].op = "on"
          PROVE  /\ ~Pending(call[q].timer)' /\ flags'[call'[q].timer].pinned
                 /\ call'[q].to \in Bases /\ call'[q].to[2] = "local"
                 /\ cpu'[call'[q].to[1]] = "online"
      <3>1. q # p /\ call'[q] = call[q] /\ call[q].timer \in Timers
        BY <1>1, <1>4, <2>1, CallFacts
      <3>2. /\ ~Pending(call[q].timer) /\ flags[call[q].timer].pinned
            /\ call[q].to \in Bases /\ call[q].to[2] = "local" /\ cpu[call[q].to[1]] = "online"
        BY <1>1, <2>1, <3>1 DEF CallerInv
      <3>3. call[q].timer # t
        <4>1. call[q].timer = t => Adder(q, t) /\ Starter(p, t)
          BY <1>2, <2>1, <3>1 DEF Adder, Starter
        <4> QED BY <1>1, <1>2, <3>1, <4>1 DEF CallerInv
      <3>4. /\ \A n \in Bases : call[q].timer \notin vectors[n]
            /\ \A c \in Cpus : call[q].timer \notin run[c].heads
        BY <3>2 DEF Pending
      <3>5. /\ \A n \in Bases : call[q].timer \notin vectors'[n]
            /\ \A c \in Cpus : call[q].timer \notin run'[c].heads
        BY <1>1, <1>3, <3>3, <3>4
      <3>6. ~Pending(call[q].timer)'
        BY <3>1, <3>5 DEF Pending
      <3> QED BY <1>1, <1>5, <3>1, <3>2, <3>6
    <2>2. \A q \in Cpus : call'[q].pc # "idle" => run'[q].pc = "call"
      BY <1>1, <1>3, <1>4 DEF CallerInv, Contexts
    <2>3. \A q, s \in Contexts, u \in Timers : Adder(q, u)' /\ Starter(s, u)' => q = s
      <3>1. \A q \in Contexts : call'[q].op \in Starts => call'[q] = call[q]
        BY <1>4
      <3>2. "add" \in Starts /\ "on" \in Starts
        BY DEF Starts
      <3> QED BY <1>1, <3>1, <3>2 DEF CallerInv, Adder, Starter
    <2> QED BY <2>1, <2>2, <2>3 DEF CallerInv, Adder, Starter, Pending
  <1> QED BY <1>6, <1>7, <1>8, <1>9, <1>10 DEF IInv
-----------------------------------------------------------------------------
\* The expiry

\* The callers do not notice, as long as nothing gets queued and CPUs stay.
LEMMA CallersKept ==
    ASSUME TypeOK, MoveInv, CallerInv, UNCHANGED <<flags, function, call, cpu>>,
           \A u \in Timers : /\ (\A n \in Bases : u \notin vectors[n])
                             /\ (\A d \in Cpus : u \notin run[d].heads)
                             => /\ \A n \in Bases : u \notin vectors'[n]
                                /\ \A d \in Cpus : u \notin run'[d].heads,
           \A q \in Cpus : call[q].pc # "idle" => run'[q].pc = "call"
    PROVE  MoveInv' /\ CallerInv'
  <1>1. MoveInv'
    BY DEF MoveInv, Kind
  <1>2. CallerInv'
    <2>1. \A q, s \in Contexts, u \in Timers : Adder(q, u)' /\ Starter(s, u)' => q = s
      BY DEF CallerInv, Adder, Starter
    <2>2. ASSUME NEW q \in Contexts, call'[q].pc = "lock", call'[q].op = "on"
          PROVE  /\ ~Pending(call[q].timer)' /\ flags'[call'[q].timer].pinned
                 /\ call'[q].to \in Bases /\ call'[q].to[2] = "local"
                 /\ cpu'[call'[q].to[1]] = "online"
      <3>1. /\ call[q].timer \in Timers /\ ~Pending(call[q].timer) /\ flags[call[q].timer].pinned
            /\ call[q].to \in Bases /\ call[q].to[2] = "local" /\ cpu[call[q].to[1]] = "online"
        BY <2>2, CallFacts DEF CallerInv
      <3>2. /\ \A n \in Bases : call[q].timer \notin vectors'[n]
            /\ \A d \in Cpus : call[q].timer \notin run'[d].heads
        BY <3>1 DEF Pending
      <3>3. ~Pending(call[q].timer)'
        BY <3>2 DEF Pending
      <3> QED BY <3>1, <3>3
    <2> QED BY <2>1, <2>2 DEF CallerInv, Adder, Starter, Pending
  <1> QED BY <1>1, <1>2

LEMMA ExpireKeeps ==
    ASSUME ConstAssumption, IInv, NEW c \in Cpus, NEW b \in Bases, NEW expired \in SUBSET Timers,
           Expire(c, b, expired), UNCHANGED <<flags, function, call, cpu>>, Observe,
           expired \subseteq vectors[b] \cup run[c].heads,
           \A u \in expired : Base(flags[u]) = b /\ ~flags[u].migrating /\ function[u],
           cpu[c] = "online", cpu[b[1]] # "dead",
           run[c].pc = "call" => run[c].base = b,
           \A d \in Cpus : run[d].pc = "call" /\ run[d].base = b => d = c
    PROVE  IInv'
  <1>1. PICK t \in expired :
          /\ running_timer' = [running_timer EXCEPT ![b] = t]
          /\ vectors' = [vectors EXCEPT ![b] = @ \ expired]
          /\ run' = [run EXCEPT ![c] =
                [pc |-> "call", base |-> b, timer |-> t, heads |-> expired \ {t}]]
    BY DEF Expire
  <1>2. TypeOK /\ QueueInv /\ ExecInv /\ MoveInv /\ CallerInv /\ t \in Timers
    BY DEF IInv
  <1>3. /\ run'[c].pc = "call" /\ run'[c].base = b /\ run'[c].timer = t
        /\ run'[c].heads = expired \ {t}
        /\ \A d \in Cpus \ {c} : run'[d] = run[d]
        /\ running_timer'[b] = t
        /\ \A n \in Bases \ {b} : running_timer'[n] = running_timer[n]
    BY <1>1, <1>2 DEF TypeOK
  <1>4. TypeOK'
    <2>1. vectors' \in [Bases -> SUBSET Timers] /\ run' \in [Cpus -> RunTypes]
          /\ running_timer' \in [Bases -> Timers \cup {None}]
      BY <1>1, <1>2 DEF TypeOK, RunTypes
    <2>2. strayed' \in [Timers -> BOOLEAN]
      BY <1>2, ObserveTypes
    <2> QED BY <1>2, <2>1, <2>2 DEF TypeOK
  <1>5. \A n \in Bases : vectors'[n] \subseteq vectors[n]
    BY <1>1, <1>2 DEF TypeOK
  <1>6. QueueInv'
    <2>1. \A n \in Bases : \A u \in vectors'[n] :
            Base(flags[u]) = n /\ ~flags[u].migrating /\ cpu[n[1]] # "dead" /\ function[u]
      BY <1>2, <1>5 DEF QueueInv
    <2>2. \A d \in Cpus : \A u \in run'[d].heads :
            Base(flags[u]) = run'[d].base /\ ~flags[u].migrating /\ function[u]
      BY <1>2, <1>3 DEF QueueInv
    <2> QED BY <2>1, <2>2 DEF QueueInv, Base, Kind
  <1>7. ExecInv'
    <2>1. ASSUME NEW d \in Cpus, d # c, run'[d].pc = "call"
          PROVE  run[d].pc = "call" /\ run'[d] = run[d] /\ run[d].base \in Bases \ {b}
      BY <1>2, <1>3, <2>1, RunFacts
    <2>2. ASSUME NEW d \in Cpus, run'[d].pc = "call"
          PROVE  /\ running_timer'[run'[d].base] = run'[d].timer
                 /\ cpu[run'[d].base[1]] # "dead" /\ cpu[d] = "online"
      BY <1>2, <1>3, <2>1, <2>2 DEF ExecInv
    <2>3. \A d, e \in Cpus : run'[d].pc = "call" /\ run'[e].pc = "call"
                             /\ run'[d].base = run'[e].base => d = e
      BY <1>2, <1>3, <2>1 DEF ExecInv
    <2>4. ASSUME NEW n \in Bases, running_timer'[n] # None
          PROVE  \E d \in Cpus : run'[d].pc = "call" /\ run'[d].base = n
      <3>1. CASE n = b
        BY <1>3, <3>1
      <3>2. CASE n # b
        <4>1. PICK d \in Cpus : run[d].pc = "call" /\ run[d].base = n
          BY <1>2, <1>3, <2>4, <3>2 DEF ExecInv
        <4> QED BY <1>3, <3>2, <4>1
      <3> QED BY <3>1, <3>2
    <2>5. ASSUME NEW d \in Cpus, run'[d].pc = "call", ~strayed'[run'[d].timer]
          PROVE  Base(flags[run'[d].timer]) = run'[d].base /\ ~flags[run'[d].timer].migrating
      <3>1. CASE d = c
        BY <1>3, <3>1
      <3>2. CASE d # c
        <4>1. run[d].timer \in Timers /\ run'[d].timer = run[d].timer /\ run[d].pc = "call"
              /\ run'[d].base = run[d].base
          BY <1>2, <2>1, <2>5, <3>2, RunFacts
        <4>2. ~strayed[run[d].timer]
          BY <1>2, <2>5, <4>1, StrayedFacts
        <4> QED BY <1>2, <4>1, <4>2 DEF ExecInv
      <3> QED BY <3>1, <3>2
    <2> QED BY <2>2, <2>3, <2>4, <2>5 DEF ExecInv, Base, Kind
  <1>8. MoveInv' /\ CallerInv'
    <2>1. ASSUME NEW u \in Timers, \A n \in Bases : u \notin vectors[n],
                 \A d \in Cpus : u \notin run[d].heads
          PROVE  /\ \A n \in Bases : u \notin vectors'[n]
                 /\ \A d \in Cpus : u \notin run'[d].heads
      BY <1>3, <1>5, <2>1
    <2>2. \A q \in Cpus : call[q].pc # "idle" => run'[q].pc = "call"
      BY <1>2, <1>3 DEF CallerInv
    <2> QED BY <1>2, <2>1, <2>2, CallersKept
  <1> QED BY <1>4, <1>6, <1>7, <1>8 DEF IInv

LEMMA RunTimersKeeps ==
    ASSUME ConstAssumption, IInv, NEW c \in Cpus, NEW b \in Bases, RunTimers(c, b)
    PROVE  IInv'
  <1>1. PICK expired \in SUBSET vectors[b] : Expire(c, b, expired)
    BY DEF RunTimers
  <1>2. /\ TypeOK /\ QueueInv /\ ExecInv /\ UNCHANGED <<flags, function, call, cpu>> /\ Observe
        /\ run[c].pc = "idle" /\ cpu[c] = "online" /\ cpu[b[1]] # "dead"
        /\ running_timer[b] = None
    BY DEF RunTimers, IInv
  <1>3. \A d \in Cpus : ~(run[d].pc = "call" /\ run[d].base = b)
    BY <1>2, RunFacts DEF ExecInv, ConstAssumption
  <1>4. expired \in SUBSET Timers
    BY <1>2 DEF TypeOK
  <1>5. \A u \in expired : Base(flags[u]) = b /\ ~flags[u].migrating /\ function[u]
    BY <1>2 DEF QueueInv
  <1> QED BY <1>1, <1>2, <1>3, <1>4, <1>5, ExpireKeeps

LEMMA CallbackDoneKeeps ==
    ASSUME ConstAssumption, IInv, NEW c \in Cpus, CallbackDone(c)
    PROVE  IInv'
  <1> DEFINE b == run[c].base
             heads == {t \in run[c].heads : function[t]}
  <1>1. /\ TypeOK /\ QueueInv /\ ExecInv /\ MoveInv /\ CallerInv
        /\ UNCHANGED <<flags, function, call, cpu>> /\ Observe
        /\ run[c].pc = "call" /\ call[c].pc = "idle"
    BY DEF CallbackDone, IInv
  <1>2. /\ b \in Bases /\ run[c].timer \in Timers /\ run[c].heads \subseteq Timers
        /\ cpu[c] = "online" /\ cpu[b[1]] # "dead"
        /\ \A d \in Cpus : run[d].pc = "call" /\ run[d].base = b => d = c
    BY <1>1, RunFacts DEF ExecInv
  <1>3. ASSUME NEW expired \in SUBSET vectors[b], Expire(c, b, expired) PROVE IInv'
    <2>1. expired \in SUBSET Timers
      BY <1>1, <1>2 DEF TypeOK
    <2>2. \A u \in expired : Base(flags[u]) = b /\ ~flags[u].migrating /\ function[u]
      BY <1>1, <1>2 DEF QueueInv
    <2> QED BY <1>1, <1>2, <1>3, <2>1, <2>2, ExpireKeeps
  <1>4. CASE Expire(c, b, heads)
    <2>1. heads \in SUBSET Timers /\ heads \subseteq run[c].heads
      BY <1>2
    <2>2. \A u \in heads : Base(flags[u]) = b /\ ~flags[u].migrating /\ function[u]
      BY <1>1, <2>1 DEF QueueInv
    <2> HIDE DEF heads
    <2> QED BY <1>1, <1>2, <1>4, <2>1, <2>2, ExpireKeeps
  <1>5. CASE /\ running_timer' = [running_timer EXCEPT ![b] = None]
             /\ run' = [run EXCEPT ![c] = Rest]
             /\ UNCHANGED vectors
    <2>1. /\ run'[c] = Rest /\ Rest.pc = "idle" /\ Rest.heads = {} /\ Rest \in RunTypes
          /\ \A d \in Cpus \ {c} : run'[d] = run[d]
          /\ \A d \in Cpus : run'[d].pc = "call" => d # c /\ run[d].pc = "call" /\ run'[d] = run[d]
      BY <1>1, <1>5 DEF TypeOK, Rest, RunTypes
    <2>2. TypeOK'
      <3>1. strayed' \in [Timers -> BOOLEAN]
        BY <1>1, ObserveTypes
      <3> QED BY <1>1, <1>2, <1>5, <2>1, <3>1 DEF TypeOK
    <2>3. QueueInv'
      <3>1. \A d \in Cpus : \A u \in run'[d].heads :
              Base(flags[u]) = run'[d].base /\ ~flags[u].migrating /\ function[u]
        BY <1>1, <2>1 DEF QueueInv
      <3> QED BY <1>1, <1>5, <3>1 DEF QueueInv, Base, Kind
    <2>4. ExecInv'
      <3>1. ASSUME NEW d \in Cpus, run'[d].pc = "call"
            PROVE  /\ run'[d] = run[d] /\ run[d].base \in Bases \ {b} /\ run[d].timer \in Timers
                   /\ running_timer'[run[d].base] = run[d].timer
                   /\ cpu[run[d].base[1]] # "dead" /\ cpu[d] = "online"
        <4>1. run[d].pc = "call" /\ d # c /\ run'[d] = run[d]
          BY <2>1, <3>1
        <4>2. run[d].base \in Bases \ {b} /\ run[d].timer \in Timers
          BY <1>1, <1>2, <4>1, RunFacts
        <4> QED BY <1>1, <1>5, <4>1, <4>2 DEF ExecInv, TypeOK
      <3>2. ASSUME NEW n \in Bases, running_timer'[n] # None
            PROVE  \E d \in Cpus : run'[d].pc = "call" /\ run'[d].base = n
        <4>1. n # b /\ running_timer[n] # None
          BY <1>1, <1>2, <1>5, <3>2 DEF TypeOK
        <4>2. PICK d \in Cpus : run[d].pc = "call" /\ run[d].base = n
          BY <1>1, <4>1 DEF ExecInv
        <4> QED BY <2>1, <4>1, <4>2
      <3>3. ASSUME NEW d \in Cpus, run'[d].pc = "call", ~strayed'[run'[d].timer]
            PROVE  Base(flags[run'[d].timer]) = run'[d].base /\ ~flags[run'[d].timer].migrating
        <4>1. run'[d] = run[d] /\ run[d].pc = "call" /\ run[d].timer \in Timers
          BY <2>1, <3>1, <3>3
        <4>2. ~strayed[run[d].timer]
          BY <1>1, <3>3, <4>1, StrayedFacts
        <4> QED BY <1>1, <4>1, <4>2 DEF ExecInv
      <3>4. \A d, e \in Cpus : run'[d].pc = "call" /\ run'[e].pc = "call"
                               /\ run'[d].base = run'[e].base => d = e
        BY <1>1, <2>1 DEF ExecInv
      <3> QED BY <1>1, <3>1, <3>2, <3>3, <3>4 DEF ExecInv, Base, Kind
    <2>5. MoveInv' /\ CallerInv'
      <3>1. ASSUME NEW u \in Timers, \A n \in Bases : u \notin vectors[n],
                   \A d \in Cpus : u \notin run[d].heads
            PROVE  /\ \A n \in Bases : u \notin vectors'[n]
                   /\ \A d \in Cpus : u \notin run'[d].heads
        BY <1>5, <2>1, <3>1
      <3>2. \A q \in Cpus : call[q].pc # "idle" => run'[q].pc = "call"
        BY <1>1, <2>1 DEF CallerInv
      <3> QED BY <1>1, <3>1, <3>2, CallersKept
    <2> QED BY <2>2, <2>3, <2>4, <2>5 DEF IInv
  <1> QED BY <1>3, <1>4, <1>5 DEF CallbackDone
-----------------------------------------------------------------------------
\* CPU hotplug

LEMMA CpuStateKeeps ==
    ASSUME IInv, NEW c \in Cpus, CpuDying(c) \/ CpuPrepare(c)
    PROVE  IInv'
  <1>1. /\ TypeOK /\ QueueInv /\ ExecInv /\ MoveInv /\ CallerInv
        /\ UNCHANGED <<flags, function, queues, call>> /\ Observe
        /\ UNCHANGED <<vectors, running_timer, run>>
    BY DEF CpuDying, CpuPrepare, IInv, queues
  <1>2. /\ cpu' \in [Cpus -> {"online", "dying", "dead"}]
        /\ \A d \in Cpus : cpu[d] # "dead" => cpu'[d] # "dead"
        /\ \A d \in Cpus : cpu[d] = "online" /\ run[d].pc = "call" => cpu'[d] = "online"
        /\ \A q \in Contexts : call[q].to \in Bases /\ cpu[call[q].to[1]] = "online" =>
              cpu'[call[q].to[1]] = "online"
    <2>1. CASE CpuDying(c)
      <3>1. cpu' = [cpu EXCEPT ![c] = "dying"] /\ run[c].pc = "idle" /\ Untouched(c)
        BY <2>1 DEF CpuDying
      <3>2. \A q \in Contexts : call[q].to \in Bases => call[q].to[1] \in Cpus \ {c}
        <4> SUFFICES ASSUME NEW q \in Contexts, call[q].to \in Bases
                     PROVE  call[q].to[1] \in Cpus \ {c}
          OBVIOUS
        <4>1. PICK d \in Cpus, k \in Kinds : call[q].to = <<d, k>>
          BY DEF Bases
        <4> QED BY <3>1, <4>1 DEF Untouched
      <3> QED BY <1>1, <3>1, <3>2 DEF TypeOK
    <2>2. CASE CpuPrepare(c)
      BY <1>1, <2>2 DEF CpuPrepare, TypeOK, Bases
    <2> QED BY <2>1, <2>2
  <1>3. TypeOK'
    BY <1>1, <1>2, ObserveTypes DEF TypeOK
  <1>4. QueueInv'
    <2>1. \A b \in Bases : b[1] \in Cpus
      BY DEF Bases
    <2> QED BY <1>1, <1>2, <2>1 DEF QueueInv, Base, Kind
  <1>5. ExecInv'
    <2>1. ASSUME NEW d \in Cpus, run[d].pc = "call"
          PROVE  /\ running_timer[run[d].base] = run[d].timer
                 /\ cpu'[run[d].base[1]] # "dead" /\ cpu'[d] = "online"
      <3>1. run[d].base[1] \in Cpus
        BY <1>1, <2>1, RunFacts DEF Bases
      <3> QED BY <1>1, <1>2, <2>1, <3>1 DEF ExecInv
    <2>2. ASSUME NEW d \in Cpus, run[d].pc = "call", ~strayed'[run[d].timer]
          PROVE  Base(flags[run[d].timer]) = run[d].base /\ ~flags[run[d].timer].migrating
      <3>1. run[d].timer \in Timers /\ run'[d].timer = run[d].timer
        BY <1>1, <2>2, RunFacts
      <3>2. ~strayed[run[d].timer]
        BY <1>1, <2>2, <3>1, StrayedFacts
      <3> QED BY <1>1, <2>2, <3>2 DEF ExecInv
    <2> QED BY <1>1, <2>1, <2>2 DEF ExecInv, Base, Kind
  <1>6. MoveInv'
    BY <1>1, <1>2 DEF MoveInv, Kind
  <1>7. CallerInv'
    BY <1>1, <1>2 DEF CallerInv, Adder, Starter, Pending
  <1> QED BY <1>3, <1>4, <1>5, <1>6, <1>7 DEF IInv

LEMMA TimersDeadKeeps ==
    ASSUME ConstAssumption, IInv, NEW c \in Cpus, NEW n \in Cpus, TimersDead(c, n)
    PROVE  IInv'
  <1> DEFINE moved(t) == \E k \in Kinds : t \in vectors[<<c, k>>]
  <1>1. /\ TypeOK /\ QueueInv /\ ExecInv /\ MoveInv /\ CallerInv
        /\ c # n /\ cpu[c] = "dying" /\ cpu[n] = "online"
        /\ \A k \in Kinds : running_timer[<<c, k>>] = None
        /\ flags' = [t \in Timers |->
              IF moved(t) THEN [flags[t] EXCEPT !.cpu = n, !.migrating = FALSE] ELSE flags[t]]
        /\ vectors' = [b \in Bases |->
              IF b[1] = c THEN {}
              ELSE IF b[1] = n THEN vectors[b] \cup vectors[<<c, b[2]>>] ELSE vectors[b]]
        /\ cpu' = [cpu EXCEPT ![c] = "dead"]
        /\ UNCHANGED <<function, running_timer, run, call>> /\ Observe
    BY DEF TimersDead, FlagsMoved, IInv
  <1>0. UNCHANGED <<function, running_timer, run, call>>
    BY <1>1
  <1>2. \A k \in Kinds : <<c, k>> \in Bases /\ <<n, k>> \in Bases
    BY DEF Bases
  <1>3. \A b \in Bases : b[1] \in Cpus /\ b[2] \in Kinds /\ b = <<b[1], b[2]>>
    BY DEF Bases
  <1>4. /\ \A t \in Timers : flags'[t] \in Flags /\ flags'[t].pinned = flags[t].pinned
        /\ \A t \in Timers : ~moved(t) => flags'[t] = flags[t]
        /\ \A t \in Timers : moved(t) =>
              /\ ~flags[t].migrating /\ ~flags'[t].migrating /\ Base(flags[t])[1] = c
              /\ flags'[t].cpu = n /\ Kind(flags'[t]) = Kind(flags[t])
    <2>1. ASSUME NEW t \in Timers, moved(t)
          PROVE  ~flags[t].migrating /\ Base(flags[t])[1] = c
      <3>1. PICK k \in Kinds : t \in vectors[<<c, k>>]
        BY <2>1
      <3>2. Base(flags[t]) = <<c, k>> /\ ~flags[t].migrating
        BY <1>1, <1>2, <3>1 DEF QueueInv
      <3> QED BY <3>2
    <2>2. ASSUME NEW t \in Timers
          PROVE  /\ flags'[t] \in Flags /\ flags'[t].pinned = flags[t].pinned
                 /\ ~moved(t) => flags'[t] = flags[t]
                 /\ moved(t) => flags'[t].cpu = n /\ ~flags'[t].migrating
      <3>1. flags[t] \in Flags
        BY <1>1 DEF TypeOK
      <3>2. flags'[t] = IF moved(t) THEN [flags[t] EXCEPT !.cpu = n, !.migrating = FALSE] ELSE flags[t]
        BY <1>1
      <3> HIDE DEF moved
      <3> QED BY <3>1, <3>2 DEF Flags
    <2> HIDE DEF moved
    <2> QED BY <2>1, <2>2 DEF Kind
  <1>5. /\ cpu' \in [Cpus -> {"online", "dying", "dead"}]
        /\ \A d \in Cpus \ {c} : cpu'[d] = cpu[d]
        /\ \A d \in Cpus : cpu[d] = "online" => d # c /\ cpu'[d] = "online"
    BY <1>1 DEF TypeOK
  \* No base of c is being expired, so that its timers are not among those collected.
  <1>6. \A d \in Cpus : run[d].pc = "call" =>
          /\ run[d].base \in Bases /\ run[d].base[1] # c /\ run[d].timer \in Timers
    <2> SUFFICES ASSUME NEW d \in Cpus, run[d].pc = "call"
                 PROVE  /\ run[d].base \in Bases /\ run[d].base[1] # c /\ run[d].timer \in Timers
      OBVIOUS
    <2>1. run[d].base \in Bases /\ run[d].timer \in Timers
      BY <1>1, RunFacts
    <2>2. running_timer[run[d].base] # None
      <3>1. running_timer[run[d].base] = run[d].timer
        BY <1>1 DEF ExecInv
      <3> QED BY <2>1, <3>1 DEF ConstAssumption
    <2>3. run[d].base = <<run[d].base[1], run[d].base[2]>> /\ run[d].base[2] \in Kinds
      BY <1>3, <2>1
    <2> QED BY <1>1, <2>1, <2>2, <2>3
  <1>7. TypeOK'
    <2>1. vectors' \in [Bases -> SUBSET Timers]
      BY <1>1, <1>2, <1>3 DEF TypeOK
    <2>2. flags' \in [Timers -> Flags]
      BY <1>1, <1>4
    <2>3. strayed' \in [Timers -> BOOLEAN]
      BY <1>1, ObserveTypes
    <2> QED BY <1>1, <1>5, <2>1, <2>2, <2>3 DEF TypeOK
  <1>8. QueueInv'
    <2>1. ASSUME NEW b \in Bases, NEW u \in vectors'[b]
          PROVE  Base(flags'[u]) = b /\ ~flags'[u].migrating /\ cpu'[b[1]] # "dead" /\ function[u]
      <3>1. b[1] # c
        BY <1>1, <2>1
      <3>2. CASE u \in vectors[b]
        <4>1. Base(flags[u]) = b /\ ~flags[u].migrating /\ cpu[b[1]] # "dead" /\ function[u]
              /\ u \in Timers
          BY <1>1, <3>2 DEF QueueInv, TypeOK
        <4>2. flags'[u] = flags[u]
          BY <1>4, <3>1, <4>1
        <4> QED BY <1>3, <1>5, <3>1, <4>1, <4>2
      <3>3. CASE u \notin vectors[b]
        <4>1. b[1] = n /\ u \in vectors[<<c, b[2]>>] /\ b[2] \in Kinds
          BY <1>1, <1>3, <2>1, <3>3
        <4>2. u \in Timers /\ Base(flags[u]) = <<c, b[2]>> /\ function[u]
          BY <1>1, <1>2, <4>1 DEF QueueInv, TypeOK
        <4>3. /\ moved(u) /\ flags'[u].cpu = n /\ Kind(flags'[u]) = b[2]
              /\ ~flags'[u].migrating
          BY <1>4, <4>1, <4>2 DEF Base
        <4>4. Base(flags'[u]) = b
          BY <1>3, <4>1, <4>3 DEF Base
        <4> QED BY <1>1, <1>5, <4>1, <4>2, <4>3, <4>4
      <3> QED BY <3>2, <3>3
    <2>2. ASSUME NEW d \in Cpus, NEW u \in run[d].heads
          PROVE  Base(flags'[u]) = run[d].base /\ ~flags'[u].migrating /\ function[u]
      <3>1. u \in Timers /\ run[d].pc = "call"
        BY <1>1, <2>2, RunFacts
      <3>2. Base(flags[u]) = run[d].base /\ ~flags[u].migrating /\ function[u]
        BY <1>1, <2>2 DEF QueueInv
      <3>3. flags'[u] = flags[u]
        BY <1>4, <1>6, <3>1, <3>2
      <3> QED BY <3>2, <3>3
    <2> QED BY <1>0, <2>1, <2>2 DEF QueueInv, Base, Kind
  <1>9. ExecInv'
    <2>1. ASSUME NEW d \in Cpus, run[d].pc = "call"
          PROVE  /\ running_timer[run[d].base] = run[d].timer
                 /\ cpu'[run[d].base[1]] # "dead" /\ cpu'[d] = "online"
      BY <1>1, <1>3, <1>5, <1>6, <2>1 DEF ExecInv
    <2>2. ASSUME NEW d \in Cpus, run[d].pc = "call", ~strayed'[run[d].timer]
          PROVE  Base(flags'[run[d].timer]) = run[d].base /\ ~flags'[run[d].timer].migrating
      <3>1. run[d].timer \in Timers /\ run'[d].timer = run[d].timer
        BY <1>1, <1>6, <2>2
      <3>2. ~strayed[run[d].timer]
        BY <1>1, <2>2, <3>1, StrayedFacts
      <3>3. Base(flags[run[d].timer]) = run[d].base /\ ~flags[run[d].timer].migrating
        BY <1>1, <2>2, <3>2 DEF ExecInv
      <3>4. flags'[run[d].timer] = flags[run[d].timer]
        BY <1>4, <1>6, <2>2, <3>1, <3>3
      <3> QED BY <3>3, <3>4
    <2>3. \A d, e \in Cpus : run[d].pc = "call" /\ run[e].pc = "call" /\ run[d].base = run[e].base =>
            d = e
      BY <1>1 DEF ExecInv
    <2>4. \A b \in Bases : running_timer[b] # None =>
            \E d \in Cpus : run[d].pc = "call" /\ run[d].base = b
      BY <1>1 DEF ExecInv
    <2> QED BY <1>0, <2>1, <2>2, <2>3, <2>4 DEF ExecInv, Base, Kind
  <1>10. MoveInv'
    <2>1. ASSUME NEW q \in Contexts, call[q].pc = "move"
          PROVE  /\ flags'[call[q].timer].migrating /\ function[call[q].timer]
                 /\ call[q].op \in Starts /\ call[q].to \in Bases
                 /\ cpu'[call[q].to[1]] = "online"
                 /\ Kind(flags'[call[q].timer]) = call[q].to[2]
      <3>1. /\ call[q].timer \in Timers /\ flags[call[q].timer].migrating
            /\ function[call[q].timer] /\ call[q].op \in Starts /\ call[q].to \in Bases
            /\ cpu[call[q].to[1]] = "online" /\ Kind(flags[call[q].timer]) = call[q].to[2]
        BY <1>1, <2>1, CallFacts DEF MoveInv
      <3>2. flags'[call[q].timer] = flags[call[q].timer]
        BY <1>4, <3>1
      <3> QED BY <1>3, <1>5, <3>1, <3>2
    <2>2. \A u \in Timers : flags'[u].migrating =>
            \E q \in Contexts : call[q].pc = "move" /\ call[q].timer = u
      BY <1>1, <1>4 DEF MoveInv
    <2>3. \A q, s \in Contexts :
            call[q].pc = "move" /\ call[s].pc = "move" /\ call[q].timer = call[s].timer => q = s
      BY <1>1 DEF MoveInv
    <2> QED BY <1>0, <2>1, <2>2, <2>3 DEF MoveInv, Kind
  <1>11. CallerInv'
    <2>1. ASSUME NEW q \in Contexts, call[q].pc = "lock", call[q].op = "on"
          PROVE  /\ ~Pending(call[q].timer)' /\ flags'[call[q].timer].pinned
                 /\ call[q].to \in Bases /\ call[q].to[2] = "local"
                 /\ cpu'[call[q].to[1]] = "online"
      <3>1. /\ call[q].timer \in Timers /\ ~Pending(call[q].timer) /\ flags[call[q].timer].pinned
            /\ call[q].to \in Bases /\ call[q].to[2] = "local" /\ cpu[call[q].to[1]] = "online"
        BY <1>1, <2>1, CallFacts DEF CallerInv
      <3>2. /\ \A b \in Bases : call[q].timer \notin vectors[b]
            /\ \A d \in Cpus : call[q].timer \notin run[d].heads
        BY <3>1 DEF Pending
      <3>3. /\ \A b \in Bases : call[q].timer \notin vectors'[b]
            /\ \A d \in Cpus : call[q].timer \notin run'[d].heads
        BY <1>1, <1>2, <1>3, <3>2
      <3>4. ~Pending(call[q].timer)'
        BY <1>1, <3>3 DEF Pending
      <3> QED BY <1>3, <1>4, <1>5, <3>1, <3>4
    <2>2. \A q, s \in Contexts, u \in Timers : Adder(q, u)' /\ Starter(s, u)' => q = s
      BY <1>1 DEF CallerInv, Adder, Starter
    <2>3. \A q \in Cpus : call'[q].pc # "idle" => run'[q].pc = "call"
      BY <1>1 DEF CallerInv
    <2> QED BY <1>1, <2>1, <2>2, <2>3 DEF CallerInv, Adder, Starter, Pending
  <1> QED BY <1>7, <1>8, <1>9, <1>10, <1>11 DEF IInv

-----------------------------------------------------------------------------
\* Together

LEMMA StutterKeeps ==
    ASSUME IInv, UNCHANGED vars
    PROVE  IInv'
  <1>1. UNCHANGED <<flags, function, vectors, running_timer, run, call, cpu, strayed>>
    BY DEF vars, queues
  <1> QED BY <1>1 DEF IInv, TypeOK, QueueInv, ExecInv, MoveInv, CallerInv, Adder, Starter, Pending,
                      Base, Kind

LEMMA NextInv ==
    ASSUME ConstAssumption, IInv, Next
    PROVE  IInv'
  <1>1. ASSUME NEW p \in Contexts, Step(p) PROVE IInv'
    <2>1. CASE ReadAgain(p)
      BY <2>1, ReadAgainKeeps
    <2>2. CASE NothingToDo(p)
      BY <2>2, NothingKeeps
    <2>3. CASE Enqueue(p)
      BY <2>3, EnqueueKeeps
    <2>4. CASE Leave(p)
      BY <2>4, LeaveKeeps
    <2>5. CASE Arrive(p)
      BY <2>5, ArriveKeeps
    <2>6. CASE DeleteLocked(p)
      BY <2>6, RemoveKeeps DEF DeleteLocked
    <2>7. CASE TryToDelete(p)
      BY <2>7, RemoveKeeps DEF TryToDelete
    <2> QED BY <1>1, <2>1, <2>2, <2>3, <2>4, <2>5, <2>6, <2>7 DEF Step
  <1>2. ASSUME NEW p \in Contexts, NEW t \in Timers, Calls(p, t) PROVE IInv'
    BY <1>2, CallsKeep
  <1>3. ASSUME NEW c \in Cpus, Expiry(c) PROVE IInv'
    BY <1>3, RunTimersKeeps, CallbackDoneKeeps DEF Expiry
  <1>4. ASSUME NEW c \in Cpus, HotplugStep(c) PROVE IInv'
    BY <1>4, CpuStateKeeps, TimersDeadKeeps DEF HotplugStep
  <1> QED BY <1>1, <1>2, <1>3, <1>4 DEF Next

LEMMA Invariance == Spec => []IInv
  <1>1. IInv /\ [Next]_vars => IInv'
    BY ConstAssumption, NextInv, StutterKeeps
  <1> QED BY InitInv, <1>1, PTL DEF Spec

\* The variables of timer.c keep their types, whatever calls are made.
THEOREM TypeCorrect == Spec => []TypeOK
  <1>1. IInv => TypeOK
    BY DEF IInv
  <1> QED BY Invariance, <1>1, PTL

\* __mod_timer() and add_timer_on() look at timer->function with the lock of the base,
\* so that a timer that was shut down is on no list and on no way to one.
THEOREM ShutdownFinal == Spec => []ShutdownIsFinal
  <1>1. IInv => ShutdownIsFinal
    BY DEF IInv, QueueInv, MoveInv, ShutdownIsFinal, Pending
  <1> QED BY Invariance, <1>1, PTL

\* A timer stays on the base that calls it, and one CPU expires a base: no two CPUs
\* call it at a time.
THEOREM Serialized == Spec => []SerializedWithItself
  <1>1. ASSUME IInv PROVE SerializedWithItself
    <2> SUFFICES ASSUME NEW c \in Cpus, NEW d \in Cpus, run[c].timer = run[d].timer,
                        run[c].timer # None, ~strayed[run[c].timer]
                 PROVE  c = d
      BY DEF SerializedWithItself
    <2>1. TypeOK /\ ExecInv
      BY <1>1 DEF IInv
    <2>2. run[c].pc = "call" /\ run[d].pc = "call"
      BY <2>1, RunFacts
    <2>3. run[c].base = run[d].base
      BY <2>1, <2>2 DEF ExecInv
    <2> QED BY <2>1, <2>2, <2>3 DEF ExecInv
  <1> QED BY Invariance, <1>1, PTL

\* The base that the flags name has the timer, in its buckets or among those that are
\* being expired, and its CPU is not gone.
THEOREM WhereFlagsSay == Spec => []QueuedWhereFlagsSay
  <1>1. ASSUME IInv PROVE QueuedWhereFlagsSay
    <2>1. TypeOK /\ QueueInv /\ ExecInv
      BY <1>1 DEF IInv
    <2>2. ASSUME NEW t \in Timers, NEW c \in Cpus, t \in run[c].heads
          PROVE  Base(flags[t]) = run[c].base /\ ~flags[t].migrating /\ cpu[run[c].base[1]] # "dead"
      BY <2>1, <2>2, RunFacts DEF QueueInv, ExecInv
    <2> QED BY <2>1, <2>2 DEF QueueInv, QueuedWhereFlagsSay
  <1> QED BY Invariance, <1>1, PTL

\* Who spins in lock_timer_base() or timer_delete_sync() waits for somebody.
THEOREM SomebodyActs == Spec => []NobodyWaitsInVain
  <1>1. ASSUME IInv PROVE NobodyWaitsInVain
    <2>1. ExecInv /\ MoveInv
      BY <1>1 DEF IInv
    <2>2. ASSUME NEW b \in Bases, running_timer[b] # None
          PROVE  \E c \in Cpus : run[c].base = b /\ run[c].timer = running_timer[b]
      BY <2>1, <2>2 DEF ExecInv
    <2> QED BY <2>1, <2>2 DEF MoveInv, NobodyWaitsInVain
  <1> QED BY Invariance, <1>1, PTL

\* timer_delete_sync() and timer_shutdown_sync() return when the timer is on no list and
\* its function runs nowhere.
THEOREM SyncReturnsIdle == Spec => SyncMeansIdle
  <1> DEFINE Sync == \A p \in Threads, t \in Timers : call[p].timer = t /\ TryToDelete(p) =>
                        ~Pending(t)' /\ (Running(t)' => strayed[t])
  <1>1. ASSUME IInv PROVE Sync
    <2> SUFFICES ASSUME NEW p \in Threads, NEW t \in Timers, call[p].timer = t, TryToDelete(p)
                 PROVE  ~Pending(t)' /\ (Running(t)' => strayed[t])
      OBVIOUS
    <2>1. TypeOK /\ ExecInv /\ p \in Contexts
      BY <1>1 DEF IInv, Contexts
    <2>2. /\ Locked(p, {"sync", "shutdown_sync"}) /\ running_timer[Base(call[p].tf)] # t
          /\ vectors' = [b \in Bases |-> vectors[b] \ {t}] /\ HeadsLess(t)
      BY DEF TryToDelete, Remove, Detach, HeadsLess
    <2>3. call[p].tf = flags[t]
      BY <2>1, <2>2, LockedFacts
    <2>4. \A c \in Cpus : run'[c].timer = run[c].timer /\ run'[c].heads = run[c].heads \ {t}
      BY <2>1, <2>2, HeadsLessFacts
    <2>5. ~Pending(t)'
      BY <2>2, <2>4 DEF Pending
    <2>6. ASSUME NEW c \in Cpus, run[c].timer = t, ~strayed[t] PROVE FALSE
      <3>1. run[c].pc = "call"
        BY <2>1, <2>6, RunFacts, ConstAssumption DEF ConstAssumption
      <3>2. running_timer[run[c].base] = t /\ Base(flags[t]) = run[c].base
        BY <2>1, <2>6, <3>1 DEF ExecInv
      <3> QED BY <2>2, <2>3, <3>2
    <2>7. Running(t)' => strayed[t]
      BY <2>4, <2>6 DEF Running
    <2> QED BY <2>5, <2>7
  <1>2. IInv /\ [Next]_vars => [Sync]_vars
    BY <1>1
  <1> QED BY Invariance, <1>2, PTL DEF Spec, SyncMeansIdle
=============================================================================
