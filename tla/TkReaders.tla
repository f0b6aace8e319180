----------------------------- MODULE TkReaders -----------------------------
(***************************************************************************)
(* How an update of the core timekeeper reaches its readers                 *)
(* (linux_source/kernel/time/timekeeping.c): the vDSO data, the two latched *)
(* copies that an NMI may read at any moment (tk_fast_mono, tk_fast_raw)    *)
(* and the timekeeper behind tk_core.seq are written one after the other,   *)
(* word by word, while readers of every kind go on.                         *)
(*                                                                         *)
(* What Timekeeping computes is abstracted to the number of the update      *)
(* ("version"): a reader is right if every word it has used is of the same  *)
(* update, and of one that is not older than what was seen before.  The     *)
(* writer holds tk_core.lock, so that there is one.                         *)
(***************************************************************************)
EXTENDS Integers

CONSTANTS
    Readers,     \* contexts that read the time
    MaxVersion   \* bound on the updates

ASSUME MaxAssumption == MaxVersion \in Nat

VARIABLES
    version,     \* of the shadow timekeeper
    writer,      \* the writer: pc, phase, the latch it is at and the words left to copy
    seq,         \* tk_core.seq
    vdso,        \* version of the vDSO data
    latch,       \* tk_fast_mono (1) and tk_fast_raw (2): seq
    tkf_base,    \* their base[0] and base[1], per word
    timekeeper,  \* tk_core.timekeeper, per word; xtime_sec is "lo" and "hi"
    asleep,      \* between timekeeping_suspend() and the end of timekeeping_resume()
    reader,      \* per context: pc, kind, latch, seq, words left, words read, from
    seen         \* the newest version a finished reader of each kind has returned

readers_vars == <<version, writer, seq, vdso, latch, tkf_base, timekeeper, asleep, reader, seen>>

Latches == 1 .. 2
Words   == {"a", "b"}
Seconds == {"lo", "hi"}
Kinds   == {"core", "fast", "vdso", "sec"}
Phases  == {"update", "suspend", "halt", "resume"}

-----------------------------------------------------------------------------
\* The writer

Goto(pc, k, left) == writer' = [writer EXCEPT !.pc = pc, !.latch = k, !.left = left]

\* In timekeeping_suspend() and timekeeping_resume() one CPU is left, with
\* interrupts off: what can interrupt it is an NMI
OnlyNMIs == \A r \in Readers : reader[r].kind = "fast" \/ reader[r].pc = "idle"

\* write_seqcount_begin() of timekeeping_update_from_shadow()
UpdateBegin(phase) ==
    /\ writer.pc = "idle" /\ version < MaxVersion
    /\ phase \in {"update", "suspend", "resume"}
    /\ asleep = (phase = "resume")
    /\ phase = "suspend" => OnlyNMIs
    /\ asleep' = (phase # "update")
    /\ version' = version + 1
    /\ seq' = seq + 1
    /\ writer' = [pc |-> "vdso", phase |-> phase, latch |-> 1, left |-> {}]
    /\ UNCHANGED <<vdso, latch, tkf_base, timekeeper, reader, seen>>

\* External: update_vsyscall() has a sequence counter of its own
UpdateVsyscall ==
    /\ writer.pc = "vdso"
    /\ vdso' = version
    /\ Goto("begin", 1, {})
    /\ UNCHANGED <<version, seq, latch, tkf_base, timekeeper, asleep, reader, seen>>

\* update_fast_timekeeper(): write_seqcount_latch_begin() and write_seqcount_latch()
LatchStep ==
    /\ writer.pc \in {"begin", "swap"}
    /\ latch' = [latch EXCEPT ![writer.latch] = @ + 1]
    /\ Goto(IF writer.pc = "begin" THEN "base0" ELSE "base1", writer.latch, Words)
    /\ UNCHANGED <<version, seq, vdso, tkf_base, timekeeper, asleep, reader, seen>>

\* memcpy(base, tkr), a word at a time and in any order
CopyBase0(h) ==
    /\ writer.pc = "base0" /\ h \in writer.left
    /\ tkf_base' = [tkf_base EXCEPT ![writer.latch][0][h] = version]
    /\ Goto(IF writer.left = {h} THEN "swap" ELSE "base0", writer.latch, writer.left \ {h})
    /\ UNCHANGED <<version, seq, vdso, latch, timekeeper, asleep, reader, seen>>

\* After base[1]: the next timekeeper; halt_fast_timekeeper() ends with the second
AfterBase1(k) == IF k = 1 THEN "begin" ELSE IF writer.phase = "halt" THEN "idle" ELSE "sec"

\* memcpy(base + 1, base)
CopyBase1(h) ==
    /\ writer.pc = "base1" /\ h \in writer.left
    /\ tkf_base' = [tkf_base EXCEPT ![writer.latch][1][h] = tkf_base[writer.latch][0][h]]
    /\ IF writer.left = {h} THEN Goto(AfterBase1(writer.latch), IF writer.latch = 1 THEN 2 ELSE 1, {})
                       ELSE Goto("base1", writer.latch, writer.left \ {h})
    /\ UNCHANGED <<version, seq, vdso, latch, timekeeper, asleep, reader, seen>>

\* Mutant: xtime_sec is left to the memcpy()
NoWriteSec ==
    /\ writer.pc = "sec"
    /\ Goto("copy", 1, Words \cup Seconds)
    /\ UNCHANGED <<version, seq, vdso, latch, tkf_base, timekeeper, asleep, reader, seen>>

\* WRITE_ONCE(tkd->timekeeper.xtime_sec)
WriteSec ==
    /\ writer.pc = "sec"
    /\ timekeeper' = [h \in Words \cup Seconds |-> IF h \in Seconds THEN version ELSE timekeeper[h]]
    /\ Goto("copy", 1, Words \cup Seconds)
    /\ UNCHANGED <<version, seq, vdso, latch, tkf_base, asleep, reader, seen>>

\* memcpy(&tkd->timekeeper, tk)
CopyTk(h) ==
    /\ writer.pc = "copy" /\ h \in writer.left
    /\ timekeeper' = [timekeeper EXCEPT ![h] = version]
    /\ Goto(IF writer.left = {h} THEN "end" ELSE "copy", 1, writer.left \ {h})
    /\ UNCHANGED <<version, seq, vdso, latch, tkf_base, asleep, reader, seen>>

\* write_seqcount_end(); timekeeping_suspend() goes on with halt_fast_timekeeper(),
\* which gives a snapshot of its own to the latches
UpdateEnd ==
    /\ writer.pc = "end"
    /\ seq' = seq + 1
    /\ IF writer.phase = "suspend"
       THEN /\ writer' = [pc |-> "begin", phase |-> "halt", latch |-> 1, left |-> {}]
            /\ version' = version + 1
            /\ UNCHANGED asleep
       ELSE /\ writer' = [writer EXCEPT !.pc = "idle"]
            /\ asleep' = FALSE
            /\ UNCHANGED version
    /\ UNCHANGED <<vdso, latch, tkf_base, timekeeper, reader, seen>>

Write ==
    \/ \E phase \in Phases : UpdateBegin(phase)
    \/ UpdateVsyscall \/ LatchStep \/ WriteSec \/ UpdateEnd
    \/ \E h \in Words : CopyBase0(h) \/ CopyBase1(h)
    \/ \E h \in Words \cup Seconds : CopyTk(h)

-----------------------------------------------------------------------------
\* The readers

Newer(a, b) == IF a < b THEN b ELSE a

Idle == [pc |-> "idle", kind |-> "core", latch |-> 1, seq |-> 0, left |-> Words,
         got |-> [h \in Words |-> 0], from |-> 0]

\* What a reader that starts now must not fall behind.  The vDSO data is new
\* before the latches are, and those before xtime_sec: whoever does not wait for
\* tk_core.seq may get an older time than what was seen there.
NotOlderThan(kind, k) ==
    CASE kind = "fast" -> Newer(seen.core, seen.fast[k])
      [] kind = "sec" -> seen.core
      [] OTHER -> Newer(Newer(seen.core, seen.vdso), Newer(seen.fast[1], seen.fast[2]))

\* A call: ktime_get() and the other seqcount readers, ktime_get_mono_fast_ns()
\* and ktime_get_raw_fast_ns(), the vDSO, ktime_get_real_seconds()
Call(r, kind, k) ==
    /\ reader[r].pc = "idle"
    /\ kind = "fast" \/ (~asleep /\ k = 1)
    /\ reader' = [reader EXCEPT ![r] =
          [Idle EXCEPT !.pc = "start", !.kind = kind, !.latch = k,
                       !.from = NotOlderThan(kind, k)]]
    /\ UNCHANGED <<version, writer, seq, vdso, latch, tkf_base, timekeeper, asleep, seen>>

\* Mutant: the reader does not wait for the writer
ReadSeqRaw(r) ==
    /\ reader[r].pc = "start" /\ reader[r].kind = "core"
    /\ reader' = [reader EXCEPT ![r].pc = "read", ![r].seq = seq]
    /\ UNCHANGED <<version, writer, seq, vdso, latch, tkf_base, timekeeper, asleep, seen>>

\* read_seqcount_begin(), which waits for an even number
ReadSeq(r) ==
    /\ reader[r].pc = "start" /\ reader[r].kind = "core" /\ seq % 2 = 0
    /\ reader' = [reader EXCEPT ![r].pc = "read", ![r].seq = seq]
    /\ UNCHANGED <<version, writer, seq, vdso, latch, tkf_base, timekeeper, asleep, seen>>

\* Mutant: the fast reader waits until no update is under way
ReadLatchWait(r) ==
    LET k == reader[r].latch
    IN /\ reader[r].pc = "start" /\ reader[r].kind = "fast" /\ latch[k] % 2 = 0
       /\ reader' = [reader EXCEPT ![r].pc = "read", ![r].seq = latch[k]]
       /\ UNCHANGED <<version, writer, seq, vdso, latch, tkf_base, timekeeper, asleep, seen>>

\* read_seqcount_latch()
ReadLatch(r) ==
    LET k == reader[r].latch
    IN /\ reader[r].pc = "start" /\ reader[r].kind = "fast"
       /\ reader' = [reader EXCEPT ![r].pc = "read", ![r].seq = latch[k]]
       /\ UNCHANGED <<version, writer, seq, vdso, latch, tkf_base, timekeeper, asleep, seen>>

\* What a reader finds in a word: tkf->base + (seq & 0x01), or tk_core.timekeeper
Word(r, h) ==
    IF reader[r].kind = "fast" THEN tkf_base[reader[r].latch][reader[r].seq % 2][h] ELSE timekeeper[h]

ReadWord(r, h) ==
    /\ reader[r].pc = "read" /\ h \in reader[r].left
    /\ reader' = [reader EXCEPT ![r].left = @ \ {h}, ![r].got[h] = Word(r, h)]
    /\ UNCHANGED <<version, writer, seq, vdso, latch, tkf_base, timekeeper, asleep, seen>>

\* The counter a reader checks again
Sequence(r) == IF reader[r].kind = "fast" THEN latch[reader[r].latch] ELSE seq

\* Mutant: no check at the end
NoRetry(r) ==
    /\ reader[r].pc = "read" /\ reader[r].left = {}
    /\ reader' = [reader EXCEPT ![r].pc = "ret"]
    /\ UNCHANGED <<version, writer, seq, vdso, latch, tkf_base, timekeeper, asleep, seen>>

\* read_seqcount_retry() and read_seqcount_latch_retry()
Retry(r) ==
    /\ reader[r].pc = "read" /\ reader[r].left = {}
    /\ reader' = [reader EXCEPT ![r] =
          IF @.seq = Sequence(r) THEN [@ EXCEPT !.pc = "ret", !.seq = 0]
          ELSE [@ EXCEPT !.pc = "start", !.seq = 0, !.got = Idle.got, !.left = Words]]
    /\ UNCHANGED <<version, writer, seq, vdso, latch, tkf_base, timekeeper, asleep, seen>>

\* External: a reader in user space; READ_ONCE(tk->xtime_sec), as on 64-bit
ReadOnce(r) ==
    /\ reader[r].pc = "start" /\ reader[r].kind \in {"vdso", "sec"}
    /\ reader' = [reader EXCEPT ![r].pc = "ret", ![r].left = {},
          ![r].got = IF reader[r].kind = "vdso" THEN [h \in Words |-> vdso]
                     ELSE [h \in Words |-> IF h = "a" THEN timekeeper["lo"] ELSE timekeeper["hi"]]]
    /\ UNCHANGED <<version, writer, seq, vdso, latch, tkf_base, timekeeper, asleep, seen>>

\* The caller has the time
Return(r) ==
    LET v == reader[r].got["a"]
        k == reader[r].latch
    IN /\ reader[r].pc = "ret"
       /\ reader' = [reader EXCEPT ![r] = Idle]
       /\ seen' = CASE reader[r].kind = "fast" -> [seen EXCEPT !.fast[k] = Newer(@, v)]
                    [] reader[r].kind = "vdso" -> [seen EXCEPT !.vdso = Newer(@, v)]
                    [] OTHER -> [seen EXCEPT !.core = Newer(@, v)]
       /\ UNCHANGED <<version, writer, seq, vdso, latch, tkf_base, timekeeper, asleep>>

Progress(r) ==
    ReadSeq(r) \/ ReadLatch(r) \/ (\E h \in Words : ReadWord(r, h)) \/ Retry(r)
    \/ ReadOnce(r) \/ Return(r)

-----------------------------------------------------------------------------
\* After timekeeping_init() has published the first version
ReadersInit ==
    /\ version = 0 /\ seq = 0 /\ vdso = 0 /\ asleep = FALSE
    /\ writer = [pc |-> "idle", phase |-> "update", latch |-> 1, left |-> {}]
    /\ latch = [k \in Latches |-> 0]
    /\ tkf_base = [k \in Latches |-> [i \in 0 .. 1 |-> [h \in Words |-> 0]]]
    /\ timekeeper = [h \in Words \cup Seconds |-> 0]
    /\ reader = [r \in Readers |-> Idle]
    /\ seen = [core |-> 0, vdso |-> 0, fast |-> [k \in Latches |-> 0]]

ReadersNext ==
    \/ Write
    \/ \E r \in Readers : Progress(r) \/ \E kind \in Kinds, k \in Latches : Call(r, kind, k)

\* An NMI on the writer's CPU runs to its end while the writer stands still: the
\* readers are fair, the writer is not
ReadersSpec ==
    ReadersInit /\ [][ReadersNext]_readers_vars /\ \A r \in Readers : WF_readers_vars(Progress(r))

-----------------------------------------------------------------------------
\* Properties

WriterTypeOK ==
    /\ version \in Nat /\ seq \in Nat /\ vdso \in Nat /\ asleep \in BOOLEAN
    /\ writer \in [pc : {"idle", "vdso", "begin", "base0", "swap", "base1", "sec", "copy", "end"},
              phase : Phases, latch : Latches, left : SUBSET (Words \cup Seconds)]
    /\ latch \in [Latches -> Nat]
    /\ tkf_base \in [Latches -> [0 .. 1 -> [Words -> Nat]]]
    /\ timekeeper \in [Words \cup Seconds -> Nat]

ReaderTypeOK ==
    /\ reader \in [Readers -> [pc : {"idle", "start", "read", "ret"}, kind : Kinds,
                               latch : Latches, seq : Nat, left : SUBSET Words,
                               got : [Words -> Nat], from : Nat]]
    /\ seen \in [core : Nat, vdso : Nat, fast : [Latches -> Nat]]

TypeOK == WriterTypeOK /\ ReaderTypeOK

\* A time that is handed out comes from one update: no reader combines the words of
\* two, whatever it interrupts and however often.
ReadsAreWhole ==
    \A r \in Readers : reader[r].pc = "ret" => reader[r].got["a"] = reader[r].got["b"]

\* Time does not go back from one interface to the next, which the order of
\* timekeeping_update_from_shadow() is for: a reader in the kernel does not get an
\* older update than the vDSO, or a fast reader, has handed out before it began.
NeverOlder ==
    \A r \in Readers : reader[r].pc = "ret" => reader[r].from <= reader[r].got["a"]

\* A fast reader gets its time although the writer it has interrupted stands still.
FastReadersReturn ==
    \A r \in Readers : (reader[r].pc = "start" /\ reader[r].kind = "fast") ~> (reader[r].pc = "idle")
=============================================================================
