---------------------------- MODULE Clocksource ----------------------------
(***************************************************************************)
(* The clocksources of the system (linux_source/kernel/time/clocksource.c): *)
(* their registration and removal, the choice of the one that timekeeping   *)
(* uses, of the one that checks the others (the watchdog) and of the one    *)
(* that measures suspends, and what becomes of one that is found unstable.  *)
(*                                                                         *)
(* Whoever chooses holds clocksource_mutex, and here goes from step to step *)
(* with it; the watchdog timer and the code that knows a clocksource to be  *)
(* bad take watchdog_lock only, and change flags that the choice reads      *)
(* without that lock.  They call for a new choice through a work item and a *)
(* thread that it starts.                                                   *)
(***************************************************************************)
EXTENDS Integers, SequencesExt

CONSTANTS
    Sources,       \* struct clocksource, all of them
    NULL,
    Jiffies,       \* clocksource_default_clock()
    InitRating,    \* their ratings,
    MustVerify,    \* and flags: those to be watched,
    Continuous,    \* CLOCK_SOURCE_IS_CONTINUOUS
    Nonstop,       \* CLOCK_SOURCE_SUSPEND_NONSTOP
    MayBreak,      \* those whose module or device it may be impossible to have
    Distrusted,    \* those the architecture may mark unstable
    MaxOps,        \* bounds: calls of the users,
    MaxKthreads,   \* threads that wait,
    MaxFails       \* and threads that cannot be started

ASSUME SourceAssumption ==
    /\ Jiffies \in Sources /\ NULL \notin Sources
    /\ InitRating \in [Sources -> Nat \ {0}]
    /\ MustVerify \subseteq Continuous /\ Jiffies \notin Continuous
    /\ MustVerify \cup Continuous \cup Nonstop \cup MayBreak \cup Distrusted \subseteq Sources

VARIABLES
    clocksource_list, watchdog_list,                     \* sequences of clocksources
    cs,                                                  \* rating and flags of each
    watchdog, curr_clocksource, suspend_clocksource,
    override_name,                                       \* a clocksource or NULL
    finished_booting,
    clock,                                               \* the timekeeper's clocksource
    oneshot,                                             \* tick_oneshot_mode_active()
    timer,                                               \* watchdog_running, is the timer armed, does its handler wait for the lock
    work,                                                \* watchdog_work is pending
    threads,                                             \* kwatchdog threads that wait for the mutex
    op,                                                  \* what the owner of clocksource_mutex does
    ops, fails,
    broken,                                              \* those whose module or device cannot be had
    present,                                             \* history: registered by users, not removed since
    outcome                                              \* history: what became of the last choice

lists    == <<clocksource_list, watchdog_list>>
choices  == <<watchdog, curr_clocksource, suspend_clocksource>>
settings == <<override_name, finished_booting, clock, oneshot>>
counters == <<ops, fails, broken>>
history  == <<present, outcome>>
vars == <<lists, cs, choices, settings, timer, work, threads, op, counters, history>>

Registered == ToSet(clocksource_list)
Watched    == ToSet(watchdog_list)

-----------------------------------------------------------------------------
\* The lists

\* The first of list that is in S
First(list, S) ==
    LET hits == {i \in DOMAIN list : list[i] \in S}
    IN IF hits = {} THEN NULL ELSE list[Min(hits)]

\* What is left of list without those outside S
Kept(list, S) ==
    LET upTo[i \in 0..Len(list)] ==
          IF i = 0 THEN <<>> ELSE IF list[i] \in S THEN Append(upTo[i - 1], list[i]) ELSE upTo[i - 1]
    IN upTo[Len(list)]

Without(list, c) == Kept(list, Sources \ {c})

\* clocksource_enqueue(): before the first of a lower rating
Enqueued(list, c) ==
    LET lower == {i \in DOMAIN list : cs[list[i]].rating < cs[c].rating}
        place == IF lower = {} THEN Len(list) + 1 ELSE Min(lower)
    IN SubSeq(list, 1, place - 1) \o <<c>> \o SubSeq(list, place, Len(list))

\* The watchdog timer
\* clocksource_start_watchdog() and clocksource_stop_watchdog(), once the watched are list
Started(list) ==
    IF timer.running \/ list = <<>> THEN timer ELSE [timer EXCEPT !.running = TRUE, !.armed = TRUE]

\* Mutant: the timer is stopped for any that leaves
StoppedAlways(list) == [timer EXCEPT !.running = FALSE, !.armed = FALSE]

Stopped(list) ==
    IF ~timer.running \/ list # <<>> THEN timer ELSE [timer EXCEPT !.running = FALSE, !.armed = FALSE]

-----------------------------------------------------------------------------
\* The choice

Candidates(skipcur) == {c \in Sources : skipcur => c # curr_clocksource}

\* clocksource_find_best()
FindBest(skipcur) ==
    IF ~finished_booting THEN NULL
    ELSE First(clocksource_list, {c \in Candidates(skipcur) : oneshot => cs[c].hres})

\* The override, if it is there and not the one to be replaced
Override(skipcur) == First(clocksource_list, Candidates(skipcur) \cap {override_name})

\* It has to wait for the watchdog, or is of no use any more
Deferred(c) == ~cs[c].hres /\ oneshot

\* __clocksource_select() chooses ...
Choice(skipcur) ==
    IF FindBest(skipcur) # NULL /\ Override(skipcur) # NULL /\ ~Deferred(Override(skipcur))
    THEN Override(skipcur) ELSE FindBest(skipcur)

Idle == [kind |-> "none", c |-> NULL, pc |-> "idle", best |-> NULL]

\* What is left to do after a choice
AfterChoice == IF op.kind = "register" THEN "select_watchdog" ELSE IF op.kind = "unbind" THEN "replaced" ELSE "idle"

Finish(pc) == op' = IF pc = "idle" THEN Idle ELSE [op EXCEPT !.pc = pc, !.best = NULL]

Select ==
    /\ op.pc = "select"
    /\ LET skipcur == op.kind = "unbind"
           best == Choice(skipcur)
           forced == Override(skipcur)
       IN /\ override_name' = IF FindBest(skipcur) # NULL /\ forced # NULL /\ Deferred(forced) /\ cs[forced].unstable
                              THEN NULL ELSE override_name
          /\ IF best \in {NULL, curr_clocksource} THEN Finish(AfterChoice)
             ELSE op' = [op EXCEPT !.pc = "notify", !.best = best]
    /\ outcome' = "kept"
    /\ UNCHANGED <<lists, cs, choices, finished_booting, clock, oneshot, timer, work, threads, counters, present>>

\* ... and timekeeping_notify() installs it
Notify ==
    /\ op.pc = "notify"
    /\ clock' = IF op.best \in broken THEN clock ELSE op.best
    /\ curr_clocksource' = IF clock' = op.best THEN op.best ELSE curr_clocksource
    /\ Finish(AfterChoice)
    /\ outcome' = IF op.best \in broken THEN "refused" ELSE outcome
    /\ UNCHANGED <<lists, cs, watchdog, suspend_clocksource, override_name, finished_booting, oneshot,
                   timer, work, threads, counters, present>>

\* clocksource_select_watchdog(): the first one of the best rating; with fallback not the
\* present one, unless there is no other
BestWatchdog(fallback) ==
    LET fit  == {c \in Continuous \ MustVerify : ~(fallback /\ c = watchdog)}
        best == First(clocksource_list, fit)
    IN IF best = NULL THEN watchdog
       ELSE IF ~fallback /\ watchdog # NULL /\ cs[best].rating <= cs[watchdog].rating THEN watchdog
       ELSE best

\* __clocksource_suspend_select(), for c and for all but the present one
BestSuspend(c) ==
    IF c \in Nonstop /\ (suspend_clocksource = NULL \/ cs[c].rating > cs[suspend_clocksource].rating)
    THEN c ELSE suspend_clocksource
OtherSuspend == First(clocksource_list, Nonstop \ {suspend_clocksource})

-----------------------------------------------------------------------------
\* The users of clocksource_mutex

UserCall(kind, c, pc) ==
    /\ op = Idle /\ ops < MaxOps /\ ops' = ops + 1
    /\ op' = [kind |-> kind, c |-> c, pc |-> pc, best |-> NULL]

\* __clocksource_register_scale(), clocksource_enqueue_watchdog().  A user does not register
\* what is on a list: the links would be overwritten.
Register(c) ==
    /\ UserCall("register", c, "select") /\ c \notin Registered \cup Watched
    /\ present' = present \cup {c}
    /\ clocksource_list' = Enqueued(clocksource_list, c)
    /\ watchdog_list' = IF c \in MustVerify THEN <<c>> \o watchdog_list ELSE watchdog_list
    /\ cs' = [cs EXCEPT ![c].hres = @ \/ c \in Continuous \ MustVerify]
    /\ UNCHANGED <<choices, settings, timer, work, threads, fails, broken, outcome>>

RegisterEnds ==
    /\ op.pc = "select_watchdog"
    /\ watchdog' = BestWatchdog(FALSE)
    /\ timer' = Started(watchdog_list)
    /\ suspend_clocksource' = BestSuspend(op.c)
    /\ op' = Idle
    /\ UNCHANGED <<lists, cs, curr_clocksource, settings, work, threads, counters, history>>

\* clocksource_unbind(), called by clocksource_unregister() or unbind_clocksource_store(),
\* which is not there before the boot is done
Unbind(c) ==
    /\ UserCall("unbind", c, "watchdog") /\ c \in Registered
    /\ c = Jiffies => finished_booting
    /\ UNCHANGED <<lists, cs, choices, settings, timer, work, threads, fails, broken, history>>

ReplaceWatchdog ==
    /\ op.pc = "watchdog"
    /\ watchdog' = IF op.c = watchdog THEN BestWatchdog(TRUE) ELSE watchdog
    /\ timer' = IF op.c = watchdog THEN Started(watchdog_list) ELSE timer
    /\ Finish(IF op.c = watchdog' THEN "idle" ELSE IF op.c = curr_clocksource THEN "select" ELSE "replaced")
    /\ UNCHANGED <<lists, cs, curr_clocksource, suspend_clocksource, settings, work, threads, counters, history>>

\* Mutant: the result of timekeeping_notify() does not matter
NoReplacementUnchecked == FALSE

\* There is no other: -EBUSY
NoReplacement == op.c = curr_clocksource

UnbindBusy ==
    /\ op.pc = "replaced" /\ NoReplacement
    /\ op' = Idle
    /\ UNCHANGED <<lists, cs, choices, settings, timer, work, threads, counters, history>>

\* clocksource_dequeue_watchdog() and the end
UnbindEnds ==
    /\ op.pc = "replaced" /\ ~NoReplacement
    /\ suspend_clocksource' = IF op.c = suspend_clocksource THEN OtherSuspend ELSE suspend_clocksource
    /\ watchdog_list' = IF op.c \in MustVerify THEN Without(watchdog_list, op.c) ELSE watchdog_list
    /\ timer' = IF op.c \in MustVerify THEN Stopped(watchdog_list') ELSE timer
    /\ clocksource_list' = Without(clocksource_list, op.c)
    /\ present' = present \ {op.c}
    /\ op' = Idle
    /\ UNCHANGED <<cs, watchdog, curr_clocksource, settings, work, threads, counters, outcome>>

\* current_clocksource_store()
Store(name) ==
    /\ UserCall("store", NULL, "select")
    /\ override_name' = name
    /\ UNCHANGED <<lists, cs, choices, finished_booting, clock, oneshot, timer, work, threads, fails, broken,
                   history>>

\* __clocksource_watchdog_kthread(): the unstable go to the end of the list, and nobody
\* watches them any more
Demote ==
    LET bad == {c \in Watched : cs[c].unstable}
    IN /\ watchdog_list' = Kept(watchdog_list, Sources \ bad)
       /\ clocksource_list' = Kept(clocksource_list, Sources \ bad) \o Kept(watchdog_list, bad)
       /\ cs' = [c \in Sources |-> IF c \notin Watched THEN cs[c]
                                   ELSE [cs[c] EXCEPT !.rating = IF c \in bad THEN 0 ELSE @, !.reselect = FALSE]]
       /\ timer' = Stopped(watchdog_list')

\* clocksource_done_booting()
DoneBooting ==
    /\ op = Idle /\ ~finished_booting
    /\ curr_clocksource' = Jiffies /\ finished_booting' = TRUE
    /\ Demote
    /\ op' = [kind |-> "boot", c |-> NULL, pc |-> "select", best |-> NULL]
    /\ UNCHANGED <<watchdog, suspend_clocksource, override_name, clock, oneshot, work, threads, counters, history>>

\* clocksource_watchdog_kthread()
RunThread ==
    /\ op = Idle /\ threads > 0
    /\ threads' = threads - 1
    /\ Demote
    /\ op' = IF \E c \in Watched : cs[c].unstable \/ cs[c].reselect
             THEN [kind |-> "kthread", c |-> NULL, pc |-> "select", best |-> NULL] ELSE Idle
    /\ UNCHANGED <<choices, settings, work, counters, history>>

\* clocksource_watchdog_work(): kthread_run()
StartThread ==
    /\ work /\ threads < MaxKthreads
    /\ work' = FALSE /\ threads' = threads + 1
    /\ UNCHANGED <<lists, cs, choices, settings, timer, op, counters, history>>

\* External: it fails
StartFails ==
    /\ work /\ fails < MaxFails
    /\ work' = FALSE /\ fails' = fails + 1
    /\ UNCHANGED <<lists, cs, choices, settings, timer, threads, op, ops, broken, history>>

-----------------------------------------------------------------------------
\* Under watchdog_lock alone

\* __clocksource_unstable() of one
Unstable(c) ==
    [cs[c] EXCEPT !.hres = FALSE, !.unstable = TRUE, !.rating = IF c \in Registered THEN @ ELSE 0]

\* clocksource_mark_unstable()
MarkUnstable(c) ==
    /\ ~cs[c].unstable
    /\ watchdog_list' = IF c \in Registered \ Watched THEN <<c>> \o watchdog_list ELSE watchdog_list
    /\ cs' = [cs EXCEPT ![c] = Unstable(c)]
    /\ work' = (work \/ (finished_booting /\ c \in Registered))
    /\ UNCHANGED <<clocksource_list, choices, settings, timer, threads, op, counters, history>>

\* The timer expires; its handler waits for the lock
Fire ==
    /\ timer.armed /\ ~timer.handler
    /\ timer' = [timer EXCEPT !.armed = FALSE, !.handler = TRUE]
    /\ UNCHANGED <<lists, cs, choices, settings, work, threads, op, counters, history>>

\* Mutant: a new choice only while the boot lasts
ReselectsEarly(c) == c # curr_clocksource /\ ~finished_booting

\* clocksource_enable_highres(): is it not in use, then it may be now
Reselects(c) == c # curr_clocksource /\ finished_booting

\* Can it be marked valid for high resolution?
EnablesHres(c) == ~cs[c].hres /\ c \in Continuous /\ watchdog # NULL /\ watchdog \in Continuous

\* Mutant: one that is unstable already has been dealt with
KicksForNew(bad, enabled) ==
    finished_booting /\ (bad \cap Registered # {} \/ \E c \in enabled : Reselects(c))

\* The thread is needed for those found unstable, now or before, and for a new choice
Kicks(bad, enabled) ==
    \/ finished_booting /\ (bad \cap Registered # {} \/ \E c \in Watched : cs[c].unstable)
    \/ \E c \in enabled : Reselects(c)

\* clocksource_watchdog(): it finds bad those that drift, and verified others
Scan(bad, verified) ==
    /\ timer.handler /\ timer.running
    /\ watchdog = NULL => bad \cup verified = {}
    /\ bad \cup verified \subseteq {c \in Watched : ~cs[c].unstable}
    /\ LET enabled == {c \in verified : EnablesHres(c)}
       IN /\ cs' = [c \in Sources |->
                      IF c \in bad THEN Unstable(c)
                      ELSE IF c \in enabled THEN [cs[c] EXCEPT !.hres = TRUE, !.reselect = @ \/ Reselects(c)]
                      ELSE cs[c]]
          /\ work' = (work \/ Kicks(bad, enabled))
          /\ outcome' = IF op.pc = "notify" /\ oneshot /\ curr_clocksource \in enabled THEN "late" ELSE outcome
    /\ timer' = [timer EXCEPT !.handler = FALSE, !.armed = TRUE]
    /\ UNCHANGED <<lists, choices, settings, threads, op, counters, present>>

\* The watchdog has been stopped meanwhile
ScanStopped ==
    /\ timer.handler /\ ~timer.running
    /\ timer' = [timer EXCEPT !.handler = FALSE]
    /\ UNCHANGED <<lists, cs, choices, settings, work, threads, op, counters, history>>

\* External: the tick goes to oneshot mode, if the clocksource is valid for it; also when
\* another one has been chosen for the old mode
SwitchToOneshot ==
    /\ ~oneshot /\ cs[clock].hres
    /\ oneshot' = TRUE
    /\ outcome' = IF op.pc = "notify" THEN "switched" ELSE outcome
    /\ UNCHANGED <<lists, cs, choices, override_name, finished_booting, clock, timer, work, threads, op, counters,
                   present>>

-----------------------------------------------------------------------------
Init ==
    /\ clocksource_list = <<Jiffies>> /\ watchdog_list = <<>>
    /\ cs = [c \in Sources |-> [rating |-> InitRating[c], hres |-> FALSE, unstable |-> FALSE, reselect |-> FALSE]]
    /\ watchdog = NULL /\ curr_clocksource = NULL /\ suspend_clocksource = NULL
    /\ override_name = NULL /\ finished_booting = FALSE
    /\ clock = Jiffies /\ oneshot = FALSE
    /\ timer = [running |-> FALSE, armed |-> FALSE, handler |-> FALSE]
    /\ work = FALSE /\ threads = 0 /\ op = Idle /\ ops = 0 /\ fails = 0
    /\ broken \in SUBSET MayBreak
    /\ present = {Jiffies} /\ outcome = "kept"

\* The owner of the mutex goes on
Proceed == Select \/ Notify \/ RegisterEnds \/ ReplaceWatchdog \/ UnbindBusy \/ UnbindEnds

Users ==
    \/ \E c \in Sources : Register(c) \/ Unbind(c)
    \/ \E name \in Sources \cup {NULL} : Store(name)

ScanAny == ScanStopped \/ \E bad, verified \in SUBSET Watched : bad \cap verified = {} /\ Scan(bad, verified)

Next ==
    \/ Users \/ Proceed \/ DoneBooting \/ RunThread \/ StartThread \/ StartFails
    \/ Fire \/ ScanAny \/ SwitchToOneshot
    \/ \E c \in Distrusted : MarkUnstable(c)

\* Work items, threads and timers run, and whoever has the mutex gives it back
Fairness ==
    /\ WF_vars(Proceed) /\ WF_vars(DoneBooting) /\ WF_vars(RunThread) /\ WF_vars(StartThread)
    /\ WF_vars(Fire) /\ WF_vars(ScanAny)

Spec == Init /\ [][Next]_vars /\ Fairness

-----------------------------------------------------------------------------
\* Properties

\* Those of a better rating come first, and none twice
Sorted ==
    \A i, j \in DOMAIN clocksource_list : i < j =>
        /\ cs[clocksource_list[i]].rating >= cs[clocksource_list[j]].rating
        /\ clocksource_list[i] # clocksource_list[j]

\* Those that the thread puts back on the list when they have been removed: it re-rates
\* whatever it finds on the watchdog's list, which one that is not to be verified does not
\* leave with its removal.
Strays == {c \in Sources \ MustVerify : cs[c].unstable}

\* A clocksource that its users have removed is not in use: not by timekeeping, whose
\* clocksource is the current one, not as watchdog, for suspends or on the watchdog's
\* list (clocksource_unbind()).  Excepted are the strays.
UnboundIsUnused ==
    /\ {clock, watchdog, suspend_clocksource} \subseteq present \cup Strays \cup {NULL}
    /\ Watched \subseteq present \cup Strays
    /\ finished_booting => clock = curr_clocksource

\* Nothing is left to be done
AtRest ==
    /\ finished_booting /\ op = Idle /\ ~work /\ threads = 0
    /\ \A c \in Watched : ~cs[c].unstable /\ ~cs[c].reselect

\* When all is quiet the best clocksource is in use, that is the override or the first one
\* that oneshot mode permits; and the list is sorted.  A verdict of the watchdog that comes
\* while a choice is made is not lost (__clocksource_select(), clocksource_enable_highres()).
\* Excepted is what became of the last choice if it could not be installed ("refused"); if
\* the tick went to oneshot mode between the choice and its installation ("switched") and the
\* chosen one does not permit that; and, as a consequence of that, if it is verified when
\* another has been chosen in its place already ("late").
BestIsUsed ==
    /\ Sorted
    /\ AtRest => \/ Choice(FALSE) \in {clock, NULL}
                 \/ outcome \in {"refused", "late"}
                 \/ outcome = "switched" /\ ~cs[clock].hres

\* Every good clocksource that has to be verified is on the list of a watchdog that runs,
\* with its timer armed or its handler on the way, whatever was stopped and started while
\* the handler waited for the lock (clocksource_watchdog(), clocksource_stop_watchdog()).
WatchedIsChecked ==
    op.pc # "select" /\ op.pc # "notify" /\ op.pc # "select_watchdog" =>
        \A c \in Registered \cap MustVerify :
            cs[c].rating > 0 => c \in Watched /\ timer.running /\ (timer.armed \/ timer.handler)

\* A clocksource found unstable is given the rating 0 in the end, also when the thread for it
\* cannot be started at first (clocksource_watchdog_work()).  Excepted is one that is not to be
\* verified if a thread cannot be started: the watchdog that would find it again may not run.
UnstableIsDemoted ==
    \A c \in MustVerify \cup Distrusted : cs[c].unstable /\ c \in Registered ~>
        cs[c].rating = 0 \/ c \notin Registered \/ (c \notin MustVerify /\ fails > 0)
=============================================================================
