------------------------ MODULE Clocksource_proofs ------------------------
(***************************************************************************)
(* Proofs about Clocksource: nothing that has been removed is in use, what  *)
(* must be watched is watched, the list is sorted, and when all is quiet    *)
(* the best clocksource is in use, with the exceptions that the properties  *)
(* name, for any set of clocksources, any ratings, any of them marked       *)
(* unstable from outside, and any number of calls.  The last part is about  *)
(* Watchdog: it takes no good clocksource for a bad one, and bounds the     *)
(* skew of one that it lets pass.                                          *)
(*                                                                         *)
(* The first part is about lists: the first element that lies in a set,     *)
(* what a filter keeps, an insertion.  The theorems of the library that     *)
(* allow an induction take an operator as parameter; the inductions here    *)
(* go by the least counterexample, whose existence WFMin states without     *)
(* one.                                                                    *)
(***************************************************************************)
EXTENDS Clocksource, Watchdog, SequenceTheorems, WellFoundedInduction, TLAPS

-----------------------------------------------------------------------------
\* The invariant

Flags == [rating : Nat, hres : BOOLEAN, unstable : BOOLEAN, reselect : BOOLEAN]
Kinds == {"none", "register", "unbind", "store", "boot", "kthread"}
Pcs   == {"idle", "select", "notify", "select_watchdog", "watchdog", "replaced"}

Owners == [kind : Kinds, c : Sources \cup {NULL}, pc : Pcs, best : Sources \cup {NULL}]
Timers == [running : BOOLEAN, armed : BOOLEAN, handler : BOOLEAN]

TypeOK ==
    /\ clocksource_list \in Seq(Sources) /\ watchdog_list \in Seq(Sources)
    /\ cs \in [Sources -> Flags]
    /\ {watchdog, curr_clocksource, suspend_clocksource, override_name} \subseteq Sources \cup {NULL}
    /\ finished_booting \in BOOLEAN /\ oneshot \in BOOLEAN /\ work \in BOOLEAN
    /\ clock \in Sources
    /\ timer \in Timers
    /\ threads \in Nat /\ ops \in Nat /\ fails \in Nat
    /\ op \in Owners
    /\ broken \subseteq Sources /\ present \subseteq Sources
    /\ outcome \in {"kept", "switched", "refused", "late"}

\* Where the owner of the mutex stands
OwnerInv ==
    /\ op.pc = "idle" <=> op = Idle
    /\ op.kind = "none" => op.pc = "idle"
    /\ op.pc = "select_watchdog" => op.kind = "register"
    /\ op.pc \in {"watchdog", "replaced"} => op.kind = "unbind"
    /\ op.kind = "register" => op.pc \in {"select", "notify", "select_watchdog"}
    /\ op.kind = "unbind" => op.pc # "select_watchdog"
    /\ op.kind \in {"register", "unbind"} => op.c \in Registered
    /\ op.kind = "unbind" =>
        /\ op.c = Jiffies => finished_booting
        /\ op.pc # "watchdog" => op.c # watchdog
        /\ op.pc \in {"select", "notify"} => op.c = curr_clocksource
    /\ op.pc = "notify" => finished_booting /\ op.best \in Registered \ {curr_clocksource}

\* What is in use is registered, by its users or as a stray; and so is what is watched, but for
\* strays that the thread has still to put back on the list
UseInv ==
    /\ {clock, watchdog, suspend_clocksource} \subseteq Registered \cup {NULL}
    /\ Registered \subseteq present \cup Strays
    /\ Watched \subseteq (Registered \cap MustVerify) \cup Strays
    /\ IF finished_booting THEN clock = curr_clocksource ELSE clock = Jiffies /\ curr_clocksource = NULL

\* What is to be watched is on the list, and the timer runs as soon as it has to
WatchInv ==
    /\ \A c \in Registered \cap MustVerify : cs[c].rating > 0 => c \in Watched
    /\ timer.running => timer.armed \/ timer.handler
    /\ \/ op.kind = "register" \/ timer.running
       \/ \A c \in Registered \cap MustVerify : cs[c].rating = 0

\* None twice
Distinct(list) == \A i, j \in DOMAIN list : i < j => list[i] # list[j]

SortInv == Sorted /\ Distinct(watchdog_list)

\* Those for which the thread has something to do
Flagged == {c \in Watched : cs[c].unstable \/ cs[c].reselect}

\* The choice among those of S that list has, with the name of the override, oneshot mode or
\* not, and the flags f
BestIn(list, name, mode, f, S) ==
    LET first  == First(list, {c \in S : mode => f[c].hres})
        forced == First(list, S \cap {name})
    IN IF first # NULL /\ forced # NULL /\ (mode => f[forced].hres) THEN forced ELSE first

BestAt(mode, S) == BestIn(clocksource_list, override_name, mode, cs, S)

\* The mode that the last choice was made for
Mode == oneshot /\ outcome # "switched"

BestOf(S) == BestAt(Mode, S)

\* Those that will be left when the call has ended
Remaining ==
    IF op.kind = "unbind" /\ (op.pc = "notify" \/ (op.pc = "replaced" /\ op.c # curr_clocksource))
    THEN Sources \ {op.c} ELSE Sources

\* c is the best of those with which nothing is to be done, or there is none, or the thread will
\* see to it
Settled(c, S) == c \in Flagged \/ BestOf(S \ Flagged) \in {c, NULL}

\* That mode permits c, or c has been found unstable
FitsMode(c) == Mode => cs[c].hres \/ cs[c].unstable

\* What becomes of a choice if it is neither refused nor too late
ChoiceKept ==
    /\ op.pc = "notify" => FitsMode(op.best) /\ Settled(op.best, Remaining)
    /\ finished_booting /\ op.pc \notin {"select", "notify"} =>
        Settled(clock, Remaining) /\ (FitsMode(clock) \/ Settled(NULL, Remaining))

\* The tick's mode, and the history of the last choice
ModeInv ==
    /\ \A c \in Sources \ Continuous : ~cs[c].hres
    /\ ~finished_booting => ~oneshot
    /\ outcome \in {"switched", "late"} => oneshot
    /\ op.pc = "notify" => outcome # "refused"

ChoiceInv == ModeInv /\ (outcome \in {"kept", "switched"} => ChoiceKept)

-----------------------------------------------------------------------------
\* Lists

LEMMA MinNat ==
  ASSUME NEW S, S \subseteq Nat, S # {}
  PROVE  Min(S) \in S /\ \A y \in S : Min(S) <= y
<1>1. PICK x \in S : \A y \in S : ~(<<y, x>> \in OpToRel(<, Nat))
  BY NatLessThanWellFounded, WFMin
<1>2. \A y \in S : ~(y < x)
  BY <1>1 DEF OpToRel
<1>3. \A y \in S : x <= y
  BY <1>2
<1>. QED
  BY <1>3 DEF Min

\* An induction on the numbers up to n: D is the set of those with the property.
LEMMA UpTo ==
  ASSUME NEW n \in Nat, NEW D, 0 \in D, \A i \in 1..n : i - 1 \in D => i \in D
  PROVE  \A i \in 0..n : i \in D
<1>. SUFFICES ASSUME ~(0..n \subseteq D) PROVE FALSE
  OBVIOUS
<1>. DEFINE bad == (0..n) \ D
<1>1. bad \subseteq Nat /\ bad # {}
  OBVIOUS
<1>2. Min(bad) \in bad /\ \A y \in bad : Min(bad) <= y
  BY <1>1, MinNat
<1>3. Min(bad) \in 1..n /\ Min(bad) - 1 \in 0..n
  BY <1>2
<1>4. Min(bad) - 1 \in D
  BY <1>2, <1>3
<1>. QED
  BY <1>2, <1>3, <1>4

\* First() is an element of the list that is in S, and none before it is; it is NULL only if
\* there is no such element.
LEMMA FirstFacts ==
  ASSUME NEW list \in Seq(Sources), NEW S
  PROVE  /\ First(list, S) \in Sources \cup {NULL}
         /\ First(list, S) = NULL <=> ToSet(list) \cap S = {}
         /\ First(list, S) # NULL =>
              \E i \in DOMAIN list :
                 list[i] = First(list, S) /\ list[i] \in S /\ \A j \in 1..(i - 1) : list[j] \notin S
<1>. DEFINE hits == {i \in DOMAIN list : list[i] \in S}
<1>1. hits \subseteq Nat /\ \A i \in DOMAIN list : list[i] \in Sources \ {NULL}
  BY LenProperties, ElementOfSeq, SourceAssumption
<1>2. CASE hits = {}
  BY <1>2 DEF First, ToSet
<1>3. CASE hits # {}
  <2>1. Min(hits) \in hits /\ \A y \in hits : Min(hits) <= y
    BY <1>1, <1>3, MinNat
  <2>2. First(list, S) = list[Min(hits)]
    BY <1>3 DEF First
  <2>3. \A j \in 1..(Min(hits) - 1) : j \in DOMAIN list /\ j \notin hits
    <3>1. Min(hits) \in 1..Len(list) /\ DOMAIN list = 1..Len(list) /\ Len(list) \in Nat
      BY <2>1, LenProperties
    <3>2. \A j \in 1..(Min(hits) - 1) : j \in DOMAIN list /\ ~(Min(hits) <= j)
      BY <3>1
    <3>. QED
      BY <2>1, <3>2
  <2>4. \A j \in 1..(Min(hits) - 1) : list[j] \notin S
    BY <2>3
  <2>. QED
    BY <1>1, <2>1, <2>2, <2>4 DEF ToSet
<1>. QED
  BY <1>2, <1>3

LEMMA FirstIs ==
  ASSUME NEW list \in Seq(Sources), NEW S, NEW i \in DOMAIN list,
         list[i] \in S, \A j \in 1..(i - 1) : list[j] \notin S
  PROVE  First(list, S) = list[i]
<1>1. First(list, S) # NULL
  BY FirstFacts DEF ToSet
<1>2. PICK k \in DOMAIN list :
        list[k] = First(list, S) /\ list[k] \in S /\ \A j \in 1..(k - 1) : list[j] \notin S
  BY <1>1, FirstFacts
<1>3. i \in Nat /\ k \in Nat /\ i >= 1 /\ k >= 1
  BY LenProperties
<1>4. ~(i < k) /\ ~(k < i)
  BY <1>2, <1>3
<1>. QED
  BY <1>2, <1>3, <1>4

\* Fewer candidates do not change the first, if it stays one.
LEMMA FirstWithin ==
  ASSUME NEW list \in Seq(Sources), NEW S, NEW T, T \subseteq S,
         First(list, S) \in T \cup {NULL}
  PROVE  First(list, T) = First(list, S)
<1>1. CASE First(list, S) = NULL
  BY <1>1, FirstFacts
<1>2. CASE First(list, S) # NULL
  <2>1. PICK i \in DOMAIN list :
          list[i] = First(list, S) /\ list[i] \in S /\ \A j \in 1..(i - 1) : list[j] \notin S
    BY <1>2, FirstFacts
  <2>2. list[i] \in T
    BY <1>2, <2>1
  <2>. QED
    BY <2>1, <2>2, FirstIs
<1>. QED
  BY <1>1, <1>2

\* What counts are the candidates that are on the list.
LEMMA FirstOnList ==
  ASSUME NEW list \in Seq(Sources), NEW S, NEW T, S \cap ToSet(list) = T \cap ToSet(list)
  PROVE  First(list, S) = First(list, T)
<1>1. {i \in DOMAIN list : list[i] \in S} = {i \in DOMAIN list : list[i] \in T}
  BY DEF ToSet
<1>. QED
  BY <1>1 DEF First

\* The definition of Kept as a recursion.
LEMMA KeptDef ==
  ASSUME NEW list \in Seq(Sources), NEW S
  PROVE  \E upTo :
           /\ upTo = [i \in 0..Len(list) |-> IF i = 0 THEN <<>>
                        ELSE IF list[i] \in S THEN Append(upTo[i - 1], list[i]) ELSE upTo[i - 1]]
           /\ Kept(list, S) = upTo[Len(list)]
<1>. DEFINE Step(f, i) == IF i = 0 THEN <<>> ELSE IF list[i] \in S THEN Append(f[i - 1], list[i]) ELSE f[i - 1]
            D == {n \in Nat : \E f : f = [i \in 0..n |-> Step(f, i)]}
<1>1. 0 \in D
  <2>. DEFINE g == [i \in 0..0 |-> <<>>]
  <2>1. g = [i \in 0..0 |-> Step(g, i)]
    OBVIOUS
  <2>. QED
    BY <2>1
<1>2. ASSUME NEW n \in 1..Len(list), n - 1 \in D
      PROVE  n \in D
  <2>1. PICK f : f = [i \in 0..(n - 1) |-> Step(f, i)]
    BY <1>2
  <2>. DEFINE g == [i \in 0..n |-> IF i = n THEN Step(f, n) ELSE f[i]]
  <2>2. \A i \in 0..n : i # 0 => i - 1 \in 0..(n - 1) /\ g[i - 1] = f[i - 1]
    OBVIOUS
  <2>3. \A i \in 0..n : Step(g, i) = Step(f, i)
    BY <2>2
  <2>4. \A i \in 0..(n - 1) : f[i] = Step(f, i)
    BY <2>1
  <2>5. g = [i \in 0..n |-> Step(g, i)]
    BY <2>3, <2>4
  <2>6. \E f1 : f1 = [i \in 0..n |-> Step(f1, i)]
    BY <2>5
  <2>7. n \in Nat
    BY LenProperties
  <2>. QED
    BY <2>6, <2>7
<1>3. Len(list) \in Nat
  BY LenProperties
<1>4. Len(list) \in D
  <2>. HIDE DEF D
  <2>1. \A i \in 1..Len(list) : i - 1 \in D => i \in D
    BY <1>2
  <2>2. \A i \in 0..Len(list) : i \in D
    BY <1>1, <1>3, <2>1, UpTo
  <2>. QED
    BY <1>3, <2>2
<1>5. \E f : f = [i \in 0..Len(list) |-> Step(f, i)]
  BY <1>4
<1>6. Kept(list, S) = (CHOOSE f : f = [i \in 0..Len(list) |-> Step(f, i)])[Len(list)]
  BY DEF Kept
<1>. QED
  BY <1>5, <1>6

\* What Kept() leaves: those of S, in their order, and the whole list if all are in S.
LEMMA KeptFacts ==
  ASSUME NEW list \in Seq(Sources), NEW S
  PROVE  /\ Kept(list, S) \in Seq(Sources)
         /\ \A i \in DOMAIN Kept(list, S) : Kept(list, S)[i] \in S
         /\ ToSet(Kept(list, S)) = ToSet(list) \cap S
         /\ \A i, j \in DOMAIN Kept(list, S) : i < j =>
              \E p, q \in DOMAIN list : p < q /\ list[p] = Kept(list, S)[i] /\ list[q] = Kept(list, S)[j]
         /\ ToSet(list) \subseteq S => Kept(list, S) = list
<1>1. PICK f :
        /\ f = [i \in 0..Len(list) |-> IF i = 0 THEN <<>>
                  ELSE IF list[i] \in S THEN Append(f[i - 1], list[i]) ELSE f[i - 1]]
        /\ Kept(list, S) = f[Len(list)]
  BY KeptDef
<1>2. /\ Len(list) \in Nat /\ DOMAIN list = 1..Len(list)
      /\ \A i \in 1..Len(list) : list[i] \in Sources
  BY LenProperties, ElementOfSeq
<1>3. /\ f[0] = <<>>
      /\ \A i \in 1..Len(list) : f[i] = IF list[i] \in S THEN Append(f[i - 1], list[i]) ELSE f[i - 1]
  <2>1. 0 \in 0..Len(list) /\ \A i \in 1..Len(list) : i \in 0..Len(list) /\ i # 0
    BY <1>2
  <2>2. \A i \in 0..Len(list) : f[i] = IF i = 0 THEN <<>>
                  ELSE IF list[i] \in S THEN Append(f[i - 1], list[i]) ELSE f[i - 1]
    BY <1>1
  <2>. QED
    BY <2>1, <2>2
<1>. DEFINE From(g, i) == \A k \in 1..Len(g) : \E p \in 1..i : list[p] = g[k] /\ list[p] \in S
            All(g, i) == \A p \in 1..i : list[p] \in S => \E k \in 1..Len(g) : g[k] = list[p]
            Order(g, i) == \A k \in 1..Len(g) : \A l \in 1..Len(g) : k < l =>
                             \E p \in 1..i : \E q \in 1..i : p < q /\ list[p] = g[k] /\ list[q] = g[l]
            Whole(g, i) == (\A p \in 1..i : list[p] \in S) =>
                             Len(g) = i /\ \A p \in 1..i : g[p] = list[p]
            Good(g, i) == g \in Seq(Sources) /\ From(g, i) /\ All(g, i) /\ Order(g, i) /\ Whole(g, i)
            D == {i \in 0..Len(list) : Good(f[i], i)}
<1>4. 0 \in D
  <2>1. f[0] \in Seq(Sources) /\ Len(f[0]) = 0
    BY <1>3, EmptySeq
  <2>. QED
    BY <2>1, <1>2
<1>5. ASSUME NEW i \in 1..Len(list), i - 1 \in D
      PROVE  i \in D
  <2>1. Good(f[i - 1], i - 1)
    BY <1>5
  <2>2. i \in 0..Len(list) /\ i \in Nat /\ i - 1 \in Nat /\ i \in 1..i /\ \A p \in 1..i : p \in 1..(i - 1) \/ p = i
    BY <1>2
  <2>3. \A p \in 1..(i - 1) : p \in 1..i /\ p < i
    BY <1>2
  <2>4. Len(f[i - 1]) \in Nat
    BY <2>1, LenProperties
  <2>5. CASE list[i] \notin S
    <3>1. f[i] = f[i - 1]
      BY <1>3, <2>5
    <3>2. From(f[i], i)
      BY <2>1, <2>3, <3>1
    <3>3. All(f[i], i)
      BY <2>1, <2>2, <2>5, <3>1
    <3>4. Order(f[i], i)
      <4>1. ASSUME NEW k \in 1..Len(f[i - 1]), NEW l \in 1..Len(f[i - 1]), k < l
            PROVE  \E p \in 1..i : \E q \in 1..i : p < q /\ list[p] = f[i - 1][k] /\ list[q] = f[i - 1][l]
        <5>1. PICK p \in 1..(i - 1), q \in 1..(i - 1) : p < q /\ list[p] = f[i - 1][k] /\ list[q] = f[i - 1][l]
          BY <2>1, <4>1
        <5>. QED
          BY <2>3, <5>1
      <4>2. Order(f[i - 1], i)
        BY <4>1
      <4>. HIDE DEF Order
      <4>. QED
        BY <3>1, <4>2
    <3>5. Whole(f[i], i)
      BY <2>2, <2>5
    <3>. QED
      BY <2>1, <2>2, <3>1, <3>2, <3>3, <3>4, <3>5
  <2>6. CASE list[i] \in S
    <3>. DEFINE n == Len(f[i - 1])
    <3>1. f[i] = Append(f[i - 1], list[i])
      BY <1>3, <2>6
    <3>2. /\ f[i] \in Seq(Sources) /\ Len(f[i]) = n + 1
          /\ \A k \in 1..n : f[i][k] = f[i - 1][k]
          /\ f[i][n + 1] = list[i]
      BY <1>2, <2>1, <3>1, AppendProperties
    <3>3. n \in Nat /\ \A k \in 1..(n + 1) : k \in 1..n \/ k = n + 1
      BY <2>4
    <3>4. From(f[i], i)
      <4>. SUFFICES ASSUME NEW k \in 1..(n + 1)
                    PROVE  \E p \in 1..i : list[p] = f[i][k] /\ list[p] \in S
        BY <3>2
      <4>1. CASE k \in 1..n
        BY <2>1, <2>3, <3>2, <4>1
      <4>2. CASE k = n + 1
        BY <2>2, <2>6, <3>2, <4>2
      <4>. QED
        BY <3>3, <4>1, <4>2
    <3>5. All(f[i], i)
      <4>. SUFFICES ASSUME NEW p \in 1..i, list[p] \in S
                    PROVE  \E k \in 1..(n + 1) : f[i][k] = list[p]
        BY <3>2
      <4>1. CASE p \in 1..(i - 1)
        <5>1. PICK k \in 1..n : f[i - 1][k] = list[p]
          BY <2>1, <4>1
        <5>. QED
          BY <3>2, <3>3, <5>1
      <4>2. CASE p = i
        BY <3>2, <3>3, <4>2
      <4>. QED
        BY <2>2, <4>1, <4>2
    <3>6. Order(f[i], i)
      <4>. SUFFICES ASSUME NEW k \in 1..Len(f[i]), NEW l \in 1..Len(f[i]), k < l
                    PROVE  \E p \in 1..i : \E q \in 1..i : p < q /\ list[p] = f[i][k] /\ list[q] = f[i][l]
        OBVIOUS
      <4>0. k \in 1..(n + 1) /\ l \in 1..(n + 1)
        BY <3>2
      <4>1. k \in 1..n
        BY <3>3, <4>0
      <4>2. CASE l \in 1..n
        <5>1. PICK p \in 1..(i - 1), q \in 1..(i - 1) : p < q /\ list[p] = f[i - 1][k] /\ list[q] = f[i - 1][l]
          BY <2>1, <4>1, <4>2
        <5>. QED
          BY <2>3, <3>2, <4>1, <4>2, <5>1
      <4>3. CASE l = n + 1
        <5>1. PICK p \in 1..(i - 1) : list[p] = f[i - 1][k]
          BY <2>1, <4>1
        <5>. QED
          BY <2>2, <2>3, <3>2, <4>1, <4>3, <5>1
      <4>. QED
        BY <3>3, <4>0, <4>2, <4>3
    <3>7. Whole(f[i], i)
      <4>. SUFFICES ASSUME \A p \in 1..i : list[p] \in S
                    PROVE  Len(f[i]) = i /\ \A p \in 1..i : f[i][p] = list[p]
        OBVIOUS
      <4>1. n = i - 1 /\ \A p \in 1..(i - 1) : f[i - 1][p] = list[p]
        BY <2>1, <2>3
      <4>2. Len(f[i]) = i /\ i = n + 1
        BY <2>2, <3>2, <4>1
      <4>3. ASSUME NEW p \in 1..(i - 1) PROVE f[i][p] = list[p]
        BY <3>2, <4>1, <4>3
      <4>4. f[i][i] = list[i]
        BY <3>2, <4>2
      <4>. QED
        BY <2>2, <4>2, <4>3, <4>4
    <3>. QED
      BY <2>2, <3>2, <3>4, <3>5, <3>6, <3>7
  <2>. QED
    BY <2>5, <2>6
<1>6. Len(list) \in D
  <2>1. \A i \in 1..Len(list) : i - 1 \in D => i \in D
    BY <1>5
  <2>. HIDE DEF D
  <2>2. \A i \in 0..Len(list) : i \in D
    BY <1>2, <1>4, <2>1, UpTo
  <2>. QED
    BY <1>2, <2>2
<1>. DEFINE kept == Kept(list, S)
            m == Len(list)
<1>7. kept = f[m]
  BY <1>1
<1>8. Good(kept, m)
  <2>1. Good(f[m], m)
    BY <1>6
  <2>. HIDE DEF Good, kept
  <2>. QED
    BY <1>7, <2>1
<1>9. DOMAIN kept = 1..Len(kept) /\ Len(kept) \in Nat
  BY <1>8, LenProperties
<1>10. \A i \in DOMAIN kept : kept[i] \in S
  BY <1>8, <1>9
<1>11. ToSet(kept) = ToSet(list) \cap S
  <2>1. \A k \in DOMAIN kept : \E p \in DOMAIN list : list[p] = kept[k] /\ list[p] \in S
    BY <1>2, <1>8, <1>9
  <2>2. \A p \in DOMAIN list : list[p] \in S => \E k \in DOMAIN kept : kept[k] = list[p]
    BY <1>2, <1>8, <1>9
  <2>. HIDE DEF kept
  <2>. QED
    BY <2>1, <2>2 DEF ToSet
<1>12. \A i, j \in DOMAIN kept : i < j =>
          \E p, q \in DOMAIN list : p < q /\ list[p] = kept[i] /\ list[q] = kept[j]
  <2>. SUFFICES ASSUME NEW i \in DOMAIN kept, NEW j \in DOMAIN kept, i < j
                PROVE  \E p, q \in DOMAIN list : p < q /\ list[p] = kept[i] /\ list[q] = kept[j]
    OBVIOUS
  <2>0. Order(kept, m) /\ i \in 1..Len(kept) /\ j \in 1..Len(kept)
    BY <1>8, <1>9
  <2>. HIDE DEF kept
  <2>1. PICK p \in 1..m : \E q \in 1..m : p < q /\ list[p] = kept[i] /\ list[q] = kept[j]
    BY <2>0
  <2>. QED
    BY <1>2, <2>1
<1>13. ASSUME ToSet(list) \subseteq S PROVE kept = list
  <2>1. \A p \in 1..m : list[p] \in S
    BY <1>2, <1>13 DEF ToSet
  <2>2. Len(kept) = m /\ \A p \in 1..m : kept[p] = list[p]
    BY <1>8, <2>1
  <2>. HIDE DEF kept
  <2>. QED
    BY <1>8, <2>2, SeqEqual
<1>. QED
  BY <1>8, <1>10, <1>11, <1>12, <1>13

\* The list after an insertion: c is at n, behind those that are not worse, before one that is.
InsertedAt(n, list, c) ==
    /\ \A i \in 1..(n - 1) : cs[list[i]].rating >= cs[c].rating
    /\ n <= Len(list) => cs[list[n]].rating < cs[c].rating
    /\ Enqueued(list, c) \in Seq(Sources)
    /\ Len(Enqueued(list, c)) = Len(list) + 1
    /\ \A i \in 1..(Len(list) + 1) :
         Enqueued(list, c)[i] = IF i < n THEN list[i] ELSE IF i = n THEN c ELSE list[i - 1]

LEMMA EnqueuedFacts ==
  ASSUME TypeOK, NEW list \in Seq(Sources), NEW c \in Sources
  PROVE  \E n \in 1..(Len(list) + 1) : InsertedAt(n, list, c)
<1>. DEFINE lower == {i \in DOMAIN list : cs[list[i]].rating < cs[c].rating}
            n == IF lower = {} THEN Len(list) + 1 ELSE Min(lower)
<1>1. /\ Len(list) \in Nat /\ DOMAIN list = 1..Len(list)
      /\ \A i \in 1..Len(list) : list[i] \in Sources /\ cs[list[i]].rating \in Nat
      /\ cs[c].rating \in Nat
  BY LenProperties, ElementOfSeq DEF TypeOK, Flags
<1>2. lower # {} => Min(lower) \in lower /\ \A y \in lower : Min(lower) <= y
  <2>1. lower \subseteq Nat
    BY <1>1
  <2>. QED
    BY <2>1, MinNat
<1>3. n \in 1..(Len(list) + 1)
  BY <1>1, <1>2
<1>4. \A i \in 1..(n - 1) : i \in DOMAIN list /\ i \notin lower
  <2>1. CASE lower = {}
    BY <1>1, <2>1
  <2>2. CASE lower # {}
    <3>1. n \in lower /\ \A y \in lower : n <= y
      BY <1>2, <2>2
    <3>2. \A i \in 1..(n - 1) : i \in DOMAIN list /\ ~(n <= i)
      BY <1>1, <1>3
    <3>. QED
      BY <3>1, <3>2
  <2>. QED
    BY <2>1, <2>2
<1>5. \A i \in 1..(n - 1) : cs[list[i]].rating >= cs[c].rating
  BY <1>1, <1>4
<1>6. n <= Len(list) => cs[list[n]].rating < cs[c].rating
  BY <1>1, <1>2
<1>. DEFINE a == SubSeq(list, 1, n - 1)
            b == SubSeq(list, n, Len(list))
<1>7. Enqueued(list, c) = a \o <<c>> \o b
  BY DEF Enqueued
<1>. HIDE DEF n, lower
<1>8. a \in Seq(Sources) /\ Len(a) = n - 1 /\ \A i \in 1..(n - 1) : a[i] = list[i]
  BY <1>1, <1>3, SubSeqProperties
<1>9. /\ b \in Seq(Sources) /\ Len(b) = Len(list) - n + 1
      /\ \A i \in 1..(Len(list) - n + 1) : b[i] = list[n + i - 1]
  BY <1>1, <1>3, SubSeqProperties
<1>. HIDE DEF a, b
<1>10. <<c>> \in Seq(Sources) /\ Len(<<c>>) = 1 /\ <<c>>[1] = c
  OBVIOUS
<1>11. /\ a \o <<c>> \in Seq(Sources) /\ Len(a \o <<c>>) = n
       /\ \A i \in 1..n : (a \o <<c>>)[i] = IF i < n THEN list[i] ELSE c
  BY <1>1, <1>3, <1>8, <1>10, ConcatProperties
<1>. DEFINE ac == a \o <<c>>
<1>. HIDE DEF ac
<1>12. /\ ac \o b \in Seq(Sources) /\ Len(ac \o b) = Len(list) + 1
       /\ \A i \in 1..(Len(list) + 1) : (ac \o b)[i] = IF i <= n THEN ac[i] ELSE b[i - n]
  <2>1. ac \in Seq(Sources) /\ Len(ac) = n
    BY <1>11 DEF ac
  <2>2. n + (Len(list) - n + 1) = Len(list) + 1
    BY <1>1, <1>3
  <2>. QED
    BY <1>9, <2>1, <2>2, ConcatProperties
<1>13. \A i \in 1..(Len(list) + 1) :
          (ac \o b)[i] = IF i < n THEN list[i] ELSE IF i = n THEN c ELSE list[i - 1]
  <2>. SUFFICES ASSUME NEW i \in 1..(Len(list) + 1)
                PROVE  (ac \o b)[i] = IF i < n THEN list[i] ELSE IF i = n THEN c ELSE list[i - 1]
    OBVIOUS
  <2>1. CASE i <= n
    <3>1. i \in 1..n
      BY <1>1, <1>3, <2>1
    <3>. QED
      BY <1>11, <1>12, <2>1, <3>1 DEF ac
  <2>2. CASE ~(i <= n)
    <3>1. i - n \in 1..(Len(list) - n + 1) /\ n + (i - n) - 1 = i - 1 /\ ~(i < n) /\ i # n
      BY <1>1, <1>3, <2>2
    <3>. QED
      BY <1>9, <1>12, <2>2, <3>1
  <2>. QED
    BY <2>1, <2>2
<1>. QED
  BY <1>3, <1>5, <1>6, <1>7, <1>12, <1>13 DEF ac, InsertedAt

LEMMA EnqueuedSet ==
  ASSUME TypeOK, NEW list \in Seq(Sources), NEW c \in Sources
  PROVE  Enqueued(list, c) \in Seq(Sources) /\ ToSet(Enqueued(list, c)) = ToSet(list) \cup {c}
<1>. DEFINE new == Enqueued(list, c)
<1>0. PICK n \in 1..(Len(list) + 1) : InsertedAt(n, list, c)
  BY EnqueuedFacts
<1>1. /\ new \in Seq(Sources) /\ Len(new) = Len(list) + 1
      /\ \A i \in 1..(Len(list) + 1) : new[i] = IF i < n THEN list[i] ELSE IF i = n THEN c ELSE list[i - 1]
  BY <1>0 DEF InsertedAt
<1>2. /\ Len(list) \in Nat /\ DOMAIN list = 1..Len(list) /\ DOMAIN new = 1..(Len(list) + 1)
  BY <1>1, LenProperties
<1>. HIDE DEF new
<1>3. \A i \in DOMAIN new : new[i] = c \/ \E k \in DOMAIN list : new[i] = list[k]
  <2>. SUFFICES ASSUME NEW i \in DOMAIN new, new[i] # c PROVE \E k \in DOMAIN list : new[i] = list[k]
    OBVIOUS
  <2>1. CASE i < n
    <3>1. i \in DOMAIN list
      BY <1>2, <2>1
    <3>. QED
      BY <1>1, <1>2, <2>1, <3>1
  <2>2. CASE i > n
    <3>1. i - 1 \in DOMAIN list /\ ~(i < n) /\ i # n
      BY <1>2, <2>2
    <3>. QED
      BY <1>1, <1>2, <3>1
  <2>. QED
    BY <1>1, <1>2, <2>1, <2>2
<1>4. \A k \in DOMAIN list : \E i \in DOMAIN new : new[i] = list[k]
  <2>. SUFFICES ASSUME NEW k \in DOMAIN list PROVE \E i \in DOMAIN new : new[i] = list[k]
    OBVIOUS
  <2>1. CASE k < n
    <3>1. k \in DOMAIN new
      BY <1>2
    <3>. QED
      BY <1>1, <1>2, <2>1, <3>1
  <2>2. CASE ~(k < n)
    <3>1. k + 1 \in DOMAIN new /\ ~(k + 1 < n) /\ k + 1 # n /\ (k + 1) - 1 = k
      BY <1>2, <2>2
    <3>. QED
      BY <1>1, <1>2, <3>1
  <2>. QED
    BY <2>1, <2>2
<1>5. n \in DOMAIN new /\ new[n] = c
  BY <1>1, <1>2
<1>. QED
  BY <1>1, <1>3, <1>4, <1>5 DEF ToSet, new

\* The elements of the other lists that are built
LEMMA ListSets ==
  ASSUME NEW s \in Seq(Sources), NEW t \in Seq(Sources), NEW c \in Sources
  PROVE  /\ s \o t \in Seq(Sources) /\ ToSet(s \o t) = ToSet(s) \cup ToSet(t)
         /\ <<c>> \o s \in Seq(Sources) /\ ToSet(<<c>> \o s) = ToSet(s) \cup {c}
         /\ Without(s, c) \in Seq(Sources) /\ ToSet(Without(s, c)) = ToSet(s) \ {c}
         /\ ToSet(s) \subseteq Sources
         /\ ToSet(s) = {} <=> s = <<>>
<1>1. ToSet(s) \subseteq Sources /\ ToSet(t) \subseteq Sources
  BY LenProperties, ElementOfSeq DEF ToSet
<1>2. ASSUME NEW u \in Seq(Sources), NEW v \in Seq(Sources)
      PROVE  u \o v \in Seq(Sources) /\ ToSet(u \o v) = ToSet(u) \cup ToSet(v)
  <2>1. /\ u \o v \in Seq(Sources) /\ Len(u \o v) = Len(u) + Len(v)
        /\ \A i \in 1..(Len(u) + Len(v)) : (u \o v)[i] = IF i <= Len(u) THEN u[i] ELSE v[i - Len(u)]
    BY ConcatProperties
  <2>2. /\ DOMAIN u = 1..Len(u) /\ DOMAIN v = 1..Len(v) /\ DOMAIN (u \o v) = 1..(Len(u) + Len(v))
        /\ Len(u) \in Nat /\ Len(v) \in Nat
    BY <2>1, LenProperties
  <2>. DEFINE w == u \o v
  <2>. HIDE DEF w
  <2>3. \A i \in DOMAIN w : (\E k \in DOMAIN u : w[i] = u[k]) \/ (\E k \in DOMAIN v : w[i] = v[k])
    <3>. SUFFICES ASSUME NEW i \in DOMAIN w
                  PROVE  (\E k \in DOMAIN u : w[i] = u[k]) \/ (\E k \in DOMAIN v : w[i] = v[k])
      OBVIOUS
    <3>1. i \in 1..(Len(u) + Len(v))
      BY <2>2 DEF w
    <3>2. CASE i <= Len(u)
      <4>1. i \in DOMAIN u
        BY <2>2, <3>1, <3>2
      <4>. QED
        BY <2>1, <3>1, <3>2, <4>1 DEF w
    <3>3. CASE ~(i <= Len(u))
      <4>1. i - Len(u) \in DOMAIN v
        BY <2>2, <3>1, <3>3
      <4>. QED
        BY <2>1, <3>1, <3>3, <4>1 DEF w
    <3>. QED
      BY <3>2, <3>3
  <2>4. \A k \in DOMAIN u : k \in DOMAIN w /\ w[k] = u[k]
    BY <2>1, <2>2 DEF w
  <2>5. \A k \in DOMAIN v : k + Len(u) \in DOMAIN w /\ w[k + Len(u)] = v[k]
    BY <2>1, <2>2 DEF w
  <2>6. ToSet(w) = ToSet(u) \cup ToSet(v)
    BY <2>3, <2>4, <2>5 DEF ToSet
  <2>. QED
    BY <2>1, <2>6 DEF w
<1>3. <<c>> \in Seq(Sources) /\ ToSet(<<c>>) = {c}
  BY DEF ToSet
<1>4. Without(s, c) \in Seq(Sources) /\ ToSet(Without(s, c)) = ToSet(s) \ {c}
  BY <1>1, KeptFacts DEF Without
<1>5. ToSet(s) = {} <=> s = <<>>
  <2>1. Len(s) \in Nat /\ DOMAIN s = 1..Len(s)
    BY LenProperties
  <2>2. ToSet(s) = {} <=> Len(s) = 0
    <3>1. Len(s) # 0 => 1 \in DOMAIN s
      BY <2>1
    <3>2. Len(s) = 0 => DOMAIN s = {}
      BY <2>1
    <3>. QED
      BY <3>1, <3>2 DEF ToSet
  <2>3. s # <<>> => Len(s) # 0
    BY EmptySeq
  <2>4. s = <<>> => Len(s) = 0
    BY EmptySeq
  <2>. QED
    BY <2>2, <2>3, <2>4
<1>6. s \o t \in Seq(Sources) /\ ToSet(s \o t) = ToSet(s) \cup ToSet(t)
  BY <1>2
<1>7. <<c>> \o s \in Seq(Sources) /\ ToSet(<<c>> \o s) = ToSet(s) \cup {c}
  <2>. DEFINE one == <<c>>
  <2>1. one \in Seq(Sources) /\ ToSet(one) = {c}
    BY <1>3
  <2>. HIDE DEF one
  <2>2. one \o s \in Seq(Sources) /\ ToSet(one \o s) = ToSet(one) \cup ToSet(s)
    BY <1>2, <2>1
  <2>3. ToSet(one \o s) = ToSet(s) \cup {c}
    BY <2>1, <2>2
  <2>. QED
    BY <2>2, <2>3 DEF one
<1>. QED
  BY <1>1, <1>4, <1>5, <1>6, <1>7

-----------------------------------------------------------------------------
\* Types, the owner of the mutex and what is in use

CoreInv == TypeOK /\ OwnerInv /\ UseInv

\* The operators of the choice return candidates that are registered.
LEMMA ChoiceFacts ==
  ASSUME TypeOK, NEW k \in BOOLEAN
  PROVE  /\ Choice(k) \in (Registered \cap Candidates(k)) \cup {NULL}
         /\ Choice(k) # NULL => finished_booting
         /\ BestWatchdog(k) \in (Registered \cap (Continuous \ MustVerify)) \cup {watchdog}
         /\ OtherSuspend \in (Registered \ {suspend_clocksource}) \cup {NULL}
<1>1. /\ clocksource_list \in Seq(Sources) /\ Registered = ToSet(clocksource_list)
      /\ Registered \subseteq Sources /\ NULL \notin Sources
  BY ListSets, SourceAssumption DEF TypeOK, Registered
<1>2. ASSUME NEW S
      PROVE  First(clocksource_list, S) \in (Registered \cap S) \cup {NULL}
  BY <1>1, FirstFacts DEF ToSet
<1>3. FindBest(k) \in (Registered \cap Candidates(k)) \cup {NULL} /\ (FindBest(k) # NULL => finished_booting)
  BY <1>2 DEF FindBest
<1>4. Override(k) \in (Registered \cap Candidates(k)) \cup {NULL}
  BY <1>2 DEF Override
<1>5. Choice(k) \in (Registered \cap Candidates(k)) \cup {NULL} /\ (Choice(k) # NULL => finished_booting)
  BY <1>3, <1>4 DEF Choice
<1>6. BestWatchdog(k) \in (Registered \cap (Continuous \ MustVerify)) \cup {watchdog}
  <2>. DEFINE fit == {c \in Continuous \ MustVerify : ~(k /\ c = watchdog)}
  <2>1. First(clocksource_list, fit) \in (Registered \cap fit) \cup {NULL}
    BY <1>2
  <2>. QED
    BY <2>1 DEF BestWatchdog
<1>7. OtherSuspend \in (Registered \ {suspend_clocksource}) \cup {NULL}
  BY <1>2 DEF OtherSuspend
<1>. QED
  BY <1>5, <1>6, <1>7

\* A replacement for the watchdog is not the old one, unless there is no other.
LEMMA FallbackWatchdog ==
  ASSUME TypeOK
  PROVE  BestWatchdog(TRUE) = watchdog \/ BestWatchdog(TRUE) \in Registered \ {watchdog}
BY ChoiceFacts

LEMMA SameLists ==
  ASSUME UNCHANGED lists
  PROVE  Registered' = Registered /\ Watched' = Watched /\ clocksource_list' = clocksource_list
         /\ watchdog_list' = watchdog_list
BY DEF lists, Registered, Watched

\* What the thread does to the lists: the unstable are not watched any more, and registered,
\* also if they were not before.
LEMMA DemoteFacts ==
  ASSUME CoreInv, Demote
  PROVE  /\ clocksource_list' \in Seq(Sources) /\ watchdog_list' \in Seq(Sources)
         /\ Registered' = Registered \cup {c \in Watched : cs[c].unstable}
         /\ Watched' = {c \in Watched : ~cs[c].unstable} /\ Watched \subseteq Sources
         /\ Strays' = Strays
         /\ cs' \in [Sources -> Flags]
         /\ \A c \in Sources :
              /\ cs'[c].hres = cs[c].hres /\ cs'[c].unstable = cs[c].unstable
              /\ cs'[c].rating = IF c \in Watched /\ cs[c].unstable THEN 0 ELSE cs[c].rating
              /\ cs'[c].reselect = IF c \in Watched THEN FALSE ELSE cs[c].reselect
<1>. DEFINE bad == {c \in Watched : cs[c].unstable}
<1>1. /\ clocksource_list \in Seq(Sources) /\ watchdog_list \in Seq(Sources)
      /\ ToSet(clocksource_list) = Registered /\ ToSet(watchdog_list) = Watched
      /\ Registered \subseteq Sources /\ Watched \subseteq Sources /\ bad \subseteq Watched
  BY ListSets DEF CoreInv, TypeOK, Registered, Watched
<1>2. /\ watchdog_list' = Kept(watchdog_list, Sources \ bad)
      /\ clocksource_list' = Kept(clocksource_list, Sources \ bad) \o Kept(watchdog_list, bad)
      /\ cs' = [c \in Sources |-> IF c \notin Watched THEN cs[c]
                                  ELSE [cs[c] EXCEPT !.rating = IF c \in bad THEN 0 ELSE @, !.reselect = FALSE]]
  BY DEF Demote
<1>3. cs \in [Sources -> Flags] /\ \A c \in Sources : cs[c] \in Flags
  BY DEF CoreInv, TypeOK
<1>. HIDE DEF bad
<1>4. /\ Kept(watchdog_list, Sources \ bad) \in Seq(Sources)
      /\ ToSet(Kept(watchdog_list, Sources \ bad)) = Watched \cap (Sources \ bad)
      /\ Kept(clocksource_list, Sources \ bad) \in Seq(Sources)
      /\ ToSet(Kept(clocksource_list, Sources \ bad)) = Registered \cap (Sources \ bad)
      /\ Kept(watchdog_list, bad) \in Seq(Sources)
      /\ ToSet(Kept(watchdog_list, bad)) = Watched \cap bad
  BY <1>1, KeptFacts
<1>5. /\ clocksource_list' \in Seq(Sources)
      /\ ToSet(clocksource_list') = (Registered \cap (Sources \ bad)) \cup (Watched \cap bad)
  <2>. DEFINE a == Kept(clocksource_list, Sources \ bad)
              b == Kept(watchdog_list, bad)
  <2>1. a \in Seq(Sources) /\ b \in Seq(Sources) /\ clocksource_list' = a \o b
    BY <1>2, <1>4
  <2>2. ToSet(a) = Registered \cap (Sources \ bad) /\ ToSet(b) = Watched \cap bad
    BY <1>4
  <2>. HIDE DEF a, b
  <2>3. a \o b \in Seq(Sources) /\ ToSet(a \o b) = ToSet(a) \cup ToSet(b)
    BY <2>1, ListSets, SourceAssumption
  <2>. QED
    BY <2>1, <2>2, <2>3
<1>6. Registered' = Registered \cup bad /\ Watched' = {c \in Watched : ~cs[c].unstable}
  BY <1>1, <1>2, <1>4, <1>5 DEF Registered, Watched, bad
<1>7. \A c \in Sources : cs'[c] = IF c \notin Watched THEN cs[c]
        ELSE [cs[c] EXCEPT !.rating = IF c \in bad THEN 0 ELSE @, !.reselect = FALSE]
  BY <1>2
<1>8. \A c \in Sources :
        /\ cs'[c].hres = cs[c].hres /\ cs'[c].unstable = cs[c].unstable
        /\ cs'[c].rating = IF c \in bad THEN 0 ELSE cs[c].rating
        /\ cs'[c].reselect = IF c \in Watched THEN FALSE ELSE cs[c].reselect
        /\ cs'[c] \in Flags
  <2>. SUFFICES ASSUME NEW c \in Sources
                PROVE  /\ cs'[c].hres = cs[c].hres /\ cs'[c].unstable = cs[c].unstable
                       /\ cs'[c].rating = IF c \in bad THEN 0 ELSE cs[c].rating
                       /\ cs'[c].reselect = IF c \in Watched THEN FALSE ELSE cs[c].reselect
                       /\ cs'[c] \in Flags
    OBVIOUS
  <2>1. CASE c \notin Watched
    BY <1>1, <1>3, <1>7, <2>1
  <2>2. CASE c \in Watched
    <3>. DEFINE r == IF c \in bad THEN 0 ELSE cs[c].rating
    <3>1. cs[c] \in Flags /\ r \in Nat
      BY <1>3 DEF Flags
    <3>2. cs'[c] = [cs[c] EXCEPT !.rating = r, !.reselect = FALSE]
      BY <1>7, <2>2
    <3>. HIDE DEF r
    <3>3. /\ cs'[c] \in Flags /\ cs'[c].rating = r /\ cs'[c].reselect = FALSE
          /\ cs'[c].hres = cs[c].hres /\ cs'[c].unstable = cs[c].unstable
      BY <3>1, <3>2 DEF Flags
    <3>. QED
      BY <2>2, <3>3 DEF r
  <2>. QED
    BY <2>1, <2>2
<1>9. cs' \in [Sources -> Flags]
  BY <1>2, <1>8
<1>10. Strays' = Strays
  BY <1>8, SourceAssumption DEF Strays
<1>. QED
  BY <1>1, <1>2, <1>4, <1>5, <1>6, <1>8, <1>9, <1>10 DEF bad

\* A step that leaves the lists and the choices alone, and does not move the owner, keeps
\* what OwnerInv and UseInv say.
LEMMA BystanderKeeps ==
  ASSUME CoreInv, UNCHANGED <<clocksource_list, choices, settings, op>>,
         Watched' \subseteq (Registered \cap MustVerify) \cup Strays', Strays \subseteq Strays',
         UNCHANGED present
  PROVE  OwnerInv' /\ UseInv'
BY DEF CoreInv, OwnerInv, UseInv, choices, settings, Registered, Idle

LEMMA InitCore == Init => CoreInv
<1>. SUFFICES ASSUME Init PROVE CoreInv
  OBVIOUS
<1>1. Jiffies \in Sources /\ NULL \notin Sources /\ InitRating \in [Sources -> Nat \ {0}]
  BY SourceAssumption
<1>2. Registered = {Jiffies} /\ Watched = {}
  BY DEF Init, Registered, Watched, ToSet
<1>3. broken \subseteq Sources
  BY SourceAssumption DEF Init
<1>4. TypeOK
  <2>1. cs \in [Sources -> Flags]
    BY <1>1 DEF Init, Flags
  <2>2. clocksource_list \in Seq(Sources) /\ watchdog_list \in Seq(Sources)
    BY <1>1 DEF Init
  <2>3. op \in Owners
    BY DEF Init, Idle, Owners, Kinds, Pcs
  <2>4. timer \in Timers
    BY DEF Init, Timers
  <2>. QED
    BY <1>1, <1>3, <2>1, <2>2, <2>3, <2>4 DEF Init, TypeOK
<1>5. OwnerInv /\ UseInv
  BY <1>1, <1>2 DEF Init, OwnerInv, UseInv, Idle
<1>. QED
  BY <1>4, <1>5 DEF CoreInv

\* The three parts after each action, in the order of Next.
LEMMA RegisterCore ==
  ASSUME CoreInv, NEW c \in Sources, Register(c)
  PROVE  CoreInv'
<1>1. /\ clocksource_list \in Seq(Sources) /\ watchdog_list \in Seq(Sources) /\ cs \in [Sources -> Flags]
      /\ Registered \subseteq Sources
  BY ListSets DEF CoreInv, TypeOK, Registered
<1>2. /\ clocksource_list' \in Seq(Sources) /\ Registered' = Registered \cup {c}
  BY <1>1, EnqueuedSet DEF Register, Registered, CoreInv
<1>3. /\ watchdog_list' \in Seq(Sources)
      /\ Watched' = IF c \in MustVerify THEN Watched \cup {c} ELSE Watched
  BY <1>1, ListSets DEF Register, Watched
<1>4. cs' \in [Sources -> Flags]
  BY <1>1 DEF Register, Flags
<1>5. op' = [kind |-> "register", c |-> c, pc |-> "select", best |-> NULL] /\ op = Idle
  BY DEF Register, UserCall
<1>6. TypeOK'
  BY <1>2, <1>3, <1>4, <1>5 DEF CoreInv, TypeOK, Register, UserCall, Owners, Kinds, Pcs, choices, settings, history
<1>7. Strays' = Strays
  <2>1. \A d \in Sources : cs'[d].unstable = cs[d].unstable
    BY <1>1 DEF Register, Flags
  <2>. QED
    BY <2>1 DEF Strays
<1>8. OwnerInv' /\ UseInv'
  BY <1>2, <1>3, <1>5, <1>7 DEF CoreInv, OwnerInv, UseInv, Register, Idle, choices, settings
<1>. QED
  BY <1>6, <1>8 DEF CoreInv

LEMMA UnbindCore ==
  ASSUME CoreInv, NEW c \in Sources, Unbind(c)
  PROVE  CoreInv'
<1>1. /\ op' = [kind |-> "unbind", c |-> c, pc |-> "watchdog", best |-> NULL] /\ op = Idle
      /\ UNCHANGED <<lists, cs, choices, settings, timer, work, threads, fails, broken, history>>
  BY DEF Unbind, UserCall
<1>2. Registered' = Registered /\ Watched' = Watched
  BY <1>1, SameLists
<1>3. TypeOK'
  BY <1>1 DEF CoreInv, TypeOK, history, Unbind, UserCall, Owners, Kinds, Pcs, choices, settings, lists
<1>4. OwnerInv' /\ UseInv'
  BY <1>1, <1>2 DEF CoreInv, OwnerInv, UseInv, Strays, history, Unbind, Idle, choices, settings
<1>. QED
  BY <1>3, <1>4 DEF CoreInv

LEMMA StoreCore ==
  ASSUME CoreInv, NEW name \in Sources \cup {NULL}, Store(name)
  PROVE  CoreInv'
<1>1. /\ op' = [kind |-> "store", c |-> NULL, pc |-> "select", best |-> NULL] /\ op = Idle
      /\ UNCHANGED <<lists, cs, choices, finished_booting, clock, oneshot, timer, work, threads, fails, broken,
                     history>>
  BY DEF Store, UserCall
<1>2. Registered' = Registered /\ Watched' = Watched
  BY <1>1, SameLists
<1>3. TypeOK'
  BY <1>1 DEF CoreInv, TypeOK, history, Store, UserCall, Owners, Kinds, Pcs, choices, lists
<1>4. OwnerInv' /\ UseInv'
  BY <1>1, <1>2 DEF CoreInv, OwnerInv, UseInv, Strays, history, Idle, choices
<1>. QED
  BY <1>3, <1>4 DEF CoreInv

\* Where the owner goes when a choice has been made.
LEMMA AfterChoiceFacts ==
  ASSUME CoreInv, op.pc \in {"select", "notify"}, Finish(AfterChoice)
  PROVE  /\ op' \in Owners
         /\ \/ /\ op.kind = "register" /\ op'.kind = op.kind /\ op'.c = op.c
               /\ op'.pc = "select_watchdog"
            \/ /\ op.kind = "unbind" /\ op'.kind = op.kind /\ op'.c = op.c
               /\ op'.pc = "replaced"
            \/ op.kind \notin {"register", "unbind"} /\ op' = Idle
<1>1. op \in Owners
  BY DEF CoreInv, TypeOK
<1>2. CASE op.kind = "register"
  BY <1>1, <1>2 DEF Finish, AfterChoice, Owners, Kinds, Pcs
<1>3. CASE op.kind = "unbind"
  BY <1>1, <1>3 DEF Finish, AfterChoice, Owners, Kinds, Pcs
<1>4. CASE op.kind \notin {"register", "unbind"}
  BY <1>4 DEF Finish, AfterChoice, Owners, Kinds, Pcs, Idle
<1>. QED
  BY <1>2, <1>3, <1>4

LEMMA SelectCore ==
  ASSUME CoreInv, Select
  PROVE  CoreInv'
<1>. DEFINE best == Choice(op.kind = "unbind")
<1>1. /\ op.pc = "select"
      /\ override_name' \in {override_name, NULL}
      /\ IF best \in {NULL, curr_clocksource} THEN Finish(AfterChoice)
         ELSE op' = [op EXCEPT !.pc = "notify", !.best = best]
      /\ UNCHANGED <<lists, cs, choices, finished_booting, clock, oneshot, timer, work, threads, counters, present>>
      /\ outcome' = "kept"
  BY DEF Select
<1>2. best \in Registered \cup {NULL} /\ (best # NULL => finished_booting)
  BY ChoiceFacts DEF CoreInv
<1>3. Registered' = Registered /\ Watched' = Watched /\ Registered \subseteq Sources /\ NULL \notin Sources
  BY <1>1, SameLists, ListSets, SourceAssumption DEF CoreInv, TypeOK, Registered
<1>. HIDE DEF best
<1>4. op \in Owners
  BY DEF CoreInv, TypeOK
<1>5. CASE best \in {NULL, curr_clocksource}
  <2>1. Finish(AfterChoice)
    BY <1>1, <1>5
  <2>2. TypeOK'
    BY <1>1, <1>4, <2>1, AfterChoiceFacts
       DEF CoreInv, TypeOK, choices, lists, counters, Idle, Owners, Kinds, Pcs
  <2>3. OwnerInv' /\ UseInv'
    BY <1>1, <1>3, <1>4, <2>1, AfterChoiceFacts DEF CoreInv, OwnerInv, UseInv, Strays, Idle, choices
  <2>. QED
    BY <2>2, <2>3 DEF CoreInv
<1>6. CASE best \notin {NULL, curr_clocksource}
  <2>1. /\ op' \in Owners /\ op'.kind = op.kind /\ op'.c = op.c /\ op'.pc = "notify"
        /\ op'.best = best /\ best \in Sources
    BY <1>1, <1>2, <1>3, <1>4, <1>6 DEF Owners, Pcs
  <2>2. TypeOK'
    BY <1>1, <1>4, <2>1 DEF CoreInv, TypeOK, choices, lists, counters, Owners, Kinds, Pcs
  <2>3. OwnerInv' /\ UseInv'
    BY <1>1, <1>2, <1>3, <1>4, <1>6, <2>1 DEF CoreInv, OwnerInv, UseInv, Strays, Idle, choices
  <2>. QED
    BY <2>2, <2>3 DEF CoreInv
<1>. QED
  BY <1>5, <1>6

LEMMA NotifyCore ==
  ASSUME CoreInv, Notify
  PROVE  CoreInv'
<1>1. /\ op.pc = "notify" /\ finished_booting /\ op.best \in Registered \ {curr_clocksource}
      /\ \/ clock' = op.best /\ curr_clocksource' = op.best
         \/ clock' = clock /\ curr_clocksource' = curr_clocksource
      /\ Finish(AfterChoice)
      /\ UNCHANGED <<lists, cs, watchdog, suspend_clocksource, override_name, finished_booting, oneshot,
                     timer, work, threads, counters, present>>
      /\ outcome' \in {outcome, "refused"}
  BY DEF Notify, CoreInv, OwnerInv, UseInv
<1>2. Registered' = Registered /\ Watched' = Watched /\ Registered \subseteq Sources /\ NULL \notin Sources
  BY <1>1, SameLists, ListSets, SourceAssumption DEF CoreInv, TypeOK, Registered
<1>3. op \in Owners
  BY DEF CoreInv, TypeOK
<1>4. TypeOK'
  BY <1>1, <1>2, <1>3, AfterChoiceFacts DEF CoreInv, TypeOK, lists, counters, Idle, Owners, Kinds, Pcs
<1>5. OwnerInv' /\ UseInv'
  BY <1>1, <1>2, <1>3, AfterChoiceFacts DEF CoreInv, OwnerInv, UseInv, Strays, Idle
<1>. QED
  BY <1>4, <1>5 DEF CoreInv

LEMMA RegisterEndsCore ==
  ASSUME CoreInv, RegisterEnds
  PROVE  CoreInv'
<1>1. /\ op.kind = "register" /\ op.c \in Registered /\ op' = Idle
      /\ UNCHANGED <<lists, cs, curr_clocksource, settings, work, threads, counters, history>>
  BY DEF RegisterEnds, CoreInv, OwnerInv
<1>2. /\ watchdog' \in Registered \cup {watchdog}
      /\ suspend_clocksource' \in Registered \cup {suspend_clocksource}
  BY <1>1, ChoiceFacts DEF RegisterEnds, BestSuspend, CoreInv
<1>3. Registered' = Registered /\ Watched' = Watched /\ Registered \subseteq Sources
  BY <1>1, SameLists, ListSets DEF CoreInv, TypeOK, history, Registered
<1>4. timer' \in Timers
  BY DEF Timers, CoreInv, TypeOK, RegisterEnds, Started
<1>5. TypeOK'
  BY <1>1, <1>2, <1>3, <1>4 DEF CoreInv, TypeOK, history, settings, lists, counters, Idle, Owners, Kinds, Pcs
<1>6. OwnerInv' /\ UseInv'
  BY <1>1, <1>2, <1>3 DEF CoreInv, OwnerInv, UseInv, Strays, history, Idle, settings
<1>. QED
  BY <1>5, <1>6 DEF CoreInv

LEMMA ReplaceWatchdogCore ==
  ASSUME CoreInv, ReplaceWatchdog
  PROVE  CoreInv'
<1>1. /\ op.pc = "watchdog" /\ op.kind = "unbind" /\ op.c \in Registered
      /\ Finish(IF op.c = watchdog' THEN "idle" ELSE IF op.c = curr_clocksource THEN "select" ELSE "replaced")
      /\ UNCHANGED <<lists, cs, curr_clocksource, suspend_clocksource, settings, work, threads, counters, history>>
  BY DEF ReplaceWatchdog, CoreInv, OwnerInv
<1>2. watchdog' \in Registered \cup {watchdog}
  BY ChoiceFacts DEF ReplaceWatchdog, CoreInv
<1>3. Registered' = Registered /\ Watched' = Watched /\ Registered \subseteq Sources /\ NULL \notin Sources
  BY <1>1, SameLists, ListSets, SourceAssumption DEF CoreInv, TypeOK, history, Registered
<1>4. timer' \in Timers
  BY DEF Timers, CoreInv, TypeOK, ReplaceWatchdog, Started
<1>5. op \in Owners
  BY DEF CoreInv, TypeOK
<1>6. /\ op' \in Owners
      /\ \/ op' = Idle
         \/ /\ op'.kind = op.kind /\ op'.c = op.c /\ op.c # watchdog'
            /\ \/ op'.pc = "select" /\ op.c = curr_clocksource
               \/ op'.pc = "replaced"
  <2>1. \/ op' = Idle
        \/ op' = [op EXCEPT !.pc = "select", !.best = NULL] /\ op.c # watchdog' /\ op.c = curr_clocksource
        \/ op' = [op EXCEPT !.pc = "replaced", !.best = NULL] /\ op.c # watchdog'
    BY <1>1 DEF Finish
  <2>2. op' = Idle => op' \in Owners
    BY DEF Owners, Kinds, Pcs, Idle
  <2>3. \A p \in Pcs : LET o == [op EXCEPT !.pc = p, !.best = NULL]
                       IN o \in Owners /\ o.kind = op.kind /\ o.c = op.c /\ o.pc = p
    BY <1>5 DEF Owners
  <2>. QED
    BY <2>1, <2>2, <2>3 DEF Pcs
<1>7. TypeOK'
  BY <1>1, <1>2, <1>3, <1>4, <1>5, <1>6 DEF CoreInv, TypeOK, history, settings, lists, counters, Idle, Owners, Kinds, Pcs
<1>8. OwnerInv' /\ UseInv'
  BY <1>1, <1>2, <1>3, <1>5, <1>6 DEF CoreInv, OwnerInv, UseInv, Strays, history, Idle, settings
<1>. QED
  BY <1>7, <1>8 DEF CoreInv

LEMMA UnbindBusyCore ==
  ASSUME CoreInv, UnbindBusy
  PROVE  CoreInv'
<1>1. op' = Idle /\ UNCHANGED <<lists, cs, choices, settings, timer, work, threads, counters, history>>
  BY DEF UnbindBusy
<1>2. Registered' = Registered /\ Watched' = Watched
  BY <1>1, SameLists
<1>3. TypeOK'
  BY <1>1 DEF CoreInv, TypeOK, history, choices, settings, lists, counters, Idle, Owners, Kinds, Pcs
<1>4. OwnerInv' /\ UseInv'
  BY <1>1, <1>2 DEF CoreInv, OwnerInv, UseInv, Strays, history, Idle, choices, settings
<1>. QED
  BY <1>3, <1>4 DEF CoreInv

\* What is removed is neither the clock nor the watchdog, and another one measures suspends.
LEMMA UnbindEndsCore ==
  ASSUME CoreInv, UnbindEnds
  PROVE  CoreInv'
<1>1. /\ op.pc = "replaced" /\ op.kind = "unbind" /\ op.c \in Registered
      /\ op.c # curr_clocksource /\ op.c # watchdog /\ op' = Idle
      /\ UNCHANGED <<cs, watchdog, curr_clocksource, settings, work, threads, counters, outcome>>
      /\ present' = present \ {op.c}
  BY DEF UnbindEnds, NoReplacement, CoreInv, OwnerInv
<1>2. /\ clocksource_list \in Seq(Sources) /\ watchdog_list \in Seq(Sources)
      /\ Registered \subseteq Sources /\ NULL \notin Sources
  BY ListSets, SourceAssumption DEF CoreInv, TypeOK, Registered
<1>3. clocksource_list' \in Seq(Sources) /\ Registered' = Registered \ {op.c}
  BY <1>1, <1>2, ListSets DEF UnbindEnds, Registered
<1>4. /\ watchdog_list' \in Seq(Sources)
      /\ Watched' = IF op.c \in MustVerify THEN Watched \ {op.c} ELSE Watched
  BY <1>1, <1>2, ListSets DEF UnbindEnds, Watched
<1>5. suspend_clocksource' \in (Registered' \cup {NULL})
  BY <1>1, <1>3, ChoiceFacts DEF UnbindEnds, CoreInv, UseInv
<1>6. timer' \in Timers
  BY DEF Timers, CoreInv, TypeOK, UnbindEnds, Stopped
<1>7. TypeOK'
  BY <1>1, <1>2, <1>3, <1>4, <1>5, <1>6 DEF CoreInv, TypeOK, settings, counters, Idle, Owners, Kinds, Pcs
<1>8. OwnerInv' /\ UseInv'
  BY <1>1, <1>2, <1>3, <1>4, <1>5 DEF CoreInv, OwnerInv, UseInv, Strays, Idle, settings
<1>. QED
  BY <1>7, <1>8 DEF CoreInv

\* A step that only demotes the unstable, and lets the thread's owner choose if need be.
LEMMA DemoteCore ==
  ASSUME CoreInv, Demote, op = Idle,
         UNCHANGED <<watchdog, suspend_clocksource, override_name, clock, oneshot, work, counters, history>>,
         \/ curr_clocksource' = Jiffies /\ finished_booting' = TRUE /\ ~finished_booting
         \/ UNCHANGED <<curr_clocksource, finished_booting>>,
         threads' \in Nat, op' \in Owners, op'.kind \in {"boot", "kthread"}, op'.pc = "select"
  PROVE  CoreInv'
<1>1. /\ clocksource_list' \in Seq(Sources) /\ watchdog_list' \in Seq(Sources)
      /\ Registered' = Registered \cup {c \in Watched : cs[c].unstable}
      /\ Watched' \subseteq Watched /\ Strays' = Strays /\ cs' \in [Sources -> Flags]
  BY DemoteFacts
<1>2. timer' \in Timers
  BY DEF CoreInv, TypeOK, Demote, Stopped, Timers
<1>3. Jiffies \in Sources
  BY SourceAssumption
<1>4. TypeOK'
  BY <1>1, <1>2, <1>3 DEF CoreInv, TypeOK, counters, history
<1>5. OwnerInv' /\ UseInv'
  BY <1>1 DEF CoreInv, OwnerInv, UseInv, Idle, history
<1>. QED
  BY <1>4, <1>5 DEF CoreInv

LEMMA DoneBootingCore ==
  ASSUME CoreInv, DoneBooting
  PROVE  CoreInv'
<1>1. op' \in Owners /\ op'.kind = "boot" /\ op'.pc = "select"
  BY DEF DoneBooting, Owners, Kinds, Pcs
<1>2. threads' \in Nat
  BY DEF DoneBooting, CoreInv, TypeOK
<1>. QED
  BY <1>1, <1>2, DemoteCore DEF DoneBooting

LEMMA RunThreadCore ==
  ASSUME CoreInv, RunThread
  PROVE  CoreInv'
<1>1. /\ op = Idle /\ Demote /\ threads' \in Nat
      /\ UNCHANGED <<watchdog, suspend_clocksource, override_name, clock, oneshot, work, counters, history>>
      /\ UNCHANGED <<curr_clocksource, finished_booting>>
  BY DEF RunThread, CoreInv, TypeOK, choices, settings
<1>2. CASE op' = Idle
  <2>1. /\ clocksource_list' \in Seq(Sources) /\ watchdog_list' \in Seq(Sources)
        /\ Registered' = Registered \cup {c \in Watched : cs[c].unstable}
        /\ Watched' \subseteq Watched /\ Strays' = Strays /\ cs' \in [Sources -> Flags]
    BY <1>1, DemoteFacts
  <2>2. timer' \in Timers
    BY <1>1 DEF CoreInv, TypeOK, Demote, Stopped, Timers
  <2>3. TypeOK'
    BY <1>1, <1>2, <2>1, <2>2 DEF CoreInv, TypeOK, counters, history
  <2>4. OwnerInv' /\ UseInv'
    BY <1>1, <1>2, <2>1 DEF CoreInv, OwnerInv, UseInv, Idle, history
  <2>. QED
    BY <2>3, <2>4 DEF CoreInv
<1>3. CASE op' # Idle
  <2>1. op' \in Owners /\ op'.kind = "kthread" /\ op'.pc = "select"
    BY <1>3 DEF RunThread, Owners, Kinds, Pcs
  <2>. QED
    BY <1>1, <2>1, DemoteCore
<1>. QED
  BY <1>2, <1>3

\* The work item, the timer and the tick: they touch neither the lists nor the choices.
LEMMA WorkCore ==
  ASSUME CoreInv, StartThread \/ StartFails \/ Fire \/ ScanStopped \/ SwitchToOneshot
  PROVE  CoreInv'
<1>1. /\ UNCHANGED <<lists, cs, choices, override_name, finished_booting, clock, op, present>>
      /\ Registered' = Registered /\ Watched' = Watched
  BY SameLists DEF StartThread, StartFails, Fire, ScanStopped, SwitchToOneshot, settings, history
<1>2. /\ timer' \in Timers /\ work' \in BOOLEAN /\ threads' \in Nat /\ ops' \in Nat /\ fails' \in Nat
      /\ oneshot' \in BOOLEAN /\ broken' = broken /\ outcome' \in {outcome, "switched"}
  <2>. USE DEF CoreInv, TypeOK, counters, settings, history
  <2>1. CASE StartThread
    <3>1. threads' \in Nat
      BY <2>1 DEF StartThread
    <3>2. work' \in BOOLEAN
      BY <2>1, Zenon DEF StartThread
    <3>. QED
      BY <2>1, <3>1, <3>2, Zenon DEF StartThread
  <2>2. CASE StartFails
    <3>1. fails' \in Nat
      BY <2>2 DEF StartFails
    <3>2. work' \in BOOLEAN
      BY <2>2, Zenon DEF StartFails
    <3>. QED
      BY <2>2, <3>1, <3>2, Zenon DEF StartFails
  <2>3. CASE Fire
    BY <2>3 DEF Fire, Timers
  <2>4. CASE ScanStopped
    BY <2>4 DEF ScanStopped, Timers
  <2>5. CASE SwitchToOneshot
    BY <2>5 DEF SwitchToOneshot
  <2>. QED
    BY <2>1, <2>2, <2>3, <2>4, <2>5
<1>3. TypeOK'
  BY <1>1, <1>2 DEF CoreInv, TypeOK, lists, choices
<1>4. OwnerInv' /\ UseInv'
  BY <1>1 DEF CoreInv, OwnerInv, UseInv, Strays, Idle, choices
<1>. QED
  BY <1>3, <1>4 DEF CoreInv

LEMMA UnstableFacts ==
  ASSUME TypeOK, NEW c \in Sources
  PROVE  /\ Unstable(c) \in Flags
         /\ Unstable(c).unstable = TRUE /\ Unstable(c).hres = FALSE
         /\ Unstable(c).rating = IF c \in Registered THEN cs[c].rating ELSE 0
         /\ Unstable(c).reselect = cs[c].reselect
<1>. DEFINE r == IF c \in Registered THEN cs[c].rating ELSE 0
<1>1. cs[c] \in Flags /\ r \in Nat
  BY DEF TypeOK, Flags
<1>2. Unstable(c) = [cs[c] EXCEPT !.hres = FALSE, !.unstable = TRUE, !.rating = r]
  BY DEF Unstable
<1>. HIDE DEF r
<1>3. /\ Unstable(c) \in Flags
      /\ Unstable(c).unstable = TRUE /\ Unstable(c).hres = FALSE
      /\ Unstable(c).rating = r /\ Unstable(c).reselect = cs[c].reselect
  BY <1>1, <1>2 DEF Flags
<1>. QED
  BY <1>3 DEF r

LEMMA MarkUnstableFacts ==
  ASSUME CoreInv, NEW c \in Distrusted, MarkUnstable(c)
  PROVE  /\ c \in Sources /\ UNCHANGED history
         /\ watchdog_list' \in Seq(Sources)
         /\ Watched' = IF c \in Registered THEN Watched \cup {c} ELSE Watched
         /\ cs' \in [Sources -> Flags]
         /\ cs'[c] = Unstable(c) /\ \A d \in Sources \ {c} : cs'[d] = cs[d]
         /\ Registered' = Registered
         /\ Strays' = Strays \cup ({c} \ MustVerify)
         /\ work' \in BOOLEAN
<1>1. c \in Sources
  BY SourceAssumption
<1>2. watchdog_list \in Seq(Sources) /\ cs \in [Sources -> Flags] /\ Watched = ToSet(watchdog_list)
  BY DEF CoreInv, TypeOK, Watched
<1>3. cs' = [cs EXCEPT ![c] = Unstable(c)] /\ UNCHANGED history
  BY DEF MarkUnstable
<1>4. Strays' = Strays \cup ({c} \ MustVerify)
  BY <1>1, <1>2, <1>3, UnstableFacts DEF CoreInv, Strays
<1>5. CASE c \in Registered \ Watched
  <2>1. watchdog_list' = <<c>> \o watchdog_list
    BY <1>5 DEF MarkUnstable
  <2>2. watchdog_list' \in Seq(Sources) /\ Watched' = Watched \cup {c}
    BY <1>1, <1>2, <2>1, ListSets DEF Watched
  <2>. QED
    BY <1>1, <1>2, <1>3, <1>4, <1>5, <2>2, UnstableFacts DEF MarkUnstable, CoreInv, TypeOK, Registered
<1>6. CASE c \notin Registered \ Watched
  <2>1. watchdog_list' = watchdog_list
    BY <1>6 DEF MarkUnstable
  <2>. QED
    BY <1>1, <1>2, <1>3, <1>4, <1>6, <2>1, UnstableFacts DEF MarkUnstable, CoreInv, TypeOK, Registered, Watched
<1>. QED
  BY <1>5, <1>6

LEMMA MarkUnstableCore ==
  ASSUME CoreInv, NEW c \in Distrusted, MarkUnstable(c)
  PROVE  CoreInv'
<1>1. /\ watchdog_list' \in Seq(Sources) /\ cs' \in [Sources -> Flags] /\ work' \in BOOLEAN
      /\ Watched' \subseteq (Registered \cap MustVerify) \cup Strays' /\ Strays \subseteq Strays'
  BY MarkUnstableFacts DEF CoreInv, UseInv
<1>2. UNCHANGED <<clocksource_list, choices, settings, timer, threads, op, counters, history>>
  BY DEF MarkUnstable
<1>3. TypeOK'
  BY <1>1, <1>2 DEF CoreInv, TypeOK, choices, settings, counters, history
<1>4. OwnerInv' /\ UseInv'
  BY <1>1, <1>2, BystanderKeeps DEF history
<1>. QED
  BY <1>3, <1>4 DEF CoreInv

\* What the watchdog's verdicts do to each clocksource
LEMMA ScanFacts ==
  ASSUME CoreInv, NEW bad \in SUBSET Watched, NEW verified \in SUBSET Watched, bad \cap verified = {},
         Scan(bad, verified)
  PROVE  /\ cs' \in [Sources -> Flags]
         /\ UNCHANGED <<lists, choices, settings, threads, op, counters, present>>
         /\ bad \cup verified \subseteq MustVerify \cap Registered /\ Strays' = Strays
         /\ Registered' = Registered /\ Watched' = Watched
         /\ \A c \in bad : cs'[c] = Unstable(c) /\ ~cs[c].unstable
         /\ \A c \in Sources \ bad :
              \/ cs'[c] = cs[c]
              \/ /\ c \in verified /\ ~cs[c].unstable /\ EnablesHres(c)
                 /\ cs'[c].hres = TRUE /\ cs'[c].unstable = cs[c].unstable /\ cs'[c].rating = cs[c].rating
                 /\ cs'[c].reselect = (cs[c].reselect \/ Reselects(c))
         /\ \A c \in Sources \ bad : cs'[c].rating = cs[c].rating
         /\ timer' = [timer EXCEPT !.handler = FALSE, !.armed = TRUE] /\ work' \in BOOLEAN
<1>. DEFINE enabled == {c \in verified : EnablesHres(c)}
<1>1. /\ cs' = [c \in Sources |->
                  IF c \in bad THEN Unstable(c)
                  ELSE IF c \in enabled THEN [cs[c] EXCEPT !.hres = TRUE, !.reselect = @ \/ Reselects(c)]
                  ELSE cs[c]]
      /\ work' = (work \/ Kicks(bad, enabled))
      /\ UNCHANGED <<lists, choices, settings, threads, op, counters, present>>
      /\ timer' = [timer EXCEPT !.handler = FALSE, !.armed = TRUE]
      /\ bad \cup verified \subseteq {c \in Watched : ~cs[c].unstable}
  BY DEF Scan
<1>2. cs \in [Sources -> Flags] /\ Watched \subseteq Sources /\ TypeOK
  BY ListSets DEF CoreInv, TypeOK, Watched
<1>3. \A c \in bad : cs'[c] = Unstable(c) /\ ~cs[c].unstable /\ cs'[c] \in Flags
  BY <1>1, <1>2, UnstableFacts
<1>4. ASSUME NEW c \in enabled \ bad
      PROVE  /\ c \in verified /\ ~cs[c].unstable /\ EnablesHres(c)
             /\ cs'[c].hres = TRUE /\ cs'[c].unstable = cs[c].unstable /\ cs'[c].rating = cs[c].rating
             /\ cs'[c].reselect = (cs[c].reselect \/ Reselects(c))
             /\ cs'[c] \in Flags
  <2>. DEFINE r == cs[c].reselect \/ Reselects(c)
  <2>1. cs[c] \in Flags /\ r \in BOOLEAN /\ c \in Sources /\ c \in enabled /\ c \notin bad
    BY <1>1, <1>2 DEF Flags
  <2>2. cs'[c] = [cs[c] EXCEPT !.hres = TRUE, !.reselect = r]
    BY <1>1, <2>1
  <2>3. c \in verified /\ ~cs[c].unstable /\ EnablesHres(c)
    BY <1>1, <2>1
  <2>. HIDE DEF r
  <2>4. /\ cs'[c].hres = TRUE /\ cs'[c].unstable = cs[c].unstable /\ cs'[c].rating = cs[c].rating
        /\ cs'[c].reselect = r /\ cs'[c] \in Flags
    BY <2>1, <2>2 DEF Flags
  <2>. QED
    BY <2>3, <2>4 DEF r
<1>5. \A c \in Sources : c \notin bad /\ c \notin enabled => cs'[c] = cs[c]
  BY <1>1
<1>6. cs' \in [Sources -> Flags]
  BY <1>1, <1>2, <1>3, <1>4, <1>5
<1>7. Registered' = Registered /\ Watched' = Watched
  BY <1>1, SameLists
<1>8. \A c \in Sources \ bad : cs'[c].rating = cs[c].rating
  BY <1>4, <1>5
<1>9. bad \cup verified \subseteq MustVerify \cap Registered
  BY <1>1 DEF CoreInv, UseInv, Strays
<1>10. Strays' = Strays
  BY <1>3, <1>4, <1>5, <1>9 DEF Strays
<1>11. work' \in BOOLEAN
  BY <1>1 DEF CoreInv, TypeOK
<1>. HIDE DEF enabled
<1>. QED
  BY <1>1, <1>3, <1>4, <1>5, <1>6, <1>7, <1>8, <1>9, <1>10, <1>11

LEMMA ScanCore ==
  ASSUME CoreInv, NEW bad \in SUBSET Watched, NEW verified \in SUBSET Watched, bad \cap verified = {},
         Scan(bad, verified)
  PROVE  CoreInv'
<1>1. /\ cs' \in [Sources -> Flags] /\ work' \in BOOLEAN
      /\ UNCHANGED <<lists, choices, settings, threads, op, counters, present>>
      /\ Watched' = Watched /\ Strays' = Strays
      /\ timer' = [timer EXCEPT !.handler = FALSE, !.armed = TRUE]
  BY ScanFacts
<1>2. timer' \in Timers
  BY <1>1 DEF CoreInv, TypeOK, Timers
<1>3. outcome' \in {outcome, "late"}
  BY DEF Scan
<1>4. TypeOK'
  BY <1>1, <1>2, <1>3 DEF CoreInv, TypeOK, lists, choices, settings, counters
<1>5. Watched' \subseteq (Registered \cap MustVerify) \cup Strays'
  BY <1>1 DEF CoreInv, UseInv
<1>6. OwnerInv' /\ UseInv'
  BY <1>1, <1>5, BystanderKeeps DEF lists
<1>. QED
  BY <1>4, <1>6 DEF CoreInv

LEMMA NextCore ==
  ASSUME CoreInv, [Next]_vars
  PROVE  CoreInv'
<1>1. ASSUME NEW c \in Sources, Register(c) PROVE CoreInv'
  BY <1>1, RegisterCore
<1>2. ASSUME NEW c \in Sources, Unbind(c) PROVE CoreInv'
  BY <1>2, UnbindCore
<1>3. ASSUME NEW name \in Sources \cup {NULL}, Store(name) PROVE CoreInv'
  BY <1>3, StoreCore
<1>4. CASE Proceed
  BY <1>4, SelectCore, NotifyCore, RegisterEndsCore, ReplaceWatchdogCore, UnbindBusyCore, UnbindEndsCore
     DEF Proceed
<1>5. CASE DoneBooting \/ RunThread
  BY <1>5, DoneBootingCore, RunThreadCore
<1>6. CASE StartThread \/ StartFails \/ Fire \/ ScanStopped \/ SwitchToOneshot
  BY <1>6, WorkCore
<1>7. ASSUME NEW bad \in SUBSET Watched, NEW verified \in SUBSET Watched, bad \cap verified = {},
             Scan(bad, verified)
      PROVE  CoreInv'
  BY <1>7, ScanCore
<1>8. ASSUME NEW c \in Distrusted, MarkUnstable(c) PROVE CoreInv'
  BY <1>8, MarkUnstableCore
<1>9. CASE UNCHANGED vars
  BY <1>9, SameLists DEF vars, lists, choices, settings, counters, history, CoreInv, TypeOK, OwnerInv, UseInv,
                        Strays, Idle
<1>. QED
  BY <1>1, <1>2, <1>3, <1>4, <1>5, <1>6, <1>7, <1>8, <1>9 DEF Next, Users, ScanAny

\* A clocksource that its users have removed is used neither by timekeeping, nor as watchdog, nor
\* to measure suspends, and is not watched (clocksource_unbind()), unless it is one that is not to
\* be verified and has been found unstable: the thread puts such a one back on the list.
THEOREM UnboundUnused == Spec => []UnboundIsUnused
<1>1. Init => CoreInv
  BY InitCore
<1>2. CoreInv /\ [Next]_vars => CoreInv'
  BY NextCore
<1>3. CoreInv => UnboundIsUnused
  BY DEF CoreInv, TypeOK, UseInv, UnboundIsUnused
<1>. QED
  BY <1>1, <1>2, <1>3, PTL DEF Spec

-----------------------------------------------------------------------------
\* What has to be watched

\* The timer's part of WatchInv, step by step: what starts and stops it.
LEMMA TimerFacts ==
  ASSUME CoreInv, WatchInv, NEW list
  PROVE  /\ Started(list) \in Timers /\ Stopped(list) \in Timers
         /\ Started(list).running => Started(list).armed \/ Started(list).handler
         /\ Stopped(list).running => Stopped(list).armed \/ Stopped(list).handler
         /\ timer.running \/ list # <<>> => Started(list).running
         /\ timer.running /\ list # <<>> => Stopped(list).running
         /\ ~timer.running => ~Stopped(list).running
BY DEF CoreInv, TypeOK, WatchInv, Started, Stopped, Timers

\* The first part of WatchInv: what is good and has to be watched is on the list.
GoodAreListed == \A c \in Registered \cap MustVerify : cs[c].rating > 0 => c \in Watched

LEMMA ListedStep ==
  ASSUME CoreInv, GoodAreListed, [Next]_vars
  PROVE  GoodAreListed'
<1>0. CoreInv => TypeOK /\ Registered \subseteq Sources
  BY ListSets DEF CoreInv, TypeOK, Registered
<1>1. ASSUME NEW c \in Sources, Register(c) PROVE GoodAreListed'
  <2>1. Registered' = Registered \cup {c}
    BY <1>0, <1>1, EnqueuedSet DEF Register, Registered, TypeOK
  <2>2. Watched' = IF c \in MustVerify THEN Watched \cup {c} ELSE Watched
    BY <1>0, <1>1, ListSets DEF Register, Watched, TypeOK
  <2>3. \A d \in Registered : cs'[d] = cs[d]
    BY <1>0, <1>1 DEF Register, TypeOK
  <2>. QED
    BY <2>1, <2>2, <2>3 DEF GoodAreListed
<1>2. ASSUME UNCHANGED <<lists, cs>> PROVE GoodAreListed'
  BY <1>2, SameLists DEF GoodAreListed
<1>3. ASSUME Users PROVE GoodAreListed'
  BY <1>1, <1>2, <1>3 DEF Users, Unbind, Store
<1>4. CASE UnbindEnds
  <2>1. Registered' = Registered \ {op.c}
    BY <1>0, <1>4, ListSets DEF UnbindEnds, Registered, TypeOK, NoReplacement, CoreInv, OwnerInv
  <2>2. Watched \ {op.c} \subseteq Watched'
    BY <1>0, <1>4, ListSets DEF UnbindEnds, Registered, Watched, TypeOK, CoreInv, OwnerInv
  <2>. QED
    BY <1>4, <2>1, <2>2 DEF UnbindEnds, GoodAreListed
<1>5. CASE Proceed
  BY <1>2, <1>4, <1>5 DEF Proceed, Select, Notify, RegisterEnds, ReplaceWatchdog, UnbindBusy
<1>6. CASE DoneBooting \/ RunThread
  <2>1. Demote
    BY <1>6 DEF DoneBooting, RunThread
  <2>2. /\ Registered' = Registered \cup {c \in Watched : cs[c].unstable}
        /\ Watched' = {c \in Watched : ~cs[c].unstable} /\ Watched \subseteq Sources
        /\ \A c \in Sources : cs'[c].rating = IF c \in Watched /\ cs[c].unstable THEN 0 ELSE cs[c].rating
    BY <2>1, DemoteFacts
  <2>. QED
    BY <1>0, <2>2 DEF GoodAreListed
<1>7. CASE StartThread \/ StartFails \/ Fire \/ ScanStopped \/ SwitchToOneshot
  BY <1>2, <1>7 DEF StartThread, StartFails, Fire, ScanStopped, SwitchToOneshot
<1>8. ASSUME NEW bad \in SUBSET Watched, NEW verified \in SUBSET Watched, bad \cap verified = {},
             Scan(bad, verified)
      PROVE  GoodAreListed'
  <2>1. Registered' = Registered /\ Watched' = Watched
    BY <1>8, ScanFacts
  <2>2. \A c \in Sources \ bad : cs'[c].rating = cs[c].rating
    BY <1>8, ScanFacts
  <2>. QED
    BY <1>0, <2>1, <2>2 DEF GoodAreListed
<1>9. ASSUME NEW c \in Distrusted, MarkUnstable(c) PROVE GoodAreListed'
  <2>1. /\ c \in Sources /\ Watched \subseteq Watched' /\ (c \in Registered => c \in Watched')
        /\ \A d \in Sources \ {c} : cs'[d] = cs[d]
        /\ Registered' = Registered
    BY <1>9, MarkUnstableFacts
  <2>. QED
    BY <1>0, <2>1 DEF GoodAreListed
<1>10. CASE UNCHANGED vars
  BY <1>2, <1>10 DEF vars
<1>. QED
  BY <1>3, <1>5, <1>6, <1>7, <1>8, <1>9, <1>10 DEF Next, ScanAny

LEMMA InitWatch == Init => WatchInv
<1>. SUFFICES ASSUME Init PROVE WatchInv
  OBVIOUS
<1>1. Registered = {Jiffies} /\ Jiffies \notin MustVerify
  BY SourceAssumption DEF Init, Registered, ToSet
<1>2. timer.running = FALSE
  BY DEF Init
<1>. QED
  BY <1>1, <1>2 DEF WatchInv

LEMMA WatchStep ==
  ASSUME CoreInv, WatchInv, [Next]_vars
  PROVE  WatchInv'
<1>0. GoodAreListed /\ GoodAreListed' /\ CoreInv'
  BY ListedStep, NextCore DEF WatchInv, GoodAreListed
<1>1. /\ TypeOK /\ Registered \subseteq Sources /\ (Watched = {} <=> watchdog_list = <<>>)
      /\ \A c \in Sources : cs[c].rating \in Nat
  BY ListSets DEF CoreInv, TypeOK, Registered, Watched, Flags
<1>2. /\ Registered' \subseteq Sources /\ (Watched' = {} <=> watchdog_list' = <<>>)
      /\ \A c \in Sources : cs'[c].rating \in Nat
  <2>1. TypeOK'
    BY <1>0 DEF CoreInv
  <2>2. clocksource_list' \in Seq(Sources) /\ watchdog_list' \in Seq(Sources) /\ cs' \in [Sources -> Flags]
    BY <2>1 DEF TypeOK
  <2>. QED
    BY <2>2, ListSets, SourceAssumption DEF Registered, Watched, Flags
\* With an empty list there is nothing good to be watched.
<1>3. watchdog_list' = <<>> => \A c \in Registered' \cap MustVerify : cs'[c].rating = 0
  BY <1>0, <1>2 DEF GoodAreListed
<1>. SUFFICES /\ timer'.running => timer'.armed \/ timer'.handler
              /\ \/ op'.kind = "register" \/ timer'.running
                 \/ \A c \in Registered' \cap MustVerify : cs'[c].rating = 0
  BY <1>0 DEF WatchInv, GoodAreListed
<1>4. ASSUME UNCHANGED timer,
             op'.kind = op.kind \/ op.kind # "register" \/ op'.kind = "register",
             Registered' \subseteq Registered,
             \A c \in Registered' \cap MustVerify : cs[c].rating = 0 => cs'[c].rating = 0
      PROVE  /\ timer'.running => timer'.armed \/ timer'.handler
             /\ \/ op'.kind = "register" \/ timer'.running
                \/ \A c \in Registered' \cap MustVerify : cs'[c].rating = 0
  BY <1>4 DEF WatchInv
<1>5. ASSUME UNCHANGED <<lists, cs, op>>, timer' \in Timers, timer'.running = timer.running,
             timer.running => timer'.armed \/ timer'.handler
      PROVE  /\ timer'.running => timer'.armed \/ timer'.handler
             /\ \/ op'.kind = "register" \/ timer'.running
                \/ \A c \in Registered' \cap MustVerify : cs'[c].rating = 0
  BY <1>5, SameLists DEF WatchInv
<1>6. ASSUME NEW c \in Sources, Register(c)
      PROVE  /\ timer'.running => timer'.armed \/ timer'.handler
             /\ \/ op'.kind = "register" \/ timer'.running
                \/ \A d \in Registered' \cap MustVerify : cs'[d].rating = 0
  BY <1>6 DEF Register, UserCall, WatchInv
<1>7. ASSUME NEW c \in Sources, Unbind(c) PROVE UNCHANGED <<timer, lists, cs>> /\ op = Idle
  BY <1>7 DEF Unbind, UserCall
<1>8. ASSUME NEW name \in Sources \cup {NULL}, Store(name) PROVE UNCHANGED <<timer, lists, cs>> /\ op = Idle
  BY <1>8 DEF Store, UserCall
<1>9. CASE Select
  <2>1. op'.kind = op.kind \/ op.kind # "register"
    <3>1. CASE Finish(AfterChoice)
      BY <1>0, <1>9, <3>1, AfterChoiceFacts DEF Select
    <3>2. CASE ~Finish(AfterChoice)
      <4>1. PICK best : op' = [op EXCEPT !.pc = "notify", !.best = best]
        BY <1>9, <3>2 DEF Select
      <4>. QED
        BY <1>1, <4>1 DEF TypeOK, Owners
    <3>. QED
      BY <3>1, <3>2
  <2>. QED
    BY <1>4, <1>9, <2>1, SameLists DEF Select
<1>10. CASE Notify
  <2>1. op'.kind = op.kind \/ op.kind # "register"
    BY <1>0, <1>10, AfterChoiceFacts DEF Notify
  <2>. QED
    BY <1>4, <1>10, <2>1, SameLists DEF Notify
<1>11. CASE RegisterEnds
  <2>1. timer' = Started(watchdog_list) /\ UNCHANGED lists
    BY <1>11 DEF RegisterEnds
  <2>2. watchdog_list' = watchdog_list
    BY <2>1 DEF lists
  <2>. QED
    BY <1>3, <2>1, <2>2, TimerFacts
<1>12. CASE ReplaceWatchdog
  <2>1. /\ UNCHANGED <<lists, cs>> /\ (timer' = timer \/ timer' = Started(watchdog_list)) /\ op.kind # "register"
    BY <1>12 DEF ReplaceWatchdog, CoreInv, OwnerInv
  <2>2. CASE timer' = timer
    BY <1>4, <2>1, <2>2, SameLists
  <2>3. CASE timer' = Started(watchdog_list)
    BY <1>3, <2>1, <2>3, TimerFacts, SameLists
  <2>. QED
    BY <2>1, <2>2, <2>3
<1>13. CASE UnbindBusy
  BY <1>4, <1>13, SameLists DEF UnbindBusy, CoreInv, OwnerInv
<1>14. CASE UnbindEnds
  <2>1. op.kind # "register" /\ (timer' = timer \/ timer' = Stopped(watchdog_list')) /\ UNCHANGED cs
    BY <1>14 DEF UnbindEnds, CoreInv, OwnerInv
  <2>2. Registered' \subseteq Registered
    <3>1. op.c \in Sources /\ clocksource_list \in Seq(Sources)
      BY <1>1, <1>14 DEF UnbindEnds, CoreInv, OwnerInv, TypeOK
    <3>2. ToSet(Without(clocksource_list, op.c)) = Registered \ {op.c}
      BY <3>1, ListSets DEF Registered
    <3>. QED
      BY <1>14, <3>2 DEF UnbindEnds, Registered
  <2>3. CASE timer' = timer
    BY <1>4, <2>1, <2>2, <2>3
  <2>4. CASE timer' = Stopped(watchdog_list')
    BY <1>3, <2>1, <2>2, <2>4, TimerFacts DEF WatchInv
  <2>. QED
    BY <2>1, <2>3, <2>4
<1>15. CASE DoneBooting \/ RunThread
  <2>1. Demote /\ op = Idle
    BY <1>15 DEF DoneBooting, RunThread
  <2>2. /\ timer' = Stopped(watchdog_list') /\ op.kind # "register"
        /\ Registered' = Registered \cup {c \in Watched : cs[c].unstable} /\ Watched \subseteq Sources
        /\ \A c \in Sources : cs'[c].rating = IF c \in Watched /\ cs[c].unstable THEN 0 ELSE cs[c].rating
    BY <1>0, <2>1, DemoteFacts DEF Demote, Idle
  <2>. QED
    BY <1>1, <1>3, <2>2, TimerFacts DEF WatchInv
<1>16. CASE StartThread \/ StartFails \/ SwitchToOneshot
  BY <1>4, <1>16, SameLists DEF StartThread, StartFails, SwitchToOneshot
<1>17. CASE Fire
  BY <1>1, <1>5, <1>17 DEF Fire, TypeOK, Timers
<1>18. CASE ScanStopped
  BY <1>1, <1>5, <1>18 DEF ScanStopped, TypeOK, Timers
<1>19. ASSUME NEW bad \in SUBSET Watched, NEW verified \in SUBSET Watched, bad \cap verified = {},
              Scan(bad, verified)
       PROVE  /\ timer'.running => timer'.armed \/ timer'.handler
              /\ \/ op'.kind = "register" \/ timer'.running
                 \/ \A c \in Registered' \cap MustVerify : cs'[c].rating = 0
  BY <1>1, <1>19 DEF Scan, TypeOK, Timers
<1>20. ASSUME NEW c \in Distrusted, MarkUnstable(c)
       PROVE  /\ timer'.running => timer'.armed \/ timer'.handler
              /\ \/ op'.kind = "register" \/ timer'.running
                 \/ \A d \in Registered' \cap MustVerify : cs'[d].rating = 0
  <2>1. /\ Registered' = Registered /\ c \in Sources
        /\ cs'[c] = Unstable(c) /\ \A d \in Sources \ {c} : cs'[d] = cs[d]
    BY <1>0, <1>20, MarkUnstableFacts
  <2>2. \A d \in Registered' \cap MustVerify : cs[d].rating = 0 => cs'[d].rating = 0
    BY <1>1, <2>1, UnstableFacts
  <2>. QED
    BY <1>4, <1>20, <2>1, <2>2 DEF MarkUnstable
<1>21. CASE UNCHANGED vars
  BY <1>4, <1>21, SameLists DEF vars
<1>. QED
  BY <1>4, <1>6, <1>7, <1>8, <1>9, <1>10, <1>11, <1>12, <1>13, <1>14, <1>15, <1>16, <1>17, <1>18, <1>19,
     <1>20, <1>21, SameLists DEF Next, Users, Proceed, ScanAny, Idle

\* A clocksource that has to be verified and is still good is on the list of a watchdog that
\* runs, with its timer armed or its handler on the way.
THEOREM WatchedChecked == Spec => []WatchedIsChecked
<1>1. Init => CoreInv /\ WatchInv
  BY InitCore, InitWatch
<1>2. CoreInv /\ WatchInv /\ [Next]_vars => CoreInv' /\ WatchInv'
  BY NextCore, WatchStep
<1>3. CoreInv /\ WatchInv => WatchedIsChecked
  <2>. SUFFICES ASSUME CoreInv, WatchInv, op.pc \notin {"select", "notify", "select_watchdog"},
                       NEW c \in Registered \cap MustVerify, cs[c].rating > 0
                PROVE  c \in Watched /\ timer.running /\ (timer.armed \/ timer.handler)
    BY DEF WatchedIsChecked
  <2>1. op.kind # "register"
    BY DEF CoreInv, OwnerInv
  <2>2. ~(cs[c].rating = 0)
    OBVIOUS
  <2>. QED
    BY <2>1, <2>2 DEF WatchInv
<1>. QED
  BY <1>1, <1>2, <1>3, PTL DEF Spec

-----------------------------------------------------------------------------
\* The list is sorted

\* An insertion keeps the order and adds no element twice.
LEMMA EnqueuedSorted ==
  ASSUME TypeOK, NEW list \in Seq(Sources), NEW c \in Sources, c \notin ToSet(list), Distinct(list),
         \A i, j \in DOMAIN list : i < j => cs[list[i]].rating >= cs[list[j]].rating
  PROVE  /\ Distinct(Enqueued(list, c))
         /\ \A i, j \in DOMAIN Enqueued(list, c) :
              i < j => cs[Enqueued(list, c)[i]].rating >= cs[Enqueued(list, c)[j]].rating
<1>. DEFINE new == Enqueued(list, c)
<1>0. PICK n \in 1..(Len(list) + 1) : InsertedAt(n, list, c)
  BY EnqueuedFacts
<1>1. /\ \A i \in 1..(n - 1) : cs[list[i]].rating >= cs[c].rating
      /\ n <= Len(list) => cs[list[n]].rating < cs[c].rating
      /\ new \in Seq(Sources) /\ Len(new) = Len(list) + 1
      /\ \A i \in 1..(Len(list) + 1) : new[i] = IF i < n THEN list[i] ELSE IF i = n THEN c ELSE list[i - 1]
  BY <1>0 DEF InsertedAt
<1>2. /\ Len(list) \in Nat /\ DOMAIN list = 1..Len(list) /\ DOMAIN new = 1..(Len(list) + 1)
      /\ \A i \in 1..Len(list) : list[i] \in Sources /\ cs[list[i]].rating \in Nat /\ list[i] # c
      /\ cs[c].rating \in Nat
  BY <1>1, LenProperties, ElementOfSeq DEF TypeOK, Flags, ToSet
<1>. HIDE DEF new
\* Those behind the place of the new one have a lower rating.
<1>3. \A i \in n..Len(list) : cs[list[i]].rating <= cs[c].rating
  <2>. SUFFICES ASSUME NEW i \in n..Len(list) PROVE cs[list[i]].rating <= cs[c].rating
    OBVIOUS
  <2>1. i \in 1..Len(list) /\ n \in 1..Len(list) /\ n <= Len(list)
    BY <1>2
  <2>2. n < i => cs[list[n]].rating >= cs[list[i]].rating
    BY <1>2, <2>1
  <2>. QED
    BY <1>1, <1>2, <2>1, <2>2
<1>4. ASSUME NEW i \in DOMAIN new, NEW j \in DOMAIN new, i < j
      PROVE  new[i] # new[j] /\ cs[new[i]].rating >= cs[new[j]].rating
  <2>1. i \in 1..(Len(list) + 1) /\ j \in 1..(Len(list) + 1)
    BY <1>2
  <2>2. CASE j < n
    <3>1. new[i] = list[i] /\ new[j] = list[j] /\ i \in DOMAIN list /\ j \in DOMAIN list
      BY <1>1, <1>2, <1>4, <2>1, <2>2
    <3>. QED
      BY <1>4, <3>1 DEF Distinct
  <2>3. CASE j = n
    <3>1. new[i] = list[i] /\ new[j] = c /\ i \in 1..(n - 1) /\ i \in 1..Len(list)
      BY <1>1, <1>2, <1>4, <2>1, <2>3
    <3>. QED
      BY <1>1, <1>2, <3>1
  <2>4. CASE j > n /\ i = n
    <3>1. new[i] = c /\ new[j] = list[j - 1] /\ j - 1 \in n..Len(list) /\ j - 1 \in 1..Len(list)
      BY <1>1, <1>2, <2>1, <2>4
    <3>. QED
      BY <1>2, <1>3, <3>1
  <2>5. CASE j > n /\ i < n
    <3>1. /\ new[i] = list[i] /\ new[j] = list[j - 1] /\ i < j - 1
          /\ i \in DOMAIN list /\ j - 1 \in DOMAIN list
      BY <1>1, <1>2, <2>1, <2>5
    <3>. QED
      BY <3>1 DEF Distinct
  <2>6. CASE j > n /\ i > n
    <3>1. /\ new[i] = list[i - 1] /\ new[j] = list[j - 1] /\ i - 1 < j - 1
          /\ i - 1 \in DOMAIN list /\ j - 1 \in DOMAIN list
      BY <1>1, <1>2, <1>4, <2>1, <2>6
    <3>. QED
      BY <3>1 DEF Distinct
  <2>7. j < n \/ j = n \/ (j > n /\ i = n) \/ (j > n /\ i < n) \/ (j > n /\ i > n)
    BY <2>1
  <2>. QED
    BY <2>2, <2>3, <2>4, <2>5, <2>6, <2>7
<1>. QED
  BY <1>4 DEF Distinct, new

\* A filter keeps distinct elements distinct.
LEMMA KeptDistinct ==
  ASSUME NEW list \in Seq(Sources), NEW S, Distinct(list)
  PROVE  Distinct(Kept(list, S))
<1>. SUFFICES ASSUME NEW i \in DOMAIN Kept(list, S), NEW j \in DOMAIN Kept(list, S), i < j
              PROVE  Kept(list, S)[i] # Kept(list, S)[j]
  BY DEF Distinct
<1>1. PICK p \in DOMAIN list : \E q \in DOMAIN list :
        p < q /\ list[p] = Kept(list, S)[i] /\ list[q] = Kept(list, S)[j]
  BY KeptFacts
<1>. QED
  BY <1>1 DEF Distinct

\* Two elements of a concatenation: both of the first list, both of the second, or one of each.
LEMMA ConcatPairs ==
  ASSUME NEW s \in Seq(Sources), NEW t \in Seq(Sources),
         NEW i \in DOMAIN (s \o t), NEW j \in DOMAIN (s \o t), i < j
  PROVE  \/ /\ i \in DOMAIN s /\ j \in DOMAIN s
            /\ (s \o t)[i] = s[i] /\ (s \o t)[j] = s[j]
         \/ /\ i \in DOMAIN s /\ (s \o t)[i] = s[i]
            /\ (s \o t)[j] \in ToSet(t)
         \/ \E k, l \in DOMAIN t : k < l /\ (s \o t)[i] = t[k] /\ (s \o t)[j] = t[l]
<1>1. /\ s \o t \in Seq(Sources) /\ Len(s \o t) = Len(s) + Len(t)
      /\ \A k \in 1..(Len(s) + Len(t)) : (s \o t)[k] = IF k <= Len(s) THEN s[k] ELSE t[k - Len(s)]
  BY ConcatProperties
<1>2. /\ DOMAIN s = 1..Len(s) /\ DOMAIN t = 1..Len(t) /\ DOMAIN (s \o t) = 1..(Len(s) + Len(t))
      /\ Len(s) \in Nat /\ Len(t) \in Nat
  BY <1>1, LenProperties
<1>. DEFINE w == s \o t
<1>. HIDE DEF w
<1>3. i \in 1..(Len(s) + Len(t)) /\ j \in 1..(Len(s) + Len(t))
  BY <1>2 DEF w
<1>4. \A k \in 1..(Len(s) + Len(t)) : w[k] = IF k <= Len(s) THEN s[k] ELSE t[k - Len(s)]
  BY <1>1 DEF w
<1>5. CASE j <= Len(s)
  <2>1. i \in DOMAIN s /\ j \in DOMAIN s /\ i <= Len(s)
    BY <1>2, <1>3, <1>5
  <2>. QED
    BY <1>3, <1>4, <1>5, <2>1 DEF w
<1>6. CASE i <= Len(s) /\ ~(j <= Len(s))
  <2>1. i \in DOMAIN s /\ j - Len(s) \in DOMAIN t /\ w[i] = s[i] /\ w[j] = t[j - Len(s)]
    BY <1>2, <1>3, <1>4, <1>6
  <2>. QED
    BY <2>1 DEF w, ToSet
<1>7. CASE ~(i <= Len(s))
  <2>1. /\ i - Len(s) \in DOMAIN t /\ j - Len(s) \in DOMAIN t /\ i - Len(s) < j - Len(s)
        /\ w[i] = t[i - Len(s)] /\ w[j] = t[j - Len(s)]
    BY <1>2, <1>3, <1>4, <1>7
  <2>. QED
    BY <2>1 DEF w
<1>. QED
  BY <1>5, <1>6, <1>7

LEMMA FrontDistinct ==
  ASSUME NEW list \in Seq(Sources), NEW c \in Sources, c \notin ToSet(list), Distinct(list)
  PROVE  Distinct(<<c>> \o list)
<1>. DEFINE one == <<c>>
<1>1. one \in Seq(Sources) /\ DOMAIN one = {1} /\ one[1] = c
  OBVIOUS
<1>. HIDE DEF one
<1>2. ASSUME NEW i \in DOMAIN (one \o list), NEW j \in DOMAIN (one \o list), i < j
      PROVE  (one \o list)[i] # (one \o list)[j]
  BY <1>1, <1>2, ConcatPairs DEF Distinct, ToSet
<1>3. Distinct(one \o list)
  BY <1>2 DEF Distinct
<1>. QED
  BY <1>3 DEF one

LEMMA DemoteSorted ==
  ASSUME CoreInv, SortInv, Demote
  PROVE  SortInv'
<1>. DEFINE bad == {c \in Watched : cs[c].unstable}
            s == Kept(clocksource_list, Sources \ bad)
            t == Kept(watchdog_list, bad)
<1>1. /\ clocksource_list \in Seq(Sources) /\ watchdog_list \in Seq(Sources)
      /\ Distinct(clocksource_list) /\ Distinct(watchdog_list)
      /\ \A i, j \in DOMAIN clocksource_list :
           i < j => cs[clocksource_list[i]].rating >= cs[clocksource_list[j]].rating
  BY DEF CoreInv, TypeOK, SortInv, Sorted, Distinct
<1>2. /\ watchdog_list' = Kept(watchdog_list, Sources \ bad) /\ clocksource_list' = s \o t
  BY DEF Demote
<1>3. \A c \in Sources : cs[c].rating \in Nat /\ cs'[c].rating = IF c \in bad THEN 0 ELSE cs[c].rating
  BY DemoteFacts DEF CoreInv, TypeOK, Flags
<1>4. Distinct(watchdog_list')
  BY <1>1, <1>2, KeptDistinct
<1>5. /\ s \in Seq(Sources) /\ t \in Seq(Sources) /\ Distinct(s) /\ Distinct(t)
      /\ \A i \in DOMAIN s : s[i] \in Sources \ bad
      /\ \A i \in DOMAIN t : t[i] \in bad
      /\ ToSet(t) \subseteq bad
      /\ \A i, j \in DOMAIN s : i < j =>
           \E p, q \in DOMAIN clocksource_list :
              p < q /\ clocksource_list[p] = s[i] /\ clocksource_list[q] = s[j]
  <2>1. /\ s \in Seq(Sources) /\ t \in Seq(Sources)
        /\ \A i \in DOMAIN s : s[i] \in Sources \ bad
        /\ \A i \in DOMAIN t : t[i] \in bad
        /\ ToSet(t) \subseteq bad
    BY <1>1, KeptFacts
  <2>2. Distinct(s) /\ Distinct(t)
    BY <1>1, KeptDistinct
  <2>3. \A i, j \in DOMAIN s : i < j =>
          \E p, q \in DOMAIN clocksource_list :
             p < q /\ clocksource_list[p] = s[i] /\ clocksource_list[q] = s[j]
    BY <1>1, KeptFacts, Zenon
  <2>. QED
    BY <2>1, <2>2, <2>3
<1>6. bad \subseteq Sources
  BY ListSets DEF CoreInv, TypeOK, Watched
<1>. HIDE DEF s, t, bad
<1>7. ASSUME NEW i \in DOMAIN (s \o t), NEW j \in DOMAIN (s \o t), i < j
      PROVE  (s \o t)[i] # (s \o t)[j] /\ cs'[(s \o t)[i]].rating >= cs'[(s \o t)[j]].rating
  <2>. DEFINE w == s \o t
  <2>. SUFFICES w[i] # w[j] /\ cs'[w[i]].rating >= cs'[w[j]].rating
    OBVIOUS
  <2>1. \/ i \in DOMAIN s /\ j \in DOMAIN s /\ w[i] = s[i] /\ w[j] = s[j]
        \/ i \in DOMAIN s /\ w[i] = s[i] /\ w[j] \in ToSet(t)
        \/ \E k, l \in DOMAIN t : k < l /\ w[i] = t[k] /\ w[j] = t[l]
    BY <1>5, <1>7, ConcatPairs
  <2>. HIDE DEF w
  <2>2. CASE i \in DOMAIN s /\ j \in DOMAIN s /\ w[i] = s[i] /\ w[j] = s[j]
    <3>1. PICK p \in DOMAIN clocksource_list : \E q \in DOMAIN clocksource_list :
            p < q /\ clocksource_list[p] = s[i] /\ clocksource_list[q] = s[j]
      BY <1>5, <1>7, <2>2
    <3>2. cs[s[i]].rating >= cs[s[j]].rating
      BY <1>1, <3>1
    <3>3. s[i] # s[j]
      BY <1>5, <1>7, <2>2 DEF Distinct
    <3>. QED
      BY <1>3, <1>5, <2>2, <3>2, <3>3
  <2>3. CASE i \in DOMAIN s /\ w[i] = s[i] /\ w[j] \in ToSet(t)
    <3>1. w[i] \in Sources \ bad /\ w[j] \in bad
      BY <1>5, <2>3
    <3>. QED
      BY <1>3, <1>6, <3>1
  <2>4. CASE \E k, l \in DOMAIN t : k < l /\ w[i] = t[k] /\ w[j] = t[l]
    <3>1. w[i] # w[j] /\ w[i] \in bad /\ w[j] \in bad
      BY <1>5, <2>4 DEF Distinct
    <3>. QED
      BY <1>3, <1>6, <3>1
  <2>. QED
    BY <2>1, <2>2, <2>3, <2>4
<1>8. Sorted'
  <2>1. ASSUME NEW i \in DOMAIN clocksource_list', NEW j \in DOMAIN clocksource_list', i < j
        PROVE  clocksource_list'[i] # clocksource_list'[j]
               /\ cs'[clocksource_list'[i]].rating >= cs'[clocksource_list'[j]].rating
    BY <1>2, <1>7, <2>1
  <2>. QED
    BY <2>1 DEF Sorted
<1>. QED
  BY <1>4, <1>8 DEF SortInv

\* The order is kept by every step.
LEMMA SortStep ==
  ASSUME CoreInv, SortInv, [Next]_vars
  PROVE  SortInv'
<1>0. /\ TypeOK /\ TypeOK' /\ Registered \subseteq Sources
      /\ clocksource_list \in Seq(Sources) /\ watchdog_list \in Seq(Sources)
  BY NextCore, ListSets DEF CoreInv, TypeOK, Registered
\* As long as the ratings of those on the list stay, the order does.
<1>1. ASSUME UNCHANGED lists, \A c \in Registered : cs'[c].rating = cs[c].rating
      PROVE  SortInv'
  BY <1>1, SameLists DEF SortInv, Sorted, Distinct, Registered, ToSet
<1>2. ASSUME UNCHANGED <<lists, cs>> PROVE SortInv'
  BY <1>1, <1>2
<1>3. ASSUME NEW c \in Sources, Register(c) PROVE SortInv'
  <2>1. /\ c \notin Registered \cup Watched /\ clocksource_list' = Enqueued(clocksource_list, c)
        /\ watchdog_list' \in {watchdog_list, <<c>> \o watchdog_list}
        /\ \A d \in Sources : cs'[d].rating = cs[d].rating
    BY <1>0, <1>3 DEF Register, TypeOK, Flags
  <2>2. /\ Distinct(Enqueued(clocksource_list, c))
        /\ \A i, j \in DOMAIN Enqueued(clocksource_list, c) :
             i < j => cs[Enqueued(clocksource_list, c)[i]].rating >= cs[Enqueued(clocksource_list, c)[j]].rating
    BY <1>0, <2>1, EnqueuedSorted DEF SortInv, Sorted, Distinct, Registered
  <2>3. clocksource_list' \in Seq(Sources) /\ \A i \in DOMAIN clocksource_list' : clocksource_list'[i] \in Sources
    <3>1. clocksource_list' \in Seq(Sources)
      BY <1>0 DEF TypeOK
    <3>. QED
      BY <3>1, LenProperties, ElementOfSeq
  <2>4. Sorted'
    BY <2>1, <2>2, <2>3 DEF Sorted, Distinct
  <2>5. Distinct(<<c>> \o watchdog_list)
    BY <1>0, <2>1, FrontDistinct DEF SortInv, Watched
  <2>6. Distinct(watchdog_list')
    BY <2>1, <2>5 DEF SortInv
  <2>. QED
    BY <2>4, <2>6 DEF SortInv
<1>4. CASE UnbindEnds
  <2>. DEFINE s == Kept(clocksource_list, Sources \ {op.c})
  <2>1. /\ clocksource_list' = s /\ cs' = cs
        /\ watchdog_list' \in {watchdog_list, Kept(watchdog_list, Sources \ {op.c})}
    BY <1>4 DEF UnbindEnds, Without
  <2>2. Distinct(s) /\ Distinct(watchdog_list')
    BY <1>0, <2>1, KeptDistinct DEF SortInv, Sorted, Distinct
  <2>3. ASSUME NEW i \in DOMAIN s, NEW j \in DOMAIN s, i < j
        PROVE  cs[s[i]].rating >= cs[s[j]].rating
    <3>1. PICK p \in DOMAIN clocksource_list : \E q \in DOMAIN clocksource_list :
            p < q /\ clocksource_list[p] = s[i] /\ clocksource_list[q] = s[j]
      BY <1>0, <2>3, KeptFacts
    <3>. QED
      BY <3>1 DEF SortInv, Sorted
  <2>. HIDE DEF s
  <2>4. Sorted'
    BY <2>1, <2>2, <2>3 DEF Sorted, Distinct
  <2>. QED
    BY <2>2, <2>4 DEF SortInv
<1>5. CASE DoneBooting \/ RunThread
  BY <1>5, DemoteSorted DEF DoneBooting, RunThread
<1>6. ASSUME NEW bad \in SUBSET Watched, NEW verified \in SUBSET Watched, bad \cap verified = {},
             Scan(bad, verified)
      PROVE  SortInv'
  <2>1. \A c \in Registered : cs'[c].rating = cs[c].rating
    <3>. SUFFICES ASSUME NEW c \in Registered PROVE cs'[c].rating = cs[c].rating
      OBVIOUS
    <3>0. c \in Sources
      BY <1>0
    <3>1. CASE c \in bad
      <4>1. cs'[c] = Unstable(c)
        BY <1>6, <3>0, <3>1 DEF Scan
      <4>. QED
        BY <1>0, <3>0, <4>1, UnstableFacts
    <3>2. CASE c \in Sources \ bad
      BY <1>6, <3>2, ScanFacts
    <3>. QED
      BY <3>0, <3>1, <3>2
  <2>2. UNCHANGED lists
    BY <1>6 DEF Scan
  <2>. QED
    BY <1>1, <2>1, <2>2
<1>7. ASSUME NEW c \in Distrusted, MarkUnstable(c) PROVE SortInv'
  <2>1. /\ c \in Sources /\ clocksource_list' = clocksource_list
        /\ cs'[c] = Unstable(c) /\ \A d \in Sources \ {c} : cs'[d] = cs[d]
    BY <1>7, MarkUnstableFacts DEF MarkUnstable
  <2>2. \A d \in Registered : cs'[d].rating = cs[d].rating
    BY <1>0, <2>1, UnstableFacts
  <2>3. Sorted'
    BY <2>1, <2>2 DEF SortInv, Sorted, Registered, ToSet
  <2>4. CASE c \in Registered \ Watched
    <3>1. Distinct(<<c>> \o watchdog_list)
      BY <1>0, <2>1, <2>4, FrontDistinct DEF SortInv, Watched
    <3>. QED
      BY <1>7, <2>3, <2>4, <3>1 DEF MarkUnstable, SortInv
  <2>5. CASE c \notin Registered \ Watched
    BY <1>7, <2>3, <2>5 DEF MarkUnstable, SortInv, Distinct
  <2>. QED
    BY <2>4, <2>5
<1>8. CASE UNCHANGED vars
  BY <1>2, <1>8 DEF vars
<1>. QED
  BY <1>2, <1>3, <1>4, <1>5, <1>6, <1>7, <1>8
     DEF Next, Users, Proceed, ScanAny, Unbind, Store, Select, Notify, RegisterEnds, ReplaceWatchdog,
         UnbindBusy, StartThread, StartFails, Fire, ScanStopped, SwitchToOneshot

-----------------------------------------------------------------------------
\* The best one is used

\* A filter that leaves the candidates does not change the first of them.
LEMMA FirstKept ==
  ASSUME NEW list \in Seq(Sources), Distinct(list), NEW T, NEW S, S \subseteq T
  PROVE  First(Kept(list, T), S) = First(list, S)
<1>. DEFINE kept == Kept(list, T)
<1>1. /\ kept \in Seq(Sources) /\ ToSet(kept) = ToSet(list) \cap T
      /\ \A i, j \in DOMAIN kept : i < j =>
           \E p, q \in DOMAIN list : p < q /\ list[p] = kept[i] /\ list[q] = kept[j]
      /\ DOMAIN kept \subseteq Nat /\ DOMAIN list \subseteq Nat
  <2>1. kept \in Seq(Sources) /\ ToSet(kept) = ToSet(list) \cap T
    BY KeptFacts
  <2>2. DOMAIN kept \subseteq Nat /\ DOMAIN list \subseteq Nat
    BY <2>1, LenProperties
  <2>3. \A i, j \in DOMAIN kept : i < j =>
          \E p, q \in DOMAIN list : p < q /\ list[p] = kept[i] /\ list[q] = kept[j]
    BY KeptFacts, Zenon
  <2>. QED
    BY <2>1, <2>2, <2>3
<1>. HIDE DEF kept
<1>2. CASE First(list, S) = NULL
  <2>1. ToSet(kept) \cap S = {}
    BY <1>1, <1>2, FirstFacts
  <2>. QED
    BY <1>1, <1>2, <2>1, FirstFacts DEF kept
<1>3. CASE First(list, S) # NULL
  <2>1. PICK i \in DOMAIN list :
          list[i] = First(list, S) /\ list[i] \in S /\ \A j \in 1..(i - 1) : list[j] \notin S
    BY <1>3, FirstFacts
  <2>2. PICK l \in DOMAIN kept : kept[l] = list[i]
    BY <1>1, <2>1 DEF ToSet
  <2>3. First(kept, S) # NULL
    BY <1>1, <2>1, <2>2, FirstFacts DEF ToSet
  <2>4. PICK k \in DOMAIN kept :
          kept[k] = First(kept, S) /\ kept[k] \in S /\ \A j \in 1..(k - 1) : kept[j] \notin S
    BY <1>1, <2>3, FirstFacts
  <2>5. ~(l < k)
    <3>1. l \in Nat /\ k \in Nat /\ l >= 1
      BY <1>1, LenProperties
    <3>. QED
      BY <2>1, <2>2, <2>4, <3>1
  <2>6. ~(k < l)
    <3>. SUFFICES ASSUME k < l PROVE FALSE
      OBVIOUS
    <3>1. PICK p \in DOMAIN list : \E q \in DOMAIN list : p < q /\ list[p] = kept[k] /\ list[q] = kept[l]
      BY <1>1
    <3>2. PICK q \in DOMAIN list : p < q /\ list[p] = kept[k] /\ list[q] = kept[l]
      BY <3>1
    <3>3. p \in Nat /\ q \in Nat /\ i \in Nat /\ p >= 1
      BY LenProperties
    <3>4. q = i
      BY <2>2, <3>2, <3>3 DEF Distinct
    <3>. QED
      BY <2>1, <2>4, <3>2, <3>3, <3>4
  <2>7. k = l
    BY <1>1, <2>5, <2>6
  <2>. QED
    BY <2>1, <2>2, <2>4, <2>7 DEF kept
<1>. QED
  BY <1>2, <1>3

\* The best is a candidate on the list that the mode allows, if there is one.
LEMMA BestFacts ==
  ASSUME NEW list \in Seq(Sources), NEW name, NEW mode \in BOOLEAN, NEW f \in [Sources -> Flags], NEW S
  PROVE  /\ BestIn(list, name, mode, f, S) \in (ToSet(list) \cap S) \cup {NULL}
         /\ BestIn(list, name, mode, f, S) # NULL => (mode => f[BestIn(list, name, mode, f, S)].hres)
         /\ BestIn(list, name, mode, f, S) = NULL => \A c \in ToSet(list) \cap S : ~(mode => f[c].hres)
<1>. DEFINE use == {c \in S : mode => f[c].hres}
            first == First(list, use)
            forced == First(list, S \cap {name})
<1>1. /\ first \in (ToSet(list) \cap use) \cup {NULL}
      /\ first = NULL => ToSet(list) \cap use = {}
  <2>. HIDE DEF use
  <2>. QED
    BY FirstFacts DEF ToSet
<1>2. forced \in (ToSet(list) \cap S) \cup {NULL}
  BY FirstFacts DEF ToSet
<1>3. BestIn(list, name, mode, f, S) = IF first # NULL /\ forced # NULL /\ (mode => f[forced].hres) THEN forced ELSE first
  BY DEF BestIn
<1>. HIDE DEF first, forced
<1>. QED
  BY <1>1, <1>2, <1>3

\* It stays the best when others are not candidates any more.
LEMMA BestWithin ==
  ASSUME NEW list \in Seq(Sources), NEW name, NEW mode \in BOOLEAN, NEW f \in [Sources -> Flags],
         NEW S, NEW T, T \subseteq S, BestIn(list, name, mode, f, S) \in T \cup {NULL}
  PROVE  BestIn(list, name, mode, f, T) = BestIn(list, name, mode, f, S)
<1>. DEFINE use(X) == {c \in X : mode => f[c].hres}
            first(X) == First(list, use(X))
            forced(X) == First(list, X \cap {name})
            b == BestIn(list, name, mode, f, S)
<1>1. /\ b = IF first(S) # NULL /\ forced(S) # NULL /\ (mode => f[forced(S)].hres) THEN forced(S) ELSE first(S)
      /\ BestIn(list, name, mode, f, T) =
           IF first(T) # NULL /\ forced(T) # NULL /\ (mode => f[forced(T)].hres) THEN forced(T) ELSE first(T)
  BY DEF BestIn
<1>2. \A X \in {S, T} : /\ first(X) \in (ToSet(list) \cap use(X)) \cup {NULL}
                        /\ first(X) = NULL => ToSet(list) \cap use(X) = {}
                        /\ forced(X) \in (ToSet(list) \cap X \cap {name}) \cup {NULL}
                        /\ forced(X) = NULL => ToSet(list) \cap X \cap {name} = {}
  <2>1. ASSUME NEW X
        PROVE  /\ First(list, X) \in (ToSet(list) \cap X) \cup {NULL}
               /\ First(list, X) = NULL => ToSet(list) \cap X = {}
    BY FirstFacts DEF ToSet
  <2>. QED
    BY <2>1
<1>3. first(S) \in use(T) \cup {NULL} => first(T) = first(S)
  BY FirstWithin
<1>4. NULL \notin ToSet(list)
  BY ListSets, SourceAssumption
<1>5. b \in T \cup {NULL}
  OBVIOUS
<1>. HIDE DEF first, forced, b
<1>6. CASE first(S) # NULL /\ forced(S) # NULL /\ (mode => f[forced(S)].hres)
  <2>1. forced(S) = name /\ name \in T /\ name \in ToSet(list) /\ name \in use(T) /\ b = name
    BY <1>1, <1>2, <1>4, <1>5, <1>6
  <2>2. forced(T) = name /\ first(T) # NULL
    BY <1>2, <1>4, <2>1
  <2>. QED
    BY <1>1, <1>6, <2>1, <2>2 DEF b
<1>7. CASE ~(first(S) # NULL /\ forced(S) # NULL /\ (mode => f[forced(S)].hres))
  <2>1. b = first(S) /\ first(T) = first(S)
    BY <1>1, <1>2, <1>3, <1>5, <1>7
  <2>2. forced(T) \in {NULL, forced(S)}
    BY <1>2
  <2>. QED
    BY <1>1, <1>7, <2>1, <2>2 DEF b
<1>. QED
  BY <1>6, <1>7

\* Neither candidates that are not on the list matter, nor the flags unless the mode asks for them.
LEMMA BestSame ==
  ASSUME NEW list \in Seq(Sources), NEW name, NEW mode \in BOOLEAN, NEW f \in [Sources -> Flags],
         NEW g \in [Sources -> Flags], NEW S, NEW T, S \cap ToSet(list) = T \cap ToSet(list),
         \A c \in S \cap ToSet(list) : mode => (f[c].hres <=> g[c].hres)
  PROVE  BestIn(list, name, mode, f, S) = BestIn(list, name, mode, g, T)
<1>. DEFINE use(h, X) == {c \in X : mode => h[c].hres}
<1>1. First(list, use(f, S)) = First(list, use(g, T))
  <2>1. use(f, S) \cap ToSet(list) = use(g, T) \cap ToSet(list)
    OBVIOUS
  <2>. HIDE DEF use
  <2>. QED
    BY <2>1, FirstOnList
<1>2. First(list, S \cap {name}) = First(list, T \cap {name})
  <2>1. (S \cap {name}) \cap ToSet(list) = (T \cap {name}) \cap ToSet(list)
    OBVIOUS
  <2>. QED
    BY <2>1, FirstOnList
<1>3. First(list, S \cap {name}) \in (ToSet(list) \cap S) \cup {NULL}
  BY FirstFacts DEF ToSet
<1>. QED
  BY <1>1, <1>2, <1>3 DEF BestIn

\* One that is the best and may be used in oneshot mode remains the best in oneshot mode.
LEMMA BestInOneshot ==
  ASSUME NEW list \in Seq(Sources), NEW name, NEW f \in [Sources -> Flags], NEW S, NEW c \in Sources,
         f[c].hres, BestIn(list, name, FALSE, f, S) \in {c, NULL}
  PROVE  BestIn(list, name, TRUE, f, S) \in {c, NULL}
<1>. DEFINE use == {d \in S : f[d].hres}
            b == BestIn(list, name, FALSE, f, S)
<1>0. /\ b \in (ToSet(list) \cap S) \cup {NULL}
      /\ b = NULL => \A d \in ToSet(list) \cap S : ~(FALSE => f[d].hres)
      /\ BestIn(list, name, TRUE, f, S) \in (ToSet(list) \cap S) \cup {NULL}
  <2>1. \A mode \in BOOLEAN :
          /\ BestIn(list, name, mode, f, S) \in (ToSet(list) \cap S) \cup {NULL}
          /\ BestIn(list, name, mode, f, S) = NULL => \A d \in ToSet(list) \cap S : ~(mode => f[d].hres)
    BY BestFacts
  <2>. QED
    BY <2>1
<1>1. CASE b = NULL
  <2>1. ToSet(list) \cap S = {}
    BY <1>0, <1>1
  <2>. QED
    BY <1>0, <2>1
<1>2. CASE b = c
  <2>1. c \in ToSet(list) \cap S /\ c # NULL
    BY <1>0, <1>2, SourceAssumption
  <2>2. /\ b = IF First(list, S) # NULL /\ First(list, S \cap {name}) # NULL THEN First(list, S \cap {name})
               ELSE First(list, S)
    <3>1. {d \in S : FALSE => f[d].hres} = S
      OBVIOUS
    <3>. QED
      BY <3>1 DEF BestIn
  <2>3. BestIn(list, name, TRUE, f, S) =
          IF First(list, use) # NULL /\ First(list, S \cap {name}) # NULL /\ f[First(list, S \cap {name})].hres
          THEN First(list, S \cap {name}) ELSE First(list, use)
    <3>1. {d \in S : TRUE => f[d].hres} = use
      OBVIOUS
    <3>. QED
      BY <3>1 DEF BestIn
  <2>4. First(list, S) # NULL /\ First(list, use) # NULL
    BY <2>1, FirstFacts
  <2>5. CASE First(list, S \cap {name}) # NULL
    BY <1>2, <2>2, <2>3, <2>4, <2>5
  <2>6. CASE First(list, S \cap {name}) = NULL
    <3>1. First(list, S) = c
      BY <1>2, <2>2, <2>6
    <3>2. First(list, use) = c
      BY <2>1, <3>1, FirstWithin
    <3>. QED
      BY <2>3, <2>6, <3>2
  <2>. QED
    BY <2>5, <2>6
<1>. QED
  BY <1>1, <1>2

\* An override that cannot be used may as well be forgotten.
LEMMA BestForgets ==
  ASSUME NEW list \in Seq(Sources), NEW name, NEW mode \in BOOLEAN, NEW f \in [Sources -> Flags], NEW S,
         First(list, S \cap {name}) # NULL, mode /\ ~f[First(list, S \cap {name})].hres
  PROVE  \A T \in SUBSET S : BestIn(list, NULL, mode, f, T) = BestIn(list, name, mode, f, T)
<1>. SUFFICES ASSUME NEW T \in SUBSET S
              PROVE  BestIn(list, NULL, mode, f, T) = BestIn(list, name, mode, f, T)
  OBVIOUS
<1>1. NULL \notin ToSet(list)
  BY ListSets, SourceAssumption
<1>2. First(list, T \cap {NULL}) = NULL
  BY <1>1, FirstFacts
<1>3. First(list, S \cap {name}) = name
  BY FirstFacts
<1>4. First(list, T \cap {name}) \in {name, NULL}
  BY FirstFacts
<1>. QED
  BY <1>2, <1>3, <1>4 DEF BestIn

\* Nor does one matter that is removed and is not a candidate.
LEMMA BestRemoved ==
  ASSUME NEW list \in Seq(Sources), Distinct(list), NEW name, NEW mode, NEW f, NEW c,
         NEW S \in SUBSET (Sources \ {c})
  PROVE  BestIn(Without(list, c), name, mode, f, S) = BestIn(list, name, mode, f, S)
<1>. DEFINE use == {d \in S : mode => f[d].hres}
<1>1. use \subseteq Sources \ {c} /\ S \cap {name} \subseteq Sources \ {c}
  OBVIOUS
<1>. HIDE DEF use
<1>2. First(Without(list, c), use) = First(list, use)
  BY <1>1, FirstKept DEF Without
<1>3. First(Without(list, c), S \cap {name}) = First(list, S \cap {name})
  BY <1>1, FirstKept DEF Without
<1>. QED
  BY <1>2, <1>3 DEF BestIn, use

LEMMA ChoiceIsBest ==
  ASSUME TypeOK, finished_booting, NEW k \in BOOLEAN
  PROVE  Choice(k) = BestAt(oneshot, Candidates(k))
<1>1. FindBest(k) = First(clocksource_list, {c \in Candidates(k) : oneshot => cs[c].hres})
  BY DEF FindBest
<1>2. oneshot \in BOOLEAN
  BY DEF TypeOK
<1>. QED
  BY <1>1, <1>2 DEF Choice, BestAt, BestIn, Override, Deferred

\* In the present state: what BestFacts, BestWithin and BestForgets say of it.
LEMMA BestAtFacts ==
  ASSUME clocksource_list \in Seq(Sources), oneshot \in BOOLEAN, cs \in [Sources -> Flags], NEW name, NEW S
  PROVE  LET b == BestIn(clocksource_list, name, oneshot, cs, S)
         IN /\ b \in (ToSet(clocksource_list) \cap S) \cup {NULL}
            /\ b # NULL => (oneshot => cs[b].hres)
BY BestFacts

LEMMA NoneIsBest ==
  ASSUME clocksource_list \in Seq(Sources), cs \in [Sources -> Flags], NEW mode \in BOOLEAN, NEW S,
         BestAt(mode, S) = NULL
  PROVE  \A d \in ToSet(clocksource_list) \cap S : mode /\ ~cs[d].hres
<1>1. BestIn(clocksource_list, override_name, mode, cs, S) = NULL
  BY DEF BestAt
<1>2. \A d \in ToSet(clocksource_list) \cap S : ~(mode => cs[d].hres)
  BY <1>1, BestFacts
<1>. QED
  BY <1>2

LEMMA BestAtWithin ==
  ASSUME clocksource_list \in Seq(Sources), cs \in [Sources -> Flags], NEW mode \in BOOLEAN,
         NEW S, NEW T, T \subseteq S, BestAt(mode, S) \in T \cup {NULL}
  PROVE  BestAt(mode, T) = BestAt(mode, S)
<1>1. BestIn(clocksource_list, override_name, mode, cs, S) \in T \cup {NULL}
  BY DEF BestAt
<1>2. BestIn(clocksource_list, override_name, mode, cs, T) = BestIn(clocksource_list, override_name, mode, cs, S)
  BY <1>1, BestWithin
<1>. QED
  BY <1>2 DEF BestAt

LEMMA BestAtForgets ==
  ASSUME clocksource_list \in Seq(Sources), cs \in [Sources -> Flags], NEW mode \in BOOLEAN, NEW S,
         First(clocksource_list, S \cap {override_name}) # NULL,
         mode /\ ~cs[First(clocksource_list, S \cap {override_name})].hres,
         NEW T \in SUBSET S
  PROVE  BestIn(clocksource_list, NULL, mode, cs, T) = BestAt(mode, T)
<1>1. BestIn(clocksource_list, NULL, mode, cs, T) = BestIn(clocksource_list, override_name, mode, cs, T)
  BY BestForgets
<1>. QED
  BY <1>1 DEF BestAt

LEMMA ModeType == TypeOK => Mode \in BOOLEAN
BY DEF TypeOK, Mode

\* The clock is settled when changes only flag others, or the flags that the mode asks for stay.
LEMMA SettledStays ==
  ASSUME CoreInv, CoreInv', NEW c, NEW S, Settled(c, S),
         UNCHANGED <<clocksource_list, override_name, Mode>>, Flagged \subseteq Flagged',
         \A d \in Registered : d \in Flagged' \/ (Mode => (cs[d].hres <=> cs'[d].hres))
  PROVE  c \in Flagged' \/ BestIn(clocksource_list', override_name', Mode', cs', S \ Flagged') \in {c, NULL}
<1>. SUFFICES ASSUME c \notin Flagged'
              PROVE  BestIn(clocksource_list', override_name', Mode', cs', S \ Flagged') \in {c, NULL}
  OBVIOUS
<1>. DEFINE old == BestIn(clocksource_list, override_name, Mode, cs, S \ Flagged)
<1>1. /\ clocksource_list \in Seq(Sources) /\ Mode \in BOOLEAN /\ cs \in [Sources -> Flags]
      /\ cs' \in [Sources -> Flags] /\ Registered = ToSet(clocksource_list)
  BY ModeType DEF CoreInv, TypeOK, Registered
<1>2. old \in {c, NULL} /\ c \notin Flagged
  BY DEF Settled, BestOf, BestAt
<1>3. old \in (S \ Flagged') \cup {NULL}
  <2>1. old \in (ToSet(clocksource_list) \cap (S \ Flagged)) \cup {NULL}
    BY <1>1, BestFacts
  <2>. QED
    BY <1>2, <2>1
<1>4. BestIn(clocksource_list, override_name, Mode, cs, S \ Flagged') = old
  <2>1. S \ Flagged' \subseteq S \ Flagged
    OBVIOUS
  <2>. DEFINE T == S \ Flagged'
              U == S \ Flagged
  <2>. HIDE DEF T, U
  <2>2. T \subseteq U /\ BestOf(U) \in T \cup {NULL}
    BY <1>3, <2>1 DEF T, U, BestOf, BestAt
  <2>3. BestOf(T) = BestOf(U)
    <3>1. PICK mode \in BOOLEAN : mode = Mode
      BY <1>1
    <3>2. BestAt(mode, U) \in T \cup {NULL}
      BY <2>2, <3>1 DEF BestOf
    <3>3. BestAt(mode, T) = BestAt(mode, U)
      BY <1>1, <2>2, <3>2, BestAtWithin
    <3>. QED
      BY <3>1, <3>3 DEF BestOf
  <2>. QED
    BY <2>3 DEF T, U, BestOf, BestAt
<1>5. BestIn(clocksource_list, override_name, Mode, cs, S \ Flagged')
        = BestIn(clocksource_list, override_name, Mode, cs', S \ Flagged')
  <2>. DEFINE T == S \ Flagged'
  <2>1. \A d \in T \cap ToSet(clocksource_list) : Mode => (cs[d].hres <=> cs'[d].hres)
    BY <1>1
  <2>. HIDE DEF T
  <2>2. BestIn(clocksource_list, override_name, Mode, cs, T) = BestIn(clocksource_list, override_name, Mode, cs', T)
    BY <1>1, <2>1, BestSame
  <2>. QED
    BY <2>2 DEF T
<1>. QED
  BY <1>2, <1>4, <1>5

\* A choice makes the chosen one settled; what it may have forgotten does not matter.
LEMMA SelectSettles ==
  ASSUME CoreInv, finished_booting, Select, NEW k \in BOOLEAN, k = (op.kind = "unbind"), NEW T \in SUBSET Candidates(k)
  PROVE  /\ BestIn(clocksource_list, override_name', oneshot, cs, T) = BestAt(oneshot, T)
         /\ Choice(k) = BestAt(oneshot, Candidates(k))
<1>1. Choice(k) = BestAt(oneshot, Candidates(k))
  BY ChoiceIsBest DEF CoreInv
<1>2. clocksource_list \in Seq(Sources) /\ oneshot \in BOOLEAN /\ cs \in [Sources -> Flags]
  BY DEF CoreInv, TypeOK
<1>3. CASE override_name' = override_name
  BY <1>1, <1>3 DEF BestAt
<1>4. CASE override_name' # override_name
  <2>1. /\ override_name' = NULL /\ Override(k) # NULL /\ Deferred(Override(k))
    BY <1>4 DEF Select
  <2>2. /\ First(clocksource_list, Candidates(k) \cap {override_name}) # NULL
        /\ oneshot /\ ~cs[First(clocksource_list, Candidates(k) \cap {override_name})].hres
    BY <2>1 DEF Override, Deferred
  <2>3. BestIn(clocksource_list, NULL, oneshot, cs, T) = BestAt(oneshot, T)
    BY <1>2, <2>2, BestAtForgets
  <2>. QED
    BY <1>1, <2>1, <2>3
<1>. QED
  BY <1>3, <1>4

\* With fewer candidates it is settled still, if it is one of them.
LEMMA SettledWithin ==
  ASSUME CoreInv, NEW c, NEW S, NEW T, T \subseteq S, Settled(c, S), c \in T \cup {NULL}
  PROVE  Settled(c, T)
<1>1. CASE c \in Flagged
  BY <1>1 DEF Settled
<1>2. CASE c \notin Flagged
  <2>1. clocksource_list \in Seq(Sources) /\ Mode \in BOOLEAN /\ cs \in [Sources -> Flags]
    BY ModeType DEF CoreInv, TypeOK
  <2>. DEFINE U == S \ Flagged
              V == T \ Flagged
  <2>2. V \subseteq U /\ BestOf(U) \in {c, NULL} /\ c \in V \cup {NULL}
    BY <1>2 DEF Settled
  <2>. HIDE DEF U, V
  <2>3. BestOf(V) = BestOf(U)
    <3>1. BestOf(U) \in V \cup {NULL}
      BY <2>2
    <3>. QED
      BY <2>1, <2>2, <3>1, BestAtWithin DEF BestOf
  <2>. QED
    BY <2>2, <2>3 DEF Settled, U, V
<1>. QED
  BY <1>1, <1>2

\* The same for an action that leaves alone what the choice reads but for flags: each part of
\* ChoiceInv is kept if no more is flagged less, and what was fit for the mode remains so.
LEMMA ChoiceQuiet ==
  ASSUME CoreInv, CoreInv', ChoiceInv, ModeInv',
         UNCHANGED <<clocksource_list, override_name, Mode, finished_booting, clock, curr_clocksource, op>>,
         outcome' \in {"kept", "switched"} => outcome \in {"kept", "switched"},
         Flagged \subseteq Flagged',
         \A d \in Registered : d \in Flagged' \/ (Mode => (cs[d].hres <=> cs'[d].hres)),
         \A d \in Registered : FitsMode(d) => FitsMode(d)'
  PROVE  ChoiceInv'
<1>. SUFFICES ASSUME outcome' \in {"kept", "switched"} PROVE ChoiceKept'
  BY DEF ChoiceInv
<1>1. /\ ChoiceKept
      /\ Remaining' = Remaining /\ clock \in Registered
      /\ op.pc = "notify" => op.best \in Registered
  BY SourceAssumption DEF CoreInv, TypeOK, UseInv, OwnerInv, Remaining, ChoiceInv
<1>2. ASSUME NEW b, Settled(b, Remaining) PROVE b \in Flagged' \/ (BestOf(Remaining \ Flagged) \in {b, NULL})'
  <2>. DEFINE R == Remaining
  <2>. HIDE DEF R
  <2>1. b \in Flagged' \/ BestIn(clocksource_list', override_name', Mode', cs', R \ Flagged') \in {b, NULL}
    BY <1>2, SettledStays DEF R
  <2>. QED
    BY <1>1, <2>1 DEF R, BestOf, BestAt
<1>3. ASSUME op.pc = "notify" PROVE FitsMode(op.best)' /\ Settled(op.best, Remaining)'
  <2>. DEFINE b == op.best
  <2>1. Settled(b, Remaining) /\ FitsMode(b) /\ b \in Registered
    BY <1>1, <1>3 DEF ChoiceKept
  <2>. HIDE DEF b
  <2>2. b \in Flagged' \/ (BestOf(Remaining \ Flagged))' \in {b, NULL}
    BY <1>2, <2>1
  <2>3. Mode' => cs'[b].hres \/ cs'[b].unstable
    BY <2>1 DEF FitsMode
  <2>. QED
    BY <1>1, <2>2, <2>3 DEF b, Settled, FitsMode
<1>4. ASSUME finished_booting, op.pc \notin {"select", "notify"}
      PROVE  Settled(clock, Remaining)' /\ (FitsMode(clock) \/ Settled(NULL, Remaining))'
  <2>1. Settled(clock, Remaining) /\ (FitsMode(clock) \/ Settled(NULL, Remaining))
    BY <1>1, <1>4 DEF ChoiceKept
  <2>2. Settled(clock, Remaining)'
    BY <1>1, <1>2, <2>1 DEF Settled
  <2>3. Settled(NULL, Remaining) => Settled(NULL, Remaining)'
    BY <1>2 DEF Settled
  <2>4. FitsMode(clock) => FitsMode(clock)'
    BY <1>1 DEF FitsMode
  <2>. QED
    BY <2>1, <2>2, <2>3, <2>4
<1>. QED
  BY <1>3, <1>4 DEF ChoiceKept

\* The owner goes on, and at most less will be left than it was.
LEMMA ChoiceMoves ==
  ASSUME CoreInv, ChoiceInv,
         UNCHANGED <<lists, cs, override_name, oneshot, finished_booting, clock, outcome>>,
         op.pc \notin {"select", "notify"}, op'.pc # "notify",
         finished_booting /\ op'.pc # "select" => Remaining' \subseteq Remaining /\ clock \in Remaining'
  PROVE  ChoiceInv'
<1>1. Flagged' = Flagged /\ clocksource_list' = clocksource_list /\ Mode' = Mode
  BY SameLists DEF Flagged, Mode
<1>2. ModeInv'
  BY DEF ChoiceInv, ModeInv
<1>3. ASSUME finished_booting, op'.pc # "select", ChoiceKept
      PROVE  Settled(clock, Remaining)' /\ (FitsMode(clock) \/ Settled(NULL, Remaining))'
  <2>. DEFINE R == Remaining
              T == Remaining'
  <2>1. Settled(clock, R) /\ T \subseteq R /\ clock \in T /\ (FitsMode(clock) \/ Settled(NULL, R))
    BY <1>3 DEF ChoiceKept
  <2>. HIDE DEF R, T
  <2>2. Settled(clock, T) /\ (FitsMode(clock) \/ Settled(NULL, T))
    BY <2>1, SettledWithin
  <2>. QED
    BY <1>1, <2>2 DEF T, Settled, BestOf, BestAt, FitsMode
<1>. QED
  BY <1>2, <1>3 DEF ChoiceInv, ChoiceKept

\* A new choice will be made.
LEMMA ChoiceToCome ==
  ASSUME ModeInv, op'.pc = "select", UNCHANGED <<oneshot, outcome>>, finished_booting => finished_booting',
         \A d \in Sources \ Continuous : ~cs'[d].hres
  PROVE  ChoiceInv'
BY DEF ChoiceInv, ModeInv, ChoiceKept

-----------------------------------------------------------------------------
\* ... after each action

LEMMA RegisterChoice ==
  ASSUME CoreInv, ChoiceInv, NEW c \in Sources, Register(c)
  PROVE  ChoiceInv'
<1>1. op'.pc = "select" /\ UNCHANGED <<oneshot, outcome, finished_booting>>
  BY DEF Register, UserCall, settings
<1>2. ASSUME NEW d \in Sources \ Continuous PROVE cs'[d].hres = cs[d].hres
  <2>1. cs \in [Sources -> Flags] /\ cs[c] \in Flags
    BY DEF CoreInv, TypeOK
  <2>2. cs' = [cs EXCEPT ![c].hres = @ \/ c \in Continuous \ MustVerify]
    BY DEF Register
  <2>3. CASE d # c
    BY <2>1, <2>2, <2>3
  <2>4. CASE d = c
    <3>1. c \notin Continuous \ MustVerify
      BY <2>4
    <3>. QED
      BY <2>1, <2>2, <2>4, <3>1 DEF Flags
  <2>. QED
    BY <2>3, <2>4
<1>3. ModeInv
  BY DEF ChoiceInv
<1>4. \A d \in Sources \ Continuous : ~cs'[d].hres
  BY <1>2, <1>3 DEF ModeInv
<1>. QED
  BY <1>1, <1>3, <1>4, ChoiceToCome

LEMMA UserChoice ==
  ASSUME CoreInv, ChoiceInv,
         \/ \E c \in Sources : Unbind(c)
         \/ \E name \in Sources \cup {NULL} : Store(name)
  PROVE  ChoiceInv'
<1>1. ASSUME NEW c \in Sources, Unbind(c) PROVE ChoiceInv'
  <2>1. /\ UNCHANGED <<lists, cs, override_name, oneshot, finished_booting, clock, curr_clocksource, outcome>>
        /\ op = Idle /\ op'.pc = "watchdog"
    BY <1>1 DEF Unbind, UserCall, settings, choices, history
  <2>2. Remaining = Sources /\ Remaining' = Sources /\ clock \in Sources
    BY <2>1 DEF Remaining, Idle, CoreInv, TypeOK
  <2>3. op.pc = "idle"
    BY <2>1 DEF Idle
  <2>. QED
    BY <2>1, <2>2, <2>3, ChoiceMoves
<1>2. ASSUME NEW name \in Sources \cup {NULL}, Store(name) PROVE ChoiceInv'
  <2>1. op'.pc = "select" /\ UNCHANGED <<cs, oneshot, outcome, finished_booting>>
    BY <1>2 DEF Store, UserCall, history
  <2>. QED
    BY <2>1, ChoiceToCome DEF ChoiceInv, ModeInv
<1>. QED
  BY <1>1, <1>2

\* The chosen one is installed, or refused.
LEMMA NotifyChoice ==
  ASSUME CoreInv, ChoiceInv, Notify
  PROVE  ChoiceInv'
<1>1. /\ op.pc = "notify" /\ finished_booting /\ op.best # curr_clocksource /\ Finish(AfterChoice)
      /\ op.kind = "unbind" => op.c = curr_clocksource
      /\ UNCHANGED <<lists, cs, override_name, finished_booting, oneshot>>
      /\ \/ outcome' = "refused"
         \/ outcome' = outcome /\ clock' = op.best /\ curr_clocksource' = op.best
  BY DEF Notify, CoreInv, OwnerInv
<1>2. Flagged' = Flagged /\ clocksource_list' = clocksource_list
  BY <1>1, SameLists DEF Flagged
<1>3. /\ op'.pc \notin {"select", "notify"}
      /\ op'.kind = "unbind" => op.kind = "unbind" /\ op'.c = op.c /\ op'.pc = "replaced"
      /\ op.kind = "unbind" => op'.kind = "unbind"
  BY <1>1, AfterChoiceFacts DEF Idle
<1>4. ModeInv'
  BY <1>1, <1>3 DEF ChoiceInv, ModeInv
<1>5. CASE outcome' = "refused"
  BY <1>4, <1>5 DEF ChoiceInv
<1>6. CASE outcome' = outcome /\ clock' = op.best /\ curr_clocksource' = op.best
  <2>1. Remaining' = Remaining /\ Mode' = Mode
    BY <1>1, <1>3, <1>6 DEF Remaining, Mode
  <2>2. ASSUME ChoiceKept PROVE Settled(clock, Remaining)' /\ FitsMode(clock)'
    <3>1. FitsMode(op.best) /\ Settled(op.best, Remaining)
      BY <1>1, <2>2 DEF ChoiceKept
    <3>. QED
      BY <1>1, <1>2, <1>6, <2>1, <3>1 DEF FitsMode, Settled, BestOf, BestAt
  <2>. QED
    BY <1>3, <1>4, <1>6, <2>2 DEF ChoiceInv, ChoiceKept
<1>. QED
  BY <1>1, <1>5, <1>6

\* A new choice does not depend on what became of the one before.
LEMMA SelectChoice ==
  ASSUME CoreInv, CoreInv', ChoiceInv, Select
  PROVE  ChoiceInv'
<1>. DEFINE k == op.kind = "unbind"
            best == Choice(k)
<1>1. /\ op.pc = "select"
      /\ IF best \in {NULL, curr_clocksource} THEN Finish(AfterChoice)
         ELSE op' = [op EXCEPT !.pc = "notify", !.best = best]
      /\ UNCHANGED <<lists, cs, curr_clocksource, finished_booting, clock, oneshot>>
      /\ outcome' = "kept"
  BY DEF Select, choices
<1>2. Flagged' = Flagged /\ clocksource_list' = clocksource_list
  BY <1>1, SameLists DEF Flagged
<1>3. /\ clocksource_list \in Seq(Sources) /\ oneshot \in BOOLEAN /\ cs \in [Sources -> Flags]
      /\ clock \in Sources /\ NULL \notin Sources /\ op \in Owners
      /\ Registered = ToSet(clocksource_list) /\ Flagged \subseteq Sources
      /\ op.kind = "unbind" => op.c = curr_clocksource
      /\ finished_booting => clock = curr_clocksource
  BY <1>1, SourceAssumption, ListSets DEF CoreInv, TypeOK, OwnerInv, UseInv, Registered, Flagged, Watched
<1>4. /\ best \in (Registered \cap Candidates(k)) \cup {NULL} /\ (best # NULL => finished_booting)
      /\ Candidates(FALSE) = Sources /\ Candidates(TRUE) = Sources \ {curr_clocksource}
  BY ChoiceFacts DEF CoreInv, Candidates
<1>5. ASSUME finished_booting
      PROVE  /\ best = BestAt(oneshot, Candidates(k))
             /\ \A T \in SUBSET Candidates(k) :
                  BestIn(clocksource_list, override_name', oneshot, cs, T) = BestAt(oneshot, T)
  BY <1>5, SelectSettles
\* What the choice returns is the best of the unflagged candidates, if it is one of them.
<1>6. ASSUME finished_booting, best \notin Flagged
      PROVE  BestIn(clocksource_list, override_name', oneshot, cs, Candidates(k) \ Flagged) = best
  <2>. DEFINE C == Candidates(k)
              T == C \ Flagged
  <2>1. best = BestAt(oneshot, C) /\ best \in C \cup {NULL}
    BY <1>4, <1>5, <1>6
  <2>2. T \subseteq C /\ BestAt(oneshot, C) \in T \cup {NULL}
    BY <1>6, <2>1
  <2>3. BestIn(clocksource_list, override_name', oneshot, cs, T) = BestAt(oneshot, T)
    BY <1>5, <1>6, <2>2
  <2>. HIDE DEF T, C, best
  <2>4. BestAt(oneshot, T) = BestAt(oneshot, C)
    <3>1. clocksource_list \in Seq(Sources) /\ cs \in [Sources -> Flags] /\ oneshot \in BOOLEAN
      BY <1>3
    <3>2. PICK mode \in BOOLEAN : mode = oneshot
      BY <3>1
    <3>3. BestAt(mode, C) \in T \cup {NULL}
      BY <2>2, <3>2
    <3>4. BestAt(mode, T) = BestAt(mode, C)
      BY <2>2, <3>1, <3>3, BestAtWithin
    <3>. QED
      BY <3>2, <3>4
  <2>. QED
    BY <2>1, <2>3, <2>4 DEF T, C
<1>7. best # NULL => (oneshot => cs[best].hres)
  <2>. DEFINE C == Candidates(k)
  <2>. HIDE DEF C
  <2>1. finished_booting => best = BestIn(clocksource_list, override_name, oneshot, cs, C)
    BY <1>5 DEF BestAt, C
  <2>2. LET b == BestIn(clocksource_list, override_name, oneshot, cs, C)
        IN b # NULL => (oneshot => cs[b].hres)
    BY <1>3, BestAtFacts
  <2>. HIDE DEF best
  <2>. QED
    BY <1>4, <2>1, <2>2
<1>8. Mode' = oneshot
  BY <1>1, <1>3 DEF Mode
<1>9. ModeInv'
  <2>1. op'.pc = "notify" => finished_booting
    BY <1>1, <1>4, AfterChoiceFacts DEF Idle
  <2>. QED
    BY <1>1 DEF ChoiceInv, ModeInv
<1>. HIDE DEF best
<1>10. CASE best \in {NULL, curr_clocksource}
  <2>1. /\ op'.pc \notin {"select", "notify"}
        /\ op'.kind = "unbind" => op'.c = curr_clocksource
    BY <1>1, <1>3, <1>10, AfterChoiceFacts DEF Idle
  <2>2. Remaining' = Sources
    BY <1>1, <2>1 DEF Remaining
  <2>. DEFINE S == Sources \ Flagged
              b == BestIn(clocksource_list, override_name', oneshot, cs, S)
  <2>3. ASSUME finished_booting, best = NULL
        PROVE  b \in {clock, NULL} /\ (b = NULL \/ (oneshot => cs[clock].hres))
    <3>1. CASE ~k
      <4>1. best \notin Flagged /\ Candidates(k) = Sources
        BY <1>3, <1>4, <2>3, <3>1
      <4>. QED
        BY <1>6, <2>3, <4>1
    <3>2. CASE k
      <4>1. Candidates(k) = Sources \ {curr_clocksource}
        BY <1>4, <3>2
      <4>2. BestAt(oneshot, Sources \ {curr_clocksource}) = NULL
        BY <1>5, <2>3, <4>1
      <4>3. \A d \in ToSet(clocksource_list) \cap (Sources \ {curr_clocksource}) : oneshot /\ ~cs[d].hres
        BY <1>3, <4>2, NoneIsBest
      <4>. HIDE DEF S, b
      <4>4. /\ b \in (ToSet(clocksource_list) \cap S) \cup {NULL}
            /\ b # NULL => (oneshot => cs[b].hres)
        BY <1>3, BestAtFacts DEF b
      <4>5. b \in {curr_clocksource, NULL}
        BY <4>3, <4>4 DEF S
      <4>. QED
        BY <1>3, <2>3, <4>4, <4>5
    <3>. QED
      BY <3>1, <3>2
  <2>4. ASSUME finished_booting, best = curr_clocksource, best # NULL
        PROVE  (clock \in Flagged \/ b \in {clock, NULL}) /\ (oneshot => cs[clock].hres)
    <3>1. ~k /\ Candidates(k) = Sources
      BY <1>4, <2>4
    <3>. QED
      BY <1>3, <1>6, <1>7, <2>4, <3>1
  <2>5. finished_booting => /\ clock \in Flagged \/ b \in {clock, NULL}
                            /\ b = NULL \/ (oneshot => cs[clock].hres)
    BY <1>10, <2>3, <2>4
  <2>. HIDE DEF b
  <2>6. /\ (BestOf(Remaining \ Flagged))' = b
        /\ clock' = clock
    BY <1>1, <1>2, <1>8, <2>2 DEF BestOf, BestAt, b
  <2>7. finished_booting => (Settled(clock, Remaining) /\ (FitsMode(clock) \/ Settled(NULL, Remaining)))'
    BY <1>1, <1>2, <1>8, <2>5, <2>6 DEF Settled, FitsMode
  <2>. QED
    BY <1>1, <1>9, <2>1, <2>7 DEF ChoiceInv, ChoiceKept
<1>11. CASE best \notin {NULL, curr_clocksource}
  <2>1. /\ op'.pc = "notify" /\ op'.best = best /\ op'.kind = op.kind /\ op'.c = op.c
    BY <1>1, <1>3, <1>11 DEF Owners
  <2>2. Remaining' = Candidates(k)
    BY <1>1, <1>3, <1>4, <2>1 DEF Remaining
  <2>3. finished_booting
    BY <1>4, <1>11
  <2>4. oneshot => cs[best].hres
    BY <1>7, <1>11
  <2>5. (FitsMode(op.best) /\ Settled(op.best, Remaining))'
    BY <1>1, <1>2, <1>6, <1>8, <2>1, <2>2, <2>3, <2>4 DEF FitsMode, Settled, BestOf, BestAt
  <2>. QED
    BY <1>1, <1>9, <2>1, <2>5 DEF ChoiceInv, ChoiceKept
<1>. QED
  BY <1>10, <1>11

LEMMA OwnerChoice ==
  ASSUME CoreInv, ChoiceInv, RegisterEnds \/ ReplaceWatchdog \/ UnbindBusy
  PROVE  ChoiceInv'
<1>0. clock \in Sources /\ (finished_booting => clock = curr_clocksource)
  BY DEF CoreInv, TypeOK, UseInv
<1>1. CASE RegisterEnds
  <2>1. /\ UNCHANGED <<lists, cs, override_name, oneshot, finished_booting, clock, outcome>>
        /\ op.pc = "select_watchdog" /\ op.kind = "register" /\ op' = Idle
    BY <1>1 DEF RegisterEnds, settings, CoreInv, OwnerInv, history
  <2>2. Remaining = Sources /\ Remaining' = Sources /\ op'.pc = "idle"
    BY <2>1 DEF Remaining, Idle
  <2>. QED
    BY <1>0, <2>1, <2>2, ChoiceMoves
<1>2. CASE UnbindBusy
  <2>1. /\ UNCHANGED <<lists, cs, override_name, oneshot, finished_booting, clock, outcome>>
        /\ op.pc = "replaced" /\ op.c = curr_clocksource /\ op' = Idle
    BY <1>2 DEF UnbindBusy, NoReplacement, settings, history
  <2>2. Remaining = Sources /\ Remaining' = Sources /\ op'.pc = "idle"
    BY <2>1 DEF Remaining, Idle
  <2>. QED
    BY <1>0, <2>1, <2>2, ChoiceMoves
<1>3. CASE ReplaceWatchdog
  <2>1. /\ UNCHANGED <<lists, cs, override_name, oneshot, finished_booting, clock, curr_clocksource, outcome>>
        /\ op.pc = "watchdog" /\ op.kind = "unbind" /\ op \in Owners
        /\ Finish(IF op.c = watchdog' THEN "idle" ELSE IF op.c = curr_clocksource THEN "select" ELSE "replaced")
    BY <1>3 DEF ReplaceWatchdog, settings, CoreInv, TypeOK, OwnerInv, history
  <2>2. \/ op' = Idle
        \/ op'.pc = "select"
        \/ op.c # curr_clocksource /\ op'.kind = "unbind" /\ op'.c = op.c /\ op'.pc = "replaced"
    BY <2>1 DEF Finish, Owners
  <2>3. Remaining = Sources /\ (op' = Idle => op'.pc = "idle")
    BY <2>1 DEF Remaining, Idle
  <2>4. op' = Idle => Remaining' = Sources
    BY DEF Remaining, Idle
  <2>5. op'.pc = "replaced" /\ op.c # curr_clocksource /\ op'.kind = "unbind" /\ op'.c = op.c
          => Remaining' = Sources \ {op.c}
    BY <2>1 DEF Remaining
  <2>. QED
    BY <1>0, <2>1, <2>2, <2>3, <2>4, <2>5, ChoiceMoves
<1>. QED
  BY <1>1, <1>2, <1>3

\* One that is not the clock is removed.
LEMMA UnbindEndsChoice ==
  ASSUME CoreInv, CoreInv', SortInv, ChoiceInv, UnbindEnds
  PROVE  ChoiceInv'
<1>1. /\ op.pc = "replaced" /\ op.kind = "unbind" /\ op.c \in Registered /\ op.c # curr_clocksource
      /\ op' = Idle /\ clocksource_list' = Without(clocksource_list, op.c)
      /\ watchdog_list' = IF op.c \in MustVerify THEN Without(watchdog_list, op.c) ELSE watchdog_list
      /\ UNCHANGED <<cs, override_name, oneshot, finished_booting, clock, outcome>>
  BY DEF UnbindEnds, NoReplacement, settings, CoreInv, OwnerInv
<1>2. /\ clocksource_list \in Seq(Sources) /\ watchdog_list \in Seq(Sources) /\ Mode \in BOOLEAN
      /\ cs \in [Sources -> Flags] /\ Registered = ToSet(clocksource_list) /\ Registered \subseteq Sources
      /\ Watched = ToSet(watchdog_list) /\ NULL \notin Sources
      /\ Distinct(clocksource_list)
      /\ finished_booting => clock = curr_clocksource
  BY ListSets, ModeType, SourceAssumption DEF CoreInv, TypeOK, UseInv, Registered, Watched, SortInv, Sorted, Distinct
<1>3. /\ op.c \in Sources
      /\ clocksource_list' \in Seq(Sources) /\ ToSet(clocksource_list') = Registered \ {op.c}
      /\ Watched \ {op.c} \subseteq Watched' /\ Watched' \subseteq Watched
  <2>1. /\ op.c \in Sources
        /\ clocksource_list' \in Seq(Sources) /\ ToSet(clocksource_list') = Registered \ {op.c}
    BY <1>1, <1>2, ListSets
  <2>2. Watched' = ToSet(watchdog_list')
    BY DEF Watched
  <2>3. Watched' \in {Watched, Watched \ {op.c}}
    BY <1>1, <1>2, <2>1, <2>2, ListSets
  <2>. QED
    BY <2>1, <2>3
<1>4. Flagged \ {op.c} \subseteq Flagged' /\ Flagged' \subseteq Flagged /\ Mode' = Mode
  BY <1>1, <1>3 DEF Flagged, Mode
<1>5. Remaining = Sources \ {op.c} /\ Remaining' = Sources /\ op'.pc = "idle"
  BY <1>1 DEF Remaining, Idle
<1>6. ASSUME NEW c, c # op.c, Settled(c, Remaining)
      PROVE  c \in Flagged' \/ (BestOf(Remaining \ Flagged))' \in {c, NULL}
  <2>. DEFINE S == (Sources \ {op.c}) \ Flagged
              T == Sources \ Flagged'
              list == clocksource_list'
  <2>1. c \in Flagged \/ BestIn(clocksource_list, override_name, Mode, cs, S) \in {c, NULL}
    BY <1>5, <1>6 DEF Settled, BestOf, BestAt
  <2>2. S \in SUBSET (Sources \ {op.c}) /\ S \cap ToSet(list) = T \cap ToSet(list) /\ list \in Seq(Sources)
    BY <1>3, <1>4
  <2>3. list = Without(clocksource_list, op.c)
    BY <1>1
  <2>. HIDE DEF S, T, list
  <2>4. BestIn(list, override_name, Mode, cs, S) = BestIn(clocksource_list, override_name, Mode, cs, S)
    <3>1. BestIn(Without(clocksource_list, op.c), override_name, Mode, cs, S)
            = BestIn(clocksource_list, override_name, Mode, cs, S)
      BY <1>2, <2>2, BestRemoved
    <3>. QED
      BY <2>3, <3>1
  <2>5. BestIn(list, override_name, Mode, cs, S) = BestIn(list, override_name, Mode, cs, T)
    <3>1. PICK mode \in BOOLEAN : mode = Mode
      BY <1>2
    <3>2. BestIn(list, override_name, mode, cs, S) = BestIn(list, override_name, mode, cs, T)
      BY <1>2, <2>2, BestSame
    <3>. QED
      BY <3>1, <3>2
  <2>. QED
    BY <1>1, <1>4, <1>5, <1>6, <2>1, <2>4, <2>5 DEF BestOf, BestAt, T, list
<1>7. ASSUME finished_booting, ChoiceKept
      PROVE  Settled(clock, Remaining)' /\ (FitsMode(clock) \/ Settled(NULL, Remaining))'
  <2>1. Settled(clock, Remaining) /\ (FitsMode(clock) \/ Settled(NULL, Remaining))
    BY <1>1, <1>7 DEF ChoiceKept
  <2>2. clock # op.c /\ NULL # op.c
    BY <1>1, <1>2, <1>3, <1>7
  <2>3. Settled(clock, Remaining)'
    BY <1>1, <1>6, <2>1, <2>2 DEF Settled
  <2>4. Settled(NULL, Remaining) => Settled(NULL, Remaining)'
    BY <1>6, <2>2 DEF Settled
  <2>5. FitsMode(clock) => FitsMode(clock)'
    BY <1>1, <1>4 DEF FitsMode
  <2>. QED
    BY <2>1, <2>3, <2>4, <2>5
<1>8. ModeInv'
  BY <1>1, <1>5 DEF ChoiceInv, ModeInv
<1>. QED
  BY <1>1, <1>5, <1>7, <1>8 DEF ChoiceInv, ChoiceKept

\* The thread flags nothing that the choice reads.
LEMMA DemoteChoice ==
  ASSUME CoreInv, CoreInv', ChoiceInv, DoneBooting \/ RunThread
  PROVE  ChoiceInv'
<1>1. /\ Demote /\ UNCHANGED <<override_name, clock, oneshot, outcome>> /\ op = Idle /\ op'.pc # "notify"
      /\ finished_booting => finished_booting'
  BY DEF DoneBooting, RunThread, settings, history, Idle
<1>2. \A d \in Sources : cs'[d].hres = cs[d].hres /\ cs'[d].unstable = cs[d].unstable
  BY <1>1, DemoteFacts
<1>3. ModeInv /\ ModeInv' /\ \A d \in Sources \ Continuous : ~cs'[d].hres
  BY <1>1, <1>2 DEF ChoiceInv, ModeInv
<1>4. CASE op'.pc = "select"
  BY <1>1, <1>3, <1>4, ChoiceToCome
<1>5. CASE op'.pc # "select"
  <2>1. /\ op' = Idle /\ UNCHANGED <<choices, settings>>
        /\ \A c \in Watched : ~cs[c].unstable /\ ~cs[c].reselect
    BY <1>5 DEF DoneBooting, RunThread
  <2>2. Flagged = {} /\ {c \in Watched : cs[c].unstable} = {}
    BY <2>1 DEF Flagged
  <2>3. clocksource_list' = clocksource_list
    <3>1. /\ clocksource_list \in Seq(Sources) /\ watchdog_list \in Seq(Sources)
          /\ ToSet(clocksource_list) \subseteq Sources \ {}
      BY ListSets DEF CoreInv, TypeOK
    <3>2. clocksource_list' = Kept(clocksource_list, Sources \ {}) \o Kept(watchdog_list, {})
      BY <1>1, <2>2 DEF Demote
    <3>3. Kept(clocksource_list, Sources \ {}) = clocksource_list
      BY <3>1, KeptFacts
    <3>4. Kept(watchdog_list, {}) \in Seq(Sources) /\ ToSet(Kept(watchdog_list, {})) = {}
      BY <3>1, KeptFacts
    <3>5. Kept(watchdog_list, {}) = <<>>
      BY <3>1, <3>4, ListSets, SourceAssumption
    <3>. QED
      BY <3>1, <3>2, <3>3, <3>5
  <2>4. Mode' = Mode
    BY <1>1 DEF Mode
  <2>5. Registered \subseteq Sources
    BY ListSets DEF CoreInv, TypeOK, Registered
  <2>6. /\ \A d \in Registered : d \in Flagged' \/ (Mode => (cs[d].hres <=> cs'[d].hres))
        /\ \A d \in Registered : FitsMode(d) => FitsMode(d)'
        /\ Flagged \subseteq Flagged'
    BY <1>2, <2>2, <2>4, <2>5 DEF FitsMode
  <2>7. UNCHANGED <<clocksource_list, override_name, Mode, finished_booting, clock, curr_clocksource, op>>
    BY <1>1, <2>1, <2>3, <2>4 DEF choices, settings
  <2>. QED
    BY <1>1, <1>3, <2>6, <2>7, ChoiceQuiet
<1>. QED
  BY <1>4, <1>5

\* A verdict of the watchdog flags what it says, does not matter to the choice, or finds the
\* clock itself good where no other is.
LEMMA ScanChoice ==
  ASSUME CoreInv, CoreInv', ChoiceInv,
         NEW bad \in SUBSET Watched, NEW verified \in SUBSET Watched, bad \cap verified = {},
         Scan(bad, verified)
  PROVE  ChoiceInv'
<1>1. /\ UNCHANGED <<clocksource_list, override_name, oneshot, finished_booting, clock, curr_clocksource, op>>
      /\ Watched' = Watched /\ Registered \subseteq Sources /\ Watched \subseteq Sources
      /\ verified \subseteq {c \in Watched : ~cs[c].unstable} /\ bad \subseteq Registered
  <2>1. Registered \subseteq Sources /\ Watched \subseteq Sources
    BY ListSets DEF CoreInv, TypeOK, Registered, Watched
  <2>2. verified \subseteq {c \in Watched : ~cs[c].unstable}
    BY DEF Scan
  <2>. QED
    BY <2>1, <2>2, ScanFacts DEF lists, settings, choices
<1>2. ASSUME NEW d \in bad
      PROVE  d \in Flagged' /\ ~cs'[d].hres /\ cs'[d].unstable /\ d \in Sources
  <2>1. d \in Watched /\ d \in Sources
    BY <1>1
  <2>2. cs'[d] = Unstable(d)
    BY <2>1 DEF Scan
  <2>. QED
    BY <1>1, <2>1, <2>2, UnstableFacts DEF CoreInv, Flagged
<1>3. ASSUME NEW d \in Sources \ bad
      PROVE  \/ cs'[d] = cs[d]
             \/ /\ d \in verified /\ d \in Watched /\ ~cs[d].unstable /\ ~cs[d].hres /\ d \in Continuous
                /\ EnablesHres(d) /\ cs'[d].hres /\ ~cs'[d].unstable /\ (cs[d].reselect => cs'[d].reselect)
                /\ d # curr_clocksource /\ finished_booting => cs'[d].reselect
  <2>1. CASE cs'[d] = cs[d]
    BY <2>1
  <2>2. CASE cs'[d] # cs[d]
    <3>. DEFINE enabled == {c \in verified : EnablesHres(c)}
                r == cs[d].reselect \/ Reselects(d)
    <3>1. /\ d \in enabled
          /\ cs'[d] = [cs[d] EXCEPT !.hres = TRUE, !.reselect = r]
      <4>1. cs' = [c \in Sources |->
                     IF c \in bad THEN Unstable(c)
                     ELSE IF c \in enabled THEN [cs[c] EXCEPT !.hres = TRUE, !.reselect = @ \/ Reselects(c)]
                     ELSE cs[c]]
        BY DEF Scan
      <4>. HIDE DEF enabled
      <4>2. cs'[d] = IF d \in enabled THEN [cs[d] EXCEPT !.hres = TRUE, !.reselect = r] ELSE cs[d]
        BY <4>1
      <4>. QED
        BY <2>2, <4>2
    <3>2. cs[d] \in Flags
      BY DEF CoreInv, TypeOK
    <3>3. /\ cs'[d].hres = TRUE /\ cs'[d].unstable = cs[d].unstable
          /\ cs[d].reselect \/ Reselects(d) => cs'[d].reselect
      <4>. HIDE DEF r
      <4>1. cs'[d].hres = TRUE /\ cs'[d].unstable = cs[d].unstable /\ cs'[d].reselect = r
        BY <3>1, <3>2 DEF Flags
      <4>. QED
        BY <4>1 DEF r
    <3>. QED
      BY <1>1, <2>2, <3>1, <3>3 DEF EnablesHres, Reselects
  <2>. QED
    BY <2>1, <2>2
<1>4. Flagged \subseteq Flagged'
  BY <1>1, <1>2, <1>3 DEF Flagged
<1>5. outcome' = IF op.pc = "notify" /\ oneshot /\ curr_clocksource \in {c \in verified : EnablesHres(c)}
                 THEN "late" ELSE outcome
  BY DEF Scan
<1>6. ModeInv'
  <2>1. \A d \in Sources \ Continuous : ~cs'[d].hres
    BY <1>2, <1>3 DEF ChoiceInv, ModeInv
  <2>. QED
    BY <1>1, <1>5, <2>1 DEF ChoiceInv, ModeInv
<1>. SUFFICES ASSUME outcome' \in {"kept", "switched"} PROVE ChoiceKept'
  BY <1>6 DEF ChoiceInv
<1>7. /\ outcome' = outcome /\ Mode' = Mode /\ ChoiceKept
      /\ ~(op.pc = "notify" /\ oneshot /\ curr_clocksource \in {c \in verified : EnablesHres(c)})
  <2>1. outcome' = outcome
    BY <1>5
  <2>. QED
    BY <1>1, <1>5, <2>1 DEF Mode, ChoiceInv
<1>8. /\ clock \in Registered /\ Remaining' = Remaining /\ clock \in Sources
      /\ finished_booting => clock = curr_clocksource
      /\ Mode => finished_booting
  BY <1>1, SourceAssumption DEF CoreInv, TypeOK, UseInv, Remaining, Mode, ChoiceInv, ModeInv
\* All others that become valid for oneshot mode are flagged.
<1>9. ASSUME NEW d \in Sources, d \notin Flagged', Mode, d # clock
      PROVE  cs'[d].hres <=> cs[d].hres
  <2>1. d \notin bad
    BY <1>2, <1>9
  <2>2. CASE cs'[d] = cs[d]
    BY <2>2
  <2>3. CASE cs'[d] # cs[d]
    <3>1. d \in Watched /\ cs'[d].reselect
      BY <1>3, <1>8, <1>9, <2>1, <2>3
    <3>2. d \in Flagged'
      BY <1>1, <3>1 DEF Flagged
    <3>. QED
      BY <1>9, <3>2
  <2>. QED
    BY <2>2, <2>3
<1>10. \A d \in Sources : FitsMode(d) => FitsMode(d)'
  BY <1>2, <1>3, <1>7 DEF FitsMode
<1>11. CASE Mode /\ clock \notin Flagged' /\ ~(cs'[clock].hres <=> cs[clock].hres)
  <2>1. /\ clock \notin bad /\ clock \in verified /\ EnablesHres(clock) /\ cs'[clock].hres
        /\ ~cs[clock].unstable /\ ~cs[clock].hres
    BY <1>2, <1>3, <1>8, <1>11
  <2>2. op.pc # "notify"
    BY <1>7, <1>8, <1>11, <2>1 DEF Mode
  <2>3. ASSUME op.pc # "select" PROVE Settled(clock, Remaining)' /\ FitsMode(clock)'
    <3>1. Settled(NULL, Remaining) /\ NULL \notin Flagged
      <4>1. FitsMode(clock) \/ Settled(NULL, Remaining)
        BY <1>7, <1>8, <1>11, <2>2, <2>3 DEF ChoiceKept
      <4>2. ~FitsMode(clock)
        BY <1>11, <2>1 DEF FitsMode
      <4>. QED
        BY <1>1, <4>1, <4>2, SourceAssumption DEF Flagged
    <3>. DEFINE R == Remaining
                S == R \ Flagged
                T == R \ Flagged'
                b == BestIn(clocksource_list, override_name, TRUE, cs', T)
    <3>2. /\ clocksource_list \in Seq(Sources) /\ cs \in [Sources -> Flags] /\ cs' \in [Sources -> Flags]
          /\ Mode = TRUE /\ ToSet(clocksource_list) \subseteq Sources
      BY <1>1, <1>11, ModeType DEF CoreInv, TypeOK, Registered
    <3>3. BestAt(TRUE, S) = NULL
      BY <3>1, <3>2 DEF Settled, BestOf
    <3>. HIDE DEF S
    <3>4. \A d \in ToSet(clocksource_list) \cap S : ~cs[d].hres
      BY <3>2, <3>3, NoneIsBest
    <3>. HIDE DEF T, b
    <3>5. /\ b \in (ToSet(clocksource_list) \cap T) \cup {NULL}
          /\ b # NULL => cs'[b].hres
      BY <3>2, BestFacts DEF b
    <3>6. T \subseteq S /\ \A d \in T : d \notin Flagged'
      BY <1>4 DEF S, T
    <3>7. b \in {clock, NULL}
      <4>. SUFFICES ASSUME b # clock, b # NULL PROVE FALSE
        OBVIOUS
      <4>1. b \in ToSet(clocksource_list) \cap S /\ b \in Sources /\ b \notin Flagged' /\ cs'[b].hres
        BY <3>2, <3>5, <3>6
      <4>2. cs[b].hres
        BY <1>9, <1>11, <4>1
      <4>. QED
        BY <3>4, <4>1, <4>2
    <3>8. (BestOf(Remaining \ Flagged))' = b
      BY <1>1, <1>7, <1>8, <3>2 DEF BestOf, BestAt, b, T
    <3>. QED
      BY <1>1, <2>1, <3>7, <3>8 DEF Settled, FitsMode
  <2>. QED
    BY <1>1, <2>2, <2>3 DEF ChoiceKept
<1>12. CASE ~(Mode /\ clock \notin Flagged' /\ ~(cs'[clock].hres <=> cs[clock].hres))
  <2>1. \A d \in Registered : d \in Flagged' \/ (Mode => (cs[d].hres <=> cs'[d].hres))
    BY <1>1, <1>9, <1>12
  <2>2. ChoiceInv'
    BY <1>1, <1>4, <1>6, <1>7, <1>10, <2>1, ChoiceQuiet
  <2>. QED
    BY <2>2 DEF ChoiceInv
<1>. QED
  BY <1>11, <1>12

LEMMA MarkUnstableChoice ==
  ASSUME CoreInv, CoreInv', ChoiceInv, NEW c \in Distrusted, MarkUnstable(c)
  PROVE  ChoiceInv'
<1>1. /\ UNCHANGED <<clocksource_list, override_name, oneshot, finished_booting, clock, curr_clocksource, op, outcome>>
      /\ Watched' = IF c \in Registered THEN Watched \cup {c} ELSE Watched
      /\ c \in Sources /\ cs'[c] = Unstable(c) /\ \A d \in Sources \ {c} : cs'[d] = cs[d]
      /\ Registered \subseteq Sources /\ Watched \subseteq Sources
  <2>1. Registered \subseteq Sources /\ Watched \subseteq Sources
    BY ListSets DEF CoreInv, TypeOK, Registered, Watched
  <2>. QED
    BY <2>1, MarkUnstableFacts DEF MarkUnstable, settings, choices, history
<1>2. cs'[c].unstable /\ ~cs'[c].hres
  BY <1>1, UnstableFacts DEF CoreInv
<1>3. Flagged \subseteq Flagged' /\ (c \in Registered => c \in Flagged') /\ Mode' = Mode
  BY <1>1, <1>2 DEF Flagged, Mode
<1>4. ModeInv'
  BY <1>1, <1>2 DEF ChoiceInv, ModeInv
<1>5. \A d \in Registered : FitsMode(d) => FitsMode(d)'
  BY <1>1, <1>2, <1>3 DEF FitsMode
<1>6. \A d \in Registered : d \in Flagged' \/ (Mode => (cs[d].hres <=> cs'[d].hres))
  BY <1>1, <1>3
<1>. QED
  BY <1>1, <1>3, <1>4, <1>5, <1>6, ChoiceQuiet

\* The clock is valid for oneshot mode: it remains the best among those that are.  One that has
\* been chosen but not installed yet remains the best for the old mode.
LEMMA SwitchChoice ==
  ASSUME CoreInv, ChoiceInv, SwitchToOneshot
  PROVE  ChoiceInv'
<1>1. /\ oneshot = FALSE /\ oneshot' = TRUE /\ cs[clock].hres /\ clock \in Sources
      /\ UNCHANGED <<lists, cs, choices, override_name, finished_booting, clock, op>>
      /\ outcome' = IF op.pc = "notify" THEN "switched" ELSE outcome
  BY DEF SwitchToOneshot, CoreInv, TypeOK
<1>2. finished_booting /\ ModeInv'
  BY <1>1, SourceAssumption DEF CoreInv, UseInv, ChoiceInv, ModeInv
<1>3. Flagged' = Flagged /\ Remaining' = Remaining /\ clocksource_list' = clocksource_list
  BY <1>1, SameLists DEF Flagged, Remaining, choices
<1>4. /\ Mode = FALSE /\ outcome \notin {"switched", "late"}
      /\ op.pc = "notify" => outcome # "refused"
  BY <1>1 DEF Mode, ChoiceInv, ModeInv
<1>5. CASE op.pc = "notify"
  <2>1. Mode' = FALSE
    BY <1>1, <1>5 DEF Mode
  <2>2. ChoiceKept
    BY <1>4, <1>5 DEF ChoiceInv, CoreInv, TypeOK
  <2>3. ChoiceKept'
    BY <1>1, <1>3, <1>4, <1>5, <2>1, <2>2 DEF ChoiceKept, Settled, FitsMode, BestOf, BestAt
  <2>. QED
    BY <1>2, <2>3 DEF ChoiceInv
<1>6. CASE op.pc # "notify"
  <2>1. outcome' = outcome /\ Mode' = TRUE
    BY <1>1, <1>4, <1>6 DEF Mode
  <2>2. ASSUME op.pc # "select", ChoiceKept PROVE Settled(clock, Remaining)' /\ FitsMode(clock)'
    <3>. DEFINE S == Remaining \ Flagged
    <3>. HIDE DEF S
    <3>1. clock \in Flagged \/ BestIn(clocksource_list, override_name, FALSE, cs, S) \in {clock, NULL}
      BY <1>2, <1>4, <1>6, <2>2 DEF ChoiceKept, Settled, BestOf, BestAt, S
    <3>2. clocksource_list \in Seq(Sources) /\ cs \in [Sources -> Flags]
      BY DEF CoreInv, TypeOK
    <3>3. clock \in Flagged \/ BestIn(clocksource_list, override_name, TRUE, cs, S) \in {clock, NULL}
      BY <1>1, <3>1, <3>2, BestInOneshot
    <3>. QED
      BY <1>1, <1>3, <2>1, <3>3 DEF Settled, FitsMode, BestOf, BestAt, S
  <2>. QED
    BY <1>1, <1>2, <1>6, <2>1, <2>2 DEF ChoiceInv, ChoiceKept
<1>. QED
  BY <1>5, <1>6

LEMMA ChoiceStep ==
  ASSUME CoreInv, SortInv, ChoiceInv, [Next]_vars
  PROVE  ChoiceInv'
<1>0. CoreInv'
  BY NextCore
<1>1. ASSUME UNCHANGED <<lists, cs, choices, settings, op, outcome>> PROVE ChoiceInv'
  <2>1. Flagged' = Flagged /\ clocksource_list' = clocksource_list /\ Mode' = Mode
    BY <1>1, SameLists DEF Flagged, Mode, settings
  <2>2. ModeInv'
    BY <1>1 DEF ChoiceInv, ModeInv, settings
  <2>. QED
    BY <1>0, <1>1, <2>1, <2>2, ChoiceQuiet DEF FitsMode, settings, choices
<1>2. ASSUME NEW c \in Sources, Register(c) \/ Unbind(c) PROVE ChoiceInv'
  BY <1>2, RegisterChoice, UserChoice
<1>3. ASSUME NEW name \in Sources \cup {NULL}, Store(name) PROVE ChoiceInv'
  BY <1>3, UserChoice
<1>4. CASE Proceed
  BY <1>0, <1>4, SelectChoice, NotifyChoice, OwnerChoice, UnbindEndsChoice DEF Proceed
<1>5. CASE DoneBooting \/ RunThread
  BY <1>0, <1>5, DemoteChoice
<1>6. CASE StartThread \/ StartFails \/ Fire \/ ScanStopped \/ UNCHANGED vars
  BY <1>1, <1>6 DEF StartThread, StartFails, Fire, ScanStopped, vars, history
<1>7. ASSUME NEW bad \in SUBSET Watched, NEW verified \in SUBSET Watched, bad \cap verified = {},
             Scan(bad, verified)
      PROVE  ChoiceInv'
  BY <1>0, <1>7, ScanChoice
<1>8. CASE SwitchToOneshot
  BY <1>8, SwitchChoice
<1>9. ASSUME NEW c \in Distrusted, MarkUnstable(c) PROVE ChoiceInv'
  BY <1>0, <1>9, MarkUnstableChoice
<1>. QED
  BY <1>2, <1>3, <1>4, <1>5, <1>6, <1>7, <1>8, <1>9 DEF Next, Users, ScanAny

\* When all is quiet the settled clock is what a new choice would return.
LEMMA RestIsBest ==
  ASSUME CoreInv, ChoiceInv, AtRest
  PROVE  \/ Choice(FALSE) \in {clock, NULL}
         \/ outcome \in {"refused", "late"}
         \/ outcome = "switched" /\ ~cs[clock].hres
<1>. SUFFICES ASSUME outcome \in {"kept", "switched"}, outcome = "switched" => cs[clock].hres
              PROVE  Choice(FALSE) \in {clock, NULL}
  BY DEF CoreInv, TypeOK
<1>1. Flagged = {} /\ finished_booting /\ op = Idle
  BY DEF AtRest, Flagged
<1>2. Remaining = Sources /\ op.pc = "idle" /\ Sources \ {} = Sources
  BY <1>1 DEF Remaining, Idle
<1>3. BestAt(Mode, Sources) \in {clock, NULL}
  <2>1. Settled(clock, Sources)
    BY <1>1, <1>2 DEF ChoiceInv, ChoiceKept
  <2>. QED
    BY <1>1, <1>2, <2>1 DEF Settled, BestOf
<1>4. Choice(FALSE) = BestAt(oneshot, Sources)
  <2>1. Candidates(FALSE) = Sources
    BY DEF Candidates
  <2>2. Choice(FALSE) = BestAt(oneshot, Candidates(FALSE))
    BY <1>1, ChoiceIsBest DEF CoreInv
  <2>. QED
    BY <2>1, <2>2
<1>5. CASE outcome = "kept"
  <2>1. Mode = oneshot
    BY <1>5 DEF Mode, CoreInv, TypeOK
  <2>. QED
    BY <1>3, <1>4, <2>1
<1>6. CASE outcome = "switched"
  <2>1. Mode = FALSE /\ oneshot = TRUE /\ cs[clock].hres
    BY <1>6 DEF Mode, CoreInv, TypeOK, ChoiceInv, ModeInv
  <2>2. clocksource_list \in Seq(Sources) /\ cs \in [Sources -> Flags] /\ clock \in Sources
    BY DEF CoreInv, TypeOK
  <2>3. BestIn(clocksource_list, override_name, FALSE, cs, Sources) \in {clock, NULL}
    BY <1>3, <2>1 DEF BestAt
  <2>4. BestIn(clocksource_list, override_name, TRUE, cs, Sources) \in {clock, NULL}
    BY <2>1, <2>2, <2>3, BestInOneshot
  <2>. QED
    BY <1>4, <2>1, <2>4 DEF BestAt
<1>. QED
  BY <1>5, <1>6

LEMMA InitChoice == Init => SortInv /\ ChoiceInv
<1>. SUFFICES ASSUME Init PROVE SortInv /\ ChoiceInv
  OBVIOUS
<1>1. SortInv
  BY DEF Init, SortInv, Sorted, Distinct
<1>2. \A c \in Sources : ~cs[c].hres
  BY DEF Init
<1>3. ~oneshot /\ ~finished_booting /\ op.pc = "idle" /\ outcome = "kept"
  BY DEF Init, Idle
<1>. QED
  BY <1>1, <1>2, <1>3 DEF ChoiceInv, ModeInv, ChoiceKept

\* The list of clocksources is sorted, and when no call, work item or thread is left and nobody
\* waits for a verdict, the best clocksource that the mode of the tick permits is the one in use,
\* whatever verdicts came while choices were made and whatever came and went (__clocksource_select(),
\* clocksource_unbind(), clocksource_enable_highres()).  Only what BestIsUsed says of the last
\* choice is excepted; the exception ends with the next one.
THEOREM BestUsed == Spec => []BestIsUsed
<1>. DEFINE IInv == CoreInv /\ SortInv /\ ChoiceInv
<1>1. Init => IInv
  BY InitCore, InitChoice
<1>2. IInv /\ [Next]_vars => IInv'
  BY NextCore, SortStep, ChoiceStep
<1>3. IInv => BestIsUsed
  BY RestIsBest DEF BestIsUsed, SortInv
<1>. QED
  BY <1>1, <1>2, <1>3, PTL DEF Spec

-----------------------------------------------------------------------------
(***************************************************************************)
(* Watchdog, for any number of CPUs, of turns and of bits.  The sequence    *)
(* number of a check that nobody has ended early is the number of turns     *)
(* that both sides have had (SeqInv), so it is the turn of one side at a    *)
(* time, and what that side compares was read in this order, since the      *)
(* check began (StampInv).  A comparison that passes bounds the skew on its *)
(* side (BoundInv).  When CPU 0 has had its turns (Open), another call may  *)
(* come, if that of an earlier check has taken its place; what it compares is *)
(* in order too.  For the speed, FreqInv says between which times the       *)
(* clocksource was read.                                                    *)
(***************************************************************************)

Verdicts == {"SUCCESS", "FREQ_TIMEOUT", "FREQ_RESET", "FREQ_SKEWED", "CPU_TIMEOUT", "CPU_SKEWED"}

Walks ==
    [pc : {"idle", "wd0", "cs", "wd1", "cpu", "sync", "result"}, wd_ts0 : Nat, cs_ts : Nat, retries : Nat,
     wd_delta : Nat, cs_delta : Nat, reset_pending : BOOLEAN, start : Nat]
Turns == [pc : {"off", "start", "arrive", "wait", "look", "compare", "leave"}, seq : Nat, waited : Nat]
CpuDatas ==
    [locked : BOOLEAN, seq : Nat, result : {"SUCCESS", "CPU_TIMEOUT", "CPU_SKEWED"},
     cpu_ts : [Sides -> Nat]]

WatchdogTypeOK ==
    /\ now \in Nat /\ now <= MaxTime
    /\ flaw \in [rate : Rates, skew : Skews]
    /\ walk \in Walks
    /\ source \in [wd_last : Nat, cs_last : Nat, watched : BOOLEAN, unstable : BOOLEAN]
    /\ data \in [result : Verdicts, curr_cpu : Cpus]
    /\ cpu \in [Remotes -> CpuDatas]
    /\ side \in [Remotes -> [Sides -> Turns]]

\* The last good readout of both counters, and the one under way
FreqInv ==
    flaw.rate = 4 =>
        /\ \E t \in 0 .. now :
              /\ source.wd_last = t % BIT(WdWidth)
              /\ t <= source.cs_last /\ source.cs_last <= t + 1 /\ source.cs_last <= now
        /\ walk.pc \in {"cs", "wd1"} =>
              \E t \in 0 .. now :
                 /\ walk.wd_ts0 = t % BIT(WdWidth) /\ source.cs_last <= t /\ now - t <= MaxReadout
                 /\ walk.pc = "wd1" => t <= walk.cs_ts /\ walk.cs_ts <= now
VerdictInv ==
    /\ walk.pc = "cpu" => data.result = "SUCCESS"
    /\ walk.pc = "result" /\ data.result = "FREQ_SKEWED" =>
          flaw.rate # 4 \/ AtLeast(walk.wd_delta, walk.cs_delta) \div BIT(ppm_shift) <= READOUT_MAX

Standing(c) ==
    /\ side[c][0].pc # "off" => walk.pc = "sync" /\ data.curr_cpu = c
    /\ \A i \in Sides :
          /\ side[c][i].pc \in {"off", "start"} => side[c][i].seq = 0
          /\ side[c][i].pc = "arrive" => side[c][i].seq = i
          /\ side[c][i].pc \in {"wait", "look", "compare"} =>
                side[c][i].seq >= 2 /\ side[c][i].seq < MAX_SEQ /\ side[c][i].seq % 2 = i

WhereInv ==
    /\ walk.pc = "sync" => data.curr_cpu \in Remotes /\ walk.start <= now
    /\ \A c \in Remotes : Standing(c)

\* The CPU of the timer still takes its turns in the check of a CPU.  Afterwards another
\* call may come for which there is no check any more.
Open(c) == side[c][0].pc # "leave"

\* The turns a side has had
Done(c, i) == IF Open(c) THEN side[c][i].seq \div 2 ELSE MAX_SEQ \div 2

Seen(i, t) == (Cycles(t) + (IF i = 1 THEN flaw.skew ELSE 0)) % BIT(CsWidth)
Good(c) == side[c][0].pc # "off" /\ cpu[c].result = "SUCCESS"

SeqInv(c) ==
    /\ cpu[c].seq = Done(c, 0) + Done(c, 1)
    /\ Done(c, 0) <= Done(c, 1) + 1
    /\ side[c][0].pc = "compare" => Done(c, 0) <= Done(c, 1)
    /\ side[c][1].pc = "compare" => Done(c, 1) < Done(c, 0)

StampInv(c) ==
    \E a \in walk.start .. now, b \in walk.start .. now :
        /\ Done(c, 0) >= 1 => cpu[c].cpu_ts[0] = Seen(0, a)
        /\ Done(c, 1) >= 1 => cpu[c].cpu_ts[1] = Seen(1, b)
        /\ side[c][0].pc = "compare" => b <= a
        /\ side[c][1].pc = "compare" => a <= b

BoundInv(c) ==
    /\ Done(c, 0) >= 2 => flaw.skew <= Cycles(now) - Cycles(walk.start)
    /\ Done(c, 1) >= 2 => -flaw.skew <= Cycles(now) - Cycles(walk.start)

CheckInv(c) ==
    Good(c) =>
        /\ StampInv(c) /\ BoundInv(c)
        /\ Open(c) => SeqInv(c) /\ side[c][1].pc # "leave"
SkewInv == \A c \in Remotes : CheckInv(c)

Fair(c) == side[c][0].pc # "off" /\ cpu[c].result = "CPU_SKEWED" => flaw.skew # 0
FalseInv == (data.result = "CPU_SKEWED" => flaw.skew # 0) /\ \A c \in Remotes : Fair(c)

\* The clocksource does not wrap in the time looked at
CsNeverWraps == \A r \in Rates : (MaxTime * r) \div 4 <= MaxRawDelta(CsWidth)

-----------------------------------------------------------------------------
\* Numbers

LEMMA Remainder ==
    ASSUME NEW x \in Int, NEW d \in Nat, d > 0
    PROVE  x % d \in 0 .. d - 1 /\ x \div d \in Int /\ x = d * (x \div d) + (x % d)
  OBVIOUS

LEMMA RemainderIs ==
    ASSUME NEW x \in Int, NEW d \in Nat, d > 0, NEW k \in Int, x - (d * k) \in 0 .. d - 1
    PROVE  x % d = x - (d * k)
  <1>1. PICK q \in Int, r \in 0 .. d - 1 : q = x \div d /\ r = x % d /\ x = d * q + r
    BY Remainder
  <1>2. q <= k
    <2>1. SUFFICES ASSUME q >= k + 1 PROVE FALSE
      BY <1>1
    <2>2. d * q >= d * (k + 1)
      BY <2>1
    <2> QED BY <1>1, <2>2
  <1>3. k <= q
    <2>1. SUFFICES ASSUME k >= q + 1 PROVE FALSE
      BY <1>1
    <2>2. d * k >= d * (q + 1)
      BY <2>1
    <2> QED BY <1>1, <2>2
  <1> QED BY <1>1, <1>2, <1>3

\* A difference that is less than a lap
LEMMA Lag ==
    ASSUME NEW a \in Int, NEW b \in Int, NEW d \in Nat, d > 0
    PROVE  LET m == ((a % d) - (b % d)) % d
           IN  /\ a - b \in 0 .. d - 1 => m = a - b
               /\ b - a \in 1 .. d - 1 => m = (a - b) + d
  <1>1. PICK p \in Int, q \in Int, x \in 0 .. d - 1, y \in 0 .. d - 1 :
           x = a % d /\ y = b % d /\ a = d * p + x /\ b = d * q + y
    BY Remainder
  <1>2. x - y = (a - b) - (d * (p - q))
    BY <1>1
  <1>3. ASSUME a - b \in 0 .. d - 1 PROVE (x - y) % d = a - b
    <2>1. (x - y) - (d * (q - p)) = a - b
      BY <1>2
    <2> QED BY <2>1, <1>3, RemainderIs
  <1>4. ASSUME b - a \in 1 .. d - 1 PROVE (x - y) % d = (a - b) + d
    <2>1. (x - y) - (d * ((q - p) - 1)) = (a - b) + d
      BY <1>2
    <2> QED BY <2>1, <1>4, RemainderIs
  <1> QED BY <1>1, <1>3, <1>4

-----------------------------------------------------------------------------
\* The counters

LEMMA Widths ==
    /\ BIT(WdWidth) \in Nat /\ BIT(WdWidth) >= 8
    /\ BIT(CsWidth) \in Nat /\ BIT(CsWidth) >= 8
    /\ BIT(ppm_shift) \in Nat /\ BIT(ppm_shift) >= 1
  <1>1. BIT(WdWidth) \in Int /\ BIT(CsWidth) \in Int /\ BIT(ppm_shift) \in Int
    BY SkewAssumption DEF BIT
  <1> QED BY <1>1, SkewAssumption

LEMMA Raw ==
    ASSUME NEW w, BIT(w) \in Nat, BIT(w) >= 8
    PROVE  /\ MaxRawDelta(w) \in Nat /\ MaxRawDelta(w) < BIT(w) - BIT(w) \div 8
           /\ MaxIdle(w) \in Nat /\ MaxIdle(w) + 1 <= MaxRawDelta(w) /\ BIT(w) \div 2 <= MaxRawDelta(w)
  BY DEF MaxRawDelta, MaxIdle, Mask

LEMMA DeltaIs ==
    ASSUME NEW w, BIT(w) \in Nat, BIT(w) >= 8, NEW a \in Nat, NEW b \in Nat, b <= a, a - b <= MaxRawDelta(w)
    PROVE  Delta(a % BIT(w), b % BIT(w), w) = a - b
  <1>1. MaxRawDelta(w) \in Nat /\ MaxRawDelta(w) < BIT(w)
    BY Raw
  <1>2. ((a % BIT(w)) - (b % BIT(w))) % BIT(w) = a - b
    <2>1. a - b \in 0 .. BIT(w) - 1 /\ a \in Int /\ b \in Int /\ BIT(w) > 0
      BY <1>1
    <2> QED BY <2>1, Lag
  <1> QED BY <1>1, <1>2 DEF Delta

LEMMA DeltaIsNat ==
    ASSUME NEW w, BIT(w) \in Nat, BIT(w) >= 8, NEW a \in Int, NEW b \in Int
    PROVE  Delta(a, b, w) \in Nat
  <1>1. (a - b) % BIT(w) \in Nat
    BY Remainder
  <1> QED BY <1>1 DEF Delta

\* The clocksource goes on
LEMMA Forward ==
    ASSUME NEW s \in Nat, NEW t \in Nat, s <= t, flaw.rate \in Nat
    PROVE  Cycles(s) \in Nat /\ Cycles(t) \in Nat /\ Cycles(s) <= Cycles(t)
  <1> DEFINE r == flaw.rate
  <1>1. s * r \in Nat /\ t * r \in Nat /\ s * r <= t * r
    <2>1. s * r \in Nat /\ t * r \in Nat /\ (t - s) * r \in Nat /\ t * r = s * r + (t - s) * r
      OBVIOUS
    <2> QED BY <2>1
  <1> QED BY <1>1 DEF Cycles

LEMMA SeenIs ==
    ASSUME NEW i \in Sides, NEW t \in Nat, flaw.rate \in Nat, flaw.skew \in Int
    PROVE  Seen(i, t) \in Nat
  <1>1. Cycles(t) \in Nat
    BY Forward
  <1>2. Cycles(t) + (IF i = 1 THEN flaw.skew ELSE 0) \in Int
    BY <1>1
  <1> QED BY <1>2, Widths, Remainder DEF Seen

-----------------------------------------------------------------------------
\* Types

AllTurns == [Remotes -> [Sides -> Turns]]
AllCpus == [Remotes -> CpuDatas]

LEMMA TypeInit == WatchdogInit => WatchdogTypeOK
  BY SkewAssumption DEF WatchdogInit, WatchdogTypeOK, Off, Walks, Turns, CpuDatas, Verdicts, Sides, Remotes

\* One side of a check goes on
LEMMA SideStep ==
    ASSUME side \in AllTurns, NEW c \in Remotes, NEW i \in Sides, NEW v \in Turns,
           side' = [side EXCEPT ![c] = [@ EXCEPT ![i] = v]]
    PROVE  /\ side' \in AllTurns /\ side'[c][i] = v
           /\ \A d \in Remotes, j \in Sides : d # c \/ j # i => side'[d][j] = side[d][j]
  BY DEF AllTurns

LEMMA GotoStep ==
    ASSUME side \in AllTurns, NEW c \in Remotes, NEW i \in Sides,
           NEW p \in {"start", "arrive", "wait", "look", "compare", "leave"}, Goto(c, i, p)
    PROVE  /\ side' \in AllTurns /\ side'[c][i].pc = p /\ side'[c][i].seq = side[c][i].seq
           /\ \A d \in Remotes, j \in Sides : d # c \/ j # i => side'[d][j] = side[d][j]
  <1> DEFINE v == [side[c][i] EXCEPT !.pc = p]
  <1>1. v \in Turns /\ v.pc = p /\ v.seq = side[c][i].seq
    BY DEF AllTurns, Turns
  <1>2. side' = [side EXCEPT ![c] = [@ EXCEPT ![i] = v]]
    BY DEF Goto, AllTurns
  <1> HIDE DEF v
  <1>3. /\ side' \in AllTurns /\ side'[c][i] = v
        /\ \A d \in Remotes, j \in Sides : d # c \/ j # i => side'[d][j] = side[d][j]
    BY <1>1, <1>2, SideStep
  <1> QED BY <1>1, <1>3

LEMMA CpuStep ==
    ASSUME cpu \in AllCpus, NEW c \in Remotes, NEW v \in CpuDatas, cpu' = [cpu EXCEPT ![c] = v]
    PROVE  cpu' \in AllCpus /\ cpu'[c] = v /\ \A d \in Remotes : d # c => cpu'[d] = cpu[d]
  BY DEF AllCpus

LEMMA ElapseStep ==
    ASSUME side \in AllTurns, NEW n \in Nat, Elapse(n)
    PROVE  /\ now' = now + n /\ side' \in AllTurns
           /\ \A c \in Remotes, i \in Sides : side'[c][i].pc = side[c][i].pc /\ side'[c][i].seq = side[c][i].seq
  <1> DEFINE v(c, i) == [side[c][i] EXCEPT !.waited = IF side[c][i].pc \in {"off", "start"} THEN @ ELSE Least(@ + n, Timeout)]
  <1>1. \A c \in Remotes, i \in Sides : side[c][i] \in Turns
    BY DEF AllTurns
  <1>2. \A c \in Remotes, i \in Sides : v(c, i) \in Turns /\ v(c, i).pc = side[c][i].pc /\ v(c, i).seq = side[c][i].seq
    BY <1>1, SkewAssumption DEF Turns, Least
  <1>3. now' = now + n /\ side' = [c \in Remotes |-> [i \in Sides |-> v(c, i)]]
    BY DEF Elapse
  <1> HIDE DEF v
  <1> QED BY <1>2, <1>3 DEF AllTurns

\* What a check changes
LEMMA SetResultIs ==
    ASSUME NEW v \in CpuDatas, NEW r \in {"CPU_TIMEOUT", "CPU_SKEWED"}
    PROVE  /\ SetResult(v, r) \in CpuDatas /\ SetResult(v, r).locked = v.locked
           /\ SetResult(v, r).result = IF v.result = "SUCCESS" THEN r ELSE v.result
  BY SkewAssumption DEF SetResult, CpuDatas

LEMMA NextTurnIs ==
    ASSUME side \in AllTurns, NEW c \in Remotes, NEW i \in Sides
    PROVE  /\ NextTurn(c, i) \in Turns /\ NextTurn(c, i).seq = side[c][i].seq + 2
           /\ NextTurn(c, i).pc = IF side[c][i].seq + 2 < MAX_SEQ THEN "wait" ELSE "leave"
  <1>1. side[c][i] \in Turns /\ MAX_SEQ \in Nat
    BY SkewAssumption DEF AllTurns
  <1> DEFINE n == side[c][i].seq + 2
             p == IF n < MAX_SEQ THEN "wait" ELSE "leave"
  <1>2. n \in Nat
    BY <1>1 DEF Turns
  <1>3. p \in {"wait", "leave"}
    OBVIOUS
  <1>4. NextTurn(c, i) = [side[c][i] EXCEPT !.seq = n, !.pc = p]
    BY <1>1 DEF NextTurn, Turns
  <1> HIDE DEF n, p
  <1>5. NextTurn(c, i) \in Turns /\ NextTurn(c, i).seq = n /\ NextTurn(c, i).pc = p
    BY <1>1, <1>2, <1>3, <1>4 DEF Turns
  <1> QED BY <1>5 DEF n, p

\* What a turn leaves alone
TurnOf(c, i) ==
    /\ side' \in AllTurns /\ cpu' \in AllCpus /\ UNCHANGED <<now, flaw, walk, source, data>>
    /\ \A d \in Remotes, j \in Sides : d # c \/ j # i => side'[d][j] = side[d][j]
    /\ \A d \in Remotes : d # c => cpu'[d] = cpu[d]
    /\ cpu'[c].locked = cpu[c].locked

Passes(c, i) ==
    /\ side'[c][i].seq = side[c][i].seq + 2
    /\ side'[c][i].pc = IF side[c][i].seq + 2 < MAX_SEQ THEN "wait" ELSE "leave"
    /\ cpu'[c].seq = cpu[c].seq + 1 /\ cpu'[c].result = cpu[c].result

Moves(c, i, p) == side'[c][i].pc = p /\ side'[c][i].seq = side[c][i].seq

LEMMA StampIs ==
    ASSUME WatchdogTypeOK, NEW i \in Sides
    PROVE  Cs(i) = Seen(i, now) /\ Cs(i) \in Nat
  <1>1. now \in Nat /\ flaw.rate \in Nat /\ flaw.skew \in Int
    BY SkewAssumption DEF WatchdogTypeOK
  <1> QED BY <1>1, SeenIs DEF Cs, Seen

LEMMA ArriveIs ==
    ASSUME WatchdogTypeOK, NEW c \in Remotes, NEW i \in Sides, Arrive(c, i)
    PROVE  /\ TurnOf(c, i) /\ Passes(c, i) /\ cpu'[c].cpu_ts[i] = Cs(i)
           /\ \A j \in Sides \ {i} : cpu'[c].cpu_ts[j] = cpu[c].cpu_ts[j]
  <1>1. side \in AllTurns /\ cpu \in AllCpus
    BY DEF WatchdogTypeOK, AllTurns, AllCpus
  <1>2. cpu[c].seq + 1 \in Nat /\ cpu[c] \in CpuDatas
    BY <1>1 DEF AllCpus, CpuDatas
  <1> DEFINE t == Cs(i)
             n == cpu[c].seq + 1
             v == [cpu[c] EXCEPT !.cpu_ts = [@ EXCEPT ![i] = t], !.seq = n]
  <1>3. cpu' = [cpu EXCEPT ![c] = v]
    BY <1>1, <1>2 DEF Arrive, AllCpus, CpuDatas
  <1>4. /\ v \in CpuDatas /\ v.locked = cpu[c].locked /\ v.result = cpu[c].result /\ v.seq = n
        /\ v.cpu_ts[i] = t /\ \A j \in Sides \ {i} : v.cpu_ts[j] = cpu[c].cpu_ts[j]
    <2>1. t \in Nat /\ n \in Nat /\ v = [cpu[c] EXCEPT !.cpu_ts = [@ EXCEPT ![i] = t], !.seq = n]
      BY <1>2, StampIs
    <2> HIDE DEF t, n, v
    <2> QED BY <1>2, <2>1 DEF CpuDatas
  <1> HIDE DEF v
  <1>5. cpu' \in AllCpus /\ cpu'[c] = v /\ \A d \in Remotes : d # c => cpu'[d] = cpu[d]
    BY <1>1, <1>3, <1>4, CpuStep
  <1> DEFINE u == NextTurn(c, i)
  <1>6. /\ u \in Turns /\ u.seq = side[c][i].seq + 2
        /\ u.pc = IF side[c][i].seq + 2 < MAX_SEQ THEN "wait" ELSE "leave"
    BY <1>1, NextTurnIs
  <1>7. /\ side' = [side EXCEPT ![c] = [@ EXCEPT ![i] = u]]
        /\ UNCHANGED <<now, flaw, walk, source, data>>
    BY <1>1 DEF Arrive, AllTurns
  <1>8. /\ side' \in AllTurns /\ side'[c][i] = u
        /\ \A d \in Remotes, j \in Sides : d # c \/ j # i => side'[d][j] = side[d][j]
    <2> HIDE DEF u
    <2> QED BY <1>1, <1>6, <1>7 DEF AllTurns
  <1> QED BY <1>4, <1>5, <1>6, <1>7, <1>8 DEF TurnOf, Passes

LEMMA ReadTurnIs ==
    ASSUME WatchdogTypeOK, NEW c \in Remotes, NEW i \in Sides, ReadTurn(c, i)
    PROVE  /\ TurnOf(c, i) /\ Moves(c, i, "compare") /\ cpu'[c].cpu_ts[i] = Cs(i)
           /\ cpu'[c].seq = cpu[c].seq /\ cpu'[c].result = cpu[c].result
           /\ \A j \in Sides \ {i} : cpu'[c].cpu_ts[j] = cpu[c].cpu_ts[j]
  <1>1. side \in AllTurns /\ cpu \in AllCpus
    BY DEF WatchdogTypeOK, AllTurns, AllCpus
  <1>2. cpu[c].seq \in Nat /\ cpu[c] \in CpuDatas
    BY <1>1 DEF AllCpus, CpuDatas
  <1> DEFINE t == Cs(i)
             n == cpu[c].seq
             v == [cpu[c] EXCEPT !.cpu_ts = [@ EXCEPT ![i] = t], !.seq = n]
  <1>3. cpu' = [cpu EXCEPT ![c] = v]
    BY <1>1, <1>2 DEF ReadTurn, AllCpus, CpuDatas
  <1>4. /\ v \in CpuDatas /\ v.locked = cpu[c].locked /\ v.result = cpu[c].result /\ v.seq = n
        /\ v.cpu_ts[i] = t /\ \A j \in Sides \ {i} : v.cpu_ts[j] = cpu[c].cpu_ts[j]
    <2>1. t \in Nat /\ n \in Nat /\ v = [cpu[c] EXCEPT !.cpu_ts = [@ EXCEPT ![i] = t], !.seq = n]
      BY <1>2, StampIs
    <2> HIDE DEF t, n, v
    <2> QED BY <1>2, <2>1 DEF CpuDatas
  <1> HIDE DEF v
  <1>5. cpu' \in AllCpus /\ cpu'[c] = v /\ \A d \in Remotes : d # c => cpu'[d] = cpu[d]
    BY <1>1, <1>3, <1>4, CpuStep
  <1>6. Goto(c, i, "compare") /\ UNCHANGED <<now, flaw, walk, source, data>>
    BY DEF ReadTurn
  <1>7. /\ side' \in AllTurns /\ Moves(c, i, "compare")
        /\ \A d \in Remotes, j \in Sides : d # c \/ j # i => side'[d][j] = side[d][j]
    BY <1>1, <1>6, GotoStep DEF Moves
  <1> QED BY <1>4, <1>5, <1>6, <1>7 DEF TurnOf

\* The verdict of the side that has found something
Finds(c, r) == cpu'[c].result = IF cpu[c].result = "SUCCESS" THEN r ELSE cpu[c].result

LEMMA FindIs ==
    ASSUME WatchdogTypeOK, NEW c \in Remotes, NEW i \in Sides, NEW r \in {"CPU_TIMEOUT", "CPU_SKEWED"},
           cpu' = [cpu EXCEPT ![c] = SetResult(@, r)], Goto(c, i, "leave"),
           UNCHANGED <<now, flaw, walk, source, data>>
    PROVE  TurnOf(c, i) /\ Moves(c, i, "leave") /\ Finds(c, r)
  <1>1. side \in AllTurns /\ cpu \in AllCpus /\ cpu[c] \in CpuDatas
    BY DEF WatchdogTypeOK, AllTurns, AllCpus
  <1> DEFINE v == SetResult(cpu[c], r)
  <1>2. /\ v \in CpuDatas /\ v.locked = cpu[c].locked
        /\ v.result = IF cpu[c].result = "SUCCESS" THEN r ELSE cpu[c].result
    BY <1>1, SetResultIs
  <1>3. cpu' = [cpu EXCEPT ![c] = v]
    BY <1>1 DEF AllCpus
  <1> HIDE DEF v
  <1>4. cpu' \in AllCpus /\ cpu'[c] = v /\ \A d \in Remotes : d # c => cpu'[d] = cpu[d]
    BY <1>1, <1>2, <1>3, CpuStep
  <1>5. /\ side' \in AllTurns /\ Moves(c, i, "leave")
        /\ \A d \in Remotes, j \in Sides : d # c \/ j # i => side'[d][j] = side[d][j]
    BY <1>1, GotoStep DEF Moves
  <1> QED BY <1>2, <1>4, <1>5 DEF TurnOf, Finds

LEMMA MoveIs ==
    ASSUME WatchdogTypeOK, NEW c \in Remotes, NEW i \in Sides, LookOn(c, i) \/ GiveUp(c, i)
    PROVE  /\ TurnOf(c, i) /\ cpu' = cpu
           /\ LookOn(c, i) => Moves(c, i, "look") /\ side[c][i].pc = "wait"
           /\ GiveUp(c, i) => Moves(c, i, "leave") /\ cpu[c].result # "SUCCESS"
  <1>1. side \in AllTurns /\ cpu \in AllCpus
    BY DEF WatchdogTypeOK, AllTurns, AllCpus
  <1>2. /\ UNCHANGED <<now, flaw, walk, source, data, cpu>>
        /\ LookOn(c, i) => Goto(c, i, "look") /\ side[c][i].pc = "wait"
        /\ GiveUp(c, i) => Goto(c, i, "leave") /\ cpu[c].result # "SUCCESS"
    BY DEF LookOn, GiveUp
  <1>3. /\ side' \in AllTurns
        /\ \A d \in Remotes, j \in Sides : d # c \/ j # i => side'[d][j] = side[d][j]
        /\ LookOn(c, i) => Moves(c, i, "look")
        /\ GiveUp(c, i) => Moves(c, i, "leave")
    BY <1>1, <1>2, GotoStep DEF Moves
  <1> QED BY <1>1, <1>2, <1>3 DEF TurnOf

\* A turn ends with the time stamps compared.
LEMMA CompareIs ==
    ASSUME WatchdogTypeOK, NEW c \in Remotes, NEW i \in Sides, Compare(c, i)
    PROVE  /\ TurnOf(c, i)
           /\ Behind(c, i) => Moves(c, i, "leave") /\ Finds(c, "CPU_SKEWED")
           /\ ~Behind(c, i) => Passes(c, i) /\ cpu'[c].cpu_ts = cpu[c].cpu_ts
  <1>1. side \in AllTurns /\ cpu \in AllCpus /\ cpu[c] \in CpuDatas
    BY DEF WatchdogTypeOK, AllTurns, AllCpus
  <1>2. CASE Behind(c, i)
    <2>1. /\ cpu' = [cpu EXCEPT ![c] = SetResult(@, "CPU_SKEWED")] /\ Goto(c, i, "leave")
          /\ UNCHANGED <<now, flaw, walk, source, data>>
      BY <1>2 DEF Compare
    <2> QED BY <1>2, <2>1, FindIs
  <1>3. CASE ~Behind(c, i)
    <2> DEFINE u == NextTurn(c, i)
    <2>1. /\ u \in Turns /\ u.seq = side[c][i].seq + 2
          /\ u.pc = IF side[c][i].seq + 2 < MAX_SEQ THEN "wait" ELSE "leave"
      BY <1>1, NextTurnIs
    <2> DEFINE v == [cpu[c] EXCEPT !.seq = cpu[c].seq + 1]
    <2>2. /\ cpu' = [cpu EXCEPT ![c] = v] /\ side' = [side EXCEPT ![c] = [@ EXCEPT ![i] = u]]
          /\ UNCHANGED <<now, flaw, walk, source, data>>
      BY <1>1, <1>3 DEF Compare, AllCpus, AllTurns
    <2>3. /\ v \in CpuDatas /\ v.locked = cpu[c].locked /\ v.seq = cpu[c].seq + 1
          /\ v.result = cpu[c].result /\ v.cpu_ts = cpu[c].cpu_ts
      BY <1>1 DEF CpuDatas
    <2> HIDE DEF v
    <2>4. cpu' \in AllCpus /\ cpu'[c] = v /\ \A d \in Remotes : d # c => cpu'[d] = cpu[d]
      BY <1>1, <2>2, <2>3, CpuStep
    <2>5. /\ side' \in AllTurns /\ side'[c][i] = u
          /\ \A d \in Remotes, j \in Sides : d # c \/ j # i => side'[d][j] = side[d][j]
      <3> HIDE DEF u
      <3> QED BY <1>1, <2>1, <2>2 DEF AllTurns
    <2> QED BY <1>3, <2>1, <2>2, <2>3, <2>4, <2>5 DEF TurnOf, Passes
  <1> QED BY <1>2, <1>3

\* The call of a check: its beginning and its end
Calls(c) == RunRemote(c) \/ EnterRemote(c) \/ LeaveRemote(c)

LEMMA CallIs ==
    ASSUME WatchdogTypeOK, NEW c \in Remotes, Calls(c)
    PROVE  /\ side' \in AllTurns /\ cpu' \in AllCpus /\ UNCHANGED <<now, flaw, walk, source, data>>
           /\ \A d \in Remotes, j \in Sides : d # c \/ j # 1 => side'[d][j] = side[d][j]
           /\ \A d \in Remotes : d # c => cpu'[d] = cpu[d]
           /\ cpu'[c].seq = cpu[c].seq /\ cpu'[c].result = cpu[c].result /\ cpu'[c].cpu_ts = cpu[c].cpu_ts
           /\ \/ side[c][1].pc = "off" /\ side'[c][1].pc = "start" /\ side'[c][1].seq = side[c][1].seq
              \/ side[c][1].pc = "start" /\ side'[c][1].pc = "arrive" /\ side'[c][1].seq = 1
              \/ side[c][1].pc = "leave" /\ side'[c][1].pc = "off" /\ side'[c][1].seq = 0
  <1>1. side \in AllTurns /\ cpu \in AllCpus /\ cpu[c] \in CpuDatas /\ 1 \in Sides
    BY DEF WatchdogTypeOK, AllTurns, AllCpus, Sides
  <1>2. CASE RunRemote(c)
    <2>1. /\ side[c][1].pc = "off" /\ cpu' = [cpu EXCEPT ![c].locked = FALSE]
          /\ Goto(c, 1, "start")
          /\ UNCHANGED <<now, flaw, walk, source, data>>
      BY <1>2 DEF RunRemote, Goto
    <2>2. /\ cpu' \in AllCpus /\ \A d \in Remotes : d # c => cpu'[d] = cpu[d]
          /\ cpu'[c].seq = cpu[c].seq /\ cpu'[c].result = cpu[c].result /\ cpu'[c].cpu_ts = cpu[c].cpu_ts
      BY <1>1, <2>1 DEF AllCpus, CpuDatas
    <2>3. /\ side' \in AllTurns /\ side'[c][1].pc = "start" /\ side'[c][1].seq = side[c][1].seq
          /\ \A d \in Remotes, j \in Sides : d # c \/ j # 1 => side'[d][j] = side[d][j]
      BY <1>1, <2>1, GotoStep
    <2> QED BY <2>1, <2>2, <2>3
  <1>3. CASE EnterRemote(c)
    <2>1. /\ side[c][1].pc = "start"
          /\ side' = [side EXCEPT ![c][1] = [pc |-> "arrive", seq |-> 1, waited |-> 0]]
          /\ UNCHANGED <<now, flaw, walk, source, data, cpu>>
      BY <1>3 DEF EnterRemote
    <2>2. /\ side' \in AllTurns /\ side'[c][1].pc = "arrive" /\ side'[c][1].seq = 1
          /\ \A d \in Remotes, j \in Sides : d # c \/ j # 1 => side'[d][j] = side[d][j]
      BY <1>1, <2>1 DEF AllTurns, Turns
    <2> QED BY <1>1, <2>1, <2>2
  <1>4. CASE LeaveRemote(c)
    <2>1. /\ side[c][1].pc = "leave"
          /\ side' = [side EXCEPT ![c][1] = [pc |-> "off", seq |-> 0, waited |-> 0]]
          /\ UNCHANGED <<now, flaw, walk, source, data, cpu>>
      BY <1>4 DEF LeaveRemote
    <2>2. /\ side' \in AllTurns /\ side'[c][1].pc = "off" /\ side'[c][1].seq = 0
          /\ \A d \in Remotes, j \in Sides : d # c \/ j # 1 => side'[d][j] = side[d][j]
      BY <1>1, <2>1 DEF AllTurns, Turns
    <2> QED BY <1>1, <2>1, <2>2
  <1> QED BY <1>2, <1>3, <1>4 DEF Calls

LEMMA NextCpuIs == NextCpu \in Cpus /\ (NextCpu # 0 => NextCpu \in Remotes)
  BY SkewAssumption DEF NextCpu, Remotes

LEMMA StartIs ==
    ASSUME WatchdogTypeOK, StartCheck
    PROVE  LET c == NextCpu
           IN  /\ c \in Remotes /\ walk.pc = "cpu" /\ side[c][1].pc \in {"off", "start"}
               /\ side' \in AllTurns /\ cpu' \in AllCpus /\ UNCHANGED <<now, flaw, source>>
               /\ walk' \in Walks /\ walk'.pc = "sync" /\ walk'.start = now
               /\ data' \in [result : Verdicts, curr_cpu : Cpus] /\ data'.curr_cpu = c /\ data'.result = data.result
               /\ \A d \in Remotes, j \in Sides : d # c \/ j # 0 => side'[d][j] = side[d][j]
               /\ \A d \in Remotes : d # c => cpu'[d] = cpu[d]
               /\ side'[c][0].pc = "arrive" /\ side'[c][0].seq = 0
               /\ cpu'[c].seq = 0 /\ cpu'[c].result = "SUCCESS"
  <1> DEFINE c == NextCpu
  <1>1. side \in AllTurns /\ cpu \in AllCpus /\ c \in Remotes /\ c \in Cpus
    BY NextCpuIs DEF WatchdogTypeOK, AllTurns, AllCpus, StartCheck
  <1>2. walk \in Walks /\ data \in [result : Verdicts, curr_cpu : Cpus] /\ now \in Nat
    BY DEF WatchdogTypeOK
  <1>3. /\ walk.pc = "cpu" /\ side[c][1].pc \in {"off", "start"} /\ UNCHANGED <<now, flaw, source>>
        /\ data' = [data EXCEPT !.curr_cpu = c]
        /\ cpu' = [cpu EXCEPT ![c] = [@ EXCEPT !.locked = TRUE, !.seq = 0, !.result = "SUCCESS"]]
        /\ side' = [side EXCEPT ![c][0] = [pc |-> "arrive", seq |-> 0, waited |-> 0]]
        /\ walk' = [walk EXCEPT !.pc = "sync", !.start = now]
    BY DEF StartCheck, NoCall
  <1> HIDE DEF c
  <1>4. walk' \in Walks /\ walk'.pc = "sync" /\ walk'.start = now
    BY <1>2, <1>3 DEF Walks
  <1>5. data' \in [result : Verdicts, curr_cpu : Cpus] /\ data'.curr_cpu = c /\ data'.result = data.result
    BY <1>1, <1>2, <1>3
  <1>6. /\ cpu' \in AllCpus /\ \A d \in Remotes : d # c => cpu'[d] = cpu[d]
        /\ cpu'[c].seq = 0 /\ cpu'[c].result = "SUCCESS"
    BY <1>1, <1>3 DEF AllCpus, CpuDatas
  <1>7. /\ side' \in AllTurns /\ side'[c][0].pc = "arrive" /\ side'[c][0].seq = 0
        /\ \A d \in Remotes, j \in Sides : d # c \/ j # 0 => side'[d][j] = side[d][j]
    BY <1>1, <1>3 DEF AllTurns, Turns, Sides
  <1> QED BY <1>1, <1>3, <1>4, <1>5, <1>6, <1>7 DEF c

LEMMA TakeIs ==
    ASSUME WatchdogTypeOK, WhereInv, TakeResult
    PROVE  LET c == data.curr_cpu
           IN  /\ c \in Remotes /\ walk.pc = "sync" /\ side[c][0].pc = "leave"
               /\ side' \in AllTurns /\ UNCHANGED <<now, flaw, source, cpu>>
               /\ walk' \in Walks /\ walk'.pc = "result"
               /\ data' \in [result : Verdicts, curr_cpu : Cpus] /\ data'.result = cpu[c].result
               /\ \A d \in Remotes, j \in Sides : d # c \/ j # 0 => side'[d][j] = side[d][j]
               /\ side'[c][0].pc = "off" /\ side'[c][0].seq = 0
  <1> DEFINE c == data.curr_cpu
  <1>1. walk.pc = "sync"
    BY DEF TakeResult
  <1>2. c \in Remotes
    BY <1>1 DEF WhereInv
  <1>3. side \in AllTurns /\ cpu \in AllCpus
    BY NextCpuIs DEF WatchdogTypeOK, AllTurns, AllCpus
  <1>4. walk \in Walks /\ data \in [result : Verdicts, curr_cpu : Cpus]
    BY DEF WatchdogTypeOK
  <1>5. cpu[c].result \in Verdicts
    BY <1>2, <1>3 DEF AllCpus, CpuDatas, Verdicts
  <1>6. /\ side[c][0].pc = "leave" /\ UNCHANGED <<now, flaw, source, cpu>>
        /\ data' = [data EXCEPT !.result = cpu[c].result]
        /\ side' = [side EXCEPT ![c][0] = [pc |-> "off", seq |-> 0, waited |-> 0]]
        /\ walk' = [walk EXCEPT !.pc = "result"]
    BY DEF TakeResult
  <1>7. data' \in [result : Verdicts, curr_cpu : Cpus] /\ data'.result = cpu[c].result
    <2> DEFINE r == cpu[c].result
    <2>1. data' = [data EXCEPT !.result = r] /\ r \in Verdicts
      BY <1>5, <1>6
    <2> HIDE DEF r
    <2>2. data' \in [result : Verdicts, curr_cpu : Cpus] /\ data'.result = r
      BY <1>4, <2>1
    <2> QED BY <2>2 DEF r
  <1> HIDE DEF c
  <1>8. walk' \in Walks /\ walk'.pc = "result"
    BY <1>4, <1>6 DEF Walks
  <1>9. /\ side' \in AllTurns /\ side'[c][0].pc = "off" /\ side'[c][0].seq = 0
        /\ \A d \in Remotes, j \in Sides : d # c \/ j # 0 => side'[d][j] = side[d][j]
    BY <1>2, <1>3, <1>6 DEF AllTurns, Turns, Sides
  <1> QED BY <1>1, <1>2, <1>6, <1>7, <1>8, <1>9 DEF c

\* The steps of the walk that are not part of a check
FreqStep ==
    Expire \/ ReadFirst \/ ReadSecond \/ ReadLate \/ ReadDone \/ SkipSelf \/ SkipBusy \/ CheckResult \/ LeftAlone

Passing == Tick \/ \E d \in Stops : Stop(d)

LEMMA PassingIs ==
    ASSUME WatchdogTypeOK, Passing
    PROVE  /\ UNCHANGED <<flaw, walk, source, data, cpu>> /\ side' \in AllTurns
           /\ now' \in Nat /\ now <= now' /\ now' <= MaxTime
           /\ \A c \in Remotes, i \in Sides : side'[c][i].pc = side[c][i].pc /\ side'[c][i].seq = side[c][i].seq
           /\ walk.pc = "idle" \/ (now' = now + 1 /\ (walk.pc \in {"cs", "wd1"} => ReadoutTime < MaxReadout))
  <1>1. side \in AllTurns /\ now \in Nat /\ MaxTime \in Nat /\ Stops \subseteq Nat
    BY SkewAssumption DEF WatchdogTypeOK, AllTurns
  <1>2. CASE Tick
    <2>1. /\ now < MaxTime /\ Elapse(1) /\ UNCHANGED <<flaw, walk, source, data, cpu>>
          /\ walk.pc \in {"cs", "wd1"} => ReadoutTime < MaxReadout
      BY <1>2 DEF Tick
    <2> QED BY <1>1, <2>1, ElapseStep
  <1>3. CASE \E d \in Stops : Stop(d)
    <2>1. PICK d \in Stops : Stop(d)
      BY <1>3
    <2>2. /\ now + d <= MaxTime /\ Elapse(d) /\ UNCHANGED <<flaw, walk, source, data, cpu>> /\ walk.pc = "idle"
      BY <2>1 DEF Stop
    <2> QED BY <1>1, <2>2, ElapseStep
  <1> QED BY <1>2, <1>3 DEF Passing

\* They leave the checks alone.
LEMMA FreqStepIs ==
    ASSUME WatchdogTypeOK, FreqStep
    PROVE  /\ UNCHANGED <<now, flaw, cpu, side>> /\ walk.pc # "sync" /\ walk'.pc # "sync"
           /\ data'.result = "CPU_SKEWED" => data.result = "CPU_SKEWED"
           /\ walk' \in Walks /\ data' \in [result : Verdicts, curr_cpu : Cpus]
           /\ source' \in [wd_last : Nat, cs_last : Nat, watched : BOOLEAN, unstable : BOOLEAN]
  <1>1. /\ walk \in Walks /\ data \in [result : Verdicts, curr_cpu : Cpus] /\ now \in Nat
        /\ source \in [wd_last : Nat, cs_last : Nat, watched : BOOLEAN, unstable : BOOLEAN]
    BY DEF WatchdogTypeOK
  <1>2. Off \in Walks /\ Off.pc = "idle"
    BY DEF Off, Walks
  <1>3. CASE Expire
    <2> DEFINE r == reset > 0
    <2>1. /\ walk.pc = "idle" /\ walk' = [Off EXCEPT !.pc = "wd0", !.reset_pending = r]
          /\ UNCHANGED <<now, flaw, source, data, cpu, side>> /\ r \in BOOLEAN
      BY <1>3 DEF Expire
    <2> HIDE DEF r
    <2>2. walk' \in Walks /\ walk'.pc = "wd0"
      BY <1>2, <2>1 DEF Walks
    <2> QED BY <1>1, <2>1, <2>2
  <1>4. CASE ReadFirst
    <2>1. Wd \in Nat
      BY <1>1, Widths, Remainder DEF Wd
    <2>2. /\ walk.pc = "wd0" /\ walk' = [walk EXCEPT !.pc = "cs", !.wd_ts0 = Wd]
          /\ UNCHANGED <<now, flaw, source, data, cpu, side>>
      BY <1>4 DEF ReadFirst
    <2>3. walk' \in Walks /\ walk'.pc = "cs"
      BY <1>1, <2>1, <2>2 DEF Walks
    <2> QED BY <1>1, <2>2, <2>3
  <1>5. CASE ReadSecond
    <2>1. Cs(0) \in Nat
      BY StampIs DEF Sides
    <2>2. /\ walk.pc = "cs" /\ walk' = [walk EXCEPT !.pc = "wd1", !.cs_ts = Cs(0)]
          /\ UNCHANGED <<now, flaw, source, data, cpu, side>>
      BY <1>5 DEF ReadSecond
    <2>3. walk' \in Walks /\ walk'.pc = "wd1"
      BY <1>1, <2>1, <2>2 DEF Walks
    <2> QED BY <1>1, <2>2, <2>3
  <1>6. CASE ReadLate
    <2>1. walk.pc = "wd1" /\ UNCHANGED <<now, flaw, source, cpu, side>>
      BY <1>6 DEF ReadLate
    <2>2. walk' \in Walks /\ walk'.pc # "sync"
      <3>1. \/ walk' = [walk EXCEPT !.pc = "wd0", !.retries = walk.retries + 1]
            \/ walk' = [walk EXCEPT !.pc = "result"]
        BY <1>6 DEF ReadLate
      <3>2. walk.retries + 1 \in Nat
        BY <1>1 DEF Walks
      <3> QED BY <1>1, <3>1, <3>2 DEF Walks
    <2>3. data' \in [result : Verdicts, curr_cpu : Cpus] /\ (data' = data \/ data'.result = "FREQ_TIMEOUT")
      BY <1>1, <1>6 DEF ReadLate, Verdicts
    <2> QED BY <1>1, <2>1, <2>2, <2>3
  <1>7. CASE ReadDone
    <2> DEFINE wd_delta == Delta(walk.wd_ts0, source.wd_last, WdWidth)
               cs_delta == Delta(walk.cs_ts, source.cs_last, CsWidth)
               resets == Reset(wd_delta, cs_delta)
               matches == ~resets /\ Matches(wd_delta, cs_delta)
               watched == source.watched \/ resets
               result == IF resets THEN "FREQ_RESET" ELSE IF matches THEN "SUCCESS" ELSE "FREQ_SKEWED"
               w == IF resets \/ matches THEN 0 ELSE wd_delta
               k == IF resets \/ matches THEN 0 ELSE cs_delta
               pc == IF matches THEN "cpu" ELSE "result"
    <2>1. wd_delta \in Nat /\ cs_delta \in Nat
      BY <1>1, Widths, DeltaIsNat DEF Walks
    <2>2. w \in Nat /\ k \in Nat /\ pc \in {"cpu", "result"} /\ watched \in BOOLEAN
      <3> HIDE DEF wd_delta, cs_delta, resets, matches
      <3> QED BY <2>1
    <2>3. result \in Verdicts /\ result # "CPU_SKEWED"
      BY DEF Verdicts
    <2>4. /\ walk.pc = "wd1" /\ UNCHANGED <<now, flaw, cpu, side>>
          /\ source' = [source EXCEPT !.wd_last = walk.wd_ts0, !.cs_last = walk.cs_ts, !.watched = watched]
          /\ data' = [data EXCEPT !.result = result]
          /\ walk' = [Off EXCEPT !.reset_pending = walk.reset_pending, !.wd_delta = w, !.cs_delta = k, !.pc = pc]
      BY <1>7 DEF ReadDone
    <2> HIDE DEF w, k, pc, watched, result
    <2>5. source' \in [wd_last : Nat, cs_last : Nat, watched : BOOLEAN, unstable : BOOLEAN]
      BY <1>1, <2>2, <2>4 DEF Walks
    <2>6. data' \in [result : Verdicts, curr_cpu : Cpus] /\ data'.result = result
      BY <1>1, <2>3, <2>4
    <2>7. walk' \in Walks /\ walk'.pc = pc
      BY <1>1, <1>2, <2>2, <2>4 DEF Walks
    <2> QED BY <2>2, <2>3, <2>4, <2>5, <2>6, <2>7
  <1>8. CASE SkipSelf \/ SkipBusy
    <2>1. walk.pc = "cpu" /\ walk' = [walk EXCEPT !.pc = "result"] /\ UNCHANGED <<now, flaw, source, cpu, side>>
      BY <1>8 DEF SkipSelf, SkipBusy
    <2>2. walk' \in Walks /\ walk'.pc = "result"
      BY <1>1, <2>1 DEF Walks
    <2>3. data' \in [result : Verdicts, curr_cpu : Cpus] /\ (data'.result = data.result \/ data'.result = "CPU_TIMEOUT")
      BY <1>1, <1>8, NextCpuIs, SkewAssumption DEF SkipSelf, SkipBusy, Verdicts
    <2> QED BY <1>1, <2>1, <2>2, <2>3
  <1>9. CASE CheckResult
    <2>1. walk.pc = "result" /\ walk' = Off /\ UNCHANGED <<now, flaw, data, cpu, side>>
      BY <1>9 DEF CheckResult, Rearm
    <2>2. source' \in [wd_last : Nat, cs_last : Nat, watched : BOOLEAN, unstable : BOOLEAN]
      <3> DEFINE w == source.watched /\ data.result \notin {"FREQ_TIMEOUT", "FREQ_SKEWED", "CPU_SKEWED"}
                 u == data.result \in {"FREQ_SKEWED", "CPU_SKEWED"}
      <3>1. source' = [source EXCEPT !.watched = w, !.unstable = u]
        BY <1>9 DEF CheckResult
      <3>2. w \in BOOLEAN /\ u \in BOOLEAN
        OBVIOUS
      <3> HIDE DEF w, u
      <3> QED BY <1>1, <3>1, <3>2
    <2> QED BY <1>1, <1>2, <2>1, <2>2
  <1>10. CASE LeftAlone
    <2>1. walk.pc = "wd0" /\ walk' = Off /\ UNCHANGED <<now, flaw, source, data, cpu, side>>
      BY <1>10 DEF LeftAlone, Rearm
    <2> QED BY <1>1, <1>2, <2>1
  <1> QED BY <1>3, <1>4, <1>5, <1>6, <1>7, <1>8, <1>9, <1>10 DEF FreqStep

\* A turn of a check, whichever
LEMMA TurnIs ==
    ASSUME WatchdogTypeOK, NEW c \in Remotes, NEW i \in Sides, CheckSkew(c, i)
    PROVE  TurnOf(c, i)
  <1>1. TimeOut(c, i) => /\ cpu' = [cpu EXCEPT ![c] = SetResult(@, "CPU_TIMEOUT")] /\ Goto(c, i, "leave")
                         /\ UNCHANGED <<now, flaw, walk, source, data>>
    BY DEF TimeOut
  <1>2. TimeOut(c, i) => TurnOf(c, i)
    BY <1>1, FindIs
  <1> QED BY <1>2, ArriveIs, ReadTurnIs, MoveIs, CompareIs DEF CheckSkew

\* Every step is one of these.
LEMMA Steps ==
    ASSUME WatchdogNext
    PROVE  \/ FreqStep \/ Passing \/ StartCheck \/ TakeResult
           \/ \E c \in Remotes : Calls(c)
           \/ \E c \in Remotes, i \in Sides : CheckSkew(c, i)
  BY DEF WatchdogNext, Walk, FreqStep, Passing, Calls

LEMMA TypeNext ==
    ASSUME WatchdogTypeOK, WhereInv, WatchdogNext
    PROVE  WatchdogTypeOK'
  <1>1. /\ walk \in Walks /\ data \in [result : Verdicts, curr_cpu : Cpus] /\ now \in Nat /\ now <= MaxTime
        /\ source \in [wd_last : Nat, cs_last : Nat, watched : BOOLEAN, unstable : BOOLEAN]
        /\ cpu \in AllCpus /\ side \in AllTurns /\ flaw \in [rate : Rates, skew : Skews]
    BY DEF WatchdogTypeOK, AllTurns, AllCpus
  <1>2. CASE FreqStep
    BY <1>1, <1>2, FreqStepIs DEF WatchdogTypeOK, AllTurns, AllCpus
  <1>3. CASE Passing
    BY <1>1, <1>3, PassingIs DEF WatchdogTypeOK, AllTurns, AllCpus
  <1>4. CASE StartCheck
    BY <1>1, <1>4, StartIs DEF WatchdogTypeOK, AllTurns, AllCpus
  <1>5. CASE TakeResult
    BY <1>1, <1>5, TakeIs DEF WatchdogTypeOK, AllTurns, AllCpus
  <1>6. ASSUME NEW c \in Remotes, Calls(c) PROVE WatchdogTypeOK'
    BY <1>1, <1>6, CallIs DEF WatchdogTypeOK, AllTurns, AllCpus
  <1>7. ASSUME NEW c \in Remotes, NEW i \in Sides, CheckSkew(c, i) PROVE WatchdogTypeOK'
    BY <1>1, <1>7, TurnIs DEF WatchdogTypeOK, AllTurns, AllCpus, TurnOf
  <1> QED BY <1>2, <1>3, <1>4, <1>5, <1>6, <1>7, Steps

-----------------------------------------------------------------------------
\* Where a check stands

LEMMA WhereNext ==
    ASSUME WatchdogTypeOK, WhereInv, WatchdogNext
    PROVE  WhereInv'
  <1>1. \A c \in Remotes : Standing(c)
    BY DEF WhereInv
  <1>2. 0 \in Sides /\ 1 \in Sides /\ (\A i \in Sides : i = 0 \/ i = 1) /\ MAX_SEQ \in Nat /\ MAX_SEQ >= 6
    BY SkewAssumption DEF Sides
  <1>3. /\ \A c \in Remotes, i \in Sides : side[c][i].seq \in Nat
        /\ now \in Nat /\ walk.start \in Nat
    BY DEF WatchdogTypeOK, Turns, Walks
  <1>4. CASE FreqStep
    <2>1. ASSUME NEW c \in Remotes PROVE Standing(c)'
      BY <1>1, <1>2, <1>4, <2>1, FreqStepIs DEF Standing
    <2> QED BY <1>4, <2>1, FreqStepIs DEF WhereInv
  <1>5. CASE Passing
    <2>1. ASSUME NEW c \in Remotes PROVE Standing(c)'
      BY <1>1, <1>2, <1>5, <2>1, PassingIs DEF Standing
    <2> QED BY <1>3, <1>5, <2>1, PassingIs DEF WhereInv
  <1>6. CASE StartCheck
    <2>1. ASSUME NEW c \in Remotes PROVE Standing(c)'
      <3>1. Standing(c)
        BY <1>1
      <3>2. CASE c = NextCpu
        BY <1>2, <1>6, <3>1, <3>2, StartIs DEF Standing
      <3>3. CASE c # NextCpu
        BY <1>2, <1>6, <3>1, <3>3, StartIs DEF Standing
      <3> QED BY <3>2, <3>3
    <2> QED BY <1>3, <1>6, <2>1, StartIs DEF WhereInv
  <1>7. CASE TakeResult
    <2>1. ASSUME NEW c \in Remotes PROVE Standing(c)'
      <3>1. Standing(c)
        BY <1>1
      <3>2. CASE c = data.curr_cpu
        BY <1>2, <1>7, <3>1, <3>2, TakeIs DEF Standing
      <3>3. CASE c # data.curr_cpu
        BY <1>2, <1>7, <3>1, <3>3, TakeIs DEF Standing
      <3> QED BY <3>2, <3>3
    <2> QED BY <1>7, <2>1, TakeIs DEF WhereInv
  <1>8. ASSUME NEW c \in Remotes, Calls(c) PROVE WhereInv'
    <2>1. ASSUME NEW d \in Remotes PROVE Standing(d)'
      <3>1. Standing(d)
        BY <1>1
      <3>2. CASE d = c
        BY <1>2, <1>8, <3>1, <3>2, CallIs DEF Standing
      <3>3. CASE d # c
        BY <1>2, <1>8, <3>1, <3>3, CallIs DEF Standing
      <3> QED BY <3>2, <3>3
    <2>2. UNCHANGED <<now, walk, data>>
      BY <1>8, CallIs
    <2> QED BY <2>1, <2>2 DEF WhereInv
  <1>9. ASSUME NEW c \in Remotes, NEW i \in Sides, CheckSkew(c, i) PROVE WhereInv'
    <2>1. TurnOf(c, i)
      BY <1>9, TurnIs
    <2>2. /\ side[c][i].pc # "off" /\ side'[c][i].pc # "off"
          /\ \/ side'[c][i].pc = "leave"
             \/ side'[c][i].pc = "wait" /\ side'[c][i].seq = side[c][i].seq + 2 /\ side[c][i].seq + 2 < MAX_SEQ
                   /\ side[c][i].pc \in {"arrive", "compare"}
             \/ side'[c][i].pc \in {"look", "compare"} /\ side'[c][i].seq = side[c][i].seq
                   /\ side[c][i].pc \in {"wait", "look"}
      <3>1. CASE Arrive(c, i)
        <4>1. side[c][i].pc = "arrive" /\ Passes(c, i)
          BY <3>1, ArriveIs DEF Arrive
        <4> QED BY <4>1 DEF Passes
      <3>2. CASE LookOn(c, i) \/ GiveUp(c, i)
        BY <3>2, MoveIs DEF Moves, LookOn, GiveUp
      <3>3. CASE ReadTurn(c, i)
        BY <3>3, ReadTurnIs DEF Moves, ReadTurn
      <3>4. CASE TimeOut(c, i)
        <4>1. /\ cpu' = [cpu EXCEPT ![c] = SetResult(@, "CPU_TIMEOUT")] /\ Goto(c, i, "leave")
              /\ UNCHANGED <<now, flaw, walk, source, data>> /\ side[c][i].pc = "look"
          BY <3>4 DEF TimeOut
        <4> QED BY <4>1, FindIs DEF Moves
      <3>5. CASE Compare(c, i)
        BY <3>5, CompareIs DEF Moves, Passes, Compare
      <3> QED BY <1>9, <3>1, <3>2, <3>3, <3>4, <3>5 DEF CheckSkew
    <2>3. ASSUME NEW d \in Remotes PROVE Standing(d)'
      <3>1. Standing(d)
        BY <1>1
      <3>2. CASE d = c
        <4>1. /\ side'[c][0].pc # "off" <=> side[c][0].pc # "off"
              /\ UNCHANGED <<walk, data>>
          BY <1>2, <2>1, <2>2 DEF TurnOf
        <4>2. ASSUME NEW j \in Sides
              PROVE  /\ side'[c][j].pc \in {"off", "start"} => side'[c][j].seq = 0
                     /\ side'[c][j].pc = "arrive" => side'[c][j].seq = j
                     /\ side'[c][j].pc \in {"wait", "look", "compare"} =>
                           side'[c][j].seq >= 2 /\ side'[c][j].seq < MAX_SEQ /\ side'[c][j].seq % 2 = j
          <5>1. CASE j = i
            <6>1. side[c][i].seq \in Nat
              BY <1>3
            <6>2. /\ side[c][i].pc = "arrive" => side[c][i].seq = i
                  /\ side[c][i].pc \in {"wait", "look", "compare"} =>
                        side[c][i].seq >= 2 /\ side[c][i].seq < MAX_SEQ /\ side[c][i].seq % 2 = i
              BY <3>1, <3>2 DEF Standing
            <6> DEFINE n == side[c][i].seq
            <6>3. CASE side'[c][i].pc = "leave"
              BY <5>1, <6>3
            <6>4. CASE side'[c][i].pc = "wait"
              <7>1. side'[c][i].seq = n + 2 /\ n + 2 < MAX_SEQ /\ (n = i \/ (n >= 2 /\ n % 2 = i))
                BY <2>2, <6>2, <6>4
              <7>2. i % 2 = i
                BY <1>2
              <7>3. n + 2 >= 2 /\ (n + 2) % 2 = n % 2
                BY <6>1
              <7> QED BY <5>1, <6>4, <7>1, <7>2, <7>3
            <6>5. CASE side'[c][i].pc \in {"look", "compare"}
              BY <2>2, <5>1, <6>2, <6>5
            <6> QED BY <2>2, <6>3, <6>4, <6>5
          <5>2. CASE j # i
            BY <2>1, <3>1, <3>2, <5>2 DEF Standing, TurnOf
          <5> QED BY <5>1, <5>2
        <4> QED BY <3>1, <3>2, <4>1, <4>2 DEF Standing
      <3>3. CASE d # c
        BY <1>2, <2>1, <3>1, <3>3 DEF Standing, TurnOf
      <3> QED BY <3>2, <3>3
    <2> QED BY <2>1, <2>3 DEF WhereInv, TurnOf
  <1> QED BY <1>4, <1>5, <1>6, <1>7, <1>8, <1>9, Steps

-----------------------------------------------------------------------------
\* What a comparison of two time stamps tells

LEMMA SeenApart ==
    ASSUME WatchdogTypeOK, NEW i \in Sides, NEW a \in Nat, NEW b \in Nat, b <= a
    PROVE  LET m == (Seen(i, a) - Seen(1 - i, b)) % BIT(CsWidth)
               passed == Cycles(a) - Cycles(b)
               ahead == IF i = 1 THEN -flaw.skew ELSE flaw.skew
           IN  /\ passed \in Nat /\ ahead \in Int
               /\ m <= MaxRawDelta(CsWidth) => ahead <= passed
               /\ flaw.skew = 0 /\ passed <= MaxRawDelta(CsWidth) => m <= MaxRawDelta(CsWidth)
  <1> DEFINE B == BIT(CsWidth)
             R == MaxRawDelta(CsWidth)
             x == Cycles(a) + (IF i = 1 THEN flaw.skew ELSE 0)
             y == Cycles(b) + (IF 1 - i = 1 THEN flaw.skew ELSE 0)
             m == (Seen(i, a) - Seen(1 - i, b)) % BIT(CsWidth)
             passed == Cycles(a) - Cycles(b)
             ahead == IF i = 1 THEN -flaw.skew ELSE flaw.skew
  <1>1. /\ flaw.rate \in Nat /\ flaw.skew \in Int
        /\ flaw.skew < B \div 8 /\ -flaw.skew < B \div 8
    BY SkewAssumption DEF WatchdogTypeOK
  <1>2. Cycles(a) \in Nat /\ Cycles(b) \in Nat /\ passed \in Nat
    BY <1>1, Forward
  <1>3. B \in Nat /\ B >= 8 /\ R \in Nat /\ R < B - B \div 8
    BY Widths, Raw
  <1>4. /\ x \in Int /\ y \in Int /\ ahead \in Int /\ ahead < B \div 8
        /\ x - y = passed - ahead
    <2> HIDE DEF B
    <2>1. i = 0 \/ i = 1
      BY DEF Sides
    <2> QED BY <1>1, <1>2, <2>1
  <1>5. m = ((x % B) - (y % B)) % B
    BY DEF Seen
  <1> HIDE DEF B, R, x, y, m, passed, ahead
  <1>6. /\ x - y \in 0 .. B - 1 => m = x - y
        /\ y - x \in 1 .. B - 1 => m = (x - y) + B
    <2>1. x \in Int /\ y \in Int /\ B \in Nat /\ B > 0
      BY <1>3, <1>4
    <2>2. LET k == ((x % B) - (y % B)) % B
          IN  /\ x - y \in 0 .. B - 1 => k = x - y
              /\ y - x \in 1 .. B - 1 => k = (x - y) + B
      BY <2>1, Lag
    <2> QED BY <1>5, <2>2
  <1>7. ASSUME m <= R PROVE ahead <= passed
    <2>1. SUFFICES ASSUME ahead > passed PROVE FALSE
      BY <1>2, <1>4
    <2>2. y - x \in 1 .. B - 1 /\ m = (x - y) + B
      BY <1>2, <1>3, <1>4, <1>6, <2>1
    <2> QED BY <1>2, <1>3, <1>4, <1>7, <2>1, <2>2
  <1>8. ASSUME flaw.skew = 0, passed <= R PROVE m <= R
    <2>1. ahead = 0
      <3> DEFINE k == flaw.skew
      <3>1. k \in Int /\ k <= 0 /\ k >= 0
        BY <1>1, <1>8
      <3>2. -k <= 0 /\ -k >= 0
        <4> HIDE DEF k
        <4> QED BY <3>1
      <3>3. ahead = -k \/ ahead = k
        BY DEF ahead
      <3> HIDE DEF k
      <3> QED BY <1>4, <3>1, <3>2, <3>3
    <2>2. x - y = passed /\ x - y \in 0 .. B - 1
      BY <1>2, <1>3, <1>4, <1>8, <2>1
    <2> QED BY <1>6, <1>8, <2>2
  <1> QED BY <1>2, <1>4, <1>7, <1>8 DEF R, m, passed, ahead

\* As long as it does not wrap, a clocksource without a skew is never behind.
LEMMA InStep ==
    ASSUME WatchdogTypeOK, CsNeverWraps, NEW a \in 0 .. now, NEW b \in Nat
    PROVE  Cycles(a) - Cycles(b) <= MaxRawDelta(CsWidth)
  <1>1. flaw.rate \in Nat /\ flaw.rate \in Rates /\ now \in Nat /\ now <= MaxTime /\ MaxTime \in Nat
    BY SkewAssumption DEF WatchdogTypeOK
  <1>2. Cycles(a) \in Nat /\ Cycles(b) \in Nat /\ Cycles(a) <= Cycles(MaxTime) /\ Cycles(MaxTime) \in Nat
    BY <1>1, Forward
  <1>3. Cycles(MaxTime) <= MaxRawDelta(CsWidth) /\ MaxRawDelta(CsWidth) \in Nat
    BY <1>1, Widths, Raw DEF Cycles, CsNeverWraps
  <1> QED BY <1>2, <1>3

-----------------------------------------------------------------------------
\* The turns

LEMMA DoneIs ==
    ASSUME WatchdogTypeOK, NEW c \in Remotes, NEW i \in Sides
    PROVE  Done(c, i) \in Nat
  <1>1. MAX_SEQ \in Nat /\ side[c][i].seq \in Nat
    BY SkewAssumption DEF WatchdogTypeOK, Turns
  <1> QED BY <1>1 DEF Done

LEMMA TurnDone ==
    ASSUME WatchdogTypeOK, NEW c \in Remotes, Standing(c), Open(c), NEW i \in Sides
    PROVE  /\ side[c][i].pc = "arrive" => Done(c, i) = 0
           /\ side[c][i].pc \in {"wait", "look", "compare"} =>
                 Done(c, i) >= 1 /\ side[c][i].seq = 2 * Done(c, i) + i
  <1>1. side[c][i].seq \in Nat /\ (i = 0 \/ i = 1)
    BY DEF WatchdogTypeOK, Turns, Sides
  <1> DEFINE n == side[c][i].seq
  <1>2. CASE side[c][i].pc = "arrive"
    <2>1. n = i /\ Done(c, i) = n \div 2
      BY <1>2 DEF Standing, Done
    <2>2. n \div 2 = 0
      BY <1>1, <2>1
    <2> QED BY <1>2, <2>1, <2>2
  <1>3. CASE side[c][i].pc \in {"wait", "look", "compare"}
    <2>1. n >= 2 /\ n % 2 = i /\ Done(c, i) = n \div 2
      BY <1>3 DEF Standing, Done
    <2>2. n \div 2 >= 1 /\ n = 2 * (n \div 2) + (n % 2)
      BY <1>1, <2>1
    <2> QED BY <1>3, <2>1, <2>2
  <1> QED BY <1>2, <1>3

\* A turn that has passed counts.
LEMMA PassDone ==
    ASSUME WatchdogTypeOK, NEW c \in Remotes, NEW i \in Sides, TurnOf(c, i), Passes(c, i), Open(c), Open(c)'
    PROVE  Done(c, i)' = Done(c, i) + 1
  <1> DEFINE n == side[c][i].seq
  <1>1. n \in Nat /\ side'[c][i].seq = n + 2
    BY DEF WatchdogTypeOK, Turns, Passes
  <1>2. Done(c, i) = n \div 2 /\ Done(c, i)' = (n + 2) \div 2
    BY <1>1 DEF Done
  <1> HIDE DEF n
  <1> QED BY <1>1, <1>2

\* The other side has its turns as before.
LEMMA OtherDone ==
    ASSUME WatchdogTypeOK, NEW c \in Remotes, NEW i \in Sides, TurnOf(c, i), NEW j \in Sides, j # i, (Open(c)' <=> Open(c))
    PROVE  Done(c, j)' = Done(c, j) /\ side'[c][j] = side[c][j]
  <1>1. side'[c][j] = side[c][j]
    BY DEF TurnOf
  <1> QED BY <1>1 DEF Done

\* Nothing is lost while time goes on.
LEMMA CheckKept ==
    ASSUME WatchdogTypeOK, WhereInv, NEW c \in Remotes, CheckInv(c),
           UNCHANGED flaw, now' \in Nat, now <= now', walk'.start = walk.start,
           Good(c)' => Good(c),
           \A i \in Sides : Done(c, i)' = Done(c, i) /\ (side'[c][i].pc = "compare" => side[c][i].pc = "compare"),
           (Open(c)' <=> Open(c)), side'[c][1].pc = "leave" => side[c][1].pc = "leave" \/ ~Open(c),
           cpu'[c].seq = cpu[c].seq, cpu'[c].cpu_ts = cpu[c].cpu_ts
    PROVE  CheckInv(c)'
  <1>1. SUFFICES ASSUME Good(c)' PROVE (Open(c) => SeqInv(c)') /\ StampInv(c)' /\ BoundInv(c)'
    BY DEF CheckInv
  <1>2. Good(c) /\ (Open(c) => SeqInv(c)) /\ StampInv(c) /\ BoundInv(c)
    BY <1>1 DEF CheckInv
  <1>3. /\ Done(c, 0)' = Done(c, 0) /\ Done(c, 1)' = Done(c, 1)
        /\ side'[c][0].pc = "compare" => side[c][0].pc = "compare"
        /\ side'[c][1].pc = "compare" => side[c][1].pc = "compare"
    BY DEF Sides
  <1>4. flaw.rate \in Nat /\ now \in Nat /\ walk.start \in Nat /\ flaw.skew \in Int /\ walk.start <= now
    <2>1. walk.pc = "sync"
      BY <1>2 DEF Good, WhereInv, Standing
    <2> QED BY <2>1, SkewAssumption DEF WatchdogTypeOK, Walks, WhereInv
  <1>5. Open(c) => SeqInv(c)'
    BY <1>2, <1>3 DEF SeqInv
  <1>6. StampInv(c)'
    <2>1. PICK a \in walk.start .. now, b \in walk.start .. now :
             /\ Done(c, 0) >= 1 => cpu[c].cpu_ts[0] = Seen(0, a)
             /\ Done(c, 1) >= 1 => cpu[c].cpu_ts[1] = Seen(1, b)
             /\ side[c][0].pc = "compare" => b <= a
             /\ side[c][1].pc = "compare" => a <= b
      BY <1>2 DEF StampInv
    <2>2. a \in walk'.start .. now' /\ b \in walk'.start .. now'
      BY <1>4
    <2>3. Seen(0, a)' = Seen(0, a) /\ Seen(1, b)' = Seen(1, b)
      BY DEF Seen, Cycles
    <2> QED BY <1>3, <2>1, <2>2, <2>3 DEF StampInv
  <1>7. BoundInv(c)'
    <2>1. Cycles(now) <= Cycles(now') /\ Cycles(now) \in Nat /\ Cycles(now') \in Nat /\ Cycles(walk.start) \in Nat
      BY <1>4, Forward
    <2>2. Cycles(now)' = Cycles(now') /\ Cycles(walk.start)' = Cycles(walk.start) /\ flaw'.skew = flaw.skew
      BY DEF Cycles
    <2>3. /\ Done(c, 0) >= 2 => flaw.skew <= Cycles(now) - Cycles(walk.start)
          /\ Done(c, 1) >= 2 => -flaw.skew <= Cycles(now) - Cycles(walk.start)
      BY <1>2 DEF BoundInv
    <2>4. /\ Done(c, 0) >= 2 => flaw.skew <= Cycles(now') - Cycles(walk.start)
          /\ Done(c, 1) >= 2 => -flaw.skew <= Cycles(now') - Cycles(walk.start)
      BY <1>4, <2>1, <2>3
    <2> QED BY <1>3, <2>2, <2>4 DEF BoundInv
  <1> QED BY <1>5, <1>6, <1>7

\* The time stamps of a turn
StampsAre(c, a, b) ==
    /\ Done(c, 0) >= 1 => cpu[c].cpu_ts[0] = Seen(0, a)
    /\ Done(c, 1) >= 1 => cpu[c].cpu_ts[1] = Seen(1, b)
    /\ side[c][0].pc = "compare" => b <= a
    /\ side[c][1].pc = "compare" => a <= b

\* A time stamp is taken
LEMMA StampTaken ==
    ASSUME WatchdogTypeOK, WhereInv, NEW c \in Remotes, NEW i \in Sides, TurnOf(c, i),
           Good(c), StampInv(c), (Open(c)' <=> Open(c)),
           cpu'[c].cpu_ts[i] = Cs(i), \A j \in Sides \ {i} : cpu'[c].cpu_ts[j] = cpu[c].cpu_ts[j],
           side[c][1 - i].pc # "compare"
    PROVE  StampInv(c)'
  <1>1. PICK a \in walk.start .. now, b \in walk.start .. now : StampsAre(c, a, b)
    BY DEF StampInv, StampsAre
  <1>2. walk.start <= now /\ now \in Nat /\ walk.start \in Nat
    <2>1. walk.pc = "sync"
      BY DEF Good, WhereInv, Standing
    <2> QED BY <2>1 DEF WatchdogTypeOK, Walks, WhereInv
  <1>3. /\ now' = now /\ walk' = walk /\ Cs(i) = Seen(i, now)
        /\ \A j, t : Seen(j, t)' = Seen(j, t)
    BY StampIs DEF TurnOf, Seen, Cycles
  <1>4. CASE i = 0
    <2>1. side'[c][1] = side[c][1] /\ Done(c, 1)' = Done(c, 1)
      BY <1>4, OtherDone DEF Sides
    <2>2. cpu'[c].cpu_ts[0] = Seen(0, now) /\ cpu'[c].cpu_ts[1] = cpu[c].cpu_ts[1] /\ side[c][1].pc # "compare"
      BY <1>3, <1>4 DEF Sides
    <2>3. StampsAre(c, now, b)'
      BY <1>1, <1>2, <1>3, <2>1, <2>2 DEF StampsAre, Sides
    <2>4. now \in walk'.start .. now' /\ b \in walk'.start .. now'
      BY <1>2, <1>3
    <2> QED BY <2>3, <2>4, <1>3 DEF StampInv, StampsAre
  <1>5. CASE i = 1
    <2>1. side'[c][0] = side[c][0] /\ Done(c, 0)' = Done(c, 0)
      BY <1>5, OtherDone DEF Sides
    <2>2. cpu'[c].cpu_ts[1] = Seen(1, now) /\ cpu'[c].cpu_ts[0] = cpu[c].cpu_ts[0] /\ side[c][0].pc # "compare"
      BY <1>3, <1>5 DEF Sides
    <2>3. StampsAre(c, a, now)'
      BY <1>1, <1>2, <1>3, <2>1, <2>2 DEF StampsAre, Sides
    <2>4. now \in walk'.start .. now' /\ a \in walk'.start .. now'
      BY <1>2, <1>3
    <2> QED BY <2>3, <2>4, <1>3 DEF StampInv, StampsAre
  <1> QED BY <1>4, <1>5 DEF Sides

\* It is one side's turn at a time
LEMMA OneTurn ==
    ASSUME WatchdogTypeOK, NEW c \in Remotes, Standing(c), Open(c), SeqInv(c), NEW i \in Sides,
           \/ side[c][i].pc = "arrive" \/ side[c][i].pc = "compare"
           \/ side[c][i].pc \in {"wait", "look"} /\ cpu[c].seq >= side[c][i].seq
    PROVE  /\ side[c][1 - i].pc # "compare"
           /\ side[c][i].pc # "arrive" => Done(c, 1 - i) >= Done(c, i) + i /\ Done(c, i) >= 1
  <1> DEFINE j == 1 - i
             p == Done(c, i)
             q == Done(c, j)
  <1>1. (i = 0 /\ j = 1) \/ (i = 1 /\ j = 0)
    BY DEF Sides
  <1>2. j \in Sides
    BY <1>1 DEF Sides
  <1>3. p \in Nat /\ q \in Nat /\ cpu[c].seq = p + q
    BY <1>1, <1>2, DoneIs DEF SeqInv
  <1>4. /\ side[c][i].pc = "compare" => p + i <= q
        /\ side[c][j].pc = "compare" => q + j <= p
    BY <1>1, <1>3 DEF SeqInv
  <1>5. /\ side[c][i].pc = "arrive" => p = 0
        /\ side[c][i].pc \in {"wait", "look", "compare"} => p >= 1 /\ side[c][i].seq = 2 * p + i
        /\ side[c][j].pc \in {"wait", "look", "compare"} => q >= 1
    BY <1>2, TurnDone
  <1> HIDE DEF p, q, j
  <1>6. side[c][i].pc # "arrive" => q >= p + i /\ p >= 1
    BY <1>1, <1>3, <1>4, <1>5
  <1>7. side[c][j].pc # "compare"
    <2>1. SUFFICES ASSUME side[c][j].pc = "compare" PROVE FALSE
      OBVIOUS
    <2> QED BY <1>1, <1>3, <1>4, <1>5, <1>6, <2>1
  <1> QED BY <1>6, <1>7 DEF p, q, j

LEMMA SeqPass ==
    ASSUME WatchdogTypeOK, WhereInv, NEW c \in Remotes, NEW i \in Sides, TurnOf(c, i), Passes(c, i),
           Open(c), Open(c)', SeqInv(c), side[c][i].pc \in {"arrive", "compare"}
    PROVE  SeqInv(c)'
  <1>1. Standing(c) /\ (Open(c)' <=> Open(c))
    BY DEF WhereInv
  <1>2. Done(c, i)' = Done(c, i) + 1 /\ side'[c][i].pc \in {"wait", "leave"}
    BY <1>1, PassDone DEF Passes
  <1>3. /\ side[c][1 - i].pc # "compare"
        /\ side[c][i].pc = "compare" => Done(c, 1 - i) >= Done(c, i) + i
        /\ side[c][i].pc = "arrive" => Done(c, i) = 0
    BY <1>1, OneTurn, TurnDone
  <1>4. cpu'[c].seq = cpu[c].seq + 1
    BY DEF Passes
  <1>5. Done(c, 0) \in Nat /\ Done(c, 1) \in Nat
    BY DoneIs DEF Sides
  <1>6. CASE i = 0
    <2>1. side'[c][1] = side[c][1] /\ Done(c, 1)' = Done(c, 1)
      BY <1>1, <1>6, OtherDone DEF Sides
    <2> QED BY <1>2, <1>3, <1>4, <1>5, <1>6, <2>1 DEF SeqInv
  <1>7. CASE i = 1
    <2>1. side'[c][0] = side[c][0] /\ Done(c, 0)' = Done(c, 0)
      BY <1>1, <1>7, OtherDone DEF Sides
    <2> QED BY <1>2, <1>3, <1>4, <1>5, <1>7, <2>1 DEF SeqInv
  <1> QED BY <1>6, <1>7 DEF Sides

\* The other side is not done with its turns before this one.
LEMMA RemoteStays ==
    ASSUME WatchdogTypeOK, WhereInv, NEW c \in Remotes, Good(c), Open(c), SeqInv(c),
           side[c][1].pc \in {"arrive", "compare"}, Passes(c, 1)
    PROVE  side'[c][1].pc = "wait"
  <1> DEFINE m == side[c][0].seq
             n == side[c][1].seq
  <1>1. m \in Nat /\ n \in Nat /\ MAX_SEQ \in Nat /\ MAX_SEQ >= 6 /\ MAX_SEQ % 2 = 0
    BY SkewAssumption DEF WatchdogTypeOK, Turns, Sides
  <1>2. /\ m < MAX_SEQ /\ m % 2 = 0
        /\ side[c][1].pc = "arrive" => n = 1
        /\ side[c][1].pc = "compare" => n >= 2 /\ n % 2 = 1
    <2>1. Standing(c) /\ side[c][0].pc \in {"start", "arrive", "wait", "look", "compare"}
      BY DEF WhereInv, WatchdogTypeOK, Turns, Good, Open, Sides
    <2> QED BY <1>1, <2>1 DEF Standing, Sides
  <1>3. side[c][1].pc = "compare" => n \div 2 < m \div 2
    BY DEF SeqInv, Done
  <1> HIDE DEF m, n
  <1>4. n + 2 < MAX_SEQ
    <2>1. CASE side[c][1].pc = "arrive"
      BY <1>1, <1>2, <2>1
    <2>2. CASE side[c][1].pc = "compare"
      <3>1. n = 2 * (n \div 2) + 1 /\ m = 2 * (m \div 2) /\ MAX_SEQ = 2 * (MAX_SEQ \div 2)
        BY <1>1, <1>2, <2>2
      <3> QED BY <1>1, <1>2, <1>3, <2>2, <3>1
    <2> QED BY <2>1, <2>2
  <1> QED BY <1>4 DEF Passes, n

\* What the time stamps to be compared were taken from
LEMMA Compared ==
    ASSUME WatchdogTypeOK, WhereInv, NEW c \in Remotes, NEW i \in Sides, CheckInv(c), Good(c),
           side[c][i].pc = "compare"
    PROVE  \E t \in walk.start .. now, u \in walk.start .. now :
              /\ u <= t /\ t \in Nat /\ u \in Nat
              /\ Behind(c, i) <=> (Seen(i, t) - Seen(1 - i, u)) % BIT(CsWidth) > MaxRawDelta(CsWidth)
  <1>1. (Open(c) => SeqInv(c)) /\ StampInv(c) /\ Standing(c)
    BY DEF CheckInv, WhereInv
  <1>2. PICK a \in walk.start .. now, b \in walk.start .. now : StampsAre(c, a, b)
    BY <1>1 DEF StampInv, StampsAre
  <1>3. a \in Nat /\ b \in Nat
    BY DEF WatchdogTypeOK, Walks
  <1>4. Done(c, 0) >= 1 /\ Done(c, 1) >= 1
    <2>1. CASE Open(c)
      <3>1. Done(c, i) >= 1 /\ Done(c, 1 - i) >= Done(c, i) + i
        BY <1>1, <2>1, OneTurn
      <3>2. Done(c, 0) \in Nat /\ Done(c, 1) \in Nat
        BY DoneIs DEF Sides
      <3>3. CASE i = 0
        BY <3>1, <3>2, <3>3
      <3>4. CASE i = 1
        BY <3>1, <3>2, <3>4
      <3> QED BY <3>3, <3>4 DEF Sides
    <2>2. CASE ~Open(c)
      <3>1. MAX_SEQ \in Nat /\ MAX_SEQ >= 6
        BY SkewAssumption
      <3> QED BY <2>2, <3>1 DEF Done
    <2> QED BY <2>1, <2>2
  <1>6. CASE i = 0
    <2>1. b <= a /\ cpu[c].cpu_ts[0] = Seen(0, a) /\ cpu[c].cpu_ts[1] = Seen(1, b)
      BY <1>2, <1>4, <1>6 DEF StampsAre
    <2>2. Behind(c, i) <=> (Seen(i, a) - Seen(1 - i, b)) % BIT(CsWidth) > MaxRawDelta(CsWidth)
      BY <1>6, <2>1 DEF Behind
    <2> QED BY <1>3, <2>1, <2>2
  <1>7. CASE i = 1
    <2>1. a <= b /\ cpu[c].cpu_ts[0] = Seen(0, a) /\ cpu[c].cpu_ts[1] = Seen(1, b)
      BY <1>2, <1>4, <1>7 DEF StampsAre
    <2>2. Behind(c, i) <=> (Seen(i, b) - Seen(1 - i, a)) % BIT(CsWidth) > MaxRawDelta(CsWidth)
      BY <1>7, <2>1 DEF Behind
    <2> QED BY <1>3, <2>1, <2>2
  <1> QED BY <1>6, <1>7 DEF Sides

\* A comparison that has passed bounds the skew on this side.
LEMMA ComparePasses ==
    ASSUME WatchdogTypeOK, WhereInv, NEW c \in Remotes, NEW i \in Sides, CheckInv(c), Good(c),
           side[c][i].pc = "compare", ~Behind(c, i)
    PROVE  (IF i = 1 THEN -flaw.skew ELSE flaw.skew) <= Cycles(now) - Cycles(walk.start)
  <1> DEFINE ahead == IF i = 1 THEN -flaw.skew ELSE flaw.skew
  <1>1. PICK t \in walk.start .. now, u \in walk.start .. now :
           /\ u <= t /\ t \in Nat /\ u \in Nat
           /\ Behind(c, i) <=> (Seen(i, t) - Seen(1 - i, u)) % BIT(CsWidth) > MaxRawDelta(CsWidth)
    BY Compared
  <1>2. /\ flaw.rate \in Nat /\ walk.start \in Nat /\ now \in Nat /\ flaw.skew \in Int
        /\ \A j \in Sides, v \in Nat : Seen(j, v) \in Nat
    BY SkewAssumption, SeenIs DEF WatchdogTypeOK, Walks
  <1>3. (Seen(i, t) - Seen(1 - i, u)) % BIT(CsWidth) <= MaxRawDelta(CsWidth)
    <2> DEFINE m == (Seen(i, t) - Seen(1 - i, u)) % BIT(CsWidth)
    <2>1. 1 - i \in Sides
      BY DEF Sides
    <2>2. Seen(i, t) - Seen(1 - i, u) \in Int
      BY <1>1, <1>2, <2>1
    <2>3. m \in Int /\ MaxRawDelta(CsWidth) \in Int
      BY <2>2, Widths, Raw, Remainder
    <2> HIDE DEF m
    <2>4. ~(m > MaxRawDelta(CsWidth))
      BY <1>1 DEF m
    <2>5. m <= MaxRawDelta(CsWidth)
      BY <2>3, <2>4
    <2> QED BY <2>5 DEF m
  <1>4. ahead <= Cycles(t) - Cycles(u) /\ ahead \in Int
    BY <1>1, <1>3, SeenApart
  <1>5. /\ Cycles(t) <= Cycles(now) /\ Cycles(walk.start) <= Cycles(u)
        /\ Cycles(t) \in Nat /\ Cycles(u) \in Nat /\ Cycles(now) \in Nat /\ Cycles(walk.start) \in Nat
    BY <1>1, <1>2, Forward
  <1> HIDE DEF ahead
  <1>6. ahead <= Cycles(now) - Cycles(walk.start)
    BY <1>4, <1>5
  <1> QED BY <1>6 DEF ahead

\* A turn of a good check is one of a check that was good.
LEMMA GoodBefore ==
    ASSUME NEW c \in Remotes, NEW i \in Sides, TurnOf(c, i), side[c][i].pc # "off", Good(c)',
           cpu'[c].result = "SUCCESS" => cpu[c].result = "SUCCESS"
    PROVE  Good(c)
  <1>1. CASE i = 0
    BY <1>1 DEF Good
  <1>2. CASE i = 1
    BY <1>2 DEF Good, TurnOf, Sides
  <1> QED BY <1>1, <1>2 DEF Sides

\* What the check has found of the skew stays true.
LEMMA BoundKept ==
    ASSUME WatchdogTypeOK, NEW c \in Remotes, BoundInv(c), UNCHANGED <<now, flaw, walk>>,
           Done(c, 0)' = Done(c, 0) \/ ~(Done(c, 0)' >= 2) \/ flaw.skew <= Cycles(now) - Cycles(walk.start),
           Done(c, 1)' = Done(c, 1) \/ ~(Done(c, 1)' >= 2) \/ -flaw.skew <= Cycles(now) - Cycles(walk.start)
    PROVE  BoundInv(c)'
  <1>1. Cycles(now)' = Cycles(now) /\ Cycles(walk.start)' = Cycles(walk.start) /\ flaw'.skew = flaw.skew
    BY DEF Cycles
  <1> QED BY <1>1 DEF BoundInv

LEMMA SkewArrive ==
    ASSUME WatchdogTypeOK, WhereInv, NEW c \in Remotes, NEW i \in Sides, CheckInv(c), Arrive(c, i)
    PROVE  CheckInv(c)'
  <1>1. /\ TurnOf(c, i) /\ Passes(c, i) /\ cpu'[c].cpu_ts[i] = Cs(i) /\ side[c][i].pc = "arrive"
        /\ \A j \in Sides \ {i} : cpu'[c].cpu_ts[j] = cpu[c].cpu_ts[j]
    BY ArriveIs DEF Arrive
  <1>2. SUFFICES ASSUME Good(c)' PROVE CheckInv(c)'
    BY DEF CheckInv
  <1>3. Good(c)
    BY <1>1, <1>2, GoodBefore DEF Passes
  <1>4. (Open(c) => SeqInv(c)) /\ StampInv(c) /\ BoundInv(c) /\ Standing(c)
    BY <1>3 DEF CheckInv, WhereInv
  <1>5. side'[c][i].pc = "wait" /\ (\A j \in Sides : j # i => side'[c][j] = side[c][j]) /\ (Open(c)' <=> Open(c))
    <2>1. side[c][i].seq = i
      BY <1>1, <1>4 DEF Standing
    <2>2. side'[c][i].pc = "wait"
      BY <1>1, <2>1, SkewAssumption DEF Passes, Sides
    <2>3. \A j \in Sides : j # i => side'[c][j] = side[c][j]
      BY <1>1 DEF TurnOf
    <2> QED BY <1>1, <2>2, <2>3 DEF Open, Sides
  <1>6. side[c][1 - i].pc # "compare"
    <2>1. CASE Open(c)
      BY <1>1, <1>4, <2>1, OneTurn
    <2>2. CASE ~Open(c)
      BY <1>1, <2>2 DEF Open, Sides
    <2> QED BY <2>1, <2>2
  <1>7. StampInv(c)'
    BY <1>1, <1>3, <1>4, <1>5, <1>6, StampTaken
  <1>8. \A j \in Sides : Done(c, j)' = Done(c, j) \/ ~(Done(c, j)' >= 2)
    <2>1. CASE Open(c)
      <3>1. Done(c, i)' = 1
        BY <1>1, <1>4, <1>5, <2>1, PassDone, TurnDone
      <3>2. \A j \in Sides : j # i => Done(c, j)' = Done(c, j)
        BY <1>1, <1>5, OtherDone
      <3> QED BY <3>1, <3>2
    <2>2. CASE ~Open(c)
      BY <1>5, <2>2 DEF Done
    <2> QED BY <2>1, <2>2
  <1>9. BoundInv(c)'
    <2>1. UNCHANGED <<now, flaw, walk>>
      BY <1>1 DEF TurnOf
    <2> QED BY <1>4, <1>8, <2>1, BoundKept DEF Sides
  <1>10. ASSUME Open(c)' PROVE SeqInv(c)' /\ side'[c][1].pc # "leave"
    <2>1. SeqInv(c)'
      BY <1>1, <1>4, <1>5, <1>10, SeqPass
    <2>2. side[c][1].pc # "leave"
      BY <1>3, <1>5, <1>10 DEF CheckInv
    <2> QED BY <1>5, <2>1, <2>2 DEF Sides
  <1> QED BY <1>7, <1>9, <1>10 DEF CheckInv

LEMMA SkewRead ==
    ASSUME WatchdogTypeOK, WhereInv, NEW c \in Remotes, NEW i \in Sides, CheckInv(c), ReadTurn(c, i)
    PROVE  CheckInv(c)'
  <1>1. /\ TurnOf(c, i) /\ Moves(c, i, "compare") /\ cpu'[c].cpu_ts[i] = Cs(i)
        /\ cpu'[c].seq = cpu[c].seq /\ cpu'[c].result = cpu[c].result
        /\ \A j \in Sides \ {i} : cpu'[c].cpu_ts[j] = cpu[c].cpu_ts[j]
        /\ side[c][i].pc \in {"wait", "look"} /\ cpu[c].seq >= side[c][i].seq
    BY ReadTurnIs DEF ReadTurn
  <1>2. SUFFICES ASSUME Good(c)' PROVE CheckInv(c)'
    BY DEF CheckInv
  <1>3. Good(c)
    BY <1>1, <1>2, GoodBefore
  <1>4. (Open(c) => SeqInv(c)) /\ StampInv(c) /\ BoundInv(c) /\ Standing(c)
    BY <1>3 DEF CheckInv, WhereInv
  <1>5. (\A j \in Sides : j # i => side'[c][j] = side[c][j]) /\ (Open(c)' <=> Open(c))
    <2>1. \A j \in Sides : j # i => side'[c][j] = side[c][j]
      BY <1>1 DEF TurnOf
    <2> QED BY <1>1, <2>1 DEF Open, Moves, Sides
  <1>6. \A j \in Sides : Done(c, j)' = Done(c, j)
    BY <1>1, <1>5 DEF Done, Moves
  <1>7. /\ side[c][1 - i].pc # "compare"
        /\ Open(c) => Done(c, 1 - i) >= Done(c, i) + i
    <2>1. CASE Open(c)
      BY <1>1, <1>4, <2>1, OneTurn
    <2>2. CASE ~Open(c)
      BY <1>1, <2>2 DEF Open, Sides
    <2> QED BY <2>1, <2>2
  <1>8. ASSUME Open(c)' PROVE SeqInv(c)' /\ side'[c][1].pc # "leave"
    <2>1. SeqInv(c) /\ Done(c, 1 - i) >= Done(c, i) + i /\ side[c][1].pc # "leave"
      BY <1>3, <1>4, <1>5, <1>7, <1>8 DEF CheckInv
    <2>2. Done(c, 0) \in Nat /\ Done(c, 1) \in Nat
      BY DoneIs DEF Sides
    <2>3. CASE i = 0
      BY <1>1, <1>5, <1>6, <1>7, <2>1, <2>2, <2>3 DEF SeqInv, Sides, Moves
    <2>4. CASE i = 1
      BY <1>1, <1>5, <1>6, <1>7, <2>1, <2>2, <2>4 DEF SeqInv, Sides, Moves
    <2> QED BY <2>3, <2>4 DEF Sides
  <1>9. StampInv(c)'
    BY <1>1, <1>3, <1>4, <1>5, <1>7, StampTaken
  <1>10. BoundInv(c)'
    <2>1. UNCHANGED <<now, flaw, walk>> /\ Done(c, 0)' = Done(c, 0) /\ Done(c, 1)' = Done(c, 1)
      BY <1>1, <1>6 DEF TurnOf, Sides
    <2> QED BY <1>4, <2>1, BoundKept
  <1> QED BY <1>8, <1>9, <1>10 DEF CheckInv

LEMMA SkewMove ==
    ASSUME WatchdogTypeOK, WhereInv, NEW c \in Remotes, NEW i \in Sides, CheckInv(c), LookOn(c, i) \/ GiveUp(c, i)
    PROVE  CheckInv(c)'
  <1>1. TurnOf(c, i) /\ cpu' = cpu
    BY MoveIs
  <1>2. CASE LookOn(c, i)
    <2>1. Moves(c, i, "look") /\ side[c][i].pc = "wait"
      BY <1>2, MoveIs
    <2>2. Good(c)' => Good(c)
      BY <1>1, <2>1, GoodBefore
    <2>3. \A j \in Sides : /\ side'[c][j].seq = side[c][j].seq
                           /\ side'[c][j].pc \in {"compare", "leave"} => side'[c][j].pc = side[c][j].pc
                           /\ side[c][j].pc = "leave" => side'[c][j].pc = "leave"
      BY <1>1, <2>1 DEF Moves, TurnOf
    <2>4. (Open(c)' <=> Open(c)) /\ (side'[c][1].pc = "leave" => side[c][1].pc = "leave")
      BY <2>3 DEF Open, Sides
    <2>5. \A j \in Sides : Done(c, j)' = Done(c, j) /\ (side'[c][j].pc = "compare" => side[c][j].pc = "compare")
      BY <2>3, <2>4 DEF Done
    <2>6. UNCHANGED flaw /\ now' = now /\ walk' = walk /\ now \in Nat
      BY <1>1 DEF TurnOf, WatchdogTypeOK
    <2> QED BY <1>1, <2>2, <2>4, <2>5, <2>6, CheckKept
  <1>3. CASE GiveUp(c, i)
    BY <1>1, <1>3, MoveIs DEF CheckInv, Good
  <1> QED BY <1>2, <1>3

LEMMA SkewCompare ==
    ASSUME WatchdogTypeOK, WhereInv, NEW c \in Remotes, NEW i \in Sides, CheckInv(c), Compare(c, i), ~Behind(c, i)
    PROVE  CheckInv(c)'
  <1>1. TurnOf(c, i) /\ Passes(c, i) /\ cpu'[c].cpu_ts = cpu[c].cpu_ts /\ side[c][i].pc = "compare"
    BY CompareIs DEF Compare
  <1>2. SUFFICES ASSUME Good(c)' PROVE CheckInv(c)'
    BY DEF CheckInv
  <1>3. Good(c)
    BY <1>1, <1>2, GoodBefore DEF Passes
  <1>4. (Open(c) => SeqInv(c)) /\ StampInv(c) /\ BoundInv(c) /\ Standing(c)
    BY <1>3 DEF CheckInv, WhereInv
  <1>5. /\ UNCHANGED <<now, flaw, walk>> /\ side'[c][i].pc \in {"wait", "leave"}
        /\ \A j \in Sides : j # i => side'[c][j] = side[c][j]
    BY <1>1 DEF TurnOf, Passes
  <1>6. Done(c, 0) \in Nat /\ Done(c, 1) \in Nat
    BY DoneIs DEF Sides
  <1>7. Done(c, 0) >= 1 /\ Done(c, 1) >= 1 /\ (Open(c) /\ i = 0 => Done(c, 1) >= Done(c, 0))
    <2>1. CASE Open(c)
      <3>1. Done(c, i) >= 1 /\ Done(c, 1 - i) >= Done(c, i) + i
        BY <1>1, <1>4, <2>1, OneTurn
      <3>2. CASE i = 0
        BY <1>6, <3>1, <3>2
      <3>3. CASE i = 1
        BY <1>6, <3>1, <3>3
      <3> QED BY <3>2, <3>3 DEF Sides
    <2>2. CASE ~Open(c)
      <3>1. MAX_SEQ \in Nat /\ MAX_SEQ >= 6
        BY SkewAssumption
      <3> QED BY <2>2, <3>1 DEF Done
    <2> QED BY <2>1, <2>2
  <1>8. StampInv(c)'
    <2>1. PICK a \in walk.start .. now, b \in walk.start .. now : StampsAre(c, a, b)
      BY <1>4 DEF StampInv, StampsAre
    <2>2. /\ side'[c][0].pc = "compare" => side[c][0].pc = "compare"
          /\ side'[c][1].pc = "compare" => side[c][1].pc = "compare"
      BY <1>5 DEF Sides
    <2>3. \A j, t : Seen(j, t)' = Seen(j, t)
      BY <1>5 DEF Seen, Cycles
    <2>4. StampsAre(c, a, b)'
      BY <1>1, <1>7, <2>1, <2>2, <2>3 DEF StampsAre
    <2>5. a \in walk'.start .. now' /\ b \in walk'.start .. now'
      BY <1>5
    <2> QED BY <1>5, <2>4, <2>5 DEF StampInv, StampsAre
  <1>9. (IF i = 1 THEN -flaw.skew ELSE flaw.skew) <= Cycles(now) - Cycles(walk.start)
    BY <1>1, <1>3, ComparePasses
  <1>10. CASE ~Open(c)
    <2>1. (Open(c)' <=> Open(c)) /\ \A j \in Sides : Done(c, j)' = Done(c, j)
      BY <1>1, <1>5, <1>10 DEF Open, Done, Sides
    <2>2. BoundInv(c)'
      BY <1>4, <1>5, <2>1, BoundKept DEF Sides
    <2> QED BY <1>8, <1>10, <2>1, <2>2 DEF CheckInv
  <1>11. CASE Open(c) /\ Open(c)'
    <2>1. SeqInv(c)'
      BY <1>1, <1>4, <1>11, SeqPass
    <2>2. side'[c][1].pc # "leave"
      <3>1. CASE i = 0
        BY <1>3, <1>5, <1>11, <3>1 DEF CheckInv, Sides
      <3>2. CASE i = 1
        BY <1>1, <1>3, <1>4, <1>11, <3>2, RemoteStays
      <3> QED BY <3>1, <3>2 DEF Sides
    <2>3. \A j \in Sides : j # i => Done(c, j)' = Done(c, j)
      BY <1>1, <1>11, OtherDone
    <2>4. BoundInv(c)'
      <3>1. CASE i = 0
        <4>1. Done(c, 1)' = Done(c, 1) /\ flaw.skew <= Cycles(now) - Cycles(walk.start)
          BY <1>9, <2>3, <3>1 DEF Sides
        <4> QED BY <1>4, <1>5, <4>1, BoundKept
      <3>2. CASE i = 1
        <4>1. Done(c, 0)' = Done(c, 0) /\ -flaw.skew <= Cycles(now) - Cycles(walk.start)
          BY <1>9, <2>3, <3>2 DEF Sides
        <4> QED BY <1>4, <1>5, <4>1, BoundKept
      <3> QED BY <3>1, <3>2 DEF Sides
    <2> QED BY <1>8, <2>1, <2>2, <2>4 DEF CheckInv
  <1>12. CASE Open(c) /\ ~Open(c)'
    <2>1. i = 0
      BY <1>5, <1>12 DEF Open, Sides
    <2>2. Done(c, 0) >= 2
      <3> DEFINE n == side[c][0].seq
      <3>1. n \in Nat /\ MAX_SEQ \in Nat /\ MAX_SEQ >= 6 /\ ~(n + 2 < MAX_SEQ)
        BY <1>1, <1>12, <2>1, SkewAssumption DEF WatchdogTypeOK, Turns, Sides, Passes, Open
      <3>2. Done(c, 0) = n \div 2
        BY <1>12 DEF Done
      <3> HIDE DEF n
      <3> QED BY <3>1, <3>2
    <2>3. Done(c, 1) >= 2
      BY <1>6, <1>7, <1>12, <2>1, <2>2
    <2>4. flaw.skew <= Cycles(now) - Cycles(walk.start) /\ -flaw.skew <= Cycles(now) - Cycles(walk.start)
      BY <1>4, <2>2, <2>3 DEF BoundInv
    <2>5. BoundInv(c)'
      BY <1>4, <1>5, <2>4, BoundKept
    <2> QED BY <1>8, <1>12, <2>5 DEF CheckInv
  <1> QED BY <1>10, <1>11, <1>12

LEMMA SkewTurn ==
    ASSUME WatchdogTypeOK, WhereInv, NEW c \in Remotes, NEW i \in Sides, CheckInv(c), CheckSkew(c, i)
    PROVE  CheckInv(c)'
  <1>1. CASE TimeOut(c, i)
    <2>1. /\ cpu' = [cpu EXCEPT ![c] = SetResult(@, "CPU_TIMEOUT")] /\ Goto(c, i, "leave")
          /\ UNCHANGED <<now, flaw, walk, source, data>>
      BY <1>1 DEF TimeOut
    <2>2. Finds(c, "CPU_TIMEOUT")
      BY <2>1, FindIs
    <2> QED BY <2>2 DEF Finds, CheckInv, Good
  <1>2. CASE Compare(c, i) /\ Behind(c, i)
    <2>1. Finds(c, "CPU_SKEWED")
      BY <1>2, CompareIs
    <2> QED BY <2>1 DEF Finds, CheckInv, Good
  <1>3. CASE Compare(c, i) /\ ~Behind(c, i)
    BY <1>3, SkewCompare
  <1> QED BY <1>1, <1>2, <1>3, SkewArrive, SkewRead, SkewMove DEF CheckSkew

\* The call of a check comes and goes without a loss
LEMMA SkewCall ==
    ASSUME WatchdogTypeOK, WhereInv, NEW c \in Remotes, CheckInv(c), Calls(c)
    PROVE  CheckInv(c)'
  <1>1. /\ UNCHANGED <<now, flaw, walk>> /\ side'[c][0] = side[c][0]
        /\ cpu'[c].seq = cpu[c].seq /\ cpu'[c].result = cpu[c].result /\ cpu'[c].cpu_ts = cpu[c].cpu_ts
        /\ \/ side[c][1].pc = "off" /\ side'[c][1].pc = "start" /\ side'[c][1].seq = side[c][1].seq
           \/ side[c][1].pc = "start" /\ side'[c][1].pc = "arrive" /\ side'[c][1].seq = 1
           \/ side[c][1].pc = "leave" /\ side'[c][1].pc = "off" /\ side'[c][1].seq = 0
    BY CallIs DEF Sides
  <1>2. SUFFICES ASSUME Good(c)' PROVE CheckInv(c)'
    BY DEF CheckInv
  <1>3. Good(c) /\ Standing(c) /\ now \in Nat /\ (Open(c)' <=> Open(c))
    BY <1>1, <1>2 DEF Good, WhereInv, WatchdogTypeOK, Open
  <1>4. Done(c, 0)' = Done(c, 0)
    BY <1>1, <1>3 DEF Done
  <1>5. Done(c, 1)' = Done(c, 1)
    <2>1. CASE Open(c)
      <3>1. side[c][1].pc # "leave"
        BY <1>3, <2>1 DEF CheckInv
      <3>2. side[c][1].seq = 0 /\ side'[c][1].seq \in {0, 1}
        BY <1>1, <1>3, <3>1 DEF Standing, Sides
      <3>3. Done(c, 1) = 0 \div 2 /\ (Done(c, 1)' = 0 \div 2 \/ Done(c, 1)' = 1 \div 2)
        BY <1>3, <2>1, <3>2 DEF Done
      <3> QED BY <3>3
    <2>2. CASE ~Open(c)
      BY <1>3, <2>2 DEF Done
    <2> QED BY <2>1, <2>2
  <1>6. /\ \A j \in Sides : Done(c, j)' = Done(c, j) /\ (side'[c][j].pc = "compare" => side[c][j].pc = "compare")
        /\ side'[c][1].pc # "leave"
    BY <1>1, <1>4, <1>5 DEF Sides
  <1> QED BY <1>1, <1>3, <1>6, CheckKept

LEMMA SkewStart ==
    ASSUME WatchdogTypeOK, WhereInv, StartCheck, NEW c \in Remotes, c = NextCpu
    PROVE  CheckInv(c)'
  <1>1. /\ c \in Remotes /\ side[c][1].pc \in {"off", "start"} /\ UNCHANGED <<now, flaw>> /\ walk'.start = now
        /\ side'[c][1] = side[c][1] /\ side'[c][0].pc = "arrive" /\ side'[c][0].seq = 0
        /\ cpu'[c].seq = 0
    BY StartIs DEF Sides
  <1>2. Standing(c) /\ now \in Nat
    BY <1>1 DEF WhereInv, WatchdogTypeOK
  <1>3. side[c][1].seq = 0
    BY <1>1, <1>2 DEF Standing, Sides
  <1>4. Done(c, 0)' = 0 /\ Done(c, 1)' = 0
    <2>1. Done(c, 0)' = 0 \div 2 /\ Done(c, 1)' = 0 \div 2
      BY <1>1, <1>3 DEF Done, Open
    <2> QED BY <2>1
  <1>5. SeqInv(c)'
    BY <1>1, <1>3, <1>4 DEF SeqInv
  <1>6. StampInv(c)'
    <2>1. now \in walk'.start .. now'
      BY <1>1, <1>2
    <2> QED BY <1>1, <1>3, <1>4, <2>1 DEF StampInv
  <1>7. BoundInv(c)'
    BY <1>4 DEF BoundInv
  <1> QED BY <1>1, <1>5, <1>6, <1>7 DEF CheckInv

\* A check of another CPU is not disturbed.
LEMMA SkewOther ==
    ASSUME WatchdogTypeOK, WhereInv, NEW c \in Remotes, CheckInv(c), UNCHANGED <<flaw, walk>>,
           now' \in Nat, now <= now', cpu'[c] = cpu[c],
           \A i \in Sides : side'[c][i].pc = side[c][i].pc /\ side'[c][i].seq = side[c][i].seq
    PROVE  CheckInv(c)'
  <1>1. Good(c)' => Good(c)
    BY DEF Good, Sides
  <1>2. (Open(c)' <=> Open(c)) /\ (side'[c][1].pc = "leave" => side[c][1].pc = "leave")
    BY DEF Open, Sides
  <1>3. \A i \in Sides : Done(c, i)' = Done(c, i) /\ (side'[c][i].pc = "compare" => side[c][i].pc = "compare")
    BY <1>2 DEF Done
  <1> QED BY <1>1, <1>2, <1>3, CheckKept

LEMMA SkewNext ==
    ASSUME WatchdogTypeOK, WhereInv, SkewInv, WatchdogNext
    PROVE  SkewInv'
  <1>1. /\ \A c \in Remotes : CheckInv(c) /\ Standing(c)
        /\ now \in Nat
    BY DEF SkewInv, WhereInv, WatchdogTypeOK
  <1>2. CASE FreqStep
    <2>1. UNCHANGED <<cpu, side>> /\ walk.pc # "sync"
      BY <1>2, FreqStepIs
    <2> QED BY <1>1, <2>1 DEF SkewInv, CheckInv, Good, Standing
  <1>3. CASE Passing
    <2>1. /\ UNCHANGED <<flaw, walk, cpu>> /\ now' \in Nat /\ now <= now'
          /\ \A c \in Remotes, i \in Sides : side'[c][i].pc = side[c][i].pc /\ side'[c][i].seq = side[c][i].seq
      BY <1>3, PassingIs
    <2> QED BY <1>1, <2>1, SkewOther DEF SkewInv
  <1>4. CASE StartCheck
    <2>1. ASSUME NEW d \in Remotes, d # NextCpu PROVE CheckInv(d)'
      <3>1. walk.pc = "cpu" /\ side'[d][0] = side[d][0]
        BY <1>4, <2>1, StartIs DEF Sides
      <3> QED BY <1>1, <3>1 DEF CheckInv, Good, Standing
    <2> QED BY <1>4, <2>1, SkewStart DEF SkewInv
  <1>5. CASE TakeResult
    <2>1. ASSUME NEW d \in Remotes PROVE CheckInv(d)'
      <3>1. CASE d = data.curr_cpu
        BY <1>5, <3>1, TakeIs DEF CheckInv, Good
      <3>2. CASE d # data.curr_cpu
        <4>1. side'[d][0] = side[d][0]
          BY <1>5, <3>2, TakeIs DEF Sides
        <4> QED BY <1>1, <3>2, <4>1 DEF CheckInv, Good, Standing
      <3> QED BY <3>1, <3>2
    <2> QED BY <2>1 DEF SkewInv
  <1>6. ASSUME NEW c \in Remotes, Calls(c) PROVE SkewInv'
    <2>1. ASSUME NEW d \in Remotes, d # c PROVE CheckInv(d)'
      <3>1. UNCHANGED <<now, flaw, walk>> /\ cpu'[d] = cpu[d] /\ \A i \in Sides : side'[d][i] = side[d][i]
        BY <1>6, <2>1, CallIs
      <3> QED BY <1>1, <3>1, SkewOther
    <2> QED BY <1>1, <1>6, <2>1, SkewCall DEF SkewInv
  <1>7. ASSUME NEW c \in Remotes, NEW i \in Sides, CheckSkew(c, i) PROVE SkewInv'
    <2>1. TurnOf(c, i)
      BY <1>7, TurnIs
    <2>2. ASSUME NEW d \in Remotes, d # c PROVE CheckInv(d)'
      <3>1. UNCHANGED <<now, flaw, walk>> /\ cpu'[d] = cpu[d] /\ \A j \in Sides : side'[d][j] = side[d][j]
        BY <2>1, <2>2 DEF TurnOf
      <3> QED BY <1>1, <3>1, SkewOther
    <2> QED BY <1>1, <1>7, <2>2, SkewTurn DEF SkewInv
  <1> QED BY <1>2, <1>3, <1>4, <1>5, <1>6, <1>7, Steps

-----------------------------------------------------------------------------
\* No clock without a skew is found to have one.

LEMMA FalseNext ==
    ASSUME CsNeverWraps, WatchdogTypeOK, WhereInv, SkewInv, FalseInv, WatchdogNext
    PROVE  FalseInv'
  <1>1. /\ \A c \in Remotes : Fair(c)
        /\ data.result = "CPU_SKEWED" => flaw.skew # 0
    BY DEF FalseInv
  <1>2. CASE FreqStep
    BY <1>1, <1>2, FreqStepIs DEF FalseInv, Fair
  <1>3. CASE Passing
    <2>1. /\ UNCHANGED <<flaw, data, cpu>>
          /\ \A c \in Remotes : side'[c][0].pc = side[c][0].pc
      BY <1>3, PassingIs DEF Sides
    <2> QED BY <1>1, <2>1 DEF FalseInv, Fair
  <1>4. CASE StartCheck
    <2>1. data'.result = data.result /\ UNCHANGED flaw
      BY <1>4, StartIs
    <2>2. ASSUME NEW d \in Remotes PROVE Fair(d)'
      <3>1. CASE d = NextCpu
        BY <1>4, <3>1, StartIs DEF Fair
      <3>2. CASE d # NextCpu
        <4>1. side'[d][0] = side[d][0] /\ cpu'[d] = cpu[d]
          BY <1>4, <3>2, StartIs DEF Sides
        <4> QED BY <1>1, <2>1, <4>1 DEF Fair
      <3> QED BY <3>1, <3>2
    <2> QED BY <1>1, <2>1, <2>2 DEF FalseInv
  <1>5. CASE TakeResult
    <2> DEFINE c == data.curr_cpu
    <2>1. /\ c \in Remotes /\ side[c][0].pc = "leave" /\ data'.result = cpu[c].result /\ UNCHANGED <<flaw, cpu>>
          /\ side'[c][0].pc = "off" /\ \A d \in Remotes : d # c => side'[d][0] = side[d][0]
      BY <1>5, TakeIs DEF Sides
    <2> HIDE DEF c
    <2>2. data'.result = "CPU_SKEWED" => flaw.skew # 0
      BY <1>1, <2>1 DEF Fair
    <2>3. ASSUME NEW d \in Remotes PROVE Fair(d)'
      BY <1>1, <2>1 DEF Fair
    <2> QED BY <2>1, <2>2, <2>3 DEF FalseInv
  <1>6. ASSUME NEW c \in Remotes, Calls(c) PROVE FalseInv'
    <2>1. ASSUME NEW d \in Remotes PROVE Fair(d)'
      <3>1. UNCHANGED flaw /\ cpu'[d].result = cpu[d].result /\ side'[d][0] = side[d][0]
        BY <1>6, CallIs DEF Sides
      <3> QED BY <1>1, <3>1 DEF Fair
    <2>2. UNCHANGED <<flaw, data>>
      BY <1>6, CallIs
    <2> QED BY <1>1, <2>1, <2>2 DEF FalseInv
  <1>7. ASSUME NEW c \in Remotes, NEW i \in Sides, CheckSkew(c, i) PROVE FalseInv'
    <2>1. TurnOf(c, i) /\ side[c][i].pc # "off"
      BY <1>7, TurnIs DEF CheckSkew, Arrive, LookOn, ReadTurn, GiveUp, TimeOut, Compare
    <2>2. \/ cpu'[c].result = cpu[c].result
          \/ Finds(c, "CPU_TIMEOUT")
          \/ Finds(c, "CPU_SKEWED") /\ side[c][i].pc = "compare" /\ Behind(c, i)
      <3>1. CASE TimeOut(c, i)
        <4>1. /\ cpu' = [cpu EXCEPT ![c] = SetResult(@, "CPU_TIMEOUT")] /\ Goto(c, i, "leave")
              /\ UNCHANGED <<now, flaw, walk, source, data>>
          BY <3>1 DEF TimeOut
        <4> QED BY <4>1, FindIs
      <3>2. CASE Compare(c, i)
        BY <3>2, CompareIs DEF Passes, Compare
      <3> QED BY <1>7, <3>1, <3>2, ArriveIs, MoveIs, ReadTurnIs DEF CheckSkew, Passes
    <2>3. ASSUME side'[c][0].pc # "off" PROVE side[c][0].pc # "off"
      <3>1. CASE i = 0
        BY <2>1, <3>1
      <3>2. CASE i = 1
        BY <2>1, <2>3, <3>2 DEF TurnOf, Sides
      <3> QED BY <3>1, <3>2 DEF Sides
    <2>4. Fair(c)'
      <3>1. SUFFICES ASSUME side'[c][0].pc # "off", cpu'[c].result = "CPU_SKEWED" PROVE flaw'.skew # 0
        BY DEF Fair
      <3>2. UNCHANGED flaw /\ side[c][0].pc # "off"
        BY <2>1, <2>3, <3>1 DEF TurnOf
      <3>3. CASE cpu[c].result = "CPU_SKEWED"
        BY <1>1, <3>2, <3>3 DEF Fair
      <3>4. CASE cpu[c].result # "CPU_SKEWED"
        <4>1. cpu[c].result = "SUCCESS" /\ side[c][i].pc = "compare" /\ Behind(c, i)
          BY <2>2, <3>1, <3>4 DEF Finds
        <4>2. Good(c) /\ CheckInv(c)
          BY <3>2, <4>1 DEF Good, SkewInv
        <4>3. PICK t \in walk.start .. now, u \in walk.start .. now :
                 /\ u <= t /\ t \in Nat /\ u \in Nat
                 /\ (Seen(i, t) - Seen(1 - i, u)) % BIT(CsWidth) > MaxRawDelta(CsWidth)
          BY <4>1, <4>2, Compared
        <4>4. t \in 0 .. now /\ now \in Nat
          BY <4>3 DEF WatchdogTypeOK
        <4>5. Cycles(t) - Cycles(u) <= MaxRawDelta(CsWidth)
          BY <4>3, <4>4, InStep
        <4> DEFINE m == (Seen(i, t) - Seen(1 - i, u)) % BIT(CsWidth)
        <4>6. m \in Nat /\ MaxRawDelta(CsWidth) \in Nat /\ m > MaxRawDelta(CsWidth)
          <5>1. 1 - i \in Sides
            BY DEF Sides
          <5>2. flaw.rate \in Nat /\ flaw.skew \in Int
            BY SkewAssumption DEF WatchdogTypeOK
          <5>3. Seen(i, t) \in Nat /\ Seen(1 - i, u) \in Nat
            BY <4>3, <5>1, <5>2, SeenIs
          <5> QED BY <4>3, <5>3, Widths, Raw, Remainder
        <4>7. flaw.skew = 0 => m <= MaxRawDelta(CsWidth)
          BY <4>3, <4>5, SeenApart
        <4> HIDE DEF m
        <4>8. flaw.skew # 0
          BY <4>6, <4>7
        <4> QED BY <3>2, <4>8
      <3> QED BY <3>3, <3>4
    <2>5. ASSUME NEW d \in Remotes, d # c PROVE Fair(d)'
      <3>1. UNCHANGED flaw /\ cpu'[d] = cpu[d] /\ side'[d][0] = side[d][0]
        BY <2>1, <2>5 DEF TurnOf, Sides
      <3> QED BY <1>1, <3>1 DEF Fair
    <2> QED BY <1>1, <2>1, <2>4, <2>5 DEF FalseInv, TurnOf
  <1> QED BY <1>2, <1>3, <1>4, <1>5, <1>6, <1>7, Steps

-----------------------------------------------------------------------------
\* The readouts of a clocksource that runs at the right speed

\* The last good one, from the time t
ReadLast ==
    \E t \in 0 .. now :
        source.wd_last = t % BIT(WdWidth) /\ t <= source.cs_last /\ source.cs_last <= t + 1 /\ source.cs_last <= now

\* The one under way, the watchdog's counter of which was read at the time t
ReadFrom(t) ==
    /\ walk.wd_ts0 = t % BIT(WdWidth) /\ source.cs_last <= t /\ now - t <= MaxReadout
    /\ walk.pc = "wd1" => t <= walk.cs_ts /\ walk.cs_ts <= now

Reading == walk.pc \in {"cs", "wd1"} => \E t \in 0 .. now : ReadFrom(t)

\* The end of a readout
ReadVerdict(wd_delta, cs_delta) ==
    IF Reset(wd_delta, cs_delta) THEN "FREQ_RESET"
    ELSE IF Matches(wd_delta, cs_delta) THEN "SUCCESS" ELSE "FREQ_SKEWED"

LEMMA ReadDoneIs ==
    ASSUME WatchdogTypeOK, ReadDone
    PROVE  LET wd_delta == Delta(walk.wd_ts0, source.wd_last, WdWidth)
               cs_delta == Delta(walk.cs_ts, source.cs_last, CsWidth)
               verdict == ReadVerdict(wd_delta, cs_delta)
           IN  /\ source'.wd_last = walk.wd_ts0 /\ source'.cs_last = walk.cs_ts
               /\ walk'.pc = IF verdict = "SUCCESS" THEN "cpu" ELSE "result"
               /\ data'.result = verdict
               /\ verdict = "FREQ_SKEWED" => walk'.wd_delta = wd_delta /\ walk'.cs_delta = cs_delta
  <1> DEFINE wd_delta == Delta(walk.wd_ts0, source.wd_last, WdWidth)
             cs_delta == Delta(walk.cs_ts, source.cs_last, CsWidth)
             resets == Reset(wd_delta, cs_delta)
             matches == ~resets /\ Matches(wd_delta, cs_delta)
             verdict == ReadVerdict(wd_delta, cs_delta)
             watched == source.watched \/ resets
             result == IF resets THEN "FREQ_RESET" ELSE IF matches THEN "SUCCESS" ELSE "FREQ_SKEWED"
             w == IF resets \/ matches THEN 0 ELSE wd_delta
             k == IF resets \/ matches THEN 0 ELSE cs_delta
             pc == IF matches THEN "cpu" ELSE "result"
  <1>1. /\ source' = [source EXCEPT !.wd_last = walk.wd_ts0, !.cs_last = walk.cs_ts, !.watched = watched]
        /\ data' = [data EXCEPT !.result = result]
        /\ walk' = [Off EXCEPT !.reset_pending = walk.reset_pending, !.wd_delta = w, !.cs_delta = k, !.pc = pc]
    BY DEF ReadDone
  <1>2. verdict = result
    BY DEF ReadVerdict
  <1>3. /\ pc = (IF result = "SUCCESS" THEN "cpu" ELSE "result")
        /\ result = "FREQ_SKEWED" => w = wd_delta /\ k = cs_delta
    OBVIOUS
  <1> HIDE DEF w, k, pc, watched, result, verdict, wd_delta, cs_delta
  <1>4. source'.wd_last = walk.wd_ts0 /\ source'.cs_last = walk.cs_ts /\ data'.result = result
    BY <1>1 DEF WatchdogTypeOK
  <1>5. walk'.pc = pc /\ walk'.wd_delta = w /\ walk'.cs_delta = k
    BY <1>1 DEF Off
  <1> QED BY <1>2, <1>3, <1>4, <1>5 DEF verdict, wd_delta, cs_delta

\* It is the time itself.
LEMMA CsIs ==
    ASSUME CsNeverWraps, WatchdogTypeOK, flaw.rate = 4
    PROVE  Cs(0) = now /\ now <= MaxRawDelta(CsWidth) /\ now < BIT(CsWidth) /\ now \in Nat
  <1>1. 4 \in Rates /\ now \in Nat /\ MaxTime \in Nat /\ now <= MaxTime
    BY SkewAssumption DEF WatchdogTypeOK
  <1>2. (MaxTime * 4) \div 4 <= MaxRawDelta(CsWidth)
    BY <1>1 DEF CsNeverWraps
  <1>3. (MaxTime * 4) \div 4 = MaxTime /\ (now * 4) \div 4 = now
    BY <1>1
  <1>4. MaxRawDelta(CsWidth) \in Nat /\ MaxRawDelta(CsWidth) < BIT(CsWidth) /\ BIT(CsWidth) \in Nat
    BY Widths, Raw
  <1>5. now <= MaxRawDelta(CsWidth) /\ now < BIT(CsWidth)
    BY <1>1, <1>2, <1>3, <1>4
  <1>6. Cs(0) = (now + 0) % BIT(CsWidth)
    BY <1>3 DEF Cs, Cycles
  <1>7. now % BIT(CsWidth) = now
    <2>1. now - (BIT(CsWidth) * 0) \in 0 .. BIT(CsWidth) - 1 /\ BIT(CsWidth) > 0
      BY <1>1, <1>4, <1>5
    <2>2. now % BIT(CsWidth) = now - (BIT(CsWidth) * 0)
      BY <1>1, <1>4, <2>1, RemainderIs
    <2> QED BY <1>1, <1>4, <2>2
  <1> QED BY <1>1, <1>5, <1>6, <1>7

LEMMA ReadoutIs ==
    ASSUME WatchdogTypeOK, NEW t \in 0 .. now, ReadFrom(t)
    PROVE  ReadoutTime = now - t
  <1>1. now \in Nat /\ t \in Nat /\ t <= now /\ now - t <= MaxReadout
    BY DEF WatchdogTypeOK, ReadFrom
  <1>2. now - t <= MaxRawDelta(WdWidth)
    <2>1. MaxReadout \in Nat /\ MaxReadout <= BIT(WdWidth) \div 2
      BY SkewAssumption
    <2>2. BIT(WdWidth) \div 2 <= MaxRawDelta(WdWidth) /\ MaxRawDelta(WdWidth) \in Nat /\ BIT(WdWidth) \in Nat
      BY Widths, Raw
    <2> QED BY <1>1, <2>1, <2>2
  <1>3. Delta(now % BIT(WdWidth), t % BIT(WdWidth), WdWidth) = now - t
    BY <1>1, <1>2, Widths, DeltaIs
  <1> QED BY <1>3 DEF ReadoutTime, Wd, ReadFrom

\* What a good readout is: the clocksource was read between two times no more than one apart
LEMMA ReadGood ==
    ASSUME CsNeverWraps, WatchdogTypeOK, flaw.rate = 4, Reading, ReadDone
    PROVE  \E t \in 0 .. now :
              /\ walk.wd_ts0 = t % BIT(WdWidth) /\ source.cs_last <= t
              /\ t <= walk.cs_ts /\ walk.cs_ts <= t + 1 /\ walk.cs_ts <= now
  <1>1. walk.pc = "wd1" /\ ReadoutTime <= 1
    BY DEF ReadDone, READOUT_MAX
  <1>2. PICK t \in 0 .. now : ReadFrom(t)
    BY <1>1 DEF Reading
  <1>3. now - t <= 1 /\ now \in Nat /\ walk.cs_ts \in Nat
    BY <1>1, <1>2, ReadoutIs DEF WatchdogTypeOK, Walks
  <1> QED BY <1>1, <1>2, <1>3 DEF ReadFrom

LEMMA ReadLastKept ==
    ASSUME WatchdogTypeOK, ReadLast, now' \in Nat, now <= now',
           source'.wd_last = source.wd_last, source'.cs_last = source.cs_last
    PROVE  ReadLast'
  <1>1. PICK t \in 0 .. now :
           source.wd_last = t % BIT(WdWidth) /\ t <= source.cs_last /\ source.cs_last <= t + 1 /\ source.cs_last <= now
    BY DEF ReadLast
  <1>2. now \in Nat /\ source.cs_last \in Nat
    BY DEF WatchdogTypeOK
  <1>3. t \in 0 .. now' /\ source.cs_last <= now'
    BY <1>1, <1>2
  <1> QED BY <1>1, <1>3 DEF ReadLast

\* The readouts of one walk
LEMMA ReadStep ==
    ASSUME CsNeverWraps, WatchdogTypeOK, flaw.rate = 4, ReadLast, Reading, FreqStep
    PROVE  ReadLast' /\ Reading'
  <1>1. /\ walk \in Walks /\ now \in Nat /\ MaxReadout \in Nat
        /\ source \in [wd_last : Nat, cs_last : Nat, watched : BOOLEAN, unstable : BOOLEAN]
    BY SkewAssumption DEF WatchdogTypeOK
  <1>2. now' = now /\ flaw' = flaw
    BY FreqStepIs
  <1>3. ASSUME source'.wd_last = source.wd_last, source'.cs_last = source.cs_last, walk'.pc \notin {"cs", "wd1"}
        PROVE  ReadLast' /\ Reading'
    BY <1>1, <1>2, <1>3, ReadLastKept DEF Reading
  <1>4. CASE Expire
    <2>1. source' = source /\ walk'.pc = "wd0"
      <3>1. source' = source /\ walk' = [Off EXCEPT !.pc = "wd0", !.reset_pending = reset > 0]
        BY <1>4 DEF Expire
      <3> QED BY <3>1 DEF Off
    <2> QED BY <1>3, <2>1
  <1>5. CASE ReadFirst
    <2>1. walk' = [walk EXCEPT !.pc = "cs", !.wd_ts0 = Wd] /\ source' = source
      BY <1>5 DEF ReadFirst
    <2>2. walk'.pc = "cs" /\ walk'.wd_ts0 = now % BIT(WdWidth)
      BY <1>1, <2>1 DEF Walks, Wd
    <2>3. source.cs_last <= now
      BY DEF ReadLast
    <2>4. ReadFrom(now)'
      BY <1>1, <1>2, <2>1, <2>2, <2>3 DEF ReadFrom
    <2>5. now' \in 0 .. now'
      BY <1>1, <1>2
    <2>6. ReadLast'
      BY <1>1, <1>2, <2>1, ReadLastKept
    <2> QED BY <2>4, <2>5, <2>6 DEF Reading
  <1>6. CASE ReadSecond
    <2>1. walk' = [walk EXCEPT !.pc = "wd1", !.cs_ts = Cs(0)] /\ source' = source /\ walk.pc = "cs"
      BY <1>6 DEF ReadSecond
    <2>2. walk'.pc = "wd1" /\ walk'.cs_ts = now /\ walk'.wd_ts0 = walk.wd_ts0
      BY <1>1, <2>1, CsIs DEF Walks
    <2>3. PICK t \in 0 .. now : ReadFrom(t)
      BY <2>1 DEF Reading
    <2>4. ReadFrom(t)' /\ t \in 0 .. now'
      BY <1>1, <1>2, <2>1, <2>2, <2>3 DEF ReadFrom
    <2>5. ReadLast'
      BY <1>1, <1>2, <2>1, ReadLastKept
    <2> QED BY <2>4, <2>5 DEF Reading
  <1>7. CASE ReadLate
    <2>1. source' = source
      BY <1>7 DEF ReadLate
    <2>2. walk'.pc \in {"wd0", "result"}
      <3>1. \/ walk' = [walk EXCEPT !.pc = "wd0", !.retries = walk.retries + 1]
            \/ walk' = [walk EXCEPT !.pc = "result"]
        BY <1>7 DEF ReadLate
      <3> QED BY <1>1, <3>1 DEF Walks
    <2> QED BY <1>3, <2>1, <2>2
  <1>8. CASE ReadDone
    <2>1. PICK t \in 0 .. now :
              /\ walk.wd_ts0 = t % BIT(WdWidth) /\ source.cs_last <= t
              /\ t <= walk.cs_ts /\ walk.cs_ts <= t + 1 /\ walk.cs_ts <= now
      BY <1>8, ReadGood
    <2>2. source'.wd_last = walk.wd_ts0 /\ source'.cs_last = walk.cs_ts /\ walk'.pc \in {"cpu", "result"}
      BY <1>8, ReadDoneIs
    <2>3. ReadLast'
      BY <1>1, <1>2, <2>1, <2>2 DEF ReadLast
    <2> QED BY <2>2, <2>3 DEF Reading
  <1>9. CASE SkipSelf \/ SkipBusy
    <2>1. walk' = [walk EXCEPT !.pc = "result"] /\ source' = source
      BY <1>9 DEF SkipSelf, SkipBusy
    <2>2. walk'.pc = "result"
      BY <1>1, <2>1 DEF Walks
    <2> QED BY <1>3, <2>1, <2>2
  <1>10. CASE CheckResult
    <2>1. walk'.pc = "idle"
      BY <1>10 DEF CheckResult, Rearm, Off
    <2>2. source'.wd_last = source.wd_last /\ source'.cs_last = source.cs_last
      BY <1>1, <1>10 DEF CheckResult
    <2> QED BY <1>3, <2>1, <2>2
  <1>11. CASE LeftAlone
    <2>1. walk'.pc = "idle" /\ source' = source
      BY <1>11 DEF LeftAlone, Rearm, Off
    <2> QED BY <1>3, <2>1
  <1> QED BY <1>4, <1>5, <1>6, <1>7, <1>8, <1>9, <1>10, <1>11 DEF FreqStep

LEMMA FreqNext ==
    ASSUME CsNeverWraps, WatchdogTypeOK, WhereInv, FreqInv, WatchdogNext
    PROVE  FreqInv'
  <1>1. SUFFICES ASSUME flaw'.rate = 4 PROVE ReadLast' /\ Reading'
    BY DEF FreqInv, ReadLast, Reading, ReadFrom
  <1>2. UNCHANGED flaw
    BY Steps, FreqStepIs, PassingIs, StartIs, TakeIs, CallIs, TurnIs DEF TurnOf
  <1>3. flaw.rate = 4 /\ ReadLast /\ Reading /\ now \in Nat
    BY <1>1, <1>2 DEF FreqInv, ReadLast, Reading, ReadFrom, WatchdogTypeOK
  <1>4. CASE FreqStep
    BY <1>3, <1>4, ReadStep
  <1>5. CASE Passing
    <2>1. /\ UNCHANGED <<walk, source>> /\ now' \in Nat /\ now <= now'
          /\ walk.pc = "idle" \/ (now' = now + 1 /\ (walk.pc \in {"cs", "wd1"} => ReadoutTime < MaxReadout))
      BY <1>5, PassingIs
    <2>2. ReadLast'
      BY <1>3, <2>1, ReadLastKept
    <2>3. Reading'
      <3>1. SUFFICES ASSUME walk.pc \in {"cs", "wd1"} PROVE \E t \in 0 .. now' : ReadFrom(t)'
        BY <2>1 DEF Reading
      <3>2. PICK t \in 0 .. now : ReadFrom(t)
        BY <1>3, <3>1 DEF Reading
      <3>3. now' = now + 1 /\ now - t < MaxReadout /\ t \in 0 .. now'
        BY <1>3, <2>1, <3>1, <3>2, ReadoutIs
      <3>4. MaxReadout \in Nat /\ walk.cs_ts \in Nat
        BY SkewAssumption DEF WatchdogTypeOK, Walks
      <3>5. now' - t <= MaxReadout /\ (walk.cs_ts <= now => walk.cs_ts <= now')
        BY <1>3, <3>3, <3>4
      <3>6. ReadFrom(t)'
        BY <2>1, <3>2, <3>5 DEF ReadFrom
      <3> QED BY <3>3, <3>6
    <2> QED BY <2>2, <2>3
  <1>6. CASE StartCheck \/ TakeResult
    <2>1. now' = now /\ source' = source /\ walk'.pc \in {"sync", "result"}
      BY <1>6, StartIs, TakeIs
    <2> QED BY <1>3, <2>1, ReadLastKept DEF Reading
  <1>7. ASSUME UNCHANGED <<now, walk, source>> PROVE ReadLast' /\ Reading'
    BY <1>3, <1>7 DEF ReadLast, Reading, ReadFrom
  <1>8. ASSUME NEW c \in Remotes, Calls(c) PROVE ReadLast' /\ Reading'
    BY <1>7, <1>8, CallIs
  <1>9. ASSUME NEW c \in Remotes, NEW i \in Sides, CheckSkew(c, i) PROVE ReadLast' /\ Reading'
    BY <1>7, <1>9, TurnIs DEF TurnOf
  <1> QED BY <1>4, <1>5, <1>6, <1>8, <1>9, Steps

\* What a good readout is judged by: the two counters are one apart at most
LEMMA Judged ==
    ASSUME CsNeverWraps, WatchdogTypeOK, flaw.rate = 4, ReadLast, Reading, ReadDone
    PROVE  LET wd_delta == Delta(walk.wd_ts0, source.wd_last, WdWidth)
               cs_delta == Delta(walk.cs_ts, source.cs_last, CsWidth)
           IN  ReadVerdict(wd_delta, cs_delta) = "FREQ_SKEWED" =>
                  AtLeast(wd_delta, cs_delta) \div BIT(ppm_shift) <= READOUT_MAX
  <1> DEFINE wd_delta == Delta(walk.wd_ts0, source.wd_last, WdWidth)
             cs_delta == Delta(walk.cs_ts, source.cs_last, CsWidth)
             most == AtLeast(wd_delta, cs_delta)
  <1>1. SUFFICES ASSUME ReadVerdict(wd_delta, cs_delta) = "FREQ_SKEWED"
                 PROVE  most \div BIT(ppm_shift) <= READOUT_MAX
    OBVIOUS
  <1>2. ~Reset(wd_delta, cs_delta) /\ ~Matches(wd_delta, cs_delta)
    BY <1>1 DEF ReadVerdict
  <1>3. /\ wd_delta \in Nat /\ cs_delta \in Nat
        /\ walk.cs_ts \in Nat /\ source.cs_last \in Nat /\ now \in Nat
    BY Widths, DeltaIsNat DEF WatchdogTypeOK, Walks
  <1>4. MaxIdle(WdWidth) \in Nat /\ MaxIdle(WdWidth) + 1 <= MaxRawDelta(WdWidth) /\ MaxRawDelta(WdWidth) \in Nat
    BY Widths, Raw
  <1>5. ~(most > MaxIdle(WdWidth))
    BY <1>2 DEF Reset
  <1>6. PICK s \in 0 .. now :
           /\ source.wd_last = s % BIT(WdWidth) /\ s <= source.cs_last
           /\ source.cs_last <= s + 1 /\ source.cs_last <= now
    BY DEF ReadLast
  <1>7. PICK t \in 0 .. now :
           /\ walk.wd_ts0 = t % BIT(WdWidth) /\ source.cs_last <= t
           /\ t <= walk.cs_ts /\ walk.cs_ts <= t + 1 /\ walk.cs_ts <= now
    BY ReadGood
  <1>8. cs_delta = walk.cs_ts - source.cs_last
    <2> DEFINE x == walk.cs_ts
               y == source.cs_last
               B == BIT(CsWidth)
    <2>1. now <= MaxRawDelta(CsWidth) /\ now < B /\ B \in Nat /\ B >= 8 /\ MaxRawDelta(CsWidth) \in Nat
      BY CsIs, Widths, Raw
    <2>2. x \in Nat /\ y \in Nat /\ y <= x /\ x - y <= MaxRawDelta(CsWidth) /\ x < B /\ y < B
      BY <1>3, <1>6, <1>7, <2>1
    <2>3. cs_delta = Delta(x, y, CsWidth)
      OBVIOUS
    <2> HIDE DEF x, y
    <2>4. Delta(x % B, y % B, CsWidth) = x - y
      BY <2>1, <2>2, DeltaIs
    <2> HIDE DEF B
    <2>5. x - (B * 0) \in 0 .. B - 1 /\ y - (B * 0) \in 0 .. B - 1 /\ B > 0
      BY <2>1, <2>2
    <2>6. x % B = x - (B * 0) /\ y % B = y - (B * 0)
      BY <2>1, <2>2, <2>5, RemainderIs
    <2>7. x % B = x /\ y % B = y
      BY <2>1, <2>2, <2>6
    <2>8. cs_delta = x - y
      BY <2>3, <2>4, <2>7
    <2> QED BY <2>8 DEF x, y
  <1> HIDE DEF cs_delta
  <1>9. wd_delta = t - s
    <2>1. cs_delta <= MaxIdle(WdWidth)
      <3> HIDE DEF wd_delta
      <3> QED BY <1>3, <1>4, <1>5 DEF most, AtLeast
    <2>2. t \in Nat /\ s \in Nat /\ s <= t /\ t - s <= MaxRawDelta(WdWidth)
      BY <1>3, <1>4, <1>6, <1>7, <1>8, <2>1
    <2> QED BY <1>6, <1>7, <2>2, Widths, DeltaIs
  <1> HIDE DEF wd_delta
  <1>10. Distance(wd_delta, cs_delta) <= 1 /\ Distance(wd_delta, cs_delta) \in Nat
    BY <1>3, <1>6, <1>7, <1>8, <1>9 DEF Distance, AtLeast
  <1>11. most \in Nat /\ most \div BIT(ppm_shift) \in Int
    <2>1. most \in Nat
      BY <1>3 DEF most, AtLeast
    <2> HIDE DEF most
    <2>2. BIT(ppm_shift) \in Nat /\ BIT(ppm_shift) > 0
      BY Widths
    <2> QED BY <2>1, <2>2, Remainder
  <1>12. ReadoutTime \in Nat
    <2>1. walk.wd_ts0 \in Nat /\ Wd \in Nat
      BY <1>3, Widths, Remainder DEF WatchdogTypeOK, Walks, Wd
    <2> QED BY <2>1, Widths, DeltaIsNat DEF ReadoutTime
  <1>13. ~(Distance(wd_delta, cs_delta) < most \div BIT(ppm_shift) + ReadoutTime)
    BY <1>2 DEF Matches
  <1> DEFINE k == most \div BIT(ppm_shift)
  <1>14. k <= 1
    <2> HIDE DEF k, most
    <2>1. k \in Int /\ ~(Distance(wd_delta, cs_delta) < k + ReadoutTime)
      BY <1>11, <1>13 DEF k
    <2> QED BY <1>10, <1>12, <2>1
  <1> QED BY <1>14 DEF READOUT_MAX

LEMMA VerdictNext ==
    ASSUME CsNeverWraps, WatchdogTypeOK, WhereInv, FreqInv, VerdictInv, WatchdogNext
    PROVE  VerdictInv'
  <1>1. walk \in Walks /\ data \in [result : Verdicts, curr_cpu : Cpus] /\ cpu \in AllCpus
    BY DEF WatchdogTypeOK, AllCpus
  <1>2. CASE ReadDone
    <2> DEFINE wd_delta == Delta(walk.wd_ts0, source.wd_last, WdWidth)
               cs_delta == Delta(walk.cs_ts, source.cs_last, CsWidth)
               verdict == ReadVerdict(wd_delta, cs_delta)
    <2>1. /\ walk'.pc = IF verdict = "SUCCESS" THEN "cpu" ELSE "result"
          /\ data'.result = verdict
          /\ verdict = "FREQ_SKEWED" => walk'.wd_delta = wd_delta /\ walk'.cs_delta = cs_delta
      BY <1>2, ReadDoneIs
    <2>2. UNCHANGED flaw
      BY <1>2 DEF ReadDone
    <2>3. flaw.rate = 4 => ReadLast /\ Reading
      BY DEF FreqInv, ReadLast, Reading, ReadFrom
    <2>4. flaw.rate = 4 /\ verdict = "FREQ_SKEWED" => AtLeast(wd_delta, cs_delta) \div BIT(ppm_shift) <= READOUT_MAX
      BY <1>2, <2>3, Judged
    <2> HIDE DEF wd_delta, cs_delta, verdict
    <2> QED BY <2>1, <2>2, <2>4 DEF VerdictInv
  <1>3. ASSUME walk'.pc \notin {"cpu", "result"} PROVE VerdictInv'
    BY <1>3 DEF VerdictInv
  <1>4. ASSUME data'.result # "FREQ_SKEWED", walk'.pc = "result" PROVE VerdictInv'
    BY <1>4 DEF VerdictInv
  <1>5. CASE Expire
    <2>1. walk'.pc = "wd0"
      <3>1. walk' = [Off EXCEPT !.pc = "wd0", !.reset_pending = reset > 0]
        BY <1>5 DEF Expire
      <3> QED BY <3>1 DEF Off
    <2> QED BY <1>3, <2>1
  <1>6. CASE ReadFirst \/ ReadSecond
    <2>1. walk' = [walk EXCEPT !.pc = "cs", !.wd_ts0 = Wd] \/ walk' = [walk EXCEPT !.pc = "wd1", !.cs_ts = Cs(0)]
      BY <1>6 DEF ReadFirst, ReadSecond
    <2>2. walk'.pc \in {"cs", "wd1"}
      BY <1>1, <2>1 DEF Walks
    <2> QED BY <1>3, <2>2
  <1>7. CASE ReadLate
    <2>1. \/ walk' = [walk EXCEPT !.pc = "wd0", !.retries = walk.retries + 1]
          \/ walk' = [walk EXCEPT !.pc = "result"] /\ data' = [data EXCEPT !.result = "FREQ_TIMEOUT"]
      BY <1>7 DEF ReadLate
    <2>2. walk'.pc = "wd0" \/ (walk'.pc = "result" /\ data'.result = "FREQ_TIMEOUT")
      BY <1>1, <2>1 DEF Walks
    <2> QED BY <1>3, <1>4, <2>2
  <1>8. CASE SkipSelf \/ SkipBusy
    <2>1. /\ walk.pc = "cpu" /\ walk' = [walk EXCEPT !.pc = "result"]
          /\ \/ data' = [data EXCEPT !.curr_cpu = 0]
             \/ data' = [data EXCEPT !.curr_cpu = NextCpu, !.result = "CPU_TIMEOUT"]
      BY <1>8 DEF SkipSelf, SkipBusy
    <2>2. data.result = "SUCCESS"
      BY <2>1 DEF VerdictInv
    <2>3. walk'.pc = "result" /\ data'.result \in {"SUCCESS", "CPU_TIMEOUT"}
      BY <1>1, <2>1, <2>2 DEF Walks
    <2> QED BY <1>4, <2>3
  <1>9. CASE CheckResult \/ LeftAlone
    BY <1>3, <1>9 DEF CheckResult, LeftAlone, Rearm, Off
  <1>10. CASE StartCheck
    BY <1>3, <1>10, StartIs
  <1>11. CASE TakeResult
    <2>1. walk'.pc = "result" /\ data.curr_cpu \in Remotes /\ data'.result = cpu[data.curr_cpu].result
      BY <1>11, TakeIs
    <2>2. data'.result # "FREQ_SKEWED"
      BY <1>1, <2>1 DEF AllCpus, CpuDatas
    <2> QED BY <1>4, <2>1, <2>2
  <1>12. ASSUME UNCHANGED <<flaw, walk, data>> PROVE VerdictInv'
    BY <1>12 DEF VerdictInv
  <1>13. CASE Passing
    BY <1>12, <1>13, PassingIs
  <1>14. ASSUME NEW c \in Remotes, Calls(c) PROVE VerdictInv'
    BY <1>12, <1>14, CallIs
  <1>15. ASSUME NEW c \in Remotes, NEW i \in Sides, CheckSkew(c, i) PROVE VerdictInv'
    BY <1>12, <1>15, TurnIs DEF TurnOf
  <1> QED BY <1>2, <1>5, <1>6, <1>7, <1>8, <1>9, <1>10, <1>11, <1>13, <1>14, <1>15, Steps DEF FreqStep

-----------------------------------------------------------------------------
\* The theorems

ChecksInv == WatchdogTypeOK /\ WhereInv /\ SkewInv
GoodInv == FreqInv /\ VerdictInv /\ FalseInv

LEMMA ChecksInit == WatchdogInit => ChecksInv
  <1>1. SUFFICES ASSUME WatchdogInit PROVE ChecksInv
    OBVIOUS
  <1>2. /\ walk = Off /\ now = 0
        /\ side = [c \in Remotes |-> [i \in Sides |-> [pc |-> "off", seq |-> 0, waited |-> 0]]]
    BY <1>1 DEF WatchdogInit
  <1>3. \A c \in Remotes, i \in Sides : side[c][i].pc = "off" /\ side[c][i].seq = 0
    BY <1>2
  <1>4. WhereInv
    BY <1>2, <1>3 DEF WhereInv, Standing, Off, Sides
  <1>5. SkewInv
    BY <1>3 DEF SkewInv, CheckInv, Good, Sides
  <1> QED BY <1>1, <1>4, <1>5, TypeInit DEF ChecksInv

LEMMA ChecksStep == ChecksInv /\ [WatchdogNext]_watchdog_vars => ChecksInv'
  <1>1. SUFFICES ASSUME ChecksInv, [WatchdogNext]_watchdog_vars PROVE ChecksInv'
    OBVIOUS
  <1>2. CASE WatchdogNext
    BY <1>1, <1>2, TypeNext, WhereNext, SkewNext DEF ChecksInv
  <1>3. CASE UNCHANGED watchdog_vars
    <2>1. UNCHANGED <<now, flaw, walk, source, data, cpu, side>>
      BY <1>3 DEF watchdog_vars
    <2>2. WatchdogTypeOK'
      BY <1>1, <2>1 DEF ChecksInv, WatchdogTypeOK
    <2>3. WhereInv'
      BY <1>1, <2>1 DEF ChecksInv, WhereInv, Standing
    <2>4. SkewInv'
      <3>1. ASSUME NEW c \in Remotes PROVE CheckInv(c)'
        <4>1. now \in Nat
          BY <1>1 DEF ChecksInv, WatchdogTypeOK
        <4> QED BY <1>1, <2>1, <4>1, SkewOther DEF ChecksInv, SkewInv
      <3> QED BY <3>1 DEF SkewInv
    <2> QED BY <2>2, <2>3, <2>4 DEF ChecksInv
  <1> QED BY <1>1, <1>2, <1>3

LEMMA GoodInit == CsNeverWraps /\ WatchdogInit => GoodInv
  <1>1. SUFFICES ASSUME WatchdogInit PROVE GoodInv
    OBVIOUS
  <1>2. /\ walk = Off /\ now = 0 /\ data.result = "SUCCESS"
        /\ source.wd_last = 0 /\ source.cs_last = 0
        /\ \A c \in Remotes : cpu[c].result = "SUCCESS"
    BY <1>1 DEF WatchdogInit
  <1>3. FreqInv
    <2>1. 0 = 0 % BIT(WdWidth)
      <3>1. BIT(WdWidth) \in Nat /\ BIT(WdWidth) >= 8
        BY Widths
      <3> QED BY <3>1
    <2> QED BY <1>2, <2>1 DEF FreqInv, Off
  <1> QED BY <1>2, <1>3 DEF GoodInv, VerdictInv, FalseInv, Fair, Off

LEMMA GoodStep == CsNeverWraps /\ ChecksInv /\ GoodInv /\ [WatchdogNext]_watchdog_vars => GoodInv'
  <1>1. SUFFICES ASSUME CsNeverWraps, ChecksInv, GoodInv, [WatchdogNext]_watchdog_vars PROVE GoodInv'
    OBVIOUS
  <1>2. CASE WatchdogNext
    BY <1>1, <1>2, FreqNext, VerdictNext, FalseNext DEF ChecksInv, GoodInv
  <1>3. CASE UNCHANGED watchdog_vars
    <2>1. UNCHANGED <<now, flaw, walk, source, data, cpu, side>>
      BY <1>3 DEF watchdog_vars
    <2> QED BY <1>1, <2>1 DEF GoodInv, FreqInv, VerdictInv, FalseInv, Fair
  <1> QED BY <1>1, <1>2, <1>3

\* Every state of the watchdog is one of its types, and a check that nobody has ended early has
\* counted its turns, stamped its times and found of the skew what the invariant says.
THEOREM WatchdogChecks == WatchdogSpec => []ChecksInv
  BY ChecksInit, ChecksStep, PTL DEF WatchdogSpec

\* When the check of a CPU has ended well (__watchdog_check_cpu_skew()), its clock is no
\* further off than the check took by that clock, for any number of CPUs, of turns and of bits.
THEOREM SkewBounded == WatchdogSpec => []SuccessBoundsSkew
  <1>1. ChecksInv => SuccessBoundsSkew
    <2> DEFINE c == data.curr_cpu
               e == Cycles(now) - Cycles(walk.start)
    <2>1. SUFFICES ASSUME ChecksInv, walk.pc = "sync", side[c][0].pc = "leave", cpu[c].result = "SUCCESS"
                   PROVE  Distance(flaw.skew, 0) <= e
      BY DEF SuccessBoundsSkew
    <2>2. c \in Remotes /\ walk.start <= now
      BY <2>1 DEF ChecksInv, WhereInv
    <2>3. BoundInv(c)
      BY <2>1, <2>2 DEF ChecksInv, SkewInv, CheckInv, Good
    <2>4. Done(c, 0) = MAX_SEQ \div 2 /\ Done(c, 1) = MAX_SEQ \div 2
      BY <2>1 DEF Done, Open
    <2>5. MAX_SEQ \in Nat /\ MAX_SEQ >= 6
      BY SkewAssumption
    <2>6. Done(c, 0) >= 2 /\ Done(c, 1) >= 2
      BY <2>4, <2>5
    <2>7. flaw.skew <= e /\ -flaw.skew <= e
      BY <2>3, <2>6 DEF BoundInv
    <2>8. flaw.skew \in Int /\ e \in Int
      <3>1. flaw.skew \in Int /\ flaw.rate \in Nat /\ now \in Nat /\ walk.start \in Nat
        BY <2>1, SkewAssumption DEF ChecksInv, WatchdogTypeOK, Walks
      <3> QED BY <3>1, Forward
    <2> HIDE DEF e
    <2>9. Distance(flaw.skew, 0) \in {flaw.skew, -flaw.skew}
      BY <2>8 DEF Distance, AtLeast
    <2> QED BY <2>7, <2>9
  <1> QED BY <1>1, WatchdogChecks, PTL

\* A clocksource that does not wrap in the time looked at, as one with 64 bits does not, is not
\* given up while it is good: clocksource_watchdog() takes no interrupt that is late or lost,
\* no call of an earlier check and no late or interrupted readout for a skew.
THEOREM GoodKept == CsNeverWraps => (WatchdogSpec => []NoFalseSkew)
  <1>1. ASSUME CsNeverWraps PROVE WatchdogSpec => []NoFalseSkew
    <2>1. WatchdogInit => GoodInv
      BY <1>1, GoodInit
    <2>2. ChecksInv /\ GoodInv /\ [WatchdogNext]_watchdog_vars => GoodInv'
      BY <1>1, GoodStep
    <2>3. GoodInv => NoFalseSkew
      BY DEF GoodInv, FalseInv, VerdictInv, NoFalseSkew
    <2> QED BY <2>1, <2>2, <2>3, WatchdogChecks, PTL DEF WatchdogSpec
  <1> QED BY <1>1
=============================================================================
