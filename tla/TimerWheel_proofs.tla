------------------------- MODULE TimerWheel_proofs -------------------------
(***************************************************************************)
(* Proofs about TimerWheel, for every width of jiffies, every shape of the  *)
(* wheel and any number of timers: no timer is lost, late or early, and an  *)
(* idle CPU wakes up in time.                                              *)
(*                                                                         *)
(* All times are compared by how far they are ahead of the clock of the     *)
(* base, which is less than half a word; a bucket then stands for one time  *)
(* only, the one in the lap of its level that begins at the clock.          *)
(***************************************************************************)
EXTENDS TimerWheel, WellFoundedInduction, TLAPS

-----------------------------------------------------------------------------
\* The invariant

Vectors == {t \in Timers : list[t] = "vectors"}
Level(t) == bucket[t][1]
MAX == TIMER_NEXT_MAX_DELTA

TypeOK ==
    /\ {jiffies, clk, next_expiry} \subseteq Times
    /\ next_expiry_recalc \in BOOLEAN /\ timers_pending \in BOOLEAN /\ is_idle \in BOOLEAN
    /\ run \in BOOLEAN /\ kicked \in BOOLEAN
    /\ list \in [Timers -> {"vectors", "heads", "none"}]
    /\ running_timer \in Timers \cup {None} /\ wakeup \in Times \cup {Never}
    /\ expires \in [Timers -> Times] /\ due \in [Timers -> Times]
    /\ bucket \in [Timers -> Buckets]
    /\ placed \in [Timers -> {"exact", "capped", "left"}]

\* next_expiry is not far ahead of the clock, and jiffies neither behind the clock by more
\* than the tick that is being expired nor far ahead of next_expiry.
ClockInv ==
    /\ Minus(next_expiry, clk) <= MAX
    /\ Minus(Plus(jiffies, 1), clk) <= Minus(next_expiry, clk) + MaxLag + 1

\* D is the time of bucket b, in the lap of its level that begins at the clock c, and not
\* before the time n.
InLap(D, b, c, n) ==
    LET g == LVL_GRAN(b[1])
    IN  /\ D % g = 0 /\ b[2] = (D \div g) % LVL_SIZE
        /\ Minus(n, c) <= Minus(D, c) /\ Minus(D, c) < LVL_SIZE * g /\ Minus(D, c) < MAX

\* Every timer of the wheel is in the bucket of its time.
QueueInv == \A t \in Vectors : timers_pending /\ InLap(due[t], bucket[t], clk, next_expiry)

\* The timers that have been collected were due at the last tick of the clock.
HeadsInv ==
    \A t \in Collected :
        run /\ Minus(clk, due[t]) >= 1
            /\ Minus(clk, due[t]) + Minus(next_expiry, clk) <= MAX + 1

\* D is no earlier than the time e that was asked for, nor later by more than the
\* granularity, or than e was in the past.
Rounded(D, e, l) == Minus(D, e) \in 1 .. Reach /\ (Minus(D, e) <= LVL_GRAN(l) \/ l = 0)

ExpiryInv == \A t \in Timers : Pending(t) /\ placed[t] = "exact" => Rounded(due[t], expires[t], Level(t))

LeftInv == \A t \in Vectors : placed[t] # "left"

\* The bitmap has the buckets that are not empty, and next_expiry is the time of one of them
\* if it is valid.
MapInv == pending_map = {bucket[t] : t \in Vectors}
FirstInv == timers_pending /\ ~next_expiry_recalc => \E t \in Vectors : due[t] = next_expiry

\* The CPU wakes up before next_expiry unless it is woken up before, and not far from now.
Ahead(a) == Minus(Plus(a, MaxLag), jiffies)
IdleInv ==
    /\ kicked => is_idle
    /\ run /\ is_idle => wakeup # Never
    /\ is_idle /\ wakeup # Never =>
          Ahead(wakeup) <= MAX + 1 + MaxLag /\ (~kicked => Ahead(wakeup) <= Ahead(next_expiry))
    /\ is_idle /\ wakeup = Never /\ ~kicked => ~timers_pending

IInv ==
    /\ TypeOK /\ ClockInv /\ QueueInv /\ HeadsInv /\ ExpiryInv /\ LeftInv /\ MapInv /\ FirstInv
    /\ IdleInv

-----------------------------------------------------------------------------
\* Numbers

\* Division with remainder
LEMMA DivMod ==
    ASSUME NEW x \in Int, NEW d \in Nat \ {0}
    PROVE  /\ x \div d \in Int /\ x % d \in Int
           /\ x = d * (x \div d) + (x % d) /\ 0 <= x % d /\ x % d < d
  OBVIOUS

\* From one multiple to the next
LEMMA NextMultiple ==
    ASSUME NEW d \in Nat \ {0}, NEW j \in Int, NEW k \in Int, j < k
    PROVE  d * j \in Int /\ d * k \in Int /\ d * j + d <= d * k
  <1>1. PICK n \in Nat : k = j + 1 + n
    <2>1. k - j - 1 \in Nat /\ k = j + 1 + (k - j - 1)
      OBVIOUS
    <2> QED BY <2>1
  <1>2. d * k = d * j + d + d * n /\ d * n \in Nat
    BY <1>1
  <1> QED BY <1>2

\* and the other way
LEMMA QuotientIs ==
    ASSUME NEW d \in Nat \ {0}, NEW q \in Int, NEW r \in 0 .. d - 1
    PROVE  d * q \in Int /\ (d * q + r) \div d = q /\ (d * q + r) % d = r
  <1> DEFINE x == d * q + r
             j == x \div d
             s == x % d
  <1>1. d * q \in Int /\ x \in Int
    OBVIOUS
  <1>2. j \in Int /\ s \in Int /\ x = d * j + s /\ 0 <= s /\ s < d
    <2> HIDE DEF x
    <2> QED BY <1>1, DivMod
  <1> DEFINE X == x
  <1>3. X = d * q + r /\ X = d * j + s
    BY <1>2
  <1> HIDE DEF X, j, s
  <1>4. ~(j < q) /\ ~(q < j)
    <2>1. ASSUME j < q PROVE FALSE
      <3>1. d * j + d <= d * q /\ d * j \in Int
        BY <1>2, <2>1, NextMultiple
      <3> QED BY <1>1, <1>2, <1>3, <3>1
    <2>2. ASSUME q < j PROVE FALSE
      <3>1. d * q + d <= d * j /\ d * j \in Int
        BY <1>2, <2>2, NextMultiple
      <3> QED BY <1>1, <1>2, <1>3, <3>1
    <2> QED BY <2>1, <2>2
  <1>5. j = q
    BY <1>2, <1>4
  <1>6. s = r
    BY <1>1, <1>2, <1>3, <1>5
  <1> QED BY <1>1, <1>5, <1>6 DEF j, s

\* Induction up to K
LEMMA UpTo ==
    ASSUME NEW K \in Nat, NEW S, 0 \in S, \A n \in 1 .. K : n - 1 \in S => n \in S
    PROVE  0 .. K \subseteq S
  <1> DEFINE Bad == {n \in 0 .. K : n \notin S}
  <1> SUFFICES ASSUME Bad # {} PROVE FALSE
    OBVIOUS
  <1>1. Bad \subseteq Nat
    OBVIOUS
  <1>2. PICK m \in Bad : \A k \in Bad : ~(<<k, m>> \in OpToRel(<, Nat))
    BY <1>1, NatLessThanWellFounded, WFMin
  <1>3. \A k \in Bad : ~(k < m)
    BY <1>1, <1>2 DEF OpToRel
  <1>4. m \in 1 .. K /\ m \notin S
    OBVIOUS
  <1>5. m - 1 \in S
    BY <1>3, <1>4
  <1> QED BY <1>4, <1>5

\* The least element of a set of numbers
LEMMA Smallest ==
    ASSUME NEW S \in SUBSET Nat, S # {}
    PROVE  \E m \in S : \A k \in S : m <= k
  <1>1. PICK m \in S : \A k \in S : ~(<<k, m>> \in OpToRel(<, Nat))
    BY NatLessThanWellFounded, WFMin
  <1>2. \A k \in S : ~(k < m)
    BY <1>1 DEF OpToRel
  <1> QED BY <1>2

\* f is the function that begins with a and goes on with h.
Iterated(f, a, h, K, S) == f \in [0 .. K -> S] /\ f[0] = a /\ \A n \in 1 .. K : f[n] = h[f[n - 1]]

\* There is one.
LEMMA Iterates ==
    ASSUME NEW S, NEW a \in S, NEW h \in [S -> S], NEW K \in Nat
    PROVE  \E f : Iterated(f, a, h, K, S)
  <1> DEFINE Has(m) == \E f \in [0 .. m -> S] : f[0] = a /\ \A n \in 1 .. m : f[n] = h[f[n - 1]]
             Good == {m \in Nat : Has(m)}
  <1>1. Has(0)
    <2> DEFINE f == [n \in 0 .. 0 |-> a]
    <2>1. f \in [0 .. 0 -> S] /\ f[0] = a /\ \A n \in 1 .. 0 : f[n] = h[f[n - 1]]
      OBVIOUS
    <2> QED BY <2>1
  <1>2. ASSUME NEW m \in 1 .. K, Has(m - 1) PROVE Has(m)
    <2>1. PICK f \in [0 .. m - 1 -> S] : f[0] = a /\ \A n \in 1 .. m - 1 : f[n] = h[f[n - 1]]
      BY <1>2
    <2> DEFINE g == [n \in 0 .. m |-> IF n = m THEN h[f[m - 1]] ELSE f[n]]
    <2>2. g \in [0 .. m -> S] /\ g[0] = a
      BY <2>1
    <2>3. ASSUME NEW n \in 1 .. m PROVE g[n] = h[g[n - 1]]
      <3>1. n - 1 \in 0 .. m /\ n - 1 # m /\ g[n - 1] = f[n - 1]
        OBVIOUS
      <3>2. CASE n = m
        BY <3>1, <3>2
      <3>3. CASE n # m
        BY <2>1, <3>1, <3>3
      <3> QED BY <3>2, <3>3
    <2> HIDE DEF g
    <2> QED BY <2>2, <2>3
  <1> HIDE DEF Has
  <1>3. 0 \in Good /\ \A m \in 1 .. K : m - 1 \in Good => m \in Good
    BY <1>1, <1>2
  <1> HIDE DEF Good
  <1>4. K \in Good
    BY <1>3, UpTo
  <1> QED BY <1>4 DEF Good, Has, Iterated

\* The powers of two
LEMMA Powers ==
    /\ Pow2 \in [0 .. W -> Nat \ {0}] /\ Pow2[0] = 1
    /\ \A n \in 1 .. W : Pow2[n] = 2 * Pow2[n - 1]
  <1> DEFINE S == Nat \ {0}
             h == [x \in S |-> 2 * x]
             P(f) == f = [n \in 0 .. W |-> IF n = 0 THEN 1 ELSE 2 * f[n - 1]]
  <1>1. W \in Nat
    BY ConstAssumption
  <1>2. h \in [S -> S] /\ 1 \in S
    OBVIOUS
  <1>3. PICK f \in [0 .. W -> S] : f[0] = 1 /\ \A n \in 1 .. W : f[n] = h[f[n - 1]]
    <2>1. \E f : Iterated(f, 1, h, W, S)
      <3> HIDE DEF S, h
      <3> QED BY <1>1, <1>2, Iterates
    <2> HIDE DEF S, h
    <2> QED BY <2>1 DEF Iterated
  <1>4. \A n \in 0 .. W : f[n] = IF n = 0 THEN 1 ELSE 2 * f[n - 1]
    <2> TAKE n \in 0 .. W
    <2>1. CASE n = 0
      BY <1>3, <2>1
    <2>2. CASE n # 0
      <3>1. n \in 1 .. W /\ n - 1 \in 0 .. W
        BY <1>1, <2>2
      <3>2. f[n] = h[f[n - 1]] /\ f[n - 1] \in S
        BY <1>3, <3>1
      <3> QED BY <2>2, <3>2
    <2> QED BY <2>1, <2>2
  <1>5. P(f)
    <2>1. f = [n \in 0 .. W |-> f[n]]
      OBVIOUS
    <2> QED BY <1>4, <2>1
  <1>6. Pow2 = CHOOSE p : P(p)
    BY DEF Pow2
  <1>7. P(Pow2)
    <2> HIDE DEF P
    <2> QED BY <1>5, <1>6
  <1>8. \A n \in 0 .. W : Pow2[n] = IF n = 0 THEN 1 ELSE 2 * Pow2[n - 1]
    BY <1>7
  <1> DEFINE Ok == {n \in 0 .. W : Pow2[n] \in S}
  <1>9. 0 \in Ok /\ \A n \in 1 .. W : n - 1 \in Ok => n \in Ok
    <2>1. 0 \in 0 .. W /\ Pow2[0] = 1
      BY <1>1, <1>8
    <2>2. ASSUME NEW n \in 1 .. W, n - 1 \in Ok PROVE n \in Ok
      <3>1. n \in 0 .. W /\ n # 0 /\ Pow2[n - 1] \in S
        BY <1>1, <2>2
      <3>2. Pow2[n] = 2 * Pow2[n - 1]
        BY <1>8, <3>1
      <3> QED BY <3>1, <3>2
    <2> QED BY <2>1, <2>2
  <1>10. \A n \in 0 .. W : Pow2[n] \in S
    <2> HIDE DEF Ok
    <2>1. 0 .. W \subseteq Ok
      BY <1>1, <1>9, UpTo
    <2> QED BY <2>1 DEF Ok
  <1>11. Pow2 \in [0 .. W -> S]
    <2>1. Pow2 = [n \in 0 .. W |-> IF n = 0 THEN 1 ELSE 2 * Pow2[n - 1]]
      BY <1>7
    <2>2. Pow2 = [n \in 0 .. W |-> Pow2[n]]
      BY <2>1
    <2> QED BY <1>10, <2>2
  <1> QED BY <1>1, <1>8, <1>11

LEMMA PowPlus ==
    ASSUME NEW a \in Nat, NEW b \in Nat, a + b <= W
    PROVE  Pow2[a + b] = Pow2[a] * Pow2[b]
  <1> DEFINE Ok == {n \in 0 .. b : Pow2[a + n] = Pow2[a] * Pow2[n]}
  <1>0. W \in Nat
    BY ConstAssumption
  <1>1. 0 \in Ok
    BY <1>0, Powers
  <1>2. ASSUME NEW n \in 1 .. b, n - 1 \in Ok PROVE n \in Ok
    <2>1. n \in 1 .. W /\ a + n \in 1 .. W /\ a \in 0 .. W /\ n - 1 \in 0 .. W
      BY <1>0
    <2>2. Pow2[n] = 2 * Pow2[n - 1] /\ Pow2[a + n] = 2 * Pow2[(a + n) - 1] /\ Pow2[a] \in Nat /\ Pow2[n - 1] \in Nat
      BY <2>1, Powers
    <2>3. (a + n) - 1 = a + (n - 1)
      BY <2>1
    <2>4. Pow2[a + (n - 1)] = Pow2[a] * Pow2[n - 1]
      BY <1>2
    <2> DEFINE x == Pow2[a]
               y == Pow2[n - 1]
    <2>5. 2 * (x * y) = x * (2 * y)
      BY <2>2
    <2> QED BY <2>2, <2>3, <2>4, <2>5
  <1> HIDE DEF Ok
  <1>3. b \in Ok
    BY <1>1, <1>2, UpTo
  <1> QED BY <1>3 DEF Ok

-----------------------------------------------------------------------------
\* The shape of the wheel

\* A word is twice the range in which a time is ahead, and that is more than any two times
\* that are compared are apart.
LEMMA WordFacts ==
    /\ MAX \in Nat /\ MaxLag \in Nat \ {0} /\ Reach \in Nat \ {0} /\ Word \in Nat /\ Word \div 2 \in Nat
    /\ Word = 2 * (Word \div 2) /\ Word \div 2 = MAX + MaxLag + 2 + Reach
    /\ Times \subseteq Nat
  <1>1. W \in 1 .. W /\ W - 1 \in 0 .. W
    BY ConstAssumption
  <1>2. Pow2[W] = 2 * Pow2[W - 1] /\ Pow2[W - 1] \in Nat
    BY <1>1, Powers
  <1> DEFINE H == Pow2[W - 1]
  <1>3. Word = 2 * H /\ H \in Nat
    BY <1>2 DEF Word
  <1>4. Word \div 2 = H
    <2> HIDE DEF H
    <2> QED BY <1>3
  <1>5. 0 \in Levels /\ LVL_DEPTH - 1 \in Nat
    BY ConstAssumption DEF Levels
  <1>6. TIMER_NEXT_MAX_DELTA \in Nat /\ MaxLag \in Nat \ {0} /\ Reach \in Int
    BY <1>3, <1>4, ConstAssumption DEF Reach
  <1>7. LVL_GRAN(LVL_DEPTH - 1) \in Nat \ {0}
    <2> DEFINE s == (LVL_DEPTH - 1) * LVL_CLK_SHIFT
    <2>1. s \in Nat
      BY <1>5, ConstAssumption
    <2>2. LVL_BITS + s < W /\ LVL_BITS \in Nat /\ W \in Nat
      BY ConstAssumption
    <2>3. s \in 0 .. W
      <3> HIDE DEF s
      <3> QED BY <2>1, <2>2
    <2> QED BY <2>3, Powers DEF LVL_GRAN
  <1>8. Reach \in Nat \ {0}
    <2>1. LVL_GRAN(LVL_DEPTH - 1) <= Reach
      BY ConstAssumption
    <2> QED BY <1>6, <1>7, <2>1
  <1> QED BY <1>3, <1>4, <1>6, <1>8 DEF Reach, MAX, Times

\* An outer level is coarser.
LEMMA LevelsApart ==
    ASSUME NEW l \in Levels, NEW k \in Levels, l <= k
    PROVE  /\ LVL_GRAN(l) \in Nat \ {0} /\ LVL_SIZE \in Nat \ {0, 1}
           /\ \E m \in Nat \ {0} : LVL_GRAN(k) = LVL_GRAN(l) * m
           /\ \E m \in Nat \ {0} : LVL_SIZE * LVL_GRAN(k) = (LVL_SIZE * LVL_GRAN(l)) * m
           /\ \E m \in Nat \ {0} : Word = (LVL_SIZE * LVL_GRAN(k)) * m
  <1> DEFINE S == LVL_CLK_SHIFT
             top == LVL_DEPTH - 1
             a == l * S
             b == (k - l) * S
             c == (top - k) * S
  <1>1. S \in Nat /\ l \in Nat /\ k \in Nat /\ top \in Nat /\ k <= top /\ W \in Nat /\ LVL_BITS \in Nat \ {0}
    BY ConstAssumption DEF Levels
  <1>2. a \in Nat /\ b \in Nat /\ c \in Nat /\ k * S = a + b /\ top * S = a + b + c
    BY <1>1
  <1>3. LVL_BITS + (a + b + c) < W
    BY <1>2, ConstAssumption
  <1> DEFINE r == W - (LVL_BITS + (a + b))
  <1>4. LVL_GRAN(l) = Pow2[a] /\ LVL_GRAN(k) = Pow2[a + b] /\ LVL_SIZE = Pow2[LVL_BITS]
    BY <1>2 DEF LVL_GRAN, LVL_SIZE
  <1> HIDE DEF a, b, c
  <1>5. r \in Nat /\ W = LVL_BITS + (a + b) + r
    BY <1>1, <1>2, <1>3
  <1> HIDE DEF r
  <1>6. /\ Pow2[a + b] = Pow2[a] * Pow2[b]
        /\ Pow2[LVL_BITS + (a + b)] = Pow2[LVL_BITS] * Pow2[a + b]
        /\ Pow2[(LVL_BITS + (a + b)) + r] = Pow2[LVL_BITS + (a + b)] * Pow2[r]
    <2>1. a + b \in Nat /\ a + b <= W /\ LVL_BITS + (a + b) \in Nat /\ LVL_BITS + (a + b) <= W
      BY <1>1, <1>2, <1>5
    <2> QED BY <1>1, <1>2, <1>5, <2>1, PowPlus
  <1>7. /\ Pow2[a] \in Nat \ {0} /\ Pow2[b] \in Nat \ {0} /\ Pow2[r] \in Nat \ {0}
        /\ Pow2[LVL_BITS] \in Nat \ {0} /\ Pow2[LVL_BITS] = 2 * Pow2[LVL_BITS - 1]
        /\ Pow2[LVL_BITS - 1] \in Nat \ {0}
    <2>1. /\ a \in 0 .. W /\ b \in 0 .. W /\ r \in 0 .. W /\ LVL_BITS \in 1 .. W /\ LVL_BITS \in 0 .. W
          /\ LVL_BITS - 1 \in 0 .. W
      BY <1>1, <1>2, <1>3, <1>5
    <2> QED BY <2>1, Powers
  <1>8. LVL_SIZE \in Nat \ {0, 1}
    BY <1>4, <1>7
  <1>9. LVL_GRAN(k) = LVL_GRAN(l) * Pow2[b]
    BY <1>4, <1>6
  <1>10. LVL_SIZE * LVL_GRAN(k) = (LVL_SIZE * LVL_GRAN(l)) * Pow2[b]
    <2> DEFINE x == Pow2[a]
               y == Pow2[b]
    <2>1. x \in Nat /\ y \in Nat /\ LVL_SIZE \in Nat /\ LVL_GRAN(l) = x /\ LVL_GRAN(k) = x * y
      BY <1>4, <1>7, <1>8, <1>9
    <2> HIDE DEF x, y
    <2>2. LVL_SIZE * (x * y) = (LVL_SIZE * x) * y
      BY <2>1
    <2> QED BY <2>1, <2>2 DEF y
  <1>11. Word = (LVL_SIZE * LVL_GRAN(k)) * Pow2[r]
    BY <1>4, <1>5, <1>6 DEF Word
  <1> QED BY <1>4, <1>7, <1>8, <1>9, <1>10, <1>11

\* One level further the clock is divided by LVL_CLK_DIV.
LEMMA NextLevel ==
    ASSUME NEW l \in Levels, l + 1 \in Levels
    PROVE  LVL_CLK_DIV \in Nat \ {0} /\ LVL_GRAN(l + 1) = LVL_GRAN(l) * LVL_CLK_DIV
  <1> DEFINE S == LVL_CLK_SHIFT
             a == l * S
  <1>1. S \in Nat /\ l \in Nat /\ l + 1 <= LVL_DEPTH - 1 /\ LVL_DEPTH \in Nat /\ W \in Nat /\ LVL_BITS \in Nat
    BY ConstAssumption DEF Levels
  <1>2. a \in Nat /\ (l + 1) * S = a + S
    BY <1>1
  <1>3. a + S <= W
    <2> DEFINE n == LVL_DEPTH - 1 - (l + 1)
    <2>1. n \in Nat /\ LVL_DEPTH - 1 = (l + 1) + n
      BY <1>1
    <2> HIDE DEF n
    <2>2. (LVL_DEPTH - 1) * S = (a + S) + n * S /\ n * S \in Nat
      BY <1>1, <1>2, <2>1
    <2>3. LVL_BITS + (LVL_DEPTH - 1) * S < W
      BY ConstAssumption
    <2> HIDE DEF a
    <2> QED BY <1>1, <1>2, <2>2, <2>3
  <1>4. Pow2[a + S] = Pow2[a] * Pow2[S]
    <2> HIDE DEF a
    <2> QED BY <1>1, <1>2, <1>3, PowPlus
  <1>5. Pow2[S] \in Nat \ {0}
    <2>1. S \in 0 .. W
      <3> HIDE DEF a
      <3> QED BY <1>1, <1>2, <1>3
    <2> QED BY <2>1, Powers
  <1> QED BY <1>2, <1>4, <1>5 DEF LVL_GRAN, LVL_CLK_DIV

\* What is used of a level
LEMMA LevelFacts ==
    ASSUME NEW l \in Levels
    PROVE  /\ LVL_GRAN(l) \in Nat \ {0} /\ LVL_SIZE \in Nat \ {0, 1}
           /\ LVL_SIZE * LVL_GRAN(l) \in Nat \ {0}
           /\ LVL_SIZE * LVL_GRAN(l) <= MAX + 1 /\ LVL_GRAN(l) <= Reach
           /\ LVL_START(l + 1) = LVL_SIZE * LVL_GRAN(l) - LVL_GRAN(l)
           /\ l = 0 => LVL_GRAN(l) = 1
           /\ \E m \in Nat \ {0} : Word = (LVL_SIZE * LVL_GRAN(l)) * m
  <1> DEFINE k == LVL_DEPTH - 1
             g == LVL_GRAN(l)
             gk == LVL_GRAN(k)
             s == LVL_SIZE
  <1>1. k \in Levels /\ l <= k /\ l \in Nat
    BY ConstAssumption DEF Levels
  <1>2. /\ g \in Nat \ {0} /\ s \in Nat \ {0, 1}
        /\ \E m \in Nat \ {0} : gk = g * m
        /\ \E m \in Nat \ {0} : s * gk = (s * g) * m
    BY <1>1, LevelsApart
  <1>3. \E m \in Nat \ {0} : Word = (s * g) * m
    BY <1>1, LevelsApart
  <1>4. s * gk <= MAX + 1 /\ gk <= Reach
    BY ConstAssumption DEF MAX
  <1>5. s * g \in Nat \ {0}
    BY <1>2
  <1>6. s * g <= s * gk /\ g <= gk /\ gk \in Nat
    <2>1. PICK m \in Nat \ {0} : gk = g * m
      BY <1>2
    <2>2. PICK n \in Nat \ {0} : s * gk = (s * g) * n
      BY <1>2
    <2> DEFINE x == s * g
    <2>3. \A y \in Nat, j \in Nat \ {0} : y <= y * j /\ y * j \in Nat
      <3> TAKE y \in Nat, j \in Nat \ {0}
      <3>1. y * j = y + y * (j - 1) /\ y * (j - 1) \in Nat
        OBVIOUS
      <3> QED BY <3>1
    <2>4. x \in Nat
      BY <1>5
    <2> HIDE DEF x
    <2>5. x <= x * n /\ g <= g * m /\ g * m \in Nat
      BY <1>2, <2>3, <2>4
    <2> QED BY <2>1, <2>2, <2>5 DEF x
  <1>7. LVL_START(l + 1) = s * g - g
    <2>1. (l + 1) - 1 = l
      BY <1>1
    <2>2. (s - 1) * g = s * g - g
      BY <1>2
    <2> QED BY <2>1, <2>2 DEF LVL_START
  <1>8. l = 0 => g = 1
    <2>1. LVL_CLK_SHIFT \in Nat
      BY ConstAssumption
    <2> QED BY <2>1, Powers DEF LVL_GRAN
  <1>9. s * g <= MAX + 1 /\ g <= Reach
    <2> DEFINE x == s * g
               y == s * gk
    <2>1. x <= y /\ y <= MAX + 1 /\ x \in Nat /\ y \in Nat /\ g <= gk /\ gk <= Reach
      BY <1>2, <1>4, <1>5, <1>6
    <2> HIDE DEF x, y
    <2>2. x <= MAX + 1 /\ g <= Reach
      BY <1>2, <1>6, <2>1, WordFacts
    <2> QED BY <2>2 DEF x
  <1> QED BY <1>2, <1>3, <1>5, <1>7, <1>8, <1>9

-----------------------------------------------------------------------------
\* Arithmetic of words

LEMMA MinusIs ==
    ASSUME NEW a \in Times, NEW b \in Times
    PROVE  Minus(a, b) \in Times /\ Minus(a, b) = IF a >= b THEN a - b ELSE a - b + Word
  <1> DEFINE w == Word
             x == a - b
             r == IF a >= b THEN x ELSE x + w
  <1>1. w \in Nat \ {0} /\ a \in 0 .. w - 1 /\ b \in 0 .. w - 1
    BY WordFacts DEF Times
  <1> HIDE DEF w
  <1>2. x \in Int /\ r \in 0 .. w - 1
    BY <1>1
  <1>3. \E k \in Int : x = w * k + r
    <2>1. CASE a >= b
      <3>1. x = w * 0 + r
        BY <1>1, <2>1
      <3> QED BY <3>1
    <2>2. CASE ~(a >= b)
      <3>1. x = w * (-1) + r
        BY <1>1, <2>2
      <3> QED BY <3>1
    <2> QED BY <2>1, <2>2
  <1> HIDE DEF x, r
  <1>4. x % w = r
    BY <1>1, <1>2, <1>3, QuotientIs
  <1>5. Minus(a, b) = x % w /\ Times = 0 .. w - 1
    BY DEF Minus, Times, w, x
  <1> QED BY <1>2, <1>4, <1>5 DEF r, x, w

LEMMA PlusIs ==
    ASSUME NEW a \in Times, NEW b \in 0 .. Word
    PROVE  Plus(a, b) \in Times /\ Plus(a, b) = IF a + b < Word THEN a + b ELSE a + b - Word
  <1> DEFINE w == Word
             x == a + b
             r == IF x < w THEN x ELSE x - w
  <1>1. w \in Nat \ {0} /\ a \in 0 .. w - 1 /\ b \in 0 .. w
    BY WordFacts DEF Times
  <1> HIDE DEF w
  <1>2. x \in Int /\ r \in 0 .. w - 1
    BY <1>1
  <1>3. \E k \in Int : x = w * k + r
    <2>1. CASE x < w
      <3>1. x = w * 0 + r
        BY <1>1, <2>1
      <3> QED BY <3>1
    <2>2. CASE ~(x < w)
      <3>1. x = w * 1 + r
        BY <1>1, <2>2
      <3> QED BY <3>1
    <2> QED BY <2>1, <2>2
  <1> HIDE DEF x, r
  <1>4. x % w = r
    BY <1>1, <1>2, <1>3, QuotientIs
  <1>5. Plus(a, b) = x % w /\ Times = 0 .. w - 1
    BY DEF Plus, Times, w, x
  <1>6. r = IF a + b < Word THEN a + b ELSE a + b - Word
    <2>1. a \in Int /\ b \in Int /\ Word \in Int
      BY <1>1 DEF w
    <2> QED BY <2>1 DEF r, x, w
  <1> QED BY <1>2, <1>4, <1>5, <1>6

\* Adding multiples does not change the remainder.
LEMMA ModShift ==
    ASSUME NEW n \in Nat \ {0}, NEW x \in Int, NEW k \in Int
    PROVE  (x + n * k) % n = x % n /\ (x + n * k) \div n = x \div n + k
  <1> DEFINE q == x \div n
             r == x % n
  <1>1. q \in Int /\ r \in 0 .. n - 1 /\ x = n * q + r
    BY DivMod
  <1> HIDE DEF q, r
  <1>2. x + n * k = n * (q + k) + r /\ q + k \in Int
    BY <1>1
  <1>3. (n * (q + k) + r) \div n = q + k /\ (n * (q + k) + r) % n = r
    BY <1>1, <1>2, QuotientIs
  <1> QED BY <1>2, <1>3 DEF q, r

\* The bucket of a time does not depend on the lap of the word.
LEMMA Unrolled ==
    ASSUME NEW l \in Levels, NEW X \in Int, NEW k \in Int, X % LVL_GRAN(l) = 0
    PROVE  /\ (X + Word * k) % LVL_GRAN(l) = 0
           /\ ((X + Word * k) \div LVL_GRAN(l)) % LVL_SIZE = (X \div LVL_GRAN(l)) % LVL_SIZE
  <1> DEFINE g == LVL_GRAN(l)
             s == LVL_SIZE
             q == X \div g
  <1>1. g \in Nat \ {0} /\ s \in Nat \ {0} /\ \E m \in Nat \ {0} : Word = (s * g) * m
    BY LevelFacts
  <1>2. PICK m \in Nat \ {0} : Word = (s * g) * m
    BY <1>1
  <1>3. q \in Int /\ X = g * q
    <2>1. q \in Int /\ X = g * q + (X % g)
      BY <1>1, DivMod
    <2> HIDE DEF q
    <2> QED BY <1>1, <2>1
  <1>4. X % g = 0
    OBVIOUS
  <1> HIDE DEF g, s
  <1> DEFINE j == s * (m * k)
  <1>5. Word * k = g * j /\ j \in Int
    BY ONLY <1>1, <1>2, k \in Int, m \in Nat \ {0}
  <1>6. (X + g * j) % g = X % g /\ (X + g * j) \div g = q + j
    <2> HIDE DEF j
    <2> QED BY <1>1, <1>5, ModShift
  <1>7. (q + j) % s = q % s
    <2>1. m * k \in Int
      OBVIOUS
    <2> HIDE DEF q
    <2> QED BY <1>1, <1>3, <2>1, ModShift
  <1> QED BY <1>4, <1>5, <1>6, <1>7 DEF g, s

\* The time of a bucket in the lap that begins at c
LEMMA Lap ==
    ASSUME NEW l \in Levels, NEW D \in Times, NEW c \in Times, D % LVL_GRAN(l) = 0
    PROVE  \E q \in Int : /\ c + Minus(D, c) = LVL_GRAN(l) * q
                          /\ q % LVL_SIZE = (D \div LVL_GRAN(l)) % LVL_SIZE
                          /\ (LVL_GRAN(l) * q) % Word = D
  <1> DEFINE g == LVL_GRAN(l)
             X == c + Minus(D, c)
             q == X \div g
  <1>1. g \in Nat \ {0} /\ Word \in Nat \ {0} /\ D \in 0 .. Word - 1 /\ c \in 0 .. Word - 1
    BY LevelFacts, WordFacts DEF Times
  <1>2. PICK k \in {0, 1} : X = D + Word * k
    <2>1. Minus(D, c) = IF D >= c THEN D - c ELSE D - c + Word
      BY MinusIs
    <2>2. CASE D >= c
      <3>1. X = D + Word * 0
        BY <1>1, <2>1, <2>2
      <3> QED BY <3>1
    <2>3. CASE ~(D >= c)
      <3>1. X = D + Word * 1
        BY <1>1, <2>1, <2>3
      <3> QED BY <3>1
    <2> QED BY <2>2, <2>3
  <1>3. X % g = 0 /\ q % LVL_SIZE = (D \div g) % LVL_SIZE
    <2>1. D \in Int /\ k \in Int
      BY <1>1
    <2> HIDE DEF X
    <2> QED BY <1>2, <2>1, Unrolled
  <1>4. X \in Int
    BY <1>1, <1>2
  <1>5. q \in Int /\ X = g * q
    <2> HIDE DEF X, g
    <2>1. q \in Int /\ X = g * q + (X % g)
      BY <1>1, <1>4, DivMod
    <2> HIDE DEF q
    <2> QED BY <1>1, <1>3, <2>1
  <1>6. X % Word = D
    <2>1. D % Word = D
      <3>1. D = Word * 0 + D
        BY <1>1
      <3> QED BY <1>1, <3>1, QuotientIs
    <2>2. (D + Word * k) % Word = D % Word
      BY <1>1, ModShift
    <2> QED BY <1>2, <2>1, <2>2
  <1> HIDE DEF q
  <1>7. (g * q) % Word = D
    BY <1>5, <1>6
  <1> QED BY <1>3, <1>5, <1>7

\* Two indices of a lap
LEMMA SameIndex ==
    ASSUME NEW n \in Nat \ {0}, NEW p \in Int, NEW q \in Int, p % n = q % n, p - q < n, q - p < n
    PROVE  p = q
  <1> DEFINE a == p \div n
             b == q \div n
             r == p % n
  <1>1. a \in Int /\ b \in Int /\ r \in Int /\ p = n * a + r /\ q = n * b + r
    <2>1. p = n * a + (p % n) /\ q = n * b + (q % n) /\ a \in Int /\ b \in Int /\ p % n \in Int
      BY DivMod
    <2> QED BY <2>1
  <1> HIDE DEF a, b, r
  <1>2. ~(a < b)
    <2> SUFFICES ASSUME a < b PROVE FALSE
      OBVIOUS
    <2>1. n * a \in Int /\ n * b \in Int /\ n * a + n <= n * b
      BY <1>1, NextMultiple
    <2> QED BY <1>1, <2>1
  <1>3. ~(b < a)
    <2> SUFFICES ASSUME b < a PROVE FALSE
      OBVIOUS
    <2>1. n * b \in Int /\ n * a \in Int /\ n * b + n <= n * a
      BY <1>1, NextMultiple
    <2> QED BY <1>1, <2>1
  <1> QED BY <1>1, <1>2, <1>3

\* Multiples of g that are less than n * g apart
LEMMA IndexApart ==
    ASSUME NEW g \in Nat \ {0}, NEW n \in Nat, NEW p \in Int, NEW q \in Int, g * p < g * q + n * g
    PROVE  p < q + n
  <1> SUFFICES ASSUME q + n <= p PROVE FALSE
    OBVIOUS
  <1>1. PICK k \in Nat : p = q + n + k
    <2>1. p - (q + n) \in Nat /\ p = q + n + (p - (q + n))
      OBVIOUS
    <2> QED BY <2>1
  <1>2. g * p = g * q + n * g + g * k /\ g * k \in Nat /\ g * q \in Int /\ n * g \in Int
    BY <1>1
  <1> QED BY <1>2

\* A bucket has one time in the lap.
LEMMA SameLap ==
    ASSUME NEW l \in Levels, NEW D \in Times, NEW E \in Times, NEW c \in Times,
           D % LVL_GRAN(l) = 0, E % LVL_GRAN(l) = 0,
           (D \div LVL_GRAN(l)) % LVL_SIZE = (E \div LVL_GRAN(l)) % LVL_SIZE,
           Minus(D, c) < LVL_SIZE * LVL_GRAN(l), Minus(E, c) < LVL_SIZE * LVL_GRAN(l)
    PROVE  D = E
  <1> DEFINE g == LVL_GRAN(l)
             s == LVL_SIZE
  <1>1. g \in Nat \ {0} /\ s \in Nat \ {0}
    BY LevelFacts
  <1>2. PICK p \in Int : c + Minus(D, c) = g * p /\ p % s = (D \div g) % s /\ (g * p) % Word = D
    BY Lap
  <1>3. PICK q \in Int : c + Minus(E, c) = g * q /\ q % s = (E \div g) % s /\ (g * q) % Word = E
    BY Lap
  <1>4. Minus(D, c) \in Nat /\ Minus(E, c) \in Nat /\ c \in Nat
    BY MinusIs, WordFacts
  <1>5. p - q < s /\ q - p < s /\ p % s = q % s
    <2>1. g * p < g * q + s * g /\ g * q < g * p + s * g
      <3>1. g * p \in Int /\ g * q \in Int /\ s * g \in Int
        BY <1>1
      <3>2. Minus(D, c) < s * g /\ Minus(E, c) < s * g
        OBVIOUS
      <3> HIDE DEF g, s
      <3> QED BY <1>2, <1>3, <1>4, <3>1, <3>2
    <2>2. p < q + s /\ q < p + s
      <3> HIDE DEF g, s
      <3> QED BY <1>1, <2>1, IndexApart
    <2> HIDE DEF g, s
    <2>3. (D \div g) % s = (E \div g) % s
      BY DEF g, s
    <2> QED BY <1>1, <1>2, <1>3, <2>2, <2>3
  <1>6. p = q
    <2> HIDE DEF s
    <2> QED BY <1>1, <1>5, SameIndex
  <1> QED BY <1>2, <1>3, <1>6

\* What the forms of a bucket are
LEMMA BucketIs ==
    ASSUME NEW b \in Buckets
    PROVE  b[1] \in Levels /\ b[2] \in 0 .. LVL_SIZE - 1 /\ b = <<b[1], b[2]>>
  BY DEF Buckets

LEMMA IsBucket ==
    ASSUME NEW l \in Levels, NEW n \in Int
    PROVE  <<l, n % LVL_SIZE>> \in Buckets
  <1>1. LVL_SIZE \in Nat \ {0}
    BY LevelFacts
  <1>2. n % LVL_SIZE \in 0 .. LVL_SIZE - 1
    <2> HIDE DEF LVL_SIZE
    <2> QED BY <1>1, DivMod
  <1> QED BY <1>2 DEF Buckets

\* Two timers in one bucket have the same time.
LEMMA Collision ==
    ASSUME NEW b \in Buckets, NEW D \in Times, NEW E \in Times, NEW c \in Times, NEW n, NEW m,
           InLap(D, b, c, n), InLap(E, b, c, m)
    PROVE  D = E
  <1>1. b[1] \in Levels
    BY BucketIs
  <1> QED BY <1>1, SameLap DEF InLap

-----------------------------------------------------------------------------
\* Placement

\* A timer is rounded up to the next time of a level it fits into.
LEMMA CalcIndexIs ==
    ASSUME NEW l \in Levels, NEW e \in Times, NEW c \in Times, Minus(e, c) < LVL_START(l + 1)
    PROVE  LET i == CalcIndex(e, l)
           IN  /\ i.bucket \in Buckets /\ i.bucket[1] = l /\ i.expiry \in Times
               /\ Minus(i.expiry, e) \in 1 .. LVL_GRAN(l)
               /\ i.expiry % LVL_GRAN(l) = 0
               /\ i.bucket[2] = (i.expiry \div LVL_GRAN(l)) % LVL_SIZE
               /\ Minus(i.expiry, c) < LVL_SIZE * LVL_GRAN(l)
  <1> DEFINE i == CalcIndex(e, l)
             g == LVL_GRAN(l)
             s == LVL_SIZE
             w == Word
             n == e \div g + 1
             X == n * g
             D == X % w
  <1>1. /\ g \in Nat \ {0} /\ s \in Nat \ {0} /\ w \in Nat \ {0} /\ e \in 0 .. w - 1
        /\ s * g \in Nat /\ s * g <= MAX + 1 /\ 2 * (MAX + 2) < w /\ g <= Reach /\ 2 * Reach < w /\ MAX \in Nat
        /\ Reach \in Nat
    <2>1. e \in 0 .. w - 1
      BY DEF Times
    <2>2. /\ g \in Nat \ {0} /\ s \in Nat \ {0} /\ s * g \in Nat \ {0} /\ s * g <= MAX + 1 /\ g <= Reach
      BY LevelFacts
    <2> HIDE DEF s, g
    <2>3. /\ MAX \in Nat /\ MaxLag \in Nat \ {0} /\ Reach \in Nat /\ w \in Nat /\ w \div 2 \in Nat
          /\ w = 2 * (w \div 2) /\ w \div 2 = MAX + MaxLag + 2 + Reach
      BY WordFacts
    <2> HIDE DEF w
    <2> QED BY <2>1, <2>2, <2>3
  <1>2. n \in Int /\ X \in Int /\ X - e \in 1 .. g /\ X % g = 0 /\ X \div g = n
    <2> DEFINE q == e \div g
               r == e % g
    <2>1. q \in Int /\ r \in 0 .. g - 1 /\ e = g * q + r
      <3> HIDE DEF g
      <3> QED BY <1>1, DivMod
    <2> HIDE DEF q, r, g
    <2>2. n = q + 1 /\ X = g * q + g /\ g * q \in Int /\ X = g * (q + 1) + 0
      BY <1>1, <2>1 DEF q
    <2>3. X - e = g - r
      BY <1>1, <2>1, <2>2
    <2>4. (g * (q + 1) + 0) \div g = q + 1 /\ (g * (q + 1) + 0) % g = 0
      BY <1>1, <2>1, QuotientIs
    <2> HIDE DEF n, X
    <2> QED BY <1>1, <2>1, <2>2, <2>3, <2>4
  <1>3. i.bucket = <<l, n % s>> /\ i.expiry = D
    BY DEF CalcIndex
  <1>4. D \in Times /\ \E k \in Int : D = X + w * k
    <2> HIDE DEF X, w
    <2>1. D \in 0 .. w - 1 /\ X \div w \in Int /\ X = w * (X \div w) + D
      BY <1>1, <1>2, DivMod
    <2>2. D = X + w * (-(X \div w))
      <3> DEFINE j == X \div w
      <3>1. j \in Int /\ X = w * j + D
        BY <2>1
      <3> HIDE DEF j, D
      <3>2. w * (-j) = -(w * j) /\ w * j \in Int
        BY <1>1, <3>1
      <3>3. D = X + w * (-j)
        BY <1>1, <1>2, <2>1, <3>1, <3>2
      <3> QED BY <3>3 DEF j
    <2>3. -(X \div w) \in Int
      BY <2>1
    <2> QED BY <2>1, <2>2, <2>3 DEF Times, w
  <1>5. D % g = 0 /\ (D \div g) % s = n % s
    <2> HIDE DEF X, D, n, g
    <2>1. PICK k \in Int : D = X + Word * k
      BY <1>4 DEF w
    <2>2. X % LVL_GRAN(l) = 0 /\ X \div LVL_GRAN(l) = n
      BY <1>2 DEF g
    <2> QED BY <1>2, <2>1, <2>2, Unrolled DEF g
  <1>6. Minus(D, e) = X - e
    <2>1. D = IF X < w THEN X ELSE X - w
      <3> DEFINE b == X - e
      <3>1. b \in Nat /\ b <= w /\ e + b = X
        <4> HIDE DEF X, w, g
        <4> QED BY <1>1, <1>2
      <3>2. Plus(e, b) = (e + b) % w
        BY DEF Plus, w
      <3>3. b \in 0 .. Word /\ b \in Int /\ e \in Int
        <4> HIDE DEF b
        <4> QED BY <1>1, <3>1 DEF w
      <3> HIDE DEF b
      <3>4. Plus(e, b) = IF e + b < w THEN e + b ELSE e + b - w
        BY <3>3, PlusIs DEF w
      <3> HIDE DEF X, w
      <3>5. Plus(e, b) = IF X < w THEN X ELSE X - w
        BY <1>1, <1>2, <3>1, <3>3, <3>4
      <3> QED BY <3>1, <3>2, <3>5
    <2>2. Minus(D, e) = IF D >= e THEN D - e ELSE D - e + w
      <3> HIDE DEF D
      <3> QED BY <1>4, MinusIs DEF w
    <2> HIDE DEF D, X, w, g
    <2> QED BY <1>1, <1>2, <2>1, <2>2
  <1>7. Minus(D, c) = Minus(e, c) + (X - e)
    <2> HIDE DEF D, X, g, s, w
    <2>1. Minus(e, c) + g < s * g
      <3>1. Minus(e, c) < s * g - g /\ Minus(e, c) \in Nat
        BY LevelFacts, MinusIs, WordFacts DEF g, s
      <3> QED BY <1>1, <3>1
    <2>2. /\ Minus(D, c) = IF D >= c THEN D - c ELSE D - c + w
          /\ Minus(e, c) = IF e >= c THEN e - c ELSE e - c + w
          /\ Minus(D, e) = IF D >= e THEN D - e ELSE D - e + w
      BY <1>4, MinusIs DEF w
    <2>3. c \in 0 .. w - 1 /\ D \in 0 .. w - 1
      BY <1>4 DEF Times, w
    <2> QED BY <1>1, <1>2, <1>6, <2>1, <2>2, <2>3
  <1>8. Minus(D, c) < s * g
    <2> HIDE DEF D, X, g, s
    <2>1. Minus(e, c) < s * g - g /\ Minus(e, c) \in Nat
      BY LevelFacts, MinusIs, WordFacts DEF g, s
    <2> QED BY <1>1, <1>2, <1>7, <2>1
  <1>9. i.bucket \in Buckets /\ i.bucket[1] = l /\ i.bucket[2] = n % s
    <2> HIDE DEF n, i
    <2> QED BY <1>2, <1>3, IsBucket
  <1> HIDE DEF X, n, g, s, i
  <1>10. Minus(D, e) \in 1 .. g
    BY <1>2, <1>6
  <1> QED BY <1>3, <1>4, <1>5, <1>8, <1>9, <1>10 DEF i, g, s

\* Before and Plus undo each other.
LEMMA MinusPlus ==
    ASSUME NEW a \in Times, NEW n \in 0 .. Word - 1
    PROVE  Minus(Plus(a, n), a) = n
  <1>1. n \in 0 .. Word /\ Word \in Nat /\ a \in 0 .. Word - 1
    BY WordFacts DEF Times
  <1>2. Plus(a, n) \in Times /\ Plus(a, n) = IF a + n < Word THEN a + n ELSE a + n - Word
    BY <1>1, PlusIs
  <1>3. Minus(Plus(a, n), a) = IF Plus(a, n) >= a THEN Plus(a, n) - a ELSE Plus(a, n) - a + Word
    BY <1>2, MinusIs
  <1> QED BY <1>1, <1>2, <1>3

\* The index and the time of a bucket lie in the lap that begins at c.
Placement(i, c) ==
    LET g == LVL_GRAN(i.bucket[1])
    IN  /\ i.bucket \in Buckets /\ i.expiry \in Times
        /\ i.expiry % g = 0 /\ i.bucket[2] = (i.expiry \div g) % LVL_SIZE
        /\ Minus(i.expiry, c) < LVL_SIZE * g

\* A timer is put into a bucket of the lap.  It is rounded up, or in the past, or too far away.
LEMMA WheelIs ==
    ASSUME NEW e \in Times, NEW c \in Times
    PROVE  LET i == WheelIndex(e, c)
           IN  /\ Placement(i, c)
               /\ \/ Minus(i.expiry, e) \in 1 .. LVL_GRAN(i.bucket[1])
                  \/ Before(e, c) /\ i.expiry = c /\ i.bucket[1] = 0
                  \/ Placed(e, c) = "capped"
  <1> DEFINE i == WheelIndex(e, c)
             delta == Minus(e, c)
             fits == {l \in Levels : delta < LVL_START(l + 1)}
             top == LVL_DEPTH - 1
  <1>1. fits \in SUBSET Nat
    BY DEF Levels
  <1>2. CASE fits # {}
    <2> DEFINE l == CHOOSE l \in fits : \A k \in fits : l <= k
    <2>1. l \in fits
      <3> HIDE DEF fits
      <3>1. \E m \in fits : \A k \in fits : m <= k
        BY <1>1, <1>2, Smallest
      <3> QED BY <3>1
    <2>2. i = CalcIndex(e, l)
      BY <1>2 DEF WheelIndex
    <2>3. l \in Levels /\ delta < LVL_START(l + 1)
      <3> HIDE DEF l
      <3> QED BY <2>1
    <2> HIDE DEF l, i
    <2>4. /\ i.bucket \in Buckets /\ i.bucket[1] = l /\ i.expiry \in Times
          /\ Minus(i.expiry, e) \in 1 .. LVL_GRAN(l)
          /\ i.expiry % LVL_GRAN(l) = 0
          /\ i.bucket[2] = (i.expiry \div LVL_GRAN(l)) % LVL_SIZE
          /\ Minus(i.expiry, c) < LVL_SIZE * LVL_GRAN(l)
      BY <2>2, <2>3, CalcIndexIs
    <2> QED BY <2>4 DEF i, Placement
  <1>3. CASE fits = {} /\ Before(e, c)
    <2>1. i = [bucket |-> <<0, c % LVL_SIZE>>, expiry |-> c]
      BY <1>3 DEF WheelIndex
    <2>2. i.bucket = <<0, c % LVL_SIZE>> /\ i.expiry = c
      BY <2>1
    <2>3. 0 \in Levels /\ c \in Int
      BY WordFacts, ConstAssumption DEF Levels
    <2>4. i.bucket \in Buckets /\ i.bucket[1] = 0 /\ i.bucket[2] = c % LVL_SIZE
      <3> HIDE DEF i
      <3> QED BY <2>2, <2>3, IsBucket
    <2>5. LVL_GRAN(0) = 1 /\ LVL_SIZE \in Nat \ {0}
      BY <2>3, LevelFacts
    <2>6. c % 1 = 0 /\ c \div 1 = c /\ LVL_SIZE * 1 = LVL_SIZE
      <3> HIDE DEF i
      <3>1. c = 1 * c + 0 /\ (1 * c + 0) \div 1 = c /\ (1 * c + 0) % 1 = 0
        BY <2>3, QuotientIs
      <3> QED BY <2>5, <3>1
    <2>7. Minus(c, c) = 0
      BY <2>3, MinusIs
    <2> HIDE DEF i, fits
    <2>8. Minus(i.expiry, c) < LVL_SIZE * LVL_GRAN(0)
      BY <2>2, <2>5, <2>6, <2>7
    <2> QED BY <1>3, <2>2, <2>4, <2>5, <2>6, <2>8 DEF i, Placement
  <1>4. CASE fits = {} /\ ~Before(e, c)
    <2> DEFINE a == Plus(c, WHEEL_TIMEOUT_MAX)
    <2>1. i = CalcIndex(a, top)
      BY <1>4 DEF WheelIndex
    <2>2. top \in Levels /\ top + 1 = LVL_DEPTH
      BY ConstAssumption DEF Levels
    <2> DEFINE g == LVL_GRAN(top)
               s == LVL_SIZE
    <2>3. g \in Nat \ {0} /\ s \in Nat \ {0, 1} /\ LVL_START(LVL_DEPTH) = s * g - g /\ s * g <= MAX + 1 /\ s * g \in Nat
      BY <2>2, LevelFacts
    <2>4. WHEEL_TIMEOUT_MAX = s * g - g - g /\ s * g - g - g >= 0
      <3>1. s * g - g - g = (s - 2) * g /\ (s - 2) * g >= 0
        <4> HIDE DEF s, g
        <4>1. s - 2 \in Nat
          BY <2>3
        <4>2. (s - 2) * g = s * g - g - g
          BY <2>3
        <4>3. (s - 2) * g \in Nat
          BY <2>3, <4>1
        <4> QED BY <4>2, <4>3
      <3> QED BY <2>3, <3>1 DEF WHEEL_TIMEOUT_MAX, WHEEL_TIMEOUT_CUTOFF
    <2>5. Placed(e, c) = "capped"
      <3>1. delta \in Nat /\ ~(delta < LVL_START(LVL_DEPTH))
        BY <1>4, <2>2, MinusIs, WordFacts
      <3>2. LVL_START(LVL_DEPTH) \in Int
        <4> HIDE DEF s, g
        <4> QED BY <2>3
      <3>3. delta >= WHEEL_TIMEOUT_CUTOFF
        BY <3>1, <3>2 DEF WHEEL_TIMEOUT_CUTOFF
      <3> QED BY <1>4, <3>3 DEF Placed, AtOrAfter
    <2>6. a \in Times /\ Minus(a, c) < LVL_START(top + 1)
      <3> HIDE DEF g, s
      <3>1. WHEEL_TIMEOUT_MAX \in 0 .. Word - 1 /\ WHEEL_TIMEOUT_MAX \in 0 .. Word
        BY <2>3, <2>4, WordFacts
      <3>2. Minus(a, c) = WHEEL_TIMEOUT_MAX
        BY <3>1, MinusPlus
      <3>3. WHEEL_TIMEOUT_MAX < LVL_START(LVL_DEPTH)
        BY <2>3, <2>4
      <3> QED BY <2>2, <3>1, <3>2, <3>3, PlusIs
    <2> HIDE DEF a, i, g, s
    <2>7. /\ i.bucket \in Buckets /\ i.bucket[1] = top /\ i.expiry \in Times
          /\ i.expiry % LVL_GRAN(top) = 0
          /\ i.bucket[2] = (i.expiry \div LVL_GRAN(top)) % LVL_SIZE
          /\ Minus(i.expiry, c) < LVL_SIZE * LVL_GRAN(top)
      BY <2>1, <2>2, <2>6, CalcIndexIs
    <2> QED BY <2>5, <2>7 DEF i, Placement
  <1> QED BY <1>2, <1>3, <1>4

-----------------------------------------------------------------------------
\* The next timer

\* The clock of a level is the one of the level below, divided and rounded up.
LEMMA LevelClkIs ==
    ASSUME NEW c \in Nat
    PROVE  /\ \A l \in Levels : LevelClk(c)[l] \in Nat
           /\ LevelClk(c)[0] = c
           /\ \A l \in Levels : l # 0 =>
                 LET a == LevelClk(c)[l - 1]
                 IN  LevelClk(c)[l] = a \div LVL_CLK_DIV + (IF a % LVL_CLK_DIV # 0 THEN 1 ELSE 0)
  <1> DEFINE V == LVL_CLK_DIV
             up(a) == a \div V + (IF a % V # 0 THEN 1 ELSE 0)
             h == [a \in Nat |-> up(a)]
             K == LVL_DEPTH - 1
             P(f) == f = [l \in Levels |-> IF l = 0 THEN c ELSE up(f[l - 1])]
             at == LevelClk(c)
  <1>1. V \in Nat \ {0} /\ K \in Nat /\ Levels = 0 .. K
    <2>1. LVL_CLK_SHIFT \in 0 .. W
      <3> DEFINE m == (LVL_DEPTH - 1) * LVL_CLK_SHIFT
      <3>1. m \in Nat
        BY ConstAssumption
      <3>2. LVL_BITS + m < W /\ LVL_BITS \in Nat /\ LVL_CLK_SHIFT \in Nat /\ LVL_CLK_SHIFT < LVL_BITS /\ W \in Nat
        BY ConstAssumption
      <3> HIDE DEF m
      <3> QED BY <3>1, <3>2
    <2>2. V \in Nat \ {0}
      BY <2>1, Powers DEF LVL_CLK_DIV
    <2>3. K \in Nat
      BY ConstAssumption
    <2> QED BY <2>2, <2>3 DEF Levels
  <1>2. \A a \in Nat : up(a) \in Nat
    <2> SUFFICES ASSUME NEW a \in Nat PROVE up(a) \in Nat
      OBVIOUS
    <2> HIDE DEF V
    <2>1. a \div V \in Nat
      <3>1. a \div V \in Int /\ a % V \in 0 .. V - 1 /\ a = V * (a \div V) + (a % V)
        BY <1>1, DivMod
      <3> DEFINE q == a \div V
      <3>2. ~(q < 0)
        <4> HIDE DEF q
        <4> SUFFICES ASSUME q < 0 PROVE FALSE
          OBVIOUS
        <4>1. V * q \in Int /\ V * 0 = 0 /\ V * q + V <= V * 0
          BY <1>1, <3>1, NextMultiple DEF q
        <4> QED BY <1>1, <3>1, <4>1 DEF q
      <3> QED BY <3>1, <3>2
    <2> QED BY <2>1
  <1>3. h \in [Nat -> Nat]
    <2> HIDE DEF up
    <2> QED BY <1>2
  <1>4. PICK f \in [0 .. K -> Nat] : f[0] = c /\ \A n \in 1 .. K : f[n] = h[f[n - 1]]
    <2>1. \E f : Iterated(f, c, h, K, Nat)
      <3> HIDE DEF h, K
      <3> QED BY <1>1, <1>3, Iterates
    <2> HIDE DEF h, K
    <2> QED BY <2>1 DEF Iterated
  <1>5. \A n \in Levels : f[n] = IF n = 0 THEN c ELSE up(f[n - 1])
    <2> TAKE n \in Levels
    <2>1. CASE n = 0
      BY <1>4, <2>1
    <2>2. CASE n # 0
      <3>1. n \in 1 .. K /\ n - 1 \in 0 .. K
        <4> HIDE DEF K
        <4> QED BY <1>1, <2>2
      <3>2. f[n] = h[f[n - 1]] /\ f[n - 1] \in Nat
        <4> HIDE DEF h, K
        <4> QED BY <1>4, <3>1
      <3> HIDE DEF up
      <3> QED BY <2>2, <3>2
    <2> QED BY <2>1, <2>2
  <1>6. P(f)
    <2>1. f = [n \in Levels |-> f[n]]
      <3> HIDE DEF K
      <3> QED BY <1>1
    <2> HIDE DEF up
    <2> QED BY <1>5, <2>1
  <1>7. at = CHOOSE p : P(p)
    BY DEF LevelClk
  <1>8. P(at)
    <2> HIDE DEF P, at
    <2> QED BY <1>6, <1>7
  <1> HIDE DEF at
  <1>9. \A l \in Levels : at[l] = IF l = 0 THEN c ELSE up(at[l - 1])
    <2> HIDE DEF up
    <2> QED BY <1>8
  <1>10. \A l \in Levels : at[l] \in Nat
    <2> DEFINE Ok == {l \in Levels : at[l] \in Nat}
    <2>1. 0 \in Ok
      <3> HIDE DEF K, up
      <3> QED BY <1>1, <1>9
    <2>2. ASSUME NEW l \in 1 .. K, l - 1 \in Ok PROVE l \in Ok
      <3>1. l \in Levels /\ l # 0 /\ at[l - 1] \in Nat
        <4> HIDE DEF K
        <4> QED BY <1>1, <2>2
      <3> HIDE DEF up, K
      <3> QED BY <1>2, <1>9, <3>1
    <2> HIDE DEF Ok, K
    <2>3. 0 .. K \subseteq Ok
      BY <1>1, <2>1, <2>2, UpTo
    <2> QED BY <1>1, <2>3 DEF Ok
  <1>11. 0 \in Levels
    <2> HIDE DEF K
    <2> QED BY <1>1
  <1> HIDE DEF K, P
  <1> QED BY <1>9, <1>10, <1>11 DEF at

\* Dividing and rounding up
LEMMA CeilStep ==
    ASSUME NEW V \in Nat \ {0}, NEW a \in Nat
    PROVE  LET b == a \div V + (IF a % V # 0 THEN 1 ELSE 0)
           IN  /\ b \in Int /\ a <= V * b /\ V * b < a + V
               /\ V * b = a + ((V - (a % V)) % V)
  <1> DEFINE q == a \div V
             r == a % V
             b == q + (IF r # 0 THEN 1 ELSE 0)
  <1>1. q \in Int /\ r \in 0 .. V - 1 /\ a = V * q + r /\ V * q \in Int
    <2>1. q \in Int /\ r \in 0 .. V - 1 /\ a = V * q + r
      BY DivMod
    <2> HIDE DEF q
    <2> QED BY <2>1
  <1> HIDE DEF q, r
  <1> DEFINE C == b \in Int /\ a <= V * b /\ V * b < a + V /\ V * b = a + ((V - r) % V)
  <1> SUFFICES C
    BY DEF q, r
  <1> HIDE DEF b
  <1>2. CASE r = 0
    <2>1. V = V * 1 + 0 /\ (V * 1 + 0) % V = 0
      BY QuotientIs
    <2>2. (V - r) % V = 0
      BY <1>2, <2>1
    <2>3. b = q
      BY <1>1, <1>2 DEF b
    <2> QED BY <1>1, <1>2, <2>2, <2>3
  <1>3. CASE r # 0
    <2>1. V - r \in 0 .. V - 1 /\ V - r = V * 0 + (V - r)
      BY <1>1, <1>3
    <2>2. (V * 0 + (V - r)) % V = V - r
      BY <2>1, QuotientIs
    <2>3. V * (q + 1) = V * q + V
      BY <1>1
    <2>4. (V - r) % V = V - r
      BY <2>1, <2>2
    <2>5. b = q + 1
      BY <1>1, <1>3 DEF b
    <2> QED BY <1>1, <1>3, <2>3, <2>4, <2>5
  <1> QED BY <1>1, <1>2, <1>3

\* The time of the next bucket of a level, and how many of them come before the next one of
\* the level above
NextAt(c, l) == LVL_GRAN(l) * LevelClk(c)[l]
Gap(c, l) == (LVL_CLK_DIV - (LevelClk(c)[l] % LVL_CLK_DIV)) % LVL_CLK_DIV

LEMMA NextAtAbove ==
    ASSUME NEW c \in Nat, NEW l \in Levels, l + 1 \in Levels
    PROVE  /\ NextAt(c, l) \in Nat /\ NextAt(c, l + 1) \in Nat /\ NextAt(c, l) <= NextAt(c, l + 1)
           /\ NextAt(c, l + 1) < NextAt(c, l) + LVL_GRAN(l + 1)
           /\ Gap(c, l) \in Nat /\ NextAt(c, l + 1) = LVL_GRAN(l) * (LevelClk(c)[l] + Gap(c, l))
  <1> DEFINE V == LVL_CLK_DIV
             g == LVL_GRAN(l)
             a == LevelClk(c)[l]
             b == LevelClk(c)[l + 1]
             p == Gap(c, l)
  <1>1. V \in Nat \ {0} /\ LVL_GRAN(l + 1) = g * V /\ g \in Nat \ {0}
    BY NextLevel, LevelFacts
  <1>2. a \in Nat /\ b = a \div V + (IF a % V # 0 THEN 1 ELSE 0) /\ b \in Nat
    <2>1. l + 1 # 0 /\ (l + 1) - 1 = l
      BY DEF Levels
    <2> QED BY <2>1, LevelClkIs
  <1>3. a <= V * b /\ V * b < a + V /\ V * b = a + p
    <2>1. p = (V - (a % V)) % V
      BY DEF Gap
    <2> HIDE DEF V, a, p
    <2> QED BY <1>1, <1>2, <2>1, CeilStep
  <1>4. p \in Nat
    <2> HIDE DEF p, V, a, b
    <2>1. V * b \in Int
      BY <1>1, <1>2
    <2>2. Gap(c, l) \in Int
      <3>1. a % V \in Int
        BY <1>1, <1>2, DivMod
      <3>2. V - (a % V) \in Int
        BY <1>1, <3>1
      <3>3. (V - (a % V)) % V \in Int
        BY <1>1, <3>2, DivMod
      <3> QED BY <3>3 DEF Gap, V, a
    <2> QED BY <1>2, <1>3, <2>1, <2>2 DEF p
  <1>5. NextAt(c, l + 1) = g * (V * b) /\ NextAt(c, l) = g * a
    <2>1. NextAt(c, l + 1) = (g * V) * b /\ NextAt(c, l) = g * a
      BY <1>1 DEF NextAt
    <2> HIDE DEF g, V, b
    <2>2. (g * V) * b = g * (V * b)
      BY <1>1, <1>2
    <2> QED BY <2>1, <2>2
  <1> DEFINE x == V * b
  <1>6. x \in Nat /\ a <= x /\ x < a + V /\ x = a + p
    <2> HIDE DEF V, a, b, p
    <2> QED BY <1>1, <1>2, <1>3
  <1> HIDE DEF V, g, a, b, p, x
  <1>7. g * a \in Nat /\ g * x \in Nat /\ g * x = g * a + g * p /\ g * p \in Nat
    BY <1>1, <1>2, <1>4, <1>6
  <1>8. g * x < g * a + g * V
    <2>1. PICK n \in Nat \ {0} : a + V = x + n
      <3>1. a + V - x \in Nat \ {0} /\ a + V = x + (a + V - x)
        BY <1>1, <1>2, <1>6
      <3> QED BY <3>1
    <2>2. g * (a + V) = g * x + g * n /\ g * (a + V) = g * a + g * V
      BY <1>1, <1>2, <1>6, <2>1
    <2>3. g * n \in Nat \ {0} /\ g * V \in Nat
      BY <1>1, <2>1
    <2> QED BY <1>7, <2>2, <2>3
  <1>9. g * x = g * (a + p)
    BY <1>6
  <1> QED BY <1>1, <1>4, <1>5, <1>7, <1>8, <1>9 DEF x, a, p, g, V

\* The next bucket of each level begins at c or less than a granularity later, and the
\* outer ones not before the inner ones.
LEMMA NextAtIs ==
    ASSUME NEW c \in Nat, NEW l \in Levels
    PROVE  NextAt(c, l) \in Nat /\ c <= NextAt(c, l) /\ NextAt(c, l) < c + LVL_GRAN(l)
  <1> DEFINE K == LVL_DEPTH - 1
             Good(n) == NextAt(c, n) \in Nat /\ c <= NextAt(c, n) /\ NextAt(c, n) < c + LVL_GRAN(n)
             Ok == {n \in Levels : Good(n)}
  <1>1. K \in Nat /\ Levels = 0 .. K
    BY ConstAssumption DEF Levels
  <1>2. 0 \in Ok
    <2>1. 0 \in Levels
      BY <1>1
    <2>2. LVL_GRAN(0) = 1 /\ LevelClk(c)[0] = c
      BY <2>1, LevelFacts, LevelClkIs
    <2>3. NextAt(c, 0) = c
      BY <2>2 DEF NextAt
    <2> QED BY <2>1, <2>2, <2>3
  <1>3. ASSUME NEW n \in 1 .. K, n - 1 \in Ok PROVE n \in Ok
    <2> DEFINE m == n - 1
    <2>1. n \in Levels /\ m \in Levels /\ m + 1 = n
      BY <1>1, <1>3
    <2>2. /\ NextAt(c, m) \in Nat /\ NextAt(c, n) \in Nat /\ NextAt(c, m) <= NextAt(c, n)
          /\ c <= NextAt(c, m)
      <3> HIDE DEF m
      <3> QED BY <1>3, <2>1, NextAtAbove DEF m
    <2>3. NextAt(c, n) < c + LVL_GRAN(n)
      <3> DEFINE g == LVL_GRAN(m)
                 V == LVL_CLK_DIV
                 a == LevelClk(c)[m]
                 p == Gap(c, m)
      <3>1. V \in Nat \ {0} /\ LVL_GRAN(n) = g * V /\ g \in Nat \ {0} /\ a \in Nat /\ p \in Nat
        <4> HIDE DEF m
        <4> QED BY <2>1, NextLevel, LevelFacts, LevelClkIs, NextAtAbove
      <3>2. p \in 0 .. V - 1
        <4>1. a % V \in Int
          <5> HIDE DEF a, V
          <5> QED BY <3>1, DivMod
        <4>2. V - (a % V) \in Int
          <5> HIDE DEF a, V
          <5> QED BY <3>1, <4>1
        <4>3. (V - (a % V)) % V \in 0 .. V - 1
          <5> DEFINE y == V - (a % V)
          <5> HIDE DEF y, V
          <5>1. y % V \in 0 .. V - 1
            BY <3>1, <4>2, DivMod DEF y
          <5> QED BY <5>1 DEF y
        <4> QED BY <4>3 DEF Gap
      <3>3. NextAt(c, m) = g * a /\ g * a < c + g /\ NextAt(c, n) = g * (a + p)
        <4> HIDE DEF m
        <4>1. NextAt(c, m) = g * a
          BY DEF NextAt
        <4>2. NextAt(c, m) < c + g
          BY <1>3 DEF m
        <4>3. NextAt(c, n) = g * (a + p)
          BY <2>1, NextAtAbove
        <4> QED BY <4>1, <4>2, <4>3
      <3> HIDE DEF g, V, a, p
      <3>4. g * (a + p) = g * a + g * p /\ g * a \in Nat
        BY <3>1
      <3>5. g * p \in Int /\ g * V \in Int /\ g * p + g <= g * V
        BY <3>1, <3>2, NextMultiple
      <3> QED BY <3>1, <3>3, <3>4, <3>5
    <2> HIDE DEF m
    <2> QED BY <2>1, <2>2, <2>3
  <1> HIDE DEF Ok, K
  <1>4. l \in Ok
    BY <1>1, <1>2, <1>3, UpTo
  <1> QED BY <1>4 DEF Ok

LEMMA NextAtRises ==
    ASSUME NEW c \in Nat, NEW l \in Levels, NEW k \in Levels, l <= k
    PROVE  NextAt(c, l) <= NextAt(c, k)
  <1> DEFINE K == LVL_DEPTH - 1
             Ok == {n \in Levels : n < l \/ NextAt(c, l) <= NextAt(c, n)}
  <1>1. K \in Nat /\ Levels = 0 .. K
    BY ConstAssumption DEF Levels
  <1>2. NextAt(c, l) \in Nat
    BY NextAtIs
  <1>3. 0 \in Ok
    BY <1>1, <1>2
  <1>4. ASSUME NEW n \in 1 .. K, n - 1 \in Ok PROVE n \in Ok
    <2>1. n \in Levels /\ n - 1 \in Levels /\ (n - 1) + 1 = n
      BY <1>1, <1>4
    <2>2. NextAt(c, n) \in Nat /\ NextAt(c, n - 1) \in Nat /\ NextAt(c, n - 1) <= NextAt(c, n)
      BY <2>1, NextAtAbove
    <2>3. n - 1 < l \/ NextAt(c, l) <= NextAt(c, n - 1)
      BY <1>4
    <2>4. n < l \/ n = l \/ ~(n - 1 < l)
      BY <1>1
    <2> QED BY <1>2, <2>1, <2>2, <2>3, <2>4
  <1> HIDE DEF Ok, K
  <1>5. k \in Ok
    BY <1>1, <1>3, <1>4, UpTo
  <1> QED BY <1>1, <1>2, <1>5, NextAtIs DEF Ok

\* Where the bucket of a time is, as NextPending counts them
LEMMA Slot ==
    ASSUME NEW c \in Times, NEW D \in Times, NEW b \in Buckets, NEW n, InLap(D, b, c, n)
    PROVE  LET x == LevelClk(c)[b[1]]
               g == LVL_GRAN(b[1])
           IN  \E d \in 0 .. LVL_SIZE - 1 :
                  /\ (x + d) % LVL_SIZE = b[2]
                  /\ c + Minus(D, c) = g * (x + d) /\ (g * (x + d)) % Word = D
  <1> DEFINE l == b[1]
             x == LevelClk(c)[l]
             g == LVL_GRAN(l)
             s == LVL_SIZE
  <1>1. l \in Levels /\ g \in Nat \ {0} /\ s \in Nat \ {0}
    BY BucketIs, LevelFacts
  <1>2. c \in Nat /\ Minus(D, c) \in Nat
    BY WordFacts, MinusIs
  <1>3. D % g = 0 /\ b[2] = (D \div g) % s /\ Minus(D, c) < s * g
    BY DEF InLap
  <1>4. PICK q \in Int : c + Minus(D, c) = g * q /\ q % s = (D \div g) % s /\ (g * q) % Word = D
    <2> HIDE DEF l
    <2> QED BY <1>1, <1>3, Lap
  <1>5. x \in Nat /\ g * x \in Nat /\ c <= g * x /\ g * x < c + g
    <2> HIDE DEF l
    <2> QED BY <1>1, <1>2, LevelClkIs, NextAtIs DEF NextAt
  <1> HIDE DEF x, g, s
  <1>6. g * q \in Int /\ s * g \in Int /\ 1 * g = g
    BY <1>1
  <1>7. x < q + 1
    <2>1. g * x < g * q + 1 * g
      BY <1>1, <1>2, <1>4, <1>5, <1>6
    <2> QED BY <1>1, <1>5, <2>1, IndexApart
  <1>8. q < x + s
    <2>1. g * q < g * x + s * g
      BY <1>1, <1>2, <1>3, <1>4, <1>5, <1>6
    <2> QED BY <1>1, <1>5, <2>1, IndexApart
  <1>9. q - x \in 0 .. s - 1 /\ x + (q - x) = q
    BY <1>1, <1>5, <1>7, <1>8
  <1>10. \E d \in 0 .. s - 1 : /\ (x + d) % s = b[2]
                               /\ c + Minus(D, c) = g * (x + d) /\ (g * (x + d)) % Word = D
    BY <1>3, <1>4, <1>9
  <1> QED BY <1>10 DEF x, g, s

\* Two times that are less than half a word ahead of c
LEMMA Compare ==
    ASSUME NEW a \in Times, NEW b \in Times, NEW c \in Times,
           Minus(a, c) < Word \div 2, Minus(b, c) < Word \div 2
    PROVE  AtOrAfter(b, a) <=> Minus(a, c) <= Minus(b, c)
  <1>1. /\ Minus(a, c) = IF a >= c THEN a - c ELSE a - c + Word
        /\ Minus(b, c) = IF b >= c THEN b - c ELSE b - c + Word
        /\ Minus(b, a) = IF b >= a THEN b - a ELSE b - a + Word
    BY MinusIs
  <1>2. Word \in Nat /\ Word = 2 * (Word \div 2) /\ a \in 0 .. Word - 1 /\ b \in 0 .. Word - 1 /\ c \in 0 .. Word - 1
    BY WordFacts DEF Times
  <1> DEFINE h == Word \div 2
             w == Word
             m == Minus(b, a)
  <1>3. h \in Nat
    BY WordFacts
  <1>4. AtOrAfter(b, a) <=> ~(m >= h)
    BY DEF AtOrAfter, Before
  <1> HIDE DEF h, w, m
  <1> QED BY <1>1, <1>2, <1>3, <1>4 DEF h, w, m

LEMMA EarliestIs ==
    ASSUME NEW c \in Times, NEW S \in SUBSET Times, S # {}, \A a \in S : Minus(a, c) <= MAX
    PROVE  Earliest(S) \in S /\ \A a \in S : Minus(Earliest(S), c) <= Minus(a, c)
  <1>1. \A a \in S : Minus(a, c) \in Nat /\ Minus(a, c) < Word \div 2
    <2> TAKE a \in S
    <2>1. Minus(a, c) \in Nat
      BY MinusIs, WordFacts
    <2> QED BY <2>1, WordFacts
  <1>2. \A a \in S, b \in S : AtOrAfter(b, a) <=> Minus(a, c) <= Minus(b, c)
    BY <1>1, Compare
  <1> DEFINE U == {Minus(a, c) : a \in S}
  <1>3. U \in SUBSET Nat /\ U # {}
    BY <1>1
  <1>4. PICK m \in U : \A k \in U : m <= k
    <2> HIDE DEF U
    <2> QED BY <1>3, Smallest
  <1>5. \E a \in S : \A b \in S : AtOrAfter(b, a)
    BY <1>2, <1>4
  <1>6. Earliest(S) \in S /\ \A b \in S : AtOrAfter(b, Earliest(S))
    BY <1>5 DEF Earliest
  <1> QED BY <1>2, <1>6

\* timer_recalc_next_expiry() finds the first timer: R is the time of one that is due
\* before all others, or as far away as can be when there is none.
First(R, S, c) ==
    /\ R \in Times /\ Minus(R, c) <= MAX
    /\ \A t \in S : Minus(R, c) <= Minus(due[t], c)
    /\ IF S = {} THEN R = Plus(c, MAX) ELSE R # Plus(c, MAX) /\ \E t \in S : due[t] = R

LEMMA NextPendingIs ==
    ASSUME NEW c \in Times, NEW map, NEW S, NEW m,
           \A b : b \in map <=> \E t \in S : bucket[t] = b,
           \A t \in S : due[t] \in Times /\ bucket[t] \in Buckets /\ InLap(due[t], bucket[t], c, m)
    PROVE  First(NextPending(map, c), S, c)
  <1> DEFINE at == LevelClk(c)
             Dist(l) == {d \in 0 .. LVL_SIZE - 1 : <<l, (at[l] + d) % LVL_SIZE>> \in map}
             Pos(l) == CHOOSE d \in Dist(l) : \A n \in Dist(l) : d <= n
             Stops(l) == Dist(l) # {} /\ Pos(l) <= (LVL_CLK_DIV - (at[l] % LVL_CLK_DIV)) % LVL_CLK_DIV
             reached == {l \in Levels : \A k \in Levels : k < l => ~Stops(k)}
             val(l) == ((at[l] + Pos(l)) * LVL_GRAN(l)) % Word
             found == {val(l) : l \in {k \in reached : Dist(k) # {}}}
             all == found \cup {Plus(c, TIMER_NEXT_MAX_DELTA)}
             R == Earliest(all)
             u(x) == Minus(x, c)
             \* timer t is at distance d on level l
             Is(t, l, d) ==
                /\ bucket[t][1] = l /\ c + u(due[t]) = LVL_GRAN(l) * (at[l] + d)
                /\ (LVL_GRAN(l) * (at[l] + d)) % Word = due[t]
  <1>0. c \in Nat /\ MAX \in 0 .. Word - 1 /\ MAX \in 0 .. Word /\ LVL_SIZE \in Nat \ {0} /\ MAX < Word \div 2
    <2>1. 0 \in Levels
      BY ConstAssumption DEF Levels
    <2> QED BY <2>1, WordFacts, LevelFacts
  <1>1. ASSUME NEW t \in S
        PROVE  bucket[t][1] \in Levels /\ \E d \in Dist(bucket[t][1]) : Is(t, bucket[t][1], d)
    <2> DEFINE l == bucket[t][1]
    <2>1. due[t] \in Times /\ bucket[t] \in Buckets /\ InLap(due[t], bucket[t], c, m)
      OBVIOUS
    <2>2. PICK d \in 0 .. LVL_SIZE - 1 :
              /\ (at[l] + d) % LVL_SIZE = bucket[t][2]
              /\ c + u(due[t]) = LVL_GRAN(l) * (at[l] + d) /\ (LVL_GRAN(l) * (at[l] + d)) % Word = due[t]
      BY <2>1, Slot
    <2>3. l \in Levels /\ bucket[t] = <<l, bucket[t][2]>>
      BY <2>1, BucketIs
    <2>4. <<l, (at[l] + d) % LVL_SIZE>> \in map
      <3>1. <<l, (at[l] + d) % LVL_SIZE>> = bucket[t]
        BY <2>2, <2>3
      <3> HIDE DEF at, l
      <3> QED BY <3>1
    <2>5. d \in Dist(l)
      BY <2>4
    <2> HIDE DEF Dist
    <2> QED BY <2>2, <2>3, <2>5
  <1>2. ASSUME NEW l \in Levels, NEW d \in Dist(l)
        PROVE  \E t \in S : Is(t, l, d)
    <2> DEFINE b == <<l, (at[l] + d) % LVL_SIZE>>
    <2>1. PICK t \in S : bucket[t] = b
      <3> HIDE DEF at
      <3> QED OBVIOUS
    <2>2. bucket[t][1] = l /\ bucket[t][2] = (at[l] + d) % LVL_SIZE
      BY <2>1
    <2>3. due[t] \in Times /\ bucket[t] \in Buckets /\ InLap(due[t], bucket[t], c, m)
      OBVIOUS
    <2>4. PICK e \in 0 .. LVL_SIZE - 1 :
              /\ (at[l] + e) % LVL_SIZE = bucket[t][2]
              /\ c + u(due[t]) = LVL_GRAN(l) * (at[l] + e) /\ (LVL_GRAN(l) * (at[l] + e)) % Word = due[t]
      BY <2>2, <2>3, Slot
    <2>5. at[l] \in Nat
      BY <1>0, LevelClkIs
    <2>6. d \in 0 .. LVL_SIZE - 1
      OBVIOUS
    <2> HIDE DEF at, Dist, b
    <2>7. at[l] + d = at[l] + e
      <3> DEFINE p == at[l] + d
                 q == at[l] + e
                 s == LVL_SIZE
      <3>1. p \in Int /\ q \in Int /\ p - q < s /\ q - p < s /\ s \in Nat \ {0}
        <4> HIDE DEF s
        <4>1. d \in 0 .. s - 1 /\ e \in 0 .. s - 1 /\ s \in Nat \ {0}
          BY <1>0, <2>6 DEF s
        <4> QED BY <2>5, <4>1
      <3>2. p % s = q % s
        BY <2>2, <2>4
      <3> HIDE DEF p, q, s
      <3>3. p = q
        BY <3>1, <3>2, SameIndex
      <3> QED BY <3>3 DEF p, q
    <2> QED BY <2>2, <2>4, <2>7
  <1> HIDE DEF at
  <1>3. ASSUME NEW l \in Levels, Dist(l) # {}
        PROVE  Pos(l) \in Dist(l) /\ Pos(l) \in Nat /\ \A n \in Dist(l) : Pos(l) <= n
    <2>1. Dist(l) \in SUBSET Nat
      OBVIOUS
    <2> HIDE DEF Dist
    <2>2. \E d \in Dist(l) : \A n \in Dist(l) : d <= n
      BY <1>3, <2>1, Smallest
    <2>3. Pos(l) \in Dist(l) /\ \A n \in Dist(l) : Pos(l) <= n
      BY <2>2
    <2> QED BY <2>1, <2>3
  <1> HIDE DEF Dist, Pos
  <1>4. ASSUME NEW l \in Levels, Dist(l) # {}
        PROVE  \E t \in S : Is(t, l, Pos(l)) /\ due[t] = val(l)
    <2>1. PICK t \in S : Is(t, l, Pos(l))
      <3> HIDE DEF Is
      <3> QED BY <1>2, <1>3, <1>4
    <2>2. LVL_GRAN(l) * (at[l] + Pos(l)) = (at[l] + Pos(l)) * LVL_GRAN(l)
      <3>1. LVL_GRAN(l) \in Nat /\ at[l] \in Nat /\ Pos(l) \in Nat
        BY <1>0, <1>3, <1>4, LevelFacts, LevelClkIs DEF at
      <3> QED BY <3>1
    <2>3. due[t] = val(l)
      BY <2>1, <2>2
    <2> QED BY <2>1, <2>3
  <1> HIDE DEF Is, val
  <1>5. \A t \in S : u(due[t]) \in Nat /\ u(due[t]) < MAX /\ due[t] \in Times
    <2> TAKE t \in S
    <2>1. due[t] \in Times /\ InLap(due[t], bucket[t], c, m)
      OBVIOUS
    <2>2. u(due[t]) \in Nat
      BY <2>1, MinusIs, WordFacts
    <2> QED BY <2>1, <2>2 DEF InLap
  <1>6. \A a \in found : \E t \in S : due[t] = a
    <2> TAKE a \in found
    <2>1. PICK l \in Levels : Dist(l) # {} /\ a = val(l)
      OBVIOUS
    <2> QED BY <1>4, <2>1
  <1>7. Plus(c, MAX) \in Times /\ u(Plus(c, MAX)) = MAX /\ MAX \in Nat
    BY <1>0, PlusIs, MinusPlus, WordFacts
  <1>8. all \in SUBSET Times /\ all # {} /\ \A a \in all : u(a) <= MAX
    <2>1. \A a \in found : a \in Times /\ u(a) <= MAX
      <3> HIDE DEF found
      <3> QED BY <1>5, <1>6, <1>7
    <2>2. all = found \cup {Plus(c, MAX)}
      BY DEF MAX
    <2> HIDE DEF found, all
    <2> QED BY <1>7, <2>1, <2>2
  <1>9. R \in all /\ R \in Times /\ u(R) <= MAX /\ \A a \in all : u(R) <= u(a)
    <2> HIDE DEF all
    <2> QED BY <1>8, EarliestIs
  <1>10. ASSUME NEW t \in S PROVE u(R) <= u(due[t])
    <2> DEFINE k == bucket[t][1]
    <2>1. k \in Levels
      BY <1>1
    <2>2. PICK d \in Dist(k) : Is(t, k, d)
      BY <1>1
    \* A level that is looked at gives a time that is no later.
    <2>3. ASSUME NEW l \in Levels, l \in reached, Dist(l) # {}
          PROVE  \E n \in S : Is(n, l, Pos(l)) /\ u(R) <= u(due[n])
      <3>1. val(l) \in all
        BY <2>3
      <3> HIDE DEF all
      <3>2. PICK n \in S : Is(n, l, Pos(l)) /\ due[n] = val(l)
        BY <1>4, <2>3
      <3> QED BY <1>9, <3>1, <3>2
    <2> DEFINE g(l) == LVL_GRAN(l)
    <2>4. \A l \in Levels : g(l) \in Nat \ {0} /\ at[l] \in Nat
      BY <1>0, LevelFacts, LevelClkIs DEF at
    <2>5. u(R) \in Nat /\ u(due[t]) \in Nat
      BY <1>5, <1>9, MinusIs, WordFacts
    <2>6. CASE k \in reached
      <3>1. Dist(k) # {}
        OBVIOUS
      <3>2. PICK n \in S : Is(n, k, Pos(k)) /\ u(R) <= u(due[n])
        BY <2>1, <2>3, <2>6, <3>1
      <3>3. Pos(k) \in Nat /\ Pos(k) <= d /\ d \in Nat
        <4>1. d \in Nat
          BY DEF Dist
        <4> QED BY <1>3, <2>1, <3>1, <4>1
      <3>4. c + u(due[n]) = g(k) * (at[k] + Pos(k)) /\ c + u(due[t]) = g(k) * (at[k] + d)
        BY <2>2, <3>2 DEF Is
      <3> DEFINE x == at[k]
                 p == Pos(k)
                 h == g(k)
      <3>5. h \in Nat \ {0} /\ x \in Nat
        BY <2>1, <2>4
      <3>6. h * (x + p) <= h * (x + d)
        <4> HIDE DEF h, x, p
        <4>1. PICK j \in Nat : d = p + j
          <5>1. d - p \in Nat /\ d = p + (d - p)
            BY <3>3 DEF p
          <5> QED BY <5>1
        <4>2. p \in Nat
          BY <3>3 DEF p
        <4>3. h * (x + d) = h * (x + p) + h * j /\ h * j \in Nat /\ h * (x + p) \in Nat
          BY <3>5, <4>1, <4>2
        <4> QED BY <4>3
      <3>7. u(due[n]) \in Nat
        BY <1>5
      <3>8. h * (x + p) \in Nat /\ h * (x + d) \in Nat
        <4> HIDE DEF h, x, p
        <4>1. p \in Nat
          BY <3>3 DEF p
        <4> QED BY <3>3, <3>5, <4>1
      <3> HIDE DEF x, p, h, u, R, k
      <3> QED BY <1>0, <2>5, <3>2, <3>4, <3>6, <3>7, <3>8 DEF x, p, h
    <2>7. CASE k \notin reached
      <3> DEFINE Below == {l \in Levels : l < k /\ Stops(l)}
      <3>1. Below # {} /\ Below \in SUBSET Nat
        <4>1. \E l \in Levels : l < k /\ Stops(l)
          <5> HIDE DEF Stops
          <5> QED BY <2>1, <2>7
        <4> QED BY <4>1 DEF Levels
      <3>2. PICK l \in Below : \A n \in Below : l <= n
        <4> HIDE DEF Below
        <4> QED BY <3>1, Smallest
      <3>3. l \in Levels /\ l < k /\ Stops(l) /\ l \in reached
        <4>1. l \in Levels /\ l < k /\ Stops(l)
          OBVIOUS
        <4>2. ASSUME NEW n \in Levels, n < l, Stops(n) PROVE FALSE
          <5>1. n < k
            BY <2>1, <4>1, <4>2 DEF Levels
          <5>2. n \in Below
            <6> HIDE DEF Stops
            <6> QED BY <4>2, <5>1
          <5> QED BY <3>2, <4>1, <4>2, <5>2 DEF Levels
        <4> HIDE DEF Stops
        <4> QED BY <4>1, <4>2
      <3>4. Dist(l) # {} /\ Pos(l) <= Gap(c, l)
        BY <3>3 DEF Gap, at
      <3>5. PICK n \in S : Is(n, l, Pos(l)) /\ u(R) <= u(due[n])
        BY <2>3, <3>3, <3>4
      <3>6. l + 1 \in Levels /\ l + 1 <= k
        <4>1. l \in Levels /\ l < k /\ k \in Levels /\ LVL_DEPTH \in Nat
          BY <2>1, <3>3, ConstAssumption
        <4> HIDE DEF k
        <4> QED BY <4>1 DEF Levels
      <3>7. /\ NextAt(c, l + 1) \in Nat /\ NextAt(c, l + 1) = g(l) * (at[l] + Gap(c, l))
            /\ Gap(c, l) \in Nat
        BY <1>0, <3>3, <3>6, NextAtAbove DEF at
      <3>8. NextAt(c, l + 1) <= NextAt(c, k) /\ NextAt(c, k) \in Nat /\ NextAt(c, k) = g(k) * at[k]
        BY <1>0, <2>1, <3>6, NextAtRises, NextAtIs DEF NextAt, at
      <3>9. c + u(due[n]) = g(l) * (at[l] + Pos(l)) /\ c + u(due[t]) = g(k) * (at[k] + d)
        BY <2>2, <3>5 DEF Is
      <3>10. u(due[n]) \in Nat
        BY <1>5
      <3> DEFINE x == at[l]
                 y == at[k]
                 p == Pos(l)
                 q == Gap(c, l)
                 h == g(l)
                 j == g(k)
      <3>11. h \in Nat \ {0} /\ x \in Nat /\ j \in Nat \ {0} /\ y \in Nat /\ p \in Nat /\ p <= q /\ q \in Nat /\ d \in Nat
        <4>1. d \in Nat
          BY DEF Dist
        <4> QED BY <1>3, <2>1, <2>4, <3>3, <3>4, <3>7, <4>1
      <3>12. c + u(due[n]) = h * (x + p) /\ c + u(due[t]) = j * (y + d) /\ h * (x + q) <= j * y
        BY <3>7, <3>8, <3>9
      <3> HIDE DEF x, y, p, q, h, j, u, R, k
      <3>13. h * (x + p) <= h * (x + q) /\ h * (x + p) \in Nat /\ h * (x + q) \in Nat
        <4>1. PICK i \in Nat : q = p + i
          <5>1. q - p \in Nat /\ q = p + (q - p)
            BY <3>11
          <5> QED BY <5>1
        <4>2. h * (x + q) = h * (x + p) + h * i /\ h * i \in Nat /\ h * (x + p) \in Nat
          BY <3>11, <4>1
        <4> QED BY <4>2
      <3>14. j * y <= j * (y + d) /\ j * y \in Nat /\ j * (y + d) \in Nat
        <4>1. j * (y + d) = j * y + j * d /\ j * d \in Nat /\ j * y \in Nat
          BY <3>11
        <4> QED BY <4>1
      <3> QED BY <1>0, <2>5, <3>5, <3>10, <3>12, <3>13, <3>14
    <2> QED BY <2>6, <2>7
  <1>11. IF S = {} THEN R = Plus(c, MAX) ELSE R # Plus(c, MAX) /\ \E t \in S : due[t] = R
    <2>1. CASE S = {}
      <3>1. found = {}
        <4> HIDE DEF found
        <4> QED BY <1>6, <2>1
      <3>2. all = {Plus(c, MAX)}
        <4> HIDE DEF found
        <4> QED BY <3>1 DEF MAX
      <3> HIDE DEF all
      <3> QED BY <1>9, <2>1, <3>2
    <2>2. CASE S # {}
      <3>1. PICK t \in S : TRUE
        BY <2>2
      <3>2. u(R) < MAX
        <4>1. u(R) <= u(due[t]) /\ u(due[t]) < MAX /\ u(due[t]) \in Nat /\ u(R) \in Nat
          <5>1. u(R) <= u(due[t])
            BY <1>10
          <5>2. u(due[t]) < MAX /\ u(due[t]) \in Nat
            BY <1>5
          <5>3. u(R) \in Nat
            <6> HIDE DEF R
            <6> QED BY <1>9, MinusIs, WordFacts
          <5> QED BY <5>1, <5>2, <5>3
        <4> HIDE DEF u, R
        <4> QED BY <1>7, <4>1
      <3>3. R # Plus(c, MAX)
        <4> SUFFICES ASSUME R = Plus(c, MAX) PROVE FALSE
          OBVIOUS
        <4>1. u(R) = MAX
          <5> HIDE DEF R
          <5> QED BY <1>7
        <4> HIDE DEF u, R
        <4> QED BY <1>7, <3>2, <4>1
      <3>4. R \in found
        <4>1. all = found \cup {Plus(c, MAX)}
          BY DEF MAX
        <4> HIDE DEF found, all, R
        <4> QED BY <1>9, <3>3, <4>1
      <3> HIDE DEF found, R
      <3> QED BY <1>6, <2>2, <3>3, <3>4
    <2> QED BY <2>1, <2>2
  <1>12. NextPending(map, c) = R
    BY DEF NextPending, Dist, Pos, at, val
  <1> HIDE DEF R
  <1> QED BY <1>9, <1>10, <1>11, <1>12 DEF First

-----------------------------------------------------------------------------
\* Distances

LEMMA Sum ==
    ASSUME NEW a \in Times, NEW b \in Times, NEW c \in Times
    PROVE  /\ Minus(a, b) + Minus(b, c) < Word => Minus(a, c) = Minus(a, b) + Minus(b, c)
           /\ Minus(b, c) <= Minus(a, c) => Minus(a, b) = Minus(a, c) - Minus(b, c)
           /\ Minus(a, b) # 0 => Minus(b, a) = Word - Minus(a, b)
           /\ Minus(a, b) = 0 <=> a = b
  <1> DEFINE w == Word
  <1>1. w \in Nat /\ a \in 0 .. w - 1 /\ b \in 0 .. w - 1 /\ c \in 0 .. w - 1
    BY WordFacts DEF Times
  <1>2. /\ Minus(a, b) = IF a >= b THEN a - b ELSE a - b + w
        /\ Minus(b, c) = IF b >= c THEN b - c ELSE b - c + w
        /\ Minus(a, c) = IF a >= c THEN a - c ELSE a - c + w
        /\ Minus(b, a) = IF b >= a THEN b - a ELSE b - a + w
    BY MinusIs
  <1> HIDE DEF w
  <1> QED BY <1>1, <1>2 DEF w

LEMMA MinusNat ==
    ASSUME NEW a \in Times, NEW b \in Times
    PROVE  Minus(a, b) \in Nat /\ Minus(a, b) \in 0 .. Word - 1 /\ Minus(a, a) = 0
  <1>1. Minus(a, b) \in Times /\ Minus(a, a) = 0
    BY MinusIs, WordFacts
  <1> QED BY <1>1, WordFacts DEF Times

LEMMA NextTick ==
    ASSUME NEW a \in Times
    PROVE  Plus(a, 1) \in Times /\ Minus(Plus(a, 1), a) = 1
  <1>1. 1 \in 0 .. Word - 1 /\ 1 \in 0 .. Word
    BY WordFacts
  <1> QED BY <1>1, PlusIs, MinusPlus

\* The ordering of the time comparisons
LEMMA Order ==
    ASSUME NEW a \in Times, NEW b \in Times
    PROVE  /\ Before(a, b) <=> Minus(b, a) \in 1 .. Word \div 2
           /\ AtOrAfter(a, b) <=> Minus(a, b) < Word \div 2
  <1> DEFINE h == Word \div 2
             w == Word
             m == Minus(a, b)
             n == Minus(b, a)
  <1>1. Before(a, b) <=> m >= h
    BY DEF Before
  <1>2. w = 2 * h /\ h \in Nat \ {0} /\ m \in 0 .. w - 1 /\ n \in 0 .. w - 1
    <2>1. m \in Times /\ n \in Times
      BY MinusIs
    <2> QED BY <2>1, WordFacts DEF Times
  <1>3. (m # 0 => n = w - m) /\ (n # 0 => m = w - n)
    BY Sum
  <1> HIDE DEF h, w, m, n
  <1>4. m >= h <=> n \in 1 .. h
    BY <1>2, <1>3
  <1>5. AtOrAfter(a, b) <=> m < h
    BY <1>1, <1>2 DEF AtOrAfter
  <1> QED BY <1>1, <1>4, <1>5 DEF h, m, n

\* Forwarding moves the clock to jiffies at most, and not past the next expiry.
LEMMA ForwardedIs ==
    ASSUME NEW j \in Times, NEW n \in Times, clk \in Times,
           Minus(n, clk) <= MAX, Minus(Plus(j, 1), clk) <= Minus(n, clk) + MaxLag + 1
    PROVE  LET c == Forwarded(j, n)
           IN  /\ c \in Times /\ Minus(c, clk) <= Minus(n, clk)
               /\ Minus(n, c) = Minus(n, clk) - Minus(c, clk)
               /\ Minus(Plus(j, 1), c) <= Minus(n, c) + MaxLag + 1
               /\ Minus(Plus(j, 1), c) <= 1 \/ c = n
  <1> DEFINE w == Word
             h == w \div 2
             k == Plus(j, 1)
             c == Forwarded(j, n)
             N == Minus(n, clk)
             K == Minus(k, clk)
  <1>1. /\ w \in Nat /\ h \in Nat /\ w = 2 * h /\ h > MAX + MaxLag + 2 /\ MAX \in Nat /\ MaxLag \in Nat
        /\ j \in 0 .. w - 1 /\ n \in 0 .. w - 1 /\ clk \in 0 .. w - 1
    BY WordFacts DEF Times
  <1>2. k \in Times /\ k \in 0 .. w - 1 /\ k = IF j + 1 < w THEN j + 1 ELSE j + 1 - w
    <2>1. 1 \in 0 .. w
      BY <1>1
    <2> QED BY <2>1, PlusIs DEF Times
  <1>3. /\ N = IF n >= clk THEN n - clk ELSE n - clk + w
        /\ K = IF k >= clk THEN k - clk ELSE k - clk + w
        /\ N <= MAX /\ K <= N + MaxLag + 1
    BY <1>2, MinusIs
  <1>4. c = IF AtOrAfter(clk, j) THEN clk ELSE IF Before(j, n) THEN j ELSE IF Before(n, clk) THEN clk ELSE n
    BY DEF Forwarded
  <1>5. /\ AtOrAfter(clk, j) <=> Minus(clk, j) < h
        /\ Before(j, n) <=> Minus(n, j) \in 1 .. h
        /\ Before(n, clk) <=> Minus(clk, n) \in 1 .. h
    BY Order
  <1>6. /\ Minus(clk, j) = IF clk >= j THEN clk - j ELSE clk - j + w
        /\ Minus(n, j) = IF n >= j THEN n - j ELSE n - j + w
        /\ Minus(clk, n) = IF clk >= n THEN clk - n ELSE clk - n + w
    BY MinusIs
  <1>7. c \in Times
    BY <1>4
  <1>8. /\ Minus(c, clk) = IF c >= clk THEN c - clk ELSE c - clk + w
        /\ Minus(n, c) = IF n >= c THEN n - c ELSE n - c + w
        /\ Minus(k, c) = IF k >= c THEN k - c ELSE k - c + w
    BY <1>2, <1>7, MinusIs
  <1> HIDE DEF w, h, k, c, N, K
  <1>9. CASE AtOrAfter(clk, j)
    <2>1. c = clk
      BY <1>4, <1>9
    <2>2. K <= 1
      BY <1>1, <1>2, <1>3, <1>5, <1>6, <1>9
    <2> QED BY <1>1, <1>3, <1>7, <1>8, <2>1, <2>2 DEF N, K, c, k
  <1>10. CASE ~AtOrAfter(clk, j) /\ Before(j, n)
    <2>1. c = j
      BY <1>4, <1>10
    <2>2. Minus(j, clk) = IF j >= clk THEN j - clk ELSE j - clk + w
      BY MinusIs DEF w
    <2>3. Minus(j, clk) <= N /\ Minus(n, j) = N - Minus(j, clk) /\ Minus(k, j) = 1
      BY <1>1, <1>2, <1>3, <1>5, <1>6, <1>8, <1>10, <2>1, <2>2
    <2> QED BY <1>1, <1>3, <1>7, <1>8, <2>1, <2>3 DEF N, K, c, k
  <1>11. CASE ~AtOrAfter(clk, j) /\ ~Before(j, n)
    <2>1. ~Before(n, clk)
      BY <1>1, <1>3, <1>5, <1>6
    <2>2. c = n
      BY <1>4, <1>11, <2>1
    <2>3. Minus(n, n) = 0
      BY <1>1, <1>8, <2>2
    <2>4. Minus(k, n) <= MaxLag + 1
      BY <1>1, <1>2, <1>3, <1>5, <1>6, <1>8, <1>11, <2>2
    <2> QED BY <1>1, <1>3, <1>7, <1>8, <2>2, <2>3, <2>4 DEF N, K, c, k
  <1> QED BY <1>9, <1>10, <1>11

-----------------------------------------------------------------------------
\* What the invariant says of the next step

LEMMA InLapShift ==
    ASSUME NEW D \in Times, NEW b \in Buckets, NEW c \in Times, NEW n \in Times, NEW d \in Times, NEW m \in Times,
           InLap(D, b, c, n), Minus(d, c) <= Minus(D, c), Minus(m, d) <= Minus(D, d)
    PROVE  InLap(D, b, d, m)
  <1> DEFINE g == LVL_SIZE * LVL_GRAN(b[1])
  <1>1. Minus(D, d) = Minus(D, c) - Minus(d, c) /\ Minus(d, c) \in Nat /\ Minus(D, c) \in Nat
    BY Sum, MinusNat
  <1>2. Minus(D, c) < g /\ Minus(D, c) < MAX
    BY DEF InLap
  <1>3. Minus(D, d) <= Minus(D, c)
    BY <1>1
  <1>4. Minus(D, d) < MAX
    BY <1>1, <1>2, WordFacts
  <1>5. Minus(D, d) < g
    <2>1. g \in Nat
      BY LevelFacts, BucketIs
    <2> HIDE DEF g
    <2> QED BY <1>1, <1>2, <2>1
  <1> QED BY <1>4, <1>5 DEF InLap

\* The clock may be forwarded to c.
Forwards(c) ==
    /\ c \in Times /\ Minus(c, clk) <= Minus(next_expiry, clk)
    /\ Minus(next_expiry, c) = Minus(next_expiry, clk) - Minus(c, clk)
    /\ Minus(Plus(jiffies, 1), c) <= Minus(next_expiry, c) + MaxLag + 1
    /\ Minus(Plus(jiffies, 1), c) <= 1 \/ c = next_expiry

LEMMA ClkIs == ASSUME IInv PROVE Forwards(Clk)
  BY ForwardedIs DEF Forwards, Clk, IInv, TypeOK, ClockInv

\* Forwarding leaves every timer in the lap of its bucket, and the collected ones where they were.
LEMMA QueueForward ==
    ASSUME IInv, NEW c, Forwards(c), NEW t \in Vectors, NEW n \in Times, Minus(n, c) <= Minus(next_expiry, c)
    PROVE  InLap(due[t], bucket[t], c, n) /\ timers_pending
  <1>1. /\ due[t] \in Times /\ clk \in Times /\ next_expiry \in Times /\ c \in Times
        /\ InLap(due[t], bucket[t], clk, next_expiry) /\ timers_pending
    BY DEF IInv, TypeOK, QueueInv, Vectors, Forwards
  <1>2. Minus(next_expiry, clk) <= Minus(due[t], clk) /\ Minus(c, clk) <= Minus(next_expiry, clk)
        /\ Minus(next_expiry, c) = Minus(next_expiry, clk) - Minus(c, clk)
    BY <1>1 DEF InLap, Forwards
  <1>3. Minus(due[t], c) = Minus(due[t], clk) - Minus(c, clk) /\ Minus(c, clk) <= Minus(due[t], clk)
    <2>1. Minus(c, clk) \in Nat /\ Minus(next_expiry, clk) \in Nat /\ Minus(due[t], clk) \in Nat
      BY <1>1, MinusNat, WordFacts
    <2>2. Minus(c, clk) <= Minus(due[t], clk)
      BY <1>2, <2>1
    <2> QED BY <1>1, <2>2, Sum
  <1>4. Minus(n, c) <= Minus(due[t], c)
    <2>1. Minus(c, clk) \in Nat /\ Minus(next_expiry, clk) \in Nat /\ Minus(due[t], clk) \in Nat /\ Minus(n, c) \in Nat
      BY <1>1, MinusNat, WordFacts
    <2> QED BY <1>2, <1>3, <2>1
  <1> QED BY <1>1, <1>3, <1>4, InLapShift DEF IInv, TypeOK, Vectors

LEMMA HeadsForward ==
    ASSUME IInv, NEW c, Forwards(c), NEW t \in Collected, NEW n \in Times, Minus(n, c) <= Minus(next_expiry, c)
    PROVE  run /\ Minus(c, due[t]) >= 1 /\ Minus(c, due[t]) + Minus(n, c) <= MAX + 1
  <1>1. /\ due[t] \in Times /\ clk \in Times /\ next_expiry \in Times /\ c \in Times /\ run
        /\ Minus(clk, due[t]) >= 1 /\ Minus(clk, due[t]) + Minus(next_expiry, clk) <= MAX + 1
        /\ Minus(next_expiry, c) = Minus(next_expiry, clk) - Minus(c, clk)
        /\ Minus(c, clk) <= Minus(next_expiry, clk)
    BY DEF IInv, TypeOK, HeadsInv, Collected, Forwards
  <1>2. /\ Minus(clk, due[t]) \in Nat /\ Minus(next_expiry, clk) \in Nat /\ Minus(c, clk) \in Nat /\ Minus(n, c) \in Nat
        /\ MAX \in Nat /\ Word \in Nat /\ Word > MAX + 2
    <2>1. MAX \in Nat /\ Word \in Nat /\ Word > MAX + 2
      BY WordFacts
    <2> QED BY <1>1, <2>1, MinusNat
  <1>3. Minus(c, clk) + Minus(clk, due[t]) < Word
    BY <1>1, <1>2
  <1>4. Minus(c, due[t]) = Minus(c, clk) + Minus(clk, due[t])
    BY <1>1, <1>3, Sum
  <1> QED BY <1>1, <1>2, <1>4

\* The buckets that are left when t is taken from the wheel
Remaining(t) == IF Emptied(t) THEN pending_map \ {bucket[t]} ELSE pending_map

LEMMA MapWithout ==
    ASSUME IInv, NEW t \in Timers
    PROVE  \A b : b \in Remaining(t) <=> \E x \in Vectors \ {t} : bucket[x] = b
  <1> TAKE b
  <1>1. b \in pending_map <=> \E x \in Vectors : bucket[x] = b
    BY DEF IInv, MapInv
  <1>2. Emptied(t) <=> t \in Vectors /\ \A x \in Vectors : bucket[x] = bucket[t] => x = t
    BY DEF Emptied, Vector, Vectors
  <1>3. CASE Emptied(t)
    BY <1>1, <1>2, <1>3 DEF Remaining
  <1>4. CASE ~Emptied(t)
    BY <1>1, <1>2, <1>4 DEF Remaining
  <1> QED BY <1>3, <1>4

\* next_expiry stays the time of a timer when one is taken away that was not alone.
LEMMA FirstWithout ==
    ASSUME IInv, NEW t \in Timers, timers_pending, ~next_expiry_recalc, ~Emptied(t)
    PROVE  \E x \in Vectors \ {t} : due[x] = next_expiry
  <1>1. PICK x \in Vectors : due[x] = next_expiry
    BY DEF IInv, FirstInv
  <1>2. CASE x # t
    BY <1>1, <1>2
  <1>3. CASE x = t
    <2>1. PICK y \in Vectors : y # t /\ bucket[y] = bucket[t]
      BY <1>1, <1>3 DEF Emptied, Vector, Vectors
    <2>2. InLap(due[y], bucket[t], clk, next_expiry) /\ InLap(due[t], bucket[t], clk, next_expiry)
      BY <1>1, <1>3, <2>1 DEF IInv, QueueInv
    <2>3. due[y] \in Times /\ due[t] \in Times /\ bucket[t] \in Buckets /\ clk \in Times
      BY <2>1 DEF IInv, TypeOK, Vectors
    <2>4. due[y] = due[t]
      BY <2>2, <2>3, Collision
    <2> QED BY <1>1, <1>3, <2>1, <2>4
  <1> QED BY <1>2, <1>3

\* A time that is asked for gets a bucket of the lap of the clock, and is rounded up.
LEMMA Asked ==
    ASSUME IInv, WithinDelta, NEW d \in Deltas
    PROVE  LET e == Plus(jiffies, d)
               i == WheelIndex(e, Clk)
           IN  /\ e \in Times /\ Placement(i, Clk) /\ InLap(i.expiry, i.bucket, Clk, Clk)
               /\ ~timers_pending => Before(i.expiry, next_expiry)
               /\ Placed(e, Clk) # "capped" => Rounded(i.expiry, e, i.bucket[1])
  <1> DEFINE e == Plus(jiffies, d)
             c == Clk
             i == WheelIndex(e, c)
             D == i.expiry
             l == i.bucket[1]
  <1>1. d \in Times /\ d \in 0 .. Word /\ (d < Reach \/ Word - d < Reach) /\ jiffies \in Times
    <2>1. d \in Times /\ (d < Reach \/ Word - d < Reach) /\ jiffies \in Times
      BY ConstAssumption DEF IInv, TypeOK
    <2> QED BY <2>1, WordFacts DEF Times
  <1>2. e \in Times /\ c \in Times /\ Forwards(c)
    BY <1>1, PlusIs, ClkIs DEF Forwards
  <1>3. /\ Placement(i, c)
        /\ \/ Minus(D, e) \in 1 .. LVL_GRAN(l)
           \/ Before(e, c) /\ D = c /\ l = 0
           \/ Placed(e, c) = "capped"
    BY <1>2, WheelIs
  <1>4. D # Plus(c, MAX) /\ (~timers_pending => Before(D, next_expiry))
    BY DEF WithinDelta, MAX
  <1> HIDE DEF i, e, c
  <1>5. D \in Times /\ l \in Levels
    BY <1>3, BucketIs DEF Placement
  <1>6. Minus(D, c) < MAX
    <2>1. Minus(D, c) < LVL_SIZE * LVL_GRAN(l) /\ LVL_SIZE * LVL_GRAN(l) <= MAX + 1 /\ LVL_SIZE * LVL_GRAN(l) \in Nat
      BY <1>3, <1>5, LevelFacts DEF Placement
    <2>2. Minus(D, c) \in Nat /\ MAX \in Nat /\ MAX \in 0 .. Word - 1 /\ MAX \in 0 .. Word
      <3>1. MAX \in Nat /\ MAX \in 0 .. Word - 1 /\ MAX \in 0 .. Word
        BY WordFacts
      <3> HIDE DEF D
      <3> QED BY <1>2, <1>5, <3>1, MinusNat
    <2>3. Minus(D, c) <= MAX
      <3> DEFINE x == LVL_SIZE * LVL_GRAN(l)
      <3>1. Minus(D, c) < x /\ x <= MAX + 1 /\ x \in Nat
        BY <2>1
      <3> HIDE DEF x, D
      <3> QED BY <2>2, <3>1
    <2>4. Minus(D, c) # MAX
      <3> SUFFICES ASSUME Minus(D, c) = MAX PROVE FALSE
        OBVIOUS
      <3> DEFINE P == Plus(c, MAX)
      <3>1. P \in Times /\ Minus(P, c) = MAX
        BY <1>2, <2>2, PlusIs, MinusPlus
      <3>2. D = P
        <4>1. Minus(D, P) = Minus(D, c) - Minus(P, c)
          <5>1. Minus(P, c) <= Minus(D, c)
            BY <2>2, <3>1
          <5> HIDE DEF P, D
          <5> QED BY <1>2, <1>5, <3>1, <5>1, Sum
        <4>2. Minus(D, P) = 0
          BY <2>2, <3>1, <4>1
        <4> HIDE DEF P, D
        <4> QED BY <1>5, <3>1, <4>2, Sum
      <3> QED BY <1>4, <3>2
    <2> HIDE DEF D
    <2> QED BY <2>2, <2>3, <2>4
  <1>7. Minus(c, c) = 0 /\ Minus(D, c) \in Nat
    <2> HIDE DEF D
    <2> QED BY <1>2, <1>5, MinusNat
  <1>8. InLap(D, i.bucket, c, c)
    BY <1>3, <1>6, <1>7 DEF Placement, InLap
  <1>9. Placed(e, c) # "capped" => Rounded(D, e, l)
    <2> SUFFICES ASSUME Placed(e, c) # "capped" PROVE Rounded(D, e, l)
      OBVIOUS
    <2>1. CASE Minus(D, e) \in 1 .. LVL_GRAN(l)
      <3>1. LVL_GRAN(l) \in Nat /\ LVL_GRAN(l) <= Reach /\ Reach \in Nat
        BY <1>5, LevelFacts, WordFacts
      <3> HIDE DEF D, l
      <3>2. Minus(D, e) \in 1 .. Reach /\ Minus(D, e) <= LVL_GRAN(l)
        BY <2>1, <3>1
      <3> QED BY <3>2 DEF Rounded
    <2>2. CASE Before(e, c) /\ D = c /\ l = 0
      <3> DEFINE w == Word
                 h == w \div 2
                 k == Plus(jiffies, 1)
      <3>1. /\ w \in Nat /\ h \in Nat /\ w = 2 * h /\ h = MAX + MaxLag + 2 + Reach /\ MAX \in Nat /\ MaxLag \in Nat
            /\ Reach \in Nat \ {0} /\ jiffies \in 0 .. w - 1 /\ c \in 0 .. w - 1 /\ d \in 0 .. w - 1 /\ e \in 0 .. w - 1
        BY <1>1, <1>2, WordFacts DEF Times
      <3>2. k \in Times /\ k = (IF jiffies + 1 < w THEN jiffies + 1 ELSE jiffies + 1 - w) /\ k \in 0 .. w - 1
        <4>1. 1 \in 0 .. w
          BY <3>1
        <4> QED BY <1>1, <4>1, PlusIs DEF Times
      <3>3. e = IF jiffies + d < w THEN jiffies + d ELSE jiffies + d - w
        BY <1>1, PlusIs DEF e
      <3>4. Minus(c, e) \in 1 .. h
        BY <1>2, <2>2, Order
      <3>5. /\ Minus(c, e) = IF c >= e THEN c - e ELSE c - e + w
            /\ Minus(k, c) = IF k >= c THEN k - c ELSE k - c + w
        BY <1>2, <3>2, MinusIs
      <3>6. Minus(k, c) <= MAX + MaxLag + 1
        <4>1. Minus(k, c) <= Minus(next_expiry, c) + MaxLag + 1 /\ Minus(next_expiry, c) <= MAX
          <5>1. /\ Minus(k, c) <= Minus(next_expiry, c) + MaxLag + 1
                /\ Minus(next_expiry, c) = Minus(next_expiry, clk) - Minus(c, clk)
                /\ Minus(next_expiry, clk) <= MAX /\ next_expiry \in Times /\ clk \in Times
            BY <1>2 DEF Forwards, IInv, ClockInv, TypeOK
          <5>2. Minus(next_expiry, clk) \in Nat /\ Minus(c, clk) \in Nat
            BY <1>2, <5>1, MinusNat, WordFacts
          <5> HIDE DEF k
          <5> QED BY <3>1, <5>1, <5>2
        <4>2. Minus(k, c) \in Nat /\ Minus(next_expiry, c) \in Nat
          BY <1>2, <3>2, MinusIs, WordFacts DEF IInv, TypeOK
        <4> HIDE DEF k
        <4> QED BY <3>1, <4>1, <4>2
      <3>7. d < Reach \/ w - d < Reach
        BY <1>1
      <3> HIDE DEF w, h, k, D, l
      <3>8. Minus(c, e) <= Reach
        BY <3>1, <3>2, <3>3, <3>4, <3>5, <3>6, <3>7
      <3>9. Minus(c, e) \in 1 .. Reach
        BY <3>1, <3>4, <3>8
      <3> QED BY <2>2, <3>9 DEF Rounded
    <2> QED BY <1>3, <2>1, <2>2
  <1> QED BY <1>2, <1>3, <1>4, <1>8, <1>9 DEF i, e, c

-----------------------------------------------------------------------------
\* Every step preserves the invariant

LEMMA FirstBucket == <<0, 0>> \in Buckets
  <1>1. 0 \in Levels /\ LVL_SIZE \in Nat \ {0}
    <2>1. 0 \in Levels
      BY ConstAssumption DEF Levels
    <2> QED BY <2>1, LevelFacts
  <1> QED BY <1>1 DEF Buckets

\* Enqueuing a timer
LEMMA RequeueStep ==
    ASSUME IInv, WithinDelta, NEW t \in Timers, NEW d \in Deltas, Requeue(t, Plus(jiffies, d))
    PROVE  IInv'
  <1> DEFINE e == Plus(jiffies, d)
             c == Clk
             i == WheelIndex(e, c)
             D == i.expiry
             first == Before(D, next_expiry)
             n == next_expiry'
  <1>1. /\ e \in Times /\ Placement(i, c) /\ InLap(D, i.bucket, c, c)
        /\ ~timers_pending => first
        /\ Placed(e, c) # "capped" => Rounded(D, e, i.bucket[1])
    BY Asked
  <1>2. Forwards(c) /\ c \in Times /\ D \in Times /\ i.bucket \in Buckets
    BY <1>1, ClkIs DEF Forwards, Placement
  <1>3. TypeOK
    BY DEF IInv
  <1>4. /\ clk' = c
        /\ expires' = [expires EXCEPT ![t] = e]
        /\ bucket' = [bucket EXCEPT ![t] = i.bucket]
        /\ list' = [list EXCEPT ![t] = "vectors"]
        /\ pending_map' = {i.bucket} \cup Remaining(t)
        /\ due' = [due EXCEPT ![t] = D]
        /\ placed' = [placed EXCEPT ![t] = Placed(e, c)]
        /\ UNCHANGED <<jiffies, is_idle, running_timer, run, wakeup>>
    BY DEF Requeue, Enqueue, Remaining
  <1>5. IF first
        THEN next_expiry' = D /\ timers_pending' = TRUE /\ next_expiry_recalc' = FALSE /\ kicked' = (kicked \/ is_idle)
        ELSE /\ next_expiry_recalc' = (next_expiry_recalc \/ Emptied(t))
             /\ UNCHANGED <<next_expiry, timers_pending, kicked>>
    BY DEF Requeue, Enqueue, Kick
  <1> HIDE DEF i, e, c, D
  <1>6. Placed(e, c) \in {"exact", "capped"}
    BY DEF Placed
  <1>7. TypeOK'
    <2>1. next_expiry' \in Times /\ next_expiry_recalc' \in BOOLEAN /\ timers_pending' \in BOOLEAN /\ kicked' \in BOOLEAN
      <3>1. CASE first
        BY <1>2, <1>3, <1>5, <3>1 DEF TypeOK
      <3>2. CASE ~first
        BY <1>2, <1>3, <1>5, <3>2 DEF TypeOK, Emptied
      <3> QED BY <3>1, <3>2
    <2> QED BY <1>1, <1>2, <1>3, <1>4, <1>6, <2>1 DEF TypeOK
  <1>8. n \in Times /\ Minus(n, c) <= Minus(next_expiry, c) /\ Minus(n, c) <= Minus(D, c)
    <2>1. next_expiry \in Times /\ Minus(next_expiry, c) <= MAX /\ Minus(D, c) < MAX
      <3>1. Minus(next_expiry, c) = Minus(next_expiry, clk) - Minus(c, clk) /\ Minus(next_expiry, clk) <= MAX
        BY <1>2 DEF Forwards, IInv, ClockInv
      <3>2. Minus(next_expiry, clk) \in Nat /\ Minus(c, clk) \in Nat /\ next_expiry \in Times
        BY <1>2, <1>3, MinusNat DEF TypeOK
      <3> QED BY <1>1, <3>1, <3>2, WordFacts DEF InLap
    <2>2. Minus(next_expiry, c) \in Nat /\ Minus(D, c) \in Nat
      BY <1>2, <2>1, MinusNat
    <2>3. Minus(next_expiry, c) < Word \div 2 /\ Minus(D, c) < Word \div 2
      <3> DEFINE h == Word \div 2
      <3>1. h \in Nat /\ MAX \in Nat /\ MAX < h
        BY WordFacts
      <3> HIDE DEF h
      <3>2. Minus(next_expiry, c) < h /\ Minus(D, c) < h
        BY <2>1, <2>2, <3>1
      <3> QED BY <3>2 DEF h
    <2>4. ~first <=> Minus(next_expiry, c) <= Minus(D, c)
      BY <1>2, <2>1, <2>3, Compare DEF AtOrAfter
    <2>5. CASE first
      BY <1>2, <1>5, <2>2, <2>4, <2>5
    <2>6. CASE ~first
      BY <1>5, <2>1, <2>2, <2>4, <2>6
    <2> QED BY <2>5, <2>6
  <1>9. ClockInv'
    <2>1. /\ Minus(next_expiry, c) = Minus(next_expiry, clk) - Minus(c, clk) /\ Minus(next_expiry, clk) <= MAX
          /\ Minus(Plus(jiffies, 1), c) <= Minus(next_expiry, c) + MaxLag + 1
          /\ Minus(Plus(jiffies, 1), c) <= 1 \/ c = next_expiry
      BY <1>2 DEF Forwards, IInv, ClockInv
    <2>2. /\ Minus(next_expiry, clk) \in Nat /\ Minus(c, clk) \in Nat /\ Minus(n, c) \in Nat
          /\ Minus(Plus(jiffies, 1), c) \in Nat /\ MAX \in Nat /\ MaxLag \in Nat /\ Minus(next_expiry, c) \in Nat
      <3>1. Plus(jiffies, 1) \in Times /\ next_expiry \in Times /\ clk \in Times
        BY <1>3, NextTick DEF TypeOK
      <3>2. MAX \in Nat /\ MaxLag \in Nat
        BY WordFacts
      <3> HIDE DEF n
      <3> QED BY <1>2, <1>8, <3>1, <3>2, MinusNat
    <2>3. Minus(n, c) <= MAX
      <3> HIDE DEF n
      <3> QED BY <1>8, <2>1, <2>2
    <2>4. Minus(Plus(jiffies, 1), c) <= Minus(n, c) + MaxLag + 1
      <3>1. CASE Minus(Plus(jiffies, 1), c) <= 1
        <4> HIDE DEF n
        <4> QED BY <2>2, <3>1
      <3>2. CASE c = next_expiry
        <4>1. Minus(next_expiry, c) = 0
          BY <1>2, <3>2, MinusNat
        <4>2. Minus(n, c) = Minus(next_expiry, c)
          <5> HIDE DEF n
          <5> QED BY <1>8, <2>2, <4>1
        <4> HIDE DEF n
        <4> QED BY <2>1, <4>2
      <3> QED BY <2>1, <3>1, <3>2
    <2>5. ClockInv' <=> /\ Minus(n, c) <= MAX /\ Minus(Plus(jiffies, 1), c) <= Minus(n, c) + MaxLag + 1
      BY <1>4 DEF ClockInv, Minus, Plus, MAX
    <2> QED BY <2>3, <2>4, <2>5
  <1>10. Vectors' = Vectors \cup {t} /\ Collected' = Collected \ {t}
    BY <1>3, <1>4 DEF Vectors, Collected, TypeOK
  <1>11. \A x \in Vectors \ {t} : due'[x] = due[x] /\ bucket'[x] = bucket[x]
    BY <1>3, <1>4 DEF TypeOK, Vectors
  <1>12. due'[t] = D /\ bucket'[t] = i.bucket /\ expires'[t] = e /\ placed'[t] = Placed(e, c) /\ list'[t] = "vectors"
    BY <1>3, <1>4 DEF TypeOK
  <1>13. QueueInv'
    <2>1. timers_pending'
      BY <1>1, <1>5
    <2>2. InLap(due'[t], bucket'[t], c, n)
      BY <1>1, <1>8, <1>12 DEF InLap
    <2>3. ASSUME NEW x \in Vectors \ {t} PROVE InLap(due'[x], bucket'[x], c, n)
      <3>1. InLap(due[x], bucket[x], c, n)
        <4> HIDE DEF n
        <4> QED BY <1>2, <1>8, <2>3, QueueForward
      <3> QED BY <1>11, <3>1
    <2>4. \A x \in Vectors' : InLap(due'[x], bucket'[x], c, n)
      BY <1>10, <2>2, <2>3
    <2>5. QueueInv' <=> \A x \in Vectors' : timers_pending' /\ InLap(due'[x], bucket'[x], clk', next_expiry')
      BY DEF QueueInv, InLap
    <2> QED BY <1>4, <2>1, <2>4, <2>5
  <1>14. HeadsInv'
    <2>1. ASSUME NEW x \in Collected'
          PROVE  run' /\ Minus(clk', due'[x]) >= 1 /\ Minus(clk', due'[x]) + Minus(next_expiry', clk') <= MAX + 1
      <3>1. x \in Collected /\ due'[x] = due[x]
        BY <1>3, <1>4, <1>10, <2>1 DEF TypeOK, Collected
      <3>2. run /\ Minus(c, due[x]) >= 1 /\ Minus(c, due[x]) + Minus(n, c) <= MAX + 1
        <4> HIDE DEF n
        <4> QED BY <1>2, <1>8, <3>1, HeadsForward
      <3> QED BY <1>4, <3>1, <3>2
    <2> QED BY <2>1 DEF HeadsInv, Minus, MAX
  <1>15. ExpiryInv'
    <2>1. ASSUME NEW x \in Timers, list'[x] # "none", placed'[x] = "exact"
          PROVE  Rounded(due'[x], expires'[x], bucket'[x][1])
      <3>1. CASE x = t
        BY <1>1, <1>12, <2>1, <3>1
      <3>2. CASE x # t
        <4>1. list[x] # "none" /\ placed[x] = "exact" /\ due'[x] = due[x] /\ expires'[x] = expires[x] /\ bucket'[x] = bucket[x]
          BY <1>3, <1>4, <2>1, <3>2 DEF TypeOK
        <4> QED BY <4>1 DEF IInv, ExpiryInv, Pending, Level
      <3> QED BY <3>1, <3>2
    <2> QED BY <2>1 DEF ExpiryInv, Pending, Level, Rounded, Minus, Reach
  <1>16. LeftInv'
    <2>1. ASSUME NEW x \in Vectors' PROVE placed'[x] # "left"
      <3>1. CASE x = t
        BY <1>6, <1>12, <3>1
      <3>2. CASE x # t
        BY <1>3, <1>4, <1>10, <3>2 DEF TypeOK, IInv, LeftInv, Vectors
      <3> QED BY <3>1, <3>2
    <2> QED BY <2>1 DEF LeftInv
  <1>17. MapInv'
    <2>1. \A b : b \in pending_map' <=> \E x \in Vectors' : bucket'[x] = b
      <3> TAKE b
      <3>1. b \in Remaining(t) <=> \E x \in Vectors \ {t} : bucket[x] = b
        BY MapWithout
      <3> QED BY <1>4, <1>10, <1>11, <1>12, <3>1
    <2> QED BY <2>1 DEF MapInv
  <1>18. FirstInv'
    <2>1. ASSUME timers_pending', ~next_expiry_recalc' PROVE \E x \in Vectors' : due'[x] = next_expiry'
      <3>1. CASE first
        BY <1>5, <1>10, <1>12, <3>1
      <3>2. CASE ~first
        <4>1. timers_pending /\ ~next_expiry_recalc /\ ~Emptied(t) /\ next_expiry' = next_expiry
          BY <1>5, <2>1, <3>2
        <4>2. PICK x \in Vectors \ {t} : due[x] = next_expiry
          BY <4>1, FirstWithout
        <4> QED BY <1>10, <1>11, <4>1, <4>2
      <3> QED BY <3>1, <3>2
    <2> QED BY <2>1 DEF FirstInv
  <1>19. IdleInv'
    <2>1. IdleInv
      BY DEF IInv
    <2>3. CASE first
      BY <1>4, <1>5, <2>1, <2>3 DEF IdleInv, Ahead, Minus, Plus, MAX
    <2>4. CASE ~first
      BY <1>4, <1>5, <2>1, <2>4 DEF IdleInv, Ahead, Minus, Plus, MAX
    <2> QED BY <2>3, <2>4
  <1> QED BY <1>7, <1>9, <1>13, <1>14, <1>15, <1>16, <1>17, <1>18, <1>19 DEF IInv

\* Forwarding the clock
LEMMA ForwardStep ==
    ASSUME IInv, ForwardOnly
    PROVE  /\ clk' \in Times /\ ClockInv' /\ QueueInv' /\ HeadsInv' /\ MapInv' /\ FirstInv' /\ IdleInv'
           /\ Vectors' = Vectors
  <1> DEFINE c == Clk
  <1>1. Forwards(c) /\ c \in Times
    BY ClkIs DEF Forwards
  <1>2. clk' = c /\ UNCHANGED <<jiffies, next_expiry, next_expiry_recalc, timers_pending, is_idle, pending_map,
                                list, running_timer, bucket, run, sleep, due>>
    BY DEF ForwardOnly
  <1> HIDE DEF c
  <1>3. TypeOK /\ next_expiry \in Times /\ clk \in Times
    BY DEF IInv, TypeOK
  <1>4. Vectors' = Vectors /\ Collected' = Collected
    BY <1>2 DEF Vectors, Collected
  <1>5. Minus(next_expiry, c) <= Minus(next_expiry, c)
    BY <1>1, <1>3, MinusNat
  <1>6. ClockInv'
    <2>1. /\ Minus(next_expiry, c) = Minus(next_expiry, clk) - Minus(c, clk) /\ Minus(next_expiry, clk) <= MAX
          /\ Minus(Plus(jiffies, 1), c) <= Minus(next_expiry, c) + MaxLag + 1
      BY <1>1 DEF Forwards, IInv, ClockInv
    <2>2. Minus(next_expiry, clk) \in Nat /\ Minus(c, clk) \in Nat /\ MAX \in Nat
      BY <1>1, <1>3, MinusNat, WordFacts
    <2>3. Minus(next_expiry, c) <= MAX
      BY <2>1, <2>2
    <2> QED BY <1>2, <2>1, <2>3 DEF ClockInv, Minus, Plus, MAX
  <1>7. QueueInv'
    <2>1. ASSUME NEW t \in Vectors PROVE timers_pending /\ InLap(due[t], bucket[t], c, next_expiry)
      BY <1>1, <1>3, <1>5, <2>1, QueueForward
    <2> QED BY <1>2, <1>4, <2>1 DEF QueueInv, InLap, Minus, MAX
  <1>8. HeadsInv'
    <2>1. ASSUME NEW t \in Collected
          PROVE  run /\ Minus(c, due[t]) >= 1 /\ Minus(c, due[t]) + Minus(next_expiry, c) <= MAX + 1
      BY <1>1, <1>3, <1>5, <2>1, HeadsForward
    <2> QED BY <1>2, <1>4, <2>1 DEF HeadsInv, Minus, MAX
  <1>9. MapInv' /\ FirstInv'
    BY <1>2, <1>4 DEF IInv, MapInv, FirstInv
  <1>10. IdleInv'
    <2>1. IdleInv
      BY DEF IInv
    <2> QED BY <1>2, <2>1 DEF IdleInv, Ahead, Minus, Plus, MAX, sleep
  <1> QED BY <1>1, <1>2, <1>4, <1>6, <1>7, <1>8, <1>9, <1>10

\* Changing the expiry of a timer that stays in its bucket
LEMMA KeepBucketStep ==
    ASSUME IInv, WithinDelta, NEW t \in Timers, NEW d \in Deltas, Pending(t),
           SameBucket(t, Plus(jiffies, d)), KeepBucket(t, Plus(jiffies, d))
    PROVE  IInv'
  <1> DEFINE e == Plus(jiffies, d)
             c == Clk
             i == WheelIndex(e, c)
             D == i.expiry
  <1>1. /\ e \in Times /\ Placement(i, c) /\ InLap(D, i.bucket, c, c)
        /\ Placed(e, c) # "capped" => Rounded(D, e, i.bucket[1])
    BY Asked
  <1>2. Forwards(c) /\ c \in Times /\ D \in Times /\ i.bucket \in Buckets
    BY <1>1, ClkIs DEF Forwards, Placement
  <1>3. TypeOK
    BY DEF IInv
  <1>4. /\ ForwardOnly /\ expires' = [expires EXCEPT ![t] = e]
        /\ placed' = [placed EXCEPT ![t] = IF list[t] = "heads" THEN "left" ELSE Placed(e, c)]
        /\ UNCHANGED <<jiffies, next_expiry, next_expiry_recalc, timers_pending, is_idle, pending_map,
                       list, running_timer, bucket, run, sleep, due>>
    BY DEF KeepBucket, ForwardOnly
  <1>5. i.bucket = bucket[t]
    BY DEF SameBucket
  <1> HIDE DEF i, e, c
  <1>6. Placed(e, c) \in {"exact", "capped"}
    BY DEF Placed
  <1>7. /\ clk' \in Times /\ ClockInv' /\ QueueInv' /\ HeadsInv' /\ MapInv' /\ FirstInv' /\ IdleInv'
        /\ Vectors' = Vectors
    BY <1>4, ForwardStep
  <1>8. TypeOK'
    BY <1>1, <1>3, <1>4, <1>6, <1>7 DEF TypeOK, sleep
  <1>9. ASSUME t \in Vectors PROVE due[t] = D
    <2>1. InLap(due[t], bucket[t], c, next_expiry)
      <3>1. next_expiry \in Times /\ Minus(next_expiry, c) <= Minus(next_expiry, c)
        BY <1>2, <1>3, MinusNat DEF TypeOK
      <3> QED BY <1>2, <1>9, <3>1, QueueForward
    <2>2. due[t] \in Times
      BY <1>3 DEF TypeOK
    <2> HIDE DEF D
    <2> QED BY <1>1, <1>2, <1>5, <2>1, <2>2, Collision
  <1>10. ExpiryInv'
    <2>1. ASSUME NEW x \in Timers, list'[x] # "none", placed'[x] = "exact"
          PROVE  Rounded(due'[x], expires'[x], bucket'[x][1])
      <3>1. CASE x = t
        <4>1. list[t] # "heads" /\ list[t] # "none" /\ Placed(e, c) = "exact" /\ expires'[t] = e /\ due' = due /\ bucket' = bucket
          BY <1>3, <1>4, <2>1, <3>1 DEF TypeOK
        <4>2. t \in Vectors
          BY <1>3, <4>1 DEF TypeOK, Vectors
        <4> QED BY <1>1, <1>5, <1>9, <3>1, <4>1, <4>2
      <3>2. CASE x # t
        <4>1. list[x] # "none" /\ placed[x] = "exact" /\ due'[x] = due[x] /\ expires'[x] = expires[x] /\ bucket'[x] = bucket[x]
          BY <1>3, <1>4, <2>1, <3>2 DEF TypeOK
        <4> QED BY <4>1 DEF IInv, ExpiryInv, Pending, Level
      <3> QED BY <3>1, <3>2
    <2> QED BY <2>1 DEF ExpiryInv, Pending, Level, Rounded, Minus, Reach
  <1>11. LeftInv'
    <2>1. ASSUME NEW x \in Vectors PROVE placed'[x] # "left"
      <3>1. CASE x = t
        BY <1>3, <1>4, <1>6, <3>1 DEF TypeOK, Vectors
      <3>2. CASE x # t
        BY <1>3, <1>4, <3>2 DEF TypeOK, IInv, LeftInv, Vectors
      <3> QED BY <3>1, <3>2
    <2> QED BY <1>7, <2>1 DEF LeftInv
  <1> QED BY <1>7, <1>8, <1>10, <1>11 DEF IInv

LEMMA ModNothingStep == ASSUME IInv, ModNothing PROVE IInv'
  <1>1. ForwardOnly /\ UNCHANGED <<expires, placed>>
    BY DEF ModNothing
  <1>2. UNCHANGED <<jiffies, next_expiry, next_expiry_recalc, timers_pending, is_idle, pending_map,
                    list, running_timer, bucket, run, wakeup, kicked, due>>
    BY <1>1 DEF ForwardOnly, sleep
  <1>3. /\ clk' \in Times /\ ClockInv' /\ QueueInv' /\ HeadsInv' /\ MapInv' /\ FirstInv' /\ IdleInv'
        /\ Vectors' = Vectors
    BY <1>1, ForwardStep
  <1>4. TypeOK'
    BY <1>1, <1>2, <1>3 DEF IInv, TypeOK
  <1>5. ExpiryInv'
    BY <1>1, <1>2 DEF IInv, ExpiryInv, Pending, Level, Rounded, Minus, Reach
  <1>6. LeftInv'
    BY <1>1, <1>3 DEF IInv, LeftInv
  <1> QED BY <1>3, <1>4, <1>5, <1>6 DEF IInv

\* Taking a timer out of the wheel
LEMMA DeleteStep == ASSUME IInv, NEW t \in Timers, Delete(t) PROVE IInv'
  <1>1. /\ list' = [list EXCEPT ![t] = "none"]
        /\ pending_map' = Remaining(t)
        /\ next_expiry_recalc' = (next_expiry_recalc \/ Emptied(t))
        /\ bucket' = [bucket EXCEPT ![t] = <<0, 0>>]
        /\ expires' = [expires EXCEPT ![t] = Start]
        /\ due' = [due EXCEPT ![t] = Start]
        /\ placed' = [placed EXCEPT ![t] = "exact"]
        /\ UNCHANGED <<jiffies, clk, next_expiry, timers_pending, is_idle, running_timer, run, wakeup, kicked>>
    BY DEF Delete, Detach, Forget, Remaining, sleep
  <1>2. TypeOK
    BY DEF IInv
  <1>3. Vectors' = Vectors \ {t} /\ Collected' = Collected \ {t}
    BY <1>1, <1>2 DEF Vectors, Collected, TypeOK
  <1>4. \A x \in Timers \ {t} : /\ due'[x] = due[x] /\ bucket'[x] = bucket[x] /\ expires'[x] = expires[x]
                                /\ placed'[x] = placed[x] /\ list'[x] = list[x]
    BY <1>1, <1>2 DEF TypeOK
  <1>5. TypeOK'
    <2>1. Start \in Times
      BY ConstAssumption
    <2> QED BY <1>1, <1>2, <2>1, FirstBucket DEF TypeOK, Emptied
  <1>6. ClockInv'
    BY <1>1 DEF IInv, ClockInv, Minus, Plus, MAX
  <1>7. QueueInv'
    BY <1>1, <1>3, <1>4 DEF IInv, QueueInv, InLap, Minus, MAX, Vectors
  <1>8. HeadsInv'
    BY <1>1, <1>3, <1>4 DEF IInv, HeadsInv, Minus, MAX, Collected
  <1>9. ExpiryInv'
    <2>1. ASSUME NEW x \in Timers, list'[x] # "none", placed'[x] = "exact"
          PROVE  Rounded(due'[x], expires'[x], bucket'[x][1])
      <3>1. x # t
        BY <1>1, <1>2, <2>1 DEF TypeOK
      <3> QED BY <1>4, <2>1, <3>1 DEF IInv, ExpiryInv, Pending, Level
    <2> QED BY <2>1 DEF ExpiryInv, Pending, Level, Rounded, Minus, Reach
  <1>10. LeftInv'
    BY <1>3, <1>4 DEF IInv, LeftInv, Vectors
  <1>11. MapInv'
    <2>1. \A b : b \in pending_map' <=> \E x \in Vectors' : bucket'[x] = b
      <3> TAKE b
      <3>1. b \in Remaining(t) <=> \E x \in Vectors \ {t} : bucket[x] = b
        BY MapWithout
      <3> QED BY <1>1, <1>3, <1>4, <3>1 DEF Vectors
    <2> QED BY <2>1 DEF MapInv
  <1>12. FirstInv'
    <2>1. ASSUME timers_pending', ~next_expiry_recalc' PROVE \E x \in Vectors' : due'[x] = next_expiry'
      <3>1. timers_pending /\ ~next_expiry_recalc /\ ~Emptied(t) /\ next_expiry' = next_expiry
        BY <1>1, <2>1
      <3>2. PICK x \in Vectors \ {t} : due[x] = next_expiry
        BY <3>1, FirstWithout
      <3> QED BY <1>3, <1>4, <3>1, <3>2 DEF Vectors
    <2> QED BY <2>1 DEF FirstInv
  <1>13. IdleInv'
    <2>1. IdleInv
      BY DEF IInv
    <2> QED BY <1>1, <2>1 DEF IdleInv, Ahead, Minus, Plus, MAX
  <1> QED BY <1>5, <1>6, <1>7, <1>8, <1>9, <1>10, <1>11, <1>12, <1>13 DEF IInv

\* Calling the function of a timer that was collected
LEMMA ExpireStep == ASSUME IInv, Expire PROVE IInv'
  <1>1. PICK t \in Collected : /\ running_timer' = t
                               /\ list' = [list EXCEPT ![t] = "none"]
                               /\ Forget(t)
    BY DEF Expire
  <1>2. /\ bucket' = [bucket EXCEPT ![t] = <<0, 0>>]
        /\ expires' = [expires EXCEPT ![t] = Start]
        /\ due' = [due EXCEPT ![t] = Start]
        /\ placed' = [placed EXCEPT ![t] = "exact"]
        /\ UNCHANGED <<jiffies, clk, next_expiry, next_expiry_recalc, timers_pending, is_idle, pending_map,
                       run, wakeup, kicked>>
    BY <1>1 DEF Expire, Forget, sleep
  <1>3. TypeOK /\ t \in Timers /\ t \notin Vectors
    BY <1>1 DEF IInv, Collected, Vectors
  <1>4. Vectors' = Vectors /\ Collected' = Collected \ {t}
    BY <1>1, <1>3 DEF Vectors, Collected, TypeOK
  <1>5. \A x \in Timers \ {t} : /\ due'[x] = due[x] /\ bucket'[x] = bucket[x] /\ expires'[x] = expires[x]
                                /\ placed'[x] = placed[x] /\ list'[x] = list[x]
    BY <1>1, <1>2, <1>3 DEF TypeOK
  <1>6. TypeOK'
    <2>1. Start \in Times
      BY ConstAssumption
    <2> QED BY <1>1, <1>2, <1>3, <2>1, FirstBucket DEF TypeOK
  <1>7. ClockInv'
    BY <1>2 DEF IInv, ClockInv, Minus, Plus, MAX
  <1>8. QueueInv'
    BY <1>2, <1>3, <1>4, <1>5 DEF IInv, QueueInv, InLap, Minus, MAX, Vectors
  <1>9. HeadsInv'
    BY <1>2, <1>4, <1>5 DEF IInv, HeadsInv, Minus, MAX, Collected
  <1>10. ExpiryInv'
    <2>1. ASSUME NEW x \in Timers, list'[x] # "none", placed'[x] = "exact"
          PROVE  Rounded(due'[x], expires'[x], bucket'[x][1])
      <3>1. x # t
        BY <1>1, <1>3, <2>1 DEF TypeOK
      <3> QED BY <1>5, <2>1, <3>1 DEF IInv, ExpiryInv, Pending, Level
    <2> QED BY <2>1 DEF ExpiryInv, Pending, Level, Rounded, Minus, Reach
  <1>11. LeftInv'
    BY <1>3, <1>4, <1>5 DEF IInv, LeftInv, Vectors
  <1>12. MapInv'
    BY <1>2, <1>3, <1>4, <1>5 DEF IInv, MapInv, Vectors
  <1>13. FirstInv'
    BY <1>2, <1>3, <1>4, <1>5 DEF IInv, FirstInv, Vectors
  <1>14. IdleInv'
    <2>1. IdleInv
      BY DEF IInv
    <2> QED BY <1>2, <2>1 DEF IdleInv, Ahead, Minus, Plus, MAX
  <1> QED BY <1>6, <1>7, <1>8, <1>9, <1>10, <1>11, <1>12, <1>13, <1>14 DEF IInv

\* Steps that leave the timers and the clock alone
LEMMA SameTimers ==
    ASSUME IInv, UNCHANGED <<clk, next_expiry, next_expiry_recalc, timers_pending, pending_map, list,
                             expires, bucket, due, placed>>,
           run' \/ Collected = {}
    PROVE  QueueInv' /\ HeadsInv' /\ ExpiryInv' /\ LeftInv' /\ MapInv' /\ FirstInv'
  <1>1. Vectors' = Vectors /\ Collected' = Collected
    BY DEF Vectors, Collected
  <1>2. QueueInv'
    BY <1>1 DEF IInv, QueueInv, InLap, Minus, MAX
  <1>3. HeadsInv'
    BY <1>1 DEF IInv, HeadsInv, Minus, MAX
  <1>4. ExpiryInv'
    BY DEF IInv, ExpiryInv, Pending, Level, Rounded, Minus, Reach
  <1>5. LeftInv' /\ MapInv' /\ FirstInv'
    BY <1>1 DEF IInv, LeftInv, MapInv, FirstInv
  <1> QED BY <1>2, <1>3, <1>4, <1>5

LEMMA CallbackDoneStep == ASSUME IInv, CallbackDone PROVE IInv'
  <1>1. running_timer' = None /\ UNCHANGED <<jiffies, base, expires, bucket, run, sleep, history>>
    BY DEF CallbackDone
  <1>2. UNCHANGED <<jiffies, clk, next_expiry, next_expiry_recalc, timers_pending, is_idle, pending_map, list,
                    expires, bucket, run, wakeup, kicked, due, placed>>
    BY <1>1 DEF base, sleep, history
  <1>3. run' \/ Collected = {}
    BY <1>2 DEF IInv, HeadsInv
  <1>4. TypeOK' /\ ClockInv' /\ IdleInv'
    BY <1>1, <1>2 DEF IInv, TypeOK, ClockInv, IdleInv, Ahead, Minus, Plus, MAX
  <1> QED BY <1>2, <1>3, <1>4, SameTimers DEF IInv

LEMMA RunDoneStep == ASSUME IInv, RunDone PROVE IInv'
  <1>1. run' = FALSE /\ Collected = {} /\ UNCHANGED <<jiffies, base, running_timer, expires, bucket, sleep, history>>
    BY DEF RunDone, ExpireDone
  <1>2. UNCHANGED <<jiffies, clk, next_expiry, next_expiry_recalc, timers_pending, is_idle, pending_map, list,
                    expires, bucket, wakeup, kicked, due, placed>>
    BY <1>1 DEF base, sleep, history
  <1>3. TypeOK' /\ ClockInv' /\ IdleInv'
    BY <1>1, <1>2 DEF IInv, TypeOK, ClockInv, IdleInv, Ahead, Minus, Plus, MAX
  <1> QED BY <1>1, <1>2, <1>3, SameTimers DEF IInv

LEMMA ClearIdleStep == ASSUME IInv, ClearIdle PROVE IInv'
  <1>1. /\ is_idle' = FALSE /\ wakeup' = Never /\ kicked' = FALSE
        /\ UNCHANGED <<jiffies, clk, next_expiry, next_expiry_recalc, timers_pending, pending_map,
                       list, running_timer, expires, bucket, run, due, placed>>
    BY DEF ClearIdle, history
  <1>2. run' \/ Collected = {}
    BY <1>1 DEF IInv, HeadsInv
  <1>3. TypeOK' /\ ClockInv' /\ IdleInv'
    BY <1>1 DEF IInv, TypeOK, ClockInv, IdleInv, Ahead, Minus, Plus, MAX
  <1> QED BY <1>1, <1>2, <1>3, SameTimers DEF IInv

\* How far a wakeup is ahead of the oldest time the clock of the tick may have
LEMMA AheadIs ==
    ASSUME NEW a \in Times, jiffies \in Times
    PROVE  /\ Ahead(a) \in 0 .. Word - 1 /\ Plus(a, MaxLag) \in Times
           /\ Ahead(a) = Minus(Plus(a, MaxLag), jiffies)
  <1>1. MaxLag \in 0 .. Word
    BY WordFacts
  <1>2. Plus(a, MaxLag) \in Times
    BY <1>1, PlusIs
  <1> QED BY <1>2, MinusNat DEF Ahead

\* next_expiry is at most MaxLag behind jiffies.
LEMMA NextAhead ==
    ASSUME IInv, NEW a \in Times, Minus(next_expiry, clk) <= Minus(a, clk), Minus(a, clk) <= MAX
    PROVE  /\ Ahead(a) <= MAX + 1 + MaxLag
           /\ Ahead(a) - MaxLag = Minus(a, clk) + 1 - Minus(Plus(jiffies, 1), clk)
  <1> DEFINE w == Word
             p == Plus(a, MaxLag)
             k == Plus(jiffies, 1)
  <1>1. /\ w \in Nat /\ w > 2 * (MAX + MaxLag + 2) /\ MAX \in Nat /\ MaxLag \in Nat
        /\ jiffies \in Times /\ clk \in Times /\ next_expiry \in Times
    BY WordFacts DEF IInv, TypeOK
  <1>2. jiffies \in 0 .. w - 1 /\ clk \in 0 .. w - 1 /\ next_expiry \in 0 .. w - 1 /\ a \in 0 .. w - 1
    BY <1>1 DEF Times
  <1>3. /\ p \in Times /\ p = (IF a + MaxLag < w THEN a + MaxLag ELSE a + MaxLag - w)
        /\ k \in Times /\ k = (IF jiffies + 1 < w THEN jiffies + 1 ELSE jiffies + 1 - w)
    <2>1. MaxLag \in 0 .. w /\ 1 \in 0 .. w
      BY <1>1
    <2> QED BY <1>1, <2>1, PlusIs
  <1>4. p \in 0 .. w - 1 /\ k \in 0 .. w - 1
    BY <1>3 DEF Times
  <1>5. Minus(k, clk) <= Minus(next_expiry, clk) + MaxLag + 1
    BY DEF IInv, ClockInv
  <1>6. /\ Minus(k, clk) = IF k >= clk THEN k - clk ELSE k - clk + w
        /\ Minus(next_expiry, clk) = IF next_expiry >= clk THEN next_expiry - clk ELSE next_expiry - clk + w
        /\ Minus(a, clk) = IF a >= clk THEN a - clk ELSE a - clk + w
        /\ Minus(p, jiffies) = IF p >= jiffies THEN p - jiffies ELSE p - jiffies + w
    BY <1>1, <1>3, MinusIs
  <1> DEFINE x == Minus(a, clk)
             y == Minus(next_expiry, clk)
             z == Minus(k, clk)
             r == Minus(p, jiffies)
  <1>7. y <= x /\ x <= MAX /\ z <= y + MaxLag + 1
    BY <1>5
  <1>8. r = Ahead(a)
    BY DEF Ahead
  <1> HIDE DEF w, p, k, x, y, z, r
  <1>9. r <= MAX + 1 + MaxLag /\ r - MaxLag = x + 1 - z
    BY <1>1, <1>2, <1>3, <1>4, <1>6, <1>7 DEF x, y, z, r
  <1> QED BY <1>8, <1>9 DEF x, z, k

\* Passing of time: a tick that is handled late is not handled later than allowed.
LEMMA TickStep == ASSUME IInv, WithinDelta, Tick PROVE IInv'
  <1> DEFINE j == Plus(jiffies, 1)
             k == Plus(j, 1)
             N == Minus(next_expiry, clk)
             K == Minus(j, clk)
  <1>1. /\ is_idle /\ wakeup # Never => Before(jiffies, Plus(wakeup, MaxLag))
        /\ ~is_idle \/ kicked => Before(jiffies, Plus(next_expiry, MaxLag))
        /\ jiffies' = j
        /\ UNCHANGED <<clk, next_expiry, next_expiry_recalc, timers_pending, is_idle, pending_map, list,
                       running_timer, expires, bucket, run, wakeup, kicked, due, placed>>
    BY DEF Tick, base, sleep, history
  <1>2. jiffies \in Times /\ clk \in Times /\ next_expiry \in Times /\ j \in Times /\ k \in Times /\ TypeOK
    BY NextTick DEF IInv, TypeOK
  <1>3. N \in Nat /\ K \in Nat /\ N <= MAX /\ K <= N + MaxLag + 1 /\ MAX \in Nat /\ MaxLag \in Nat
    <2>1. N \in Nat /\ K \in Nat
      <3> HIDE DEF j
      <3> QED BY <1>2, MinusNat
    <2> QED BY <2>1, WordFacts DEF IInv, ClockInv
  \* The softirq is not late.
  <1>4. Ahead(next_expiry) <= MAX + 1 + MaxLag /\ Ahead(next_expiry) - MaxLag = N + 1 - K
    <2>1. N <= N
      BY <1>3
    <2> QED BY <1>2, <1>3, <2>1, NextAhead
  <1>5. ASSUME NEW a \in Times, Ahead(a) <= MAX + 1 + MaxLag, Before(jiffies, Plus(a, MaxLag))
        PROVE  Ahead(a) >= 1
    <2>1. Plus(a, MaxLag) \in Times /\ Ahead(a) = Minus(Plus(a, MaxLag), jiffies)
      BY <1>2, AheadIs
    <2> QED BY <1>2, <1>5, <2>1, Order
  <1>6. ASSUME NEW a \in Times, Ahead(a) >= 1
        PROVE  Minus(Plus(a, MaxLag), j) = Ahead(a) - 1
    <2>1. Plus(a, MaxLag) \in Times /\ Ahead(a) = Minus(Plus(a, MaxLag), jiffies) /\ Ahead(a) \in Nat
      BY <1>2, AheadIs
    <2>2. Minus(j, jiffies) = 1
      BY <1>2, NextTick
    <2> HIDE DEF j
    <2>3. Minus(j, jiffies) <= Minus(Plus(a, MaxLag), jiffies)
      BY <1>6, <2>1, <2>2
    <2>4. Minus(Plus(a, MaxLag), j) = Minus(Plus(a, MaxLag), jiffies) - Minus(j, jiffies)
      BY <1>2, <2>1, <2>3, Sum
    <2> QED BY <2>1, <2>2, <2>4
  <1>7. Ahead(next_expiry) >= 1
    <2>0. Ahead(next_expiry) \in Nat
      BY <1>2, AheadIs
    <2>1. CASE ~is_idle \/ kicked
      BY <1>1, <1>2, <1>4, <1>5, <2>1
    <2>2. CASE is_idle /\ ~kicked /\ wakeup # Never
      <3>1. wakeup \in Times /\ Ahead(wakeup) <= MAX + 1 + MaxLag /\ Ahead(wakeup) <= Ahead(next_expiry)
        BY <1>2, <2>2 DEF TypeOK, IInv, IdleInv
      <3>2. Ahead(wakeup) >= 1 /\ Ahead(wakeup) \in Nat
        BY <1>1, <1>2, <1>5, <2>2, <3>1, AheadIs
      <3> QED BY <2>0, <3>1, <3>2
    <2>3. CASE is_idle /\ ~kicked /\ wakeup = Never
      <3>1. ~timers_pending
        BY <2>3 DEF IInv, IdleInv
      <3>2. PICK d \in Deltas : TRUE
        BY ConstAssumption
      <3> DEFINE i == WheelIndex(Plus(jiffies, d), Clk)
                 D == i.expiry
                 c == Clk
      <3>3. D \in Times /\ InLap(D, i.bucket, c, c) /\ Before(D, next_expiry)
        BY <3>1, Asked DEF Placement
      <3>4. Forwards(c) /\ c \in Times
        BY ClkIs DEF Forwards
      <3> HIDE DEF c, i
      <3>5. /\ Minus(next_expiry, c) = N - Minus(c, clk) /\ Minus(c, clk) \in Nat /\ Minus(D, c) < MAX
            /\ Minus(j, c) <= 1 \/ c = next_expiry
            /\ Minus(c, clk) <= N
        <4>1. Minus(c, clk) \in Nat
          BY <1>2, <3>4, MinusNat
        <4> QED BY <3>3, <3>4, <4>1 DEF InLap, Forwards
      <3>6. Minus(next_expiry, c) \in Nat /\ Minus(D, c) \in Nat /\ Minus(j, c) \in Nat
        <4> HIDE DEF j, D
        <4> QED BY <1>2, <3>3, <3>4, MinusNat
      <3>7. Minus(D, c) < Minus(next_expiry, c)
        <4> DEFINE h == Word \div 2
        <4>1. h \in Nat /\ MAX < h
          BY WordFacts
        <4>2. Minus(D, c) < h /\ Minus(next_expiry, c) < h
          <5> HIDE DEF h, D
          <5> QED BY <1>3, <3>5, <3>6, <4>1
        <4>3. ~(Minus(next_expiry, c) <= Minus(D, c))
          <5> HIDE DEF D
          <5> QED BY <1>2, <3>3, <3>4, <4>2, Compare DEF AtOrAfter
        <4> HIDE DEF D
        <4> QED BY <3>6, <4>3
      <3>8. Minus(j, c) <= 1
        <4>1. c # next_expiry
          <5> SUFFICES ASSUME c = next_expiry PROVE FALSE
            OBVIOUS
          <5>1. Minus(next_expiry, c) = 0
            BY <3>4, MinusNat
          <5> HIDE DEF D
          <5> QED BY <3>6, <3>7, <5>1
        <4> QED BY <3>5, <4>1
      <3>9. K <= N
        <4>1. K = Minus(j, c) + Minus(c, clk)
          <5>1. Minus(j, c) + Minus(c, clk) < Word
            <6> HIDE DEF j, D, N, K
            <6>1. MAX + 1 < Word
              BY WordFacts
            <6>2. Minus(j, c) + Minus(c, clk) <= 1 + MAX
              BY <1>3, <3>5, <3>6, <3>8
            <6> QED BY <1>3, <3>5, <3>6, <6>1, <6>2, WordFacts
          <5> HIDE DEF j
          <5> QED BY <1>2, <3>4, <5>1, Sum
        <4>2. Minus(next_expiry, c) >= 1
          <5> HIDE DEF D
          <5> QED BY <3>6, <3>7
        <4> HIDE DEF N, K, j, D
        <4> QED BY <1>3, <3>5, <3>6, <3>8, <4>1, <4>2
      <3>10. MaxLag >= 1
        BY WordFacts
      <3> HIDE DEF N, K
      <3> QED BY <1>3, <1>4, <2>0, <3>9, <3>10
    <2> QED BY <2>1, <2>2, <2>3
  <1>8. ClockInv'
    <2>1. Minus(k, clk) = K + 1
      <3>1. Minus(k, j) = 1
        BY <1>2, NextTick
      <3>2. Minus(k, j) + K < Word
        <4>1. MAX + MaxLag + 2 < Word /\ Word \in Nat
          BY WordFacts
        <4> HIDE DEF N, K, k, j
        <4> QED BY <1>3, <3>1, <4>1
      <3> HIDE DEF k, j
      <3>3. Minus(k, clk) = Minus(k, j) + Minus(j, clk)
        BY <1>2, <3>2, Sum DEF K
      <3> QED BY <1>3, <3>1, <3>3
    <2>2. K <= N + MaxLag
      <3>1. Ahead(next_expiry) \in Nat
        BY <1>2, AheadIs
      <3> HIDE DEF N, K
      <3> QED BY <1>3, <1>4, <1>7, <3>1
    <2>3. ClockInv' <=> N <= MAX /\ Minus(k, clk) <= N + MaxLag + 1
      BY <1>1 DEF ClockInv, Minus, Plus, MAX
    <2> HIDE DEF N, K, k
    <2> QED BY <1>3, <2>1, <2>2, <2>3
  <1>9. IdleInv'
    <2>1. (kicked' => is_idle') /\ (run' /\ is_idle' => wakeup' # Never)
          /\ (is_idle' /\ wakeup' = Never /\ ~kicked' => ~timers_pending')
      BY <1>1 DEF IInv, IdleInv
    <2>2. ASSUME is_idle, wakeup # Never
          PROVE  /\ Minus(Plus(wakeup, MaxLag), j) <= MAX + 1 + MaxLag
                 /\ ~kicked => Minus(Plus(wakeup, MaxLag), j) <= Minus(Plus(next_expiry, MaxLag), j)
      <3>1. wakeup \in Times /\ Ahead(wakeup) <= MAX + 1 + MaxLag /\ (~kicked => Ahead(wakeup) <= Ahead(next_expiry))
        BY <1>2, <2>2 DEF TypeOK, IInv, IdleInv
      <3>2. Ahead(wakeup) >= 1 /\ Ahead(wakeup) \in Nat /\ Ahead(next_expiry) \in Nat
        BY <1>1, <1>2, <1>5, <2>2, <3>1, AheadIs
      <3>3. Minus(Plus(wakeup, MaxLag), j) = Ahead(wakeup) - 1
        BY <1>6, <3>1, <3>2
      <3>4. Minus(Plus(next_expiry, MaxLag), j) = Ahead(next_expiry) - 1
        BY <1>2, <1>6, <1>7
      <3> QED BY <1>3, <3>1, <3>2, <3>3, <3>4
    <2>3. ASSUME is_idle', wakeup' # Never
          PROVE  Ahead(wakeup)' <= MAX + 1 + MaxLag /\ (~kicked' => Ahead(wakeup)' <= Ahead(next_expiry)')
      <3>1. Ahead(wakeup)' = Minus(Plus(wakeup, MaxLag), j) /\ Ahead(next_expiry)' = Minus(Plus(next_expiry, MaxLag), j)
        BY <1>1 DEF Ahead, Minus, Plus
      <3>2. is_idle /\ wakeup # Never /\ kicked' = kicked
        BY <1>1, <2>3
      <3> HIDE DEF j
      <3> QED BY <2>2, <3>1, <3>2
    <2> QED BY <2>1, <2>3 DEF IdleInv, MAX
  <1>10. run' \/ Collected = {}
    BY <1>1 DEF IInv, HeadsInv
  <1>11. TypeOK'
    <2> HIDE DEF j
    <2> QED BY <1>1, <1>2 DEF TypeOK
  <1> QED BY <1>1, <1>8, <1>9, <1>10, <1>11, SameTimers DEF IInv

\* What the first timer is, in terms of next_expiry
LEMMA RecalcIs == ASSUME IInv PROVE First(NextPending(pending_map, clk), Vectors, clk)
  <1>1. clk \in Times /\ \A t \in Vectors : due[t] \in Times /\ bucket[t] \in Buckets /\ InLap(due[t], bucket[t], clk, next_expiry)
    BY DEF IInv, TypeOK, QueueInv, Vectors
  <1>2. \A b : b \in pending_map <=> \E t \in Vectors : bucket[t] = b
    BY DEF IInv, MapInv
  <1> HIDE DEF Vectors
  <1> QED BY <1>1, <1>2, NextPendingIs

\* Entering idle
LEMMA TryToSetIdleStep == ASSUME IInv, TryToSetIdle PROVE IInv'
  <1> DEFINE found == IF next_expiry_recalc THEN NextPending(pending_map, clk) ELSE next_expiry
             some == IF next_expiry_recalc THEN found # Plus(clk, TIMER_NEXT_MAX_DELTA) ELSE timers_pending
             n == IF some THEN found ELSE Plus(jiffies, TIMER_NEXT_MAX_DELTA)
             c == Forwarded(jiffies, n)
             j == Plus(jiffies, 1)
  <1>1. /\ ~run /\ next_expiry' = n /\ next_expiry_recalc' = FALSE /\ timers_pending' = some
        /\ clk' = c
        /\ IF is_idle \/ Before(Plus(jiffies, 1), n)
           THEN is_idle' = TRUE /\ wakeup' = (IF some THEN n ELSE Never)
           ELSE UNCHANGED <<is_idle, wakeup>>
        /\ UNCHANGED <<jiffies, pending_map, list, running_timer, expires, bucket, run, kicked, due, placed>>
    BY DEF TryToSetIdle, history
  <1>2. /\ TypeOK /\ jiffies \in Times /\ clk \in Times /\ next_expiry \in Times /\ j \in Times
        /\ MAX \in Nat /\ MAX \in 0 .. Word /\ MAX \in 0 .. Word - 1 /\ MaxLag \in Nat /\ MAX >= 1
    <2>1. MAX \in Nat /\ MAX \in 0 .. Word /\ MAX \in 0 .. Word - 1 /\ MaxLag \in Nat
      BY WordFacts
    <2>2. MAX >= 1
      <3>1. LVL_SIZE \in Nat \ {0, 1} /\ LVL_SIZE * 1 <= MAX + 1
        <4>1. 0 \in Levels
          BY ConstAssumption DEF Levels
        <4> QED BY <4>1, LevelFacts
      <3> QED BY <2>1, <3>1
    <2> QED BY <2>1, <2>2, NextTick DEF IInv, TypeOK
  <1>3. some \in BOOLEAN /\ (Vectors # {} => some)
        /\ (some => /\ found \in Times
                    /\ \A t \in Vectors : Minus(found, clk) <= Minus(due[t], clk)
                    /\ \E t \in Vectors : due[t] = found)
    <2>1. CASE next_expiry_recalc
      <3>1. First(found, Vectors, clk) /\ (some <=> found # Plus(clk, MAX))
        BY <2>1, RecalcIs DEF MAX
      <3> HIDE DEF found
      <3>2. some \in BOOLEAN
        BY <2>1
      <3> HIDE DEF some
      <3> QED BY <3>1, <3>2 DEF First
    <2>2. CASE ~next_expiry_recalc
      <3>1. found = next_expiry /\ some = timers_pending
        BY <2>2
      <3> HIDE DEF found, some
      <3>2. \A t \in Vectors : timers_pending /\ Minus(next_expiry, clk) <= Minus(due[t], clk)
        BY DEF IInv, QueueInv, InLap
      <3>3. timers_pending => \E t \in Vectors : due[t] = next_expiry
        BY <2>2 DEF IInv, FirstInv
      <3> QED BY <1>2, <3>1, <3>2, <3>3 DEF TypeOK
    <2> QED BY <2>1, <2>2
  <1>4. (some => n = found) /\ (~some => n = Plus(jiffies, MAX))
    BY DEF MAX
  <1> HIDE DEF found, some, n
  <1>5. some => Minus(next_expiry, clk) <= Minus(n, clk) /\ Minus(n, clk) <= MAX /\ n \in Times
    <2> SUFFICES ASSUME some PROVE Minus(next_expiry, clk) <= Minus(n, clk) /\ Minus(n, clk) <= MAX /\ n \in Times
      OBVIOUS
    <2>1. PICK t \in Vectors : due[t] = n
      BY <1>3, <1>4
    <2>2. InLap(n, bucket[t], clk, next_expiry) /\ n \in Times
      BY <1>3, <1>4, <2>1 DEF IInv, QueueInv
    <2>3. Minus(n, clk) \in Nat
      BY <1>2, <2>2, MinusNat
    <2> QED BY <1>2, <2>2, <2>3 DEF InLap
  <1>6. n \in Times
    BY <1>2, <1>4, <1>5, PlusIs
  \* The clock is not after next_expiry, and jiffies not far from it.
  <1>7. /\ c \in Times /\ Minus(n, c) <= MAX /\ Minus(j, c) <= Minus(n, c) + MaxLag + 1
        /\ some => Minus(c, clk) <= Minus(n, clk) /\ Minus(n, c) = Minus(n, clk) - Minus(c, clk)
    <2> DEFINE N == Minus(next_expiry, clk)
               K == Minus(j, clk)
    <2>1. N \in Nat /\ K \in Nat /\ N <= MAX /\ K <= N + MaxLag + 1
      <3>1. N \in Nat /\ K \in Nat
        <4> HIDE DEF j
        <4> QED BY <1>2, MinusNat
      <3> QED BY <3>1 DEF IInv, ClockInv
    <2>2. CASE some
      <3>1. Minus(n, clk) \in Nat /\ Minus(n, clk) <= MAX /\ K <= Minus(n, clk) + MaxLag + 1
        <4>1. Minus(n, clk) \in Nat
          BY <1>2, <1>6, MinusNat
        <4> HIDE DEF N, K
        <4> QED BY <1>2, <1>5, <2>1, <2>2, <4>1 DEF N
      <3>2. /\ c \in Times /\ Minus(c, clk) <= Minus(n, clk)
            /\ Minus(n, c) = Minus(n, clk) - Minus(c, clk)
            /\ Minus(j, c) <= Minus(n, c) + MaxLag + 1
        BY <1>2, <1>6, <3>1, ForwardedIs
      <3>3. Minus(c, clk) \in Nat
        <4> HIDE DEF c
        <4> QED BY <1>2, <3>2, MinusNat
      <3> HIDE DEF c, j
      <3> QED BY <1>2, <3>1, <3>2, <3>3
    <2>3. CASE ~some
      <3>1. n = Plus(jiffies, MAX) /\ Minus(n, jiffies) = MAX
        BY <1>2, <1>4, <2>3, MinusPlus
      <3>2. c = IF AtOrAfter(clk, jiffies) THEN clk ELSE jiffies
        <4>1. Before(jiffies, n)
          <5>1. MAX \in 1 .. Word \div 2
            BY <1>2, WordFacts
          <5> QED BY <1>2, <1>6, <3>1, <5>1, Order
        <4> QED BY <4>1 DEF Forwarded
      <3> HIDE DEF c
      <3>3. Minus(j, jiffies) = 1
        BY <1>2, NextTick
      <3>4. CASE ~AtOrAfter(clk, jiffies)
        <4>1. c = jiffies
          BY <3>2, <3>4
        <4> HIDE DEF j
        <4>2. MAX \in Nat /\ Minus(n, c) = MAX /\ Minus(j, c) = 1
          BY <1>2, <3>1, <3>3, <4>1
        <4> QED BY <1>2, <2>3, <4>1, <4>2
      <3>5. CASE AtOrAfter(clk, jiffies)
        <4>1. c = clk /\ Minus(clk, jiffies) < Word \div 2 /\ Minus(clk, jiffies) \in Nat
          BY <1>2, <3>2, <3>5, Order, MinusNat
        <4> HIDE DEF j
        <4>2. Minus(clk, jiffies) <= 1 /\ K = 1 - Minus(clk, jiffies)
          <5> DEFINE w == Word
                     h == w \div 2
          <5>1. w \in Nat /\ h \in Nat /\ w = 2 * h /\ h > MAX + MaxLag + 2
            BY WordFacts
          <5>2. jiffies \in 0 .. w - 1 /\ clk \in 0 .. w - 1 /\ j \in 0 .. w - 1
            BY <1>2 DEF Times
          <5>3. j = IF jiffies + 1 < w THEN jiffies + 1 ELSE jiffies + 1 - w
            <6>1. 1 \in 0 .. w
              BY <5>1, <1>2
            <6> QED BY <1>2, <6>1, PlusIs DEF j
          <5>4. /\ Minus(clk, jiffies) = IF clk >= jiffies THEN clk - jiffies ELSE clk - jiffies + w
                /\ K = IF j >= clk THEN j - clk ELSE j - clk + w
            BY <1>2, MinusIs
          <5> HIDE DEF w, h, N, K
          <5>5. Minus(clk, jiffies) < h
            BY <4>1 DEF h, w
          <5> QED BY <1>2, <2>1, <4>1, <5>1, <5>2, <5>3, <5>4, <5>5
        <4>3. Minus(n, clk) = MAX - Minus(clk, jiffies)
          <5>1. Minus(clk, jiffies) <= Minus(n, jiffies)
            BY <1>2, <3>1, <4>1, <4>2
          <5> QED BY <1>2, <1>6, <3>1, <5>1, Sum
        <4> HIDE DEF K, N
        <4>4. Minus(j, c) = 1 - Minus(clk, jiffies)
          BY <4>1, <4>2 DEF K
        <4> QED BY <1>2, <2>3, <4>1, <4>2, <4>3, <4>4
      <3> QED BY <3>4, <3>5
    <2> QED BY <2>2, <2>3
  <1> HIDE DEF c
  <1>8. TypeOK'
    <2>1. is_idle' \in BOOLEAN /\ wakeup' \in Times \cup {Never}
      BY <1>1, <1>2, <1>6 DEF TypeOK
    <2> QED BY <1>1, <1>2, <1>3, <1>6, <1>7, <2>1 DEF TypeOK
  <1>9. ClockInv'
    <2>1. ClockInv' <=> Minus(n, c) <= MAX /\ Minus(j, c) <= Minus(n, c) + MaxLag + 1
      BY <1>1 DEF ClockInv, Minus, Plus, MAX
    <2> QED BY <1>7, <2>1
  <1>10. Vectors' = Vectors /\ Collected' = Collected /\ Collected = {}
    BY <1>1 DEF Vectors, Collected, IInv, HeadsInv
  <1>11. QueueInv'
    <2>1. ASSUME NEW t \in Vectors PROVE some /\ InLap(due[t], bucket[t], c, n)
      <3>1. some
        BY <1>3, <2>1
      <3>2. /\ InLap(due[t], bucket[t], clk, next_expiry) /\ due[t] \in Times /\ bucket[t] \in Buckets
            /\ Minus(n, clk) <= Minus(due[t], clk)
        BY <1>2, <1>3, <1>4, <2>1, <3>1 DEF IInv, QueueInv, TypeOK, Vectors
      <3>3. /\ Minus(c, clk) <= Minus(n, clk) /\ Minus(n, c) = Minus(n, clk) - Minus(c, clk)
            /\ Minus(c, clk) \in Nat /\ Minus(n, clk) \in Nat /\ Minus(due[t], clk) \in Nat
        BY <1>2, <1>6, <1>7, <3>1, <3>2, MinusNat
      <3>4. Minus(c, clk) <= Minus(due[t], clk)
        BY <3>2, <3>3
      <3>5. Minus(due[t], c) = Minus(due[t], clk) - Minus(c, clk)
        BY <1>2, <1>7, <3>2, <3>4, Sum
      <3>6. Minus(n, c) <= Minus(due[t], c)
        BY <3>2, <3>3, <3>5
      <3>7. InLap(due[t], bucket[t], c, n)
        BY <1>2, <1>6, <1>7, <3>2, <3>4, <3>6, InLapShift
      <3> QED BY <3>1, <3>7
    <2> QED BY <1>1, <1>10, <2>1 DEF QueueInv, InLap, Minus, MAX
  <1>12. HeadsInv'
    BY <1>10 DEF HeadsInv
  <1>13. ExpiryInv'
    BY <1>1 DEF IInv, ExpiryInv, Pending, Level, Rounded, Minus, Reach
  <1>14. LeftInv' /\ MapInv'
    BY <1>1, <1>10 DEF IInv, LeftInv, MapInv
  <1>15. FirstInv'
    BY <1>1, <1>3, <1>4, <1>10 DEF FirstInv
  <1>16. IdleInv'
    <2>1. kicked' => is_idle'
      BY <1>1, <1>2 DEF IInv, IdleInv, TypeOK
    <2>2. ~run'
      BY <1>1
    <2>3. ASSUME is_idle' PROVE wakeup' = IF some THEN n ELSE Never
      <3>1. CASE is_idle \/ Before(Plus(jiffies, 1), n)
        BY <1>1, <3>1
      <3>2. CASE ~(is_idle \/ Before(Plus(jiffies, 1), n))
        BY <1>1, <2>3, <3>2
      <3> QED BY <3>1, <3>2
    <2>4. some => Ahead(n) <= MAX + 1 + MaxLag
      BY <1>5, <1>6, NextAhead
    <2>5. Ahead(n) \in Nat
      BY <1>2, <1>6, AheadIs
    <2>6. ASSUME is_idle', wakeup' # Never
          PROVE  Ahead(wakeup)' <= MAX + 1 + MaxLag /\ (~kicked' => Ahead(wakeup)' <= Ahead(next_expiry)')
      <3>1. some /\ wakeup' = n
        BY <2>3, <2>6
      <3>2. Ahead(wakeup)' = Ahead(n) /\ Ahead(next_expiry)' = Ahead(n)
        BY <1>1, <3>1 DEF Ahead, Minus, Plus
      <3> QED BY <2>4, <2>5, <3>1, <3>2
    <2>7. ASSUME is_idle', wakeup' = Never PROVE ~timers_pending'
      <3>1. Never \notin Times
        BY ConstAssumption
      <3> QED BY <1>1, <1>6, <2>3, <2>7, <3>1
    <2> QED BY <2>1, <2>2, <2>6, <2>7 DEF IdleInv, MAX
  <1> QED BY <1>8, <1>9, <1>11, <1>12, <1>13, <1>14, <1>15, <1>16 DEF IInv

\* A timer of the wheel is in a bucket that is collected at n just when n is its time.
LEMMA HitIs ==
    ASSUME IInv, NEW t \in Vectors
    PROVE  bucket[t] \in DueBuckets(next_expiry) \cap pending_map <=> due[t] = next_expiry
  <1> DEFINE n == next_expiry
             b == bucket[t]
             D == due[t]
             l == b[1]
             g == LVL_GRAN(l)
  <1>1. n \in Times /\ D \in Times /\ clk \in Times /\ b \in Buckets /\ InLap(D, b, clk, n) /\ b \in pending_map
    BY DEF IInv, TypeOK, QueueInv, Vectors, MapInv
  <1>2. l \in Levels /\ b = <<l, b[2]>>
    BY <1>1, BucketIs
  <1>3. D % g = 0 /\ b[2] = (D \div g) % LVL_SIZE /\ Minus(n, clk) <= Minus(D, clk) /\ Minus(D, clk) < LVL_SIZE * g
    BY <1>1 DEF InLap
  <1>4. DueBuckets(n) = {<<k, (n \div LVL_GRAN(k)) % LVL_SIZE>> : k \in {k \in Levels : n % LVL_GRAN(k) = 0}}
    BY DEF DueBuckets
  <1> HIDE DEF n, b, D, l
  <1>5. ASSUME D = n PROVE b \in DueBuckets(n)
    BY <1>2, <1>3, <1>4, <1>5
  <1>6. ASSUME b \in DueBuckets(n) PROVE D = n
    <2>1. n % g = 0 /\ b[2] = (n \div g) % LVL_SIZE
      <3>1. PICK k \in Levels : n % LVL_GRAN(k) = 0 /\ b = <<k, (n \div LVL_GRAN(k)) % LVL_SIZE>>
        BY <1>4, <1>6
      <3>2. k = l /\ b[2] = (n \div LVL_GRAN(k)) % LVL_SIZE
        BY <3>1 DEF l
      <3> QED BY <3>1, <3>2
    <2>2. Minus(n, clk) < LVL_SIZE * g
      <3>1. Minus(n, clk) \in Nat /\ Minus(D, clk) \in Nat
        BY <1>1, MinusNat
      <3> DEFINE s == LVL_SIZE * g
      <3>2. s \in Nat
        BY <1>2, LevelFacts
      <3> HIDE DEF s
      <3>3. Minus(n, clk) < s
        BY <1>3, <3>1, <3>2 DEF s
      <3> QED BY <3>3 DEF s
    <2> QED BY <1>1, <1>2, <1>3, <2>1, <2>2, SameLap
  <1> QED BY <1>1, <1>5, <1>6 DEF n, b, D

\* Collecting what is due
LEMMA CollectStep == ASSUME IInv, Collect PROVE IInv'
  <1> DEFINE hit == DueBuckets(next_expiry) \cap pending_map
             map == pending_map \ hit
             c == Plus(next_expiry, 1)
             n == NextPending(map, c)
             S == {t \in Vectors : due[t] # next_expiry}
             j == Plus(jiffies, 1)
             N == Minus(next_expiry, clk)
  <1>1. /\ SoftirqStarts \/ ExpireDone
        /\ Due
        /\ list' = [t \in Timers |-> IF list[t] = "vectors" /\ bucket[t] \in hit THEN "heads" ELSE list[t]]
        /\ pending_map' = map /\ clk' = c /\ next_expiry' = n /\ next_expiry_recalc' = FALSE
        /\ timers_pending' = (n # Plus(c, TIMER_NEXT_MAX_DELTA)) /\ run' = TRUE
        /\ UNCHANGED <<jiffies, is_idle, running_timer, expires, bucket, wakeup, kicked, due, placed>>
    BY DEF Collect, sleep, history
  <1>2. /\ TypeOK /\ jiffies \in Times /\ clk \in Times /\ next_expiry \in Times /\ j \in Times /\ c \in Times
        /\ Minus(c, next_expiry) = 1 /\ MAX \in Nat /\ MaxLag \in Nat
    BY NextTick, WordFacts DEF IInv, TypeOK
  <1>3. \A t \in Vectors : bucket[t] \in hit <=> due[t] = next_expiry
    BY HitIs
  <1>4. Collected = {}
    BY <1>1 DEF SoftirqStarts, ExpireDone, IInv, HeadsInv
  <1> HIDE DEF hit, c
  <1>5. \A t \in Timers : /\ list[t] = "vectors" /\ due[t] = next_expiry => list'[t] = "heads"
                          /\ list[t] = "vectors" /\ due[t] # next_expiry => list'[t] = "vectors"
                          /\ list[t] # "vectors" => list[t] = "none" /\ list'[t] = "none"
    <2> TAKE t \in Timers
    <2>1. list'[t] = IF list[t] = "vectors" /\ bucket[t] \in hit THEN "heads" ELSE list[t]
      BY <1>1
    <2>2. list[t] = "vectors" => t \in Vectors
      BY DEF Vectors
    <2>3. list[t] = "vectors" \/ list[t] = "none"
      BY <1>2, <1>4 DEF TypeOK, Collected
    <2> QED BY <1>3, <2>1, <2>2, <2>3
  <1>6. Vectors' = S /\ Collected' = Vectors \ S
    BY <1>5 DEF Vectors, Collected
  \* The other timers stay in their lap, which begins at the next tick of the clock.
  <1>7. N \in Nat /\ N <= MAX /\ Minus(j, clk) <= N + MaxLag + 1 /\ Minus(j, clk) \in Nat
    <2>1. N \in Nat /\ Minus(j, clk) \in Nat
      <3> HIDE DEF j
      <3> QED BY <1>2, MinusNat
    <2> QED BY <2>1 DEF IInv, ClockInv
  <1>8. MAX + MaxLag + 2 < Word \div 2 /\ Word \in Nat /\ Word \div 2 \in Nat /\ Word = 2 * (Word \div 2)
    BY WordFacts
  <1>9. Minus(c, clk) = N + 1
    <2>1. Minus(c, next_expiry) + N < Word
      <3> HIDE DEF N
      <3> QED BY <1>2, <1>7, <1>8
    <2>2. Minus(c, clk) = Minus(c, next_expiry) + N
      BY <1>2, <2>1, Sum
    <2> HIDE DEF N
    <2> QED BY <1>2, <1>7, <2>2
  <1>10. \A t \in S : due[t] \in Times /\ bucket[t] \in Buckets /\ InLap(due[t], bucket[t], c, c)
    <2> TAKE t \in S
    <2>1. due[t] \in Times /\ bucket[t] \in Buckets /\ InLap(due[t], bucket[t], clk, next_expiry) /\ due[t] # next_expiry
      BY DEF IInv, TypeOK, QueueInv, Vectors
    <2>2. N <= Minus(due[t], clk) /\ Minus(due[t], clk) \in Nat
      <3>1. Minus(due[t], clk) \in Nat
        BY <1>2, <2>1, MinusNat
      <3> QED BY <2>1, <3>1 DEF InLap
    <2>3. Minus(due[t], clk) # N
      <3> SUFFICES ASSUME Minus(due[t], clk) = N PROVE FALSE
        OBVIOUS
      <3>1. Minus(due[t], next_expiry) = Minus(due[t], clk) - N
        BY <1>2, <2>1, <2>2, Sum
      <3>2. Minus(due[t], next_expiry) = 0
        <4> HIDE DEF N
        <4> QED BY <1>7, <3>1
      <3> QED BY <1>2, <2>1, <3>2, Sum
    <2>4. Minus(c, clk) <= Minus(due[t], clk)
      <3> HIDE DEF N
      <3> QED BY <1>7, <1>9, <2>2, <2>3
    <2>5. Minus(c, c) <= Minus(due[t], c)
      <3>1. Minus(c, c) = 0 /\ Minus(due[t], c) \in Nat
        BY <1>2, <2>1, MinusNat
      <3> QED BY <3>1
    <2> QED BY <1>2, <2>1, <2>4, <2>5, InLapShift
  <1>11. \A b : b \in map <=> \E t \in S : bucket[t] = b
    <2> TAKE b
    <2>1. b \in pending_map <=> \E t \in Vectors : bucket[t] = b
      BY DEF IInv, MapInv
    <2> QED BY <1>3, <2>1
  <1>12. First(n, S, c)
    <2> HIDE DEF map, S
    <2> QED BY <1>2, <1>10, <1>11, NextPendingIs
  <1>13. /\ n \in Times /\ Minus(n, c) <= MAX /\ Minus(n, c) \in Nat
         /\ \A t \in S : Minus(n, c) <= Minus(due[t], c)
         /\ IF S = {} THEN n = Plus(c, MAX) ELSE n # Plus(c, MAX) /\ \E t \in S : due[t] = n
    <2> HIDE DEF n, S
    <2> QED BY <1>2, <1>12, MinusNat DEF First
  <1> HIDE DEF n, S, map
  <1>14. TypeOK'
    <2>1. \A t \in Timers : list'[t] \in {"vectors", "heads", "none"}
      BY <1>5
    <2>2. list' = [t \in Timers |-> list'[t]]
      BY <1>1
    <2>3. list' \in [Timers -> {"vectors", "heads", "none"}]
      BY <2>1, <2>2
    <2> QED BY <1>1, <1>2, <1>13, <2>3 DEF TypeOK
  <1>15. Minus(j, c) <= MaxLag + 1
    <2> DEFINE w == Word
               h == w \div 2
    <2>1. w \in Nat /\ h \in Nat /\ w = 2 * h /\ h > MAX + MaxLag + 2
      BY <1>8
    <2>2. jiffies \in 0 .. w - 1 /\ clk \in 0 .. w - 1 /\ j \in 0 .. w - 1 /\ next_expiry \in 0 .. w - 1 /\ c \in 0 .. w - 1
      BY <1>2 DEF Times
    <2>3. j = IF jiffies + 1 < w THEN jiffies + 1 ELSE jiffies + 1 - w
      <3>1. 1 \in 0 .. w
        BY <1>2, <2>1
      <3> QED BY <1>2, <3>1, PlusIs
    <2>4. Minus(jiffies, next_expiry) < h
      BY <1>1, <1>2, Order DEF Due
    <2>5. /\ Minus(jiffies, next_expiry) = IF jiffies >= next_expiry THEN jiffies - next_expiry ELSE jiffies - next_expiry + w
          /\ Minus(c, next_expiry) = IF c >= next_expiry THEN c - next_expiry ELSE c - next_expiry + w
          /\ N = IF next_expiry >= clk THEN next_expiry - clk ELSE next_expiry - clk + w
          /\ Minus(j, clk) = IF j >= clk THEN j - clk ELSE j - clk + w
          /\ Minus(j, c) = IF j >= c THEN j - c ELSE j - c + w
      BY <1>2, MinusIs
    <2> HIDE DEF w, h, j, N
    <2> QED BY <1>2, <1>7, <2>1, <2>2, <2>3, <2>4, <2>5
  <1>16. ClockInv'
    <2>1. ClockInv' <=> Minus(n, c) <= MAX /\ Minus(j, c) <= Minus(n, c) + MaxLag + 1
      BY <1>1 DEF ClockInv, Minus, Plus, MAX
    <2>2. Minus(j, c) \in Nat
      <3> HIDE DEF j
      <3> QED BY <1>2, MinusNat
    <2> HIDE DEF j
    <2> QED BY <1>2, <1>13, <1>15, <2>1, <2>2
  <1>17. QueueInv'
    <2>1. ASSUME NEW t \in S PROVE timers_pending' /\ InLap(due[t], bucket[t], c, n)
      <3>1. timers_pending'
        BY <1>1, <1>13, <2>1 DEF MAX
      <3> QED BY <1>10, <1>13, <2>1, <3>1 DEF InLap
    <2> QED BY <1>1, <1>6, <2>1 DEF QueueInv, InLap, Minus, MAX
  <1>18. HeadsInv'
    <2>1. ASSUME NEW t \in Collected'
          PROVE  run' /\ Minus(clk', due'[t]) >= 1 /\ Minus(clk', due'[t]) + Minus(next_expiry', clk') <= MAX + 1
      <3>1. due[t] = next_expiry
        BY <1>6, <2>1 DEF S
      <3>2. due'[t] = next_expiry /\ clk' = c /\ next_expiry' = n
        BY <1>1, <3>1
      <3> QED BY <1>1, <1>2, <1>13, <3>2
    <2> QED BY <2>1 DEF HeadsInv, Minus, MAX
  <1>19. ExpiryInv'
    <2>1. ASSUME NEW t \in Timers, list'[t] # "none", placed'[t] = "exact"
          PROVE  Rounded(due'[t], expires'[t], bucket'[t][1])
      <3>1. list[t] # "none"
        BY <1>5, <2>1
      <3> QED BY <1>1, <2>1, <3>1 DEF IInv, ExpiryInv, Pending, Level
    <2> QED BY <2>1 DEF ExpiryInv, Pending, Level, Rounded, Minus, Reach
  <1>20. LeftInv'
    BY <1>1, <1>6 DEF IInv, LeftInv, S
  <1>21. MapInv'
    BY <1>1, <1>6, <1>11 DEF MapInv
  <1>22. FirstInv'
    <2>1. timers_pending' => S # {}
      BY <1>1, <1>13 DEF MAX
    <2> QED BY <1>1, <1>6, <1>13, <2>1 DEF FirstInv
  \* A later timer does not make the wakeup too late.
  <1>23. IdleInv'
    <2>1. IdleInv
      BY DEF IInv
    <2>2. is_idle => wakeup # Never
      BY <1>1, <2>1 DEF SoftirqStarts, ExpireDone, IdleInv
    <2>3. Ahead(next_expiry) <= Ahead(n)
      <3> DEFINE w == Word
                 h == w \div 2
                 p == Plus(next_expiry, MaxLag)
                 q == Plus(n, MaxLag)
                 y == Minus(p, jiffies)
                 z == Minus(q, jiffies)
      <3>1. w \in Nat /\ h \in Nat /\ w = 2 * h /\ h > MAX + MaxLag + 2
        BY <1>8
      <3>2. jiffies \in 0 .. w - 1 /\ next_expiry \in 0 .. w - 1 /\ c \in 0 .. w - 1 /\ n \in 0 .. w - 1
        BY <1>2, <1>13 DEF Times
      <3>3. /\ p \in Times /\ p = (IF next_expiry + MaxLag < w THEN next_expiry + MaxLag ELSE next_expiry + MaxLag - w)
            /\ q \in Times /\ q = (IF n + MaxLag < w THEN n + MaxLag ELSE n + MaxLag - w)
        <4>1. MaxLag \in 0 .. w
          BY <1>2, <3>1
        <4> QED BY <1>2, <1>13, <4>1, PlusIs
      <3>4. p \in 0 .. w - 1 /\ q \in 0 .. w - 1
        BY <3>3 DEF Times
      <3>5. /\ y = IF p >= jiffies THEN p - jiffies ELSE p - jiffies + w
            /\ z = IF q >= jiffies THEN q - jiffies ELSE q - jiffies + w
            /\ Minus(c, next_expiry) = IF c >= next_expiry THEN c - next_expiry ELSE c - next_expiry + w
            /\ Minus(n, c) = IF n >= c THEN n - c ELSE n - c + w
        BY <1>2, <1>13, <3>3, MinusIs
      <3>6. y <= MAX + 1 + MaxLag
        <4>1. N <= N
          BY <1>7
        <4>2. Ahead(next_expiry) <= MAX + 1 + MaxLag
          BY <1>2, <1>7, <4>1, NextAhead
        <4> QED BY <4>2 DEF Ahead
      <3>7. y <= MaxLag
        \* next_expiry is due.
        <4>1. Minus(jiffies, next_expiry) < h
          BY <1>1, <1>2, Order DEF Due
        <4>2. Minus(jiffies, next_expiry) = IF jiffies >= next_expiry THEN jiffies - next_expiry ELSE jiffies - next_expiry + w
          BY <1>2, MinusIs
        <4> HIDE DEF w, h, p, y
        <4> QED BY <1>2, <3>1, <3>2, <3>3, <3>4, <3>5, <3>6, <4>1, <4>2
      <3> HIDE DEF w, h, p, q, y, z
      <3>8. y <= z
        BY <1>2, <1>13, <3>1, <3>2, <3>3, <3>4, <3>5, <3>7
      <3> QED BY <3>8 DEF Ahead, y, z, p, q
    <2>4. Ahead(next_expiry) \in Nat /\ Ahead(n) \in Nat
      BY <1>2, <1>13, AheadIs
    <2>5. ASSUME is_idle', wakeup' # Never
          PROVE  Ahead(wakeup)' <= MAX + 1 + MaxLag /\ (~kicked' => Ahead(wakeup)' <= Ahead(next_expiry)')
      <3>1. Ahead(wakeup)' = Ahead(wakeup) /\ Ahead(next_expiry)' = Ahead(n)
        BY <1>1 DEF Ahead, Minus, Plus
      <3>2. is_idle /\ wakeup # Never /\ kicked' = kicked /\ wakeup \in Times
        BY <1>1, <1>2, <2>5 DEF TypeOK
      <3>3. Ahead(wakeup) <= MAX + 1 + MaxLag /\ (~kicked => Ahead(wakeup) <= Ahead(next_expiry))
        BY <2>1, <3>2 DEF IdleInv
      <3>4. Ahead(wakeup) \in Nat
        BY <1>2, <3>2, AheadIs
      <3> QED BY <2>3, <2>4, <3>1, <3>2, <3>3, <3>4
    <2> QED BY <1>1, <2>1, <2>2, <2>5 DEF IdleInv, MAX
  <1> QED BY <1>14, <1>16, <1>17, <1>18, <1>19, <1>20, <1>21, <1>22, <1>23 DEF IInv

-----------------------------------------------------------------------------
\* The invariant holds in every behaviour.

LEMMA InitIInv == Init => IInv
  <1> SUFFICES ASSUME Init PROVE IInv
    OBVIOUS
  <1>1. Start \in Times /\ MAX \in 0 .. Word - 1 /\ MAX \in 0 .. Word /\ MAX \in Nat /\ MaxLag \in Nat \ {0}
    BY ConstAssumption, WordFacts
  <1>2. next_expiry \in Times /\ Minus(next_expiry, clk) = MAX
    BY <1>1, PlusIs, MinusPlus DEF Init, MAX
  <1>3. Minus(Plus(jiffies, 1), clk) = 1
    BY <1>1, NextTick DEF Init
  <1>4. Vectors = {} /\ Collected = {} /\ \A t \in Timers : ~Pending(t)
    BY DEF Init, Vectors, Collected, Pending
  <1>5. TypeOK
    BY <1>1, <1>2, FirstBucket DEF TypeOK, Init
  <1>6. ClockInv
    BY <1>1, <1>2, <1>3 DEF ClockInv
  <1>7. QueueInv /\ HeadsInv /\ ExpiryInv /\ LeftInv
    BY <1>4 DEF QueueInv, HeadsInv, ExpiryInv, LeftInv
  <1>8. MapInv /\ FirstInv /\ IdleInv
    BY <1>4 DEF MapInv, FirstInv, IdleInv, Init
  <1> QED BY <1>5, <1>6, <1>7, <1>8 DEF IInv

LEMMA StutterStep == ASSUME IInv, UNCHANGED vars PROVE IInv'
  <1>1. UNCHANGED <<jiffies, clk, next_expiry, next_expiry_recalc, timers_pending, is_idle, pending_map, list,
                    running_timer, expires, bucket, run, wakeup, kicked, due, placed>>
    BY DEF vars, base, sleep, history
  <1>2. run' \/ Collected = {}
    BY <1>1 DEF IInv, HeadsInv
  <1>3. TypeOK' /\ ClockInv' /\ IdleInv'
    BY <1>1 DEF IInv, TypeOK, ClockInv, IdleInv, Ahead, Minus, Plus, MAX
  <1> QED BY <1>1, <1>2, <1>3, SameTimers DEF IInv

LEMMA NextStep == ASSUME IInv, WithinDelta, [Next]_vars PROVE IInv'
  <1>1. ASSUME NEW t \in Timers, NEW d \in Deltas, ModPending(t, d) PROVE IInv'
    BY <1>1, KeepBucketStep, RequeueStep DEF ModPending
  <1>2. ASSUME NEW t \in Timers, NEW d \in Deltas, ModInactive(t, d) PROVE IInv'
    BY <1>2, RequeueStep DEF ModInactive
  <1>3. ASSUME NEW t \in Timers, Delete(t) PROVE IInv'
    BY <1>3, DeleteStep
  <1>4. CASE ModNothing
    BY <1>4, ModNothingStep
  <1>5. CASE Collect
    BY <1>5, CollectStep
  <1>6. CASE Expire
    BY <1>6, ExpireStep
  <1>7. CASE CallbackDone
    BY <1>7, CallbackDoneStep
  <1>8. CASE RunDone
    BY <1>8, RunDoneStep
  <1>9. CASE Tick
    BY <1>9, TickStep
  <1>10. CASE TryToSetIdle
    BY <1>10, TryToSetIdleStep
  <1>11. CASE ClearIdle
    BY <1>11, ClearIdleStep
  <1>12. CASE UNCHANGED vars
    BY <1>12, StutterStep
  <1> QED BY <1>1, <1>2, <1>3, <1>4, <1>5, <1>6, <1>7, <1>8, <1>9, <1>10, <1>11, <1>12 DEF Next

LEMMA Invariance == Spec /\ []WithinDelta => []IInv
  <1>1. IInv /\ WithinDelta /\ [Next]_vars => IInv'
    BY NextStep
  <1> QED BY InitIInv, <1>1, PTL DEF Spec

-----------------------------------------------------------------------------
\* What it means for the timers

LEMMA NothingMissedHere == ASSUME IInv PROVE NothingMissed
  <1>1. /\ TypeOK /\ clk \in Times /\ next_expiry \in Times
        /\ Minus(next_expiry, clk) <= MAX /\ Minus(next_expiry, clk) \in Nat
    <2>1. clk \in Times /\ next_expiry \in Times /\ Minus(next_expiry, clk) <= MAX
      BY DEF IInv, TypeOK, ClockInv
    <2> QED BY <2>1, MinusNat DEF IInv
  <1> DEFINE h == Word \div 2
  <1>2. MAX \in Nat /\ h \in Nat /\ MAX < h /\ Reach \in Nat /\ Reach < h
    BY WordFacts
  <1>3. AtOrAfter(next_expiry, clk)
    <2>1. Minus(next_expiry, clk) < h
      <3> HIDE DEF h
      <3> QED BY <1>1, <1>2
    <2> QED BY <1>1, <2>1, Order
  <1>4. ASSUME NEW t \in Timers, list[t] = "vectors"
        PROVE  /\ AtOrAfter(due[t], next_expiry) /\ timers_pending
               /\ \/ /\ Before(expires[t], due[t])
                     /\ Minus(due[t], expires[t]) <= LVL_GRAN(bucket[t][1]) \/ bucket[t][1] = 0
                  \/ placed[t] = "capped"
    <2>1. t \in Vectors /\ due[t] \in Times /\ expires[t] \in Times
      BY <1>1, <1>4 DEF Vectors, TypeOK
    <2>2. /\ timers_pending /\ Minus(next_expiry, clk) <= Minus(due[t], clk) /\ Minus(due[t], clk) < MAX
          /\ Minus(due[t], clk) \in Nat
      BY <1>1, <2>1, MinusNat DEF IInv, QueueInv, InLap
    <2>3. AtOrAfter(due[t], next_expiry)
      <3>1. Minus(next_expiry, clk) < h /\ Minus(due[t], clk) < h
        <4> HIDE DEF h
        <4> QED BY <1>1, <1>2, <2>2
      <3> QED BY <1>1, <2>1, <2>2, <3>1, Compare
    <2>4. placed[t] \in {"exact", "capped"}
      BY <1>1, <2>1 DEF IInv, LeftInv, TypeOK
    <2>5. ASSUME placed[t] = "exact"
          PROVE  /\ Before(expires[t], due[t])
                 /\ Minus(due[t], expires[t]) <= LVL_GRAN(bucket[t][1]) \/ bucket[t][1] = 0
      <3>1. Rounded(due[t], expires[t], bucket[t][1])
        BY <1>4, <2>5 DEF IInv, ExpiryInv, Pending, Level
      <3>2. Minus(due[t], expires[t]) \in 1 .. h
        <4> HIDE DEF h
        <4> QED BY <1>2, <3>1 DEF Rounded
      <3> QED BY <2>1, <3>1, <3>2, Order DEF Rounded
    <2> QED BY <2>2, <2>3, <2>4, <2>5
  <1> QED BY <1>3, <1>4 DEF NothingMissed

\* No timer is missed or taken for one of another lap of the wheel (timer_recalc_next_expiry(),
\* calc_index()): the first bucket is not behind the clock, next_expiry not after any bucket, and
\* a timer no later in the wheel than one granularity after the time that was asked for.
THEOREM NothingMissedAlways == Spec /\ []WithinDelta => []NothingMissed
  <1>1. IInv => NothingMissed
    BY NothingMissedHere
  <1> QED BY Invariance, <1>1, PTL

LEMMA WakesInTimeHere == ASSUME IInv PROVE WakesInTime
  <1> SUFFICES ASSUME is_idle, ~kicked, NEW t \in Timers, list[t] = "vectors"
               PROVE  wakeup # Never /\ AtOrAfter(due[t], wakeup)
    BY DEF WakesInTime
  <1>1. /\ t \in Vectors /\ due[t] \in Times /\ clk \in Times /\ next_expiry \in Times /\ jiffies \in Times
        /\ wakeup \in Times \cup {Never}
    BY DEF Vectors, IInv, TypeOK
  <1>2. timers_pending /\ Minus(next_expiry, clk) <= Minus(due[t], clk) /\ Minus(due[t], clk) < MAX
    BY <1>1 DEF IInv, QueueInv, InLap
  <1>3. wakeup # Never /\ wakeup \in Times /\ Ahead(wakeup) <= Ahead(next_expiry)
    BY <1>1, <1>2 DEF IInv, IdleInv
  <1> DEFINE D == due[t]
             x == Minus(D, clk)
             n == Minus(next_expiry, clk)
             k == Minus(Plus(jiffies, 1), clk)
  <1>4. x \in Nat /\ n \in Nat /\ k \in Nat /\ MAX \in Nat /\ MaxLag \in Nat
    BY <1>1, MinusNat, NextTick, WordFacts
  <1>5. Ahead(D) <= MAX + 1 + MaxLag /\ Ahead(D) - MaxLag = x + 1 - k
    <2>1. x <= MAX
      <3> HIDE DEF D
      <3> QED BY <1>2, <1>4 DEF D
    <2> QED BY <1>1, <1>2, <2>1, NextAhead
  <1>6. Ahead(next_expiry) - MaxLag = n + 1 - k
    <2>1. n <= MAX /\ n <= n
      BY <1>4 DEF IInv, ClockInv
    <2> QED BY <1>1, <2>1, NextAhead
  <1>7. Ahead(D) \in Nat /\ Ahead(next_expiry) \in Nat /\ Ahead(wakeup) \in Nat
    BY <1>1, <1>3, AheadIs
  <1>8. Ahead(wakeup) <= Ahead(D)
    <2>1. n <= x
      BY <1>2
    <2> HIDE DEF x, n, k, D
    <2> QED BY <1>3, <1>4, <1>5, <1>6, <1>7, <2>1
  <1> DEFINE w == Word
             h == w \div 2
             p == Plus(D, MaxLag)
             q == Plus(wakeup, MaxLag)
             y == Minus(p, jiffies)
             z == Minus(q, jiffies)
             m == Minus(D, wakeup)
  <1>9. w \in Nat /\ h \in Nat /\ w = 2 * h /\ h > MAX + MaxLag + 2
    BY WordFacts
  <1>10. jiffies \in 0 .. w - 1 /\ D \in 0 .. w - 1 /\ wakeup \in 0 .. w - 1
    BY <1>1, <1>3 DEF Times
  <1>11. /\ p \in Times /\ p = (IF D + MaxLag < w THEN D + MaxLag ELSE D + MaxLag - w)
         /\ q \in Times /\ q = (IF wakeup + MaxLag < w THEN wakeup + MaxLag ELSE wakeup + MaxLag - w)
    <2>1. MaxLag \in 0 .. w
      BY <1>4, <1>9
    <2> QED BY <1>1, <1>3, <2>1, PlusIs
  <1>12. p \in 0 .. w - 1 /\ q \in 0 .. w - 1
    BY <1>11 DEF Times
  <1>13. /\ y = IF p >= jiffies THEN p - jiffies ELSE p - jiffies + w
         /\ z = IF q >= jiffies THEN q - jiffies ELSE q - jiffies + w
         /\ m = IF D >= wakeup THEN D - wakeup ELSE D - wakeup + w
    BY <1>1, <1>3, <1>11, MinusIs
  <1>14. y <= MAX + 1 + MaxLag /\ z <= y
    BY <1>5, <1>8 DEF Ahead
  <1>15. m < h
    <2> HIDE DEF w, h, p, q, y, z, m, D
    <2> QED BY <1>4, <1>9, <1>10, <1>11, <1>12, <1>13, <1>14
  <1> QED BY <1>1, <1>3, <1>15, Order

\* An idle CPU wakes up in time for the first bucket (__get_next_timer_interrupt()), or an IPI of
\* trigger_dyntick_cpu() is on its way.
THEOREM WakesInTimeAlways == Spec /\ []WithinDelta => []WakesInTime
  <1>1. IInv => WakesInTime
    BY WakesInTimeHere
  <1> QED BY Invariance, <1>1, PTL

LEMMA FiresOnTimeHere ==
    ASSUME IInv, [Next]_vars, NEW t \in Timers, Starts(t)
    PROVE  AtOrAfter(jiffies, due[t]) /\ (placed[t] = "exact" => AtOrAfter(jiffies, expires[t]))
  <1>1. running_timer' # running_timer /\ running_timer' # None
    BY ConstAssumption DEF Starts
  <1>2. CASE Expire
    <2>1. t \in Collected
      BY <1>2 DEF Expire, Starts
    <2> DEFINE D == due[t]
               e == expires[t]
               k == Plus(jiffies, 1)
               a == Minus(k, clk)
               b == Minus(clk, D)
               n == Minus(next_expiry, clk)
               w == Word
               h == w \div 2
    <2>2. /\ D \in Times /\ e \in Times /\ clk \in Times /\ jiffies \in Times /\ next_expiry \in Times
          /\ k \in Times /\ Minus(k, jiffies) = 1
      BY <2>1, NextTick DEF IInv, TypeOK, Collected
    <2>3. /\ a \in Nat /\ b \in Nat /\ n \in Nat /\ a <= n + MaxLag + 1 /\ b >= 1 /\ b + n <= MAX + 1
      <3>1. a <= n + MaxLag + 1 /\ b >= 1 /\ b + n <= MAX + 1
        BY <2>1 DEF IInv, ClockInv, HeadsInv
      <3>2. a \in Nat /\ b \in Nat /\ n \in Nat
        BY <2>2, MinusNat
      <3> QED BY <3>1, <3>2
    <2>4. w \in Nat /\ h \in Nat /\ w = 2 * h /\ h = MAX + MaxLag + 2 + Reach /\ MAX \in Nat /\ MaxLag \in Nat /\ Reach \in Nat
      BY WordFacts
    <2>5. a + b < w
      <3> HIDE DEF a, b, n, w, h
      <3> QED BY <2>3, <2>4
    <2>6. Minus(k, D) = a + b
      BY <2>2, <2>5, Sum
    <2>7. Minus(jiffies, D) = a + b - 1
      <3>1. Minus(jiffies, D) \in Nat /\ Minus(k, D) \in Nat
        BY <2>2, MinusNat
      <3>2. /\ Minus(k, jiffies) = IF k >= jiffies THEN k - jiffies ELSE k - jiffies + w
            /\ Minus(k, D) = IF k >= D THEN k - D ELSE k - D + w
            /\ Minus(jiffies, D) = IF jiffies >= D THEN jiffies - D ELSE jiffies - D + w
        BY <2>2, MinusIs
      <3>3. k \in 0 .. w - 1 /\ jiffies \in 0 .. w - 1 /\ D \in 0 .. w - 1
        BY <2>2 DEF Times
      <3> HIDE DEF k, a, b, n, w, h, D
      <3> QED BY <2>2, <2>3, <2>4, <2>5, <2>6, <3>1, <3>2, <3>3
    <2>8. Minus(jiffies, D) \in 0 .. MAX + MaxLag + 1
      <3> HIDE DEF k, a, b, n, w, h, D
      <3> QED BY <2>3, <2>4, <2>7
    <2>9. AtOrAfter(jiffies, D)
      <3>1. Minus(jiffies, D) < h
        <4> HIDE DEF h, D
        <4> QED BY <2>4, <2>8
      <3> QED BY <2>2, <3>1, Order
    <2>10. ASSUME placed[t] = "exact" PROVE AtOrAfter(jiffies, e)
      <3>1. Minus(D, e) \in 1 .. Reach
        BY <2>1, <2>10 DEF IInv, ExpiryInv, Pending, Rounded, Collected
      <3>2. Minus(jiffies, D) + Minus(D, e) < h
        <4> HIDE DEF h, D, e
        <4> QED BY <2>4, <2>8, <3>1
      <3>3. Minus(jiffies, D) + Minus(D, e) < w
        <4> HIDE DEF h, w, D, e
        <4> QED BY <2>4, <2>8, <3>1, <3>2
      <3>4. Minus(jiffies, e) = Minus(jiffies, D) + Minus(D, e)
        BY <2>2, <3>3, Sum
      <3> QED BY <2>2, <3>2, <3>4, Order
    <2> QED BY <2>9, <2>10
  <1>3. CASE CallbackDone
    BY <1>1, <1>3 DEF CallbackDone
  <1>4. CASE UNCHANGED running_timer
    BY <1>1, <1>4
  <1>5. ASSUME NEW u \in Timers, NEW d \in Deltas, ModPending(u, d) \/ ModInactive(u, d) PROVE UNCHANGED running_timer
    BY <1>5 DEF ModPending, ModInactive, KeepBucket, Requeue, ForwardOnly
  <1>6. ModNothing \/ (\E u \in Timers : Delete(u)) \/ Collect \/ RunDone \/ Tick \/ TryToSetIdle \/ ClearIdle
        => UNCHANGED running_timer
    BY DEF ModNothing, ForwardOnly, Delete, Collect, RunDone, Tick, TryToSetIdle, ClearIdle
  <1>7. UNCHANGED vars => UNCHANGED running_timer
    BY DEF vars
  <1> QED BY <1>2, <1>3, <1>4, <1>5, <1>6, <1>7 DEF Next

\* No timer fires early: expire_timers() calls the function of a timer when its bucket is due, and
\* when the time that was asked for has come if the timer is within the capacity of the wheel.
THEOREM FiresOnTimeAlways == Spec /\ []WithinDelta => FiresOnTime
  <1>1. IInv /\ [Next]_vars =>
        [\A t \in Timers : Starts(t) =>
            /\ AtOrAfter(jiffies, due[t])
            /\ placed[t] = "exact" => AtOrAfter(jiffies, expires[t])]_vars
    BY FiresOnTimeHere
  <1> QED BY Invariance, <1>1, PTL DEF Spec, FiresOnTime

\* The idle loop never leaves next_expiry behind the clock: the warning would leave the clock as
\* it is, and the invariant says that next_expiry is not behind the clock after the step.
LEMMA IdleForwards ==
    ASSUME NothingMissed', TryToSetIdle, ~Before(jiffies, next_expiry')
    PROVE  AtOrAfter(next_expiry', clk)
  <1>1. AtOrAfter(next_expiry', clk')
    BY DEF NothingMissed, AtOrAfter, Before, Minus, Word
  <1>2. clk' = Forwarded(jiffies, next_expiry')
    BY DEF TryToSetIdle
  <1>3. CASE Before(next_expiry', clk)
    <2>1. clk' = clk
      BY <1>2, <1>3 DEF Forwarded
    <2> QED BY <1>1, <2>1
  <1> QED BY <1>3 DEF AtOrAfter

\* Neither WARN_ON_ONCE() triggers: __run_timers() finds a bucket to expire unless a timer was
\* deleted or the base is empty, and next_expiry is not behind the clock when
\* __forward_timer_base() is called by mod_timer() or by the idle loop.
THEOREM NoWarningAlways == Spec /\ []WithinDelta => NoWarning
  <1>1. ASSUME IInv, timers_pending, ~next_expiry_recalc PROVE DueBuckets(next_expiry) \cap pending_map # {}
    <2>1. PICK t \in Vectors : due[t] = next_expiry
      BY <1>1 DEF IInv, FirstInv
    <2> QED BY <1>1, <2>1, HitIs
  <1>2. IInv => NothingMissed
    BY NothingMissedHere
  <1>3. IInv' => NothingMissed'
    BY <1>2, PTL
  <1>4. ASSUME IInv PROVE AtOrAfter(next_expiry, clk)
    BY <1>2, <1>4 DEF NothingMissed
  <1>5. ASSUME IInv, TryToSetIdle, ~Before(jiffies, next_expiry') PROVE AtOrAfter(next_expiry', clk)
    <2>1. NothingMissed'
      BY <1>3, <1>5, TryToSetIdleStep
    <2> QED BY <1>5, <2>1, IdleForwards
  <1>6. IInv /\ [Next]_vars =>
        [/\ Collects => \/ DueBuckets(next_expiry) \cap pending_map # {}
                        \/ next_expiry_recalc \/ ~timers_pending
         /\ Unlocked => AtOrAfter(next_expiry, clk)
         /\ TryToSetIdle /\ ~Before(jiffies, next_expiry') => AtOrAfter(next_expiry', clk)]_vars
    BY <1>1, <1>4, <1>5
  <1> QED BY Invariance, <1>6, PTL DEF Spec, NoWarning

=============================================================================
