------------------------ MODULE Timekeeping_proofs ------------------------
(***************************************************************************)
(* Proofs about Timekeeping: the clocks the timekeeper hands out never go   *)
(* backwards, all interfaces tell the same time, the time spent asleep is   *)
(* counted once, and hrtimers see a leap second when it happens.  The last  *)
(* part is about TkReaders, the readers that meet an update under way.      *)
(*                                                                         *)
(* The two clocks are followed as sums of shifted nanoseconds at the last   *)
(* update (Sum, RawSum), to which a reader adds the cycles since then times *)
(* the multiplier.  Every operation of the timekeeper is shown to leave the *)
(* quotient of that sum alone; the counter is followed modulo its size.     *)
(***************************************************************************)
EXTENDS Timekeeping, TkReaders, WellFoundedInduction, TLAPS

-----------------------------------------------------------------------------
\* The invariant

TkFields ==
    {"clock", "cycle_last", "mult", "xtime_sec", "xtime_nsec", "coarse_nsec", "raw_sec", "raw_nsec",
     "wall_to_monotonic", "offs_real", "offs_boot", "offs_tai", "tai_offset", "next_leap_ktime",
     "clock_was_set_seq", "skip_second_overflow", "base", "base_real", "raw_base", "ktime_sec"}

\* A struct timekeeper
IsTk(t) ==
    /\ t = [f \in TkFields |-> t[f]]
    /\ t.clock \in Clocks /\ t.cycle_last \in Nat /\ t.mult \in Nat
    /\ {t.xtime_sec, t.xtime_nsec, t.coarse_nsec, t.raw_sec, t.raw_nsec} \subseteq Int
    /\ {t.wall_to_monotonic, t.offs_real, t.offs_boot, t.offs_tai, t.tai_offset} \subseteq Int

\* CLOCK_MONOTONIC and CLOCK_MONOTONIC_RAW at cycle_last, in shifted nanoseconds
Unit(t) == Pow2(Source[t.clock].shift)
Sum(t) == (t.xtime_sec * NSEC_PER_SEC + t.wall_to_monotonic) * Unit(t) + t.xtime_nsec
RawSum(t) == (t.raw_sec * NSEC_PER_SEC) * Unit(t) + t.raw_nsec

\* The offsets agree.
Offsets(t) ==
    /\ t.offs_real = -t.wall_to_monotonic
    /\ t.offs_tai = t.offs_real + t.tai_offset * NSEC_PER_SEC

\* Less than a second is left to be counted
Settled(t) ==
    /\ 0 <= t.xtime_nsec /\ t.xtime_nsec < ShiftedSec(t)
    /\ 0 <= t.raw_nsec /\ t.raw_nsec < ShiftedSec(t)

MultsOf(c) == Source[c].mult - MaxAdj .. Source[c].mult + MaxAdj

Good(t) ==
    /\ IsTk(t) /\ t.mult \in MultsOf(t.clock)
    /\ t.cycle_last < Source[t.clock].size
    /\ Offsets(t) /\ Settled(t)

\* What is computed for the readers
Shows(t) ==
    /\ t.base = t.xtime_sec * NSEC_PER_SEC + t.wall_to_monotonic
    /\ t.base_real = t.base + t.offs_real
    /\ t.raw_base = t.raw_sec * NSEC_PER_SEC
    /\ t.ktime_sec = (Xtime(t) + t.wall_to_monotonic) \div NSEC_PER_SEC

\* What a second that is counted, or published, leaves alone
Carried(t, u) ==
    /\ u.clock = t.clock /\ u.cycle_last = t.cycle_last /\ u.mult = t.mult
    /\ u.raw_sec = t.raw_sec /\ u.raw_nsec = t.raw_nsec /\ u.coarse_nsec = t.coarse_nsec
    /\ u.offs_boot = t.offs_boot

\* The counter of c after time x awake and z asleep, and before it wraps
CountAt(c, x, z) ==
    (x + (IF Source[c].nonstop THEN z ELSE 0) + Source[c].phase) \div Source[c].period
CounterAt(c, x, z) == CountAt(c, x, z) % Source[c].size

\* Cycles from the last update to the value r of the counter
Gap(t, r) == (r - t.cycle_last) % Source[t.clock].size

\* Cycles since the last update as a reader sees them
Elapsed(t, p, x, z) == IF p.suspended THEN 0 ELSE Gap(t, CounterAt(t.clock, x, z))

\* Sleep is counted when it has been added, by the resume or by the RTC; until then
\* CLOCK_BOOTTIME is what the RTC showed when the system went to sleep.
PowerInv(t, p, z) ==
    /\ p \in [suspended : BOOLEAN, cycles : Nat, timing_needed : BOOLEAN, rtc : Nat]
    /\ p.rtc <= z
    /\ p.suspended => p.cycles = t.cycle_last /\ p.timing_needed
    /\ t.offs_boot = IF p.timing_needed THEN p.rtc ELSE z

\* An update leaves less than an interval, and the time since then is bounded.
UpdateInv(t, p, x, z, u) ==
    /\ x \in Nat /\ z \in Nat /\ u \in Nat /\ u <= x /\ x <= u + MaxIdle
    /\ ~p.suspended => Elapsed(t, p, x, z) < CountAt(t.clock, x, z) - CountAt(t.clock, u, z)
                                                + CycleInterval(t.clock)

InvOf(t, p, x, z, u) == Good(t) /\ Shows(t) /\ PowerInv(t, p, z) /\ UpdateInv(t, p, x, z, u)

IInv == InvOf(tk, power, now, slept, updated)
-----------------------------------------------------------------------------
\* Division

\* Quotient and remainder
LEMMA DivMod ==
    ASSUME NEW x \in Int, NEW d \in Nat \ {0}
    PROVE  /\ x \div d \in Int /\ x % d \in Int
           /\ x = d * (x \div d) + (x % d) /\ 0 <= x % d /\ x % d < d
  OBVIOUS

\* From one multiple to the next
LEMMA NextMultiple ==
    ASSUME NEW d \in Nat \ {0}, NEW a \in Int, NEW b \in Int, a < b
    PROVE  d * a + d <= d * b
  OBVIOUS

\* Quotient and remainder are unique.
LEMMA DivUnique ==
    ASSUME NEW x \in Int, NEW d \in Nat \ {0}, NEW q \in Int, NEW r \in Int,
           x = d * q + r, 0 <= r, r < d
    PROVE  x \div d = q /\ x % d = r
  <1> DEFINE e == x \div d
             m == x % d
  <1>1. e \in Int /\ m \in Int /\ x = d * e + m /\ 0 <= m /\ m < d
    BY DivMod
  <1> HIDE DEF e, m
  <1>2. ~(e < q) /\ ~(q < e)
    BY <1>1, NextMultiple
  <1>3. e = q
    BY <1>1, <1>2
  <1>4. m = r
    BY <1>1, <1>3
  <1> QED BY <1>3, <1>4 DEF e, m

\* Whole units may be taken out of a division.
LEMMA DivShift ==
    ASSUME NEW a \in Int, NEW x \in Int, NEW d \in Nat \ {0}
    PROVE  /\ (a * d + x) \div d = a + (x \div d)
           /\ (a * d + x) % d = x % d
  <1> DEFINE e == x \div d
             m == x % d
  <1>1. e \in Int /\ m \in Int /\ x = d * e + m /\ 0 <= m /\ m < d
    BY DivMod
  <1> HIDE DEF e, m
  <1>2. a + e \in Int /\ a * d + x \in Int /\ a * d + x = d * (a + e) + m
    BY <1>1
  <1>3. (a * d + x) \div d = a + e /\ (a * d + x) % d = m
    BY <1>1, <1>2, DivUnique
  <1> QED BY <1>3 DEF e, m

\* Division keeps the order.
LEMMA DivMono ==
    ASSUME NEW a \in Int, NEW b \in Int, a <= b, NEW d \in Nat \ {0}
    PROVE  a \div d <= b \div d
  <1> DEFINE e == a \div d
             f == b \div d
  <1>1. /\ e \in Int /\ f \in Int /\ d * e <= a /\ b < d * f + d
    BY DivMod
  <1> HIDE DEF e, f
  <1>2. ~(f < e)
    BY <1>1, NextMultiple
  <1> QED BY <1>1, <1>2 DEF e, f

\* A quotient below a bound
LEMMA DivBound ==
    ASSUME NEW x \in Int, NEW d \in Nat \ {0}, NEW n \in Int, 0 <= x, x < n * d
    PROVE  x \div d \in Int /\ 0 <= x \div d /\ x \div d < n
  <1> DEFINE e == x \div d
  <1>1. e \in Int /\ d * e <= x /\ x < d * e + d
    BY DivMod
  <1> HIDE DEF e
  <1>2. n * d = d * n
    OBVIOUS
  <1>3. ~(n <= e)
    <2> SUFFICES ASSUME n <= e PROVE FALSE
      OBVIOUS
    <2>1. d * n <= d * e
      BY <1>1
    <2> QED BY <1>1, <1>2, <2>1
  <1>4. ~(e < 0)
    BY <1>1, NextMultiple
  <1> QED BY <1>1, <1>3, <1>4 DEF e

\* A remainder that is nothing to take out of
LEMMA ModSmall ==
    ASSUME NEW x \in Int, NEW d \in Nat \ {0}, 0 <= x, x < d
    PROVE  x % d = x
  <1>1. x = d * 0 + x
    OBVIOUS
  <1> QED BY <1>1, DivUnique

\* Rounding twice is rounding once.
LEMMA DivTwice ==
    ASSUME NEW x \in Nat, NEW p \in Nat \ {0}, NEW q \in Nat \ {0}
    PROVE  ((x * q) \div p) \div q = x \div p
  <1> DEFINE y == (x * q) \div p
             z == y \div q
  <1>1. y \in Int /\ p * y <= x * q /\ x * q < p * y + p
    BY DivMod
  <1>2. z \in Int /\ q * z <= y /\ y < q * z + q
    BY <1>1, DivMod
  <1> HIDE DEF y, z
  <1>3. y + 1 <= q * z + q
    BY <1>1, <1>2
  <1>4. p * (q * z) <= p * y /\ p * (y + 1) <= p * (q * z + q)
    <2> DEFINE w == q * z
    <2>1. w \in Int /\ w <= y /\ y + 1 <= w + q
      BY <1>2, <1>3
    <2> HIDE DEF w
    <2>2. p * w <= p * y
      BY <1>1, <2>1
    <2>3. p * (y + 1) <= p * (w + q)
      BY <1>1, <2>1
    <2> QED BY <2>2, <2>3 DEF w
  <1>5. q * (p * z) <= q * x
    BY <1>1, <1>2, <1>4
  <1>6. q * x < q * (p * z + p)
    BY <1>1, <1>2, <1>4
  <1>7. p * z <= x
    <2> DEFINE w == p * z
    <2>1. w \in Int /\ q * w <= q * x
      BY <1>2, <1>5
    <2> HIDE DEF w
    <2>2. ~(x < w)
      BY <2>1, NextMultiple
    <2> QED BY <2>1, <2>2 DEF w
  <1>8. x < p * z + p
    <2> DEFINE w == p * z + p
    <2>1. w \in Int /\ q * x < q * w
      BY <1>2, <1>6
    <2> HIDE DEF w
    <2>2. ~(w <= x)
      <3> SUFFICES ASSUME w <= x PROVE FALSE
        OBVIOUS
      <3>1. q * w <= q * x
        BY <2>1
      <3> QED BY <2>1, <3>1
    <2> QED BY <2>1, <2>2 DEF w
  <1>9. x = p * z + (x - p * z) /\ x - p * z \in Int
    BY <1>2
  <1>10. x \div p = z
    BY <1>2, <1>7, <1>8, <1>9, DivUnique
  <1> QED BY <1>10 DEF z, y

-----------------------------------------------------------------------------
\* Counters that wrap.  The remainder has a name, which hides it from the arithmetic.

Rem(x, d) == x % d

\* The remainder is that of some quotient
LEMMA RemIs ==
    ASSUME NEW x \in Int, NEW d \in Nat \ {0}
    PROVE  /\ Rem(x, d) \in Int /\ 0 <= Rem(x, d) /\ Rem(x, d) < d
           /\ \E q \in Int : x = d * q + Rem(x, d)
  <1>1. x \div d \in Int
    BY DivMod
  <1> QED BY <1>1, DivMod DEF Rem

\* and there is only one.
LEMMA RemUnique ==
    ASSUME NEW x \in Int, NEW d \in Nat \ {0}, NEW q \in Int, NEW r \in Int,
           x = d * q + r, 0 <= r, r < d
    PROVE  Rem(x, d) = r
  BY DivUnique DEF Rem

\* One cycle on
LEMMA RemNext ==
    ASSUME NEW c \in Int, NEW l \in Int, NEW s \in Nat \ {0},
           Rem(Rem(c, s) - l, s) + 1 < s
    PROVE  Rem(Rem(c + 1, s) - l, s) = Rem(Rem(c, s) - l, s) + 1
  <1> DEFINE r == Rem(c, s)
             e == Rem(r - l, s)
  <1>1. r \in Int /\ 0 <= r /\ r < s
    BY RemIs
  <1>2. PICK q \in Int : c = s * q + r
    BY RemIs
  <1>3. e \in Int /\ 0 <= e /\ e + 1 < s
    BY <1>1, RemIs
  <1>a. r - l \in Int
    BY <1>1
  <1>4. PICK k \in Int : r - l = s * k + e
    BY <1>a, RemIs
  <1> HIDE DEF r, e
  <1>5. CASE r + 1 < s
    <2>1. c + 1 = s * q + (r + 1)
      BY <1>1, <1>2
    <2>2. Rem(c + 1, s) = r + 1
      BY <1>1, <1>5, <2>1, RemUnique
    <2>3. (r + 1) - l = s * k + (e + 1)
      BY <1>1, <1>3, <1>4
    <2>4. Rem((r + 1) - l, s) = e + 1
      BY <1>1, <1>3, <2>3, RemUnique
    <2> QED BY <2>2, <2>4 DEF r, e
  <1>6. CASE r + 1 = s
    <2>1. c + 1 = s * (q + 1) + 0
      BY <1>1, <1>2, <1>6
    <2>2. Rem(c + 1, s) = 0
      BY <2>1, RemUnique
    <2>3. 0 - l = s * (k - 1) + (e + 1)
      BY <1>1, <1>3, <1>4, <1>6
    <2>4. Rem(0 - l, s) = e + 1
      BY <1>3, <2>3, RemUnique
    <2> QED BY <2>2, <2>4 DEF r, e
  <1> QED BY <1>1, <1>5, <1>6

\* One cycle less
LEMMA RemBefore ==
    ASSUME NEW r \in Int, NEW l \in Int, NEW s \in Nat \ {0}
    PROVE  Rem((r - 1) - l, s) = IF Rem(r - l, s) = 0 THEN s - 1 ELSE Rem(r - l, s) - 1
  <1> DEFINE e == Rem(r - l, s)
  <1>1. e \in Int /\ 0 <= e /\ e < s
    BY RemIs
  <1>a. r - l \in Int
    OBVIOUS
  <1>2. PICK k \in Int : r - l = s * k + e
    BY <1>a, RemIs
  <1> HIDE DEF e
  <1>3. CASE e = 0
    <2>1. (r - 1) - l = s * (k - 1) + (s - 1)
      BY <1>1, <1>2, <1>3
    <2> QED BY <1>3, <2>1, RemUnique DEF e
  <1>4. CASE e # 0
    <2>1. (r - 1) - l = s * k + (e - 1)
      BY <1>1, <1>2
    <2>2. Rem((r - 1) - l, s) = e - 1
      BY <1>1, <1>4, <2>1, RemUnique
    <2> QED BY <1>4, <2>2 DEF e
  <1> QED BY <1>3, <1>4

\* The last update comes n cycles closer.
LEMMA RemCloser ==
    ASSUME NEW r \in Int, NEW l \in Int, NEW s \in Nat \ {0}, NEW n \in Nat, n <= Rem(r - l, s)
    PROVE  Rem(r - Rem(l + n, s), s) = Rem(r - l, s) - n
  <1> DEFINE e == Rem(r - l, s)
             m == Rem(l + n, s)
  <1>1. e \in Int /\ n <= e /\ e < s /\ m \in Int
    BY RemIs
  <1>a. r - l \in Int
    OBVIOUS
  <1>2. PICK k \in Int : r - l = s * k + e
    BY <1>a, RemIs
  <1>b. l + n \in Int
    OBVIOUS
  <1>3. PICK j \in Int : l + n = s * j + m
    BY <1>b, RemIs
  <1> HIDE DEF e, m
  <1>4. r - m = s * (k + j) + (e - n)
    BY <1>1, <1>2, <1>3
  <1>5. Rem(r - m, s) = e - n
    BY <1>1, <1>4, RemUnique
  <1> QED BY <1>5 DEF e, m

\* A counter at the last update
LEMMA RemSelf == ASSUME NEW r \in Int, NEW s \in Nat \ {0} PROVE Rem(r - r, s) = 0
  <1>1. r - r = s * 0 + 0
    OBVIOUS
  <1> QED BY <1>1, RemUnique

-----------------------------------------------------------------------------
\* accumulate_nsecs_to_secs() as a sequence of rounds

\* The function of the rounds exists for every number of them.
LEMMA RoundsExist ==
    ASSUME NEW a
    PROVE  \A m \in Nat : \E f : f = [n \in 0 .. m |-> IF n = 0 THEN a ELSE NextSec(f[n - 1])]
  <1> DEFINE Has(m) == \E f : f = [n \in 0 .. m |-> IF n = 0 THEN a ELSE NextSec(f[n - 1])]
             Bad == {m \in Nat : ~Has(m)}
  <1>1. Has(0)
    <2>1. [n \in 0 .. 0 |-> a] = [n \in 0 .. 0 |-> IF n = 0 THEN a ELSE NextSec([k \in 0 .. 0 |-> a][n - 1])]
      OBVIOUS
    <2> QED BY <2>1
  <1>2. ASSUME NEW m \in Nat, Has(m) PROVE Has(m + 1)
    <2>1. PICK f : f = [n \in 0 .. m |-> IF n = 0 THEN a ELSE NextSec(f[n - 1])]
      BY <1>2
    <2> DEFINE g == [n \in 0 .. m + 1 |-> IF n = m + 1 THEN NextSec(f[m]) ELSE f[n]]
    <2>2. ASSUME NEW n \in 0 .. m + 1 PROVE g[n] = IF n = 0 THEN a ELSE NextSec(g[n - 1])
      <3>1. CASE n = m + 1
        <4>1. m \in 0 .. m + 1 /\ g[m] = f[m] /\ n # 0 /\ n - 1 = m
          BY <3>1
        <4> QED BY <3>1, <4>1
      <3>2. CASE n \in 1 .. m
        <4>1. n - 1 \in 0 .. m /\ g[n - 1] = f[n - 1] /\ g[n] = f[n] /\ n # 0
          BY <3>2
        <4>2. f[n] = NextSec(f[n - 1])
          BY <2>1, <3>2
        <4> QED BY <4>1, <4>2
      <3>3. CASE n = 0
        <4>1. g[n] = f[n] /\ f[n] = a
          BY <2>1, <3>3
        <4> QED BY <3>3, <4>1
      <3> QED BY <3>1, <3>2, <3>3
    <2>3. g = [n \in 0 .. m + 1 |-> g[n]]
      OBVIOUS
    <2> HIDE DEF g
    <2>4. g = [n \in 0 .. m + 1 |-> IF n = 0 THEN a ELSE NextSec(g[n - 1])]
      BY <2>2, <2>3
    <2> QED BY <2>4
  <1>3. Bad = {}
    <2> SUFFICES ASSUME Bad # {} PROVE FALSE
      OBVIOUS
    <2> HIDE DEF Has
    <2>1. PICK m \in Bad : \A k \in Bad : ~(<<k, m>> \in OpToRel(<, Nat))
      BY NatLessThanWellFounded, WFMin
    <2>2. \A k \in Bad : ~(k < m)
      BY <2>1 DEF OpToRel
    <2>3. m \in Nat /\ ~Has(m) /\ m # 0
      BY <1>1
    <2>4. m - 1 \in Nat /\ Has(m - 1)
      BY <2>2, <2>3
    <2> QED BY <1>2, <2>3, <2>4
  <1> QED BY <1>3

\* AccumulateSecs() is the last of its rounds.
LEMMA Rounds ==
    ASSUME NEW a, WholeSecs(a.tk) \in Nat
    PROVE  \E f : /\ f = [n \in 0 .. WholeSecs(a.tk) |-> IF n = 0 THEN a ELSE NextSec(f[n - 1])]
                  /\ AccumulateSecs(a) = f[WholeSecs(a.tk)]
  <1> DEFINE K == WholeSecs(a.tk)
             g == CHOOSE f : f = [n \in 0 .. K |-> IF n = 0 THEN a ELSE NextSec(f[n - 1])]
  <1>1. g = [n \in 0 .. K |-> IF n = 0 THEN a ELSE NextSec(g[n - 1])]
    <2> HIDE DEF K
    <2>1. K \in Nat BY DEF K
    <2> QED BY <2>1, RoundsExist
  <1>2. AccumulateSecs(a) = g[K]
    BY DEF AccumulateSecs
  <1> HIDE DEF g
  <1> QED BY <1>1, <1>2

-----------------------------------------------------------------------------
\* The clocksources

\* What ConstAssumption says of a clocksource
LEMMA SourceFacts ==
    ASSUME NEW c \in Clocks
    PROVE  /\ Source[c].mult \in Nat /\ Source[c].mult > MaxAdj /\ MaxAdj \in Nat
           /\ Source[c].size \in Nat \ {0} /\ Source[c].size > 2
           /\ Source[c].max_cycles \in Nat /\ Source[c].phase \in Nat
           /\ Source[c].period \in Nat \ {0} /\ Source[c].nonstop \in BOOLEAN
           /\ Pow2(Source[c].shift) \in Nat \ {0} /\ NSEC_PER_SEC \in Nat \ {0}
           /\ CycleInterval(c) \in Nat \ {0}
           /\ Pow2(W) \in Nat \ {0}
           /\ Source[c].max_cycles * (Source[c].mult + MaxAdj)
                + NSEC_PER_SEC * Pow2(Source[c].shift) < Pow2(W)
  <1> DEFINE s == Source[c]
  <1>1. SourceAssumption(s) /\ NSEC_PER_SEC \in Nat \ {0} /\ NTP_INTERVAL_LENGTH \in Nat
        /\ MaxAdj \in Nat /\ W \in Nat
    BY ConstAssumption
  <1> HIDE DEF s
  <1>2. /\ {s.mult, s.shift, s.size, s.max_cycles, s.phase} \subseteq Nat /\ s.period \in Nat \ {0}
        /\ s.nonstop \in BOOLEAN /\ s.size > 2 /\ s.mult > MaxAdj
    BY <1>1 DEF SourceAssumption
  <1>3. s.shift \in Nat /\ 2 ^ s.shift \in Int /\ 2 ^ W \in Int
    BY <1>1, <1>2
  <1>4. Pow2(s.shift) \in Nat \ {0}
    BY <1>1, <1>3 DEF SourceAssumption, Pow2
  <1>5. Pow2(W) \in Int
        /\ s.max_cycles * (s.mult + MaxAdj) + NSEC_PER_SEC * Pow2(s.shift) < Pow2(W)
    BY <1>1, <1>3 DEF SourceAssumption, Pow2
  <1>6. Pow2(W) \in Nat \ {0}
    <2>1. s.max_cycles * (s.mult + MaxAdj) >= 0 /\ NSEC_PER_SEC * Pow2(s.shift) >= 0
          /\ s.max_cycles * (s.mult + MaxAdj) \in Int /\ NSEC_PER_SEC * Pow2(s.shift) \in Int
      BY <1>1, <1>2, <1>4
    <2> QED BY <1>5, <2>1
  <1>7. CycleInterval(c) \in Nat \ {0}
    <2> DEFINE x == NTP_INTERVAL_LENGTH * Pow2(s.shift) + s.mult \div 2
               y == x \div s.mult
    <2>1. s.mult \in Nat \ {0}
      BY <1>1, <1>2
    <2>2. s.mult \div 2 \in Nat
      BY <1>2
    <2>3. NTP_INTERVAL_LENGTH * Pow2(s.shift) \in Nat
      BY <1>1, <1>4
    <2>4. x \in Nat
      BY <2>2, <2>3
    <2>5. y \in Int /\ s.mult * y <= x /\ x < s.mult * y + s.mult
      <3> HIDE DEF x
      <3> DEFINE m == s.mult
      <3>1. m \in Nat \ {0} /\ x \in Int
        BY <2>1, <2>4
      <3> HIDE DEF m
      <3>2. x \div m \in Int /\ m * (x \div m) <= x /\ x < m * (x \div m) + m
        BY <3>1, DivMod
      <3> QED BY <3>2 DEF m
    <2> HIDE DEF x
    <2> HIDE DEF y
    <2>6. ~(y < 0)
      BY <2>1, <2>4, <2>5, NextMultiple
    <2>7. CycleInterval(c) = IF y = 0 THEN 1 ELSE y
      BY DEF CycleInterval, y, x, s
    <2> QED BY <2>5, <2>6, <2>7
  <1> QED BY <1>1, <1>2, <1>4, <1>5, <1>6, <1>7 DEF s

\* The same of the clocksource of a timekeeper
LEMMA UnitFacts ==
    ASSUME NEW t, IsTk(t)
    PROVE  /\ Unit(t) \in Nat \ {0} /\ NSEC_PER_SEC \in Nat \ {0}
           /\ ShiftedSec(t) = NSEC_PER_SEC * Unit(t) /\ ShiftedSec(t) \in Nat \ {0}
  BY SourceFacts DEF IsTk, Unit, ShiftedSec

-----------------------------------------------------------------------------
\* Seconds

\* NTP inserts a second, deletes one or does nothing.
LEMMA NoLeapOr == ASSUME NEW n, NEW sec PROVE SecondOverflow(n, sec).leap \in {-1, 0, 1}
  BY DEF SecondOverflow

\* A leap second moves the wall clock against CLOCK_MONOTONIC.
LEMMA LeapKeeps ==
    ASSUME NEW t, IsTk(t), NEW leap \in Int
    PROVE  LET u == ApplyLeap(t, leap)
           IN /\ IsTk(u) /\ Offsets(u) /\ Carried(t, u)
              /\ u.xtime_nsec = t.xtime_nsec /\ Sum(u) = Sum(t)
  <1> DEFINE u == ApplyLeap(t, leap)
             wtm == t.wall_to_monotonic - leap * NSEC_PER_SEC
  <1>1. NSEC_PER_SEC \in Int /\ leap * NSEC_PER_SEC \in Int /\ wtm \in Int /\ Unit(t) \in Int
        /\ (t.tai_offset - leap) \in Int /\ (t.tai_offset - leap) * NSEC_PER_SEC \in Int
    BY UnitFacts DEF IsTk
  <1> HIDE DEF wtm
  <1>2. u = [t EXCEPT !.xtime_sec = @ + leap, !.wall_to_monotonic = wtm, !.offs_real = -wtm,
                      !.tai_offset = t.tai_offset - leap,
                      !.offs_tai = -wtm + (t.tai_offset - leap) * NSEC_PER_SEC]
    BY DEF ApplyLeap, SetTaiOffset, SetWallToMono, IsTk, TkFields, wtm
  <1> HIDE DEF u
  <1>a. /\ DOMAIN u = TkFields
        /\ u.xtime_sec = t.xtime_sec + leap /\ u.wall_to_monotonic = wtm /\ u.offs_real = -wtm
        /\ u.tai_offset = t.tai_offset - leap
        /\ u.offs_tai = -wtm + (t.tai_offset - leap) * NSEC_PER_SEC
    BY <1>2 DEF IsTk, TkFields
  <1>b. Carried(t, u) /\ u.xtime_nsec = t.xtime_nsec
    BY <1>2 DEF IsTk, TkFields, Carried
  <1>c. u = [f \in TkFields |-> u[f]]
    BY <1>2, <1>a
  <1>d. IsTk(u) /\ Offsets(u)
    <2> HIDE DEF TkFields
    <2> QED BY <1>1, <1>a, <1>b, <1>c DEF IsTk, Offsets, Carried
  <1>3. /\ IsTk(u) /\ Offsets(u) /\ Carried(t, u) /\ u.xtime_nsec = t.xtime_nsec
        /\ u.xtime_sec = t.xtime_sec + leap /\ u.wall_to_monotonic = wtm
    BY <1>a, <1>b, <1>d
  <1>4. u.xtime_sec * NSEC_PER_SEC + u.wall_to_monotonic
          = t.xtime_sec * NSEC_PER_SEC + t.wall_to_monotonic
    BY <1>1, <1>3 DEF wtm, IsTk
  <1>5. Sum(u) = Sum(t)
    BY <1>3, <1>4 DEF Sum, Unit, Carried
  <1> QED BY <1>3, <1>5 DEF u

\* A record that the accumulation works on
IsAcc(a) == a = [f \in {"tk", "ntp", "clock_set"} |-> a[f]] /\ IsTk(a.tk) /\ Offsets(a.tk)

\* A round turns nanoseconds into a second.
LEMMA NextSecKeeps ==
    ASSUME NEW a, IsAcc(a)
    PROVE  LET u == NextSec(a)
           IN /\ IsAcc(u) /\ Carried(a.tk, u.tk) /\ Sum(u.tk) = Sum(a.tk)
              /\ u.tk.xtime_nsec = a.tk.xtime_nsec - ShiftedSec(a.tk)
  <1> DEFINE u == NextSec(a)
             t == [a.tk EXCEPT !.xtime_nsec = @ - ShiftedSec(a.tk), !.xtime_sec = @ + 1,
                               !.skip_second_overflow = FALSE]
             o == SecondOverflow(a.ntp, t.xtime_sec)
  <1>1. ShiftedSec(a.tk) = NSEC_PER_SEC * Unit(a.tk) /\ NSEC_PER_SEC \in Int /\ Unit(a.tk) \in Int
        /\ ShiftedSec(a.tk) \in Int
    BY UnitFacts DEF IsAcc
  <1>2. /\ IsTk(t) /\ Offsets(t) /\ Carried(a.tk, t)
        /\ t.xtime_nsec = a.tk.xtime_nsec - ShiftedSec(a.tk) /\ t.xtime_sec = a.tk.xtime_sec + 1
        /\ t.wall_to_monotonic = a.tk.wall_to_monotonic
    <2>1. /\ DOMAIN t = TkFields /\ Carried(a.tk, t) /\ t.offs_real = a.tk.offs_real
          /\ t.offs_tai = a.tk.offs_tai /\ t.tai_offset = a.tk.tai_offset
          /\ t.xtime_nsec = a.tk.xtime_nsec - ShiftedSec(a.tk) /\ t.xtime_sec = a.tk.xtime_sec + 1
          /\ t.wall_to_monotonic = a.tk.wall_to_monotonic
      BY DEF IsAcc, IsTk, TkFields, Carried
    <2>2. t = [f \in TkFields |-> t[f]]
      BY <2>1
    <2> HIDE DEF t
    <2> QED BY <1>1, <2>1, <2>2 DEF IsAcc, IsTk, Offsets, Carried
  <1>3. Sum(t) = Sum(a.tk)
    <2> DEFINE x == a.tk.xtime_sec
               w == a.tk.wall_to_monotonic
               n == a.tk.xtime_nsec
               p == Unit(a.tk)
    <2>1. x \in Int /\ w \in Int /\ n \in Int /\ p \in Int
      BY <1>1 DEF IsAcc, IsTk
    <2>2. Sum(a.tk) = (x * NSEC_PER_SEC + w) * p + n
      BY DEF Sum
    <2>3. Unit(t) = p
      BY <1>2 DEF Carried, Unit
    <2>4. Sum(t) = ((x + 1) * NSEC_PER_SEC + w) * p + (n - NSEC_PER_SEC * p)
      BY <1>1, <1>2, <2>3 DEF Sum
    <2> HIDE DEF x, w, n, p
    <2>5. ((x + 1) * NSEC_PER_SEC + w) * p + (n - NSEC_PER_SEC * p) = (x * NSEC_PER_SEC + w) * p + n
      BY <1>1, <2>1
    <2> QED BY <2>2, <2>4, <2>5
  <1>4. o.leap \in {-1, 0, 1}
    BY NoLeapOr
  <1>5. \/ u = [a EXCEPT !.tk = t]
        \/ u = [a EXCEPT !.tk = t, !.ntp = o.ntp]
        \/ u = [tk |-> ApplyLeap(t, o.leap), ntp |-> o.ntp, clock_set |-> TRUE]
    BY DEF NextSec
  <1> HIDE DEF t, o, u
  <1>6. LET v == ApplyLeap(t, o.leap)
        IN /\ IsTk(v) /\ Offsets(v) /\ Carried(t, v)
           /\ v.xtime_nsec = t.xtime_nsec /\ Sum(v) = Sum(t)
    BY <1>2, <1>4, LeapKeeps
  <1>7. u = [f \in {"tk", "ntp", "clock_set"} |-> u[f]] /\ u.tk \in {t, ApplyLeap(t, o.leap)}
    <2>1. CASE u = [a EXCEPT !.tk = t]
      BY <2>1 DEF IsAcc
    <2>2. CASE u = [a EXCEPT !.tk = t, !.ntp = o.ntp]
      BY <2>2 DEF IsAcc
    <2>3. CASE u = [tk |-> ApplyLeap(t, o.leap), ntp |-> o.ntp, clock_set |-> TRUE]
      BY <2>3
    <2> QED BY <1>5, <2>1, <2>2, <2>3
  <1>8. CASE u.tk = t
    <2>1. /\ IsAcc(u) /\ Carried(a.tk, u.tk) /\ Sum(u.tk) = Sum(a.tk)
          /\ u.tk.xtime_nsec = a.tk.xtime_nsec - ShiftedSec(a.tk)
      BY <1>2, <1>3, <1>7, <1>8 DEF IsAcc
    <2> QED BY <2>1 DEF u
  <1>9. CASE u.tk = ApplyLeap(t, o.leap)
    <2>1. Carried(a.tk, u.tk)
      BY <1>2, <1>6, <1>9 DEF Carried
    <2>2. /\ IsAcc(u) /\ Sum(u.tk) = Sum(a.tk)
          /\ u.tk.xtime_nsec = a.tk.xtime_nsec - ShiftedSec(a.tk)
      BY <1>2, <1>3, <1>6, <1>7, <1>9 DEF IsAcc
    <2> QED BY <2>1, <2>2 DEF u
  <1> QED BY <1>7, <1>8, <1>9

\* accumulate_nsecs_to_secs() only moves whole seconds, and leap seconds do not count.
LEMMA AccumulateKeeps ==
    ASSUME NEW a, IsAcc(a), 0 <= a.tk.xtime_nsec
    PROVE  LET u == AccumulateSecs(a)
           IN /\ IsAcc(u) /\ Carried(a.tk, u.tk) /\ Sum(u.tk) = Sum(a.tk)
              /\ 0 <= u.tk.xtime_nsec /\ u.tk.xtime_nsec < ShiftedSec(u.tk)
  <1> DEFINE K == WholeSecs(a.tk)
             d == ShiftedSec(a.tk)
             x == a.tk.xtime_nsec
  <1>1. x \in Int /\ 0 <= x /\ d \in Nat \ {0} /\ K = x \div d
    BY UnitFacts DEF IsAcc, IsTk, WholeSecs
  <1>2. K \in Nat /\ d * K <= x /\ x < d * K + d
    <2> HIDE DEF K, x, d
    <2>1. x \div d \in Int /\ d * (x \div d) <= x /\ x < d * (x \div d) + d
      BY <1>1, DivMod
    <2>2. K \in Int /\ d * K <= x /\ x < d * K + d
      BY <1>1, <2>1
    <2>3. ~(K < 0)
      BY <1>1, <2>2, NextMultiple
    <2> QED BY <2>2, <2>3
  <1> HIDE DEF K, x, d
  <1>3. PICK f : /\ f = [n \in 0 .. K |-> IF n = 0 THEN a ELSE NextSec(f[n - 1])]
                 /\ AccumulateSecs(a) = f[K]
    BY <1>2, Rounds DEF K
  <1> DEFINE Ok(n) == /\ IsAcc(f[n]) /\ Carried(a.tk, f[n].tk) /\ Sum(f[n].tk) = Sum(a.tk)
                      /\ f[n].tk.xtime_nsec = x - d * n
             Bad == {n \in 0 .. K : ~Ok(n)}
  <1>4. Ok(0)
    <2>1. f[0] = a
      BY <1>2, <1>3
    <2> QED BY <1>1, <2>1 DEF Carried, x
  <1>5. ASSUME NEW n \in 0 .. K, n # 0, Ok(n - 1) PROVE Ok(n)
    <2>1. f[n] = NextSec(f[n - 1])
      BY <1>3, <1>5
    <2>2. /\ IsAcc(f[n]) /\ Carried(f[n - 1].tk, f[n].tk) /\ Sum(f[n].tk) = Sum(f[n - 1].tk)
          /\ f[n].tk.xtime_nsec = f[n - 1].tk.xtime_nsec - ShiftedSec(f[n - 1].tk)
      BY <1>5, <2>1, NextSecKeeps
    <2>3. ShiftedSec(f[n - 1].tk) = d
      BY <1>5 DEF Carried, ShiftedSec, d
    <2>4. Carried(a.tk, f[n].tk)
      BY <1>5, <2>2 DEF Carried
    <2>5. f[n].tk.xtime_nsec = x - d * n
      BY <1>1, <1>2, <1>5, <2>2, <2>3
    <2> QED BY <1>5, <2>2, <2>4, <2>5
  <1>6. Bad = {}
    <2> SUFFICES ASSUME Bad # {} PROVE FALSE
      OBVIOUS
    <2>0. Bad \subseteq Nat
      BY <1>2
    <2> HIDE DEF Ok
    <2>1. PICK m \in Bad : \A k \in Bad : ~(<<k, m>> \in OpToRel(<, Nat))
      BY <2>0, NatLessThanWellFounded, WFMin
    <2>2. \A k \in Bad : ~(k < m)
      BY <2>0, <2>1 DEF OpToRel
    <2>3. m \in 0 .. K /\ ~Ok(m) /\ m # 0
      BY <1>4
    <2>4. m - 1 \in 0 .. K /\ Ok(m - 1)
      BY <1>2, <2>2, <2>3
    <2> QED BY <1>5, <2>3, <2>4
  <1>7. Ok(K)
    BY <1>2, <1>6
  <1>8. 0 <= x - d * K /\ x - d * K < d
    BY <1>1, <1>2
  <1>9. ShiftedSec(f[K].tk) = d
    BY <1>7 DEF Carried, ShiftedSec, d
  <1> QED BY <1>3, <1>7, <1>8, <1>9
-----------------------------------------------------------------------------
\* Readers

\* The two clocks e cycles after the last update
MonoAt(t, e) == (Sum(t) + e * t.mult) \div Unit(t)
RawAt(t, e) == (RawSum(t) + e * Source[t.clock].mult) \div Unit(t)

\* Cycles since the last update are less than a lap.
LEMMA GapIs ==
    ASSUME NEW t, IsTk(t), NEW r \in Int
    PROVE  Gap(t, r) \in Nat /\ Gap(t, r) < Source[t.clock].size
           /\ Source[t.clock].size \in Nat \ {0}
  <1>1. Source[t.clock].size \in Nat \ {0} /\ r - t.cycle_last \in Int
    BY SourceFacts DEF IsTk
  <1> DEFINE s == Source[t.clock].size
             a == r - t.cycle_last
  <1>2. s \in Nat \ {0} /\ a \in Int
    BY <1>1
  <1> HIDE DEF s, a
  <1>3. Rem(a, s) \in Int /\ 0 <= Rem(a, s) /\ Rem(a, s) < s
    BY <1>2, RemIs
  <1>4. Gap(t, r) = Rem(a, s)
    BY DEF Gap, Rem, s, a
  <1> QED BY <1>2, <1>3, <1>4 DEF s

\* A product does not overflow as long as max_cycles allows the quick one.
LEMMA ProductFits ==
    ASSUME NEW e \in Nat, NEW l \in Nat, e <= l, NEW m \in Nat, NEW n \in Nat, m <= n
    PROVE  e * m \in Nat /\ e * m <= l * n
  <1>1. e * m <= l * m
    OBVIOUS
  <1>2. l * m <= l * n
    OBVIOUS
  <1>3. e * m \in Nat /\ l * m \in Nat /\ l * n \in Nat
    OBVIOUS
  <1> QED BY <1>1, <1>2, <1>3

\* timekeeping_cycles_to_ns() is exact, whichever product it takes.
LEMMA CyclesToNsExact ==
    ASSUME NEW t, IsTk(t), NEW m \in Nat, m <= Source[t.clock].mult + MaxAdj,
           NEW x \in Nat, x < ShiftedSec(t),
           NEW r \in Int, Gap(t, r) < Source[t.clock].size \div 2
    PROVE  CyclesToNs(t, m, x, r) = (Gap(t, r) * m + x) \div Unit(t)
  <1> DEFINE s == Source[t.clock]
             e == Gap(t, r)
             p == Pow2(s.shift)
             z == Pow2(W)
  <1>1. /\ s.mult \in Nat /\ MaxAdj \in Nat /\ s.size \in Nat \ {0} /\ s.max_cycles \in Nat
        /\ p \in Nat \ {0} /\ z \in Nat \ {0} /\ NSEC_PER_SEC \in Nat
        /\ s.max_cycles * (s.mult + MaxAdj) + NSEC_PER_SEC * p < z
    BY SourceFacts DEF IsTk
  <1>2. t.cycle_last \in Int /\ r - t.cycle_last \in Int
    BY DEF IsTk
  <1>3. e \in Int /\ 0 <= e /\ e = (r - t.cycle_last) % s.size
    BY <1>1, <1>2, RemIs DEF Gap, Rem
  <1>4. x < NSEC_PER_SEC * p /\ p = Unit(t)
    BY DEF ShiftedSec, Unit
  <1>5. CyclesToNs(t, m, x, r) = IF e <= s.max_cycles THEN ((e * m + x) % z) \div p
                                 ELSE IF e >= s.size \div 2 THEN x \div p
                                 ELSE (e * m + x) \div p
    BY <1>3 DEF CyclesToNs
  <1>6. e < s.size \div 2
    OBVIOUS
  <1> HIDE DEF e, p, z, s
  <1>7. CASE e <= s.max_cycles
    <2>1. m <= s.mult + MaxAdj /\ s.mult + MaxAdj \in Nat
      BY <1>1 DEF s
    <2>2. e * m \in Nat /\ e * m <= s.max_cycles * (s.mult + MaxAdj)
      BY <1>1, <1>3, <1>7, <2>1, ProductFits
    <2>3. s.max_cycles * (s.mult + MaxAdj) \in Nat /\ NSEC_PER_SEC * p \in Nat
      BY <1>1, <2>1
    <2>4. e * m + x \in Int /\ 0 <= e * m + x /\ e * m + x < z
      BY <1>1, <1>4, <2>2, <2>3
    <2>5. (e * m + x) % z = e * m + x
      BY <1>1, <2>4, ModSmall
    <2> QED BY <1>4, <1>5, <1>7, <2>5 DEF e
  <1>8. CASE ~(e <= s.max_cycles)
    <2>1. ~(e >= s.size \div 2)
      BY <1>1, <1>3, <1>6
    <2> QED BY <1>4, <1>5, <1>8, <2>1 DEF e
  <1> QED BY <1>7, <1>8

\* A counter behind the last update gives the time of the last update.
LEMMA CyclesToNsBehind ==
    ASSUME NEW t, IsTk(t), SeesLagging(t.clock), NEW m, NEW x, NEW r \in Int,
           Gap(t, r) = Source[t.clock].size - 1
    PROVE  CyclesToNs(t, m, x, r) = x \div Unit(t)
  <1> DEFINE s == Source[t.clock]
             e == Gap(t, r)
  <1>1. s.size \in Nat \ {0} /\ s.size > 2 /\ s.max_cycles \in Nat /\ s.max_cycles < s.size - 1
    BY SourceFacts DEF IsTk, SeesLagging
  <1>2. e = s.size - 1 /\ e = (r - t.cycle_last) % s.size
    BY DEF Gap, Rem
  <1>3. CyclesToNs(t, m, x, r) = IF e <= s.max_cycles THEN ((e * m + x) % Pow2(W)) \div Unit(t)
                                 ELSE IF e >= s.size \div 2 THEN x \div Unit(t)
                                 ELSE (e * m + x) \div Unit(t)
    BY <1>2 DEF CyclesToNs, Unit
  <1> HIDE DEF e, s
  <1>4. ~(e <= s.max_cycles) /\ e >= s.size \div 2
    BY <1>1, <1>2
  <1> QED BY <1>3, <1>4

\* ktime_get() and ktime_get_raw()
LEMMA ReadersShow ==
    ASSUME NEW t, Good(t), Shows(t), NEW r \in Int, Gap(t, r) < Source[t.clock].size \div 2
    PROVE  /\ t.base + CyclesToNs(t, t.mult, t.xtime_nsec, r) = MonoAt(t, Gap(t, r))
           /\ t.raw_base + CyclesToNs(t, Source[t.clock].mult, t.raw_nsec, r) = RawAt(t, Gap(t, r))
           /\ Gap(t, r) \in Nat
  <1> DEFINE e == Gap(t, r)
             p == Unit(t)
             mult == Source[t.clock].mult
             b == t.xtime_sec * NSEC_PER_SEC + t.wall_to_monotonic
             raw == t.raw_sec * NSEC_PER_SEC
  <1>1. p \in Nat \ {0} /\ NSEC_PER_SEC \in Nat /\ MaxAdj \in Nat /\ mult \in Nat /\ mult > MaxAdj
        /\ Source[t.clock].size \in Nat \ {0}
    BY UnitFacts, SourceFacts DEF Good, IsTk
  <1>2. t.mult \in Nat /\ t.mult <= mult + MaxAdj
    BY <1>1 DEF Good, MultsOf
  <1>3. t.xtime_nsec \in Nat /\ t.xtime_nsec < ShiftedSec(t)
        /\ t.raw_nsec \in Nat /\ t.raw_nsec < ShiftedSec(t)
    BY DEF Good, Settled, IsTk
  <1>4. b \in Int /\ raw \in Int
    BY <1>1 DEF Good, IsTk
  <1>5. e \in Nat
    BY GapIs DEF Good
  <1>6. /\ CyclesToNs(t, t.mult, t.xtime_nsec, r) = (e * t.mult + t.xtime_nsec) \div p
        /\ CyclesToNs(t, mult, t.raw_nsec, r) = (e * mult + t.raw_nsec) \div p
    BY <1>1, <1>2, <1>3, CyclesToNsExact DEF Good
  <1>7. t.base = b /\ t.raw_base = raw
    BY DEF Shows
  <1>8. MonoAt(t, e) = ((b * p + t.xtime_nsec) + e * t.mult) \div p
        /\ RawAt(t, e) = ((raw * p + t.raw_nsec) + e * mult) \div p
    BY DEF MonoAt, RawAt, Sum, RawSum
  <1> HIDE DEF b, raw, p, e, mult
  <1>9. e * t.mult \in Int /\ e * mult \in Int /\ b * p \in Int /\ raw * p \in Int
    BY <1>1, <1>2, <1>4, <1>5
  <1>10. /\ e * t.mult + t.xtime_nsec \in Int /\ e * mult + t.raw_nsec \in Int
         /\ (b * p + t.xtime_nsec) + e * t.mult = b * p + (e * t.mult + t.xtime_nsec)
         /\ (raw * p + t.raw_nsec) + e * mult = raw * p + (e * mult + t.raw_nsec)
    BY <1>3, <1>9
  <1>11. (b * p + (e * t.mult + t.xtime_nsec)) \div p = b + ((e * t.mult + t.xtime_nsec) \div p)
    BY <1>1, <1>4, <1>10, DivShift
  <1>12. (raw * p + (e * mult + t.raw_nsec)) \div p = raw + ((e * mult + t.raw_nsec) \div p)
    BY <1>1, <1>4, <1>10, DivShift
  <1>13. t.base + CyclesToNs(t, t.mult, t.xtime_nsec, r) = MonoAt(t, e)
    BY <1>6, <1>7, <1>8, <1>10, <1>11
  <1>14. t.raw_base + CyclesToNs(t, mult, t.raw_nsec, r) = RawAt(t, e)
    BY <1>6, <1>7, <1>8, <1>10, <1>12
  <1> QED BY <1>5, <1>13, <1>14 DEF e, mult

\* A later reader gets a later time.
LEMMA LaterReads ==
    ASSUME NEW t, Good(t), NEW e \in Nat, NEW f \in Nat, e <= f
    PROVE  MonoAt(t, e) \in Int /\ MonoAt(t, e) <= MonoAt(t, f)
           /\ RawAt(t, e) \in Int /\ RawAt(t, e) <= RawAt(t, f)
  <1> DEFINE p == Unit(t)
             mult == Source[t.clock].mult
             b == Sum(t)
             raw == RawSum(t)
  <1>1. p \in Nat \ {0} /\ NSEC_PER_SEC \in Nat /\ mult \in Nat /\ t.mult \in Nat
        /\ b \in Int /\ raw \in Int
    BY UnitFacts, SourceFacts DEF Good, IsTk, Sum, RawSum
  <1>2. MonoAt(t, e) = (b + e * t.mult) \div p /\ MonoAt(t, f) = (b + f * t.mult) \div p
        /\ RawAt(t, e) = (raw + e * mult) \div p /\ RawAt(t, f) = (raw + f * mult) \div p
    BY DEF MonoAt, RawAt
  <1> HIDE DEF p, mult, b, raw
  <1>3. e * t.mult \in Int /\ f * t.mult \in Int /\ e * t.mult <= f * t.mult
        /\ e * mult \in Int /\ f * mult \in Int /\ e * mult <= f * mult
    BY <1>1
  <1>4. /\ b + e * t.mult \in Int /\ b + f * t.mult \in Int /\ b + e * t.mult <= b + f * t.mult
        /\ raw + e * mult \in Int /\ raw + f * mult \in Int /\ raw + e * mult <= raw + f * mult
    BY <1>1, <1>3
  <1>5. (b + e * t.mult) \div p \in Int /\ (raw + e * mult) \div p \in Int
    BY <1>1, <1>4, DivMod
  <1>6. (b + e * t.mult) \div p <= (b + f * t.mult) \div p
    BY <1>1, <1>4, DivMono
  <1>7. (raw + e * mult) \div p <= (raw + f * mult) \div p
    BY <1>1, <1>4, DivMono
  <1> QED BY <1>2, <1>5, <1>6, <1>7

-----------------------------------------------------------------------------
\* Publication

\* The fields the clocks are computed from
Kept(t, u) ==
    /\ u.clock = t.clock /\ u.cycle_last = t.cycle_last /\ u.mult = t.mult
    /\ u.xtime_sec = t.xtime_sec /\ u.xtime_nsec = t.xtime_nsec
    /\ u.raw_sec = t.raw_sec /\ u.raw_nsec = t.raw_nsec
    /\ u.wall_to_monotonic = t.wall_to_monotonic /\ u.offs_real = t.offs_real
    /\ u.offs_boot = t.offs_boot /\ u.offs_tai = t.offs_tai /\ u.tai_offset = t.tai_offset

\* Equal fields give equal clocks.
LEMMA KeptFacts ==
    ASSUME NEW t, NEW u, IsTk(t), Kept(t, u), u = [f \in TkFields |-> u[f]], u.coarse_nsec \in Int
    PROVE  /\ IsTk(u) /\ Unit(u) = Unit(t) /\ Sum(u) = Sum(t) /\ RawSum(u) = RawSum(t)
           /\ Good(t) => Good(u)
  <1>1. IsTk(u)
    BY DEF IsTk, Kept
  <1>2. Unit(u) = Unit(t) /\ ShiftedSec(u) = ShiftedSec(t) /\ MultsOf(u.clock) = MultsOf(t.clock)
    BY DEF Kept, Unit, ShiftedSec
  <1>3. Sum(u) = Sum(t) /\ RawSum(u) = RawSum(t)
    BY <1>2 DEF Kept, Sum, RawSum
  <1>4. Good(t) => Good(u)
    BY <1>1, <1>2 DEF Good, Kept, Offsets, Settled
  <1> QED BY <1>1, <1>2, <1>3, <1>4

\* The seconds and nanoseconds of CLOCK_MONOTONIC
LEMMA KtimeSecIs ==
    ASSUME NEW s \in Int, NEW w \in Int, NEW n \in Nat \ {0}, NEW x \in Nat, x < n
    PROVE  /\ (s + (w \div n)) * n + (w % n) = s * n + w
           /\ (IF (w % n) + x >= n THEN s + (w \div n) + 1 ELSE s + (w \div n))
                = (s * n + x + w) \div n
           /\ w \div n \in Int /\ w % n \in Int
  <1> DEFINE e == w \div n
             m == w % n
  <1>1. e \in Int /\ m \in Int /\ w = n * e + m /\ 0 <= m /\ m < n
    BY DivMod
  <1> HIDE DEF e, m
  <1>2. (s + e) * n + m = s * n + w
    BY <1>1
  <1>3. s * n + x + w \in Int
    OBVIOUS
  <1>4. CASE m + x >= n
    <2>1. s * n + x + w = n * (s + e + 1) + (m + x - n)
      BY <1>1
    <2>2. (s * n + x + w) \div n = s + e + 1
      BY <1>1, <1>3, <1>4, <2>1, DivUnique
    <2> QED BY <1>1, <1>2, <1>4, <2>2 DEF e, m
  <1>5. CASE ~(m + x >= n)
    <2>1. s * n + x + w = n * (s + e) + (m + x)
      BY <1>1
    <2>2. (s * n + x + w) \div n = s + e
      BY <1>1, <1>3, <1>5, <2>1, DivUnique
    <2> QED BY <1>1, <1>2, <1>5, <2>2 DEF e, m
  <1> QED BY <1>4, <1>5

\* timekeeping_update_from_shadow() computes what is shown, and moves no clock.
LEMMA PublishedKeeps ==
    ASSUME NEW t, Good(t), NEW n, NEW b
    PROVE  LET u == Published(t, n, b)
           IN Good(u) /\ Shows(u) /\ Kept(t, u) /\ Sum(u) = Sum(t) /\ RawSum(u) = RawSum(t)
  <1> DEFINE u == Published(t, n, b)
             p == Unit(t)
             w == t.wall_to_monotonic
             s == t.xtime_sec
             x == t.xtime_nsec \div p
             seconds == s + (w \div NSEC_PER_SEC)
             nsec == w % NSEC_PER_SEC
  <1>1. p \in Nat \ {0} /\ NSEC_PER_SEC \in Nat \ {0} /\ s \in Int /\ w \in Int
        /\ t.xtime_nsec \in Int /\ 0 <= t.xtime_nsec /\ t.xtime_nsec < NSEC_PER_SEC * p
    BY UnitFacts DEF Good, IsTk, Settled
  <1>2. x \in Nat /\ x < NSEC_PER_SEC
    <2> HIDE DEF p
    <2> QED BY <1>1, DivBound
  <1>3. u = [t EXCEPT !.next_leap_ktime = UpdateLeapState(t, n).next_leap_ktime,
                      !.base = seconds * NSEC_PER_SEC + nsec,
                      !.ktime_sec = IF nsec + x >= NSEC_PER_SEC THEN seconds + 1 ELSE seconds,
                      !.raw_base = t.raw_sec * NSEC_PER_SEC,
                      !.base_real = seconds * NSEC_PER_SEC + nsec + t.offs_real,
                      !.clock_was_set_seq = IF b THEN @ + 1 ELSE @]
    BY DEF Published, UpdateKtimeData, UpdateLeapState, Good, IsTk, TkFields, Unit
  <1>4. DOMAIN u = TkFields /\ Kept(t, u) /\ u.coarse_nsec = t.coarse_nsec
    <2> HIDE DEF u, seconds, nsec, x
    <2> QED BY <1>3 DEF Good, IsTk, TkFields, Kept
  <1>5. /\ u.base = seconds * NSEC_PER_SEC + nsec
        /\ u.ktime_sec = IF nsec + x >= NSEC_PER_SEC THEN seconds + 1 ELSE seconds
        /\ u.raw_base = t.raw_sec * NSEC_PER_SEC
        /\ u.base_real = u.base + t.offs_real
    <2> HIDE DEF u, seconds, nsec, x
    <2> QED BY <1>3 DEF Good, IsTk, TkFields
  <1>6. u = [f \in TkFields |-> u[f]]
    <2> DEFINE v == UpdateKtimeData(UpdateLeapState(t, n))
               x1 == v.base + v.offs_real
               x2 == IF b THEN v.clock_was_set_seq + 1 ELSE v.clock_was_set_seq
    <2>1. u = [v EXCEPT !.base_real = x1, !.clock_was_set_seq = x2]
      BY DEF Published
    <2> HIDE DEF u, v, x1, x2
    <2>2. u = [f \in DOMAIN u |-> u[f]]
      BY <2>1
    <2> QED BY <1>4, <2>2
  <1>7. Good(u) /\ Sum(u) = Sum(t) /\ RawSum(u) = RawSum(t)
    BY <1>4, <1>6, KeptFacts DEF Good, IsTk
  <1>8. /\ seconds * NSEC_PER_SEC + nsec = s * NSEC_PER_SEC + w
        /\ (IF nsec + x >= NSEC_PER_SEC THEN seconds + 1 ELSE seconds)
             = (s * NSEC_PER_SEC + x + w) \div NSEC_PER_SEC
    <2> DEFINE m == NSEC_PER_SEC
    <2>1. m \in Nat \ {0} /\ s \in Int /\ w \in Int /\ x \in Nat /\ x < m
      BY <1>1, <1>2
    <2> HIDE DEF x, s, w, m
    <2>2. /\ (s + (w \div m)) * m + (w % m) = s * m + w
          /\ (IF (w % m) + x >= m THEN s + (w \div m) + 1 ELSE s + (w \div m)) = (s * m + x + w) \div m
      BY <2>1, KtimeSecIs
    <2> QED BY <2>2 DEF m
  <1>9. Xtime(u) = s * NSEC_PER_SEC + x
    BY <1>4 DEF Xtime, Kept, Unit
  <1>10. Shows(u)
    <2> HIDE DEF u, seconds, nsec, x
    <2> QED BY <1>4, <1>5, <1>8, <1>9 DEF Shows, Kept
  <1> QED BY <1>4, <1>7, <1>10

\* tk_update_leap_state()
LEMMA LeapStateKeeps ==
    ASSUME NEW t, Good(t), NEW n
    PROVE  LET u == UpdateLeapState(t, n)
           IN /\ Good(u) /\ Kept(t, u) /\ Sum(u) = Sum(t) /\ RawSum(u) = RawSum(t)
              /\ Shows(t) => Shows(u)
  <1> DEFINE u == UpdateLeapState(t, n)
  <1>1. /\ DOMAIN u = TkFields /\ Kept(t, u) /\ u.coarse_nsec = t.coarse_nsec
        /\ u.base = t.base /\ u.base_real = t.base_real /\ u.raw_base = t.raw_base
        /\ u.ktime_sec = t.ktime_sec
    BY DEF UpdateLeapState, Good, IsTk, TkFields, Kept
  <1>2. u = [f \in TkFields |-> u[f]]
    BY <1>1 DEF UpdateLeapState
  <1>3. Good(u) /\ Sum(u) = Sum(t) /\ RawSum(u) = RawSum(t)
    BY <1>1, <1>2, KeptFacts DEF Good, IsTk
  <1> HIDE DEF u
  <1>4. Xtime(u) = Xtime(t)
    BY <1>1 DEF Xtime, Kept
  <1>5. Shows(t) => Shows(u)
    BY <1>1, <1>4 DEF Shows, Kept
  <1> QED BY <1>1, <1>3, <1>5 DEF u

-----------------------------------------------------------------------------
\* Operations on a timekeeper

\* The clocksource and the offsets
Like(t, u) ==
    /\ u.clock = t.clock /\ u.cycle_last = t.cycle_last /\ u.mult = t.mult
    /\ u.wall_to_monotonic = t.wall_to_monotonic /\ u.offs_real = t.offs_real
    /\ u.offs_boot = t.offs_boot /\ u.offs_tai = t.offs_tai /\ u.tai_offset = t.tai_offset

\* tk_update_coarse_nsecs()
LEMMA CoarseKeeps ==
    ASSUME NEW t, IsTk(t)
    PROVE  LET u == UpdateCoarse(t)
           IN /\ IsTk(u) /\ Kept(t, u) /\ Sum(u) = Sum(t) /\ RawSum(u) = RawSum(t)
              /\ Good(t) => Good(u)
  <1> DEFINE u == UpdateCoarse(t)
  <1>1. DOMAIN u = TkFields /\ Kept(t, u) /\ u.coarse_nsec = t.xtime_nsec \div Unit(t)
    BY DEF UpdateCoarse, IsTk, TkFields, Kept, Unit
  <1>2. u = [f \in TkFields |-> u[f]]
    BY <1>1 DEF UpdateCoarse
  <1>3. u.coarse_nsec \in Int
    <2>1. t.xtime_nsec \in Int /\ Unit(t) \in Nat \ {0}
      BY UnitFacts DEF IsTk
    <2>2. t.xtime_nsec \div Unit(t) \in Int
      BY <2>1, DivMod
    <2> QED BY <1>1, <2>2
  <1> QED BY <1>1, <1>2, <1>3, KeptFacts

\* Seconds may be taken out of the nanoseconds.
LEMMA TakeSeconds ==
    ASSUME NEW s \in Int, NEW w \in Int, NEW x \in Int, NEW n \in Nat \ {0}, NEW p \in Nat \ {0},
           NEW d, d = n * p
    PROVE  /\ x \div d \in Int /\ x % d \in Int /\ 0 <= x % d /\ x % d < d
           /\ ((s + x \div d) * n + w) * p + (x % d) = (s * n + w) * p + x
  <1> DEFINE e == x \div d
             m == x % d
  <1>1. d \in Nat \ {0} /\ d = n * p
    OBVIOUS
  <1>2. e \in Int /\ m \in Int /\ x = d * e + m /\ 0 <= m /\ m < d
    BY <1>1, DivMod
  <1> HIDE DEF e, m
  <1>3. ((s + e) * n + w) * p + m = (s * n + w) * p + ((n * p) * e + m)
    BY <1>2
  <1>4. ((s + e) * n + w) * p + m = (s * n + w) * p + x
    BY <1>1, <1>2, <1>3
  <1> QED BY <1>2, <1>4 DEF e, m

\* tk_normalize_xtime(), and the coarse time
LEMMA NormalizeKeeps ==
    ASSUME NEW t, IsTk(t)
    PROVE  LET u == UpdateCoarse(Normalize(t))
           IN IsTk(u) /\ Like(t, u) /\ Settled(u) /\ Sum(u) = Sum(t) /\ RawSum(u) = RawSum(t)
  <1> DEFINE v == Normalize(t)
             u == UpdateCoarse(v)
             p == Unit(t)
             n == NSEC_PER_SEC
             d == ShiftedSec(t)
  <1>1. p \in Nat \ {0} /\ n \in Nat \ {0} /\ d = n * p
        /\ t.xtime_sec \in Int /\ t.xtime_nsec \in Int /\ t.raw_sec \in Int /\ t.raw_nsec \in Int
        /\ t.wall_to_monotonic \in Int
    BY UnitFacts DEF IsTk
  <1>2. /\ DOMAIN v = TkFields /\ Like(t, v) /\ v.coarse_nsec = t.coarse_nsec
        /\ v.xtime_sec = t.xtime_sec + t.xtime_nsec \div d /\ v.xtime_nsec = t.xtime_nsec % d
        /\ v.raw_sec = t.raw_sec + t.raw_nsec \div d /\ v.raw_nsec = t.raw_nsec % d
    <2> HIDE DEF d
    <2>1. v = [t EXCEPT !.xtime_sec = t.xtime_sec + t.xtime_nsec \div d,
                        !.xtime_nsec = t.xtime_nsec % d,
                        !.raw_sec = t.raw_sec + t.raw_nsec \div d,
                        !.raw_nsec = t.raw_nsec % d]
      BY DEF Normalize, d, IsTk, TkFields
    <2> HIDE DEF v
    <2> QED BY <2>1 DEF IsTk, TkFields, Like
  <1>3. v = [f \in TkFields |-> v[f]]
    BY <1>2 DEF Normalize
  <1> HIDE DEF v, d, n, p
  <1>4. /\ t.xtime_nsec \div d \in Int /\ t.xtime_nsec % d \in Int
        /\ 0 <= t.xtime_nsec % d /\ t.xtime_nsec % d < d
        /\ ((t.xtime_sec + t.xtime_nsec \div d) * n + t.wall_to_monotonic) * p + (t.xtime_nsec % d)
             = (t.xtime_sec * n + t.wall_to_monotonic) * p + t.xtime_nsec
    <2> DEFINE s == t.xtime_sec
               w == t.wall_to_monotonic
               x == t.xtime_nsec
    <2>1. s \in Int /\ w \in Int /\ x \in Int
      BY <1>1
    <2> HIDE DEF s, w, x
    <2>2. /\ x \div d \in Int /\ x % d \in Int /\ 0 <= x % d /\ x % d < d
          /\ ((s + x \div d) * n + w) * p + (x % d) = (s * n + w) * p + x
      BY <1>1, <2>1, TakeSeconds
    <2> QED BY <2>2 DEF s, w, x
  <1>5. /\ t.raw_nsec \div d \in Int /\ t.raw_nsec % d \in Int
        /\ 0 <= t.raw_nsec % d /\ t.raw_nsec % d < d
        /\ ((t.raw_sec + t.raw_nsec \div d) * n + 0) * p + (t.raw_nsec % d)
             = (t.raw_sec * n + 0) * p + t.raw_nsec
    <2> DEFINE s == t.raw_sec
               w == 0
               x == t.raw_nsec
    <2>1. s \in Int /\ w \in Int /\ x \in Int
      BY <1>1
    <2> HIDE DEF s, w, x
    <2>2. /\ x \div d \in Int /\ x % d \in Int /\ 0 <= x % d /\ x % d < d
          /\ ((s + x \div d) * n + w) * p + (x % d) = (s * n + w) * p + x
      BY <1>1, <2>1, TakeSeconds
    <2> QED BY <2>2 DEF s, w, x
  <1>6. IsTk(v)
    BY <1>2, <1>3, <1>4, <1>5 DEF IsTk, Like
  <1>7. Unit(v) = p /\ ShiftedSec(v) = d
    BY <1>2 DEF Like, Unit, ShiftedSec, p, d
  <1>8. Settled(v)
    BY <1>2, <1>4, <1>5, <1>7 DEF Settled
  <1>9. Sum(v) = Sum(t)
    BY <1>2, <1>4, <1>7 DEF Sum, Like, n, p
  <1>10. RawSum(v) = RawSum(t)
    <2>1. (t.raw_sec + t.raw_nsec \div d) * n \in Int /\ t.raw_sec * n \in Int
      BY <1>1, <1>5
    <2>2. (t.raw_sec + t.raw_nsec \div d) * n + 0 = (t.raw_sec + t.raw_nsec \div d) * n
          /\ t.raw_sec * n + 0 = t.raw_sec * n
      BY <2>1
    <2> QED BY <1>2, <1>5, <1>7, <2>2 DEF RawSum, Like, n, p
  <1>11. IsTk(u) /\ Kept(v, u) /\ Sum(u) = Sum(v) /\ RawSum(u) = RawSum(v)
    BY <1>6, CoarseKeeps
  <1> HIDE DEF u
  <1>12. Like(t, u)
    BY <1>2, <1>11 DEF Like, Kept
  <1>13. Settled(u)
    BY <1>8, <1>11 DEF Settled, Kept, ShiftedSec
  <1> QED BY <1>9, <1>10, <1>11, <1>12, <1>13 DEF u, v
\* A counter is read
LEMMA CounterIs ==
    ASSUME NEW c \in Clocks, NEW x \in Nat, NEW z \in Nat
    PROVE  /\ CountAt(c, x, z) \in Int
           /\ CounterAt(c, x, z) = Rem(CountAt(c, x, z), Source[c].size)
           /\ CounterAt(c, x, z) \in Nat /\ CounterAt(c, x, z) < Source[c].size
  <1> DEFINE y == x + (IF Source[c].nonstop THEN z ELSE 0) + Source[c].phase
             d == Source[c].period
             s == Source[c].size
             a == CountAt(c, x, z)
  <1>1. d \in Nat \ {0} /\ s \in Nat \ {0} /\ y \in Int
    BY SourceFacts
  <1>2. a = y \div d
    BY DEF CountAt
  <1>3. CounterAt(c, x, z) = Rem(a, s)
    BY DEF CounterAt, Rem
  <1> HIDE DEF y, d, s, a
  <1>4. a \in Int
    <2>1. y \div d \in Int
      BY <1>1, DivMod
    <2> QED BY <1>2, <2>1
  <1>5. Rem(a, s) \in Int /\ 0 <= Rem(a, s) /\ Rem(a, s) < s
    BY <1>1, <1>4, RemIs
  <1> QED BY <1>3, <1>4, <1>5 DEF a, s

\* clock->read() at this moment
LEMMA ReadIs ==
    ASSUME NEW c \in Clocks, now \in Nat, slept \in Nat
    PROVE  Read(c) = CounterAt(c, now, slept) /\ Read(c) \in Nat /\ Read(c) < Source[c].size
  <1>1. Read(c) = CounterAt(c, now, slept)
    BY DEF Read, CounterAt, CountAt
  <1> QED BY <1>1, CounterIs

\* clocksource_delta() is exact in the first half of a lap.
LEMMA DeltaIsGap ==
    ASSUME NEW t, IsTk(t), now \in Nat, slept \in Nat,
           Gap(t, Read(t.clock)) < Source[t.clock].size \div 2
    PROVE  ClocksourceDelta(t) = Gap(t, Read(t.clock))
  <1> DEFINE e == Gap(t, Read(t.clock))
             s == Source[t.clock].size
  <1>1. e \in Nat /\ s \in Nat /\ e < s \div 2
    BY GapIs, ReadIs DEF IsTk
  <1>2. e = (Read(t.clock) - t.cycle_last) % s
    BY DEF Gap, Rem
  <1> DEFINE m == s - 1
  <1>3. ClocksourceDelta(t) = IF e > m \div 2 + m \div 4 + m \div 8 THEN 0 ELSE e
    BY <1>2 DEF ClocksourceDelta
  <1> HIDE DEF e, s
  <1>4. ~(e > m \div 2 + m \div 4 + m \div 8)
    BY <1>1
  <1> QED BY <1>3, <1>4 DEF e

\* What moving the timekeeper to the current time leaves alone
Moved(t, u) ==
    /\ u.clock = t.clock /\ u.mult = t.mult
    /\ u.wall_to_monotonic = t.wall_to_monotonic /\ u.offs_real = t.offs_real
    /\ u.offs_boot = t.offs_boot /\ u.offs_tai = t.offs_tai /\ u.tai_offset = t.tai_offset

\* timekeeping_forward_now()
LEMMA ForwardNowKeeps ==
    ASSUME NEW t, Good(t), now \in Nat, slept \in Nat,
           Gap(t, Read(t.clock)) < Source[t.clock].size \div 2
    PROVE  LET u == ForwardNow(t)
           IN /\ Good(u) /\ Moved(t, u) /\ u.cycle_last = Read(t.clock)
              /\ MonoAt(u, 0) = MonoAt(t, Gap(t, Read(t.clock)))
              /\ RawAt(u, 0) = RawAt(t, Gap(t, Read(t.clock)))
  <1> DEFINE e == Gap(t, Read(t.clock))
             mult == Source[t.clock].mult
             x == t.xtime_nsec + e * t.mult
             y == t.raw_nsec + e * mult
             v == [t EXCEPT !.cycle_last = Read(t.clock), !.xtime_nsec = x, !.raw_nsec = y]
             u == ForwardNow(t)
             p == Unit(t)
  <1>1. IsTk(t) /\ t.mult \in Nat /\ t.xtime_nsec \in Int /\ t.raw_nsec \in Int
        /\ t.clock \in Clocks /\ mult \in Nat
    BY SourceFacts DEF Good, IsTk
  <1>2. Read(t.clock) \in Nat /\ Read(t.clock) < Source[t.clock].size /\ e \in Nat
    BY <1>1, ReadIs, GapIs
  <1>3. u = UpdateCoarse(Normalize(v))
    BY <1>1, DeltaIsGap DEF ForwardNow
  <1>4. x \in Int /\ y \in Int
    BY <1>1, <1>2
  <1>a. e * t.mult \in Int /\ e * mult \in Int
    BY <1>1, <1>2
  <1> HIDE DEF x, y
  <1>5. /\ DOMAIN v = TkFields /\ Moved(t, v) /\ v.cycle_last = Read(t.clock)
        /\ v.xtime_nsec = x /\ v.raw_nsec = y /\ v.xtime_sec = t.xtime_sec /\ v.raw_sec = t.raw_sec
        /\ v.coarse_nsec = t.coarse_nsec
    BY <1>1 DEF IsTk, TkFields, Moved
  <1>6. v = [f \in TkFields |-> v[f]]
    BY <1>5
  <1> HIDE DEF v, u
  <1>7. IsTk(v)
    BY <1>1, <1>2, <1>4, <1>5, <1>6 DEF IsTk, Moved
  <1>8. /\ IsTk(u) /\ Like(v, u) /\ Settled(u) /\ Sum(u) = Sum(v) /\ RawSum(u) = RawSum(v)
    BY <1>3, <1>7, NormalizeKeeps
  <1>9. Unit(v) = p /\ Unit(u) = p
    BY <1>5, <1>8 DEF Unit, Moved, Like
  <1>10. Moved(t, u) /\ u.cycle_last = Read(t.clock)
    BY <1>5, <1>8 DEF Moved, Like
  <1>11. Good(u)
    BY <1>2, <1>8, <1>10 DEF Good, Moved, Offsets
  <1>12. (t.xtime_sec * NSEC_PER_SEC + t.wall_to_monotonic) * p \in Int
         /\ (t.raw_sec * NSEC_PER_SEC) * p \in Int
    BY <1>1, UnitFacts DEF IsTk
  <1>13. MonoAt(u, 0) = MonoAt(t, e)
    <2> DEFINE b == (t.xtime_sec * NSEC_PER_SEC + t.wall_to_monotonic) * p
    <2>1. Sum(v) = b + x /\ Sum(t) = b + t.xtime_nsec
      BY <1>5, <1>9 DEF Sum, Moved
    <2> HIDE DEF b
    <2>2. b \in Int
      BY <1>12 DEF b
    <2>3. Sum(u) + 0 * u.mult = Sum(t) + e * t.mult
      BY <1>1, <1>4, <1>8, <1>a, <1>10, <2>1, <2>2 DEF x, Moved
    <2> QED BY <1>9, <2>3 DEF MonoAt
  <1>14. RawAt(u, 0) = RawAt(t, e)
    <2> DEFINE b == (t.raw_sec * NSEC_PER_SEC) * p
    <2>1. RawSum(v) = b + y /\ RawSum(t) = b + t.raw_nsec
      BY <1>5, <1>9 DEF RawSum, Moved
    <2> HIDE DEF b
    <2>2. b \in Int
      BY <1>12 DEF b
    <2>3. RawSum(u) + 0 * mult = RawSum(t) + e * mult
      BY <1>1, <1>4, <1>8, <1>a, <2>1, <2>2 DEF y
    <2>4. Source[u.clock].mult = mult
      BY <1>10 DEF Moved
    <2> QED BY <1>9, <2>3, <2>4 DEF RawAt
  <1> QED BY <1>10, <1>11, <1>13, <1>14 DEF e, u

\* tk_set_wall_to_mono()
LEMMA WallToMonoIs ==
    ASSUME NEW t, IsTk(t), NEW w \in Int
    PROVE  LET u == SetWallToMono(t, w)
           IN /\ IsTk(u) /\ Offsets(u) /\ u.wall_to_monotonic = w
              /\ u.clock = t.clock /\ u.cycle_last = t.cycle_last /\ u.mult = t.mult
              /\ u.xtime_sec = t.xtime_sec /\ u.xtime_nsec = t.xtime_nsec
              /\ u.raw_sec = t.raw_sec /\ u.raw_nsec = t.raw_nsec
              /\ u.offs_boot = t.offs_boot /\ u.tai_offset = t.tai_offset
  <1> DEFINE u == SetWallToMono(t, w)
             x == t.tai_offset * NSEC_PER_SEC - w
  <1>1. x \in Int /\ -w \in Int /\ t.tai_offset * NSEC_PER_SEC \in Int
    BY UnitFacts DEF IsTk
  <1>2. /\ DOMAIN u = TkFields /\ u.wall_to_monotonic = w /\ u.offs_real = -w /\ u.offs_tai = x
        /\ u.clock = t.clock /\ u.cycle_last = t.cycle_last /\ u.mult = t.mult
        /\ u.xtime_sec = t.xtime_sec /\ u.xtime_nsec = t.xtime_nsec /\ u.coarse_nsec = t.coarse_nsec
        /\ u.raw_sec = t.raw_sec /\ u.raw_nsec = t.raw_nsec
        /\ u.offs_boot = t.offs_boot /\ u.tai_offset = t.tai_offset
    <2>1. u = [t EXCEPT !.wall_to_monotonic = w, !.offs_real = -w, !.offs_tai = x]
      BY DEF SetWallToMono
    <2> HIDE DEF u, x
    <2> QED BY <2>1 DEF IsTk, TkFields
  <1>3. u = [f \in TkFields |-> u[f]]
    <2>1. u = [t EXCEPT !.wall_to_monotonic = w, !.offs_real = -w, !.offs_tai = x]
      BY DEF SetWallToMono
    <2> HIDE DEF u, x
    <2> QED BY <1>2, <2>1
  <1> HIDE DEF u
  <1>4. IsTk(u)
    <2> HIDE DEF x
    <2> QED BY <1>1, <1>2, <1>3 DEF IsTk
  <1>5. Offsets(u)
    BY <1>1, <1>2 DEF Offsets
  <1> QED BY <1>2, <1>4, <1>5 DEF u

\* tk_xtime_add()
LEMMA XtimeAddIs ==
    ASSUME NEW t, IsTk(t), NEW d \in Int
    PROVE  LET u == XtimeAdd(t, d)
           IN IsTk(u) /\ Like(t, u) /\ Settled(u) /\ Sum(u) = Sum(t) + d * Unit(t)
              /\ RawSum(u) = RawSum(t)
  <1> DEFINE n == NSEC_PER_SEC
             p == Unit(t)
             s == d \div n
             r == d % n
             x == t.xtime_nsec + r * p
             v == [t EXCEPT !.xtime_sec = @ + s, !.xtime_nsec = x]
             u == XtimeAdd(t, d)
  <1>1. n \in Nat \ {0} /\ p \in Nat \ {0} /\ t.xtime_sec \in Int /\ t.xtime_nsec \in Int
        /\ t.wall_to_monotonic \in Int
    BY UnitFacts DEF IsTk
  <1>2. s \in Int /\ r \in Int /\ d = n * s + r
    <2> HIDE DEF n
    <2> QED BY <1>1, DivMod
  <1>3. u = UpdateCoarse(Normalize(v))
    BY DEF XtimeAdd, Unit
  <1> HIDE DEF s, r
  <1>4. x \in Int /\ t.xtime_sec + s \in Int
    BY <1>1, <1>2
  <1>5. /\ DOMAIN v = TkFields /\ Like(t, v) /\ v.xtime_sec = t.xtime_sec + s /\ v.xtime_nsec = x
        /\ v.raw_sec = t.raw_sec /\ v.raw_nsec = t.raw_nsec /\ v.coarse_nsec = t.coarse_nsec
    <2> HIDE DEF x
    <2> QED BY DEF IsTk, TkFields, Like
  <1>6. v = [f \in TkFields |-> v[f]]
    <2> HIDE DEF x
    <2> QED BY <1>5
  <1> HIDE DEF v, u
  <1>7. IsTk(v)
    <2> HIDE DEF x
    <2> QED BY <1>4, <1>5, <1>6 DEF IsTk, Like
  <1>8. /\ IsTk(u) /\ Like(v, u) /\ Settled(u) /\ Sum(u) = Sum(v) /\ RawSum(u) = RawSum(v)
    BY <1>3, <1>7, NormalizeKeeps
  <1>9. Unit(v) = p
    BY <1>5 DEF Unit, Like
  <1>10. Sum(v) = Sum(t) + d * p
    <2> DEFINE a == t.xtime_sec
               b == t.xtime_nsec
               w == t.wall_to_monotonic
    <2>1. Sum(v) = ((a + s) * n + w) * p + (b + r * p) /\ Sum(t) = (a * n + w) * p + b
      BY <1>5, <1>9 DEF Sum, Like, x
    <2>2. a \in Int /\ b \in Int /\ w \in Int
      BY <1>1
    <2> HIDE DEF a, b, w, n, p
    <2>3. ((a + s) * n + w) * p + (b + r * p) = (a * n + w) * p + b + (n * s + r) * p
      BY <1>1, <1>2, <2>2
    <2> QED BY <1>2, <2>1, <2>3
  <1>11. RawSum(v) = RawSum(t)
    BY <1>5, <1>9 DEF RawSum, Like
  <1>12. Like(t, u)
    BY <1>5, <1>8 DEF Like
  <1> QED BY <1>8, <1>10, <1>11, <1>12 DEF u

\* The same clocks at cycle_last
Stays(t, u) ==
    /\ u.clock = t.clock /\ u.cycle_last = t.cycle_last /\ u.mult = t.mult
    /\ MonoAt(u, 0) = MonoAt(t, 0) /\ RawAt(u, 0) = RawAt(t, 0)

\* Equal sums give equal clocks.
LEMMA SumsStay ==
    ASSUME NEW t, NEW u, u.clock = t.clock, u.cycle_last = t.cycle_last, u.mult = t.mult,
           Sum(u) = Sum(t), RawSum(u) = RawSum(t)
    PROVE  Stays(t, u) /\ \A e : MonoAt(u, e) = MonoAt(t, e) /\ RawAt(u, e) = RawAt(t, e)
  <1>1. Unit(u) = Unit(t)
    BY DEF Unit
  <1> QED BY <1>1 DEF Stays, MonoAt, RawAt

\* CLOCK_MONOTONIC at cycle_last is the wall clock and wall_to_monotonic.
LEMMA MonoIs ==
    ASSUME NEW t, IsTk(t)
    PROVE  /\ Xtime(t) \in Int /\ MonoAt(t, 0) = Xtime(t) + t.wall_to_monotonic
           /\ t.xtime_nsec \div Unit(t) \in Int
  <1> DEFINE n == NSEC_PER_SEC
             p == Unit(t)
             s == t.xtime_sec
             w == t.wall_to_monotonic
             x == t.xtime_nsec
             b == s * n + w
  <1>1. n \in Nat \ {0} /\ p \in Nat \ {0} /\ s \in Int /\ w \in Int /\ x \in Int /\ t.mult \in Nat
    BY UnitFacts DEF IsTk
  <1>2. Xtime(t) = s * n + x \div p /\ MonoAt(t, 0) = (b * p + x + 0 * t.mult) \div p
    BY DEF Xtime, MonoAt, Sum, Unit
  <1> HIDE DEF n, p, s, w, x
  <1>3. b \in Int /\ s * n \in Int
    BY <1>1
  <1> HIDE DEF b
  <1>4. x \div p \in Int
    BY <1>1, DivMod
  <1>5. b * p + x + 0 * t.mult = b * p + x
    BY <1>1, <1>3
  <1>6. (b * p + x) \div p = b + x \div p
    BY <1>1, <1>3, DivShift
  <1>7. MonoAt(t, 0) = b + x \div p
    BY <1>2, <1>5, <1>6
  <1>8. b + x \div p = (s * n + x \div p) + w /\ s * n + x \div p \in Int
    BY <1>1, <1>3, <1>4 DEF b
  <1> QED BY <1>2, <1>4, <1>7, <1>8 DEF w, x, p

\* do_settimeofday64() sets the wall clock and no other.
LEMMA SetKeeps ==
    ASSUME NEW t, Good(t), NEW ts \in Int
    PROVE  LET u == SetXtime(SetWallToMono(t, t.wall_to_monotonic - (ts - Xtime(t))), ts)
           IN Good(u) /\ Stays(t, u) /\ u.offs_boot = t.offs_boot
  <1> DEFINE n == NSEC_PER_SEC
             p == Unit(t)
             s == ts \div n
             r == ts % n
             w == t.wall_to_monotonic - (ts - Xtime(t))
             v == SetWallToMono(t, w)
             x == [v EXCEPT !.xtime_sec = s, !.xtime_nsec = r * p]
             u == SetXtime(v, ts)
  <1>1. n \in Nat \ {0} /\ p \in Nat \ {0} /\ IsTk(t) /\ t.wall_to_monotonic \in Int
        /\ ShiftedSec(t) = n * p
    BY UnitFacts DEF Good, IsTk
  <1>2. Xtime(t) \in Int /\ MonoAt(t, 0) = Xtime(t) + t.wall_to_monotonic
    BY <1>1, MonoIs
  <1>3. w \in Int /\ ts + w = Xtime(t) + t.wall_to_monotonic
    BY <1>1, <1>2
  <1>4. s \in Int /\ r \in Int /\ 0 <= r /\ r < n /\ ts = n * s + r
    <2> HIDE DEF n
    <2> QED BY <1>1, DivMod
  <1> HIDE DEF w, s, r
  <1>5. /\ IsTk(v) /\ Offsets(v) /\ v.wall_to_monotonic = w
        /\ v.clock = t.clock /\ v.cycle_last = t.cycle_last /\ v.mult = t.mult
        /\ v.raw_sec = t.raw_sec /\ v.raw_nsec = t.raw_nsec
        /\ v.offs_boot = t.offs_boot /\ v.tai_offset = t.tai_offset
    BY <1>1, <1>3, WallToMonoIs
  <1>6. u = UpdateCoarse(x)
    <2>1. Pow2(Source[v.clock].shift) = p
      BY <1>5 DEF Unit
    <2> QED BY <2>1 DEF SetXtime, s, r
  <1> HIDE DEF v, p, n
  <1>7. r * p \in Int /\ 0 <= r * p /\ r * p < n * p
    BY <1>1, <1>4
  <1>8. /\ DOMAIN x = TkFields /\ Like(v, x) /\ x.xtime_sec = s /\ x.xtime_nsec = r * p
        /\ x.raw_sec = v.raw_sec /\ x.raw_nsec = v.raw_nsec /\ x.coarse_nsec = v.coarse_nsec
    BY <1>5 DEF IsTk, TkFields, Like
  <1>9. x = [f \in TkFields |-> x[f]]
    BY <1>8
  <1> HIDE DEF x, u
  <1>10. IsTk(x)
    BY <1>4, <1>5, <1>7, <1>8, <1>9 DEF IsTk, Like
  <1>11. IsTk(u) /\ Kept(x, u) /\ RawSum(u) = RawSum(x) /\ Good(x) => Good(u)
    BY <1>6, <1>10, CoarseKeeps
  <1>a. IsTk(u) /\ Kept(x, u)
    BY <1>6, <1>10, CoarseKeeps
  <1>12. Unit(x) = p /\ Unit(u) = p /\ ShiftedSec(x) = n * p /\ MultsOf(x.clock) = MultsOf(t.clock)
    BY <1>1, <1>5, <1>8, <1>a DEF Unit, Like, Kept, p, ShiftedSec
  <1>13. Good(x)
    BY <1>1, <1>5, <1>7, <1>8, <1>10, <1>12 DEF Good, Like, Offsets, Settled
  <1>14. Good(u)
    BY <1>6, <1>10, <1>13, CoarseKeeps
  <1>15. /\ u.clock = t.clock /\ u.cycle_last = t.cycle_last /\ u.mult = t.mult
         /\ u.raw_sec = t.raw_sec /\ u.raw_nsec = t.raw_nsec /\ u.offs_boot = t.offs_boot
         /\ u.wall_to_monotonic = w /\ u.xtime_sec = s /\ u.xtime_nsec = r * p
    BY <1>5, <1>8, <1>a DEF Like, Kept
  <1>16. RawAt(u, 0) = RawAt(t, 0)
    BY <1>12, <1>15 DEF RawAt, RawSum, p
  <1>17. MonoAt(u, 0) = Xtime(u) + w
    BY <1>15, <1>a, MonoIs
  <1>18. Xtime(u) = ts
    <2>1. Xtime(u) = s * n + (r * p) \div p
      BY <1>12, <1>15 DEF Xtime, n, Unit
    <2>2. (r * p + 0) \div p = r + (0 \div p)
      <3> DEFINE z == 0
      <3>1. z \in Int
        OBVIOUS
      <3> HIDE DEF z
      <3>2. (r * p + z) \div p = r + (z \div p)
        BY <1>1, <1>4, <3>1, DivShift
      <3> QED BY <3>2 DEF z
    <2>3. 0 \div p = 0
      <3> DEFINE z == 0
      <3>1. z \in Int /\ z = p * z + z /\ 0 <= z /\ z < p
        BY <1>1
      <3> HIDE DEF z
      <3>2. z \div p = z
        BY <1>1, <3>1, DivUnique
      <3> QED BY <3>2 DEF z
    <2>4. r * p + 0 = r * p /\ r + 0 = r
      BY <1>4, <1>7
    <2>5. (r * p) \div p = r
      BY <2>2, <2>3, <2>4
    <2> QED BY <1>1, <1>4, <2>1, <2>5
  <1>19. MonoAt(u, 0) = MonoAt(t, 0)
    BY <1>2, <1>3, <1>17, <1>18
  <1> QED BY <1>14, <1>15, <1>16, <1>19 DEF Stays, u, v, w

\* __timekeeping_inject_offset(): what the wall clock gains, wall_to_monotonic loses.
LEMMA InjectKeeps ==
    ASSUME NEW t, Good(t), NEW d \in Int
    PROVE  LET u == Inject(t, d)
           IN Good(u) /\ Stays(t, u) /\ u.offs_boot = t.offs_boot
  <1> DEFINE v == XtimeAdd(t, d)
             w == t.wall_to_monotonic - d
             u == Inject(t, d)
             p == Unit(t)
             n == NSEC_PER_SEC
  <1>1. IsTk(t) /\ w \in Int /\ t.wall_to_monotonic \in Int /\ p \in Nat /\ n \in Nat
    BY UnitFacts DEF Good, IsTk
  <1>2. /\ IsTk(v) /\ Like(t, v) /\ Settled(v) /\ Sum(v) = Sum(t) + d * p /\ RawSum(v) = RawSum(t)
    BY <1>1, XtimeAddIs
  <1>3. u = SetWallToMono(v, w)
    BY DEF Inject
  <1> HIDE DEF u, v
  <1>4. /\ IsTk(u) /\ Offsets(u) /\ u.wall_to_monotonic = w
        /\ u.clock = v.clock /\ u.cycle_last = v.cycle_last /\ u.mult = v.mult
        /\ u.xtime_sec = v.xtime_sec /\ u.xtime_nsec = v.xtime_nsec
        /\ u.raw_sec = v.raw_sec /\ u.raw_nsec = v.raw_nsec
        /\ u.offs_boot = v.offs_boot /\ u.tai_offset = v.tai_offset
    BY <1>1, <1>2, <1>3, WallToMonoIs
  <1>5. /\ u.clock = t.clock /\ u.cycle_last = t.cycle_last /\ u.mult = t.mult
        /\ u.offs_boot = t.offs_boot
    BY <1>2, <1>4 DEF Like
  <1>6. Unit(u) = p /\ Unit(v) = p /\ ShiftedSec(u) = ShiftedSec(v)
    BY <1>4, <1>5 DEF Unit, ShiftedSec
  <1>7. Good(u)
    BY <1>2, <1>4, <1>5, <1>6 DEF Good, Settled
  <1>8. Sum(u) = Sum(t)
    <2> DEFINE a == v.xtime_sec
               b == v.xtime_nsec
               m == t.wall_to_monotonic
    <2>1. a \in Int /\ b \in Int /\ m \in Int
      BY <1>1, <1>2 DEF IsTk
    <2>2. Sum(v) = (a * n + m) * p + b
      BY <1>2, <1>6 DEF Sum, Like
    <2>3. Sum(u) = (a * n + (m - d)) * p + b
      BY <1>4, <1>6 DEF Sum
    <2>4. Sum(t) \in Int
      <3> DEFINE c == t.xtime_sec * n + m
      <3>1. c \in Int /\ t.xtime_nsec \in Int
        BY <1>1, <2>1 DEF IsTk
      <3>2. Sum(t) = c * p + t.xtime_nsec
        BY DEF Sum
      <3> HIDE DEF c, p
      <3> QED BY <1>1, <3>1, <3>2
    <2> HIDE DEF a, b, m, p, n
    <2>6. d * p \in Int /\ (a * n + m) * p + b \in Int
      BY <1>1, <2>1
    <2> DEFINE x == d * p
               y == (a * n + m) * p + b
               z == (a * n + (m - d)) * p + b
    <2>7. x \in Int /\ y \in Int
      BY <2>6
    <2>8. Sum(v) = Sum(t) + x
      BY <1>2
    <2>9. Sum(v) = y
      BY <2>2
    <2>10. Sum(u) = z
      BY <2>3
    <2>11. z = y - x
      BY <1>1, <2>1
    <2> HIDE DEF x, y, z
    <2> QED BY <2>4, <2>7, <2>8, <2>9, <2>10, <2>11
  <1>9. RawSum(u) = RawSum(t)
    BY <1>2, <1>4, <1>6 DEF RawSum
  <1> QED BY <1>5, <1>7, <1>8, <1>9, SumsStay DEF u

\* __timekeeping_inject_sleeptime(): CLOCK_BOOTTIME gains it too.
LEMMA InjectSleepKeeps ==
    ASSUME NEW t, Good(t), NEW d \in Int
    PROVE  LET u == InjectSleep(t, d)
           IN Good(u) /\ Stays(t, u) /\ u.offs_boot = t.offs_boot + d
  <1> DEFINE v == Inject(t, d)
             u == InjectSleep(t, d)
  <1>1. Good(v) /\ Stays(t, v) /\ v.offs_boot = t.offs_boot
    BY InjectKeeps
  <1>2. u = [v EXCEPT !.offs_boot = @ + d]
    BY DEF Inject, InjectSleep
  <1> HIDE DEF u, v
  <1>3. IsTk(v) /\ v.offs_boot \in Int
    BY <1>1 DEF Good, IsTk
  <1>4. /\ DOMAIN u = TkFields /\ u.offs_boot = v.offs_boot + d
        /\ u.clock = v.clock /\ u.cycle_last = v.cycle_last /\ u.mult = v.mult
        /\ u.xtime_sec = v.xtime_sec /\ u.xtime_nsec = v.xtime_nsec
        /\ u.raw_sec = v.raw_sec /\ u.raw_nsec = v.raw_nsec /\ u.coarse_nsec = v.coarse_nsec
        /\ u.wall_to_monotonic = v.wall_to_monotonic /\ u.offs_real = v.offs_real
        /\ u.offs_tai = v.offs_tai /\ u.tai_offset = v.tai_offset
    BY <1>2, <1>3 DEF IsTk, TkFields
  <1>5. u = [f \in TkFields |-> u[f]]
    BY <1>2, <1>4
  <1>6. IsTk(u)
    BY <1>3, <1>4, <1>5 DEF IsTk
  <1>7. Unit(u) = Unit(v) /\ ShiftedSec(u) = ShiftedSec(v)
    BY <1>4 DEF Unit, ShiftedSec
  <1>8. Good(u)
    BY <1>1, <1>4, <1>6, <1>7 DEF Good, Offsets, Settled
  <1>9. Sum(u) = Sum(v) /\ RawSum(u) = RawSum(v)
    BY <1>4, <1>7 DEF Sum, RawSum
  <1>10. Stays(v, u)
    BY <1>4, <1>9, SumsStay
  <1>11. Stays(t, u)
    BY <1>1, <1>10 DEF Stays
  <1> QED BY <1>1, <1>4, <1>8, <1>11 DEF u

\* CLOCK_MONOTONIC_RAW at cycle_last
LEMMA RawIs ==
    ASSUME NEW t, IsTk(t)
    PROVE  RawAt(t, 0) = t.raw_sec * NSEC_PER_SEC + t.raw_nsec \div Unit(t)
           /\ t.raw_nsec \div Unit(t) \in Int
  <1> DEFINE n == NSEC_PER_SEC
             p == Unit(t)
             x == t.raw_nsec
             b == t.raw_sec * n
             m == Source[t.clock].mult
  <1>1. n \in Nat \ {0} /\ p \in Nat \ {0} /\ t.raw_sec \in Int /\ x \in Int /\ m \in Nat
    BY UnitFacts, SourceFacts DEF IsTk
  <1>2. RawAt(t, 0) = (b * p + x + 0 * m) \div p
    BY DEF RawAt, RawSum
  <1>3. b \in Int
    BY <1>1
  <1> HIDE DEF n, p, x, b, m
  <1>4. x \div p \in Int
    BY <1>1, DivMod
  <1>5. b * p + x + 0 * m = b * p + x
    BY <1>1, <1>3
  <1>6. (b * p + x) \div p = b + x \div p
    BY <1>1, <1>3, DivShift
  <1> QED BY <1>2, <1>4, <1>5, <1>6 DEF b, n, p, x

\* __timekeeping_set_tai_offset()
LEMMA TaiKeeps ==
    ASSUME NEW t, Good(t), NEW tai \in Int
    PROVE  LET u == SetTaiOffset(t, tai)
           IN /\ Good(u) /\ Stays(t, u) /\ u.offs_boot = t.offs_boot
              /\ \A e : MonoAt(u, e) = MonoAt(t, e) /\ RawAt(u, e) = RawAt(t, e)
  <1> DEFINE u == SetTaiOffset(t, tai)
             x == t.offs_real + tai * NSEC_PER_SEC
  <1>1. IsTk(t) /\ NSEC_PER_SEC \in Int /\ tai * NSEC_PER_SEC \in Int /\ x \in Int
    BY UnitFacts DEF Good, IsTk
  <1>a. u = [t EXCEPT !.tai_offset = tai, !.offs_tai = x]
    BY DEF SetTaiOffset
  <1> HIDE DEF u, x
  <1>2. /\ DOMAIN u = TkFields /\ u.tai_offset = tai /\ u.offs_tai = x
        /\ u.clock = t.clock /\ u.cycle_last = t.cycle_last /\ u.mult = t.mult
        /\ u.xtime_sec = t.xtime_sec /\ u.xtime_nsec = t.xtime_nsec /\ u.coarse_nsec = t.coarse_nsec
        /\ u.raw_sec = t.raw_sec /\ u.raw_nsec = t.raw_nsec
        /\ u.wall_to_monotonic = t.wall_to_monotonic /\ u.offs_real = t.offs_real
        /\ u.offs_boot = t.offs_boot
    BY <1>1, <1>a DEF IsTk, TkFields
  <1>3. u = [f \in TkFields |-> u[f]]
    BY <1>2, <1>a
  <1>4. IsTk(u)
    BY <1>1, <1>2, <1>3 DEF IsTk
  <1>5. Unit(u) = Unit(t) /\ ShiftedSec(u) = ShiftedSec(t) /\ MultsOf(u.clock) = MultsOf(t.clock)
    BY <1>2 DEF Unit, ShiftedSec
  <1>6. Offsets(u)
    BY <1>2 DEF Good, Offsets, x
  <1>7. Good(u)
    BY <1>2, <1>4, <1>5, <1>6 DEF Good, Settled
  <1>8. Sum(u) = Sum(t) /\ RawSum(u) = RawSum(t)
    BY <1>2, <1>5 DEF Sum, RawSum
  <1> QED BY <1>2, <1>7, <1>8, SumsStay DEF u

\* A conversion from one shift to another
LEMMA ConvertNsec ==
    ASSUME NEW x \in Nat, NEW n \in Nat, NEW p \in Nat \ {0}, NEW q \in Nat \ {0}, x < n * p
    PROVE  /\ (x * q) \div p \in Nat /\ (x * q) \div p < n * q
           /\ ((x * q) \div p) \div q = x \div p
  <1>1. x * q \in Int /\ 0 <= x * q
    OBVIOUS
  <1>2. x * q < (n * q) * p
    <2> DEFINE a == n * p
    <2>1. a \in Nat /\ x < a
      OBVIOUS
    <2> HIDE DEF a
    <2>2. x * q < a * q
      BY <2>1
    <2>3. a * q = (n * q) * p
      BY DEF a
    <2> QED BY <2>2, <2>3
  <1> DEFINE y == x * q
             m == n * q
  <1>3. y \in Int /\ m \in Int /\ 0 <= y /\ y < m * p
    BY <1>1, <1>2
  <1> HIDE DEF y, m
  <1>4. y \div p \in Int /\ 0 <= y \div p /\ y \div p < m
    BY <1>3, DivBound
  <1>5. (x * q) \div p \in Nat /\ (x * q) \div p < n * q
    BY <1>4 DEF y, m
  <1> QED BY <1>5, DivTwice

\* tk_setup_internals(): the new counter goes on where the old one was.
LEMMA SetupKeeps ==
    ASSUME NEW t, Good(t), NEW c \in Clocks, now \in Nat, slept \in Nat
    PROVE  LET u == SetupInternals(t, c)
           IN /\ Good(u) /\ u.clock = c /\ u.cycle_last = Read(c) /\ u.offs_boot = t.offs_boot
              /\ MonoAt(u, 0) = MonoAt(t, 0) /\ RawAt(u, 0) = RawAt(t, 0)
  <1> DEFINE n == NSEC_PER_SEC
             p == Unit(t)
             q == Pow2(Source[c].shift)
             x == (t.xtime_nsec * q) \div p
             y == (t.raw_nsec * q) \div p
             m == Source[c].mult
             r == Read(c)
             u == SetupInternals(t, c)
  <1>1. IsTk(t) /\ n \in Nat \ {0} /\ p \in Nat \ {0} /\ q \in Nat \ {0} /\ ShiftedSec(t) = n * p
        /\ m \in Nat /\ MaxAdj \in Nat
    BY UnitFacts, SourceFacts DEF Good
  <1>2. r \in Nat /\ r < Source[c].size
    BY ReadIs
  <1>3. t.xtime_nsec \in Nat /\ t.xtime_nsec < n * p /\ t.raw_nsec \in Nat /\ t.raw_nsec < n * p
    BY <1>1 DEF Good, IsTk, Settled
  <1>4. x \in Nat /\ x < n * q /\ x \div q = t.xtime_nsec \div p
        /\ y \in Nat /\ y < n * q /\ y \div q = t.raw_nsec \div p
    <2> HIDE DEF n, p, q
    <2>1. ASSUME NEW z \in Nat, z < n * p
          PROVE  /\ (z * q) \div p \in Nat /\ (z * q) \div p < n * q
                 /\ ((z * q) \div p) \div q = z \div p
      BY <1>1, <2>1, ConvertNsec
    <2> QED BY <1>3, <2>1
  <1>5. u = [t EXCEPT !.clock = c, !.cycle_last = r, !.mult = m, !.xtime_nsec = x, !.raw_nsec = y,
                      !.skip_second_overflow = FALSE]
    BY DEF SetupInternals, Unit
  <1> HIDE DEF u, x, y, m, r
  <1>6. /\ DOMAIN u = TkFields /\ u.clock = c /\ u.cycle_last = r /\ u.mult = m
        /\ u.xtime_nsec = x /\ u.raw_nsec = y
    BY <1>1, <1>5 DEF IsTk, TkFields
  <1>7. /\ u.xtime_sec = t.xtime_sec /\ u.coarse_nsec = t.coarse_nsec
        /\ u.raw_sec = t.raw_sec
        /\ u.wall_to_monotonic = t.wall_to_monotonic /\ u.offs_real = t.offs_real
        /\ u.offs_boot = t.offs_boot /\ u.offs_tai = t.offs_tai /\ u.tai_offset = t.tai_offset
    BY <1>1, <1>5 DEF IsTk, TkFields
  <1>8. u = [f \in TkFields |-> u[f]]
    <2>1. u = [f \in DOMAIN u |-> u[f]]
      BY <1>5
    <2> QED BY <1>6, <2>1
  <1>9. IsTk(u)
    <2> HIDE DEF p, q, n
    <2> QED BY <1>1, <1>2, <1>4, <1>6, <1>7, <1>8 DEF IsTk
  <1>10. Unit(u) = q /\ ShiftedSec(u) = n * q
    BY <1>6 DEF Unit, ShiftedSec
  <1>11. u.mult \in MultsOf(u.clock)
    BY <1>1, <1>6 DEF MultsOf, m
  <1>12. Good(u)
    <2> HIDE DEF p, q, n
    <2> QED BY <1>2, <1>4, <1>6, <1>7, <1>9, <1>10, <1>11 DEF Good, Offsets, Settled
  <1>13. Xtime(u) = Xtime(t)
    <2>1. Xtime(u) = u.xtime_sec * n + x \div q
      BY <1>6 DEF Xtime
    <2>2. Xtime(t) = t.xtime_sec * n + t.xtime_nsec \div p
      BY DEF Xtime, Unit
    <2> HIDE DEF p, q, n
    <2> QED BY <1>4, <1>7, <2>1, <2>2
  <1>14. MonoAt(u, 0) = MonoAt(t, 0)
    BY <1>1, <1>7, <1>9, <1>13, MonoIs
  <1>15. RawAt(u, 0) = RawAt(t, 0)
    <2>1. RawAt(u, 0) = t.raw_sec * n + y \div q
      BY <1>6, <1>7, <1>9, <1>10, RawIs
    <2>2. RawAt(t, 0) = t.raw_sec * n + t.raw_nsec \div p
      BY <1>1, RawIs
    <2> HIDE DEF p, q, n
    <2> QED BY <1>4, <2>1, <2>2
  <1> QED BY <1>6, <1>7, <1>12, <1>14, <1>15 DEF u, r

-----------------------------------------------------------------------------
\* The tick

\* What the tick leaves alone
Ticked(t, u) ==
    /\ u.clock = t.clock /\ u.offs_boot = t.offs_boot

\* logarithmic_accumulation()
LEMMA IntervalsKeep ==
    ASSUME NEW t, Good(t), NEW n \in Nat, NEW r \in Int,
           n * CycleInterval(t.clock) <= Gap(t, r)
    PROVE  LET u == AccumulateIntervals(t, n)
               c == n * CycleInterval(t.clock)
           IN /\ IsTk(u) /\ Offsets(u) /\ Ticked(t, u) /\ u.mult = t.mult /\ 0 <= u.xtime_nsec
              /\ u.cycle_last < Source[t.clock].size
              /\ 0 <= u.raw_nsec /\ u.raw_nsec < ShiftedSec(u)
              /\ Sum(u) = Sum(t) + c * t.mult
              /\ RawSum(u) = RawSum(t) + c * Source[t.clock].mult
              /\ Gap(u, r) = Gap(t, r) - c
  <1> DEFINE u == AccumulateIntervals(t, n)
             c == n * CycleInterval(t.clock)
             s == Source[t.clock].size
             mult == Source[t.clock].mult
             l == (t.cycle_last + c) % s
             x == t.xtime_nsec + c * t.mult
             y == t.raw_nsec + c * mult
             d == ShiftedSec(t)
             p == Unit(t)
  <1>1. /\ IsTk(t) /\ s \in Nat \ {0} /\ mult \in Nat /\ CycleInterval(t.clock) \in Nat \ {0}
        /\ d \in Nat \ {0} /\ p \in Nat \ {0} /\ NSEC_PER_SEC \in Nat \ {0} /\ d = NSEC_PER_SEC * p
    BY SourceFacts, UnitFacts DEF Good, IsTk
  <1>2. c \in Nat
    BY <1>1
  <1>3. t.cycle_last \in Nat /\ t.mult \in Nat /\ t.xtime_nsec \in Nat /\ t.raw_nsec \in Nat
        /\ t.raw_sec \in Int /\ t.xtime_sec \in Int /\ t.wall_to_monotonic \in Int
    BY DEF Good, IsTk, Settled
  <1>a. c <= Gap(t, r)
    OBVIOUS
  <1> HIDE DEF c, s, mult, d, p
  <1>4. l \in Nat /\ l < s /\ l = Rem(t.cycle_last + c, s)
    <2>1. t.cycle_last + c \in Int
      BY <1>2, <1>3
    <2> DEFINE a == t.cycle_last + c
    <2> HIDE DEF a
    <2>2. Rem(a, s) \in Int /\ 0 <= Rem(a, s) /\ Rem(a, s) < s
      BY <1>1, <2>1, RemIs DEF a
    <2>3. l = Rem(a, s)
      BY DEF Rem, a
    <2> QED BY <2>2, <2>3 DEF a
  <1>5. c * t.mult \in Nat /\ c * mult \in Nat
    BY <1>1, <1>2, <1>3
  <1>6. x \in Nat /\ y \in Nat
    BY <1>3, <1>5
  <1>7. /\ y \div d \in Int /\ y % d \in Int /\ 0 <= y % d /\ y % d < d
        /\ ((t.raw_sec + y \div d) * NSEC_PER_SEC + 0) * p + (y % d)
             = (t.raw_sec * NSEC_PER_SEC + 0) * p + y
    <2> DEFINE a == t.raw_sec
               w == 0
               m == NSEC_PER_SEC
    <2>1. a \in Int /\ w \in Int /\ y \in Int /\ m \in Nat \ {0} /\ p \in Nat \ {0}
      BY <1>1, <1>3, <1>6
    <2> HIDE DEF a, w, y, m
    <2>2. d = m * p
      BY <1>1 DEF m
    <2>3. /\ y \div d \in Int /\ y % d \in Int /\ 0 <= y % d /\ y % d < d
          /\ ((a + y \div d) * m + w) * p + (y % d) = (a * m + w) * p + y
      BY <2>1, <2>2, TakeSeconds
    <2> QED BY <2>3 DEF a, w, m
  <1> DEFINE v == [t EXCEPT !.cycle_last = l, !.xtime_nsec = x, !.raw_nsec = y]
  <1>8. u = [v EXCEPT !.raw_sec = @ + v.raw_nsec \div d, !.raw_nsec = @ % d]
    BY DEF AccumulateIntervals, c, s, mult, d
  <1> HIDE DEF l, x, y
  <1>9. /\ DOMAIN v = TkFields /\ v.cycle_last = l /\ v.xtime_nsec = x /\ v.raw_nsec = y
        /\ v.raw_sec = t.raw_sec /\ v.clock = t.clock /\ v.mult = t.mult
        /\ v.xtime_sec = t.xtime_sec /\ v.coarse_nsec = t.coarse_nsec
        /\ v.wall_to_monotonic = t.wall_to_monotonic /\ v.offs_real = t.offs_real
        /\ v.offs_boot = t.offs_boot /\ v.offs_tai = t.offs_tai /\ v.tai_offset = t.tai_offset
    BY <1>1 DEF IsTk, TkFields
  <1> HIDE DEF u, v
  <1>10. /\ DOMAIN u = TkFields /\ u.cycle_last = l /\ u.xtime_nsec = x /\ u.raw_nsec = y % d
         /\ u.raw_sec = t.raw_sec + y \div d /\ u.clock = t.clock /\ u.mult = t.mult
         /\ u.xtime_sec = t.xtime_sec /\ u.coarse_nsec = t.coarse_nsec
         /\ u.wall_to_monotonic = t.wall_to_monotonic /\ u.offs_real = t.offs_real
         /\ u.offs_boot = t.offs_boot /\ u.offs_tai = t.offs_tai /\ u.tai_offset = t.tai_offset
    <2> DEFINE a == v.raw_sec + v.raw_nsec \div d
               b == v.raw_nsec % d
    <2>1. u = [v EXCEPT !.raw_sec = a, !.raw_nsec = b]
      BY <1>8
    <2>2. a = t.raw_sec + y \div d /\ b = y % d
      BY <1>9
    <2> HIDE DEF a, b
    <2> QED BY <1>9, <2>1, <2>2 DEF TkFields
  <1>11. u = [f \in TkFields |-> u[f]]
    <2>1. u = [f \in DOMAIN u |-> u[f]]
      BY <1>8
    <2> QED BY <1>10, <2>1
  <1>12. t.raw_sec + y \div d \in Int
    BY <1>3, <1>7
  <1>13. IsTk(u)
    <2> DEFINE a == t.raw_sec + y \div d
               b == y % d
    <2>1. a \in Int /\ b \in Int /\ u.raw_sec = a /\ u.raw_nsec = b
      BY <1>7, <1>10, <1>12
    <2> HIDE DEF a, b
    <2> QED BY <1>1, <1>4, <1>6, <1>10, <1>11, <2>1 DEF IsTk
  <1>14. Unit(u) = p /\ ShiftedSec(u) = d
    BY <1>10 DEF Unit, ShiftedSec, p, d
  <1>15. Offsets(u) /\ Ticked(t, u)
    BY <1>10 DEF Good, Offsets, Ticked
  <1>16. Sum(u) = Sum(t) + c * t.mult
    <2> DEFINE b == (t.xtime_sec * NSEC_PER_SEC + t.wall_to_monotonic) * p
    <2>1. Sum(u) = b + x /\ Sum(t) = b + t.xtime_nsec
      BY <1>10, <1>14 DEF Sum, p
    <2>2. b \in Int
      BY <1>1, <1>3
    <2> HIDE DEF b
    <2> QED BY <1>3, <1>5, <2>1, <2>2 DEF x
  <1>17. RawSum(u) = RawSum(t) + c * mult
    <2> DEFINE a == (t.raw_sec + y \div d) * NSEC_PER_SEC
               b == t.raw_sec * NSEC_PER_SEC
    <2>1. RawSum(u) = a * p + (y % d) /\ RawSum(t) = b * p + t.raw_nsec
      BY <1>10, <1>14 DEF RawSum, p
    <2>2. a \in Int /\ b \in Int
      BY <1>1, <1>3, <1>12
    <2>3. (a + 0) * p + (y % d) = (b + 0) * p + y
      BY <1>7
    <2> HIDE DEF a, b
    <2>4. a * p + (y % d) = b * p + y
      BY <2>2, <2>3
    <2>5. b * p \in Int
      BY <1>1, <2>2
    <2> QED BY <1>3, <1>5, <2>1, <2>4, <2>5 DEF y
  <1>18. Gap(u, r) = Gap(t, r) - c
    <2> DEFINE k == t.cycle_last
    <2>1. Gap(u, r) = Rem(r - Rem(k + c, s), s)
      BY <1>4, <1>10 DEF Gap, Rem, s
    <2>2. Gap(t, r) = Rem(r - k, s)
      BY DEF Gap, Rem, s
    <2>3. k \in Int
      BY <1>3
    <2> HIDE DEF k
    <2>4. c <= Rem(r - k, s)
      BY <1>a, <2>2
    <2>5. Rem(r - Rem(k + c, s), s) = Rem(r - k, s) - c
      BY <1>1, <1>2, <2>3, <2>4, RemCloser
    <2> QED BY <2>1, <2>2, <2>5
  <1> QED BY <1>4, <1>6, <1>7, <1>10, <1>13, <1>14, <1>15, <1>16, <1>17, <1>18 DEF u, c, s, mult

\* NTP changes less than a second in an interval.
LEMMA AdjustmentIsSmall ==
    ASSUME NEW o \in Nat, NEW i \in Nat, o <= i, NEW adj \in Nat, NEW sec \in Nat,
           2 * adj * i <= sec, NEW a \in Int, NEW b \in Int, NEW m \in Int,
           m - adj <= a, a <= m + adj, m - adj <= b, b <= m + adj
    PROVE  o * (b - a) \in Int /\ o * (b - a) <= sec
  <1>1. b - a <= 2 * adj /\ b - a \in Int
    OBVIOUS
  <1> DEFINE c == b - a
             e == 2 * adj
  <1>2. c \in Int /\ e \in Nat /\ c <= e /\ e * i <= sec
    BY <1>1
  <1> HIDE DEF c, e
  <1>3. o * c <= o * e
    BY <1>2
  <1>4. o * e <= i * e
    BY <1>2
  <1>5. o * c \in Int /\ o * e \in Int /\ i * e = e * i /\ e * i \in Int
    BY <1>2
  <1> QED BY <1>2, <1>3, <1>4, <1>5 DEF c

\* timekeeping_adjust(): the current time does not move.
LEMMA AdjustKeeps ==
    ASSUME NEW t, IsTk(t), Offsets(t), 0 <= t.xtime_nsec, t.mult \in MultsOf(t.clock), SteersSlowly,
           NEW o \in Nat, o <= CycleInterval(t.clock), NEW m \in MultsOf(t.clock)
    PROVE  LET u == Adjust(t, o, m)
           IN /\ IsTk(u) /\ Offsets(u) /\ Ticked(t, u) /\ u.mult = m /\ u.cycle_last = t.cycle_last
              /\ u.raw_sec = t.raw_sec /\ u.raw_nsec = t.raw_nsec
              /\ 0 <= u.xtime_nsec
              /\ Sum(u) + o * m = Sum(t) + o * t.mult
  <1> DEFINE u == Adjust(t, o, m)
             x == t.xtime_nsec - o * (m - t.mult)
             v == ApplyAdjustment(t, o, m)
             d == ShiftedSec(t)
             p == Unit(t)
             n == NSEC_PER_SEC
             i == CycleInterval(t.clock)
             mult == Source[t.clock].mult
  <1>1. /\ i \in Nat /\ mult \in Nat /\ mult > MaxAdj /\ MaxAdj \in Nat /\ d \in Nat \ {0}
        /\ p \in Nat \ {0} /\ n \in Nat \ {0} /\ d = n * p /\ 2 * MaxAdj * i <= d
    BY SourceFacts, UnitFacts DEF IsTk, SteersSlowly, ShiftedSec
  <1>2. /\ t.mult \in Nat /\ mult - MaxAdj <= t.mult /\ t.mult <= mult + MaxAdj
        /\ m \in Nat /\ mult - MaxAdj <= m /\ m <= mult + MaxAdj
    BY <1>1 DEF MultsOf
  <1>3. t.xtime_nsec \in Int /\ t.xtime_sec \in Int /\ t.wall_to_monotonic \in Int /\ o <= i
    BY DEF IsTk
  <1> HIDE DEF i, mult, d, p, n
  <1>4. o * (m - t.mult) \in Int /\ o * (m - t.mult) <= d
    <2> DEFINE a == t.mult
    <2>1. a \in Nat /\ mult - MaxAdj <= a /\ a <= mult + MaxAdj
      BY <1>2
    <2> HIDE DEF a
    <2>2. o * (m - a) \in Int /\ o * (m - a) <= d
      BY <1>1, <1>2, <1>3, <2>1, AdjustmentIsSmall
    <2> QED BY <2>2 DEF a
  <1>5. x \in Int /\ x + d >= 0
    BY <1>1, <1>3, <1>4
  <1>6. v = [t EXCEPT !.mult = m, !.xtime_nsec = x]
    BY DEF ApplyAdjustment, IsTk, TkFields
  <1> HIDE DEF x, v
  <1>7. /\ DOMAIN v = TkFields /\ v.mult = m /\ v.xtime_nsec = x
        /\ v.raw_sec = t.raw_sec /\ v.raw_nsec = t.raw_nsec /\ v.clock = t.clock
        /\ v.cycle_last = t.cycle_last /\ v.xtime_sec = t.xtime_sec /\ v.coarse_nsec = t.coarse_nsec
        /\ v.wall_to_monotonic = t.wall_to_monotonic /\ v.offs_real = t.offs_real
        /\ v.offs_boot = t.offs_boot /\ v.offs_tai = t.offs_tai /\ v.tai_offset = t.tai_offset
    BY <1>6 DEF IsTk, TkFields
  <1>8. v = [f \in TkFields |-> v[f]]
    BY <1>6, <1>7
  <1>9. Unit(v) = p /\ ShiftedSec(v) = d
    BY <1>7 DEF Unit, ShiftedSec, p, d
  <1>10. o * (m - t.mult) = o * m - o * t.mult /\ o * m \in Int /\ o * t.mult \in Int
    BY <1>2
  <1> DEFINE Same(w) ==
               /\ w.raw_sec = t.raw_sec /\ w.raw_nsec = t.raw_nsec /\ w.clock = t.clock
               /\ w.mult = m /\ w.cycle_last = t.cycle_last /\ w.coarse_nsec = t.coarse_nsec
               /\ w.wall_to_monotonic = t.wall_to_monotonic /\ w.offs_real = t.offs_real
               /\ w.offs_boot = t.offs_boot /\ w.offs_tai = t.offs_tai
               /\ w.tai_offset = t.tai_offset
               /\ w = [f \in TkFields |-> w[f]]
  <1>11. CASE x >= 0
    <2>1. u = v /\ Same(v)
      BY <1>7, <1>8, <1>11 DEF Adjust, v
    <2>2. IsTk(v) /\ Offsets(v) /\ Ticked(t, v)
      BY <1>2, <1>5, <1>7, <2>1 DEF IsTk, Offsets, Ticked
    <2>3. Sum(v) + o * m = Sum(t) + o * t.mult
      <3> DEFINE b == (t.xtime_sec * n + t.wall_to_monotonic) * p
      <3>1. Sum(v) = b + x /\ Sum(t) = b + t.xtime_nsec
        BY <1>7, <1>9 DEF Sum, n, p
      <3>2. b \in Int
        BY <1>1, <1>3
      <3> HIDE DEF b
      <3> QED BY <1>3, <1>4, <1>10, <3>1, <3>2 DEF x
    <2> QED BY <1>7, <1>11, <2>1, <2>2, <2>3
  <1>12. CASE ~(x >= 0)
    <2>1. u = [v EXCEPT !.xtime_nsec = x + d, !.xtime_sec = t.xtime_sec - 1,
                        !.skip_second_overflow = TRUE]
      BY <1>7, <1>9, <1>12 DEF Adjust, v, TkFields
    <2> HIDE DEF u
    <2>2. /\ DOMAIN u = TkFields /\ u.xtime_nsec = x + d /\ u.xtime_sec = t.xtime_sec - 1
          /\ u.mult = m /\ u.raw_sec = t.raw_sec /\ u.raw_nsec = t.raw_nsec /\ u.clock = t.clock
          /\ u.cycle_last = t.cycle_last /\ u.coarse_nsec = t.coarse_nsec
          /\ u.wall_to_monotonic = t.wall_to_monotonic /\ u.offs_real = t.offs_real
          /\ u.offs_boot = t.offs_boot /\ u.offs_tai = t.offs_tai /\ u.tai_offset = t.tai_offset
      BY <1>7, <2>1 DEF TkFields
    <2>3. u = [f \in TkFields |-> u[f]]
      <3>1. u = [f \in DOMAIN u |-> u[f]]
        BY <2>1
      <3> QED BY <2>2, <3>1
    <2>4. x + d \in Int /\ t.xtime_sec - 1 \in Int
      BY <1>1, <1>3, <1>5
    <2>5. IsTk(u) /\ Offsets(u) /\ Ticked(t, u)
      BY <1>2, <2>2, <2>3, <2>4 DEF IsTk, Offsets, Ticked
    <2>6. Sum(u) + o * m = Sum(t) + o * t.mult
      <3> DEFINE a == t.xtime_sec
                 w == t.wall_to_monotonic
                 b == (a * n + w) * p
                 c == ((a - 1) * n + w) * p
      <3>1. Unit(u) = p
        BY <2>2 DEF Unit, p
      <3>2. Sum(u) = c + (x + d)
        BY <2>2, <3>1 DEF Sum, n
      <3>3. Sum(t) = b + t.xtime_nsec
        BY DEF Sum, n, p
      <3>4. a \in Int /\ w \in Int
        BY <1>3
      <3> HIDE DEF a, w
      <3>5. b \in Int /\ c \in Int /\ c + d = b
        BY <1>1, <3>4
      <3> HIDE DEF b, c
      <3>6. c + (x + d) = b + x
        BY <1>1, <1>5, <3>5
      <3> QED BY <1>3, <1>4, <1>10, <3>2, <3>3, <3>5, <3>6 DEF x
    <2> QED BY <1>5, <2>2, <2>5, <2>6 DEF u
  <1> QED BY <1>11, <1>12

\* __timekeeping_advance(): the clocks go on where they were, in whole intervals, with
\* a new multiplier.
LEMMA AdvancedKeeps ==
    ASSUME NEW t, Good(t), now \in Nat, slept \in Nat, SteersSlowly,
           Gap(t, Read(t.clock)) < Source[t.clock].size \div 2,
           NEW n, NEW m \in MultsOf(t.clock)
    PROVE  LET u == Advanced(t, n, m).tk
               r == Read(t.clock)
               i == CycleInterval(t.clock)
               k == ClocksourceDelta(t) \div i
           IN /\ Good(u) /\ Ticked(t, u)
              /\ k \in Nat /\ Gap(u, r) \in Nat /\ Gap(u, r) = Gap(t, r) - k * i /\ Gap(u, r) < i
              /\ MonoAt(u, Gap(u, r)) = MonoAt(t, Gap(t, r))
              /\ RawAt(u, Gap(u, r)) = RawAt(t, Gap(t, r))
  <1> DEFINE r == Read(t.clock)
             i == CycleInterval(t.clock)
             g == Gap(t, r)
             k == g \div i
             o == g % i
             c == k * i
             mult == Source[t.clock].mult
             t1 == AccumulateIntervals(t, k)
             a1 == [tk |-> t1, ntp |-> n, clock_set |-> FALSE]
             a2 == AccumulateSecs(a1)
             t3 == Adjust(a2.tk, o, m)
             a3 == [a2 EXCEPT !.tk = t3]
             a4 == AccumulateSecs(a3)
             u == Advanced(t, n, m).tk
  <1>1. /\ IsTk(t) /\ t.clock \in Clocks /\ i \in Nat \ {0} /\ mult \in Nat /\ MaxAdj \in Nat
        /\ r \in Nat /\ g \in Nat /\ ClocksourceDelta(t) = g
    BY SourceFacts, ReadIs, GapIs, DeltaIsGap DEF Good, IsTk
  <1> HIDE DEF i, g, mult, r
  <1>2. k \in Nat /\ o \in Nat /\ o < i /\ c \in Nat /\ c <= g /\ o = g - c
    <2>1. k \in Int /\ o \in Int /\ g = i * k + o /\ 0 <= o /\ o < i
      <3>1. g \in Int /\ i \in Nat \ {0}
        BY <1>1
      <3> QED BY <3>1, DivMod
    <2> HIDE DEF k, o
    <2>2. ~(k < 0)
      BY <1>1, <2>1, NextMultiple
    <2>3. c \in Nat /\ c = i * k
      BY <1>1, <2>1, <2>2
    <2> QED BY <1>1, <2>1, <2>2, <2>3
  <1> HIDE DEF k, o
  <1>3. /\ IsTk(t1) /\ Offsets(t1) /\ Ticked(t, t1) /\ t1.mult = t.mult /\ 0 <= t1.xtime_nsec
        /\ t1.cycle_last < Source[t.clock].size
        /\ 0 <= t1.raw_nsec /\ t1.raw_nsec < ShiftedSec(t1)
        /\ Sum(t1) = Sum(t) + c * t.mult
        /\ RawSum(t1) = RawSum(t) + c * mult
        /\ Gap(t1, r) = g - c
    BY <1>1, <1>2, IntervalsKeep DEF i, g, mult
  <1>4. /\ IsAcc(a2) /\ Carried(t1, a2.tk) /\ Sum(a2.tk) = Sum(t1) /\ 0 <= a2.tk.xtime_nsec
    <2>1. IsAcc(a1) /\ a1.tk = t1
      BY <1>3 DEF IsAcc
    <2> HIDE DEF a1
    <2> QED BY <1>3, <2>1, AccumulateKeeps
  <1> HIDE DEF t1, a2
  <1>5. a2.tk.clock = t.clock /\ a2.tk.mult = t.mult
    BY <1>3, <1>4 DEF Carried, Ticked
  <1>6. /\ IsTk(t3) /\ Offsets(t3) /\ Ticked(a2.tk, t3) /\ t3.mult = m
        /\ t3.cycle_last = a2.tk.cycle_last
        /\ t3.raw_sec = a2.tk.raw_sec /\ t3.raw_nsec = a2.tk.raw_nsec
        /\ 0 <= t3.xtime_nsec
        /\ Sum(t3) + o * m = Sum(a2.tk) + o * a2.tk.mult
    <2>1. o <= CycleInterval(a2.tk.clock) /\ m \in MultsOf(a2.tk.clock)
          /\ a2.tk.mult \in MultsOf(a2.tk.clock)
      BY <1>1, <1>2, <1>5 DEF i, Good
    <2> QED BY <1>2, <1>4, <2>1, AdjustKeeps DEF IsAcc
  <1> HIDE DEF t3
  <1>7. /\ IsAcc(a4) /\ Carried(t3, a4.tk) /\ Sum(a4.tk) = Sum(t3)
        /\ 0 <= a4.tk.xtime_nsec /\ a4.tk.xtime_nsec < ShiftedSec(a4.tk)
    <2>1. a3.tk = t3 /\ a3 = [f \in {"tk", "ntp", "clock_set"} |-> a3[f]]
      BY <1>4 DEF IsAcc
    <2> HIDE DEF a3
    <2>2. IsAcc(a3)
      BY <1>6, <2>1 DEF IsAcc
    <2> QED BY <1>6, <2>1, <2>2, AccumulateKeeps
  <1>8. ClocksourceDelta(t) \div CycleInterval(t.clock) = k
        /\ ClocksourceDelta(t) % CycleInterval(t.clock) = o
    BY <1>1 DEF k, o, i
  <1>9. u = a4.tk \/ u = UpdateCoarse(a4.tk)
    <2> DEFINE x == IF k > 0 THEN UpdateCoarse(a4.tk) ELSE a4.tk
    <2>1. Advanced(t, n, m) = [a4 EXCEPT !.tk = x]
      BY <1>8 DEF Advanced, t1, a2, t3
    <2>2. x = a4.tk \/ x = UpdateCoarse(a4.tk)
      OBVIOUS
    <2> HIDE DEF a4, x
    <2> QED BY <1>7, <2>1, <2>2 DEF IsAcc
  <1> HIDE DEF a4, u
  <1>10. IsTk(u) /\ Kept(a4.tk, u)
    <2>1. IsTk(a4.tk)
      BY <1>7 DEF IsAcc
    <2> QED BY <1>9, <2>1, CoarseKeeps DEF Kept
  <1>11. /\ u.clock = t.clock /\ u.mult = m /\ u.cycle_last = t1.cycle_last
         /\ u.offs_boot = t.offs_boot /\ u.raw_sec = t1.raw_sec /\ u.raw_nsec = t1.raw_nsec
    BY <1>3, <1>4, <1>6, <1>7, <1>10 DEF Kept, Carried, Ticked
  <1>12. /\ Unit(u) = Unit(t) /\ Unit(t1) = Unit(t) /\ Unit(a4.tk) = Unit(t)
         /\ ShiftedSec(u) = ShiftedSec(t1) /\ ShiftedSec(u) = ShiftedSec(a4.tk)
    BY <1>3, <1>10, <1>11 DEF Unit, ShiftedSec, Kept, Ticked
  <1>13. Good(u)
    <2>1. Offsets(u)
      BY <1>7, <1>10 DEF Offsets, Kept, IsAcc
    <2>2. Settled(u)
      BY <1>3, <1>7, <1>10, <1>11, <1>12 DEF Settled, Kept
    <2> QED BY <1>3, <1>10, <1>11, <2>1, <2>2 DEF Good
  <1>14. Sum(u) = Sum(a4.tk) /\ RawSum(u) = RawSum(t1)
    BY <1>10, <1>11, <1>12 DEF Sum, RawSum, Kept
  <1>15. Sum(t) \in Int /\ Sum(u) \in Int /\ RawSum(t) \in Int /\ t.mult \in Int /\ m \in Int
    BY <1>1, <1>10, <1>11, UnitFacts DEF Sum, RawSum, IsTk
  <1>16. Gap(u, r) = g - c
    BY <1>3, <1>11 DEF Gap, Ticked
  <1>17. Sum(u) + o * m = Sum(t) + g * t.mult
    <2> DEFINE x == c * t.mult
               y == o * t.mult
               z == o * m
               v == g * t.mult
    <2>1. x \in Int /\ y \in Int /\ z \in Int /\ v \in Int /\ v = x + y
      BY <1>1, <1>2, <1>15
    <2>2. Sum(t1) = Sum(t) + x
      BY <1>3
    <2>3. Sum(t3) + z = Sum(t1) + y
      BY <1>4, <1>5, <1>6
    <2>4. Sum(u) = Sum(t3)
      BY <1>7, <1>14
    <2> HIDE DEF x, y, z, v
    <2>5. Sum(u) + z = Sum(t) + v
      BY <1>15, <2>1, <2>2, <2>3, <2>4
    <2> QED BY <2>5 DEF z, v
  <1>18. RawSum(u) + o * mult = RawSum(t) + g * mult
    <2> DEFINE x == c * mult
               y == o * mult
               v == g * mult
    <2>1. x \in Int /\ y \in Int /\ v \in Int /\ v = x + y
      BY <1>1, <1>2
    <2>2. RawSum(u) = RawSum(t) + x
      BY <1>3, <1>14
    <2> HIDE DEF x, y, v
    <2>3. RawSum(u) + y = RawSum(t) + v
      BY <1>15, <2>1, <2>2
    <2> QED BY <2>3 DEF y, v
  <1>19. MonoAt(u, o) = MonoAt(t, g) /\ RawAt(u, o) = RawAt(t, g)
    BY <1>11, <1>12, <1>17, <1>18 DEF MonoAt, RawAt, mult
  <1>20. Ticked(t, u)
    BY <1>11 DEF Ticked
  <1>21. Gap(u, r) = o
    BY <1>2, <1>16
  <1>22. /\ Good(u) /\ Ticked(t, u) /\ k \in Nat /\ Gap(u, r) \in Nat
         /\ Gap(u, r) = Gap(t, r) - k * i /\ Gap(u, r) < i
         /\ MonoAt(u, Gap(u, r)) = MonoAt(t, Gap(t, r))
         /\ RawAt(u, Gap(u, r)) = RawAt(t, Gap(t, r))
    BY <1>2, <1>13, <1>16, <1>19, <1>20, <1>21 DEF g
  <1> QED BY <1>8, <1>22 DEF u, r, i
-----------------------------------------------------------------------------
\* What the readers get

\* The two clocks at a moment
MonoOf(t, p, x, z) == MonoAt(t, Elapsed(t, p, x, z))
RawOf(t, p, x, z) == RawAt(t, Elapsed(t, p, x, z))

\* A quotient of a sum
LEMMA DivSum ==
    ASSUME NEW a \in Int, NEW b \in Nat, NEW c \in Nat, b <= c, NEW d \in Nat \ {0}
    PROVE  (a + b) \div d <= (a \div d) + (c \div d) + 1
  <1> DEFINE e == a \div d
             f == c \div d
             g == (a + b) \div d
  <1>1. /\ e \in Int /\ a < d * e + d /\ f \in Int /\ c < d * f + d
        /\ g \in Int /\ d * g <= a + b
    BY DivMod
  <1> HIDE DEF e, f, g
  <1>2. d * g < d * (e + f + 2)
    BY <1>1
  <1>3. ~(e + f + 2 <= g)
    <2> DEFINE h == e + f + 2
    <2>1. h \in Int /\ d * g < d * h
      BY <1>1, <1>2
    <2> HIDE DEF h
    <2>2. ~(h <= g)
      <3> SUFFICES ASSUME h <= g PROVE FALSE
        OBVIOUS
      <3>1. d * h <= d * g
        BY <1>1, <2>1
      <3>2. d * h \in Int /\ d * g \in Int
        BY <1>1, <2>1
      <3> QED BY <2>1, <3>1, <3>2
    <2> QED BY <2>2 DEF h
  <1> QED BY <1>1, <1>3 DEF e, f, g

\* An update is never half a lap ago.
LEMMA ElapsedBound ==
    ASSUME NEW t, NEW p, NEW x, NEW z, NEW u, InvOf(t, p, x, z, u), UpdatesInTime
    PROVE  /\ Elapsed(t, p, x, z) \in Nat
           /\ Elapsed(t, p, x, z) < Source[t.clock].size \div 2
  <1> DEFINE c == t.clock
             s == Source[c].size
             d == Source[c].period
             g == Gap(t, CounterAt(c, x, z))
             y == (IF Source[c].nonstop THEN z ELSE 0) + Source[c].phase
  <1>1. /\ IsTk(t) /\ c \in Clocks /\ x \in Nat /\ z \in Nat /\ u \in Nat /\ u <= x
        /\ x <= u + MaxIdle /\ MaxIdle \in Nat
    BY ConstAssumption DEF InvOf, Good, IsTk, UpdateInv
  <1>2. s \in Nat /\ s > 2 /\ d \in Nat \ {0} /\ y \in Nat /\ CycleInterval(c) \in Nat
        /\ MaxIdle \div d + 1 + CycleInterval(c) <= s \div 2
    BY <1>1, SourceFacts DEF UpdatesInTime
  <1>3. CounterAt(c, x, z) \in Int
    <2>1. c \in Clocks /\ x \in Nat /\ z \in Nat
      BY <1>1
    <2> HIDE DEF c, s, d, g, y
    <2>2. CounterAt(c, x, z) \in Nat
      BY <2>1, CounterIs
    <2> QED BY <2>2
  <1>4. g \in Nat
    BY <1>1, <1>3, GapIs
  <1>5. CASE p.suspended
    BY <1>2, <1>5 DEF Elapsed
  <1>6. CASE ~p.suspended
    <2>1. Elapsed(t, p, x, z) = g
      BY <1>6 DEF Elapsed
    <2>2. g < CountAt(c, x, z) - CountAt(c, u, z) + CycleInterval(c)
      BY <1>6, <2>1 DEF InvOf, UpdateInv
    <2>3. CountAt(c, x, z) = (x + y) \div d /\ CountAt(c, u, z) = (u + y) \div d
      <3>1. x + (IF Source[c].nonstop THEN z ELSE 0) + Source[c].phase = x + y
            /\ u + (IF Source[c].nonstop THEN z ELSE 0) + Source[c].phase = u + y
        BY <1>1, SourceFacts
      <3> QED BY <3>1 DEF CountAt
    <2> DEFINE a == u + y
               b == x - u
    <2>4. a \in Int /\ b \in Nat /\ b <= MaxIdle /\ x + y = a + b
      BY <1>1, <1>2
    <2> HIDE DEF a, b, d, y, s, g, c
    <2>5. (a + b) \div d <= (a \div d) + (MaxIdle \div d) + 1
      BY <1>1, <1>2, <2>4, DivSum
    <2>6. a \div d \in Int /\ (a + b) \div d \in Int /\ MaxIdle \div d \in Int
      <3>1. a + b \in Int /\ MaxIdle \in Int
        BY <1>1, <2>4
      <3> DEFINE e == a + b
      <3>2. e \in Int
        BY <3>1
      <3> HIDE DEF e
      <3>3. a \div d \in Int /\ e \div d \in Int /\ MaxIdle \div d \in Int
        BY <1>2, <2>4, <3>1, <3>2, DivMod
      <3> QED BY <3>3 DEF e
    <2>7. g < (a + b) \div d - (a \div d) + CycleInterval(c)
      BY <2>2, <2>3, <2>4 DEF a
    <2>8. g < s \div 2
      BY <1>2, <1>4, <2>5, <2>6, <2>7
    <2> QED BY <1>4, <2>1, <2>8 DEF s, c
  <1> QED BY <1>5, <1>6

\* ktime_get() and ktime_get_raw() show the two clocks.
LEMMA ReadersGet ==
    ASSUME NEW t, NEW p, NEW x, NEW z, NEW u, InvOf(t, p, x, z, u), UpdatesInTime
    PROVE  LET r == IF p.suspended THEN p.cycles ELSE CounterAt(t.clock, x, z)
           IN /\ t.base + CyclesToNs(t, t.mult, t.xtime_nsec, r) = MonoOf(t, p, x, z)
              /\ t.raw_base + CyclesToNs(t, Source[t.clock].mult, t.raw_nsec, r) = RawOf(t, p, x, z)
              /\ r \in Int /\ Gap(t, r) = Elapsed(t, p, x, z)
  <1> DEFINE r == IF p.suspended THEN p.cycles ELSE CounterAt(t.clock, x, z)
  <1>1. /\ Good(t) /\ Shows(t) /\ x \in Nat /\ z \in Nat /\ t.clock \in Clocks /\ t.cycle_last \in Nat
        /\ Source[t.clock].size \in Nat \ {0}
        /\ p.suspended => p.cycles = t.cycle_last
    BY SourceFacts DEF InvOf, UpdateInv, PowerInv, Good, IsTk
  <1>2. r \in Int
    BY <1>1, CounterIs
  <1>3. Gap(t, r) = Elapsed(t, p, x, z)
    <2>1. CASE p.suspended
      <3>1. Gap(t, r) = Rem(t.cycle_last - t.cycle_last, Source[t.clock].size)
        BY <1>1, <2>1 DEF Gap, Rem
      <3> DEFINE l == t.cycle_last
                 s == Source[t.clock].size
      <3>2. l \in Int /\ s \in Nat \ {0}
        BY <1>1
      <3> HIDE DEF l, s
      <3>3. Rem(l - l, s) = 0
        BY <3>2, RemSelf
      <3> QED BY <2>1, <3>1, <3>3 DEF l, s, Elapsed
    <2>2. CASE ~p.suspended
      BY <2>2 DEF Elapsed
    <2> QED BY <2>1, <2>2
  <1>4. Gap(t, r) < Source[t.clock].size \div 2
    BY <1>3, ElapsedBound
  <1> HIDE DEF r
  <1>5. /\ t.base + CyclesToNs(t, t.mult, t.xtime_nsec, r) = MonoAt(t, Gap(t, r))
        /\ t.raw_base + CyclesToNs(t, Source[t.clock].mult, t.raw_nsec, r) = RawAt(t, Gap(t, r))
    BY <1>1, <1>2, <1>4, ReadersShow
  <1> QED BY <1>2, <1>3, <1>5 DEF r, MonoOf, RawOf

\* The same of the current state
LEMMA MonoShown ==
    ASSUME IInv, UpdatesInTime
    PROVE  Mono = MonoOf(tk, power, now, slept) /\ Raw = RawOf(tk, power, now, slept)
  <1>1. Read(tk.clock) = CounterAt(tk.clock, now, slept)
    BY DEF Read, CounterAt, CountAt
  <1> QED BY <1>1, ReadersGet DEF IInv, Mono, Raw

-----------------------------------------------------------------------------
\* Steps

\* A step keeps the invariant, and moves neither clock.
KeepsTime ==
    /\ InvOf(tk', power', now', slept', updated')
    /\ MonoOf(tk', power', now', slept') = MonoOf(tk, power, now, slept)
    /\ RawOf(tk', power', now', slept') = RawOf(tk, power, now, slept)
    /\ tk'.offs_boot >= tk.offs_boot

\* The timekeeper moved to the current time
LEMMA Forwarded ==
    ASSUME IInv, ~power.suspended, UpdatesInTime
    PROVE  LET t == ForwardNow(tk)
           IN /\ Good(t) /\ t.clock = tk.clock /\ t.offs_boot = tk.offs_boot
              /\ t.cycle_last = CounterAt(t.clock, now, slept)
              /\ MonoAt(t, 0) = MonoOf(tk, power, now, slept)
              /\ RawAt(t, 0) = RawOf(tk, power, now, slept)
  <1>1. /\ Good(tk) /\ now \in Nat /\ slept \in Nat /\ tk.clock \in Clocks
        /\ InvOf(tk, power, now, slept, updated)
    BY DEF IInv, InvOf, UpdateInv, Good, IsTk
  <1>2. Read(tk.clock) = CounterAt(tk.clock, now, slept)
    BY <1>1, ReadIs
  <1>3. Elapsed(tk, power, now, slept) = Gap(tk, Read(tk.clock))
    BY <1>2 DEF Elapsed
  <1>4. Gap(tk, Read(tk.clock)) < Source[tk.clock].size \div 2
    BY <1>1, <1>3, ElapsedBound
  <1> DEFINE t == ForwardNow(tk)
  <1>5. /\ Good(t) /\ Moved(tk, t) /\ t.cycle_last = Read(tk.clock)
        /\ MonoAt(t, 0) = MonoAt(tk, Gap(tk, Read(tk.clock)))
        /\ RawAt(t, 0) = RawAt(tk, Gap(tk, Read(tk.clock)))
    BY <1>1, <1>4, ForwardNowKeeps
  <1> HIDE DEF t
  <1>6. t.clock = tk.clock /\ t.offs_boot = tk.offs_boot
    BY <1>5 DEF Moved
  <1> QED BY <1>2, <1>3, <1>5, <1>6 DEF MonoOf, RawOf, t

\* What is moved to the current time and published
LEMMA Stored ==
    ASSUME NEW t, Good(t), NEW n, NEW b, tk' = Published(t, n, b), IInv,
           now' = now, slept' = slept, updated' = now,
           t.cycle_last = CounterAt(t.clock, now, slept), PowerInv(t, power', slept),
           MonoAt(t, 0) = MonoOf(tk, power, now, slept),
           RawAt(t, 0) = RawOf(tk, power, now, slept), t.offs_boot >= tk.offs_boot
    PROVE  KeepsTime
  <1> DEFINE u == Published(t, n, b)
  <1>1. Good(u) /\ Shows(u) /\ Kept(t, u) /\ Sum(u) = Sum(t) /\ RawSum(u) = RawSum(t)
    BY PublishedKeeps
  <1> HIDE DEF u
  <1>2. u.clock = t.clock /\ u.cycle_last = t.cycle_last /\ u.mult = t.mult
        /\ u.offs_boot = t.offs_boot
    BY <1>1 DEF Kept
  <1>3. MonoAt(u, 0) = MonoAt(t, 0) /\ RawAt(u, 0) = RawAt(t, 0)
    BY <1>1, <1>2, SumsStay
  <1> DEFINE c == u.clock
             r == CounterAt(c, now, slept)
  <1>4. /\ now \in Nat /\ slept \in Nat /\ c \in Clocks /\ CycleInterval(c) \in Nat \ {0}
        /\ Source[c].size \in Nat \ {0} /\ MaxIdle \in Nat
    BY <1>1, SourceFacts, ConstAssumption DEF IInv, InvOf, UpdateInv, Good, IsTk
  <1>5. r \in Int /\ CountAt(c, now, slept) \in Int
    BY <1>4, CounterIs
  <1>6. Gap(u, r) = 0
    <2> DEFINE s == Source[c].size
    <2>1. Gap(u, r) = Rem(r - r, s)
      BY <1>2 DEF Gap, Rem
    <2>2. s \in Nat \ {0}
      BY <1>4
    <2> HIDE DEF s, r
    <2>3. Rem(r - r, s) = 0
      BY <1>5, <2>2, RemSelf
    <2> QED BY <2>1, <2>3
  <1>7. Elapsed(u, power', now, slept) = 0
    BY <1>6 DEF Elapsed
  <1>8. PowerInv(u, power', slept)
    BY <1>2 DEF PowerInv
  <1>9. UpdateInv(u, power', now, slept, now)
    BY <1>4, <1>5, <1>7 DEF UpdateInv
  <1>10. InvOf(u, power', now, slept, now)
    BY <1>1, <1>8, <1>9 DEF InvOf
  <1>11. tk' = u
    BY DEF u
  <1>12. InvOf(tk', power', now', slept', updated')
    BY <1>10, <1>11
  <1>13. MonoOf(tk', power', now', slept') = MonoAt(u, 0)
         /\ RawOf(tk', power', now', slept') = RawAt(u, 0)
    BY <1>7, <1>11 DEF MonoOf, RawOf
  <1>14. tk'.offs_boot >= tk.offs_boot
    BY <1>2, <1>11
  <1> QED BY <1>3, <1>12, <1>13, <1>14 DEF KeepsTime

\* The invariant at hand
LEMMA InvFacts ==
    ASSUME IInv
    PROVE  /\ Good(tk) /\ Shows(tk) /\ IsTk(tk) /\ tk.clock \in Clocks
           /\ now \in Nat /\ slept \in Nat /\ updated \in Nat /\ updated <= now
           /\ power \in [suspended : BOOLEAN, cycles : Nat, timing_needed : BOOLEAN, rtc : Nat]
           /\ power.rtc <= slept
           /\ power.suspended => power.cycles = tk.cycle_last /\ power.timing_needed
           /\ tk.offs_boot = IF power.timing_needed THEN power.rtc ELSE slept
           /\ tk.offs_boot \in Int /\ tk.tai_offset \in Int /\ tk.wall_to_monotonic \in Int
           /\ NSEC_PER_SEC \in Nat \ {0} /\ MaxAdj \in Nat
           /\ InvOf(tk, power, now, slept, updated)
  BY ConstAssumption DEF IInv, InvOf, UpdateInv, PowerInv, Good, IsTk

\* A change to the timekeeper with the clocks' fields alone
LEMMA Restored ==
    ASSUME IInv, NEW u, tk' = u, Good(u), Shows(u), u.clock = tk.clock, u.cycle_last = tk.cycle_last,
           u.offs_boot = tk.offs_boot,
           \A e : MonoAt(u, e) = MonoAt(tk, e) /\ RawAt(u, e) = RawAt(tk, e),
           UNCHANGED <<power, now, slept, updated>>
    PROVE  KeepsTime
  <1>1. Elapsed(u, power, now, slept) = Elapsed(tk, power, now, slept)
    BY DEF Elapsed, Gap
  <1>2. InvOf(u, power, now, slept, updated)
    BY <1>1, InvFacts DEF InvOf, PowerInv, UpdateInv
  <1>3. MonoOf(u, power, now, slept) = MonoOf(tk, power, now, slept)
        /\ RawOf(u, power, now, slept) = RawOf(tk, power, now, slept)
    BY <1>1 DEF MonoOf, RawOf
  <1> QED BY <1>2, <1>3, InvFacts DEF KeepsTime

\* update_wall_time() and the steering
LEMMA AdvanceKeeps ==
    ASSUME IInv, UpdatesInTime, SteersSlowly, ~power.suspended,
           NEW t, Good(t), t.clock = tk.clock, t.cycle_last = tk.cycle_last,
           t.offs_boot = tk.offs_boot,
           \A e : MonoAt(t, e) = MonoAt(tk, e) /\ RawAt(t, e) = RawAt(tk, e),
           NEW m \in MultsOf(t.clock),
           Advance(Advanced(t, ntp, m), ClocksourceDelta(t) \div CycleInterval(t.clock)),
           UNCHANGED <<now, slept, power>>
    PROVE  KeepsTime
  <1> DEFINE c == tk.clock
             r == Read(c)
             i == CycleInterval(c)
             k == ClocksourceDelta(t) \div i
             a == Advanced(t, ntp, m)
             u == a.tk
             v == Published(u, a.ntp, a.clock_set)
  <1>1. /\ c \in Clocks /\ r = CounterAt(c, now, slept) /\ r \in Int /\ i \in Nat \ {0}
        /\ CountAt(c, now, slept) \in Int
    BY InvFacts, ReadIs, CounterIs, SourceFacts
  <1>2. Elapsed(tk, power, now, slept) = Gap(tk, r) /\ Gap(t, r) = Gap(tk, r)
    BY <1>1 DEF Elapsed, Gap
  <1>3. Gap(tk, r) \in Nat /\ Gap(tk, r) < Source[c].size \div 2
    BY <1>2, InvFacts, ElapsedBound
  <1>4. /\ Good(u) /\ Ticked(t, u)
        /\ k \in Nat /\ Gap(u, r) \in Nat /\ Gap(u, r) = Gap(t, r) - k * i /\ Gap(u, r) < i
        /\ MonoAt(u, Gap(u, r)) = MonoAt(t, Gap(t, r))
        /\ RawAt(u, Gap(u, r)) = RawAt(t, Gap(t, r))
    BY <1>2, <1>3, InvFacts, AdvancedKeeps
  <1>5. tk' = v /\ updated' = IF k > 0 THEN now ELSE updated
    BY DEF Advance
  <1> HIDE DEF a, k, i, r
  <1>6. Good(v) /\ Shows(v) /\ Kept(u, v) /\ Sum(v) = Sum(u) /\ RawSum(v) = RawSum(u)
    BY <1>4, PublishedKeeps
  <1> HIDE DEF v
  <1>7. v.clock = c /\ v.cycle_last = u.cycle_last /\ v.mult = u.mult /\ v.offs_boot = tk.offs_boot
        /\ u.clock = c
    BY <1>4, <1>6 DEF Kept, Ticked
  <1>8. \A e : MonoAt(v, e) = MonoAt(u, e) /\ RawAt(v, e) = RawAt(u, e)
    BY <1>6, <1>7, SumsStay
  <1>9. Gap(v, r) = Gap(u, r)
    BY <1>7 DEF Gap
  <1>10. Elapsed(v, power, now, slept) = Gap(u, r)
    BY <1>1, <1>7, <1>9 DEF Elapsed
  <1>11. UpdateInv(v, power, now, slept, updated')
    <2>1. CASE k > 0
      <3>1. updated' = now
        BY <1>5, <2>1
      <3> QED BY <1>1, <1>4, <1>7, <1>10, <3>1, InvFacts, ConstAssumption DEF UpdateInv, i
    <2>2. CASE ~(k > 0)
      <3>1. updated' = updated /\ k = 0
        BY <1>4, <1>5, <2>2
      <3>2. Gap(u, r) = Gap(tk, r)
        <4>1. k * i = 0
          BY <1>1, <3>1
        <4> QED BY <1>2, <1>3, <1>4, <4>1
      <3> QED BY <1>2, <1>7, <1>10, <3>1, <3>2, InvFacts DEF InvOf, UpdateInv
    <2> QED BY <1>4, <2>1, <2>2
  <1>12. PowerInv(v, power, slept)
    <2>1. ~power.suspended
      OBVIOUS
    <2> QED BY <1>7, <2>1, InvFacts DEF PowerInv
  <1>13. InvOf(v, power, now, slept, updated')
    BY <1>6, <1>11, <1>12 DEF InvOf
  <1>14. MonoOf(v, power, now, slept) = MonoOf(tk, power, now, slept)
         /\ RawOf(v, power, now, slept) = RawOf(tk, power, now, slept)
    BY <1>2, <1>4, <1>8, <1>10 DEF MonoOf, RawOf
  <1>15. tk'.offs_boot >= tk.offs_boot
    BY <1>5, <1>7, InvFacts
  <1> QED BY <1>5, <1>13, <1>14, <1>15 DEF KeepsTime

\* update_wall_time()
LEMMA UpdateWallTimeKeeps ==
    ASSUME IInv, UpdatesInTime, SteersSlowly, UpdateWallTime PROVE KeepsTime
  <1>1. PICK m \in Mults :
           Advance(Advanced(tk, ntp, m), ClocksourceDelta(tk) \div CycleInterval(tk.clock))
    BY DEF UpdateWallTime
  <1>2. m \in MultsOf(tk.clock)
    BY DEF Mults, MultsOf
  <1>3. ~power.suspended /\ UNCHANGED <<now, slept, power>>
    BY DEF UpdateWallTime
  <1> QED BY <1>1, <1>2, <1>3, InvFacts, AdvanceKeeps

\* do_adjtimex() with a new frequency or tick
LEMMA AdjFrequencyKeeps ==
    ASSUME IInv, UpdatesInTime, SteersSlowly, NEW m \in Mults, AdjFrequency(m) PROVE KeepsTime
  <1> DEFINE t == UpdateLeapState(tk, ntp)
  <1>1. Good(t) /\ Kept(tk, t) /\ Sum(t) = Sum(tk) /\ RawSum(t) = RawSum(tk)
    BY InvFacts, LeapStateKeeps
  <1>2. Advance(Advanced(t, ntp, m), ClocksourceDelta(tk) \div CycleInterval(tk.clock))
        /\ ~power.suspended /\ UNCHANGED <<now, slept, power>>
    BY DEF AdjFrequency, Op
  <1> HIDE DEF t
  <1>3. t.clock = tk.clock /\ t.cycle_last = tk.cycle_last /\ t.mult = tk.mult
        /\ t.offs_boot = tk.offs_boot
    BY <1>1 DEF Kept
  <1>4. \A e : MonoAt(t, e) = MonoAt(tk, e) /\ RawAt(t, e) = RawAt(tk, e)
    BY <1>1, <1>3, SumsStay
  <1>5. ClocksourceDelta(t) = ClocksourceDelta(tk)
    BY <1>3 DEF ClocksourceDelta
  <1>6. Advance(Advanced(t, ntp, m), ClocksourceDelta(t) \div CycleInterval(t.clock))
    BY <1>2, <1>3, <1>5
  <1>7. m \in MultsOf(t.clock)
    BY <1>3 DEF Mults, MultsOf
  <1> QED BY <1>1, <1>2, <1>3, <1>4, <1>6, <1>7, AdvanceKeeps

\* do_adjtimex() with a new status or TAI offset
LEMMA AdjStatusKeeps ==
    ASSUME IInv, NEW status, NEW tai \in Int, AdjStatus(status, tai) PROVE KeepsTime
  <1> DEFINE n == [ntp EXCEPT !.status = status]
  <1>1. UNCHANGED <<power, now, slept, updated>>
        /\ tk' = IF tai = tk.tai_offset THEN UpdateLeapState(tk, n)
                 ELSE Published(SetTaiOffset(tk, tai), n, TRUE)
    BY DEF AdjStatus
  <1> HIDE DEF n
  <1>2. CASE tai = tk.tai_offset
    <2> DEFINE u == UpdateLeapState(tk, n)
    <2>1. Good(u) /\ Shows(u) /\ Kept(tk, u) /\ Sum(u) = Sum(tk) /\ RawSum(u) = RawSum(tk)
      BY InvFacts, LeapStateKeeps
    <2>2. tk' = u
      BY <1>1, <1>2
    <2> HIDE DEF u
    <2>3. u.clock = tk.clock /\ u.cycle_last = tk.cycle_last /\ u.mult = tk.mult
          /\ u.offs_boot = tk.offs_boot
      BY <2>1 DEF Kept
    <2>4. \A e : MonoAt(u, e) = MonoAt(tk, e) /\ RawAt(u, e) = RawAt(tk, e)
      BY <2>1, <2>3, SumsStay
    <2> QED BY <1>1, <2>1, <2>2, <2>3, <2>4, Restored
  <1>3. CASE tai # tk.tai_offset
    <2> DEFINE t == SetTaiOffset(tk, tai)
               u == Published(t, n, TRUE)
    <2>1. /\ Good(t) /\ Stays(tk, t) /\ t.offs_boot = tk.offs_boot
          /\ \A e : MonoAt(t, e) = MonoAt(tk, e) /\ RawAt(t, e) = RawAt(tk, e)
      BY InvFacts, TaiKeeps
    <2>2. tk' = u
      BY <1>1, <1>3
    <2> HIDE DEF t
    <2>3. Good(u) /\ Shows(u) /\ Kept(t, u) /\ Sum(u) = Sum(t) /\ RawSum(u) = RawSum(t)
      BY <2>1, PublishedKeeps
    <2> HIDE DEF u
    <2>4. u.clock = t.clock /\ u.cycle_last = t.cycle_last /\ u.mult = t.mult
          /\ u.offs_boot = t.offs_boot
      BY <2>3 DEF Kept
    <2>5. \A e : MonoAt(u, e) = MonoAt(t, e) /\ RawAt(u, e) = RawAt(t, e)
      BY <2>3, <2>4, SumsStay
    <2>6. \A e : MonoAt(u, e) = MonoAt(tk, e) /\ RawAt(u, e) = RawAt(tk, e)
      BY <2>1, <2>5
    <2>7. u.clock = tk.clock /\ u.cycle_last = tk.cycle_last /\ u.offs_boot = tk.offs_boot
      BY <2>1, <2>4 DEF Stays
    <2> QED BY <1>1, <2>2, <2>3, <2>6, <2>7, Restored
  <1> QED BY <1>2, <1>3

\* What is done to the timekeeper after it was moved to the current time
LEMMA UpdateAllKeeps ==
    ASSUME IInv, UpdatesInTime, ~power.suspended, ~power.timing_needed,
           NEW u, Good(u), Stays(ForwardNow(tk), u), u.offs_boot = tk.offs_boot, UpdateAll(u),
           UNCHANGED <<now, slept, power>>
    PROVE  KeepsTime
  <1> DEFINE t == ForwardNow(tk)
  <1>1. /\ Good(t) /\ t.clock = tk.clock /\ t.offs_boot = tk.offs_boot
        /\ t.cycle_last = CounterAt(t.clock, now, slept)
        /\ MonoAt(t, 0) = MonoOf(tk, power, now, slept)
        /\ RawAt(t, 0) = RawOf(tk, power, now, slept)
    BY Forwarded
  <1> HIDE DEF t
  <1>2. u.clock = t.clock /\ u.cycle_last = t.cycle_last
        /\ MonoAt(u, 0) = MonoAt(t, 0) /\ RawAt(u, 0) = RawAt(t, 0)
    BY DEF Stays, t
  <1>3. tk' = Published(u, NtpClear(ntp), TRUE) /\ updated' = now
    BY DEF UpdateAll
  <1>4. PowerInv(u, power', slept)
    BY InvFacts DEF PowerInv
  <1>5. u.offs_boot >= tk.offs_boot
    BY InvFacts
  <1> QED BY <1>1, <1>2, <1>3, <1>4, <1>5, Stored

\* do_settimeofday64()
LEMMA SetTimeOfDayKeeps ==
    ASSUME IInv, UpdatesInTime, NEW ts \in Sets, SetTimeOfDay(ts) PROVE KeepsTime
  <1> DEFINE t == ForwardNow(tk)
             u == SetXtime(SetWallToMono(t, t.wall_to_monotonic - (ts - Xtime(t))), ts)
  <1>1. ~power.suspended /\ ~power.timing_needed /\ UpdateAll(u) /\ UNCHANGED <<now, slept, power>>
    BY DEF SetTimeOfDay, Op
  <1>2. Good(t) /\ t.offs_boot = tk.offs_boot
    BY <1>1, Forwarded
  <1>3. ts \in Int
    BY ConstAssumption
  <1> HIDE DEF t
  <1>4. Good(u) /\ Stays(t, u) /\ u.offs_boot = t.offs_boot
    BY <1>2, <1>3, SetKeeps
  <1> HIDE DEF u
  <1>5. Stays(ForwardNow(tk), u) /\ u.offs_boot = tk.offs_boot
    BY <1>2, <1>4 DEF t
  <1> QED BY <1>1, <1>4, <1>5, UpdateAllKeeps

\* do_adjtimex() with ADJ_SETOFFSET
LEMMA AdjSetOffsetKeeps ==
    ASSUME IInv, UpdatesInTime, NEW d \in Shifts, AdjSetOffset(d) PROVE KeepsTime
  <1> DEFINE t == ForwardNow(tk)
             u == Inject(t, d)
  <1>1. ~power.suspended /\ ~power.timing_needed /\ UpdateAll(u) /\ UNCHANGED <<now, slept, power>>
    BY DEF AdjSetOffset, Op
  <1>2. Good(t) /\ t.offs_boot = tk.offs_boot
    BY <1>1, Forwarded
  <1>3. d \in Int
    BY ConstAssumption
  <1> HIDE DEF t
  <1>4. Good(u) /\ Stays(t, u) /\ u.offs_boot = t.offs_boot
    BY <1>2, <1>3, InjectKeeps
  <1> HIDE DEF u
  <1>5. Stays(ForwardNow(tk), u) /\ u.offs_boot = tk.offs_boot
    BY <1>2, <1>4 DEF t
  <1> QED BY <1>1, <1>4, <1>5, UpdateAllKeeps

\* change_clocksource()
LEMMA ChangeClocksourceKeeps ==
    ASSUME IInv, UpdatesInTime, NEW c \in Clocks, ChangeClocksource(c) PROVE KeepsTime
  <1> DEFINE t == ForwardNow(tk)
             u == SetupInternals(t, c)
  <1>1. ~power.suspended /\ ~power.timing_needed /\ UpdateAll(u) /\ UNCHANGED <<now, slept, power>>
    BY DEF ChangeClocksource, Op
  <1>2. Good(t) /\ t.offs_boot = tk.offs_boot
        /\ MonoAt(t, 0) = MonoOf(tk, power, now, slept)
        /\ RawAt(t, 0) = RawOf(tk, power, now, slept)
    BY <1>1, Forwarded
  <1> HIDE DEF t
  <1>3. /\ Good(u) /\ u.clock = c /\ u.cycle_last = Read(c) /\ u.offs_boot = t.offs_boot
        /\ MonoAt(u, 0) = MonoAt(t, 0) /\ RawAt(u, 0) = RawAt(t, 0)
    BY <1>2, InvFacts, SetupKeeps
  <1> HIDE DEF u
  <1>4. u.cycle_last = CounterAt(u.clock, now, slept)
    BY <1>3, InvFacts, ReadIs
  <1>5. tk' = Published(u, NtpClear(ntp), TRUE) /\ updated' = now
    BY <1>1 DEF UpdateAll
  <1>6. PowerInv(u, power', slept)
    BY <1>1, <1>2, <1>3, InvFacts DEF PowerInv
  <1>7. u.offs_boot >= tk.offs_boot
    BY <1>2, <1>3, InvFacts
  <1> QED BY <1>1, <1>2, <1>3, <1>4, <1>5, <1>6, <1>7, Stored

\* timekeeping_suspend()
LEMMA SuspendKeeps ==
    ASSUME IInv, UpdatesInTime, Suspend PROVE KeepsTime
  <1> DEFINE t == ForwardNow(tk)
  <1>1. /\ ~power.suspended /\ ~power.timing_needed /\ UNCHANGED <<now, slept>> /\ updated' = now
        /\ tk' = Published(t, ntp, FALSE)
        /\ power' = [suspended |-> TRUE, cycles |-> Read(tk.clock), timing_needed |-> TRUE,
                     rtc |-> slept]
    BY DEF Suspend, Op
  <1>2. /\ Good(t) /\ t.clock = tk.clock /\ t.offs_boot = tk.offs_boot
        /\ t.cycle_last = CounterAt(t.clock, now, slept)
        /\ MonoAt(t, 0) = MonoOf(tk, power, now, slept)
        /\ RawAt(t, 0) = RawOf(tk, power, now, slept)
    BY <1>1, Forwarded
  <1> HIDE DEF t
  <1>3. Read(tk.clock) = t.cycle_last /\ Read(tk.clock) \in Nat
    BY <1>2, InvFacts, ReadIs
  <1>4. PowerInv(t, power', slept)
    BY <1>1, <1>2, <1>3, InvFacts DEF PowerInv
  <1>5. t.offs_boot >= tk.offs_boot
    BY <1>2, InvFacts
  <1> QED BY <1>1, <1>2, <1>4, <1>5, Stored

\* timekeeping_resume()
LEMMA ResumeKeeps ==
    ASSUME IInv, Resume PROVE KeepsTime
  <1> DEFINE d == IF Source[tk.clock].nonstop THEN slept - power.rtc ELSE 0
             t == IF d > 0 THEN InjectSleep(tk, d) ELSE tk
             u == [t EXCEPT !.cycle_last = Read(t.clock)]
  <1>1. /\ power.suspended /\ slept > power.rtc /\ UNCHANGED <<now, slept>> /\ updated' = now
        /\ power' = [power EXCEPT !.suspended = FALSE, !.timing_needed = @ /\ d = 0]
        /\ tk' = Published(u, ntp, TRUE)
    BY DEF Resume
  <1>2. /\ power.timing_needed /\ tk.offs_boot = power.rtc /\ power.rtc \in Nat /\ slept \in Nat
        /\ Elapsed(tk, power, now, slept) = 0
    BY <1>1, InvFacts DEF Elapsed
  <1>3. d \in Nat /\ (d = 0 \/ d = slept - power.rtc)
    BY <1>1, <1>2
  <1> HIDE DEF d
  <1>4. Good(t) /\ Stays(tk, t) /\ t.offs_boot = tk.offs_boot + d
    <2>1. CASE d > 0
      BY <1>3, <2>1, InvFacts, InjectSleepKeeps
    <2>2. CASE ~(d > 0)
      BY <1>3, <2>2, InvFacts DEF Stays
    <2> QED BY <2>1, <2>2
  <1>5. t.clock = tk.clock
    BY <1>4 DEF Stays
  <1> HIDE DEF t
  <1>6. Read(t.clock) \in Nat /\ Read(t.clock) < Source[t.clock].size
        /\ Read(t.clock) = CounterAt(t.clock, now, slept)
    BY <1>5, InvFacts, ReadIs
  <1>7. /\ DOMAIN u = TkFields /\ u.cycle_last = Read(t.clock)
        /\ u.clock = t.clock /\ u.mult = t.mult
        /\ u.xtime_sec = t.xtime_sec /\ u.xtime_nsec = t.xtime_nsec /\ u.coarse_nsec = t.coarse_nsec
        /\ u.raw_sec = t.raw_sec /\ u.raw_nsec = t.raw_nsec
        /\ u.wall_to_monotonic = t.wall_to_monotonic /\ u.offs_real = t.offs_real
        /\ u.offs_boot = t.offs_boot /\ u.offs_tai = t.offs_tai /\ u.tai_offset = t.tai_offset
    BY <1>4 DEF Good, IsTk, TkFields
  <1>8. u = [f \in TkFields |-> u[f]]
    BY <1>7
  <1> HIDE DEF u
  <1>9. IsTk(u)
    BY <1>4, <1>6, <1>7, <1>8 DEF Good, IsTk
  <1>10. Unit(u) = Unit(t) /\ ShiftedSec(u) = ShiftedSec(t)
    BY <1>7 DEF Unit, ShiftedSec
  <1>11. Good(u)
    BY <1>4, <1>6, <1>7, <1>9, <1>10 DEF Good, Offsets, Settled
  <1>12. MonoAt(u, 0) = MonoAt(t, 0) /\ RawAt(u, 0) = RawAt(t, 0)
    BY <1>7, <1>10 DEF MonoAt, RawAt, Sum, RawSum
  <1>13. MonoAt(u, 0) = MonoOf(tk, power, now, slept) /\ RawAt(u, 0) = RawOf(tk, power, now, slept)
    BY <1>2, <1>4, <1>12 DEF Stays, MonoOf, RawOf
  <1>14. u.cycle_last = CounterAt(u.clock, now, slept)
    BY <1>6, <1>7
  <1>15. u.offs_boot = power.rtc + d
    BY <1>2, <1>4, <1>7
  <1>16. power' \in [suspended : BOOLEAN, cycles : Nat, timing_needed : BOOLEAN, rtc : Nat]
         /\ ~power'.suspended /\ power'.rtc = power.rtc /\ (power'.timing_needed <=> d = 0)
    BY <1>1, <1>2, InvFacts
  <1>17. PowerInv(u, power', slept)
    <2>1. u.offs_boot = IF power'.timing_needed THEN power'.rtc ELSE slept
      BY <1>2, <1>3, <1>15, <1>16
    <2>2. power'.rtc <= slept
      BY <1>1, <1>2, <1>16
    <2> QED BY <1>16, <2>1, <2>2 DEF PowerInv
  <1>18. u.offs_boot >= tk.offs_boot
    BY <1>2, <1>3, <1>15
  <1> QED BY <1>1, <1>11, <1>13, <1>14, <1>17, <1>18, Stored

\* The RTC adds the sleep time.
LEMMA RtcResumeKeeps ==
    ASSUME IInv, UpdatesInTime, RtcResume PROVE KeepsTime
  <1> DEFINE t == ForwardNow(tk)
             d == slept - power.rtc
             u == InjectSleep(t, d)
  <1>1. /\ ~power.suspended /\ power.timing_needed /\ UNCHANGED <<now, slept>> /\ updated' = now
        /\ power' = [power EXCEPT !.timing_needed = FALSE]
        /\ tk' = Published(u, NtpClear(ntp), TRUE)
    BY DEF RtcResume, UpdateAll
  <1>2. /\ Good(t) /\ t.clock = tk.clock /\ t.offs_boot = tk.offs_boot
        /\ t.cycle_last = CounterAt(t.clock, now, slept)
        /\ MonoAt(t, 0) = MonoOf(tk, power, now, slept)
        /\ RawAt(t, 0) = RawOf(tk, power, now, slept)
    BY <1>1, Forwarded
  <1>3. /\ d \in Nat /\ tk.offs_boot = power.rtc /\ power.rtc \in Nat /\ slept \in Nat
        /\ power.rtc + d = slept
    BY <1>1, InvFacts
  <1> HIDE DEF t, d
  <1>4. Good(u) /\ Stays(t, u) /\ u.offs_boot = t.offs_boot + d
    <2>1. Good(t) /\ d \in Int
      BY <1>2, <1>3
    <2> QED BY <2>1, InjectSleepKeeps
  <1> HIDE DEF u
  <1>5. u.clock = t.clock /\ u.cycle_last = t.cycle_last
        /\ MonoAt(u, 0) = MonoAt(t, 0) /\ RawAt(u, 0) = RawAt(t, 0)
    BY <1>4 DEF Stays
  <1>6. u.offs_boot = slept
    BY <1>2, <1>3, <1>4
  <1>7. power' \in [suspended : BOOLEAN, cycles : Nat, timing_needed : BOOLEAN, rtc : Nat]
        /\ ~power'.suspended /\ power'.rtc = power.rtc /\ ~power'.timing_needed
    BY <1>1, InvFacts
  <1>8. PowerInv(u, power', slept)
    BY <1>6, <1>7, InvFacts DEF PowerInv
  <1>9. u.offs_boot >= tk.offs_boot
    BY <1>3, <1>6, InvFacts
  <1> QED BY <1>1, <1>2, <1>4, <1>5, <1>8, <1>9, Stored

\* Time passes: a counter is at most one cycle further.
LEMMA PassKeeps ==
    ASSUME IInv, UpdatesInTime, Pass
    PROVE  /\ InvOf(tk', power', now', slept', updated')
           /\ MonoOf(tk, power, now, slept) \in Int
           /\ MonoOf(tk', power', now', slept') >= MonoOf(tk, power, now, slept)
           /\ RawOf(tk, power, now, slept) \in Int
           /\ RawOf(tk', power', now', slept') >= RawOf(tk, power, now, slept)
           /\ tk' = tk /\ now' # now
  <1> DEFINE c == tk.clock
             s == Source[c].size
             d == Source[c].period
             l == tk.cycle_last
             a == CountAt(c, now, slept)
             b == CountAt(c, now + 1, slept)
             e == Elapsed(tk, power, now, slept)
             f == Elapsed(tk, power, now + 1, slept)
             y == (IF Source[c].nonstop THEN slept ELSE 0) + Source[c].phase
  <1>1. /\ ~power.suspended /\ now' = now + 1 /\ now + 1 <= updated + MaxIdle
        /\ tk' = tk /\ power' = power /\ slept' = slept /\ updated' = updated
    BY InvFacts, ConstAssumption DEF Pass
  <1>2. /\ Good(tk) /\ c \in Clocks /\ s \in Nat \ {0} /\ d \in Nat \ {0} /\ l \in Nat
        /\ s \in Nat /\ now \in Nat /\ now + 1 \in Nat /\ slept \in Nat /\ y \in Nat
        /\ CycleInterval(c) \in Nat
    BY InvFacts, SourceFacts DEF IsTk
  <1>3. e \in Nat /\ e < s \div 2
    BY InvFacts, ElapsedBound
  <1>4. a \in Int /\ b \in Int /\ CountAt(c, updated, slept) \in Int
        /\ CounterAt(c, now, slept) = Rem(a, s) /\ CounterAt(c, now + 1, slept) = Rem(b, s)
    BY <1>2, InvFacts, CounterIs
  <1>5. e = Rem(Rem(a, s) - l, s) /\ f = Rem(Rem(b, s) - l, s)
    BY <1>1, <1>4 DEF Elapsed, Gap, Rem
  <1>6. b = a \/ b = a + 1
    <2> DEFINE x == now + y
               z == 1
    <2>1. a = x \div d /\ b = (x + z) \div d
      <3>1. now + (IF Source[c].nonstop THEN slept ELSE 0) + Source[c].phase = x
            /\ (now + 1) + (IF Source[c].nonstop THEN slept ELSE 0) + Source[c].phase = x + z
        BY <1>2, SourceFacts
      <3> QED BY <3>1 DEF CountAt
    <2>2. x \in Int /\ x + z \in Int /\ x <= x + z /\ z = 1
      BY <1>2
    <2> HIDE DEF x, z, a, b, d
    <2>3. a <= b
      BY <1>2, <2>1, <2>2, DivMono
    <2>4. d * a <= x /\ x < d * a + d /\ d * b <= x + z
      <3> DEFINE w == x + z
      <3>1. w \in Int
        BY <2>2
      <3> HIDE DEF w
      <3>2. x = d * (x \div d) + (x % d) /\ 0 <= x % d /\ x % d < d /\ x % d \in Int
            /\ w = d * (w \div d) + (w % d) /\ 0 <= w % d /\ w % d \in Int
            /\ x \div d \in Int /\ w \div d \in Int
        BY <1>2, <2>2, <3>1, DivMod
      <3> DEFINE x1 == x \div d
                 x2 == x % d
                 w1 == w \div d
                 w2 == w % d
      <3>3. x1 \in Int /\ x2 \in Int /\ w1 \in Int /\ w2 \in Int /\ x = d * x1 + x2 /\ w = d * w1 + w2
            /\ 0 <= x2 /\ x2 < d /\ 0 <= w2
        BY <3>2
      <3>4. a = x1 /\ b = w1
        BY <2>1 DEF w
      <3> HIDE DEF x1, x2, w1, w2
      <3>5. d * x1 <= x /\ x < d * x1 + d /\ d * w1 <= w
        BY <1>2, <3>3
      <3> QED BY <3>4, <3>5 DEF w
    <2>5. ~(a + 1 < b)
      <3> SUFFICES ASSUME a + 1 < b PROVE FALSE
        OBVIOUS
      <3>1. a + 1 \in Int
        BY <1>4
      <3>2. d * (a + 1) + d <= d * b
        BY <1>2, <1>4, <3>1, NextMultiple
      <3>3. d * (a + 1) = d * a + d /\ d * a \in Int /\ d * b \in Int
        BY <1>2, <1>4
      <3> QED BY <1>2, <2>2, <2>4, <3>2, <3>3
    <2> QED BY <1>4, <2>3, <2>5
  <1> HIDE DEF a, b, e, f, s, l, y, d
  <1>7. f \in Nat /\ e <= f /\ f <= e + (b - a)
    <2>1. CASE b = a
      BY <1>3, <1>4, <1>5, <2>1
    <2>2. CASE b = a + 1
      <3>1. e + 1 < s
        BY <1>2, <1>3
      <3>2. f = e + 1
        BY <1>2, <1>4, <1>5, <2>2, <3>1, RemNext
      <3> QED BY <1>3, <1>4, <2>2, <3>2
    <2> QED BY <1>6, <2>1, <2>2
  <1>8. UpdateInv(tk, power, now + 1, slept, updated)
    <2>1. e < a - CountAt(c, updated, slept) + CycleInterval(c)
      BY <1>1, InvFacts DEF InvOf, UpdateInv, e, a
    <2>2. f < b - CountAt(c, updated, slept) + CycleInterval(c)
      BY <1>2, <1>3, <1>4, <1>7, <2>1
    <2>3. updated <= now + 1 /\ updated \in Nat
      BY InvFacts
    <2> QED BY <1>1, <1>2, <2>2, <2>3 DEF UpdateInv, f, b
  <1>9. InvOf(tk, power, now + 1, slept, updated)
    BY <1>8, InvFacts DEF InvOf
  <1>10. /\ MonoAt(tk, e) \in Int /\ MonoAt(tk, e) <= MonoAt(tk, f)
         /\ RawAt(tk, e) \in Int /\ RawAt(tk, e) <= RawAt(tk, f)
    BY <1>2, <1>3, <1>7, LaterReads
  <1>11. MonoAt(tk, f) \in Int /\ RawAt(tk, f) \in Int
    BY <1>2, <1>7, LaterReads
  <1>12. /\ MonoOf(tk, power, now, slept) = MonoAt(tk, e)
         /\ RawOf(tk, power, now, slept) = RawAt(tk, e)
         /\ MonoOf(tk, power, now + 1, slept) = MonoAt(tk, f)
         /\ RawOf(tk, power, now + 1, slept) = RawAt(tk, f)
    BY DEF MonoOf, RawOf, e, f
  <1>13. now' # now
    BY <1>1, <1>2
  <1> QED BY <1>1, <1>9, <1>10, <1>11, <1>12, <1>13

\* Nothing counts in suspend.
LEMMA SleepKeeps ==
    ASSUME IInv, NEW d \in Sleeps, Sleep(d) PROVE KeepsTime
  <1>1. /\ power.suspended /\ slept' = slept + d /\ UNCHANGED <<now, tk, power, updated>>
    BY DEF Sleep
  <1>2. d \in Nat
    BY ConstAssumption
  <1> DEFINE z == slept + d
  <1>3. z \in Nat /\ z >= slept
    BY <1>2, InvFacts
  <1> HIDE DEF z
  <1>4. Elapsed(tk, power, now, z) = 0 /\ Elapsed(tk, power, now, slept) = 0
    BY <1>1 DEF Elapsed
  <1>5. PowerInv(tk, power, z)
    BY <1>1, <1>3, InvFacts DEF PowerInv
  <1>6. UpdateInv(tk, power, now, z, updated)
    BY <1>1, <1>3, InvFacts DEF InvOf, UpdateInv
  <1>7. InvOf(tk, power, now, z, updated)
    BY <1>5, <1>6, InvFacts DEF InvOf
  <1>8. MonoOf(tk, power, now, z) = MonoOf(tk, power, now, slept)
        /\ RawOf(tk, power, now, z) = RawOf(tk, power, now, slept)
    BY <1>4 DEF MonoOf, RawOf
  <1>9. slept' = z
    BY <1>1 DEF z
  <1> QED BY <1>1, <1>7, <1>8, <1>9, InvFacts DEF KeepsTime

\* A base takes the offsets, or nothing happens.
LEMMA IdleKeeps ==
    ASSUME IInv, UNCHANGED <<now, slept, tk, power, updated>> PROVE KeepsTime
  <1> QED BY InvFacts DEF KeepsTime

\* Every step but the passing of time leaves the clocks where they are.
LEMMA StepKeeps ==
    ASSUME IInv, UpdatesInTime, SteersSlowly, [Next]_vars PROVE KeepsTime \/ Pass
  <1>1. CASE UpdateWallTime
    BY <1>1, UpdateWallTimeKeeps
  <1>2. CASE Suspend
    BY <1>2, SuspendKeeps
  <1>3. CASE Resume
    BY <1>3, ResumeKeeps
  <1>4. CASE RtcResume
    BY <1>4, RtcResumeKeeps
  <1>5. CASE UpdateOffsets
    BY <1>5, IdleKeeps DEF UpdateOffsets
  <1>6. ASSUME NEW ts \in Sets, SetTimeOfDay(ts) PROVE KeepsTime
    BY <1>6, SetTimeOfDayKeeps
  <1>7. ASSUME NEW d \in Shifts, AdjSetOffset(d) PROVE KeepsTime
    BY <1>7, AdjSetOffsetKeeps
  <1>8. ASSUME NEW status \in {"none", "INS", "DEL"}, NEW tai \in 0 .. 1, AdjStatus(status, tai)
        PROVE  KeepsTime
    BY <1>8, AdjStatusKeeps
  <1>9. ASSUME NEW m \in Mults, AdjFrequency(m) PROVE KeepsTime
    BY <1>9, AdjFrequencyKeeps
  <1>10. ASSUME NEW c \in Clocks, ChangeClocksource(c) PROVE KeepsTime
    BY <1>10, ChangeClocksourceKeeps
  <1>11. ASSUME NEW d \in Sleeps, Sleep(d) PROVE KeepsTime
    BY <1>11, SleepKeeps
  <1>12. CASE UNCHANGED vars
    BY <1>12, IdleKeeps DEF vars
  <1> QED BY <1>1, <1>2, <1>3, <1>4, <1>5, <1>6, <1>7, <1>8, <1>9, <1>10, <1>11, <1>12 DEF Next

\* The invariant is inductive
LEMMA InvNext ==
    ASSUME IInv, UpdatesInTime, SteersSlowly, [Next]_vars PROVE IInv'
  <1>1. InvOf(tk', power', now', slept', updated')
    BY StepKeeps, PassKeeps DEF KeepsTime
  <1> QED BY <1>1 DEF IInv

\* and holds after timekeeping_init().
LEMMA InitInv == Init => IInv
  <1> SUFFICES ASSUME Init PROVE IInv
    OBVIOUS
  <1> DEFINE t == [clock |-> Default, cycle_last |-> Read(Default), mult |-> Source[Default].mult,
                   xtime_sec |-> 0, xtime_nsec |-> 0, coarse_nsec |-> 0, raw_sec |-> 0, raw_nsec |-> 0,
                   wall_to_monotonic |-> 0, offs_real |-> 0, offs_boot |-> 0, offs_tai |-> 0,
                   tai_offset |-> 0, next_leap_ktime |-> KTIME_MAX, clock_was_set_seq |-> 0,
                   skip_second_overflow |-> FALSE,
                   base |-> 0, base_real |-> 0, raw_base |-> 0, ktime_sec |-> 0]
             u == Published(t, ntp, TRUE)
             c == Default
             r == Read(c)
  <1>1. now = 0 /\ slept = 0 /\ updated = 0 /\ tk = u
        /\ power = [suspended |-> FALSE, cycles |-> 0, timing_needed |-> FALSE, rtc |-> 0]
    BY DEF Init
  <1>2. /\ c \in Clocks /\ NSEC_PER_SEC \in Nat \ {0} /\ MaxAdj \in Nat /\ MaxIdle \in Nat
        /\ Source[c].mult \in Nat /\ Source[c].mult > MaxAdj /\ CycleInterval(c) \in Nat \ {0}
        /\ Source[c].size \in Nat \ {0}
    BY ConstAssumption, SourceFacts
  <1>3. r = CounterAt(c, now, slept) /\ r \in Nat /\ r < Source[c].size
        /\ CountAt(c, now, slept) \in Int
    BY <1>1, <1>2, ReadIs, CounterIs
  <1> HIDE DEF r
  <1>4. IsTk(t)
    <2>1. t = [f \in TkFields |-> t[f]]
      BY DEF TkFields
    <2>2. /\ t.clock = c /\ t.cycle_last = r /\ t.mult = Source[c].mult
          /\ {t.xtime_sec, t.xtime_nsec, t.coarse_nsec, t.raw_sec, t.raw_nsec} = {0}
          /\ {t.wall_to_monotonic, t.offs_real, t.offs_boot, t.offs_tai, t.tai_offset} = {0}
      BY DEF r
    <2> HIDE DEF t
    <2> QED BY <1>2, <1>3, <2>1, <2>2 DEF IsTk
  <1>5. /\ t.clock = c /\ t.cycle_last = r /\ t.mult = Source[c].mult
        /\ t.xtime_nsec = 0 /\ t.raw_nsec = 0 /\ t.offs_boot = 0
        /\ t.wall_to_monotonic = 0 /\ t.offs_real = 0 /\ t.offs_tai = 0 /\ t.tai_offset = 0
    BY DEF r
  <1> HIDE DEF t
  <1>6. Good(t)
    <2>1. ShiftedSec(t) \in Nat \ {0}
      BY <1>4, UnitFacts
    <2>2. t.mult \in MultsOf(t.clock)
      BY <1>2, <1>5 DEF MultsOf
    <2>3. Offsets(t)
      <3>1. 0 * NSEC_PER_SEC = 0
        BY <1>2
      <3> DEFINE x == t.wall_to_monotonic
                 y == -x
      <3>2. x \in Int /\ x = 0
        BY <1>5
      <3>3. y \in Int /\ x + y = 0
        <4> HIDE DEF x
        <4> QED BY <3>2
      <3>4. y = 0
        <4> HIDE DEF x, y
        <4> QED BY <3>2, <3>3
      <3>5. t.offs_real = y
        BY <1>5, <3>4
      <3>6. t.offs_tai = t.offs_real + t.tai_offset * NSEC_PER_SEC
        BY <1>5, <3>1
      <3> QED BY <3>5, <3>6 DEF Offsets
    <2> QED BY <1>3, <1>4, <1>5, <2>1, <2>2, <2>3 DEF Good, Settled
  <1>7. Good(u) /\ Shows(u) /\ Kept(t, u)
    BY <1>6, PublishedKeeps
  <1> HIDE DEF u, c
  <1>8. u.clock = c /\ u.cycle_last = r /\ u.offs_boot = 0
    BY <1>5, <1>7 DEF Kept
  <1>9. Gap(u, r) = 0
    <2> DEFINE s == Source[c].size
    <2>1. Gap(u, r) = Rem(r - r, s) /\ s \in Nat \ {0} /\ r \in Int
      BY <1>2, <1>3, <1>8 DEF Gap, Rem
    <2> HIDE DEF s
    <2> QED BY <2>1, RemSelf
  <1>10. Elapsed(u, power, now, slept) = 0
    BY <1>3, <1>8, <1>9 DEF Elapsed
  <1>11. UpdateInv(u, power, now, slept, updated)
    <2>1. now \in Nat /\ slept \in Nat /\ updated = now
      BY <1>1
    <2> QED BY <1>2, <1>3, <1>8, <1>10, <2>1 DEF UpdateInv
  <1>12. PowerInv(u, power, slept)
    BY <1>1, <1>8 DEF PowerInv
  <1> QED BY <1>1, <1>7, <1>11, <1>12 DEF IInv, InvOf

-----------------------------------------------------------------------------
\* What the readers see

\* Every interface computes the same value from the fields it reads.
LEMMA InvReadersAgree ==
    ASSUME UpdatesInTime, IInv PROVE ReadersAgree
  <1> SUFFICES ASSUME ~power.suspended
      PROVE /\ Ts64 = Mono
            /\ RealTs64 = WithOffset(tk.offs_real) /\ RealFast = RealTs64
            /\ CoarseTs64 = CoarseWithOffset(0)
            /\ tk.offs_tai - tk.offs_real = tk.tai_offset * NSEC_PER_SEC
            /\ tk.ktime_sec = (Xtime(tk) + tk.wall_to_monotonic) \div NSEC_PER_SEC
            /\ SeesLagging(tk.clock) =>
                  LaggingMono \in Xtime(tk) + tk.wall_to_monotonic .. Mono
    BY DEF ReadersAgree
  <1> DEFINE r == Read(tk.clock)
             e == Elapsed(tk, power, now, slept)
             x == CyclesToNs(tk, tk.mult, tk.xtime_nsec, r)
             y == CyclesToNs(tk, tk.mult, tk.xtime_nsec, r - 1)
             w == tk.wall_to_monotonic
             v == tk.xtime_sec * NSEC_PER_SEC
             b == tk.base
  <1>1. /\ r \in Nat /\ r = CounterAt(tk.clock, now, slept)
        /\ IsTk(tk) /\ Good(tk) /\ Shows(tk)
    BY InvFacts, ReadIs
  <1>2. /\ e \in Nat /\ e < Source[tk.clock].size \div 2 /\ Gap(tk, r) = e
        /\ b + x = MonoAt(tk, e)
    BY <1>1, InvFacts, ElapsedBound, ReadersGet DEF MonoOf
  <1>3. /\ w \in Int /\ v \in Int /\ b = v + w /\ tk.offs_real = -w
        /\ tk.base_real = b + tk.offs_real /\ tk.coarse_nsec \in Int
        /\ tk.offs_tai = tk.offs_real + tk.tai_offset * NSEC_PER_SEC
        /\ tk.tai_offset * NSEC_PER_SEC \in Int
        /\ tk.ktime_sec = (Xtime(tk) + w) \div NSEC_PER_SEC
    BY <1>1, InvFacts DEF Good, Offsets, Shows, IsTk
  <1>4. /\ Source[tk.clock].size \in Nat \ {0} /\ Source[tk.clock].mult \in Nat
        /\ tk.mult \in Nat /\ tk.mult <= Source[tk.clock].mult + MaxAdj
        /\ tk.xtime_nsec \in Nat /\ tk.xtime_nsec < ShiftedSec(tk)
    BY <1>1, InvFacts, SourceFacts DEF Good, IsTk, MultsOf, Settled
  <1>5. x \in Int
    <2> DEFINE z == e * tk.mult + tk.xtime_nsec
               p == Unit(tk)
    <2>1. x = z \div p
      BY <1>1, <1>2, <1>4, CyclesToNsExact
    <2>2. z \in Int /\ p \in Nat \ {0}
      BY <1>1, <1>2, <1>4, UnitFacts
    <2> HIDE DEF z, p, x
    <2>3. z \div p \in Int
      BY <2>2, DivMod
    <2> QED BY <2>1, <2>3
  <1>6. Mono = b + x /\ RealTs64 = v + x /\ Ts64 = RealTs64 + w /\ LaggingMono = b + y
    BY DEF Mono, RealTs64, Ts64, LaggingMono
  <1>7. RealFast = Mono - b + tk.base_real /\ WithOffset(tk.offs_real) = Mono + tk.offs_real
        /\ CoarseTs64 = v + tk.coarse_nsec + w /\ CoarseWithOffset(0) = b + 0 + tk.coarse_nsec
    BY DEF RealFast, WithOffset, CoarseTs64, CoarseWithOffset
  <1>8. MonoAt(tk, 0) = Xtime(tk) + w /\ Xtime(tk) \in Int /\ MonoAt(tk, 0) <= MonoAt(tk, e)
    BY <1>1, <1>2, MonoIs, LaterReads
  <1>9. ASSUME SeesLagging(tk.clock)
        PROVE  b + y \in Int /\ MonoAt(tk, 0) <= b + y /\ b + y <= MonoAt(tk, e)
    <2> DEFINE s == Source[tk.clock].size
               l == tk.cycle_last
    <2>1. r \in Int /\ l \in Int /\ s \in Nat \ {0}
      BY <1>1, <1>4 DEF IsTk
    <2>2. Gap(tk, r - 1) = Rem((r - 1) - l, s) /\ e = Rem(r - l, s)
      BY <1>2 DEF Gap, Rem
    <2> HIDE DEF r, l, s
    <2>3. Rem((r - 1) - l, s) = IF Rem(r - l, s) = 0 THEN s - 1 ELSE Rem(r - l, s) - 1
      BY <2>1, RemBefore
    <2>4. Gap(tk, r - 1) = IF e = 0 THEN s - 1 ELSE e - 1
      BY <2>2, <2>3
    <2>5. CASE e = 0
      <3>1. y = tk.xtime_nsec \div Unit(tk)
        BY <1>1, <1>9, <2>1, <2>4, <2>5, CyclesToNsBehind DEF s
      <3>2. Xtime(tk) = v + y
        BY <3>1 DEF Xtime, Unit
      <3>3. y \in Int
        BY <1>1, <3>1, MonoIs
      <3>4. b + y = MonoAt(tk, 0)
        BY <1>3, <1>8, <3>2, <3>3
      <3> QED BY <1>3, <1>8, <2>5, <3>4
    <2>6. CASE e # 0
      <3>1. Gap(tk, r - 1) = e - 1 /\ e - 1 \in Nat /\ e - 1 <= e
        BY <1>2, <2>4, <2>6
      <3>2. Gap(tk, r - 1) < Source[tk.clock].size \div 2 /\ r - 1 \in Int
        BY <1>2, <1>4, <2>1, <3>1
      <3> DEFINE q == r - 1
      <3>3. q \in Int /\ Gap(tk, q) < Source[tk.clock].size \div 2 /\ Gap(tk, q) = e - 1
        BY <3>1, <3>2
      <3>4. y = CyclesToNs(tk, tk.mult, tk.xtime_nsec, q)
        OBVIOUS
      <3> HIDE DEF q, y
      <3>5. b + y = MonoAt(tk, e - 1)
        BY <1>1, <3>3, <3>4, ReadersShow
      <3>6. MonoAt(tk, e - 1) \in Int /\ MonoAt(tk, e - 1) <= MonoAt(tk, e)
            /\ MonoAt(tk, 0) <= MonoAt(tk, e - 1)
        BY <1>1, <1>2, <3>1, LaterReads
      <3> QED BY <3>5, <3>6
    <2> QED BY <2>5, <2>6
  <1> HIDE DEF r, e, x, y, w, v, b
  <1>10. Ts64 = Mono
    BY <1>3, <1>5, <1>6
  <1>11. RealTs64 = WithOffset(tk.offs_real) /\ RealFast = RealTs64
    BY <1>3, <1>5, <1>6, <1>7
  <1>12. CoarseTs64 = CoarseWithOffset(0)
    BY <1>3, <1>7
  <1>13. tk.offs_tai - tk.offs_real = tk.tai_offset * NSEC_PER_SEC
    BY <1>3
  <1>14. SeesLagging(tk.clock) => LaggingMono \in Xtime(tk) + w .. Mono
    BY <1>2, <1>6, <1>8, <1>9, <1>3, <1>5
  <1> QED BY <1>3, <1>10, <1>11, <1>12, <1>13, <1>14 DEF w

\* A step moves the clocks forward, and only the passing of time does.
LEMMA StepMovesForward ==
    ASSUME UpdatesInTime, SteersSlowly, IInv, [Next]_vars
    PROVE  /\ Mono' >= Mono /\ Raw' >= Raw /\ Boot' >= Boot /\ Mono \in Int /\ Mono' \in Int
           /\ now' = now => Mono' = Mono /\ Raw' = Raw
  <1> DEFINE m == MonoOf(tk, power, now, slept)
             n == MonoOf(tk', power', now', slept')
             x == RawOf(tk, power, now, slept)
             y == RawOf(tk', power', now', slept')
  <1>1. Mono = m /\ Raw = x
    BY MonoShown
  <1>2. InvOf(tk', power', now', slept', updated')
    BY StepKeeps, PassKeeps DEF KeepsTime
  <1>3. Mono' = n /\ Raw' = y
    <2>1. LET r == IF power'.suspended THEN power'.cycles ELSE CounterAt(tk'.clock, now', slept')
          IN /\ tk'.base + CyclesToNs(tk', tk'.mult, tk'.xtime_nsec, r) = n
             /\ tk'.raw_base + CyclesToNs(tk', Source[tk'.clock].mult, tk'.raw_nsec, r) = y
      BY <1>2, ReadersGet
    <2>2. Read(tk.clock)' = CounterAt(tk'.clock, now', slept')
      BY DEF Read, CounterAt, CountAt
    <2> QED BY <2>1, <2>2 DEF Mono, Raw
  <1>4. m \in Int /\ x \in Int /\ tk.offs_boot \in Int
    <2>1. Elapsed(tk, power, now, slept) \in Nat
      BY InvFacts, ElapsedBound
    <2> QED BY <2>1, InvFacts, LaterReads DEF MonoOf, RawOf
  <1>5. n \in Int /\ y \in Int
    <2>1. Elapsed(tk', power', now', slept') \in Nat /\ Good(tk')
      BY <1>2, ElapsedBound DEF InvOf
    <2> QED BY <2>1, LaterReads DEF MonoOf, RawOf
  <1>6. tk'.offs_boot \in Int
    BY <1>2 DEF InvOf, Good, IsTk
  <1>7. Boot = m + tk.offs_boot /\ Boot' = n + tk'.offs_boot
    BY <1>1, <1>3 DEF Boot, WithOffset
  <1>8. /\ n >= m /\ y >= x /\ tk'.offs_boot >= tk.offs_boot
        /\ now' = now => n = m /\ y = x
    <2>1. CASE KeepsTime
      BY <1>4, <2>1 DEF KeepsTime
    <2>2. CASE Pass
      <3>1. n >= m /\ y >= x /\ tk' = tk /\ now' # now
        BY <2>2, PassKeeps
      <3> QED BY <1>4, <3>1
    <2> QED BY <2>1, <2>2, StepKeeps
  <1> HIDE DEF m, n, x, y
  <1>9. n + tk'.offs_boot >= m + tk.offs_boot
    BY <1>4, <1>5, <1>6, <1>8
  <1> QED BY <1>1, <1>3, <1>4, <1>5, <1>7, <1>8, <1>9

-----------------------------------------------------------------------------
\* Leap seconds

\* What NTP says
IsNtp(n) ==
    n \in [state : {"OK", "INS", "DEL", "WAIT"}, status : {"none", "INS", "DEL"}, leap_sec : Int]

\* The time on CLOCK_MONOTONIC at which the offset changes
Due(t, n) == IF NextLeap(n) = KTIME_MAX THEN KTIME_MAX ELSE NextLeap(n) - t.offs_real

\* What is published is what NTP says.
LeapInv ==
    /\ IsNtp(ntp) /\ tk.next_leap_ktime = Due(tk, ntp)
    /\ base = [clock_was_set_seq |-> base.clock_was_set_seq, offs_real |-> base.offs_real]

\* From a to b a leap second may be taken, and a second one is not.
Takes(a, b) ==
    /\ IsNtp(b.ntp) /\ b.ntp.status = a.ntp.status /\ b.tk.offs_tai = a.tk.offs_tai
    /\ \/ /\ b.tk.offs_real = a.tk.offs_real
          /\ a.ntp.status # "none" /\ a.ntp.state = "WAIT" => b.ntp.state = "WAIT"
       \/ /\ a.ntp.status # "none" /\ a.ntp.state # "WAIT" /\ b.ntp.state = "WAIT"
          /\ b.tk.offs_real - a.tk.offs_real \in {-NSEC_PER_SEC, NSEC_PER_SEC}

\* What second_overflow() of NTP may return
Overflowed(n, sec, o) ==
    /\ IsNtp(o.ntp) /\ o.ntp.status = n.status
    /\ \/ o.leap = 0 /\ (n.status # "none" /\ n.state = "WAIT" => o.ntp.state = "WAIT")
       \/ o.leap \in {-1, 1} /\ n.status # "none" /\ n.state # "WAIT" /\ o.ntp.state = "WAIT"
    /\ n.state = "INS" /\ n.status = "INS" =>
          IF sec = n.leap_sec THEN o.leap = -1 ELSE o.leap = 0 /\ o.ntp = n

\* and does.
LEMMA OverflowIs ==
    ASSUME NEW n, IsNtp(n), NEW sec \in Int PROVE Overflowed(n, sec, SecondOverflow(n, sec))
  <1> DEFINE o == SecondOverflow(n, sec)
             next == sec + Day - (sec % Day)
             last == sec + Day - ((sec + 1) % Day)
  <1>1. next \in Int /\ last \in Int /\ KTIME_MAX \in Int
    <2>1. Day \in Nat \ {0} /\ KTIME_MAX \in Nat
      BY ConstAssumption
    <2> DEFINE x == sec % Day
               y == (sec + 1) % Day
    <2>2. x \in Int /\ y \in Int
      BY <2>1, DivMod
    <2> HIDE DEF x, y
    <2>3. sec + Day - x \in Int /\ sec + Day - y \in Int
      BY <2>1, <2>2
    <2> QED BY <2>1, <2>3 DEF x, y
  <1>2. o = CASE n.state = "OK" /\ n.status = "INS" ->
                    [ntp |-> [n EXCEPT !.state = "INS", !.leap_sec = next], leap |-> 0]
              [] n.state = "OK" /\ n.status = "DEL" ->
                    [ntp |-> [n EXCEPT !.state = "DEL", !.leap_sec = last], leap |-> 0]
              [] n.state \in {"INS", "DEL"} /\ n.status # n.state ->
                    [ntp |-> [n EXCEPT !.state = "OK", !.leap_sec = KTIME_MAX], leap |-> 0]
              [] n.state \in {"INS", "DEL"} /\ n.status = n.state /\ sec = n.leap_sec ->
                    [ntp |-> [n EXCEPT !.state = "WAIT", !.leap_sec = KTIME_MAX],
                     leap |-> IF n.state = "INS" THEN -1 ELSE 1]
              [] n.state = "WAIT" /\ n.status = "none" ->
                    [ntp |-> [n EXCEPT !.state = "OK"], leap |-> 0]
              [] OTHER -> [ntp |-> n, leap |-> 0]
    BY DEF SecondOverflow
  <1> SUFFICES Overflowed(n, sec, o)
    OBVIOUS
  <1> HIDE DEF o, next, last
  <1>a. n \in [state : {"OK", "INS", "DEL", "WAIT"}, status : {"none", "INS", "DEL"}, leap_sec : Int]
    BY DEF IsNtp
  <1>3. CASE n.state = "OK" /\ n.status = "INS"
    <2> DEFINE m == [n EXCEPT !.state = "INS", !.leap_sec = next]
    <2>1. o = [ntp |-> m, leap |-> 0]
      BY <1>2, <1>3
    <2>2. IsNtp(m) /\ m.status = n.status /\ m.state = "INS"
      BY <1>1, <1>a DEF IsNtp
    <2>3. o.ntp = m /\ o.leap = 0
      BY <2>1
    <2> HIDE DEF m
    <2> QED BY <1>3, <2>2, <2>3 DEF Overflowed
  <1>4. CASE n.state = "OK" /\ n.status = "DEL"
    <2> DEFINE m == [n EXCEPT !.state = "DEL", !.leap_sec = last]
    <2>1. o = [ntp |-> m, leap |-> 0]
      BY <1>2, <1>4
    <2>2. IsNtp(m) /\ m.status = n.status /\ m.state = "DEL"
      BY <1>1, <1>a DEF IsNtp
    <2>3. o.ntp = m /\ o.leap = 0
      BY <2>1
    <2> HIDE DEF m
    <2> QED BY <1>4, <2>2, <2>3 DEF Overflowed
  <1>5. CASE n.state \in {"INS", "DEL"} /\ n.status # n.state
    <2> DEFINE m == [n EXCEPT !.state = "OK", !.leap_sec = KTIME_MAX]
    <2>1. o = [ntp |-> m, leap |-> 0]
      BY <1>2, <1>5
    <2>2. IsNtp(m) /\ m.status = n.status /\ m.state = "OK"
      BY <1>1, <1>a DEF IsNtp
    <2>3. o.ntp = m /\ o.leap = 0
      BY <2>1
    <2> HIDE DEF m
    <2> QED BY <1>5, <2>2, <2>3 DEF Overflowed
  <1>6. CASE n.state \in {"INS", "DEL"} /\ n.status = n.state /\ sec = n.leap_sec
    <2> DEFINE m == [n EXCEPT !.state = "WAIT", !.leap_sec = KTIME_MAX]
    <2>1. o = [ntp |-> m, leap |-> IF n.state = "INS" THEN -1 ELSE 1]
      BY <1>2, <1>6
    <2>2. IsNtp(m) /\ m.status = n.status /\ m.state = "WAIT"
      BY <1>1, <1>a DEF IsNtp
    <2>3. o.ntp = m /\ o.leap = IF n.state = "INS" THEN -1 ELSE 1
      BY <2>1
    <2> HIDE DEF m
    <2> QED BY <1>6, <2>2, <2>3 DEF Overflowed
  <1>7. CASE n.state = "WAIT" /\ n.status = "none"
    <2> DEFINE m == [n EXCEPT !.state = "OK"]
    <2>1. o = [ntp |-> m, leap |-> 0]
      BY <1>2, <1>7
    <2>2. IsNtp(m) /\ m.status = n.status /\ m.state = "OK"
      BY <1>1, <1>a DEF IsNtp
    <2>3. o.ntp = m /\ o.leap = 0
      BY <2>1
    <2> HIDE DEF m
    <2> QED BY <1>7, <2>2, <2>3 DEF Overflowed
  <1>8. CASE /\ n.state = "OK" => n.status = "none"
             /\ n.state = "WAIT" => n.status # "none"
             /\ n.state \in {"INS", "DEL"} => n.status = n.state /\ sec # n.leap_sec
    <2>1. o = [ntp |-> n, leap |-> 0]
      BY <1>2, <1>8
    <2>2. o.ntp = n /\ o.leap = 0
      BY <2>1
    <2> QED BY <1>8, <1>a, <2>2 DEF Overflowed, IsNtp
  <1> QED BY <1>3, <1>4, <1>5, <1>6, <1>7, <1>8, <1>a

\* A round takes a leap second at most.
LEMMA NextSecTakes ==
    ASSUME NEW a, IsAcc(a), IsNtp(a.ntp)
    PROVE  LET u == NextSec(a)
           IN /\ Takes(a, u)
              /\ a.ntp.state = "INS" /\ a.ntp.status = "INS" =>
                    IF ~a.tk.skip_second_overflow /\ a.tk.xtime_sec + 1 = a.ntp.leap_sec
                    THEN u.ntp.state = "WAIT" /\ u.tk.offs_real = a.tk.offs_real - NSEC_PER_SEC
                    ELSE /\ u.ntp = a.ntp /\ u.tk.offs_real = a.tk.offs_real
                         /\ u.tk.xtime_sec = a.tk.xtime_sec + 1 /\ ~u.tk.skip_second_overflow
  <1> DEFINE u == NextSec(a)
             t == [a.tk EXCEPT !.xtime_nsec = @ - ShiftedSec(a.tk), !.xtime_sec = @ + 1,
                               !.skip_second_overflow = FALSE]
             o == SecondOverflow(a.ntp, t.xtime_sec)
             n == a.ntp
             q == NSEC_PER_SEC
  <1>1. /\ DOMAIN a.tk = TkFields /\ DOMAIN t = TkFields
        /\ a.tk.offs_real \in Int /\ a.tk.xtime_sec \in Int /\ a.tk.wall_to_monotonic \in Int
        /\ a.tk.tai_offset \in Int /\ q \in Int
    BY UnitFacts DEF IsAcc, IsTk
  <1>2. /\ t.offs_real = a.tk.offs_real /\ t.offs_tai = a.tk.offs_tai
        /\ t.wall_to_monotonic = a.tk.wall_to_monotonic /\ t.tai_offset = a.tk.tai_offset
        /\ t.xtime_sec = a.tk.xtime_sec + 1 /\ ~t.skip_second_overflow
    BY <1>1 DEF TkFields
  <1>3. /\ IsNtp(o.ntp) /\ o.ntp.status = n.status
        /\ \/ o.leap = 0 /\ (n.status # "none" /\ n.state = "WAIT" => o.ntp.state = "WAIT")
           \/ o.leap \in {-1, 1} /\ n.status # "none" /\ n.state # "WAIT" /\ o.ntp.state = "WAIT"
        /\ n.state = "INS" /\ n.status = "INS" =>
              IF t.xtime_sec = n.leap_sec THEN o.leap = -1 ELSE o.leap = 0 /\ o.ntp = n
    <2>1. t.xtime_sec \in Int
      BY <1>1, <1>2
    <2> HIDE DEF t
    <2>2. Overflowed(n, t.xtime_sec, o)
      BY <2>1, OverflowIs
    <2> HIDE DEF o
    <2> QED BY <2>2 DEF Overflowed
  <1>4. u = IF a.tk.skip_second_overflow THEN [a EXCEPT !.tk = t]
            ELSE IF o.leap = 0 THEN [a EXCEPT !.tk = t, !.ntp = o.ntp]
            ELSE [tk |-> ApplyLeap(t, o.leap), ntp |-> o.ntp, clock_set |-> TRUE]
    BY DEF NextSec
  <1>5. /\ Offsets(u.tk) /\ Offsets(a.tk) /\ a = [f \in {"tk", "ntp", "clock_set"} |-> a[f]]
    BY NextSecKeeps DEF IsAcc
  <1> HIDE DEF t, o, u
  <1>6. CASE a.tk.skip_second_overflow
    <2>1. u.tk = t /\ u.ntp = n
      BY <1>4, <1>5, <1>6
    <2> QED BY <1>2, <1>6, <2>1 DEF Takes, u
  <1>7. CASE ~a.tk.skip_second_overflow /\ o.leap = 0
    <2>1. u.tk = t /\ u.ntp = o.ntp
      BY <1>4, <1>5, <1>7
    <2> QED BY <1>2, <1>3, <1>7, <2>1 DEF Takes, u
  <1>8. CASE ~a.tk.skip_second_overflow /\ o.leap # 0
    <2> DEFINE l == o.leap
               v == ApplyLeap(t, l)
    <2>1. u.tk = v /\ u.ntp = o.ntp /\ l \in {-1, 1} /\ o.ntp.state = "WAIT"
          /\ n.status # "none" /\ n.state # "WAIT"
      BY <1>3, <1>4, <1>8
    <2>2. l * q \in Int /\ (l = -1 => l * q = -q) /\ (l = 1 => l * q = q)
      <3> HIDE DEF l
      <3> QED BY <1>1, <2>1
    <2>3. /\ v.offs_real = -(t.wall_to_monotonic - l * q) /\ v.tai_offset = t.tai_offset - l
      BY <1>1 DEF ApplyLeap, SetTaiOffset, SetWallToMono, TkFields
    <2> HIDE DEF l, v
    <2>4. v.offs_real = a.tk.offs_real + l * q
      BY <1>1, <1>2, <1>5, <2>2, <2>3 DEF Offsets
    <2>5. v.offs_tai = a.tk.offs_tai
      <3>1. v.offs_tai = v.offs_real + (a.tk.tai_offset - l) * q
            /\ a.tk.offs_tai = a.tk.offs_real + a.tk.tai_offset * q
        BY <1>2, <1>5, <2>1, <2>3 DEF Offsets
      <3>2. l \in Int
        BY <2>1
      <3>3. (a.tk.tai_offset - l) * q = a.tk.tai_offset * q - l * q /\ a.tk.tai_offset * q \in Int
        BY <1>1, <3>2
      <3> QED BY <1>1, <2>2, <2>4, <3>1, <3>3
    <2>6. v.offs_real - a.tk.offs_real \in {-q, q}
      BY <1>1, <2>1, <2>2, <2>4
    <2>7. n.state = "INS" /\ n.status = "INS" =>
            t.xtime_sec = n.leap_sec /\ v.offs_real = a.tk.offs_real - q
      BY <1>1, <1>3, <1>8, <2>2, <2>4 DEF l
    <2> QED BY <1>2, <1>3, <1>8, <2>1, <2>5, <2>6, <2>7 DEF Takes, u
  <1> QED BY <1>6, <1>7, <1>8

\* Two rounds do not take two.
LEMMA TakesOnce ==
    ASSUME NEW a, NEW b, NEW c, Takes(a, b), Takes(b, c) PROVE Takes(a, c)
  BY DEF Takes

\* Induction up to K
LEMMA UpTo ==
    ASSUME NEW K \in Nat, NEW S, 0 \in S, \A n \in 1 .. K : n - 1 \in S => n \in S
    PROVE  0 .. K \subseteq S
  <1> DEFINE Bad == {n \in 0 .. K : n \notin S}
  <1> SUFFICES ASSUME Bad # {} PROVE FALSE
    OBVIOUS
  <1>1. Bad \subseteq Nat
    OBVIOUS
  <1>2. PICK m \in Bad : \A k \in Bad : ~(<<k, m>> \in OpToRel(<, Nat))
    BY <1>1, NatLessThanWellFounded, WFMin
  <1>3. \A k \in Bad : ~(k < m)
    BY <1>1, <1>2 DEF OpToRel
  <1>4. m \in 1 .. K /\ m \notin S
    OBVIOUS
  <1>5. m - 1 \in S
    BY <1>3, <1>4
  <1> QED BY <1>4, <1>5

\* The whole seconds of what the accumulation is given
LEMMA WholeSecsIs ==
    ASSUME NEW a, IsAcc(a), 0 <= a.tk.xtime_nsec
    PROVE  LET K == WholeSecs(a.tk)
               d == ShiftedSec(a.tk)
           IN /\ K \in Nat /\ d \in Nat \ {0} /\ a.tk.xtime_nsec \in Int
              /\ K = a.tk.xtime_nsec \div d
              /\ d * K <= a.tk.xtime_nsec /\ a.tk.xtime_nsec < d * K + d
  <1> DEFINE K == WholeSecs(a.tk)
             d == ShiftedSec(a.tk)
             x == a.tk.xtime_nsec
  <1>1. x \in Int /\ 0 <= x /\ d \in Nat \ {0} /\ K = x \div d
    BY UnitFacts DEF IsAcc, IsTk, WholeSecs
  <1>2. K \in Nat /\ d * K <= x /\ x < d * K + d
    <2> HIDE DEF K, x, d
    <2>1. x \div d \in Int /\ d * (x \div d) <= x /\ x < d * (x \div d) + d
      BY <1>1, DivMod
    <2>2. K \in Int /\ d * K <= x /\ x < d * K + d
      BY <1>1, <2>1
    <2>3. ~(K < 0)
      BY <1>1, <2>2, NextMultiple
    <2> QED BY <2>2, <2>3
  <1> QED BY <1>1, <1>2

\* What every round keeps, the accumulation keeps.
LEMMA RoundsKeep ==
    ASSUME NEW a, IsAcc(a), 0 <= a.tk.xtime_nsec
    PROVE  \E f : /\ WholeSecs(a.tk) \in Nat /\ f[0] = a /\ AccumulateSecs(a) = f[WholeSecs(a.tk)]
                  /\ \A n \in 1 .. WholeSecs(a.tk) : f[n] = NextSec(f[n - 1])
                  /\ \A n \in 0 .. WholeSecs(a.tk) : IsAcc(f[n])
  <1> DEFINE K == WholeSecs(a.tk)
  <1>1. K \in Nat
    BY WholeSecsIs
  <1>2. PICK f : /\ f = [n \in 0 .. K |-> IF n = 0 THEN a ELSE NextSec(f[n - 1])]
                 /\ AccumulateSecs(a) = f[K]
    BY <1>1, Rounds
  <1> HIDE DEF K
  <1>3. f[0] = a /\ \A n \in 1 .. K : f[n] = NextSec(f[n - 1])
    BY <1>1, <1>2
  <1> DEFINE S == {n \in 0 .. K : IsAcc(f[n])}
  <1>4. 0 \in S
    BY <1>1, <1>3
  <1>5. ASSUME NEW n \in 1 .. K, n - 1 \in S PROVE n \in S
    <2>1. IsAcc(NextSec(f[n - 1]))
      BY <1>5, NextSecKeeps
    <2> QED BY <1>3, <1>5, <2>1
  <1> HIDE DEF S
  <1>6. 0 .. K \subseteq S
    BY <1>1, <1>4, <1>5, UpTo
  <1>7. \A n \in 0 .. K : IsAcc(f[n])
    BY <1>6 DEF S
  <1> QED BY <1>1, <1>2, <1>3, <1>7 DEF K

\* accumulate_nsecs_to_secs() takes a leap second at most.
LEMMA AccumulateTakes ==
    ASSUME NEW a, IsAcc(a), IsNtp(a.ntp), 0 <= a.tk.xtime_nsec PROVE Takes(a, AccumulateSecs(a))
  <1> DEFINE K == WholeSecs(a.tk)
  <1>1. PICK f : /\ K \in Nat /\ f[0] = a /\ AccumulateSecs(a) = f[K]
                 /\ \A n \in 1 .. K : f[n] = NextSec(f[n - 1])
                 /\ \A n \in 0 .. K : IsAcc(f[n])
    BY RoundsKeep
  <1> HIDE DEF K
  <1> DEFINE S == {n \in 0 .. K : Takes(a, f[n])}
  <1>2. 0 \in S
    BY <1>1 DEF Takes
  <1>3. ASSUME NEW n \in 1 .. K, n - 1 \in S PROVE n \in S
    <2>1. IsAcc(f[n - 1]) /\ Takes(a, f[n - 1]) /\ f[n] = NextSec(f[n - 1])
      BY <1>1, <1>3
    <2>2. Takes(f[n - 1], f[n])
      BY <2>1, NextSecTakes DEF Takes
    <2>3. Takes(a, f[n])
      BY <2>1, <2>2, TakesOnce
    <2> QED BY <2>3
  <1> HIDE DEF S
  <1>4. 0 .. K \subseteq S
    BY <1>1, <1>2, <1>3, UpTo
  <1>5. K \in S
    BY <1>1, <1>4
  <1> QED BY <1>1, <1>5 DEF S

\* __timekeeping_advance() takes a leap second at most, before or after the steering.
LEMMA AdvancedTakes ==
    ASSUME NEW t, Good(t), now \in Nat, slept \in Nat, SteersSlowly,
           Gap(t, Read(t.clock)) < Source[t.clock].size \div 2,
           NEW n, IsNtp(n), NEW m \in MultsOf(t.clock)
    PROVE  Takes([tk |-> t, ntp |-> n, clock_set |-> FALSE], Advanced(t, n, m))
  <1> DEFINE r == Read(t.clock)
             i == CycleInterval(t.clock)
             g == Gap(t, r)
             k == g \div i
             o == g % i
             a0 == [tk |-> t, ntp |-> n, clock_set |-> FALSE]
             t1 == AccumulateIntervals(t, k)
             a1 == [tk |-> t1, ntp |-> n, clock_set |-> FALSE]
             a2 == AccumulateSecs(a1)
             t3 == Adjust(a2.tk, o, m)
             a3 == [a2 EXCEPT !.tk = t3]
             a4 == AccumulateSecs(a3)
             u == Advanced(t, n, m)
  <1>1. /\ IsTk(t) /\ t.clock \in Clocks /\ i \in Nat \ {0}
        /\ r \in Nat /\ g \in Nat /\ ClocksourceDelta(t) = g
    BY SourceFacts, ReadIs, GapIs, DeltaIsGap DEF Good, IsTk
  <1> HIDE DEF i, g, r
  <1>2. k \in Nat /\ o \in Nat /\ o < i /\ k * i <= g
    <2>1. k \in Int /\ o \in Int /\ g = i * k + o /\ 0 <= o /\ o < i
      <3>1. g \in Int /\ i \in Nat \ {0}
        BY <1>1
      <3> QED BY <3>1, DivMod
    <2> HIDE DEF k, o
    <2>2. ~(k < 0)
      BY <1>1, <2>1, NextMultiple
    <2> QED BY <1>1, <2>1, <2>2
  <1> HIDE DEF k, o
  <1>3. /\ IsTk(t1) /\ Offsets(t1) /\ Ticked(t, t1) /\ t1.mult = t.mult /\ 0 <= t1.xtime_nsec
    BY <1>1, <1>2, IntervalsKeep DEF i, g
  <1>4. t1.offs_real = t.offs_real /\ t1.offs_tai = t.offs_tai
    BY <1>1 DEF AccumulateIntervals, IsTk, TkFields
  <1> HIDE DEF t1
  <1>5. Takes(a0, a1)
    BY <1>4 DEF Takes
  <1>6. IsAcc(a1) /\ a1.tk = t1 /\ a1.ntp = n
    BY <1>3 DEF IsAcc
  <1> HIDE DEF a1
  <1>7. /\ IsAcc(a2) /\ Carried(t1, a2.tk) /\ 0 <= a2.tk.xtime_nsec /\ Takes(a1, a2)
    BY <1>3, <1>6, AccumulateKeeps, AccumulateTakes
  <1> HIDE DEF a2
  <1>8. a2.tk.clock = t.clock /\ a2.tk.mult = t.mult
    BY <1>3, <1>7 DEF Carried, Ticked
  <1>9. IsTk(t3) /\ Offsets(t3) /\ 0 <= t3.xtime_nsec
    <2>1. o <= CycleInterval(a2.tk.clock) /\ m \in MultsOf(a2.tk.clock)
          /\ a2.tk.mult \in MultsOf(a2.tk.clock)
      BY <1>1, <1>2, <1>8 DEF i, Good
    <2> QED BY <1>2, <1>7, <2>1, AdjustKeeps DEF IsAcc
  <1>10. t3.offs_real = a2.tk.offs_real /\ t3.offs_tai = a2.tk.offs_tai
    BY <1>7 DEF Adjust, ApplyAdjustment, IsAcc, IsTk, TkFields
  <1> HIDE DEF t3
  <1>11. a3.tk = t3 /\ a3.ntp = a2.ntp /\ a3 = [f \in {"tk", "ntp", "clock_set"} |-> a3[f]]
    BY <1>7 DEF IsAcc
  <1> HIDE DEF a3
  <1>12. IsAcc(a3) /\ Takes(a2, a3)
    BY <1>7, <1>9, <1>10, <1>11 DEF IsAcc, Takes
  <1>13. IsAcc(a4) /\ Takes(a3, a4)
    BY <1>7, <1>9, <1>11, <1>12, AccumulateKeeps, AccumulateTakes DEF Takes
  <1>14. ClocksourceDelta(t) \div CycleInterval(t.clock) = k
         /\ ClocksourceDelta(t) % CycleInterval(t.clock) = o
    BY <1>1 DEF k, o, i
  <1>15. u = [a4 EXCEPT !.tk = IF k > 0 THEN UpdateCoarse(a4.tk) ELSE a4.tk]
    BY <1>14 DEF Advanced, t1, a1, a2, t3, a3
  <1> HIDE DEF a4, u
  <1>16. u.ntp = a4.ntp /\ u.tk.offs_real = a4.tk.offs_real /\ u.tk.offs_tai = a4.tk.offs_tai
    BY <1>13, <1>15 DEF IsAcc, IsTk, TkFields, UpdateCoarse
  <1>17. Takes(a4, u)
    BY <1>13, <1>16 DEF Takes
  <1>18. Takes(a0, u)
    BY <1>5, <1>7, <1>12, <1>13, <1>17, TakesOnce
  <1> QED BY <1>18 DEF u, a0

\* What is published shows the leap second that NTP announces.
LEMMA PublishedLeap ==
    ASSUME NEW t, NEW n, NEW b, IsTk(Published(t, n, b))
    PROVE  Published(t, n, b).next_leap_ktime = Due(Published(t, n, b), n)
  <1> DEFINE v == IF NextLeap(n) = KTIME_MAX THEN KTIME_MAX ELSE NextLeap(n) - t.offs_real
             l == [t EXCEPT !.next_leap_ktime = v]
             u == Published(t, n, b)
  <1>1. DOMAIN u = DOMAIN t
    BY DEF Published, UpdateKtimeData, UpdateLeapState
  <1>2. TkFields \subseteq DOMAIN t
    BY <1>1 DEF IsTk
  <1>3. u.next_leap_ktime = v /\ u.offs_real = t.offs_real
    BY <1>2 DEF Published, UpdateKtimeData, UpdateLeapState, TkFields
  <1> QED BY <1>3 DEF Due

\* The same of the leap state alone
LEMMA LeapStateLeap ==
    ASSUME NEW t, IsTk(t), NEW n
    PROVE  UpdateLeapState(t, n).next_leap_ktime = Due(UpdateLeapState(t, n), n)
  BY DEF UpdateLeapState, IsTk, TkFields, Due

\* Whoever changes the timekeeper publishes it, or the leap state.
LEMMA StepPublishes ==
    ASSUME [Next]_vars
    PROVE  \/ \E t, b : tk' = Published(t, ntp', b)
           \/ tk' = UpdateLeapState(tk, ntp')
           \/ UNCHANGED <<tk, ntp>>
  <1>1. ASSUME NEW t, UpdateAll(t) PROVE \E u, b : tk' = Published(u, ntp', b)
    BY <1>1 DEF UpdateAll
  <1>2. ASSUME NEW a, NEW w, Advance(a, w) PROVE \E u, b : tk' = Published(u, ntp', b)
    BY <1>2 DEF Advance
  <1>3. CASE UpdateWallTime
    BY <1>2, <1>3 DEF UpdateWallTime
  <1>4. CASE Suspend
    BY <1>4 DEF Suspend
  <1>5. CASE Resume
    BY <1>5 DEF Resume
  <1>6. CASE RtcResume
    BY <1>1, <1>6 DEF RtcResume
  <1>7. CASE UpdateOffsets
    BY <1>7 DEF UpdateOffsets
  <1>8. ASSUME NEW ts \in Sets, SetTimeOfDay(ts) PROVE \E u, b : tk' = Published(u, ntp', b)
    BY <1>1, <1>8 DEF SetTimeOfDay
  <1>9. ASSUME NEW d \in Shifts, AdjSetOffset(d) PROVE \E u, b : tk' = Published(u, ntp', b)
    BY <1>1, <1>9 DEF AdjSetOffset
  <1>10. ASSUME NEW status, NEW tai, AdjStatus(status, tai)
         PROVE  tk' = UpdateLeapState(tk, ntp') \/ \E u, b : tk' = Published(u, ntp', b)
    BY <1>10 DEF AdjStatus
  <1>11. ASSUME NEW m \in Mults, AdjFrequency(m) PROVE \E u, b : tk' = Published(u, ntp', b)
    BY <1>2, <1>11 DEF AdjFrequency
  <1>12. ASSUME NEW c \in Clocks, ChangeClocksource(c) PROVE \E u, b : tk' = Published(u, ntp', b)
    BY <1>1, <1>12 DEF ChangeClocksource
  <1>13. ASSUME NEW d \in Sleeps, Sleep(d) PROVE UNCHANGED <<tk, ntp>>
    BY <1>13 DEF Sleep
  <1>14. CASE Pass
    BY <1>14 DEF Pass
  <1>15. CASE UNCHANGED vars
    BY <1>15 DEF vars
  <1> QED
    BY <1>3, <1>4, <1>5, <1>6, <1>7, <1>8, <1>9, <1>10, <1>11, <1>12, <1>13, <1>14, <1>15 DEF Next

\* How far the counter has come
LEMMA GapNow ==
    ASSUME IInv, ~power.suspended, UpdatesInTime
    PROVE  /\ Gap(tk, Read(tk.clock)) < Source[tk.clock].size \div 2
           /\ Gap(tk, Read(tk.clock)) = Elapsed(tk, power, now, slept)
           /\ ClocksourceDelta(tk) = Elapsed(tk, power, now, slept)
           /\ Elapsed(tk, power, now, slept) \in Nat
  <1>1. Read(tk.clock) = CounterAt(tk.clock, now, slept)
    BY InvFacts, ReadIs
  <1>2. Elapsed(tk, power, now, slept) = Gap(tk, Read(tk.clock))
    BY <1>1 DEF Elapsed
  <1>3. Gap(tk, Read(tk.clock)) < Source[tk.clock].size \div 2
        /\ Elapsed(tk, power, now, slept) \in Nat
    BY <1>2, InvFacts, ElapsedBound
  <1> QED BY <1>2, <1>3, InvFacts, DeltaIsGap

\* A step of the timekeeper takes a leap second at most.
LEMMA AdvanceTakes ==
    ASSUME IInv, IsNtp(ntp), UpdatesInTime, SteersSlowly, ~power.suspended,
           NEW t, Good(t), t.clock = tk.clock, t.cycle_last = tk.cycle_last, NEW m \in Mults
    PROVE  Takes([tk |-> t, ntp |-> ntp, clock_set |-> FALSE], Advanced(t, ntp, m))
  <1>1. m \in MultsOf(t.clock)
    BY DEF Mults, MultsOf
  <1>2. Gap(t, Read(t.clock)) < Source[t.clock].size \div 2
    BY GapNow DEF Gap
  <1> QED BY <1>1, <1>2, InvFacts, AdvancedTakes

\* NTP keeps its type.
LEMMA NtpKept ==
    ASSUME IInv, IsNtp(ntp), UpdatesInTime, SteersSlowly, [Next]_vars PROVE IsNtp(ntp')
  <1>0. KTIME_MAX \in Int
    BY ConstAssumption
  <1>1. ASSUME NEW t, UpdateAll(t) PROVE IsNtp(ntp')
    BY <1>0, <1>1 DEF UpdateAll, NtpClear, IsNtp
  <1>2. CASE UpdateWallTime
    <2>1. PICK m \in Mults :
             Advance(Advanced(tk, ntp, m), ClocksourceDelta(tk) \div CycleInterval(tk.clock))
      BY <1>2 DEF UpdateWallTime
    <2>2. ~power.suspended
      BY <1>2 DEF UpdateWallTime
    <2>3. Takes([tk |-> tk, ntp |-> ntp, clock_set |-> FALSE], Advanced(tk, ntp, m))
      BY <2>2, InvFacts, AdvanceTakes
    <2> QED BY <2>1, <2>3 DEF Advance, Takes
  <1>3. ASSUME NEW m \in Mults, AdjFrequency(m) PROVE IsNtp(ntp')
    <2> DEFINE t == UpdateLeapState(tk, ntp)
    <2>1. Good(t) /\ Kept(tk, t)
      BY InvFacts, LeapStateKeeps
    <2>2. Advance(Advanced(t, ntp, m), ClocksourceDelta(tk) \div CycleInterval(tk.clock))
          /\ ~power.suspended
      BY <1>3 DEF AdjFrequency, Op
    <2> HIDE DEF t
    <2>3. Takes([tk |-> t, ntp |-> ntp, clock_set |-> FALSE], Advanced(t, ntp, m))
      BY <2>1, <2>2, AdvanceTakes DEF Kept
    <2> QED BY <2>2, <2>3 DEF Advance, Takes
  <1>4. ASSUME NEW status \in {"none", "INS", "DEL"}, NEW tai, AdjStatus(status, tai)
        PROVE  IsNtp(ntp')
    BY <1>4 DEF AdjStatus, IsNtp
  <1>5. CASE RtcResume
    BY <1>1, <1>5 DEF RtcResume
  <1>6. ASSUME NEW ts \in Sets, SetTimeOfDay(ts) PROVE IsNtp(ntp')
    BY <1>1, <1>6 DEF SetTimeOfDay
  <1>7. ASSUME NEW d \in Shifts, AdjSetOffset(d) PROVE IsNtp(ntp')
    BY <1>1, <1>7 DEF AdjSetOffset
  <1>8. ASSUME NEW c \in Clocks, ChangeClocksource(c) PROVE IsNtp(ntp')
    BY <1>1, <1>8 DEF ChangeClocksource
  <1>9. ASSUME UNCHANGED ntp PROVE IsNtp(ntp')
    BY <1>9
  <1>10. CASE Pass \/ Suspend \/ Resume \/ UpdateOffsets \/ UNCHANGED vars
    BY <1>9, <1>10 DEF Pass, Suspend, Resume, UpdateOffsets, vars
  <1>11. ASSUME NEW d \in Sleeps, Sleep(d) PROVE IsNtp(ntp')
    BY <1>9, <1>11 DEF Sleep
  <1> QED BY <1>2, <1>3, <1>4, <1>5, <1>6, <1>7, <1>8, <1>10, <1>11 DEF Next

\* A base keeps its fields.
LEMMA BaseKept ==
    ASSUME LeapInv, [Next]_vars
    PROVE  base' = [clock_was_set_seq |-> base'.clock_was_set_seq, offs_real |-> base'.offs_real]
  <1>1. CASE UpdateOffsets
    BY <1>1 DEF UpdateOffsets, OffsetsNow
  <1>2. CASE UNCHANGED base
    BY <1>2 DEF LeapInv
  <1>3. UpdateOffsets \/ UNCHANGED base
    BY DEF Next, vars, Pass, UpdateWallTime, Suspend, Resume, RtcResume, SetTimeOfDay, AdjSetOffset,
           AdjStatus, AdjFrequency, ChangeClocksource, Sleep
  <1> QED BY <1>1, <1>2, <1>3

\* What is announced stays what NTP says.
LEMMA LeapNext ==
    ASSUME IInv, LeapInv, UpdatesInTime, SteersSlowly, [Next]_vars PROVE LeapInv'
  <1>1. IsNtp(ntp')
    BY NtpKept DEF LeapInv
  <1>2. IsTk(tk') /\ IsTk(tk)
    <2>1. InvOf(tk', power', now', slept', updated')
      BY StepKeeps, PassKeeps DEF KeepsTime
    <2> QED BY <2>1, InvFacts DEF InvOf, Good
  <1>3. tk'.next_leap_ktime = Due(tk', ntp')
    <2>1. ASSUME NEW t, NEW b, tk' = Published(t, ntp', b) PROVE tk'.next_leap_ktime = Due(tk', ntp')
      BY <1>2, <2>1, PublishedLeap
    <2>2. CASE tk' = UpdateLeapState(tk, ntp')
      BY <1>2, <2>2, LeapStateLeap
    <2>3. CASE UNCHANGED <<tk, ntp>>
      BY <2>3 DEF LeapInv
    <2> QED BY <2>1, <2>2, <2>3, StepPublishes
  <1>4. base' = [clock_was_set_seq |-> base'.clock_was_set_seq, offs_real |-> base'.offs_real]
    BY BaseKept
  <1> QED BY <1>1, <1>3, <1>4 DEF LeapInv, Due

\* In the beginning nothing is announced.
LEMMA LeapInit == Init => LeapInv
  <1> SUFFICES ASSUME Init PROVE LeapInv
    OBVIOUS
  <1>1. IsNtp(ntp)
    <2>1. KTIME_MAX \in Int
      BY ConstAssumption
    <2> QED BY <2>1 DEF Init, IsNtp
  <1>2. \E t, b : tk = Published(t, ntp, b)
    BY DEF Init
  <1>3. IsTk(tk)
    BY InitInv, InvFacts
  <1>4. tk.next_leap_ktime = Due(tk, ntp)
    BY <1>2, <1>3, PublishedLeap
  <1> QED BY <1>1, <1>4 DEF LeapInv, Init

\* A tick: CLOCK_REALTIME moves against CLOCK_MONOTONIC by a leap second or not at all.
LEMMA TickLeaps ==
    ASSUME IInv, LeapInv, ReadersAgree, ReadersAgree', UpdatesInTime, SteersSlowly, [Next]_vars,
           UpdateWallTime
    PROVE  /\ Tai' = Tai
           /\ RealTs64' - RealTs64 \in {-NSEC_PER_SEC, 0, NSEC_PER_SEC}
           /\ RealTs64' # RealTs64 => ntp.status # "none"
  <1> DEFINE q == NSEC_PER_SEC
             x == tk.offs_real
             y == tk'.offs_real
             m == Mono
  <1>1. PICK k \in Mults :
           Advance(Advanced(tk, ntp, k), ClocksourceDelta(tk) \div CycleInterval(tk.clock))
    BY DEF UpdateWallTime
  <1>2. ~power.suspended /\ UNCHANGED <<now, slept, power>>
    BY DEF UpdateWallTime
  <1> DEFINE a == [tk |-> tk, ntp |-> ntp, clock_set |-> FALSE]
             b == Advanced(tk, ntp, k)
  <1>3. Takes(a, b)
    BY <1>2, InvFacts, AdvanceTakes DEF LeapInv
  <1>4. Kept(b.tk, tk')
    <2>1. Good(b.tk)
      <3>1. k \in MultsOf(tk.clock)
        BY DEF Mults, MultsOf
      <3> QED BY <1>2, <3>1, InvFacts, GapNow, AdvancedKeeps
    <2>2. tk' = Published(b.tk, b.ntp, b.clock_set)
      BY <1>1 DEF Advance
    <2> HIDE DEF b
    <2> QED BY <2>1, <2>2, PublishedKeeps
  <1> HIDE DEF b
  <1>5. /\ tk'.offs_tai = tk.offs_tai
        /\ y = x \/ (ntp.status # "none" /\ y - x \in {-q, q})
    BY <1>3, <1>4 DEF Takes, Kept
  <1>6. IInv'
    BY InvNext
  <1>7. x \in Int /\ y \in Int /\ q \in Int
    <2>1. InvOf(tk', power', now', slept', updated')
      BY <1>6 DEF IInv
    <2> QED BY <2>1, InvFacts DEF InvOf, Good, IsTk
  <1>8. m \in Int /\ Mono' = m
    BY <1>2, StepMovesForward
  <1>9. RealTs64 = m + x
    BY <1>2 DEF ReadersAgree, WithOffset
  <1>10. RealTs64' = Mono' + y
    BY <1>2 DEF ReadersAgree, WithOffset
  <1>11. Tai' = Tai
    BY <1>5, <1>8 DEF Tai, WithOffset
  <1> HIDE DEF m, x, y, q
  <1>12. RealTs64' - RealTs64 = y - x
    BY <1>7, <1>8, <1>9, <1>10
  <1>13. y - x \in {-q, 0, q}
    BY <1>5, <1>7
  <1>14. RealTs64' # RealTs64 => y # x
    BY <1>8, <1>9, <1>10
  <1> QED BY <1>5, <1>11, <1>12, <1>13, <1>14 DEF q

\* Division in two steps
LEMMA DivNest ==
    ASSUME NEW z \in Nat, NEW p \in Nat \ {0}, NEW n \in Nat \ {0}
    PROVE  z \div (n * p) = (z \div p) \div n
  <1> DEFINE x == z \div p
             r == z % p
             k == x \div n
             s == x % n
  <1>1. x \in Int /\ r \in Int /\ z = p * x + r /\ 0 <= r /\ r < p
    BY DivMod
  <1>2. k \in Int /\ s \in Int /\ x = n * k + s /\ 0 <= s /\ s < n
    BY <1>1, DivMod
  <1> HIDE DEF x, r, k, s
  <1>3. p * s \in Int /\ 0 <= p * s /\ p * s + p <= p * n
    BY <1>1, <1>2, NextMultiple
  <1>4. p * x = p * (n * k) + p * s
    BY <1>1, <1>2
  <1>5. p * (n * k) = (n * p) * k /\ p * n = n * p /\ n * p \in Nat \ {0}
    <2>1. n * p > 0
      OBVIOUS
    <2> QED BY <1>2, <2>1
  <1>6. z = (n * p) * k + (p * s + r) /\ p * s + r \in Int /\ 0 <= p * s + r /\ p * s + r < n * p
    BY <1>1, <1>2, <1>3, <1>4, <1>5
  <1> DEFINE d == n * p
             e == p * s + r
  <1>7. z = d * k + e /\ e \in Int /\ 0 <= e /\ e < d /\ d \in Nat \ {0}
    BY <1>5, <1>6
  <1> HIDE DEF d, e
  <1>8. z \div d = k
    BY <1>2, <1>7, DivUnique
  <1> QED BY <1>8 DEF d, k, x

\* The accumulation inserts the announced second if it is reached.
LEMMA InsertsSecond ==
    ASSUME NEW a, IsAcc(a), IsNtp(a.ntp), 0 <= a.tk.xtime_nsec,
           a.ntp.state = "INS", a.ntp.status = "INS", a.tk.xtime_sec < a.ntp.leap_sec,
           a.tk.skip_second_overflow => a.tk.xtime_sec + 1 # a.ntp.leap_sec
    PROVE  AccumulateSecs(a).tk.offs_real =
             IF a.tk.xtime_sec + WholeSecs(a.tk) >= a.ntp.leap_sec
             THEN a.tk.offs_real - NSEC_PER_SEC ELSE a.tk.offs_real
  <1> DEFINE K == WholeSecs(a.tk)
             s == a.tk.xtime_sec
             l == a.ntp.leap_sec
             x == a.tk.offs_real
  <1>1. PICK f : /\ K \in Nat /\ f[0] = a /\ AccumulateSecs(a) = f[K]
                 /\ \A n \in 1 .. K : f[n] = NextSec(f[n - 1])
                 /\ \A n \in 0 .. K : IsAcc(f[n])
    BY RoundsKeep
  <1>2. s \in Int /\ l \in Int /\ x \in Int /\ s < l
    BY DEF IsAcc, IsTk, IsNtp
  <1> HIDE DEF K
  <1> DEFINE Before(n) == /\ s + n < l /\ f[n].ntp = a.ntp /\ f[n].tk.xtime_sec = s + n
                          /\ f[n].tk.offs_real = x
                          /\ f[n].tk.skip_second_overflow => s + n + 1 # l
             After(n) == /\ s + n >= l /\ f[n].ntp.state = "WAIT" /\ f[n].ntp.status = "INS"
                         /\ IsNtp(f[n].ntp) /\ f[n].tk.offs_real = x - NSEC_PER_SEC
             S == {n \in 0 .. K : Before(n) \/ After(n)}
  <1>3. 0 \in S
    BY <1>1, <1>2
  <1>4. ASSUME NEW n \in 1 .. K, n - 1 \in S PROVE n \in S
    <2> DEFINE b == f[n - 1]
    <2>1. IsAcc(b) /\ f[n] = NextSec(b) /\ n \in Int
      BY <1>1
    <2>2. CASE Before(n - 1)
      <3>1. /\ b.ntp = a.ntp /\ b.tk.xtime_sec = s + (n - 1) /\ b.tk.offs_real = x
            /\ s + (n - 1) < l /\ (b.tk.skip_second_overflow => s + (n - 1) + 1 # l)
        BY <2>2
      <3>2. s + (n - 1) + 1 = s + n
        BY <1>2, <2>1
      <3> HIDE DEF b, s, l, x
      <3>3. /\ Takes(b, f[n])
            /\ IF ~b.tk.skip_second_overflow /\ s + n = l
               THEN f[n].ntp.state = "WAIT" /\ f[n].tk.offs_real = x - NSEC_PER_SEC
               ELSE /\ f[n].ntp = a.ntp /\ f[n].tk.offs_real = x
                    /\ f[n].tk.xtime_sec = s + n /\ ~f[n].tk.skip_second_overflow
        BY <2>1, <3>1, <3>2, NextSecTakes DEF l
      <3>4. f[n].ntp.status = "INS" /\ IsNtp(f[n].ntp)
        BY <3>1, <3>3 DEF Takes
      <3>5. CASE s + n = l
        BY <1>2, <3>1, <3>2, <3>3, <3>4, <3>5
      <3>6. CASE s + n # l
        <4>1. s + n < l
          BY <1>2, <2>1, <3>1, <3>6
        <4> QED BY <3>3, <3>6, <4>1
      <3> QED BY <3>5, <3>6
    <2>3. CASE After(n - 1)
      <3>1. /\ b.ntp.state = "WAIT" /\ b.ntp.status = "INS" /\ IsNtp(b.ntp)
            /\ b.tk.offs_real = x - NSEC_PER_SEC /\ s + n >= l
        BY <1>2, <2>1, <2>3
      <3> HIDE DEF b
      <3>2. Takes(b, f[n])
        BY <2>1, <3>1, NextSecTakes
      <3>3. After(n)
        BY <3>1, <3>2 DEF Takes
      <3> QED BY <3>3
    <2> QED BY <1>4, <2>2, <2>3
  <1> HIDE DEF S
  <1>5. 0 .. K \subseteq S
    BY <1>1, <1>3, <1>4, UpTo
  <1>6. K \in S
    BY <1>1, <1>5
  <1>7. Before(K) \/ After(K)
    BY <1>6 DEF S
  <1>8. f[K].tk.offs_real = IF s + K >= l THEN x - NSEC_PER_SEC ELSE x
    BY <1>1, <1>2, <1>7
  <1> QED BY <1>1, <1>8 DEF K

\* An hrtimer base that takes a new offset takes the one that the accumulation arrives at.
LEMMA OffsetIsAhead ==
    ASSUME IInv, LeapInv, ReadersAgree, UpdatesInTime, UpdateOffsets, LeapIsKnown, BeforeEndOfTime
    PROVE  \/ base'.offs_real =
                AccumulateSecs([tk |-> [tk EXCEPT !.xtime_nsec = @ + ClocksourceDelta(tk) * tk.mult],
                                ntp |-> ntp, clock_set |-> FALSE]).tk.offs_real
           \/ UNCHANGED vars
  <1> DEFINE z == tk.xtime_nsec + ClocksourceDelta(tk) * tk.mult
             t == [tk EXCEPT !.xtime_nsec = z]
             a == [tk |-> t, ntp |-> ntp, clock_set |-> FALSE]
             q == NSEC_PER_SEC
             p == Unit(tk)
             e == Elapsed(tk, power, now, slept)
             x == z \div p
             s == tk.xtime_sec
             o == tk.offs_real
             l == ntp.leap_sec
             K == WholeSecs(t)
             m == Mono
  <1>1. /\ ~power.suspended /\ base' = OffsetsNow(base)
        /\ UNCHANGED <<now, slept, tk, ntp, power, ops, updated>>
    BY DEF UpdateOffsets
  <1>2. /\ IsTk(tk) /\ Good(tk) /\ p \in Nat \ {0} /\ q \in Nat \ {0} /\ ShiftedSec(tk) = q * p
        /\ s \in Int /\ o \in Int /\ tk.mult \in Nat /\ tk.xtime_nsec \in Nat
        /\ tk.xtime_nsec < ShiftedSec(tk) /\ KTIME_MAX \in Nat
        /\ tk.mult <= Source[tk.clock].mult + MaxAdj
    BY InvFacts, UnitFacts, SourceFacts, ConstAssumption DEF Good, Settled, IsTk, MultsOf
  <1>3. /\ e \in Nat /\ ClocksourceDelta(tk) = e /\ Gap(tk, Read(tk.clock)) = e
        /\ e < Source[tk.clock].size \div 2 /\ Read(tk.clock) \in Nat
    BY <1>1, InvFacts, GapNow, ReadIs
  <1>4. z \in Nat /\ z = e * tk.mult + tk.xtime_nsec
    <2> HIDE DEF e
    <2>1. e * tk.mult \in Nat
      BY <1>2, <1>3
    <2> QED BY <1>2, <1>3, <2>1
  <1>5. RealTs64 = s * q + x /\ RealTs64 = m + o /\ m \in Int /\ x \in Int
    <2>1. CyclesToNs(tk, tk.mult, tk.xtime_nsec, Read(tk.clock)) = x
      BY <1>2, <1>3, <1>4, CyclesToNsExact
    <2>2. RealTs64 = s * q + x
      BY <1>1, <2>1 DEF RealTs64
    <2>3. RealTs64 = m + o
      BY <1>1 DEF ReadersAgree, WithOffset
    <2>4. x \in Int
      <3> HIDE DEF z, p
      <3>1. z \div p \in Int
        BY <1>2, <1>4, DivMod
      <3> QED BY <3>1
    <2>5. m \in Int
      <3>1. m = MonoOf(tk, power, now, slept)
        BY MonoShown
      <3> QED BY <1>2, <1>3, <3>1, LaterReads DEF MonoOf
    <2> QED BY <2>2, <2>3, <2>4, <2>5
  <1>6. /\ IsAcc(a) /\ a.tk = t /\ a.ntp = ntp /\ t.xtime_nsec = z /\ t.xtime_sec = s
        /\ t.offs_real = o /\ t.skip_second_overflow = tk.skip_second_overflow
        /\ ShiftedSec(t) = ShiftedSec(tk)
    <2>1. /\ DOMAIN t = TkFields /\ t.xtime_nsec = z
          /\ \A f \in TkFields \ {"xtime_nsec"} : t[f] = tk[f]
      BY <1>2 DEF IsTk, TkFields
    <2>2. t = [f \in TkFields |-> t[f]]
      BY <2>1
    <2> HIDE DEF t, z
    <2>3. /\ t.xtime_nsec = z /\ t.xtime_sec = s /\ t.offs_real = o /\ t.clock = tk.clock
          /\ t.skip_second_overflow = tk.skip_second_overflow /\ t.cycle_last = tk.cycle_last
          /\ t.mult = tk.mult /\ t.coarse_nsec = tk.coarse_nsec /\ t.raw_sec = tk.raw_sec
          /\ t.raw_nsec = tk.raw_nsec /\ t.wall_to_monotonic = tk.wall_to_monotonic
          /\ t.offs_boot = tk.offs_boot /\ t.offs_tai = tk.offs_tai /\ t.tai_offset = tk.tai_offset
      BY <2>1 DEF TkFields
    <2>4. IsTk(t) /\ Offsets(t)
      BY <1>2, <1>4, <2>2, <2>3 DEF IsTk, Good, Offsets
    <2> QED BY <2>3, <2>4 DEF IsAcc, ShiftedSec
  <1>7. IsNtp(ntp) /\ l \in Int /\ tk.next_leap_ktime = Due(tk, ntp)
    BY DEF LeapInv, IsNtp
  <1>8. K \in Nat /\ K = x \div q
    <2>1. K \in Nat /\ K = z \div ShiftedSec(t)
      <3>1. z \in Nat /\ IsAcc(a) /\ a.tk = t /\ t.xtime_nsec = z /\ K = WholeSecs(t)
        BY <1>4, <1>6
      <3> HIDE DEF K, a, z, t
      <3>2. 0 <= a.tk.xtime_nsec
        BY <3>1
      <3> QED BY <3>1, <3>2, WholeSecsIs
    <2> HIDE DEF K, z, p
    <2>2. z \div (q * p) = (z \div p) \div q
      BY <1>2, <1>4, DivNest
    <2> QED BY <1>2, <1>6, <2>1, <2>2
  <1> HIDE DEF z, t, x, p, e, K, m
  <1>9. \A j \in Int : K >= j <=> x >= j * q
    <2> TAKE j \in Int
    <2>1. q * K <= x /\ x < q * K + q
      <3>1. x \in Int /\ q \in Nat \ {0} /\ K = x \div q
        BY <1>2, <1>5, <1>8
      <3> HIDE DEF q
      <3> QED BY ONLY <3>1, DivMod
    <2>2. CASE K >= j
      <3>1. q * j <= q * K /\ q * j = j * q /\ q * K \in Int
        BY <1>2, <1>8, <2>2
      <3> QED BY <1>2, <1>5, <2>1, <2>2, <3>1
    <2>3. CASE K < j
      <3>1. q * K + q <= q * j /\ q * j = j * q /\ q * j \in Int
        BY <1>2, <1>8, <2>3, NextMultiple
      <3> QED BY <1>2, <1>5, <1>8, <2>1, <2>3, <3>1
    <2> QED BY <1>8, <2>2, <2>3
  <1>10. s + K >= l <=> m + o >= l * q
    <2>1. l - s \in Int
      BY <1>2, <1>7
    <2>2. K >= l - s <=> x >= (l - s) * q
      BY <1>9, <2>1
    <2>3. (l - s) * q = l * q - s * q /\ l * q \in Int /\ s * q \in Int
      BY <1>2, <1>7
    <2> DEFINE c == l * q
               d == s * q
    <2>4. /\ (l - s) * q = c - d /\ c \in Int /\ d \in Int /\ d + x = m + o
          /\ s \in Int /\ l \in Int /\ K \in Nat /\ m + o \in Int /\ x \in Int
      BY <1>2, <1>5, <1>7, <1>8, <2>3
    <2> SUFFICES s + K >= l <=> m + o >= c
      OBVIOUS
    <2> HIDE DEF c, d
    <2>5. x >= (l - s) * q <=> m + o >= c
      BY <2>4
    <2> QED BY <2>2, <2>4, <2>5
  <1>11. m < KTIME_MAX /\ m + o < KTIME_MAX /\ (l = KTIME_MAX \/ l * q < KTIME_MAX)
    BY <1>5 DEF BeforeEndOfTime, m
  <1>12. base'.offs_real = (IF m >= tk.next_leap_ktime THEN o - q
                            ELSE IF base.clock_was_set_seq # tk.clock_was_set_seq THEN o
                            ELSE base.offs_real)
         /\ base'.clock_was_set_seq = tk.clock_was_set_seq
    BY <1>1 DEF OffsetsNow, m
  <1> DEFINE u == AccumulateSecs(a)
  <1>13. m >= tk.next_leap_ktime => u.tk.offs_real = o - q
    <2> SUFFICES ASSUME m >= tk.next_leap_ktime PROVE u.tk.offs_real = o - q
      OBVIOUS
    <2>1. NextLeap(ntp) # KTIME_MAX /\ m >= NextLeap(ntp) - o
      BY <1>2, <1>5, <1>7, <1>11 DEF Due
    <2>2. ntp.state = "INS" /\ ntp.status = "INS" /\ NextLeap(ntp) = l * q
      BY <2>1 DEF NextLeap
    <2>3. l * q \in Int
      BY <1>2, <1>7
    <2>4. s + K >= l
      BY <1>2, <1>5, <1>10, <2>1, <2>2, <2>3
    <2> QED BY <1>4, <1>6, <1>7, <2>2, <2>4, InsertsSecond DEF LeapIsKnown, K
  <1>14. ~(m >= tk.next_leap_ktime) => u.tk.offs_real = o
    <2> SUFFICES ASSUME ~(m >= tk.next_leap_ktime) PROVE u.tk.offs_real = o
      OBVIOUS
    <2>1. CASE ntp.state = "INS" /\ ntp.status = "INS"
      <3>1. l * q \in Int
        BY <1>2, <1>7
      <3>2. ~(s + K >= l)
        <4>1. CASE l = KTIME_MAX
          <5>1. l * q >= KTIME_MAX
            BY <1>2, <4>1
          <5> QED BY <1>2, <1>5, <1>10, <1>11, <3>1, <5>1
        <4>2. CASE l # KTIME_MAX
          <5>1. NextLeap(ntp) = l * q
            BY <2>1, <4>2 DEF NextLeap
          <5>2. l * q # KTIME_MAX
            BY <1>2, <1>11, <3>1, <4>2
          <5>3. tk.next_leap_ktime = l * q - o
            BY <1>7, <5>1, <5>2 DEF Due
          <5> QED BY <1>2, <1>5, <1>10, <3>1, <5>3
        <4> QED BY <4>1, <4>2
      <3> QED BY <1>4, <1>6, <1>7, <2>1, <3>2, InsertsSecond DEF LeapIsKnown, K
    <2>2. CASE ~(ntp.state = "INS" /\ ntp.status = "INS")
      <3>1. Takes(a, u)
        BY <1>4, <1>6, <1>7, AccumulateTakes
      <3>2. ntp.status = "none" \/ ntp.state = "WAIT"
        BY <1>7, <2>2 DEF LeapIsKnown, IsNtp
      <3> HIDE DEF u, a
      <3> QED BY <1>6, <3>1, <3>2 DEF Takes
    <2> QED BY <2>1, <2>2
  <1>15. base'.offs_real = u.tk.offs_real \/ base' = base
    <2>1. CASE m >= tk.next_leap_ktime \/ base.clock_was_set_seq # tk.clock_was_set_seq
      BY <1>12, <1>13, <1>14, <2>1
    <2>2. CASE ~(m >= tk.next_leap_ktime) /\ base.clock_was_set_seq = tk.clock_was_set_seq
      <3>1. base'.offs_real = base.offs_real /\ base'.clock_was_set_seq = base.clock_was_set_seq
        BY <1>12, <2>2
      <3>2. base' = [clock_was_set_seq |-> base'.clock_was_set_seq, offs_real |-> base'.offs_real]
        BY <1>1 DEF OffsetsNow
      <3> QED BY <3>1, <3>2 DEF LeapInv
    <2> QED BY <2>1, <2>2
  <1> QED BY <1>1, <1>15 DEF u, a, t, z, vars

-----------------------------------------------------------------------------
\* The theorems

\* The invariant of every state: the offsets of the timekeeper agree and less than a second
\* is left to be counted, what is published is what the fields say, sleep is counted when it
\* has been added, and the counter is never half a lap ahead of the last update.
THEOREM Invariant ==
    ASSUME UpdatesInTime, SteersSlowly PROVE Spec => []IInv
  <1>1. Init => IInv
    BY InitInv
  <1>2. IInv /\ [Next]_vars => IInv'
    BY InvNext
  <1> QED BY <1>1, <1>2, PTL DEF Spec

\* SleepCountedOnce: CLOCK_BOOTTIME gets the time spent asleep once, from timekeeping_resume()
\* or from the RTC.
THEOREM SleepCounted ==
    ASSUME UpdatesInTime, SteersSlowly PROVE Spec => []SleepCountedOnce
  <1>1. IInv => SleepCountedOnce
    BY InvFacts DEF SleepCountedOnce
  <1> QED BY <1>1, Invariant, PTL

\* ReadersAgree: every interface that tells the time of a clock computes the same value from
\* the fields it reads, and a counter a little behind never shows a time before the last update.
THEOREM ReadersShowOneTime ==
    ASSUME UpdatesInTime, SteersSlowly PROVE Spec => []ReadersAgree
  <1>1. IInv => ReadersAgree
    BY InvReadersAgree
  <1> QED BY <1>1, Invariant, PTL

\* MonotonicNeverBack: CLOCK_MONOTONIC, CLOCK_MONOTONIC_RAW and CLOCK_BOOTTIME never go
\* backwards, and only the passing of time moves the first two.
THEOREM ClocksNeverBack ==
    ASSUME UpdatesInTime, SteersSlowly PROVE Spec => MonotonicNeverBack
  <1>1. ASSUME IInv, [Next]_vars
        PROVE  /\ Mono' >= Mono /\ Raw' >= Raw /\ Boot' >= Boot
               /\ now' = now => Mono' = Mono /\ Raw' = Raw
    BY <1>1, StepMovesForward
  <1> QED BY <1>1, Invariant, PTL DEF Spec, MonotonicNeverBack

\* The second invariant: what the timekeeper has published is what NTP announces.
THEOREM LeapInvariant ==
    ASSUME UpdatesInTime, SteersSlowly PROVE Spec => []LeapInv
  <1>1. IInv /\ LeapInv /\ [Next]_vars => LeapInv'
    BY LeapNext
  <1> QED BY <1>1, LeapInit, Invariant, PTL DEF Spec

\* LeapIsAnnounced: an hrtimer base that takes a new offset has the leap second when it happens,
\* as the next accumulation of the timekeeper has it; a tick moves CLOCK_REALTIME by one leap
\* second at most, if one was asked for, and CLOCK_TAI not at all.
THEOREM LeapsAreAnnounced ==
    ASSUME UpdatesInTime, SteersSlowly PROVE Spec => LeapIsAnnounced
  <1>1. ASSUME IInv, LeapInv, ReadersAgree, ReadersAgree', [Next]_vars
        PROVE  [/\ UpdateOffsets /\ LeapIsKnown /\ BeforeEndOfTime
                     => base'.offs_real =
                          AccumulateSecs([tk |-> [tk EXCEPT !.xtime_nsec = @ + ClocksourceDelta(tk) * tk.mult],
                                          ntp |-> ntp, clock_set |-> FALSE]).tk.offs_real
                /\ UpdateWallTime =>
                     /\ Tai' = Tai
                     /\ RealTs64' - RealTs64 \in {-NSEC_PER_SEC, 0, NSEC_PER_SEC}
                     /\ RealTs64' # RealTs64 => ntp.status # "none"]_vars
    BY <1>1, OffsetIsAhead, TickLeaps
  <1> QED BY <1>1, LeapInvariant, Invariant, ReadersShowOneTime, PTL DEF Spec, LeapIsAnnounced

-----------------------------------------------------------------------------
(***************************************************************************)
(* TkReaders, for any number of readers and of updates.  The inductive      *)
(* invariant says exactly which update every word of the latches holds at   *)
(* each step of the writer, and that a reader whose counter has not changed *)
(* has read words that nobody writes.                                      *)
(***************************************************************************)

InLatch == writer.pc \in {"begin", "base0", "swap", "base1"}
\* Latch k holds the new update in both copies, or is the one being written
Done(k) == writer.pc \in {"idle", "sec", "copy", "end"} \/ (InLatch /\ k < writer.latch)
At(k)   == InLatch /\ writer.latch = k

\* What fast readers are pointed at
Active(k, h) == tkf_base[k][latch[k] % 2][h]

\* The writer's position, the counters and the suspend state fit together
WriterInv ==
    /\ seq % 2 = 1 <=> (writer.pc # "idle" /\ writer.phase # "halt")
    /\ \A k \in Latches : latch[k] % 2 = 1 <=> (writer.latch = k /\ writer.pc \in {"base0", "swap"})
    /\ writer.phase = "halt" => writer.pc \in {"idle", "begin", "base0", "swap", "base1"}
    /\ writer.pc # "idle" => (asleep <=> writer.phase # "update")
    /\ asleep => OnlyNMIs
    /\ writer.pc \in {"base0", "base1"} => writer.left \subseteq Words

\* The words of the latches, of the vDSO data and of the timekeeper
ContentInv ==
    /\ \A k \in Latches, h \in Words :
          /\ tkf_base[k][0][h] =
                IF \/ Done(k)
                   \/ At(k) /\ (writer.pc \in {"swap", "base1"} \/ (writer.pc = "base0" /\ h \notin writer.left))
                THEN version ELSE version - 1
          /\ tkf_base[k][1][h] = IF Done(k) \/ (At(k) /\ writer.pc = "base1" /\ h \notin writer.left)
                             THEN version ELSE version - 1
    /\ timekeeper["lo"] = timekeeper["hi"] /\ timekeeper["lo"] <= version /\ vdso <= version
    /\ writer.pc \notin {"idle", "copy", "end"} => timekeeper["lo"] < version
    /\ writer.pc = "copy" => timekeeper["lo"] = version /\ \A h \in Words \ writer.left : timekeeper[h] = version
    /\ writer.pc = "end" => \A h \in Words \cup Seconds : timekeeper[h] = version
    /\ writer.pc \in {"begin", "base0", "swap", "base1", "sec", "copy", "end"} /\ writer.phase # "halt"
       => vdso = version
    /\ ~asleep /\ writer.pc = "vdso" => vdso = version - 1
    /\ ~asleep /\ writer.pc = "idle" =>
          vdso = version /\ \A h \in Words \cup Seconds : timekeeper[h] = version

\* What has been handed out is still there to be read
SeenInv ==
    /\ \A k \in Latches : seen.fast[k] <= Active(k, "a")
    /\ seen.core <= timekeeper["lo"]
    /\ seen.vdso <= vdso

\* A fast reader under way
FastInv(r) ==
    LET k == reader[r].latch
    IN reader[r].kind = "fast" =>
        /\ reader[r].pc \in {"start", "read"} => reader[r].from <= Active(k, "a")
        /\ reader[r].pc = "start" => reader[r].left = Words
        /\ reader[r].seq <= latch[k]
        /\ reader[r].pc = "read" /\ reader[r].seq = latch[k] =>
              \A h \in Words \ reader[r].left : reader[r].got[h] = Active(k, h)
        /\ reader[r].pc = "ret" => reader[r].got["a"] <= Active(k, "a")

\* A reader that waits for tk_core.seq
CoreInv(r) ==
    reader[r].kind = "core" =>
        /\ reader[r].pc \in {"start", "read"} => reader[r].from <= version
        /\ reader[r].pc = "start" => reader[r].left = Words
        /\ reader[r].seq <= seq
        /\ reader[r].pc = "read" =>
              /\ reader[r].seq % 2 = 0
              /\ reader[r].seq = seq =>
                    \A h \in Words \ reader[r].left : reader[r].got[h] = timekeeper[h]
        /\ reader[r].pc = "ret" => reader[r].got["a"] <= timekeeper["lo"]

\* The readers of a single word
OnceInv(r) ==
    /\ reader[r].kind \in {"vdso", "sec"} => reader[r].pc # "read"
    /\ reader[r].kind = "vdso" =>
          /\ reader[r].pc = "start" => reader[r].from <= vdso
          /\ reader[r].pc = "ret" => reader[r].got["a"] <= vdso
    /\ reader[r].kind = "sec" =>
          /\ reader[r].pc = "start" => reader[r].from <= timekeeper["lo"]
          /\ reader[r].pc = "ret" => reader[r].got["a"] <= timekeeper["lo"]

ReaderInv == \A r \in Readers : FastInv(r) /\ CoreInv(r) /\ OnceInv(r)

ReadersIInv == TypeOK /\ WriterInv /\ ContentInv /\ SeenInv /\ ReaderInv /\ ReadsAreWhole /\ NeverOlder

-----------------------------------------------------------------------------
\* Facts about the counters, and the types of what the steps use

LEMMA Parity ==
    ASSUME NEW n \in Nat
    PROVE  n % 2 \in 0 .. 1 /\ (n + 1) % 2 = 1 - (n % 2)
  OBVIOUS

\* What no step of the writer does: take something back that readers rely on
Forward ==
    /\ \A k \in Latches :
          /\ latch[k] <= latch'[k] /\ Active(k, "a") <= Active(k, "a")'
          /\ latch'[k] = latch[k] => \A h \in Words : Active(k, h)' = Active(k, h)
    /\ seq <= seq'
    /\ seq' = seq /\ seq % 2 = 0 => timekeeper' = timekeeper
    /\ timekeeper["lo"] <= timekeeper'["lo"] /\ vdso <= vdso' /\ version <= version'
    /\ UNCHANGED <<reader, seen>>

\* Then the readers keep what they have.
LEMMA ForwardKeepsReaders ==
    ASSUME ReadersIInv, Forward, TypeOK'
    PROVE  SeenInv' /\ ReaderInv' /\ ReadsAreWhole' /\ NeverOlder'
  <1>1. SeenInv'
    <2>1. \A k \in Latches : seen'.fast[k] <= Active(k, "a")'
      <3> SUFFICES ASSUME NEW k \in Latches PROVE seen'.fast[k] <= Active(k, "a")'
        OBVIOUS
      <3>1. seen.fast[k] <= Active(k, "a") /\ Active(k, "a") <= Active(k, "a")' /\ seen' = seen
        BY DEF ReadersIInv, SeenInv, Forward
      <3>2. seen.fast[k] \in Nat /\ Active(k, "a") \in Nat /\ Active(k, "a")' \in Nat
        <4>1. latch[k] \in Nat /\ latch'[k] \in Nat
          BY DEF ReadersIInv, TypeOK, WriterTypeOK
        <4>2. latch[k] % 2 \in 0 .. 1 /\ latch'[k] % 2 \in 0 .. 1
          BY <4>1, Parity
        <4>3. Active(k, "a") \in Nat /\ Active(k, "a")' \in Nat
          BY <4>2 DEF ReadersIInv, TypeOK, WriterTypeOK, Active, Words
        <4>4. seen.fast[k] \in Nat
          BY DEF ReadersIInv, TypeOK, ReaderTypeOK
        <4> QED BY <4>3, <4>4
      <3> QED BY <3>1, <3>2
    <2> QED BY <2>1 DEF ReadersIInv, SeenInv, Forward, TypeOK, WriterTypeOK, ReaderTypeOK, Words, Seconds
  <1>2. ASSUME NEW r \in Readers PROVE FastInv(r)' /\ CoreInv(r)' /\ OnceInv(r)'
    <2> DEFINE k == reader[r].latch
    <2>1. /\ FastInv(r) /\ CoreInv(r) /\ OnceInv(r)
          /\ reader' = reader /\ k \in Latches
          /\ reader[r].seq \in Nat /\ reader[r].from \in Nat /\ reader[r].got["a"] \in Nat
      BY DEF ReadersIInv, ReaderInv, Forward, TypeOK, ReaderTypeOK, Words
    <2>2. /\ latch[k] \in Nat /\ latch'[k] \in Nat /\ latch[k] <= latch'[k]
          /\ Active(k, "a") \in Nat /\ Active(k, "a")' \in Nat
          /\ Active(k, "a") <= Active(k, "a")'
          /\ latch'[k] = latch[k] => \A h \in Words : Active(k, h)' = Active(k, h)
      <3>1. latch[k] \in Nat /\ latch'[k] \in Nat
        BY <2>1 DEF ReadersIInv, TypeOK, WriterTypeOK
      <3>2. latch[k] % 2 \in 0 .. 1 /\ latch'[k] % 2 \in 0 .. 1
        BY <3>1, Parity
      <3>3. Active(k, "a") \in Nat /\ Active(k, "a")' \in Nat
        BY <2>1, <3>2 DEF ReadersIInv, TypeOK, WriterTypeOK, Active, Words
      <3> QED BY <2>1, <3>1, <3>3 DEF Forward
    <2>3. FastInv(r)'
      BY <2>1, <2>2 DEF FastInv
    <2>4. /\ seq \in Nat /\ seq' \in Nat /\ version \in Nat /\ version' \in Nat
          /\ timekeeper["lo"] \in Nat /\ timekeeper'["lo"] \in Nat /\ vdso \in Nat /\ vdso' \in Nat
      BY DEF ReadersIInv, TypeOK, WriterTypeOK, Words, Seconds
    <2>5. CoreInv(r)'
      BY <2>1, <2>4 DEF CoreInv, Forward
    <2>6. OnceInv(r)'
      BY <2>1, <2>4 DEF OnceInv, Forward
    <2> QED BY <2>3, <2>5, <2>6
  <1>3. ReadsAreWhole' /\ NeverOlder'
    BY DEF ReadersIInv, Forward, ReadsAreWhole, NeverOlder
  <1> QED BY <1>1, <1>2, <1>3 DEF ReaderInv

-----------------------------------------------------------------------------
\* The steps of the writer

WriterKeeps == TypeOK' /\ WriterInv' /\ ContentInv' /\ Forward

LEMMA UpdateBeginKeeps ==
    ASSUME NEW phase \in Phases, ReadersIInv, UpdateBegin(phase)
    PROVE  WriterKeeps
  <1> USE DEF Latches, Words, Seconds
  <1>0. WriterTypeOK /\ WriterInv /\ ContentInv /\ ReaderTypeOK /\ UNCHANGED <<reader, seen>>
    BY DEF ReadersIInv, TypeOK, UpdateBegin
  <1>p. /\ seq % 2 \in 0 .. 1 /\ (seq + 1) % 2 = 1 - (seq % 2)
        /\ \A k \in Latches : latch[k] % 2 \in 0 .. 1 /\ (latch[k] + 1) % 2 = 1 - (latch[k] % 2)
    BY <1>0, Parity DEF WriterTypeOK
  <1>e. writer' = [pc |-> "vdso", phase |-> phase,
               latch |-> 1, left |-> {}]
    BY <1>0 DEF WriterTypeOK, Goto, UpdateBegin
  <1>w. /\ writer'.pc = ("vdso") /\ writer'.phase = phase
        /\ writer'.latch = 1 /\ writer'.left = {}
        /\ writer' \in [pc : {"idle", "vdso", "begin", "base0", "swap", "base1", "sec", "copy", "end"},
                  phase : Phases, latch : Latches, left : SUBSET (Words \cup Seconds)]
    BY <1>0, <1>e DEF WriterTypeOK, Phases
  <1>1. WriterTypeOK'
    BY <1>0, <1>w DEF WriterTypeOK, UpdateBegin
  <1>t. ReaderTypeOK'
    BY <1>0 DEF ReaderTypeOK
  <1>2. WriterInv'
    <2>1. seq' % 2 = 1 <=> (writer'.pc # "idle" /\ writer'.phase # "halt")
      BY <1>0, <1>p, <1>w DEF WriterTypeOK, WriterInv, UpdateBegin
    <2>2. \A k \in Latches : latch'[k] % 2 = 1 <=> (writer'.latch = k /\ writer'.pc \in {"base0", "swap"})
      BY <1>0, <1>p, <1>w DEF WriterTypeOK, WriterInv, UpdateBegin
    <2>3. /\ writer'.phase = "halt" => writer'.pc \in {"idle", "begin", "base0", "swap", "base1"}
          /\ writer'.pc # "idle" => (asleep' <=> writer'.phase # "update")
          /\ writer'.pc \in {"base0", "base1"} => writer'.left \subseteq Words
      BY <1>0, <1>w DEF WriterTypeOK, WriterInv, UpdateBegin
    <2>4. asleep' => OnlyNMIs'
      BY <1>0 DEF WriterInv, OnlyNMIs, UpdateBegin
    <2> QED BY <2>1, <2>2, <2>3, <2>4 DEF WriterInv
  <1>3. ContentInv'
    <2>1. /\ version \in Nat /\ version' = version + 1 /\ writer.pc = "idle"
          /\ UNCHANGED <<vdso, tkf_base, timekeeper>>
      BY <1>0 DEF WriterTypeOK, UpdateBegin
    <2>2. ~asleep' => ~asleep
      BY DEF UpdateBegin
    <2>3. \A k \in Latches, h \in Words :
             tkf_base[k][0][h] = version' - 1 /\ tkf_base[k][1][h] = version' - 1
      BY <1>0, <2>1 DEF ContentInv, Done
    <2>4. ~asleep' => vdso' = version' - 1
      BY <1>0, <2>1, <2>2 DEF ContentInv
    <2>5. timekeeper["lo"] = timekeeper["hi"] /\ timekeeper["lo"] <= version /\ vdso <= version
      BY <1>0 DEF ContentInv
    <2>6. timekeeper["lo"] \in Nat /\ vdso \in Nat
      BY <1>0 DEF WriterTypeOK
    <2>7. timekeeper["lo"] < version' /\ vdso <= version' /\ timekeeper' = timekeeper /\ vdso' = vdso
      BY <2>1, <2>5, <2>6
    <2>8. writer'.pc = "vdso" /\ tkf_base' = tkf_base
      BY <1>w, <2>1
    <2>9. /\ timekeeper'["lo"] = timekeeper'["hi"] /\ timekeeper'["lo"] < version'
          /\ timekeeper'["lo"] <= version' /\ vdso' <= version'
      BY <2>1, <2>5, <2>6, <2>7
    <2> QED BY <2>3, <2>4, <2>8, <2>9 DEF ContentInv, Done, At, InLatch
  <1>4. \A k \in Latches :
          /\ latch[k] <= latch'[k] /\ Active(k, "a") <= Active(k, "a")'
          /\ latch'[k] = latch[k] => \A h_1 \in Words : Active(k, h_1)' = Active(k, h_1)
    <2>1. latch' = latch /\ tkf_base' = tkf_base
      BY DEF UpdateBegin
    <2>2. \A k \in Latches : latch[k] \in Nat /\ Active(k, "a") \in Nat
      BY <1>0, <1>p DEF WriterTypeOK, Active
    <2> QED BY <2>1, <2>2 DEF Active
  <1>5. /\ seq <= seq'
        /\ seq' = seq /\ seq % 2 = 0 => timekeeper' = timekeeper
        /\ timekeeper["lo"] <= timekeeper'["lo"] /\ vdso <= vdso' /\ version <= version'
    BY <1>0 DEF WriterTypeOK, WriterInv, ContentInv, UpdateBegin
  <1> QED BY <1>0, <1>1, <1>t, <1>2, <1>3, <1>4, <1>5 DEF WriterKeeps, Forward, TypeOK

LEMMA UpdateVsyscallKeeps ==
    ASSUME ReadersIInv, UpdateVsyscall
    PROVE  WriterKeeps
  <1> USE DEF Latches, Words, Seconds
  <1>0. WriterTypeOK /\ WriterInv /\ ContentInv /\ ReaderTypeOK /\ UNCHANGED <<reader, seen>>
    BY DEF ReadersIInv, TypeOK, UpdateVsyscall
  <1>p. /\ seq % 2 \in 0 .. 1 /\ (seq + 1) % 2 = 1 - (seq % 2)
        /\ \A k \in Latches : latch[k] % 2 \in 0 .. 1 /\ (latch[k] + 1) % 2 = 1 - (latch[k] % 2)
    BY <1>0, Parity DEF WriterTypeOK
  <1>e. writer' = [pc |-> "begin", phase |-> writer.phase,
               latch |-> 1, left |-> {}]
    BY <1>0 DEF WriterTypeOK, Goto, UpdateVsyscall
  <1>w. /\ writer'.pc = ("begin") /\ writer'.phase = writer.phase
        /\ writer'.latch = 1 /\ writer'.left = {}
        /\ writer' \in [pc : {"idle", "vdso", "begin", "base0", "swap", "base1", "sec", "copy", "end"},
                  phase : Phases, latch : Latches, left : SUBSET (Words \cup Seconds)]
    BY <1>0, <1>e DEF WriterTypeOK, Phases
  <1>1. WriterTypeOK'
    BY <1>0, <1>w DEF WriterTypeOK, UpdateVsyscall
  <1>t. ReaderTypeOK'
    BY <1>0 DEF ReaderTypeOK
  <1>2. WriterInv'
    <2>1. seq' % 2 = 1 <=> (writer'.pc # "idle" /\ writer'.phase # "halt")
      BY <1>0, <1>p, <1>w DEF WriterTypeOK, WriterInv, UpdateVsyscall
    <2>2. \A k \in Latches : latch'[k] % 2 = 1 <=> (writer'.latch = k /\ writer'.pc \in {"base0", "swap"})
      BY <1>0, <1>p, <1>w DEF WriterTypeOK, WriterInv, UpdateVsyscall
    <2>3. /\ writer'.phase = "halt" => writer'.pc \in {"idle", "begin", "base0", "swap", "base1"}
          /\ writer'.pc # "idle" => (asleep' <=> writer'.phase # "update")
          /\ writer'.pc \in {"base0", "base1"} => writer'.left \subseteq Words
      BY <1>0, <1>w DEF WriterTypeOK, WriterInv, UpdateVsyscall
    <2>4. asleep' => OnlyNMIs'
      BY <1>0 DEF WriterInv, OnlyNMIs, UpdateVsyscall
    <2> QED BY <2>1, <2>2, <2>3, <2>4 DEF WriterInv
  <1>3. ContentInv'
    BY <1>0, <1>w DEF WriterTypeOK, WriterInv, ContentInv, Done, At, InLatch, UpdateVsyscall
  <1>4. \A k \in Latches :
          /\ latch[k] <= latch'[k] /\ Active(k, "a") <= Active(k, "a")'
          /\ latch'[k] = latch[k] => \A h_1 \in Words : Active(k, h_1)' = Active(k, h_1)
    <2>1. latch' = latch /\ tkf_base' = tkf_base
      BY DEF UpdateVsyscall
    <2>2. \A k \in Latches : latch[k] \in Nat /\ Active(k, "a") \in Nat
      BY <1>0, <1>p DEF WriterTypeOK, Active
    <2> QED BY <2>1, <2>2 DEF Active
  <1>5. /\ seq <= seq'
        /\ seq' = seq /\ seq % 2 = 0 => timekeeper' = timekeeper
        /\ timekeeper["lo"] <= timekeeper'["lo"] /\ vdso <= vdso' /\ version <= version'
    BY <1>0 DEF WriterTypeOK, WriterInv, ContentInv, UpdateVsyscall
  <1> QED BY <1>0, <1>1, <1>t, <1>2, <1>3, <1>4, <1>5 DEF WriterKeeps, Forward, TypeOK

LEMMA LatchStepKeeps ==
    ASSUME ReadersIInv, LatchStep
    PROVE  WriterKeeps
  <1> USE DEF Latches, Words, Seconds
  <1>0. WriterTypeOK /\ WriterInv /\ ContentInv /\ ReaderTypeOK /\ UNCHANGED <<reader, seen>>
    BY DEF ReadersIInv, TypeOK, LatchStep
  <1>p. /\ seq % 2 \in 0 .. 1 /\ (seq + 1) % 2 = 1 - (seq % 2)
        /\ \A k \in Latches : latch[k] % 2 \in 0 .. 1 /\ (latch[k] + 1) % 2 = 1 - (latch[k] % 2)
    BY <1>0, Parity DEF WriterTypeOK
  <1>e. writer' = [pc |-> IF writer.pc = "begin" THEN "base0" ELSE "base1", phase |-> writer.phase,
               latch |-> writer.latch, left |-> Words]
    BY <1>0 DEF WriterTypeOK, Goto, LatchStep
  <1>w. /\ writer'.pc = (IF writer.pc = "begin" THEN "base0" ELSE "base1") /\ writer'.phase = writer.phase
        /\ writer'.latch = writer.latch /\ writer'.left = Words
        /\ writer' \in [pc : {"idle", "vdso", "begin", "base0", "swap", "base1", "sec", "copy", "end"},
                  phase : Phases, latch : Latches, left : SUBSET (Words \cup Seconds)]
    BY <1>0, <1>e DEF WriterTypeOK, Phases
  <1>1. WriterTypeOK'
    BY <1>0, <1>w DEF WriterTypeOK, LatchStep
  <1>t. ReaderTypeOK'
    BY <1>0 DEF ReaderTypeOK
  <1>2. WriterInv'
    <2>1. seq' % 2 = 1 <=> (writer'.pc # "idle" /\ writer'.phase # "halt")
      BY <1>0, <1>p, <1>w DEF WriterTypeOK, WriterInv, LatchStep
    <2>2. \A k \in Latches : latch'[k] % 2 = 1 <=> (writer'.latch = k /\ writer'.pc \in {"base0", "swap"})
      BY <1>0, <1>p, <1>w DEF WriterTypeOK, WriterInv, LatchStep
    <2>3. /\ writer'.phase = "halt" => writer'.pc \in {"idle", "begin", "base0", "swap", "base1"}
          /\ writer'.pc # "idle" => (asleep' <=> writer'.phase # "update")
          /\ writer'.pc \in {"base0", "base1"} => writer'.left \subseteq Words
      BY <1>0, <1>w DEF WriterTypeOK, WriterInv, LatchStep
    <2>4. asleep' => OnlyNMIs'
      BY <1>0 DEF WriterInv, OnlyNMIs, LatchStep
    <2> QED BY <2>1, <2>2, <2>3, <2>4 DEF WriterInv
  <1>3. ContentInv'
    BY <1>0, <1>w DEF WriterTypeOK, WriterInv, ContentInv, Done, At, InLatch, LatchStep
  <1>4. ASSUME NEW k \in Latches
        PROVE  /\ latch[k] <= latch'[k] /\ Active(k, "a") <= Active(k, "a")'
               /\ latch'[k] = latch[k] => \A h_1 \in Words : Active(k, h_1)' = Active(k, h_1)
    <2>1. latch[k] \in Nat /\ latch[k] % 2 \in 0 .. 1 /\ (latch[k] + 1) % 2 = 1 - (latch[k] % 2)
      BY <1>0, <1>p DEF WriterTypeOK
    <2>2. CASE latch[k] % 2 = 0
      BY <1>0, <2>1, <2>2 DEF WriterTypeOK, WriterInv, ContentInv, Done, At, InLatch, Active, LatchStep
    <2>3. CASE latch[k] % 2 = 1
      BY <1>0, <2>1, <2>3 DEF WriterTypeOK, WriterInv, ContentInv, Done, At, InLatch, Active, LatchStep
    <2> QED BY <2>1, <2>2, <2>3
  <1>5. /\ seq <= seq'
        /\ seq' = seq /\ seq % 2 = 0 => timekeeper' = timekeeper
        /\ timekeeper["lo"] <= timekeeper'["lo"] /\ vdso <= vdso' /\ version <= version'
    BY <1>0 DEF WriterTypeOK, WriterInv, ContentInv, LatchStep
  <1> QED BY <1>0, <1>1, <1>t, <1>2, <1>3, <1>4, <1>5 DEF WriterKeeps, Forward, TypeOK

LEMMA CopyBase0Keeps ==
    ASSUME NEW h \in Words, ReadersIInv, CopyBase0(h)
    PROVE  WriterKeeps
  <1> USE DEF Latches, Words, Seconds
  <1>0. WriterTypeOK /\ WriterInv /\ ContentInv /\ ReaderTypeOK /\ UNCHANGED <<reader, seen>>
    BY DEF ReadersIInv, TypeOK, CopyBase0
  <1>p. /\ seq % 2 \in 0 .. 1 /\ (seq + 1) % 2 = 1 - (seq % 2)
        /\ \A k \in Latches : latch[k] % 2 \in 0 .. 1 /\ (latch[k] + 1) % 2 = 1 - (latch[k] % 2)
    BY <1>0, Parity DEF WriterTypeOK
  <1>e. writer' = [pc |-> IF writer.left = {h} THEN "swap" ELSE "base0", phase |-> writer.phase,
               latch |-> writer.latch, left |-> writer.left \ {h}]
    BY <1>0 DEF WriterTypeOK, Goto, CopyBase0
  <1>w. /\ writer'.pc = (IF writer.left = {h} THEN "swap" ELSE "base0") /\ writer'.phase = writer.phase
        /\ writer'.latch = writer.latch /\ writer'.left = writer.left \ {h}
        /\ writer' \in [pc : {"idle", "vdso", "begin", "base0", "swap", "base1", "sec", "copy", "end"},
                  phase : Phases, latch : Latches, left : SUBSET (Words \cup Seconds)]
    BY <1>0, <1>e DEF WriterTypeOK, Phases
  <1>1. WriterTypeOK'
    BY <1>0, <1>w DEF WriterTypeOK, CopyBase0
  <1>t. ReaderTypeOK'
    BY <1>0 DEF ReaderTypeOK
  <1>2. WriterInv'
    <2>1. seq' % 2 = 1 <=> (writer'.pc # "idle" /\ writer'.phase # "halt")
      BY <1>0, <1>p, <1>w DEF WriterTypeOK, WriterInv, CopyBase0
    <2>2. \A k \in Latches : latch'[k] % 2 = 1 <=> (writer'.latch = k /\ writer'.pc \in {"base0", "swap"})
      BY <1>0, <1>p, <1>w DEF WriterTypeOK, WriterInv, CopyBase0
    <2>3. /\ writer'.phase = "halt" => writer'.pc \in {"idle", "begin", "base0", "swap", "base1"}
          /\ writer'.pc # "idle" => (asleep' <=> writer'.phase # "update")
          /\ writer'.pc \in {"base0", "base1"} => writer'.left \subseteq Words
      BY <1>0, <1>w DEF WriterTypeOK, WriterInv, CopyBase0
    <2>4. asleep' => OnlyNMIs'
      BY <1>0 DEF WriterInv, OnlyNMIs, CopyBase0
    <2> QED BY <2>1, <2>2, <2>3, <2>4 DEF WriterInv
  <1>3. ContentInv'
    BY <1>0, <1>w DEF WriterTypeOK, WriterInv, ContentInv, Done, At, InLatch, CopyBase0
  <1>4. ASSUME NEW k \in Latches
        PROVE  /\ latch[k] <= latch'[k] /\ Active(k, "a") <= Active(k, "a")'
               /\ latch'[k] = latch[k] => \A h_1 \in Words : Active(k, h_1)' = Active(k, h_1)
    <2>1. latch[k] \in Nat /\ latch[k] % 2 \in 0 .. 1 /\ (latch[k] + 1) % 2 = 1 - (latch[k] % 2)
      BY <1>0, <1>p DEF WriterTypeOK
    <2>2. CASE latch[k] % 2 = 0
      BY <1>0, <2>1, <2>2 DEF WriterTypeOK, WriterInv, ContentInv, Done, At, InLatch, Active, CopyBase0
    <2>3. CASE latch[k] % 2 = 1
      BY <1>0, <2>1, <2>3 DEF WriterTypeOK, WriterInv, ContentInv, Done, At, InLatch, Active, CopyBase0
    <2> QED BY <2>1, <2>2, <2>3
  <1>5. /\ seq <= seq'
        /\ seq' = seq /\ seq % 2 = 0 => timekeeper' = timekeeper
        /\ timekeeper["lo"] <= timekeeper'["lo"] /\ vdso <= vdso' /\ version <= version'
    BY <1>0 DEF WriterTypeOK, WriterInv, ContentInv, CopyBase0
  <1> QED BY <1>0, <1>1, <1>t, <1>2, <1>3, <1>4, <1>5 DEF WriterKeeps, Forward, TypeOK

LEMMA CopyBase1Keeps ==
    ASSUME NEW h \in Words, ReadersIInv, CopyBase1(h)
    PROVE  WriterKeeps
  <1> USE DEF Latches, Words, Seconds
  <1>0. WriterTypeOK /\ WriterInv /\ ContentInv /\ ReaderTypeOK /\ UNCHANGED <<reader, seen>>
    BY DEF ReadersIInv, TypeOK, CopyBase1, AfterBase1
  <1>p. /\ seq % 2 \in 0 .. 1 /\ (seq + 1) % 2 = 1 - (seq % 2)
        /\ \A k \in Latches : latch[k] % 2 \in 0 .. 1 /\ (latch[k] + 1) % 2 = 1 - (latch[k] % 2)
    BY <1>0, Parity DEF WriterTypeOK
  <1>e. writer' = [pc |-> IF writer.left = {h} THEN AfterBase1(writer.latch) ELSE "base1",
               phase |-> writer.phase,
               latch |-> IF writer.left = {h} THEN IF writer.latch = 1 THEN 2 ELSE 1 ELSE writer.latch,
               left |-> writer.left \ {h}]
    BY <1>0 DEF WriterTypeOK, Goto, CopyBase1
  <1>w. /\ writer'.pc = (IF writer.left = {h} THEN AfterBase1(writer.latch) ELSE "base1")
        /\ writer'.phase = writer.phase
        /\ writer'.latch = (IF writer.left = {h} THEN IF writer.latch = 1 THEN 2 ELSE 1 ELSE writer.latch)
        /\ writer'.left = writer.left \ {h}
        /\ writer' \in [pc : {"idle", "vdso", "begin", "base0", "swap", "base1", "sec", "copy", "end"},
                  phase : Phases, latch : Latches, left : SUBSET (Words \cup Seconds)]
    BY <1>0, <1>e DEF WriterTypeOK, AfterBase1, Phases
  <1>1. WriterTypeOK'
    BY <1>0, <1>w DEF WriterTypeOK, CopyBase1, AfterBase1
  <1>t. ReaderTypeOK'
    BY <1>0 DEF ReaderTypeOK
  <1>2. WriterInv'
    <2>1. seq' % 2 = 1 <=> (writer'.pc # "idle" /\ writer'.phase # "halt")
      BY <1>0, <1>p, <1>w DEF WriterTypeOK, WriterInv, CopyBase1, AfterBase1
    <2>2. \A k \in Latches : latch'[k] % 2 = 1 <=> (writer'.latch = k /\ writer'.pc \in {"base0", "swap"})
      BY <1>0, <1>p, <1>w DEF WriterTypeOK, WriterInv, CopyBase1, AfterBase1
    <2>3. /\ writer'.phase = "halt" => writer'.pc \in {"idle", "begin", "base0", "swap", "base1"}
          /\ writer'.pc # "idle" => (asleep' <=> writer'.phase # "update")
          /\ writer'.pc \in {"base0", "base1"} => writer'.left \subseteq Words
      BY <1>0, <1>w DEF WriterTypeOK, WriterInv, CopyBase1, AfterBase1
    <2>4. asleep' => OnlyNMIs'
      BY <1>0 DEF WriterInv, OnlyNMIs, CopyBase1, AfterBase1
    <2> QED BY <2>1, <2>2, <2>3, <2>4 DEF WriterInv
  <1>3. ContentInv'
    BY <1>0, <1>w DEF WriterTypeOK, WriterInv, ContentInv, Done, At, InLatch, CopyBase1, AfterBase1
  <1>4. ASSUME NEW k \in Latches
        PROVE  /\ latch[k] <= latch'[k] /\ Active(k, "a") <= Active(k, "a")'
               /\ latch'[k] = latch[k] => \A h_1 \in Words : Active(k, h_1)' = Active(k, h_1)
    <2>1. latch[k] \in Nat /\ latch[k] % 2 \in 0 .. 1 /\ (latch[k] + 1) % 2 = 1 - (latch[k] % 2)
      BY <1>0, <1>p DEF WriterTypeOK
    <2>2. CASE latch[k] % 2 = 0
      BY <1>0, <2>1, <2>2 DEF WriterTypeOK, WriterInv, ContentInv, Done, At, InLatch, Active, CopyBase1,
         AfterBase1
    <2>3. CASE latch[k] % 2 = 1
      BY <1>0, <2>1, <2>3 DEF WriterTypeOK, WriterInv, ContentInv, Done, At, InLatch, Active, CopyBase1,
         AfterBase1
    <2> QED BY <2>1, <2>2, <2>3
  <1>5. /\ seq <= seq'
        /\ seq' = seq /\ seq % 2 = 0 => timekeeper' = timekeeper
        /\ timekeeper["lo"] <= timekeeper'["lo"] /\ vdso <= vdso' /\ version <= version'
    BY <1>0 DEF WriterTypeOK, WriterInv, ContentInv, CopyBase1, AfterBase1
  <1> QED BY <1>0, <1>1, <1>t, <1>2, <1>3, <1>4, <1>5 DEF WriterKeeps, Forward, TypeOK

LEMMA WriteSecKeeps ==
    ASSUME ReadersIInv, WriteSec
    PROVE  WriterKeeps
  <1> USE DEF Latches, Words, Seconds
  <1>0. WriterTypeOK /\ WriterInv /\ ContentInv /\ ReaderTypeOK /\ UNCHANGED <<reader, seen>>
    BY DEF ReadersIInv, TypeOK, WriteSec
  <1>p. /\ seq % 2 \in 0 .. 1 /\ (seq + 1) % 2 = 1 - (seq % 2)
        /\ \A k \in Latches : latch[k] % 2 \in 0 .. 1 /\ (latch[k] + 1) % 2 = 1 - (latch[k] % 2)
    BY <1>0, Parity DEF WriterTypeOK
  <1>e. writer' = [pc |-> "copy", phase |-> writer.phase,
               latch |-> 1, left |-> Words \cup Seconds]
    BY <1>0 DEF WriterTypeOK, Goto, WriteSec
  <1>w. /\ writer'.pc = ("copy") /\ writer'.phase = writer.phase
        /\ writer'.latch = 1 /\ writer'.left = Words \cup Seconds
        /\ writer' \in [pc : {"idle", "vdso", "begin", "base0", "swap", "base1", "sec", "copy", "end"},
                  phase : Phases, latch : Latches, left : SUBSET (Words \cup Seconds)]
    BY <1>0, <1>e DEF WriterTypeOK, Phases
  <1>1. WriterTypeOK'
    BY <1>0, <1>w DEF WriterTypeOK, WriteSec
  <1>t. ReaderTypeOK'
    BY <1>0 DEF ReaderTypeOK
  <1>2. WriterInv'
    <2>1. seq' % 2 = 1 <=> (writer'.pc # "idle" /\ writer'.phase # "halt")
      BY <1>0, <1>p, <1>w DEF WriterTypeOK, WriterInv, WriteSec
    <2>2. \A k \in Latches : latch'[k] % 2 = 1 <=> (writer'.latch = k /\ writer'.pc \in {"base0", "swap"})
      BY <1>0, <1>p, <1>w DEF WriterTypeOK, WriterInv, WriteSec
    <2>3. /\ writer'.phase = "halt" => writer'.pc \in {"idle", "begin", "base0", "swap", "base1"}
          /\ writer'.pc # "idle" => (asleep' <=> writer'.phase # "update")
          /\ writer'.pc \in {"base0", "base1"} => writer'.left \subseteq Words
      BY <1>0, <1>w DEF WriterTypeOK, WriterInv, WriteSec
    <2>4. asleep' => OnlyNMIs'
      BY <1>0 DEF WriterInv, OnlyNMIs, WriteSec
    <2> QED BY <2>1, <2>2, <2>3, <2>4 DEF WriterInv
  <1>3. ContentInv'
    BY <1>0, <1>w DEF WriterTypeOK, WriterInv, ContentInv, Done, At, InLatch, WriteSec
  <1>4. \A k \in Latches :
          /\ latch[k] <= latch'[k] /\ Active(k, "a") <= Active(k, "a")'
          /\ latch'[k] = latch[k] => \A h_1 \in Words : Active(k, h_1)' = Active(k, h_1)
    <2>1. latch' = latch /\ tkf_base' = tkf_base
      BY DEF WriteSec
    <2>2. \A k \in Latches : latch[k] \in Nat /\ Active(k, "a") \in Nat
      BY <1>0, <1>p DEF WriterTypeOK, Active
    <2> QED BY <2>1, <2>2 DEF Active
  <1>5. /\ seq <= seq'
        /\ seq' = seq /\ seq % 2 = 0 => timekeeper' = timekeeper
        /\ timekeeper["lo"] <= timekeeper'["lo"] /\ vdso <= vdso' /\ version <= version'
    BY <1>0 DEF WriterTypeOK, WriterInv, ContentInv, WriteSec
  <1> QED BY <1>0, <1>1, <1>t, <1>2, <1>3, <1>4, <1>5 DEF WriterKeeps, Forward, TypeOK

LEMMA CopyTkKeeps ==
    ASSUME NEW h \in Words \cup Seconds, ReadersIInv, CopyTk(h)
    PROVE  WriterKeeps
  <1> USE DEF Latches, Words, Seconds
  <1>0. WriterTypeOK /\ WriterInv /\ ContentInv /\ ReaderTypeOK /\ UNCHANGED <<reader, seen>>
    BY DEF ReadersIInv, TypeOK, CopyTk
  <1>p. /\ seq % 2 \in 0 .. 1 /\ (seq + 1) % 2 = 1 - (seq % 2)
        /\ \A k \in Latches : latch[k] % 2 \in 0 .. 1 /\ (latch[k] + 1) % 2 = 1 - (latch[k] % 2)
    BY <1>0, Parity DEF WriterTypeOK
  <1>e. writer' = [pc |-> IF writer.left = {h} THEN "end" ELSE "copy", phase |-> writer.phase,
               latch |-> 1, left |-> writer.left \ {h}]
    BY <1>0 DEF WriterTypeOK, Goto, CopyTk
  <1>w. /\ writer'.pc = (IF writer.left = {h} THEN "end" ELSE "copy") /\ writer'.phase = writer.phase
        /\ writer'.latch = 1 /\ writer'.left = writer.left \ {h}
        /\ writer' \in [pc : {"idle", "vdso", "begin", "base0", "swap", "base1", "sec", "copy", "end"},
                  phase : Phases, latch : Latches, left : SUBSET (Words \cup Seconds)]
    BY <1>0, <1>e DEF WriterTypeOK, Phases
  <1>1. WriterTypeOK'
    BY <1>0, <1>w DEF WriterTypeOK, CopyTk
  <1>t. ReaderTypeOK'
    BY <1>0 DEF ReaderTypeOK
  <1>2. WriterInv'
    <2>1. seq' % 2 = 1 <=> (writer'.pc # "idle" /\ writer'.phase # "halt")
      BY <1>0, <1>p, <1>w DEF WriterTypeOK, WriterInv, CopyTk
    <2>2. \A k \in Latches : latch'[k] % 2 = 1 <=> (writer'.latch = k /\ writer'.pc \in {"base0", "swap"})
      BY <1>0, <1>p, <1>w DEF WriterTypeOK, WriterInv, CopyTk
    <2>3. /\ writer'.phase = "halt" => writer'.pc \in {"idle", "begin", "base0", "swap", "base1"}
          /\ writer'.pc # "idle" => (asleep' <=> writer'.phase # "update")
          /\ writer'.pc \in {"base0", "base1"} => writer'.left \subseteq Words
      BY <1>0, <1>w DEF WriterTypeOK, WriterInv, CopyTk
    <2>4. asleep' => OnlyNMIs'
      BY <1>0 DEF WriterInv, OnlyNMIs, CopyTk
    <2> QED BY <2>1, <2>2, <2>3, <2>4 DEF WriterInv
  <1>3. ContentInv'
    BY <1>0, <1>w DEF WriterTypeOK, WriterInv, ContentInv, Done, At, InLatch, CopyTk
  <1>4. \A k \in Latches :
          /\ latch[k] <= latch'[k] /\ Active(k, "a") <= Active(k, "a")'
          /\ latch'[k] = latch[k] => \A h_1 \in Words : Active(k, h_1)' = Active(k, h_1)
    <2>1. latch' = latch /\ tkf_base' = tkf_base
      BY DEF CopyTk
    <2>2. \A k \in Latches : latch[k] \in Nat /\ Active(k, "a") \in Nat
      BY <1>0, <1>p DEF WriterTypeOK, Active
    <2> QED BY <2>1, <2>2 DEF Active
  <1>5. /\ seq <= seq'
        /\ seq' = seq /\ seq % 2 = 0 => timekeeper' = timekeeper
        /\ timekeeper["lo"] <= timekeeper'["lo"] /\ vdso <= vdso' /\ version <= version'
    BY <1>0 DEF WriterTypeOK, WriterInv, ContentInv, CopyTk
  <1> QED BY <1>0, <1>1, <1>t, <1>2, <1>3, <1>4, <1>5 DEF WriterKeeps, Forward, TypeOK

LEMMA UpdateEndKeeps ==
    ASSUME ReadersIInv, UpdateEnd
    PROVE  WriterKeeps
  <1> USE DEF Latches, Words, Seconds
  <1>0. WriterTypeOK /\ WriterInv /\ ContentInv /\ ReaderTypeOK /\ UNCHANGED <<reader, seen>>
    BY DEF ReadersIInv, TypeOK, UpdateEnd
  <1>p. /\ seq % 2 \in 0 .. 1 /\ (seq + 1) % 2 = 1 - (seq % 2)
        /\ \A k \in Latches : latch[k] % 2 \in 0 .. 1 /\ (latch[k] + 1) % 2 = 1 - (latch[k] % 2)
    BY <1>0, Parity DEF WriterTypeOK
  <1>e. writer' = IF writer.phase = "suspend" THEN [pc |-> "begin", phase |-> "halt", latch |-> 1, left |-> {}]
             ELSE [pc |-> "idle", phase |-> writer.phase, latch |-> writer.latch, left |-> writer.left]
    BY <1>0 DEF WriterTypeOK, Goto, UpdateEnd
  <1>w. /\ writer'.pc = (IF writer.phase = "suspend" THEN "begin" ELSE "idle")
        /\ writer'.phase = (IF writer.phase = "suspend" THEN "halt" ELSE writer.phase)
        /\ (writer.phase = "suspend" => writer'.latch = 1 /\ writer'.left = {})
        /\ writer' \in [pc : {"idle", "vdso", "begin", "base0", "swap", "base1", "sec", "copy", "end"},
                  phase : Phases, latch : Latches, left : SUBSET (Words \cup Seconds)]
    BY <1>0, <1>e DEF WriterTypeOK, Phases
  <1>1. WriterTypeOK'
    <2>1. version' \in Nat /\ seq' \in Nat
      BY <1>0 DEF WriterTypeOK, UpdateEnd
    <2>2. asleep' \in BOOLEAN
      BY <1>0 DEF WriterTypeOK, UpdateEnd
    <2> QED BY <1>0, <1>w, <2>1, <2>2 DEF WriterTypeOK, UpdateEnd
  <1>t. ReaderTypeOK'
    BY <1>0 DEF ReaderTypeOK
  <1>2. WriterInv'
    <2>1. seq' % 2 = 1 <=> (writer'.pc # "idle" /\ writer'.phase # "halt")
      BY <1>0, <1>p, <1>w DEF WriterTypeOK, WriterInv, UpdateEnd
    <2>2. \A k \in Latches : latch'[k] % 2 = 1 <=> (writer'.latch = k /\ writer'.pc \in {"base0", "swap"})
      BY <1>0, <1>p, <1>w DEF WriterTypeOK, WriterInv, UpdateEnd
    <2>3. /\ writer'.phase = "halt" => writer'.pc \in {"idle", "begin", "base0", "swap", "base1"}
          /\ writer'.pc # "idle" => (asleep' <=> writer'.phase # "update")
          /\ writer'.pc \in {"base0", "base1"} => writer'.left \subseteq Words
      BY <1>0, <1>w DEF WriterTypeOK, WriterInv, UpdateEnd
    <2>4. asleep' => OnlyNMIs'
      BY <1>0 DEF WriterInv, OnlyNMIs, UpdateEnd
    <2> QED BY <2>1, <2>2, <2>3, <2>4 DEF WriterInv
  <1>3. ContentInv'
    BY <1>0, <1>w DEF WriterTypeOK, WriterInv, ContentInv, Done, At, InLatch, UpdateEnd
  <1>4. \A k \in Latches :
          /\ latch[k] <= latch'[k] /\ Active(k, "a") <= Active(k, "a")'
          /\ latch'[k] = latch[k] => \A h_1 \in Words : Active(k, h_1)' = Active(k, h_1)
    <2>1. latch' = latch /\ tkf_base' = tkf_base
      BY DEF UpdateEnd
    <2>2. \A k \in Latches : latch[k] \in Nat /\ Active(k, "a") \in Nat
      BY <1>0, <1>p DEF WriterTypeOK, Active
    <2> QED BY <2>1, <2>2 DEF Active
  <1>5. /\ seq <= seq'
        /\ seq' = seq /\ seq % 2 = 0 => timekeeper' = timekeeper
        /\ timekeeper["lo"] <= timekeeper'["lo"] /\ vdso <= vdso' /\ version <= version'
    BY <1>0 DEF WriterTypeOK, WriterInv, ContentInv, UpdateEnd
  <1> QED BY <1>0, <1>1, <1>t, <1>2, <1>3, <1>4, <1>5 DEF WriterKeeps, Forward, TypeOK

-----------------------------------------------------------------------------
\* The steps of a reader

ReaderType == [pc : {"idle", "start", "read", "ret"}, kind : Kinds, latch : Latches,
               seq : Nat, left : SUBSET Words, got : [Words -> Nat], from : Nat]

\* A reader whose own state and whose data a step leaves alone keeps its invariant.
LEMMA OtherReader ==
    ASSUME NEW s \in Readers, FastInv(s), CoreInv(s), OnceInv(s),
           reader'[s] = reader[s],
           UNCHANGED <<version, writer, seq, vdso, latch, tkf_base, timekeeper, asleep>>
    PROVE  FastInv(s)' /\ CoreInv(s)' /\ OnceInv(s)'
  <1>0. /\ version' = version /\ seq' = seq /\ vdso' = vdso /\ latch' = latch
        /\ tkf_base' = tkf_base /\ timekeeper' = timekeeper /\ asleep' = asleep
    OBVIOUS
  <1>1. FastInv(s)'
    <2>1. \A k, h : Active(k, h)' = Active(k, h)
      BY <1>0 DEF Active
    <2> QED BY <1>0, <2>1, ZenonT(30) DEF FastInv, Active
  <1>2. CoreInv(s)'
    BY <1>0 DEF CoreInv
  <1>3. OnceInv(s)'
    BY <1>0 DEF OnceInv
  <1> QED BY <1>1, <1>2, <1>3

\* The facts in which a reader's step differs from a stutter.
LEMMA OneReader ==
    ASSUME NEW r \in Readers, ReadersIInv,
           UNCHANGED <<version, writer, seq, vdso, latch, tkf_base, timekeeper, asleep>>,
           reader' = [reader EXCEPT ![r] = reader'[r]], reader'[r] \in ReaderType,
           asleep => reader'[r].kind = "fast" \/ reader'[r].pc = "idle",
           seen' \in [core : Nat, vdso : Nat, fast : [Latches -> Nat]], SeenInv',
           FastInv(r)', CoreInv(r)', OnceInv(r)',
           reader'[r].pc = "ret" => /\ reader'[r].got["a"] = reader'[r].got["b"]
                                    /\ reader'[r].from <= reader'[r].got["a"]
    PROVE  ReadersIInv'
  <1>0. WriterTypeOK /\ ReaderTypeOK /\ WriterInv /\ ContentInv /\ ReaderInv
        /\ ReadsAreWhole /\ NeverOlder
    BY DEF ReadersIInv, TypeOK
  <1>1. \A s \in Readers : s # r => reader'[s] = reader[s]
    BY <1>0 DEF ReaderTypeOK
  <1>2. WriterTypeOK' /\ ContentInv'
    BY <1>0 DEF WriterTypeOK, ContentInv, Done, At, InLatch
  <1>3. ReaderTypeOK'
    BY <1>0 DEF ReaderTypeOK, ReaderType
  <1>4. WriterInv'
    <2>1. asleep => OnlyNMIs'
      BY <1>0, <1>1 DEF WriterInv, OnlyNMIs
    <2> QED BY <1>0, <2>1 DEF WriterInv
  <1>5. ReaderInv'
    <2> SUFFICES ASSUME NEW s \in Readers PROVE FastInv(s)' /\ CoreInv(s)' /\ OnceInv(s)'
      BY DEF ReaderInv
    <2>1. CASE s = r
      BY <2>1
    <2>2. CASE s # r
      <3>1. reader'[s] = reader[s] /\ FastInv(s) /\ CoreInv(s) /\ OnceInv(s)
        BY <1>0, <1>1, <2>2 DEF ReaderInv
      <3> QED BY <3>1, OtherReader
    <2> QED BY <2>1, <2>2
  <1>6. ReadsAreWhole' /\ NeverOlder'
    BY <1>0, <1>1 DEF ReadsAreWhole, NeverOlder
  <1> QED BY <1>2, <1>3, <1>4, <1>5, <1>6 DEF ReadersIInv, TypeOK

\* How far the copies may be apart
LEMMA Order ==
    ASSUME ReadersIInv, NEW k \in Latches
    PROVE  /\ Active(k, "a") \in Nat /\ timekeeper["lo"] <= Active(k, "a") /\ Active(k, "a") <= version
           /\ ~asleep => Active(k, "a") <= vdso /\ timekeeper["lo"] <= vdso
           /\ \A h \in Words : Active(k, h) = Active(k, "a")
  <1> USE DEF Latches, Words, Seconds
  <1>0. WriterTypeOK /\ WriterInv /\ ContentInv
    BY DEF ReadersIInv, TypeOK
  <1>1. latch[k] \in Nat /\ latch[k] % 2 \in 0 .. 1
    BY <1>0, Parity DEF WriterTypeOK
  <1>2. /\ version \in Nat /\ timekeeper["lo"] \in Nat /\ vdso \in Nat
        /\ writer.pc \in {"idle", "vdso", "begin", "base0", "swap", "base1", "sec", "copy", "end"}
        /\ writer.latch \in 1 .. 2
    BY <1>0 DEF WriterTypeOK
  <1>3. \A h \in Words : Active(k, h) \in Nat
    BY <1>0, <1>1 DEF WriterTypeOK, Active
  <1>4. \A h \in Words : Active(k, h) = IF Done(k) \/ (At(k) /\ writer.pc \in {"swap", "base1"} /\ latch[k] % 2 = 0)
                                        THEN version ELSE version - 1
    <2>1. CASE latch[k] % 2 = 0
      BY <1>0, <1>2, <2>1 DEF WriterInv, ContentInv, Done, At, InLatch, Active
    <2>2. CASE latch[k] % 2 = 1
      BY <1>0, <1>2, <2>2 DEF WriterInv, ContentInv, Done, At, InLatch, Active
    <2> QED BY <1>1, <2>1, <2>2
  <1>5. timekeeper["lo"] <= Active(k, "a") /\ Active(k, "a") <= version
    BY <1>0, <1>2, <1>4 DEF ContentInv, Done, InLatch
  <1>6. ~asleep => Active(k, "a") <= vdso /\ timekeeper["lo"] <= vdso
    <2> SUFFICES ASSUME ~asleep PROVE Active(k, "a") <= vdso
      BY <1>2, <1>3, <1>5
    <2>1. CASE writer.pc = "idle"
      BY <1>0, <1>2, <1>5, <2>1 DEF ContentInv
    <2>2. CASE writer.pc = "vdso"
      BY <1>0, <1>2, <1>4, <2>2 DEF ContentInv, Done, At, InLatch
    <2>3. CASE writer.pc \notin {"idle", "vdso"}
      <3>1. writer.phase # "halt"
        BY <1>0, <2>3 DEF WriterInv
      <3>2. vdso = version
        BY <1>0, <1>2, <2>3, <3>1 DEF ContentInv
      <3> QED BY <1>5, <3>2
    <2> QED BY <2>1, <2>2, <2>3
  <1> QED BY <1>3, <1>4, <1>5, <1>6

LEMMA CallKeeps ==
    ASSUME ReadersIInv, NEW r \in Readers, NEW kind \in Kinds, NEW k \in Latches, Call(r, kind, k)
    PROVE  ReadersIInv'
  <1> DEFINE x == reader'[r]
  <1>0. /\ WriterTypeOK /\ ReaderTypeOK /\ SeenInv /\ ContentInv
        /\ UNCHANGED <<version, writer, seq, vdso, latch, tkf_base, timekeeper, asleep, seen>>
    BY DEF ReadersIInv, TypeOK, Call
  <1>1. /\ x = [pc |-> "start", kind |-> kind, latch |-> k, seq |-> 0, left |-> Words,
                got |-> [h \in Words |-> 0], from |-> NotOlderThan(kind, k)]
        /\ reader' = [reader EXCEPT ![r] = x]
    BY <1>0 DEF ReaderTypeOK, Call, Idle
  <1>2. /\ seen.core \in Nat /\ seen.vdso \in Nat
        /\ \A j \in Latches : seen.fast[j] \in Nat
        /\ version \in Nat /\ timekeeper["lo"] \in Nat /\ vdso \in Nat
    BY <1>0 DEF WriterTypeOK, ReaderTypeOK, Words, Seconds
  <1>3. NotOlderThan(kind, k) \in Nat
    BY <1>2 DEF NotOlderThan, Newer, Latches
  <1>4. x \in ReaderType
    BY <1>1, <1>3 DEF ReaderType, Words
  <1>5. kind = "fast" => NotOlderThan(kind, k) <= Active(k, "a")
    BY <1>0, <1>2, Order DEF NotOlderThan, Newer, SeenInv
  <1>6. kind = "sec" => NotOlderThan(kind, k) <= timekeeper["lo"]
    BY <1>0 DEF NotOlderThan, SeenInv
  <1>7. kind \in {"core", "vdso"} => /\ ~asleep
                                     /\ NotOlderThan(kind, k) <= vdso
    <2>1. kind # "fast" => ~asleep
      BY DEF Call
    <2>2. ~asleep => \A j \in Latches : seen.fast[j] <= vdso
      BY <1>0, <1>2, Order DEF SeenInv
    <2>3. ~asleep => seen.core <= vdso /\ seen.vdso <= vdso
      BY <1>0, <1>2, Order DEF SeenInv, Latches
    <2> QED BY <1>2, <2>1, <2>2, <2>3 DEF NotOlderThan, Newer, Latches
  <1>8. FastInv(r)'
    BY <1>0, <1>1, <1>5 DEF FastInv, Active, WriterTypeOK
  <1>9. CoreInv(r)'
    <2>1. vdso <= version
      BY <1>0 DEF ContentInv
    <2> QED BY <1>0, <1>1, <1>2, <1>3, <1>7, <2>1 DEF CoreInv, WriterTypeOK
  <1>10. OnceInv(r)'
    BY <1>0, <1>1, <1>6, <1>7 DEF OnceInv
  <1>11. seen' \in [core : Nat, vdso : Nat, fast : [Latches -> Nat]] /\ SeenInv'
    BY <1>0 DEF ReaderTypeOK, SeenInv, Active
  <1>12. asleep => x.kind = "fast"
    BY <1>1 DEF Call
  <1> QED BY <1>0, <1>1, <1>4, <1>8, <1>9, <1>10, <1>11, <1>12, OneReader

LEMMA ReadSeqKeeps ==
    ASSUME ReadersIInv, NEW r \in Readers, ReadSeq(r)
    PROVE  ReadersIInv'
  <1> DEFINE x == reader'[r]
  <1>0. /\ WriterTypeOK /\ ReaderTypeOK /\ WriterInv /\ ContentInv /\ SeenInv
        /\ FastInv(r) /\ CoreInv(r) /\ OnceInv(r)
        /\ UNCHANGED <<version, writer, seq, vdso, latch, tkf_base, timekeeper, asleep>>
    BY DEF ReadersIInv, TypeOK, ReaderInv, ReadSeq
  <1>1. /\ x = [reader[r] EXCEPT !.pc = "read", !.seq = seq]
        /\ reader' = [reader EXCEPT ![r] = x]
    BY <1>0 DEF ReaderTypeOK, ReadSeq
  <1>2. /\ reader[r] \in ReaderType /\ latch[reader[r].latch] \in Nat /\ seq \in Nat
    BY <1>0 DEF ReaderTypeOK, ReaderType, WriterTypeOK
  <1>3. asleep => reader[r].kind = "fast" \/ reader[r].pc = "idle"
    BY <1>0 DEF WriterInv, OnlyNMIs
  <1>k. reader[r].kind = "core" /\ reader[r].pc = "start" /\ seq % 2 = 0
    BY DEF ReadSeq
  <1>4. x \in ReaderType
    BY <1>1, <1>2 DEF ReaderType
  <1>l. /\ x.pc = "read" /\ x.kind = "core" /\ x.seq = seq
        /\ x.from = reader[r].from /\ x.left = reader[r].left /\ x.got = reader[r].got
    BY <1>1, <1>2, <1>k DEF ReaderType
  <1>8. FastInv(r)'
    BY <1>l DEF FastInv
  <1>9. CoreInv(r)'
    BY <1>0, <1>2, <1>k, <1>l DEF CoreInv
  <1>10. OnceInv(r)'
    BY <1>l DEF OnceInv
  <1>11. seen' \in [core : Nat, vdso : Nat, fast : [Latches -> Nat]] /\ SeenInv'
    BY <1>0 DEF ReaderTypeOK, SeenInv, Active, ReadSeq
  <1>12. x.pc # "ret" /\ (asleep => x.kind = "fast")
    BY <1>3, <1>k, <1>l
  <1> QED BY <1>0, <1>1, <1>3, <1>4, <1>8, <1>9, <1>10, <1>11, <1>12, OneReader


LEMMA ReadLatchKeeps ==
    ASSUME ReadersIInv, NEW r \in Readers, ReadLatch(r)
    PROVE  ReadersIInv'
  <1> DEFINE x == reader'[r]
  <1>0. /\ WriterTypeOK /\ ReaderTypeOK /\ WriterInv /\ ContentInv /\ SeenInv
        /\ FastInv(r) /\ CoreInv(r) /\ OnceInv(r)
        /\ UNCHANGED <<version, writer, seq, vdso, latch, tkf_base, timekeeper, asleep>>
    BY DEF ReadersIInv, TypeOK, ReaderInv, ReadLatch
  <1>1. /\ x = [reader[r] EXCEPT !.pc = "read", !.seq = latch[reader[r].latch]]
        /\ reader' = [reader EXCEPT ![r] = x]
    BY <1>0 DEF ReaderTypeOK, ReadLatch
  <1>2. /\ reader[r] \in ReaderType /\ latch[reader[r].latch] \in Nat /\ seq \in Nat
    BY <1>0 DEF ReaderTypeOK, ReaderType, WriterTypeOK
  <1>3. asleep => reader[r].kind = "fast" \/ reader[r].pc = "idle"
    BY <1>0 DEF WriterInv, OnlyNMIs
  <1>k. reader[r].kind = "fast" /\ reader[r].pc = "start"
    BY DEF ReadLatch
  <1>4. x \in ReaderType
    BY <1>1, <1>2 DEF ReaderType
  <1>l. /\ x.pc = "read" /\ x.kind = "fast" /\ x.seq = latch[x.latch] /\ x.latch = reader[r].latch
        /\ x.from = reader[r].from /\ x.left = reader[r].left /\ x.got = reader[r].got
    BY <1>1, <1>2, <1>k DEF ReaderType
  <1>8. FastInv(r)'
    <2>1. reader[r].from <= Active(reader[r].latch, "a") /\ reader[r].left = Words
      BY <1>0, <1>k DEF FastInv
    <2>3. latch' = latch /\ x.seq <= latch[x.latch]
      BY <1>0, <1>2, <1>l
    <2>4. Words \ x.left = {}
      BY <1>l, <2>1
    <2> QED BY <1>0, <1>l, <2>1, <2>3, <2>4 DEF FastInv, Active
  <1>9. CoreInv(r)'
    BY <1>l DEF CoreInv
  <1>10. OnceInv(r)'
    BY <1>l DEF OnceInv
  <1>11. seen' \in [core : Nat, vdso : Nat, fast : [Latches -> Nat]] /\ SeenInv'
    BY <1>0 DEF ReaderTypeOK, SeenInv, Active, ReadLatch
  <1>12. x.pc # "ret" /\ (asleep => x.kind = "fast")
    BY <1>3, <1>k, <1>l
  <1> QED BY <1>0, <1>1, <1>3, <1>4, <1>8, <1>9, <1>10, <1>11, <1>12, OneReader

LEMMA ReadWordKeeps ==
    ASSUME ReadersIInv, NEW r \in Readers, NEW h \in Words, ReadWord(r, h)
    PROVE  ReadersIInv'
  <1> DEFINE x == reader'[r]
  <1>0. /\ WriterTypeOK /\ ReaderTypeOK /\ WriterInv /\ ContentInv /\ SeenInv
        /\ FastInv(r) /\ CoreInv(r) /\ OnceInv(r)
        /\ UNCHANGED <<version, writer, seq, vdso, latch, tkf_base, timekeeper, asleep>>
    BY DEF ReadersIInv, TypeOK, ReaderInv, ReadWord
  <1>1. /\ x = [reader[r] EXCEPT !.left = reader[r].left \ {h}, !.got[h] = Word(r, h)]
        /\ reader' = [reader EXCEPT ![r] = x]
    BY <1>0 DEF ReaderTypeOK, ReadWord
  <1>2. /\ reader[r] \in ReaderType /\ latch[reader[r].latch] \in Nat /\ seq \in Nat
    BY <1>0 DEF ReaderTypeOK, ReaderType, WriterTypeOK
  <1>3. asleep => reader[r].kind = "fast" \/ reader[r].pc = "idle"
    BY <1>0 DEF WriterInv, OnlyNMIs
  <1>k. reader[r].pc = "read" /\ h \in reader[r].left
    BY DEF ReadWord
  <1>m. Word(r, h) \in Nat
    <2>1. reader[r].seq % 2 \in 0 .. 1
      BY <1>2, Parity DEF ReaderType
    <2> QED BY <1>0, <1>2, <2>1 DEF WriterTypeOK, ReaderType, Word
  <1>n. x.got \in [Words -> Nat] /\ x.left \in SUBSET Words
    BY <1>1, <1>2, <1>m DEF ReaderType
  <1>4. x \in ReaderType
    <2>1. x = [pc |-> reader[r].pc, kind |-> reader[r].kind, latch |-> reader[r].latch,
               seq |-> reader[r].seq, left |-> x.left, got |-> x.got, from |-> reader[r].from]
      BY <1>1, <1>2 DEF ReaderType
    <2> HIDE DEF x
    <2> QED BY <1>2, <1>n, <2>1 DEF ReaderType
  <1>l. /\ x.pc = "read" /\ x.kind = reader[r].kind /\ x.seq = reader[r].seq /\ x.latch = reader[r].latch
        /\ x.from = reader[r].from /\ x.left = reader[r].left \ {h}
        /\ x.got[h] = Word(r, h) /\ \A g \in Words \ {h} : x.got[g] = reader[r].got[g]
    BY <1>1, <1>2, <1>k DEF ReaderType
  <1>8. FastInv(r)'
    BY <1>0, <1>2, <1>k, <1>l DEF FastInv, Active, Word
  <1>9. CoreInv(r)'
    BY <1>0, <1>2, <1>k, <1>l DEF CoreInv, Word
  <1>10. OnceInv(r)'
    BY <1>0, <1>k, <1>l DEF OnceInv
  <1>11. seen' \in [core : Nat, vdso : Nat, fast : [Latches -> Nat]] /\ SeenInv'
    BY <1>0 DEF ReaderTypeOK, SeenInv, Active, ReadWord
  <1>12. x.pc # "ret" /\ (asleep => x.kind = "fast")
    BY <1>3, <1>k, <1>l
  <1> QED BY <1>0, <1>1, <1>3, <1>4, <1>8, <1>9, <1>10, <1>11, <1>12, OneReader

LEMMA RetryKeeps ==
    ASSUME ReadersIInv, NEW r \in Readers, Retry(r)
    PROVE  ReadersIInv'
  <1> DEFINE x == reader'[r]
  <1>0. /\ WriterTypeOK /\ ReaderTypeOK /\ WriterInv /\ ContentInv /\ SeenInv
        /\ FastInv(r) /\ CoreInv(r) /\ OnceInv(r)
        /\ UNCHANGED <<version, writer, seq, vdso, latch, tkf_base, timekeeper, asleep>>
    BY DEF ReadersIInv, TypeOK, ReaderInv, Retry
  <1>1. /\ x = IF reader[r].seq = Sequence(r) THEN [reader[r] EXCEPT !.pc = "ret", !.seq = 0]
             ELSE [reader[r] EXCEPT !.pc = "start", !.seq = 0, !.got = Idle.got, !.left = Words]
        /\ reader' = [reader EXCEPT ![r] = x]
    BY <1>0 DEF ReaderTypeOK, Retry
  <1>2. /\ reader[r] \in ReaderType /\ latch[reader[r].latch] \in Nat /\ seq \in Nat
    BY <1>0 DEF ReaderTypeOK, ReaderType, WriterTypeOK
  <1>3. asleep => reader[r].kind = "fast" \/ reader[r].pc = "idle"
    BY <1>0 DEF WriterInv, OnlyNMIs
  <1>k. reader[r].pc = "read" /\ reader[r].left = {}
    BY DEF Retry
  <1>i. Idle.got \in [Words -> Nat]
    BY DEF Idle, Words
  <1>4. x \in ReaderType
    <2>1. [reader[r] EXCEPT !.pc = "ret", !.seq = 0] \in ReaderType
      BY <1>2 DEF ReaderType
    <2>2. [reader[r] EXCEPT !.pc = "start", !.seq = 0, !.got = Idle.got, !.left = Words] \in ReaderType
      BY <1>2, <1>i DEF ReaderType
    <2> QED BY <1>1, <2>1, <2>2
  <1>l. /\ x.kind = reader[r].kind /\ x.seq = 0 /\ x.latch = reader[r].latch /\ x.from = reader[r].from
        /\ x.pc = (IF reader[r].seq = Sequence(r) THEN "ret" ELSE "start")
        /\ x.pc = "ret" => x.got = reader[r].got
        /\ x.pc = "start" => x.left = Words
    BY <1>1, <1>2 DEF ReaderType
  <1>f. ASSUME x.pc = "ret", x.kind = "fast"
        PROVE  x.got["a"] = x.got["b"] /\ x.from <= x.got["a"] /\ x.got["a"] <= Active(x.latch, "a")
    <2>1. \A h \in Words : x.got[h] = Active(x.latch, h)
      BY <1>0, <1>k, <1>l, <1>f DEF FastInv, Sequence
    <2>2. \A h \in Words : Active(x.latch, h) = Active(x.latch, "a")
      BY <1>4, Order DEF ReaderType
    <2>3. x.from <= Active(x.latch, "a") /\ Active(x.latch, "a") \in Nat
      BY <1>0, <1>k, <1>l, <1>f, <1>4, Order DEF FastInv, ReaderType
    <2> QED BY <2>1, <2>2, <2>3 DEF Words
  <1>c. ASSUME x.pc = "ret", x.kind = "core"
        PROVE  x.got["a"] = x.got["b"] /\ x.from <= x.got["a"] /\ x.got["a"] <= timekeeper["lo"]
    <2>1. seq % 2 = 0 /\ (\A h \in Words : x.got[h] = timekeeper[h]) /\ x.from <= version
      BY <1>0, <1>k, <1>l, <1>c DEF CoreInv, Sequence
    <2>2. ~asleep
      BY <1>3, <1>k, <1>l, <1>c
    <2>3. writer.pc = "idle"
      BY <1>0, <2>1, <2>2 DEF WriterInv
    <2>4. \A h \in Words \cup Seconds : timekeeper[h] = version
      BY <1>0, <2>2, <2>3 DEF ContentInv
    <2>5. version \in Nat
      BY <1>0 DEF WriterTypeOK
    <2> QED BY <2>1, <2>4, <2>5 DEF Words, Seconds
  <1>8. FastInv(r)'
    <2>1. x.kind = "fast" /\ x.pc = "start" => x.from <= Active(x.latch, "a")
      BY <1>0, <1>k, <1>l DEF FastInv
    <2> QED BY <1>0, <1>2, <1>f, <1>l, <2>1 DEF FastInv, Active
  <1>9. CoreInv(r)'
    BY <1>0, <1>2, <1>k, <1>c, <1>l DEF CoreInv
  <1>10. OnceInv(r)'
    BY <1>0, <1>k, <1>l DEF OnceInv
  <1>11. seen' \in [core : Nat, vdso : Nat, fast : [Latches -> Nat]] /\ SeenInv'
    BY <1>0 DEF ReaderTypeOK, SeenInv, Active, Retry
  <1>12. /\ asleep => x.kind = "fast"
         /\ x.pc = "ret" => x.got["a"] = x.got["b"] /\ x.from <= x.got["a"]
    <2>1. x.kind \in {"fast", "core"}
      BY <1>0, <1>2, <1>k, <1>l DEF OnceInv, ReaderType, Kinds
    <2> QED BY <1>3, <1>k, <1>l, <1>f, <1>c, <2>1
  <1> QED BY <1>0, <1>1, <1>3, <1>4, <1>8, <1>9, <1>10, <1>11, <1>12, OneReader

LEMMA ReadOnceKeeps ==
    ASSUME ReadersIInv, NEW r \in Readers, ReadOnce(r)
    PROVE  ReadersIInv'
  <1> DEFINE x == reader'[r]
             g == IF reader[r].kind = "vdso" THEN [h \in Words |-> vdso]
                  ELSE [h \in Words |-> IF h = "a" THEN timekeeper["lo"] ELSE timekeeper["hi"]]
  <1>0. /\ WriterTypeOK /\ ReaderTypeOK /\ WriterInv /\ ContentInv /\ SeenInv
        /\ FastInv(r) /\ CoreInv(r) /\ OnceInv(r)
        /\ UNCHANGED <<version, writer, seq, vdso, latch, tkf_base, timekeeper, asleep>>
    BY DEF ReadersIInv, TypeOK, ReaderInv, ReadOnce
  <1>g. g \in [Words -> Nat]
    BY <1>0 DEF WriterTypeOK, Words, Seconds
  <1>v. /\ g["a"] = g["b"]
        /\ g["a"] = IF reader[r].kind = "vdso" THEN vdso ELSE timekeeper["lo"]
    BY <1>0 DEF ContentInv, Words
  <1> HIDE DEF g
  <1>1. /\ x = [reader[r] EXCEPT !.pc = "ret", !.left = {}, !.got = g]
        /\ reader' = [reader EXCEPT ![r] = x]
    BY <1>0 DEF ReaderTypeOK, ReadOnce, g
  <1>2. reader[r] \in ReaderType
    BY <1>0 DEF ReaderTypeOK, ReaderType
  <1>3. asleep => reader[r].kind = "fast" \/ reader[r].pc = "idle"
    BY <1>0 DEF WriterInv, OnlyNMIs
  <1>k. reader[r].kind \in {"vdso", "sec"} /\ reader[r].pc = "start"
    BY DEF ReadOnce
  <1>4. x \in ReaderType
    BY <1>1, <1>2, <1>g DEF ReaderType
  <1>l. /\ x.pc = "ret" /\ x.kind = reader[r].kind /\ x.from = reader[r].from /\ x.got = g
    BY <1>1, <1>2 DEF ReaderType
  <1>m. reader[r].from <= g["a"]
    BY <1>0, <1>k, <1>v DEF OnceInv
  <1>8. FastInv(r)' /\ CoreInv(r)'
    BY <1>k, <1>l DEF FastInv, CoreInv
  <1>10. OnceInv(r)'
    <2>1. vdso \in Nat /\ timekeeper["lo"] \in Nat
      BY <1>0 DEF WriterTypeOK, Seconds
    <2> QED BY <1>0, <1>k, <1>l, <1>v, <2>1 DEF OnceInv
  <1>11. seen' \in [core : Nat, vdso : Nat, fast : [Latches -> Nat]] /\ SeenInv'
    BY <1>0 DEF ReaderTypeOK, SeenInv, Active, ReadOnce
  <1>12. ~asleep /\ x.got["a"] = x.got["b"] /\ x.from <= x.got["a"]
    BY <1>3, <1>k, <1>l, <1>m, <1>v
  <1> QED BY <1>0, <1>1, <1>4, <1>8, <1>10, <1>11, <1>12, OneReader

LEMMA ReturnKeeps ==
    ASSUME ReadersIInv, NEW r \in Readers, Return(r)
    PROVE  ReadersIInv'
  <1> DEFINE x == reader'[r]
             v == reader[r].got["a"]
             k == reader[r].latch
  <1>0. /\ WriterTypeOK /\ ReaderTypeOK /\ SeenInv
        /\ FastInv(r) /\ CoreInv(r) /\ OnceInv(r)
        /\ UNCHANGED <<version, writer, seq, vdso, latch, tkf_base, timekeeper, asleep>>
    BY DEF ReadersIInv, TypeOK, ReaderInv, Return
  <1>1. /\ x = [pc |-> "idle", kind |-> "core", latch |-> 1, seq |-> 0, left |-> Words,
                got |-> [h \in Words |-> 0], from |-> 0]
        /\ reader' = [reader EXCEPT ![r] = x]
    BY <1>0 DEF ReaderTypeOK, Return, Idle
  <1>2. /\ reader[r] \in ReaderType /\ v \in Nat /\ k \in Latches
        /\ reader[r].kind \in Kinds /\ reader[r].pc = "ret"
    BY <1>0 DEF ReaderTypeOK, ReaderType, Words, Return
  <1>3. /\ seen.core \in Nat /\ seen.vdso \in Nat /\ seen.fast \in [Latches -> Nat]
        /\ seen = [core |-> seen.core, vdso |-> seen.vdso, fast |-> seen.fast]
    BY <1>0 DEF ReaderTypeOK
  <1>4. x \in ReaderType
    BY <1>1 DEF ReaderType, Words, Kinds, Latches
  <1>8. FastInv(r)' /\ OnceInv(r)'
    BY <1>1 DEF FastInv, OnceInv
  <1>9. CoreInv(r)'
    <2>1. seq' \in Nat
      BY <1>0 DEF WriterTypeOK
    <2> QED BY <1>1, <2>1 DEF CoreInv
  <1>11. seen' \in [core : Nat, vdso : Nat, fast : [Latches -> Nat]] /\ SeenInv'
    <2>1. CASE reader[r].kind = "fast"
      <3>1. /\ seen'.core = seen.core /\ seen'.vdso = seen.vdso
            /\ seen'.fast = [seen.fast EXCEPT ![k] = Newer(seen.fast[k], v)]
            /\ seen' = [core |-> seen'.core, vdso |-> seen'.vdso, fast |-> seen'.fast]
        BY <1>3, <2>1 DEF Return
      <3>2. Newer(seen.fast[k], v) \in Nat /\ Newer(seen.fast[k], v) <= Active(k, "a")
        BY <1>0, <1>2, <1>3, <2>1 DEF FastInv, SeenInv, Newer
      <3>3. seen'.fast \in [Latches -> Nat]
        BY <1>3, <3>1, <3>2
      <3>4. \A j \in Latches : seen'.fast[j] <= Active(j, "a")
        BY <1>0, <1>2, <1>3, <3>1, <3>2 DEF SeenInv
      <3>5. \A j \in Latches : Active(j, "a")' = Active(j, "a")
        BY <1>0 DEF Active
      <3> QED BY <1>0, <1>3, <3>1, <3>3, <3>4, <3>5 DEF SeenInv
    <2>2. CASE reader[r].kind = "vdso"
      <3>1. seen' = [core |-> seen.core, vdso |-> Newer(seen.vdso, v), fast |-> seen.fast]
        BY <1>3, <2>2 DEF Return
      <3>2. Newer(seen.vdso, v) \in Nat /\ Newer(seen.vdso, v) <= vdso
        BY <1>0, <1>2, <1>3, <2>2 DEF OnceInv, SeenInv, Newer
      <3>5. \A j \in Latches : Active(j, "a")' = Active(j, "a")
        BY <1>0 DEF Active
      <3> QED BY <1>0, <1>3, <3>1, <3>2, <3>5 DEF SeenInv
    <2>3. CASE reader[r].kind \in {"core", "sec"}
      <3>1. seen' = [core |-> Newer(seen.core, v), vdso |-> seen.vdso, fast |-> seen.fast]
        BY <1>3, <2>3 DEF Return
      <3>2. Newer(seen.core, v) \in Nat /\ Newer(seen.core, v) <= timekeeper["lo"]
        BY <1>0, <1>2, <1>3, <2>3 DEF OnceInv, CoreInv, SeenInv, Newer
      <3>5. \A j \in Latches : Active(j, "a")' = Active(j, "a")
        BY <1>0 DEF Active
      <3> QED BY <1>0, <1>3, <3>1, <3>2, <3>5 DEF SeenInv
    <2> QED BY <1>2, <2>1, <2>2, <2>3 DEF Kinds
  <1>12. x.pc = "idle"
    BY <1>1
  <1> QED BY <1>0, <1>1, <1>4, <1>8, <1>9, <1>11, <1>12, OneReader

-----------------------------------------------------------------------------
\* The invariant, and what follows from it

LEMMA ReadersInitIInv == ReadersInit => ReadersIInv
  <1> SUFFICES ASSUME ReadersInit PROVE ReadersIInv
    OBVIOUS
  <1> USE DEF Latches, Words, Seconds
  <1>1. WriterTypeOK
    <2>1. writer \in [pc : {"idle", "vdso", "begin", "base0", "swap", "base1", "sec", "copy", "end"},
                 phase : Phases, latch : Latches, left : SUBSET (Words \cup Seconds)]
      BY DEF ReadersInit, Phases
    <2>2. tkf_base \in [Latches -> [0 .. 1 -> [Words -> Nat]]]
      BY DEF ReadersInit
    <2> QED BY <2>1, <2>2 DEF ReadersInit, WriterTypeOK
  <1>2. Idle \in ReaderType
    BY DEF Idle, ReaderType, Kinds
  <1>3. ReaderTypeOK
    BY <1>2 DEF ReadersInit, ReaderTypeOK, ReaderType
  <1>4. \A r \in Readers : reader[r] = Idle
    BY DEF ReadersInit
  <1>5. WriterInv
    BY DEF ReadersInit, WriterInv
  <1>6. ContentInv
    BY DEF ReadersInit, ContentInv, Done
  <1>7. SeenInv
    BY DEF ReadersInit, SeenInv, Active
  <1>8. ReaderInv
    <2> SUFFICES ASSUME NEW r \in Readers PROVE FastInv(r) /\ CoreInv(r) /\ OnceInv(r)
      BY DEF ReaderInv
    <2>1. reader[r].pc = "idle" /\ reader[r].kind = "core" /\ reader[r].seq = 0 /\ seq = 0
      BY <1>4 DEF ReadersInit, Idle
    <2>2. FastInv(r)
      BY <2>1 DEF FastInv
    <2>3. CoreInv(r)
      BY <2>1 DEF CoreInv
    <2>4. OnceInv(r)
      BY <2>1 DEF OnceInv
    <2> QED BY <2>2, <2>3, <2>4
  <1>9. ReadsAreWhole /\ NeverOlder
    BY <1>4 DEF ReadsAreWhole, NeverOlder, Idle
  <1> QED BY <1>1, <1>3, <1>5, <1>6, <1>7, <1>8, <1>9 DEF ReadersIInv, TypeOK

LEMMA WriteKeeps ==
    ASSUME ReadersIInv, Write
    PROVE  ReadersIInv'
  <1>1. WriterKeeps
    BY UpdateBeginKeeps, UpdateVsyscallKeeps, LatchStepKeeps, CopyBase0Keeps, CopyBase1Keeps,
       WriteSecKeeps, CopyTkKeeps, UpdateEndKeeps DEF Write
  <1> QED BY <1>1, ForwardKeepsReaders DEF WriterKeeps, ReadersIInv

LEMMA StutterKeeps ==
    ASSUME ReadersIInv, UNCHANGED readers_vars
    PROVE  ReadersIInv'
  <1> USE DEF readers_vars
  <1>1. TypeOK'
    BY DEF ReadersIInv, TypeOK, WriterTypeOK, ReaderTypeOK
  <1>2. WriterInv'
    BY DEF ReadersIInv, WriterInv, OnlyNMIs
  <1>3. ContentInv'
    BY DEF ReadersIInv, ContentInv, Done, At, InLatch
  <1>4. SeenInv'
    BY DEF ReadersIInv, SeenInv, Active
  <1>5. ReaderInv'
    BY DEF ReadersIInv, ReaderInv, FastInv, CoreInv, OnceInv, Active
  <1>6. ReadsAreWhole' /\ NeverOlder'
    BY DEF ReadersIInv, ReadsAreWhole, NeverOlder
  <1> QED BY <1>1, <1>2, <1>3, <1>4, <1>5, <1>6 DEF ReadersIInv

LEMMA Inductive == ReadersSpec => []ReadersIInv
  <1>1. ReadersIInv /\ [ReadersNext]_readers_vars => ReadersIInv'
    <2> SUFFICES ASSUME ReadersIInv, [ReadersNext]_readers_vars PROVE ReadersIInv'
      OBVIOUS
    <2>1. CASE Write
      BY <2>1, WriteKeeps
    <2>2. CASE \E r \in Readers : Progress(r)
      BY <2>2, ReadSeqKeeps, ReadLatchKeeps, ReadWordKeeps, RetryKeeps, ReadOnceKeeps,
         ReturnKeeps DEF Progress
    <2>3. CASE \E r \in Readers : \E kind \in Kinds, k \in Latches : Call(r, kind, k)
      BY <2>3, CallKeeps
    <2>4. CASE UNCHANGED readers_vars
      BY <2>4, StutterKeeps
    <2> QED BY <2>1, <2>2, <2>3, <2>4 DEF ReadersNext
  <1> QED BY ReadersInitIInv, <1>1, PTL DEF ReadersSpec

\* Every step of the writer and of the readers keeps to the types.
THEOREM ReadersTypeCorrect == ReadersSpec => []TypeOK
  <1>1. ReadersIInv => TypeOK
    BY DEF ReadersIInv
  <1> QED BY Inductive, <1>1, PTL

\* However many readers there are and wherever they interrupt the writer or each
\* other, read_seqcount_retry() and the latch let no mixture of two updates through.
THEOREM ReadersGetOneUpdate == ReadersSpec => []ReadsAreWhole
  <1>1. ReadersIInv => ReadsAreWhole
    BY DEF ReadersIInv
  <1> QED BY Inductive, <1>1, PTL

\* The order in which timekeeping_update_from_shadow() writes keeps time from going
\* back between the interfaces.
THEOREM TimeDoesNotGoBack == ReadersSpec => []NeverOlder
  <1>1. ReadersIInv => NeverOlder
    BY DEF ReadersIInv
  <1> QED BY Inductive, <1>1, PTL

=============================================================================
