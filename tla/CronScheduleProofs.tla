-------------------------- MODULE CronScheduleProofs --------------------------
(***************************************************************************)
(* Proofs about CronSchedule, for any calendar, time zones, schedules and  *)
(* settings of the clock: what parseField and matches accept is what the   *)
(* expression denotes, the search of Next finds the first such minute, and *)
(* the loop of Run neither misses one nor schedules one twice.             *)
(*                                                                         *)
(* IInv relates what Run waits for (nextRun) to the wall clock: nothing    *)
(* that is due lies between the time Next was asked with and nextRun       *)
(* (FirstDue), and unless the clock was set back the timer does not fire   *)
(* before nextRun (NotEarly), so that the next search begins after it.     *)
(***************************************************************************)
EXTENDS CronSchedule, FiniteSetTheorems, TLAPS

Minutes == 0..(MaxClock \div Ticks)

Known == pc \notin {"startup", "exit"} => Accepted(schedule)

FirstDue ==
  Cron /\ pc \in {"asked", "wait"} =>
    \A m \in Minutes : m * Ticks > asked /\ Due(m) => nextRun <= m * Ticks

NotEarly ==
  ~setBack => /\ pc = "startup" => nextRun = 0
              /\ pc \in {"ask", "cycle"} => nextRun <= clock
              /\ pc = "wait" => nextRun <= clock + timer

IInv == TypeOK /\ Known /\ FirstDue /\ NotEarly

-----------------------------------------------------------------------------
(* Arithmetic. *)

(* Quotient and remainder of a division by a positive number. *)
LEMMA DivMod ==
  ASSUME NEW a \in Int, NEW b \in Nat \ {0}
  PROVE  /\ a \div b \in Int /\ a % b \in 0..(b - 1)
         /\ a = b * (a \div b) + (a % b)
         /\ a \in Nat => a \div b \in Nat
OBVIOUS

(* The remainder tells the multiples of a number apart from the others. *)
LEMMA Multiple ==
  ASSUME NEW a \in Int, NEW b \in Nat \ {0}
  PROVE  /\ a % b = 0 => a = b * (a \div b)
         /\ \A k \in Int : a = b * k => a % b = 0 /\ a \div b = k
<1>1. a % b = 0 => a = b * (a \div b)
  BY DivMod
<1>2. ASSUME NEW k \in Int, a = b * k
      PROVE  a % b = 0 /\ a \div b = k
  <2> DEFINE q == a \div b
             r == a % b
  <2>1. q \in Int /\ r \in 0..(b - 1) /\ a = b * q + r
    BY DivMod
  <2> HIDE DEF q, r
  <2>2. b * (k - q) = r
    BY <1>2, <2>1
  <2>3. k - q = 0
    <3>1. CASE k - q >= 1
      <4>1. b * (k - q) >= b
        BY <2>1, <3>1
      <4> QED BY <2>1, <2>2, <4>1
    <3>2. CASE k - q <= -1
      <4>1. b * (k - q) <= -b
        BY <2>1, <3>2
      <4> QED BY <2>1, <2>2, <4>1
    <3> QED BY <2>1, <3>1, <3>2
  <2>4. r = 0 /\ q = k
    BY <2>1, <2>2, <2>3
  <2> QED BY <2>4 DEF q, r
<1> QED BY <1>1, <1>2

(* A product is bounded by a product. *)
LEMMA Scales ==
  ASSUME NEW a \in Int, NEW b \in Int, NEW c \in Nat, a <= b
  PROVE  c * a <= c * b /\ a * c <= b * c /\ c * a \in Int
OBVIOUS

(* The first minute that begins after a time. *)
LEMMA NextMinute ==
  ASSUME NEW t \in Nat, NEW T \in Nat \ {0}
  PROVE  /\ (t + T) \div T = t \div T + 1 /\ t \div T \in Nat
         /\ \A m \in Int : m * T > t <=> m >= t \div T + 1
<1> DEFINE q == t \div T
           r == t % T
<1>1. q \in Nat /\ r \in 0..(T - 1) /\ t = T * q + r
  <2>1. t \in Int
    OBVIOUS
  <2> QED BY <2>1, DivMod
<1>2. (t + T) \div T = q + 1
  <2> DEFINE p == (t + T) \div T
             s == (t + T) % T
  <2>1. p \in Int /\ s \in 0..(T - 1) /\ t + T = T * p + s
    <3>1. t + T \in Int
      OBVIOUS
    <3> QED BY <3>1, DivMod
  <2> HIDE DEF p, s, q, r
  <2>2. T * (p - q - 1) = r - s
    BY <1>1, <2>1
  <2>3. CASE p - q - 1 >= 1
    BY <1>1, <2>1, <2>2, <2>3, Scales
  <2>4. CASE p - q - 1 <= -1
    BY <1>1, <2>1, <2>2, <2>4, Scales
  <2>5. p = q + 1
    BY <1>1, <2>1, <2>3, <2>4
  <2> QED BY <2>5 DEF p
<1>3. ASSUME NEW m \in Int
      PROVE  m * T > t <=> m >= q + 1
  <2> HIDE DEF q, r
  <2>1. CASE m >= q + 1
    <3>1. m * T >= (q + 1) * T
      BY <1>1, <2>1, Scales
    <3> QED BY <1>1, <2>1, <3>1
  <2>2. CASE m <= q
    <3>1. m * T <= q * T
      BY <1>1, <2>2, Scales
    <3> QED BY <1>1, <2>2, <3>1
  <2> QED BY <1>1, <2>1, <2>2
<1> QED BY <1>1, <1>2, <1>3

(* A set of naturals that is not empty has a least element: if it had none, *)
(* the lower bounds of the set would be closed under successor, and finite. *)
LEMMA MinIs ==
  ASSUME NEW S \in SUBSET Nat, S # {}
  PROVE  Min(S) \in S /\ \A x \in S : Min(S) <= x
<1>1. PICK x \in S : TRUE
  OBVIOUS
<1>2. \E n \in S : \A y \in S : n <= y
  <2>1. SUFFICES ASSUME \A n \in S : ~(\A y \in S : n <= y)
                 PROVE  FALSE
    OBVIOUS
  <2> DEFINE L == {n \in 0..x : \A y \in S : n <= y}
             M == {n + 1 : n \in L}
  <2>2. IsFiniteSet(L)
    <3>1. IsFiniteSet(0..x)
      BY FS_Interval
    <3> QED BY <3>1, FS_Subset
  <2>3. 0 \in L
    BY <1>1
  <2>4. M \subseteq L \ {0}
    <3>1. ASSUME NEW n \in L PROVE n + 1 \in L
      <4>1. n \in Nat /\ \A y \in S : n <= y
        OBVIOUS
      <4>2. n \notin S
        BY <2>1, <4>1
      <4>3. \A y \in S : y \in Nat /\ n + 1 <= y
        BY <4>1, <4>2
      <4> QED BY <1>1, <4>1, <4>3
    <3> QED BY <3>1
  <2>5. Cardinality(M) = Cardinality(L)
    <3> DEFINE f == [n \in L |-> n + 1]
    <3>1. f \in Bijection(L, M)
      <4>1. f \in [L -> M]
        OBVIOUS
      <4>2. \A a, b \in L : f[a] = f[b] => a = b
        OBVIOUS
      <4>3. \A m \in M : \E n \in L : f[n] = m
        OBVIOUS
      <4> HIDE DEF f, L, M
      <4> QED BY <4>1, <4>2, <4>3 DEF Bijection, Injection, Surjection, IsInjective
    <3> HIDE DEF f, L, M
    <3>2. ExistsBijection(L, M)
      BY <3>1 DEF ExistsBijection
    <3> QED BY <2>2, <3>2, FS_Bijection
  <2> HIDE DEF L, M
  <2>6. /\ IsFiniteSet(L \ {0}) /\ Cardinality(L) \in Nat
        /\ Cardinality(L \ {0}) = Cardinality(L) - 1
    BY <2>2, <2>3, FS_RemoveElement, FS_CardinalityType
  <2>7. Cardinality(M) <= Cardinality(L \ {0})
    BY <2>4, <2>6, FS_Subset
  <2> QED BY <2>5, <2>6, <2>7
<1> QED BY <1>2 DEF Min

-----------------------------------------------------------------------------
(* The fields of an expression. *)

(* The values that the loop of parseField visits for one part. *)
Visited(from, to, step) == {from + k * step : k \in 0..((to - from) \div step)}

(* The loop of parseField over one part visits the values from its start to *)
(* its end that are a number of steps away from the start.                  *)
LEMMA PartValues ==
  ASSUME NEW from \in Int, NEW to \in Int, from <= to, NEW step \in Nat \ {0}, NEW v \in Int
  PROVE  v \in Visited(from, to, step)
           <=> from <= v /\ v <= to /\ (v - from) % step = 0
<1> DEFINE n == (to - from) \div step
<1>1. n \in Nat /\ (to - from) % step \in 0..(step - 1) /\ to - from = step * n + ((to - from) % step)
  <2>1. to - from \in Int /\ to - from \in Nat
    OBVIOUS
  <2> QED BY <2>1, DivMod
<1>2. ASSUME NEW k \in 0..n, v = from + k * step
      PROVE  from <= v /\ v <= to /\ (v - from) % step = 0
  <2> HIDE DEF n
  <2>1. k \in Int /\ 0 <= k /\ k <= n
    BY <1>1, <1>2
  <2>2. 0 <= step * k /\ step * k <= step * n
    BY <1>1, <2>1, Scales
  <2>3. v - from = step * k
    BY <1>2, <2>1
  <2>4. (v - from) % step = 0
    BY <2>1, <2>3, Multiple
  <2> QED BY <1>1, <1>2, <2>1, <2>2, <2>3, <2>4
<1>3. ASSUME from <= v, v <= to, (v - from) % step = 0
      PROVE  \E k \in 0..n : v = from + k * step
  <2> DEFINE k == (v - from) \div step
  <2>1. k \in Nat /\ v - from = step * k
    BY <1>3, DivMod, Multiple
  <2> HIDE DEF n, k
  <2>2. k <= n
    <3>1. SUFFICES ASSUME k >= n + 1 PROVE FALSE
      BY <1>1, <2>1
    <3>2. step * k >= step * (n + 1)
      BY <1>1, <2>1, <3>1, Scales
    <3> QED BY <1>1, <1>3, <2>1, <3>2
  <2>3. v = from + k * step
    BY <2>1
  <2> QED BY <1>1, <2>1, <2>2, <2>3
<1> QED BY <1>2, <1>3 DEF Visited

(* parseField computes what a field means. *)
LEMMA ValuesAre ==
  ASSUME NEW field \in Fields, NEW min \in Int, NEW max \in Int, FieldOK(field, min, max),
         NEW v \in min..max
  PROVE  v \in Values(field, min, max) <=> Admits(field, v, min, max)
<1>1. CASE field.star
  BY <1>1 DEF Values, Admits
<1>2. CASE ~field.star
  <2>1. ASSUME NEW part \in field.parts
        PROVE  LET b == Bounds(part, min, max)
               IN  v \in {b[1] + k * part.step : k \in 0..((b[2] - b[1]) \div part.step)}
                     <=> b[1] <= v /\ v <= b[2] /\ (v - b[1]) % part.step = 0
    <3> DEFINE from == IF part.any THEN min ELSE part.from
               to   == IF part.any THEN max ELSE part.to
    <3>1. Bounds(part, min, max) = <<from, to>>
      BY DEF Bounds
    <3>2. part \in Parts /\ PartOK(part, min, max)
      BY <1>2, <2>1 DEF Fields, FieldOK
    <3> DEFINE step == part.step
    <3>3. step \in Nat \ {0} /\ from \in Int /\ to \in Int /\ from <= to /\ v \in Int
      BY <3>1, <3>2 DEF Parts, PartOK
    <3>4. v \in Visited(from, to, step) <=> from <= v /\ v <= to /\ (v - from) % step = 0
      <4> HIDE DEF from, to, step
      <4> QED BY <3>3, PartValues
    <3> HIDE DEF from, to
    <3> QED BY <3>1, <3>4 DEF Visited
  <2>2. v \in Values(field, min, max) <=>
          \E part \in field.parts :
            LET b == Bounds(part, min, max)
            IN  v \in {b[1] + k * part.step : k \in 0..((b[2] - b[1]) \div part.step)}
    BY <1>2 DEF Values
  <2>3. Admits(field, v, min, max) <=>
          \E part \in field.parts :
            LET b == Bounds(part, min, max)
            IN  b[1] <= v /\ v <= b[2] /\ (v - b[1]) % part.step = 0
    BY <1>2 DEF Admits, Bounds
  <2> QED BY <2>1, <2>2, <2>3
<1> QED BY <1>1, <1>2

(* Of the weekdays too: Sunday is admitted as 0 or as 7. *)
LEMMA WeekdaysAre ==
  ASSUME NEW field \in Fields, FieldOK(field, 0, 7), NEW d \in 0..6
  PROVE  d \in Weekdays(field) <=> AdmitsWeekday(field, d)
<1>1. \A v \in 0..7 : v \in Values(field, 0, 7) <=> Admits(field, v, 0, 7)
  BY ValuesAre
<1>2. d \in Weekdays(field) <=>
        \E v \in Values(field, 0, 7) : d = IF v = 7 THEN 0 ELSE v
  BY DEF Weekdays
<1>3. CASE d = 0
  <2>1. d \in Weekdays(field) <=> 0 \in Values(field, 0, 7) \/ 7 \in Values(field, 0, 7)
    BY <1>2, <1>3
  <2> QED BY <1>1, <1>3, <2>1 DEF AdmitsWeekday
<1>4. CASE d # 0
  <2>1. d \in Weekdays(field) <=> d \in Values(field, 0, 7)
    BY <1>2, <1>4
  <2> QED BY <1>1, <1>4, <2>1 DEF AdmitsWeekday
<1> QED BY <1>3, <1>4

-----------------------------------------------------------------------------
(* Local time. *)

(* The minutes about which Next or a property asks. *)
Asked(m) == m \in Nat /\ m <= MaxClock + Horizon

(* The local reading of such a minute is one of the fields' ranges. *)
LEMMA LocalType ==
  ASSUME TypeOK, NEW m, Asked(m)
  PROVE  /\ Local(m).minute \in 0..(MinutesPerHour - 1)
         /\ Local(m).hour \in 0..(HoursPerDay - 1)
         /\ Date(Local(m).day).dom \in 1..DaysPerMonth
         /\ Date(Local(m).day).month \in 1..Months
         /\ Date(Local(m).day).dow \in 0..6
<1> DEFINE r == m + (IF m < zone.at THEN zone.before ELSE zone.after)
           D == MinutesPerHour * HoursPerDay
           day == r \div D
<1>1. /\ MinutesPerHour \in Nat \ {0} /\ HoursPerDay \in Nat \ {0}
      /\ MaxClock \in Nat /\ Horizon \in Nat
  BY CronAssumption
<1>2. zone.at \in Nat /\ zone.before \in Nat /\ zone.after \in Nat /\ zone \in Zones
  BY CronAssumption DEF TypeOK
<1>3. r \in Nat /\ r <= MaxClock + Horizon + zone.before + zone.after
  BY <1>1, <1>2 DEF Asked
<1>4. Local(m) = [minute |-> r % MinutesPerHour, hour |-> (r \div MinutesPerHour) % HoursPerDay, day |-> day]
  BY DEF Local
<1> HIDE DEF r
<1>5. (r % MinutesPerHour) \in 0..(MinutesPerHour - 1) /\ r \div MinutesPerHour \in Int
  BY <1>1, <1>3, DivMod
<1>6. ((r \div MinutesPerHour) % HoursPerDay) \in 0..(HoursPerDay - 1)
  BY <1>1, <1>5, DivMod
<1>7. D \in Nat \ {0}
  <2>1. MinutesPerHour * HoursPerDay >= MinutesPerHour * 1
    BY <1>1, Scales
  <2> QED BY <1>1, <2>1
<1> HIDE DEF D
<1>8. day \in 0..r
  <2>1. day \in Nat /\ (r % D) \in 0..(D - 1) /\ r = D * day + (r % D)
    <3>1. r \in Int
      BY <1>3
    <3> HIDE DEF day
    <3>2. r \div D \in Nat /\ (r % D) \in 0..(D - 1) /\ r = D * (r \div D) + (r % D)
      BY <1>3, <1>7, <3>1, DivMod
    <3> QED BY <3>2 DEF day
  <2> HIDE DEF day
  <2>2. day * 1 <= day * D
    BY <1>7, <2>1, Scales
  <2> QED BY <1>3, <1>7, <2>1, <2>2
<1> HIDE DEF day
<1>9. Date(day) \in [dom : 1..DaysPerMonth, month : 1..Months, dow : 0..6]
  <2>1. day \in 0..(MaxClock + Horizon + zone.before + zone.after)
    BY <1>1, <1>2, <1>3, <1>8
  <2> QED BY <1>2, <2>1, CronAssumption
<1> QED BY <1>4, <1>5, <1>6, <1>9

-----------------------------------------------------------------------------
(* The search of Next. *)

(* cronExpr.matches accepts the minutes that the expression denotes: the     *)
(* loops of parseField, Sunday as 0 and 7, and the four cases of the switch  *)
(* on the two day fields come to what spec.md:258-269 says.                  *)
THEOREM MatchesMeansDue ==
  ASSUME TypeOK, Cron, Accepted(schedule), NEW m, Asked(m)
  PROVE  Matches(schedule, m) <=> Due(m)
<1> DEFINE l == Local(m)
           date == Date(l.day)
<1>1. schedule \in Crons
  BY CronAssumption DEF TypeOK, Cron, Intervals
<1>2. /\ {schedule.min, schedule.hour, schedule.dom, schedule.month, schedule.dow} \subseteq Fields
      /\ FieldOK(schedule.min, 0, MinutesPerHour - 1) /\ FieldOK(schedule.hour, 0, HoursPerDay - 1)
      /\ FieldOK(schedule.dom, 1, DaysPerMonth) /\ FieldOK(schedule.month, 1, Months)
      /\ FieldOK(schedule.dow, 0, 7)
  BY <1>1 DEF Crons, Cron, Accepted
<1>3. /\ l.minute \in 0..(MinutesPerHour - 1) /\ l.hour \in 0..(HoursPerDay - 1)
      /\ date.dom \in 1..DaysPerMonth /\ date.month \in 1..Months /\ date.dow \in 0..6
  BY LocalType
<1>4. {MinutesPerHour, HoursPerDay, DaysPerMonth, Months} \subseteq Int
  BY CronAssumption
<1> HIDE DEF l
<1> HIDE DEF date
<1>5. l.minute \in Values(schedule.min, 0, MinutesPerHour - 1)
        <=> Admits(schedule.min, l.minute, 0, MinutesPerHour - 1)
  BY <1>2, <1>3, <1>4, ValuesAre
<1>6. l.hour \in Values(schedule.hour, 0, HoursPerDay - 1)
        <=> Admits(schedule.hour, l.hour, 0, HoursPerDay - 1)
  BY <1>2, <1>3, <1>4, ValuesAre
<1>7. date.dom \in Values(schedule.dom, 1, DaysPerMonth)
        <=> Admits(schedule.dom, date.dom, 1, DaysPerMonth)
  BY <1>2, <1>3, <1>4, ValuesAre
<1>8. date.month \in Values(schedule.month, 1, Months)
        <=> Admits(schedule.month, date.month, 1, Months)
  BY <1>2, <1>3, <1>4, ValuesAre
<1>9. date.dow \in Weekdays(schedule.dow) <=> AdmitsWeekday(schedule.dow, date.dow)
  BY <1>2, <1>3, WeekdaysAre
<1>10. DayMatches(schedule, date) <=>
         IF schedule.dom.star \/ schedule.dow.star
         THEN Admits(schedule.dom, date.dom, 1, DaysPerMonth) /\ AdmitsWeekday(schedule.dow, date.dow)
         ELSE Admits(schedule.dom, date.dom, 1, DaysPerMonth) \/ AdmitsWeekday(schedule.dow, date.dow)
  <2>1. /\ schedule.dom.star => Admits(schedule.dom, date.dom, 1, DaysPerMonth)
        /\ schedule.dow.star => AdmitsWeekday(schedule.dow, date.dow)
    BY DEF Admits, AdmitsWeekday
  <2> QED BY <1>7, <1>9, <2>1 DEF DayMatches
<1>11. Matches(schedule, m) <=>
         /\ l.minute \in Values(schedule.min, 0, MinutesPerHour - 1)
         /\ l.hour \in Values(schedule.hour, 0, HoursPerDay - 1)
         /\ date.month \in Values(schedule.month, 1, Months)
         /\ DayMatches(schedule, date)
  BY DEF Matches, l, date
<1>12. Due(m) <=>
         /\ Admits(schedule.min, l.minute, 0, MinutesPerHour - 1)
         /\ Admits(schedule.hour, l.hour, 0, HoursPerDay - 1)
         /\ Admits(schedule.month, date.month, 1, Months)
         /\ IF schedule.dom.star \/ schedule.dow.star
            THEN Admits(schedule.dom, date.dom, 1, DaysPerMonth) /\ AdmitsWeekday(schedule.dow, date.dow)
            ELSE Admits(schedule.dom, date.dom, 1, DaysPerMonth) \/ AdmitsWeekday(schedule.dow, date.dow)
  BY DEF Due, Denotes, l, date
<1> QED BY <1>5, <1>6, <1>8, <1>10, <1>11, <1>12

(* What Next returns for a cron expression: the start of the first minute    *)
(* after t that the expression denotes, or a day later when the year to come *)
(* has none; either way no minute it denotes lies in between.                *)
LEMMA NextTimeIs ==
  ASSUME TypeOK, Cron, Accepted(schedule), NEW t \in 0..MaxClock
  PROVE  /\ NextTime(t) \in Nat /\ NextTime(t) > t
         /\ IF \E m \in Searched(t) : Due(m)
            THEN NextTime(t) % Ticks = 0 /\ Due(NextTime(t) \div Ticks)
            ELSE NextTime(t) = t + Day
         /\ \A m \in Minutes : m * Ticks > t /\ Due(m) => NextTime(t) <= m * Ticks
<1> DEFINE q == t \div Ticks
           hits == {m \in (q + 1)..(q + Horizon) : Due(m)}
<1>1. /\ Ticks \in Nat \ {0} /\ MinutesPerHour \in Nat \ {0} /\ HoursPerDay \in Nat \ {0}
      /\ MaxClock \in Nat /\ Horizon \in Nat /\ Horizon >= MinutesPerHour * HoursPerDay
  BY CronAssumption
<1>2. /\ q \in Nat /\ (t + Ticks) \div Ticks = q + 1
      /\ \A m \in Int : m * Ticks > t <=> m >= q + 1
  <2>1. t \in Nat
    BY <1>1
  <2> QED BY <1>1, <2>1, NextMinute
<1>3. q <= t
  <2>1. ~(t * Ticks < t * 1)
    BY <1>1, Scales
  <2>2. ~((t + 1) * Ticks < (t + 1) * 1)
    BY <1>1, Scales
  <2>3. (t + 1) * Ticks > t
    BY <1>1, <2>2
  <2> HIDE DEF q
  <2> QED BY <1>1, <1>2, <2>3
<1> HIDE DEF q
<1>4. \A m \in (q + 1)..(q + Horizon) : Asked(m) /\ m \in Nat
  BY <1>1, <1>2, <1>3 DEF Asked
<1>5. hits = {m \in ((t + Ticks) \div Ticks)..((t + Ticks) \div Ticks + Horizon - 1) : Matches(schedule, m)}
  <2>1. \A m \in (q + 1)..(q + Horizon) : Matches(schedule, m) <=> Due(m)
    BY <1>4, MatchesMeansDue
  <2>2. (q + 1)..(q + 1 + Horizon - 1) = (q + 1)..(q + Horizon)
    BY <1>1, <1>2
  <2> QED BY <1>2, <2>1, <2>2
<1>6. NextTime(t) = IF hits = {} THEN t + Day ELSE Ticks * Min(hits)
  <2> HIDE DEF hits
  <2> QED BY <1>5 DEF NextTime, Cron
<1>7. Searched(t) = (q + 1)..(q + Horizon)
  <2>1. Searched(t) = {m \in q..(q + Horizon) : m * Ticks > t}
    BY DEF Searched, q
  <2>2. \A m \in q..(q + Horizon) : m \in Int
    BY <1>1, <1>2
  <2> QED BY <1>1, <1>2, <2>1, <2>2
<1>8. (\E m \in Searched(t) : Due(m)) <=> hits # {}
  BY <1>7
<1>9. Day \in Nat /\ Day > 0 /\ Day <= Ticks * Horizon
  <2> DEFINE P == MinutesPerHour * HoursPerDay
  <2>1. MinutesPerHour * HoursPerDay >= MinutesPerHour * 1
    BY <1>1, Scales
  <2>2. P \in Nat \ {0} /\ P <= Horizon
    BY <1>1, <2>1
  <2>3. Day = Ticks * P
    BY <1>1 DEF Day
  <2> HIDE DEF P
  <2>4. Ticks * P <= Ticks * Horizon /\ Ticks * 1 <= Ticks * P /\ Ticks * P \in Int
    BY <1>1, <2>2, Scales
  <2> QED BY <1>1, <2>3, <2>4
<1>10. CASE hits = {}
  <2>1. NextTime(t) = t + Day
    BY <1>6, <1>10
  <2>2. ASSUME NEW m \in Minutes, m * Ticks > t, Due(m)
        PROVE  NextTime(t) <= m * Ticks
    <3>1. m \in Int /\ m >= q + 1
      BY <1>1, <1>2, <2>2 DEF Minutes
    <3>2. m >= q + 1 + Horizon
      BY <1>1, <1>2, <1>10, <2>2, <3>1
    <3>3. (q + 1 + Horizon) * Ticks <= m * Ticks
      BY <1>1, <1>2, <3>1, <3>2, Scales
    <3>4. (q + 1 + Horizon) * Ticks = (q + 1) * Ticks + Ticks * Horizon
      BY <1>1, <1>2
    <3>5. (q + 1) * Ticks > t /\ (q + 1) * Ticks \in Int /\ m * Ticks \in Int /\ Ticks * Horizon \in Int
      BY <1>1, <1>2, <3>1
    <3> QED BY <1>9, <2>1, <3>3, <3>4, <3>5
  <2> QED BY <1>8, <1>9, <1>10, <2>1, <2>2
<1>11. CASE hits # {}
  <2>1. hits \in SUBSET Nat
    BY <1>4
  <2>2. Min(hits) \in hits /\ \A m \in hits : Min(hits) <= m
    BY <1>11, <2>1, MinIs
  <2> DEFINE n == Min(hits)
  <2>3. n \in Nat /\ n >= q + 1 /\ n <= q + Horizon /\ Due(n)
    BY <1>2, <1>4, <2>2
  <2>4. NextTime(t) = Ticks * n
    BY <1>6, <1>11
  <2> HIDE DEF n
  <2>5. Ticks * n \in Nat /\ n * Ticks > t /\ Ticks * n = n * Ticks
    <3>1. Ticks * n \in Int /\ Ticks * n = n * Ticks
      BY <1>1, <2>3
    <3> QED BY <1>1, <1>2, <2>3, <3>1
  <2>6. (Ticks * n) % Ticks = 0 /\ (Ticks * n) \div Ticks = n
    BY <1>1, <2>3, <2>5, Multiple
  <2>7. ASSUME NEW m \in Minutes, m * Ticks > t, Due(m)
        PROVE  NextTime(t) <= m * Ticks
    <3>1. m \in Int /\ m >= q + 1
      BY <1>1, <1>2, <2>7 DEF Minutes
    <3>2. n <= m
      <4>1. CASE m <= q + Horizon
        <5>1. m \in hits
          BY <1>1, <1>2, <2>7, <3>1, <4>1
        <5> QED BY <2>2, <5>1 DEF n
      <4>2. CASE m > q + Horizon
        BY <1>1, <1>2, <2>3, <3>1, <4>2
      <4> QED BY <1>1, <1>2, <3>1, <4>1, <4>2
    <3>3. n * Ticks <= m * Ticks
      BY <1>1, <2>3, <3>1, <3>2, Scales
    <3> QED BY <2>4, <2>5, <3>3
  <2> QED BY <1>8, <1>11, <2>3, <2>4, <2>5, <2>6, <2>7
<1> QED BY <1>10, <1>11

-----------------------------------------------------------------------------
(* The loop of Run. *)

(* IInv holds when the program starts. *)
LEMMA InitInv == Init => IInv
<1> SUFFICES ASSUME Init PROVE IInv
  OBVIOUS
<1>1. TypeOK
  <2>1. 0 \in 0..MaxClock /\ 0 \in 0..MaxSettings
    BY CronAssumption
  <2> QED BY <2>1 DEF Init, TypeOK
<1> QED BY <1>1 DEF Init, IInv, Known, FirstDue, NotEarly

(* What an expression denotes does not depend on the clock, the timer or the *)
(* goroutine.                                                                *)
LEMMA DueStays ==
  ASSUME UNCHANGED <<schedule, zone>>
  PROVE  (Cron' <=> Cron) /\ \A m : Due(m)' <=> Due(m)
BY DEF Cron, Due, Local

(* A step that leaves the schedule, the time zone, nextRun and asked alone   *)
(* keeps FirstDue, unless it begins a wait.                                  *)
LEMMA FirstDueStays ==
  ASSUME FirstDue, UNCHANGED <<schedule, zone, nextRun, asked>>,
         pc' \in {"asked", "wait"} => pc \in {"asked", "wait"}
  PROVE  FirstDue'
<1>1. (Cron' <=> Cron) /\ \A m : Due(m)' <=> Due(m)
  BY DueStays
<1>2. SUFFICES ASSUME Cron, pc \in {"asked", "wait"}
               PROVE  \A m \in Minutes : m * Ticks > asked /\ Due(m)' => nextRun <= m * Ticks
  BY <1>1 DEF FirstDue, Minutes
<1> QED BY <1>1, <1>2 DEF FirstDue

(* next.Next(time.Now()) returns a time that is still to come. *)
LEMMA AskInv ==
  ASSUME IInv, Ask
  PROVE  IInv'
<1>1. Accepted(schedule) /\ clock \in 0..MaxClock /\ MaxClock \in Nat /\ pc = "ask"
  BY CronAssumption DEF IInv, TypeOK, Known, Ask
<1>2. NextTime(clock) \in Nat
  <2>1. CASE Cron
    BY <1>1, <2>1, NextTimeIs DEF IInv
  <2>2. CASE ~Cron
    <3>1. schedule \in Intervals /\ schedule.kind = "interval"
      BY <2>2, CronAssumption DEF IInv, TypeOK, Cron, Crons, Intervals
    <3>2. schedule.every \in Int /\ schedule.every > 0
      BY <1>1, <3>1 DEF Intervals, Accepted
    <3>3. NextTime(clock) = clock + schedule.every
      BY <3>1 DEF NextTime
    <3> QED BY <1>1, <3>2, <3>3
  <2> QED BY <2>1, <2>2
<1>3. TypeOK'
  BY <1>1, <1>2 DEF IInv, TypeOK, Ask
<1>4. FirstDue'
  <2>1. (Cron' <=> Cron) /\ \A m : Due(m)' <=> Due(m)
    BY DueStays DEF Ask
  <2>2. SUFFICES ASSUME Cron, NEW m \in Minutes, m * Ticks > clock, Due(m)
                 PROVE  NextTime(clock) <= m * Ticks
    BY <2>1 DEF FirstDue, Minutes, Ask
  <2> QED BY <1>1, <2>2, NextTimeIs DEF IInv
<1>5. Known' /\ NotEarly'
  BY <1>1 DEF IInv, Known, NotEarly, Ask, Accepted
<1> QED BY <1>3, <1>4, <1>5 DEF IInv

(* Every step of the program, of time and of whoever sets the clock          *)
(* preserves IInv.                                                           *)
LEMMA NextInv ==
  ASSUME IInv, [Next]_vars
  PROVE  IInv'
<1>1. /\ TypeOK /\ Known /\ FirstDue /\ NotEarly
      /\ clock \in Nat /\ timer \in Nat /\ nextRun \in Nat /\ settings \in Nat
      /\ MaxClock \in Nat /\ MaxSettings \in Nat
  BY CronAssumption DEF IInv, TypeOK
<1>2. CASE MakeSchedule
  <2>1. TypeOK' /\ Known' /\ NotEarly'
    BY <1>1, <1>2 DEF MakeSchedule, TypeOK, Known, NotEarly, Accepted
  <2>2. FirstDue'
    BY <1>1, <1>2, FirstDueStays DEF MakeSchedule
  <2> QED BY <2>1, <2>2 DEF IInv
<1>3. CASE Ask
  BY <1>3, AskInv
<1>4. CASE SetTimer
  <2>1. TypeOK' /\ Known' /\ NotEarly'
    BY <1>1, <1>4 DEF SetTimer, TypeOK, Known, NotEarly, Accepted
  <2>2. FirstDue'
    BY <1>1, <1>4, FirstDueStays DEF SetTimer
  <2> QED BY <2>1, <2>2 DEF IInv
<1>5. CASE Fire
  <2>1. TypeOK' /\ Known' /\ NotEarly'
    BY <1>1, <1>5 DEF Fire, TypeOK, Known, NotEarly, Accepted
  <2>2. FirstDue'
    BY <1>5 DEF Fire, FirstDue
  <2> QED BY <2>1, <2>2 DEF IInv
<1>6. CASE CycleEnds
  <2>1. TypeOK' /\ Known' /\ NotEarly'
    BY <1>1, <1>6 DEF CycleEnds, TypeOK, Known, NotEarly, Accepted
  <2>2. FirstDue'
    BY <1>1, <1>6, FirstDueStays DEF CycleEnds
  <2> QED BY <2>1, <2>2 DEF IInv
<1>7. CASE Stop
  <2>1. TypeOK' /\ Known' /\ NotEarly'
    BY <1>1, <1>7 DEF Stop, TypeOK, Known, NotEarly, Accepted
  <2>2. FirstDue'
    BY <1>1, <1>7, FirstDueStays DEF Stop
  <2> QED BY <2>1, <2>2 DEF IInv
<1>8. CASE Elapse
  <2>1. TypeOK' /\ Known' /\ NotEarly'
    BY <1>1, <1>8 DEF Elapse, TypeOK, Known, NotEarly, Accepted
  <2>2. FirstDue'
    BY <1>1, <1>8, FirstDueStays DEF Elapse
  <2> QED BY <2>1, <2>2 DEF IInv
<1>9. ASSUME NEW t \in {-Ticks - 1, Ticks + 1}, SetClock(t)
      PROVE  IInv'
  <2>1. t \in Int
    BY CronAssumption
  <2>2. TypeOK' /\ Known' /\ NotEarly'
    <3>1. TypeOK'
      <4>1. /\ settings' \in 0..MaxSettings /\ clock' \in 0..MaxClock
            /\ setBack \in BOOLEAN => setBack' \in BOOLEAN
        BY <1>1, <1>9, <2>1 DEF SetClock
      <4> QED BY <1>1, <1>9, <4>1 DEF SetClock, TypeOK
    <3>2. Known'
      BY <1>1, <1>9 DEF SetClock, Known, Accepted
    <3>3. NotEarly'
      <4>1. t >= 0 => clock' >= clock /\ clock' \in Int
        BY <1>1, <1>9, <2>1 DEF SetClock
      <4>2. CASE t >= 0
        <5>1. UNCHANGED <<pc, nextRun, timer>> /\ (~setBack' => ~setBack)
          BY <1>9, Zenon DEF SetClock
        <5> QED BY <1>1, <4>1, <4>2, <5>1 DEF NotEarly
      <4>3. CASE t < 0
        BY <1>9, <4>3 DEF SetClock, NotEarly
      <4> QED BY <2>1, <4>2, <4>3
    <3> QED BY <3>1, <3>2, <3>3
  <2>3. FirstDue'
    BY <1>1, <1>9, FirstDueStays DEF SetClock
  <2> QED BY <2>2, <2>3 DEF IInv
<1>10. CASE UNCHANGED vars
  <2>1. TypeOK' /\ Known' /\ NotEarly'
    BY <1>1, <1>10 DEF vars, TypeOK, Known, NotEarly, Accepted
  <2>2. FirstDue'
    BY <1>1, <1>10, FirstDueStays DEF vars
  <2> QED BY <2>1, <2>2 DEF IInv
<1> QED BY <1>2, <1>3, <1>4, <1>5, <1>6, <1>7, <1>8, <1>9, <1>10 DEF Next

(* IInv holds in every state the program reaches. *)
LEMMA Invariant == Spec => []IInv
<1>1. IInv /\ [Next]_vars => IInv'
  BY NextInv
<1> QED BY <1>1, InitInv, PTL DEF Spec

-----------------------------------------------------------------------------
(* The theorems. *)

(* The times that Run computes stay times: Next never returns one before the *)
(* epoch and the timer is never negative (scheduler.go:41-58, app.go:97-131).*)
THEOREM TypeCorrect == Spec => []TypeOK
<1>1. IInv => TypeOK
  BY DEF IInv
<1> QED BY <1>1, Invariant, PTL

(* While run waits, no minute that the expression denotes passes by          *)
(* (spec.md:337-338), however the clock is set.                              *)
THEOREM NothingMissed == Spec => []NoMatchMissed
<1>1. IInv => NoMatchMissed
  <2> SUFFICES ASSUME IInv, Cron, pc \in {"asked", "wait"}, NEW m \in 0..(clock \div Ticks)
               PROVE  m * Ticks > asked /\ Due(m) => nextRun <= m * Ticks
    BY DEF NoMatchMissed
  <2>1. Ticks \in Nat \ {0} /\ MaxClock \in Nat /\ clock \in 0..MaxClock /\ FirstDue
    BY CronAssumption DEF IInv, TypeOK
  <2>2. clock \div Ticks <= MaxClock \div Ticks
    <3> DEFINE a == clock \div Ticks
               b == MaxClock \div Ticks
    <3>1. /\ a \in Nat /\ b \in Nat
          /\ \A n \in Int : n * Ticks > clock <=> n >= a + 1
          /\ \A n \in Int : n * Ticks > MaxClock <=> n >= b + 1
      <4>1. clock \in Nat
        BY <2>1
      <4> QED BY <2>1, <4>1, NextMinute
    <3> HIDE DEF a, b
    <3>2. (b + 1) * Ticks > MaxClock
      BY <3>1
    <3>3. (b + 1) * Ticks > clock
      BY <2>1, <3>1, <3>2
    <3>4. b + 1 >= a + 1
      BY <3>1, <3>3
    <3> QED BY <3>1, <3>4 DEF a, b
  <2>3. m \in Minutes
    <3>1. clock \div Ticks \in Int /\ MaxClock \div Ticks \in Int
      BY <2>1, DivMod
    <3> QED BY <2>2, <3>1 DEF Minutes
  <2> QED BY <2>1, <2>3 DEF FirstDue
<1> QED BY <1>1, Invariant, PTL

(* Each cycle is scheduled for a minute that the expression denotes and that *)
(* is later than the one scheduled before, so that no minute has two cycles, *)
(* unless the clock was set back; an expression that denotes no minute of    *)
(* the coming year runs daily (spec.md:258, scheduler.go:57).                *)
THEOREM ScheduledWell == Spec => ScheduledAtMatches
<1>1. ASSUME IInv, Ask, Cron, ~setBack
      PROVE  /\ nextRun' > nextRun
             /\ IF \E m \in Searched(clock) : Due(m)
                THEN nextRun' % Ticks = 0 /\ Due(nextRun' \div Ticks)
                ELSE nextRun' = clock + Day
  <2>1. /\ TypeOK /\ Accepted(schedule) /\ clock \in 0..MaxClock
        /\ nextRun <= clock /\ nextRun \in Nat /\ clock \in Nat
    BY <1>1, CronAssumption DEF IInv, TypeOK, Known, NotEarly, Ask
  <2>2. nextRun' = NextTime(clock)
    BY <1>1 DEF Ask
  <2> QED BY <1>1, <2>1, <2>2, NextTimeIs
<1>2. IInv /\ [Next]_vars =>
        [Ask /\ Cron /\ ~setBack =>
           /\ nextRun' > nextRun
           /\ IF \E m \in Searched(clock) : Due(m)
              THEN nextRun' % Ticks = 0 /\ Due(nextRun' \div Ticks)
              ELSE nextRun' = clock + Day]_vars
  BY <1>1
<1> QED BY <1>2, Invariant, PTL DEF Spec, ScheduledAtMatches
=============================================================================
