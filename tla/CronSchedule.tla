----------------------------- MODULE CronSchedule -----------------------------
(***************************************************************************)
(* When cycles begin (internal/scheduler, and the loop of App.Run): the    *)
(* fields of a cron expression, the search for the next minute whose local *)
(* reading they match, and the wait for it, on a wall clock whose local    *)
(* reading jumps once (daylight saving) and which may be set.              *)
(*                                                                         *)
(* A minute of wall time is Ticks ticks.  An hour, a day and the year that *)
(* the search covers are shorter than ours; a week has seven days.         *)
(***************************************************************************)
EXTENDS Integers, FiniteSets, FiniteSetsExt

CONSTANTS
  Ticks,           (* ticks in a minute                                        *)
  MinutesPerHour,  (* 60 in the code                                           *)
  HoursPerDay,     (* 24                                                       *)
  DaysPerMonth,    (* 31, the greatest day-of-month                            *)
  Months,          (* 12                                                       *)
  Horizon,         (* minutes that Next looks at: 366 days                     *)
  Date(_),         (* Date(d): [dom, month, dow] of day d                      *)
  Zones,           (* time zones: [at, before, after], the local offset in     *)
                   (* minutes before and from minute `at`                      *)
  Schedules,       (* the values of sync.schedule to consider                  *)
  MaxClock,        (* bound on wall time, in ticks                             *)
  MaxSettings      (* bound on how often the clock is set                      *)

(* An interval in ticks, or the fields of a cron expression.  A field is    *)
(* [star, parts]: the text "*", or its comma-separated parts, each a range  *)
(* or "*", with a step.                                                     *)
Intervals == [kind : {"interval"}, every : Int]
Parts     == [any : BOOLEAN, from : Int, to : Int, step : Int]
Fields    == [star : BOOLEAN, parts : SUBSET Parts]
Crons     == [kind : {"cron"}, min : Fields, hour : Fields, dom : Fields, month : Fields, dow : Fields]

ASSUME CronAssumption ==
  /\ {Ticks, MinutesPerHour, HoursPerDay, DaysPerMonth, Months} \subseteq Nat \ {0}
  /\ Horizon \in Nat /\ Horizon >= MinutesPerHour * HoursPerDay
  /\ Zones \subseteq [at : Nat, before : Nat, after : Nat]
  /\ Schedules \subseteq Intervals \cup Crons
  /\ MaxClock \in Nat /\ MaxSettings \in Nat
  /\ \A z \in Zones : \A d \in 0..(MaxClock + Horizon + z.before + z.after) :
       Date(d) \in [dom : 1..DaysPerMonth, month : 1..Months, dow : 0..6]

Day == Ticks * MinutesPerHour * HoursPerDay

VARIABLES
  schedule,  (* sync.schedule: an interval in ticks, or a cron expression      *)
  zone,      (* sync.schedule.timezone                                         *)
  clock,     (* wall time                                                      *)
  pc,        (* the goroutine of Run                                           *)
  nextRun,   (* what Next returned                                             *)
  timer,     (* ticks until the timer fires                                    *)
  settings,  (* how often the clock has been set                               *)
  asked,     (* history: while run waits, the wall time Next was called with   *)
  setBack    (* history: the clock has been set back                           *)

vars == <<schedule, zone, clock, pc, nextRun, timer, settings, asked, setBack>>

TypeOK ==
  /\ schedule \in Schedules
  /\ zone \in Zones
  /\ clock \in 0..MaxClock
  /\ pc \in {"startup", "cycle", "ask", "asked", "wait", "exit"}
  /\ nextRun \in Nat
  /\ timer \in Nat
  /\ settings \in 0..MaxSettings
  /\ asked \in 0..MaxClock
  /\ setBack \in BOOLEAN

Init ==
  /\ schedule \in Schedules
  /\ zone \in Zones
  /\ clock = 0
  /\ pc = "startup"
  /\ nextRun = 0 /\ timer = 0 /\ settings = 0
  /\ asked = 0 /\ setBack = FALSE

-----------------------------------------------------------------------------
(* The fields of an expression.                                            *)

(* start and end of a part. *)
Bounds(part, min, max) == IF part.any THEN <<min, max>> ELSE <<part.from, part.to>>

PartOK(part, min, max) ==
  LET b == Bounds(part, min, max)
  IN  part.step > 0 /\ min <= b[1] /\ b[2] <= max /\ b[1] <= b[2]

FieldOK(field, min, max) == field.star \/ \A part \in field.parts : PartOK(part, min, max)

(* parseField: the loop from start to end by step. *)
Values(field, min, max) ==
  IF field.star THEN min..max
  ELSE UNION {LET b == Bounds(part, min, max)
              IN  {b[1] + k * part.step : k \in 0..((b[2] - b[1]) \div part.step)}
                : part \in field.parts}

\* Mutant of Weekdays: a Sunday written as 7 stays 7.
WeekdaysSeven(field) == Values(field, 0, 7)

(* Sunday is 0 and 7. *)
Weekdays(field) == {IF d = 7 THEN 0 ELSE d : d \in Values(field, 0, 7)}

(* parseCron, scheduler.New: config only checks that they are not both set. *)
Accepted(s) ==
  \/ s.kind = "interval" /\ s.every > 0
  \/ /\ s.kind = "cron"
     /\ FieldOK(s.min, 0, MinutesPerHour - 1) /\ FieldOK(s.hour, 0, HoursPerDay - 1)
     /\ FieldOK(s.dom, 1, DaysPerMonth) /\ FieldOK(s.month, 1, Months)
     /\ FieldOK(s.dow, 0, 7)

-----------------------------------------------------------------------------
(* Local time. *)

(* t.In(loc): the local reading of a minute. *)
Local(m) ==
  LET r == m + (IF m < zone.at THEN zone.before ELSE zone.after)
  IN  [minute |-> r % MinutesPerHour,
       hour   |-> (r \div MinutesPerHour) % HoursPerDay,
       day    |-> r \div (MinutesPerHour * HoursPerDay)]

(* The switch of matches: a restricted day field decides alone beside "*",  *)
(* and one of two restricted ones is enough.                                *)
DayMatches(s, date) ==
  LET domMatch == date.dom \in Values(s.dom, 1, DaysPerMonth)
      dowMatch == date.dow \in Weekdays(s.dow)
  IN  CASE s.dom.star /\ s.dow.star -> TRUE
        [] s.dom.star /\ ~s.dow.star -> dowMatch
        [] ~s.dom.star /\ s.dow.star -> domMatch
        [] OTHER -> domMatch \/ dowMatch

(* cronExpr.matches. *)
Matches(s, m) ==
  LET l    == Local(m)
      date == Date(l.day)
  IN  /\ l.minute \in Values(s.min, 0, MinutesPerHour - 1)
      /\ l.hour \in Values(s.hour, 0, HoursPerDay - 1)
      /\ date.month \in Values(s.month, 1, Months)
      /\ DayMatches(s, date)

\* Mutant of NextTime: the search begins with the current minute.
NextTimeSameMinute(t) ==
  LET first == t \div Ticks
      hits  == {m \in first..(first + Horizon - 1) : Matches(schedule, m)}
  IN  CASE schedule.kind = "interval" -> t + schedule.every
        [] OTHER -> IF hits = {} THEN t + Day ELSE Ticks * Min(hits)

(* Schedule.Next: the first match from the next full minute on, or a day    *)
(* later when the horizon has none.                                         *)
NextTime(t) ==
  LET first == (t + Ticks) \div Ticks
      hits  == {m \in first..(first + Horizon - 1) : Matches(schedule, m)}
  IN  CASE schedule.kind = "interval" -> t + schedule.every
        [] OTHER -> IF hits = {} THEN t + Day ELSE Ticks * Min(hits)

-----------------------------------------------------------------------------
(* Run. *)

(* The startup sync is over: the schedule is made, or run ends. *)
MakeSchedule ==
  /\ pc = "startup"
  /\ pc' = IF Accepted(schedule) THEN "ask" ELSE "exit"
  /\ UNCHANGED <<schedule, zone, clock, nextRun, timer, settings, asked, setBack>>

(* next.Next(time.Now()) *)
Ask ==
  /\ pc = "ask"
  /\ nextRun' = NextTime(clock)
  /\ asked' = clock
  /\ pc' = "asked"
  /\ UNCHANGED <<schedule, zone, clock, timer, settings, setBack>>

\* Mutant of SetTimer: a time that has just passed is not clamped to zero.
SetTimerNegative ==
  /\ pc = "asked"
  /\ timer' = nextRun - clock
  /\ pc' = "wait"
  /\ UNCHANGED <<schedule, zone, clock, nextRun, settings, asked, setBack>>

(* time.Until reads the clock again; a time that has passed is due at once. *)
SetTimer ==
  /\ pc = "asked"
  /\ timer' = IF nextRun < clock THEN 0 ELSE nextRun - clock
  /\ pc' = "wait"
  /\ UNCHANGED <<schedule, zone, clock, nextRun, settings, asked, setBack>>

(* The timer has fired, now or some time ago. *)
Fire ==
  /\ pc = "wait" /\ timer = 0
  /\ pc' = "cycle"
  /\ asked' = 0
  /\ UNCHANGED <<schedule, zone, clock, nextRun, timer, settings, setBack>>

CycleEnds ==
  /\ pc = "cycle"
  /\ pc' = "ask"
  /\ UNCHANGED <<schedule, zone, clock, nextRun, timer, settings, asked, setBack>>

(* ctx.Done() *)
Stop ==
  /\ pc = "wait"
  /\ pc' = "exit"
  /\ UNCHANGED <<schedule, zone, clock, nextRun, timer, settings, asked, setBack>>

(* Time passes: for the clock and, by the monotonic clock, for the timer. *)
Elapse ==
  /\ clock < MaxClock /\ pc # "exit"
  /\ clock' = clock + 1
  /\ timer' = IF timer = 0 THEN 0 ELSE timer - 1
  /\ UNCHANGED <<schedule, zone, pc, nextRun, settings, asked, setBack>>

(* The wall clock is set by t ticks; the timer does not notice. *)
SetClock(t) ==
  /\ settings < MaxSettings /\ settings' = settings + 1
  /\ pc # "exit"
  /\ clock + t \in 0..MaxClock
  /\ clock' = clock + t
  /\ setBack' = (setBack \/ t < 0)
  /\ UNCHANGED <<schedule, zone, pc, nextRun, timer, asked>>

Next ==
  \/ MakeSchedule \/ Ask \/ SetTimer \/ Fire \/ CycleEnds \/ Stop \/ Elapse
  \/ \E t \in {-Ticks - 1, Ticks + 1} : SetClock(t)

Spec == Init /\ [][Next]_vars

-----------------------------------------------------------------------------
(* What an expression means, by spec.md:258-269. *)

Admits(field, v, min, max) ==
  field.star \/ \E part \in field.parts :
    LET from == IF part.any THEN min ELSE part.from
    IN  /\ from <= v /\ v <= (IF part.any THEN max ELSE part.to)
        /\ (v - from) % part.step = 0

AdmitsWeekday(field, d) == Admits(field, d, 0, 7) \/ (d = 0 /\ Admits(field, 7, 0, 7))

Denotes(s, l) ==
  LET date == Date(l.day)
      dom  == Admits(s.dom, date.dom, 1, DaysPerMonth)
      dow  == AdmitsWeekday(s.dow, date.dow)
  IN  /\ Admits(s.min, l.minute, 0, MinutesPerHour - 1)
      /\ Admits(s.hour, l.hour, 0, HoursPerDay - 1)
      /\ Admits(s.month, date.month, 1, Months)
      /\ IF s.dom.star \/ s.dow.star THEN dom /\ dow ELSE dom \/ dow

Cron == schedule.kind = "cron"

(* A minute at which a cycle is to start. *)
Due(m) == Denotes(schedule, Local(m))

(* The minutes after a time and up to the end of the search. *)
Searched(t) == {m \in (t \div Ticks)..(t \div Ticks + Horizon) : m * Ticks > t}

(* Properties. *)

(* spec.md:258: each cycle is scheduled for a minute that the expression     *)
(* denotes, and never twice for one minute, however short the cycle and late *)
(* the timer -- unless the clock was set back.  An expression that denotes   *)
(* no minute of the coming year runs daily instead (scheduler.go:57).        *)
ScheduledAtMatches ==
  [][Ask /\ Cron /\ ~setBack =>
       /\ nextRun' > nextRun
       /\ IF \E m \in Searched(clock) : Due(m)
          THEN nextRun' % Ticks = 0 /\ Due(nextRun' \div Ticks)
          ELSE nextRun' = clock + Day]_vars

(* While run waits, no minute that the expression denotes passes by: one     *)
(* whose start the clock has reached is the one waited for, or a later one   *)
(* (spec.md:337-338).                                                        *)
NoMatchMissed ==
  Cron /\ pc \in {"asked", "wait"} =>
    \A m \in 0..(clock \div Ticks) : m * Ticks > asked /\ Due(m) => nextRun <= m * Ticks

(* spec.md:347-348: "daylight-saving transitions must not create duplicate   *)
(* sync cycles for the same matched local time."                             *)
DocOneCyclePerLocalTime ==
  [][Ask /\ Cron /\ nextRun > 0 =>
       Local(nextRun' \div Ticks) # Local(nextRun \div Ticks)]_vars
=============================================================================
