---------------------------- MODULE MCCronSchedule ----------------------------
(* Days of three hours of two minutes, years of two months; every second     *)
(* year the second month has a third day, so that an expression may have no  *)
(* match for longer than the five days that are searched.                    *)
EXTENDS CronSchedule, Sequences

MCYear == <<[dom |-> 1, month |-> 1], [dom |-> 2, month |-> 1],
            [dom |-> 1, month |-> 2], [dom |-> 2, month |-> 2]>>
MCDays == MCYear \o <<[dom |-> 3, month |-> 2]>> \o MCYear
MCDate(d) ==
  LET day == MCDays[(d % Len(MCDays)) + 1]
  IN  [dom |-> day.dom, month |-> day.month, dow |-> (d + 4) % 7]

(* No change, a gap of one hour, a repeated hour. *)
MCGap    == [at |-> 8, before |-> 0, after |-> 2]
MCRepeat == [at |-> 8, before |-> 2, after |-> 0]
MCZones  == {[at |-> 0, before |-> 0, after |-> 0], MCGap, MCRepeat}

Star         == [star |-> TRUE, parts |-> {}]
List(parts)  == [star |-> FALSE, parts |-> parts]
Span(a, b)  == [any |-> FALSE, from |-> a, to |-> b, step |-> 1]
Each(n)      == [any |-> TRUE, from |-> 0, to |-> 0, step |-> n]
Only(v)      == List({Span(v, v)})
Expr(min, hour, dom, month, dow) ==
  [kind |-> "cron", min |-> min, hour |-> hour, dom |-> dom, month |-> month, dow |-> dow]

Hourly == Expr(Only(1), Star, Star, Star, Star)
Daily  == Expr(Only(0), Only(1), Star, Star, Star)
MCSchedules ==
  {Hourly, Daily,
   Expr(Star, Star, Star, Star, Star),
   Expr(Only(0), Only(1), Only(2), Star, Only(7)),
   Expr(Only(0), Only(1), List({Each(2)}), Star, Star),
   Expr(Only(0), List({Span(0, 0), Span(2, 2)}), Star, Star, List({Span(5, 7)})),
   Expr(Only(0), Only(1), Star, Only(2), List({Each(3)})),
   Expr(Only(1), Only(2), Only(3), Only(2), Star),
   Expr(Only(1), Only(2), Only(3), Only(1), Star),
   Expr(Only(2), Star, Star, Star, Star),
   Expr(Only(0), Star, Star, Star, List({Span(6, 2)})),
   [kind |-> "interval", every |-> 5],
   [kind |-> "interval", every |-> 0]}

MCRepeatOnly == {MCRepeat}
MCDailyOnly  == {Daily}
=============================================================================
