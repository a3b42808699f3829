------------------------------- MODULE Calendar -------------------------------
(***************************************************************************)
(* The campaign calendar: the arithmetic between world ticks (minutes from *)
(* the epoch) and game dates, and the queries over timeline events.  The   *)
(* service keeps no state, so every method is an operator whose first      *)
(* argument is the calendar definition.                                    *)
(*                                                                         *)
(* A name is the position of the month, or of the intercalary day, in its  *)
(* list of the definition: a slot of the year is <<ic, name, day>>, as an  *)
(* entry of the layout's day index.                                        *)
(***************************************************************************)
EXTENDS Integers, SequencesExt

(***************************************************************************)
(* Definitions and dates.                                                  *)
(***************************************************************************)
Sum(seq) == FoldLeft(LAMBDA a, b : a + b, 0, seq)

\* A date of the definition: a day of a month or an intercalary day, never
\* both, and a time of day.
ValidDate(cal, date) ==
  /\ \/ /\ date.slot[1]
        /\ date.slot[2] \in DOMAIN cal.after
        /\ date.slot[3] = 1
     \/ /\ ~date.slot[1]
        /\ date.slot[2] \in DOMAIN cal.months
        /\ date.slot[3] \in 1..cal.months[date.slot[2]]
  /\ date.hour \in 0..cal.hours - 1
  /\ date.minute \in 0..cal.minutes - 1

\* months[m] is the length of month m, after[k] the month that intercalary
\* day k follows.  (Names, unique by validation, are positions here.)
ValidDefinition(cal) ==
  /\ cal.months # <<>> /\ \A m \in DOMAIN cal.months : cal.months[m] >= 1
  /\ \A k \in DOMAIN cal.after : cal.after[k] \in DOMAIN cal.months
  /\ cal.hours >= 1 /\ cal.minutes >= 1
  /\ ValidDate(cal, cal.epoch)

(***************************************************************************)
(* The layout of a year: each month's days, then the intercalary days that *)
(* follow the month, in declaration order.                                 *)
(***************************************************************************)
MinutesPerDay(cal) == cal.hours * cal.minutes
DaysPerYear(cal) == Sum(cal.months) + Len(cal.after)

FollowsMonth(cal, m) ==
  SelectSeq([k \in DOMAIN cal.after |-> <<TRUE, k, 1>>], LAMBDA slot : cal.after[slot[2]] = m)

MonthSlots(cal, m) ==
  [d \in 1..cal.months[m] |-> <<FALSE, m, d>>] \o FollowsMonth(cal, m)

DayIndex(cal) == FlattenSeq([m \in DOMAIN cal.months |-> MonthSlots(cal, m)])

MonthOffset(cal, m) ==
  Sum([i \in 1..m - 1 |-> cal.months[i]]) + Len(SelectSeq(cal.after, LAMBDA a : a < m))

OffsetOfAllEarlier(cal, k) ==     \* mutant: days after other months counted too
  MonthOffset(cal, cal.after[k]) + cal.months[cal.after[k]] + k - 1
IntercalaryOffset(cal, k) ==
  LET m == cal.after[k]
      earlier == SelectSeq(SubSeq(cal.after, 1, k - 1), LAMBDA a : a = m)
  IN MonthOffset(cal, m) + cal.months[m] + Len(earlier)

DayOffset(cal, date) ==
  IF date.slot[1] THEN IntercalaryOffset(cal, date.slot[2])
  ELSE MonthOffset(cal, date.slot[2]) + date.slot[3] - 1

(***************************************************************************)
(* Conversion and elapsed time.                                            *)
(***************************************************************************)
AbsoluteMinute(cal, date) ==
  (date.year * DaysPerYear(cal) + DayOffset(cal, date)) * MinutesPerDay(cal)
    + date.hour * cal.minutes + date.minute

DateToTick(cal, date) == AbsoluteMinute(cal, date) - AbsoluteMinute(cal, cal.epoch)

TickToDate(cal, tick) ==
  LET absolute == AbsoluteMinute(cal, cal.epoch) + tick
      perYear == DaysPerYear(cal) * MinutesPerDay(cal)
      inYear == absolute % perYear
      inDay == inYear % MinutesPerDay(cal)
  IN [year |-> absolute \div perYear,
      slot |-> DayIndex(cal)[inYear \div MinutesPerDay(cal) + 1],
      hour |-> inDay \div cal.minutes,
      minute |-> inDay % cal.minutes]

Advance(tick, minutes) == tick + minutes
TimeUntil(start, end) == end - start

(***************************************************************************)
(* Timeline events.  lo..hi holds the ticks the event may have happened at *)
(* (for an exact event lo = hi); an event of unknown time has no interval. *)
(***************************************************************************)
ValidEvent(ev) ==
  \/ ev.certainty = "exact" /\ ev.lo = ev.hi
  \/ ev.certainty \in {"approximate", "range"} /\ ev.lo <= ev.hi
  \/ ev.certainty = "unknown"

HasInterval(ev) == ev.certainty # "unknown"

Overlaps(ev, start, end) == ev.lo <= end /\ ev.hi >= start

Distance(a, b) ==
  CASE a.hi < b.lo -> b.lo - a.hi
    [] b.hi < a.lo -> a.lo - b.hi
    [] OTHER -> 0

\* The order of tuples of numbers.
Before(a, b) ==
  \E i \in DOMAIN a : a[i] < b[i] /\ \A j \in 1..i - 1 : a[j] = b[j]

EventKey(ev) == <<ev.lo, ev.hi, ev.id>>
OverdueKey(ev) == <<ev.hi, ev.lo, ev.id>>

\* Refused (an error) when the interval is empty.
EventsBetween(events, start, end) ==
  SortSeq(SelectSeq(events, LAMBDA ev : HasInterval(ev) /\ Overlaps(ev, start, end)),
          LAMBDA a, b : Before(EventKey(a), EventKey(b)))

\* Refused when the time of the target is unknown.
EventsNear(events, target, radius) ==
  SortSeq(SelectSeq(events, LAMBDA ev : /\ ev.id # target.id /\ HasInterval(ev)
                                        /\ Distance(target, ev) <= radius),
          LAMBDA a, b : Before(<<Distance(target, a)>> \o EventKey(a),
                               <<Distance(target, b)>> \o EventKey(b)))

Upcoming(cal, events, now, days) ==
  EventsBetween(events, now, now + days * MinutesPerDay(cal))

OverdueByStart(events, now) ==    \* mutant: overdue as soon as it may have begun
  SortSeq(SelectSeq(events, LAMBDA ev : HasInterval(ev) /\ ev.lo < now),
          LAMBDA a, b : Before(OverdueKey(a), OverdueKey(b)))

Overdue(events, now) ==
  SortSeq(SelectSeq(events, LAMBDA ev : HasInterval(ev) /\ ev.hi < now),
          LAMBDA a, b : Before(OverdueKey(a), OverdueKey(b)))

TimeUntilEvent(now, ev) == <<ev.lo - now, ev.hi - now>>
===============================================================================
