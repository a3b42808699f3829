----------------------------- MODULE MCWorldTime -----------------------------
(* Two processes, a clock of three revisions, and calendars of a few days, *)
(* months with several intercalary days declared in any order among them.  *)
EXTENDS WorldTime, TLC

CONSTANTS p1, p2, none

TwoProcs == {p1, p2}
Symmetry == Permutations(Procs)
MCTicks == {7}
MCMinutes == {-5}

At(slot) == [year |-> 0, slot |-> slot, hour |-> 0, minute |-> 0]

Calendars == {
  [months |-> <<2>>, after |-> <<>>, hours |-> 2, minutes |-> 2,
   epoch |-> At(<<FALSE, 1, 1>>)],
  [months |-> <<2, 1, 2>>, after |-> <<2, 1, 2, 1>>, hours |-> 1, minutes |-> 2,
   epoch |-> [year |-> 1, slot |-> <<TRUE, 1, 1>>, hour |-> 0, minute |-> 1]],
  [months |-> <<1, 2>>, after |-> <<2, 2, 1>>, hours |-> 2, minutes |-> 1,
   epoch |-> [year |-> -1, slot |-> <<FALSE, 2, 2>>, hour |-> 1, minute |-> 0]]}

Window == -40..40

-----------------------------------------------------------------------------
(* The minute after a date, by walking the calendar as a reader of it      *)
(* would: the next day of the month, then the intercalary days of the      *)
(* month in the order they are declared, then the next month.              *)
FirstOf(set) == CHOOSE k \in set : \A j \in set : k <= j

DayAfter(cal, year, slot) ==
  LET month == IF slot[1] THEN cal.after[slot[2]] ELSE slot[2]
      left == {k \in DOMAIN cal.after :
                 cal.after[k] = month /\ (slot[1] => k > slot[2])}
  IN CASE ~slot[1] /\ slot[3] < cal.months[month] -> <<year, <<FALSE, month, slot[3] + 1>>>>
       [] (slot[1] \/ slot[3] = cal.months[month]) /\ left # {} ->
            <<year, <<TRUE, FirstOf(left), 1>>>>
       [] OTHER -> IF month < Len(cal.months) THEN <<year, <<FALSE, month + 1, 1>>>>
                   ELSE <<year + 1, <<FALSE, 1, 1>>>>

MinuteAfter(cal, date) ==
  IF date.minute + 1 < cal.minutes THEN [date EXCEPT !.minute = @ + 1]
  ELSE IF date.hour + 1 < cal.hours THEN [date EXCEPT !.hour = @ + 1, !.minute = 0]
  ELSE LET next == DayAfter(cal, date.year, date.slot)
       IN [year |-> next[1], slot |-> next[2], hour |-> 0, minute |-> 0]

\* Ticks and dates are two names of one minute: the epoch is tick 0, the
\* tick of a date's tick is the tick, and one tick later is one minute
\* later on the calendar, through month ends, intercalary days, years and
\* ticks before the epoch.
ConversionsAgree ==
  \A cal \in Calendars :
    /\ ValidDefinition(cal)
    /\ TickToDate(cal, 0) = cal.epoch
    /\ \A t \in Window :
         LET date == TickToDate(cal, t) IN
         /\ ValidDate(cal, date)
         /\ DateToTick(cal, date) = t
         /\ TickToDate(cal, Advance(t, 1)) = MinuteAfter(cal, date)

-----------------------------------------------------------------------------
Event(i, certainty, lo, hi) == [id |-> i, certainty |-> certainty, lo |-> lo, hi |-> hi]
Times == -1..2
EventsOf(i) ==
  {Event(i, "exact", t, t) : t \in Times}
  \union {Event(i, "range", lo, hi) : lo \in -1..0, hi \in 0..2}
  \union {Event(i, "unknown", 0, 0)}
Timelines == {<<a, b>> : a \in EventsOf(2), b \in EventsOf(1)}
Small == [months |-> <<2>>, after |-> <<>>, hours |-> 1, minutes |-> 2,
          epoch |-> At(<<FALSE, 1, 1>>)]

In(ev, seq) == \E i \in DOMAIN seq : seq[i] = ev
Ordered(seq, Key(_)) == \A i \in 1..Len(seq) - 1 : Before(Key(seq[i]), Key(seq[i + 1]))

\* The timeline queries agree about one event: it is overdue exactly when
\* no moment of it is still to come, upcoming events may still happen and
\* a longer horizon never loses one, nearness is mutual, an event whose
\* time is unknown is in no answer, and answers are in order.
QueriesAgree ==
  \A events \in Timelines : \A now \in Times :
    LET overdue == Overdue(events, now)
        soon == Upcoming(Small, events, now, 1)
        later == Upcoming(Small, events, now, 2)
    IN /\ Ordered(overdue, OverdueKey) /\ Ordered(soon, EventKey) /\ Ordered(later, EventKey)
       /\ \A i \in DOMAIN events :
            LET ev == events[i] other == events[3 - i] IN
            /\ ValidEvent(ev)
            /\ In(ev, soon) => In(ev, later) /\ ~In(ev, overdue)
            /\ ~HasInterval(ev) => ~In(ev, overdue) /\ ~In(ev, later)
            /\ HasInterval(ev) =>
                 /\ In(ev, overdue) <=> TimeUntilEvent(now, ev)[2] < 0
                 /\ In(ev, later) \/ In(ev, overdue) \/ TimeUntilEvent(now, ev)[1] > 0
                 /\ ~In(ev, EventsNear(events, ev, 3))
                 /\ HasInterval(other) => \A r \in 0..3 :
                      /\ In(other, EventsNear(events, ev, r)) <=> In(ev, EventsNear(events, other, r))
                      /\ In(other, EventsNear(events, ev, r)) <=>
                           \E t \in ev.lo..ev.hi, u \in other.lo..other.hi :
                             TimeUntil(t, u) \in -r..r

(* The calendar service answers as a walk through the calendar would, and   *)
(* its queries agree with each other.  (DeterministicCalendarService keeps  *)
(* no state, so TLC evaluates this once, in the initial state.)             *)
CalendarAgrees == Init => ConversionsAgree /\ QueriesAgree
=============================================================================
