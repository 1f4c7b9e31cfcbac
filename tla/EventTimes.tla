----------------------------- MODULE EventTimes -----------------------------
(***************************************************************************)
(* What the dates and times of events mean: app/services/event_reminders.py*)
(* and the normalisation of extracted dates and times of                   *)
(* app/services/event_extraction.py.  A text is a record of its shape and  *)
(* of the numbers in it; wall-clock times and instants are minutes.        *)
(***************************************************************************)
EXTENDS Integers, Sequences

CONSTANT None    \* what the functions return for texts they do not understand

-----------------------------------------------------------------------------
(* Calendar dates.                                                          *)

Leap(y) == y % 4 = 0 /\ (y % 100 # 0 \/ y % 400 = 0)

DaysIn(m, y) ==
    CASE m = 2               -> IF Leap(y) THEN 29 ELSE 28
      [] m \in {4, 6, 9, 11} -> 30
      [] OTHER               -> 31

Date == {d \in [day : 1 .. 31, month : 1 .. 12, year : 1 .. 9999] :
            d.day <= DaysIn(d.month, d.year)}

\* dd/mm/yyyy, yyyy-mm-dd with anything after it, dd/mm, or none of these.
\* Exact: two digits each, four of the year, nothing before them.
DateText == [shape : {"dmy", "iso", "dm", "other"}, exact : BOOLEAN,
             day : Nat, month : Nat, year : Nat]

DateOf(text) == [day |-> text.day, month |-> text.month, year |-> text.year]

\* parse_event_calendar_date
CalendarDate(text) ==
    IF text.shape \in {"dmy", "iso"} /\ DateOf(text) \in Date THEN DateOf(text) ELSE None

\* iso_to_display_date: dd/mm/yyyy, in the current year if the text has none.
DisplayDate(text, thisYear) ==
    LET full == IF text.shape = "dm" THEN [text EXCEPT !.year = thisYear] ELSE text IN
    IF text.exact /\ text.shape # "other" /\ DateOf(full) \in Date
    THEN [full EXCEPT !.shape = "dmy"] ELSE None

\* The dates of an extraction: the valid ones, of more than two the first and the last.
KeptDates(texts, thisYear) ==
    LET upTo[n \in 0 .. Len(texts)] ==
            IF n = 0 THEN <<>>
            ELSE IF DisplayDate(texts[n], thisYear) = None THEN upTo[n - 1]
            ELSE Append(upTo[n - 1], DisplayDate(texts[n], thisYear))
        valid == upTo[Len(texts)]
    IN IF Len(valid) <= 2 THEN valid ELSE <<valid[1], valid[Len(valid)]>>

-----------------------------------------------------------------------------
(* Times of day.                                                            *)

\* 18:30, 18h or 18h30, or neither.  Exact: 18:30 with two digits each.
TimeText == [shape : {"clock", "hour", "other"}, exact : BOOLEAN, hour : Nat, minute : Nat]

OfDay(time) == time.hour \in 0 .. 23 /\ time.minute \in 0 .. 59

\* _normalize_time
NormalTime(time) ==
    IF OfDay(time) /\ (time.shape = "hour" \/ (time.shape = "clock" /\ time.exact))
    THEN [time EXCEPT !.shape = "clock", !.exact = TRUE] ELSE None

\* parse_event_clock; an event without an understandable time is at 9:00.
Clock(time) ==
    IF time # None /\ time.shape = "clock" /\ OfDay(time)
    THEN 60 * time.hour + time.minute ELSE 9 * 60

\* date.toordinal: days since the first of January of the year 1.
Ordinal(d) ==
    LET y == d.year - 1
        before == <<0, 31, 59, 90, 120, 151, 181, 212, 243, 273, 304, 334>>[d.month]
    IN 365 * y + y \div 4 - y \div 100 + y \div 400
       + before + (IF d.month > 2 /\ Leap(d.year) THEN 1 ELSE 0) + d.day

\* compute_event_start_at, on the author's wall clock
StartAt(date, time) ==
    IF CalendarDate(date) = None THEN None
    ELSE 24 * 60 * Ordinal(CalendarDate(date)) + Clock(time)

-----------------------------------------------------------------------------
(* Zones and reminders.                                                     *)

\* A zone around a change of its offset from UTC, at the instant `at`.
Zone == [at : Int, before : Int, after : Int]

Larger(i, j) == IF i < j THEN j ELSE i

\* utcoffset() of a wall-clock time with fold = 0: one that occurs twice means
\* the first occurrence, one that is skipped is read with the offset before.
OffsetAt(zone, wall) ==
    IF wall < zone.at + Larger(zone.before, zone.after) THEN zone.before ELSE zone.after

Instant(zone, wall) == wall - OffsetAt(zone, wall)

\* zoneinfo_or_default
ZoneInfo(name, database, default) ==
    IF name \in DOMAIN database THEN database[name] ELSE database[default]

\* compute_reminder_at: the wall clock is set back, and then read in the zone.
\* (An offset that reaches back before the year 1 raises OverflowError: dates
\* of the first two days of datetime are left out.)
ReminderAt(start, lead, zone) == Instant(zone, start - lead)

\* Mutant: the window is open at its beginning.
ReminderIsDueLate(remindAt, now, window) == now < remindAt /\ remindAt < now + window

ReminderIsDue(remindAt, now, window) == now <= remindAt /\ remindAt < now + window
=============================================================================
