----------------------- MODULE ReminderDispatchProofs -----------------------
(***************************************************************************)
(* What holds of every date, time, zone and reminder offset (EventTimes);  *)
(* and proofs about ReminderDispatch, for every number of events, devices, *)
(* runs and workers, every batch and page size and every fault.            *)
(***************************************************************************)
EXTENDS ReminderDispatch, FiniteSetTheorems, TLAPS

-----------------------------------------------------------------------------
(* Induction over the naturals.                                             *)

\* Of any numbers one is the least.
LEMMA NatMin == \A T \in SUBSET Nat : T # {} => \E x \in T : \A y \in T : x <= y
<1>1. IsWellFoundedOn({ss \in Nat \X Nat : ss[1] < ss[2]}, Nat)
  BY NatLessThanWellFounded DEF OpToRel
<1>2. ASSUME NEW T \in SUBSET Nat, T # {}
      PROVE  \E x \in T : \A y \in T : x <= y
  <2>1. PICK x \in T : \A y \in T : ~(<<y, x>> \in {ss \in Nat \X Nat : ss[1] < ss[2]})
    BY <1>1, <1>2, WFMin
  <2>2. \A y \in T : <<y, x>> \in Nat \X Nat /\ <<y, x>>[1] = y /\ <<y, x>>[2] = x
    OBVIOUS
  <2>3. \A y \in T : ~(y < x)
    BY <2>1, <2>2
  <2> QED BY <2>3
<1> QED BY <1>2

\* Induction over the naturals, for a set: a least number outside it has no predecessor.
LEMMA Reaches ==
    ASSUME NEW S, 0 \in S, \A n \in Nat : n \in S => n + 1 \in S
    PROVE  Nat \subseteq S
<1> DEFINE T == {n \in Nat : n \notin S}
<1>1. CASE T # {}
  <2>1. PICK x \in T : \A y \in T : x <= y
    BY <1>1, NatMin
  <2>2. x # 0 /\ x \in Nat OBVIOUS
  <2>3. x - 1 \in Nat /\ x - 1 \notin T BY <2>1, <2>2
  <2> QED BY <2>2, <2>3
<1> QED BY <1>1

-----------------------------------------------------------------------------
(* Calendar dates and their numbers.                                        *)

\* The day after a date.
Tomorrow(d) ==
    IF d.day < DaysIn(d.month, d.year)
    THEN [day |-> d.day + 1, month |-> d.month, year |-> d.year]
    ELSE IF d.month < 12 THEN [day |-> 1, month |-> d.month + 1, year |-> d.year]
    ELSE [day |-> 1, month |-> 1, year |-> d.year + 1]

\* Days before the end of the year y, counted from the first day of the year 1.
DaysBefore(y) == 365 * y + y \div 4 - y \div 100 + y \div 400

LEMMA Quotients ==
    ASSUME NEW y \in Nat, NEW k \in {4, 100, 400}
    PROVE  /\ y \div k \in Nat
           /\ (y + 1) \div k = y \div k + (IF (y + 1) % k = 0 THEN 1 ELSE 0)
OBVIOUS

YearDays(y) == IF Leap(y) THEN 366 ELSE 365

LEMMA YearLength ==
    ASSUME NEW y \in Nat
    PROVE  /\ YearDays(y) \in {365, 366}
           /\ DaysBefore(y) \in Nat
           /\ DaysBefore(y + 1) = DaysBefore(y) + YearDays(y + 1)
<1>1. \A k \in {4, 100, 400} : 
        /\ y \div k \in Nat
        /\ (y + 1) \div k = y \div k + (IF (y + 1) % k = 0 THEN 1 ELSE 0)
  BY Quotients
<1>2. /\ (y + 1) % 100 = 0 => (y + 1) % 4 = 0 
      /\ (y + 1) % 400 = 0 => (y + 1) % 100 = 0 
  OBVIOUS
<1> QED BY <1>1, <1>2 DEF DaysBefore, Leap, YearDays


LEMMA YearsGrow ==
    ASSUME NEW y \in Nat, NEW z \in Nat, y <= z
    PROVE  DaysBefore(y) <= DaysBefore(z)
<1> DEFINE S == {n \in Nat : DaysBefore(y) <= DaysBefore(y + n)}
<1>1. 0 \in S
  BY YearLength
<1>2. ASSUME NEW n \in Nat, n \in S
      PROVE  n + 1 \in S
  <2>1. /\ y + n \in Nat /\ (y + n) + 1 = y + (n + 1)
        /\ DaysBefore(y) \in Nat /\ DaysBefore(y + n) \in Nat
        /\ DaysBefore((y + n) + 1) \in Nat /\ DaysBefore(y + n) <= DaysBefore((y + n) + 1)
    BY YearLength
  <2> QED BY <1>2, <2>1
<1> HIDE DEF S
<1>3. z - y \in S
  BY <1>1, <1>2, Reaches
<1>4. z - y \in Nat /\ y + (z - y) = z
  OBVIOUS
<1> QED BY <1>3, <1>4 DEF S

\* Days of the year before a month.
MonthStart(m, y) ==
    <<0, 31, 59, 90, 120, 151, 181, 212, 243, 273, 304, 334>>[m]
    + (IF m > 2 /\ Leap(y) THEN 1 ELSE 0)

LEMMA MonthStarts ==
    ASSUME NEW y \in Nat, NEW m \in 1 .. 12
    PROVE  /\ MonthStart(m, y) \in Nat /\ DaysIn(m, y) \in 28 .. 31
           /\ m < 12 => MonthStart(m + 1, y) = MonthStart(m, y) + DaysIn(m, y)
           /\ m = 12 => MonthStart(m, y) + DaysIn(m, y) = YearDays(y)
           /\ m = 1 => MonthStart(m, y) = 0
<1>1. m \in {1, 2, 3, 4, 5, 6, 7, 8, 9, 10, 11, 12}
  OBVIOUS
<1> QED BY <1>1 DEF MonthStart, DaysIn, YearDays

LEMMA MonthsGrow ==
    ASSUME NEW y \in Nat, NEW m \in 1 .. 12, NEW n \in 1 .. 12, m < n
    PROVE  MonthStart(m, y) + DaysIn(m, y) <= MonthStart(n, y)
<1>1. /\ m \in {1, 2, 3, 4, 5, 6, 7, 8, 9, 10, 11}
      /\ n \in {2, 3, 4, 5, 6, 7, 8, 9, 10, 11, 12}
  OBVIOUS
<1> QED BY <1>1 DEF MonthStart, DaysIn

LEMMA DateFacts ==
    ASSUME NEW d \in Date
    PROVE  /\ d.day \in 1 .. 31 /\ d.month \in 1 .. 12
           /\ d.year \in Nat /\ d.year - 1 \in Nat /\ (d.year - 1) + 1 = d.year
           /\ d.day <= DaysIn(d.month, d.year)
<1> DEFINE Years == 1 .. 9999
<1>1. \A y \in Years : y \in Nat /\ y - 1 \in Nat /\ (y - 1) + 1 = y
  OBVIOUS
<1>2. d \in {x \in [day : 1 .. 31, month : 1 .. 12, year : Years] :
                x.day <= DaysIn(x.month, x.year)}
  BY DEF Date
<1> HIDE DEF Years
<1> QED BY <1>1, <1>2

LEMMA DateRecord ==
    ASSUME NEW d \in Date
    PROVE  d = [day |-> d.day, month |-> d.month, year |-> d.year]
BY DEF Date

LEMMA OrdinalIs ==
    ASSUME NEW day \in Nat, NEW m \in 1 .. 12, NEW y \in Nat, y - 1 \in Nat
    PROVE  LET d == [day |-> day, month |-> m, year |-> y] IN
           Ordinal(d) = DaysBefore(y - 1) + MonthStart(m, y) + day
<1> DEFINE before == <<0, 31, 59, 90, 120, 151, 181, 212, 243, 273, 304, 334>>[m]
           leap   == IF m > 2 /\ Leap(y) THEN 1 ELSE 0
<1>1. m \in {1, 2, 3, 4, 5, 6, 7, 8, 9, 10, 11, 12}
  OBVIOUS
<1>2. before \in Nat /\ leap \in Nat
  BY <1>1
<1>3. /\ 365 * (y - 1) \in Int /\ (y - 1) \div 4 \in Int /\ (y - 1) \div 100 \in Int
      /\ (y - 1) \div 400 \in Int
  BY Quotients
<1>4. LET d == [day |-> day, month |-> m, year |-> y] IN
      Ordinal(d) = 365 * (y - 1) + (y - 1) \div 4 - (y - 1) \div 100 + (y - 1) \div 400
                   + before + leap + day
  BY DEF Ordinal
<1>5. /\ DaysBefore(y - 1) = 365 * (y - 1) + (y - 1) \div 4 - (y - 1) \div 100 + (y - 1) \div 400
      /\ MonthStart(m, y) = before + leap
  BY DEF DaysBefore, MonthStart
<1> HIDE DEF before, leap
<1> QED BY <1>2, <1>3, <1>4, <1>5

LEMMA OrdinalOf ==
    ASSUME NEW d \in Date
    PROVE  Ordinal(d) = DaysBefore(d.year - 1) + MonthStart(d.month, d.year) + d.day
<1> DEFINE day == d.day
           m   == d.month
           y   == d.year
<1>1. day \in Nat /\ m \in 1 .. 12 /\ y \in Nat /\ y - 1 \in Nat
  BY DateFacts
<1>2. d = [day |-> day, month |-> m, year |-> y]
  BY DateRecord
<1> HIDE DEF day, m, y
<1>3. Ordinal([day |-> day, month |-> m, year |-> y]) = DaysBefore(y - 1) + MonthStart(m, y) + day
  BY <1>1, OrdinalIs
<1> QED BY <1>2, <1>3 DEF day, m, y

\* The number of a date (date.toordinal) goes up by one from each date to the
\* next, over the ends of months and years and leap days: a lead of 24 hours
\* is the same time on the day before, whatever the date of the event.
THEOREM DaysAreCounted ==
    ASSUME NEW d \in Date
    PROVE  Ordinal(Tomorrow(d)) = Ordinal(d) + 1
<1> DEFINE y   == d.year
           m   == d.month
           day == d.day
<1>1. /\ day \in 1 .. 31 /\ m \in 1 .. 12 /\ y \in Nat /\ y - 1 \in Nat
      /\ (y - 1) + 1 = y /\ day <= DaysIn(m, y)
  BY DateFacts
<1>2. Tomorrow(d) = IF day < DaysIn(m, y) THEN [day |-> day + 1, month |-> m, year |-> y]
                    ELSE IF m < 12 THEN [day |-> 1, month |-> m + 1, year |-> y]
                    ELSE [day |-> 1, month |-> 1, year |-> y + 1]
  BY DEF Tomorrow
<1>3. Ordinal(d) = DaysBefore(y - 1) + MonthStart(m, y) + day
  BY OrdinalOf
<1> HIDE DEF y, m, day
<1>4. /\ MonthStart(m, y) \in Nat /\ DaysIn(m, y) \in 28 .. 31
      /\ m < 12 => MonthStart(m + 1, y) = MonthStart(m, y) + DaysIn(m, y)
      /\ m = 12 => MonthStart(m, y) + DaysIn(m, y) = YearDays(y)
  BY <1>1, MonthStarts
<1>5. /\ DaysBefore(y - 1) \in Nat
      /\ DaysBefore(y) = DaysBefore(y - 1) + YearDays(y)
  BY <1>1, YearLength
<1>6. CASE day < DaysIn(m, y)
  <2>1. Ordinal(Tomorrow(d)) = DaysBefore(y - 1) + MonthStart(m, y) + (day + 1)
    BY <1>1, <1>2, <1>6, OrdinalIs
  <2> QED BY <1>1, <1>3, <1>4, <1>5, <2>1
<1>7. CASE day = DaysIn(m, y) /\ m < 12
  <2>1. m + 1 \in 1 .. 12 /\ ~(day < DaysIn(m, y))
    BY <1>1, <1>4, <1>7
  <2>2. Ordinal(Tomorrow(d)) = DaysBefore(y - 1) + MonthStart(m + 1, y) + 1
    BY <1>1, <1>2, <1>7, <2>1, OrdinalIs
  <2> QED BY <1>1, <1>3, <1>4, <1>5, <1>7, <2>2
<1>8. CASE day = DaysIn(m, y) /\ m = 12
  <2>1. y + 1 \in Nat /\ (y + 1) - 1 = y /\ ~(day < DaysIn(m, y)) /\ ~(m < 12)
    BY <1>1, <1>4, <1>8
  <2>2. Ordinal(Tomorrow(d)) = DaysBefore(y) + MonthStart(1, y + 1) + 1
    BY <1>1, <1>2, <2>1, OrdinalIs
  <2>3. MonthStart(1, y + 1) = 0
    BY <2>1, MonthStarts
  <2> QED BY <1>1, <1>3, <1>4, <1>5, <1>8, <2>2, <2>3
<1> QED BY <1>1, <1>4, <1>6, <1>7, <1>8

\* A date before another in the calendar.
Earlier(d, e) ==
    \/ d.year < e.year
    \/ d.year = e.year /\ d.month < e.month
    \/ d.year = e.year /\ d.month = e.month /\ d.day < e.day

\* A date lies within its month, and a month within its year.
LEMMA WithinYear ==
    ASSUME NEW d \in Date
    PROVE  /\ Ordinal(d) \in Nat
           /\ DaysBefore(d.year - 1) < Ordinal(d) /\ Ordinal(d) <= DaysBefore(d.year)
<1> DEFINE y   == d.year
           m   == d.month
           day == d.day
<1>1. /\ day \in 1 .. 31 /\ m \in 1 .. 12 /\ y \in Nat /\ y - 1 \in Nat
      /\ (y - 1) + 1 = y /\ day <= DaysIn(m, y)
  BY DateFacts
<1>2. Ordinal(d) = DaysBefore(y - 1) + MonthStart(m, y) + day
  BY OrdinalOf
<1> HIDE DEF y, m, day
<1>3. /\ MonthStart(m, y) \in Nat /\ DaysIn(m, y) \in 28 .. 31 /\ DaysIn(12, y) \in 28 .. 31
      /\ MonthStart(12, y) \in Nat
      /\ MonthStart(12, y) + DaysIn(12, y) = YearDays(y)
  <2>1. 12 \in 1 .. 12
    OBVIOUS
  <2>2. /\ DaysIn(12, y) \in 28 .. 31 /\ MonthStart(12, y) \in Nat
        /\ MonthStart(12, y) + DaysIn(12, y) = YearDays(y)
    BY <1>1, <2>1, MonthStarts
  <2> QED BY <1>1, <2>2, MonthStarts
<1>4. /\ DaysBefore(y - 1) \in Nat
      /\ DaysBefore(y) = DaysBefore(y - 1) + YearDays(y)
  BY <1>1, YearLength
<1>5. MonthStart(m, y) + DaysIn(m, y) <= MonthStart(12, y) + DaysIn(12, y)
  <2>1. CASE m = 12
    BY <2>1, <1>3
  <2>2. CASE m < 12
    <3>1. MonthStart(m, y) + DaysIn(m, y) <= MonthStart(12, y)
      BY <1>1, <2>2, MonthsGrow
    <3> QED BY <3>1, <1>3
  <2> QED BY <1>1, <2>1, <2>2
<1>6. /\ Ordinal(d) \in Nat /\ DaysBefore(y - 1) < Ordinal(d)
      /\ Ordinal(d) <= DaysBefore(y)
  BY <1>1, <1>2, <1>3, <1>4, <1>5
<1> QED BY <1>6 DEF y

\* Numbers of dates are in the order of their dates, so no two dates share a
\* number and the reminders of two dates are never confused.
THEOREM DaysAreInOrder ==
    ASSUME NEW d \in Date, NEW e \in Date, Earlier(d, e)
    PROVE  Ordinal(d) < Ordinal(e)
<1> DEFINE y   == d.year
           z   == e.year
           m   == d.month
           n   == e.month
           day == d.day
           due == e.day
<1>1. /\ day \in 1 .. 31 /\ m \in 1 .. 12 /\ y \in Nat /\ y - 1 \in Nat
      /\ day <= DaysIn(m, y) /\ due \in 1 .. 31 /\ n \in 1 .. 12 /\ z \in Nat /\ z - 1 \in Nat
  BY DateFacts
<1>2. /\ Ordinal(d) = DaysBefore(y - 1) + MonthStart(m, y) + day
      /\ Ordinal(e) = DaysBefore(z - 1) + MonthStart(n, z) + due
  BY OrdinalOf
<1>3. /\ Ordinal(d) \in Nat /\ Ordinal(e) \in Nat
      /\ Ordinal(d) <= DaysBefore(y) /\ DaysBefore(z - 1) < Ordinal(e)
  BY WithinYear
<1>4. y < z \/ (y = z /\ m < n) \/ (y = z /\ m = n /\ day < due)
  BY DEF Earlier
<1> HIDE DEF y, z, m, n, day, due
<1>5. /\ DaysBefore(y - 1) \in Nat /\ DaysBefore(z - 1) \in Nat /\ DaysBefore(y) \in Nat
      /\ MonthStart(m, y) \in Nat /\ MonthStart(n, y) \in Nat /\ DaysIn(m, y) \in 28 .. 31
  BY <1>1, YearLength, MonthStarts
<1>6. CASE y < z
  <2>1. DaysBefore(y) <= DaysBefore(z - 1)
    BY <1>1, <1>6, YearsGrow
  <2> QED BY <1>3, <1>5, <2>1
<1>7. CASE y = z /\ m < n
  <2>1. MonthStart(m, y) + DaysIn(m, y) <= MonthStart(n, y)
    BY <1>1, <1>7, MonthsGrow
  <2>2. Ordinal(e) = DaysBefore(y - 1) + MonthStart(n, y) + due
    BY <1>2, <1>7
  <2> QED BY <1>1, <1>2, <1>5, <2>1, <2>2
<1>8. CASE y = z /\ m = n /\ day < due
  <2>1. Ordinal(e) = DaysBefore(y - 1) + MonthStart(m, y) + due
    BY <1>2, <1>8
  <2> QED BY <1>1, <1>2, <1>5, <1>8, <2>1
<1> QED BY <1>4, <1>6, <1>7, <1>8

-----------------------------------------------------------------------------
(* The instant of a reminder.                                               *)

LEMMA OffsetChoice ==
    ASSUME NEW z \in Zone, NEW wall \in Int
    PROVE  /\ z.at \in Int /\ z.before \in Int /\ z.after \in Int
           /\ OffsetAt(z, wall) \in {z.before, z.after}
           /\ \A later \in Int : wall <= later /\ OffsetAt(z, later) = z.before
                                 => OffsetAt(z, wall) = z.before
BY DEF Zone, OffsetAt, Larger

\* Between the instant of a reminder and the start of its event lies the offset
\* of the reminder, unless the author's clock is changed in between: then the
\* lead is longer or shorter by the change, since compute_reminder_at subtracts
\* on the wall clock.
THEOREM LeadTime ==
    ASSUME NEW z \in Zone, NEW start \in Int, NEW lead \in Nat
    PROVE  Instant(z, start) - ReminderAt(start, lead, z) \in {lead, lead + z.before - z.after}
<1>1. start - lead \in Int /\ start - lead <= start
  OBVIOUS
<1>2. /\ z.before \in Int /\ z.after \in Int
      /\ OffsetAt(z, start) \in {z.before, z.after}
      /\ OffsetAt(z, start - lead) \in {z.before, z.after}
      /\ OffsetAt(z, start) = z.before => OffsetAt(z, start - lead) = z.before
  BY <1>1, OffsetChoice
<1> QED BY <1>2 DEF ReminderAt, Instant

\* A reminder is never due after its event has begun, as long as the author's
\* clock is not put forward by more than the reminder's offset.  By exactly the
\* offset, as an hour for "1h", it may be due only as the event begins.
THEOREM NeverAfterStart ==
    ASSUME NEW z \in Zone, NEW start \in Int, NEW lead \in Nat, z.after - z.before <= lead
    PROVE  ReminderAt(start, lead, z) <= Instant(z, start)
<1>1. /\ ReminderAt(start, lead, z) \in Int /\ Instant(z, start) \in Int
      /\ z.before \in Int /\ z.after \in Int
  BY OffsetChoice DEF ReminderAt, Instant
<1> QED BY <1>1, LeadTime

\* The longer of two reminder offsets is reminded of first, also across a change
\* of the clock smaller than their difference.
THEOREM LongerLeadIsFirst ==
    ASSUME NEW z \in Zone, NEW start \in Int, NEW short \in Nat, NEW long \in Nat,
           short <= long, z.after - z.before <= long - short
    PROVE  ReminderAt(start, long, z) <= ReminderAt(start, short, z)
<1>1. start - short \in Int /\ (start - short) - (long - short) = start - long
      /\ long - short \in Nat
  OBVIOUS
<1>2. ReminderAt(start - short, long - short, z) <= Instant(z, start - short)
  BY <1>1, NeverAfterStart
<1> QED BY <1>1, <1>2 DEF ReminderAt

\* A cron that calls at least once in a window misses no reminder: what falls
\* between two calls is due at the first.
THEOREM NoneFallsBetween ==
    ASSUME NEW window \in Nat, NEW call \in Int, NEW next \in Int, next <= call + window,
           NEW remindAt \in Int, call <= remindAt, remindAt < next
    PROVE  ReminderIsDue(remindAt, call, window)
BY DEF ReminderIsDue

\* A cron that calls at least twice in a window, as the README asks for, meets
\* every reminder again: whatever is due at a call is due at the one before or
\* after it as well.
THEOREM DueAtTwoCalls ==
    ASSUME NEW window \in Nat, NEW period \in Nat, 2 * period <= window,
           NEW call \in Int, NEW remindAt \in Int, ReminderIsDue(remindAt, call, window)
    PROVE  \/ ReminderIsDue(remindAt, call + period, window)
           \/ ReminderIsDue(remindAt, call - period, window)
<1>1. call <= remindAt /\ remindAt < call + window
  BY DEF ReminderIsDue
<1>2. CASE call + period <= remindAt
  BY <1>1, <1>2 DEF ReminderIsDue
<1>3. CASE ~(call + period <= remindAt)
  <2>1. (call - period) + 2 * period = call + period
    OBVIOUS
  <2>2. remindAt < (call - period) + window /\ call - period <= remindAt
    BY <1>1, <1>3, <2>1
  <2> QED BY <2>2 DEF ReminderIsDue
<1> QED BY <1>2, <1>3

-----------------------------------------------------------------------------
(* Extracted dates and times.                                               *)

\* A date that an extraction keeps is a calendar date to the reminders and to
\* the lists, that of the text: no event gets a date the app shows and nothing
\* else understands.
THEOREM KeptDatesAreUnderstood ==
    ASSUME NEW text \in DateText, NEW thisYear \in Nat, DisplayDate(text, thisYear) # None
    PROVE  CalendarDate(DisplayDate(text, thisYear)) =
             [DateOf(text) EXCEPT !.year = IF text.shape = "dm" THEN thisYear ELSE text.year]
<1> DEFINE full == IF text.shape = "dm" THEN [text EXCEPT !.year = thisYear] ELSE text
<1>1. /\ full \in DateText
      /\ full.day = text.day /\ full.month = text.month
      /\ full.year = IF text.shape = "dm" THEN thisYear ELSE text.year
  BY DEF DateText
<1>2. /\ DateOf(full) \in Date
      /\ DisplayDate(text, thisYear) = [full EXCEPT !.shape = "dmy"]
  BY DEF DisplayDate
<1>3. /\ DateOf([full EXCEPT !.shape = "dmy"]) = DateOf(full)
      /\ [full EXCEPT !.shape = "dmy"].shape = "dmy"
  BY <1>1 DEF DateOf, DateText
<1>4. CalendarDate(DisplayDate(text, thisYear)) = DateOf(full)
  BY <1>2, <1>3 DEF CalendarDate
<1> QED BY <1>1, <1>4 DEF DateOf

\* Normalising a date again changes nothing, in whatever year.
THEOREM DisplayDateIsStable ==
    ASSUME NEW text \in DateText, NEW thisYear \in Nat, NEW later \in Nat,
           DisplayDate(text, thisYear) # None
    PROVE  DisplayDate(DisplayDate(text, thisYear), later) = DisplayDate(text, thisYear)
<1> DEFINE full  == IF text.shape = "dm" THEN [text EXCEPT !.year = thisYear] ELSE text
           shown == [full EXCEPT !.shape = "dmy"]
<1>1. full \in DateText
  BY DEF DateText
<1>2. DateOf(full) \in Date /\ text.exact /\ DisplayDate(text, thisYear) = shown
  BY DEF DisplayDate
<1>3. /\ DateOf(shown) = DateOf(full) /\ shown.shape = "dmy"
      /\ shown.exact = text.exact /\ [shown EXCEPT !.shape = "dmy"] = shown
  BY <1>1 DEF DateOf, DateText
<1> HIDE DEF shown
<1> QED BY <1>2, <1>3 DEF DisplayDate

\* A time that an extraction keeps is the time its reminder is computed from,
\* never the default of 9:00 for times that are not understood.
THEOREM KeptTimesAreUnderstood ==
    ASSUME NEW time \in TimeText, NormalTime(time) # None
    PROVE  Clock(NormalTime(time)) = 60 * time.hour + time.minute
<1>1. OfDay(time) /\ NormalTime(time) = [time EXCEPT !.shape = "clock", !.exact = TRUE]
  BY DEF NormalTime
<1>2. LET t == NormalTime(time) IN
      t.shape = "clock" /\ t.hour = time.hour /\ t.minute = time.minute
  BY <1>1 DEF TimeText
<1>3. OfDay(NormalTime(time))
  BY <1>1, <1>2 DEF OfDay
<1> QED BY <1>2, <1>3 DEF Clock

\* No time of day makes up for a day.
LEMMA DayIsLonger ==
    ASSUME NEW k \in Int, NEW l \in Int, k < l,
           NEW c \in Int, NEW d \in Int, 0 <= c, c < 24 * 60, 0 <= d
    PROVE  24 * 60 * k + c < 24 * 60 * l + d
OBVIOUS

LEMMA ClockIsOfDay ==
    ASSUME NEW time \in TimeText \cup {None}
    PROVE  Clock(time) \in Int /\ 0 <= Clock(time) /\ Clock(time) < 24 * 60
<1>1. CASE time # None /\ time.shape = "clock" /\ OfDay(time)
  <2>1. Clock(time) = 60 * time.hour + time.minute
    BY <1>1 DEF Clock
  <2>2. time.hour \in 0 .. 23 /\ time.minute \in 0 .. 59
    BY <1>1 DEF OfDay
  <2>3. \A h \in 0 .. 23, m \in 0 .. 59 :
          60 * h + m \in Int /\ 0 <= 60 * h + m /\ 60 * h + m < 24 * 60
    OBVIOUS
  <2> QED BY <2>1, <2>2, <2>3
<1>2. CASE ~(time # None /\ time.shape = "clock" /\ OfDay(time))
  <2>1. Clock(time) = 9 * 60
    BY <1>2 DEF Clock
  <2> QED BY <2>1
<1> QED BY <1>1, <1>2

\* A date that is understood is a date, and the start of its event is counted
\* from its number.
LEMMA StartIs ==
    ASSUME NEW date \in DateText, NEW time \in TimeText \cup {None},
           CalendarDate(date) # None
    PROVE  /\ CalendarDate(date) \in Date /\ Ordinal(CalendarDate(date)) \in Nat
           /\ StartAt(date, time) = 24 * 60 * Ordinal(CalendarDate(date)) + Clock(time)
<1>1. CalendarDate(date) \in Date
  BY DEF CalendarDate
<1>2. Ordinal(CalendarDate(date)) \in Nat
  BY <1>1, WithinYear
<1>3. StartAt(date, time) = 24 * 60 * Ordinal(CalendarDate(date)) + Clock(time)
  BY DEF StartAt
<1> QED BY <1>1, <1>2, <1>3

\* compute_event_start_at puts every event of a day before every event of a
\* later day, whatever their times, the 9:00 of an event without one included:
\* the order of starts is the order of dates that the feed shows.
THEOREM EarlierDaysStartEarlier ==
    ASSUME NEW date \in DateText, NEW later \in DateText,
           CalendarDate(date) # None, CalendarDate(later) # None,
           Earlier(CalendarDate(date), CalendarDate(later)),
           NEW time \in TimeText \cup {None}, NEW other \in TimeText \cup {None}
    PROVE  StartAt(date, time) < StartAt(later, other)
<1> DEFINE m == Ordinal(CalendarDate(date))
           n == Ordinal(CalendarDate(later))
<1>1. /\ m \in Nat /\ n \in Nat
      /\ StartAt(date, time) = 24 * 60 * m + Clock(time)
      /\ StartAt(later, other) = 24 * 60 * n + Clock(other)
  BY StartIs
<1>2. m < n
  BY StartIs, DaysAreInOrder
<1> HIDE DEF m, n
<1> QED BY <1>1, <1>2, DayIsLonger, ClockIsOfDay

\* The reminder a day ahead of an event is at the event's own time of day on the
\* day before, over the ends of months and years: 24 hours are set back on the
\* wall clock, before the zone is looked at.
THEOREM DayAheadIsDayBefore ==
    ASSUME NEW date \in DateText, NEW next \in DateText,
           CalendarDate(date) # None, CalendarDate(next) = Tomorrow(CalendarDate(date)),
           CalendarDate(next) # None, NEW time \in TimeText \cup {None}, NEW z
    PROVE  ReminderAt(StartAt(next, time), 24 * 60, z) = Instant(z, StartAt(date, time))
<1> DEFINE m == Ordinal(CalendarDate(date))
           n == Ordinal(CalendarDate(next))
<1>1. /\ m \in Nat /\ n \in Nat
      /\ StartAt(date, time) = 24 * 60 * m + Clock(time)
      /\ StartAt(next, time) = 24 * 60 * n + Clock(time)
  BY StartIs
<1>2. n = m + 1
  BY StartIs, DaysAreCounted
<1> HIDE DEF m, n
<1>3. StartAt(next, time) - 24 * 60 = StartAt(date, time)
  BY <1>1, <1>2, ClockIsOfDay
<1> QED BY <1>3 DEF ReminderAt

\* The list of valid dates among the first n texts.
Upto(texts, y, f, n) ==
    IF n = 0 THEN <<>>
    ELSE IF DisplayDate(texts[n], y) = None THEN f[n - 1]
    ELSE Append(f[n - 1], DisplayDate(texts[n], y))

\* The loop over the texts is well defined.
LEMMA LoopExists ==
    ASSUME NEW texts, NEW y, NEW n \in Nat
    PROVE  \E f : f = [i \in 0 .. n |-> Upto(texts, y, f, i)]
<1> DEFINE S == {m \in Nat : \E f : f = [i \in 0 .. m |-> Upto(texts, y, f, i)]}
<1>1. 0 \in S
  <2> DEFINE f == [i \in 0 .. 0 |-> <<>>]
  <2>1. f = [i \in 0 .. 0 |-> Upto(texts, y, f, i)]
    BY DEF Upto
  <2> QED BY <2>1
<1>2. ASSUME NEW m \in Nat, m \in S
      PROVE  m + 1 \in S
  <2>1. PICK f : f = [i \in 0 .. m |-> Upto(texts, y, f, i)]
    BY <1>2
  <2> DEFINE g == [i \in 0 .. m + 1 |-> IF i = m + 1 THEN Upto(texts, y, f, m + 1) ELSE f[i]]
  <2>2. \A i \in 0 .. m : g[i] = f[i]
    OBVIOUS
  <2>3. ASSUME NEW i \in 0 .. m + 1
        PROVE  Upto(texts, y, g, i) = Upto(texts, y, f, i)
    <3>1. i # 0 => i - 1 \in 0 .. m
      BY <2>3
    <3>2. i # 0 => g[i - 1] = f[i - 1]
      BY <3>1, <2>2
    <3> HIDE DEF g
    <3> QED BY <3>2 DEF Upto
  <2>4. ASSUME NEW i \in 0 .. m + 1
        PROVE  g[i] = Upto(texts, y, g, i)
    <3>1. CASE i = m + 1
      BY <3>1, <2>3
    <3>2. CASE i # m + 1
      <4>1. i \in 0 .. m
        BY <3>2
      <4>2. f[i] = Upto(texts, y, f, i)
        BY <4>1, <2>1
      <4> QED BY <4>1, <4>2, <2>2, <2>3
    <3> QED BY <3>1, <3>2
  <2>5. g = [i \in 0 .. m + 1 |-> g[i]]
    OBVIOUS
  <2> HIDE DEF g
  <2>6. g = [i \in 0 .. m + 1 |-> Upto(texts, y, g, i)]
    BY <2>4, <2>5
  <2> QED BY <2>6
<1> HIDE DEF S
<1>3. n \in S
  BY <1>1, <1>2, Reaches
<1> QED BY <1>3 DEF S

\* The numbers of the valid ones among the first n texts.
Valid(texts, y, n) == {i \in 1 .. n : DisplayDate(texts[i], y) # None}

\* What is kept of the texts numbered in `valid` begins with the first and ends
\* with the last of them.
Spans(texts, y, valid, kept) ==
    IF valid = {} THEN kept = <<>>
    ELSE \E i, j \in valid :
           /\ \A l \in valid : i <= l /\ l <= j
           /\ kept # <<>> /\ kept[1] = DisplayDate(texts[i], y)
           /\ kept[Len(kept)] = DisplayDate(texts[j], y)
           /\ Len(kept) = 1 <=> i = j

\* What appending does to the ends of a list.
LEMMA AppendedTo ==
    ASSUME NEW T, NEW s \in Seq(T), NEW d \in T
    PROVE  /\ Len(s) \in Nat /\ (s = <<>> <=> Len(s) = 0)
           /\ Append(s, d) \in Seq(T) /\ Len(Append(s, d)) = Len(s) + 1
           /\ Append(s, d)[Len(Append(s, d))] = d /\ Append(s, d) # <<>>
           /\ Append(s, d)[1] = IF s = <<>> THEN d ELSE s[1]
<1>1. Len(s) \in Nat /\ (s = <<>> <=> Len(s) = 0)
  OBVIOUS
<1>2. Append(s, d) \in Seq(T) /\ Len(Append(s, d)) = Len(s) + 1
  OBVIOUS
<1>3. Append(s, d)[Len(s) + 1] = d
  OBVIOUS
<1>4. Append(s, d)[1] = IF s = <<>> THEN d ELSE s[1]
  <2>1. CASE s = <<>>
    BY <1>3, <2>1
  <2>2. CASE s # <<>>
    <3>1. 1 \in 1 .. Len(s)
      BY <1>1, <2>2
    <3> QED BY <2>2, <3>1
  <2> QED BY <2>1, <2>2
<1> QED BY <1>1, <1>2, <1>3, <1>4

\* The list of the loop over the texts spans the valid ones.
LEMMA LoopSpans ==
    ASSUME NEW texts \in Seq(DateText), NEW y, NEW f,
           f = [i \in 0 .. Len(texts) |-> Upto(texts, y, f, i)]
    PROVE  LET T == {DisplayDate(texts[i], y) : i \in DOMAIN texts} IN
           /\ f[Len(texts)] \in Seq(T)
           /\ Spans(texts, y, Valid(texts, y, Len(texts)), f[Len(texts)])
<1> DEFINE T == {DisplayDate(texts[i], y) : i \in DOMAIN texts}
           S == {n \in Nat : n <= Len(texts) =>
                     f[n] \in Seq(T) /\ Spans(texts, y, Valid(texts, y, n), f[n])}
<1>1. Len(texts) \in Nat /\ DOMAIN texts = 1 .. Len(texts)
  OBVIOUS
<1>2. 0 \in S
  <2>1. f[0] = <<>>
    BY <1>1 DEF Upto
  <2>2. Valid(texts, y, 0) = {}
    BY DEF Valid
  <2> QED BY <2>1, <2>2 DEF Spans
<1>3. ASSUME NEW n \in Nat, n \in S
      PROVE  n + 1 \in S
  <2> SUFFICES ASSUME n + 1 <= Len(texts)
               PROVE  /\ f[n + 1] \in Seq(T)
                      /\ Spans(texts, y, Valid(texts, y, n + 1), f[n + 1])
    OBVIOUS
  <2> DEFINE kept  == f[n]
             next  == f[n + 1]
             d     == DisplayDate(texts[n + 1], y)
             valid == Valid(texts, y, n)
             more  == Valid(texts, y, n + 1)
  <2>1. n \in 0 .. Len(texts) /\ n + 1 \in 0 .. Len(texts) /\ n + 1 \in DOMAIN texts
        /\ n + 1 # 0 /\ (n + 1) - 1 = n /\ n <= Len(texts)
    BY <1>1
  <2>2. kept \in Seq(T) /\ Spans(texts, y, valid, kept)
    BY <1>3, <2>1
  <2>3. next = IF d = None THEN kept ELSE Append(kept, d)
    <3>1. next = Upto(texts, y, f, n + 1)
      BY <2>1
    <3> QED BY <3>1, <2>1 DEF Upto
  <2>4. d \in T
    BY <2>1
  <2>5. more = IF d = None THEN valid ELSE valid \cup {n + 1}
    BY <2>1 DEF Valid
  <2>6. \A l \in valid : l \in 1 .. n
    BY DEF Valid
  <2> HIDE DEF T, kept, next, valid, more
  <2>7. CASE d = None
    BY <2>2, <2>3, <2>5, <2>7 DEF next, more
  <2>8. CASE d # None
    <3>1. next = Append(kept, d) /\ more = valid \cup {n + 1}
      BY <2>3, <2>5, <2>8
    <3>2. /\ next \in Seq(T) /\ Len(next) = Len(kept) + 1 /\ Len(kept) \in Nat
          /\ next[Len(next)] = d /\ next # <<>> /\ (kept = <<>> <=> Len(kept) = 0)
          /\ next[1] = IF kept = <<>> THEN d ELSE kept[1]
      BY <2>2, <2>4, <3>1, AppendedTo
    <3>3. PICK i \in more : /\ \A l \in more : i <= l /\ l <= n + 1
                            /\ next[1] = DisplayDate(texts[i], y)
                            /\ Len(next) = 1 <=> i = n + 1
      <4>1. CASE valid = {}
        <5>1. kept = <<>>
          BY <2>2, <4>1 DEF Spans
        <5>2. n + 1 \in more /\ \A l \in more : n + 1 <= l /\ l <= n + 1
          BY <3>1, <4>1
        <5> QED BY <3>2, <5>1, <5>2
      <4>2. CASE valid # {}
        <5>1. PICK i \in valid : /\ \A l \in valid : i <= l
                                 /\ kept # <<>> /\ kept[1] = DisplayDate(texts[i], y)
          BY <2>2, <4>2 DEF Spans
        <5>2. i \in more /\ i # n + 1 /\ \A l \in more : i <= l /\ l <= n + 1
          BY <2>6, <3>1, <5>1
        <5> QED BY <3>2, <5>1, <5>2
      <4> QED BY <4>1, <4>2
    <3>4. n + 1 \in more /\ more # {}
      BY <3>1
    <3>5. Spans(texts, y, more, next)
      BY <3>2, <3>3, <3>4 DEF Spans
    <3> QED BY <3>2, <3>5 DEF next, more
  <2> QED BY <2>7, <2>8
<1> HIDE DEF S
<1>4. Len(texts) \in S
  BY <1>1, <1>2, <1>3, Reaches
<1> QED BY <1>1, <1>4 DEF S

\* However many texts the model returns, valid or not, in whatever order: the
\* dates of an extraction are the first and the last valid one, or the only
\* one, and there are none exactly when no text is valid.
THEOREM FirstAndLastAreKept ==
    ASSUME NEW texts \in Seq(DateText), NEW thisYear \in Nat
    PROVE  LET D(i)  == DisplayDate(texts[i], thisYear)
               valid == {i \in DOMAIN texts : D(i) # None}
           IN IF valid = {} THEN KeptDates(texts, thisYear) = <<>>
              ELSE \E i, j \in valid :
                     /\ \A l \in valid : i <= l /\ l <= j
                     /\ KeptDates(texts, thisYear) = IF i = j THEN <<D(i)>> ELSE <<D(i), D(j)>>
<1> DEFINE n     == Len(texts)
           loop  == CHOOSE f : f = [i \in 0 .. n |-> Upto(texts, thisYear, f, i)]
           kept  == loop[n]
           D(i)  == DisplayDate(texts[i], thisYear)
           valid == Valid(texts, thisYear, n)
           T     == {D(i) : i \in DOMAIN texts}
<1>1. n \in Nat /\ DOMAIN texts = 1 .. n
  OBVIOUS
<1>2. loop = [i \in 0 .. n |-> Upto(texts, thisYear, loop, i)]
  BY <1>1, LoopExists
<1>3. KeptDates(texts, thisYear) = IF Len(kept) <= 2 THEN kept ELSE <<kept[1], kept[Len(kept)]>>
  BY DEF KeptDates, Upto
<1> HIDE DEF loop
<1>4. kept \in Seq(T) /\ Spans(texts, thisYear, valid, kept)
  BY <1>2, LoopSpans
<1>5. valid = {i \in DOMAIN texts : D(i) # None}
  BY <1>1 DEF Valid
<1> HIDE DEF kept, n, valid
<1>6. CASE valid = {}
  <2>1. kept = <<>>
    BY <1>4, <1>6 DEF Spans
  <2>2. KeptDates(texts, thisYear) = <<>>
    BY <1>3, <2>1
  <2> QED BY <1>5, <1>6, <2>2
<1>7. CASE valid # {}
  <2>1. PICK i \in valid, j \in valid :
          /\ \A l \in valid : i <= l /\ l <= j
          /\ kept # <<>> /\ kept[1] = D(i) /\ kept[Len(kept)] = D(j)
          /\ Len(kept) = 1 <=> i = j
    BY <1>4, <1>7 DEF Spans
  <2> HIDE DEF D, T
  <2>2. Len(kept) \in Nat /\ Len(kept) # 0 /\ DOMAIN kept = 1 .. Len(kept)
    BY <1>4, <2>1
  <2>3. KeptDates(texts, thisYear) = IF i = j THEN <<D(i)>> ELSE <<D(i), D(j)>>
    <3>1. CASE i = j
      <4>1. kept = <<D(i)>>
        BY <1>4, <2>1, <3>1
      <4> QED BY <1>3, <3>1, <4>1
    <3>2. CASE i # j
      <4>1. CASE Len(kept) <= 2
        <5>1. Len(kept) = 2
          BY <2>1, <2>2, <3>2, <4>1
        <5>2. kept = <<D(i), D(j)>>
          BY <1>4, <2>1, <5>1
        <5> QED BY <1>3, <3>2, <4>1, <5>2
      <4>2. CASE ~(Len(kept) <= 2)
        BY <1>3, <2>1, <3>2, <4>2
      <4> QED BY <4>1, <4>2
    <3> QED BY <3>1, <3>2
  <2> QED BY <1>5, <1>7, <2>1, <2>3 DEF D
<1> QED BY <1>6, <1>7

-----------------------------------------------------------------------------
(* The type invariant.                                                      *)

\* What a run does to its locals keeps them of their type.
LEMMA LocalsType ==
    ASSUME NEW me \in RunState, NEW pc \in Phases, NEW why \in Reasons
    PROVE  /\ Returned(me, pc) \in RunState
           /\ Ended(me, why) \in RunState
           /\ Upstream(me, why) \in RunState
           /\ Resume(me) \in RunState
           /\ Flushed(me) \in RunState
<1>1. \A x \in RunState : \A p \in Phases : Returned(x, p) \in RunState
  <2>1. TAKE x \in RunState
  <2>2. TAKE p \in Phases
  <2>3. 1 \in 1 .. MaxAttempts
    BY ConstantsAssumption
  <2>4. x.client \in Nat
    BY DEF RunState
  <2> QED BY <2>3, <2>4 DEF Returned, RunState
<1>2. \A x \in RunState : \A w \in Reasons : Ended(x, w) \in RunState
  BY DEF Ended, RunState, Phases
<1>3. Upstream(me, why) \in RunState
  BY <1>1, <1>2 DEF Upstream, Phases
<1>4. \A x \in RunState : Resume(x) \in RunState
  BY <1>1, <1>2 DEF Resume, Phases, Reasons
<1>5. [me EXCEPT !.pending = {}, !.claimed = {}, !.todo = {}] \in RunState
  BY DEF RunState
<1> QED BY <1>1, <1>2, <1>3, <1>4, <1>5 DEF Flushed

LEMMA KeyType == ASSUME NEW row \in Row PROVE Key(row) \in Keys
BY DEF Key, Row, Keys

LEMMA ClaimedType ==
    ASSUME NEW me \in RunState, NEW row \in Row, NEW id \in Nat
    PROVE  Claimed(me, row, id) \in RunState
<1> DEFINE got == Batched(me, row, id)
<1>1. Messages(me, row, id) \subseteq Message
  BY KeyType DEF Messages, Message, TokensOf
<1>2. got \in RunState
  BY <1>1 DEF RunState, Batched
<1>3. Returned(got, "send") \in RunState /\ Resume(got) \in RunState
  BY <1>2, LocalsType DEF Phases, Reasons
<1> QED BY <1>3 DEF Claimed

\* A retried write is about an item of the list its loop walks.
ItemOK(me) ==
    me.attempt > 1 =>
        /\ me.pc = "claim" => me.item \in me.due
        /\ me.pc = "stale" => me.item \in me.todo
        /\ me.pc = "release" => me.item \in me.claimed
        /\ me.pc \in {"pages", "zones", "tokens"} => me.item = NoItem

ItemsOK == \A r \in Runs : ItemOK(run[r])

LEMMA ItemsType ==
    ASSUME TypeOK, ItemsOK, NEW r \in Runs, NEW item \in Items(r)
    PROVE  /\ run[r].pc = "claim" => item \in run[r].due /\ item \in Row
           /\ run[r].pc = "stale" => item \in run[r].todo /\ item \in Message
           /\ run[r].pc = "release" => item \in run[r].claimed /\ item \in Row
           /\ run[r].pc \in {"pages", "zones", "tokens"} => item = NoItem
           /\ run[r].pc \in Calls => item \in Row \cup Message \cup {NoItem}
<1>1. run[r] \in RunState
  BY DEF TypeOK
<1>2. run[r].attempt \in 1 .. MaxAttempts
  BY <1>1 DEF RunState
<1>3. /\ run[r].item \in Row \cup Message \cup {NoItem}
      /\ run[r].due \subseteq Row /\ run[r].todo \subseteq Message
      /\ run[r].claimed \subseteq Row
  BY <1>1 DEF RunState
<1>4. CASE run[r].attempt > 1
  BY <1>4, <1>3 DEF Items, ItemsOK, ItemOK, Calls
<1>5. CASE ~(run[r].attempt > 1)
  BY <1>5, <1>3 DEF Items, Calls
<1> QED BY <1>4, <1>5

\* The history and database variables under the writes of a run.
LEMMA WritesType ==
    ASSUME TypeOK, NEW r \in Runs, NEW k \in Keys, NEW t \in Tokens
    PROVE  /\ Insert(r, k) => /\ deliveries' \in [Keys -> Nat]
                              /\ claims' \in [Keys -> Nat]
                              /\ maker' \in [Keys -> Runs \cup {NoItem}]
           /\ Delete(k) => /\ deliveries' \in [Keys -> Nat]
                           /\ claims' \in [Keys -> Nat]
                           /\ maker' \in [Keys -> Runs \cup {NoItem}]
           /\ DeleteToken(t) => owner' \in [Tokens -> Users \cup {NoUser}]
<1>1. claims[k] + 1 \in Nat
  BY DEF TypeOK
<1> QED BY <1>1 DEF TypeOK, Insert, Delete, DeleteToken

LEMMA CommittedType ==
    ASSUME TypeOK, ItemsOK, NEW r \in Runs, run[r].pc \in Calls,
           NEW item \in Items(r), item # NoItem, Committed(r, item)
    PROVE  /\ deliveries' \in [Keys -> Nat]
           /\ claims' \in [Keys -> Nat]
           /\ maker' \in [Keys -> Runs \cup {NoItem}]
           /\ owner' \in [Tokens -> Users \cup {NoUser}]
<1>1. CASE run[r].pc = "claim"
  <2>1. Key(item) \in Keys
    BY <1>1, ItemsType, KeyType
  <2>2. Insert(r, Key(item)) /\ UNCHANGED owner
    BY <1>1 DEF Committed
  <2> QED BY <2>1, <2>2 DEF Insert, TypeOK
<1>2. CASE run[r].pc = "stale"
  <2>1. item.to \in Tokens
    BY <1>2, ItemsType DEF Message
  <2>2. DeleteToken(item.to) /\ UNCHANGED ledger
    BY <1>2 DEF Committed
  <2> QED BY <2>1, <2>2 DEF DeleteToken, ledger, TypeOK
<1>3. CASE run[r].pc = "release"
  <2>1. Key(item) \in Keys
    BY <1>3, ItemsType, KeyType
  <2>2. Delete(Key(item)) /\ UNCHANGED owner
    BY <1>3 DEF Committed
  <2> QED BY <2>1, <2>2 DEF Delete, TypeOK
<1>4. CASE run[r].pc \in {"pages", "zones", "tokens"}
  BY <1>4, ItemsType
<1> QED BY <1>1, <1>2, <1>3, <1>4 DEF Calls

\* What a page of rows changes of a run's locals.
LEMMA GotPageFacts ==
    ASSUME TypeOK, NEW me \in RunState,
           NEW read \in SUBSET {e \in Events : events[e].reminder # NoReminder}
    PROVE  LET n == GotPage(me, read) IN
           /\ n \in RunState
           /\ n.pending = me.pending /\ n.claimed = me.claimed
           /\ n.due = me.due /\ n.todo = me.todo
           /\ n.why = me.why /\ n.pc = me.pc
<1> DEFINE fetched == {[event |-> e, at |-> events[e].at,
                        reminder |-> events[e].reminder, page |-> me.page] : e \in read}
<1>1. fetched \subseteq Row
  <2>1. \A e \in read : events[e].at \in Instants /\ events[e].reminder \in Reminders
    BY DEF TypeOK, EventRow
  <2>2. me.page \in Nat
    BY DEF RunState
  <2> QED BY <2>1, <2>2 DEF Row
<1>2. GotPage(me, read) = [me EXCEPT !.rows = me.rows \cup fetched,
                                     !.page = NextPage(me.page)]
  BY DEF GotPage, RunState
<1> HIDE DEF fetched
<1>3. me.rows \cup fetched \in SUBSET Row /\ NextPage(me.page) \in Nat
  BY <1>1 DEF RunState, NextPage
<1> QED BY <1>2, <1>3 DEF RunState

LEMMA TypeOfWork ==
    ASSUME TypeOK, ItemsOK, NEW r \in Runs, Work(r)
    PROVE  TypeOK'
<1> DEFINE me == run[r]
<1>1. me \in RunState
  BY DEF TypeOK
<1>2. \A x \in RunState : [run EXCEPT ![r] = x] \in [Runs -> RunState]
  BY DEF TypeOK
<1>3. CASE FetchPage(r)
  <2>1. PICK read \in SUBSET {e \in Events : events[e].reminder # NoReminder} :
          \/ run' = [run EXCEPT ![r] = Returned(GotPage(me, read), "pages")]
          \/ run' = [run EXCEPT ![r] = Returned(GotPage(me, read), "zones")]
          \/ run' = [run EXCEPT ![r] = Ended(GotPage(me, read), "done")]
    BY <1>3 DEF FetchPage
  <2>2. GotPage(me, read) \in RunState
    BY <1>1, <2>1, GotPageFacts
  <2>3. run' \in [Runs -> RunState]
    BY <2>1, <2>2, <1>2, LocalsType DEF Phases, Reasons
  <2> QED BY <1>3, <2>3 DEF FetchPage, Quiet, TypeOK, ledger
<1>4. CASE FetchZones(r)
  <2>1. [me EXCEPT !.zones = zone] \in RunState
    BY <1>1 DEF RunState, TypeOK
  <2>2. run' = [run EXCEPT ![r] = Returned([me EXCEPT !.zones = zone], "tokens")]
    BY <1>4 DEF FetchZones
  <2>3. run' \in [Runs -> RunState]
    BY <2>1, <2>2, <1>2, LocalsType DEF Phases, Reasons
  <2> QED BY <1>4, <2>3 DEF FetchZones, Quiet, TypeOK, ledger
<1>5. CASE FetchTokens(r)
  <2> DEFINE got == [me EXCEPT !.toks = owner]
             loop == [got EXCEPT !.due = DueRows(got)]
  <2>1. got \in RunState
    BY <1>1 DEF RunState, TypeOK
  <2>2. DueRows(got) \subseteq Row
    BY <2>1 DEF DueRows, RunState
  <2>3. loop \in RunState
    <3> HIDE DEF got
    <3> QED BY <2>1, <2>2 DEF RunState
  <2>4. run' = [run EXCEPT ![r] = Resume(loop)]
    BY <1>5 DEF FetchTokens
  <2> HIDE DEF loop
  <2>5. run' \in [Runs -> RunState]
    BY <2>3, <2>4, <1>2, LocalsType DEF Phases, Reasons
  <2> QED BY <1>5, <2>5 DEF FetchTokens, Quiet, TypeOK, ledger
<1>6. CASE Claim(r)
  <2>1. PICK row \in Items(r) :
          /\ Insert(r, Key(row))
          /\ run' = [run EXCEPT ![r] = Claimed(me, row, claims[Key(row)] + 1)]
    BY <1>6 DEF Claim
  <2>2. row \in Row /\ Key(row) \in Keys
    BY <1>6, ItemsType, KeyType DEF Claim
  <2>3. claims[Key(row)] + 1 \in Nat
    BY <2>2 DEF TypeOK
  <2>4. run' \in [Runs -> RunState]
    BY <1>1, <1>2, <2>1, <2>2, <2>3, ClaimedType
  <2>5. /\ deliveries' \in [Keys -> Nat]
        /\ claims' \in [Keys -> Nat]
        /\ maker' \in [Keys -> Runs \cup {NoItem}]
    BY <2>1, <2>2, <2>3 DEF Insert, TypeOK
  <2> QED BY <1>6, <2>4, <2>5 DEF Claim, Quiet, TypeOK
<1>7. CASE ClaimRefused(r)
  <2>1. run' \in [Runs -> RunState]
    BY <1>1, <1>2, <1>7, LocalsType DEF ClaimRefused, Phases, Reasons
  <2> QED BY <1>7, <2>1 DEF ClaimRefused, Quiet, TypeOK, ledger
<1>8. CASE Send(r)
  <2>1. PICK bad \in SUBSET me.pending :
          run' = [run EXCEPT ![r] = IF bad = {} THEN Flushed(me)
                                    ELSE Returned([me EXCEPT !.todo = bad], "stale")]
    BY <1>8 DEF Send
  <2>2. me.pending \subseteq Message
    BY <1>1 DEF RunState
  <2>3. [me EXCEPT !.todo = bad] \in RunState
    BY <1>1, <2>2 DEF RunState
  <2>4. run' \in [Runs -> RunState]
    BY <1>1, <1>2, <2>1, <2>3, LocalsType DEF Phases, Reasons
  <2> QED BY <1>8, <2>2, <2>4 DEF Send, Quiet, TypeOK, ledger
<1>9. CASE DeleteStaleToken(r)
  <2>1. PICK m \in Items(r) :
          /\ DeleteToken(m.to)
          /\ run' = [run EXCEPT ![r] =
                       IF [me EXCEPT !.todo = @ \ {m}].todo = {}
                       THEN Flushed([me EXCEPT !.todo = @ \ {m}])
                       ELSE Returned([me EXCEPT !.todo = @ \ {m}], "stale")]
    BY <1>9 DEF DeleteStaleToken
  <2>2. m.to \in Tokens
    BY <1>9, ItemsType DEF DeleteStaleToken, Message
  <2>3. [me EXCEPT !.todo = @ \ {m}] \in RunState
    BY <1>1 DEF RunState
  <2>4. run' \in [Runs -> RunState]
    BY <1>2, <2>1, <2>3, LocalsType DEF Phases, Reasons
  <2>5. owner' \in [Tokens -> Users \cup {NoUser}]
    BY <2>1, <2>2 DEF DeleteToken, TypeOK
  <2> QED BY <1>9, <2>4, <2>5 DEF DeleteStaleToken, Quiet, TypeOK, ledger
<1>10. CASE Release(r)
  <2>1. PICK row \in Items(r) :
          /\ Delete(Key(row))
          /\ run' = [run EXCEPT ![r] =
                       IF [me EXCEPT !.claimed = @ \ {row}].claimed = {}
                       THEN Ended([me EXCEPT !.claimed = @ \ {row}], "unsent")
                       ELSE Returned([me EXCEPT !.claimed = @ \ {row}], "release")]
    BY <1>10 DEF Release
  <2>2. Key(row) \in Keys
    BY <1>10, ItemsType, KeyType DEF Release
  <2>3. [me EXCEPT !.claimed = @ \ {row}] \in RunState
    BY <1>1 DEF RunState
  <2>4. run' \in [Runs -> RunState]
    BY <1>2, <2>1, <2>3, LocalsType DEF Phases, Reasons
  <2>5. /\ deliveries' \in [Keys -> Nat]
        /\ claims' \in [Keys -> Nat]
        /\ maker' \in [Keys -> Runs \cup {NoItem}]
    BY <2>1, <2>2 DEF Delete, TypeOK
  <2> QED BY <1>10, <2>4, <2>5 DEF Release, Quiet, TypeOK
<1>11. CASE ClosedClient(r)
  <2>1. run' \in [Runs -> RunState]
    BY <1>1, <1>2, <1>11, LocalsType DEF ClosedClient, Phases, Reasons
  <2> QED BY <1>11, <2>1 DEF ClosedClient, Quiet, TypeOK, ledger
<1> QED BY <1>3, <1>4, <1>5, <1>6, <1>7, <1>8, <1>9, <1>10, <1>11 DEF Work

LEMMA TypeOfFault ==
    ASSUME TypeOK, ItemsOK, NEW r \in Runs, RunFault(r)
    PROVE  TypeOK'
<1> DEFINE me == run[r]
<1>1. me \in RunState
  BY DEF TypeOK
<1>2. \A x \in RunState : [run EXCEPT ![r] = x] \in [Runs -> RunState]
  BY DEF TypeOK
<1>3. Fault => faults' \in 0 .. MaxFaults
  BY ConstantsAssumption DEF Fault, TypeOK
<1>4. CASE TransportError(r)
  <2>1. PICK item \in Items(r) :
          /\ \/ item # NoItem /\ Committed(r, item)
             \/ UNCHANGED <<owner, ledger>>
          /\ IF LastAttempt(me)
             THEN /\ run' = [run EXCEPT ![r] = Upstream(me, "exhausted")]
                  /\ UNCHANGED cached
             ELSE /\ cached' = [cached EXCEPT ![Process[r]] = cached[Process[r]] + 1]
                  /\ run' = [run EXCEPT ![r] = Retried(me, cached[Process[r]] + 1, item)]
    BY <1>4 DEF TransportError
  <2>2. item \in Row \cup Message \cup {NoItem}
    BY <1>4, ItemsType DEF TransportError
  <2>3. /\ deliveries' \in [Keys -> Nat]
        /\ claims' \in [Keys -> Nat]
        /\ maker' \in [Keys -> Runs \cup {NoItem}]
        /\ owner' \in [Tokens -> Users \cup {NoUser}]
    BY <1>4, <2>1, CommittedType DEF TransportError, ledger, TypeOK
  <2>4. cached[Process[r]] + 1 \in Nat
    BY ConstantsAssumption DEF TypeOK
  <2>5. run' \in [Runs -> RunState] /\ cached' \in [Processes -> Nat]
    <3>1. CASE LastAttempt(me)
      BY <1>1, <1>2, <2>1, <3>1, LocalsType DEF Phases, Reasons, TypeOK
    <3>2. CASE ~LastAttempt(me)
      <4>1. me.attempt + 1 \in 1 .. MaxAttempts
        BY <1>1, <3>2, ConstantsAssumption DEF RunState, LastAttempt
      <4>2. Retried(me, cached[Process[r]] + 1, item) \in RunState
        BY <1>1, <2>2, <2>4, <4>1 DEF RunState, Retried
      <4> QED BY <1>2, <2>1, <2>4, <3>2, <4>2 DEF TypeOK
    <3> QED BY <3>1, <3>2
  <2> QED BY <1>3, <1>4, <2>3, <2>5 DEF TransportError, Fault, Quiet, TypeOK
<1>5. CASE ApiError(r)
  <2>1. run' \in [Runs -> RunState]
    BY <1>1, <1>2, <1>5, LocalsType DEF ApiError, Phases, Reasons
  <2> QED BY <1>3, <1>5, <2>1 DEF ApiError, Fault, Quiet, TypeOK, ledger
<1>6. CASE UnlistedError(r)
  <2>1. run' \in [Runs -> RunState]
    BY <1>1, <1>2, <1>6, LocalsType DEF UnlistedError, Phases, Reasons
  <2> QED BY <1>3, <1>6, <2>1 DEF UnlistedError, Fault, Quiet, TypeOK, ledger
<1>7. CASE SendFails(r)
  <2>1. run' \in [Runs -> RunState]
    <3>1. \/ run' = [run EXCEPT ![r] = Returned(run[r], "release")]
          \/ run' = [run EXCEPT ![r] = Ended(run[r], "raw")]
      BY <1>7 DEF SendFails
    <3> QED BY <1>1, <1>2, <3>1, LocalsType DEF Phases, Reasons
  <2>2. handed' \subseteq Message
    BY <1>1, <1>7 DEF SendFails, RunState, TypeOK
  <2> QED BY <1>3, <1>7, <2>1, <2>2 DEF SendFails, Fault, Quiet, TypeOK, ledger
<1> QED BY <1>4, <1>5, <1>6, <1>7 DEF RunFault

LEMMA TypeOfStart ==
    ASSUME TypeOK, NEW r \in Runs, Start(r)
    PROVE  TypeOK'
<1> DEFINE c == cached[Process[r]]
<1>1. now \in Nat /\ c \in Nat /\ 1 \in 1 .. MaxAttempts
  BY ConstantsAssumption DEF TypeOK
<1>2. Idle \in RunState
  BY <1>1 DEF Idle, RunState, Phases, Reasons, TypeOK
<1>3. [Idle EXCEPT !.pc = "pages", !.start = now, !.client = c, !.using = c] \in RunState
  <2> HIDE DEF c
  <2> QED BY <1>1, <1>2 DEF RunState, Phases
<1>4. run' \in [Runs -> RunState]
  BY <1>3 DEF Start, TypeOK
<1>5. seen' \in [Runs -> SUBSET (Tokens \X Users)]
  BY DEF Start, TypeOK
<1> QED BY <1>4, <1>5 DEF Start, Quiet, TypeOK, ledger

LEMMA TypeOfEnvironment ==
    ASSUME TypeOK,
           \/ Environment
           \/ \E p \in Processes : OtherReset(p) \/ Crash(p)
    PROVE  TypeOK'
<1>1. Edit => edits' \in 0 .. MaxEdits
  BY ConstantsAssumption DEF Edit, TypeOK
<1>2. Fault => faults' \in 0 .. MaxFaults
  BY ConstantsAssumption DEF Fault, TypeOK
<1>3. CASE Tick
  BY <1>3, ConstantsAssumption DEF Tick, TypeOK, tables, ledger
<1>4. ASSUME NEW e \in Events, EditEvent(e) PROVE TypeOK'
  BY <1>1, <1>4 DEF EditEvent, Edit, TypeOK, ledger
<1>5. ASSUME NEW u \in Users, SetZone(u) PROVE TypeOK'
  BY <1>1, <1>5 DEF SetZone, Edit, TypeOK, ledger
<1>6. ASSUME NEW t \in Tokens, NEW u \in Users, RegisterToken(t, u) PROVE TypeOK'
  <2>1. seen' \in [Runs -> SUBSET (Tokens \X Users)]
    BY <1>6 DEF RegisterToken, TypeOK
  <2> QED BY <1>1, <1>6, <2>1 DEF RegisterToken, Edit, TypeOK, ledger
<1>7. ASSUME NEW t \in Tokens, UnregisterToken(t) PROVE TypeOK'
  BY <1>1, <1>7 DEF UnregisterToken, Edit, TypeOK, ledger
<1>8. ASSUME NEW p \in Processes, OtherReset(p) PROVE TypeOK'
  BY <1>2, <1>8 DEF OtherReset, Fault, Quiet, TypeOK, ledger
<1>9. ASSUME NEW p \in Processes, Crash(p) PROVE TypeOK'
  <2>1. run' \in [Runs -> RunState]
    BY <1>9, LocalsType DEF Crash, TypeOK, Phases, Reasons
  <2> QED BY <1>2, <1>9, <2>1 DEF Crash, Fault, Quiet, TypeOK, ledger
<1> QED BY <1>3, <1>4, <1>5, <1>6, <1>7, <1>8, <1>9 DEF Environment

-----------------------------------------------------------------------------
(* What each way to go on does to a run's locals.                           *)

\* The locals that decide what a run still has to do.
SameWork(n, me) ==
    /\ n.rows = me.rows /\ n.zones = me.zones /\ n.start = me.start /\ n.toks = me.toks
    /\ n.due = me.due /\ n.pending = me.pending
    /\ n.claimed = me.claimed /\ n.todo = me.todo

LEMMA ReturnedFacts ==
    ASSUME NEW me \in RunState, NEW pc \in Phases
    PROVE  /\ SameWork(Returned(me, pc), me)
           /\ Returned(me, pc).pc = pc
           /\ Returned(me, pc).why = me.why
           /\ Returned(me, pc).attempt = 1
BY DEF Returned, SameWork, RunState

LEMMA EndedFacts ==
    ASSUME NEW me \in RunState, NEW why \in Reasons
    PROVE  /\ SameWork(Ended(me, why), me)
           /\ Ended(me, why).pc = "ended"
           /\ Ended(me, why).why = why
BY DEF Ended, SameWork, RunState

LEMMA UpstreamFacts ==
    ASSUME NEW me \in RunState, NEW why \in Reasons
    PROVE  /\ SameWork(Upstream(me, why), me)
           /\ me.pc = "stale" => /\ Upstream(me, why).pc = "release"
                                 /\ Upstream(me, why).why = me.why
                                 /\ Upstream(me, why).attempt = 1
           /\ me.pc # "stale" => /\ Upstream(me, why).pc = "ended"
                                 /\ Upstream(me, why).why = why
BY ReturnedFacts, EndedFacts DEF Upstream, Phases

LEMMA ResumeFacts ==
    ASSUME NEW me \in RunState
    PROVE  /\ SameWork(Resume(me), me)
           /\ Resume(me).pc \in {"claim", "send", "ended"}
           /\ Resume(me).pc = "claim" <=> me.due # {}
           /\ Resume(me).pc = "ended" <=> me.due = {} /\ me.pending = {}
           /\ Resume(me).pc = "ended" => Resume(me).why = "done"
           /\ Resume(me).pc # "ended" => /\ Resume(me).why = me.why
                                         /\ Resume(me).attempt = 1
<1>1. CASE me.due # {}
  BY <1>1, ReturnedFacts DEF Resume, Phases
<1>2. CASE me.due = {} /\ me.pending # {}
  BY <1>2, ReturnedFacts DEF Resume, Phases
<1>3. CASE me.due = {} /\ me.pending = {}
  BY <1>3, EndedFacts DEF Resume, Reasons
<1> QED BY <1>1, <1>2, <1>3

LEMMA FlushedFacts ==
    ASSUME NEW me \in RunState
    PROVE  LET n == Flushed(me) IN
           /\ n.rows = me.rows /\ n.zones = me.zones /\ n.start = me.start
           /\ n.toks = me.toks /\ n.due = me.due
           /\ n.pending = {} /\ n.claimed = {} /\ n.todo = {}
           /\ n.pc \in {"claim", "ended"}
           /\ n.pc = "claim" <=> me.due # {}
           /\ n.pc = "ended" => n.why = "done"
           /\ n.pc = "claim" => n.why = me.why /\ n.attempt = 1
<1> DEFINE x == [me EXCEPT !.pending = {}, !.claimed = {}, !.todo = {}]
<1>1. x \in RunState
  BY DEF RunState
<1>2. /\ x.rows = me.rows /\ x.zones = me.zones /\ x.start = me.start
      /\ x.toks = me.toks /\ x.due = me.due /\ x.why = me.why
      /\ x.pending = {} /\ x.claimed = {} /\ x.todo = {}
  BY DEF RunState
<1> HIDE DEF x
<1>3. /\ SameWork(Resume(x), x)
      /\ Resume(x).pc \in {"claim", "send", "ended"}
      /\ Resume(x).pc = "claim" <=> x.due # {}
      /\ Resume(x).pc = "ended" <=> x.due = {} /\ x.pending = {}
      /\ Resume(x).pc = "ended" => Resume(x).why = "done"
      /\ Resume(x).pc # "ended" => Resume(x).why = x.why /\ Resume(x).attempt = 1
  BY <1>1, ResumeFacts
<1>4. Flushed(me) = Resume(x)
  BY DEF Flushed, x
<1> QED BY <1>2, <1>3, <1>4 DEF SameWork

LEMMA ClaimedFacts ==
    ASSUME NEW me \in RunState, NEW row \in Row, NEW id \in Nat,
           TokensOf(me.toks, Author[row.event]) # {}
    PROVE  LET n == Claimed(me, row, id) IN
           /\ n.rows = me.rows /\ n.zones = me.zones /\ n.start = me.start
           /\ n.toks = me.toks /\ n.todo = me.todo
           /\ n.due = me.due \ {row} /\ n.claimed = me.claimed \cup {row}
           /\ n.pending = me.pending \cup Messages(me, row, id)
           /\ n.pc \in {"claim", "send"}
           /\ n.pc = "claim" => ~(Cardinality(n.pending) >= BatchSize)
           /\ n.why = me.why /\ n.attempt = 1
           /\ \E m \in n.pending : m.key = Key(row) /\ m.claim = id
<1> DEFINE msgs == Messages(me, row, id)
           got == Batched(me, row, id)
<1>1. msgs \subseteq Message
  BY KeyType DEF Messages, Message, TokensOf
<1>2. \E m \in msgs : m.key = Key(row) /\ m.claim = id
  <2>1. PICK t \in TokensOf(me.toks, Author[row.event]) : TRUE
    OBVIOUS
  <2>2. [key |-> Key(row), claim |-> id, to |-> t] \in msgs
    BY DEF Messages
  <2> QED BY <2>2
<1> HIDE DEF msgs
<1>3. got \in RunState
  BY <1>1 DEF RunState, Batched, msgs
<1>4. /\ got.rows = me.rows /\ got.zones = me.zones /\ got.start = me.start
      /\ got.toks = me.toks /\ got.todo = me.todo /\ got.why = me.why
      /\ got.due = me.due \ {row} /\ got.claimed = me.claimed \cup {row}
      /\ got.pending = me.pending \cup msgs
  BY DEF RunState, Batched, msgs
<1>5. Claimed(me, row, id) = IF Cardinality(got.pending) >= BatchSize
                             THEN Returned(got, "send") ELSE Resume(got)
  BY DEF Claimed
<1> HIDE DEF got
<1>6. \E m \in got.pending : m.key = Key(row) /\ m.claim = id
  BY <1>2, <1>4
<1>7. CASE Cardinality(got.pending) >= BatchSize
  <2>1. /\ SameWork(Returned(got, "send"), got)
        /\ Returned(got, "send").pc = "send"
        /\ Returned(got, "send").why = got.why
        /\ Returned(got, "send").attempt = 1
    BY <1>3, ReturnedFacts DEF Phases
  <2> QED BY <1>4, <1>5, <1>6, <1>7, <2>1 DEF SameWork, msgs
<1>8. CASE ~(Cardinality(got.pending) >= BatchSize)
  <2>1. /\ SameWork(Resume(got), got)
        /\ Resume(got).pc \in {"claim", "send", "ended"}
        /\ Resume(got).pc = "ended" => got.pending = {}
        /\ Resume(got).pc # "ended" => Resume(got).why = got.why /\ Resume(got).attempt = 1
    BY <1>3, ResumeFacts
  <2> QED BY <1>4, <1>5, <1>6, <1>8, <2>1 DEF SameWork, msgs
<1> QED BY <1>7, <1>8

-----------------------------------------------------------------------------
(* What holds of each run's locals by themselves.                           *)

\* Before the loop there is no batch; a run has a reason iff it has ended.
FreshOK(me) ==
    /\ me.pc \in {"idle", "pages", "zones", "tokens"} =>
          me.pending = {} /\ me.claimed = {} /\ me.due = {} /\ me.todo = {}
    /\ me.pc # "ended" <=> me.why = "none"

\* Every row of the loop has somebody to notify.
DueOK(me) == \A row \in me.due : TokensOf(me.toks, Author[row.event]) # {}

\* The loop claims only into a batch that is not full.
BatchOK(me) ==
    /\ IsFiniteSet(me.pending)
    /\ BatchFits(me)
    /\ me.pc = "claim" => Cardinality(me.pending) < BatchSize

Local(me) == ItemOK(me) /\ FreshOK(me) /\ DueOK(me) /\ BatchOK(me)

LocalOK == \A r \in Runs : Local(run[r])

LEMMA NoBatch == IsFiniteSet({}) /\ Cardinality({}) < BatchSize
BY ConstantsAssumption, FS_EmptySet, FS_CardinalityType

\* One claim adds at most a message per device of the event's author.
LEMMA MessagesFew ==
    ASSUME NEW me, NEW row, NEW id
    PROVE  /\ IsFiniteSet(Messages(me, row, id))
           /\ IsFiniteSet(TokensOf(me.toks, Author[row.event]))
           /\ Cardinality(Messages(me, row, id))
              <= Cardinality(TokensOf(me.toks, Author[row.event]))
<1> DEFINE toks == TokensOf(me.toks, Author[row.event])
           f == [t \in toks |-> [key |-> Key(row), claim |-> id, to |-> t]]
<1>1. toks \in SUBSET Tokens
  BY DEF TokensOf
<1>2. IsFiniteSet(toks)
  BY <1>1, FS_Subset, ConstantsAssumption
<1>3. f \in Surjection(toks, Messages(me, row, id))
  BY DEF Surjection, Messages
<1>4. /\ IsFiniteSet(Messages(me, row, id))
      /\ Cardinality(Messages(me, row, id)) <= Cardinality(toks)
  BY <1>2, <1>3, FS_Surjection
<1> QED BY <1>2, <1>4

LEMMA LocalEnded ==
    ASSUME NEW me \in RunState, Local(me), NEW why \in Reasons \ {"none"}
    PROVE  Local(Ended(me, why))
BY EndedFacts DEF Local, ItemOK, FreshOK, DueOK, BatchOK, BatchFits, SameWork

LEMMA LocalUpstream ==
    ASSUME NEW me \in RunState, Local(me), NEW why \in Reasons \ {"none"}
    PROVE  Local(Upstream(me, why))
<1>1. CASE me.pc = "stale"
  BY <1>1, UpstreamFacts DEF Local, ItemOK, FreshOK, DueOK, BatchOK, BatchFits, SameWork
<1>2. CASE me.pc # "stale"
  BY <1>2, UpstreamFacts DEF Local, ItemOK, FreshOK, DueOK, BatchOK, BatchFits, SameWork
<1> QED BY <1>1, <1>2

LEMMA LocalFlushed ==
    ASSUME NEW me \in RunState, Local(me), me.pc # "ended"
    PROVE  Local(Flushed(me))
<1> DEFINE n == Flushed(me)
<1>1. /\ n.pc \in {"claim", "ended"} /\ n.toks = me.toks /\ n.due = me.due
      /\ n.pc # "ended" => n.attempt = 1
      /\ n.pc = "ended" => n.why = "done"
      /\ n.pc = "claim" => n.why = me.why
  BY FlushedFacts
<1>2. n.pending = {}
  BY FlushedFacts
<1> HIDE DEF n
<1>3. ItemOK(n) /\ FreshOK(n) /\ DueOK(n)
  BY <1>1 DEF Local, ItemOK, FreshOK, DueOK
<1>4. BatchOK(n)
  BY <1>2, NoBatch DEF BatchOK, BatchFits
<1> QED BY <1>3, <1>4 DEF Local, n

LEMMA LocalOfWork ==
    ASSUME TypeOK, LocalOK, NEW r \in Runs, Work(r)
    PROVE  LocalOK'
<1> DEFINE me == run[r]
<1>1. me \in RunState /\ Local(me) /\ ItemsOK
  BY DEF TypeOK, LocalOK, Local, ItemsOK
<1>2. ASSUME NEW n, run' = [run EXCEPT ![r] = n], Local(n)
      PROVE  LocalOK'
  BY <1>2 DEF LocalOK, TypeOK
<1>3. CASE FetchPage(r)
  <2>1. PICK read \in SUBSET {e \in Events : events[e].reminder # NoReminder} :
          \/ run' = [run EXCEPT ![r] = Returned(GotPage(me, read), "pages")]
          \/ run' = [run EXCEPT ![r] = Returned(GotPage(me, read), "zones")]
          \/ run' = [run EXCEPT ![r] = Ended(GotPage(me, read), "done")]
    BY <1>3 DEF FetchPage
  <2> DEFINE got == GotPage(me, read)
  <2>2. me.pc = "pages"
    BY <1>3 DEF FetchPage
  <2>3. /\ got \in RunState
        /\ got.pending = {} /\ got.claimed = {} /\ got.due = {} /\ got.todo = {}
        /\ got.why = "none" /\ got.pc = "pages"
    BY <1>1, <2>1, <2>2, GotPageFacts DEF Local, FreshOK
  <2> HIDE DEF got
  <2>4. ASSUME NEW pc \in {"pages", "zones"}
        PROVE  Local(Returned(got, pc))
    <3>1. /\ SameWork(Returned(got, pc), got)
          /\ Returned(got, pc).pc = pc
          /\ Returned(got, pc).why = got.why
          /\ Returned(got, pc).attempt = 1
      BY <2>3, ReturnedFacts DEF Phases
    <3> QED BY <2>3, <3>1, NoBatch DEF Local, ItemOK, FreshOK, DueOK, BatchOK, BatchFits, SameWork
  <2>5. Local(Ended(got, "done"))
    <3>1. /\ SameWork(Ended(got, "done"), got)
          /\ Ended(got, "done").pc = "ended" /\ Ended(got, "done").why = "done"
      BY <2>3, EndedFacts DEF Reasons
    <3> QED BY <2>3, <3>1, NoBatch DEF Local, ItemOK, FreshOK, DueOK, BatchOK, BatchFits, SameWork
  <2> QED BY <1>2, <2>1, <2>4, <2>5 DEF got
<1>4. CASE FetchZones(r)
  <2> DEFINE got == [me EXCEPT !.zones = zone]
  <2>1. got \in RunState
    BY <1>1 DEF RunState, TypeOK
  <2>2. /\ got.pending = {} /\ got.claimed = {} /\ got.due = {} /\ got.todo = {}
        /\ got.why = "none"
    BY <1>1, <1>4 DEF FetchZones, RunState, Local, FreshOK
  <2>3. run' = [run EXCEPT ![r] = Returned(got, "tokens")]
    BY <1>4 DEF FetchZones
  <2> HIDE DEF got
  <2>4. Local(Returned(got, "tokens"))
    <3>1. /\ SameWork(Returned(got, "tokens"), got)
          /\ Returned(got, "tokens").pc = "tokens"
          /\ Returned(got, "tokens").why = got.why
          /\ Returned(got, "tokens").attempt = 1
      BY <2>1, ReturnedFacts DEF Phases
    <3> QED BY <2>2, <3>1, NoBatch DEF Local, ItemOK, FreshOK, DueOK, BatchOK, BatchFits, SameWork
  <2> QED BY <1>2, <2>3, <2>4
<1>5. CASE FetchTokens(r)
  <2> DEFINE got == [me EXCEPT !.toks = owner]
             loop == [got EXCEPT !.due = DueRows(got)]
  <2>1. got \in RunState
    BY <1>1 DEF RunState, TypeOK
  <2>2. /\ got.pending = {} /\ got.why = "none"
    BY <1>1, <1>5 DEF FetchTokens, RunState, Local, FreshOK
  <2>3. DueRows(got) \subseteq Row
    BY <2>1 DEF DueRows, RunState
  <2>4. /\ loop \in RunState
        /\ loop.due = DueRows(got) /\ loop.toks = got.toks
        /\ loop.pending = {} /\ loop.why = "none"
    <3> HIDE DEF got
    <3> QED BY <2>1, <2>2, <2>3 DEF RunState
  <2>5. \A row \in DueRows(got) : TokensOf(got.toks, Author[row.event]) # {}
    BY DEF DueRows
  <2>6. run' = [run EXCEPT ![r] = Resume(loop)]
    BY <1>5 DEF FetchTokens
  <2> HIDE DEF loop, got
  <2>7. Local(Resume(loop))
    <3>1. /\ SameWork(Resume(loop), loop)
          /\ Resume(loop).pc \in {"claim", "send", "ended"}
          /\ Resume(loop).pc = "ended" => Resume(loop).why = "done"
          /\ Resume(loop).pc # "ended" => Resume(loop).why = loop.why /\ Resume(loop).attempt = 1
      BY <2>4, ResumeFacts
    <3> QED BY <2>4, <2>5, <3>1, NoBatch DEF Local, ItemOK, FreshOK, DueOK, BatchOK, BatchFits, SameWork
  <2> QED BY <1>2, <2>6, <2>7
<1>6. CASE Claim(r)
  <2>1. PICK row \in Items(r) :
          /\ Insert(r, Key(row))
          /\ run' = [run EXCEPT ![r] = Claimed(me, row, claims[Key(row)] + 1)]
    BY <1>6 DEF Claim
  <2> DEFINE id == claims[Key(row)] + 1
             n == Claimed(me, row, id)
  <2>2. me.pc = "claim" /\ row \in me.due /\ row \in Row /\ Key(row) \in Keys
    BY <1>1, <1>6, ItemsType, KeyType DEF Claim
  <2>3. id \in Nat
    BY <2>2 DEF TypeOK
  <2>4. TokensOf(me.toks, Author[row.event]) # {}
    BY <1>1, <2>2 DEF Local, DueOK
  <2> HIDE DEF id
  <2>0. me \in RunState /\ row \in Row
    BY <1>1, <2>2
  <2>5. /\ n.toks = me.toks /\ n.due = me.due \ {row}
        /\ n.pending = me.pending \cup Messages(me, row, id)
        /\ n.pc \in {"claim", "send"}
        /\ n.pc = "claim" => ~(Cardinality(n.pending) >= BatchSize)
        /\ n.why = me.why /\ n.attempt = 1
        /\ \E m \in n.pending : m.key = Key(row)
    BY <2>0, <2>3, <2>4, ClaimedFacts
  <2>6. BatchOK(n)
    <3> DEFINE msgs == Messages(me, row, id)
               few == TokensOf(me.toks, Author[row.event])
    <3>1. IsFiniteSet(msgs) /\ IsFiniteSet(few) /\ Cardinality(msgs) <= Cardinality(few)
      BY MessagesFew
    <3>2. IsFiniteSet(me.pending) /\ Cardinality(me.pending) < BatchSize
      BY <1>1, <2>2 DEF Local, BatchOK
    <3> HIDE DEF msgs, few, n
    <3>3. IsFiniteSet(me.pending \cup msgs)
          /\ Cardinality(me.pending \cup msgs) =
             Cardinality(me.pending) + Cardinality(msgs) - Cardinality(me.pending \cap msgs)
      BY <3>1, <3>2, FS_Union
    <3>4. IsFiniteSet(me.pending \cap msgs)
      BY <3>1, FS_Intersection
    <3>5. /\ Cardinality(me.pending) \in Nat /\ Cardinality(msgs) \in Nat
          /\ Cardinality(me.pending \cap msgs) \in Nat /\ Cardinality(few) \in Nat
          /\ BatchSize \in Nat
      BY <3>1, <3>2, <3>4, FS_CardinalityType, ConstantsAssumption
    <3>6. n.pending = me.pending \cup msgs
      BY <2>5 DEF msgs
    <3>7. IsFiniteSet(n.pending) /\ Cardinality(n.pending) \in Nat
      BY <3>3, <3>6, FS_CardinalityType
    <3>8. BatchFits(n)
      <4>1. Cardinality(n.pending) < BatchSize + Cardinality(few)
        BY <3>1, <3>2, <3>3, <3>5, <3>6
      <4>2. PICK m \in n.pending : m.key = Key(row)
        BY <2>5
      <4>3. TokensOf(n.toks, Author[m.key[1]]) = few
        BY <2>5, <4>2 DEF few, Key
      <4> QED BY <4>1, <4>2, <4>3 DEF BatchFits
    <3>9. n.pc = "claim" => Cardinality(n.pending) < BatchSize
      BY <2>5, <3>5, <3>7
    <3> QED BY <3>7, <3>8, <3>9 DEF BatchOK
  <2>7. Local(n)
    <3> HIDE DEF n
    <3> QED BY <1>1, <2>2, <2>5, <2>6 DEF Local, ItemOK, FreshOK, DueOK
  <2> QED BY <1>2, <2>1, <2>7 DEF id
<1>7. CASE ClaimRefused(r)
  BY <1>1, <1>2, <1>7, LocalUpstream DEF ClaimRefused, Reasons
<1>8. CASE Send(r)
  <2>1. PICK bad \in SUBSET me.pending :
          run' = [run EXCEPT ![r] = IF bad = {} THEN Flushed(me)
                                    ELSE Returned([me EXCEPT !.todo = bad], "stale")]
    BY <1>8 DEF Send
  <2>2. me.pc = "send" /\ me.pending \subseteq Message
    BY <1>1, <1>8 DEF Send, RunState
  <2> DEFINE got == [me EXCEPT !.todo = bad]
  <2>3. /\ got \in RunState
        /\ got.due = me.due /\ got.toks = me.toks /\ got.pending = me.pending
        /\ got.why = me.why
    BY <1>1, <2>2 DEF RunState
  <2> HIDE DEF got
  <2>4. Local(Returned(got, "stale"))
    <3>1. /\ SameWork(Returned(got, "stale"), got)
          /\ Returned(got, "stale").pc = "stale"
          /\ Returned(got, "stale").why = got.why
          /\ Returned(got, "stale").attempt = 1
      BY <2>3, ReturnedFacts DEF Phases
    <3> QED BY <1>1, <2>2, <2>3, <3>1 DEF Local, ItemOK, FreshOK, DueOK, BatchOK, BatchFits, SameWork
  <2>5. Local(Flushed(me))
    BY <1>1, <2>2, LocalFlushed
  <2> QED BY <1>2, <2>1, <2>4, <2>5 DEF got
<1>9. CASE DeleteStaleToken(r)
  <2>1. PICK m \in Items(r) :
          run' = [run EXCEPT ![r] =
                       IF [me EXCEPT !.todo = @ \ {m}].todo = {}
                       THEN Flushed([me EXCEPT !.todo = @ \ {m}])
                       ELSE Returned([me EXCEPT !.todo = @ \ {m}], "stale")]
    BY <1>9 DEF DeleteStaleToken
  <2> DEFINE got == [me EXCEPT !.todo = @ \ {m}]
  <2>2. /\ got \in RunState /\ me.pc = "stale"
        /\ got.due = me.due /\ got.toks = me.toks /\ got.pending = me.pending
        /\ got.why = me.why /\ got.pc = me.pc /\ got.attempt = me.attempt
    BY <1>1, <1>9 DEF RunState, DeleteStaleToken
  <2> HIDE DEF got
  <2>3. Local(Returned(got, "stale")) /\ Local(Flushed(got))
    <3>1. /\ SameWork(Returned(got, "stale"), got)
          /\ Returned(got, "stale").pc = "stale"
          /\ Returned(got, "stale").why = got.why
          /\ Returned(got, "stale").attempt = 1
      BY <2>2, ReturnedFacts DEF Phases
    <3>2. Local(Returned(got, "stale"))
      BY <1>1, <2>2, <3>1 DEF Local, ItemOK, FreshOK, DueOK, BatchOK, BatchFits, SameWork
    <3>3. LET n == Flushed(got) IN
          /\ n.pc \in {"claim", "ended"} /\ n.toks = got.toks /\ n.due = got.due
          /\ n.pending = {}
          /\ n.pc # "ended" => n.attempt = 1
          /\ n.pc = "ended" => n.why = "done"
          /\ n.pc = "claim" => n.why = got.why
      BY <2>2, FlushedFacts
    <3>4. Local(Flushed(got))
      BY <1>1, <2>2, <3>3, NoBatch DEF Local, ItemOK, FreshOK, DueOK, BatchOK, BatchFits
    <3> QED BY <3>2, <3>4
  <2> QED BY <1>2, <2>1, <2>3 DEF got
<1>10. CASE Release(r)
  <2>1. PICK row \in Items(r) :
          run' = [run EXCEPT ![r] =
                       IF [me EXCEPT !.claimed = @ \ {row}].claimed = {}
                       THEN Ended([me EXCEPT !.claimed = @ \ {row}], "unsent")
                       ELSE Returned([me EXCEPT !.claimed = @ \ {row}], "release")]
    BY <1>10 DEF Release
  <2> DEFINE got == [me EXCEPT !.claimed = @ \ {row}]
  <2>2. /\ got \in RunState /\ me.pc = "release"
        /\ got.due = me.due /\ got.toks = me.toks /\ got.pending = me.pending
        /\ got.why = me.why
    BY <1>1, <1>10 DEF RunState, Release
  <2> HIDE DEF got
  <2>3. Local(Returned(got, "release"))
    <3>1. /\ SameWork(Returned(got, "release"), got)
          /\ Returned(got, "release").pc = "release"
          /\ Returned(got, "release").why = got.why
          /\ Returned(got, "release").attempt = 1
      BY <2>2, ReturnedFacts DEF Phases
    <3> QED BY <1>1, <2>2, <3>1 DEF Local, ItemOK, FreshOK, DueOK, BatchOK, BatchFits, SameWork
  <2>4. Local(Ended(got, "unsent"))
    <3>1. /\ SameWork(Ended(got, "unsent"), got)
          /\ Ended(got, "unsent").pc = "ended"
          /\ Ended(got, "unsent").why = "unsent"
      BY <2>2, EndedFacts DEF Reasons
    <3> QED BY <1>1, <2>2, <3>1 DEF Local, ItemOK, FreshOK, DueOK, BatchOK, BatchFits, SameWork
  <2> QED BY <1>2, <2>1, <2>3, <2>4 DEF got
<1>11. CASE ClosedClient(r)
  BY <1>1, <1>2, <1>11, LocalEnded DEF ClosedClient, Reasons
<1> QED BY <1>3, <1>4, <1>5, <1>6, <1>7, <1>8, <1>9, <1>10, <1>11 DEF Work

\* A retry is about an item of the list its call walks.
LEMMA RetriedLocal ==
    ASSUME TypeOK, LocalOK, NEW r \in Runs, run[r].pc \in Calls,
           NEW item \in Items(r), NEW fresh \in Nat, ~LastAttempt(run[r])
    PROVE  /\ SameWork(Retried(run[r], fresh, item), run[r])
           /\ Retried(run[r], fresh, item).pc = run[r].pc
           /\ Retried(run[r], fresh, item).why = run[r].why
           /\ Local(Retried(run[r], fresh, item))
<1> DEFINE me == run[r]
           n == Retried(me, fresh, item)
<1>1. me \in RunState /\ Local(me) /\ ItemsOK
  BY DEF TypeOK, LocalOK, Local, ItemsOK
<1>2. /\ n.item = item /\ n.pc = me.pc /\ n.why = me.why
      /\ n.rows = me.rows /\ n.zones = me.zones /\ n.start = me.start
      /\ n.due = me.due /\ n.toks = me.toks /\ n.pending = me.pending
      /\ n.claimed = me.claimed /\ n.todo = me.todo
  BY <1>1 DEF Retried, RunState
<1>3. /\ me.pc = "claim" => item \in me.due
      /\ me.pc = "stale" => item \in me.todo
      /\ me.pc = "release" => item \in me.claimed
      /\ me.pc \in {"pages", "zones", "tokens"} => item = NoItem
  BY <1>1, ItemsType
<1> HIDE DEF n
<1>4. SameWork(n, me)
  BY <1>2 DEF SameWork
<1>5. Local(n)
  BY <1>1, <1>2, <1>3 DEF Local, ItemOK, FreshOK, DueOK, BatchOK, BatchFits
<1> QED BY <1>2, <1>4, <1>5 DEF n

LEMMA LocalOfFault ==
    ASSUME TypeOK, LocalOK, NEW r \in Runs, RunFault(r)
    PROVE  LocalOK'
<1> DEFINE me == run[r]
<1>1. me \in RunState /\ Local(me)
  BY DEF TypeOK, LocalOK
<1>2. ASSUME NEW n, run' = [run EXCEPT ![r] = n], Local(n)
      PROVE  LocalOK'
  BY <1>2 DEF LocalOK, TypeOK
<1>3. CASE TransportError(r)
  <2> DEFINE fresh == cached[Process[r]] + 1
  <2>1. PICK item \in Items(r) :
          IF LastAttempt(me) THEN run' = [run EXCEPT ![r] = Upstream(me, "exhausted")]
          ELSE run' = [run EXCEPT ![r] = Retried(me, fresh, item)]
    BY <1>3 DEF TransportError
  <2>2. me.pc \in Calls
    BY <1>3 DEF TransportError
  <2>3. fresh \in Nat
    BY ConstantsAssumption DEF TypeOK
  <2>4. CASE LastAttempt(me)
    BY <1>1, <1>2, <2>1, <2>4, LocalUpstream DEF Reasons
  <2>5. CASE ~LastAttempt(me)
    <3>1. Local(Retried(me, fresh, item))
      BY <2>2, <2>3, <2>5, RetriedLocal
    <3> QED BY <1>2, <2>1, <2>5, <3>1
  <2> QED BY <2>4, <2>5
<1>4. CASE ApiError(r)
  BY <1>1, <1>2, <1>4, LocalUpstream DEF ApiError, Reasons
<1>5. CASE UnlistedError(r)
  BY <1>1, <1>2, <1>5, LocalEnded DEF UnlistedError, Reasons
<1>6. CASE SendFails(r)
  <2>1. /\ me.pc = "send"
        /\ \/ run' = [run EXCEPT ![r] = Returned(me, "release")]
           \/ run' = [run EXCEPT ![r] = Ended(me, "raw")]
    BY <1>6 DEF SendFails
  <2>2. Local(Returned(me, "release"))
    <3>1. /\ SameWork(Returned(me, "release"), me)
          /\ Returned(me, "release").pc = "release"
          /\ Returned(me, "release").why = me.why
          /\ Returned(me, "release").attempt = 1
      BY <1>1, ReturnedFacts DEF Phases
    <3> QED BY <1>1, <2>1, <3>1 DEF Local, ItemOK, FreshOK, DueOK, BatchOK, BatchFits, SameWork
  <2>3. Local(Ended(me, "raw"))
    BY <1>1, LocalEnded DEF Reasons
  <2> QED BY <1>2, <2>1, <2>2, <2>3
<1> QED BY <1>3, <1>4, <1>5, <1>6 DEF RunFault

\* What a run is when it starts.
LEMMA StartFacts ==
    ASSUME TypeOK, NEW r \in Runs, Start(r)
    PROVE  \E n \in RunState :
              /\ run' = [run EXCEPT ![r] = n]
              /\ n.pc = "pages" /\ n.why = "none" /\ n.attempt = 1
              /\ n.rows = {} /\ n.due = {} /\ n.pending = {}
              /\ n.claimed = {} /\ n.todo = {}
<1> DEFINE c == cached[Process[r]]
           n == [Idle EXCEPT !.pc = "pages", !.start = now, !.client = c, !.using = c]
<1>1. now \in Nat /\ c \in Nat /\ 1 \in 1 .. MaxAttempts
  BY ConstantsAssumption DEF TypeOK
<1>2. Idle \in RunState
  BY <1>1 DEF Idle, RunState, Phases, Reasons, TypeOK
<1>3. run' = [run EXCEPT ![r] = n]
  BY DEF Start
<1> HIDE DEF c
<1>4. n \in RunState
  BY <1>1, <1>2 DEF RunState, Phases
<1>5. /\ n.pc = "pages" /\ n.why = "none" /\ n.attempt = 1
      /\ n.rows = {} /\ n.due = {} /\ n.pending = {}
      /\ n.claimed = {} /\ n.todo = {}
  BY DEF Idle
<1> QED BY <1>3, <1>4, <1>5

LEMMA LocalOfStart ==
    ASSUME TypeOK, LocalOK, NEW r \in Runs, Start(r)
    PROVE  LocalOK'
<1>1. PICK n \in RunState :
        /\ run' = [run EXCEPT ![r] = n]
        /\ n.pc = "pages" /\ n.why = "none" /\ n.attempt = 1
        /\ n.due = {} /\ n.pending = {} /\ n.claimed = {} /\ n.todo = {}
  BY StartFacts
<1>2. Local(n)
  BY <1>1, NoBatch DEF Local, ItemOK, FreshOK, DueOK, BatchOK, BatchFits
<1> QED BY <1>1, <1>2 DEF LocalOK, TypeOK

LEMMA LocalOfEnvironment ==
    ASSUME TypeOK, LocalOK,
           \/ Environment
           \/ \E p \in Processes : OtherReset(p) \/ Crash(p)
    PROVE  LocalOK'
<1>1. CASE UNCHANGED run
  BY <1>1 DEF LocalOK
<1>2. ASSUME NEW p \in Processes, Crash(p) PROVE LocalOK'
  <2>1. SUFFICES ASSUME NEW r \in Runs PROVE Local(run'[r])
    BY DEF LocalOK
  <2>2. run[r] \in RunState /\ Local(run[r])
    BY DEF TypeOK, LocalOK
  <2>3. run'[r] = run[r] \/ run'[r] = Ended(run[r], "crashed")
    BY <1>2 DEF Crash
  <2> QED BY <2>2, <2>3, LocalEnded DEF Reasons
<1>3. Environment => UNCHANGED run
  BY DEF Environment, Tick, EditEvent, SetZone, RegisterToken, UnregisterToken, Edit
<1>4. \A p \in Processes : OtherReset(p) => UNCHANGED run
  BY DEF OtherReset
<1> QED BY <1>1, <1>2, <1>3, <1>4

\* The inductive invariant of the locals.
Inv0 == TypeOK /\ LocalOK

LEMMA Inv0Init == Init => Inv0
<1> SUFFICES ASSUME Init PROVE Inv0
  OBVIOUS
<1>1. TypeOK
  <2>1. 1 \in 1 .. MaxAttempts /\ zone \in [Users -> Zones]
    BY ConstantsAssumption DEF Init
  <2>2. Idle \in RunState
    BY <2>1 DEF Idle, RunState, Phases, Reasons
  <2> QED BY <2>2, ConstantsAssumption DEF Init, TypeOK
<1>2. LocalOK
  <2>1. Local(Idle)
    BY NoBatch DEF Idle, Local, ItemOK, FreshOK, DueOK, BatchOK, BatchFits
  <2> QED BY <2>1 DEF Init, LocalOK
<1> QED BY <1>1, <1>2 DEF Inv0

LEMMA Inv0Next == Inv0 /\ [Next]_vars => Inv0'
<1> SUFFICES ASSUME Inv0, [Next]_vars PROVE Inv0'
  OBVIOUS
<1>1. TypeOK /\ LocalOK /\ ItemsOK
  BY DEF Inv0, LocalOK, Local, ItemsOK
<1>2. CASE Environment \/ \E p \in Processes : OtherReset(p) \/ Crash(p)
  BY <1>1, <1>2, TypeOfEnvironment, LocalOfEnvironment DEF Inv0
<1>3. ASSUME NEW r \in Runs, Start(r) PROVE Inv0'
  BY <1>1, <1>3, TypeOfStart, LocalOfStart DEF Inv0
<1>4. ASSUME NEW r \in Runs, Work(r) PROVE Inv0'
  BY <1>1, <1>4, TypeOfWork, LocalOfWork DEF Inv0
<1>5. ASSUME NEW r \in Runs, RunFault(r) PROVE Inv0'
  BY <1>1, <1>5, TypeOfFault, LocalOfFault DEF Inv0
<1>6. CASE UNCHANGED vars
  BY <1>1, <1>6 DEF vars, tables, ledger, TypeOK, LocalOK, Inv0
<1> QED BY <1>2, <1>3, <1>4, <1>5, <1>6 DEF Next

\* The tables, the clients and the locals of every run keep their types,
\* whatever overlaps or fails.
THEOREM TypeCorrect == Spec => []TypeOK
<1>1. Inv0 => TypeOK
  BY DEF Inv0
<1> QED BY Inv0Init, Inv0Next, <1>1, PTL DEF Spec

\* However many devices an event's author has, flush() posts at most
\* _EXPO_BATCH_SIZE - 1 messages and those of one more event.
THEOREM BatchStaysBounded == Spec => []BatchBounded
<1>1. Inv0 => BatchBounded
  BY DEF Inv0, LocalOK, Local, BatchOK, BatchBounded
<1> QED BY Inv0Init, Inv0Next, <1>1, PTL DEF Spec

-----------------------------------------------------------------------------
(* Runs end: the part of it that does not need fairness.                    *)

\* A run's phases, from the last backwards.  The claims, the posts and the
\* stale tokens are one: the loop goes round them.
PhaseLeft(me) ==
    CASE me.pc = "idle"                       -> 6
      [] me.pc = "pages"                      -> 5
      [] me.pc = "zones"                      -> 4
      [] me.pc = "tokens"                     -> 3
      [] me.pc \in {"claim", "send", "stale"} -> 2
      [] me.pc = "release"                    -> 1
      [] me.pc = "ended"                      -> 0

\* The pages, the rows to claim or the claims to release.
SizeLeft(me) ==
    CASE me.pc = "pages"                      -> Cardinality(Events) - me.page
      [] me.pc \in {"claim", "send", "stale"} -> Cardinality(me.due)
      [] me.pc = "release"                    -> Cardinality(me.claimed)
      [] OTHER                                -> 0

\* The tickets of the batch: none of them is known before it is posted.
BatchLeft(me) ==
    CASE me.pc = "send"  -> Cardinality(me.pending) + 1
      [] me.pc = "stale" -> Cardinality(me.todo)
      [] OTHER           -> 0

TriesLeft(me) == IF me.pc \in Calls THEN MaxAttempts - me.attempt ELSE 0

StillToDo(me) == <<PhaseLeft(me), SizeLeft(me), BatchLeft(me), TriesLeft(me)>>

Quantities == Nat \X Nat \X Nat \X Nat

Less(a, b) ==
    \/ a[1] < b[1]
    \/ a[1] = b[1] /\ a[2] < b[2]
    \/ a[1] = b[1] /\ a[2] = b[2] /\ a[3] < b[3]
    \/ a[1] = b[1] /\ a[2] = b[2] /\ a[3] = b[3] /\ a[4] < b[4]

\* There is no falling for ever: of any quantities one has no lesser.
THEOREM NoEndlessFall ==
    \A T \in SUBSET Quantities : T # {} => \E x \in T : \A y \in T : ~Less(y, x)
<1> SUFFICES ASSUME NEW T \in SUBSET Quantities, T # {}
             PROVE  \E x \in T : \A y \in T : ~Less(y, x)
  OBVIOUS
<1>0. \A x \in T : x[1] \in Nat /\ x[2] \in Nat /\ x[3] \in Nat /\ x[4] \in Nat
  BY DEF Quantities
<1> DEFINE N1 == {x[1] : x \in T}
<1>1. PICK a \in N1 : \A b \in N1 : a <= b
  <2>1. N1 \in SUBSET Nat /\ N1 # {}
    BY <1>0
  <2> HIDE DEF N1
  <2> QED BY <2>1, NatMin
<1> DEFINE T1 == {x \in T : x[1] = a}
           N2 == {x[2] : x \in T1}
<1>2. PICK b \in N2 : \A c \in N2 : b <= c
  <2>1. N2 \in SUBSET Nat /\ N2 # {}
    BY <1>0, <1>1
  <2> HIDE DEF N2
  <2> QED BY <2>1, NatMin
<1> DEFINE T2 == {x \in T1 : x[2] = b}
           N3 == {x[3] : x \in T2}
<1>3. PICK c \in N3 : \A d \in N3 : c <= d
  <2>1. N3 \in SUBSET Nat /\ N3 # {}
    BY <1>0, <1>2
  <2> HIDE DEF N3
  <2> QED BY <2>1, NatMin
<1> DEFINE T3 == {x \in T2 : x[3] = c}
           N4 == {x[4] : x \in T3}
<1>4. PICK d \in N4 : \A e \in N4 : d <= e
  <2>1. N4 \in SUBSET Nat /\ N4 # {}
    BY <1>0, <1>3
  <2> HIDE DEF N4
  <2> QED BY <2>1, NatMin
<1>5. PICK x \in T3 : x[4] = d
  BY <1>4
<1>6. x \in T /\ x[1] = a /\ x[2] = b /\ x[3] = c /\ x[4] = d
  BY <1>5
<1>7. ASSUME NEW y \in T PROVE ~Less(y, x)
  <2>1. a <= y[1]
    BY <1>1
  <2>2. y[1] = a => b <= y[2]
    BY <1>2
  <2>3. y[1] = a /\ y[2] = b => c <= y[3]
    BY <1>3
  <2>4. y[1] = a /\ y[2] = b /\ y[3] = c => d <= y[4]
    BY <1>4
  <2> QED BY <1>0, <1>6, <2>1, <2>2, <2>3, <2>4 DEF Less
<1> QED BY <1>6, <1>7

\* The lists a run walks are finite, and it is never in a loop over nothing.
Tidy(me) ==
    /\ IsFiniteSet(me.rows) /\ IsFiniteSet(me.due)
    /\ IsFiniteSet(me.claimed) /\ IsFiniteSet(me.todo)
    /\ me.pc = "pages" => me.page <= Cardinality(Events)
    /\ me.pc = "claim" => me.due # {}
    /\ me.pc = "stale" => me.todo # {}
    /\ me.pc \in {"send", "stale", "release"} => me.claimed # {}
    /\ me.pc = "claim" /\ me.claimed = {} => me.pending = {}

TidyOK == \A r \in Runs : Tidy(run[r])

LEMMA PhaseFacts ==
    ASSUME NEW me \in RunState
    PROVE  PhaseLeft(me) \in 0 .. 6
<1>1. me.pc \in Phases
  BY DEF RunState
<1> QED BY <1>1 DEF PhaseLeft, Phases

LEMMA Measured ==
    ASSUME NEW me \in RunState, Local(me), Tidy(me)
    PROVE  StillToDo(me) \in Quantities
<1>1. /\ me.page \in Nat /\ me.attempt \in 1 .. MaxAttempts
  BY DEF RunState
<1>2. /\ IsFiniteSet(me.due) /\ IsFiniteSet(me.claimed) /\ IsFiniteSet(me.todo)
      /\ IsFiniteSet(me.pending)
  BY DEF Tidy, Local, BatchOK
<1>3. /\ Cardinality(me.due) \in Nat /\ Cardinality(me.claimed) \in Nat
      /\ Cardinality(me.todo) \in Nat /\ Cardinality(me.pending) \in Nat
      /\ Cardinality(Events) \in Nat
  BY <1>2, FS_CardinalityType, ConstantsAssumption
<1>4. PhaseLeft(me) \in Nat
  BY PhaseFacts
<1>5. SizeLeft(me) \in Nat
  BY <1>1, <1>3 DEF SizeLeft, Tidy
<1>6. BatchLeft(me) \in Nat
  BY <1>3 DEF BatchLeft
<1>7. TriesLeft(me) \in Nat
  BY <1>1, ConstantsAssumption DEF TriesLeft
<1> QED BY <1>4, <1>5, <1>6, <1>7 DEF StillToDo, Quantities

LEMMA LessPhase ==
    ASSUME NEW n, NEW me, PhaseLeft(n) < PhaseLeft(me)
    PROVE  Less(StillToDo(n), StillToDo(me))
BY DEF Less, StillToDo

\* What ends, or gives up a batch, has less to do.
LEMMA EndsLess ==
    ASSUME NEW me \in RunState, Local(me), Tidy(me), NEW why \in Reasons
    PROVE  /\ me.pc # "ended" => Less(StillToDo(Ended(me, why)), StillToDo(me))
           /\ Tidy(Ended(me, why))
           /\ me.pc # "ended" => Less(StillToDo(Upstream(me, why)), StillToDo(me))
           /\ Tidy(Upstream(me, why))
<1>1. me.pc \in Phases
  BY DEF RunState
<1>2. ASSUME NEW n, SameWork(n, me), n.pc = "ended"
      PROVE  Tidy(n) /\ (me.pc # "ended" => Less(StillToDo(n), StillToDo(me)))
  <2>1. Tidy(n)
    BY <1>2 DEF Tidy, SameWork
  <2>2. me.pc # "ended" => PhaseLeft(n) < PhaseLeft(me)
    BY <1>1, <1>2 DEF PhaseLeft, Phases
  <2> QED BY <2>1, <2>2, LessPhase
<1>3. SameWork(Ended(me, why), me) /\ Ended(me, why).pc = "ended"
  BY EndedFacts
<1>4. CASE me.pc # "stale"
  BY <1>2, <1>3, <1>4, UpstreamFacts
<1>5. CASE me.pc = "stale"
  <2> DEFINE n == Upstream(me, why)
  <2>1. SameWork(n, me) /\ n.pc = "release"
    BY <1>5, UpstreamFacts
  <2> HIDE DEF n
  <2>2. Tidy(n)
    BY <1>5, <2>1 DEF Tidy, SameWork
  <2>3. PhaseLeft(n) < PhaseLeft(me)
    BY <1>5, <2>1 DEF PhaseLeft
  <2>4. Tidy(n) /\ Less(StillToDo(n), StillToDo(me))
    BY <2>2, <2>3, LessPhase
  <2> QED BY <1>2, <1>3, <2>4 DEF n
<1> QED BY <1>4, <1>5

\* A full page is one of as many pages as there are events, at most.
LEMMA FullPages ==
    ASSUME NEW k \in Nat, NEW p \in Nat, PageLength(k, p) = PageSize
    PROVE  p + 1 <= k
<1>1. PageSize \in Nat /\ PageSize >= 1
  BY ConstantsAssumption
<1>2. p * (PageSize - 1) \in Nat
  BY <1>1
<1>3. p * PageSize = p * (PageSize - 1) + p
  BY <1>1
<1>4. k - p * PageSize >= PageSize
  <2> DEFINE left == k - p * PageSize
  <2>1. left \in Int
    BY <1>1
  <2>2. PageLength(k, p) = IF left <= 0 THEN 0 ELSE IF left < PageSize THEN left ELSE PageSize
    BY DEF PageLength
  <2> HIDE DEF left
  <2>3. left >= PageSize
    BY <1>1, <2>1, <2>2
  <2> QED BY <2>3 DEF left
<1> DEFINE a == p * PageSize
           b == p * (PageSize - 1)
<1>5. a = b + p /\ b \in Nat /\ k - a >= PageSize /\ a \in Int
  BY <1>1, <1>2, <1>3, <1>4
<1> HIDE DEF a, b
<1> QED BY <1>1, <1>5

\* What a page leaves to fetch.
LEMMA PageFacts ==
    ASSUME TypeOK, NEW me \in RunState,
           NEW read \in SUBSET {e \in Events : events[e].reminder # NoReminder},
           NEW pc \in Phases
    PROVE  /\ GotPage(me, read).page = me.page + 1
           /\ IsFiniteSet(me.rows) => IsFiniteSet(GotPage(me, read).rows)
           /\ Returned(GotPage(me, read), pc).page = me.page + 1
<1> DEFINE fetched == {[event |-> e, at |-> events[e].at,
                        reminder |-> events[e].reminder, page |-> me.page] : e \in read}
           got == GotPage(me, read)
<1>1. IsFiniteSet(fetched)
  <2>1. IsFiniteSet(read)
    BY FS_Subset, ConstantsAssumption
  <2> DEFINE f == [e \in read |-> [event |-> e, at |-> events[e].at,
                                   reminder |-> events[e].reminder, page |-> me.page]]
  <2>2. f \in Surjection(read, fetched)
    BY DEF Surjection
  <2> QED BY <2>1, <2>2, FS_Surjection
<1>2. got = [me EXCEPT !.rows = me.rows \cup fetched, !.page = NextPage(me.page)]
  BY DEF GotPage, RunState
<1> HIDE DEF fetched
<1>3. got.rows = me.rows \cup fetched /\ got.page = me.page + 1
  BY <1>2 DEF RunState, NextPage
<1>4. got \in RunState
  BY GotPageFacts
<1>5. ASSUME IsFiniteSet(me.rows) PROVE IsFiniteSet(got.rows)
  <2>1. IsFiniteSet(me.rows \cup fetched)
    BY <1>1, <1>5, FS_Union
  <2> QED BY <1>3, <2>1
<1> HIDE DEF got
<1>6. Returned(got, pc).page = got.page
  BY <1>4 DEF Returned, RunState
<1> QED BY <1>3, <1>5, <1>6 DEF got

\* The next phase of a run: what it then holds is what it held.
LEMMA NextPhaseLess ==
    ASSUME NEW n, NEW me, SameWork(n, me), Tidy(me),
           PhaseLeft(n) < PhaseLeft(me), n.pc \notin {"pages", "claim", "stale"},
           n.pc \in {"send", "release"} => me.claimed # {}
    PROVE  Tidy(n) /\ Less(StillToDo(n), StillToDo(me))
<1>1. Tidy(n)
  BY DEF Tidy, SameWork
<1> QED BY <1>1, LessPhase

\* Going round the loop again: there are fewer rows to claim.
LEMMA FlushedLess ==
    ASSUME NEW me \in RunState, Local(me), Tidy(me), me.pc \in {"send", "stale"},
           NEW x \in RunState, x.rows = me.rows, x.due = me.due
    PROVE  Tidy(Flushed(x)) /\ Less(StillToDo(Flushed(x)), StillToDo(me))
<1> DEFINE n == Flushed(x)
<1>1. /\ n.rows = me.rows /\ n.due = me.due
      /\ n.pending = {} /\ n.claimed = {} /\ n.todo = {}
      /\ n.pc \in {"claim", "ended"}
      /\ n.pc = "claim" <=> me.due # {}
  BY FlushedFacts
<1> SUFFICES Tidy(n) /\ Less(StillToDo(n), StillToDo(me))
  OBVIOUS
<1> HIDE DEF n
<1>2. Tidy(n)
  BY <1>1, FS_EmptySet DEF Tidy
<1>3. CASE n.pc = "ended"
  <2>1. PhaseLeft(n) < PhaseLeft(me)
    BY <1>3 DEF PhaseLeft
  <2> QED BY <1>2, <2>1, LessPhase
<1>4. CASE n.pc = "claim"
  <2>1. PhaseLeft(n) = PhaseLeft(me) /\ SizeLeft(n) = SizeLeft(me)
    BY <1>1, <1>4 DEF PhaseLeft, SizeLeft
  <2>2. BatchLeft(n) = 0
    BY <1>4 DEF BatchLeft
  <2>3. BatchLeft(me) > 0
    <3>1. CASE me.pc = "send"
      <4>1. Cardinality(me.pending) \in Nat
        BY FS_CardinalityType DEF Local, BatchOK
      <4> QED BY <3>1, <4>1 DEF BatchLeft
    <3>2. CASE me.pc = "stale"
      <4>1. Cardinality(me.todo) \in Nat /\ Cardinality(me.todo) # 0
        BY <3>2, FS_CardinalityType, FS_EmptySet DEF Tidy
      <4> QED BY <3>2, <4>1 DEF BatchLeft
    <3> QED BY <3>1, <3>2
  <2>4. Less(StillToDo(n), StillToDo(me))
    BY <2>1, <2>2, <2>3 DEF Less, StillToDo
  <2> QED BY <1>2, <2>4
<1> QED BY <1>1, <1>3, <1>4

\* A run goes on with less to do.
GoesOn(r, n) ==
    /\ run' = [run EXCEPT ![r] = n]
    /\ Tidy(n)
    /\ Less(StillToDo(n), StillToDo(run[r]))

LEMMA LessOfPage ==
    ASSUME TypeOK, LocalOK, TidyOK, NEW r \in Runs, FetchPage(r)
    PROVE  \E n : GoesOn(r, n)
<1> DEFINE me == run[r]
           reminded == {e \in Events : events[e].reminder # NoReminder}
           k == Cardinality(reminded)
<1>1. me \in RunState /\ Local(me) /\ Tidy(me) /\ me.pc = "pages"
  BY DEF TypeOK, LocalOK, TidyOK, FetchPage
<1>2. PICK read \in SUBSET reminded :
        /\ Cardinality(read) = PageLength(k, me.page)
        /\ \/ /\ run' = [run EXCEPT ![r] = Returned(GotPage(me, read), "pages")]
              /\ Cardinality(read) = PageSize
           \/ run' = [run EXCEPT ![r] = Returned(GotPage(me, read), "zones")]
           \/ run' = [run EXCEPT ![r] = Ended(GotPage(me, read), "done")]
  BY DEF FetchPage
<1> DEFINE got == GotPage(me, read)
<1>3. k \in Nat /\ k <= Cardinality(Events) /\ Cardinality(Events) \in Nat
  <2>1. reminded \in SUBSET Events
    OBVIOUS
  <2> HIDE DEF reminded
  <2> QED BY <2>1, FS_Subset, FS_CardinalityType, ConstantsAssumption
<1>4. /\ got \in RunState /\ got.claimed = me.claimed /\ got.pending = me.pending
      /\ got.due = me.due /\ got.todo = me.todo /\ got.pc = "pages"
  BY <1>1, GotPageFacts
<1>5. got.page = me.page + 1 /\ IsFiniteSet(got.rows)
  BY <1>1, PageFacts DEF Tidy, Phases
<1>6. Returned(got, "pages").page = me.page + 1
  BY <1>1, PageFacts DEF Phases
<1>7. me.page \in Nat
  BY <1>1 DEF RunState
<1> HIDE DEF me, got, k
<1>8. CASE /\ run' = [run EXCEPT ![r] = Returned(got, "pages")]
           /\ Cardinality(read) = PageSize
  <2> DEFINE n == Returned(got, "pages")
  <2>1. SameWork(n, got) /\ n.pc = "pages"
    BY <1>4, ReturnedFacts DEF Phases
  <2>2. n.page = me.page + 1 /\ n.page <= Cardinality(Events)
    <3>1. PageLength(k, me.page) = PageSize
      BY <1>2, <1>8
    <3>2. me.page + 1 <= k
      BY <1>3, <1>7, <3>1, FullPages
    <3> QED BY <1>3, <1>6, <1>7, <3>2
  <2> HIDE DEF n
  <2>3. Tidy(n)
    BY <1>1, <1>4, <1>5, <2>1, <2>2 DEF Tidy, SameWork
  <2>4. PhaseLeft(n) = PhaseLeft(me) /\ SizeLeft(n) < SizeLeft(me)
    BY <1>1, <1>3, <1>7, <2>1, <2>2 DEF PhaseLeft, SizeLeft
  <2>5. Less(StillToDo(n), StillToDo(me))
    BY <2>4 DEF Less, StillToDo
  <2>6. GoesOn(r, n)
    BY <1>8, <2>3, <2>5 DEF GoesOn, n, me
  <2> QED BY <2>6
<1>9. ASSUME NEW n, run' = [run EXCEPT ![r] = n], SameWork(n, got), n.pc \in {"zones", "ended"}
      PROVE  GoesOn(r, n)
  <2>1. Tidy(n)
    BY <1>1, <1>4, <1>5, <1>9 DEF Tidy, SameWork
  <2>2. PhaseLeft(n) < PhaseLeft(me)
    BY <1>1, <1>9 DEF PhaseLeft
  <2> QED BY <1>9, <2>1, <2>2, LessPhase DEF GoesOn, me
<1>10. CASE run' = [run EXCEPT ![r] = Returned(got, "zones")]
  <2>1. SameWork(Returned(got, "zones"), got) /\ Returned(got, "zones").pc = "zones"
    BY <1>4, ReturnedFacts DEF Phases
  <2> QED BY <1>9, <1>10, <2>1
<1>11. CASE run' = [run EXCEPT ![r] = Ended(got, "done")]
  <2>1. SameWork(Ended(got, "done"), got) /\ Ended(got, "done").pc = "ended"
    BY <1>4, EndedFacts DEF Reasons
  <2> QED BY <1>9, <1>11, <2>1
<1> QED BY <1>2, <1>8, <1>10, <1>11 DEF me, got

LEMMA LessOfRead ==
    ASSUME TypeOK, LocalOK, TidyOK, NEW r \in Runs, FetchZones(r) \/ FetchTokens(r)
    PROVE  \E n : GoesOn(r, n)
<1> DEFINE me == run[r]
<1>1. me \in RunState /\ Local(me) /\ Tidy(me)
  BY DEF TypeOK, LocalOK, TidyOK
<1>2. CASE FetchZones(r)
  <2> DEFINE got == [me EXCEPT !.zones = zone]
             n == Returned(got, "tokens")
  <2>1. /\ got \in RunState
        /\ got.rows = me.rows /\ got.due = me.due /\ got.claimed = me.claimed
        /\ got.todo = me.todo /\ got.pending = me.pending
    BY <1>1 DEF RunState, TypeOK
  <2>2. me.pc = "zones" /\ run' = [run EXCEPT ![r] = n]
    BY <1>2 DEF FetchZones
  <2> HIDE DEF got
  <2>3. SameWork(n, got) /\ n.pc = "tokens"
    BY <2>1, ReturnedFacts DEF Phases
  <2> HIDE DEF n, me
  <2>4. Tidy(n)
    BY <1>1, <2>1, <2>3 DEF Tidy, SameWork
  <2>5. PhaseLeft(n) < PhaseLeft(me)
    BY <2>2, <2>3 DEF PhaseLeft
  <2>6. GoesOn(r, n)
    BY <2>2, <2>4, <2>5, LessPhase DEF GoesOn, me
  <2> QED BY <2>6
<1>3. CASE FetchTokens(r)
  <2> DEFINE got == [me EXCEPT !.toks = owner]
             loop == [got EXCEPT !.due = DueRows(got)]
             n == Resume(loop)
  <2>1. /\ got \in RunState
        /\ got.rows = me.rows /\ got.claimed = me.claimed
        /\ got.todo = me.todo /\ got.pending = me.pending
    BY <1>1 DEF RunState, TypeOK
  <2>2. DueRows(got) \subseteq got.rows
    BY DEF DueRows
  <2>3. /\ loop \in RunState /\ loop.due = DueRows(got)
        /\ loop.rows = me.rows /\ loop.claimed = me.claimed
        /\ loop.todo = me.todo /\ loop.pending = me.pending
    <3> HIDE DEF got
    <3>1. got.rows \subseteq Row
      BY <2>1 DEF RunState
    <3> QED BY <2>1, <2>2, <3>1 DEF RunState
  <2>4. me.pc = "tokens" /\ run' = [run EXCEPT ![r] = n]
    BY <1>3 DEF FetchTokens
  <2>5. me.pending = {} /\ me.claimed = {} /\ me.todo = {} /\ IsFiniteSet(me.rows)
    BY <1>1, <2>4 DEF Local, FreshOK, Tidy
  <2>6. IsFiniteSet(loop.due)
    BY <2>1, <2>2, <2>3, <2>5, FS_Subset
  <2> HIDE DEF loop, got
  <2>7. /\ SameWork(n, loop) /\ n.pc \in {"claim", "send", "ended"}
        /\ n.pc = "claim" <=> loop.due # {}
        /\ n.pc = "ended" <=> loop.due = {} /\ loop.pending = {}
    BY <2>3, ResumeFacts
  <2> HIDE DEF n, me
  <2>8. Tidy(n)
    BY <2>3, <2>5, <2>6, <2>7, FS_EmptySet DEF Tidy, SameWork
  <2>9. PhaseLeft(n) < PhaseLeft(me)
    BY <2>4, <2>7 DEF PhaseLeft
  <2>10. GoesOn(r, n)
    BY <2>4, <2>8, <2>9, LessPhase DEF GoesOn, me
  <2> QED BY <2>10
<1> QED BY <1>2, <1>3

LEMMA LessOfClaim ==
    ASSUME TypeOK, LocalOK, TidyOK, NEW r \in Runs, Claim(r)
    PROVE  \E n : GoesOn(r, n)
<1> DEFINE me == run[r]
<1>1. me \in RunState /\ Local(me) /\ Tidy(me) /\ ItemsOK
  BY DEF TypeOK, LocalOK, TidyOK, Local, ItemsOK
<1>2. PICK row \in Items(r) :
        run' = [run EXCEPT ![r] = Claimed(me, row, claims[Key(row)] + 1)]
  BY DEF Claim
<1> DEFINE id == claims[Key(row)] + 1
           n == Claimed(me, row, id)
<1>3. me.pc = "claim" /\ row \in me.due /\ row \in Row /\ Key(row) \in Keys
  BY <1>1, ItemsType, KeyType DEF Claim
<1>4. id \in Nat
  BY <1>3 DEF TypeOK
<1>5. TokensOf(me.toks, Author[row.event]) # {}
  BY <1>1, <1>3 DEF Local, DueOK
<1> HIDE DEF id
<1>0. me \in RunState /\ row \in Row
  BY <1>1, <1>3
<1>6. /\ n.rows = me.rows /\ n.todo = me.todo /\ n.due = me.due \ {row}
      /\ n.claimed = me.claimed \cup {row}
      /\ n.pc \in {"claim", "send"}
  BY <1>0, <1>4, <1>5, ClaimedFacts
<1>7. n.pc = "claim" => n.due # {}
  <2> DEFINE got == Batched(me, row, id)
  <2>1. Messages(me, row, id) \subseteq Message
    BY <1>3, <1>4, KeyType DEF Messages, Message, TokensOf
  <2>2. got \in RunState /\ got.due = me.due \ {row}
    BY <1>1, <1>3, <2>1 DEF RunState, Batched
  <2>3. n = IF Cardinality(got.pending) >= BatchSize
            THEN Returned(got, "send") ELSE Resume(got)
    BY DEF Claimed
  <2> HIDE DEF got, n
  <2>4. Returned(got, "send").pc = "send"
    BY <2>2, ReturnedFacts DEF Phases
  <2>5. Resume(got).pc = "claim" <=> got.due # {}
    BY <2>2, ResumeFacts
  <2> QED BY <1>6, <2>2, <2>3, <2>4, <2>5
<1>8. IsFiniteSet(me.due) /\ IsFiniteSet(me.claimed) /\ IsFiniteSet(me.todo) /\ IsFiniteSet(me.rows)
  BY <1>1 DEF Tidy
<1>9. /\ IsFiniteSet(n.due) /\ IsFiniteSet(n.claimed)
      /\ Cardinality(n.due) = Cardinality(me.due) - 1 /\ Cardinality(me.due) \in Nat
  <2>1. IsFiniteSet(me.due \ {row}) /\ Cardinality(me.due \ {row}) = Cardinality(me.due) - 1
    BY <1>3, <1>8, FS_RemoveElement
  <2>2. IsFiniteSet(me.claimed \cup {row})
    BY <1>8, FS_AddElement
  <2> QED BY <1>6, <1>8, <2>1, <2>2, FS_CardinalityType
<1>10. run' = [run EXCEPT ![r] = n]
  BY <1>2 DEF id
<1> HIDE DEF n, me
<1>11. Tidy(n)
  BY <1>6, <1>7, <1>8, <1>9 DEF Tidy
<1>12. PhaseLeft(n) = PhaseLeft(me) /\ SizeLeft(n) < SizeLeft(me)
  BY <1>3, <1>6, <1>9 DEF PhaseLeft, SizeLeft
<1>13. GoesOn(r, n)
  BY <1>10, <1>11, <1>12 DEF GoesOn, Less, StillToDo, me
<1> QED BY <1>13

LEMMA LessOfSend ==
    ASSUME TypeOK, LocalOK, TidyOK, NEW r \in Runs, Send(r)
    PROVE  \E n : GoesOn(r, n)
<1> DEFINE me == run[r]
<1>1. me \in RunState /\ Local(me) /\ Tidy(me) /\ me.pc = "send"
  BY DEF TypeOK, LocalOK, TidyOK, Send
<1>2. PICK bad \in SUBSET me.pending :
        run' = [run EXCEPT ![r] = IF bad = {} THEN Flushed(me)
                                  ELSE Returned([me EXCEPT !.todo = bad], "stale")]
  BY DEF Send
<1>3. CASE bad = {}
  <2>1. Tidy(Flushed(me)) /\ Less(StillToDo(Flushed(me)), StillToDo(me))
    BY <1>1, FlushedLess
  <2>2. GoesOn(r, Flushed(me))
    BY <1>2, <1>3, <2>1 DEF GoesOn
  <2> QED BY <2>2
<1>4. CASE bad # {}
  <2> DEFINE got == [me EXCEPT !.todo = bad]
             n == Returned(got, "stale")
  <2>1. me.pending \subseteq Message
    BY <1>1 DEF RunState
  <2>2. /\ got \in RunState /\ got.todo = bad /\ got.rows = me.rows
        /\ got.due = me.due /\ got.claimed = me.claimed /\ got.pending = me.pending
    BY <1>1, <2>1 DEF RunState
  <2>3. run' = [run EXCEPT ![r] = n]
    BY <1>2, <1>4
  <2> HIDE DEF got
  <2>4. SameWork(n, got) /\ n.pc = "stale"
    BY <2>2, ReturnedFacts DEF Phases
  <2>5. IsFiniteSet(me.pending)
    BY <1>1 DEF Local, BatchOK
  <2>6. /\ IsFiniteSet(bad) /\ Cardinality(bad) <= Cardinality(me.pending)
        /\ Cardinality(bad) \in Nat /\ Cardinality(me.pending) \in Nat
    BY <2>5, FS_Subset, FS_CardinalityType
  <2> HIDE DEF n, me
  <2>7. Tidy(n)
    BY <1>1, <1>4, <2>2, <2>4, <2>6 DEF Tidy, SameWork
  <2>8. /\ PhaseLeft(n) = PhaseLeft(me) /\ SizeLeft(n) = SizeLeft(me)
        /\ BatchLeft(n) < BatchLeft(me)
    BY <1>1, <2>2, <2>4, <2>6 DEF PhaseLeft, SizeLeft, BatchLeft, SameWork
  <2>9. GoesOn(r, n)
    BY <2>3, <2>7, <2>8 DEF GoesOn, Less, StillToDo, me
  <2> QED BY <2>9
<1> QED BY <1>3, <1>4

LEMMA LessOfStale ==
    ASSUME TypeOK, LocalOK, TidyOK, NEW r \in Runs, DeleteStaleToken(r)
    PROVE  \E n : GoesOn(r, n)
<1> DEFINE me == run[r]
<1>1. me \in RunState /\ Local(me) /\ Tidy(me) /\ me.pc = "stale" /\ ItemsOK
  BY DEF TypeOK, LocalOK, TidyOK, DeleteStaleToken, Local, ItemsOK
<1>2. PICK m \in Items(r) :
        run' = [run EXCEPT ![r] = IF [me EXCEPT !.todo = @ \ {m}].todo = {}
                                  THEN Flushed([me EXCEPT !.todo = @ \ {m}])
                                  ELSE Returned([me EXCEPT !.todo = @ \ {m}], "stale")]
  BY DEF DeleteStaleToken
<1> DEFINE got == [me EXCEPT !.todo = @ \ {m}]
<1>3. m \in me.todo
  BY <1>1, ItemsType
<1>4. /\ got \in RunState /\ got.todo = me.todo \ {m} /\ got.rows = me.rows
      /\ got.due = me.due /\ got.claimed = me.claimed /\ got.pending = me.pending
  BY <1>1 DEF RunState
<1>5. run' = [run EXCEPT ![r] = IF got.todo = {} THEN Flushed(got)
                                ELSE Returned(got, "stale")]
  BY <1>2
<1> HIDE DEF got
<1>6. CASE got.todo = {}
  <2>1. Tidy(Flushed(got)) /\ Less(StillToDo(Flushed(got)), StillToDo(me))
    BY <1>1, <1>4, FlushedLess
  <2>2. GoesOn(r, Flushed(got))
    BY <1>5, <1>6, <2>1 DEF GoesOn
  <2> QED BY <2>2
<1>7. CASE got.todo # {}
  <2> DEFINE n == Returned(got, "stale")
  <2>1. SameWork(n, got) /\ n.pc = "stale"
    BY <1>4, ReturnedFacts DEF Phases
  <2>2. IsFiniteSet(me.todo)
    BY <1>1 DEF Tidy
  <2>3. /\ IsFiniteSet(got.todo) /\ Cardinality(got.todo) = Cardinality(me.todo) - 1
        /\ Cardinality(me.todo) \in Nat
    BY <1>3, <1>4, <2>2, FS_RemoveElement, FS_CardinalityType
  <2>4. run' = [run EXCEPT ![r] = n]
    BY <1>5, <1>7
  <2> HIDE DEF n, me
  <2>5. Tidy(n)
    BY <1>1, <1>4, <1>7, <2>1, <2>3 DEF Tidy, SameWork
  <2>6. /\ PhaseLeft(n) = PhaseLeft(me) /\ SizeLeft(n) = SizeLeft(me)
        /\ BatchLeft(n) < BatchLeft(me)
    BY <1>1, <1>4, <2>1, <2>3 DEF PhaseLeft, SizeLeft, BatchLeft, SameWork
  <2>7. GoesOn(r, n)
    BY <2>4, <2>5, <2>6 DEF GoesOn, Less, StillToDo, me
  <2> QED BY <2>7
<1> QED BY <1>6, <1>7

LEMMA LessOfRelease ==
    ASSUME TypeOK, LocalOK, TidyOK, NEW r \in Runs, Release(r)
    PROVE  \E n : GoesOn(r, n)
<1> DEFINE me == run[r]
<1>1. me \in RunState /\ Local(me) /\ Tidy(me) /\ me.pc = "release" /\ ItemsOK
  BY DEF TypeOK, LocalOK, TidyOK, Release, Local, ItemsOK
<1>2. PICK row \in Items(r) :
        run' = [run EXCEPT ![r] = IF [me EXCEPT !.claimed = @ \ {row}].claimed = {}
                                  THEN Ended([me EXCEPT !.claimed = @ \ {row}], "unsent")
                                  ELSE Returned([me EXCEPT !.claimed = @ \ {row}], "release")]
  BY DEF Release
<1> DEFINE got == [me EXCEPT !.claimed = @ \ {row}]
<1>3. row \in me.claimed
  BY <1>1, ItemsType
<1>4. /\ got \in RunState /\ got.claimed = me.claimed \ {row} /\ got.rows = me.rows
      /\ got.due = me.due /\ got.todo = me.todo /\ got.pending = me.pending
  BY <1>1 DEF RunState
<1>5. run' = [run EXCEPT ![r] = IF got.claimed = {} THEN Ended(got, "unsent")
                                ELSE Returned(got, "release")]
  BY <1>2
<1>6. IsFiniteSet(me.claimed)
  BY <1>1 DEF Tidy
<1>7. /\ IsFiniteSet(got.claimed) /\ Cardinality(got.claimed) = Cardinality(me.claimed) - 1
      /\ Cardinality(me.claimed) \in Nat
  BY <1>3, <1>4, <1>6, FS_RemoveElement, FS_CardinalityType
<1> HIDE DEF got, me
<1>8. CASE got.claimed = {}
  <2> DEFINE n == Ended(got, "unsent")
  <2>1. SameWork(n, got) /\ n.pc = "ended"
    BY <1>4, EndedFacts DEF Reasons
  <2>2. run' = [run EXCEPT ![r] = n]
    BY <1>5, <1>8
  <2> HIDE DEF n
  <2>3. Tidy(n)
    BY <1>1, <1>4, <1>7, <2>1 DEF Tidy, SameWork
  <2>4. PhaseLeft(n) < PhaseLeft(me)
    BY <1>1, <2>1 DEF PhaseLeft
  <2>5. GoesOn(r, n)
    BY <2>2, <2>3, <2>4, LessPhase DEF GoesOn, me
  <2> QED BY <2>5
<1>9. CASE got.claimed # {}
  <2> DEFINE n == Returned(got, "release")
  <2>1. SameWork(n, got) /\ n.pc = "release"
    BY <1>4, ReturnedFacts DEF Phases
  <2>2. run' = [run EXCEPT ![r] = n]
    BY <1>5, <1>9
  <2> HIDE DEF n
  <2>3. Tidy(n)
    BY <1>1, <1>4, <1>7, <1>9, <2>1 DEF Tidy, SameWork
  <2>4. PhaseLeft(n) = PhaseLeft(me) /\ SizeLeft(n) < SizeLeft(me)
    BY <1>1, <1>4, <1>7, <2>1 DEF PhaseLeft, SizeLeft, SameWork
  <2>5. GoesOn(r, n)
    BY <2>2, <2>3, <2>4 DEF GoesOn, Less, StillToDo, me
  <2> QED BY <2>5
<1> QED BY <1>8, <1>9

LEMMA LessOfWork ==
    ASSUME TypeOK, LocalOK, TidyOK, NEW r \in Runs, Work(r)
    PROVE  \E n : GoesOn(r, n)
<1> DEFINE me == run[r]
<1>1. me \in RunState /\ Local(me) /\ Tidy(me)
  BY DEF TypeOK, LocalOK, TidyOK
<1>2. CASE ClaimRefused(r)
  <2>1. me.pc # "ended" /\ run' = [run EXCEPT ![r] = Upstream(me, "duplicate")]
    BY <1>2 DEF ClaimRefused
  <2>2. GoesOn(r, Upstream(me, "duplicate"))
    BY <1>1, <2>1, EndsLess DEF GoesOn, Reasons
  <2> QED BY <2>2
<1>3. CASE ClosedClient(r)
  <2>1. me.pc # "ended" /\ run' = [run EXCEPT ![r] = Ended(me, "raw")]
    BY <1>3 DEF ClosedClient, Calls
  <2>2. GoesOn(r, Ended(me, "raw"))
    BY <1>1, <2>1, EndsLess DEF GoesOn, Reasons
  <2> QED BY <2>2
<1> QED BY <1>2, <1>3, LessOfPage, LessOfRead, LessOfClaim, LessOfSend, LessOfStale,
           LessOfRelease DEF Work

LEMMA LessOfFault ==
    ASSUME TypeOK, LocalOK, TidyOK, NEW r \in Runs, RunFault(r)
    PROVE  \E n : GoesOn(r, n)
<1> DEFINE me == run[r]
<1>1. me \in RunState /\ Local(me) /\ Tidy(me)
  BY DEF TypeOK, LocalOK, TidyOK
<1>2. ASSUME NEW why \in Reasons, me.pc \in Calls,
             \/ run' = [run EXCEPT ![r] = Upstream(me, why)]
             \/ run' = [run EXCEPT ![r] = Ended(me, why)]
      PROVE  \E n : GoesOn(r, n)
  <2>1. me.pc # "ended"
    BY <1>2 DEF Calls
  <2>2. GoesOn(r, Upstream(me, why)) \/ GoesOn(r, Ended(me, why))
    BY <1>1, <1>2, <2>1, EndsLess DEF GoesOn
  <2> QED BY <2>2
<1>3. CASE TransportError(r)
  <2> DEFINE fresh == cached[Process[r]] + 1
  <2>1. PICK item \in Items(r) :
          IF LastAttempt(me) THEN run' = [run EXCEPT ![r] = Upstream(me, "exhausted")]
          ELSE run' = [run EXCEPT ![r] = Retried(me, fresh, item)]
    BY <1>3 DEF TransportError
  <2>2. me.pc \in Calls
    BY <1>3 DEF TransportError
  <2>3. fresh \in Nat
    BY ConstantsAssumption DEF TypeOK
  <2>4. CASE LastAttempt(me)
    BY <1>2, <2>1, <2>2, <2>4 DEF Reasons
  <2>5. CASE ~LastAttempt(me)
    <3> DEFINE n == Retried(me, fresh, item)
    <3>1. SameWork(n, me) /\ n.pc = me.pc
      BY <2>2, <2>3, <2>5, RetriedLocal
    <3>2. /\ n.attempt = me.attempt + 1 /\ n.page = me.page
          /\ me.attempt \in 1 .. MaxAttempts
      BY <1>1 DEF Retried, RunState
    <3>3. run' = [run EXCEPT ![r] = n]
      BY <2>1, <2>5
    <3> HIDE DEF n, me
    <3>4. Tidy(n)
      BY <1>1, <3>1, <3>2 DEF Tidy, SameWork
    <3>5. /\ PhaseLeft(n) = PhaseLeft(me) /\ SizeLeft(n) = SizeLeft(me)
          /\ BatchLeft(n) = BatchLeft(me)
      BY <3>1, <3>2 DEF PhaseLeft, SizeLeft, BatchLeft, SameWork
    <3>6. TriesLeft(n) < TriesLeft(me)
      BY <2>2, <3>1, <3>2, ConstantsAssumption DEF TriesLeft
    <3>7. GoesOn(r, n)
      BY <3>3, <3>4, <3>5, <3>6 DEF GoesOn, Less, StillToDo, me
    <3> QED BY <3>7
  <2> QED BY <2>4, <2>5
<1>4. CASE ApiError(r)
  BY <1>2, <1>4 DEF ApiError, Reasons
<1>5. CASE UnlistedError(r)
  BY <1>2, <1>5 DEF UnlistedError, Reasons
<1>6. CASE SendFails(r)
  <2> DEFINE n == Returned(me, "release")
  <2>1. me.pc = "send"
    BY <1>6 DEF SendFails
  <2>2. SameWork(n, me) /\ n.pc = "release"
    BY <1>1, ReturnedFacts DEF Phases
  <2>6. CASE run' = [run EXCEPT ![r] = Ended(me, "raw")]
    <3>1. GoesOn(r, Ended(me, "raw"))
      BY <1>1, <2>1, <2>6, EndsLess DEF GoesOn, Reasons
    <3> QED BY <3>1
  <2>7. run' = [run EXCEPT ![r] = n] \/ run' = [run EXCEPT ![r] = Ended(me, "raw")]
    BY <1>6 DEF SendFails
  <2> HIDE DEF n, me
  <2>3. PhaseLeft(n) < PhaseLeft(me) /\ me.claimed # {}
    BY <1>1, <2>1, <2>2 DEF PhaseLeft, Tidy
  <2>4. Tidy(n) /\ Less(StillToDo(n), StillToDo(me))
    BY <1>1, <2>2, <2>3, NextPhaseLess
  <2>5. CASE run' = [run EXCEPT ![r] = n]
    BY <2>4, <2>5 DEF GoesOn, me
  <2> QED BY <2>5, <2>6, <2>7
<1> QED BY <1>3, <1>4, <1>5, <1>6 DEF RunFault

LEMMA LessOfStart ==
    ASSUME TypeOK, LocalOK, TidyOK, NEW r \in Runs, Start(r)
    PROVE  \E n : GoesOn(r, n)
<1> DEFINE me == run[r]
           c == cached[Process[r]]
           n == [Idle EXCEPT !.pc = "pages", !.start = now, !.client = c, !.using = c]
<1>1. me.pc = "idle" /\ run' = [run EXCEPT ![r] = n]
  BY DEF Start
<1>2. /\ n.pc = "pages" /\ n.page = 0 /\ n.rows = {} /\ n.due = {}
      /\ n.claimed = {} /\ n.todo = {}
  BY DEF Idle
<1> HIDE DEF me, n
<1>3. Tidy(n)
  BY <1>2, FS_EmptySet, FS_CardinalityType, ConstantsAssumption DEF Tidy
<1>4. PhaseLeft(n) < PhaseLeft(me)
  BY <1>1, <1>2 DEF PhaseLeft
<1>5. GoesOn(r, n)
  BY <1>1, <1>3, <1>4, LessPhase DEF GoesOn, me
<1> QED BY <1>5

\* One step of a run leaves the other runs as they are.
LEMMA OthersStay ==
    ASSUME TypeOK, TidyOK, NEW r \in Runs, NEW n, GoesOn(r, n)
    PROVE  /\ TidyOK'
           /\ \A s \in Runs : run'[s] # run[s] =>
                  Less(StillToDo(run'[s]), StillToDo(run[s]))
<1>1. /\ run' = [run EXCEPT ![r] = n] /\ Tidy(n)
      /\ Less(StillToDo(n), StillToDo(run[r]))
  BY DEF GoesOn
<1>2. ASSUME NEW s \in Runs
      PROVE  /\ Tidy(run'[s])
             /\ run'[s] # run[s] => Less(StillToDo(run'[s]), StillToDo(run[s]))
  <2>1. run'[s] = IF s = r THEN n ELSE run[s]
    BY <1>1 DEF TypeOK
  <2>2. CASE s = r
    <3>1. run'[s] = n
      BY <2>1, <2>2
    <3> QED BY <1>1, <2>2, <3>1
  <2>3. CASE s # r
    <3>1. run'[s] = run[s]
      BY <2>1, <2>3
    <3> QED BY <3>1 DEF TidyOK
  <2> QED BY <2>2, <2>3
<1> QED BY <1>2 DEF TidyOK

\* In a step, a run stands still or has less to do.
RunsFall == \A s \in Runs : run'[s] # run[s] => Less(StillToDo(run'[s]), StillToDo(run[s]))

LEMMA StepsFall ==
    ASSUME Inv0, TidyOK, [Next]_vars
    PROVE  TidyOK' /\ RunsFall
<1>1. TypeOK /\ LocalOK
  BY DEF Inv0
<1>2. CASE UNCHANGED run
  BY <1>2 DEF TidyOK, RunsFall
<1>3. CASE Environment \/ \E p \in Processes : OtherReset(p)
  <2>1. UNCHANGED run
    BY <1>3 DEF Environment, Tick, EditEvent, SetZone, RegisterToken, UnregisterToken,
                Edit, OtherReset
  <2> QED BY <1>2, <2>1
<1>4. ASSUME NEW p \in Processes, Crash(p) PROVE TidyOK' /\ RunsFall
  <2>1. ASSUME NEW s \in Runs
        PROVE  /\ Tidy(run'[s])
               /\ run'[s] # run[s] => Less(StillToDo(run'[s]), StillToDo(run[s]))
    <3>1. run[s] \in RunState /\ Local(run[s]) /\ Tidy(run[s])
      BY <1>1 DEF TypeOK, LocalOK, TidyOK
    <3>2. \/ run'[s] = run[s]
          \/ run'[s] = Ended(run[s], "crashed") /\ run[s].pc # "ended"
      BY <1>4 DEF Crash, Active
    <3>3. CASE run'[s] = run[s]
      BY <3>1, <3>3
    <3>4. CASE run'[s] = Ended(run[s], "crashed") /\ run[s].pc # "ended"
      <4>1. /\ Tidy(Ended(run[s], "crashed"))
            /\ Less(StillToDo(Ended(run[s], "crashed")), StillToDo(run[s]))
        BY <3>1, <3>4, EndsLess DEF Reasons
      <4> QED BY <3>4, <4>1
    <3> QED BY <3>2, <3>3, <3>4
  <2> QED BY <2>1 DEF TidyOK, RunsFall
<1>5. ASSUME NEW r \in Runs, Start(r) \/ Work(r) \/ RunFault(r)
      PROVE  TidyOK' /\ RunsFall
  <2>1. PICK n : GoesOn(r, n)
    BY <1>1, <1>5, LessOfStart, LessOfWork, LessOfFault
  <2> QED BY <1>1, <2>1, OthersStay DEF RunsFall
<1>6. CASE UNCHANGED vars
  BY <1>2, <1>6 DEF vars
<1> QED BY <1>3, <1>4, <1>5, <1>6 DEF Next

LEMMA TidyInit == Init => TidyOK
<1>1. Tidy(Idle)
  BY FS_EmptySet DEF Idle, Tidy
<1> QED BY <1>1 DEF Init, TidyOK

\* Whatever the other runs, the users and the faults do, every statement a run
\* executes, every retry and every failure brings it nearer to its end, however
\* many events, devices and retries there are: no order of pages, claims, posts,
\* stale tokens and releases goes round for ever.
THEOREM RunsRunDown ==
    Spec => [](\A r \in Runs : StillToDo(run[r]) \in Quantities) /\ [][RunsFall]_vars
<1>1. Init => Inv0 /\ TidyOK
  BY Inv0Init, TidyInit
<1>2. Inv0 /\ TidyOK /\ [Next]_vars => (Inv0 /\ TidyOK)'
  BY Inv0Next, StepsFall
<1>3. Inv0 /\ TidyOK => \A r \in Runs : StillToDo(run[r]) \in Quantities
  BY Measured DEF Inv0, TypeOK, LocalOK, TidyOK
<1>4. Inv0 /\ TidyOK /\ [Next]_vars => [RunsFall]_vars
  BY StepsFall
<1> QED BY <1>1, <1>2, <1>3, <1>4, PTL DEF Spec

\* Of a finite set there is a part of any smaller size.
LEMMA PartOfSize ==
    ASSUME NEW S, IsFiniteSet(S), NEW k \in Nat, k <= Cardinality(S)
    PROVE  \E T \in SUBSET S : Cardinality(T) = k
<1> DEFINE Sizes == {i \in Nat : i <= Cardinality(S) =>
                                   \E T \in SUBSET S : Cardinality(T) = i}
<1>1. 0 \in Sizes
  BY FS_EmptySet
<1>2. ASSUME NEW i \in Nat, i \in Sizes PROVE i + 1 \in Sizes
  <2> SUFFICES ASSUME i + 1 <= Cardinality(S)
               PROVE  \E T \in SUBSET S : Cardinality(T) = i + 1
    OBVIOUS
  <2>1. Cardinality(S) \in Nat
    BY FS_CardinalityType
  <2>2. PICK T \in SUBSET S : Cardinality(T) = i
    BY <1>2, <2>1
  <2>3. IsFiniteSet(T) /\ T # S
    BY <2>1, <2>2, FS_Subset
  <2>4. PICK x \in S : x \notin T
    BY <2>3
  <2>5. Cardinality(T \cup {x}) = i + 1
    BY <2>2, <2>3, <2>4, FS_AddElement
  <2> QED BY <2>5
<1> HIDE DEF Sizes
<1>3. Nat \subseteq Sizes
  BY <1>1, <1>2, Reaches
<1> QED BY <1>3 DEF Sizes

\* What the next statement of a run is about exists: a page for its query, and
\* for every other call an item.
HasNext(r) ==
    LET me == run[r]
        reminded == {e \in Events : events[e].reminder # NoReminder} IN
    /\ me.pc = "pages" => \E read \in SUBSET reminded :
                              Cardinality(read) = PageLength(Cardinality(reminded), me.page)
    /\ me.pc \in Calls => Items(r) # {}

\* A run is never stuck: no loop is entered with nothing to walk, and a retry
\* always knows what it is about, so that until it ends a run has a next
\* statement, which succeeds, fails or raises.
THEOREM RunsAreNeverStuck == Spec => [](\A r \in Runs : HasNext(r))
<1>1. Init => Inv0 /\ TidyOK
  BY Inv0Init, TidyInit
<1>2. Inv0 /\ TidyOK /\ [Next]_vars => (Inv0 /\ TidyOK)'
  BY Inv0Next, StepsFall
<1>3. Inv0 /\ TidyOK => \A r \in Runs : HasNext(r)
  <2> SUFFICES ASSUME Inv0, TidyOK, NEW r \in Runs PROVE HasNext(r)
    OBVIOUS
  <2> DEFINE me == run[r]
             reminded == {e \in Events : events[e].reminder # NoReminder}
             k == Cardinality(reminded)
  <2>1. me \in RunState /\ Local(me) /\ Tidy(me)
    BY DEF Inv0, TypeOK, LocalOK, TidyOK
  <2>2. \E read \in SUBSET reminded : Cardinality(read) = PageLength(k, me.page)
    <3>1. IsFiniteSet(reminded) /\ k \in Nat
      BY FS_Subset, FS_CardinalityType, ConstantsAssumption
    <3>2. me.page \in Nat
      BY <2>1 DEF RunState
    <3> HIDE DEF reminded, me
    <3>3. PageLength(k, me.page) \in Nat /\ PageLength(k, me.page) <= k
      <4>1. me.page * PageSize \in Nat /\ PageSize \in Nat
        BY <3>2, ConstantsAssumption
      <4> DEFINE past == me.page * PageSize
      <4>2. PageLength(k, me.page) = IF k - past <= 0 THEN 0
                                     ELSE IF k - past < PageSize THEN k - past ELSE PageSize
        BY DEF PageLength
      <4> HIDE DEF past, k
      <4> QED BY <3>1, <4>1, <4>2 DEF past
    <3> QED BY <3>1, <3>3, PartOfSize
  <2>3. me.pc \in Calls => Items(r) # {}
    BY <2>1 DEF Items, Tidy, Calls
  <2> QED BY <2>2, <2>3 DEF HasNext
<1> QED BY <1>1, <1>2, <1>3, PTL DEF Spec

=============================================================================
