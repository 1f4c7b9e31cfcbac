------------------------- MODULE MCReminderDispatch -------------------------
(* Small instances of ReminderDispatch.                                     *)
EXTENDS ReminderDispatch, TLC

CONSTANTS e1, e2, u1, u2, t1, t2, r1, r2, p1, p2, h1, here, home, away

OneAuthor == [e \in Events |-> u1]

\* "1h", in units of the small clock.
Offsets == [o \in Reminders |-> 1]

\* `here` puts its clock forward by a minute; `away` is not known, and so means `home`.
TimeZones == here :> [at |-> 0, before |-> 0, after |-> 1]
             @@ home :> [at |-> 0, before |-> 1, after |-> 1]

OneProcess   == [r \in Runs |-> p1]
TwoProcesses == [r \in Runs |-> IF r = r1 THEN p1 ELSE p2]

\* Runs of one worker are interchangeable, and so are devices and events of one author.
Symmetry == Permutations(Runs) \cup Permutations(Tokens) \cup Permutations(Events)

\* EventTimes by examples and against plainer definitions.
Tomorrow(d) ==
    IF d.day < DaysIn(d.month, d.year) THEN [d EXCEPT !.day = @ + 1]
    ELSE IF d.month < 12 THEN [d EXCEPT !.day = 1, !.month = @ + 1]
    ELSE [day |-> 1, month |-> 1, year |-> d.year + 1]

\* Every day is one after the day before, around turns of the century too; and
\* date(1970, 1, 1).toordinal() is 719163.
ASSUME DaysAreCounted ==
    /\ \A d \in [day : 1 .. 31, month : 1 .. 12, year : {1, 4, 1899, 1900, 1999, 2000, 2024}] :
         d.day <= DaysIn(d.month, d.year) => Ordinal(Tomorrow(d)) = Ordinal(d) + 1
    /\ Ordinal([day |-> 1, month |-> 1, year |-> 1970]) = 719163

Texts == {[shape |-> "iso", exact |-> TRUE, day |-> 1, month |-> 3, year |-> 2026],
          [shape |-> "dmy", exact |-> TRUE, day |-> 29, month |-> 2, year |-> 2026],
          [shape |-> "dm", exact |-> TRUE, day |-> 29, month |-> 2, year |-> 0]}

\* The dates kept are the first and the last that are valid, which may be one.
ASSUME DatesAreKept ==
    \A thisYear \in {2024, 2026}, n \in 0 .. 4 : \A texts \in [1 .. n -> Texts] :
        LET kept  == KeptDates(texts, thisYear)
            valid == {i \in 1 .. n : DisplayDate(texts[i], thisYear) # None}
            At(i) == DisplayDate(texts[i], thisYear)
        IN /\ Len(kept) <= 2 /\ (kept = <<>> <=> valid = {})
           /\ valid # {} => \E i, j \in valid :
                /\ \A l \in valid : i <= l /\ l <= j
                /\ kept[1] = At(i) /\ kept[Len(kept)] = At(j)
                /\ Len(kept) = 2 <=> i # j
=============================================================================
