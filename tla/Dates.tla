------------------------------- MODULE Dates -------------------------------
(***************************************************************************)
(* src/src/anonproxy/surrogates/dates.py: a date is moved by a number of   *)
(* days that is the same in the whole scope, inside the range of the dates *)
(* of its granularity, and on request without crossing the present.        *)
(* A date is its granularity and its rank from 0 in the range of that      *)
(* granularity; how it was written is kept only where it changes what is   *)
(* read back: the first of a month is written "1er" or "1".                *)
(***************************************************************************)
EXTENDS Integers, Sequences

CONSTANTS Span,     \* [grain -> how many dates it has]
          DaysPer   \* [grain -> how many days one of its ranks lasts]

Grains == {"day", "month", "quarter", "yearday"}

ASSUME DatesAssumption ==
    /\ Span \in [Grains -> Nat \ {0, 1}]
    /\ DaysPer \in [Grains -> Nat \ {0}]

\* _tourner: the rank `step` further on in low..high, coming back by the other end.
Turn(o, low, high, step) == low + ((o - low + step) % (high - low + 1))

\* _signe: never 0 nor a whole turn, backwards in the past and forwards after it.
Signed(step, past, n) ==
    LET b == IF n < 2 \/ step % (n - 1) = 0 THEN 1 ELSE step % (n - 1)
    IN  IF past THEN -b ELSE b

\* _pas: a number of days at a coarser granularity, rounded, never 0.
Step(g, days) ==
    IF g = "day" THEN days
    ELSE LET p == DaysPer[g]
             r == ((2 * days + p) \div (2 * p)) % Span[g]
         IN  IF r = 0 THEN 1 ELSE r

\* The rank of the present at a granularity.
Now(g, today) == today \div DaysPer[g]

\* _cote: today counts as past.
Low(o, now) == IF o <= now THEN 0 ELSE now + 1
\* (mutant) the past ends with the day after the present.
HighNext(g, o, now) == IF o <= now THEN now + 1 ELSE Span[g] - 1
High(g, o, now) == IF o <= now THEN now ELSE Span[g] - 1

\* A side of the present with one date leaves nowhere to go (CoteImpossible).
\* A day of the year has no side: nothing says which year it is in.
Narrow(d, today) ==
    LET now == Now(d.g, today)
    IN  d.g # "yearday" /\ High(d.g, d.o, now) - Low(d.o, now) < 1

FreeRank(d, days) == Turn(d.o, 0, Span[d.g] - 1, Step(d.g, days))

SidedRank(d, days, today) ==
    LET now  == Now(d.g, today)
        low  == Low(d.o, now)
        high == High(d.g, d.o, now)
    IN  IF d.g = "yearday" THEN FreeRank(d, days)
        ELSE Turn(d.o, low, high,
                  Signed(Step(d.g, days), d.o <= now, high - low + 1))

\* Only the first of a month can be written "1er".
First(g, o) == g \in {"day", "yearday"} /\ o % DaysPer["month"] = 0

\* The writing of the new date (ordinal): "1er" on a first of the month, except
\* when the source fell on a first and was not written so.
Written(d, o) == [d EXCEPT !.o = o,
                           !.er = /\ First(d.g, o)
                                  /\ d.er \/ (d.g = "day" /\ ~First(d.g, d.o))]

\* shift: a value holds one date or several, and what is not one makes the whole
\* unreadable.  With a present, one date too close to it sets all of them free.
Readable(x) == \A i \in DOMAIN x : x[i].g \in Grains

Shifted(x, days, sided, today) ==
    LET keepSide == sided /\ \A i \in DOMAIN x : ~Narrow(x[i], today)
    IN  [i \in DOMAIN x |->
            Written(x[i], IF keepSide THEN SidedRank(x[i], days, today)
                                      ELSE FreeRank(x[i], days))]
=============================================================================
