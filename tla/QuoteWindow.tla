---------------------------- MODULE QuoteWindow ----------------------------
(***************************************************************************)
(* The arithmetic of a group's day: internal/window/window.go.             *)
(*                                                                         *)
(* An instant is a number of units since some midnight UTC.  A wall-clock  *)
(* reading is a number of units too: the reading of a clock that is off    *)
(* UTC by "offset" is instant + offset, so that two readings, and the      *)
(* readings of two days, can be compared without any zone getting in (the  *)
(* code carries them in a UTC time.Time for the same reason).              *)
(*                                                                         *)
(* Due is asked at every unit, as the minute tick does, while the zone     *)
(* changes its offset once.                                                *)
(***************************************************************************)
EXTENDS Integers

CONSTANTS
  DayLength,   \* units of a day
  CatchUp,     \* how long after its cutoff a day may be started
  NDays,       \* quote days that are modelled (bound)
  Offsets,     \* offsets from UTC a zone may have
  Changes      \* instants at which a zone may change its offset

ASSUME QuoteWindowAssumption ==
  /\ DayLength \in Nat \ {0} /\ CatchUp \in 1..DayLength /\ NDays \in Nat
  /\ Changes \subseteq Nat
  \* no zone is a day off UTC, no change is as long as CatchUp
  /\ Offsets \subseteq (1 - DayLength)..(DayLength - 1)
  /\ \A a, b \in Offsets : a - b < CatchUp

Days == 1..NDays

\* A zone: its offset before and after the instant at which it changes.
Zones == [before : Offsets, after : Offsets, change : Changes]

VARIABLES
  zone,     \* the zone of the group
  cutoff,   \* its cutoff, in units after midnight
  now,
  done      \* days that were due at a tick so far
vars == <<zone, cutoff, now, done>>

OffsetAt(z, t) == IF t < z.change THEN z.before ELSE z.after

\* wallClock
Wall(z, t) == t + OffsetAt(z, t)

\* Mutant: a reading that occurs twice is the second occurrence.
AtSecond(z, wall) ==
  IF OffsetAt(z, wall - z.after) = z.after THEN wall - z.after ELSE wall - z.before

(* At: the instant of a wall-clock reading.  The offsets a day before and a  *)
(* day after the reading are tried; one is real if the zone has it then.     *)
At(z, wall) ==
  LET before == OffsetAt(z, wall - DayLength)
      after == OffsetAt(z, wall + DayLength)
      atBefore == wall - before
      atAfter == wall - after
      okBefore == OffsetAt(z, atBefore) = before
      okAfter == OffsetAt(z, atAfter) = after
  IN CASE before = after -> atBefore
       [] before # after /\ okBefore /\ okAfter ->     \* read twice: the first one
            IF atBefore < atAfter THEN atBefore ELSE atAfter
       [] before # after /\ okBefore /\ ~okAfter -> atBefore
       [] before # after /\ ~okBefore /\ okAfter -> atAfter
       [] OTHER -> atBefore                            \* skipped: as before the change

\* cutoffClock: the reading at which day d closes.
CutoffClock(d, c) == d * DayLength + c

\* Mutant: a day is 24 hours.
StartMinusDay(z, d, c) == At(z, CutoffClock(d, c)) - DayLength

\* ClosedForDay
Start(z, d, c) == At(z, CutoffClock(d - 1, c))
End(z, d, c) == At(z, CutoffClock(d, c))

\* Date: day d is the one the clock shows.
IsDate(d, wall) == d * DayLength <= wall /\ wall < (d + 1) * DayLength

\* Mutant: the cutoff itself still belongs to the day it closes.
QuoteDayOfInclusive(wall, c) ==
  LET today == wall \div DayLength IN
  IF wall <= CutoffClock(today, c) THEN today - 1 ELSE today

\* QuoteDayOf, and LastClosed with it: today's cutoff once the clock has reached
\* it, yesterday's otherwise.
QuoteDayOf(wall, c) ==
  LET today == wall \div DayLength IN
  IF wall < CutoffClock(today, c) THEN today - 1 ELSE today

\* Mutant: a day is due at the minute of its cutoff only.
IsDueExactly(z, t, d, c) == Wall(z, t) = CutoffClock(d, c)

\* Mutant: the end of the catch-up time belongs to it.
IsDueInclusive(z, t, d, c) ==
  /\ IsDate(d, Wall(z, t)) \/ IsDate(d + 1, Wall(z, t))
  /\ Wall(z, t) - CutoffClock(d, c) \in 0..CatchUp

\* Due: today's cutoff, or yesterday's, was reached less than CatchUp ago on the
\* clock.  There is at most one such day.
IsDue(z, t, d, c) ==
  /\ IsDate(d, Wall(z, t)) \/ IsDate(d + 1, Wall(z, t))
  /\ Wall(z, t) - CutoffClock(d, c) \in 0..(CatchUp - 1)

DueDays(t) == {d \in Days : IsDue(zone, t, d, cutoff)}

Init ==
  /\ zone \in Zones
  /\ cutoff \in 0..(DayLength - 1)
  /\ now = 0
  /\ done = DueDays(0)

\* The next tick.
Tick ==
  /\ now' = now + 1
  /\ done' = done \cup DueDays(now + 1)
  /\ UNCHANGED <<zone, cutoff>>

\* The modelled time (bound): until every modelled day is over in every zone.
Horizon == (NDays + 2) * DayLength

Next == now < Horizon /\ Tick

Spec == Init /\ [][Next]_vars

-----------------------------------------------------------------------------
(***************************************************************************)
(* Properties                                                              *)
(***************************************************************************)
\* Types of the variables.
TypeOK ==
  /\ zone \in Zones /\ cutoff \in 0..(DayLength - 1)
  /\ now \in Nat /\ done \subseteq Days

\* The clock never shows this reading: the change jumps over it.
Skipped(z, wall) == z.change + z.before <= wall /\ wall < z.change + z.after

\* The instant of a cutoff is the first at which the clock shows it; a cutoff the
\* clock skips is read with the offset before the change (package comment).
AtIsFirst ==
  \A d \in 0..NDays :
    LET wall == CutoffClock(d, cutoff)
        t == At(zone, wall)
    IN IF Skipped(zone, wall) THEN t = wall - zone.before
       ELSE /\ Wall(zone, t) = wall
            /\ \A ago \in 1..DayLength : Wall(zone, t - ago) # wall

\* Days tile time: a window starts where the one before ended and none is empty or
\* turned round, also when the clock changes, so every message belongs to one day.
WindowsTile ==
  \A d \in Days : /\ Start(zone, d, cutoff) = End(zone, d - 1, cutoff)
                  /\ Start(zone, d, cutoff) < End(zone, d, cutoff)

\* No day is jumped over: a tick finds every day due before it is too late, also
\* when the clock is put forward past its cutoff.
EveryDayIsDue ==
  \A d \in Days : now >= End(zone, d, cutoff) + CatchUp => d \in done

\* A day is due only after its window is closed, unless the clock skipped its
\* cutoff (a quote would miss the messages still to come).
DueIsClosed ==
  \A d \in DueDays(now) :
    End(zone, d, cutoff) <= now \/ Skipped(zone, CutoffClock(d, cutoff))

\* A day is not started later than CatchUp after its cutoff; when the clock is put
\* back it may start as much later as the clock is put back.
DueIsRecent ==
  \A d \in DueDays(now) :
    LET late == now - End(zone, d, cutoff) - CatchUp IN
    late < 0 \/ late < zone.before - zone.after

\* A day is started in time: neither before its window is closed nor a day too late.
DueIsTimely == DueIsClosed /\ DueIsRecent

\* LastClosed, which the catch-up after an acceptance asks: its window is closed
\* unless the clock skipped the cutoff, and the next one is not, except while the
\* clock repeats the time that was put back over it.
LastClosedIsLatest ==
  LET d == QuoteDayOf(Wall(zone, now), cutoff)
      late == now - End(zone, d + 1, cutoff)
  IN /\ End(zone, d, cutoff) <= now \/ Skipped(zone, CutoffClock(d, cutoff))
     /\ late < 0 \/ late < zone.before - zone.after
=============================================================================
