------------------------- MODULE QuoteWindowProofs -------------------------
(***************************************************************************)
(* Theorems about QuoteWindow for every length of the day and of the       *)
(* catch-up time, every cutoff and every zone that changes once: first     *)
(* where At puts a cutoff (AtReads, AtSkipped, AtNear), then that no day   *)
(* is jumped over, and that LastClosed names the latest closed window.     *)
(***************************************************************************)
EXTENDS QuoteWindow, TLAPS

\* What the assumption says of one zone.
LEMMA ZoneFacts ==
  ASSUME NEW z \in Zones
  PROVE  /\ z.before \in Int /\ z.after \in Int /\ z.change \in Nat
         /\ -DayLength < z.before /\ z.before < DayLength
         /\ -DayLength < z.after /\ z.after < DayLength
         /\ z.after - z.before < CatchUp
         /\ z.before - z.after < CatchUp
         /\ DayLength \in Nat /\ CatchUp \in Nat /\ 0 < CatchUp /\ CatchUp <= DayLength
<1>1. DayLength \in Nat /\ CatchUp \in Nat /\ 0 < CatchUp /\ CatchUp <= DayLength
  BY QuoteWindowAssumption
<1>2. z.before \in Offsets /\ z.after \in Offsets /\ z.change \in Changes
  BY DEF Zones
<1>3. /\ z.before \in (1 - DayLength)..(DayLength - 1)
      /\ z.after \in (1 - DayLength)..(DayLength - 1)
      /\ z.change \in Nat
  BY <1>2, QuoteWindowAssumption
<1>4. z.after - z.before < CatchUp /\ z.before - z.after < CatchUp
  BY <1>2, QuoteWindowAssumption
<1> QED BY <1>1, <1>3, <1>4

\* The instant of a reading is a number.
LEMMA AtInt ==
  ASSUME NEW z \in Zones, NEW w \in Int
  PROVE  At(z, w) \in Int
BY ZoneFacts DEF At, OffsetAt

\* A reading the clock skips is read with the offset before the change.
LEMMA AtSkipped ==
  ASSUME NEW z \in Zones, NEW w \in Int, Skipped(z, w)
  PROVE  At(z, w) = w - z.before
BY ZoneFacts DEF At, OffsetAt, Skipped

\* Any other reading is what the clock shows at its instant, for the first time.
LEMMA AtReads ==
  ASSUME NEW z \in Zones, NEW w \in Int, ~Skipped(z, w)
  PROVE  /\ Wall(z, At(z, w)) = w
         /\ \A u \in Int : u < At(z, w) => Wall(z, u) # w
BY ZoneFacts DEF At, OffsetAt, Skipped, Wall

-----------------------------------------------------------------------------
\* The reading at which a day closes.
LEMMA CutoffInt ==
  ASSUME NEW d \in Int, NEW c \in 0..(DayLength - 1)
  PROVE  /\ CutoffClock(d, c) \in Int
         /\ CutoffClock(d + 1, c) = CutoffClock(d, c) + DayLength
         /\ CutoffClock(d, c) - CutoffClock(d - 1, c) = DayLength
<1>1. DayLength \in Nat
  BY QuoteWindowAssumption
<1>2. d * DayLength \in Int /\ (d + 1) * DayLength = d * DayLength + DayLength
      /\ (d - 1) * DayLength = d * DayLength - DayLength
  BY <1>1
<1> QED BY <1>1, <1>2 DEF CutoffClock

\* The variables keep their types.
THEOREM WindowTypes == Spec => []TypeOK
<1>1. Init => TypeOK
  BY DEF Init, TypeOK, DueDays
<1>2. TypeOK /\ [Next]_vars => TypeOK'
  <2> SUFFICES ASSUME TypeOK, [Next]_vars PROVE TypeOK'
    OBVIOUS
  <2>1. CASE Next
    BY <2>1 DEF Next, Tick, TypeOK, DueDays
  <2>2. CASE UNCHANGED vars
    BY <2>2 DEF vars, TypeOK
  <2> QED BY <2>1, <2>2
<1> QED BY <1>1, <1>2, PTL DEF Spec

\* The cutoff of every day is at the first instant that shows it (At of window.go).
THEOREM CutoffsAreFirst == Spec => []AtIsFirst
<1>1. TypeOK => AtIsFirst
  <2> SUFFICES ASSUME TypeOK, NEW d \in 0..NDays
               PROVE  LET wall == CutoffClock(d, cutoff)
                          t == At(zone, wall)
                      IN IF Skipped(zone, wall) THEN t = wall - zone.before
                         ELSE /\ Wall(zone, t) = wall
                              /\ \A ago \in 1..DayLength : Wall(zone, t - ago) # wall
    BY DEF AtIsFirst
  <2> DEFINE wall == CutoffClock(d, cutoff)
             t == At(zone, wall)
  <2>1. zone \in Zones /\ cutoff \in 0..(DayLength - 1) /\ d \in Int
    BY QuoteWindowAssumption DEF TypeOK
  <2>2. wall \in Int /\ t \in Int /\ DayLength \in Nat
    BY <2>1, CutoffInt, AtInt, QuoteWindowAssumption
  <2>3. Skipped(zone, wall) => t = wall - zone.before
    BY <2>1, <2>2, AtSkipped
  <2>4. ~Skipped(zone, wall) => Wall(zone, t) = wall /\ \A u \in Int : u < t => Wall(zone, u) # wall
    BY <2>1, <2>2, AtReads
  <2>5. \A ago \in 1..DayLength : t - ago \in Int /\ t - ago < t
    BY <2>2
  <2> QED BY <2>3, <2>4, <2>5
<1> QED BY <1>1, WindowTypes, PTL

-----------------------------------------------------------------------------
\* The instant of a reading is off by one of the two offsets.
LEMMA AtNear ==
  ASSUME NEW z \in Zones, NEW w \in Int
  PROVE  At(z, w) = w - z.before \/ At(z, w) = w - z.after
BY ZoneFacts DEF At, OffsetAt

\* The windows of consecutive days meet, and none is empty.
THEOREM DaysTileTime == Spec => []WindowsTile
<1>1. TypeOK => WindowsTile
  <2> SUFFICES ASSUME TypeOK, NEW d \in Days
               PROVE  /\ Start(zone, d, cutoff) = End(zone, d - 1, cutoff)
                      /\ Start(zone, d, cutoff) < End(zone, d, cutoff)
    BY DEF WindowsTile
  <2> DEFINE w == CutoffClock(d, cutoff)
             v == CutoffClock(d - 1, cutoff)
  <2>1. zone \in Zones /\ cutoff \in 0..(DayLength - 1) /\ d \in Int /\ d - 1 \in Int
    BY QuoteWindowAssumption DEF TypeOK, Days
  <2>2. w \in Int /\ v \in Int /\ w - v = DayLength
    BY <2>1, CutoffInt
  <2>3. At(zone, v) = v - zone.before \/ At(zone, v) = v - zone.after
    BY <2>1, <2>2, AtNear
  <2>4. At(zone, w) = w - zone.before \/ At(zone, w) = w - zone.after
    BY <2>1, <2>2, AtNear
  <2>5. At(zone, v) < At(zone, w)
    <3> HIDE DEF w, v
    <3> QED BY <2>1, <2>2, <2>3, <2>4, ZoneFacts
  <2> QED BY <2>5 DEF Start, End
<1> QED BY <1>1, WindowTypes, PTL

\* A reading that is not skipped was reached by the time the clock shows more.
LEMMA AtReached ==
  ASSUME NEW z \in Zones, NEW w \in Int, NEW t \in Int, ~Skipped(z, w), w <= Wall(z, t)
  PROVE  At(z, w) <= t
BY ZoneFacts DEF At, OffsetAt, Skipped, Wall

\* How long ago a reading was, by instants, when it was less than CatchUp ago by
\* the clock.
LEMMA AtRecent ==
  ASSUME NEW z \in Zones, NEW w \in Int, NEW t \in Int,
         0 <= Wall(z, t) - w, Wall(z, t) - w < CatchUp
  PROVE  \/ t - At(z, w) - CatchUp < 0
         \/ t - At(z, w) - CatchUp < z.before - z.after
BY ZoneFacts DEF At, OffsetAt, Wall

\* A window is closed when its day is due, unless the clock skipped its cutoff, and
\* the day is not older than the catch-up time and a clock put back allow.
THEOREM DueDaysAreTimely == Spec => []DueIsTimely
<1>1. TypeOK => DueIsTimely
  <2> SUFFICES ASSUME TypeOK, NEW d \in DueDays(now)
               PROVE  /\ \/ End(zone, d, cutoff) <= now
                         \/ Skipped(zone, CutoffClock(d, cutoff))
                      /\ LET late == now - End(zone, d, cutoff) - CatchUp IN
                         late < 0 \/ late < zone.before - zone.after
    BY DEF DueIsTimely, DueIsClosed, DueIsRecent
  <2> DEFINE w == CutoffClock(d, cutoff)
  <2>1. /\ zone \in Zones /\ cutoff \in 0..(DayLength - 1) /\ d \in Int
        /\ now \in Int /\ CatchUp \in Int
    BY QuoteWindowAssumption DEF TypeOK, Days, DueDays
  <2>2. w \in Int
    BY <2>1, CutoffInt
  <2>3. Wall(zone, now) - w \in 0..(CatchUp - 1)
    BY DEF DueDays, IsDue
  <2>4. Wall(zone, now) \in Int
    BY <2>1, ZoneFacts DEF Wall, OffsetAt
  <2>5. 0 <= Wall(zone, now) - w /\ Wall(zone, now) - w < CatchUp /\ w <= Wall(zone, now)
    <3> HIDE DEF w
    <3> QED BY <2>1, <2>2, <2>3, <2>4
  <2>6. Skipped(zone, w) \/ At(zone, w) <= now
    <3> HIDE DEF w
    <3> QED BY <2>1, <2>2, <2>5, AtReached
  <2>7. \/ now - At(zone, w) - CatchUp < 0
        \/ now - At(zone, w) - CatchUp < zone.before - zone.after
    <3> HIDE DEF w
    <3> QED BY <2>1, <2>2, <2>5, AtRecent
  <2> QED BY <2>6, <2>7 DEF End
<1> QED BY <1>1, WindowTypes, PTL

-----------------------------------------------------------------------------
\* Every tick so far has been taken: the inductive invariant of EveryDayIsDue.
TicksDone == TypeOK /\ \A t \in 0..now : DueDays(t) \subseteq done

\* A reading late enough is shown, or jumped over, at an instant after time began
\* and before its catch-up time is over.
LEMMA ShownInTime ==
  ASSUME NEW z \in Zones, NEW w \in Int, DayLength <= w
  PROVE  \E t \in Nat : /\ t < At(z, w) + CatchUp
                        /\ 0 <= Wall(z, t) - w /\ Wall(z, t) - w < CatchUp
                        /\ Wall(z, t) \in Int
<1>1. CASE Skipped(z, w)
  <2>1. /\ z.change \in Nat /\ z.change < At(z, w) + CatchUp
        /\ 0 <= Wall(z, z.change) - w /\ Wall(z, z.change) - w < CatchUp
        /\ Wall(z, z.change) \in Int
    BY <1>1, ZoneFacts, AtSkipped DEF Skipped, Wall, OffsetAt
  <2> QED BY <2>1
<1>2. CASE ~Skipped(z, w)
  <2>1. Wall(z, At(z, w)) = w /\ At(z, w) \in Int
    BY <1>2, AtReads, AtInt
  <2>2. At(z, w) \in Nat
    BY <2>1, ZoneFacts, AtNear
  <2> QED BY <2>1, <2>2, ZoneFacts
<1> QED BY <1>1, <1>2

\* At a reading less than CatchUp after the cutoff of a day the clock shows that
\* day or the next one, so Due finds it.
LEMMA FoundByDue ==
  ASSUME NEW z \in Zones, NEW d \in Int, NEW c \in 0..(DayLength - 1), NEW t \in Nat,
         Wall(z, t) \in Int,
         0 <= Wall(z, t) - CutoffClock(d, c), Wall(z, t) - CutoffClock(d, c) < CatchUp
  PROVE  IsDue(z, t, d, c)
<1> DEFINE x == Wall(z, t)
           m == d * DayLength
<1>1. /\ m \in Int /\ (d + 1) * DayLength = m + DayLength
      /\ ((d + 1) + 1) * DayLength = m + DayLength + DayLength
      /\ DayLength \in Nat /\ CatchUp \in Nat /\ CatchUp <= DayLength
  BY QuoteWindowAssumption
<1>2. x \in Int /\ 0 <= x - (m + c) /\ x - (m + c) < CatchUp
  BY DEF CutoffClock
<1>3. \/ m <= x /\ x < m + DayLength
      \/ m + DayLength <= x /\ x < m + DayLength + DayLength
  <2> HIDE DEF x, m
  <2> QED BY <1>1, <1>2
<1>4. IsDate(d, x) \/ IsDate(d + 1, x)
  BY <1>1, <1>3 DEF IsDate
<1>5. x - CutoffClock(d, c) \in 0..(CatchUp - 1)
  <2>1. CutoffClock(d, c) = m + c
    BY DEF CutoffClock
  <2> HIDE DEF x, m
  <2> QED BY <2>1, <1>1, <1>2
<1> QED BY <1>4, <1>5 DEF IsDue

\* No day is jumped over, in any zone, with any cutoff (Due of window.go).
THEOREM NoDayIsSkipped == Spec => []EveryDayIsDue
<1>1. Init => TicksDone
  <2> SUFFICES ASSUME Init PROVE TicksDone
    OBVIOUS
  <2>1. TypeOK
    BY DEF Init, TypeOK, DueDays
  <2>2. \A t \in 0..now : t = 0
    BY DEF Init
  <2> QED BY <2>1, <2>2 DEF Init, TicksDone
<1>2. TicksDone /\ [Next]_vars => TicksDone'
  <2> SUFFICES ASSUME TicksDone, [Next]_vars PROVE TicksDone'
    OBVIOUS
  <2>1. CASE Next
    <3>1. /\ now' = now + 1 /\ done' = done \cup DueDays(now + 1)
          /\ UNCHANGED <<zone, cutoff>>
      BY <2>1 DEF Next, Tick
    <3>2. TypeOK'
      BY <3>1 DEF TicksDone, TypeOK, DueDays
    <3>3. ASSUME NEW t \in 0..now' PROVE DueDays(t)' \subseteq done'
      <4>1. DueDays(t)' = DueDays(t)
        BY <3>1 DEF DueDays
      <4>2. t \in 0..now \/ t = now + 1
        BY <3>1, <3>3 DEF TicksDone, TypeOK
      <4> QED BY <3>1, <4>1, <4>2 DEF TicksDone
    <3> QED BY <3>2, <3>3 DEF TicksDone
  <2>2. CASE UNCHANGED vars
    BY <2>2 DEF vars, TicksDone, TypeOK, DueDays
  <2> QED BY <2>1, <2>2
<1>3. TicksDone => EveryDayIsDue
  <2> SUFFICES ASSUME TicksDone, NEW d \in Days, now >= End(zone, d, cutoff) + CatchUp
               PROVE  d \in done
    BY DEF EveryDayIsDue
  <2> DEFINE w == CutoffClock(d, cutoff)
  <2>1. zone \in Zones /\ cutoff \in 0..(DayLength - 1) /\ d \in Int /\ 1 <= d /\ now \in Nat
    BY QuoteWindowAssumption DEF TicksDone, TypeOK, Days
  <2>2. w \in Int /\ DayLength <= w
    <3>1. CutoffClock(d, cutoff) \in Int /\ DayLength \in Nat
      BY <2>1, CutoffInt, QuoteWindowAssumption
    <3>2. d * DayLength >= DayLength
      BY <2>1, <3>1
    <3> QED BY <2>1, <3>1, <3>2 DEF CutoffClock
  <2>3. PICK t \in Nat : /\ t < At(zone, w) + CatchUp
                         /\ 0 <= Wall(zone, t) - w /\ Wall(zone, t) - w < CatchUp
                         /\ Wall(zone, t) \in Int
    <3> HIDE DEF w
    <3> QED BY <2>1, <2>2, ShownInTime
  <2>4. d \in DueDays(t)
    BY <2>1, <2>3, FoundByDue DEF DueDays
  <2>5. t \in 0..now
    <3>1. At(zone, w) \in Int /\ CatchUp \in Int
      BY <2>1, <2>2, AtInt, QuoteWindowAssumption
    <3>2. now >= At(zone, w) + CatchUp
      BY DEF End
    <3> HIDE DEF w
    <3> QED BY <2>1, <2>3, <3>1, <3>2
  <2> QED BY <2>4, <2>5 DEF TicksDone
<1> QED BY <1>1, <1>2, <1>3, PTL DEF Spec

\* Division by the length of a day: the day whose midnight the clock showed last.
LEMMA TodayBounds ==
  ASSUME NEW x \in Int
  PROVE  /\ x \div DayLength \in Int
         /\ (x \div DayLength) * DayLength <= x
         /\ x < (x \div DayLength) * DayLength + DayLength
BY QuoteWindowAssumption

\* The day LastClosed names is the last whose cutoff the clock has reached.
LEMMA LastReached ==
  ASSUME NEW x \in Int, NEW c \in 0..(DayLength - 1)
  PROVE  LET d == QuoteDayOf(x, c)
         IN d \in Int /\ CutoffClock(d, c) <= x /\ x < CutoffClock(d + 1, c)
<1> DEFINE q == x \div DayLength
<1>1. q \in Int /\ q * DayLength <= x /\ x < q * DayLength + DayLength
  BY TodayBounds
<1>2. DayLength \in Nat /\ c \in Int /\ 0 <= c /\ c < DayLength
  BY QuoteWindowAssumption
<1>3. QuoteDayOf(x, c) = IF x < CutoffClock(q, c) THEN q - 1 ELSE q
  BY DEF QuoteDayOf
<1> HIDE DEF q
<1>4. /\ CutoffClock(q, c) = q * DayLength + c
      /\ CutoffClock(q + 1, c) = q * DayLength + DayLength + c
      /\ CutoffClock(q - 1, c) = q * DayLength - DayLength + c
      /\ q * DayLength \in Int
  BY <1>1, <1>2 DEF CutoffClock
<1>5. CASE x < CutoffClock(q, c)
  <2>1. (q - 1) + 1 = q
    BY <1>1
  <2>2. CutoffClock(q - 1, c) <= x
    BY <1>1, <1>2, <1>4
  <2> QED BY <1>1, <1>3, <1>5, <2>1, <2>2
<1>6. CASE ~(x < CutoffClock(q, c))
  <2>1. CutoffClock(q, c) <= x /\ x < CutoffClock(q + 1, c)
    BY <1>1, <1>2, <1>4, <1>6
  <2> QED BY <1>1, <1>3, <1>6, <2>1
<1> QED BY <1>5, <1>6

\* A reading the clock has not come to is still ahead, or behind by less than the clock
\* was put back.
LEMMA AtAhead ==
  ASSUME NEW z \in Zones, NEW w \in Int, NEW t \in Int, Wall(z, t) < w
  PROVE  t - At(z, w) < 0 \/ t - At(z, w) < z.before - z.after
BY ZoneFacts DEF At, OffsetAt, Wall

\* The window that LastClosed names is the latest that is closed (LastClosed of
\* window.go), in any zone, with any cutoff and length of the day.
THEOREM LastClosedAlwaysLatest == Spec => []LastClosedIsLatest
<1>1. TypeOK => LastClosedIsLatest
  <2> SUFFICES ASSUME TypeOK PROVE LastClosedIsLatest
    OBVIOUS
  <2> DEFINE x == Wall(zone, now)
             d == QuoteDayOf(x, cutoff)
             w == CutoffClock(d, cutoff)
             w1 == CutoffClock(d + 1, cutoff)
  <2>1. zone \in Zones /\ cutoff \in 0..(DayLength - 1) /\ now \in Int
    BY DEF TypeOK
  <2>2. x \in Int
    BY <2>1, ZoneFacts DEF Wall, OffsetAt
  <2>3. d \in Int /\ w <= x /\ x < w1
    BY <2>1, <2>2, LastReached
  <2>4. w \in Int /\ w1 \in Int
    BY <2>1, <2>3, CutoffInt
  <2>5. End(zone, d, cutoff) <= now \/ Skipped(zone, w)
    BY <2>1, <2>3, <2>4, AtReached DEF End
  <2>6. LET late == now - End(zone, d + 1, cutoff)
        IN late < 0 \/ late < zone.before - zone.after
    BY <2>1, <2>3, <2>4, AtAhead DEF End
  <2> QED BY <2>5, <2>6 DEF LastClosedIsLatest
<1> QED BY <1>1, WindowTypes, PTL
=============================================================================
