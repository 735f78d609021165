---------------------------- MODULE ClockProofs ----------------------------
(***************************************************************************)
(* Proofs about Clock, for any years, days and hours and any SHUFFLE.TXT:     *)
(* the calendar and the types; that the time that is set is the time shown    *)
(* next; and, where the clock never goes unread for a whole day (the firmware *)
(* reads it every second), that summer time is right at every reading.       *)
(***************************************************************************)
EXTENDS Clock, FiniteSetTheorems, TLAPS

\* A time of the calendar with its weekday.
Stamps == [year : Nat \ {0}, mon : 1..12, mday : 1..31, hour : 0..23, wday : 1..7]
IsTime(t) ==
  /\ t \in Stamps
  /\ t.mday <= MonLastDay(t.year, t.mon)
  /\ t.wday = Dow(t.year, t.mon, t.mday)

\* Behind a Set the chip holds standard time and the rest is what Set computed.
JustSet ==
  entered # Unset =>
    /\ entered \in Entries /\ rtc = Standard(entered) /\ checked = rtc
    /\ dst = CheckDst(entered).dst /\ checkLevel = CheckDst(entered).level
    /\ dst => entered.hour > 0

Dated == IsTime(rtc) /\ TypeOK /\ JustSet

SameDate(r, t) == r.year = t.year /\ r.mon = t.mon /\ r.mday = t.mday /\ r.wday = t.wday

\* What Check asks of the time t, when summer time was last computed from c with
\* the level l.
Asks(t, c, l) ==
  \/ l = "Hour" /\ t.hour # c.hour
  \/ l = "Day" /\ t.wday # c.mday
  \/ l = "Mon" /\ (t.mon # c.mon \/ t.year # c.year)

\* At the time t the summer time d is right and the level l tells when to ask again:
\* next month, tomorrow or in an hour.  At level Day the date of the computation may
\* be yesterday's, whose day of the month is today's weekday.
Sunday(t) == LastSunOfMonth31(t.year, t.mon)
SameMonth(t, c) == t.year = c.year /\ t.mon = c.mon
Knows(t, c, l, d) ==
  /\ d = Summer(t)
  /\ l = "Mon" =>
       SameMonth(t, c) /\ (t.mon \in {3, 10} =>
                             t.mday > Sunday(t) \/ (t.mday = Sunday(t) /\ t.hour >= 2))
  /\ l = "Day" =>
       /\ SameMonth(t, c) /\ t.mon \in {3, 10} /\ t.mday < Sunday(t)
       /\ \/ t.mday = c.mday
          \/ t.mday = c.mday + 1 /\ c.mday = t.wday
  /\ l = "Hour" =>
       t.mon \in {3, 10} /\ t.mday = Sunday(t) /\ t.hour < 2 /\ t.hour = c.hour

Known == Knows(rtc, checked, checkLevel, dst)

\* Before the first computation, which any date brings about.
NotYet == checkLevel = "Mon" /\ checked.mon = 0

\* How many of the Hours the day has begun.
Begun(h) == Cardinality({g \in Hours : g <= h})

\* At the time b all was known, and since then the chip has gone on by at most unread
\* of the Hours, so by less than a day.
KnownAt(b) ==
  /\ IsTime(b) /\ Knows(b, checked, checkLevel, dst)
  /\ \/ rtc = b
     \/ /\ SameDate(rtc, b) /\ rtc.hour > b.hour
        /\ Begun(rtc.hour) - Begun(b.hour) <= unread
     \/ /\ SameDate(rtc, NextDay(b)) /\ rtc.hour < b.hour
        /\ Cardinality(Hours) + Begun(rtc.hour) - Begun(b.hour) <= unread

Current == ~suspect => NotYet \/ \E b \in Stamps : KnownAt(b)

HourInv == Dated /\ Current

-----------------------------------------------------------------------------
(* The calendar.                                                            *)

\* What is added to the day of the month to know the weekday.
Tab == <<0, 3, 2, 5, 0, 3, 5, 1, 4, 6, 2, 4>>
Offset(y, m) ==
  LET z == IF m < 3 THEN y - 1 ELSE y
  IN z + (z \div 4) + Tab[m] + 6

LEMMA Table == /\ Tab[1] = 0 /\ Tab[2] = 3 /\ Tab[3] = 2 /\ Tab[4] = 5 /\ Tab[5] = 0 /\ Tab[6] = 3
               /\ Tab[7] = 5 /\ Tab[8] = 1 /\ Tab[9] = 4 /\ Tab[10] = 6 /\ Tab[11] = 2 /\ Tab[12] = 4
BY DEF Tab

LEMMA Weekday ==
  ASSUME NEW y \in Nat \ {0}, NEW m \in 1..12, NEW d \in Nat
  PROVE  /\ Offset(y, m) \in Nat
         /\ Dow(y, m, d) = ((Offset(y, m) + d) % 7) + 1 /\ Dow(y, m, d) \in 1..7
<1>1. Offset(y, m) \in Nat
  BY Table DEF Offset
<1>2. Dow(y, m, d) = ((Offset(y, m) + d) % 7) + 1
  BY Table DEF Dow, Offset, Tab
<1>. QED  BY <1>1, <1>2

\* Each month begins on the weekday after the last day of the one before.
LEMMA MonthEnds ==
  ASSUME NEW y \in Nat \ {0}
  PROVE  /\ \A m \in 1..11 : Offset(y, m + 1) - Offset(y, m) - MonLastDay(y, m) \in {-28, -35}
         /\ Offset(y + 1, 1) - Offset(y, 12) - MonLastDay(y, 12) \in {-28, -35}
BY Table DEF Offset, MonLastDay

LEMMA MonthLengths ==
  ASSUME NEW y \in Nat, NEW m \in 1..12
  PROVE  /\ MonLastDay(y, m) \in 28..31
         /\ m \in {3, 10, 12} => MonLastDay(y, m) = 31
BY DEF MonLastDay

LEMMA WeekGoesOn ==
  ASSUME NEW a \in Nat
  PROVE  /\ ((a + 1) % 7) + 1 = ((((a % 7) + 1) % 7)) + 1
         /\ \A b \in Nat : b - a \in {-28, -35} => ((b + 1) % 7) + 1 = (((a % 7) + 1) % 7) + 1
OBVIOUS

\* The weekday of the day after.
LEMMA DayAfter ==
  ASSUME NEW y \in Nat \ {0}, NEW m \in 1..12, NEW d \in 1..31, NEW w, w = Dow(y, m, d)
  PROVE  /\ Dow(y, m, d + 1) = (w % 7) + 1
         /\ d = MonLastDay(y, m) /\ m < 12 => Dow(y, m + 1, 1) = (w % 7) + 1
         /\ d = MonLastDay(y, m) /\ m = 12 => Dow(y + 1, 1, 1) = (w % 7) + 1
<1>0. d \in Nat /\ d + 1 \in Nat /\ 1 \in Nat
  OBVIOUS
<1>1. /\ Offset(y, m) + d \in Nat /\ Offset(y, m) \in Nat
      /\ w = ((Offset(y, m) + d) % 7) + 1
  <2>1. Offset(y, m) \in Nat /\ Dow(y, m, d) = ((Offset(y, m) + d) % 7) + 1
    BY <1>0, Weekday, Zenon
  <2>2. Offset(y, m) + d \in Nat
    BY <2>1
  <2>. QED  BY <2>1, <2>2, Zenon
<1>2. Dow(y, m, d + 1) = (w % 7) + 1
  <2>1. Dow(y, m, d + 1) = ((Offset(y, m) + (d + 1)) % 7) + 1
    BY <1>0, Weekday
  <2>2. (((Offset(y, m) + d) + 1) % 7) + 1 = (w % 7) + 1
    BY <1>1, WeekGoesOn
  <2>3. Offset(y, m) + (d + 1) = (Offset(y, m) + d) + 1
    BY <1>1
  <2>. QED  BY <2>1, <2>2, <2>3
<1>3. ASSUME d = MonLastDay(y, m), m < 12
      PROVE  Dow(y, m + 1, 1) = (w % 7) + 1
  <2>1. m \in 1..11 /\ m + 1 \in 1..12
    BY <1>3
  <2>2. /\ Offset(y, m + 1) \in Nat
        /\ Dow(y, m + 1, 1) = ((Offset(y, m + 1) + 1) % 7) + 1
    BY <2>1, Weekday
  <2>3. Offset(y, m + 1) - (Offset(y, m) + d) \in {-28, -35}
    BY <2>1, <2>2, <1>1, <1>3, MonthEnds
  <2>. QED  BY <2>2, <2>3, <1>1, WeekGoesOn
<1>4. ASSUME d = MonLastDay(y, m), m = 12
      PROVE  Dow(y + 1, 1, 1) = (w % 7) + 1
  <2>1. y + 1 \in Nat \ {0}
    OBVIOUS
  <2>2. /\ Offset(y + 1, 1) \in Nat
        /\ Dow(y + 1, 1, 1) = ((Offset(y + 1, 1) + 1) % 7) + 1
    <3>1. 1 \in 1..12
      OBVIOUS
    <3>. QED  BY <3>1, <2>1, <1>0, Weekday, Zenon
  <2>3. Offset(y + 1, 1) - (Offset(y, m) + d) \in {-28, -35}
    BY <2>2, <1>1, <1>4, MonthEnds
  <2>4. ((Offset(y + 1, 1) + 1) % 7) + 1 = ((((Offset(y, m) + d) % 7) + 1) % 7) + 1
    BY <2>2, <2>3, <1>1, WeekGoesOn, Zenon
  <2>. QED  BY <2>2, <2>4, <1>1, Zenon
<1>. QED  BY <1>2, <1>3, <1>4

\* A time with some of its fields changed.
LEMMA DayChanged ==
  ASSUME NEW Y, NEW M, NEW D, NEW E, NEW H, NEW W,
         NEW t \in [year : Y, mon : M, mday : D, hour : H, wday : W],
         NEW d \in E, NEW h \in H, NEW w \in W,
         NEW r, r = [t EXCEPT !.hour = h, !.mday = d, !.wday = w]
  PROVE  /\ r \in [year : Y, mon : M, mday : E, hour : H, wday : W]
         /\ r.year = t.year /\ r.mon = t.mon /\ r.mday = d /\ r.hour = h /\ r.wday = w
OBVIOUS

LEMMA MonthChanged ==
  ASSUME NEW Y, NEW M, NEW D, NEW E, NEW H, NEW W,
         NEW t \in [year : Y, mon : M, mday : D, hour : H, wday : W],
         NEW d \in E, NEW m \in M,
         NEW r, r = [t EXCEPT !.mday = d, !.mon = m]
  PROVE  /\ r \in [year : Y, mon : M, mday : E, hour : H, wday : W]
         /\ r.year = t.year /\ r.mon = m /\ r.mday = d /\ r.hour = t.hour /\ r.wday = t.wday
OBVIOUS

LEMMA YearChanged ==
  ASSUME NEW Y, NEW M, NEW D, NEW E, NEW H, NEW W,
         NEW t \in [year : Y, mon : M, mday : D, hour : H, wday : W],
         NEW d \in E, NEW m \in M, NEW y \in Y,
         NEW r, r = [t EXCEPT !.mday = d, !.mon = m, !.year = y]
  PROVE  /\ r \in [year : Y, mon : M, mday : E, hour : H, wday : W]
         /\ r.year = y /\ r.mon = m /\ r.mday = d /\ r.hour = t.hour /\ r.wday = t.wday
OBVIOUS

\* The next day of a time of the calendar, and that it is one.
LEMMA NextDayIs ==
  ASSUME NEW t, IsTime(t)
  PROVE  /\ IsTime(NextDay(t)) /\ NextDay(t).hour = 0 /\ NextDay(t).wday = (t.wday % 7) + 1
         /\ t.mday < MonLastDay(t.year, t.mon) =>
              /\ NextDay(t).year = t.year /\ NextDay(t).mon = t.mon
              /\ NextDay(t).mday = t.mday + 1
         /\ ~(t.mday < MonLastDay(t.year, t.mon)) =>
              /\ NextDay(t).mday = 1
              /\ t.mon < 12 => NextDay(t).mon = t.mon + 1 /\ NextDay(t).year = t.year
              /\ ~(t.mon < 12) => NextDay(t).mon = 1 /\ NextDay(t).year = t.year + 1
<1>1. /\ t \in [year : Nat \ {0}, mon : 1..12, mday : 1..31, hour : 0..23, wday : 1..7]
      /\ t.year \in Nat \ {0} /\ t.mon \in 1..12 /\ t.mday \in 1..31 /\ t.wday \in 1..7
      /\ t.mday <= MonLastDay(t.year, t.mon) /\ t.wday = Dow(t.year, t.mon, t.mday)
      /\ MonLastDay(t.year, t.mon) \in 28..31
  <2>1. /\ t \in [year : Nat \ {0}, mon : 1..12, mday : 1..31, hour : 0..23, wday : 1..7]
        /\ t.mday <= MonLastDay(t.year, t.mon) /\ t.wday = Dow(t.year, t.mon, t.mday)
    BY DEF IsTime, Stamps
  <2>2. t.year \in Nat \ {0} /\ t.mon \in 1..12 /\ t.mday \in 1..31 /\ t.wday \in 1..7
    BY <2>1
  <2>. QED  BY <2>1, <2>2, MonthLengths
<1>2. /\ Dow(t.year, t.mon, t.mday + 1) = (t.wday % 7) + 1
      /\ t.mday = MonLastDay(t.year, t.mon) /\ t.mon < 12 =>
           Dow(t.year, t.mon + 1, 1) = (t.wday % 7) + 1
      /\ t.mday = MonLastDay(t.year, t.mon) /\ t.mon = 12 =>
           Dow(t.year + 1, 1, 1) = (t.wday % 7) + 1
  BY <1>1, DayAfter, Zenon
<1>. DEFINE next == [t EXCEPT !.hour = 0, !.mday = @ + 1, !.wday = (@ % 7) + 1]
            d == t.mday + 1
            w == (t.wday % 7) + 1
<1>3. /\ next \in [year : Nat \ {0}, mon : 1..12, mday : 1..32, hour : 0..23, wday : 1..7]
      /\ next.year = t.year /\ next.mon = t.mon /\ next.mday = t.mday + 1 /\ next.hour = 0
      /\ next.wday = (t.wday % 7) + 1
      /\ d <= 31 => next \in Stamps
  <2>1. d \in 1..32 /\ w \in 1..7 /\ 0 \in 0..23 /\ (d <= 31 => d \in 1..31)
    BY <1>1
  <2>2. next = [t EXCEPT !.hour = 0, !.mday = d, !.wday = w]
    OBVIOUS
  <2>. HIDE DEF next, d, w
  <2>3. next \in [year : Nat \ {0}, mon : 1..12, mday : 1..32, hour : 0..23, wday : 1..7]
    BY <2>1, <2>2, <1>1, DayChanged, Zenon
  <2>4. d <= 31 => next \in Stamps
    BY <2>1, <2>2, <1>1, DayChanged, Zenon DEF Stamps
  <2>5. next.year = t.year /\ next.mon = t.mon /\ next.mday = d /\ next.hour = 0 /\ next.wday = w
    BY <2>1, <2>2, <1>1, DayChanged, Zenon
  <2>. QED  BY <2>3, <2>4, <2>5 DEF d, w
<1>4. CASE t.mday < MonLastDay(t.year, t.mon)
  <2>1. NextDay(t) = next
    <3>1. next.mday <= MonLastDay(t.year, t.mon)
      BY <1>1, <1>3, <1>4
    <3>. QED  BY <3>1 DEF NextDay
  <2>2. next.wday = Dow(next.year, next.mon, next.mday)
    BY <1>2, <1>3
  <2>3. d <= 31 /\ t.mday + 1 <= MonLastDay(t.year, t.mon)
    BY <1>1, <1>4
  <2>. HIDE DEF next
  <2>4. IsTime(next)
    BY <2>2, <2>3, <1>3 DEF IsTime
  <2>. QED  BY <2>1, <2>4, <1>3, <1>4
<1>5. CASE ~(t.mday < MonLastDay(t.year, t.mon)) /\ t.mon < 12
  <2>1. NextDay(t) = [next EXCEPT !.mday = 1, !.mon = @ + 1]
    <3>1. ~(next.mday <= MonLastDay(t.year, t.mon))
      BY <1>1, <1>3, <1>5
    <3>. QED  BY <3>1, <1>5 DEF NextDay
  <2>2. /\ NextDay(t) \in Stamps
        /\ NextDay(t).year = t.year /\ NextDay(t).mon = t.mon + 1 /\ NextDay(t).mday = 1
        /\ NextDay(t).hour = 0 /\ NextDay(t).wday = (t.wday % 7) + 1
    <3>1. 1 \in 1..31 /\ t.mon + 1 \in 1..12
      BY <1>1, <1>5
    <3>2. NextDay(t) = [next EXCEPT !.mday = 1, !.mon = t.mon + 1]
      BY <2>1, <1>3
    <3>. HIDE DEF next
    <3>3. next \in [year : Nat \ {0}, mon : 1..12, mday : 1..32, hour : 0..23, wday : 1..7]
      BY <1>3
    <3>4. NextDay(t) \in [year : Nat \ {0}, mon : 1..12, mday : 1..31, hour : 0..23, wday : 1..7]
      BY ONLY <3>1, <3>2, <3>3, MonthChanged, Zenon
    <3>. QED  BY <3>1, <3>2, <3>4, <1>3, MonthChanged DEF Stamps
  <2>3. t.mon + 1 \in 1..12 /\ t.mday = MonLastDay(t.year, t.mon)
    BY <1>1, <1>5
  <2>4. Dow(t.year, t.mon + 1, 1) = (t.wday % 7) + 1
    BY <2>3, <1>2, <1>5
  <2>5. MonLastDay(t.year, t.mon + 1) >= 1
    <3>1. MonLastDay(t.year, t.mon + 1) \in 28..31
      BY <2>3, <1>1, MonthLengths
    <3>. QED  BY <3>1
  <2>. QED  BY <2>2, <2>4, <2>5, <1>5 DEF IsTime
<1>6. CASE ~(t.mday < MonLastDay(t.year, t.mon)) /\ ~(t.mon < 12)
  <2>1. NextDay(t) = [next EXCEPT !.mday = 1, !.mon = 1, !.year = @ + 1]
    <3>1. ~(next.mday <= MonLastDay(t.year, t.mon))
      BY <1>1, <1>3, <1>6
    <3>. QED  BY <3>1, <1>6 DEF NextDay
  <2>2. /\ NextDay(t) \in Stamps
        /\ NextDay(t).year = t.year + 1 /\ NextDay(t).mon = 1 /\ NextDay(t).mday = 1
        /\ NextDay(t).hour = 0 /\ NextDay(t).wday = (t.wday % 7) + 1
    <3>1. 1 \in 1..31 /\ 1 \in 1..12 /\ t.year + 1 \in Nat \ {0}
      BY <1>1, <1>6
    <3>2. NextDay(t) = [next EXCEPT !.mday = 1, !.mon = 1, !.year = t.year + 1]
      BY <2>1, <1>3
    <3>. HIDE DEF next
    <3>3. next \in [year : Nat \ {0}, mon : 1..12, mday : 1..32, hour : 0..23, wday : 1..7]
      BY <1>3
    <3>4. NextDay(t) \in [year : Nat \ {0}, mon : 1..12, mday : 1..31, hour : 0..23, wday : 1..7]
      BY ONLY <3>1, <3>2, <3>3, YearChanged, Zenon
    <3>. QED  BY <3>1, <3>2, <3>4, <1>3, YearChanged DEF Stamps
  <2>3. t.mon = 12 /\ t.year + 1 \in Nat /\ t.mday = MonLastDay(t.year, t.mon)
    BY <1>1, <1>6
  <2>4. Dow(t.year + 1, 1, 1) = (t.wday % 7) + 1
    BY <2>3, <1>2
  <2>5. MonLastDay(t.year + 1, 1) >= 1
    <3>1. MonLastDay(t.year + 1, 1) \in 28..31
      BY <2>3, MonthLengths
    <3>. QED  BY <3>1
  <2>. QED  BY <2>2, <2>4, <2>5, <1>6 DEF IsTime
<1>. QED  BY <1>4, <1>5, <1>6

-----------------------------------------------------------------------------
(* Summer time.                                                             *)

LEMMA Fields ==
  ASSUME NEW t, IsTime(t)
  PROVE  /\ t \in Stamps /\ t.year \in Nat \ {0} /\ t.mon \in 1..12 /\ t.mday \in 1..31
         /\ t.hour \in 0..23 /\ t.wday \in 1..7
         /\ t.mday <= MonLastDay(t.year, t.mon) /\ t.wday = Dow(t.year, t.mon, t.mday)
<1>1. /\ t \in Stamps
      /\ t.mday <= MonLastDay(t.year, t.mon) /\ t.wday = Dow(t.year, t.mon, t.mday)
  BY DEF IsTime
<1>. QED  BY <1>1 DEF Stamps

\* s is the last Sunday of a month of 31 days, where day d has the weekday w.
LastSundayIs(s, d, w) ==
  /\ s \in 25..31
  /\ d < s => d - (w % 7) < 25
  /\ d > s => d - (w % 7) >= 25 /\ w # 7
  /\ d = s => d - (w % 7) >= 25 /\ w = 7

LEMMA SundayArithmetic ==
  ASSUME NEW a \in Nat, NEW d \in 1..31, NEW w, w = ((a + d) % 7) + 1,
         NEW s, s = 31 - ((((a + 31) % 7) + 1) % 7)
  PROVE  LastSundayIs(s, d, w)
BY DEF LastSundayIs

\* The last Sunday of a month of 31 days, found from the 31st, and the last Sunday
\* up to a day of it, found from that day's weekday.
LEMMA LastSunday ==
  ASSUME NEW y \in Nat \ {0}, NEW m \in 1..12, NEW d \in 1..31, NEW w, w = Dow(y, m, d),
         NEW s, s = LastSunOfMonth31(y, m)
  PROVE  LastSundayIs(s, d, w)
<1>1. d \in Nat /\ 31 \in Nat
  OBVIOUS
<1>2. /\ Offset(y, m) \in Nat /\ w = ((Offset(y, m) + d) % 7) + 1
      /\ Dow(y, m, 31) = ((Offset(y, m) + 31) % 7) + 1
  BY <1>1, Weekday, Zenon
<1>3. s = 31 - ((((Offset(y, m) + 31) % 7) + 1) % 7)
  BY <1>2 DEF LastSunOfMonth31
<1>. QED  BY <1>2, <1>3, SundayArithmetic, Zenon

\* What CheckDst says of a date.
LEMMA CheckDstIs ==
  ASSUME NEW t, IsTime(t), NEW s, s = LastSunOfMonth31(t.year, t.mon)
  PROVE  /\ t.mon \notin {3, 10} => /\ CheckDst(t).level = "Mon"
                                    /\ CheckDst(t).dst <=> t.mon \in 4..9
         /\ t.mon \in {3, 10} =>
              /\ s \in 25..31
              /\ t.mday < s => CheckDst(t).level = "Day" /\ (CheckDst(t).dst <=> t.mon = 10)
              /\ t.mday > s => CheckDst(t).level = "Mon" /\ (CheckDst(t).dst <=> t.mon = 3)
              /\ t.mday = s /\ t.hour >= 2 =>
                   CheckDst(t).level = "Mon" /\ (CheckDst(t).dst <=> t.mon = 3) /\ t.wday = 7
              /\ t.mday = s /\ t.hour < 2 =>
                   CheckDst(t).level = "Hour" /\ (CheckDst(t).dst <=> t.mon = 10)
         /\ CheckDst(t).dst \in BOOLEAN /\ CheckDst(t).level \in {"Hour", "Day", "Mon"}
<1>1. /\ t.year \in Nat \ {0} /\ t.mon \in 1..12 /\ t.mday \in 1..31 /\ t.hour \in 0..23
      /\ t.wday = Dow(t.year, t.mon, t.mday)
  BY Fields
<1>2. s \in 25..31 /\ (t.mday = s => t.wday = 7)
  <2>1. LastSundayIs(s, t.mday, t.wday)
    BY <1>1, LastSunday, Zenon
  <2>. QED  BY <2>1 DEF LastSundayIs
<1>3. CASE t.mon \notin {3, 10}
  <2>1. CheckDst(t) = [dst |-> t.mon \in 4..9, level |-> "Mon"]
    BY <1>3 DEF CheckDst
  <2>2. CheckDst(t).level = "Mon" /\ CheckDst(t).dst = (t.mon \in 4..9)
    BY <2>1
  <2>3. (t.mon \in 4..9) \in BOOLEAN
    OBVIOUS
  <2>. QED  BY <2>2, <2>3, <1>3
<1>4. CASE t.mon \in {3, 10} /\ t.mday < s
  <2>1. CheckDst(t) = [dst |-> t.mon = 10, level |-> "Day"]
    BY <1>4 DEF CheckDst, AroundChange
  <2>2. CheckDst(t).level = "Day" /\ CheckDst(t).dst = (t.mon = 10)
    BY <2>1
  <2>3. (t.mon = 10) \in BOOLEAN
    OBVIOUS
  <2>4. t.mday < s /\ ~(t.mday > s) /\ ~(t.mday = s)
    BY <1>1, <1>2, <1>4
  <2>. QED  BY <2>2, <2>3, <2>4, <1>2, <1>4, Zenon
<1>5. CASE t.mon \in {3, 10} /\ ~(t.mday < s) /\ (t.mday > s \/ t.hour >= 2)
  <2>1. CheckDst(t) = [dst |-> t.mon = 3, level |-> "Mon"]
    BY <1>5 DEF CheckDst, AroundChange
  <2>2. CheckDst(t).level = "Mon" /\ CheckDst(t).dst = (t.mon = 3)
    BY <2>1
  <2>3. (t.mon = 3) \in BOOLEAN
    OBVIOUS
  <2>4. /\ t.mday > s \/ (t.mday = s /\ t.hour >= 2 /\ t.wday = 7)
        /\ ~(t.mday < s) /\ ~(t.mday = s /\ t.hour < 2)
    BY <1>1, <1>2, <1>5
  <2>. QED  BY <2>2, <2>3, <2>4, <1>2, <1>5, Zenon
<1>6. CASE t.mon \in {3, 10} /\ ~(t.mday < s) /\ ~(t.mday > s \/ t.hour >= 2)
  <2>1. CheckDst(t) = [dst |-> t.mon = 10, level |-> "Hour"]
    BY <1>6 DEF CheckDst, AroundChange
  <2>2. CheckDst(t).level = "Hour" /\ CheckDst(t).dst = (t.mon = 10)
    BY <2>1
  <2>3. (t.mon = 10) \in BOOLEAN
    OBVIOUS
  <2>4. /\ t.mday = s /\ t.hour < 2
        /\ ~(t.mday < s) /\ ~(t.mday > s) /\ ~(t.hour >= 2)
    BY <1>1, <1>2, <1>6
  <2>. QED  BY <2>2, <2>3, <2>4, <1>2, <1>6, Zenon
<1>. QED  BY <1>3, <1>4, <1>5, <1>6

\* Summer time by its definition, from the last Sunday.
LEMMA SummerIs ==
  ASSUME NEW t, IsTime(t), NEW s, s = LastSunOfMonth31(t.year, t.mon)
  PROVE  /\ t.mon \notin {3, 10} => (Summer(t) <=> t.mon \in 4..9)
         /\ t.mon \in {3, 10} /\ (t.mday < s \/ (t.mday = s /\ t.hour < 2)) =>
              (Summer(t) <=> t.mon = 10)
         /\ t.mon \in {3, 10} /\ (t.mday > s \/ (t.mday = s /\ t.hour >= 2)) =>
              (Summer(t) <=> t.mon = 3)
         /\ Summer(t) \in BOOLEAN
<1>1. /\ t.year \in Nat \ {0} /\ t.mon \in 1..12 /\ t.mday \in 1..31 /\ t.hour \in 0..23
      /\ t.wday \in 1..7 /\ t.wday = Dow(t.year, t.mon, t.mday)
  BY Fields
<1>2. /\ t.mday < s => t.mday - (t.wday % 7) < 25
      /\ t.mday > s => t.mday - (t.wday % 7) >= 25 /\ t.wday # 7
      /\ t.mday = s => t.mday - (t.wday % 7) >= 25 /\ t.wday = 7
      /\ s \in 25..31
  <2>1. LastSundayIs(s, t.mday, t.wday)
    BY <1>1, LastSunday, Zenon
  <2>. QED  BY <2>1 DEF LastSundayIs
<1>. DEFINE changed == t.mday - (t.wday % 7) >= 25 /\ (t.wday # 7 \/ t.hour >= 2)
<1>3. Summer(t) <=> \/ t.mon \in 4..9
                    \/ t.mon = 3 /\ changed
                    \/ t.mon = 10 /\ ~changed
  BY DEF Summer
<1>4. /\ t.mday < s \/ (t.mday = s /\ t.hour < 2) => ~changed
      /\ t.mday > s \/ (t.mday = s /\ t.hour >= 2) => changed
  BY <1>1, <1>2
<1>5. /\ t.mon \in {3, 10} => ~(t.mon \in 4..9) /\ (t.mon = 3 \/ t.mon = 10) /\ ~(t.mon = 3 /\ t.mon = 10)
      /\ t.mon \notin {3, 10} => t.mon # 3 /\ t.mon # 10
  OBVIOUS
<1>6. Summer(t) \in BOOLEAN
  BY DEF Summer
<1>. HIDE DEF changed
<1>. QED  BY <1>3, <1>4, <1>5, <1>6, Zenon

\* CheckDst computes summer time as it is defined.
LEMMA CheckDstRight ==
  ASSUME NEW t, IsTime(t)
  PROVE  CheckDst(t).dst = Summer(t)
<1>. DEFINE s == LastSunOfMonth31(t.year, t.mon)
<1>1. /\ t.mon \in 1..12 /\ t.mday \in 1..31 /\ t.hour \in 0..23
      /\ CheckDst(t).dst \in BOOLEAN /\ Summer(t) \in BOOLEAN
  BY Fields, CheckDstIs, SummerIs
<1>. HIDE DEF s
<1>2. CASE t.mon \notin {3, 10}
  BY <1>1, <1>2, CheckDstIs, SummerIs
<1>3. CASE t.mon \in {3, 10}
  <2>1. s \in 25..31
    BY <1>3, CheckDstIs DEF s
  <2>2. (t.mday < s) \/ (t.mday = s /\ t.hour < 2) \/ (t.mday = s /\ t.hour >= 2) \/ (t.mday > s)
    BY <2>1, <1>1
  <2>. QED  BY <2>2, <1>1, <1>3, CheckDstIs, SummerIs DEF s
<1>. QED  BY <1>2, <1>3

-----------------------------------------------------------------------------
(* Times read, set and shown.                                               *)

LEMMA HourChanged ==
  ASSUME NEW Y, NEW M, NEW D, NEW H, NEW W,
         NEW t \in [year : Y, mon : M, mday : D, hour : H, wday : W],
         NEW h \in H, NEW r, r = [t EXCEPT !.hour = h]
  PROVE  /\ r \in [year : Y, mon : M, mday : D, hour : H, wday : W]
         /\ r.year = t.year /\ r.mon = t.mon /\ r.mday = t.mday /\ r.hour = h /\ r.wday = t.wday
OBVIOUS

LEMMA OfYears ==
  ASSUME NEW Y, NEW Z, NEW M, NEW D, NEW H, NEW W,
         NEW t \in [year : Y, mon : M, mday : D, hour : H, wday : W], t.year \in Z
  PROVE  t \in [year : Z, mon : M, mday : D, hour : H, wday : W]
OBVIOUS

LEMMA AtHour ==
  ASSUME NEW t, IsTime(t), NEW h \in 0..23, NEW r, r = [t EXCEPT !.hour = h]
  PROVE  IsTime(r) /\ SameDate(r, t) /\ r.hour = h
<1>1. t \in Stamps
  BY Fields
<1>2. r \in Stamps /\ SameDate(r, t) /\ r.hour = h
  BY <1>1, HourChanged DEF Stamps, SameDate
<1>. QED  BY <1>2, Zenon DEF IsTime, SameDate

LEMMA TimeOfYears ==
  ASSUME NEW t, IsTime(t), t.year \in Years
  PROVE  t \in Times /\ t.wday = Dow(t.year, t.mon, t.mday)
<1>1. t \in Stamps
  BY Fields
<1>2. t \in Times
  BY <1>1, OfYears, Zenon DEF Stamps, Times
<1>. QED  BY <1>2, Fields

LEMMA EntryIsTime ==
  ASSUME NEW t \in Entries
  PROVE  IsTime(t) /\ t.year \in Years /\ t # Unset
<1>1. PICK y \in Years, day \in Days, h \in Hours : t = At(y, day, h)
  BY DEF Entries
<1>2. /\ y \in Nat \ {0} /\ h \in 0..23
      /\ day.mon \in 1..12 /\ day.mday \in 1..31
  BY ClockAssumption
<1>3. day.mday \in Nat
  BY <1>2
<1>4. Dow(y, day.mon, day.mday) \in 1..7
  BY <1>2, <1>3, Weekday
<1>5. /\ t.year = y /\ t.mon = day.mon /\ t.mday = day.mday
      /\ t.wday = Dow(y, day.mon, day.mday)
  BY <1>1 DEF At
<1>6. t \in Stamps
  BY <1>1, <1>2, <1>4, Zenon DEF At, Stamps
<1>7. t.mday <= MonLastDay(t.year, t.mon)
  BY DEF Entries
<1>8. t # Unset
  BY <1>2, <1>5 DEF Unset
<1>. QED  BY <1>5, <1>6, <1>7, <1>8 DEF IsTime

\* Local time: an hour later in summer, on the next day for the last hour.
LEMMA LocalIs ==
  ASSUME NEW t, IsTime(t), NEW summer \in BOOLEAN
  PROVE  /\ IsTime(Local(t, summer))
         /\ ~summer => Local(t, summer) = t
         /\ summer /\ t.hour < 23 =>
              SameDate(Local(t, summer), t) /\ Local(t, summer).hour = t.hour + 1
<1>1. t.hour \in 0..23
  BY Fields
<1>2. CASE ~summer
  BY <1>2 DEF Local
<1>3. CASE summer /\ t.hour < 23
  <2>1. Local(t, summer) = [t EXCEPT !.hour = t.hour + 1]
    BY <1>3 DEF Local, FixSummerTime
  <2>2. t.hour + 1 \in 0..23
    BY <1>1, <1>3
  <2>. QED  BY <2>1, <2>2, <1>3, AtHour
<1>4. CASE summer /\ ~(t.hour < 23)
  <2>1. Local(t, summer) = NextDay(t)
    BY <1>4 DEF Local, FixSummerTime
  <2>. QED  BY <2>1, <1>4, NextDayIs
<1>. QED  BY <1>2, <1>3, <1>4

\* What Set writes: an hour earlier in summer.
LEMMA StandardIs ==
  ASSUME NEW t, IsTime(t), CheckDst(t).dst => t.hour > 0
  PROVE  /\ IsTime(Standard(t)) /\ SameDate(Standard(t), t)
         /\ CheckDst(t).dst => Standard(t).hour = t.hour - 1
         /\ ~CheckDst(t).dst => Standard(t).hour = t.hour
<1>1. t.hour \in 0..23
  BY Fields
<1>2. CASE ~CheckDst(t).dst
  BY <1>2 DEF Standard, SameDate
<1>3. CASE CheckDst(t).dst
  <2>1. Standard(t) = [t EXCEPT !.hour = t.hour - 1]
    BY <1>3 DEF Standard
  <2>2. t.hour - 1 \in 0..23
    BY <1>1, <1>3
  <2>. QED  BY <2>1, <2>2, <1>3, AtHour
<1>. QED  BY <1>2, <1>3

\* Before the day of the change the hour does not matter.
LEMMA DayLevel ==
  ASSUME NEW t, IsTime(t), NEW r, IsTime(r), SameDate(r, t), CheckDst(t).level = "Day"
  PROVE  CheckDst(r).dst = CheckDst(t).dst /\ CheckDst(r).level = "Day"
<1>. DEFINE s == LastSunOfMonth31(t.year, t.mon)
<1>1. s = LastSunOfMonth31(r.year, r.mon) /\ r.mon = t.mon /\ r.mday = t.mday
  BY DEF SameDate
<1>2. /\ t.mon \in 1..12 /\ t.mday \in 1..31 /\ t.hour \in 0..23
      /\ CheckDst(t).dst \in BOOLEAN /\ CheckDst(r).dst \in BOOLEAN
  BY Fields, CheckDstIs
<1>. HIDE DEF s
<1>3. t.mon \in {3, 10} /\ s \in 25..31
  BY CheckDstIs DEF s
<1>4. t.mday < s
  <2>1. (t.mday < s) \/ (t.mday = s /\ t.hour < 2) \/ (t.mday = s /\ t.hour >= 2) \/ (t.mday > s)
    BY <1>2, <1>3
  <2>. QED  BY <2>1, <1>3, CheckDstIs DEF s
<1>. QED  BY <1>1, <1>2, <1>3, <1>4, CheckDstIs DEF s

-----------------------------------------------------------------------------
(* Types, and what is known behind a Set.                                   *)

ChipOK == IsTime(rtc) /\ rtc.year \in Years
ShownOK == shown = Unset \/ (shown.hour \in 0..23 /\ shown.mday \in 1..MonLastDay(shown.year, shown.mon))
LevelOK == dst \in BOOLEAN /\ checkLevel \in {"Hour", "Day", "Mon"}
CountsOK == suspect \in BOOLEAN /\ unread \in 0..MaxUnread

LEMMA DatedIs == Dated <=> ChipOK /\ ShownOK /\ LevelOK /\ CountsOK /\ JustSet
<1>1. ASSUME Dated PROVE ChipOK /\ ShownOK /\ LevelOK /\ CountsOK /\ JustSet
  <2>1. rtc \in Times
    BY <1>1 DEF Dated, TypeOK
  <2>2. rtc.year \in Years
    BY <2>1 DEF Times
  <2>. QED  BY <1>1, <2>2, Zenon DEF Dated, TypeOK, ChipOK, ShownOK, LevelOK, CountsOK
<1>2. ASSUME ChipOK, ShownOK, LevelOK, CountsOK, JustSet PROVE Dated
  <2>1. rtc \in Times /\ rtc.wday = Dow(rtc.year, rtc.mon, rtc.mday)
    BY <1>2, TimeOfYears DEF ChipOK
  <2>. QED  BY <1>2, <2>1, Zenon DEF Dated, TypeOK, ChipOK, ShownOK, LevelOK, CountsOK
<1>. QED  BY <1>1, <1>2

LEMMA WeekdayChanged ==
  ASSUME NEW t, IsTime(t), NEW r, r = [t EXCEPT !.wday = 1]
  PROVE  /\ r.year = t.year /\ r.mon = t.mon /\ r.mday = t.mday /\ r.hour = t.hour
<1>1. t \in Stamps
  BY Fields
<1>. QED  BY <1>1 DEF Stamps

\* What is shown is the local time; an exceptional day changes the weekday only.
LEMMA ShownIs ==
  ASSUME ChipOK, LevelOK, CheckDateTime, NEW t, t = Local(rtc, dst')
  PROVE  /\ IsTime(t) /\ ShownOK'
         /\ shown'.year = t.year /\ shown'.mon = t.mon /\ shown'.mday = t.mday
         /\ shown'.hour = t.hour
<1>1. dst' \in BOOLEAN
  BY CheckDstIs DEF ChipOK, LevelOK, CheckDateTime
<1>2. IsTime(t)
  BY <1>1, LocalIs DEF ChipOK
<1>3. shown' = t \/ shown' = [t EXCEPT !.wday = 1]
  BY DEF CheckDateTime, UpdateDow
<1>4. /\ shown'.year = t.year /\ shown'.mon = t.mon /\ shown'.mday = t.mday
      /\ shown'.hour = t.hour
  <2>1. CASE shown' = t
    BY <2>1
  <2>2. CASE shown' = [t EXCEPT !.wday = 1]
    BY <2>2, <1>2, WeekdayChanged, Zenon
  <2>. QED  BY <1>3, <2>1, <2>2
<1>5. /\ t.hour \in 0..23 /\ t.mday \in 1..31 /\ t.mday <= MonLastDay(t.year, t.mon)
      /\ MonLastDay(t.year, t.mon) \in 28..31
  <2>1. /\ t.hour \in 0..23 /\ t.mday \in 1..31 /\ t.mday <= MonLastDay(t.year, t.mon)
        /\ t.year \in Nat /\ t.mon \in 1..12
    BY <1>2, Fields
  <2>. QED  BY <2>1, MonthLengths
<1>6. t.mday \in 1..MonLastDay(t.year, t.mon)
  BY <1>5
<1>. QED  BY <1>2, <1>4, <1>5, <1>6 DEF ShownOK

LEMMA HoursBegun ==
  /\ Cardinality(Hours) \in Nat
  /\ \A h \in 0..23 : Begun(h) \in Nat
  /\ \A g, h \in 0..23 : g <= h => Begun(g) <= Begun(h)
  /\ Begun(0) = 1 /\ Begun(23) = Cardinality(Hours)
<1>. DEFINE To(h) == {g \in Hours : g <= h}
<1>1. Hours \in SUBSET (0..23) /\ 0 \in Hours /\ \A k \in Hours : k \in 0..23
  BY ClockAssumption
<1>2. IsFiniteSet(Hours)
  <2>1. 0 \in Int /\ 23 \in Int
    OBVIOUS
  <2>2. IsFiniteSet(0..23)
    BY <2>1, FS_Interval, Zenon
  <2>. QED  BY <2>2, <1>1, FS_Subset, Zenon
<1>3. \A h \in 0..23 : IsFiniteSet(To(h))
  <2>1. \A h \in 0..23 : To(h) \in SUBSET Hours
    OBVIOUS
  <2>. QED  BY <2>1, <1>2, FS_Subset
<1>4. Cardinality(Hours) \in Nat /\ \A h \in 0..23 : Begun(h) \in Nat
  <2>1. \A h \in 0..23 : Cardinality(To(h)) \in Nat
    BY <1>3, FS_CardinalityType
  <2>. QED  BY <2>1, <1>2, FS_CardinalityType DEF Begun
<1>5. ASSUME NEW g \in 0..23, NEW h \in 0..23, g <= h
      PROVE  Begun(g) <= Begun(h)
  <2>1. \A k \in Hours : k <= g => k <= h
    BY <1>1, <1>5
  <2>3. To(g) \in SUBSET To(h)
    BY <2>1, Zenon
  <2>2. Cardinality(To(g)) <= Cardinality(To(h))
    BY <2>3, <1>3, FS_Subset
  <2>. QED  BY <2>2 DEF Begun
<1>6. Begun(0) = 1
  <2>1. ASSUME NEW k \in Hours PROVE k <= 0 <=> k = 0
    <3>1. k \in 0..23
      BY <1>1
    <3>. QED  BY <3>1
  <2>3. To(0) = {0}
    BY <2>1, <1>1, Zenon
  <2>2. Cardinality({0}) = 1
    BY FS_Singleton
  <2>. QED  BY <2>3, <2>2 DEF Begun
<1>7. Begun(23) = Cardinality(Hours)
  <2>1. ASSUME NEW k \in Hours PROVE k <= 23
    <3>1. k \in 0..23
      BY <1>1
    <3>. QED  BY <3>1
  <2>2. To(23) = Hours
    BY <2>1, Zenon
  <2>. QED  BY <2>2 DEF Begun
<1>. QED  BY <1>4, <1>5, <1>6, <1>7

LEMMA NextBegun ==
  ASSUME NEW h \in 0..23, NEW n \in Hours, n > h, \A g \in {k \in Hours : k > h} : n <= g
  PROVE  Begun(n) = Begun(h) + 1
<1>. DEFINE To(k) == {g \in Hours : g <= k}
<1>1. Hours \in SUBSET (0..23) /\ \A k \in Hours : k \in 0..23
  BY ClockAssumption
<1>2. To(n) = To(h) \cup {n} /\ n \notin To(h)
  <2>1. ASSUME NEW k \in Hours PROVE k <= n <=> (k <= h \/ k = n)
    <3>1. k \in 0..23 /\ n \in 0..23 /\ (k > h => n <= k)
      BY <1>1
    <3>. QED  BY <3>1
  <2>2. ~(n <= h)
    BY <1>1
  <2>. QED  BY <2>1, <2>2, Zenon
<1>3. IsFiniteSet(To(h))
  <2>1. 0 \in Int /\ 23 \in Int
    OBVIOUS
  <2>2. IsFiniteSet(0..23)
    BY <2>1, FS_Interval, Zenon
  <2>3. To(h) \in SUBSET (0..23)
    BY <1>1, Zenon
  <2>. QED  BY <2>2, <2>3, FS_Subset, Zenon
<1>4. Cardinality(To(n)) = Cardinality(To(h)) + 1
  BY <1>2, <1>3, FS_AddElement
<1>. QED  BY <1>4 DEF Begun

\* The next of the Hours, which may be midnight.
LEMMA HourPassesIs ==
  ASSUME ChipOK, HourPasses
  PROVE  /\ IsTime(rtc')
         /\ \/ /\ SameDate(rtc', rtc) /\ rtc'.hour > rtc.hour
               /\ Begun(rtc'.hour) = Begun(rtc.hour) + 1
            \/ rtc' = NextDay(rtc) /\ rtc.hour = 23
<1>0. 23 \in Hours /\ rtc.hour \in 0..23
  BY ClockAssumption, Fields DEF ChipOK
<1>. DEFINE later == {h \in Hours : h > rtc.hour}
<1>1. \/ rtc' = NextDay(rtc) /\ rtc.hour = 23
      \/ \E h \in later : (\A g \in later : h <= g) /\ rtc' = [rtc EXCEPT !.hour = h]
  <2>1. later = {} => rtc.hour = 23
    BY <1>0
  <2>. QED  BY <2>1 DEF HourPasses
<1>2. CASE rtc' = NextDay(rtc) /\ rtc.hour = 23
  BY <1>2, NextDayIs DEF ChipOK
<1>3. CASE \E h \in later : (\A g \in later : h <= g) /\ rtc' = [rtc EXCEPT !.hour = h]
  <2>1. PICK h \in later : (\A g \in later : h <= g) /\ rtc' = [rtc EXCEPT !.hour = h]
    BY <1>3
  <2>2. h \in Hours /\ h \in 0..23 /\ h > rtc.hour
    BY ClockAssumption
  <2>3. IsTime(rtc') /\ SameDate(rtc', rtc) /\ rtc'.hour = h
    BY <2>1, <2>2, AtHour DEF ChipOK
  <2>4. Begun(h) = Begun(rtc.hour) + 1
    BY <2>1, <2>2, <1>0, NextBegun
  <2>. QED  BY <2>2, <2>3, <2>4
<1>. QED  BY <1>1, <1>2, <1>3

\* Asking again what a Set has just computed changes nothing.
LEMMA StillJustSet ==
  ASSUME ChipOK, LevelOK, JustSet, CheckDateTime, entered # Unset
  PROVE  dst' = dst /\ checkLevel' = checkLevel /\ checked' = checked
<1>1. /\ entered \in Entries /\ rtc = Standard(entered) /\ checked = rtc
      /\ dst = CheckDst(entered).dst /\ checkLevel = CheckDst(entered).level
      /\ dst => entered.hour > 0
  BY DEF JustSet
<1>2. CASE ~Check(rtc)
  BY <1>2 DEF CheckDateTime
<1>3. CASE Check(rtc)
  <2>1. checkLevel = "Day"
    <3>1. checkLevel = "Hour" => ~Check(rtc)
      BY <1>1 DEF Check
    <3>2. checkLevel = "Mon" => ~Check(rtc)
      BY <1>1 DEF Check
    <3>. QED  BY <1>3, <3>1, <3>2 DEF LevelOK
  <2>2. IsTime(entered) /\ IsTime(rtc) /\ SameDate(rtc, entered)
    BY <1>1, EntryIsTime, StandardIs
  <2>3. CheckDst(rtc).dst = CheckDst(entered).dst /\ CheckDst(rtc).level = "Day"
    BY <2>1, <2>2, <1>1, DayLevel
  <2>. QED  BY <1>1, <1>3, <2>1, <2>3 DEF CheckDateTime
<1>. QED  BY <1>2, <1>3

LEMMA InitDated == Init => Dated
<1>. SUFFICES ASSUME Init PROVE ChipOK /\ ShownOK /\ LevelOK /\ CountsOK /\ JustSet
  BY DatedIs
<1>1. rtc \in Entries
  BY DEF Init
<1>2. ChipOK
  BY <1>1, EntryIsTime DEF ChipOK
<1>3. 0 \in 0..MaxUnread
  BY ClockAssumption
<1>4. ShownOK /\ LevelOK /\ JustSet
  BY DEF Init, ShownOK, LevelOK, JustSet
<1>5. suspect \in BOOLEAN /\ unread \in 0..MaxUnread
  BY <1>3, Zenon DEF Init
<1>. QED  BY <1>2, <1>4, <1>5 DEF CountsOK

LEMMA NextDated == Dated /\ [Next]_vars => Dated'
<1>1. Dated' <=> (ChipOK /\ ShownOK /\ LevelOK /\ CountsOK /\ JustSet)'
  <2>1. (Dated <=> ChipOK /\ ShownOK /\ LevelOK /\ CountsOK /\ JustSet)'
    BY DatedIs, PTL
  <2>. QED  BY <2>1
<1>. SUFFICES ASSUME ChipOK, ShownOK, LevelOK, CountsOK, JustSet, [Next]_vars
     PROVE  ChipOK' /\ ShownOK' /\ LevelOK' /\ CountsOK' /\ JustSet'
  BY <1>1, DatedIs
<1>0. MaxUnread \in Nat /\ 0 \in 0..MaxUnread
  BY ClockAssumption
<1>2. CASE CheckDateTime
  <2>1. UNCHANGED <<rtc, entered>> /\ unread' = 0
    BY <1>2 DEF CheckDateTime
  <2>2. ChipOK'
    BY <2>1 DEF ChipOK
  <2>3. ShownOK'
    BY <1>2, ShownIs
  <2>4. LevelOK' /\ CountsOK'
    <3>1. CASE Check(rtc)
      <4>1. /\ dst' = CheckDst(rtc).dst /\ checkLevel' = CheckDst(rtc).level
            /\ suspect' = FALSE /\ unread' = 0
        BY <1>2, <3>1 DEF CheckDateTime
      <4>2. CheckDst(rtc).dst \in BOOLEAN /\ CheckDst(rtc).level \in {"Hour", "Day", "Mon"}
        BY CheckDstIs DEF ChipOK
      <4>3. LevelOK'
        BY <4>1, <4>2, Zenon DEF LevelOK
      <4>4. CountsOK'
        BY <4>1, <1>0, Zenon DEF CountsOK
      <4>. QED  BY <4>3, <4>4
    <3>2. CASE ~Check(rtc)
      <4>1. UNCHANGED <<dst, checkLevel, suspect>> /\ unread' = 0
        BY <1>2, <3>2 DEF CheckDateTime
      <4>. QED  BY <4>1, <1>0 DEF LevelOK, CountsOK
    <3>. QED  BY <3>1, <3>2
  <2>5. JustSet'
    <3>1. CASE entered = Unset
      BY <2>1, <3>1 DEF JustSet
    <3>2. CASE entered # Unset
      BY <1>2, <2>1, <3>2, StillJustSet DEF JustSet
    <3>. QED  BY <3>1, <3>2
  <2>. QED  BY <2>2, <2>3, <2>4, <2>5
<1>3. CASE GetFailed
  BY <1>3 DEF GetFailed, ChipOK, ShownOK, LevelOK, CountsOK, JustSet
<1>4. CASE HourPasses
  <2>1. /\ unread < MaxUnread /\ rtc'.year \in Years /\ unread' = unread + 1 /\ entered' = Unset
        /\ UNCHANGED <<dst, checkLevel, checked, shown, suspect>>
    BY <1>4 DEF HourPasses
  <2>2. ChipOK'
    BY <1>4, <2>1, HourPassesIs DEF ChipOK
  <2>3. CountsOK'
    BY <2>1, <1>0 DEF CountsOK
  <2>. QED  BY <2>1, <2>2, <2>3 DEF ShownOK, LevelOK, JustSet
<1>5. ASSUME NEW t \in Entries, Set(t) \/ SetRefused(t) \/ SetFailed(t)
      PROVE  ChipOK' /\ ShownOK' /\ LevelOK' /\ CountsOK' /\ JustSet'
  <2>1. IsTime(t) /\ t.year \in Years /\ t # Unset
    BY EntryIsTime
  <2>2. t.hour \in 0..23 /\ CheckDst(t).dst \in BOOLEAN /\ CheckDst(t).level \in {"Hour", "Day", "Mon"}
    BY <2>1, Fields, CheckDstIs
  <2>3. /\ shown' = shown /\ unread' = unread /\ suspect' \in BOOLEAN
        /\ checkLevel' = CheckDst(t).level /\ dst' \in BOOLEAN
    BY <1>5, <2>2 DEF Set, SetRefused, SetFailed
  <2>4. ShownOK' /\ LevelOK' /\ CountsOK'
    BY <2>2, <2>3 DEF ShownOK, LevelOK, CountsOK
  <2>5. CASE rtc' = rtc /\ entered' = Unset
    BY <2>4, <2>5 DEF ChipOK, JustSet
  <2>6. CASE rtc' = Standard(t) /\ (CheckDst(t).dst => t.hour > 0)
    <3>1. IsTime(rtc') /\ SameDate(rtc', t)
      BY <2>1, <2>6, StandardIs
    <3>2. ChipOK'
      BY <3>1, <2>1 DEF ChipOK, SameDate
    <3>3. JustSet'
      <4>1. CASE entered' = Unset
        BY <4>1 DEF JustSet
      <4>2. CASE Set(t)
        BY <4>2, <2>2 DEF Set, JustSet
      <4>. QED  BY <4>1, <4>2, <1>5 DEF SetRefused, SetFailed
    <3>. QED  BY <2>4, <3>2, <3>3
  <2>7. \/ rtc' = rtc /\ entered' = Unset
        \/ rtc' = Standard(t) /\ (CheckDst(t).dst => t.hour > 0)
    BY <1>5, <2>2 DEF Set, SetRefused, SetFailed
  <2>. QED  BY <2>5, <2>6, <2>7
<1>6. CASE UNCHANGED vars
  BY <1>6 DEF vars, ChipOK, ShownOK, LevelOK, CountsOK, JustSet
<1>7. \/ CheckDateTime \/ GetFailed \/ HourPasses \/ UNCHANGED vars
      \/ \E t \in Entries : Set(t) \/ SetRefused(t) \/ SetFailed(t)
  BY DEF Next
<1>. QED  BY <1>2, <1>3, <1>4, <1>5, <1>6, <1>7

\* The types, with a calendar that shows no day a month has not.
THEOREM ClockTypes == Spec => []TypeOK
<1>1. Dated => TypeOK
  BY DEF Dated
<1>. QED  BY <1>1, InitDated, NextDated, PTL DEF Spec

-----------------------------------------------------------------------------
(* The time that is set is the time shown next.                             *)

LEMMA SetShown ==
  ASSUME Dated, CheckDateTime, entered # Unset
  PROVE  \A field \in {"year", "mon", "mday", "hour"} : shown'[field] = entered[field]
<1>1. ChipOK /\ LevelOK /\ JustSet
  BY DatedIs
<1>2. /\ entered \in Entries /\ rtc = Standard(entered)
      /\ dst = CheckDst(entered).dst /\ (dst => entered.hour > 0)
  BY <1>1 DEF JustSet
<1>3. dst' = dst
  BY <1>1, StillJustSet
<1>4. IsTime(entered) /\ entered.hour \in 0..23 /\ dst \in BOOLEAN /\ IsTime(rtc)
  BY <1>1, <1>2, EntryIsTime, Fields DEF LevelOK, ChipOK
<1>5. /\ SameDate(rtc, entered)
      /\ dst => rtc.hour = entered.hour - 1
      /\ ~dst => rtc.hour = entered.hour
  BY <1>2, <1>4, StandardIs
<1>. DEFINE t == Local(rtc, dst)
<1>6. SameDate(t, rtc) /\ t.hour = entered.hour
  <2>1. CASE dst
    <3>1. rtc.hour = entered.hour - 1 /\ rtc.hour < 23 /\ rtc.hour + 1 = entered.hour
      BY <2>1, <1>4, <1>5
    <3>2. SameDate(t, rtc) /\ t.hour = rtc.hour + 1
      BY <2>1, <3>1, <1>4, LocalIs
    <3>. QED  BY <3>1, <3>2
  <2>2. CASE ~dst
    <3>1. t = rtc
      BY <2>2, <1>4, LocalIs
    <3>. QED  BY <3>1, <2>2, <1>5 DEF SameDate
  <2>. QED  BY <2>1, <2>2
<1>7. t = Local(rtc, dst')
  BY <1>3
<1>. HIDE DEF t
<1>8. /\ shown'.year = t.year /\ shown'.mon = t.mon /\ shown'.mday = t.mday
      /\ shown'.hour = t.hour
  BY <1>1, <1>7, ShownIs
<1>9. /\ shown'.year = entered.year /\ shown'.mon = entered.mon
      /\ shown'.mday = entered.mday /\ shown'.hour = entered.hour
  BY <1>5, <1>6, <1>8 DEF SameDate
<1>. QED  BY <1>9

\* What is entered with sdt is what the next reading shows: Set takes off the hour
\* that Get adds, and the summer time that Set computed from the local time is not
\* computed anew from the standard time unless that gives the same.
THEOREM SetIsShown == Spec => ShowsWhatWasSet
<1>1. Dated /\ [Next]_vars =>
        [CheckDateTime /\ entered # Unset =>
           \A field \in {"year", "mon", "mday", "hour"} : shown'[field] = entered[field]]_vars
  BY SetShown
<1>. QED  BY <1>1, InitDated, NextDated, PTL DEF Spec, ShowsWhatWasSet

-----------------------------------------------------------------------------
(* Summer time is right at every reading.                                   *)

LEMMA CheckAsks ==
  ASSUME LevelOK, NEW t
  PROVE  Check(t) <=> Asks(t, checked, checkLevel)
<1>1. CASE checkLevel = "Hour"
  BY <1>1 DEF Check, Asks
<1>2. CASE checkLevel = "Day"
  BY <1>2 DEF Check, Asks
<1>3. CASE checkLevel = "Mon"
  BY <1>3 DEF Check, Asks
<1>. QED  BY <1>1, <1>2, <1>3 DEF LevelOK

\* Behind a computation from the time t.
LEMMA Computed ==
  ASSUME NEW t, IsTime(t)
  PROVE  Knows(t, t, CheckDst(t).level, CheckDst(t).dst)
<1>. DEFINE s == Sunday(t)
<1>1. s = LastSunOfMonth31(t.year, t.mon)
  BY DEF Sunday
<1>2. /\ t.mon \in 1..12 /\ t.mday \in 1..31 /\ t.hour \in 0..23
      /\ CheckDst(t).dst = Summer(t)
  BY Fields, CheckDstRight
<1>. HIDE DEF s
<1>3. CASE t.mon \notin {3, 10}
  <2>1. CheckDst(t).level = "Mon"
    BY <1>1, <1>3, CheckDstIs
  <2>. QED  BY <2>1, <1>2, <1>3 DEF Knows, SameMonth
<1>4. CASE t.mon \in {3, 10}
  <2>1. s \in 25..31
    BY <1>1, <1>4, CheckDstIs
  <2>2. (t.mday < s) \/ (t.mday = s /\ t.hour < 2) \/ (t.mday = s /\ t.hour >= 2) \/ (t.mday > s)
    BY <2>1, <1>2
  <2>3. /\ t.mday < s => CheckDst(t).level = "Day"
        /\ t.mday > s => CheckDst(t).level = "Mon"
        /\ t.mday = s /\ t.hour >= 2 => CheckDst(t).level = "Mon"
        /\ t.mday = s /\ t.hour < 2 => CheckDst(t).level = "Hour"
    BY <1>1, <1>4, CheckDstIs
  <2>. QED  BY <2>2, <2>3, <1>2, <1>4 DEF Knows, SameMonth, s
<1>. QED  BY <1>3, <1>4

\* Behind a Set: the local time t says of summer time what the standard time says.
LEMMA SetKnows ==
  ASSUME NEW t, IsTime(t), CheckDst(t).dst => t.hour > 0, ~LeftOut(t)
  PROVE  Knows(Standard(t), Standard(t), CheckDst(t).level, CheckDst(t).dst)
<1>. DEFINE r == Standard(t)
            s == Sunday(t)
<1>1. s = LastSunOfMonth31(t.year, t.mon)
  BY DEF Sunday
<1>2. /\ IsTime(r) /\ SameDate(r, t)
      /\ CheckDst(t).dst => r.hour = t.hour - 1
      /\ ~CheckDst(t).dst => r.hour = t.hour
  BY StandardIs
<1>3. /\ t.mon \in 1..12 /\ t.mday \in 1..31 /\ t.hour \in 0..23 /\ CheckDst(t).dst \in BOOLEAN
      /\ r.mon = t.mon /\ r.mday = t.mday /\ r.year = t.year /\ s = LastSunOfMonth31(r.year, r.mon)
      /\ s = Sunday(r)
  BY <1>1, <1>2, Fields, CheckDstIs DEF SameDate, Sunday
<1>4. Summer(r) \in BOOLEAN
  BY <1>2, SummerIs
<1>. HIDE DEF s, r
<1>5. CASE t.mon \notin {3, 10}
  <2>1. CheckDst(t).level = "Mon" /\ (CheckDst(t).dst <=> t.mon \in 4..9)
    BY <1>1, <1>5, CheckDstIs
  <2>2. Summer(r) <=> t.mon \in 4..9
    BY <1>2, <1>3, <1>5, SummerIs
  <2>3. Knows(r, r, CheckDst(t).level, CheckDst(t).dst)
    BY <2>1, <2>2, <1>3, <1>4, <1>5 DEF Knows, SameMonth
  <2>. QED  BY <2>3 DEF r
<1>6. CASE t.mon \in {3, 10} /\ t.mday < s
  <2>1. CheckDst(t).level = "Day" /\ (CheckDst(t).dst <=> t.mon = 10)
    BY <1>1, <1>6, CheckDstIs
  <2>2. Summer(r) <=> t.mon = 10
    BY <1>2, <1>3, <1>6, SummerIs
  <2>3. Knows(r, r, CheckDst(t).level, CheckDst(t).dst)
    BY <2>1, <2>2, <1>3, <1>4, <1>6 DEF Knows, SameMonth
  <2>. QED  BY <2>3 DEF r
<1>7. CASE t.mon \in {3, 10} /\ t.mday > s
  <2>1. CheckDst(t).level = "Mon" /\ (CheckDst(t).dst <=> t.mon = 3)
    BY <1>1, <1>7, CheckDstIs
  <2>2. Summer(r) <=> t.mon = 3
    BY <1>2, <1>3, <1>7, SummerIs
  <2>3. Knows(r, r, CheckDst(t).level, CheckDst(t).dst)
    BY <2>1, <2>2, <1>3, <1>4, <1>7 DEF Knows, SameMonth
  <2>. QED  BY <2>3 DEF r
<1>8. CASE t.mon \in {3, 10} /\ t.mday = s /\ t.hour >= 2
  <2>1. CheckDst(t).level = "Mon" /\ (CheckDst(t).dst <=> t.mon = 3) /\ t.wday = 7
    BY <1>1, <1>8, CheckDstIs
  <2>2. s \in 25..31
    BY <1>1, <1>8, CheckDstIs
  <2>3. r.hour >= 2
    <3>1. t.mon = 3 => t.hour # 2
      BY <2>1, <2>2, <1>8 DEF LeftOut
    <3>2. CASE t.mon = 3
      BY <3>1, <3>2, <2>1, <1>2, <1>3, <1>8
    <3>3. CASE t.mon # 3
      BY <3>3, <2>1, <1>2, <1>8
    <3>. QED  BY <3>2, <3>3
  <2>4. Summer(r) <=> t.mon = 3
    BY <2>3, <1>2, <1>3, <1>8, SummerIs
  <2>5. Knows(r, r, CheckDst(t).level, CheckDst(t).dst)
    BY <2>1, <2>3, <2>4, <1>3, <1>4, <1>8 DEF Knows, SameMonth
  <2>. QED  BY <2>5 DEF r
<1>9. CASE t.mon \in {3, 10} /\ t.mday = s /\ t.hour < 2
  <2>1. CheckDst(t).level = "Hour" /\ (CheckDst(t).dst <=> t.mon = 10)
    BY <1>1, <1>9, CheckDstIs
  <2>2. r.hour < 2
    BY <1>2, <1>3, <1>9
  <2>3. Summer(r) <=> t.mon = 10
    BY <2>2, <1>2, <1>3, <1>9, SummerIs
  <2>4. Knows(r, r, CheckDst(t).level, CheckDst(t).dst)
    BY <2>1, <2>2, <2>3, <1>3, <1>4, <1>9 DEF Knows, SameMonth
  <2>. QED  BY <2>4 DEF r
<1>10. t.mon \in {3, 10} =>
         (t.mday < s) \/ (t.mday = s /\ t.hour < 2) \/ (t.mday = s /\ t.hour >= 2) \/ (t.mday > s)
  <2>1. t.mon \in {3, 10} => s \in 25..31
    BY <1>1, CheckDstIs
  <2>. QED  BY <2>1, <1>3
<1>. QED  BY <1>5, <1>6, <1>7, <1>8, <1>9, <1>10

\* Later on the same day the level still tells when to ask.
LEMMA LaterToday ==
  ASSUME NEW t, IsTime(t), NEW n, IsTime(n), SameDate(n, t), n.hour > t.hour,
         NEW c, NEW l \in {"Hour", "Day", "Mon"}, NEW d, Knows(t, c, l, d)
  PROVE  Asks(n, c, l) \/ Knows(n, c, l, d)
<1>. DEFINE s == Sunday(t)
<1>1. /\ n.mon = t.mon /\ n.mday = t.mday /\ n.year = t.year /\ n.wday = t.wday
      /\ s = LastSunOfMonth31(t.year, t.mon) /\ s = LastSunOfMonth31(n.year, n.mon)
      /\ s = Sunday(n)
  BY DEF SameDate, Sunday
<1>2. t.mon \in 1..12 /\ t.mday \in 1..31 /\ t.hour \in 0..23 /\ n.hour \in 0..23
  BY Fields
<1>3. d = Summer(t) /\ Summer(t) \in BOOLEAN /\ Summer(n) \in BOOLEAN
  BY <1>1, SummerIs DEF Knows
<1>4. CASE l = "Hour"
  <2>1. t.hour = c.hour
    BY <1>4 DEF Knows
  <2>2. n.hour # c.hour
    BY <2>1, <1>2
  <2>. QED  BY <2>2, <1>4 DEF Asks
<1>5. CASE l = "Day"
  <2>1. /\ SameMonth(t, c) /\ t.mon \in {3, 10} /\ t.mday < s
        /\ t.mday = c.mday \/ (t.mday = c.mday + 1 /\ c.mday = t.wday)
    BY <1>5 DEF Knows
  <2>. HIDE DEF s
  <2>2. (Summer(t) <=> t.mon = 10) /\ (Summer(n) <=> t.mon = 10)
    BY <2>1, <1>1, SummerIs
  <2>3. d = Summer(n)
    BY <2>2, <1>3
  <2>4. Knows(n, c, l, d)
    BY <2>1, <2>3, <1>1, <1>5 DEF Knows, SameMonth
  <2>. QED  BY <2>4
<1>6. CASE l = "Mon" /\ t.mon \notin {3, 10}
  <2>1. SameMonth(t, c)
    BY <1>6 DEF Knows
  <2>. HIDE DEF s
  <2>2. (Summer(t) <=> t.mon \in 4..9) /\ (Summer(n) <=> t.mon \in 4..9)
    BY <1>1, <1>6, SummerIs
  <2>3. d = Summer(n)
    BY <2>2, <1>3
  <2>4. Knows(n, c, l, d)
    BY <2>1, <2>3, <1>1, <1>6 DEF Knows, SameMonth
  <2>. QED  BY <2>4
<1>7. CASE l = "Mon" /\ t.mon \in {3, 10}
  <2>1. /\ SameMonth(t, c)
        /\ t.mday > s \/ (t.mday = s /\ t.hour >= 2)
    BY <1>7 DEF Knows
  <2>. HIDE DEF s
  <2>2. n.mday > s \/ (n.mday = s /\ n.hour >= 2)
    BY <2>1, <1>1, <1>2
  <2>3. (Summer(t) <=> t.mon = 3) /\ (Summer(n) <=> t.mon = 3)
    BY <2>1, <2>2, <1>1, <1>7, SummerIs
  <2>4. d = Summer(n)
    BY <2>3, <1>3
  <2>5. Knows(n, c, l, d)
    BY <2>1, <2>2, <2>4, <1>1, <1>7 DEF Knows, SameMonth
  <2>. QED  BY <2>5
<1>. QED  BY <1>4, <1>5, <1>6, <1>7

\* And so it does on the next day, until a whole day has passed.
LEMMA Tomorrow ==
  ASSUME NEW t, IsTime(t), NEW n, IsTime(n), SameDate(n, NextDay(t)), n.hour < t.hour,
         NEW c, NEW l \in {"Hour", "Day", "Mon"}, NEW d, Knows(t, c, l, d)
  PROVE  Asks(n, c, l) \/ Knows(n, c, l, d)
<1>. DEFINE s == Sunday(t)
<1>1. /\ t.year \in Nat \ {0} /\ t.mon \in 1..12 /\ t.mday \in 1..31 /\ t.wday \in 1..7
      /\ t.hour \in 0..23 /\ n.hour \in 0..23
      /\ t.mday <= MonLastDay(t.year, t.mon)
      /\ t.mon \in {3, 10} => MonLastDay(t.year, t.mon) = 31
  <2>1. /\ t.year \in Nat \ {0} /\ t.mon \in 1..12 /\ t.mday \in 1..31 /\ t.wday \in 1..7
        /\ t.mday <= MonLastDay(t.year, t.mon) /\ t.hour \in 0..23 /\ n.hour \in 0..23
    BY Fields
  <2>. QED  BY <2>1, MonthLengths
<1>2. /\ n.wday = (t.wday % 7) + 1
      /\ t.mday < MonLastDay(t.year, t.mon) =>
           n.year = t.year /\ n.mon = t.mon /\ n.mday = t.mday + 1
      /\ ~(t.mday < MonLastDay(t.year, t.mon)) =>
           /\ t.mon < 12 => n.mon = t.mon + 1
           /\ ~(t.mon < 12) => n.mon = 1
  BY NextDayIs DEF SameDate
<1>3. n.wday # t.wday /\ n.wday \in 1..7
  BY <1>1, <1>2
<1>4. s = LastSunOfMonth31(t.year, t.mon) /\ (t.mon \in {3, 10} => s \in 25..31)
  BY CheckDstIs DEF Sunday
<1>5. d = Summer(t) /\ Summer(t) \in BOOLEAN /\ Summer(n) \in BOOLEAN
  BY <1>2, SummerIs DEF Knows
<1>. HIDE DEF s
<1>6. CASE l = "Hour"
  <2>1. t.hour = c.hour
    BY <1>6 DEF Knows
  <2>2. n.hour # c.hour
    BY <2>1, <1>1
  <2>. QED  BY <2>2, <1>6 DEF Asks
<1>7. CASE l = "Day" /\ n.wday = c.mday
  <2>1. /\ SameMonth(t, c) /\ t.mon \in {3, 10} /\ t.mday < s
        /\ t.mday = c.mday \/ (t.mday = c.mday + 1 /\ c.mday = t.wday)
    BY <1>7 DEF Knows, s
  <2>2. t.mday = c.mday
    BY <2>1, <1>3, <1>7
  <2>3. t.mday < MonLastDay(t.year, t.mon)
    <3>1. t.mon \in {3, 10} /\ t.mday < s
      BY <2>1
    <3>. QED  BY <3>1, <1>1, <1>4
  <2>4. n.year = t.year /\ n.mon = t.mon /\ n.mday = t.mday + 1 /\ s = LastSunOfMonth31(n.year, n.mon)
        /\ s = Sunday(n)
    BY <2>3, <1>2, <1>4 DEF Sunday
  <2>5. n.mday < s /\ n.mday = c.mday + 1 /\ c.mday = n.wday
    BY <2>1, <2>2, <2>4, <1>1, <1>3, <1>4, <1>7
  <2>6. (Summer(t) <=> t.mon = 10) /\ (Summer(n) <=> t.mon = 10)
    BY <2>1, <2>4, <2>5, <1>2, <1>4, SummerIs
  <2>7. d = Summer(n)
    BY <2>6, <1>5
  <2>8. Knows(n, c, l, d)
    BY <2>1, <2>4, <2>5, <2>7, <1>7 DEF Knows, SameMonth
  <2>. QED  BY <2>8
<1>8. CASE l = "Day" /\ n.wday # c.mday
  BY <1>8 DEF Asks
<1>9. CASE l = "Mon" /\ ~(t.mday < MonLastDay(t.year, t.mon))
  <2>1. SameMonth(t, c)
    BY <1>9 DEF Knows
  <2>2. n.mon # t.mon
    <3>1. CASE t.mon < 12
      BY <3>1, <1>1, <1>2, <1>9
    <3>2. CASE ~(t.mon < 12)
      BY <3>2, <1>1, <1>2, <1>9
    <3>. QED  BY <3>1, <3>2
  <2>3. Asks(n, c, l)
    BY <2>1, <2>2, <1>9 DEF Asks, SameMonth
  <2>. QED  BY <2>3
<1>10. CASE l = "Mon" /\ t.mday < MonLastDay(t.year, t.mon)
  <2>1. /\ n.year = t.year /\ n.mon = t.mon /\ n.mday = t.mday + 1
        /\ s = LastSunOfMonth31(n.year, n.mon) /\ s = Sunday(n)
    BY <1>2, <1>4, <1>10 DEF Sunday
  <2>2. SameMonth(t, c)
    BY <1>10 DEF Knows
  <2>3. CASE t.mon \notin {3, 10}
    <3>1. (Summer(t) <=> t.mon \in 4..9) /\ (Summer(n) <=> t.mon \in 4..9)
      BY <2>1, <2>3, <1>2, <1>4, SummerIs
    <3>2. d = Summer(n)
      BY <3>1, <1>5
    <3>3. Knows(n, c, l, d)
      BY <3>2, <2>1, <2>2, <2>3, <1>10 DEF Knows, SameMonth
    <3>. QED  BY <3>3
  <2>4. CASE t.mon \in {3, 10}
    <3>1. t.mday > s \/ (t.mday = s /\ t.hour >= 2)
      BY <2>4, <1>10 DEF Knows, s
    <3>2. n.mday > s
      BY <3>1, <2>1, <2>4, <1>1, <1>4
    <3>3. (Summer(t) <=> t.mon = 3) /\ (Summer(n) <=> t.mon = 3)
      BY <3>1, <3>2, <2>1, <2>4, <1>2, <1>4, SummerIs
    <3>4. d = Summer(n)
      BY <3>3, <1>5
    <3>5. Knows(n, c, l, d)
      BY <3>2, <3>4, <2>1, <2>2, <2>4, <1>10 DEF Knows, SameMonth
    <3>. QED  BY <3>5
  <2>. QED  BY <2>3, <2>4
<1>. QED  BY <1>6, <1>7, <1>8, <1>9, <1>10

LEMMA SameTomorrow ==
  ASSUME NEW t, IsTime(t), NEW n, IsTime(n), SameDate(n, t)
  PROVE  SameDate(NextDay(n), NextDay(t))
<1>1. n.year = t.year /\ n.mon = t.mon /\ n.mday = t.mday /\ n.wday = t.wday
  BY DEF SameDate
<1>2. CASE t.mday < MonLastDay(t.year, t.mon)
  BY <1>1, <1>2, NextDayIs DEF SameDate
<1>3. CASE ~(t.mday < MonLastDay(t.year, t.mon)) /\ t.mon < 12
  BY <1>1, <1>3, NextDayIs DEF SameDate
<1>4. CASE ~(t.mday < MonLastDay(t.year, t.mon)) /\ ~(t.mon < 12)
  BY <1>1, <1>4, NextDayIs DEF SameDate
<1>. QED  BY <1>2, <1>3, <1>4

\* Within a day of what was known, either it is time to ask or all is still known.
LEMMA AskedInTime ==
  ASSUME ChipOK, LevelOK, Current, ~suspect
  PROVE  Check(rtc) \/ Known
<1>1. Check(rtc) <=> Asks(rtc, checked, checkLevel)
  BY CheckAsks
<1>2. IsTime(rtc) /\ checkLevel \in {"Hour", "Day", "Mon"}
  BY DEF ChipOK, LevelOK
<1>3. CASE NotYet
  <2>1. rtc.mon \in 1..12
    BY <1>2, Fields
  <2>2. rtc.mon # 0
    BY <2>1
  <2>. QED  BY <2>2, <1>1, <1>3 DEF NotYet, Asks
<1>4. ASSUME NEW b \in Stamps, KnownAt(b)
      PROVE  Asks(rtc, checked, checkLevel) \/ Knows(rtc, checked, checkLevel, dst)
  <2>1. IsTime(b) /\ Knows(b, checked, checkLevel, dst)
    BY <1>4 DEF KnownAt
  <2>2. CASE rtc = b
    BY <2>1, <2>2
  <2>3. CASE SameDate(rtc, b) /\ rtc.hour > b.hour
    BY <2>1, <2>3, <1>2, LaterToday
  <2>4. CASE SameDate(rtc, NextDay(b)) /\ rtc.hour < b.hour
    BY <2>1, <2>4, <1>2, Tomorrow
  <2>. QED  BY <2>2, <2>3, <2>4, <1>4 DEF KnownAt
<1>. QED  BY <1>1, <1>3, <1>4 DEF Current, Known

\* What is known at this time.
LEMMA KnownNow ==
  ASSUME ChipOK, Known
  PROVE  Current
<1>1. rtc \in Stamps /\ KnownAt(rtc)
  BY Fields DEF ChipOK, Known, KnownAt
<1>. QED  BY <1>1 DEF Current

LEMMA InitHour == Init => HourInv
<1>. SUFFICES ASSUME Init PROVE Current
  BY InitDated DEF HourInv
<1>1. NotYet
  BY DEF Init, Unset, NotYet
<1>. QED  BY <1>1 DEF Current

\* An hour that passes without a reading, of less than a day of them.
LEMMA HourKeeps ==
  ASSUME ChipOK, CountsOK, HourPasses, MaxUnread < Cardinality(Hours),
         NEW b \in Stamps, KnownAt(b)
  PROVE  KnownAt(b)'
<1>1. /\ unread \in Nat /\ unread' = unread + 1 /\ unread' < Cardinality(Hours)
      /\ UNCHANGED <<dst, checkLevel, checked, suspect>>
  <2>1. /\ unread < MaxUnread /\ unread' = unread + 1
        /\ UNCHANGED <<dst, checkLevel, checked, suspect>>
    BY DEF HourPasses
  <2>2. MaxUnread \in Nat /\ unread \in 0..MaxUnread /\ Cardinality(Hours) \in Nat
    BY ClockAssumption, HoursBegun DEF CountsOK
  <2>3. unread \in Nat /\ unread' < Cardinality(Hours)
    BY <2>1, <2>2
  <2>. QED  BY <2>1, <2>3
<1>2. /\ IsTime(b) /\ Knows(b, checked, checkLevel, dst)
      /\ Knows(b, checked', checkLevel', dst')
  BY <1>1 DEF KnownAt
<1>3. /\ b.hour \in 0..23 /\ rtc.hour \in 0..23 /\ rtc'.hour \in 0..23 /\ IsTime(rtc)
      /\ IsTime(rtc')
  BY <1>2, HourPassesIs, Fields DEF ChipOK
<1>4. /\ Begun(b.hour) \in Nat /\ Begun(rtc.hour) \in Nat /\ Begun(rtc'.hour) \in Nat
      /\ Cardinality(Hours) \in Nat /\ Begun(0) = 1 /\ Begun(23) = Cardinality(Hours)
      /\ b.hour <= rtc'.hour => Begun(b.hour) <= Begun(rtc'.hour)
  BY <1>3, HoursBegun
<1>. DEFINE Today == /\ SameDate(rtc', b) /\ rtc'.hour > b.hour
                     /\ Begun(rtc'.hour) - Begun(b.hour) <= unread'
            NextToday == /\ SameDate(rtc', NextDay(b)) /\ rtc'.hour < b.hour
                         /\ Cardinality(Hours) + Begun(rtc'.hour) - Begun(b.hour) <= unread'
<1>5. Today \/ NextToday => KnownAt(b)'
  BY <1>2 DEF KnownAt
<1>6. \/ SameDate(rtc, b) /\ rtc.hour >= b.hour /\ Begun(rtc.hour) - Begun(b.hour) <= unread
      \/ /\ SameDate(rtc, NextDay(b)) /\ rtc.hour < b.hour
         /\ Cardinality(Hours) + Begun(rtc.hour) - Begun(b.hour) <= unread
  <2>1. CASE rtc = b
    <3>1. SameDate(rtc, b)
      BY <2>1 DEF SameDate
    <3>2. rtc.hour >= b.hour /\ Begun(rtc.hour) - Begun(b.hour) <= unread
      BY <2>1, <1>1, <1>3, <1>4
    <3>. QED  BY <3>1, <3>2
  <2>2. CASE SameDate(rtc, b) /\ rtc.hour > b.hour /\ Begun(rtc.hour) - Begun(b.hour) <= unread
    <3>1. rtc.hour >= b.hour
      BY <2>2, <1>3
    <3>. QED  BY <2>2, <3>1
  <2>3. CASE /\ SameDate(rtc, NextDay(b)) /\ rtc.hour < b.hour
             /\ Cardinality(Hours) + Begun(rtc.hour) - Begun(b.hour) <= unread
    BY <2>3
  <2>. QED  BY <2>1, <2>2, <2>3 DEF KnownAt
<1>7. CASE SameDate(rtc', rtc) /\ rtc'.hour > rtc.hour /\ Begun(rtc'.hour) = Begun(rtc.hour) + 1
  <2>1. CASE SameDate(rtc, b) /\ rtc.hour >= b.hour /\ Begun(rtc.hour) - Begun(b.hour) <= unread
    <3>1. SameDate(rtc', b)
      BY <1>7, <2>1 DEF SameDate
    <3>2. rtc'.hour > b.hour /\ Begun(rtc'.hour) - Begun(b.hour) <= unread'
      BY <1>1, <1>3, <1>4, <1>7, <2>1
    <3>. QED  BY <3>1, <3>2, <1>5
  <2>2. CASE /\ SameDate(rtc, NextDay(b)) /\ rtc.hour < b.hour
             /\ Cardinality(Hours) + Begun(rtc.hour) - Begun(b.hour) <= unread
    <3>1. SameDate(rtc', NextDay(b))
      BY <1>7, <2>2 DEF SameDate
    <3>2. Cardinality(Hours) + Begun(rtc'.hour) - Begun(b.hour) <= unread'
      BY <1>1, <1>4, <1>7, <2>2
    <3>3. rtc'.hour < b.hour
      BY <3>2, <1>1, <1>3, <1>4
    <3>. QED  BY <3>1, <3>2, <3>3, <1>5
  <2>. QED  BY <2>1, <2>2, <1>6
<1>8. CASE rtc' = NextDay(rtc) /\ rtc.hour = 23
  <2>1. rtc'.hour = 0
    BY <1>3, <1>8, NextDayIs
  <2>2. CASE SameDate(rtc, b) /\ rtc.hour >= b.hour /\ Begun(rtc.hour) - Begun(b.hour) <= unread
    <3>1. SameDate(rtc', NextDay(b))
      BY <1>2, <1>3, <1>8, <2>2, SameTomorrow
    <3>2. Begun(rtc.hour) = Cardinality(Hours) /\ Begun(rtc'.hour) = 1
      BY <1>4, <1>8, <2>1
    <3>3. Cardinality(Hours) + Begun(rtc'.hour) - Begun(b.hour) <= unread'
      BY <3>2, <1>1, <1>4, <2>2
    <3>4. rtc'.hour < b.hour
      BY <3>3, <1>1, <1>3, <1>4
    <3>. QED  BY <3>1, <3>3, <3>4, <1>5
  <2>3. ~(rtc.hour < b.hour)
    BY <1>3, <1>8
  <2>. QED  BY <2>2, <2>3, <1>6
<1>. QED  BY <1>7, <1>8, HourPassesIs

LEMMA NextHour ==
  ASSUME MaxUnread < Cardinality(Hours)
  PROVE  HourInv /\ [Next]_vars => HourInv'
<1>1. HourInv /\ [Next]_vars => Dated'
  BY NextDated DEF HourInv
<1>2. Dated' => ChipOK'
  <2>1. (Dated => ChipOK)'
    BY DatedIs, PTL
  <2>. QED  BY <2>1
<1>3. Known' /\ ChipOK' => Current'
  <2>1. (Known /\ ChipOK => Current)'
    BY KnownNow, PTL
  <2>. QED  BY <2>1
<1>. SUFFICES ASSUME Dated, Current, [Next]_vars, ChipOK' PROVE Current'
  BY <1>1, <1>2 DEF HourInv
<1>4. ChipOK /\ LevelOK /\ CountsOK
  BY DatedIs
<1>5. CASE CheckDateTime
  <2>1. rtc' = rtc
    BY <1>5 DEF CheckDateTime
  <2>2. CASE Check(rtc)
    <3>1. Knows(rtc, rtc, CheckDst(rtc).level, CheckDst(rtc).dst)
      BY <1>4, Computed DEF ChipOK
    <3>2. Known'
      BY <3>1, <2>1, <2>2, <1>5 DEF CheckDateTime, Known
    <3>. QED  BY <3>2, <1>3
  <2>3. CASE ~Check(rtc)
    <3>1. UNCHANGED <<rtc, dst, checkLevel, checked, suspect>>
      BY <2>1, <2>3, <1>5 DEF CheckDateTime
    <3>2. ~suspect => Known
      BY <2>3, <1>4, AskedInTime
    <3>3. ~suspect => Known'
      BY <3>1, <3>2 DEF Known
    <3>4. suspect' => Current'
      BY DEF Current
    <3>. QED  BY <3>1, <3>3, <3>4, <1>3
  <2>. QED  BY <2>2, <2>3
<1>6. CASE GetFailed \/ UNCHANGED vars
  <2>1. UNCHANGED <<rtc, dst, checkLevel, checked, suspect, unread>>
    BY <1>6 DEF GetFailed, vars
  <2>. QED  BY <2>1 DEF Current, KnownAt, NotYet
<1>7. CASE HourPasses
  <2>1. UNCHANGED <<dst, checkLevel, checked, suspect>>
    BY <1>7 DEF HourPasses
  <2>2. NotYet => NotYet'
    BY <2>1 DEF NotYet
  <2>3. \A b \in Stamps : KnownAt(b) => KnownAt(b)'
    BY <1>4, <1>7, HourKeeps
  <2>. QED  BY <2>1, <2>2, <2>3 DEF Current
<1>8. ASSUME NEW t \in Entries, ~LeftOut(t), Set(t)
      PROVE  Current'
  <2>1. IsTime(t) /\ t.hour \in 0..23 /\ CheckDst(t).dst \in BOOLEAN
    BY EntryIsTime, Fields, CheckDstIs
  <2>2. Knows(Standard(t), Standard(t), CheckDst(t).level, CheckDst(t).dst)
    BY <2>1, <1>8, SetKnows DEF Set
  <2>3. Known'
    BY <2>2, <1>8 DEF Set, Known
  <2>. QED  BY <2>3, <1>3
<1>9. ASSUME NEW t \in Entries, SetRefused(t) \/ SetFailed(t)
      PROVE  Current'
  BY <1>9 DEF SetRefused, SetFailed, Current
<1>10. \/ CheckDateTime \/ GetFailed \/ HourPasses \/ UNCHANGED vars
       \/ \E t \in Entries : ~LeftOut(t) /\ (Set(t) \/ SetRefused(t) \/ SetFailed(t))
  BY DEF Next
<1>. QED  BY <1>5, <1>6, <1>7, <1>8, <1>9, <1>10

\* Although summer time is computed only when the level of the last computation asks
\* for it, with a weekday compared to a day of the month, it is right at every reading
\* of a clock that never goes unread for a whole day, unless a Set failed since.
THEOREM HourRight ==
  ASSUME MaxUnread < Cardinality(Hours)
  PROVE  Spec => RightHour
<1>1. HourInv /\ [Next]_vars => [CheckDateTime /\ ~suspect' => dst' = Summer(rtc)]_vars
  <2>. SUFFICES ASSUME HourInv, CheckDateTime, ~suspect' PROVE dst' = Summer(rtc)
    BY DEF vars
  <2>1. ChipOK /\ LevelOK
    BY DatedIs DEF HourInv
  <2>2. CASE Check(rtc)
    BY <2>1, <2>2, CheckDstRight DEF CheckDateTime, ChipOK
  <2>3. CASE ~Check(rtc)
    <3>1. dst' = dst /\ suspect' = suspect
      BY <2>3 DEF CheckDateTime
    <3>2. Known
      BY <3>1, <2>1, <2>3, AskedInTime DEF HourInv
    <3>. QED  BY <3>1, <3>2 DEF Known, Knows
  <2>. QED  BY <2>2, <2>3
<1>2. HourInv /\ [Next]_vars => HourInv'
  BY NextHour
<1>. QED  BY <1>1, <1>2, InitHour, PTL DEF Spec, RightHour

=============================================================================
