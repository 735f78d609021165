------------------------------- MODULE Clock -------------------------------
(***************************************************************************)
(* The clock: DS3231_DST keeps standard time in the chip and shows summer    *)
(* time by adding an hour, MainLoop::CheckDateTime takes the time over every *)
(* second, UpdateDow looks up exceptional days in SHUFFLE.TXT, and the       *)
(* command `sdt` sets the clock.                                             *)
(*                                                                         *)
(* Minutes and seconds are left out: the clock is looked at any number of    *)
(* times in an hour, and at the given Hours only.  Whether summer time is    *)
(* on is not computed each time but when m_checklevel says so, from the      *)
(* date of the last computation; `suspect` records that a Set failed after   *)
(* it had already changed both.                                              *)
(***************************************************************************)
EXTENDS Integers

CONSTANTS
  Hours,      \* bound: the hours of the chip's day at which the clock is looked at
  Years,      \* bound: the years (of the century) that pass
  Days,       \* bound: the days, as [mon, mday], on which sdt is entered, and that it enters
  MaxUnread,  \* bound: the Hours that may pass without a successful Get
  Shuffled    \* the days of SHUFFLE.TXT, a function from [mon, mday] to a weekday

ASSUME ClockAssumption == /\ Hours \subseteq 0..23 /\ {0, 23} \subseteq Hours
                          /\ Years \subseteq 1..99
                          /\ Days \subseteq [mon : 1..12, mday : 1..31]
                          /\ MaxUnread \in Nat

VARIABLES
  rtc,         \* the chip's registers, in standard time
  dst,         \* m_dst
  checkLevel,  \* m_checklevel
  checked,     \* m_year, m_mon, m_mday, m_hour
  shown,       \* m_rtcDateTime
  suspect,     \* history: a Set failed since summer time was last computed
  entered,     \* history: the time just set, until the clock goes on
  unread       \* history: hours since the last successful Get

vars == <<rtc, dst, checkLevel, checked, shown, suspect, entered, unread>>

\* Static memory before the first Get, and what a failed one may deliver.
Unset == [year |-> 0, mon |-> 0, mday |-> 0, hour |-> 0, wday |-> 0]

Day(t) == [mon |-> t.mon, mday |-> t.mday]

-----------------------------------------------------------------------------
(* The calendar.                                                            *)

MonLastDay(y, m) == IF m = 2 THEN (IF y % 4 = 0 THEN 29 ELSE 28)
                    ELSE 31 - (((m - 1) % 7) % 2)

\* The weekday, 1 for Monday.
Dow(y, m, d) ==
  LET t == <<0, 3, 2, 5, 0, 3, 5, 1, 4, 6, 2, 4>>
      z == IF m < 3 THEN y - 1 ELSE y
  IN ((z + (z \div 4) + t[m] + d + 6) % 7) + 1

LastSunOfMonth31(y, m) == 31 - (Dow(y, m, 31) % 7)

NextDay(t) ==
  LET next == [t EXCEPT !.hour = 0, !.mday = @ + 1, !.wday = (@ % 7) + 1]
  IN IF next.mday <= MonLastDay(t.year, t.mon) THEN next
     ELSE IF t.mon < 12 THEN [next EXCEPT !.mday = 1, !.mon = @ + 1]
     ELSE [next EXCEPT !.mday = 1, !.mon = 1, !.year = @ + 1]

\* Mutant: the day does not end.
FixSummerTimeHourOnly(t) == [t EXCEPT !.hour = @ + 1]

FixSummerTime(t) == IF t.hour < 23 THEN [t EXCEPT !.hour = @ + 1] ELSE NextDay(t)

\* Around the last Sunday of March or October.
AroundChange(t) ==
  LET sunday == LastSunOfMonth31(t.year, t.mon)
  IN IF t.mday < sunday THEN [dst |-> t.mon = 10, level |-> "Day"]
     ELSE IF t.mday > sunday \/ t.hour >= 2 THEN [dst |-> t.mon = 3, level |-> "Mon"]
     ELSE [dst |-> t.mon = 10, level |-> "Hour"]

\* Mutant: in October the change is forgotten.
CheckDstSpringOnly(t) ==
  IF t.mon = 3 THEN AroundChange(t) ELSE [dst |-> t.mon \in 4..10, level |-> "Mon"]

\* Is it summer time, and when is it worth asking again.
CheckDst(t) ==
  IF t.mon \in {3, 10} THEN AroundChange(t) ELSE [dst |-> t.mon \in 4..9, level |-> "Mon"]

-----------------------------------------------------------------------------
(* Get, and CheckDateTime around it.                                        *)

\* DS3231_DST::Get.  At level Day the weekday is compared with a day of the month.
Check(t) ==
  CASE checkLevel = "Hour" -> t.hour # checked.hour
    [] checkLevel = "Day" -> t.wday # checked.mday
    [] OTHER -> t.mon # checked.mon \/ t.year # checked.year

\* UpdateDow: the weekday is set from a comparison, which is TRUE.
UpdateDow(t) == IF Day(t) \in DOMAIN Shuffled
                  THEN [t EXCEPT !.wday = 1] ELSE t

Local(t, summer) == IF summer THEN FixSummerTime(t) ELSE t

CheckDateTime ==
  /\ IF Check(rtc)
       THEN /\ checked' = rtc
            /\ dst' = CheckDst(rtc).dst
            /\ checkLevel' = CheckDst(rtc).level
            /\ suspect' = FALSE
       ELSE UNCHANGED <<dst, checkLevel, checked, suspect>>
  /\ LET t == Local(rtc, dst')
     IN shown' = IF shown.mday # t.mday THEN UpdateDow(t) ELSE t
  /\ unread' = 0
  /\ UNCHANGED <<rtc, entered>>

\* The bus fails: ts keeps what is on the stack, and is taken over all the same.
GetFailed ==
  /\ shown' = Unset
  /\ UNCHANGED <<rtc, dst, checkLevel, checked, suspect, entered, unread>>

\* The chip goes on to the next hour.
HourPasses ==
  /\ unread < MaxUnread
  /\ LET later == {h \in Hours : h > rtc.hour}
     IN IF later # {}
          THEN \E h \in later : /\ \A g \in later : h <= g
                                /\ rtc' = [rtc EXCEPT !.hour = h]
          ELSE rtc' = NextDay(rtc)
  /\ rtc'.year \in Years
  /\ unread' = unread + 1
  /\ entered' = Unset
  /\ UNCHANGED <<dst, checkLevel, checked, shown, suspect>>

-----------------------------------------------------------------------------
(* sdt: DS3231_DST::Set.  Its result is not looked at.                      *)

At(y, day, h) == [year |-> y, mon |-> day.mon, mday |-> day.mday, hour |-> h,
                  wday |-> Dow(y, day.mon, day.mday)]

\* bound: the times entered.
Entries == {t \in {At(y, day, h) : y \in Years, day \in Days, h \in Hours} :
              t.mday <= MonLastDay(t.year, t.mon)}

\* The hour that the change in March leaves out; nobody enters it.
LeftOut(t) == t.mon = 3 /\ t.wday = 7 /\ t.mday >= 25 /\ t.hour = 2

\* What goes into the chip for the local time t.
Standard(t) == IF CheckDst(t).dst THEN [t EXCEPT !.hour = @ - 1] ELSE t

\* Mutant: the hour is not corrected.
SetUncorrected(t) ==
  /\ dst' = CheckDst(t).dst /\ checkLevel' = CheckDst(t).level
  /\ ~dst' \/ t.hour > 0
  /\ rtc' = t /\ checked' = rtc'
  /\ suspect' = FALSE /\ entered' = t
  /\ UNCHANGED <<shown, unread>>

Set(t) ==
  /\ dst' = CheckDst(t).dst /\ checkLevel' = CheckDst(t).level
  /\ ~dst' \/ t.hour > 0
  /\ rtc' = Standard(t) /\ checked' = rtc'
  /\ suspect' = FALSE /\ entered' = t
  /\ UNCHANGED <<shown, unread>>

\* Midnight in summer is refused, but only after m_dst is set from it.
SetRefused(t) ==
  /\ CheckDst(t).dst /\ t.hour = 0
  /\ dst' = TRUE /\ checkLevel' = CheckDst(t).level
  /\ suspect' = TRUE /\ entered' = Unset
  /\ UNCHANGED <<rtc, checked, shown, unread>>

\* The bus fails before or after the registers are written.
SetFailed(t) ==
  /\ dst' = CheckDst(t).dst /\ checkLevel' = CheckDst(t).level
  /\ ~dst' \/ t.hour > 0
  /\ rtc' \in {rtc, Standard(t)}
  /\ checked' = [checked EXCEPT !.year = 0]
  /\ suspect' = TRUE /\ entered' = Unset
  /\ UNCHANGED <<shown, unread>>

-----------------------------------------------------------------------------

\* The first Get computes summer time: no date has month 0.
Init ==
  /\ rtc \in {t \in Entries : t.hour = 0}
  /\ dst = FALSE /\ checkLevel = "Mon"
  /\ checked = Unset /\ shown = Unset /\ entered = Unset
  /\ suspect = FALSE
  /\ unread = 0

Next ==
  \/ CheckDateTime
  \/ GetFailed
  \/ HourPasses
  \/ /\ Day(rtc) \in Days /\ shown = Local(rtc, dst)  \* bound: once it is shown
     /\ \E t \in Entries :
           ~LeftOut(t) /\ (Set(t) \/ (~suspect /\ (SetRefused(t) \/ SetFailed(t))))

Spec == Init /\ [][Next]_vars

-----------------------------------------------------------------------------
(* Properties.                                                              *)

Times == [year : Years, mon : 1..12, mday : 1..31, hour : 0..23, wday : 1..7]

TypeOK ==
  /\ rtc \in Times /\ rtc.wday = Dow(rtc.year, rtc.mon, rtc.mday)
  /\ shown = Unset \/ (shown.hour \in 0..23 /\ shown.mday \in 1..MonLastDay(shown.year, shown.mon))
  /\ dst \in BOOLEAN /\ checkLevel \in {"Hour", "Day", "Mon"}
  /\ suspect \in BOOLEAN /\ unread \in 0..MaxUnread

\* Summer time by its definition: from the last Sunday of March to that of
\* October, 2 o'clock standard time; sunday is the last one up to this day.
Summer(t) ==
  LET sunday == t.mday - (t.wday % 7)
      changed == sunday >= 25 /\ (t.wday # 7 \/ t.hour >= 2)
  IN \/ t.mon \in 4..9
     \/ t.mon = 3 /\ changed
     \/ t.mon = 10 /\ ~changed

\* Although summer time is only computed when the level of the last computation
\* asks for it, it is right at every reading, unless a Set failed since.  (It is
\* not if a whole day may pass unread: at level Hour only the hours are compared.)
RightHour == [][CheckDateTime /\ ~suspect' => dst' = Summer(rtc)]_vars

\* The time that is set is the time that is shown next, in summer and in winter
\* and at the changes.
ShowsWhatWasSet ==
  [][CheckDateTime /\ entered # Unset =>
       \A field \in {"year", "mon", "mday", "hour"} : shown'[field] = entered[field]]_vars

\* Readme.md promises exceptional days: on a day of SHUFFLE.TXT the vehicles are
\* judged by the weekday given there.
ExceptionalDay == Day(shown) \in DOMAIN Shuffled => shown.wday = Shuffled[Day(shown)]
=============================================================================
