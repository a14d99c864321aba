------------------------------ MODULE Calendar ------------------------------
(***************************************************************************)
(* The clock of the machine as kernel/time.c reads it, and what time() and *)
(* sleep() are to answer.  A struct tm is a record with the fields that    *)
(* are used.                                                               *)
(***************************************************************************)
EXTENDS Integers, FiniteSets, Calls

\* What the clock shows when time is called: two digits of the year, and a month, a
\* day and an hour there are.  The ticks of the timer are unsigned words.
ASSUME ClockAssumption ==
    \A k \in DOMAIN Calls : \A c \in Calls[k] :
      /\ c.fn = "time" => /\ c.year \in 0..99 /\ c.mon \in 1..12 /\ c.mday \in 1..31
                          /\ c.hour \in 0..23 /\ c.bcd \in BOOLEAN
      /\ c.fn = "sleep" => c.tstart \in Nat /\ c.tdiff \in Nat /\ c.wrap \in Nat

Zone == 1           \* _ktimezone: hours the clock is ahead of UTC
Daylight == 1       \* _kdaylight_saving_time

\* A register of the clock.  In BCD mode the low digit is taken from value % 0x10;
\* a digit that is none gives -1, which is 255 in an UCHAR.
DateBCD(value, is_bcd) ==
    LET low == value % 16
        high == (value \div 16) % 16
    IN IF ~is_bcd THEN value ELSE IF low > 9 \/ high > 9 THEN 255 ELSE low + 10 * high

Leap(y) == (y % 4 = 0 /\ y % 100 # 0) \/ y % 400 = 0

\* Mutant: a leap year's February already has the leap day before it
YearDayEarly(mon, mday, year) ==
    LET shorter == IF mon > 2 THEN 2 ELSE 0
        longer == IF mon < 7 THEN mon \div 2 ELSE IF mon = 7 THEN 3 ELSE (mon - 7) \div 2 + 4
        leapday == IF Leap(year) /\ mon >= 2 THEN 1 ELSE 0
    IN (mon - 1) * 30 - shorter + longer + (mday - 1) + leapday

\* Days since the first of January, from two digits of the year
YearDay(mon, mday, year) ==
    LET shorter == IF mon > 2 THEN 2 ELSE 0
        longer == IF mon < 7 THEN mon \div 2 ELSE IF mon = 7 THEN 3 ELSE (mon - 7) \div 2 + 4
        leapday == IF Leap(year) /\ mon > 2 THEN 1 ELSE 0
    IN (mon - 1) * 30 - shorter + longer + (mday - 1) + leapday

\* regs: the registers of the clock
getrtctime(regs, is_bcd) ==
    LET reg(r) == DateBCD(regs[r], is_bcd)
    IN [sec |-> reg("sec"), min |-> reg("min"), hour |-> reg("hour"), mday |-> reg("mday"),
        mon |-> reg("mon"), year |-> reg("year"),
        yday |-> YearDay(reg("mon"), reg("mday"), reg("year")), isdst |-> Daylight]

removetimezone(t) == [t EXCEPT !.hour = @ - Zone - t.isdst]

\* The days of mktime, and the time of the day.  The code puts both into seconds; the
\* sum is kept apart here because it exceeds 31 bits after 2038.
MkDays(t) ==
    LET years == IF t.year >= 70 THEN t.year - 70 ELSE t.year + 30
        i == t.year + 1899
        last == IF i < 1969 THEN i + 100 ELSE i
    IN years * 365 + Cardinality({y \in 1970..last : Leap(y)}) + t.yday

MkSeconds(t) == (t.hour * 60 + t.min) * 60 + t.sec

mktime(t) == <<MkDays(t), MkSeconds(t)>>

time(regs, is_bcd) == mktime(removetimezone(getrtctime(regs, is_bcd)))

\* The condition on which the loop of sleep goes on, for unsigned words below wrap
SleepsOn(ticks, tstart, tdiff, wrap) == (ticks - tdiff) % wrap < tstart

-----------------------------------------------------------------------------
DaysOf(year, mon) == CASE mon = 2 -> IF Leap(year) THEN 29 ELSE 28
                       [] mon \in {4, 6, 9, 11} -> 30
                       [] OTHER -> 31

\* Days of the year y before each of its months
DaysBefore(y) ==
    LET before[m \in 1..12] == IF m = 1 THEN 0 ELSE before[m - 1] + DaysOf(y, m - 1)
    IN before

FullYear(y) == IF y >= 70 THEN 1900 + y ELSE 2000 + y
DaysSince1970(y, mon, mday) ==
    365 * (y - 1970) + Cardinality({k \in 1970..y - 1 : Leap(k)}) + DaysBefore(y)[mon] + mday - 1
ToBCD(v) == 16 * (v \div 10) + (v % 10)

\* From 1970 to 2069 time() is the number of days and seconds since 1970 of the clock,
\* two hours back, in both number formats of the clock; days before a leap day, the
\* years 2000 and 1999, and hours that become negative included.
ClockIsUtc ==
    call.fn = "time" =>
      LET enc(v) == IF call.bcd THEN ToBCD(v) ELSE v
          regs == [sec |-> enc(59), min |-> enc(58), hour |-> enc(call.hour), mday |-> enc(call.mday),
                   mon |-> enc(call.mon), year |-> enc(call.year)]
      IN time(regs, call.bcd) = <<DaysSince1970(FullYear(call.year), call.mon, call.mday),
                                  (call.hour - 2) * 3600 + 58 * 60 + 59>>

\* sleep returns after the ticks it was asked for and not before, once the machine
\* has been up for as long as it is to sleep; the counter may then wrap only later.
SleepIsLongEnough ==
    call.fn = "sleep" /\ call.tdiff <= call.tstart =>
      \A t \in call.tstart..call.wrap - 1 :
        SleepsOn(t, call.tstart, call.tdiff, call.wrap) <=> t < call.tstart + call.tdiff

\* time, mktime and sleep of kernel/time.c.
ClockRight == ClockIsUtc /\ SleepIsLongEnough
=============================================================================
