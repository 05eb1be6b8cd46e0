------------------------------- MODULE TimeUtils -------------------------------
(* time_utils.c.  A time_t is a number of seconds since 1970, local time is     *)
(* taken to be UTC.  A struct tm is a record with the fields of C without their *)
(* prefix; year counts from 1900.                                               *)
EXTENDS ErrorCodes

CONSTANTS
    YEARS_RANGE,        \* the values of the uint8_t that counts years: 256
    TIME_RSIZE_MAX,     \* RSIZE_MAX
    SEC_MAX             \* the largest second in a minute: 60 with C99, 61 before

ASSUME TimeAssumption == YEARS_RANGE \in Nat \ {0} /\ TIME_RSIZE_MAX \in Nat /\ SEC_MAX \in {60, 61}

DAY == 86400

is_Year_A_Leap_Year(year) == year % 4 = 0 /\ (year % 100 # 0 \/ year % 400 = 0)

MonthLengths(leap) == <<31, IF leap THEN 29 ELSE 28, 31, 30, 31, 30, 31, 31, 30, 31, 30, 31>>

(* ------------------------------------------------- the C library's calendar *)

Leaps(year) == (year \div 4) - (year \div 100) + (year \div 400)
DaysBeforeYear(year) == 365 * (year - 1970) + Leaps(year - 1) - Leaps(1969)

(* The days of a year before its month, counted from 0. *)
DaysBeforeMonth(leap, month) ==
    LET sum[m \in 0 .. month] == IF m = 0 THEN 0 ELSE sum[m - 1] + MonthLengths(leap)[m] IN sum[month]

DayOf(year, month, mday) == DaysBeforeYear(year) + DaysBeforeMonth(is_Year_A_Leap_Year(year), month) + mday - 1

(* localtime and gmtime. *)
Calendar(t) ==
    LET day   == t \div DAY
        rest  == t % DAY
        year  == Max({y \in 1970 + (day \div 366) .. 1970 + (day \div 365) : DaysBeforeYear(y) <= day})
        yday  == day - DaysBeforeYear(year)
        month == Max({m \in 0 .. 11 : DaysBeforeMonth(is_Year_A_Leap_Year(year), m) <= yday})
    IN [year |-> year - 1900, mon |-> month, yday |-> yday, wday |-> (day + 4) % 7,
        mday |-> yday - DaysBeforeMonth(is_Year_A_Leap_Year(year), month) + 1,
        hour |-> rest \div 3600, min |-> (rest % 3600) \div 60, sec |-> rest % 60]

(* mktime brings every field into its range; yday and wday are not looked at.   *)
mktime(tm) ==
    LET year == 1900 + tm.year + (tm.mon \div 12)
    IN DayOf(year, tm.mon % 12, tm.mday) * DAY + tm.hour * 3600 + tm.min * 60 + tm.sec

(* ------------------------------------------------------------ the clock *)

(* The global string: "" at first, the time, or that there is none.             *)
get_current_timestamp(string, now) ==
    IF string \in {"", "CAL_TIME_NOT_AVAILABLE"}
    THEN [ok |-> now # "error", string |-> IF now = "error" THEN "CAL_TIME_NOT_AVAILABLE" ELSE now]
    ELSE [ok |-> TRUE, string |-> string]

Timespec(res, sec, nsec) == [res |-> res, sec |-> sec, nsec |-> nsec]

(* The interval since 1970 is in units of 100 nanoseconds. *)
win_filetime_to_struct_timespec(intervals) ==
    IF intervals < 0 THEN Timespec(FALSE, 0, 0)
    ELSE Timespec(TRUE, intervals \div 1000000000, intervals % 1000000000)

win_ftime64_to_struct_timespec(sec, milli) == Timespec(TRUE, sec, milli * 1000000)

(* The day since 1970 that is made of the fields of a struct tm; the centuries  *)
(* are counted in unsigned integers, before 2070 there is none.                 *)
struct_tm_to_struct_timespec(tm) ==
    LET year      == tm.year + 1900
        centuries == ((year - 1970) \div 100) - 1
        skipped   == Cardinality({c \in 0 .. centuries : year >= 2000 /\ (2100 + c * 100) % 400 # 0})
        early     == is_Year_A_Leap_Year(year) /\ (tm.mon = 0 \/ (tm.mon = 1 /\ tm.mday <= 29))
        leapyears == ((year - 1970) \div 4) - skipped - (IF early THEN 1 ELSE 0)
    IN tm.yday + leapyears + (year - 1970) * 365

(* The first source of the build, and the calendar where it fails or there is   *)
(* none.                                                                        *)
timespec_get(utc, source, tm) ==
    IF ~utc THEN Timespec(FALSE, 0, 0)
    ELSE IF source.res THEN source
    ELSE Timespec(TRUE, struct_tm_to_struct_timespec(tm) * DAY + tm.hour * 3600 + tm.min * 60 + tm.sec, 0)

get_Milliseconds_Since_Unix_Epoch(spec) == IF spec.res THEN spec.sec * 1000 + (spec.nsec \div 1000000) ELSE 0

(* The years are counted from 0 when asking for a leap year. *)
milliseconds_Since_Unix_Epoch_To_Struct_TM(seconds) ==
    LET day    == seconds \div DAY
        before == [y \in 0 .. (day \div 365) + 1 |-> 365 * y + Cardinality({z \in 0 .. y - 1 : is_Year_A_Leap_Year(z)})]
        year   == Max({y \in 0 .. day \div 365 : before[y] <= day})
        yday   == day - before[year]
        leap   == is_Year_A_Leap_Year(year)
        month  == Max({m \in 0 .. 11 : DaysBeforeMonth(leap, m) <= yday})
        rest   == seconds % DAY
    IN [year |-> year + 1970 - 1900, mon |-> month, mday |-> yday - DaysBeforeMonth(leap, month) + 1,
        yday |-> yday, wday |-> (day + 4) % 7,
        hour |-> rest \div 3600, min |-> (rest % 3600) \div 60, sec |-> rest % 60]

(* ------------------------------------------------------------- durations *)

Duration(years, days, hours, minutes, seconds) ==
    [years |-> years, days |-> days, hours |-> hours, minutes |-> minutes, seconds |-> seconds]

convert_Seconds_To_Displayable_Time(secondsToConvert) ==
    LET minutes == secondsToConvert \div 60
        hours   == minutes \div 60
        days    == hours \div 24
    IN Duration((days \div 365) % YEARS_RANGE, days % 365, hours % 24, minutes % 60, secondsToConvert % 60)

(* The parts below a second are cut off with every cast. *)
convert_Seconds_To_Displayable_Time_Double(wholeSeconds) == convert_Seconds_To_Displayable_Time(wholeSeconds)

(* The parts that are shown, and whether in the plural. *)
print_Time_To_Screen(duration) ==
    [part \in {p \in DOMAIN duration : duration[p] > 0} |-> duration[part] > 1]

(* --------------------------------------------------- times of the library *)

TimeResult(null, value) == IF null # {} THEN [errno |-> EINVAL, tm |-> "NULL"] ELSE [errno |-> 0, tm |-> value]

impl_safe_gmtime(null, t)    == TimeResult(null, Calendar(t))
impl_safe_localtime(null, t) == TimeResult(null, Calendar(t))

(* What a formatting leaves: its error, whether the text is in the buffer, and  *)
(* the locale of the process.                                                   *)
Formatted(errno, text, locale) == [errno |-> errno, text |-> text, locale |-> locale]

(* The locale is switched when it could be saved, and restored then.  An error  *)
(* of saving it is the error of the call, with the text in the buffer.          *)
standardized_strftime_for_asctime(locale, saved, fits) ==
    Formatted(IF ~fits THEN EINVAL ELSE IF saved THEN 0 ELSE ENOMEM, fits, locale)

posix_strftime_l_for_asctime(locale, created, saved, fits) ==
    IF created THEN Formatted(IF fits THEN 0 ELSE EINVAL, fits, locale)
    ELSE standardized_strftime_for_asctime(locale, saved, fits)

msft_strftime_l_for_asctime(locale, created, saved, fits) ==
    posix_strftime_l_for_asctime(locale, created, saved, fits)

InRange(tm) ==
    /\ tm.sec \in 0 .. SEC_MAX /\ tm.min \in 0 .. 59 /\ tm.hour \in 0 .. 23
    /\ tm.mday \in 1 .. 31 /\ tm.mon \in 0 .. 11 /\ tm.wday \in 0 .. 6
    /\ tm.yday \in 0 .. 365 /\ tm.year \in 0 .. 9999

impl_safe_asctime(null, bufsz, tm, locale, created, saved, fits) ==
    IF null # {} \/ bufsz < 26 \/ bufsz > TIME_RSIZE_MAX \/ ~InRange(tm) THEN Formatted(EINVAL, FALSE, locale)
    ELSE posix_strftime_l_for_asctime(locale, created, saved, fits)

impl_safe_ctime(null, bufsz, t, locale, created, saved, fits) ==
    IF "timer" \in null THEN Formatted(EINVAL, FALSE, locale)
    ELSE impl_safe_asctime(null, bufsz, Calendar(t), locale, created, saved, fits)

(* ------------------------------------------------------------ the future *)

(* Carries one unit: the new value of the field, and one more of the next unit. *)
Carry(field, add, last) ==
    IF add > 0 /\ field + add > last THEN [field |-> field + add - (last + 1), over |-> 1]
    ELSE [field |-> field + add, over |-> 0]

(* The days of February are those of a year counted from 1900. *)
DaysInMonth(tm) == MonthLengths(is_Year_A_Leap_Year(tm.year))[tm.mon + 1]

(* The day of the year and the month both carry into the year; a month that     *)
(* overflows leaves the day before its first.                                   *)
get_Future_Date_And_Time(inputTime, secondsInTheFuture) ==
    LET tm    == Calendar(inputTime)
        d     == convert_Seconds_To_Displayable_Time(secondsInTheFuture)
        sec   == Carry(tm.sec, d.seconds, 59)
        min   == Carry(tm.min, d.minutes + sec.over, 59)
        hour  == Carry(tm.hour, d.hours + min.over, 23)
        days  == d.days + hour.over
        yday  == Carry(tm.yday, days, 365)
        mday  == Carry(tm.mday, days, DaysInMonth(tm))
        mon   == Carry(tm.mon, mday.over, 11)
        years == (d.years + yday.over + mon.over) % YEARS_RANGE
    IN mktime([year |-> tm.year + years, mon |-> mon.field, mday |-> mday.field,
               hour |-> hour.field, min |-> min.field, sec |-> sec.field])
=============================================================================
