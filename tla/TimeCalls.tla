------------------------------- MODULE TimeCalls -------------------------------
(* Calls of the calendar, the clock, the durations, the sleeps and the stop     *)
(* watch, one at a time, and what they are for.                                 *)
EXTENDS TimeUtils, Timers, Calls

CONSTANTS
    Seconds,        \* times, in seconds since 1970
    Ahead,          \* how far ahead a time in the future is
    Readings,       \* what the clock reads, in seconds
    Ticks,          \* what the stop watch reads, negative when it cannot be read
    Frequencies,    \* how often it ticks in a second
    Resolutions,    \* how many parts a second has
    Sleeps          \* how the calls of nanosleep end

ASSUME TimeCallsAssumption ==
    /\ Seconds \subseteq Nat /\ Ahead \subseteq Nat /\ Readings \subseteq Nat
    /\ Ticks \subseteq Int /\ Frequencies \subseteq Nat /\ Resolutions \subseteq Nat

(* A signal ends every call of nanosleep but the last. *)
ASSUME SleepsAssumption ==
    \A calls \in Sleeps :
        /\ calls \in Seq([ends : {"done", "signal", "error"}, slept : Nat, errno : Nat]) /\ calls # <<>>
        /\ \A i \in DOMAIN calls : (calls[i].ends = "signal") = (i < Len(calls))

Telling ==
    \/ \E t \in Seconds :
          \/ \E null \in {{}, {"timer"}} :
                Called("calendar", "calendar", [t |-> t, null |-> null],
                       [gm |-> impl_safe_gmtime(null, t), local |-> impl_safe_localtime(null, t),
                        milli |-> milliseconds_Since_Unix_Epoch_To_Struct_TM(t),
                        day |-> struct_tm_to_struct_timespec(Calendar(t))])
          \/ Called("duration", "duration", [t |-> t],
                    [d |-> convert_Seconds_To_Displayable_Time(t), double |-> convert_Seconds_To_Displayable_Time_Double(t),
                     shown |-> print_Time_To_Screen(convert_Seconds_To_Displayable_Time(t))])
    \/ \E string \in {"", "CAL_TIME_NOT_AVAILABLE", "noon"}, now \in {"noon", "error"} :
          Called("stamp", "stamp", [string |-> string, now |-> now], get_current_timestamp(string, now))

(* The clock answers or not; on Windows it is read as a file time or ftime64.   *)
Waiting ==
    \/ \E t \in Seconds, add \in Ahead :
          Called("future", "future", [t |-> t, add |-> add], get_Future_Date_And_Time(t, add))
    \/ \E sec \in Readings, milli \in {0, 1, 999}, utc, res \in BOOLEAN, source \in {"clock", "ftime64"} :
          LET read == IF source = "ftime64" THEN win_ftime64_to_struct_timespec(sec, milli)
                      ELSE Timespec(res, sec, milli * 1000000)
              spec == timespec_get(utc, read, Calendar(sec))
          IN Called("since", source, [sec |-> sec, milli |-> milli, utc |-> utc, res |-> read.res],
                    [spec |-> spec, ms |-> get_Milliseconds_Since_Unix_Epoch(spec)])
    \/ \E intervals \in {0 - 1, 0, 999999999, 1000000000, 2000000001} :
          Called("filetime", "filetime", [intervals |-> intervals], win_filetime_to_struct_timespec(intervals))

AsText(f, null, bufsz, tm, t, created, saved, fits) ==
    CASE f = "asctime"  -> impl_safe_asctime(null, bufsz, tm, "user", created, saved, fits)
      [] f = "ctime"    -> impl_safe_ctime(null, bufsz, t, "user", created, saved, fits)
      [] f = "posix"    -> posix_strftime_l_for_asctime("user", created, saved, fits)
      [] f = "msft"     -> msft_strftime_l_for_asctime("user", created, saved, fits)
      [] f = "standard" -> standardized_strftime_for_asctime("user", saved, fits)

(* A date whose month is one of the next year is not a date to format. *)
Displaying ==
    \E t \in {0, (2 * DAY) + 5}, null \in {{}, {"buffer"}}, bufsz \in {25, 26, TIME_RSIZE_MAX, TIME_RSIZE_MAX + 1},
       created, saved, fits \in BOOLEAN, off \in {0, 12}, f \in {"asctime", "ctime", "posix", "msft", "standard"} :
        /\ f # "asctime" => off = 0
        /\ Called("text", f, [null |-> null, bufsz |-> bufsz, off |-> off, created |-> created, saved |-> saved, fits |-> fits],
                  AsText(f, null, bufsz, [Calendar(t) EXCEPT !.mon = @ + off], t, created, saved, fits))

Sleeping ==
    \E calls \in Sleeps, n \in 1 .. UINT32_RANGE - 1, select \in {"done", "signal"} :
        LET selected == [ends |-> select, errno |-> EINVAL, slept |-> 0]
            all == [calls |-> calls, n |-> n, select |-> select]
        IN \/ Called("sleep", "us", all, sleepus(n, calls, selected))
           \/ Called("sleep", "ms", all, sleepms(n, calls, selected))
           \/ Called("sleep", "sec", all, sleepsec(n, calls, selected))
           \/ Called("delay", "ms", all, delay_Milliseconds(n, calls, selected))
           \/ Called("delay", "sec", all, delay_Seconds(n, calls, selected))

Watching ==
    \E start, stop \in Ticks, frequency \in Frequencies, second \in Resolutions :
        LET timer == stop_Timer(start_Timer([timerStart |-> 3, timerStop |-> 4], start), stop)
            nano  == get_Nano_Seconds(timer, frequency, second)
        IN Called("watch", "timer", [start |-> start, stop |-> stop, frequency |-> frequency, second |-> second],
                  [nano |-> nano, parts |-> <<get_Micro_Seconds(nano), get_Milli_Seconds(nano), get_Seconds(nano)>>])

(* The days, the day of the year and the seconds of a date. *)
FirstOfMonth == <<0, 31, 59, 90, 120, 151, 181, 212, 243, 273, 304, 334>>
IsLeap(year) == year % 4 = 0 /\ (year % 100 # 0 \/ year % 400 = 0)
Moment(tm) ==
    LET days[y \in 1970 .. tm.year + 1900] == IF y = 1970 THEN 0 ELSE days[y - 1] + (IF IsLeap(y - 1) THEN 366 ELSE 365)
        yday == FirstOfMonth[tm.mon + 1] + (IF IsLeap(tm.year + 1900) /\ tm.mon > 1 THEN 1 ELSE 0) + tm.mday - 1
    IN [days |-> days[tm.year + 1900] + yday, yday |-> yday, seconds |-> (tm.hour * 3600) + (tm.min * 60) + tm.sec]

(* The years in which the days made of a struct tm are right: not the leap      *)
(* years nor those after one, nor, for every century that has no leap day, from *)
(* 30 years before it.                                                          *)
CountedRight(tm) == tm.year % 4 \in {2, 3} /\ (tm.year < 100 \/ tm.year % 100 < 70)

(* A calendar date is the day and the second it was made of. *)
CalendarKeeps(x, o) ==
    LET tm == o.gm.tm  m == Moment(tm)
    IN IF x.null # {} THEN o.gm.errno = EINVAL /\ o.local.errno = EINVAL
       ELSE /\ m.days = x.t \div DAY /\ m.seconds = x.t % DAY /\ m.yday = tm.yday /\ o.local = o.gm
            /\ tm.mday \in 1 .. MonthLengths(IsLeap(tm.year + 1900))[tm.mon + 1]
            /\ (o.milli.hour * 3600) + (o.milli.min * 60) + o.milli.sec = x.t % DAY /\ o.milli.wday = tm.wday
            /\ CountedRight(tm) => o.day = x.t \div DAY

(* The parts of a duration are normal, and it again; years count in 8 bits.     *)
DurationKeeps(x, o) ==
    LET d == o.d
    IN /\ (d.years * 365) + d.days = (x.t \div DAY) % (YEARS_RANGE * 365)
       /\ (d.hours * 3600) + (d.minutes * 60) + d.seconds = x.t % DAY
       /\ d.days < 365 /\ d.hours < 24 /\ d.minutes < 60 /\ d.seconds < 60 /\ o.double = d
       /\ \A part \in DOMAIN d : (part \in DOMAIN o.shown) = (d[part] # 0)

(* Later by what was asked for, as long as the month does not change.           *)
FutureKeeps(x, o) ==
    LET then == x.t + x.add
    IN /\ (o - then) % DAY = 0
       /\ Calendar(x.t).mon = Calendar(then).mon /\ x.add < 31 * DAY => o = then

(* The clock of the build where it answers, and the calendar where not.         *)
SinceKeeps(x, o) ==
    IF x.utc
    THEN x.res \/ CountedRight(Calendar(x.sec)) => o.ms = (x.sec * 1000) + (IF x.res THEN x.milli ELSE 0)
    ELSE o.ms = 0 /\ ~o.spec.res

TextKeeps(f, x, o) ==
    LET checked == f \in {"asctime", "ctime"} /\ (x.null # {} \/ x.bufsz < 26 \/ x.bufsz > TIME_RSIZE_MAX)
    IN /\ o.locale = "user"
       /\ (checked \/ ~x.fits \/ x.off > 0) => o.errno # 0
       /\ o.errno = 0 => o.text

UnitsOf(f) ==
    CASE f = "us" -> THOUSAND_OF [] f = "ms" -> THOUSAND_OF * THOUSAND_OF
      [] f = "sec" -> THOUSAND_OF * THOUSAND_OF * THOUSAND_OF

Interrupted(calls) == calls[Len(calls)].ends = "done"
Unsupported(calls) == calls[Len(calls)].ends = "error" /\ calls[Len(calls)].errno = ENOSYS

SleepKeeps(f, x, o) ==
    /\ x.n * UnitsOf(f) < UINT32_RANGE * THOUSAND_OF =>
          IF Interrupted(x.calls) THEN o = Slept(0, x.n * UnitsOf(f))
          ELSE Unsupported(x.calls) /\ x.select = "done" => o.error = 0
    /\ f = "sec" /\ x.n * THOUSAND_OF >= UINT32_RANGE => o = Slept(EOVERFLOW, 0)

WatchKeeps(x, o) ==
    x.start >= 0 /\ x.stop >= x.start /\ x.frequency > 0 =>
        LET lost == ((x.stop - x.start) * x.second) - (o.nano * x.frequency)
        IN lost \in 0 .. (x.frequency * x.frequency) - 1 /\ (x.second % x.frequency = 0 => lost = 0)

(* Calendar dates, durations and clocks give their seconds again; a time in the *)
(* future is that many seconds later as long as the month does not change, and  *)
(* always at the right time of the day; formatting a date leaves the locale of  *)
(* the process as it was, whatever fails; a sleep that signals interrupt sleeps *)
(* the whole time it was asked for, and a stop watch loses fewer nanoseconds    *)
(* than it ticks in a second, none when a tick is a whole number of them.       *)
(* Left out: the fallback of the clock in the years it counts wrong, the date   *)
(* of the milliseconds, the file time, errors of sleepus other than ENOSYS and  *)
(* sleeps whose microseconds do not fit.                                        *)
TimesAreKept ==
    /\ Is("calendar") => CalendarKeeps(call.in, call.out)
    /\ Is("duration") => DurationKeeps(call.in, call.out)
    /\ Is("stamp") => call.out.ok = (call.out.string = "noon") /\ (call.in.string = "noon" => call.out.ok)
    /\ Is("future") => FutureKeeps(call.in, call.out)
    /\ Is("since") => SinceKeeps(call.in, call.out)
    /\ Is("filetime") => (call.out.res <=> call.in.intervals >= 0)
    /\ Is("text") => TextKeeps(call.f, call.in, call.out)
    /\ Is("sleep") => SleepKeeps(call.f, call.in, call.out)
    /\ Is("watch") => WatchKeeps(call.in, call.out)

TimeFamilies == {"calendar", "duration", "stamp", "future", "since", "filetime", "text", "sleep", "delay", "watch"}
TimeSpec == call = Idle /\ [][Telling \/ Waiting \/ Displaying \/ Sleeping \/ Watching \/ OtherThan(TimeFamilies)]_call
===============================================================================
