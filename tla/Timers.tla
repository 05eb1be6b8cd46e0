--------------------------------- MODULE Timers ---------------------------------
(* sleep.c and precision_timer.c.  A sleep is the list of the calls of          *)
(* nanosleep it makes, by what each of them returns: "done", or "signal" with   *)
(* the time slept until then, or another error.  uint32_t has UINT32_RANGE      *)
(* values and THOUSAND_OF is the factor between the units.                      *)
EXTENDS ErrorCodes

CONSTANTS UINT32_RANGE, THOUSAND_OF

ASSUME TimersAssumption == UINT32_RANGE \in Nat \ {0} /\ THOUSAND_OF \in Nat \ {0}

ENOSYS == 38

Slept(error, slept) == [error |-> error, slept |-> slept]

(* Mutant: one call, whatever ends it. *)
sleepnsOnce(time, calls) ==
    LET call == Head(calls)
    IN CASE call.ends = "done"   -> Slept(0, time)
         [] call.ends = "signal" -> Slept(0, call.slept)
         [] call.ends = "error"  -> Slept(call.errno, call.slept)

(* The call is made again with what is left for as long as a signal ends it.    *)
sleepns(time, calls) ==
    LET end  == Min({k \in DOMAIN calls : calls[k].ends # "signal"})
        last == calls[end]
        left[k \in 0 .. end - 1] == IF k = 0 THEN time ELSE left[k - 1] - calls[k].slept
        before == time - left[end - 1]
    IN CASE last.ends = "done"  -> Slept(0, before + left[end - 1])
         [] last.ends = "error" -> Slept(last.errno, before + last.slept)

(* Every error of sleepns but ENOSYS is dropped; that one makes it wait by      *)
(* select, which a signal ends.                                                 *)
sleepus(us, calls, select) ==
    LET ns == sleepns(us * THOUSAND_OF, calls)
    IN IF ns.error # ENOSYS THEN Slept(0, ns.slept)
       ELSE IF select.ends = "done" THEN Slept(0, us * THOUSAND_OF) ELSE Slept(select.errno, select.slept)

(* The product is one of 32 bits. *)
sleepms(ms, calls, select) == sleepus((ms * THOUSAND_OF) % UINT32_RANGE, calls, select)

sleepsec(sec, calls, select) ==
    IF sec > (UINT32_RANGE - 1) \div THOUSAND_OF THEN Slept(EOVERFLOW, 0)
    ELSE sleepms(THOUSAND_OF * sec, calls, select)

delay_Milliseconds(ms, calls, select) == sleepms(ms, calls, select).slept
delay_Seconds(sec, calls, select)     == sleepsec(sec, calls, select).slept

(* ------------------------------------------------------- the stop watch *)

(* A clock that cannot be read leaves the timer as it is. *)
start_Timer(timer, clock) == IF clock < 0 THEN timer ELSE [timer EXCEPT !.timerStart = clock]
stop_Timer(timer, clock)  == IF clock < 0 THEN timer ELSE [timer EXCEPT !.timerStop = clock]

(* On Windows the clock counts frequency ticks in a second; the nanoseconds of  *)
(* a tick are cut to a whole number.  Elsewhere it counts nanoseconds.          *)
get_Nano_Seconds(timer, frequency, second) ==
    LET ticks == timer.timerStop - timer.timerStart
    IN IF frequency = 0 THEN 0
       ELSE (ticks \div frequency) * second + (ticks % frequency) * (second \div frequency)

(* As fractions << nanoseconds, divisor >>. *)
get_Micro_Seconds(nano) == <<nano, THOUSAND_OF>>
get_Milli_Seconds(nano) == <<nano, THOUSAND_OF ^ 2>>
get_Seconds(nano)       == <<nano, THOUSAND_OF ^ 3>>
===============================================================================
