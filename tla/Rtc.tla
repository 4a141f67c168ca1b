-------------------------------- MODULE Rtc --------------------------------
(***************************************************************************)
(* kernel/rtc.c: the real-time clock interrupts 1024 times a second; once  *)
(* a second its handler reads the time from the CMOS and publishes it in   *)
(* g_dateTime, which dateTime() copies member by member.                   *)
(***************************************************************************)
EXTENDS Irq, Sequences

CONSTANTS
  ClockAt,         \* the time after each second: sec, min, hour, year
  MaxNow,          \* bound on the seconds that pass
  TicksPerRead     \* 1024

Members == {"sec", "min", "hour", "year"}

RTC == 8
CURRENT_YEAR == 2013

ASSUME RtcAssumption ==
  /\ MaxNow \in Nat /\ TicksPerRead \in Nat \ {0}
  /\ ClockAt \in [0..MaxNow -> [Members -> Nat]]
  /\ \A n \in 0..MaxNow :
       /\ ClockAt[n].sec < 60 /\ ClockAt[n].min < 60 /\ ClockAt[n].hour < 24
       /\ ClockAt[n].year \in CURRENT_YEAR..(CURRENT_YEAR + 99)

Order == <<"sec", "min", "hour", "year">>   \* in which dateTime() copies them
Zeroed == [m \in Members |-> 0]

VARIABLES
  now,           \* the seconds that have passed
  hours24, binary,   \* bits 1 and 2 of register B
  periodic,      \* bit 6 of register B
  pending,       \* the interrupt flag, cleared by a read of register C
  bcdValues,     \* CMOS_BCD_VALUES
  rtcPc,         \* where kMain is in rtcInit
  ticks, sent,   \* the handler's count, and all interrupts so far
  g_dateTime,
  smeared,       \* g_dateTime was read while the clock moved on
  time, copied,  \* the copy that dateTime() makes, and how much is done
  renewed        \* g_dateTime was published anew since the copy began

clock   == <<now, hours24, binary>>
rtcVars == <<clock, periodic, pending, bcdValues, rtcPc, ticks, sent,
             g_dateTime, smeared, time, copied, renewed>>

RtcVarsInit ==
  /\ now = 0 /\ hours24 \in BOOLEAN /\ binary \in BOOLEAN
  /\ periodic = FALSE /\ pending \in BOOLEAN
  /\ bcdValues = FALSE /\ rtcPc = "off"
  /\ ticks = 0 /\ sent = 0
  /\ g_dateTime = Zeroed /\ smeared = FALSE
  /\ time = Zeroed /\ copied = 0 /\ renewed = FALSE

-----------------------------------------------------------------------------
(* The clock: registers in packed BCD or binary, hours in either format.   *)

Register(n, m) ==
  LET t    == ClockAt[n]
      noon == t.hour \div 12
      v    == CASE m = "hour" /\ ~hours24 -> ((t.hour + 11) % 12) + 1
                [] m = "year" -> t.year % 100
                [] OTHER -> t[m]
  IN  (IF binary THEN v ELSE 16 * (v \div 10) + (v % 10))
        + (IF m = "hour" /\ ~hours24 THEN 128 * noon ELSE 0)

secondPasses ==
  /\ now < MaxNow
  /\ now' = now + 1
  /\ UNCHANGED <<irqVars, hours24, binary, periodic, pending, bcdValues,
                 rtcPc, ticks, sent, g_dateTime, smeared, time, copied, renewed>>

(* The interrupt line rises only when the flag was clear before.           *)
clockTicks ==
  /\ periodic
  /\ sent' = sent + 1
  /\ pending' = TRUE
  /\ IF pending THEN UNCHANGED requested ELSE Request(RTC)
  /\ UNCHANGED <<g_irq_mask, g_isrs, picMask, inService, cpu, irq, dropped>>
  /\ UNCHANGED <<clock, periodic, bcdValues, rtcPc, ticks,
                 g_dateTime, smeared, time, copied, renewed>>

-----------------------------------------------------------------------------
(* rtcHandler.  A Mutant is a plausible bug in what follows it.            *)

BCD2BIN(bcd) == (bcd % 16) + (bcd \div 16) * 10

MutantConverted(m, raw) ==
  LET v == IF bcdValues THEN BCD2BIN(raw) ELSE raw
  IN  CASE m = "hour" /\ ~hours24 /\ v >= 128 -> ((v % 128) + 12) % 24
        [] m = "year" -> (CURRENT_YEAR \div 100) * 100 + v
        [] OTHER -> v

(* The afternoon bit is looked for after the hour has been converted.      *)
Converted(m, raw) ==
  LET v    == IF bcdValues THEN BCD2BIN(raw) ELSE raw
      year == (CURRENT_YEAR \div 100) * 100 + v
  IN  CASE m = "hour" /\ ~hours24 /\ v >= 128 -> ((v % 128) + 12) % 24
        [] m = "year" -> IF year < CURRENT_YEAR THEN year + 100 ELSE year
        [] OTHER -> v

(* The registers from some member on are read after the next second began. *)
readsClock ==
  \E n \in 0..Len(Order) :
    /\ n < Len(Order) => now < MaxNow
    /\ now' = IF n < Len(Order) THEN now + 1 ELSE now
    /\ g_dateTime' = [m \in Members |->
         Converted(m, Register(IF \E i \in 1..n : Order[i] = m THEN now ELSE now', m))]
    /\ smeared' = (n \in 1..(Len(Order) - 1))
    /\ renewed' = (copied > 0)

MutantRtcHandler ==
  /\ baseIrqHandler("rtcHandler")
  /\ IF ticks + 1 >= TicksPerRead
       THEN /\ ticks' = 0 /\ readsClock
            /\ pending' = FALSE
       ELSE ticks' = ticks + 1 /\ UNCHANGED <<now, g_dateTime, smeared, renewed, pending>>
  /\ UNCHANGED <<hours24, binary, periodic, bcdValues, rtcPc, sent, time, copied>>

rtcHandler ==
  /\ baseIrqHandler("rtcHandler")
  /\ IF (ticks + 1) \div TicksPerRead = 1
       THEN ticks' = 0 /\ readsClock
       ELSE ticks' = ticks + 1 /\ UNCHANGED <<now, g_dateTime, smeared, renewed>>
  /\ pending' = FALSE
  /\ UNCHANGED <<hours24, binary, periodic, bcdValues, rtcPc, sent, time, copied>>

-----------------------------------------------------------------------------
(* rtcInit, called by kMain with interrupts on.  Nobody else uses the CMOS *)
(* ports before the IRQ is enabled, so each access to a register is a step.*)

Step(from, to) == rtcPc = from /\ rtcPc' = to

rtcInit ==
  /\ cpu = "threads"
  /\ \/ /\ Step("install", "format") /\ initIrqHandler(RTC, "rtcHandler")
        /\ UNCHANGED <<g_irq_mask, picMask, requested, periodic, bcdValues>>
     \/ /\ Step("format", "write") /\ bcdValues' = (bcdValues \/ ~binary)
        /\ UNCHANGED <<g_irq_mask, g_isrs, picMask, requested, periodic>>
     \/ /\ Step("write", "enable") /\ periodic' = TRUE
        /\ requested' = IF pending THEN requested \cup {RTC} ELSE requested
        /\ UNCHANGED <<g_irq_mask, g_isrs, picMask, bcdValues>>
     \/ /\ Step("enable", "done") /\ enableIrq(RTC)
        /\ UNCHANGED <<g_isrs, requested, periodic, bcdValues>>
  /\ UNCHANGED <<inService, cpu, irq, dropped>>
  /\ UNCHANGED <<clock, pending, ticks, sent, g_dateTime, smeared, time, copied, renewed>>

-----------------------------------------------------------------------------
(* dateTime: one member per step, with interrupts on; modelled for a call. *)

dateTimeCopies ==
  /\ cpu = "threads" /\ rtcPc = "done" /\ copied < Len(Order)
  /\ copied' = copied + 1
  /\ time' = [time EXCEPT ![Order[copied + 1]] = g_dateTime[Order[copied + 1]]]
  /\ UNCHANGED <<irqVars, clock, periodic, pending, bcdValues, rtcPc, ticks,
                 sent, g_dateTime, smeared, renewed>>

-----------------------------------------------------------------------------
(* The formats in which the handler understands the hour: not 12 o'clock   *)
(* in the 12-hour format, and no afternoon in packed BCD, whose bit the    *)
(* conversion destroys.                                                    *)
Understood(t) ==
  hours24 \/ (IF binary THEN t.hour % 12 # 0 ELSE t.hour \in 1..11)

PublishedTrue ==
  smeared \/ g_dateTime = Zeroed
    \/ \E n \in 0..now :
         IF Understood(ClockAt[n]) THEN g_dateTime = ClockAt[n]
         ELSE [g_dateTime EXCEPT !.hour = 0] = [ClockAt[n] EXCEPT !.hour = 0]

CopiedWhole == copied = Len(Order) => time = g_dateTime \/ renewed

(***************************************************************************)
(* The published time is one that the clock showed, up to the hour where   *)
(* its format is not understood, if the clock did not move on while its    *)
(* registers were read; and what dateTime() copies is one published time,  *)
(* unless the handler published another one in the meantime.               *)
(***************************************************************************)
DateTrue == PublishedTrue /\ CopiedWhole
=============================================================================
