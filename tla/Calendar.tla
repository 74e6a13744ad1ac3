------------------------------ MODULE Calendar ------------------------------
(***************************************************************************)
(* Times of the firm's zone: the slots the website offers                  *)
(* (intake/booking/availability.ts), the window the booking command        *)
(* accepts (validateSlotWindow of core/Booking.js) and the time an answer  *)
(* is due (core/Sla.js), through a change of the zone's offset.            *)
(*                                                                         *)
(* An instant is a number of half hours, of which a day has 48; day 0 is a *)
(* Thursday.  A zone changes its offset once, at the instant zone.at, or   *)
(* never (BUSINESS_TIMEZONE is America/Chicago).                           *)
(***************************************************************************)
EXTENDS Integers, FiniteSets

CONSTANT MaxAheadDays       \* BOOKING_MAX_AHEAD_DAYS and its mirror

ASSUME CalendarAssumption == MaxAheadDays \in Nat

Hour == 2
Day == 24 * Hour
BusinessStart == 9 * Hour
BusinessEnd == 17 * Hour
MinLead == 1 * Hour
Slot == 1                   \* slotMinutes and durationMinutes alike
Friday == 5

Weekday(day) == (day + 4) % 7
IsBusinessDay(day) == Weekday(day) \in 1 .. Friday

(* The zones of the United States change their offset, if they do, by an   *)
(* hour, on a Sunday at 2:00 AM.                                           *)
IsZone(zone) ==
    /\ {zone.at, zone.before, zone.after} \subseteq Int
    /\ zone.before # zone.after =>
          /\ zone.after - zone.before \in {- Hour, Hour}
          /\ Weekday((zone.at + zone.before) \div Day) = 0
          /\ (zone.at + zone.before) % Day = 2 * Hour

(* zoneOffsetMinutes, and the offset resolver of the backend.              *)
Offset(zone, t) == IF t < zone.at THEN zone.before ELSE zone.after

(* toLocalParts.                                                           *)
LocalDay(zone, t) == (t + Offset(zone, t)) \div Day
LocalTime(zone, t) == (t + Offset(zone, t)) % Day
DayStart(zone, t) == LocalDay(zone, t) * Day - Offset(zone, t)

-----------------------------------------------------------------------------
(* availability.ts.                                                        *)

(* Mutant: Houston is six hours behind, all year.                          *)
ToOffsetIsoInWinter(zone, day, time) == day * Day + time + 6 * Hour

(* The offset of a first guess, then the one in force at what it gives.    *)
ToOffsetIso(zone, day, time) ==
    LET naive == day * Day + time
        settled == Offset(zone, naive - Offset(zone, naive))
    IN naive - settled

CandidateSlots(zone, now, day) ==
    {t \in {ToOffsetIso(zone, day, BusinessStart + n * Slot) :
                n \in 0 .. (BusinessEnd - BusinessStart) \div Slot - 1} :
        now + MinLead <= t /\ t <= now + MaxAheadDays * Day}

CandidateDays(zone, now) ==
    LET today == LocalDay(zone, now)
    IN {day \in today .. today + MaxAheadDays :
            IsBusinessDay(day) /\ CandidateSlots(zone, now, day) # {}}

Candidates(zone, now) ==
    UNION {CandidateSlots(zone, now, day) : day \in CandidateDays(zone, now)}

-----------------------------------------------------------------------------
(* Booking.js.                                                             *)

(* Both ends of the meeting are in the hours of one business day.          *)
IsWithinBusinessHours(zone, start) ==
    LET end == start + Slot
    IN /\ IsBusinessDay(LocalDay(zone, start))
       /\ DayStart(zone, start) = DayStart(zone, end)
       /\ LocalTime(zone, start) >= BusinessStart
       /\ LocalTime(zone, end) <= BusinessEnd

ValidateSlotWindow(zone, now, start) ==
    CASE start < now + MinLead -> "SLOT_TOO_SOON"
      [] start > now + MaxAheadDays * Day -> "SLOT_TOO_FAR_AHEAD"
      [] now + MinLead <= start /\ start <= now + MaxAheadDays * Day ->
            IF IsWithinBusinessHours(zone, start) THEN "OK"
                                                  ELSE "SLOT_OUTSIDE_BUSINESS_HOURS"

-----------------------------------------------------------------------------
(* EmailHelpers.js: a time as a mail names it, a day and a time of it.     *)
FormatInstant(zone, t) == <<LocalDay(zone, t), LocalTime(zone, t)>>

-----------------------------------------------------------------------------
(* Sla.js.                                                                 *)

LocalHourOnSameDay(zone, t, hour) == DayStart(zone, t) + hour * Hour

(* The cursor of nextBusinessDayStart, after n rounds of its loop: a day   *)
(* is taken to have 24 hours, and the cursor may stand off midnight.       *)
NextBusinessDayStart(zone, t) ==
    LET After(c) == LocalHourOnSameDay(zone, c, 0) + Day
        cursor[n \in 0 .. 10] ==
            IF n = 0 THEN After(t)
            ELSE IF IsBusinessDay(LocalDay(zone, cursor[n - 1])) THEN cursor[n - 1]
                 ELSE After(cursor[n - 1])
    IN cursor[10]

(* Mutant: seventeen hours after the cursor.                               *)
DueAtFromCursor(zone, received) == NextBusinessDayStart(zone, received) + 17 * Hour

(* computeSlaDueAt of a service inquiry.                                   *)
DueAt(zone, received) ==
    LocalHourOnSameDay(zone, NextBusinessDayStart(zone, received), 17)

-----------------------------------------------------------------------------
(* Properties, of one zone and one instant.                                *)

(* "Every offered candidate is one the backend's own window validation     *)
(* would accept", and none that starts on a half hour is kept back; and    *)
(* the mail names the day and the time that the button named.              *)
OfferedIsAccepted(zone, now) ==
    LET accepted == {t \in now .. now + (MaxAheadDays + 1) * Day :
                        ValidateSlotWindow(zone, now, t) = "OK"}
    IN /\ Candidates(zone, now) = accepted
       /\ \A day \in CandidateDays(zone, now), time \in BusinessStart .. BusinessEnd - Slot :
            FormatInstant(zone, ToOffsetIso(zone, day, time)) = <<day, time>>

(* 5:00 PM, by the firm's clock, on the first business day after today.    *)
DueIsNextBusinessDay(zone, received) ==
    LET today == LocalDay(zone, received)
        next == CHOOSE day \in today + 1 .. today + 7 :
                    /\ IsBusinessDay(day)
                    /\ \A other \in today + 1 .. day - 1 : ~ IsBusinessDay(other)
    IN /\ LocalDay(zone, DueAt(zone, received)) = next
       /\ LocalTime(zone, DueAt(zone, received)) = 17 * Hour
=============================================================================
