----------------------------- MODULE RulesProofs ----------------------------
(***************************************************************************)
(* Proofs of Rules, for every input and not those of a bounded space: the  *)
(* calendar through any change of offset a zone can have, addresses of any *)
(* segments and of any length, every setting of the properties and every   *)
(* way a page can be built and used, mails of anything that may be given,  *)
(* tabs of any layout and any size, any number of contacts and of rows.    *)
(***************************************************************************)
EXTENDS Rules, TLAPS, WellFoundedInduction, FiniteSetTheorems

-----------------------------------------------------------------------------
(* The calendar.                                                           *)

(* On any day but the Sunday of the change one offset holds, from one      *)
(* midnight to the next, whichever of the two is used to get there.        *)
OffsetOn(zone, day) ==
    IF day * Day + 17 * Hour - zone.before < zone.at THEN zone.before ELSE zone.after

LEMMA OneOffset ==
    ASSUME NEW zone, IsZone(zone), NEW day \in Int, Weekday(day) # 0,
           NEW time \in 0 .. 48, NEW o \in {zone.before, zone.after}
    PROVE  Offset(zone, day * 48 + time - o) = OffsetOn(zone, day)
  <1> DEFINE at == zone.at
             before == zone.before
             after == zone.after
             sunday == (at + before) \div Day
  <1>1. at \in Int /\ before \in Int /\ after \in Int /\ time \in Int
    BY DEF IsZone
  <1>2. CASE before = after
    <2>1. o = before /\ OffsetOn(zone, day) = before
      BY <1>2 DEF OffsetOn
    <2>2. Offset(zone, day * 48 + time - o) = before
      BY <1>2 DEF Offset
    <2>3. QED
      BY <2>1, <2>2
  <1>3. CASE before # after
    <2>1. /\ after - before \in {- 2, 2}
          /\ (sunday + 4) % 7 = 0 /\ sunday \in Int
          /\ at + before = sunday * 48 + 4
      BY <1>1, <1>3 DEF IsZone, Hour, Day, Weekday
    <2>2. day # sunday
      BY <2>1 DEF Weekday
    <2> HIDE DEF at, before, after, sunday
    <2>3. CASE day < sunday
      <3>1. day * 48 + time - o < at /\ day * 48 + 34 - before < at
        BY <1>1, <2>1, <2>3 DEF Day, Hour, before, after
      <3>2. QED
        BY <3>1 DEF Offset, OffsetOn, Day, Hour, before, after, at
    <2>4. CASE day > sunday
      <3>1. ~ (day * 48 + time - o < at) /\ ~ (day * 48 + 34 - before < at)
        BY <1>1, <2>1, <2>4 DEF Day, Hour, before, after
      <3>2. QED
        BY <3>1 DEF Offset, OffsetOn, Day, Hour, before, after, at
    <2>5. QED
      BY <2>1, <2>2, <2>3, <2>4
  <1>4. QED
    BY <1>2, <1>3

LEMMA Week ==
    \A n \in Int :
        /\ Weekday(n) \in 0 .. 6
        /\ IsBusinessDay(n) <=> Weekday(n) \in 1 .. 5
        /\ Weekday(n + 1) = IF Weekday(n) = 6 THEN 0 ELSE Weekday(n) + 1
  BY DEF Weekday, IsBusinessDay, Friday

LEMMA SameDay ==
    \A m, n \in Int : \A a, b \in 0 .. 47 : m * 48 + a = n * 48 + b => m = n /\ a = b
  OBVIOUS

(* An instant, and where the firm's clock stands at it.                    *)
LEMMA LocalFacts ==
    ASSUME NEW zone, IsZone(zone), NEW t \in Int
    PROVE  /\ Offset(zone, t) \in Int /\ Offset(zone, t) \in {zone.before, zone.after}
           /\ LocalDay(zone, t) \in Int /\ LocalTime(zone, t) \in 0 .. 47
           /\ t = LocalDay(zone, t) * 48 + LocalTime(zone, t) - Offset(zone, t)
           /\ DayStart(zone, t) = LocalDay(zone, t) * 48 - Offset(zone, t)
  <1>1. Offset(zone, t) \in Int /\ Offset(zone, t) \in {zone.before, zone.after}
    BY DEF IsZone, Offset
  <1> DEFINE x == t + Offset(zone, t)
  <1>2. x \in Int
    BY <1>1
  <1> HIDE DEF x
  <1>3. x \div 48 \in Int /\ x % 48 \in 0 .. 47 /\ x = 48 * (x \div 48) + (x % 48)
    BY <1>2
  <1>4. LocalDay(zone, t) = x \div 48 /\ LocalTime(zone, t) = x % 48
    BY DEF LocalDay, LocalTime, x, Day, Hour
  <1>5. DayStart(zone, t) = LocalDay(zone, t) * 48 - Offset(zone, t)
    BY DEF DayStart, Day, Hour
  <1>6. QED
    BY <1>1, <1>2, <1>3, <1>4, <1>5 DEF x

LEMMA LocalIs ==
    ASSUME NEW zone, IsZone(zone), NEW t \in Int, NEW day \in Int, NEW time \in 0 .. 47,
           t = day * 48 + time - Offset(zone, t)
    PROVE  LocalDay(zone, t) = day /\ LocalTime(zone, t) = time
  <1>1. /\ Offset(zone, t) \in Int /\ LocalDay(zone, t) \in Int /\ LocalTime(zone, t) \in 0 .. 47
        /\ t = LocalDay(zone, t) * 48 + LocalTime(zone, t) - Offset(zone, t)
    BY LocalFacts
  <1>2. QED
    BY <1>1

(* A time of such a day is one instant, which toOffsetIso finds.           *)
LEMMA TimeOfDay ==
    ASSUME NEW zone, IsZone(zone), NEW day \in Int, Weekday(day) # 0, NEW time \in 0 .. 47
    PROVE  /\ ToOffsetIso(zone, day, time) \in Int
           /\ ToOffsetIso(zone, day, time) = day * 48 + time - OffsetOn(zone, day)
           /\ Offset(zone, ToOffsetIso(zone, day, time)) = OffsetOn(zone, day)
           /\ LocalDay(zone, ToOffsetIso(zone, day, time)) = day
           /\ LocalTime(zone, ToOffsetIso(zone, day, time)) = time
  <1> DEFINE naive == day * 48 + time
             t == ToOffsetIso(zone, day, time)
             o == OffsetOn(zone, day)
  <1>1. naive \in Int /\ naive = day * Day + time
    BY DEF Day, Hour
  <1>2. Offset(zone, naive) \in {zone.before, zone.after} /\ o \in {zone.before, zone.after}
        /\ zone.before \in Int /\ zone.after \in Int
    BY DEF Offset, OffsetOn, IsZone
  <1>3. time \in 0 .. 48
    OBVIOUS
  <1>4. \A p \in {zone.before, zone.after} :
            Offset(zone, day * 48 + time - p) = OffsetOn(zone, day)
    BY <1>3, OneOffset
  <1> HIDE DEF o
  <1>5. t = naive - o
    BY <1>2, <1>4 DEF ToOffsetIso, o, Day, Hour
  <1>6. Offset(zone, naive - o) = o
    BY <1>2, <1>4 DEF o
  <1> HIDE DEF naive, t, o
  <1>7. t \in Int /\ t = day * 48 + time - o /\ Offset(zone, t) = o
    <2>1. Offset(zone, t) = o
      BY <1>5, <1>6
    <2>2. o \in Int
      BY <1>2
    <2>3. t \in Int /\ t = day * 48 + time - o
      BY <1>5, <2>2 DEF naive
    <2>4. QED
      BY <2>1, <2>3
  <1>8. LocalDay(zone, t) = day /\ LocalTime(zone, t) = time
    BY <1>7, LocalIs
  <1>9. QED
    BY <1>7, <1>8 DEF t, o

LEMMA InstantOfDay ==
    ASSUME NEW zone, IsZone(zone), NEW t \in Int, Weekday(LocalDay(zone, t)) # 0
    PROVE  /\ t = ToOffsetIso(zone, LocalDay(zone, t), LocalTime(zone, t))
           /\ Offset(zone, t) = OffsetOn(zone, LocalDay(zone, t))
  <1> DEFINE day == LocalDay(zone, t)
             time == LocalTime(zone, t)
  <1>1. /\ day \in Int /\ time \in 0 .. 47
        /\ Offset(zone, t) \in {zone.before, zone.after}
        /\ t = day * 48 + time - Offset(zone, t)
    BY LocalFacts
  <1> HIDE DEF day, time
  <1>2. Weekday(day) # 0 /\ time \in 0 .. 48
    BY <1>1 DEF day
  <1>3. Offset(zone, day * 48 + time - Offset(zone, t)) = OffsetOn(zone, day)
    BY <1>1, <1>2, OneOffset
  <1>4. day * 48 + time - Offset(zone, t) = t
    BY <1>1
  <1>5. Offset(zone, t) = OffsetOn(zone, day)
    BY <1>3, <1>4
  <1>6. ToOffsetIso(zone, day, time) = day * 48 + time - OffsetOn(zone, day)
    BY <1>1, <1>2, TimeOfDay
  <1>7. QED
    BY <1>1, <1>5, <1>6 DEF day, time

(* The two ends of a meeting in the hours of one business day are its      *)
(* beginning before the last half hour.                                    *)
LEMMA WithinHours ==
    ASSUME NEW zone, IsZone(zone), NEW t \in Int
    PROVE  IsWithinBusinessHours(zone, t)
             <=> IsBusinessDay(LocalDay(zone, t)) /\ LocalTime(zone, t) \in 18 .. 33
  <1> DEFINE day == LocalDay(zone, t)
             time == LocalTime(zone, t)
             o == OffsetOn(zone, day)
  <1>1. /\ day \in Int /\ time \in 0 .. 47
        /\ t = day * 48 + time - Offset(zone, t)
        /\ DayStart(zone, t) = day * 48 - Offset(zone, t)
    BY LocalFacts
  <1>2. o \in {zone.before, zone.after} /\ o \in Int
    BY DEF OffsetOn, IsZone
  <1>3. IsWithinBusinessHours(zone, t) <=>
          /\ IsBusinessDay(day) /\ DayStart(zone, t) = DayStart(zone, t + 1)
          /\ time >= 18 /\ LocalTime(zone, t + 1) <= 34
    BY DEF IsWithinBusinessHours, Slot, BusinessStart, BusinessEnd, Hour
  <1>4. IsBusinessDay(day) => Weekday(day) # 0
    BY <1>1 DEF IsBusinessDay, Friday
  <1>5. Weekday(day) # 0 => Offset(zone, t) = o
    BY InstantOfDay
  <1> HIDE DEF day, time, o
  <1>6. CASE ~ IsBusinessDay(day)
    BY <1>3, <1>6 DEF day
  <1>7. CASE IsBusinessDay(day) /\ time = 47
    <2>1. Offset(zone, day * 48 + 48 - o) = o
      BY <1>1, <1>2, <1>4, <1>7, OneOffset DEF o
    <2>2. t + 1 = (day + 1) * 48 + 0 - Offset(zone, t + 1)
      <3>1. t + 1 = day * 48 + 48 - o
        BY <1>1, <1>2, <1>4, <1>5, <1>7
      <3>2. Offset(zone, t + 1) = o
        BY <2>1, <3>1
      <3>3. QED
        BY <1>1, <1>2, <3>1, <3>2
    <2>3. t + 1 \in Int /\ day + 1 \in Int
      BY <1>1
    <2>4. LocalDay(zone, t + 1) = day + 1
      BY <2>2, <2>3, LocalIs
    <2>5. /\ DayStart(zone, t + 1) = (day + 1) * 48 - Offset(zone, t + 1)
          /\ Offset(zone, t + 1) \in Int
      BY <2>3, <2>4, LocalFacts
    <2>6. DayStart(zone, t) # DayStart(zone, t + 1)
      BY <1>1, <1>2, <1>4, <1>5, <1>7, <2>2, <2>5
    <2>7. QED
      BY <1>3, <1>7, <2>6 DEF time
  <1>8. CASE IsBusinessDay(day) /\ time # 47
    <2>1. time + 1 \in 0 .. 47 /\ t + 1 \in Int
      BY <1>1, <1>8
    <2>2. ToOffsetIso(zone, day, time + 1) = day * 48 + (time + 1) - o
          /\ LocalDay(zone, ToOffsetIso(zone, day, time + 1)) = day
          /\ LocalTime(zone, ToOffsetIso(zone, day, time + 1)) = time + 1
          /\ Offset(zone, ToOffsetIso(zone, day, time + 1)) = o
      BY <1>1, <1>4, <1>8, <2>1, TimeOfDay DEF o
    <2>3. ToOffsetIso(zone, day, time + 1) = t + 1
      BY <1>1, <1>2, <1>4, <1>5, <1>8, <2>2
    <2>4. DayStart(zone, t + 1) = day * 48 - o
      BY <2>1, <2>2, <2>3, LocalFacts
    <2>5. LocalTime(zone, t + 1) = time + 1 /\ DayStart(zone, t) = DayStart(zone, t + 1)
      BY <1>1, <1>4, <1>5, <1>8, <2>2, <2>3, <2>4
    <2>6. time \in 18 .. 33 <=> time >= 18 /\ time + 1 <= 34
      BY <1>1
    <2>7. QED
      BY <1>3, <1>8, <2>5, <2>6 DEF day, time
  <1>9. QED
    BY <1>6, <1>7, <1>8

LEMMA Accepted ==
    ASSUME NEW zone, IsZone(zone), NEW now \in Int, NEW t \in Int
    PROVE  ValidateSlotWindow(zone, now, t) = "OK"
             <=> /\ now + 2 <= t /\ t <= now + MaxAheadDays * 48
                 /\ IsBusinessDay(LocalDay(zone, t)) /\ LocalTime(zone, t) \in 18 .. 33
  <1> DEFINE last == now + MaxAheadDays * 48
  <1>1. last \in Int
    BY CalendarAssumption
  <1>2. ValidateSlotWindow(zone, now, t) =
          CASE t < now + 2 -> "SLOT_TOO_SOON"
            [] t > last -> "SLOT_TOO_FAR_AHEAD"
            [] now + 2 <= t /\ t <= last ->
                 IF IsWithinBusinessHours(zone, t) THEN "OK" ELSE "SLOT_OUTSIDE_BUSINESS_HOURS"
    BY DEF ValidateSlotWindow, MinLead, Day, Hour
  <1> HIDE DEF last
  <1>3. ValidateSlotWindow(zone, now, t) = "OK"
          <=> now + 2 <= t /\ t <= last /\ IsWithinBusinessHours(zone, t)
    BY <1>1, <1>2
  <1>4. QED
    BY <1>3, WithinHours DEF last

(* What the website offers.                                                *)
LEMMA Offered ==
    ASSUME NEW zone, IsZone(zone), NEW now \in Int, NEW t
    PROVE  t \in Candidates(zone, now)
             <=> /\ t \in Int /\ now + 2 <= t /\ t <= now + MaxAheadDays * 48
                 /\ IsBusinessDay(LocalDay(zone, t)) /\ LocalTime(zone, t) \in 18 .. 33
  <1> DEFINE last == now + MaxAheadDays * 48
             today == LocalDay(zone, now)
             slots(day) == {ToOffsetIso(zone, day, 18 + n) : n \in 0 .. 15}
  <1>1. /\ last \in Int /\ MaxAheadDays \in Nat /\ last = now + MaxAheadDays * 48
    BY CalendarAssumption
  <1>2. \A day \in Int : CandidateSlots(zone, now, day)
                            = {s \in slots(day) : now + 2 <= s /\ s <= last}
    BY DEF CandidateSlots, MinLead, Day, Hour, BusinessStart, BusinessEnd, Slot
  <1>3. /\ today \in Int
        /\ now = today * 48 + LocalTime(zone, now) - Offset(zone, now)
        /\ LocalTime(zone, now) \in 0 .. 47
        /\ Offset(zone, now) \in {zone.before, zone.after}
    BY LocalFacts
  <1>4. /\ zone.before \in Int /\ zone.after \in Int
        /\ zone.after - zone.before \in {- 2, 0, 2}
    BY DEF IsZone, Hour
  <1>5. ASSUME t \in Candidates(zone, now)
        PROVE  /\ t \in Int /\ now + 2 <= t /\ t <= last
               /\ IsBusinessDay(LocalDay(zone, t)) /\ LocalTime(zone, t) \in 18 .. 33
    <2>1. PICK day \in today .. today + MaxAheadDays :
            IsBusinessDay(day) /\ t \in CandidateSlots(zone, now, day)
      BY <1>5 DEF Candidates, CandidateDays
    <2>2. day \in Int /\ Weekday(day) # 0
      BY <1>1, <1>3, <2>1 DEF IsBusinessDay, Friday
    <2> HIDE DEF last
    <2>3. PICK n \in 0 .. 15 : t = ToOffsetIso(zone, day, 18 + n)
      BY <1>2, <2>1, <2>2
    <2>4. now + 2 <= t /\ t <= last
      BY <1>2, <2>1, <2>2
    <2>5. 18 + n \in 0 .. 47 /\ 18 + n \in 18 .. 33
      OBVIOUS
    <2>6. t \in Int /\ LocalDay(zone, t) = day /\ LocalTime(zone, t) = 18 + n
      BY <2>2, <2>3, <2>5, TimeOfDay
    <2>7. QED
      BY <2>1, <2>4, <2>5, <2>6
  <1>6. ASSUME t \in Int, now + 2 <= t, t <= last,
               IsBusinessDay(LocalDay(zone, t)), LocalTime(zone, t) \in 18 .. 33
        PROVE  t \in Candidates(zone, now)
    <2> DEFINE day == LocalDay(zone, t)
               n == LocalTime(zone, t) - 18
    <2>1. /\ day \in Int /\ t = day * 48 + LocalTime(zone, t) - Offset(zone, t)
          /\ Offset(zone, t) \in {zone.before, zone.after}
      BY <1>6, LocalFacts
    <2>2. Weekday(day) # 0
      BY <1>6, <2>1 DEF IsBusinessDay, Friday
    <2>3. t = ToOffsetIso(zone, day, LocalTime(zone, t))
      BY <1>6, <2>2, InstantOfDay
    <2>4. n \in 0 .. 15 /\ 18 + n = LocalTime(zone, t)
      BY <1>6
    <2> HIDE DEF day, n, last
    <2>5. t \in slots(day)
      BY <2>3, <2>4
    <2>6. t \in CandidateSlots(zone, now, day)
      BY <1>2, <1>6, <2>1, <2>5
    <2>7. today <= day /\ day <= today + MaxAheadDays
      <3> HIDE DEF today
      <3>1. Offset(zone, t) - Offset(zone, now) \in {- 2, 0, 2}
            /\ Offset(zone, t) \in Int /\ Offset(zone, now) \in Int
        BY <1>3, <1>4, <2>1
      <3>2. day * 48 + LocalTime(zone, t) >= today * 48 + LocalTime(zone, now)
        BY <1>3, <1>6, <2>1, <3>1
      <3>3. day * 48 + LocalTime(zone, t)
              <= today * 48 + LocalTime(zone, now) + MaxAheadDays * 48 + 2
        BY <1>1, <1>3, <1>6, <2>1, <3>1
      <3>4. QED
        BY <1>1, <1>3, <1>6, <2>1, <3>2, <3>3
    <2>8. day \in CandidateDays(zone, now)
      BY <1>1, <1>3, <1>6, <2>1, <2>6, <2>7 DEF CandidateDays, day
    <2>9. QED
      BY <2>6, <2>8 DEF Candidates
  <1>7. QED
    BY <1>5, <1>6

LEMMA OfferedAccepted ==
    ASSUME NEW zone, IsZone(zone), NEW now \in Int
    PROVE  OfferedIsAccepted(zone, now)
  <1> DEFINE horizon == now .. now + (MaxAheadDays + 1) * Day
  <1>1. \A t \in Int : now + 2 <= t /\ t <= now + MaxAheadDays * 48 => t \in horizon
    BY CalendarAssumption DEF Day, Hour
  <1>2. \A t \in horizon : t \in Int
    BY CalendarAssumption DEF Day, Hour
  <1> HIDE DEF horizon
  <1>3. Candidates(zone, now) = {t \in horizon : ValidateSlotWindow(zone, now, t) = "OK"}
    BY <1>1, <1>2, Offered, Accepted
  <1>4. ASSUME NEW day \in CandidateDays(zone, now), NEW time \in BusinessStart .. BusinessEnd - Slot
        PROVE  FormatInstant(zone, ToOffsetIso(zone, day, time)) = <<day, time>>
    <2>1. LocalDay(zone, now) \in Int
      BY LocalFacts
    <2>2. day \in Int /\ Weekday(day) # 0
      BY <2>1, CalendarAssumption DEF CandidateDays, IsBusinessDay, Friday
    <2>3. time \in 0 .. 47
      BY DEF BusinessStart, BusinessEnd, Slot, Hour
    <2>4. QED
      BY <2>2, <2>3, TimeOfDay DEF FormatInstant
  <1>5. QED
    BY <1>3, <1>4 DEF OfferedIsAccepted, horizon

-----------------------------------------------------------------------------
(* When an answer is due.  A day of 24 hours after a midnight is the next  *)
(* day, but for the day of 25 hours, a Sunday, whose last hour it is.      *)
After(zone, t) == LocalHourOnSameDay(zone, t, 0) + Day

LEMMA AfterMidnight ==
    ASSUME NEW zone, IsZone(zone), NEW t \in Int
    PROVE  /\ After(zone, t) \in Int
           /\ \/ LocalDay(zone, After(zone, t)) = LocalDay(zone, t) + 1
              \/ /\ LocalDay(zone, After(zone, t)) = LocalDay(zone, t)
                 /\ Weekday(LocalDay(zone, t)) = 0
                 /\ t < zone.at /\ zone.at <= After(zone, t)
  <1> DEFINE day == LocalDay(zone, t)
             next == After(zone, t)
             o == Offset(zone, t)
             p == Offset(zone, next)
             sunday == (zone.at + zone.before) \div Day
  <1>1. /\ zone.at \in Int /\ zone.before \in Int /\ zone.after \in Int
        /\ day \in Int /\ o \in Int /\ o \in {zone.before, zone.after}
        /\ LocalTime(zone, t) \in 0 .. 47
        /\ t = day * 48 + LocalTime(zone, t) - o
    BY LocalFacts DEF IsZone
  <1>2. next = (day + 1) * 48 - o /\ next \in Int
    <2>1. DayStart(zone, t) = day * 48 - o
      BY LocalFacts
    <2>2. QED
      BY <1>1, <2>1 DEF After, LocalHourOnSameDay, Day, Hour
  <1>3. /\ LocalDay(zone, next) \in Int /\ LocalTime(zone, next) \in 0 .. 47
        /\ next = LocalDay(zone, next) * 48 + LocalTime(zone, next) - p
        /\ p \in {zone.before, zone.after}
    BY <1>2, LocalFacts
  <1>4. zone.before # zone.after =>
          /\ zone.after - zone.before \in {- 2, 2}
          /\ (sunday + 4) % 7 = 0 /\ sunday \in Int
          /\ zone.at + zone.before = sunday * 48 + 4
    BY <1>1 DEF IsZone, Hour, Day, Weekday
  <1>5. /\ o = IF t < zone.at THEN zone.before ELSE zone.after
        /\ p = IF next < zone.at THEN zone.before ELSE zone.after
    BY DEF Offset
  <1>6. CASE o = p
    <2> HIDE DEF day, next, o, p, sunday
    <2>1. LocalDay(zone, next) = day + 1
      BY <1>1, <1>2, <1>3, <1>6
    <2>2. QED
      BY <1>2, <2>1 DEF day, next
  <1>7. CASE o # p
    <2> HIDE DEF day, next, o, p, sunday
    <2>1. zone.before # zone.after
      BY <1>1, <1>3, <1>7
    <2>2. t < zone.at /\ zone.at <= next /\ o = zone.before /\ p = zone.after
      BY <1>1, <1>2, <1>5, <1>7
    <2>3. CASE zone.after - zone.before = 2
      <3>1. LocalDay(zone, next) = day + 1
        BY <1>1, <1>2, <1>3, <2>2, <2>3
      <3>2. QED
        BY <1>2, <3>1 DEF day, next
    <2>4. CASE zone.after - zone.before = - 2
      <3>1. LocalDay(zone, next) = day
        <4>1. zone.before - zone.after = 2
          BY <1>1, <2>4
        <4>2. LocalDay(zone, next) * 48 + LocalTime(zone, next) = day * 48 + 46
          BY <1>1, <1>2, <1>3, <2>2, <4>1
        <4>3. QED
          BY <1>1, <1>3, <4>2, SameDay
      <3>2. day = sunday
        BY <1>1, <1>2, <1>4, <2>1, <2>2
      <3>3. Weekday(day) = 0
        BY <1>4, <2>1, <3>2 DEF Weekday
      <3>4. QED
        BY <1>2, <2>2, <3>1, <3>3 DEF day, next
    <2>5. QED
      BY <1>4, <2>1, <2>3, <2>4
  <1>8. QED
    BY <1>6, <1>7

(* Five in the afternoon of a business day is after any change of the day. *)
LEMMA FiveOClock ==
    ASSUME NEW zone, IsZone(zone), NEW t \in Int, IsBusinessDay(LocalDay(zone, t))
    PROVE  /\ LocalDay(zone, LocalHourOnSameDay(zone, t, 17)) = LocalDay(zone, t)
           /\ LocalTime(zone, LocalHourOnSameDay(zone, t, 17)) = 34
  <1> DEFINE day == LocalDay(zone, t)
  <1>1. day \in Int /\ Weekday(day) # 0
    BY LocalFacts DEF IsBusinessDay, Friday
  <1>2. Offset(zone, t) = OffsetOn(zone, day) /\ OffsetOn(zone, day) \in Int
    BY <1>1, InstantOfDay, LocalFacts
  <1>3. DayStart(zone, t) = day * 48 - OffsetOn(zone, day)
    BY <1>2, LocalFacts
  <1> HIDE DEF day
  <1>4. LocalHourOnSameDay(zone, t, 17) = day * 48 + 34 - OffsetOn(zone, day)
    BY <1>1, <1>2, <1>3 DEF LocalHourOnSameDay, Hour
  <1>5. 34 \in 0 .. 47
    OBVIOUS
  <1>6. LocalHourOnSameDay(zone, t, 17) = ToOffsetIso(zone, day, 34)
    BY <1>1, <1>4, <1>5, TimeOfDay
  <1>7. QED
    BY <1>1, <1>5, <1>6, TimeOfDay DEF day

(* The loop, unrolled as far as it can go: from a Friday through Saturday, *)
(* Sunday and, in autumn, the last hour of Sunday.                         *)
Round(zone, c) == IF IsBusinessDay(LocalDay(zone, c)) THEN c ELSE After(zone, c)

LEMMA Rounds ==
    ASSUME NEW zone, IsZone(zone), NEW t \in Int
    PROVE  \E c \in Int :
              /\ c = Round(zone, Round(zone, Round(zone, After(zone, t))))
              /\ IsBusinessDay(LocalDay(zone, c))
              /\ LocalDay(zone, c) \in LocalDay(zone, t) + 1 .. LocalDay(zone, t) + 3
              /\ \A day \in LocalDay(zone, t) + 1 .. LocalDay(zone, c) - 1 : ~ IsBusinessDay(day)
  <1> DEFINE c0 == After(zone, t)
             c1 == Round(zone, c0)
             c2 == Round(zone, c1)
             c3 == Round(zone, c2)
  <1>1. c0 \in Int
    BY AfterMidnight
  <1>2. c1 \in Int
    BY <1>1, AfterMidnight DEF Round
  <1>3. c2 \in Int
    BY <1>2, AfterMidnight DEF Round
  <1>4. c3 \in Int
    BY <1>3, AfterMidnight DEF Round
  <1> DEFINE d == LocalDay(zone, t)
             d0 == LocalDay(zone, c0)
             d1 == LocalDay(zone, c1)
             d2 == LocalDay(zone, c2)
             d3 == LocalDay(zone, c3)
  <1>5. d \in Int /\ d0 \in Int /\ d1 \in Int /\ d2 \in Int /\ d3 \in Int
    BY <1>1, <1>2, <1>3, <1>4, LocalFacts
  (* No instant is both before and after the change.                       *)
  <1>6. /\ zone.at \in Int
        /\ d0 = d + 1 \/ (d0 = d /\ Weekday(d) = 0 /\ t < zone.at /\ zone.at <= c0)
        /\ IsBusinessDay(d0) => c1 = c0
        /\ ~ IsBusinessDay(d0) =>
              d1 = d0 + 1 \/ (d1 = d0 /\ Weekday(d0) = 0 /\ c0 < zone.at /\ zone.at <= c1)
    BY <1>1, AfterMidnight DEF IsZone, Round
  <1>7. /\ IsBusinessDay(d1) => c2 = c1
        /\ ~ IsBusinessDay(d1) =>
              d2 = d1 + 1 \/ (d2 = d1 /\ Weekday(d1) = 0 /\ c1 < zone.at /\ zone.at <= c2)
    BY <1>2, AfterMidnight DEF Round
  <1>8. /\ IsBusinessDay(d2) => c3 = c2
        /\ ~ IsBusinessDay(d2) =>
              d3 = d2 + 1 \/ (d3 = d2 /\ Weekday(d2) = 0 /\ c2 < zone.at /\ zone.at <= c3)
    BY <1>3, AfterMidnight DEF Round
  <1>9. /\ IsBusinessDay(d0) => d1 = d0
        /\ IsBusinessDay(d1) => d2 = d1
        /\ IsBusinessDay(d2) => d3 = d2
    BY <1>6, <1>7, <1>8
  <1>10. \A n \in {d, d0, d1, d2, d3} :
            /\ Weekday(n) \in 0 .. 6
            /\ IsBusinessDay(n) <=> Weekday(n) \in 1 .. 5
            /\ Weekday(n + 1) = IF Weekday(n) = 6 THEN 0 ELSE Weekday(n) + 1
    BY <1>5, Week
  <1> HIDE DEF c0, c1, c2, c3, d, d0, d1, d2, d3
  <1>11. /\ IsBusinessDay(d3) /\ d3 \in d + 1 .. d + 3
         /\ \A day \in d + 1 .. d3 - 1 : ~ IsBusinessDay(day)
    <2>1. CASE d0 = d
      <3>1. d0 = d + 1 \/ (Weekday(d) = 0 /\ zone.at <= c0)
        BY <1>6
      <3>2. Weekday(d) = 0 /\ ~ (c0 < zone.at)
        BY <1>1, <1>5, <1>6, <1>10, <2>1, <3>1
      <3>3. d1 = d + 1
        BY <1>5, <1>6, <1>10, <2>1, <3>2
      <3>4. IsBusinessDay(d1)
        BY <1>5, <1>10, <3>2, <3>3
      <3>5. d3 = d + 1
        BY <1>9, <3>3, <3>4
      <3>6. QED
        BY <1>5, <1>10, <3>3, <3>4, <3>5
    <2>2. CASE d0 = d + 1 /\ IsBusinessDay(d0)
      BY <1>5, <1>9, <1>10, <2>2
    <2>3. CASE d0 = d + 1 /\ Weekday(d0) = 0
      <3>1. ~ IsBusinessDay(d0)
        BY <1>5, <1>10, <2>3
      <3>2. CASE d1 = d0 + 1
        <4>1. IsBusinessDay(d1)
          BY <1>5, <1>10, <2>3, <3>2
        <4>2. d3 = d + 2
          BY <1>5, <1>9, <2>3, <3>2, <4>1
        <4>3. IsBusinessDay(d3)
          BY <1>9, <4>1
        <4>4. QED
          BY <1>5, <1>10, <2>3, <3>1, <4>2, <4>3
      <3>3. CASE d1 = d0 /\ zone.at <= c1
        <4>1. ~ (c1 < zone.at)
          BY <1>2, <1>6, <3>3
        <4>2. d2 = d1 + 1
          BY <1>7, <3>1, <3>3, <4>1
        <4>3. IsBusinessDay(d2)
          BY <1>5, <1>10, <2>3, <3>3, <4>2
        <4>4. d3 = d + 2 /\ IsBusinessDay(d3)
          BY <1>5, <1>9, <2>3, <3>3, <4>2, <4>3
        <4>5. QED
          BY <1>5, <1>10, <2>3, <3>1, <4>4
      <3>4. QED
        BY <1>6, <3>1, <3>2, <3>3
    <2>4. CASE d0 = d + 1 /\ Weekday(d0) = 6
      <3>1. ~ IsBusinessDay(d0) /\ Weekday(d0) # 0
        BY <1>5, <1>10, <2>4
      <3>2. d1 = d0 + 1
        BY <1>6, <3>1
      <3>3. ~ IsBusinessDay(d1)
        BY <1>5, <1>10, <2>4, <3>2
      <3>4. CASE d2 = d1 + 1
        <4>1. IsBusinessDay(d2)
          BY <1>5, <1>10, <2>4, <3>2, <3>4
        <4>2. d3 = d + 3 /\ IsBusinessDay(d3)
          BY <1>5, <1>9, <2>4, <3>2, <3>4, <4>1
        <4>3. QED
          BY <1>5, <2>4, <3>1, <3>2, <3>3, <4>2
      <3>5. CASE d2 = d1 /\ zone.at <= c2
        <4>1. ~ (c2 < zone.at) /\ ~ IsBusinessDay(d2)
          BY <1>3, <1>6, <3>3, <3>5
        <4>2. d3 = d2 + 1
          BY <1>8, <4>1
        <4>3. d3 = d + 3
          BY <1>5, <2>4, <3>2, <3>5, <4>2
        <4>4. IsBusinessDay(d3)
          BY <1>5, <1>10, <2>4, <3>2, <3>5, <4>2
        <4>5. QED
          BY <1>5, <2>4, <3>1, <3>2, <3>3, <4>3, <4>4
      <3>6. QED
        BY <1>7, <3>3, <3>4, <3>5
    <2>5. IsBusinessDay(d0) \/ Weekday(d0) = 0 \/ Weekday(d0) = 6
      BY <1>5, <1>10
    <2>6. QED
      BY <1>6, <2>1, <2>2, <2>3, <2>4, <2>5
  <1>12. QED
    BY <1>4, <1>11 DEF d, d3, c3, c2, c1, c0

(* The loop has come to rest after three rounds.                           *)
LEMMA Loop ==
    ASSUME NEW zone, IsZone(zone), NEW t \in Int
    PROVE  NextBusinessDayStart(zone, t)
             = Round(zone, Round(zone, Round(zone, After(zone, t))))
  <1> DEFINE c0 == After(zone, t)
             c1 == Round(zone, c0)
             c2 == Round(zone, c1)
             c3 == Round(zone, c2)
             Step(f) == [n \in 0 .. 10 |->
                           IF n = 0 THEN c0
                           ELSE IF IsBusinessDay(LocalDay(zone, f[n - 1])) THEN f[n - 1]
                                ELSE After(zone, f[n - 1])]
             cursor == CHOOSE f : f = Step(f)
             unrolled == [n \in 0 .. 10 |-> IF n = 0 THEN c0 ELSE IF n = 1 THEN c1
                                             ELSE IF n = 2 THEN c2 ELSE c3]
  <1>1. NextBusinessDayStart(zone, t) = cursor[10]
    BY DEF NextBusinessDayStart, After
  <1>2. IsBusinessDay(LocalDay(zone, c3))
    BY Rounds
  <1> HIDE DEF c0
  <1>3. unrolled = Step(unrolled)
    <2> SUFFICES ASSUME NEW n \in 0 .. 10
                 PROVE  unrolled[n] = Step(unrolled)[n]
      OBVIOUS
    <2>1. CASE n = 0
      BY <2>1
    <2>2. CASE n = 1
      BY <2>2 DEF Round
    <2>3. CASE n = 2
      BY <2>3 DEF Round
    <2>4. CASE n = 3
      BY <2>4 DEF Round
    <2>5. CASE n > 3
      BY <1>2, <2>5
    <2>6. QED
      BY <2>1, <2>2, <2>3, <2>4, <2>5
  <1>4. cursor = Step(cursor)
    <2> HIDE DEF Step, unrolled
    <2>1. \E f : f = Step(f)
      BY <1>3
    <2>2. QED
      BY <2>1
  <1> HIDE DEF cursor
  <1>5. cursor[0] = c0
    BY <1>4
  <1> HIDE DEF c1, c2, c3
  <1>6. cursor[1] = c1
    BY <1>4, <1>5 DEF c1, Round
  <1>7. cursor[2] = c2
    BY <1>4, <1>6 DEF c2, Round
  <1>8. cursor[3] = c3
    BY <1>4, <1>7 DEF c3, Round
  <1>9. \A n \in 0 .. 9 : cursor[n] = c3 => cursor[n + 1] = c3
    BY <1>2, <1>4
  <1>10. cursor[4] = c3 /\ cursor[5] = c3 /\ cursor[6] = c3 /\ cursor[7] = c3
    BY <1>8, <1>9
  <1>11. cursor[8] = c3 /\ cursor[9] = c3 /\ cursor[10] = c3
    BY <1>9, <1>10
  <1>12. QED
    BY <1>1, <1>11 DEF c3, c2, c1, c0

LEMMA DueNext ==
    ASSUME NEW zone, IsZone(zone), NEW received \in Int
    PROVE  DueIsNextBusinessDay(zone, received)
  <1> DEFINE today == LocalDay(zone, received)
             First(day) == /\ day \in today + 1 .. today + 7 /\ IsBusinessDay(day)
                           /\ \A other \in today + 1 .. day - 1 : ~ IsBusinessDay(other)
             next == CHOOSE day : First(day)
  <1>1. PICK c \in Int :
          /\ c = NextBusinessDayStart(zone, received)
          /\ IsBusinessDay(LocalDay(zone, c))
          /\ LocalDay(zone, c) \in today + 1 .. today + 3
          /\ \A day \in today + 1 .. LocalDay(zone, c) - 1 : ~ IsBusinessDay(day)
    BY Rounds, Loop
  <1>2. today \in Int /\ LocalDay(zone, c) \in Int
    BY LocalFacts
  <1>3. First(LocalDay(zone, c))
    BY <1>1, <1>2
  <1>4. \A a, b : First(a) /\ First(b) => a = b
    <2> SUFFICES ASSUME NEW a, NEW b, First(a), First(b)
                 PROVE  a = b
      OBVIOUS
    <2>1. a \in Int /\ b \in Int
      BY <1>2
    <2>2. ~ (a < b) /\ ~ (b < a)
      BY <1>2, <2>1
    <2>3. QED
      BY <2>1, <2>2
  <1>5. next = LocalDay(zone, c)
    <2> HIDE DEF First
    <2> QED
      BY <1>3, <1>4
  <1>6. DueAt(zone, received) = LocalHourOnSameDay(zone, c, 17)
    BY <1>1 DEF DueAt
  <1>7. /\ LocalDay(zone, DueAt(zone, received)) = next
        /\ LocalTime(zone, DueAt(zone, received)) = 17 * Hour
    BY <1>1, <1>5, <1>6, FiveOClock DEF Hour
  <1>8. QED
    BY <1>7 DEF DueIsNextBusinessDay

-----------------------------------------------------------------------------
(* Addresses.                                                              *)

Segs == Segments \cup Locales \cup PageRoutes
Paths == {p \in Seq(Segs) : Len(p) > 0}

(* The empty segment between, or after, two slashes.                       *)
Slash == ""

(* The segment in a place, with as many slashes after a path as one likes. *)
Spot(path, i) == IF i \in 1 .. Len(path) THEN path[i] ELSE Slash

(* The definitions of the addresses, in its words.                         *)
LEMMA Slashes ==
    /\ Root = <<Slash>>
    /\ \A path :
          /\ Normalise(path) = IF Len(path) > 1 /\ path[Len(path)] = Slash
                               THEN SubSeq(path, 1, Len(path) - 1) ELSE path
          /\ IsPage(path) <=> /\ RouteOf(Head(path)) \in PageRoutes
                              /\ \A i \in 2 .. Len(path) : path[i] = Slash
    /\ \A path, address :
          SpellsOut(path, address) <=>
             /\ Len(path) >= Len(address)
             /\ \A i \in DOMAIN path :
                   RouteOf(path[i]) = IF i \in DOMAIN address THEN address[i] ELSE Slash
  BY Zenon DEF Slash, Root, Normalise, IsPage, SpellsOut

LEMMA Routes ==
    /\ Slash \in PageRoutes
    /\ \A page \in PageRoutes : RouteOf(page) = page
    /\ \A code \in Locales : RouteOf(code) = code /\ code \notin PageRoutes /\ code # NoPrefix
    /\ \A word : RouteOf(word) = Slash <=> word = Slash
    /\ DefaultLocale \in LaunchReady /\ LaunchReady \subseteq Locales
  <1>1. Slash \in PageRoutes /\ \A code \in Locales : code \notin PageRoutes /\ code # NoPrefix
    BY DEF PageRoutes, Locales, NoPrefix, Slash
  <1>2. \A word \in DOMAIN Spellings :
            /\ word \notin PageRoutes /\ word \notin Locales /\ word # Slash
            /\ RouteOf(word) # Slash
    <2>1. \A word \in DOMAIN Spellings : Spellings[word] # Slash
      BY SpellingsAssumption DEF Slash
    <2>2. QED
      BY <1>1, <2>1, SpellingsAssumption DEF RouteOf
  <1>3. \A word : word \notin DOMAIN Spellings => RouteOf(word) = word
    BY DEF RouteOf
  <1>4. QED
    BY <1>1, <1>2, <1>3, LaunchReadyAssumption

LEMMA PathFacts ==
    ASSUME NEW path \in Paths
    PROVE  /\ path \in Seq(Segs) /\ Len(path) \in Nat /\ Len(path) > 0
           /\ Head(path) = path[1] /\ Spot(path, 1) = path[1]
           /\ DOMAIN path = 1 .. Len(path)
  BY DEF Paths, Spot

(* A slash at the end is neither here nor there.                           *)
LEMMA NormaliseFacts ==
    ASSUME NEW path \in Paths
    PROVE  /\ Normalise(path) \in Paths
           /\ \A i \in Nat : Spot(Normalise(path), i) = Spot(path, i)
  <1> DEFINE n == Len(path)
             short == SubSeq(path, 1, n - 1)
  <1>1. path \in Seq(Segs) /\ n \in Nat /\ n > 0
    BY PathFacts
  <1>2. CASE n > 1 /\ path[n] = Slash
    <2>1. Normalise(path) = short
      BY <1>2, Slashes
    <2>2. short \in Seq(Segs) /\ Len(short) = n - 1
          /\ \A i \in 1 .. n - 1 : short[i] = path[i]
      BY <1>1, <1>2
    <2> HIDE DEF short
    <2>3. short \in Paths
      BY <1>1, <1>2, <2>2 DEF Paths
    <2>4. \A i \in Nat : Spot(short, i) = Spot(path, i)
      BY <1>1, <1>2, <2>2 DEF Spot
    <2>5. QED
      BY <2>1, <2>3, <2>4
  <1>3. CASE ~ (n > 1 /\ path[n] = Slash)
    BY <1>3, Slashes
  <1>4. QED
    BY <1>2, <1>3

LEMMA BeneathFacts ==
    ASSUME NEW path \in Paths
    PROVE  /\ Beneath(path) \in Paths
           /\ \A i \in Nat \ {0} : Spot(Beneath(path), i) = Spot(path, i + 1)
  <1> DEFINE n == Len(path)
             rest == Tail(path)
  <1>1. path \in Seq(Segs) /\ n \in Nat /\ n > 0
    BY PathFacts
  <1>2. CASE n = 1
    <2>1. Beneath(path) = <<Slash>> /\ Slash \in Segs
      BY <1>2, Routes, Slashes DEF Beneath, Segs
    <2>2. <<Slash>> \in Paths
      BY <2>1 DEF Paths
    <2>3. \A i \in Nat \ {0} : Spot(<<Slash>>, i) = Slash /\ Spot(path, i + 1) = Slash
      BY <1>2 DEF Spot
    <2>4. QED
      BY <2>1, <2>2, <2>3
  <1>3. CASE n # 1
    <2>1. Beneath(path) = rest
      BY <1>3 DEF Beneath
    <2>2. rest \in Seq(Segs) /\ Len(rest) = n - 1 /\ n - 1 > 0
          /\ \A i \in 1 .. n - 1 : rest[i] = path[i + 1]
      <3>1. path # <<>>
        BY <1>1
      <3>2. rest \in Seq(Segs) /\ Len(rest) = n - 1
        BY <1>1, <3>1
      <3>3. \A i \in 1 .. n - 1 : rest[i] = path[i + 1]
        BY <1>1, <3>1, <3>2
      <3>4. \A m \in Nat : m > 0 /\ m # 1 => m - 1 > 0
        OBVIOUS
      <3>5. n - 1 > 0
        BY <1>1, <1>3, <3>4, Zenon
      <3>6. QED
        BY <3>2, <3>3, <3>5
    <2> HIDE DEF rest
    <2>3. rest \in Paths
      BY <2>2 DEF Paths
    <2>4. \A i \in Nat \ {0} : Spot(rest, i) = Spot(path, i + 1)
      BY <1>1, <2>2 DEF Spot
    <2>5. QED
      BY <2>1, <2>3, <2>4
  <1>4. QED
    BY <1>2, <1>3

(* A path shows a page: its route, however spelt, and slashes.             *)
Shows(path, page) ==
    RouteOf(Spot(path, 1)) = page /\ \A i \in Nat : i > 1 => Spot(path, i) = Slash

LEMMA PageShows ==
    ASSUME NEW path \in Paths
    PROVE  /\ IsPage(path) => RouteOf(Head(path)) \in PageRoutes /\ Shows(path, RouteOf(Head(path)))
           /\ \A page \in PageRoutes :
                 Shows(path, page) => IsPage(path) /\ RouteOf(Head(path)) = page
  <1>1. Head(path) = Spot(path, 1) /\ Len(path) \in Nat
    BY PathFacts
  <1>2. (\A i \in 2 .. Len(path) : path[i] = Slash) <=> \A i \in Nat : i > 1 => Spot(path, i) = Slash
    BY <1>1 DEF Spot
  <1>3. QED
    BY <1>1, <1>2, Slashes DEF Shows

LEMMA NormaliseShows ==
    ASSUME NEW path \in Paths, NEW page
    PROVE  /\ Shows(Normalise(path), page) <=> Shows(path, page)
           /\ Shows(Beneath(Normalise(path)), page) <=> Shows(Beneath(path), page)
           /\ Head(Normalise(path)) = Head(path)
  <1> DEFINE plain == Normalise(path)
  <1>1. plain \in Paths /\ \A i \in Nat : Spot(plain, i) = Spot(path, i)
    BY NormaliseFacts
  <1> HIDE DEF plain
  <1>2. Shows(plain, page) <=> Shows(path, page)
    BY <1>1 DEF Shows
  <1>3. \A i \in Nat \ {0} : Spot(Beneath(plain), i) = Spot(Beneath(path), i)
    BY <1>1, BeneathFacts
  <1>4. Shows(Beneath(plain), page) <=> Shows(Beneath(path), page)
    BY <1>3 DEF Shows
  <1>5. Head(plain) = Head(path)
    BY <1>1, PathFacts
  <1>6. QED
    BY <1>2, <1>4, <1>5 DEF plain

(* A path is a way to write a page in a locale.                            *)
Writes(path, code, page) ==
    IF code = DefaultLocale THEN Shows(path, page)
    ELSE Spot(path, 1) = code /\ Shows(Beneath(path), page)

At(found, code, page) == [found |-> found, code |-> code, page |-> page]
Found(code, page) == [found |-> TRUE, code |-> code, page |-> <<page>>]

LEMMA FoundElsewhere ==
    ASSUME NEW code, NEW page, NEW other
    PROVE  /\ [Found(code, page) EXCEPT !.code = other] = Found(other, page)
           /\ [Found(code, page) EXCEPT !.page = <<other>>] = Found(code, other)
  <1>1. PICK found : found = TRUE
    OBVIOUS
  <1>2. \A c, p, o : /\ [At(found, c, p) EXCEPT !.code = o] = At(found, o, p)
                     /\ [At(found, c, p) EXCEPT !.page = o] = At(found, c, o)
    BY DEF At
  <1>3. \A c, p : Found(c, p) = At(found, c, <<p>>)
    BY <1>1, Zenon DEF Found, At
  <1>4. /\ Found(code, page) = At(found, code, <<page>>)
        /\ Found(other, page) = At(found, other, <<page>>)
        /\ Found(code, other) = At(found, code, <<other>>)
    BY <1>3
  <1>5. /\ [At(found, code, <<page>>) EXCEPT !.code = other] = At(found, other, <<page>>)
        /\ [At(found, code, <<page>>) EXCEPT !.page = <<other>>] = At(found, code, <<other>>)
    BY <1>2
  <1>6. QED
    BY <1>4, <1>5

(* What is parsed of a path with a prefix, and of one without.             *)
LEMMA Parsed ==
    ASSUME NEW path \in Paths, NEW parsed, parsed = ParseLocalePath(path)
    PROVE  /\ Head(path) \in Locales =>
                 /\ parsed.inner = Beneath(Normalise(path)) /\ parsed.prefix = Head(path)
                 /\ parsed.unavailable <=> (Head(path) = DefaultLocale
                                            \/ Head(path) \notin LaunchReady)
                 /\ Head(path) \in LaunchReady => parsed.code = Head(path)
           /\ Head(path) \notin Locales =>
                 /\ parsed.inner = Normalise(path) /\ parsed.prefix = NoPrefix
                 /\ parsed.code = DefaultLocale
  <1>1. Head(Normalise(path)) = Head(path)
    BY NormaliseShows
  <1>2. QED
    BY <1>1 DEF ParseLocalePath, ResolveLocale

(* Where a page in a locale is written, it is found.                       *)
LEMMA WrittenIsFound ==
    ASSUME NEW path \in Paths, NEW code \in LaunchReady, NEW page \in PageRoutes,
           Writes(path, code, page)
    PROVE  /\ PageAt(path) = Found(code, page)
           /\ ParseLocalePath(path).code = code
           /\ ParseLocalePath(path).inner \in Paths
           /\ Shows(ParseLocalePath(path).inner, page)
  <1> DEFINE parsed == ParseLocalePath(path)
  <1>1. Head(path) = Spot(path, 1) /\ code \in Locales
    BY PathFacts, Routes
  <1>2. CASE code = DefaultLocale
    <2>1. Shows(path, page) /\ IsPage(path) /\ RouteOf(Head(path)) = page
      BY <1>2, PageShows DEF Writes
    <2>2. Head(path) \notin Locales
      BY <2>1, Routes
    <2>3. parsed.inner = Normalise(path) /\ parsed.code = DefaultLocale
      BY <2>2, Parsed
    <2>4. Normalise(path) \in Paths /\ Shows(Normalise(path), page)
      BY <2>1, NormaliseFacts, NormaliseShows
    <2> HIDE DEF parsed
    <2>5. PageAt(path) = Found(code, page)
      BY <1>2, <2>1, <2>3 DEF PageAt, Found, parsed
    <2>6. QED
      BY <1>2, <2>3, <2>4, <2>5 DEF parsed
  <1>3. CASE code # DefaultLocale
    <2>1. Head(path) = code /\ Shows(Beneath(path), page)
      BY <1>1, <1>3 DEF Writes
    <2>2. /\ parsed.inner = Beneath(Normalise(path)) /\ parsed.prefix = code
          /\ ~ parsed.unavailable /\ parsed.code = code
      BY <1>1, <1>3, <2>1, Parsed
    <2>3. Beneath(Normalise(path)) \in Paths /\ Shows(Beneath(Normalise(path)), page)
      BY <2>1, NormaliseFacts, NormaliseShows, BeneathFacts
    <2>4. ~ IsPage(path)
      BY <1>1, <2>1, Routes, Slashes
    <2>5. IsPage(Beneath(path)) /\ RouteOf(Head(Beneath(path))) = page
      BY <2>1, BeneathFacts, PageShows
    <2> HIDE DEF parsed
    <2>6. ~ LocaleGateRefuses(parsed)
      BY <1>1, <2>2, Routes DEF LocaleGateRefuses
    <2>7. PageAt(path) = Found(code, page)
      BY <2>2, <2>4, <2>5, <2>6 DEF PageAt, Found, parsed
    <2>8. QED
      BY <2>2, <2>3, <2>7 DEF parsed
  <1>4. QED
    BY <1>2, <1>3

(* And what is found is written there.                                     *)
LEMMA FoundIsWritten ==
    ASSUME NEW path \in Paths, PageAt(path).found
    PROVE  \E code \in LaunchReady, page \in PageRoutes : Writes(path, code, page)
  <1> DEFINE parsed == ParseLocalePath(path)
  <1>1. Head(path) = Spot(path, 1) /\ DefaultLocale \in LaunchReady
    BY PathFacts, Routes
  <1>2. CASE IsPage(path)
    <2>1. RouteOf(Head(path)) \in PageRoutes /\ Shows(path, RouteOf(Head(path)))
      BY <1>2, PageShows
    <2>2. QED
      BY <1>1, <2>1 DEF Writes
  <1>3. CASE ~ IsPage(path)
    <2>1. ~ LocaleGateRefuses(parsed) /\ IsPage(Beneath(path))
      BY <1>3 DEF PageAt, NotFound
    <2>2. Head(path) \in Locales
      BY <2>1, Parsed DEF LocaleGateRefuses
    <2>3. Head(path) \in LaunchReady /\ Head(path) # DefaultLocale
      BY <2>1, <2>2, Parsed DEF LocaleGateRefuses
    <2>4. PICK page \in PageRoutes : Shows(Beneath(path), page)
      BY <2>1, BeneathFacts, PageShows
    <2>5. QED
      BY <1>1, <2>3, <2>4 DEF Writes
  <1>4. QED
    BY <1>2, <1>3

(* The built address writes the page of the path it is built of.           *)
LEMMA BuiltWrites ==
    ASSUME NEW code \in LaunchReady, NEW inner \in Paths, NEW page, Shows(inner, page)
    PROVE  /\ BuildLocalePath(code, inner) \in Paths
           /\ Writes(BuildLocalePath(code, inner), code, page)
  <1> DEFINE plain == Normalise(inner)
  <1>1. plain \in Paths /\ Shows(plain, page) /\ code \in Segs
    BY NormaliseFacts, NormaliseShows, Routes DEF Segs
  <1>2. CASE code = DefaultLocale
    BY <1>1, <1>2 DEF BuildLocalePath, Writes
  <1> HIDE DEF plain
  <1>3. CASE code # DefaultLocale /\ plain = Root
    <2>1. BuildLocalePath(code, inner) = <<code>>
      BY <1>3 DEF BuildLocalePath, plain
    <2>2. <<code>> \in Paths /\ Spot(<<code>>, 1) = code /\ Beneath(<<code>>) = Root
      BY <1>1 DEF Paths, Spot, Beneath
    <2>3. QED
      BY <1>1, <1>3, <2>1, <2>2 DEF Writes
  <1>4. CASE code # DefaultLocale /\ plain # Root
    <2> DEFINE built == <<code>> \o plain
    <2>1. BuildLocalePath(code, inner) = built
      BY <1>4 DEF BuildLocalePath, plain
    <2>2. plain \in Seq(Segs) /\ Len(plain) \in Nat /\ Len(plain) > 0
      BY <1>1, PathFacts
    <2>3. built \in Seq(Segs) /\ Len(built) = Len(plain) + 1 /\ built[1] = code
          /\ \A i \in 1 .. Len(plain) : built[i + 1] = plain[i]
      BY <1>1, <2>2
    <2> HIDE DEF built
    <2>4. built \in Paths /\ Spot(built, 1) = code
      BY <2>2, <2>3 DEF Paths, Spot
    <2>5. \A i \in Nat \ {0} : Spot(built, i + 1) = Spot(plain, i)
      BY <2>2, <2>3 DEF Spot
    <2>6. \A i \in Nat \ {0} : Spot(Beneath(built), i) = Spot(plain, i)
      BY <2>4, <2>5, BeneathFacts
    <2>7. Shows(Beneath(built), page)
      BY <1>1, <2>6 DEF Shows
    <2>8. QED
      BY <1>4, <2>1, <2>4, <2>7 DEF Writes
  <1>5. QED
    BY <1>2, <1>3, <1>4

LEMMA PlainPage ==
    ASSUME NEW page \in PageRoutes
    PROVE  <<page>> \in Paths /\ Normalise(<<page>>) = <<page>> /\ Shows(<<page>>, page)
  <1>1. <<page>> \in Paths /\ Len(<<page>>) = 1
    BY DEF Paths, Segs
  <1>2. Spot(<<page>>, 1) = page /\ \A i \in Nat : i > 1 => Spot(<<page>>, i) = Slash
    BY DEF Spot
  <1>3. QED
    BY <1>1, <1>2, Routes, Slashes DEF Shows

LEMMA Pairs ==
    ASSUME NEW a, NEW b
    PROVE  /\ Len(<<a, b>>) = 2 /\ Len(<<a, b>>) # 1 /\ <<a, b>>[2] = b
           /\ Head(<<a, b>>) = a /\ Tail(<<a, b>>) = <<b>> /\ <<a>> \o <<b>> = <<a, b>>
  <1> DEFINE S == {a, b}
             s == <<a>> \o <<b>>
  <1>1. /\ Len(<<a, b>>) = 2 /\ Len(<<a, b>>) # 1 /\ <<a, b>>[2] = b
        /\ Head(<<a, b>>) = a /\ Tail(<<a, b>>) = <<b>>
    OBVIOUS
  <1>2. <<a>> \in Seq(S) /\ <<b>> \in Seq(S) /\ Len(<<a>>) = 1 /\ Len(<<b>>) = 1
    OBVIOUS
  <1>3. s \in Seq(S) /\ Len(s) = 2 /\ s[1] = a /\ s[2] = b
    BY <1>2
  <1> HIDE DEF S, s
  <1>4. s = <<s[1], s[2]>>
    BY <1>3
  <1>5. QED
    BY <1>1, <1>3, <1>4 DEF s

(* Whatever writes a page in a locale spells out the address built for it. *)
LEMMA WrittenIsSpeltOut ==
    ASSUME NEW path \in Paths, NEW code \in LaunchReady, NEW page \in PageRoutes,
           Writes(path, code, page)
    PROVE  SpellsOut(path, BuildLocalePath(code, <<page>>))
  <1>1. /\ Len(path) \in Nat /\ Len(path) > 0 /\ DOMAIN path = 1 .. Len(path)
        /\ \A i \in DOMAIN path : i \in Nat /\ i > 0 /\ path[i] = Spot(path, i)
        /\ RouteOf(Slash) = Slash
    BY PathFacts, Routes DEF Spot
  <1>2. CASE code = DefaultLocale
    <2>1. BuildLocalePath(code, <<page>>) = <<page>>
      BY <1>2, PlainPage DEF BuildLocalePath
    <2>2. /\ RouteOf(Spot(path, 1)) = page
          /\ \A i \in Nat : i > 1 => Spot(path, i) = Slash
      BY <1>2 DEF Writes, Shows
    <2>3. \A i \in DOMAIN path : RouteOf(path[i]) = IF i \in {1} THEN page ELSE Slash
      BY <1>1, <2>2
    <2>4. DOMAIN <<page>> = {1} /\ <<page>>[1] = page /\ Len(<<page>>) = 1
      OBVIOUS
    <2>5. QED
      BY <1>1, <2>1, <2>3, <2>4, Slashes
  <1>3. CASE code # DefaultLocale
    <2>1. /\ Spot(path, 1) = code /\ RouteOf(code) = code
          /\ RouteOf(Spot(path, 2)) = page
          /\ \A i \in Nat : i > 2 => Spot(path, i) = Slash
      <3>1. Spot(path, 1) = code /\ Shows(Beneath(path), page) /\ RouteOf(code) = code
        BY <1>3, Routes DEF Writes
      <3>2. Spot(Beneath(path), 1) = Spot(path, 2)
        BY BeneathFacts
      <3>3. \A i \in Nat : i > 2 => /\ i - 1 \in Nat \ {0} /\ i - 1 > 1
                                    /\ (i - 1) + 1 = i
        OBVIOUS
      <3>4. \A i \in Nat : i > 2 => Spot(path, i) = Slash
        BY <3>1, <3>3, BeneathFacts DEF Shows
      <3>5. QED
        BY <3>1, <3>2, <3>4 DEF Shows
    <2>2. CASE page = Slash
      <3>1. BuildLocalePath(code, <<page>>) = <<code>>
        BY <1>3, <2>2, PlainPage, Slashes DEF BuildLocalePath
      <3>2. \A i \in DOMAIN path : RouteOf(path[i]) = IF i \in {1} THEN code ELSE Slash
        BY <1>1, <2>1, <2>2
      <3>3. DOMAIN <<code>> = {1} /\ <<code>>[1] = code /\ Len(<<code>>) = 1
        OBVIOUS
      <3>4. QED
        BY <1>1, <3>1, <3>2, <3>3, Slashes
    <2>3. CASE page # Slash
      <3>1. BuildLocalePath(code, <<page>>) = <<code, page>>
        <4>1. <<page>> # Root /\ <<code>> \o <<page>> = <<code, page>>
          BY <2>3, Pairs, Slashes
        <4>2. QED
          BY <1>3, <4>1, PlainPage DEF BuildLocalePath
      <3>2. Len(path) >= 2
        BY <1>1, <2>1, <2>3 DEF Spot
      <3>3. \A i \in DOMAIN path :
                RouteOf(path[i]) = IF i = 1 THEN code ELSE IF i = 2 THEN page ELSE Slash
        BY <1>1, <2>1
      <3>4. DOMAIN <<code, page>> = {1, 2} /\ Len(<<code, page>>) = 2
            /\ <<code, page>>[1] = code /\ <<code, page>>[2] = page
        OBVIOUS
      <3>5. QED
        BY <3>1, <3>2, <3>3, <3>4, Slashes
    <2>4. QED
      BY <2>2, <2>3
  <1>4. QED
    BY <1>2, <1>3

LEMMA OneAddress ==
    ASSUME NEW path \in Paths
    PROVE  IsOneAddress(path)
  <1> DEFINE here == PageAt(path)
             own == Canonical(here.code, here.page)
  <1> SUFFICES ASSUME here.found
               PROVE  /\ PageAt(own) = here /\ SpellsOut(path, own)
                      /\ \A to \in LaunchReady :
                            /\ PageAt(Alternates(here.page)[to]) = [here EXCEPT !.code = to]
                            /\ PageAt(LocaleEquivalentUrl(to, path)) = [here EXCEPT !.code = to]
                      /\ \A to \in PageRoutes :
                            PageAt(LocalePath(path, <<to>>)) = [here EXCEPT !.page = <<to>>]
    BY DEF IsOneAddress
  <1>1. PICK code \in LaunchReady, page \in PageRoutes : Writes(path, code, page)
    BY FoundIsWritten
  <1>2. /\ here = Found(code, page)
        /\ ParseLocalePath(path).code = code
        /\ ParseLocalePath(path).inner \in Paths
        /\ Shows(ParseLocalePath(path).inner, page)
    BY <1>1, WrittenIsFound
  <1> HIDE DEF here
  <1>3. here.code = code /\ here.page = <<page>>
    BY <1>2 DEF Found
  <1>4. ASSUME NEW to \in LaunchReady, NEW inner \in Paths, NEW shown \in PageRoutes,
               Shows(inner, shown)
        PROVE  PageAt(BuildLocalePath(to, inner)) = Found(to, shown)
    BY <1>4, BuiltWrites, WrittenIsFound
  <1>5. own = BuildLocalePath(code, <<page>>)
    BY <1>3 DEF Canonical
  <1>6. PageAt(own) = here /\ SpellsOut(path, own)
    BY <1>1, <1>2, <1>4, <1>5, PlainPage, WrittenIsSpeltOut
  <1>7. ASSUME NEW to \in LaunchReady
        PROVE  /\ PageAt(Alternates(here.page)[to]) = [here EXCEPT !.code = to]
               /\ PageAt(LocaleEquivalentUrl(to, path)) = [here EXCEPT !.code = to]
    <2>1. [here EXCEPT !.code = to] = Found(to, page)
      BY <1>2, FoundElsewhere
    <2>2. Alternates(here.page)[to] = BuildLocalePath(to, <<page>>)
      BY <1>3 DEF Alternates, Canonical
    <2>3. QED
      BY <1>2, <1>4, <2>1, <2>2, PlainPage DEF LocaleEquivalentUrl
  <1>8. ASSUME NEW to \in PageRoutes
        PROVE  PageAt(LocalePath(path, <<to>>)) = [here EXCEPT !.page = <<to>>]
    <2>1. Writes(<<to>>, DefaultLocale, to) /\ <<to>> \in Paths /\ DefaultLocale \in LaunchReady
      BY PlainPage, Routes DEF Writes
    <2>2. ParseLocalePath(<<to>>).inner \in Paths /\ Shows(ParseLocalePath(<<to>>).inner, to)
      BY <2>1, WrittenIsFound
    <2>3. LocalePath(path, <<to>>) = BuildLocalePath(code, ParseLocalePath(<<to>>).inner)
      BY <1>2 DEF LocalePath, LocaleEquivalentUrl
    <2>4. PageAt(LocalePath(path, <<to>>)) = Found(code, to)
      BY <1>4, <2>2, <2>3
    <2>5. [here EXCEPT !.page = <<to>>] = [Found(code, page) EXCEPT !.page = <<to>>]
      BY <1>2
    <2>6. [Found(code, page) EXCEPT !.page = <<to>>] = Found(code, to)
      BY FoundElsewhere
    <2>7. QED
      BY <2>4, <2>5, <2>6
  <1>9. QED
    BY <1>6, <1>7, <1>8

-----------------------------------------------------------------------------
(* The settings of the backend.                                            *)

Settings == {props \in [PropKeys -> {"", "set", "one", "bad"}] :
                \A key \in PropKeys : props[key] \in Texts(key) \cup {""}}

LEMMA Keys ==
    /\ {"SHEET_ID", "CALENDAR_ID", "PARTNER_NOTIFY_TO", "PARTNER_EMAIL_MAP", "REPLY_TO",
        "FROM_NAME", "FIRM_EMAIL", "WEBSITE_URL", "RUN_MODE", "LOGO_URL", "FIRM_PHONE",
        "PARTNER_DIRECT_EMAIL_MAP", "PARTNER_DIRECT_PHONE_MAP"} = PropKeys
    /\ DOMAIN PropertySchema = {"SHEET_ID", "CALENDAR_ID", "PARTNER_NOTIFY_TO",
        "PARTNER_EMAIL_MAP", "REPLY_TO", "FROM_NAME", "FIRM_EMAIL", "WEBSITE_URL", "RUN_MODE"}
    /\ WarningTier = {"LOGO_URL", "FIRM_PHONE",
        "PARTNER_DIRECT_EMAIL_MAP", "PARTNER_DIRECT_PHONE_MAP"}
  BY DEF PropKeys, Maps, Plain, PropertySchema, WarningTier

(* Of a text that reads well something is left.                            *)
LEMMA PresentIs ==
    ASSUME NEW props \in Settings, NEW key \in PropKeys
    PROVE  /\ Present(props, key) => props[key] # ""
           /\ props[key] \notin {"", "bad"} => Present(props, key)
           /\ key \notin {"PARTNER_EMAIL_MAP", "PARTNER_NOTIFY_TO"} =>
                (Present(props, key) <=> props[key] # "")
           /\ key = "PARTNER_NOTIFY_TO" => (Present(props, key) <=> props[key] = "set")
  <1>1. PartnerTokens # {} /\ Addressees # <<>>
    BY SettingsAssumption
  <1>2. CASE key = "PARTNER_EMAIL_MAP"
    <2>1. props[key] \in {"", "set", "one", "bad"}
      BY <1>2, Keys DEF Settings
    <2>2. ParsePartnerEmailMap(props[key]) # {} <=> props[key] \in {"set", "one"}
      BY <1>1, <2>1 DEF ParsePartnerEmailMap
    <2>3. QED
      BY <1>2, <2>1, <2>2 DEF Present
  <1>3. CASE key = "PARTNER_NOTIFY_TO"
    <2>1. props[key] \in {"", "set", "bad"}
      BY <1>3, Keys DEF Settings, Texts, Plain, Maps
    <2>2. SplitList(props[key]) # <<>> <=> props[key] = "set"
      BY <1>1, <2>1 DEF SplitList
    <2>3. QED
      BY <1>3, <2>1, <2>2 DEF Present
  <1>4. CASE key \notin {"PARTNER_EMAIL_MAP", "PARTNER_NOTIFY_TO"}
    BY <1>4 DEF Present
  <1>5. QED
    BY <1>2, <1>3, <1>4

(* The two lists, written by hand in two files, name the same needs.       *)
LEMMA ListsAgree ==
    ASSUME NEW c \in Capabilities
    PROVE  /\ Needs(c) \subseteq PropKeys
           /\ Needs(c) = {key \in DOMAIN PropertySchema : c \in PropertySchema[key]}
  <1>1. CASE c = "intake"
    BY <1>1, Keys DEF Needs, PropertySchema
  <1>2. CASE c = "notify"
    BY <1>2, Keys DEF Needs, PropertySchema
  <1>3. CASE c = "acknowledge"
    BY <1>3, Keys DEF Needs, PropertySchema
  <1>4. CASE c = "booking"
    BY <1>4, Keys DEF Needs, PropertySchema
  <1>5. CASE c = "qr_acknowledge"
    BY <1>5, Keys DEF Needs, PropertySchema
  <1>6. CASE c = "digest"
    BY <1>6, Keys DEF Needs, PropertySchema
  <1>7. QED
    BY <1>1, <1>2, <1>3, <1>4, <1>5, <1>6 DEF Capabilities

LEMMA SettingsFacts ==
    ASSUME NEW props \in Settings
    PROVE  SettingsAgree(props)
  <1> DEFINE readsWell == \A key \in PropKeys : props[key] # "bad"
             absent == {key \in PropKeys : props[key] = ""}
  <1>1. ASSUME readsWell, NEW c \in Capabilities
        PROVE  MissingConfigFor(props, c)
                 = {key \in absent \cap DOMAIN PropertySchema : c \in PropertySchema[key]}
    <2>1. \A key \in PropKeys : Present(props, key) <=> props[key] # ""
      BY <1>1, PresentIs
    <2>2. Needs(c) \subseteq PropKeys
          /\ Needs(c) = {key \in DOMAIN PropertySchema : c \in PropertySchema[key]}
      BY ListsAgree
    <2>3. QED
      BY <2>1, <2>2 DEF MissingConfigFor
  <1>2. ASSUME readsWell
        PROVE  VerifyProperties(props).ok
                 <=> DoGet(props) = [runMode |-> "live", health |-> Capabilities]
    <2>1. DoGet(props) = [runMode |-> "live", health |-> Capabilities]
            <=> RunMode(props) = "live" /\ Health(props) = Capabilities
      BY DEF DoGet
    <2>2. RunMode(props) = "live" <=> props["RUN_MODE"] # ""
      <3>1. props["RUN_MODE"] \in {"", "set"}
        BY <1>2, Keys DEF Settings, Texts, Plain, Maps
      <3>2. QED
        BY <3>1 DEF RunMode
    <2>3. Health(props) = Capabilities
            <=> \A c \in Capabilities : MissingConfigFor(props, c) = {}
      BY DEF Health, IsConfigured
    <2>4. (\A c \in Capabilities : MissingConfigFor(props, c) = {})
            <=> \A key \in DOMAIN PropertySchema \ {"RUN_MODE"} : props[key] # ""
      <3>1. \A key \in DOMAIN PropertySchema \ {"RUN_MODE"} :
              key \in PropKeys /\ \E c \in Capabilities : c \in PropertySchema[key]
        BY Keys DEF PropertySchema, Capabilities
      <3>2. \A c \in Capabilities : c \notin PropertySchema["RUN_MODE"]
        BY DEF PropertySchema, Capabilities
      <3>3. QED
        BY <1>1, <1>2, <3>1, <3>2
    <2>5. VerifyProperties(props).ok <=> \A key \in DOMAIN PropertySchema : props[key] # ""
      BY DEF VerifyProperties
    <2>6. "RUN_MODE" \in DOMAIN PropertySchema
      BY Keys
    <2>7. QED
      BY <2>1, <2>2, <2>3, <2>4, <2>5, <2>6
  <1>3. VerifyProperties(props).warnings \subseteq Warnings(props)
    <2>1. VerifyProperties(props).warnings = {key \in WarningTier : props[key] = ""}
      BY DEF VerifyProperties
    <2>2. ParsePartnerEmailMap("") # PartnerTokens
      BY SettingsAssumption DEF ParsePartnerEmailMap
    <2>3. QED
      BY <2>1, <2>2, Keys DEF Warnings
  <1>4. "intake" \in DoGet(props).health <=> BuildDepsSafely(props) = "OK"
    <2>1. DoGet(props).health = Health(props)
      BY DEF DoGet
    <2>2. "intake" \in Health(props) <=> Present(props, "SHEET_ID")
      BY DEF Health, Capabilities, IsConfigured, MissingConfigFor, Needs
    <2>3. Present(props, "SHEET_ID") <=> props["SHEET_ID"] # ""
      BY PresentIs, Keys
    <2>4. QED
      BY <2>1, <2>2, <2>3 DEF BuildDepsSafely, NoSpreadsheet
  <1>5. ASSUME Health(props) \cap {"notify", "acknowledge", "qr_acknowledge"} # {}
        PROVE  MailWired(props)
    <2>1. Needs("acknowledge") \subseteq Needs("qr_acknowledge")
      BY DEF Needs
    <2>2. IsConfigured(props, "qr_acknowledge") => IsConfigured(props, "acknowledge")
      BY <2>1 DEF IsConfigured, MissingConfigFor
    <2>3. QED
      BY <1>5, <2>2 DEF Health, MailWired
  <1>6. "booking" \in Health(props) => CalendarWired(props)
    BY DEF Health, CalendarWired
  <1>7. ASSUME "notify" \in Health(props)
        PROVE  ResolveRecipients(props) # {}
    <2>1. Present(props, "PARTNER_NOTIFY_TO")
      BY <1>7 DEF Health, IsConfigured, MissingConfigFor, Needs
    <2>2. SplitList(props["PARTNER_NOTIFY_TO"]) # <<>>
      BY <2>1 DEF Present
    <2>3. SplitList(props["PARTNER_NOTIFY_TO"]) = Addressees
      BY <2>2 DEF SplitList
    <2>4. Addressees \in Seq(STRING) /\ Addressees # <<>>
      BY SettingsAssumption
    <2>5. 1 \in DOMAIN Addressees
      BY <2>4
    <2>6. QED
      BY <2>3, <2>5 DEF ResolveRecipients
  <1>8. QED
    BY <1>1, <1>2, <1>3, <1>4, <1>5, <1>6, <1>7 DEF SettingsAgree

-----------------------------------------------------------------------------
(* A page, however it was built, whatever its address asks the simulator   *)
(* for and whichever of its clients it has used.                           *)

KindOf(page) ==
    IF Dev(page) /\ ~ NetworkEnabled(page) THEN "simulator" ELSE CreateTransport(page).kind

ClientOf(page, client) ==
    client # NoClient =>
        /\ client.kind = KindOf(page)
        /\ client.kind = "network" => client.endpoint = "v2"

BuildInv(page) ==
    /\ page = [app |-> page.app, command |-> page.command, mode |-> page.mode,
               v1 |-> page.v1, v2 |-> page.v2, submit |-> page.submit, book |-> page.book,
               clients |-> page.clients]
    /\ page.command \in Commands /\ page.mode \in Modes /\ page.v2 \in BOOLEAN
    /\ page.clients = [which \in ClientsOf(page.app) |-> page.clients[which]]
    /\ Runs(page)
    /\ \A which \in ClientsOf(page.app) : ClientOf(page, page.clients[which])

(* The network client would believe what the simulator says.               *)
LEMMA SimulatedIsRead ==
    /\ \A kind \in {"service_inquiry", "contact_exchange"} :
          LET sent == [id |-> "s", kind |-> kind]
          IN T!Read(SimulatedSuccess(sent), sent).outcome = "ok"
    /\ LET sent == [id |-> "s", kind |-> "booking_request"]
       IN T!ReadBooking(SimulatedBooking(sent), sent).outcome = "ok"
  <1>1. ASSUME NEW kind \in {"service_inquiry", "contact_exchange"}, NEW sent,
               sent = [id |-> "s", kind |-> kind]
        PROVE  T!Read(SimulatedSuccess(sent), sent).outcome = "ok"
    <2>1. SimulatedSuccess(sent).ok
      BY DEF SimulatedSuccess
    <2>2. T!IsValidSuccess(SimulatedSuccess(sent), sent)
      BY <1>1 DEF T!IsValidSuccess, SimulatedSuccess
    <2>3. T!Read(SimulatedSuccess(sent), sent) = T!Result("ok", FALSE)
      BY <2>1, <2>2 DEF T!Read
    <2>4. QED
      BY <2>3 DEF T!Result
  <1>2. ASSUME NEW sent, sent = [id |-> "s", kind |-> "booking_request"]
        PROVE  T!ReadBooking(SimulatedBooking(sent), sent).outcome = "ok"
    <2>1. T!ReadBooking(SimulatedBooking(sent), sent) = T!Result("ok", FALSE)
      BY <1>2 DEF T!ReadBooking, SimulatedBooking
    <2>2. QED
      BY <2>1 DEF T!Result
  <1>3. QED
    BY <1>1, <1>2

LEMMA KindFacts ==
    ASSUME NEW page, page.command \in Commands, page.mode \in Modes, page.v2 \in BOOLEAN,
           Runs(page)
    PROVE  /\ page.command = "build" =>
                  KindOf(page) = (IF page.v2 /\ page.mode # "development" THEN "network"
                                                                          ELSE "not_configured")
           /\ page.mode = "development" => KindOf(page) # "network"
           /\ page.mode = "e2e" => KindOf(page) = "network"
  <1>1. CASE page.mode = "development"
    <2>1. ResolveEndpoint(page) = [endpoint |-> NoEndpoint, e2e |-> FALSE, runs |-> TRUE]
      BY <1>1 DEF ResolveEndpoint
    <2>2. CreateTransport(page).kind = "not_configured"
      BY <2>1 DEF CreateTransport
    <2>3. page.command = "build" => ~ Dev(page)
      BY DEF Dev
    <2>4. QED
      BY <1>1, <2>2, <2>3 DEF KindOf
  <1>2. CASE page.mode = "e2e"
    <2>1. ResolveEndpoint(page)
            = [endpoint |-> LoadEnv(page), e2e |-> TRUE, runs |-> LoadEnv(page) # NoEndpoint]
      BY <1>2 DEF ResolveEndpoint
    <2>2. LoadEnv(page) # NoEndpoint /\ ResolveEndpoint(page).endpoint # NoEndpoint
      <3>1. ResolveEndpoint(page).runs = (LoadEnv(page) # NoEndpoint)
        BY <2>1
      <3>2. LoadEnv(page) # NoEndpoint
        BY <3>1 DEF Runs
      <3>3. QED
        BY <2>1, <3>2
    <2>3. NetworkEnabled(page)
      BY <2>1 DEF NetworkEnabled
    <2>4. CreateTransport(page).kind = "network" /\ page.v2
      BY <2>2, <2>3 DEF CreateTransport, LoadEnv
    <2>5. QED
      BY <1>2, <2>3, <2>4 DEF KindOf
  <1>3. CASE page.mode \notin {"development", "e2e"}
    <2>1. ResolveEndpoint(page) = [endpoint |-> LoadEnv(page), e2e |-> FALSE, runs |-> TRUE]
      BY <1>3 DEF ResolveEndpoint
    <2>2. ASSUME page.command = "build"
          PROVE  KindOf(page) = IF page.v2 THEN "network" ELSE "not_configured"
      <3>1. ~ Dev(page) /\ NetworkEnabled(page)
        BY <2>2 DEF Dev, NetworkEnabled
      <3>2. ResolveEndpoint(page).endpoint = LoadEnv(page)
        BY <2>1
      <3>3. LoadEnv(page) # NoEndpoint <=> page.v2
        BY DEF LoadEnv, NoEndpoint
      <3>4. CreateTransport(page).kind = IF page.v2 THEN "network" ELSE "not_configured"
        BY <3>1, <3>2, <3>3 DEF CreateTransport
      <3>5. QED
        BY <3>1, <3>4 DEF KindOf
    <2>3. QED
      BY <1>3, <2>2
  <1>4. QED
    BY <1>1, <1>2, <1>3

LEMMA PageHonest ==
    ASSUME NEW page, BuildInv(page)
    PROVE  PageIsHonest(page)
  <1>1. /\ page.command \in Commands /\ page.mode \in Modes /\ page.v2 \in BOOLEAN
        /\ Runs(page)
    BY DEF BuildInv
  <1> DEFINE made == {page.clients[which] : which \in ClientsOf(page.app)} \ {NoClient}
             Sent(kind) == [id |-> "s", kind |-> kind]
  <1>2. \A c \in made : /\ c.kind = KindOf(page)
                        /\ c.kind = "network" => c.endpoint = "v2"
    BY DEF BuildInv, ClientOf
  <1>3. \A a, b \in made : a.kind = b.kind
    BY <1>2
  <1>4. ASSUME NEW c \in made
        PROVE  /\ page.command = "build" =>
                  c.kind = (IF page.v2 /\ page.mode # "development" THEN "network"
                                                                    ELSE "not_configured")
               /\ page.mode = "development" => c.kind # "network"
               /\ page.mode = "e2e" => c.kind = "network"
               /\ c.kind = "network" => c.endpoint = "v2"
    <2>1. /\ c.kind = KindOf(page)
          /\ c.kind = "network" => c.endpoint = "v2"
      BY <1>2
    <2>2. QED
      BY <1>1, <2>1, KindFacts
  <1>5. ASSUME page.command = "build", NEW code \in AuditCandidates
        PROVE  LoadAuditCandidate(page, code) = "null"
    BY <1>5 DEF LoadAuditCandidate, AuditCatalogAlias
  <1>6. \A kind \in {"service_inquiry", "contact_exchange"} :
            T!Read(SimulatedSuccess(Sent(kind)), Sent(kind)).outcome = "ok"
    BY SimulatedIsRead
  <1>7. T!ReadBooking(SimulatedBooking(Sent("booking_request")),
                      Sent("booking_request")).outcome = "ok"
    BY SimulatedIsRead
  <1> HIDE DEF Sent, made
  <1>8. QED
    BY <1>3, <1>4, <1>5, <1>6, <1>7 DEF PageIsHonest, Sent, made

(* What a client is depends on the build alone.                            *)
LEMMA SameBuild ==
    ASSUME NEW page, NEW other, other.command = page.command, other.mode = page.mode,
           other.v2 = page.v2
    PROVE  /\ Runs(other) = Runs(page)
           /\ KindOf(other) = KindOf(page)
  <1>1. ResolveEndpoint(other) = ResolveEndpoint(page)
    BY DEF ResolveEndpoint, LoadEnv
  <1>2. Dev(other) = Dev(page) /\ NetworkEnabled(other) = NetworkEnabled(page)
    BY <1>1 DEF Dev, NetworkEnabled
  <1>3. CreateTransport(other) = CreateTransport(page)
    BY <1>1, <1>2 DEF CreateTransport
  <1>4. QED
    BY <1>1, <1>2, <1>3 DEF Runs, KindOf

LEMMA LoadedInv ==
    ASSUME NEW app, NEW command \in Commands, NEW mode \in Modes, NEW v1 \in BOOLEAN,
           NEW v2 \in BOOLEAN, Runs(Loaded(app, command, mode, v1, v2))
    PROVE  BuildInv(Loaded(app, command, mode, v1, v2))
  <1> DEFINE page == Loaded(app, command, mode, v1, v2)
  <1>1. page = [app |-> app, command |-> command, mode |-> mode, v1 |-> v1, v2 |-> v2,
                submit |-> NoFixture, book |-> NoFixture,
                clients |-> [which \in ClientsOf(app) |-> NoClient]]
    BY DEF Loaded
  <1>2. \A which \in ClientsOf(page.app) : page.clients[which] = NoClient
    BY <1>1
  <1>3. \A which \in ClientsOf(page.app) : ClientOf(page, page.clients[which])
    BY <1>2 DEF ClientOf
  <1>4. page.clients = [which \in ClientsOf(page.app) |-> page.clients[which]]
    BY <1>1
  <1>5. Runs(page)
    OBVIOUS
  <1>6. /\ page.app = app /\ page.command = command /\ page.mode = mode /\ page.v1 = v1
        /\ page.v2 = v2 /\ page.submit = NoFixture /\ page.book = NoFixture
        /\ page.clients = [which \in ClientsOf(app) |-> NoClient]
    BY <1>1
  <1> HIDE DEF page
  <1>7. BuildInv(page)
    BY <1>1, <1>3, <1>4, <1>5, <1>6 DEF BuildInv
  <1>8. QED
    BY <1>7 DEF page

(* The kind that a client has when it is made.                             *)
LEMMA TransportKind ==
    ASSUME NEW page, NEW which
    PROVE  ClientOf(page, BuildTransport(page, which))
  <1>1. CASE Dev(page) /\ ~ NetworkEnabled(page)
    <2>1. BuildTransport(page, which) = [kind |-> "simulator", fixture |-> DevFixture(page, which)]
      BY <1>1 DEF BuildTransport
    <2>2. BuildTransport(page, which).kind = "simulator"
      BY <2>1
    <2>3. KindOf(page) = "simulator"
      BY <1>1 DEF KindOf
    <2>4. QED
      BY <2>2, <2>3 DEF ClientOf
  <1>2. CASE ~ (Dev(page) /\ ~ NetworkEnabled(page))
    <2>1. BuildTransport(page, which) = CreateTransport(page)
      BY <1>2 DEF BuildTransport
    <2>2. KindOf(page) = CreateTransport(page).kind
      BY <1>2 DEF KindOf
    <2>3. ResolveEndpoint(page).endpoint \in {NoEndpoint, LoadEnv(page)}
      <3>1. CASE page.mode = "development"
        BY <3>1 DEF ResolveEndpoint
      <3>2. CASE page.mode = "e2e"
        BY <3>2 DEF ResolveEndpoint
      <3>3. CASE page.mode \notin {"development", "e2e"}
        BY <3>3 DEF ResolveEndpoint
      <3>4. QED
        BY <3>1, <3>2, <3>3
    <2>4. ResolveEndpoint(page).endpoint # NoEndpoint => ResolveEndpoint(page).endpoint = "v2"
      BY <2>3 DEF LoadEnv
    <2>5. CreateTransport(page).kind = "network" => CreateTransport(page).endpoint = "v2"
      BY <2>4 DEF CreateTransport
    <2>6. QED
      BY <2>1, <2>2, <2>5 DEF ClientOf
  <1>3. QED
    BY <1>1, <1>2

LEMMA AskInv ==
    ASSUME NEW page, BuildInv(page), NEW submit, NEW book
    PROVE  BuildInv([page EXCEPT !.submit = submit, !.book = book])
  <1> DEFINE other == [page EXCEPT !.submit = submit, !.book = book]
  <1>1. other = [app |-> page.app, command |-> page.command, mode |-> page.mode,
                 v1 |-> page.v1, v2 |-> page.v2, submit |-> submit, book |-> book,
                 clients |-> page.clients]
    <2>1. page = [app |-> page.app, command |-> page.command, mode |-> page.mode,
                  v1 |-> page.v1, v2 |-> page.v2, submit |-> page.submit,
                  book |-> page.book, clients |-> page.clients]
      BY DEF BuildInv
    <2> DEFINE first == [page EXCEPT !.submit = submit]
    <2>2. first = [app |-> page.app, command |-> page.command, mode |-> page.mode,
                   v1 |-> page.v1, v2 |-> page.v2, submit |-> submit,
                   book |-> page.book, clients |-> page.clients]
      BY <2>1
    <2>3. other = [first EXCEPT !.book = book]
      OBVIOUS
    <2> HIDE DEF first
    <2>4. [first EXCEPT !.book = book]
            = [app |-> page.app, command |-> page.command, mode |-> page.mode,
               v1 |-> page.v1, v2 |-> page.v2, submit |-> submit, book |-> book,
               clients |-> page.clients]
      BY <2>2
    <2>5. QED
      BY <2>3, <2>4
  <1>2. /\ other.app = page.app /\ other.command = page.command /\ other.mode = page.mode
        /\ other.v1 = page.v1 /\ other.v2 = page.v2 /\ other.submit = submit
        /\ other.book = book /\ other.clients = page.clients
    BY <1>1
  <1> HIDE DEF other
  <1>3. Runs(other) = Runs(page) /\ KindOf(other) = KindOf(page)
    BY <1>2, SameBuild
  <1>4. \A which \in ClientsOf(page.app) : ClientOf(other, page.clients[which])
    BY <1>3 DEF BuildInv, ClientOf
  <1>5. BuildInv(other)
    BY <1>1, <1>2, <1>3, <1>4 DEF BuildInv
  <1>6. QED
    BY <1>5 DEF other

LEMMA UseInv ==
    ASSUME NEW page, BuildInv(page), NEW which \in ClientsOf(page.app)
    PROVE  BuildInv(GetClient(page, which))
  <1>1. CASE page.clients[which] # NoClient
    BY <1>1 DEF GetClient
  <1>2. CASE page.clients[which] = NoClient
    <2> DEFINE made == BuildTransport(page, which)
               clients == [page.clients EXCEPT ![which] = made]
               other == [page EXCEPT !.clients[which] = made]
    <2> HIDE DEF made
    <2>1. other = [app |-> page.app, command |-> page.command, mode |-> page.mode,
                   v1 |-> page.v1, v2 |-> page.v2, submit |-> page.submit,
                   book |-> page.book, clients |-> clients]
      <3>1. other = [page EXCEPT !.clients = clients]
        OBVIOUS
      <3> HIDE DEF clients
      <3>2. [page EXCEPT !.clients = clients]
              = [app |-> page.app, command |-> page.command, mode |-> page.mode,
                 v1 |-> page.v1, v2 |-> page.v2, submit |-> page.submit,
                 book |-> page.book, clients |-> clients]
        BY DEF BuildInv
      <3>3. QED
        BY <3>1, <3>2
    <2>2. GetClient(page, which) = other
      BY <1>2 DEF GetClient, made
    <2>3. /\ clients = [w \in ClientsOf(page.app) |-> clients[w]]
          /\ \A w \in ClientsOf(page.app) :
                clients[w] = IF w = which THEN made ELSE page.clients[w]
      BY DEF BuildInv
    <2> HIDE DEF clients
    <2>4. /\ other.app = page.app /\ other.command = page.command /\ other.mode = page.mode
          /\ other.v1 = page.v1 /\ other.v2 = page.v2 /\ other.submit = page.submit
          /\ other.book = page.book /\ other.clients = clients
      BY <2>1
    <2> HIDE DEF other
    <2>5. Runs(other) = Runs(page) /\ KindOf(other) = KindOf(page)
      BY <2>4, SameBuild
    <2>6. ClientOf(page, made)
      BY TransportKind DEF made
    <2>7. \A w \in ClientsOf(page.app) : ClientOf(other, clients[w])
      BY <2>3, <2>5, <2>6 DEF BuildInv, ClientOf
    <2>8. BuildInv(other)
      BY <2>1, <2>3, <2>4, <2>5, <2>7 DEF BuildInv
    <2>9. QED
      BY <2>2, <2>8
  <1>3. QED
    BY <1>1, <1>2

-----------------------------------------------------------------------------
(* The boundary lets every request of the booking client through.          *)
LEMMA BookingRequestOk ==
    ASSUME NEW mode \in BookingModes
    PROVE  ValidateBookingRequest(BookingRequest(mode)) = Ok
  <1> DEFINE body == BookingRequest(mode)
  <1>1. /\ body.serverOwned = {"leadId"} /\ body.bookingRequestId = TRUE
        /\ body.leadId = TRUE /\ body.slotStart = "offset"
        /\ body.durationMinutes = 30 /\ body.mode = mode
    BY DEF BookingRequest, Slot
  <1> HIDE DEF body
  <1>2. NoServerOwned(body, {"leadId"}) = Ok
    BY <1>1 DEF NoServerOwned, Require
  <1>3. Require(body.bookingRequestId, "INVALID_UUID") = Ok
    BY <1>1 DEF Require
  <1>4. Require(body.leadId, "INVALID_UUID") = Ok
    BY <1>1 DEF Require
  <1>5. Require(body.slotStart = "offset", "INVALID_TIMESTAMP") = Ok
    BY <1>1 DEF Require
  <1>6. Require(body.durationMinutes \in 1 .. MaxMinutes, "INVALID_DURATION") = Ok
    BY <1>1 DEF Require, MaxMinutes
  <1>7. RequireToken(body.mode, BookingModes) = Ok
    <2>1. mode \notin DisplayStrings
      BY DEF BookingModes, DisplayStrings
    <2>2. QED
      BY <1>1, <2>1 DEF RequireToken, Require, &&
  <1>8. ValidateBookingRequest(body) = Ok
    BY <1>2, <1>3, <1>4, <1>5, <1>6, <1>7 DEF ValidateBookingRequest, &&
  <1>9. QED
    BY <1>8 DEF body

-----------------------------------------------------------------------------
(* The letters, of any record, with any settings.                          *)

LEMMA Stated ==
    ASSUME NEW part, NEW field, NEW what, <<field, what>> \in part
    PROVE  field \in About(part)
  <1>1. <<field, what>>[1] = field
    OBVIOUS
  <1>2. QED
    BY <1>1, Zenon DEF About

(* A part in which every statement is one of some fields.                  *)
LEMMA AboutNoMore ==
    ASSUME NEW part, NEW fields, \A s \in part : \E f \in fields : \E what : s = <<f, what>>
    PROVE  About(part) \subseteq fields
  <1>1. ASSUME NEW s \in part PROVE s[1] \in fields
    <2>1. PICK f \in fields : \E what : s = <<f, what>>
      OBVIOUS
    <2>2. PICK what : s = <<f, what>>
      BY <2>1
    <2>3. <<f, what>>[1] = f
      OBVIOUS
    <2>4. QED
      BY <2>2, <2>3, Zenon
  <1>2. QED
    BY <1>1 DEF About

LEMMA AboutUnion ==
    ASSUME NEW a, NEW b
    PROVE  About(a \cup b) = About(a) \cup About(b)
  BY DEF About

LEMMA ShownIsGiven ==
    ASSUME NEW given, NEW fields
    PROVE  /\ \A s \in Shown(given, fields) : s[2] = "given"
           /\ About(Shown(given, fields)) \subseteq fields
  <1>1. ASSUME NEW s \in Shown(given, fields)
        PROVE  \E f \in fields : s = <<f, "given">>
    BY DEF Shown
  <1>2. ASSUME NEW s \in Shown(given, fields) PROVE s[2] = "given"
    <2>1. PICK f : s = <<f, "given">>
      BY <1>1
    <2>2. <<f, "given">>[2] = "given"
      OBVIOUS
    <2>3. QED
      BY <2>1, <2>2, Zenon
  <1>3. QED
    BY <1>1, <1>2, AboutNoMore

(* English, or the language that was asked for.                            *)
LEMMA Tongue ==
    ASSUME NEW renderer, NEW preferred
    PROVE  Language(renderer, preferred)
             \in {"en", IF renderer \in VisitorRenderers THEN preferred ELSE "en"}
  <1>1. ResolveOutboundLocale(preferred) \in {"en", preferred}
    BY LettersAssumption DEF ResolveOutboundLocale
  <1>2. \A locale : PickTemplate(locale, renderer) \in {"en", locale}
    BY DEF PickTemplate
  <1>3. QED
    BY <1>1, <1>2 DEF Language

(* The user of a card reads of whom it is, and a way to reach them that is *)
(* configured, of the partner or else of the firm.                         *)
LEMMA IdentityFacts ==
    ASSUME NEW source, NEW props
    PROVE  LET identity == AcknowledgementIdentity(source, props)
           IN /\ identity.name \in PartnerTokens \cup {"firm"}
              /\ identity.shows \subseteq PropKeys
              /\ props["FIRM_EMAIL"] # "" => Reachable(identity)
  <1> DEFINE identity == AcknowledgementIdentity(source, props)
  <1>1. CASE source \in PartnerTokens \cap ParsePartnerEmailMap(props["PARTNER_DIRECT_EMAIL_MAP"])
    <2>1. identity = PartnerIdentity(source, props)
      BY <1>1 DEF AcknowledgementIdentity
    <2>2. PartnerIdentity(source, props).name = source
      BY DEF PartnerIdentity
    <2>3. PartnerIdentity(source, props).shows =
            {key \in {"PARTNER_DIRECT_EMAIL_MAP", "PARTNER_DIRECT_PHONE_MAP"} :
                source \in ParsePartnerEmailMap(props[key])}
            \cup {key \in {"WEBSITE_URL"} : props[key] # ""}
      BY DEF PartnerIdentity
    <2> HIDE DEF identity
    <2>4. "PARTNER_DIRECT_EMAIL_MAP" \in identity.shows
      BY <1>1, <2>1, <2>3
    <2>5. identity.shows \subseteq PropKeys
      BY <2>1, <2>3, Keys
    <2>6. identity.name \in PartnerTokens
      BY <1>1, <2>1, <2>2
    <2>7. QED
      BY <2>4, <2>5, <2>6 DEF Reachable, identity
  <1>2. CASE source \notin PartnerTokens \cap ParsePartnerEmailMap(props["PARTNER_DIRECT_EMAIL_MAP"])
    <2>1. identity = FirmIdentity(props)
      BY <1>2 DEF AcknowledgementIdentity
    <2>2. FirmIdentity(props).name = "firm"
      BY DEF FirmIdentity
    <2>3. FirmIdentity(props).shows
            = {key \in {"FIRM_EMAIL", "FIRM_PHONE", "WEBSITE_URL"} : props[key] # ""}
      BY DEF FirmIdentity
    <2> HIDE DEF identity
    <2>4. identity.shows \subseteq PropKeys
      BY <2>1, <2>3, Keys
    <2>5. props["FIRM_EMAIL"] # "" => "FIRM_EMAIL" \in identity.shows
      BY <2>1, <2>3
    <2>6. identity.name = "firm"
      BY <2>1, <2>2
    <2>7. QED
      BY <2>4, <2>5, <2>6 DEF Reachable, identity
  <1>3. QED
    BY <1>1, <1>2

LEMMA RowsFacts ==
    ASSUME NEW identity, identity.name \in PartnerTokens \cup {"firm"},
           identity.shows \subseteq PropKeys
    PROVE  /\ \A s \in IdentityRows(identity) : s[2] # NotProvided
           /\ About(IdentityRows(identity)) \subseteq {"identity"} \cup identity.shows
           /\ identity.shows \subseteq About(IdentityRows(identity))
  <1>1. identity.name # NotProvided
    BY LettersAssumption DEF NotProvided
  <1>2. ASSUME NEW s \in IdentityRows(identity)
        PROVE  \E f \in {"identity"} \cup identity.shows : s = <<f, identity.name>>
    BY DEF IdentityRows
  <1>3. ASSUME NEW s \in IdentityRows(identity)
        PROVE  s[2] # NotProvided
    <2>1. PICK f : s = <<f, identity.name>>
      BY <1>2
    <2>2. <<f, identity.name>>[2] = identity.name
      OBVIOUS
    <2>3. QED
      BY <1>1, <2>1, <2>2, Zenon
  <1>4. About(IdentityRows(identity)) \subseteq {"identity"} \cup identity.shows
    <2> DEFINE fields == {"identity"} \cup identity.shows
    <2>1. \A s \in IdentityRows(identity) : \E f \in fields : \E what : s = <<f, what>>
      BY <1>2
    <2> HIDE DEF fields
    <2>2. About(IdentityRows(identity)) \subseteq fields
      BY <2>1, AboutNoMore
    <2>3. QED
      BY <2>2 DEF fields
  <1>5. ASSUME NEW key \in identity.shows
        PROVE  key \in About(IdentityRows(identity))
    <2>1. <<key, identity.name>> \in IdentityRows(identity)
      BY DEF IdentityRows
    <2>2. QED
      BY <2>1, Stated
  <1>6. QED
    BY <1>3, <1>4, <1>5

LEMMA KeysAreNoFields ==
    (PropKeys \cup {"identity", "fullName"})
        \cap (OptionalFields \cup {"email", "contactCategory"}) = {}
  BY Keys DEF OptionalFields, OfProposals, OfLeads, OfExchanges

LEMMA AcknowledgementHonest ==
    ASSUME NEW l, l.letter = "acknowledgement"
    PROVE  LetterIsHonest(l)
  <1> DEFINE mail == Render(l)
  <1>1. mail = RenderWebsiteAcknowledgement(l)
    BY DEF Render
  <1>2. PICK fields : mail = IF "email" \notin l.given THEN Refused("no_recipient_address")
                             ELSE Mail(Shown(l.given, fields), Shown(l.given, fields))
    BY <1>1 DEF RenderWebsiteAcknowledgement
  <1>3. "email" \in l.given => mail.ok
    BY <1>2 DEF Mail
  <1>4. mail.ok => "email" \in l.given
    BY <1>2 DEF Refused
  <1>5. mail.ok => mail.html = Shown(l.given, fields) /\ mail.text = Shown(l.given, fields)
    BY <1>2, <1>4 DEF Mail
  <1> HIDE DEF mail
  <1>6. \A s \in Shown(l.given, fields) : s[2] # NotProvided
    BY ShownIsGiven DEF NotProvided
  <1>7. mail.ok => \A s \in mail.html : s[2] # NotProvided
    BY <1>5, <1>6
  <1>8. l.letter \in VisitorRenderers
    BY DEF VisitorRenderers
  <1>9. QED
    BY <1>3, <1>5, <1>7, <1>8, Tongue DEF LetterIsHonest, mail

LEMMA NotificationHonest ==
    ASSUME NEW l, l.letter = "notification",
           "situationNotes" \in l.given => l.pathway = "management_proposal"
    PROVE  LetterIsHonest(l)
  <1> DEFINE mail == Render(l)
             notes == Shown(l.given, {"situationNotes"})
             proposal == l.pathway = "management_proposal"
  <1>1. mail = RenderInternalNotification(l)
    BY DEF Render
  <1>2. PICK said : mail = Mail(said \cup IF proposal THEN notes ELSE {}, said \cup notes)
    BY <1>1 DEF RenderInternalNotification
  <1>3. ~ proposal => notes = {}
    BY DEF Shown
  <1>4. mail.ok /\ mail.html = mail.text
    BY <1>2, <1>3 DEF Mail
  <1>5. l.letter \notin VisitorRenderers
    BY DEF VisitorRenderers
  <1> HIDE DEF mail
  <1>6. QED
    BY <1>4, <1>5, Tongue DEF LetterIsHonest, mail

LEMMA QrHonest ==
    ASSUME NEW l, l.letter = "qr_acknowledgement"
    PROVE  LetterIsHonest(l)
  <1> DEFINE mail == Render(l)
             identity == AcknowledgementIdentity(l.source, l.props)
             said == Shown(l.given, {"fullName"}) \cup IdentityRows(identity)
  <1>1. mail = RenderQrAcknowledgement(l, l.props)
    BY DEF Render
  <1>2. mail = IF "email" \notin l.given THEN Refused("no_recipient_address")
               ELSE IF ~ Reachable(identity) THEN Refused("no_verified_sender_identity")
               ELSE Mail(said, said)
    BY <1>1 DEF RenderQrAcknowledgement
  <1>3. /\ identity.name \in PartnerTokens \cup {"firm"}
        /\ identity.shows \subseteq PropKeys
        /\ l.props["FIRM_EMAIL"] # "" => Reachable(identity)
    BY IdentityFacts
  <1>4. IsConfigured(l.props, "qr_acknowledge") => l.props["FIRM_EMAIL"] # ""
    BY DEF IsConfigured, MissingConfigFor, Needs, Present
  <1>5. mail.ok => "email" \in l.given /\ Reachable(identity)
    BY <1>2 DEF Refused
  <1>6. "email" \in l.given /\ Reachable(identity) => mail = Mail(said, said)
    BY <1>2
  <1>7. mail = Mail(said, said) => mail.ok /\ mail.html = said /\ mail.text = said
    BY DEF Mail
  <1> HIDE DEF mail
  <1>8. \A s \in said : s[2] # NotProvided
    BY <1>3, ShownIsGiven, RowsFacts DEF NotProvided
  <1>9. /\ About(said) \subseteq PropKeys \cup {"identity", "fullName"}
        /\ identity.shows \subseteq About(said)
    <2>1. About(said) = About(Shown(l.given, {"fullName"})) \cup About(IdentityRows(identity))
      BY AboutUnion
    <2>2. About(Shown(l.given, {"fullName"})) \subseteq {"fullName"}
      BY ShownIsGiven
    <2>3. /\ About(IdentityRows(identity)) \subseteq {"identity"} \cup identity.shows
          /\ identity.shows \subseteq About(IdentityRows(identity))
      BY <1>3, RowsFacts
    <2> HIDE DEF identity, said
    <2>4. QED
      BY <1>3, <2>1, <2>2, <2>3
  <1> HIDE DEF identity, said
  <1>10. Reachable(identity) /\ mail.html = said => SaysOnlyTheName(mail)
    BY <1>9, KeysAreNoFields DEF SaysOnlyTheName, Reachable
  <1>11. l.letter \in VisitorRenderers
    BY DEF VisitorRenderers
  <1>12. mail.ok => mail = Mail(said, said)
    BY <1>5, <1>6
  <1>13. IsConfigured(l.props, "qr_acknowledge") /\ "email" \in l.given => mail.ok
    BY <1>3, <1>4, <1>6, <1>7
  <1>14. mail.ok => /\ mail.html = mail.text
                    /\ \A s \in mail.html : s[2] # NotProvided
                    /\ SaysOnlyTheName(mail)
    BY <1>5, <1>7, <1>8, <1>10, <1>12
  <1>15. QED
    BY <1>11, <1>13, <1>14, Tongue DEF LetterIsHonest, mail

LEMMA ConfirmationHonest ==
    ASSUME NEW l, l.letter = "booking_confirmation", l.booking.status = "confirmed"
    PROVE  LetterIsHonest(l)
  <1> DEFINE mail == Render(l)
             said == Shown(l.given, {"fullName"}) \cup BookingRows(l.booking)
  <1>1. mail = RenderBookingConfirmation(l, l.booking)
    BY DEF Render
  <1>2. mail = IF "email" \notin l.given THEN Refused("no_recipient_address")
               ELSE [ok |-> TRUE, html |-> said, text |-> said, ics |-> BuildIcs(l.booking)]
    BY <1>1 DEF RenderBookingConfirmation
  <1>3. mail.ok => "email" \in l.given
    BY <1>2 DEF Refused
  <1>4. "email" \in l.given => /\ mail.ok /\ mail.html = said /\ mail.text = said
                               /\ mail.ics = BuildIcs(l.booking)
    BY <1>2
  <1>5. <<"slotStart", l.booking.slot>> \in said
    BY DEF BookingRows
  <1>6. "meetLink" \in About(said) <=> HasMeet(l.booking)
    <2>1. About(said) = About(Shown(l.given, {"fullName"})) \cup About(BookingRows(l.booking))
      BY AboutUnion
    <2>2. "meetLink" \notin About(Shown(l.given, {"fullName"}))
      BY ShownIsGiven
    <2>3. ASSUME HasMeet(l.booking) PROVE "meetLink" \in About(BookingRows(l.booking))
      <3>1. <<"meetLink", l.booking.slot>> \in BookingRows(l.booking)
        BY <2>3 DEF BookingRows
      <3>2. QED
        BY <3>1, Stated
    <2>4. ASSUME ~ HasMeet(l.booking) PROVE "meetLink" \notin About(BookingRows(l.booking))
      <3> DEFINE fields == {"slotStart", "mode"}
      <3>1. \A s \in BookingRows(l.booking) : \E f \in fields : \E what : s = <<f, what>>
        BY <2>4 DEF BookingRows
      <3>2. "meetLink" \notin fields
        OBVIOUS
      <3> HIDE DEF fields
      <3>3. About(BookingRows(l.booking)) \subseteq fields
        BY <3>1, AboutNoMore
      <3>4. QED
        BY <3>2, <3>3
    <2>5. QED
      BY <2>1, <2>2, <2>3, <2>4
  <1>7. BuildIcs(l.booking).start = l.booking.slot /\ BuildIcs(l.booking).link = HasMeet(l.booking)
    BY DEF BuildIcs
  <1> HIDE DEF mail, said
  <1>8. mail.ok => /\ <<"slotStart", mail.ics.start>> \in mail.text
                   /\ mail.ics.link <=> "meetLink" \in About(mail.text)
    BY <1>3, <1>4, <1>5, <1>6, <1>7
  <1>9. l.letter \in VisitorRenderers
    BY DEF VisitorRenderers
  <1>10. mail.ok => mail.html = mail.text
    BY <1>3, <1>4
  <1>11. "email" \in l.given => mail.ok
    BY <1>4
  <1>12. QED
    BY <1>8, <1>9, <1>10, <1>11, Tongue DEF LetterIsHonest, mail

LEMMA DigestHonest ==
    ASSUME NEW l, l.letter = "digest"
    PROVE  LetterIsHonest(l)
  <1> DEFINE mail == Render(l)
  <1>1. mail = RenderQrDigest(l.records)
    BY DEF Render
  <1>2. /\ mail.ok /\ mail.claims = FooterClaim(l.records)
        /\ mail.html = [rec \in l.records |-> DigestRecord(rec)]
        /\ mail.text = [rec \in l.records |-> DigestText(rec)]
    BY <1>1 DEF RenderQrDigest
  <1> HIDE DEF mail
  <1>3. ASSUME NEW rec \in l.records
        PROVE  /\ {"email", "phone", "owner", "followUp"} \subseteq About(DigestRecord(rec))
               /\ DigestRecord(rec) \subseteq DigestText(rec)
               /\ "none is assigned" \in FooterClaim(l.records) =>
                      <<"owner", "">> \in DigestText(rec)
               /\ "none has been contacted" \in FooterClaim(l.records) =>
                      <<"followUp", "not_contacted">> \in DigestText(rec)
    <2>1. <<"owner", rec.owner>> \in DigestRecord(rec)
          /\ <<"followUp", rec.followUp>> \in DigestRecord(rec)
      BY DEF DigestRecord
    <2>2. ASSUME NEW field \in {"email", "phone"}
          PROVE  field \in About(DigestRecord(rec))
      <3>1. \E what : <<field, what>> \in DigestRecord(rec)
        <4>1. <<field, IF field \in rec.given THEN "given" ELSE NotProvided>>
                \in ShownOr(rec.given, {"email", "phone"}, NotProvided)
          BY DEF ShownOr
        <4>2. QED
          BY <4>1, Zenon DEF DigestRecord
      <3>2. QED
        BY <3>1, Stated
    <2>3. DigestRecord(rec) \subseteq DigestText(rec)
      BY DEF DigestText
    <2>4. "none is assigned" \in FooterClaim(l.records) => rec.owner = ""
      BY DEF FooterClaim
    <2>5. "none has been contacted" \in FooterClaim(l.records) => rec.followUp = "not_contacted"
      BY DEF FooterClaim
    <2>6. {"email", "phone", "owner", "followUp"} \subseteq About(DigestRecord(rec))
      BY <2>1, <2>2, Stated
    <2>7. QED
      BY <2>1, <2>3, <2>4, <2>5, <2>6
  <1>4. TellsOfEach(mail)
    BY <1>2, <1>3 DEF TellsOfEach
  <1>5. l.letter \notin VisitorRenderers
    BY DEF VisitorRenderers
  <1>6. QED
    BY <1>2, <1>4, <1>5, Tongue DEF LetterIsHonest, mail

LEMMA LetterHonest ==
    ASSUME NEW l, IsLetter(l)
    PROVE  LetterIsHonest(l)
  <1>1. l.letter \in {"acknowledgement", "qr_acknowledgement", "booking_confirmation",
                      "notification", "digest"}
    BY DEF IsLetter, Renderers, VisitorRenderers
  <1>2. QED
    BY <1>1, AcknowledgementHonest, NotificationHonest, QrHonest, ConfirmationHonest,
       DigestHonest DEF IsLetter

LEMMA GivenIsLetter ==
    ASSUME NEW l, IsLetter(l), NEW field \in MayBeGiven(l)
    PROVE  IsLetter([l EXCEPT !.given = @ \cup {field}])
  <1> DEFINE other == [l EXCEPT !.given = @ \cup {field}]
  <1>1. other = [letter |-> l.letter, given |-> l.given \cup {field}, pathway |-> l.pathway,
                 preferred |-> l.preferred, scaleUnknown |-> l.scaleUnknown,
                 source |-> l.source, records |-> l.records, props |-> l.props,
                 booking |-> l.booking]
    BY DEF IsLetter
  <1>2. /\ other.letter = l.letter /\ other.given = l.given \cup {field}
        /\ other.pathway = l.pathway /\ other.preferred = l.preferred
        /\ other.scaleUnknown = l.scaleUnknown /\ other.source = l.source
        /\ other.records = l.records /\ other.props = l.props /\ other.booking = l.booking
    BY <1>1
  <1>3. field = "situationNotes" => l.pathway = "management_proposal"
    BY DEF MayBeGiven, OfExchanges, OfLeads
  <1> HIDE DEF other
  <1>4. IsLetter(other)
    BY <1>1, <1>2, <1>3 DEF IsLetter
  <1>5. QED
    BY <1>4 DEF other

LEMMA GatheredIsLetter ==
    ASSUME NEW l, IsLetter(l), NEW rec
    PROVE  IsLetter([l EXCEPT !.records = @ \cup {rec}])
  <1> DEFINE other == [l EXCEPT !.records = @ \cup {rec}]
  <1>1. other = [letter |-> l.letter, given |-> l.given, pathway |-> l.pathway,
                 preferred |-> l.preferred, scaleUnknown |-> l.scaleUnknown,
                 source |-> l.source, records |-> l.records \cup {rec}, props |-> l.props,
                 booking |-> l.booking]
    BY DEF IsLetter
  <1>2. /\ other.letter = l.letter /\ other.given = l.given
        /\ other.pathway = l.pathway /\ other.preferred = l.preferred
        /\ other.scaleUnknown = l.scaleUnknown /\ other.source = l.source
        /\ other.records = l.records \cup {rec} /\ other.props = l.props
        /\ other.booking = l.booking
    BY <1>1
  <1> HIDE DEF other
  <1>3. IsLetter(other)
    BY <1>1, <1>2 DEF IsLetter
  <1>4. QED
    BY <1>3 DEF other

-----------------------------------------------------------------------------
(* The columns.  A row says of every name what is meant by it: in the one  *)
(* column of that name, and nothing where there is none.                   *)

Known == Fields \cup {Remarks}
HeaderTexts == Known \cup {Retyped[name] : name \in Fields}
OfRecords == {record[name] : record \in TabRecords, name \in Fields}
OfPatches == UNION {{patch[k][2] : k \in DOMAIN patch} : patch \in Patches}
Others == {"", "seen"}
Values == OfRecords \cup OfPatches \cup Others
Cells == {ToCell(v) : v \in Values}

KeyAt(tab, i) == KeyOf[tab.headers[i]]

Says(tab, row, meant) ==
    /\ \A i \in 1 .. Len(tab.headers) : OfCell(row[i]) = meant[KeyAt(tab, i)]
    /\ \A name \in Known :
          (\A i \in 1 .. Len(tab.headers) : KeyAt(tab, i) # name) => meant[name] = ""

Shaped(tab) ==
    /\ tab = [exists |-> tab.exists, headers |-> tab.headers, rows |-> tab.rows]
    /\ tab.exists \in BOOLEAN
    /\ tab.headers \in Seq(HeaderTexts)
    /\ tab.rows \in Seq([1 .. Len(tab.headers) -> Cells])
    /\ ~ tab.exists => tab.headers = <<>>
    /\ tab.headers = <<>> => tab.rows = <<>>

OneColumnEach(tab) ==
    \A i, j \in 1 .. Len(tab.headers) : KeyAt(tab, i) = KeyAt(tab, j) => i = j

TabInv(tab, meaning) ==
    /\ Shaped(tab) /\ OneColumnEach(tab)
    /\ meaning \in Seq([Known -> Values])
    /\ Len(meaning) = Len(tab.rows)
    /\ \A r \in 1 .. Len(tab.rows) : Says(tab, tab.rows[r], meaning[r])

LEMMA IsSequence ==
    ASSUME NEW S, NEW len \in Nat, NEW f \in [1 .. len -> S]
    PROVE  f \in Seq(S) /\ Len(f) = len /\ DOMAIN f = 1 .. len
  OBVIOUS

LEMMA KeysKnown ==
    ASSUME NEW h \in HeaderTexts
    PROVE  KeyOf[h] \in Known
  BY ColumnsAssumption, RulesAssumption DEF HeaderTexts, Known

LEMMA Words ==
    /\ \A v : v \notin BooleanWords => OfCell(ToCell(v)) = v
    /\ \A v \in Values : v \notin BooleanWords
    /\ \A record \in TabRecords : \A name \in Fields : record[name] \in Values
    /\ "" \in Values /\ "seen" \in Values /\ ToCell("") = "" /\ ToCell("seen") = "seen"
  <1>1. \A v : v \notin BooleanWords => OfCell(ToCell(v)) = v
    <2> SUFFICES ASSUME NEW v, v \notin BooleanWords
                 PROVE  OfCell(ToCell(v)) = v
      OBVIOUS
    <2>1. CASE v = "true"
      BY <2>1 DEF ToCell, OfCell
    <2>2. CASE v = "false"
      BY <2>2 DEF ToCell, OfCell
    <2>3. CASE v \notin {"true", "false"}
      <3>1. ToCell(v) = v
        BY <2>3 DEF ToCell
      <3>2. OfCell(v) = v
        BY DEF OfCell, BooleanWords
      <3>3. QED
        BY <3>1, <3>2
    <2>4. QED
      BY <2>1, <2>2, <2>3
  <1>2. \A v \in Values : v \notin BooleanWords
    <2> SUFFICES ASSUME NEW v \in Values
                 PROVE  v \notin BooleanWords
      OBVIOUS
    <2>1. CASE v \in OfRecords
      <3>1. PICK record \in TabRecords, name \in Fields : v = record[name]
        BY <2>1 DEF OfRecords
      <3>2. QED
        BY <3>1, RulesAssumption
    <2>2. CASE v \in OfPatches
      <3>1. PICK patch \in Patches : v \in {patch[k][2] : k \in DOMAIN patch}
        BY <2>2 DEF OfPatches
      <3>2. PICK k \in DOMAIN patch : v = patch[k][2]
        BY <3>1
      <3>3. QED
        BY <3>2, RulesAssumption
    <2>3. CASE v \in Others
      BY <2>3 DEF BooleanWords, Others
    <2>4. QED
      BY <2>1, <2>2, <2>3 DEF Values
  <1>3. \A record \in TabRecords : \A name \in Fields : record[name] \in Values
    <2>1. \A record \in TabRecords : \A name \in Fields : record[name] \in OfRecords
      BY DEF OfRecords
    <2>2. QED
      BY <2>1 DEF Values
  <1>4. "" \in Values /\ "seen" \in Values
    BY DEF Values, Others
  <1>5. ToCell("") = ""
    BY DEF ToCell
  <1>6. ToCell("seen") = "seen"
    BY DEF ToCell
  <1>7. QED
    BY <1>1, <1>2, <1>3, <1>4, <1>5, <1>6

LEMMA ColumnIs ==
    ASSUME NEW tab, Shaped(tab), OneColumnEach(tab)
    PROVE  /\ \A i \in 1 .. Len(tab.headers) : /\ ColumnOf(tab, KeyAt(tab, i)) = i
                                               /\ Has(tab, KeyAt(tab, i))
           /\ \A name : ~ Has(tab, name) <=> \A i \in 1 .. Len(tab.headers) : KeyAt(tab, i) # name
           /\ \A name : Has(tab, name) => /\ ColumnOf(tab, name) \in 1 .. Len(tab.headers)
                                          /\ KeyAt(tab, ColumnOf(tab, name)) = name
  <1> DEFINE columns == 1 .. Len(tab.headers)
             Named(name) == {i \in columns : KeyAt(tab, i) = name}
  <1>1. DOMAIN tab.headers = columns /\ columns \subseteq Nat \ {0}
    BY DEF Shaped
  <1>2. \A name : ColumnOf(tab, name) = IF Named(name) = {} THEN 0
                    ELSE CHOOSE i \in Named(name) : \A j \in Named(name) : i <= j
    BY <1>1 DEF ColumnOf, KeyAt
  <1>3. ASSUME NEW name, NEW i \in Named(name)
        PROVE  ColumnOf(tab, name) = i
    <2>1. \A j \in Named(name) : j = i
      BY <1>3 DEF OneColumnEach
    <2>2. i <= i
      BY <1>1
    <2> HIDE DEF Named, columns
    <2>3. \E k \in Named(name) : \A j \in Named(name) : k <= j
      BY <1>3, <2>1, <2>2
    <2>4. (CHOOSE k \in Named(name) : \A j \in Named(name) : k <= j) \in Named(name)
      BY <2>3
    <2>5. QED
      BY <1>2, <1>3, <2>1, <2>4
  <1>4. \A name : Named(name) = {} => ColumnOf(tab, name) = 0
    BY <1>2
  <1> HIDE DEF columns
  <1>5. \A i \in columns : i \in Named(KeyAt(tab, i))
    OBVIOUS
  <1>6. \A name : \A i \in Named(name) : i \in columns /\ KeyAt(tab, i) = name /\ i # 0
    BY <1>1
  <1>7. \A name : Named(name) = {} <=> \A i \in columns : KeyAt(tab, i) # name
    OBVIOUS
  <1> HIDE DEF Named
  <1>8. \A name : Has(tab, name) <=> Named(name) # {}
    BY <1>3, <1>4, <1>6 DEF Has
  <1>9. QED
    BY <1>3, <1>5, <1>6, <1>7, <1>8 DEF columns

LEMMA FieldIsMeant ==
    ASSUME NEW tab, Shaped(tab), OneColumnEach(tab), NEW row, NEW meant, Says(tab, row, meant),
           NEW name \in Known
    PROVE  Field(tab, row, name) = meant[name]
  <1>1. CASE Has(tab, name)
    BY <1>1, ColumnIs DEF Field, Says
  <1>2. CASE ~ Has(tab, name)
    BY <1>2, ColumnIs DEF Field, Says
  <1>3. QED
    BY <1>1, <1>2

LEMMA ReadBack ==
    ASSUME NEW tab, NEW meaning, TabInv(tab, meaning)
    PROVE  ReadsBack(tab, meaning, Remarks)
  <1> DEFINE Read(r) == [name \in Fields |-> Field(tab, tab.rows[r], name)]
             Meant(r) == [name \in Fields |-> meaning[r][name]]
             read == [r \in DOMAIN tab.rows |-> Read(r)]
             known == [r \in DOMAIN meaning |-> Meant(r)]
             Filled(s) == SelectSeq(s, LAMBDA record : ~ HasNoValue(record))
  <1>1. /\ Shaped(tab) /\ OneColumnEach(tab)
        /\ DOMAIN tab.rows = 1 .. Len(tab.rows) /\ DOMAIN meaning = DOMAIN tab.rows
    BY DEF TabInv, Shaped
  <1>2. ASSUME NEW r \in DOMAIN tab.rows, NEW name \in Known
        PROVE  Field(tab, tab.rows[r], name) = meaning[r][name]
    BY <1>1, FieldIsMeant DEF TabInv
  <1>3. \A r \in DOMAIN tab.rows : Read(r) = Meant(r)
    BY <1>2 DEF Known
  <1> HIDE DEF Read, Meant
  <1>4. read = known
    BY <1>1, <1>3
  <1>5. ReadTable(tab) = Filled(read)
    BY DEF ReadTable, Read
  <1> HIDE DEF Filled, read, known
  <1>6. ReadTable(tab) = Filled(known)
    BY <1>4, <1>5
  <1>7. \A r \in DOMAIN meaning : Field(tab, tab.rows[r], Remarks) = meaning[r][Remarks]
    BY <1>1, <1>2 DEF Known
  <1>8. ASSUME tab.headers = ExpectedHeaders, NEW name \in Fields
        PROVE  Has(tab, name)
    <2>1. PICK i \in DOMAIN ExpectedHeaders : name = ExpectedHeaders[i]
      BY DEF Fields
    <2>2. KeyAt(tab, i) = name
      BY <1>8, <2>1, ColumnsAssumption DEF KeyAt
    <2>3. i \in 1 .. Len(tab.headers)
      BY <1>8, <2>1, ColumnsAssumption
    <2>4. QED
      BY <1>1, <2>2, <2>3, ColumnIs
  <1>9. ProvisionAction(tab) = "already_correct" => tab.headers = ExpectedHeaders
    BY DEF ProvisionAction, HeadersMatch
  <1>10. QED
    BY <1>6, <1>7, <1>8, <1>9 DEF ReadsBack, Filled, known, Meant

(* A row over which some fields are written.                               *)
CellOver(tab, row, fields, i) ==
    IF \E name \in DOMAIN fields : ColumnOf(tab, name) = i
    THEN ToCell(fields[KeyAt(tab, i)]) ELSE row[i]
RowOver(tab, row, fields) == [i \in 1 .. Len(tab.headers) |-> CellOver(tab, row, fields, i)]

LEMMA Written ==
    ASSUME NEW tab, Shaped(tab), OneColumnEach(tab),
           NEW row \in [1 .. Len(tab.headers) -> Cells], NEW meant \in [Known -> Values],
           Says(tab, row, meant),
           NEW N \in SUBSET Known, NEW fields \in [N -> Values],
           \A name \in N : Has(tab, name)
    PROVE  /\ RowOver(tab, row, fields) \in [1 .. Len(tab.headers) -> Cells]
           /\ WithFields(meant, fields) \in [Known -> Values]
           /\ Says(tab, RowOver(tab, row, fields), WithFields(meant, fields))
  <1> DEFINE new == WithFields(meant, fields)
             columns == 1 .. Len(tab.headers)
  <1>1. /\ DOMAIN new = Known /\ new \in [Known -> Values]
        /\ \A name \in Known : new[name] = IF name \in N THEN fields[name] ELSE meant[name]
    BY DEF WithFields
  <1>2. ASSUME NEW i \in columns
        PROVE  KeyAt(tab, i) \in Known
    BY <1>2, KeysKnown DEF Shaped, KeyAt
  <1>3. ASSUME NEW i \in columns, KeyAt(tab, i) \in N
        PROVE  /\ CellOver(tab, row, fields, i) \in Cells
               /\ OfCell(CellOver(tab, row, fields, i)) = new[KeyAt(tab, i)]
    <2>1. ColumnOf(tab, KeyAt(tab, i)) = i
      BY ColumnIs
    <2>2. CellOver(tab, row, fields, i) = ToCell(fields[KeyAt(tab, i)])
      BY <1>3, <2>1 DEF CellOver
    <2>3. fields[KeyAt(tab, i)] \in Values
      BY <1>3
    <2>4. OfCell(ToCell(fields[KeyAt(tab, i)])) = fields[KeyAt(tab, i)]
      BY <2>3, Words
    <2>5. QED
      BY <1>1, <1>3, <2>2, <2>3, <2>4 DEF Cells
  <1>4. ASSUME NEW i \in columns, KeyAt(tab, i) \notin N
        PROVE  /\ CellOver(tab, row, fields, i) \in Cells
               /\ OfCell(CellOver(tab, row, fields, i)) = new[KeyAt(tab, i)]
    <2>1. \A name \in N : ColumnOf(tab, name) # i
      BY <1>4, ColumnIs
    <2>2. CellOver(tab, row, fields, i) = row[i]
      BY <2>1 DEF CellOver
    <2>3. OfCell(row[i]) = meant[KeyAt(tab, i)]
      BY DEF Says
    <2>4. QED
      BY <1>1, <1>2, <1>4, <2>2, <2>3
  <1>5. ASSUME NEW name \in Known, \A i \in columns : KeyAt(tab, i) # name
        PROVE  new[name] = ""
    <2>1. name \notin N
      BY <1>5, ColumnIs
    <2>2. meant[name] = ""
      BY <1>5 DEF Says
    <2>3. QED
      BY <1>1, <2>1, <2>2
  <1> HIDE DEF new
  <1>6. RowOver(tab, row, fields) \in [columns -> Cells]
    BY <1>3, <1>4 DEF RowOver
  <1>7. \A i \in columns : OfCell(RowOver(tab, row, fields)[i]) = new[KeyAt(tab, i)]
    BY <1>3, <1>4 DEF RowOver
  <1>8. Says(tab, RowOver(tab, row, fields), new)
    BY <1>5, <1>7 DEF Says
  <1>9. QED
    BY <1>1, <1>6, <1>8 DEF new

LEMMA RecordOf ==
    ASSUME NEW tab, tab = [exists |-> tab.exists, headers |-> tab.headers, rows |-> tab.rows],
           NEW headers, NEW rows
    PROVE  /\ [tab EXCEPT !.rows = rows]
                 = [exists |-> tab.exists, headers |-> tab.headers, rows |-> rows]
           /\ [tab EXCEPT !.headers = headers]
                 = [exists |-> tab.exists, headers |-> headers, rows |-> tab.rows]
           /\ [tab EXCEPT !.headers = headers, !.rows = rows]
                 = [exists |-> tab.exists, headers |-> headers, rows |-> rows]
  <1> DEFINE Record(e, h, w) == [exists |-> e, headers |-> h, rows |-> w]
             WithRows(t, x) == [t EXCEPT !.rows = x]
             WithHeaders(t, x) == [t EXCEPT !.headers = x]
             Both(t, x, y) == [t EXCEPT !.headers = x, !.rows = y]
  <1>1. \A e, h, w, x : WithRows(Record(e, h, w), x) = Record(e, h, x)
    OBVIOUS
  <1>2. \A e, h, w, x : WithHeaders(Record(e, h, w), x) = Record(e, x, w)
    OBVIOUS
  <1>3. tab = Record(tab.exists, tab.headers, tab.rows)
    OBVIOUS
  <1>4. \A x, y : Both(tab, x, y) = WithRows(WithHeaders(tab, x), y)
    BY Zenon
  <1> HIDE DEF Record, WithRows, WithHeaders, Both
  <1>5. /\ WithRows(tab, rows) = Record(tab.exists, tab.headers, rows)
        /\ WithHeaders(tab, headers) = Record(tab.exists, headers, tab.rows)
        /\ Both(tab, headers, rows) = Record(tab.exists, headers, rows)
    BY <1>1, <1>2, <1>3, <1>4
  <1>6. QED
    BY <1>5 DEF Record, WithRows, WithHeaders, Both

LEMMA RowReplaced ==
    ASSUME NEW tab, NEW meaning, TabInv(tab, meaning), tab.headers # <<>>,
           NEW r \in 1 .. Len(tab.rows),
           NEW row \in [1 .. Len(tab.headers) -> Cells], NEW meant \in [Known -> Values],
           Says(tab, row, meant)
    PROVE  TabInv([tab EXCEPT !.rows[r] = row], [meaning EXCEPT ![r] = meant])
  <1> DEFINE Row == [1 .. Len(tab.headers) -> Cells]
             rows == [tab.rows EXCEPT ![r] = row]
             to == [exists |-> tab.exists, headers |-> tab.headers, rows |-> rows]
             Meant == [Known -> Values]
             meanings == [meaning EXCEPT ![r] = meant]
  <1>1. /\ tab = [exists |-> tab.exists, headers |-> tab.headers, rows |-> tab.rows]
        /\ tab.rows \in Seq(Row) /\ meaning \in Seq(Meant) /\ Len(meaning) = Len(tab.rows)
        /\ row \in Row /\ meant \in Meant
    BY DEF TabInv, Shaped
  <1>2. [tab EXCEPT !.rows[r] = row] = to
    <2>1. tab = [exists |-> tab.exists, headers |-> tab.headers, rows |-> tab.rows]
      BY <1>1
    <2>2. QED
      BY ONLY <2>1
  <1>3. to.exists = tab.exists /\ to.headers = tab.headers /\ to.rows = rows
    OBVIOUS
  <1> HIDE DEF Row, Meant, to
  <1>4. /\ rows \in Seq(Row) /\ Len(rows) = Len(tab.rows)
        /\ \A s \in 1 .. Len(tab.rows) : rows[s] = IF s = r THEN row ELSE tab.rows[s]
    BY <1>1
  <1>5. /\ meanings \in Seq(Meant) /\ Len(meanings) = Len(tab.rows)
        /\ \A s \in 1 .. Len(tab.rows) : meanings[s] = IF s = r THEN meant ELSE meaning[s]
    BY <1>1
  <1> HIDE DEF rows, meanings
  <1>6. Shaped(to) /\ OneColumnEach(to)
    BY <1>1, <1>3, <1>4 DEF TabInv, Shaped, OneColumnEach, KeyAt, Row, to
  <1>7. \A s \in 1 .. Len(tab.rows) : Says(tab, rows[s], meanings[s])
    BY <1>4, <1>5 DEF TabInv
  <1>8. \A s \in 1 .. Len(rows) : Says(to, rows[s], meanings[s])
    <2>1. \A w, m : Says(to, w, m) <=> Says(tab, w, m)
      BY <1>3 DEF Says, KeyAt
    <2>2. QED
      BY <1>4, <1>7, <2>1
  <1>9. TabInv(to, meanings)
    BY <1>3, <1>4, <1>5, <1>6, <1>8 DEF TabInv, Meant
  <1>10. QED
    BY <1>2, <1>9 DEF meanings

LEMMA RowAppended ==
    ASSUME NEW tab, NEW meaning, TabInv(tab, meaning), tab.headers # <<>>,
           NEW row \in [1 .. Len(tab.headers) -> Cells], NEW meant \in [Known -> Values],
           Says(tab, row, meant)
    PROVE  TabInv([tab EXCEPT !.rows = Append(@, row)], Append(meaning, meant))
  <1> DEFINE Row == [1 .. Len(tab.headers) -> Cells]
             rows == Append(tab.rows, row)
             to == [exists |-> tab.exists, headers |-> tab.headers, rows |-> rows]
             Meant == [Known -> Values]
             meanings == Append(meaning, meant)
  <1>1. /\ tab = [exists |-> tab.exists, headers |-> tab.headers, rows |-> tab.rows]
        /\ tab.rows \in Seq(Row) /\ meaning \in Seq(Meant) /\ Len(meaning) = Len(tab.rows)
        /\ row \in Row /\ meant \in Meant
    BY DEF TabInv, Shaped
  <1>2. [tab EXCEPT !.rows = Append(@, row)] = to
    <2>1. tab = [exists |-> tab.exists, headers |-> tab.headers, rows |-> tab.rows]
      BY <1>1
    <2> HIDE DEF rows
    <2>2. [tab EXCEPT !.rows = rows] = to
      BY <2>1, RecordOf, Zenon
    <2>3. QED
      BY <2>2 DEF rows
  <1>3. to.exists = tab.exists /\ to.headers = tab.headers /\ to.rows = rows
    OBVIOUS
  <1> HIDE DEF Row, Meant, to
  <1>4. /\ rows \in Seq(Row) /\ Len(rows) = Len(tab.rows) + 1
        /\ \A s \in 1 .. Len(rows) :
              rows[s] = IF s = Len(tab.rows) + 1 THEN row ELSE tab.rows[s]
    BY <1>1
  <1>5. /\ meanings \in Seq(Meant) /\ Len(meanings) = Len(tab.rows) + 1
        /\ \A s \in 1 .. Len(rows) :
              meanings[s] = IF s = Len(tab.rows) + 1 THEN meant ELSE meaning[s]
    BY <1>1
  <1>6. \A s \in 1 .. Len(rows) : s # Len(tab.rows) + 1 => s \in 1 .. Len(tab.rows)
    BY <1>1
  <1> HIDE DEF rows, meanings
  <1>7. Shaped(to) /\ OneColumnEach(to)
    BY <1>1, <1>3, <1>4 DEF TabInv, Shaped, OneColumnEach, KeyAt, Row, to
  <1>8. \A s \in 1 .. Len(rows) : Says(tab, rows[s], meanings[s])
    BY <1>4, <1>5, <1>6 DEF TabInv
  <1>9. \A s \in 1 .. Len(rows) : Says(to, rows[s], meanings[s])
    <2>1. \A w, m : Says(to, w, m) <=> Says(tab, w, m)
      BY <1>3 DEF Says, KeyAt
    <2>2. QED
      BY <1>8, <2>1
  <1>10. TabInv(to, meanings)
    BY <1>3, <1>4, <1>5, <1>7, <1>9 DEF TabInv, Meant
  <1>11. QED
    BY <1>2, <1>10 DEF meanings

(* `to` says what `from` does of the columns that are kept.                *)
KeptOf(tab, n, old, from, to) ==
    /\ \A i \in 1 .. n : to[KeyAt(tab, old[i])] = from[KeyAt(tab, old[i])]
    /\ \A name \in Known : (\A i \in 1 .. n : KeyAt(tab, old[i]) # name) => to[name] = ""

LEMMA ColumnsRearranged ==
    ASSUME NEW tab, NEW meaning, TabInv(tab, meaning),
           NEW n \in Nat \ {0}, NEW old \in [1 .. n -> 1 .. Len(tab.headers)],
           \A i, j \in 1 .. n : old[i] = old[j] => i = j,
           NEW meanings \in Seq([Known -> Values]), Len(meanings) = Len(meaning),
           \A r \in 1 .. Len(meaning) : KeptOf(tab, n, old, meaning[r], meanings[r])
    PROVE  TabInv(Rearranged(tab, old), meanings)
  <1> DEFINE Row == [1 .. Len(tab.headers) -> Cells]
             headers == [i \in 1 .. n |-> tab.headers[old[i]]]
             Cut(r) == [i \in 1 .. n |-> tab.rows[r][old[i]]]
             rows == [r \in 1 .. Len(tab.rows) |-> Cut(r)]
             to == [exists |-> tab.exists, headers |-> headers, rows |-> rows]
  <1>1. /\ tab.headers \in Seq(HeaderTexts) /\ tab.rows \in Seq(Row)
        /\ Len(meaning) = Len(tab.rows) /\ tab.exists \in BOOLEAN
        /\ ~ tab.exists => tab.headers = <<>>
    BY DEF TabInv, Shaped
  <1>2. tab = [exists |-> tab.exists, headers |-> tab.headers, rows |-> tab.rows]
    BY DEF TabInv, Shaped
  <1>3. Rearranged(tab, old) = to
    <2>1. DOMAIN old = 1 .. n /\ DOMAIN tab.rows = 1 .. Len(tab.rows)
      BY <1>1
    <2>2. /\ headers = [i \in DOMAIN old |-> tab.headers[old[i]]]
          /\ rows = [r \in DOMAIN tab.rows |-> [i \in DOMAIN old |-> tab.rows[r][old[i]]]]
      BY <2>1
    <2> HIDE DEF headers, rows
    <2>3. Rearranged(tab, old) = [tab EXCEPT !.headers = headers, !.rows = rows]
      BY <2>2 DEF Rearranged
    <2>4. [tab EXCEPT !.headers = headers, !.rows = rows] = to
      BY <1>2, RecordOf, Zenon
    <2>5. QED
      BY <2>3, <2>4
  <1>4. to.exists = tab.exists /\ to.headers = headers /\ to.rows = rows
    OBVIOUS
  <1>5. /\ headers \in Seq(HeaderTexts) /\ Len(headers) = n
        /\ \A i \in 1 .. n : headers[i] = tab.headers[old[i]]
    <2>1. headers \in [1 .. n -> HeaderTexts]
      BY <1>1
    <2>2. \A i \in 1 .. n : headers[i] = tab.headers[old[i]]
      OBVIOUS
    <2>3. headers \in Seq(HeaderTexts) /\ Len(headers) = n
      <3> HIDE DEF headers
      <3>1. QED
        BY ONLY <2>1, n \in Nat
    <2>4. QED
      BY <2>2, <2>3
  <1>6. \A r \in 1 .. Len(tab.rows) :
          Cut(r) \in [1 .. n -> Cells] /\ \A i \in 1 .. n : Cut(r)[i] = tab.rows[r][old[i]]
    BY <1>1
  <1> HIDE DEF headers, Row, Cut, to
  <1>7. /\ rows \in Seq([1 .. n -> Cells]) /\ Len(rows) = Len(tab.rows)
        /\ \A r \in 1 .. Len(tab.rows) : rows[r] = Cut(r)
    <2> DEFINE count == Len(tab.rows)
               Short == [1 .. n -> Cells]
    <2>1. count \in Nat
      BY <1>1
    <2>2. rows \in [1 .. count -> Short]
      BY <1>6
    <2> HIDE DEF rows, count, Short
    <2>3. rows \in Seq(Short) /\ Len(rows) = count
      BY <2>1, <2>2
    <2>4. QED
      BY <2>3 DEF rows, count, Short
  <1> HIDE DEF rows
  <1>8. \A i \in 1 .. n : KeyAt(to, i) = KeyAt(tab, old[i]) /\ old[i] \in 1 .. Len(tab.headers)
    BY <1>4, <1>5 DEF KeyAt
  <1>9. OneColumnEach(to)
    BY <1>4, <1>5, <1>8 DEF OneColumnEach, TabInv
  <1>10. Shaped(to)
    <2>1. tab.exists
      <3>1. old[1] \in 1 .. Len(tab.headers)
        OBVIOUS
      <3>2. tab.headers # <<>>
        BY <3>1
      <3>3. QED
        BY <1>1, <3>2
    <2>2. headers # <<>>
      BY <1>5
    <2>3. QED
      BY <1>1, <1>4, <1>5, <1>7, <2>1, <2>2 DEF Shaped, to
  <1>11. ASSUME NEW r \in 1 .. Len(tab.rows)
         PROVE  Says(to, rows[r], meanings[r])
    <2>1. Says(tab, tab.rows[r], meaning[r])
      BY DEF TabInv
    <2>0. KeptOf(tab, n, old, meaning[r], meanings[r])
      BY <1>1
    <2>2. ASSUME NEW i \in 1 .. n
          PROVE  OfCell(rows[r][i]) = meanings[r][KeyAt(to, i)]
      <3>1. rows[r][i] = tab.rows[r][old[i]]
        BY <1>6, <1>7
      <3>2. OfCell(tab.rows[r][old[i]]) = meaning[r][KeyAt(tab, old[i])]
        BY <1>8, <2>1 DEF Says
      <3>3. QED
        BY <1>8, <2>0, <3>1, <3>2 DEF KeptOf
    <2>3. \A name \in Known :
            (\A i \in 1 .. n : KeyAt(to, i) # name) => meanings[r][name] = ""
      BY <1>8, <2>0 DEF KeptOf
    <2>4. QED
      BY <1>4, <1>5, <2>2, <2>3 DEF Says
  <1>12. TabInv(to, meanings)
    BY <1>1, <1>4, <1>7, <1>9, <1>10, <1>11 DEF TabInv
  <1>13. QED
    BY <1>3, <1>12

LEMMA Least ==
    ASSUME NEW S \in SUBSET Nat, S # {}
    PROVE  \E x \in S : \A y \in S : x <= y
  <1>1. PICK x \in S : \A y \in S : ~ (<<y, x>> \in OpToRel(<, Nat))
    BY WFMin, NatLessThanWellFounded
  <1>2. \A y \in S : ~ (y < x)
    BY <1>1 DEF OpToRel
  <1>3. QED
    BY <1>2

LEMMA FoundIsARow ==
    ASSUME NEW tab, Shaped(tab), NEW id, FindById(tab, id) # 0
    PROVE  FindById(tab, id) \in 1 .. Len(tab.rows)
  <1> DEFINE found == {r \in DOMAIN tab.rows : Field(tab, tab.rows[r], Id) = id}
             First(r) == \A s \in found : r <= s
  <1>1. DOMAIN tab.rows = 1 .. Len(tab.rows) /\ Len(tab.rows) \in Nat
    BY DEF Shaped
  <1>2. FindById(tab, id) = IF found = {} THEN 0 ELSE CHOOSE r \in found : First(r)
    BY DEF FindById
  <1>3. found \in SUBSET Nat /\ found \subseteq 1 .. Len(tab.rows)
    BY <1>1
  <1> HIDE DEF found
  <1>4. found # {}
    BY <1>2
  <1>5. \E r \in found : First(r)
    BY <1>3, <1>4, Least
  <1>6. QED
    BY <1>2, <1>3, <1>4, <1>5

LEMMA Provisioned ==
    ASSUME NEW tab, NEW meaning, TabInv(tab, meaning)
    PROVE  TabInv(Provision(tab), meaning) /\ TabInv(ProvisionDies(tab), meaning)
  <1>1. CASE tab.exists
    BY <1>1 DEF Provision, ProvisionDies
  <1>2. CASE ~ tab.exists
    <2> DEFINE new == [exists |-> TRUE, headers |-> ExpectedHeaders, rows |-> <<>>]
               bare == [exists |-> TRUE, headers |-> <<>>, rows |-> <<>>]
    <2>1. tab.headers = <<>> /\ tab.rows = <<>> /\ meaning = <<>>
      BY <1>2 DEF TabInv, Shaped
    <2>2. Provision(tab) = new /\ ProvisionDies(tab) = bare
      BY <1>2 DEF Provision, ProvisionDies, EmptyTab, NoTab
    <2>3. ExpectedHeaders \in Seq(HeaderTexts)
      BY ColumnsAssumption DEF HeaderTexts, Known
    <2>4. Shaped(new) /\ Shaped(bare)
      BY <2>3, ColumnsAssumption DEF Shaped
    <2>5. OneColumnEach(new)
      BY ColumnsAssumption DEF OneColumnEach, KeyAt, Fields
    <2>6. OneColumnEach(bare)
      BY DEF OneColumnEach
    <2>7. TabInv(new, <<>>) /\ TabInv(bare, <<>>)
      BY <2>4, <2>5, <2>6 DEF TabInv
    <2>8. QED
      BY <2>1, <2>2, <2>7
  <1>3. QED
    BY <1>1, <1>2

LEMMA PresentIsWritten ==
    ASSUME NEW tab, NEW record \in TabRecords
    PROVE  LET N == {f \in Fields : Has(tab, f)}
           IN PresentFields(tab, record) \in [N -> Values]
  BY Words DEF PresentFields

LEMMA Inserted ==
    ASSUME NEW tab, NEW meaning, TabInv(tab, meaning), tab.headers # <<>>,
           NEW record \in TabRecords
    PROVE  TabInv(AppendRecord(tab, record),
                  Append(meaning, WithFields(Meaningless, PresentFields(tab, record))))
  <1> DEFINE N == {f \in Fields : Has(tab, f)}
             fields == PresentFields(tab, record)
             columns == 1 .. Len(tab.headers)
             blank == [i \in columns |-> ""]
             Cell(i) == IF \E name \in Fields : ColumnOf(tab, name) = i
                        THEN ToCell(record[KeyOf[tab.headers[i]]]) ELSE ""
  <1>1. Shaped(tab) /\ OneColumnEach(tab) /\ DOMAIN tab.headers = columns
    BY DEF TabInv, Shaped
  <1>2. /\ fields \in [N -> Values] /\ N \subseteq Known /\ \A name \in N : Has(tab, name)
        /\ \A name \in N : fields[name] = record[name]
    BY PresentIsWritten DEF PresentFields, Known
  <1>3. "" \in Cells /\ "" \in Values /\ OfCell("") = ""
    BY Words DEF Cells, OfCell
  <1>4. blank \in [columns -> Cells] /\ Meaningless \in [Known -> Values]
    BY <1>3 DEF Meaningless, Known
  <1>5. Says(tab, blank, Meaningless)
    <2>1. \A name \in Known : Meaningless[name] = ""
      BY DEF Meaningless, Known
    <2>2. \A i \in columns : KeyAt(tab, i) \in Known
      BY <1>1, KeysKnown DEF Shaped, KeyAt
    <2>3. \A i \in columns : blank[i] = ""
      OBVIOUS
    <2> HIDE DEF blank
    <2>4. QED
      BY <1>3, <2>1, <2>2, <2>3 DEF Says
  <1>6. ASSUME NEW i \in columns
        PROVE  Cell(i) = CellOver(tab, blank, fields, i)
    <2>1. i # 0 /\ DOMAIN fields = N
      BY <1>1, <1>2 DEF Shaped
    <2>2. (\E name \in Fields : ColumnOf(tab, name) = i)
             <=> (\E name \in N : ColumnOf(tab, name) = i)
      BY <2>1 DEF Has
    <2>3. CASE \E name \in N : ColumnOf(tab, name) = i
      <3>1. KeyAt(tab, i) \in N
        BY <1>1, <2>3, ColumnIs
      <3>2. fields[KeyAt(tab, i)] = record[KeyAt(tab, i)]
        BY <1>2, <3>1
      <3>3. QED
        BY <2>1, <2>2, <2>3, <3>2 DEF CellOver, KeyAt
    <2>4. CASE ~ \E name \in N : ColumnOf(tab, name) = i
      <3>1. blank[i] = ""
        OBVIOUS
      <3>2. QED
        BY <2>1, <2>2, <2>4, <3>1 DEF CellOver
    <2>5. QED
      BY <2>3, <2>4
  <1>7. AppendRecord(tab, record)
            = [tab EXCEPT !.rows = Append(@, [i \in DOMAIN tab.headers |-> Cell(i)])]
    BY DEF AppendRecord
  <1> HIDE DEF Cell, blank, fields
  <1>8. [i \in DOMAIN tab.headers |-> Cell(i)] = RowOver(tab, blank, fields)
    BY <1>1, <1>6 DEF RowOver
  <1> HIDE DEF N
  <1>9. /\ RowOver(tab, blank, fields) \in [columns -> Cells]
        /\ WithFields(Meaningless, fields) \in [Known -> Values]
        /\ Says(tab, RowOver(tab, blank, fields), WithFields(Meaningless, fields))
    BY <1>1, <1>2, <1>4, <1>5, Written
  <1> DEFINE row == RowOver(tab, blank, fields)
             meant == WithFields(Meaningless, fields)
  <1> HIDE DEF row, meant
  <1>10. row \in [columns -> Cells] /\ meant \in [Known -> Values] /\ Says(tab, row, meant)
    BY <1>9 DEF row, meant
  <1>11. TabInv([tab EXCEPT !.rows = Append(@, row)], Append(meaning, meant))
    BY <1>10, RowAppended
  <1>12. QED
    BY <1>7, <1>8, <1>11 DEF row, meant, fields

LEMMA CellsSet ==
    ASSUME NEW tab, NEW meaning, TabInv(tab, meaning), tab.headers # <<>>,
           NEW r \in 1 .. Len(tab.rows),
           NEW N \in SUBSET Known, NEW fields \in [N -> Values], \A name \in N : Has(tab, name)
    PROVE  TabInv(SetCells(tab, r, fields), [meaning EXCEPT ![r] = WithFields(@, fields)])
  <1> DEFINE columns == 1 .. Len(tab.headers)
             row == RowOver(tab, tab.rows[r], fields)
             meant == WithFields(meaning[r], fields)
             Cell(i) == IF \E name \in DOMAIN fields : ColumnOf(tab, name) = i
                        THEN ToCell(fields[KeyOf[tab.headers[i]]]) ELSE tab.rows[r][i]
  <1>1. /\ Shaped(tab) /\ OneColumnEach(tab) /\ DOMAIN tab.headers = columns
        /\ tab.rows[r] \in [columns -> Cells] /\ meaning[r] \in [Known -> Values]
        /\ Says(tab, tab.rows[r], meaning[r])
    BY DEF TabInv, Shaped
  <1>2. row \in [columns -> Cells] /\ meant \in [Known -> Values] /\ Says(tab, row, meant)
    BY <1>1, Written
  <1>3. \A i : Cell(i) = CellOver(tab, tab.rows[r], fields, i)
    BY DEF CellOver, KeyAt
  <1>4. SetCells(tab, r, fields)
            = [tab EXCEPT !.rows[r] = [i \in DOMAIN tab.headers |-> Cell(i)]]
    BY DEF SetCells
  <1> HIDE DEF Cell
  <1>5. [i \in DOMAIN tab.headers |-> Cell(i)] = row
    BY <1>1, <1>3 DEF RowOver
  <1> HIDE DEF row, meant
  <1>6. TabInv([tab EXCEPT !.rows[r] = row], [meaning EXCEPT ![r] = meant])
    BY <1>2, RowReplaced
  <1>7. QED
    BY <1>4, <1>5, <1>6 DEF meant

LEMMA PatchedIsWritten ==
    ASSUME NEW tab, NEW patch \in Patches
    PROVE  LET N == DOMAIN Patched(tab, patch)
           IN /\ N \subseteq Known /\ Patched(tab, patch) \in [N -> Values]
              /\ \A name \in N : Has(tab, name)
  <1> DEFINE written == {k \in DOMAIN patch : \A m \in 1 .. k : Has(tab, patch[m][1])}
             Of(name) == CHOOSE k \in written : patch[k][1] = name
             N == {patch[k][1] : k \in written}
  <1>1. Patched(tab, patch) = [name \in N |-> patch[Of(name)][2]]
    BY DEF Patched
  <1>2. \A k \in written : k \in DOMAIN patch /\ Has(tab, patch[k][1]) /\ patch[k][1] \in Fields
    <2> SUFFICES ASSUME NEW k \in written
                 PROVE  k \in DOMAIN patch /\ Has(tab, patch[k][1]) /\ patch[k][1] \in Fields
      OBVIOUS
    <2>1. k \in 1 .. Len(patch) /\ patch[k][1] \in Fields
      BY RulesAssumption
    <2>2. k \in 1 .. k
      BY <2>1
    <2>3. QED
      BY <2>1, <2>2
  <1>3. \A k \in DOMAIN patch : patch[k][2] \in Values
    <2>1. \A k \in DOMAIN patch : patch[k][2] \in OfPatches
      BY DEF OfPatches
    <2>2. QED
      BY <2>1 DEF Values
  <1>4. \A name \in N : \E k \in written : patch[k][1] = name
    OBVIOUS
  <1> HIDE DEF written, N
  <1>5. \A name \in N : Of(name) \in written
    BY <1>4
  <1> HIDE DEF Of
  <1>6. \A name \in N : patch[Of(name)][2] \in Values
    BY <1>2, <1>3, <1>5
  <1>7. \A name \in N : name \in Known /\ Has(tab, name)
    BY <1>2, <1>4 DEF Known
  <1>8. QED
    BY <1>1, <1>6, <1>7

LEMMA Dragged ==
    ASSUME NEW tab, NEW meaning, TabInv(tab, meaning), tab.headers # <<>>,
           NEW from \in 1 .. Len(tab.headers), NEW to \in 1 .. Len(tab.headers)
    PROVE  TabInv(DragColumn(tab, from, to), meaning)
  <1> DEFINE n == Len(tab.headers)
             Old(i) == CASE i = to -> from
                         [] from <= i /\ i < to -> i + 1
                         [] to < i /\ i <= from -> i - 1
                         [] OTHER -> i
             Where(j) == IF j = from THEN to
                         ELSE IF from < j /\ j <= to THEN j - 1
                         ELSE IF to <= j /\ j < from THEN j + 1 ELSE j
             old == [i \in 1 .. n |-> Old(i)]
  <1>1. n \in Nat \ {0} /\ DOMAIN tab.headers = 1 .. n
    BY DEF TabInv, Shaped
  <1> HIDE DEF n
  <1>2. from \in 1 .. n /\ to \in 1 .. n
    BY DEF n
  <1>3. \A i \in 1 .. n : Old(i) \in 1 .. n /\ Where(Old(i)) = i
    BY <1>1, <1>2
  <1>4. \A j \in 1 .. n : Where(j) \in 1 .. n /\ Old(Where(j)) = j
    BY <1>1, <1>2
  <1>5. DragColumn(tab, from, to) = Rearranged(tab, old)
    BY <1>1 DEF DragColumn
  <1> HIDE DEF Old, Where
  <1>6. old \in [1 .. n -> 1 .. n] /\ \A i \in 1 .. n : old[i] = Old(i)
    BY <1>3
  <1> HIDE DEF old
  <1>7. \A i, j \in 1 .. n : old[i] = old[j] => i = j
    BY <1>3, <1>6
  <1>8. /\ meaning \in Seq([Known -> Values]) /\ Len(meaning) = Len(tab.rows)
    BY DEF TabInv
  <1>9. ASSUME NEW r \in 1 .. Len(meaning)
        PROVE  KeptOf(tab, n, old, meaning[r], meaning[r])
    <2>1. Says(tab, tab.rows[r], meaning[r])
      BY <1>8 DEF TabInv
    <2>2. ASSUME NEW name \in Known, \A i \in 1 .. n : KeyAt(tab, old[i]) # name
          PROVE  meaning[r][name] = ""
      <3>1. \A j \in 1 .. n : KeyAt(tab, j) # name
        BY <1>4, <1>6, <2>2
      <3>2. QED
        BY <2>1, <3>1 DEF Says, n
    <2>3. QED
      BY <2>2 DEF KeptOf
  <1>10. TabInv(Rearranged(tab, old), meaning)
    BY <1>1, <1>6, <1>7, <1>8, <1>9, ColumnsRearranged DEF n
  <1>11. QED
    BY <1>5, <1>10

Cleared(meaning, key) == [r \in DOMAIN meaning |-> [meaning[r] EXCEPT ![key] = ""]]

LEMMA Deleted ==
    ASSUME NEW tab, NEW meaning, TabInv(tab, meaning), Len(tab.headers) > 1,
           NEW c \in 1 .. Len(tab.headers)
    PROVE  TabInv(DeleteColumn(tab, c), Cleared(meaning, KeyAt(tab, c)))
  <1> DEFINE n == Len(tab.headers) - 1
             old == [k \in 1 .. n |-> IF k < c THEN k ELSE k + 1]
             Less(r) == [meaning[r] EXCEPT ![KeyAt(tab, c)] = ""]
             meanings == [r \in DOMAIN meaning |-> Less(r)]
  <1>1. /\ n \in Nat \ {0} /\ Len(tab.headers) \in Nat
        /\ meaning \in Seq([Known -> Values]) /\ Len(meaning) = Len(tab.rows)
    <2>1. tab.headers \in Seq(HeaderTexts)
      BY DEF TabInv, Shaped
    <2>2. meaning \in Seq([Known -> Values]) /\ Len(meaning) = Len(tab.rows)
      BY DEF TabInv
    <2>3. Len(tab.headers) \in Nat
      BY <2>1
    <2>4. \A len \in Nat : len > 1 => len - 1 \in Nat \ {0}
      OBVIOUS
    <2>5. n \in Nat \ {0}
      BY <2>3, <2>4
    <2>6. QED
      BY <2>2, <2>3, <2>5
  <1>2. DeleteColumn(tab, c) = Rearranged(tab, old)
    BY DEF DeleteColumn
  <1>3. /\ old \in [1 .. n -> 1 .. Len(tab.headers)]
        /\ \A i, j \in 1 .. n : old[i] = old[j] => i = j
        /\ \A i \in 1 .. n : old[i] # c
        /\ \A j \in 1 .. Len(tab.headers) : j # c => \E i \in 1 .. n : old[i] = j
    <2>1. old \in [1 .. n -> 1 .. Len(tab.headers)]
      BY <1>1
    <2>2. \A i \in 1 .. n : old[i] = IF i < c THEN i ELSE i + 1
      OBVIOUS
    <2> HIDE DEF old
    <2>3. \A i, j \in 1 .. n : old[i] = old[j] => i = j
      BY <1>1, <2>2
    <2>4. \A i \in 1 .. n : old[i] # c
      BY <1>1, <2>2
    <2>5. ASSUME NEW j \in 1 .. Len(tab.headers), j # c
          PROVE  \E i \in 1 .. n : old[i] = j
      <3> DEFINE i == IF j < c THEN j ELSE j - 1
      <3>1. i \in 1 .. n /\ (IF i < c THEN i ELSE i + 1) = j
        BY <1>1, <2>5
      <3> HIDE DEF i
      <3>2. QED
        BY <2>2, <3>1
    <2>6. QED
      BY <2>1, <2>3, <2>4, <2>5
  <1> HIDE DEF old
  <1>4. /\ Shaped(tab) /\ OneColumnEach(tab) /\ KeyAt(tab, c) \in Known
        /\ \A i \in 1 .. n : KeyAt(tab, old[i]) # KeyAt(tab, c)
    <2>1. Shaped(tab) /\ OneColumnEach(tab)
      BY DEF TabInv
    <2>2. KeyAt(tab, c) \in Known
      BY <2>1, KeysKnown DEF Shaped, KeyAt
    <2>3. \A i \in 1 .. n : KeyAt(tab, old[i]) # KeyAt(tab, c)
      BY <1>3, <2>1 DEF OneColumnEach
    <2>4. QED
      BY <2>1, <2>2, <2>3
  <1>5. ASSUME NEW r \in 1 .. Len(meaning)
        PROVE  /\ Less(r) \in [Known -> Values]
               /\ \A name \in Known :
                     Less(r)[name] = IF name = KeyAt(tab, c) THEN "" ELSE meaning[r][name]
    <2>1. meaning[r] \in [Known -> Values]
      BY <1>1
    <2>2. "" \in Values
      BY Words
    <2>3. QED
      BY <1>4, <2>1, <2>2
  <1> HIDE DEF Less
  <1>6. /\ meanings \in Seq([Known -> Values]) /\ Len(meanings) = Len(meaning)
        /\ \A r \in 1 .. Len(meaning) : meanings[r] = Less(r)
    <2> DEFINE Meant == [Known -> Values]
               count == Len(meaning)
    <2>1. count \in Nat /\ DOMAIN meaning = 1 .. count
      BY <1>1
    <2>2. meanings = [r \in 1 .. count |-> Less(r)]
      BY <2>1
    <2>3. \A r \in 1 .. count : Less(r) \in Meant
      BY <1>5
    <2> HIDE DEF meanings, count, Meant
    <2>4. meanings \in Seq(Meant) /\ Len(meanings) = count
          /\ \A r \in 1 .. count : meanings[r] = Less(r)
      BY <2>1, <2>2, <2>3
    <2>5. QED
      BY <2>4 DEF count, Meant
  <1>7. Cleared(meaning, KeyAt(tab, c)) = meanings
    BY DEF Less, Cleared
  <1> HIDE DEF meanings
  <1>8. ASSUME NEW r \in 1 .. Len(meaning)
        PROVE  KeptOf(tab, n, old, meaning[r], meanings[r])
    <2>1. Says(tab, tab.rows[r], meaning[r])
      BY <1>1 DEF TabInv
    <2>2. ASSUME NEW i \in 1 .. n
          PROVE  meanings[r][KeyAt(tab, old[i])] = meaning[r][KeyAt(tab, old[i])]
      <3>1. KeyAt(tab, old[i]) \in Known
        BY <1>3, <1>4, KeysKnown DEF Shaped, KeyAt
      <3>2. KeyAt(tab, old[i]) # KeyAt(tab, c)
        BY <1>4
      <3>3. QED
        BY <1>5, <1>6, <3>1, <3>2
    <2>3. ASSUME NEW name \in Known, \A i \in 1 .. n : KeyAt(tab, old[i]) # name
          PROVE  meanings[r][name] = ""
      <3>1. CASE name = KeyAt(tab, c)
        BY <1>5, <1>6, <3>1
      <3>2. CASE name # KeyAt(tab, c)
        <4>1. \A j \in 1 .. Len(tab.headers) : KeyAt(tab, j) # name
          BY <1>3, <2>3, <3>2
        <4>2. meaning[r][name] = ""
          BY <2>1, <4>1 DEF Says
        <4>3. QED
          BY <1>5, <1>6, <3>2, <4>2
      <3>3. QED
        BY <3>1, <3>2
    <2>4. QED
      BY <2>2, <2>3 DEF KeptOf
  <1> HIDE DEF n
  <1>9. TabInv(Rearranged(tab, old), meanings)
    BY <1>1, <1>3, <1>6, <1>8, ColumnsRearranged
  <1>10. QED
    BY <1>2, <1>7, <1>9

LEMMA Retitled ==
    ASSUME NEW tab, NEW meaning, TabInv(tab, meaning),
           NEW c \in 1 .. Len(tab.headers), tab.headers[c] \in Fields
    PROVE  TabInv(RetypeHeader(tab, c, Retyped[tab.headers[c]]), meaning)
  <1> DEFINE header == Retyped[tab.headers[c]]
             headers == [tab.headers EXCEPT ![c] = header]
             to == [exists |-> tab.exists, headers |-> headers, rows |-> tab.rows]
  <1>1. /\ tab = [exists |-> tab.exists, headers |-> tab.headers, rows |-> tab.rows]
        /\ Shaped(tab) /\ OneColumnEach(tab)
    BY DEF TabInv, Shaped
  <1>2. tab.headers \in Seq(HeaderTexts)
    BY <1>1 DEF Shaped
  <1>3. RetypeHeader(tab, c, header) = to
    <2>1. RetypeHeader(tab, c, header) = [tab EXCEPT !.headers = headers]
      BY DEF RetypeHeader
    <2> HIDE DEF headers
    <2>2. [tab EXCEPT !.headers = headers] = to
      BY <1>1, RecordOf, Zenon
    <2>3. QED
      BY <2>1, <2>2
  <1>4. to.exists = tab.exists /\ to.headers = headers /\ to.rows = tab.rows
    OBVIOUS
  <1>5. /\ header \in HeaderTexts /\ KeyOf[header] = KeyAt(tab, c)
    <2>1. header \in HeaderTexts
      BY DEF HeaderTexts
    <2>2. KeyOf[header] = tab.headers[c] /\ KeyOf[tab.headers[c]] = tab.headers[c]
      BY RulesAssumption, ColumnsAssumption
    <2>3. QED
      BY <2>1, <2>2 DEF KeyAt
  <1> HIDE DEF header, to
  <1>6. /\ headers \in Seq(HeaderTexts) /\ Len(headers) = Len(tab.headers) /\ headers # <<>>
        /\ \A i \in 1 .. Len(tab.headers) :
              headers[i] = IF i = c THEN header ELSE tab.headers[i]
    BY <1>2, <1>5
  <1> HIDE DEF headers
  <1>7. \A i \in 1 .. Len(tab.headers) : KeyAt(to, i) = KeyAt(tab, i)
    BY <1>4, <1>5, <1>6 DEF KeyAt
  <1>8. tab.headers # <<>>
    BY <1>2
  <1>9. Shaped(to)
    BY <1>1, <1>4, <1>6, <1>8 DEF Shaped, to
  <1>10. OneColumnEach(to)
    BY <1>1, <1>4, <1>6, <1>7 DEF OneColumnEach
  <1>11. \A w, m : Says(to, w, m) <=> Says(tab, w, m)
    BY <1>4, <1>6, <1>7 DEF Says
  <1>12. TabInv(to, meaning)
    BY <1>4, <1>9, <1>10, <1>11 DEF TabInv
  <1>13. QED
    BY <1>3, <1>12 DEF header

LEMMA Remarked ==
    ASSUME NEW tab, NEW meaning, TabInv(tab, meaning), tab.headers # <<>>, Has(tab, Remarks),
           NEW r \in 1 .. Len(tab.rows)
    PROVE  TabInv(Remark(tab, r, ColumnOf(tab, Remarks), "seen"),
                  [meaning EXCEPT ![r][Remarks] = "seen"])
  <1> DEFINE c == ColumnOf(tab, Remarks)
             N == {Remarks}
             fields == [name \in N |-> "seen"]
             columns == 1 .. Len(tab.headers)
             row == RowOver(tab, tab.rows[r], fields)
             meant == WithFields(meaning[r], fields)
  <1>1. /\ Shaped(tab) /\ OneColumnEach(tab)
        /\ tab.rows[r] \in [columns -> Cells] /\ meaning[r] \in [Known -> Values]
        /\ Says(tab, tab.rows[r], meaning[r])
    BY DEF TabInv, Shaped
  <1>2. N \in SUBSET Known /\ fields \in [N -> Values] /\ \A name \in N : Has(tab, name)
    BY Words DEF Known
  <1>3. fields[Remarks] = "seen" /\ DOMAIN fields = {Remarks} /\ ToCell("seen") = "seen"
    BY Words
  <1> HIDE DEF N, fields
  <1>4. row \in [columns -> Cells] /\ meant \in [Known -> Values] /\ Says(tab, row, meant)
    BY <1>1, <1>2, Written
  <1>5. row = [tab.rows[r] EXCEPT ![c] = "seen"]
    <2>1. c \in columns /\ KeyAt(tab, c) = Remarks
      BY <1>1, ColumnIs
    <2>2. \A i \in columns : (\E name \in DOMAIN fields : ColumnOf(tab, name) = i) <=> i = c
      BY <1>3
    <2>3. \A i \in columns : CellOver(tab, tab.rows[r], fields, i)
                               = IF i = c THEN "seen" ELSE tab.rows[r][i]
      BY <1>3, <2>1, <2>2 DEF CellOver
    <2> HIDE DEF c
    <2>4. row = [i \in columns |-> IF i = c THEN "seen" ELSE tab.rows[r][i]]
      BY <2>3 DEF RowOver
    <2>5. QED
      BY <1>1, <2>1, <2>4
  <1>6. meant = [meaning[r] EXCEPT ![Remarks] = "seen"]
    BY <1>1, <1>3 DEF WithFields, Known
  <1> HIDE DEF row, meant
  <1>7. TabInv([tab EXCEPT !.rows[r] = row], [meaning EXCEPT ![r] = meant])
    BY <1>4, RowReplaced
  <1>8. /\ Remark(tab, r, c, "seen") = [tab EXCEPT !.rows[r] = [tab.rows[r] EXCEPT ![c] = "seen"]]
        /\ [meaning EXCEPT ![r][Remarks] = "seen"]
              = [meaning EXCEPT ![r] = [meaning[r] EXCEPT ![Remarks] = "seen"]]
    BY Zenon DEF Remark
  <1>9. QED
    BY <1>5, <1>6, <1>7, <1>8

LEMMA Added ==
    ASSUME NEW tab, NEW meaning, TabInv(tab, meaning), tab.headers # <<>>,
           NEW name \in Known, ~ Has(tab, name)
    PROVE  TabInv(AddColumn(tab, name), meaning)
  <1> DEFINE n == Len(tab.headers)
             Row == [1 .. n -> Cells]
             Wider == [1 .. n + 1 -> Cells]
             headers == Append(tab.headers, name)
             Wide(r) == Append(tab.rows[r], "")
             rows == [r \in DOMAIN tab.rows |-> Wide(r)]
             count == Len(tab.rows)
             to == [exists |-> tab.exists, headers |-> headers, rows |-> rows]
  <1>1. /\ tab = [exists |-> tab.exists, headers |-> tab.headers, rows |-> tab.rows]
        /\ Shaped(tab) /\ OneColumnEach(tab)
    BY DEF TabInv, Shaped
  <1>2. tab.headers \in Seq(HeaderTexts) /\ tab.rows \in Seq(Row)
    BY <1>1 DEF Shaped
  <1>3. AddColumn(tab, name) = to
    <2>1. AddColumn(tab, name) = [tab EXCEPT !.headers = headers, !.rows = rows]
      BY DEF AddColumn
    <2> HIDE DEF headers, rows
    <2>2. [tab EXCEPT !.headers = headers, !.rows = rows] = to
      BY <1>1, RecordOf, Zenon
    <2>3. QED
      BY <2>1, <2>2
  <1>4. to.exists = tab.exists /\ to.headers = headers /\ to.rows = rows
    OBVIOUS
  <1> HIDE DEF to
  <1>5. name \in HeaderTexts /\ KeyOf[name] = name
    BY ColumnsAssumption, RulesAssumption DEF Known, HeaderTexts
  <1>6. /\ headers \in Seq(HeaderTexts) /\ Len(headers) = n + 1 /\ headers # <<>>
        /\ \A i \in 1 .. n : headers[i] = tab.headers[i]
        /\ headers[n + 1] = name /\ n \in Nat
    BY <1>2, <1>5
  <1>7. "" \in Cells /\ OfCell("") = ""
    BY Words DEF Cells, OfCell
  <1>8. count \in Nat /\ DOMAIN tab.rows = 1 .. count
    BY <1>2
  <1>9. ASSUME NEW r \in 1 .. count
        PROVE  /\ Wide(r) \in Wider
               /\ \A i \in 1 .. n : Wide(r)[i] = tab.rows[r][i]
               /\ Wide(r)[n + 1] = ""
    <2> DEFINE blank == ""
               row == tab.rows[r]
    <2>1. row \in [1 .. n -> Cells]
      BY <1>2, <1>8
    <2>2. blank \in Cells
      BY <1>7
    <2>0. n \in Nat
      BY <1>6
    <2> HIDE DEF blank, row, n
    <2>3. /\ Append(row, blank) \in [1 .. n + 1 -> Cells]
          /\ \A i \in 1 .. n : Append(row, blank)[i] = row[i]
          /\ Append(row, blank)[n + 1] = blank
      <3>1. row \in Seq(Cells) /\ Len(row) = n
        BY ONLY <2>0, <2>1
      <3> DEFINE longer == Append(row, blank)
      <3>2. /\ longer \in Seq(Cells) /\ Len(longer) = n + 1
            /\ \A i \in 1 .. n : longer[i] = row[i]
            /\ longer[n + 1] = blank
        BY ONLY <2>0, <2>2, <3>1
      <3> HIDE DEF longer
      <3>3. longer \in [1 .. n + 1 -> Cells]
        BY ONLY <2>0, <3>2
      <3>4. QED
        BY <3>2, <3>3 DEF longer
    <2>4. QED
      BY <2>3 DEF blank, row, Wider
  <1> HIDE DEF headers, Wide, Wider
  <1>10. /\ rows \in Seq(Wider) /\ Len(rows) = count
         /\ \A r \in 1 .. count : rows[r] = Wide(r)
    <2>1. rows = [r \in 1 .. count |-> Wide(r)]
      BY <1>8
    <2>2. \A r \in 1 .. count : Wide(r) \in Wider
      BY <1>9
    <2> HIDE DEF rows, count
    <2>3. rows \in [1 .. count -> Wider] /\ \A r \in 1 .. count : rows[r] = Wide(r)
      BY <2>1, <2>2
    <2>4. rows \in Seq(Wider) /\ Len(rows) = count
      BY <1>8, <2>3
    <2>5. QED
      BY <2>3, <2>4
  <1> HIDE DEF rows
  <1>11. /\ \A i \in 1 .. n : KeyAt(to, i) = KeyAt(tab, i)
         /\ KeyAt(to, n + 1) = name
    BY <1>4, <1>5, <1>6 DEF KeyAt
  <1>12. \A i \in 1 .. n : KeyAt(tab, i) # name
    BY <1>1, ColumnIs
  <1>13. \A i \in 1 .. n + 1 : i \in 1 .. n \/ i = n + 1
    BY <1>6
  <1>14. tab.exists
    BY <1>1 DEF Shaped
  <1>15. Shaped(to)
    BY <1>1, <1>4, <1>6, <1>10, <1>14 DEF Shaped, Wider, to
  <1>16. OneColumnEach(to)
    BY <1>1, <1>4, <1>6, <1>11, <1>12, <1>13 DEF OneColumnEach
  <1>17. ASSUME NEW r \in 1 .. count
         PROVE  Says(to, rows[r], meaning[r])
    <2>1. Says(tab, tab.rows[r], meaning[r])
      BY DEF TabInv
    <2>2. meaning[r][name] = ""
      BY <1>12, <2>1 DEF Says
    <2>3. ASSUME NEW i \in 1 .. n + 1
          PROVE  OfCell(rows[r][i]) = meaning[r][KeyAt(to, i)]
      <3>1. CASE i \in 1 .. n
        BY <1>9, <1>10, <1>11, <2>1, <3>1 DEF Says
      <3>2. CASE i = n + 1
        BY <1>7, <1>9, <1>10, <1>11, <2>2, <3>2
      <3>3. QED
        BY <1>13, <3>1, <3>2
    <2>4. ASSUME NEW other \in Known, \A i \in 1 .. n + 1 : KeyAt(to, i) # other
          PROVE  meaning[r][other] = ""
      <3>1. \A i \in 1 .. n : KeyAt(tab, i) # other
        BY <1>6, <1>11, <2>4
      <3>2. QED
        BY <2>1, <3>1 DEF Says
    <2>5. QED
      BY <1>4, <1>6, <2>3, <2>4 DEF Says
  <1>18. /\ meaning \in Seq([Known -> Values]) /\ Len(meaning) = count
    BY DEF TabInv
  <1> HIDE DEF count
  <1>19. TabInv(to, meaning)
    BY <1>4, <1>10, <1>15, <1>16, <1>17, <1>18 DEF TabInv
  <1>20. QED
    BY <1>3, <1>19

-----------------------------------------------------------------------------
(* Retention: while the rows due are deleted from the bottom, the numbers  *)
(* that are left are those of the expired rows that are left, and nothing  *)
(* a booking appends is one of them.                                       *)

Lines == [kind : Sheets, state : {"none", "pending"} \cup TerminalStates, age : Nat, id : Nat]

Ascending(rows) == \A i, j \in 1 .. Len(rows) : i < j => rows[i].id < rows[j].id
Keeps(rows, seen) ==
    \A line \in seen : Unfinished(line) => \E i \in 1 .. Len(rows) : rows[i] = line
Wants(rows, wanted) ==
    \A i \in 1 .. Len(rows) : rows[i].id \in wanted <=> Expired(rows[i])
AreDue(rows, due) ==
    /\ due \subseteq 1 .. Len(rows)
    /\ \A i \in 1 .. Len(rows) : i \in due <=> Expired(rows[i])
NoneExpired(rows) == \A i \in 1 .. Len(rows) : ~ Expired(rows[i])

SheetInv(rows, last, seen, wanted, due, planned, found, gone) ==
    /\ rows \in Seq(Lines) /\ seen \in SUBSET Lines
    /\ Ascending(rows) /\ Keeps(rows, seen)
    /\ \A i \in 1 .. Len(rows) : rows[i].id <= last
    /\ planned => Wants(rows, wanted) /\ \A id \in wanted : id <= last /\ id \in Nat
    /\ found => AreDue(rows, due)
    /\ gone => NoneExpired(rows)

LEMMA EitherWay ==
    ASSUME NEW line \in Lines
    PROVE  Expired(line) <=> ~ Unfinished(line)
  BY RetentionAssumption DEF Lines, Expired, Unfinished, NoTime, Sheets

LEMMA AppendKeeps ==
    ASSUME NEW rows, NEW last \in Nat, NEW seen, NEW wanted, NEW due,
           NEW planned, NEW found, NEW gone,
           SheetInv(rows, last, seen, wanted, due, planned, found, gone),
           NEW line \in Lines, line.id = last + 1,
           planned \/ found \/ gone => ~ Expired(line)
    PROVE  SheetInv(Append(rows, line), last + 1, seen \cup {line}, wanted, due,
                    planned, found, gone)
  <1> DEFINE more == Append(rows, line)
             n == Len(rows)
  <1>1. rows \in Seq(Lines) /\ seen \in SUBSET Lines /\ n \in Nat
    BY DEF SheetInv
  <1>2. more \in Seq(Lines) /\ Len(more) = n + 1 /\ more[n + 1] = line
        /\ \A i \in 1 .. n : more[i] = rows[i]
    BY <1>1
  <1>3. \A i \in 1 .. n + 1 : i \in 1 .. n \/ i = n + 1
    BY <1>1
  <1>4. \A i \in 1 .. n : i \in 1 .. n + 1 /\ i # n + 1 /\ i < n + 1
    BY <1>1
  <1>5. n + 1 \in 1 .. n + 1 /\ n + 1 \notin 1 .. n
    BY <1>1
  <1>6. \A i \in 1 .. n : rows[i].id <= last /\ rows[i].id \in Nat
    <2>1. \A i \in 1 .. n : rows[i] \in Lines
      BY <1>1
    <2>2. \A other \in Lines : other.id \in Nat
      BY DEF Lines
    <2>3. QED
      BY <2>1, <2>2 DEF SheetInv
  <1> HIDE DEF more, n
  <1>7. \A i \in 1 .. n + 1 : more[i].id <= last + 1
    BY <1>2, <1>3, <1>6
  <1>8. Ascending(more)
    <2>1. SUFFICES ASSUME NEW i \in 1 .. n + 1, NEW j \in 1 .. n + 1, i < j
                   PROVE  more[i].id < more[j].id
      BY <1>2 DEF Ascending
    <2>2. i \in 1 .. n
      BY <1>1, <2>1
    <2>3. CASE j \in 1 .. n
      BY <1>2, <2>1, <2>2, <2>3 DEF SheetInv, Ascending, n
    <2>4. CASE j = n + 1
      BY <1>2, <1>6, <2>2, <2>4
    <2>5. QED
      BY <1>3, <2>3, <2>4
  <1>9. Keeps(more, seen \cup {line})
    <2>1. Keeps(rows, seen)
      BY DEF SheetInv
    <2>2. QED
      BY <1>2, <1>4, <1>5, <2>1, Zenon DEF Keeps, n
  <1>10. planned => Wants(more, wanted) /\ \A id \in wanted : id <= last + 1 /\ id \in Nat
    <2>1. SUFFICES ASSUME planned
                   PROVE  Wants(more, wanted) /\ \A id \in wanted : id <= last + 1 /\ id \in Nat
      OBVIOUS
    <2>2. Wants(rows, wanted) /\ \A id \in wanted : id <= last /\ id \in Nat
      BY <2>1 DEF SheetInv
    <2>3. line.id \notin wanted
      BY <2>2
    <2>4. Wants(more, wanted)
      BY <1>2, <1>3, <2>1, <2>2, <2>3, Zenon DEF Wants, n
    <2>5. \A id \in wanted : id <= last + 1
      BY <2>2
    <2>6. QED
      BY <2>2, <2>4, <2>5
  <1>11. found => AreDue(more, due)
    <2>1. SUFFICES ASSUME found PROVE AreDue(more, due)
      OBVIOUS
    <2>2. AreDue(rows, due)
      BY <2>1 DEF SheetInv
    <2>3. due \subseteq 1 .. n + 1 /\ n + 1 \notin due
      BY <1>4, <2>2, <1>5 DEF AreDue, n
    <2>4. QED
      BY <1>2, <1>3, <2>1, <2>2, <2>3, Zenon DEF AreDue, n
  <1>12. gone => NoneExpired(more)
    BY <1>2, <1>3, Zenon DEF SheetInv, NoneExpired, n
  <1>13. seen \cup {line} \in SUBSET Lines
    BY <1>1
  <1>14. QED
    BY <1>2, <1>7, <1>8, <1>9, <1>10, <1>11, <1>12, <1>13 DEF SheetInv, more

LEMMA RowRemoved ==
    ASSUME NEW S, NEW s \in Seq(S), NEW k \in 1 .. Len(s)
    PROVE  /\ RemoveAt(s, k) \in Seq(S) /\ Len(RemoveAt(s, k)) = Len(s) - 1
           /\ \A i \in 1 .. Len(s) - 1 :
                RemoveAt(s, k)[i] = IF i < k THEN s[i] ELSE s[i + 1]
  <1> DEFINE a == SubSeq(s, 1, k - 1)
             b == SubSeq(s, k + 1, Len(s))
  <1>1. a \in Seq(S) /\ Len(a) = k - 1 /\ \A i \in 1 .. k - 1 : a[i] = s[i]
    OBVIOUS
  <1>2. b \in Seq(S) /\ Len(b) = Len(s) - k /\ \A i \in 1 .. Len(s) - k : b[i] = s[k + i]
    OBVIOUS
  <1>3. RemoveAt(s, k) = a \o b
    BY DEF RemoveAt
  <1> HIDE DEF a, b
  <1>4. RemoveAt(s, k) \in Seq(S) /\ Len(RemoveAt(s, k)) = Len(s) - 1
    BY <1>1, <1>2, <1>3
  <1>5. ASSUME NEW i \in 1 .. Len(s) - 1
        PROVE  (a \o b)[i] = IF i < k THEN s[i] ELSE s[i + 1]
    <2>1. CASE i < k
      BY <1>1, <1>2, <2>1
    <2>2. CASE ~ i < k
      <3>1. (a \o b)[i] = b[i - (k - 1)]
        BY <1>1, <1>2, <2>2
      <3>2. i - (k - 1) \in 1 .. Len(s) - k /\ k + (i - (k - 1)) = i + 1
        BY <2>2
      <3>3. QED
        BY <1>2, <2>2, <3>1, <3>2
    <2>3. QED
      BY <2>1, <2>2
  <1>6. QED
    BY <1>3, <1>4, <1>5

LEMMA Lowest ==
    ASSUME NEW n \in Nat, NEW due \in SUBSET (1 .. n), due # {}
    PROVE  NextToDelete(due) \in due /\ \A j \in due : j <= NextToDelete(due)
  <1> DEFINE left == {n - j : j \in due}
  <1>1. left \in SUBSET Nat /\ left # {}
    <2>1. \A j \in due : n - j \in Nat
      OBVIOUS
    <2>2. QED
      BY <2>1
  <1>2. PICK x \in left : \A y \in left : x <= y
    BY <1>1, Least
  <1>3. PICK i \in due : x = n - i
    BY <1>2
  <1>4. \A j \in due : j <= i
    <2>1. \A j \in due : n - i <= n - j
      BY <1>2, <1>3
    <2>2. QED
      BY <2>1
  <1>5. QED
    BY <1>3, <1>4 DEF NextToDelete

LEMMA RemovalKeeps ==
    ASSUME NEW rows, NEW last \in Nat, NEW seen, NEW wanted, NEW due,
           NEW planned \in BOOLEAN,
           SheetInv(rows, last, seen, wanted, due, planned, TRUE, FALSE), due # {}
    PROVE  SheetInv(DeleteRow(rows, NextToDelete(due)), last, seen, wanted,
                    due \ {NextToDelete(due)}, planned, TRUE, FALSE)
  <1> DEFINE n == Len(rows)
             k == NextToDelete(due)
             left == RemoveAt(rows, k)
             Old(i) == IF i < k THEN i ELSE i + 1
  <1>1. rows \in Seq(Lines) /\ seen \in SUBSET Lines /\ n \in Nat /\ AreDue(rows, due)
    BY DEF SheetInv
  <1>2. due \in SUBSET (1 .. n)
    BY <1>1 DEF AreDue
  <1>3. k \in due /\ k \in 1 .. n /\ \A j \in due : j <= k
    BY <1>1, <1>2, Lowest
  <1>4. DeleteRow(rows, k) = left
    BY <1>1, <1>3 DEF DeleteRow
  <1> HIDE DEF k
  <1>5. left \in Seq(Lines) /\ Len(left) = n - 1 /\ \A i \in 1 .. n - 1 : left[i] = rows[Old(i)]
    BY <1>1, <1>3, RowRemoved
  <1>6. /\ \A i \in 1 .. n - 1 : Old(i) \in 1 .. n /\ Old(i) # k
        /\ \A i, j \in 1 .. n - 1 : i < j => Old(i) < Old(j)
        /\ \A i \in 1 .. n : i # k => \E j \in 1 .. n - 1 : Old(j) = i
    <2>1. \A i \in 1 .. n - 1 : Old(i) \in 1 .. n /\ Old(i) # k
      BY <1>1, <1>3
    <2>2. \A i, j \in 1 .. n - 1 : i < j => Old(i) < Old(j)
      BY <1>1, <1>3
    <2>3. ASSUME NEW i \in 1 .. n, i # k PROVE \E j \in 1 .. n - 1 : Old(j) = i
      <3> DEFINE j == IF i < k THEN i ELSE i - 1
      <3>1. j \in 1 .. n - 1 /\ Old(j) = i
        BY <1>1, <1>3, <2>3
      <3>2. QED
        BY <3>1
    <2>4. QED
      BY <2>1, <2>2, <2>3
  <1>7. \A i \in 1 .. n - 1 : i \in due \ {k} <=> Old(i) \in due
    <2>1. ASSUME NEW i \in 1 .. n - 1 PROVE i \in due \ {k} <=> Old(i) \in due
      <3>1. CASE i < k
        BY <1>1, <1>3, <3>1
      <3>2. CASE ~ i < k
        <4>1. i \in due => i = k
          BY <1>1, <1>3, <3>2
        <4>2. i + 1 \notin due
          BY <1>1, <1>3, <3>2
        <4>3. QED
          BY <3>2, <4>1, <4>2
      <3>3. QED
        BY <3>1, <3>2
    <2>2. QED
      BY <2>1
  <1>8. due \ {k} \subseteq 1 .. n - 1
    BY <1>1, <1>2, <1>3
  <1> HIDE DEF Old, left, n
  <1>9. Ascending(left)
    <2>1. Ascending(rows)
      BY DEF SheetInv
    <2>2. ASSUME NEW i \in 1 .. n - 1, NEW j \in 1 .. n - 1, i < j
          PROVE  left[i].id < left[j].id
      <3>1. Old(i) \in 1 .. n /\ Old(j) \in 1 .. n /\ Old(i) < Old(j)
        BY <1>6, <2>2
      <3>2. rows[Old(i)].id < rows[Old(j)].id
        BY <2>1, <3>1, Zenon DEF Ascending, n
      <3>3. QED
        BY <1>5, <3>2
    <2>3. QED
      BY <1>5, <2>2 DEF Ascending
  <1>10. Expired(rows[k])
    BY <1>1, <1>3, Zenon DEF AreDue, n
  <1>11. Keeps(left, seen)
    <2>1. Keeps(rows, seen)
      BY DEF SheetInv
    <2>2. \A i \in 1 .. n : Unfinished(rows[i]) => i # k
      <3>1. rows[k] \in Lines
        BY <1>1, <1>3 DEF n
      <3>2. ~ Unfinished(rows[k])
        BY <1>10, <3>1, EitherWay
      <3>3. QED
        BY <3>2
    <2>3. ASSUME NEW line \in seen, Unfinished(line)
          PROVE  \E j \in 1 .. n - 1 : left[j] = line
      <3>1. PICK i \in 1 .. n : rows[i] = line
        BY <2>1, <2>3 DEF Keeps, n
      <3>2. PICK j \in 1 .. n - 1 : Old(j) = i
        BY <1>6, <2>2, <2>3, <3>1
      <3>3. QED
        BY <1>5, <3>1, <3>2
    <2>4. QED
      BY <1>5, <2>3 DEF Keeps
  <1>12. \A i \in 1 .. n - 1 : left[i].id <= last
    BY <1>5, <1>6 DEF SheetInv, n
  <1>13. planned => Wants(left, wanted) /\ \A id \in wanted : id <= last /\ id \in Nat
    BY <1>5, <1>6, Zenon DEF SheetInv, Wants, n
  <1>14. AreDue(left, due \ {k})
    BY <1>1, <1>5, <1>6, <1>7, <1>8, Zenon DEF AreDue, n
  <1>15. QED
    BY <1>1, <1>4, <1>5, <1>9, <1>11, <1>12, <1>13, <1>14 DEF SheetInv, k

Books ==
    [rows : [Sheets -> Seq(Lines)], last : Nat, step : {"idle", "find", "delete"}, of : Sheets,
     wanted : [Sheets -> SUBSET Nat], due : SUBSET Nat, seen : [Sheets -> SUBSET Lines]]

InSheet(book, sheet) ==
    SheetInv(book.rows[sheet], book.last, book.seen[sheet], book.wanted[sheet], book.due,
             book.step # "idle", book.step = "delete" /\ book.of = sheet,
             book.step # "idle" /\ book.of = "work" /\ sheet = "log")

BookInv(book) ==
    book \in Books /\ \A sheet \in Sheets : InSheet(book, sheet)

LEMMA EmptyInv == BookInv(EmptyBook)
  <1>1. EmptyBook \in Books
    BY DEF EmptyBook, Books, Nothing, Sheets
  <1>2. ASSUME NEW sheet \in Sheets PROVE InSheet(EmptyBook, sheet)
    <2>1. /\ EmptyBook.rows[sheet] = <<>> /\ EmptyBook.seen[sheet] = {}
          /\ EmptyBook.step = "idle" /\ EmptyBook.last = 0
      BY DEF EmptyBook, Nothing
    <2>2. Ascending(<<>>) /\ Keeps(<<>>, {}) /\ <<>> \in Seq(Lines) /\ 1 .. Len(<<>>) = {}
      BY DEF Ascending, Keeps
    <2>3. QED
      BY <2>1, <2>2 DEF InSheet, SheetInv
  <1>3. QED
    BY <1>1, <1>2 DEF BookInv

LEMMA AppendedInv ==
    ASSUME NEW book, BookInv(book), NEW row \in NewRow,
           book.step # "idle" => Unfinished(row)
    PROVE  BookInv(Appended(book, row))
  <1> DEFINE more == Appended(book, row)
             new == LineOf(book, row)
  <1>1. book \in Books /\ \A sheet \in Sheets : InSheet(book, sheet)
    BY DEF BookInv
  <1>2. new \in Lines /\ new.id = book.last + 1 /\ row.kind \in Sheets
        /\ (Unfinished(row) <=> Unfinished(new))
    BY <1>1 DEF Books, Lines, NewRow, LineOf, Unfinished
  <1>3. more = [book EXCEPT !.last = @ + 1, !.rows[row.kind] = Append(@, new),
                            !.seen[row.kind] = @ \cup {new}]
    BY DEF Appended
  <1> HIDE DEF new
  <1>4. /\ more.last = book.last + 1 /\ more.step = book.step /\ more.of = book.of
        /\ more.wanted = book.wanted /\ more.due = book.due
        /\ more.rows = [book.rows EXCEPT ![row.kind] = Append(@, new)]
        /\ more.seen = [book.seen EXCEPT ![row.kind] = @ \cup {new}]
        /\ more = [rows |-> more.rows, last |-> more.last, step |-> more.step, of |-> more.of,
                   wanted |-> more.wanted, due |-> more.due, seen |-> more.seen]
    BY <1>1, <1>3 DEF Books
  <1> HIDE DEF more
  <1>5. /\ book.rows \in [Sheets -> Seq(Lines)] /\ book.seen \in [Sheets -> SUBSET Lines]
        /\ book.last \in Nat /\ book.step \in {"idle", "find", "delete"} /\ book.of \in Sheets
        /\ book.wanted \in [Sheets -> SUBSET Nat] /\ book.due \in SUBSET Nat
    BY <1>1 DEF Books
  <1>6. more.rows \in [Sheets -> Seq(Lines)] /\ more.seen \in [Sheets -> SUBSET Lines]
    BY <1>2, <1>4, <1>5
  <1>7. more \in Books
    <2>1. more.last \in Nat /\ more.step \in {"idle", "find", "delete"} /\ more.of \in Sheets
      BY <1>4, <1>5
    <2>2. more.wanted \in [Sheets -> SUBSET Nat] /\ more.due \in SUBSET Nat
      BY <1>4, <1>5
    <2>3. QED
      BY <1>4, <1>6, <2>1, <2>2 DEF Books
  <1>8. ASSUME NEW sheet \in Sheets PROVE InSheet(more, sheet)
    <2> DEFINE isPlanned == book.step # "idle"
               isFound == book.step = "delete" /\ book.of = sheet
               isGone == book.step # "idle" /\ book.of = "work" /\ sheet = "log"
    <2>1. SheetInv(book.rows[sheet], book.last, book.seen[sheet], book.wanted[sheet], book.due,
                   isPlanned, isFound, isGone)
      BY <1>1 DEF InSheet
    <2>2. isPlanned \/ isFound \/ isGone => ~ Expired(new)
      BY <1>2, EitherWay
    <2>3. SheetInv(more.rows[sheet], more.last, more.seen[sheet], more.wanted[sheet], more.due,
                   isPlanned, isFound, isGone)
      <3> HIDE DEF isPlanned, isFound, isGone
      <3>1. CASE sheet = row.kind
        <4>1. more.rows[sheet] = Append(book.rows[sheet], new)
              /\ more.seen[sheet] = book.seen[sheet] \cup {new}
          BY <1>4, <1>5, <3>1
        <4>2. SheetInv(Append(book.rows[sheet], new), book.last + 1, book.seen[sheet] \cup {new},
                       book.wanted[sheet], book.due, isPlanned, isFound, isGone)
          BY <1>2, <1>5, <2>1, <2>2, AppendKeeps
        <4>3. QED
          BY <1>4, <4>1, <4>2
      <3>2. CASE sheet # row.kind
        <4>1. more.rows[sheet] = book.rows[sheet] /\ more.seen[sheet] = book.seen[sheet]
          BY <1>4, <1>5, <3>2
        <4>2. \A id \in Nat : id <= book.last => id <= book.last + 1
          BY <1>5
        <4>3. \A i \in 1 .. Len(book.rows[sheet]) : book.rows[sheet][i].id \in Nat
          <5>1. \A i \in 1 .. Len(book.rows[sheet]) : book.rows[sheet][i] \in Lines
            BY <1>5
          <5>2. QED
            BY <5>1 DEF Lines
        <4>4. QED
          BY <1>4, <2>1, <4>1, <4>2, <4>3 DEF SheetInv
      <3>3. QED
        BY <3>1, <3>2
    <2>4. QED
      BY <1>4, <2>3 DEF InSheet
  <1>9. QED
    BY <1>7, <1>8 DEF BookInv, more

LEMMA MaintainedInv ==
    ASSUME NEW book, BookInv(book), NEW next,
           \/ book.step = "idle" /\ next = PlanRetention(book)
           \/ book.step = "find" /\ next = FindRows(book)
           \/ book.step = "delete" /\ book.due # {} /\ next = DeleteNext(book)
           \/ /\ book.step = "delete" /\ book.due = {} /\ book.of = "log"
              /\ next = TurnToWork(book)
           \/ book.step # "idle" /\ next = Ended(book)
    PROVE  BookInv(next)
  <1>1. book \in Books /\ \A sheet \in Sheets : InSheet(book, sheet)
    BY DEF BookInv
  <1>2. /\ book.rows \in [Sheets -> Seq(Lines)] /\ book.seen \in [Sheets -> SUBSET Lines]
        /\ book.last \in Nat /\ book.step \in {"idle", "find", "delete"} /\ book.of \in Sheets
        /\ book.wanted \in [Sheets -> SUBSET Nat] /\ book.due \in SUBSET Nat
    BY <1>1 DEF Books
  <1>3. ASSUME NEW sheet \in Sheets
        PROVE  /\ book.rows[sheet] \in Seq(Lines) /\ Len(book.rows[sheet]) \in Nat
               /\ DOMAIN book.rows[sheet] = 1 .. Len(book.rows[sheet])
               /\ \A i \in 1 .. Len(book.rows[sheet]) : book.rows[sheet][i].id \in Nat
    <2>1. book.rows[sheet] \in Seq(Lines)
      BY <1>2
    <2>2. \A i \in 1 .. Len(book.rows[sheet]) : book.rows[sheet][i] \in Lines
      BY <2>1
    <2>3. \A i \in 1 .. Len(book.rows[sheet]) : book.rows[sheet][i].id \in Nat
      BY <2>2 DEF Lines
    <2>4. QED
      BY <2>1, <2>3
  <1>4. CASE book.step = "idle" /\ next = PlanRetention(book)
    <2> DEFINE Selected(sheet) ==
                 {book.rows[sheet][i].id :
                    i \in {k \in DOMAIN book.rows[sheet] : Expired(book.rows[sheet][k])}}
               wanted == [sheet \in Sheets |-> Selected(sheet)]
    <2>1. next = [book EXCEPT !.step = "find", !.of = "log", !.wanted = wanted]
      BY <1>4, Zenon DEF PlanRetention
    <2>2. \A sheet \in Sheets : Selected(sheet) \in SUBSET Nat
      BY <1>3
    <2>3. wanted \in [Sheets -> SUBSET Nat]
      BY <2>2
    <2>4. \A sheet \in Sheets : wanted[sheet] = Selected(sheet)
      OBVIOUS
    <2> HIDE DEF wanted
    <2>5. next \in Books /\ next.rows = book.rows /\ next.last = book.last
          /\ next.seen = book.seen /\ next.wanted = wanted /\ next.due = book.due
          /\ next.step = "find" /\ next.of = "log"
      BY <1>1, <2>1, <2>3 DEF Books, Sheets
    <2>6. ASSUME NEW sheet \in Sheets PROVE InSheet(next, sheet)
      <3> DEFINE rows == book.rows[sheet]
      <3>1. Ascending(rows) /\ \A i \in 1 .. Len(rows) : rows[i].id <= book.last
        BY <1>1 DEF InSheet, SheetInv
      <3>2. Wants(rows, wanted[sheet])
        <4>1. SUFFICES ASSUME NEW i \in 1 .. Len(rows)
                       PROVE  rows[i].id \in Selected(sheet) <=> Expired(rows[i])
          BY <2>4, Zenon DEF Wants
        <4>2. Expired(rows[i]) => rows[i].id \in Selected(sheet)
          BY <1>3
        <4>3. ASSUME rows[i].id \in Selected(sheet) PROVE Expired(rows[i])
          <5>1. PICK j \in 1 .. Len(rows) : Expired(rows[j]) /\ rows[j].id = rows[i].id
            BY <1>3, <4>3
          <5>2. ~ i < j /\ ~ j < i
            BY <1>3, <3>1, <5>1 DEF Ascending
          <5>3. i = j
            BY <1>3, <5>2
          <5>4. QED
            BY <5>1, <5>3
        <4>4. QED
          BY <4>2, <4>3
      <3>3. \A id \in wanted[sheet] : id <= book.last /\ id \in Nat
        BY <1>3, <2>4, <3>1
      <3>4. QED
        BY <1>1, <2>5, <3>2, <3>3 DEF InSheet, SheetInv
    <2>7. QED
      BY <2>5, <2>6 DEF BookInv
  <1>5. CASE book.step = "find" /\ next = FindRows(book)
    <2> DEFINE rows == book.rows[book.of]
               due == {i \in DOMAIN rows : rows[i].id \in book.wanted[book.of]}
    <2>1. next = [book EXCEPT !.step = "delete", !.due = due]
      BY <1>5, Zenon DEF FindRows
    <2>2. due \subseteq 1 .. Len(rows) /\ due \in SUBSET Nat
          /\ \A i \in 1 .. Len(rows) : i \in due <=> rows[i].id \in book.wanted[book.of]
      BY <1>2, <1>3
    <2>3. Wants(rows, book.wanted[book.of])
      BY <1>1, <1>2, <1>5 DEF InSheet, SheetInv
    <2>4. AreDue(rows, due)
      BY <2>2, <2>3, Zenon DEF AreDue, Wants
    <2> HIDE DEF due
    <2>5. next \in Books /\ next.rows = book.rows /\ next.last = book.last
          /\ next.seen = book.seen /\ next.wanted = book.wanted /\ next.due = due
          /\ next.step = "delete" /\ next.of = book.of
      BY <1>1, <2>1, <2>2 DEF Books
    <2>6. ASSUME NEW sheet \in Sheets PROVE InSheet(next, sheet)
      BY <1>1, <1>5, <2>4, <2>5 DEF InSheet, SheetInv
    <2>7. QED
      BY <2>5, <2>6 DEF BookInv
  <1>6. CASE book.step = "delete" /\ book.due # {} /\ next = DeleteNext(book)
    <2> DEFINE rows == book.rows[book.of]
               k == NextToDelete(book.due)
               left == DeleteRow(rows, k)
    <2>1. next = [book EXCEPT !.rows[book.of] = left, !.due = @ \ {k}]
      BY <1>6, Zenon DEF DeleteNext
    <2>2. SheetInv(rows, book.last, book.seen[book.of], book.wanted[book.of], book.due,
                   TRUE, TRUE, FALSE)
      BY <1>1, <1>2, <1>6 DEF InSheet, SheetInv
    <2>3. SheetInv(left, book.last, book.seen[book.of], book.wanted[book.of], book.due \ {k},
                   TRUE, TRUE, FALSE)
      BY <1>2, <1>6, <2>2, RemovalKeeps
    <2>4. left \in Seq(Lines)
      BY <2>3 DEF SheetInv
    <2> HIDE DEF k, left
    <2>5. /\ next.rows = [book.rows EXCEPT ![book.of] = left] /\ next.last = book.last
          /\ next.seen = book.seen /\ next.wanted = book.wanted /\ next.due = book.due \ {k}
          /\ next.step = "delete" /\ next.of = book.of
          /\ next = [rows |-> next.rows, last |-> next.last, step |-> next.step, of |-> next.of,
                     wanted |-> next.wanted, due |-> next.due, seen |-> next.seen]
      BY <1>1, <1>6, <2>1 DEF Books
    <2>6. next.rows \in [Sheets -> Seq(Lines)]
      BY <1>2, <2>4, <2>5
    <2>7. next.due \in SUBSET Nat
      BY <1>2, <2>5
    <2>8. next \in Books
      BY <1>2, <2>5, <2>6, <2>7 DEF Books
    <2>9. ASSUME NEW sheet \in Sheets PROVE InSheet(next, sheet)
      <3>1. CASE sheet = book.of
        <4>1. next.rows[sheet] = left
          BY <1>2, <2>5, <3>1
        <4>2. ~ (book.of = "work" /\ sheet = "log")
          BY <3>1
        <4>3. QED
          BY <2>3, <2>5, <3>1, <4>1, <4>2 DEF InSheet, SheetInv
      <3>2. CASE sheet # book.of
        <4>1. next.rows[sheet] = book.rows[sheet]
          BY <1>2, <2>5, <3>2
        <4>2. InSheet(book, sheet)
          BY <1>1
        <4>3. QED
          BY <1>6, <2>5, <3>2, <4>1, <4>2 DEF InSheet, SheetInv
      <3>3. QED
        BY <3>1, <3>2
    <2>10. QED
      BY <2>8, <2>9 DEF BookInv
  <1>7. CASE book.step = "delete" /\ book.due = {} /\ book.of = "log" /\ next = TurnToWork(book)
    <2>1. next \in Books /\ next.rows = book.rows /\ next.last = book.last
          /\ next.seen = book.seen /\ next.wanted = book.wanted /\ next.due = book.due
          /\ next.step = "find" /\ next.of = "work"
      BY <1>1, <1>7 DEF Books, TurnToWork, Sheets
    <2>2. NoneExpired(book.rows["log"])
      <3>1. AreDue(book.rows["log"], {})
        BY <1>1, <1>7 DEF InSheet, SheetInv, Sheets
      <3>2. QED
        BY <3>1 DEF AreDue, NoneExpired
    <2>3. ASSUME NEW sheet \in Sheets PROVE InSheet(next, sheet)
      BY <1>1, <1>7, <2>1, <2>2 DEF InSheet, SheetInv
    <2>4. QED
      BY <2>1, <2>3 DEF BookInv
  <1>8. CASE book.step # "idle" /\ next = Ended(book)
    <2>1. next \in Books /\ next.rows = book.rows /\ next.last = book.last
          /\ next.seen = book.seen /\ next.step = "idle"
      BY <1>1, <1>8 DEF Books, Ended, Sheets, Nothing
    <2>2. ASSUME NEW sheet \in Sheets PROVE InSheet(next, sheet)
      BY <1>1, <2>1 DEF InSheet, SheetInv
    <2>3. QED
      BY <2>1, <2>2 DEF BookInv
  <1>9. QED
    BY <1>4, <1>5, <1>6, <1>7, <1>8

LEMMA BookKeeps ==
    ASSUME NEW book, BookInv(book)
    PROVE  KeepsUnexpired(book)
  <1>1. SUFFICES ASSUME NEW sheet \in Sheets
                 PROVE  LET rows == book.rows[sheet]
                        IN /\ \A line \in book.seen[sheet] :
                                Unfinished(line) => \E i \in DOMAIN rows : rows[i] = line
                           /\ \A i, j \in DOMAIN rows : i < j => rows[i].id < rows[j].id
                           /\ GoneThrough(book, sheet) =>
                                \A i \in DOMAIN rows : Unfinished(rows[i])
    BY DEF KeepsUnexpired
  <1> DEFINE rows == book.rows[sheet]
  <1>2. InSheet(book, sheet) /\ rows \in Seq(Lines)
    BY DEF BookInv, Books
  <1>3. DOMAIN rows = 1 .. Len(rows) /\ \A i \in 1 .. Len(rows) : rows[i] \in Lines
    BY <1>2
  <1>4. Keeps(rows, book.seen[sheet]) /\ Ascending(rows)
    BY <1>2 DEF InSheet, SheetInv
  <1>5. ASSUME GoneThrough(book, sheet) PROVE \A i \in 1 .. Len(rows) : ~ Expired(rows[i])
    <2>1. CASE book.step = "delete" /\ book.due = {} /\ book.of = sheet
      <3>1. AreDue(rows, {})
        BY <1>2, <2>1 DEF InSheet, SheetInv
      <3>2. QED
        BY <3>1 DEF AreDue
    <2>2. CASE book.step # "idle" /\ book.of = "work" /\ sheet = "log"
      BY <1>2, <2>2 DEF InSheet, SheetInv, NoneExpired
    <2>3. QED
      BY <1>5, <2>1, <2>2 DEF GoneThrough
  <1>6. GoneThrough(book, sheet) => \A i \in 1 .. Len(rows) : Unfinished(rows[i])
    BY <1>3, <1>5, EitherWay
  <1> HIDE DEF rows
  <1>7. QED
    BY <1>3, <1>4, <1>6, Zenon DEF Keeps, Ascending, rows

-----------------------------------------------------------------------------
(* A finite set whose elements have different numbers can be enumerated in *)
(* their order: the one of the least number, and then, in a set smaller by *)
(* one, the others.                                                        *)

InOrder(U, number, f) ==
    /\ f \in [1 .. Cardinality(U) -> U]
    /\ \A i, j \in 1 .. Cardinality(U) : i < j => number[f[i]] < number[f[j]]

Ordered(U, number) == \E f : InOrder(U, number, f)

LEMMA OneMoreInOrder ==
    ASSUME NEW U, IsFiniteSet(U), NEW number \in [U -> Nat],
           \A x, y \in U : number[x] = number[y] => x = y,
           NEW first \in U, \A x \in U : number[first] <= number[x],
           Ordered(U \ {first}, number)
    PROVE  Ordered(U, number)
  <1> DEFINE R == U \ {first}
             n == Cardinality(U)
  <1>1. IsFiniteSet(R) /\ Cardinality(R) = n - 1
    BY FS_RemoveElement
  <1>2. n \in Nat /\ Cardinality(R) \in Nat
    BY <1>1, FS_CardinalityType
  <1>3. PICK g : InOrder(R, number, g)
    BY DEF Ordered
  <1> DEFINE f == [i \in 1 .. n |-> IF i = 1 THEN first ELSE g[i - 1]]
  <1>4. g \in [1 .. n - 1 -> R] /\ \A i, j \in 1 .. n - 1 : i < j => number[g[i]] < number[g[j]]
    BY <1>1, <1>3 DEF InOrder
  <1> HIDE DEF n
  <1>5. \A i \in 1 .. n : i # 1 => i - 1 \in 1 .. n - 1
    BY <1>2
  <1>6. f \in [1 .. n -> U]
    BY <1>4, <1>5
  <1>7. ASSUME NEW i \in 1 .. n, NEW j \in 1 .. n, i < j
        PROVE  number[f[i]] < number[f[j]]
    <2>1. j # 1 /\ j - 1 \in 1 .. n - 1 /\ f[j] = g[j - 1]
      BY <1>2, <1>7
    <2>2. g[j - 1] \in U /\ g[j - 1] # first
      BY <1>4, <2>1
    <2>3. CASE i = 1
      <3>1. f[i] = first
        BY <2>3
      <3>2. number[first] <= number[g[j - 1]] /\ number[first] # number[g[j - 1]]
        BY <2>2
      <3>3. number[first] \in Nat /\ number[g[j - 1]] \in Nat
        BY <2>2
      <3>4. QED
        BY <2>1, <3>1, <3>2, <3>3
    <2>4. CASE i # 1
      <3>1. i - 1 \in 1 .. n - 1 /\ i - 1 < j - 1 /\ f[i] = g[i - 1]
        BY <1>2, <1>7, <2>4
      <3>2. QED
        BY <1>4, <2>1, <3>1
    <2>5. QED
      BY <2>3, <2>4
  <1> HIDE DEF f
  <1>8. InOrder(U, number, f)
    BY <1>6, <1>7 DEF InOrder, n
  <1>9. QED
    BY <1>8 DEF Ordered

LEMMA CanBeOrdered ==
    ASSUME NEW S, IsFiniteSet(S), NEW number \in [S -> Nat],
           \A x, y \in S : number[x] = number[y] => x = y
    PROVE  Ordered(S, number)
  <1> DEFINE Bad == {n \in Nat : \E U \in SUBSET S :
                        Cardinality(U) = n /\ ~ Ordered(U, [x \in U |-> number[x]])}
  <1>1. SUFFICES ASSUME ~ Ordered(S, number) PROVE FALSE
    OBVIOUS
  <1>2. Cardinality(S) \in Bad
    <2>1. number = [x \in S |-> number[x]]
      OBVIOUS
    <2>2. Cardinality(S) \in Nat
      BY FS_CardinalityType
    <2>3. QED
      BY <1>1, <2>1, <2>2
  <1>3. PICK n \in Bad : \A m \in Bad : n <= m
    <2> HIDE DEF Bad
    <2>1. Bad \in SUBSET Nat
      BY DEF Bad
    <2>2. QED
      BY <1>2, <2>1, Least
  <1>4. PICK U \in SUBSET S : Cardinality(U) = n /\ ~ Ordered(U, [x \in U |-> number[x]])
    OBVIOUS
  <1>5. IsFiniteSet(U)
    BY FS_Subset
  <1>6. U # {}
    <2>1. SUFFICES ASSUME U = {} PROVE FALSE
      OBVIOUS
    <2>2. Cardinality(U) = 0
      BY <2>1, FS_EmptySet
    <2> DEFINE none == [i \in {} |-> i]
               theirs == [x \in U |-> number[x]]
    <2>3. 1 .. 0 = {} /\ none \in [{} -> U]
      OBVIOUS
    <2> HIDE DEF theirs, none
    <2>4. InOrder(U, theirs, none)
      BY <2>2, <2>3 DEF InOrder
    <2>5. QED
      BY <1>4, <2>4 DEF Ordered, theirs
  <1> DEFINE numbers == {number[x] : x \in U}
  <1>7. numbers \in SUBSET Nat /\ numbers # {}
    BY <1>6
  <1>8. PICK k \in numbers : \A m \in numbers : k <= m
    BY <1>7, Least
  <1>9. PICK first \in U : number[first] = k
    OBVIOUS
  <1>10. \A x \in U : number[first] <= number[x]
    BY <1>8, <1>9
  <1> DEFINE R == U \ {first}
             all == [x \in U |-> number[x]]
             rest == [x \in R |-> number[x]]
  <1>11. Cardinality(R) = n - 1 /\ n \in Nat /\ n - 1 \in Nat
    <2>1. IsFiniteSet(R) /\ Cardinality(R) = n - 1
      BY <1>4, <1>5, FS_RemoveElement
    <2>2. Cardinality(R) \in Nat
      BY <2>1, FS_CardinalityType
    <2>3. QED
      BY <2>1, <2>2
  <1>12. Ordered(R, rest)
    <2>1. n - 1 \notin Bad
      <3> HIDE DEF Bad
      <3>1. QED
        BY <1>3, <1>11
    <2>2. R \in SUBSET S
      OBVIOUS
    <2>3. QED
      BY <1>11, <2>1, <2>2
  <1> HIDE DEF Bad
  <1>13. Ordered(R, all)
    <2>1. PICK g : InOrder(R, rest, g)
      BY <1>12 DEF Ordered
    <2>2. \A x \in R : rest[x] = all[x]
      OBVIOUS
    <2> HIDE DEF rest, all, R
    <2>3. InOrder(R, all, g)
      BY <2>1, <2>2 DEF InOrder
    <2>4. QED
      BY <2>3 DEF Ordered
  <1>14. all \in [U -> Nat] /\ \A x \in U : all[x] = number[x]
    OBVIOUS
  <1> HIDE DEF all
  <1>15. \A x, y \in U : all[x] = all[y] => x = y
    BY <1>14
  <1>16. \A x \in U : all[first] <= all[x]
    BY <1>10, <1>14
  <1>17. Ordered(U, all)
    BY <1>5, <1>13, <1>14, <1>15, <1>16, OneMoreInOrder
  <1>18. QED
    BY <1>4, <1>17 DEF all

-----------------------------------------------------------------------------
(* Filing: the matches are read back as they were found, and what a repair *)
(* recovers is what the acceptance went by.                                *)

Reasons == {"email_exact", "phone_exact"}
Matches == [contactId : Nat, confidence : {"exact"}, reason : SUBSET Reasons]

AreMatches(ms) ==
    \E n \in Nat : /\ ms \in [1 .. n -> Matches]
                   /\ \A i \in 1 .. n : ms[i].reason # {}

AreKnown(contacts) ==
    /\ \E S : contacts \in Seq(S)
    /\ Len(contacts) < Len(Minted)
    /\ \A i \in 1 .. Len(contacts) : contacts[i].contactId = Minted[i]

(* The n-th of the entries is the n-th, when all of them are.              *)
LEMMA NthIsNth ==
    ASSUME NEW len \in Nat, NEW n \in 1 .. len
    PROVE  (CHOOSE i \in 1 .. len : Cardinality({j \in 1 .. len : j <= i}) = n) = n
  <1>1. ASSUME NEW i \in 1 .. len
        PROVE  Cardinality({j \in 1 .. len : j <= i}) = i
    <2>1. {j \in 1 .. len : j <= i} = 1 .. i
      OBVIOUS
    <2>2. Cardinality(1 .. i) = i
      BY FS_Interval
    <2>3. QED
      BY <2>1, <2>2
  <1>2. QED
    BY <1>1

LEMMA ReadAsFound ==
    ASSUME NEW ms, AreMatches(ms)
    PROVE  ParsePossibleMatches(FormatPossibleMatches(ms)) = ms
  <1>1. PICK len \in Nat : ms \in [1 .. len -> Matches] /\ \A i \in 1 .. len : ms[i].reason # {}
    BY DEF AreMatches
  <1> DEFINE cell == FormatPossibleMatches(ms)
             read == {i \in DOMAIN cell : Len(cell[i]) = 3 /\ cell[i][3] # {}}
             Nth(n) == CHOOSE i \in read : Cardinality({j \in read : j <= i}) = n
  <1>2. DOMAIN cell = 1 .. len
        /\ \A i \in 1 .. len : cell[i] = <<ms[i].contactId, ms[i].confidence, ms[i].reason>>
    BY <1>1 DEF FormatPossibleMatches
  <1> HIDE DEF cell
  <1>3. \A i \in 1 .. len : /\ cell[i][1] = ms[i].contactId /\ cell[i][2] = ms[i].confidence
                            /\ cell[i][3] = ms[i].reason /\ Len(cell[i]) = 3
    <2>1. \A a, b, c : /\ <<a, b, c>>[1] = a /\ <<a, b, c>>[2] = b /\ <<a, b, c>>[3] = c
                      /\ Len(<<a, b, c>>) = 3
      OBVIOUS
    <2>2. SUFFICES ASSUME NEW i \in 1 .. len
                   PROVE  /\ cell[i][1] = ms[i].contactId /\ cell[i][2] = ms[i].confidence
                          /\ cell[i][3] = ms[i].reason /\ Len(cell[i]) = 3
      OBVIOUS
    <2>3. cell[i] = <<ms[i].contactId, ms[i].confidence, ms[i].reason>>
      BY <1>2
    <2>4. cell[i][1] = ms[i].contactId /\ cell[i][2] = ms[i].confidence
      BY <2>3
    <2>5. cell[i][3] = ms[i].reason
      BY <2>3
    <2>6. Len(cell[i]) = 3
      BY <2>3
    <2>7. QED
      BY <2>4, <2>5, <2>6
  <1>4. read = 1 .. len
    BY <1>1, <1>2, <1>3
  <1>5. Cardinality(read) = len
    <2>1. Cardinality(1 .. len) = len
      BY FS_Interval
    <2>2. QED
      BY <1>4, <2>1
  <1>6. ParsePossibleMatches(cell) =
            [n \in 1 .. Cardinality(read) |->
                [contactId |-> cell[Nth(n)][1], confidence |-> cell[Nth(n)][2],
                 reason |-> cell[Nth(n)][3]]]
    BY Zenon DEF ParsePossibleMatches
  <1>7. \A n \in 1 .. len : Nth(n) = n
    BY <1>4, NthIsNth
  <1> HIDE DEF read, Nth
  <1>8. ASSUME NEW n \in 1 .. len
        PROVE  [contactId |-> cell[n][1], confidence |-> cell[n][2], reason |-> cell[n][3]] = ms[n]
    <2>1. ms[n] \in Matches
      BY <1>1
    <2>2. QED
      BY <1>3, <2>1 DEF Matches
  <1>9. ParsePossibleMatches(cell) = [n \in 1 .. len |-> ms[n]]
    BY <1>5, <1>6, <1>7, <1>8
  <1>10. QED
    BY <1>1, <1>9 DEF cell

LEMMA ImageIsFinite ==
    ASSUME NEW S, IsFiniteSet(S), NEW U, NEW f \in [S -> U], \A y \in U : \E x \in S : f[x] = y
    PROVE  IsFiniteSet(U)
  <1>1. f \in Surjection(S, U)
    BY DEF Surjection
  <1>2. QED
    BY <1>1, FS_Surjection

LEMMA FoundAreMatches ==
    ASSUME NEW e, NEW contacts, AreKnown(contacts), NEW n \in 0 .. Len(contacts)
    PROVE  AreMatches(FindPossibleMatches(e, ToSet(SubSeq(contacts, 1, n))))
  <1> DEFINE candidates == ToSet(SubSeq(contacts, 1, n))
             Same(key, a, b) == key[a] # "" /\ key[a] = key[b]
             Evidence(c) == {r \in {"email_exact"} : Same(EmailKeyOf, e.email, c.email)}
                            \cup {r \in {"phone_exact"} : Same(PhoneKeyOf, e.phone, c.phone)}
             hits == {d \in candidates : Evidence(d) # {}}
             Match(c) == [contactId |-> c.contactId, confidence |-> "exact",
                          reason |-> Evidence(c)]
             results == {Match(c) : c \in hits}
             sorted == ByContactId(results)
  <1>1. FindPossibleMatches(e, candidates) =
            [k \in {i \in DOMAIN sorted : i <= MaxSuggestions} |-> sorted[k]]
    BY Zenon DEF FindPossibleMatches
  <1>2. /\ candidates = {contacts[i] : i \in 1 .. n} /\ n \in Nat
        /\ \A i \in 1 .. n : i \in 1 .. Len(contacts)
    <2>1. PICK S : contacts \in Seq(S)
      BY DEF AreKnown
    <2>2. n \in Nat /\ \A i \in 1 .. n : i \in 1 .. Len(contacts)
      BY <2>1
    <2>3. DOMAIN SubSeq(contacts, 1, n) = 1 .. n
          /\ \A i \in 1 .. n : SubSeq(contacts, 1, n)[i] = contacts[i]
      BY <2>1, <2>2
    <2>4. QED
      BY <2>2, <2>3 DEF ToSet
  <1>3. \A c \in candidates : Evidence(c) \in SUBSET Reasons
    BY DEF Reasons
  <1> HIDE DEF candidates, Evidence
  <1>4. /\ \A c \in candidates : c.contactId \in Nat
        /\ \A c, d \in candidates : c.contactId = d.contactId => c = d
    <2>1. \A i \in 1 .. n : contacts[i].contactId = Minted[i]
      BY <1>2 DEF AreKnown
    <2>2. /\ \A i \in 1 .. n : i \in DOMAIN Minted /\ Minted[i] \in Nat
          /\ \A i, j \in 1 .. n : Minted[i] = Minted[j] => i = j
      <3>1. Minted \in Seq(Nat) /\ \A i, j \in DOMAIN Minted : Minted[i] = Minted[j] => i = j
        BY FilingAssumption
      <3>2. Len(contacts) < Len(Minted) /\ Len(contacts) \in Nat
        BY DEF AreKnown
      <3>3. \A i \in 1 .. n : i \in DOMAIN Minted
        BY <1>2, <3>1, <3>2
      <3>4. QED
        BY <3>1, <3>3
    <2>3. QED
      BY <1>2, <2>1, <2>2
  <1>5. IsFiniteSet(candidates)
    <2> DEFINE f == [i \in 1 .. n |-> contacts[i]]
    <2>1. f \in [1 .. n -> candidates] /\ \A c \in candidates : \E i \in 1 .. n : f[i] = c
      BY <1>2
    <2>2. IsFiniteSet(1 .. n)
      BY <1>2, FS_Interval
    <2> HIDE DEF f
    <2>3. QED
      BY <2>1, <2>2, ImageIsFinite
  <1>6. IsFiniteSet(hits)
    BY <1>5, FS_Subset
  <1>7. IsFiniteSet(results)
    <2> DEFINE f == [c \in hits |-> Match(c)]
    <2>1. f \in [hits -> results] /\ \A m \in results : \E c \in hits : f[c] = m
      OBVIOUS
    <2> HIDE DEF f, hits, results
    <2>2. QED
      BY <1>6, <2>1, ImageIsFinite
  <1>8. \A m \in results : m \in Matches /\ m.reason # {}
    BY <1>3, <1>4 DEF Matches
  <1>9. \A m, o \in results : m.contactId = o.contactId => m = o
    BY <1>4
  <1> DEFINE number == [m \in results |-> m.contactId]
             len == Cardinality(results)
  <1> HIDE DEF results
  <1>10. len \in Nat
    BY <1>7, FS_CardinalityType
  <1>11. Ordered(results, number)
    <2>1. number \in [results -> Nat]
      BY <1>8 DEF Matches
    <2>2. \A m, o \in results : number[m] = number[o] => m = o
      BY <1>9
    <2> HIDE DEF number
    <2>3. QED
      BY <1>7, <2>1, <2>2, CanBeOrdered
  <1>12. sorted \in [1 .. len -> results]
    <2>1. PICK f : InOrder(results, number, f)
      BY <1>11 DEF Ordered
    <2>2. f \in [1 .. len -> results] /\ DOMAIN f = 1 .. len
      BY <2>1 DEF InOrder
    <2>3. \A i, j \in DOMAIN f : i < j => f[i].contactId < f[j].contactId
      BY <2>1, <2>2 DEF InOrder
    <2>4. QED
      BY <2>2, <2>3, Zenon DEF ByContactId
  <1> DEFINE few == IF len <= MaxSuggestions THEN len ELSE MaxSuggestions
  <1>13. few \in Nat /\ {i \in DOMAIN sorted : i <= MaxSuggestions} = 1 .. few
         /\ 1 .. few \subseteq 1 .. len
    <2>1. DOMAIN sorted = 1 .. len /\ MaxSuggestions \in Nat
      BY <1>12, FilingAssumption
    <2> HIDE DEF sorted, len
    <2>2. QED
      BY <1>10, <2>1
  <1> HIDE DEF sorted, few, len
  <1>14. QED
    <2> DEFINE ms == [k \in 1 .. few |-> sorted[k]]
    <2>1. ms \in [1 .. few -> Matches] /\ \A i \in 1 .. few : ms[i].reason # {}
      BY <1>8, <1>12, <1>13
    <2>2. FindPossibleMatches(e, candidates) = ms
      BY <1>1, <1>13
    <2> HIDE DEF ms
    <2>3. QED
      BY <1>13, <2>1, <2>2 DEF AreMatches, candidates

LEMMA SubmissionSays ==
    ASSUME NEW e, NEW ctx, ctx.screening.spamSuspected \in BOOLEAN
    PROVE  LET sub == FromCells(InCells(BuildSubmission(e, ctx)))
           IN /\ sub.leadId = ctx.leadId /\ sub.contactId = ctx.contactId
              /\ sub.receivedAt = ctx.receivedAt /\ sub.submissionKind = e.kind
              /\ sub.spamSuspected = ctx.screening.spamSuspected
              /\ sub.spamReason = ctx.screening.spamReason
              /\ sub.possibleMatches = FormatPossibleMatches(ctx.possibleMatches)
              /\ sub.payloadFingerprint = SubmissionFingerprint(e)
  <1> DEFINE row == BuildSubmission(e, ctx)
             cells == InCells(row)
             sub == FromCells(cells)
             OtherCells == {"leadId", "contactId", "receivedAt", "submissionKind", "spamReason",
                        "possibleMatches", "payloadFingerprint"}
  <1>1. /\ row.leadId = ctx.leadId /\ row.contactId = ctx.contactId
        /\ row.receivedAt = ctx.receivedAt /\ row.submissionKind = e.kind
        /\ row.spamSuspected = ctx.screening.spamSuspected
        /\ row.spamReason = ctx.screening.spamReason
        /\ row.possibleMatches = FormatPossibleMatches(ctx.possibleMatches)
        /\ row.payloadFingerprint = SubmissionFingerprint(e)
    BY DEF BuildSubmission
  <1>2. /\ "spamSuspected" \in DOMAIN row /\ "locale" \in DOMAIN row
        /\ \A field \in OtherCells : field \in DOMAIN row
    BY DEF BuildSubmission
  <1> HIDE DEF row
  <1>3. /\ DOMAIN cells = DOMAIN row
        /\ \A field \in OtherCells : cells[field] = row[field]
        /\ cells.spamSuspected = IF row.spamSuspected THEN "TRUE" ELSE "FALSE"
    BY <1>2 DEF InCells
  <1> HIDE DEF cells
  <1>4. /\ \A field \in OtherCells : sub[field] = cells[field]
        /\ sub.spamSuspected = (cells.spamSuspected = "TRUE")
    BY <1>2, <1>3 DEF FromCells
  <1> HIDE DEF sub
  <1>5. \A field \in OtherCells : sub[field] = row[field]
    BY <1>3, <1>4
  <1>6. sub.spamSuspected = row.spamSuspected
    <2>1. row.spamSuspected \in BOOLEAN
      BY <1>1
    <2>2. CASE row.spamSuspected = TRUE
      BY <1>3, <1>4, <2>2
    <2>3. CASE row.spamSuspected = FALSE
      BY <1>3, <1>4, <2>3
    <2>4. QED
      BY <2>1, <2>2, <2>3
  <1> HIDE DEF OtherCells
  <1>7. "leadId" \in OtherCells /\ "contactId" \in OtherCells /\ "receivedAt" \in OtherCells
        /\ "submissionKind" \in OtherCells /\ "spamReason" \in OtherCells
        /\ "possibleMatches" \in OtherCells /\ "payloadFingerprint" \in OtherCells
    BY DEF OtherCells
  <1>8. QED
    BY <1>1, <1>5, <1>6, <1>7 DEF sub, cells, row

LEMMA RecoversTheContext ==
    ASSUME NEW e, NEW ctx, NEW contacts,
           ctx = [leadId |-> ctx.leadId, contactId |-> ctx.contactId,
                  receivedAt |-> ctx.receivedAt, slaFrom |-> ctx.slaFrom,
                  screening |-> ctx.screening, possibleMatches |-> ctx.possibleMatches],
           ctx.screening = [spamSuspected |-> ctx.screening.spamSuspected,
                            spamReason |-> ctx.screening.spamReason],
           ctx.screening.spamSuspected \in BOOLEAN,
           ctx.slaFrom = IF IsInquiry(e) THEN ctx.receivedAt ELSE NoReading,
           AreMatches(ctx.possibleMatches)
    PROVE  RecoveredContext(FromCells(InCells(BuildSubmission(e, ctx))), contacts) = ctx
  <1> DEFINE sub == FromCells(InCells(BuildSubmission(e, ctx)))
  <1>1. /\ sub.leadId = ctx.leadId /\ sub.contactId = ctx.contactId
        /\ sub.receivedAt = ctx.receivedAt /\ sub.submissionKind = e.kind
        /\ sub.spamSuspected = ctx.screening.spamSuspected
        /\ sub.spamReason = ctx.screening.spamReason
        /\ sub.possibleMatches = FormatPossibleMatches(ctx.possibleMatches)
    BY SubmissionSays
  <1> HIDE DEF sub
  <1>2. ParsePossibleMatches(sub.possibleMatches) = ctx.possibleMatches
    BY <1>1, ReadAsFound
  <1>3. (IF sub.submissionKind = "service_inquiry" THEN sub.receivedAt ELSE NoReading)
            = ctx.slaFrom
    BY <1>1 DEF IsInquiry
  <1>4. QED
    BY <1>1, <1>2, <1>3 DEF RecoveredContext, sub

LEMMA SameRows ==
    ASSUME NEW e, IsEnvelope(e), NEW signals, NEW ctx
    PROVE  LET again == [e EXCEPT !.signals = signals]
           IN /\ SubmissionFingerprint(again) = SubmissionFingerprint(e)
              /\ RowsOf(again, ctx) = RowsOf(e, ctx)
  <1> DEFINE again == [e EXCEPT !.signals = signals]
  <1>1. /\ again.kind = e.kind /\ again.sourceCategory = e.sourceCategory
        /\ again.sourceDetail = e.sourceDetail /\ again.pathway = e.pathway
        /\ again.serviceScope = e.serviceScope /\ again.email = e.email
        /\ again.phone = e.phone /\ again.page = e.page
        /\ again.preferredFollowUp = e.preferredFollowUp
        /\ DOMAIN again = DOMAIN e
        /\ \A x \in DOMAIN e \ {"signals"} : again[x] = e[x]
    BY DEF IsEnvelope
  <1> HIDE DEF again
  <1>2. SubmissionFingerprint(again) = SubmissionFingerprint(e)
    BY <1>1 DEF SubmissionFingerprint
  <1>3. BuildAttributionRecord(again) = BuildAttributionRecord(e)
    BY <1>1 DEF BuildAttributionRecord, ResolveAcquisitionSource
  <1>4. BuildLocaleRecord(again) = BuildLocaleRecord(e)
    BY <1>1 DEF BuildLocaleRecord
  <1>5. BuildLead(again, ctx) = BuildLead(e, ctx)
    BY <1>1, <1>3, <1>4 DEF BuildLead
  <1>6. BuildContact(again, ctx) = BuildContact(e, ctx)
    BY <1>1, <1>3, <1>4 DEF BuildContact
  <1>7. IsInquiry(again) = IsInquiry(e)
    BY <1>1 DEF IsInquiry
  <1>8. BuildDelivery(again, ctx) = BuildDelivery(e, ctx)
    BY <1>1, <1>7 DEF BuildDelivery, DigestStatus
  <1>9. RowsOf(again, ctx) = RowsOf(e, ctx)
    BY <1>5, <1>6, <1>7, <1>8 DEF RowsOf
  <1>10. QED
    BY <1>2, <1>9 DEF again

LEMMA RepairedAsAccepted ==
    ASSUME NEW e, IsEnvelope(e), NEW contacts, AreKnown(contacts), NEW readings
    PROVE  RepairsAsAccepted(e, contacts, readings)
  <1>1. SUFFICES ASSUME NEW n \in 0 .. Len(contacts), NEW signals \in readings
                 PROVE  LET accepted == AcceptanceContext(e, SubSeq(contacts, 1, n),
                                                          Minted[Len(Minted)])
                            submission == FromCells(InCells(BuildSubmission(e, accepted)))
                            again == [e EXCEPT !.signals = signals]
                        IN /\ SubmissionFingerprint(again) = submission.payloadFingerprint
                           /\ RowsOf(again, RecoveredContext(submission, contacts))
                                = RowsOf(e, accepted)
    BY Zenon DEF RepairsAsAccepted
  <1> DEFINE known == SubSeq(contacts, 1, n)
             id == Minted[Len(Minted)]
             ctx == AcceptanceContext(e, known, id)
             submission == FromCells(InCells(BuildSubmission(e, ctx)))
             again == [e EXCEPT !.signals = signals]
  <1>2. /\ ctx = [leadId |-> ctx.leadId, contactId |-> ctx.contactId,
                  receivedAt |-> ctx.receivedAt, slaFrom |-> ctx.slaFrom,
                  screening |-> ctx.screening, possibleMatches |-> ctx.possibleMatches]
        /\ ctx.screening = ScreenSubmission(e)
        /\ ctx.slaFrom = IF IsInquiry(e) THEN ctx.receivedAt ELSE NoReading
        /\ ctx.possibleMatches = FindPossibleMatches(e, ToSet(known))
    BY DEF AcceptanceContext
  <1> HIDE DEF ctx
  <1>3. /\ ctx.screening = [spamSuspected |-> ctx.screening.spamSuspected,
                            spamReason |-> ctx.screening.spamReason]
        /\ ctx.screening.spamSuspected \in BOOLEAN
    BY <1>2 DEF ScreenSubmission
  <1>4. AreMatches(ctx.possibleMatches)
    BY <1>2, FoundAreMatches
  <1>5. RecoveredContext(submission, contacts) = ctx
    BY <1>2, <1>3, <1>4, RecoversTheContext
  <1>6. submission.payloadFingerprint = SubmissionFingerprint(e)
    BY <1>3, SubmissionSays
  <1>7. SubmissionFingerprint(again) = SubmissionFingerprint(e) /\ RowsOf(again, ctx) = RowsOf(e, ctx)
    BY SameRows
  <1> HIDE DEF submission, again
  <1>8. QED
    BY <1>5, <1>6, <1>7 DEF submission, again, ctx, known, id

FilingInv(filed) ==
    /\ filed = [envelope |-> filed.envelope, contacts |-> filed.contacts]
    /\ filed.envelope \in Envelopes /\ AreKnown(filed.contacts)

LEMMA OneMoreKnownInv ==
    ASSUME NEW filed, FilingInv(filed), Len(filed.contacts) < MaxPeople, NEW person,
           person.contactId = Minted[Len(filed.contacts) + 1]
    PROVE  FilingInv([filed EXCEPT !.contacts = Append(@, person)])
  <1> DEFINE contacts == filed.contacts
             more == Append(contacts, person)
             n == Len(contacts)
             next == [filed EXCEPT !.contacts = more]
  <1>1. PICK S : contacts \in Seq(S)
    BY DEF FilingInv, AreKnown
  <1> DEFINE U == S \cup {person}
  <1>2. contacts \in Seq(U) /\ person \in U /\ n \in Nat
    BY <1>1
  <1>3. /\ more \in Seq(U) /\ Len(more) = n + 1 /\ more[n + 1] = person
        /\ \A i \in 1 .. n : more[i] = contacts[i]
    BY <1>2
  <1>4. n < MaxPeople /\ MaxPeople \in Nat /\ MaxPeople < Len(Minted) /\ Len(Minted) \in Nat
    BY RulesAssumption, FilingAssumption
  <1> HIDE DEF more, U, n
  <1>5. n + 1 < Len(Minted)
    BY <1>2, <1>4
  <1>6. \A i \in 1 .. n : contacts[i].contactId = Minted[i]
    BY DEF FilingInv, AreKnown, n
  <1>7. \A i \in 1 .. n + 1 : i \in 1 .. n \/ i = n + 1
    BY <1>2
  <1>8. \A i \in 1 .. n + 1 : more[i].contactId = Minted[i]
    BY <1>3, <1>6, <1>7 DEF n
  <1>9. AreKnown(more)
    BY <1>3, <1>5, <1>8 DEF AreKnown
  <1>10. next.envelope = filed.envelope /\ next.contacts = more
         /\ next = [envelope |-> next.envelope, contacts |-> next.contacts]
    BY DEF FilingInv
  <1> HIDE DEF next
  <1>11. FilingInv(next)
    BY <1>9, <1>10 DEF FilingInv
  <1>12. QED
    BY <1>11 DEF next, more

-----------------------------------------------------------------------------
(* Packing: the records are each placed once and in their order, and what  *)
(* is in a part, but for a single record, was found to have room in it.    *)

GatheredContacts == [source : {"own", "firm", "unknown"}, size : Nat, at : Nat]
MailParts == [first : Nat, last : Nat, bytes : Nat]
Makings ==
    [cost : [shell : Nat, heading : Nat], contacts : SUBSET GatheredContacts,
     step : {"gathering", "packing", "packed", "exhausted"}, attempt : 1 .. RepackAttempts,
     order : Seq(GatheredContacts), parts : Seq(MailParts), first : Nat, bytes : Nat, next : Nat]

(* Nobody was met at the same time as another.                             *)
MetInTurn(contacts) ==
    /\ IsFiniteSet(contacts)
    /\ \A c \in contacts : c.at < Cardinality(contacts)
    /\ \A c, d \in contacts : c.at = d.at => c = d

InTheirOrder(order, contacts) ==
    /\ Len(order) = Cardinality(contacts)
    /\ {order[i] : i \in 1 .. Len(order)} = contacts
    /\ \A i, j \in 1 .. Len(order) : i < j => Before(order[i], order[j])

(* The parts go through the records up to the one before first, and are    *)
(* within the budget or a single record; so is the part at hand.           *)
CutUpTo(parts, first) ==
    /\ \A i \in 1 .. Len(parts) :
          1 <= parts[i].first /\ parts[i].first <= parts[i].last /\ parts[i].last < first
    /\ \A i \in 1 .. Len(parts) : i > 1 => parts[i].first = parts[i - 1].last + 1
    /\ parts = <<>> => first = 1
    /\ parts # <<>> => parts[1].first = 1 /\ first = parts[Len(parts)].last + 1

HaveRoom(parts, budget) ==
    \A i \in 1 .. Len(parts) : parts[i].first = parts[i].last \/ parts[i].bytes <= budget

AtHand(first, next, bytes, budget) ==
    /\ 1 <= first /\ first <= next
    /\ next = first => bytes = 0
    /\ next > first + 1 => bytes <= budget

Packs(m) ==
    /\ CutUpTo(m.parts, m.first)
    /\ HaveRoom(m.parts, Budget(Allowance(m)))
    /\ AtHand(m.first, m.next, m.bytes, Budget(Allowance(m)))

LastAllowance == ShellOverhead + (RepackAttempts - 1) * RepackStep

MakingInv(m) ==
    /\ m \in Makings
    /\ MetInTurn(m.contacts)
    /\ m.step = "gathering" => m.next = 1
    /\ m.step # "gathering" => InTheirOrder(m.order, m.contacts) /\ Len(m.order) # 0
    /\ Packs(m)
    /\ m.next <= Len(m.order) + 1
    /\ m.step = "packed" =>
            m.first = Len(m.order) + 1 /\ \A i \in 1 .. Len(m.parts) : Fits(m, m.parts[i])
    /\ m.step = "exhausted" => m.cost.shell + 3 * m.cost.heading > LastAllowance

(* The groups of the model, one after the other.                           *)
LEMMA RankIs ==
    \A c, d :
        /\ c.source = "own" /\ d.source = "firm" => Before(c, d)
        /\ c.source = "own" /\ d.source = "unknown" => Before(c, d)
        /\ c.source = "firm" /\ d.source = "unknown" => Before(c, d)
        /\ c.source = d.source /\ c.at < d.at => Before(c, d)
  <1> DEFINE Rank(source) == CHOOSE k \in 1 .. 3 : Sources[k] = source
  <1>1. Sources[1] = "own" /\ Sources[2] = "firm" /\ Sources[3] = "unknown"
    BY DEF Sources
  <1>2. \A k \in 1 .. 3 : k = 1 \/ k = 2 \/ k = 3
    OBVIOUS
  <1>3. /\ \A k \in 1 .. 3 : Sources[k] = "own" <=> k = 1
        /\ \A k \in 1 .. 3 : Sources[k] = "firm" <=> k = 2
        /\ \A k \in 1 .. 3 : Sources[k] = "unknown" <=> k = 3
    BY <1>1, <1>2
  <1>4. Rank("own") = 1 /\ Rank("firm") = 2 /\ Rank("unknown") = 3
    BY <1>3
  <1>5. \A c, d : Before(c, d) <=>
            \/ Rank(c.source) < Rank(d.source)
            \/ c.source = d.source /\ c.at < d.at
    BY DEF Before
  <1> HIDE DEF Rank
  <1>6. QED
    BY <1>4, <1>5

LEMMA GroupOrdered ==
    ASSUME NEW theirs, IsFiniteSet(theirs), theirs \subseteq GatheredContacts,
           \A c, d \in theirs : c.at = d.at => c = d
    PROVE  /\ ByCollectedAt(theirs) \in Seq(theirs)
           /\ Len(ByCollectedAt(theirs)) = Cardinality(theirs)
           /\ Cardinality(theirs) \in Nat
           /\ \A i, j \in 1 .. Cardinality(theirs) :
                i < j => ByCollectedAt(theirs)[i].at < ByCollectedAt(theirs)[j].at
           /\ \A c \in theirs : \E i \in 1 .. Cardinality(theirs) : ByCollectedAt(theirs)[i] = c
  <1> DEFINE n == Cardinality(theirs)
             at == [c \in theirs |-> c.at]
             f == ByCollectedAt(theirs)
  <1>1. at \in [theirs -> Nat] /\ \A c \in theirs : at[c] = c.at
    BY DEF GatheredContacts
  <1>2. n \in Nat
    BY FS_CardinalityType
  <1>3. \E g \in [1 .. n -> theirs] : \A i, j \in 1 .. n : i < j => g[i].at < g[j].at
    <2>1. Ordered(theirs, at)
      <3> HIDE DEF at
      <3>1. \A c, d \in theirs : at[c] = at[d] => c = d
        BY <1>1
      <3>2. QED
        BY <1>1, <3>1, CanBeOrdered
    <2>2. PICK g : InOrder(theirs, at, g)
      BY <2>1 DEF Ordered
    <2> HIDE DEF at
    <2>3. g \in [1 .. n -> theirs] /\ \A i, j \in 1 .. n : i < j => at[g[i]] < at[g[j]]
      BY <2>2 DEF InOrder
    <2>4. \A i \in 1 .. n : at[g[i]] = g[i].at
      BY <1>1, <2>3
    <2>5. QED
      BY <2>3, <2>4
  <1>4. f = CHOOSE g \in [1 .. n -> theirs] :
                \A i, j \in DOMAIN g : i < j => g[i].at < g[j].at
    BY DEF ByCollectedAt
  <1>5. f \in [1 .. n -> theirs] /\ \A i, j \in 1 .. n : i < j => f[i].at < f[j].at
    <2> HIDE DEF f, n
    <2>1. \E g \in [1 .. n -> theirs] : \A i, j \in DOMAIN g : i < j => g[i].at < g[j].at
      BY <1>3
    <2>2. f \in [1 .. n -> theirs] /\ \A i, j \in DOMAIN f : i < j => f[i].at < f[j].at
      BY <1>4, <2>1
    <2>3. QED
      BY <2>2
  <1>6. f \in Seq(theirs) /\ Len(f) = n
    <2> HIDE DEF f, n
    <2>1. QED
      BY <1>2, <1>5
  <1>7. \A c \in theirs : \E i \in 1 .. n : f[i] = c
    <2> HIDE DEF f
    <2>1. \A i, j \in 1 .. n : f[i] = f[j] => i = j
      <3> SUFFICES ASSUME NEW i \in 1 .. n, NEW j \in 1 .. n, f[i] = f[j], i # j PROVE FALSE
        OBVIOUS
      <3>1. f[i] \in theirs /\ f[i].at \in Nat
        BY <1>5 DEF GatheredContacts
      <3>2. i < j \/ j < i
        BY <1>2
      <3>3. QED
        BY <1>5, <3>1, <3>2
    <2>2. f \in Injection(1 .. n, theirs)
      BY <1>5, <2>1 DEF Injection, IsInjective
    <2>3. Cardinality(1 .. n) = n
      BY <1>2, FS_Interval
    <2>4. f \in Surjection(1 .. n, theirs)
      BY <2>2, <2>3, FS_Injection
    <2>5. QED
      BY <2>4 DEF Surjection
  <1>8. QED
    BY <1>2, <1>5, <1>6, <1>7

LEMMA TwoJoined ==
    ASSUME NEW Of, NEW front \in Seq(Of), NEW back \in Seq(Of)
    PROVE  /\ front \o back \in Seq(Of)
           /\ Len(front \o back) = Len(front) + Len(back)
           /\ \A i \in 1 .. Len(front) : (front \o back)[i] = front[i]
           /\ \A i \in 1 .. Len(back) : (front \o back)[Len(front) + i] = back[i]
  OBVIOUS

LEMMA Joined ==
    ASSUME NEW D, NEW a \in Seq(D), NEW b \in Seq(D), NEW c \in Seq(D)
    PROVE  /\ a \o b \o c \in Seq(D)
           /\ Len(a \o b \o c) = Len(a) + Len(b) + Len(c)
           /\ \A i \in 1 .. Len(a) : (a \o b \o c)[i] = a[i]
           /\ \A i \in 1 .. Len(b) : (a \o b \o c)[Len(a) + i] = b[i]
           /\ \A i \in 1 .. Len(c) : (a \o b \o c)[Len(a) + Len(b) + i] = c[i]
  <1> DEFINE ab == a \o b
  <1>1. /\ ab \in Seq(D) /\ Len(ab) = Len(a) + Len(b)
        /\ \A i \in 1 .. Len(a) : ab[i] = a[i]
        /\ \A i \in 1 .. Len(b) : ab[Len(a) + i] = b[i]
    BY TwoJoined
  <1> HIDE DEF ab
  <1> DEFINE abc == ab \o c
  <1>2. /\ abc \in Seq(D) /\ Len(abc) = Len(ab) + Len(c)
        /\ \A i \in 1 .. Len(ab) : abc[i] = ab[i]
        /\ \A i \in 1 .. Len(c) : abc[Len(ab) + i] = c[i]
    <2>1. ab \in Seq(D)
      BY <1>1
    <2>2. QED
      BY <2>1, TwoJoined
  <1> HIDE DEF abc
  <1>3. \A i \in 1 .. Len(a) : abc[i] = a[i]
    BY <1>1, <1>2
  <1>4. \A i \in 1 .. Len(b) : abc[Len(a) + i] = b[i]
    BY <1>1, <1>2
  <1>5. \A i \in 1 .. Len(c) : abc[Len(a) + Len(b) + i] = c[i]
    BY <1>1, <1>2
  <1>6. Len(abc) = Len(a) + Len(b) + Len(c)
    BY <1>1, <1>2
  <1>7. QED
    BY <1>2, <1>3, <1>4, <1>5, <1>6 DEF abc, ab

(* Their order is that of the groups, and within a group of their times.   *)
LEMMA ModelInOrder ==
    ASSUME NEW m \in Makings, MetInTurn(m.contacts)
    PROVE  /\ BuildDigestModel(m).order \in Seq(GatheredContacts)
           /\ InTheirOrder(BuildDigestModel(m).order, m.contacts)
  <1> DEFINE all == m.contacts
             group(source) == {c \in all : c.source = source}
             G1 == group("own")
             G2 == group("firm")
             G3 == group("unknown")
             o1 == ByCollectedAt(G1)
             o2 == ByCollectedAt(G2)
             o3 == ByCollectedAt(G3)
             n1 == Cardinality(G1)
             n2 == Cardinality(G2)
             n3 == Cardinality(G3)
             order == o1 \o o2 \o o3
  <1>1. BuildDigestModel(m).order = order
    BY DEF BuildDigestModel, Makings
  <1>2. all \subseteq GatheredContacts /\ IsFiniteSet(all)
        /\ \A c, d \in all : c.at = d.at => c = d
    BY DEF Makings, MetInTurn
  <1> HIDE DEF all
  <1>3. \A source : /\ IsFiniteSet(group(source)) /\ group(source) \subseteq GatheredContacts
                    /\ \A c, d \in group(source) : c.at = d.at => c = d
    <2> SUFFICES ASSUME NEW source
                 PROVE  /\ IsFiniteSet(group(source)) /\ group(source) \subseteq GatheredContacts
                        /\ \A c, d \in group(source) : c.at = d.at => c = d
      OBVIOUS
    <2>1. group(source) \in SUBSET all
      OBVIOUS
    <2>2. IsFiniteSet(group(source))
      BY <1>2, <2>1, FS_Subset
    <2>3. QED
      BY <1>2, <2>1, <2>2
  <1>4. /\ IsFiniteSet(G1) /\ IsFiniteSet(G2) /\ IsFiniteSet(G3)
        /\ all = G1 \cup G2 \cup G3
        /\ G1 \cap G2 = {} /\ (G1 \cup G2) \cap G3 = {}
    BY <1>2, <1>3 DEF GatheredContacts
  <1>5. /\ \A c \in G1 : c.source = "own"
        /\ \A c \in G2 : c.source = "firm"
        /\ \A c \in G3 : c.source = "unknown"
    OBVIOUS
  <1> DEFINE Group(G) == /\ IsFiniteSet(G) /\ G \subseteq GatheredContacts
                        /\ \A c, d \in G : c.at = d.at => c = d
  <1>5a. Group(G1) /\ Group(G2) /\ Group(G3)
    BY <1>3
  <1> HIDE DEF G1, G2, G3
  <1>6. /\ o1 \in Seq(G1) /\ Len(o1) = n1 /\ n1 \in Nat
        /\ \A i, j \in 1 .. n1 : i < j => o1[i].at < o1[j].at
        /\ \A c \in G1 : \E i \in 1 .. n1 : o1[i] = c
    BY <1>5a, GroupOrdered
  <1>7. /\ o2 \in Seq(G2) /\ Len(o2) = n2 /\ n2 \in Nat
        /\ \A i, j \in 1 .. n2 : i < j => o2[i].at < o2[j].at
        /\ \A c \in G2 : \E i \in 1 .. n2 : o2[i] = c
    BY <1>5a, GroupOrdered
  <1>8. /\ o3 \in Seq(G3) /\ Len(o3) = n3 /\ n3 \in Nat
        /\ \A i, j \in 1 .. n3 : i < j => o3[i].at < o3[j].at
        /\ \A c \in G3 : \E i \in 1 .. n3 : o3[i] = c
    BY <1>5a, GroupOrdered
  <1>9. Cardinality(all) = n1 + n2 + n3
    <2>1. n1 \in Nat /\ n2 \in Nat /\ n3 \in Nat /\ Cardinality({}) = 0
      BY <1>6, <1>7, <1>8, FS_EmptySet
    <2>2. /\ IsFiniteSet(G1 \cup G2)
          /\ Cardinality(G1 \cup G2) = n1 + n2 - Cardinality(G1 \cap G2)
      BY <1>4, FS_Union
    <2>3. Cardinality(G1 \cap G2) = 0 /\ Cardinality((G1 \cup G2) \cap G3) = 0
      BY <1>4, <2>1, Zenon
    <2>4. Cardinality(G1 \cup G2) = n1 + n2
      BY <2>1, <2>2, <2>3
    <2>5. Cardinality((G1 \cup G2) \cup G3)
            = Cardinality(G1 \cup G2) + n3 - Cardinality((G1 \cup G2) \cap G3)
      BY <1>4, <2>2, FS_Union
    <2>6. Cardinality((G1 \cup G2) \cup G3) = n1 + n2 + n3
      BY <2>1, <2>3, <2>4, <2>5
    <2>7. QED
      BY <1>4, <2>6, Zenon
  <1>10. G1 \subseteq all /\ G2 \subseteq all /\ G3 \subseteq all
    BY <1>4
  <1> HIDE DEF G1, G2, G3, o1, o2, o3, n1, n2, n3
  <1>11. o1 \in Seq(all) /\ o2 \in Seq(all) /\ o3 \in Seq(all)
    BY <1>6, <1>7, <1>8, <1>10
  <1>12. /\ order \in Seq(all) /\ Len(order) = n1 + n2 + n3
         /\ \A i \in 1 .. n1 : order[i] = o1[i]
         /\ \A i \in 1 .. n2 : order[n1 + i] = o2[i]
         /\ \A i \in 1 .. n3 : order[n1 + n2 + i] = o3[i]
    <2>1. /\ order \in Seq(all) /\ Len(order) = Len(o1) + Len(o2) + Len(o3)
          /\ \A i \in 1 .. Len(o1) : order[i] = o1[i]
          /\ \A i \in 1 .. Len(o2) : order[Len(o1) + i] = o2[i]
          /\ \A i \in 1 .. Len(o3) : order[Len(o1) + Len(o2) + i] = o3[i]
      BY <1>11, Joined
    <2>2. Len(o1) = n1 /\ Len(o2) = n2 /\ Len(o3) = n3
      BY <1>6, <1>7, <1>8
    <2> HIDE DEF order
    <2>3. QED
      BY <2>1, <2>2
  <1> HIDE DEF order
  <1>13. /\ \A i \in 1 .. n1 : o1[i] \in G1
         /\ \A i \in 1 .. n2 : o2[i] \in G2
         /\ \A i \in 1 .. n3 : o3[i] \in G3
    BY <1>6, <1>7, <1>8
  <1> DEFINE n == n1 + n2 + n3
  <1>14. ASSUME NEW i \in 1 .. n
         PROVE  \/ i \in 1 .. n1
                \/ i - n1 \in 1 .. n2 /\ i > n1 /\ i = n1 + (i - n1)
                \/ i - n1 - n2 \in 1 .. n3 /\ i > n1 + n2 /\ i = n1 + n2 + (i - n1 - n2)
    BY <1>6, <1>7, <1>8
  <1>15. {order[i] : i \in 1 .. n} = all
    <2>1. \A i \in 1 .. n : order[i] \in all
      BY <1>12
    <2>2. ASSUME NEW c \in all PROVE \E i \in 1 .. n : order[i] = c
      <3>1. CASE c \in G1
        <4>1. PICK i \in 1 .. n1 : o1[i] = c
          BY <1>6, <3>1
        <4>2. i \in 1 .. n
          BY <1>6, <1>7, <1>8
        <4>3. QED
          BY <1>12, <4>1, <4>2
      <3>2. CASE c \in G2
        <4>1. PICK i \in 1 .. n2 : o2[i] = c
          BY <1>7, <3>2
        <4>2. n1 + i \in 1 .. n
          BY <1>6, <1>7, <1>8
        <4>3. QED
          BY <1>12, <4>1, <4>2
      <3>3. CASE c \in G3
        <4>1. PICK i \in 1 .. n3 : o3[i] = c
          BY <1>8, <3>3
        <4>2. n1 + n2 + i \in 1 .. n
          BY <1>6, <1>7, <1>8
        <4>3. QED
          BY <1>12, <4>1, <4>2
      <3>4. QED
        BY <1>4, <3>1, <3>2, <3>3
    <2> HIDE DEF n
    <2>3. QED
      BY <2>1, <2>2
  <1>16. ASSUME NEW i \in 1 .. n, NEW j \in 1 .. n, i < j
         PROVE  Before(order[i], order[j])
    <2>1. CASE i \in 1 .. n1
      <3>1. order[i] = o1[i] /\ o1[i] \in G1 /\ order[i].source = "own"
        BY <1>5, <1>12, <1>13, <2>1
      <3>2. CASE j \in 1 .. n1
        <4>1. order[j].source = "own" /\ order[i].at < order[j].at
          BY <1>5, <1>6, <1>12, <1>13, <1>16, <2>1, <3>2
        <4>2. QED
          BY <3>1, <4>1, RankIs
      <3>3. CASE j - n1 \in 1 .. n2 /\ j = n1 + (j - n1)
        <4>1. order[j].source = "firm"
          BY <1>5, <1>12, <1>13, <3>3
        <4>2. QED
          BY <3>1, <4>1, RankIs
      <3>4. CASE j - n1 - n2 \in 1 .. n3 /\ j = n1 + n2 + (j - n1 - n2)
        <4>1. order[j].source = "unknown"
          BY <1>5, <1>12, <1>13, <3>4
        <4>2. QED
          BY <3>1, <4>1, RankIs
      <3>5. QED
        BY <1>14, <3>2, <3>3, <3>4
    <2>2. CASE i - n1 \in 1 .. n2 /\ i > n1 /\ i = n1 + (i - n1)
      <3> DEFINE p == i - n1
                 q == j - n1
      <3>1. order[i] = o2[p] /\ o2[p] \in G2 /\ order[i].source = "firm"
        BY <1>5, <1>12, <1>13, <2>2
      <3>2. j \notin 1 .. n1
        BY <1>6, <1>7, <1>8, <1>16, <2>2
      <3>3. CASE q \in 1 .. n2 /\ j = n1 + q
        <4>1. p < q
          BY <1>6, <1>7, <1>8, <1>16
        <4> HIDE DEF p, q
        <4>2. order[j] = o2[q] /\ order[j].source = "firm"
          BY <1>5, <1>12, <1>13, <3>3
        <4>3. p \in 1 .. n2
          BY <2>2 DEF p
        <4>4. order[i].at < order[j].at
          BY <1>7, <3>1, <3>3, <4>1, <4>2, <4>3
        <4>5. QED
          BY <3>1, <4>2, <4>4, RankIs
      <3>4. CASE j - n1 - n2 \in 1 .. n3 /\ j = n1 + n2 + (j - n1 - n2)
        <4>1. order[j].source = "unknown"
          BY <1>5, <1>12, <1>13, <3>4
        <4>2. QED
          BY <3>1, <4>1, RankIs
      <3>5. QED
        BY <1>14, <3>2, <3>3, <3>4
    <2>3. CASE i - n1 - n2 \in 1 .. n3 /\ i > n1 + n2 /\ i = n1 + n2 + (i - n1 - n2)
      <3> DEFINE p == i - n1 - n2
                 q == j - n1 - n2
      <3>1. order[i] = o3[p] /\ o3[p] \in G3 /\ order[i].source = "unknown"
        BY <1>5, <1>12, <1>13, <2>3
      <3>2. j \notin 1 .. n1 /\ j - n1 \notin 1 .. n2
        BY <1>6, <1>7, <1>8, <1>16, <2>3
      <3>3. q \in 1 .. n3 /\ j = n1 + n2 + q
        BY <1>14, <3>2
      <3>4. p < q
        BY <1>6, <1>7, <1>8, <1>16
      <3>5. p \in 1 .. n3
        BY <2>3
      <3> HIDE DEF p, q
      <3>6. order[j] = o3[q] /\ order[j].source = "unknown"
        BY <1>5, <1>12, <1>13, <3>3
      <3>7. order[i].at < order[j].at
        BY <1>8, <3>1, <3>3, <3>4, <3>5, <3>6
      <3>8. QED
        BY <3>1, <3>6, <3>7, RankIs
    <2>4. QED
      BY <1>14, <2>1, <2>2, <2>3
  <1>17. order \in Seq(GatheredContacts)
    BY <1>2, <1>12
  <1>18. Len(order) = n
    BY <1>12
  <1> HIDE DEF n
  <1>19. InTheirOrder(order, all)
    <2>1. n = Cardinality(all)
      BY <1>9 DEF n
    <2>2. QED
      BY <1>15, <1>16, <1>18, <2>1 DEF InTheirOrder
  <1>20. QED
    BY <1>1, <1>17, <1>19 DEF all

(* The budget of an attempt, and what the last of them leaves the shell.   *)
LEMMA Allowed ==
    ASSUME NEW m \in Makings
    PROVE  /\ Allowance(m) \in Int /\ Budget(Allowance(m)) \in Int
           /\ LastAllowance \in Int
           /\ m.attempt = RepackAttempts => Budget(Allowance(m)) = MaxBytes - LastAllowance
  <1>1. /\ MaxBytes \in Nat /\ ShellOverhead \in Nat /\ RepackStep \in Nat /\ MinBudget \in Nat
        /\ RepackAttempts \in Nat
    BY PackingAssumption
  <1>2. m.attempt \in Nat
    BY <1>1 DEF Makings
  <1>3. Allowance(m) \in Int /\ LastAllowance \in Int
    BY <1>1, <1>2 DEF Allowance, LastAllowance
  <1>4. Budget(Allowance(m)) \in Int
    BY <1>1, <1>3 DEF Budget
  <1>5. ASSUME m.attempt = RepackAttempts
        PROVE  Budget(Allowance(m)) = MaxBytes - LastAllowance
    <2>1. Allowance(m) = LastAllowance
      BY <1>5 DEF Allowance, LastAllowance
    <2>2. MaxBytes >= LastAllowance + MinBudget
      BY PackingAssumption DEF LastAllowance
    <2>3. QED
      BY <2>1, <2>2 DEF Budget
  <1>6. QED
    BY <1>3, <1>4, <1>5

LEMMA PartAdded ==
    ASSUME NEW parts \in Seq(MailParts), NEW first \in Nat, NEW next \in Nat, NEW bytes \in Nat,
           NEW budget \in Int,
           CutUpTo(parts, first), HaveRoom(parts, budget),
           AtHand(first, next, bytes, budget), next # first
    PROVE  LET more == Append(parts, [first |-> first, last |-> next - 1, bytes |-> bytes])
           IN more \in Seq(MailParts) /\ CutUpTo(more, next) /\ HaveRoom(more, budget)
  <1> DEFINE part == [first |-> first, last |-> next - 1, bytes |-> bytes]
             more == Append(parts, part)
             n == Len(parts)
  <1>1. 1 <= first /\ first < next /\ next - 1 \in Nat
    BY DEF AtHand
  <1>2. /\ part \in MailParts /\ part.first = first /\ part.last = next - 1
        /\ part.bytes = bytes
    BY <1>1 DEF MailParts
  <1>3. first = next - 1 \/ bytes <= budget
    BY <1>1 DEF AtHand
  <1>4. n \in Nat /\ \A i \in 1 .. n : parts[i] \in MailParts
    OBVIOUS
  <1> HIDE DEF part
  <1>5. /\ more \in Seq(MailParts) /\ Len(more) = n + 1 /\ more[n + 1] = part
        /\ \A i \in 1 .. n : more[i] = parts[i]
    BY <1>2
  <1> HIDE DEF more
  <1>6. \A i \in 1 .. n + 1 : i = n + 1 \/ i \in 1 .. n
    BY <1>4
  <1>7. HaveRoom(more, budget)
    BY <1>2, <1>3, <1>5, <1>6 DEF HaveRoom
  <1>8. CutUpTo(more, next)
    <2>1. \A i \in 1 .. n + 1 :
            1 <= more[i].first /\ more[i].first <= more[i].last /\ more[i].last < next
      <3>1. \A i \in 1 .. n :
              1 <= parts[i].first /\ parts[i].first <= parts[i].last /\ parts[i].last < first
        BY DEF CutUpTo
      <3>2. ASSUME NEW i \in 1 .. n
            PROVE  1 <= more[i].first /\ more[i].first <= more[i].last /\ more[i].last < next
        <4>1. more[i] = parts[i] /\ parts[i].last \in Nat
          BY <1>4, <1>5 DEF MailParts
        <4>2. QED
          BY <1>1, <3>1, <4>1
      <3>3. 1 <= part.first /\ part.first <= part.last /\ part.last < next
        BY <1>1, <1>2
      <3>4. QED
        BY <1>5, <1>6, <3>2, <3>3
    <2>2. more # <<>>
      BY <1>4, <1>5
    <2>3. next = more[n + 1].last + 1
      BY <1>1, <1>2, <1>5
    <2>4. CASE n = 0
      <3>1. first = 1 /\ more[1] = part
        BY <1>5, <2>4 DEF CutUpTo
      <3>2. \A i \in 1 .. n + 1 : ~ (i > 1)
        BY <2>4
      <3>3. QED
        BY <1>2, <1>5, <2>1, <2>2, <2>3, <3>1, <3>2 DEF CutUpTo
    <2>5. CASE n # 0
      <3>1. parts # <<>> /\ n \in 1 .. n /\ 1 \in 1 .. n
        BY <1>4, <2>5
      <3>2. more[1].first = 1 /\ first = parts[n].last + 1
        BY <1>5, <3>1 DEF CutUpTo
      <3>3. ASSUME NEW i \in 1 .. n + 1, i > 1
            PROVE  more[i].first = more[i - 1].last + 1
        <4>1. CASE i = n + 1
          <5>1. more[i] = part /\ more[i - 1] = parts[n]
            BY <1>4, <1>5, <3>1, <4>1
          <5>2. QED
            BY <1>2, <3>2, <5>1
        <4>2. CASE i \in 1 .. n
          <5>1. i - 1 \in 1 .. n
            BY <1>4, <3>3, <4>2
          <5>2. more[i] = parts[i] /\ more[i - 1] = parts[i - 1]
            BY <1>5, <4>2, <5>1
          <5>3. QED
            BY <3>3, <4>2, <5>2 DEF CutUpTo
        <4>3. QED
          BY <1>6, <4>1, <4>2
      <3>4. QED
        BY <1>5, <2>1, <2>2, <2>3, <3>2, <3>3 DEF CutUpTo
    <2>6. QED
      BY <2>4, <2>5
  <1>9. QED
    BY <1>5, <1>7, <1>8 DEF more, part

(* Two stages of one digest.                                               *)
Alike(m, n) ==
    /\ n.cost = m.cost /\ n.contacts = m.contacts
    /\ n.attempt = m.attempt /\ n.order = m.order

LEMMA FlushIs ==
    ASSUME NEW m \in Makings, NEW more \in Seq(MailParts),
           m.next # m.first =>
             more = Append(m.parts, [first |-> m.first, last |-> m.next - 1, bytes |-> m.bytes]),
           m.next = m.first => more = m.parts /\ m.bytes = 0
    PROVE  /\ Flush(m) \in Makings /\ Alike(m, Flush(m))
           /\ Flush(m).step = m.step /\ Flush(m).next = m.next
           /\ Flush(m).first = m.next /\ Flush(m).bytes = 0 /\ Flush(m).parts = more
  <1>1. Flush(m) = [m EXCEPT !.parts = more, !.first = m.next, !.bytes = 0]
    <2>1. CASE m.next = m.first
      BY <2>1 DEF Flush, Makings
    <2>2. CASE m.next # m.first
      BY <2>2 DEF Flush, Makings
    <2>3. QED
      BY <2>1, <2>2
  <1>2. m.next \in Nat
    BY DEF Makings
  <1>3. Flush(m) \in Makings
    <2>1. Flush(m) = [cost |-> m.cost, contacts |-> m.contacts, step |-> m.step,
                      attempt |-> m.attempt, order |-> m.order, parts |-> more,
                      first |-> m.next, bytes |-> 0, next |-> m.next]
      BY <1>1 DEF Makings
    <2>2. QED
      BY <1>2, <2>1 DEF Makings
  <1>4. /\ Flush(m).first = m.next /\ Flush(m).bytes = 0 /\ Flush(m).parts = more
        /\ Flush(m).step = m.step /\ Flush(m).next = m.next
    BY <1>1 DEF Makings
  <1>5. Alike(m, Flush(m))
    BY <1>1 DEF Makings, Alike
  <1>6. QED
    BY <1>3, <1>4, <1>5

LEMMA Flushed ==
    ASSUME NEW m \in Makings, Packs(m)
    PROVE  /\ Flush(m) \in Makings /\ Alike(m, Flush(m))
           /\ Flush(m).step = m.step /\ Flush(m).next = m.next
           /\ Flush(m).first = m.next /\ Flush(m).bytes = 0
           /\ CutUpTo(Flush(m).parts, m.next)
           /\ HaveRoom(Flush(m).parts, Budget(Allowance(m)))
           /\ 1 <= m.next
  <1> DEFINE budget == Budget(Allowance(m))
             part == [first |-> m.first, last |-> m.next - 1, bytes |-> m.bytes]
  <1>1. /\ m.first \in Nat /\ m.next \in Nat /\ m.bytes \in Nat /\ m.parts \in Seq(MailParts)
        /\ 1 <= m.first /\ m.first <= m.next /\ (m.next = m.first => m.bytes = 0)
    BY DEF Makings, Packs, AtHand
  <1>2. CutUpTo(m.parts, m.first) /\ HaveRoom(m.parts, budget)
        /\ AtHand(m.first, m.next, m.bytes, budget)
    BY DEF Packs
  <1>3. budget \in Int
    BY Allowed
  <1> HIDE DEF budget
  <1>4. CASE m.next = m.first
    BY <1>1, <1>2, <1>4, FlushIs DEF budget
  <1>5. CASE m.next # m.first
    <2> DEFINE more == Append(m.parts, part)
    <2>1. more \in Seq(MailParts) /\ CutUpTo(more, m.next) /\ HaveRoom(more, budget)
      BY <1>1, <1>2, <1>3, <1>5, PartAdded
    <2> HIDE DEF part
    <2>2. more = Append(m.parts, part)
      OBVIOUS
    <2> HIDE DEF more
    <2>3. /\ Flush(m) \in Makings /\ Alike(m, Flush(m))
          /\ Flush(m).step = m.step /\ Flush(m).next = m.next
          /\ Flush(m).first = m.next /\ Flush(m).bytes = 0 /\ Flush(m).parts = more
      BY <1>5, <2>1, <2>2, FlushIs DEF part
    <2>4. QED
      BY <1>1, <2>1, <2>3 DEF budget
  <1>6. QED
    BY <1>4, <1>5

LEMMA PackedAlike ==
    ASSUME NEW m, NEW n, Alike(m, n)
    PROVE  /\ Allowance(n) = Allowance(m)
           /\ \A part : Fits(n, part) <=> Fits(m, part)
  <1>1. Allowance(n) = Allowance(m)
    BY DEF Alike, Allowance
  <1>2. ASSUME NEW part PROVE Fits(n, part) <=> Fits(m, part)
    <2>1. Headings(n, part) = Headings(m, part)
      BY DEF Alike, Headings
    <2>2. Rendered(n, part) = Rendered(m, part)
      BY <2>1 DEF Alike, Rendered
    <2>3. QED
      BY <2>2 DEF Fits
  <1>3. QED
    BY <1>1, <1>2

(* One record more in the part at hand.                                    *)
LEMMA Placed ==
    ASSUME NEW m, MakingInv(m), m.step = "packing", m.next <= Len(m.order)
    PROVE  MakingInv(Place(m))
  <1> DEFINE budget == Budget(Allowance(m))
             size == m.order[m.next].size
             room == IF m.bytes + size > budget THEN Flush(m) ELSE m
             placed == Place(m)
  <1>1. m \in Makings /\ Packs(m)
    BY DEF MakingInv
  <1>2. /\ m.next \in Nat /\ m.bytes \in Nat /\ m.order \in Seq(GatheredContacts)
        /\ Len(m.order) \in Nat /\ 1 <= m.next
    <2>1. m.next \in Nat /\ m.bytes \in Nat /\ m.order \in Seq(GatheredContacts)
      BY <1>1 DEF Makings
    <2>2. Len(m.order) \in Nat
      BY <2>1
    <2>3. QED
      BY <1>1, <2>1, <2>2, Flushed
  <1>3. size \in Nat
    <2>1. m.next \in 1 .. Len(m.order)
      BY <1>2
    <2>2. m.order[m.next] \in GatheredContacts
      BY <1>2, <2>1
    <2>3. QED
      BY <2>2 DEF GatheredContacts
  <1>4. budget \in Int
    BY <1>1, Allowed
  <1>5. placed = [room EXCEPT !.bytes = @ + size, !.next = @ + 1]
    BY DEF Place
  <1> HIDE DEF budget, size, placed
  <1>6. /\ room \in Makings /\ Alike(m, room) /\ room.step = "packing" /\ room.next = m.next
        /\ CutUpTo(room.parts, room.first) /\ HaveRoom(room.parts, budget)
        /\ 1 <= room.first /\ room.first <= room.next
        /\ room.next = room.first => room.bytes = 0
        /\ room.next # room.first => room.bytes + size <= budget
    <2>1. CASE m.bytes + size > budget
      <3>1. room = Flush(m)
        BY <2>1
      <3>2. room.first = m.next /\ room.next = m.next /\ room.bytes = 0 /\ 1 <= m.next
            /\ CutUpTo(room.parts, m.next) /\ HaveRoom(room.parts, budget)
            /\ room \in Makings /\ Alike(m, room) /\ room.step = "packing"
        BY <1>1, <3>1, Flushed DEF budget
      <3> HIDE DEF room
      <3>3. QED
        BY <1>2, <3>2
    <2>2. CASE ~ (m.bytes + size > budget)
      <3>1. room = m
        BY <2>2
      <3>2. Alike(m, m)
        BY DEF Alike
      <3>3. m.bytes + size <= budget
        BY <1>2, <1>3, <1>4, <2>2
      <3>4. CutUpTo(m.parts, m.first) /\ HaveRoom(m.parts, budget)
            /\ AtHand(m.first, m.next, m.bytes, budget)
        BY <1>1 DEF Packs, budget
      <3> HIDE DEF room
      <3>5. QED
        BY <1>1, <3>1, <3>2, <3>3, <3>4 DEF AtHand
    <2>3. QED
      BY <2>1, <2>2
  <1> HIDE DEF room
  <1>7. room.first \in Nat /\ room.bytes \in Nat /\ room.next \in Nat
    BY <1>6 DEF Makings
  <1>8. placed = [cost |-> room.cost, contacts |-> room.contacts, step |-> room.step,
                  attempt |-> room.attempt, order |-> room.order, parts |-> room.parts,
                  first |-> room.first, bytes |-> room.bytes + size, next |-> room.next + 1]
    BY <1>5, <1>6 DEF Makings
  <1>9. placed \in Makings
    BY <1>3, <1>6, <1>7, <1>8 DEF Makings
  <1>10. Alike(m, placed)
    BY <1>6, <1>8 DEF Alike
  <1>11. /\ placed.parts = room.parts /\ placed.first = room.first /\ placed.step = "packing"
         /\ placed.next = m.next + 1 /\ placed.bytes = room.bytes + size
    BY <1>6, <1>8
  <1> HIDE DEF placed
  <1>12. AtHand(placed.first, placed.next, placed.bytes, budget)
    <2>1. 1 <= placed.first /\ placed.first < placed.next
      BY <1>2, <1>6, <1>7, <1>11
    <2>2. placed.next > placed.first + 1 => room.next # room.first
      BY <1>2, <1>6, <1>7, <1>11
    <2>3. placed.next > placed.first + 1 => placed.bytes <= budget
      BY <1>6, <1>11, <2>2
    <2>4. placed.first <= placed.next /\ placed.first # placed.next
      BY <1>2, <1>7, <1>11, <2>1
    <2>5. QED
      BY <2>1, <2>3, <2>4 DEF AtHand
  <1>13. Packs(placed)
    BY <1>6, <1>10, <1>11, <1>12, PackedAlike DEF Packs, budget
  <1>14. /\ MetInTurn(placed.contacts)
         /\ InTheirOrder(placed.order, placed.contacts) /\ Len(placed.order) # 0
    BY <1>10 DEF Alike, MakingInv
  <1>15. placed.next <= Len(placed.order) + 1
    BY <1>2, <1>10, <1>11 DEF Alike
  <1>16. MakingInv(placed)
    BY <1>9, <1>11, <1>13, <1>14, <1>15 DEF MakingInv
  <1>17. QED
    BY <1>16 DEF placed

(* What nothing was placed of yet.                                         *)
LEMMA AtTheStart ==
    ASSUME NEW m \in Makings, m.parts = <<>>, m.first = 1, m.next = 1, m.bytes = 0
    PROVE  Packs(m) /\ m.next <= Len(m.order) + 1
  <1>1. CutUpTo(m.parts, m.first)
    BY DEF CutUpTo
  <1>2. HaveRoom(m.parts, Budget(Allowance(m)))
    BY DEF HaveRoom
  <1>3. AtHand(m.first, m.next, m.bytes, Budget(Allowance(m)))
    BY DEF AtHand
  <1>4. Len(m.order) \in Nat
    <2>1. m.order \in Seq(GatheredContacts)
      BY DEF Makings
    <2>2. QED
      BY <2>1
  <1>5. QED
    BY <1>1, <1>2, <1>3, <1>4 DEF Packs

LEMMA RepackIs ==
    ASSUME NEW m \in Makings
    PROVE  Repack(m) = [cost |-> m.cost, contacts |-> m.contacts, step |-> m.step,
                        attempt |-> m.attempt, order |-> m.order, parts |-> <<>>,
                        first |-> 1, bytes |-> 0, next |-> 1]
  <1>1. m = [cost |-> m.cost, contacts |-> m.contacts, step |-> m.step,
             attempt |-> m.attempt, order |-> m.order, parts |-> m.parts,
             first |-> m.first, bytes |-> m.bytes, next |-> m.next]
    BY DEF Makings
  <1>2. Repack(m) = [m EXCEPT !.parts = <<>>, !.first = 1, !.bytes = 0, !.next = 1]
    BY DEF Repack
  <1>3. QED
    BY <1>1, <1>2

(* Three headings at most.                                                 *)
LEMMA HeadingsCost ==
    ASSUME NEW m \in Makings, NEW part \in MailParts,
           1 <= part.first, part.last <= Len(m.order)
    PROVE  /\ Rendered(m, part) \in Int
           /\ Rendered(m, part) <= m.cost.shell + 3 * m.cost.heading + part.bytes
  <1> DEFINE three == {"own", "firm", "unknown"}
             k == Cardinality(Headings(m, part))
             heading == m.cost.heading
  <1>1. Headings(m, part) \in SUBSET three
    <2>1. m.order \in Seq(GatheredContacts) /\ Len(m.order) \in Nat
      <3>1. m.order \in Seq(GatheredContacts)
        BY DEF Makings
      <3>2. QED
        BY <3>1
    <2>2. \A i \in part.first .. part.last : i \in 1 .. Len(m.order)
      BY <2>1 DEF MailParts
    <2>3. \A i \in part.first .. part.last : m.order[i] \in GatheredContacts
      BY <2>1, <2>2
    <2>4. \A i \in part.first .. part.last : m.order[i].source \in three
      BY <2>3 DEF GatheredContacts
    <2>5. QED
      BY <2>4 DEF Headings
  <1>2. IsFiniteSet(three) /\ Cardinality(three) <= 3
    <2>1. IsFiniteSet({"own"}) /\ Cardinality({"own"}) = 1
      BY FS_Singleton
    <2>2. IsFiniteSet({"own"} \cup {"firm"}) /\ Cardinality({"own"} \cup {"firm"}) <= 2
      <3> DEFINE one == {"own"}
      <3> HIDE DEF one
      <3>1. /\ IsFiniteSet(one \cup {"firm"})
            /\ Cardinality(one \cup {"firm"})
                  = IF "firm" \in one THEN Cardinality(one) ELSE Cardinality(one) + 1
        BY <2>1, FS_AddElement DEF one
      <3>2. QED
        BY <2>1, <3>1 DEF one
    <2> DEFINE two == {"own"} \cup {"firm"}
    <2>3. /\ IsFiniteSet(two \cup {"unknown"})
          /\ Cardinality(two \cup {"unknown"})
                = IF "unknown" \in two THEN Cardinality(two) ELSE Cardinality(two) + 1
      BY <2>2, FS_AddElement
    <2>4. Cardinality(two) \in Nat
      BY <2>2, FS_CardinalityType
    <2>5. three = two \cup {"unknown"}
      OBVIOUS
    <2> HIDE DEF two, three
    <2>6. QED
      BY <2>2, <2>3, <2>4, <2>5 DEF two
  <1>3. k \in Nat /\ k <= 3
    <2> HIDE DEF three
    <2>1. IsFiniteSet(Headings(m, part)) /\ Cardinality(Headings(m, part)) <= Cardinality(three)
      BY <1>1, <1>2, FS_Subset
    <2>2. Cardinality(three) \in Nat /\ k \in Nat
      BY <1>2, <2>1, FS_CardinalityType
    <2>3. QED
      BY <1>2, <2>1, <2>2
  <1>4. heading \in Nat /\ m.cost.shell \in Nat /\ part.bytes \in Nat
    BY DEF Makings, MailParts
  <1>5. Rendered(m, part) = m.cost.shell + heading * k + part.bytes
    BY DEF Rendered
  <1> HIDE DEF k, heading
  <1>6. k = 0 \/ k = 1 \/ k = 2 \/ k = 3
    BY <1>3
  <1>7. heading * k \in Int /\ heading * k <= 3 * heading
    BY <1>4, <1>6
  <1>8. QED
    BY <1>4, <1>5, <1>7 DEF heading

LEMMA Measured ==
    ASSUME NEW m, MakingInv(m), m.step = "packing", ~ (m.next <= Len(m.order))
    PROVE  MakingInv(Measure(m))
  <1> DEFINE budget == Budget(Allowance(m))
             split == Flush(m)
             fits == \A i \in DOMAIN split.parts : Fits(m, split.parts[i])
  <1>1. m \in Makings /\ Packs(m)
    BY DEF MakingInv
  <1>2. /\ split \in Makings /\ Alike(m, split) /\ split.first = m.next /\ split.next = m.next
        /\ split.step = "packing" /\ split.bytes = 0 /\ CutUpTo(split.parts, split.first)
        /\ HaveRoom(split.parts, budget) /\ 1 <= m.next
    BY <1>1, Flushed
  <1>3. m.next = Len(m.order) + 1 /\ Len(m.order) \in Nat /\ m.next \in Nat
    <2>1. m.next \in Nat /\ m.order \in Seq(GatheredContacts) /\ m.next <= Len(m.order) + 1
      BY <1>1 DEF Makings, MakingInv
    <2>2. Len(m.order) \in Nat
      BY <2>1
    <2>3. QED
      BY <2>1, <2>2
  <1>4. Measure(m) =
          IF fits THEN [split EXCEPT !.step = "packed"]
          ELSE IF m.attempt < RepackAttempts
          THEN [Repack(m) EXCEPT !.attempt = @ + 1]
          ELSE [Repack(m) EXCEPT !.step = "exhausted"]
    BY DEF Measure, SplitDigestModel
  <1>5. split.parts \in Seq(MailParts) /\ DOMAIN split.parts = 1 .. Len(split.parts)
    <2>1. split.parts \in Seq(MailParts)
      BY <1>2 DEF Makings
    <2> HIDE DEF split
    <2>2. QED
      BY <2>1
  <1>6. /\ MetInTurn(m.contacts) /\ InTheirOrder(m.order, m.contacts) /\ Len(m.order) # 0
    BY DEF MakingInv
  <1>7. /\ m.attempt \in 1 .. RepackAttempts /\ RepackAttempts \in Nat
        /\ m.cost.shell \in Nat /\ m.cost.heading \in Nat
    BY <1>1, PackingAssumption DEF Makings
  <1>8. /\ budget \in Int /\ LastAllowance \in Int
        /\ m.attempt = RepackAttempts => budget = MaxBytes - LastAllowance
    BY <1>1, Allowed
  <1> HIDE DEF split, budget
  <1>9. CASE fits
    <2> DEFINE packed == Measure(m)
    <2>1. packed = [cost |-> split.cost, contacts |-> split.contacts, step |-> "packed",
                    attempt |-> split.attempt, order |-> split.order, parts |-> split.parts,
                    first |-> split.first, bytes |-> split.bytes, next |-> split.next]
      BY <1>2, <1>4, <1>9 DEF Makings
    <2> HIDE DEF packed
    <2>2. packed \in Makings
      BY <1>2, <2>1 DEF Makings
    <2>3. Alike(m, packed)
      BY <1>2, <2>1 DEF Alike
    <2>4. /\ packed.parts = split.parts /\ packed.first = m.next /\ packed.next = m.next
          /\ packed.bytes = 0 /\ packed.step = "packed"
      BY <1>2, <2>1
    <2>5. AtHand(packed.first, packed.next, packed.bytes, budget)
      BY <1>2, <1>3, <2>4 DEF AtHand
    <2>6. Packs(packed)
      BY <1>2, <2>3, <2>4, <2>5, PackedAlike DEF Packs, budget
    <2>7. \A i \in 1 .. Len(packed.parts) : Fits(packed, packed.parts[i])
      BY <1>5, <1>9, <2>3, <2>4, PackedAlike
    <2>8. packed.order = m.order /\ packed.contacts = m.contacts
      BY <2>3 DEF Alike
    <2>9. MakingInv(packed)
      BY <1>3, <1>6, <2>2, <2>4, <2>6, <2>7, <2>8 DEF MakingInv
    <2>10. QED
      BY <2>9 DEF packed
  <1> HIDE DEF fits
  <1>10. CASE ~ fits /\ m.attempt < RepackAttempts
    <2> DEFINE retried == Measure(m)
    <2>1. retried = [cost |-> m.cost, contacts |-> m.contacts, step |-> "packing",
                     attempt |-> m.attempt + 1, order |-> m.order, parts |-> <<>>,
                     first |-> 1, bytes |-> 0, next |-> 1]
      BY <1>1, <1>4, <1>10, RepackIs
    <2> HIDE DEF retried
    <2>2. m.attempt + 1 \in 1 .. RepackAttempts
      BY <1>7, <1>10
    <2>3. retried \in Makings
      BY <1>1, <2>1, <2>2 DEF Makings
    <2>4. Packs(retried) /\ retried.next <= Len(retried.order) + 1
      BY <2>1, <2>3, AtTheStart
    <2>5. retried.order = m.order /\ retried.contacts = m.contacts /\ retried.step = "packing"
      BY <2>1
    <2>6. MakingInv(retried)
      BY <1>6, <2>3, <2>4, <2>5 DEF MakingInv
    <2>7. QED
      BY <2>6 DEF retried
  <1>11. CASE ~ fits /\ ~ (m.attempt < RepackAttempts)
    <2> DEFINE ended == Measure(m)
    <2>1. ended = [cost |-> m.cost, contacts |-> m.contacts, step |-> "exhausted",
                   attempt |-> m.attempt, order |-> m.order, parts |-> <<>>,
                   first |-> 1, bytes |-> 0, next |-> 1]
      BY <1>1, <1>4, <1>11, RepackIs
    <2> HIDE DEF ended
    <2>2. ended \in Makings
      BY <1>1, <2>1 DEF Makings
    <2>3. Packs(ended) /\ ended.next <= Len(ended.order) + 1
      BY <2>1, <2>2, AtTheStart
    <2>4. m.cost.shell + 3 * m.cost.heading > LastAllowance
      <3>1. PICK i \in 1 .. Len(split.parts) : ~ Fits(m, split.parts[i])
        BY <1>5, <1>11 DEF fits
      <3> DEFINE part == split.parts[i]
      <3>2. part \in MailParts
        BY <1>5
      <3>3. 1 <= part.first /\ part.last < m.next
        BY <1>2 DEF CutUpTo
      <3>4. part.first = part.last \/ part.bytes <= budget
        BY <1>2 DEF HaveRoom
      <3> HIDE DEF part
      <3>5. ~ Fits(m, part)
        BY <3>1 DEF part
      <3>6. part.last <= Len(m.order) /\ part.bytes \in Nat
        BY <1>3, <3>2, <3>3 DEF MailParts
      <3>7. /\ Rendered(m, part) \in Int
            /\ Rendered(m, part) <= m.cost.shell + 3 * m.cost.heading + part.bytes
        BY <1>1, <3>2, <3>3, <3>6, HeadingsCost
      <3>8. part.bytes <= budget /\ Rendered(m, part) > MaxBytes /\ MaxBytes \in Nat
        BY <3>4, <3>5, <3>7, PackingAssumption DEF Fits
      <3>9. budget = MaxBytes - LastAllowance
        BY <1>7, <1>8, <1>11
      <3>10. QED
        BY <1>7, <1>8, <3>6, <3>7, <3>8, <3>9
    <2>5. /\ ended.order = m.order /\ ended.contacts = m.contacts /\ ended.step = "exhausted"
          /\ ended.cost = m.cost
      BY <2>1
    <2>6. MakingInv(ended)
      BY <1>6, <2>2, <2>3, <2>4, <2>5 DEF MakingInv
    <2>7. QED
      BY <2>6 DEF ended
  <1>12. QED
    BY <1>9, <1>10, <1>11

LEMMA UnpackedInv ==
    ASSUME NEW cost \in [shell : Nat, heading : Nat]
    PROVE  MakingInv(Unpacked(cost))
  <1> DEFINE m == Unpacked(cost)
  <1>1. m = [cost |-> cost, contacts |-> {}, step |-> "gathering", attempt |-> 1,
             order |-> <<>>, parts |-> <<>>, first |-> 1, bytes |-> 0, next |-> 1]
    BY DEF Unpacked
  <1> HIDE DEF m
  <1>2. m \in Makings
    <2>1. 1 \in 1 .. RepackAttempts
      BY PackingAssumption
    <2>2. <<>> \in Seq(GatheredContacts) /\ <<>> \in Seq(MailParts)
      OBVIOUS
    <2>3. QED
      BY <1>1, <2>1, <2>2 DEF Makings
  <1>3. Packs(m) /\ m.next <= Len(m.order) + 1
    BY <1>1, <1>2, AtTheStart
  <1>4. MetInTurn(m.contacts) /\ m.step = "gathering" /\ m.next = 1
    BY <1>1, FS_EmptySet DEF MetInTurn
  <1>5. QED
    BY <1>2, <1>3, <1>4 DEF MakingInv, m

(* One more met, after the others.                                         *)
LEMMA MetInv ==
    ASSUME NEW m, MakingInv(m), m.step = "gathering",
           NEW met \in GatheredContacts, met.at = Cardinality(m.contacts)
    PROVE  MakingInv([m EXCEPT !.contacts = @ \cup {met}])
  <1> DEFINE to == [m EXCEPT !.contacts = @ \cup {met}]
             them == m.contacts
             more == them \cup {met}
             n == Cardinality(them)
  <1>1. m \in Makings /\ Packs(m) /\ m.next <= Len(m.order) + 1 /\ MetInTurn(them)
    BY DEF MakingInv
  <1>2. to = [cost |-> m.cost, contacts |-> more, step |-> m.step, attempt |-> m.attempt,
              order |-> m.order, parts |-> m.parts, first |-> m.first, bytes |-> m.bytes,
              next |-> m.next]
    <2>1. m = [cost |-> m.cost, contacts |-> m.contacts, step |-> m.step,
               attempt |-> m.attempt, order |-> m.order, parts |-> m.parts,
               first |-> m.first, bytes |-> m.bytes, next |-> m.next]
      BY <1>1 DEF Makings
    <2>2. to = [m EXCEPT !.contacts = more]
      OBVIOUS
    <2> HIDE DEF to, more
    <2>3. QED
      BY <2>1, <2>2
  <1>3. /\ IsFiniteSet(them) /\ \A c \in them : c.at < n /\ c.at \in Nat
        /\ \A c, d \in them : c.at = d.at => c = d
    BY <1>1 DEF MetInTurn, Makings, GatheredContacts
  <1>4. n \in Nat
    BY <1>3, FS_CardinalityType
  <1>5. met.at = n
    OBVIOUS
  <1> HIDE DEF them, n, to
  <1>6. met \notin them
    BY <1>3, <1>4, <1>5
  <1>7. IsFiniteSet(more) /\ Cardinality(more) = n + 1
    BY <1>3, <1>6, FS_AddElement DEF n
  <1>8. /\ \A c \in more : c.at < n + 1
        /\ \A c, d \in more : c.at = d.at => c = d
    BY <1>3, <1>4, <1>5
  <1>9. MetInTurn(more)
    BY <1>7, <1>8 DEF MetInTurn
  <1>10. more \in SUBSET GatheredContacts
    BY <1>1 DEF Makings, them
  <1> HIDE DEF more
  <1>11. to \in Makings
    BY <1>1, <1>2, <1>10 DEF Makings
  <1>12. /\ Packs(to) /\ to.next <= Len(to.order) + 1
         /\ to.contacts = more /\ to.step = "gathering"
    <2>1. /\ to.parts = m.parts /\ to.first = m.first /\ to.next = m.next /\ to.bytes = m.bytes
          /\ to.attempt = m.attempt /\ to.order = m.order
          /\ to.contacts = more /\ to.step = "gathering"
      BY <1>2
    <2>2. Allowance(to) = Allowance(m)
      BY <2>1 DEF Allowance
    <2>3. QED
      BY <1>1, <2>1, <2>2 DEF Packs
  <1>13. to.next = 1
    BY <1>2 DEF MakingInv
  <1>14. MakingInv(to)
    BY <1>9, <1>11, <1>12, <1>13 DEF MakingInv
  <1>15. QED
    BY <1>14 DEF to

LEMMA ModelledInv ==
    ASSUME NEW m, MakingInv(m), m.step = "gathering", m.contacts # {}
    PROVE  MakingInv(BuildDigestModel(m))
  <1> DEFINE model == BuildDigestModel(m)
             order == model.order
  <1>1. m \in Makings /\ Packs(m) /\ MetInTurn(m.contacts)
    BY DEF MakingInv
  <1>2. order \in Seq(GatheredContacts) /\ InTheirOrder(order, m.contacts)
    BY <1>1, ModelInOrder
  <1>3. model = [m EXCEPT !.step = "packing", !.order = order]
    BY <1>1 DEF BuildDigestModel, Makings
  <1> HIDE DEF order, model
  <1>4. model = [cost |-> m.cost, contacts |-> m.contacts, step |-> "packing",
                 attempt |-> m.attempt, order |-> order, parts |-> m.parts,
                 first |-> m.first, bytes |-> m.bytes, next |-> m.next]
    BY <1>1, <1>3 DEF Makings
  <1>5. model \in Makings
    BY <1>1, <1>2, <1>4 DEF Makings
  <1>6. Len(order) # 0
    BY <1>1, <1>2, FS_EmptySet DEF InTheirOrder, MetInTurn
  <1>7. /\ model.contacts = m.contacts /\ model.step = "packing" /\ model.order = order
        /\ model.attempt = m.attempt /\ model.parts = m.parts /\ model.first = m.first
        /\ model.bytes = m.bytes /\ model.next = m.next
    BY <1>4
  <1>8. Packs(model)
    <2>1. Allowance(model) = Allowance(m)
      BY <1>7 DEF Allowance
    <2>2. QED
      BY <1>1, <1>7, <2>1 DEF Packs
  <1>9. model.next <= Len(model.order) + 1
    <2>1. m.next = 1 /\ Len(order) \in Nat
      BY <1>2 DEF MakingInv
    <2>2. QED
      BY <1>7, <2>1
  <1>10. QED
    BY <1>1, <1>2, <1>5, <1>6, <1>7, <1>8, <1>9 DEF MakingInv, model

(* A digest that is made packs all, as stated.                             *)
LEMMA MakingPacks ==
    ASSUME NEW m, MakingInv(m)
    PROVE  PacksAll(m)
  <1> DEFINE parts == m.parts
             order == m.order
  <1>1. m \in Makings /\ CutUpTo(parts, m.first)
    BY DEF MakingInv, Packs
  <1>2. /\ parts \in Seq(MailParts) /\ order \in Seq(GatheredContacts)
    BY <1>1 DEF Makings
  <1> HIDE DEF parts, order
  <1>3. /\ DOMAIN parts = 1 .. Len(parts) /\ Len(parts) \in Nat
        /\ \A i \in 1 .. Len(parts) : parts[i] \in MailParts
        /\ DOMAIN order = 1 .. Len(order) /\ Len(order) \in Nat
    BY <1>2
  <1>4. ASSUME m.step = "packed"
        PROVE  /\ Len(order) = Cardinality(m.contacts)
               /\ {order[i] : i \in DOMAIN order} = m.contacts
               /\ \A i, j \in DOMAIN order : i < j => Before(order[i], order[j])
    BY <1>3, <1>4 DEF MakingInv, InTheirOrder, order
  <1>5. ASSUME m.step = "packed"
        PROVE  /\ parts # <<>> /\ parts[1].first = 1 /\ parts[Len(parts)].last = Len(order)
               /\ \A i \in DOMAIN parts :
                     /\ parts[i].first <= parts[i].last
                     /\ i > 1 => parts[i].first = parts[i - 1].last + 1
                     /\ Fits(m, parts[i])
    <2>1. /\ m.first = Len(order) + 1 /\ Len(order) # 0
          /\ \A i \in 1 .. Len(parts) : Fits(m, parts[i])
      BY <1>5 DEF MakingInv, parts, order
    <2>2. parts # <<>>
      BY <1>1, <1>3, <2>1 DEF CutUpTo
    <2>3. Len(parts) \in 1 .. Len(parts)
      BY <1>2, <1>3, <2>2
    <2>4. parts[Len(parts)].last \in Nat
      BY <1>3, <2>3 DEF MailParts
    <2>5. parts[1].first = 1 /\ m.first = parts[Len(parts)].last + 1
      BY <1>1, <2>2 DEF CutUpTo
    <2>6. parts[Len(parts)].last = Len(order)
      BY <1>3, <2>1, <2>4, <2>5
    <2>7. QED
      BY <1>1, <1>3, <2>1, <2>2, <2>5, <2>6 DEF CutUpTo
  <1>6. m.step = "exhausted" =>
            m.cost.shell + 3 * m.cost.heading
                > ShellOverhead + (RepackAttempts - 1) * RepackStep
    BY DEF MakingInv, LastAllowance
  <1>7. QED
    BY <1>4, <1>5, <1>6, Zenon DEF PacksAll, parts, order

-----------------------------------------------------------------------------
(* What the input of a rule can be.                                        *)

Moments == [zone : Zones, now : Int]

RInv ==
    /\ about = "address" => input \in Paths
    /\ about = "calendar" => input \in Moments
    /\ about = "settings" => input \in Settings
    /\ about = "build" => BuildInv(input)
    /\ about = "letters" => IsLetter(input)
    /\ about = "columns" => TabInv(input.tab, input.meaning)
    /\ about = "retention" => BookInv(input)
    /\ about = "filing" => FilingInv(input)
    /\ about = "packing" => MakingInv(input)

LEMMA InTheMaking == RInv => (about = "packing" => MakingInv(input))
  BY DEF RInv

LEMMA StartIsPath ==
    ASSUME NEW segment \in Segments
    PROVE  <<segment>> \in Paths
  BY DEF Paths, Segs

LEMMA LongerIsPath ==
    ASSUME NEW path \in Paths, NEW segment \in Segments
    PROVE  Append(path, segment) \in Paths
  <1> DEFINE longer == Append(path, segment)
  <1>1. path \in Seq(Segs) /\ segment \in Segs
    BY DEF Paths, Segs
  <1>2. longer \in Seq(Segs) /\ Len(longer) = Len(path) + 1
    BY <1>1
  <1> HIDE DEF longer
  <1>3. longer \in Paths
    BY <1>1, <1>2 DEF Paths
  <1>4. QED
    BY <1>3 DEF longer

LEMMA SetIsSetting ==
    ASSUME NEW props \in Settings, NEW key \in PropKeys, NEW text \in Texts(key)
    PROVE  SetProperty(props, key, text) \in Settings
  <1>1. text \in {"", "set", "one", "bad"}
    BY DEF Texts
  <1>2. QED
    BY <1>1 DEF Settings, SetProperty

LEMMA NothingIsSetting == NothingSet \in Settings
  BY DEF Settings, NothingSet

LEMMA NoTabInv == TabInv(NoTab, <<>>)
  <1>1. NoTab.exists = FALSE /\ NoTab.headers = <<>> /\ NoTab.rows = <<>>
    BY DEF NoTab
  <1>2. Shaped(NoTab)
    BY <1>1 DEF Shaped, NoTab
  <1>3. OneColumnEach(NoTab)
    BY <1>1 DEF OneColumnEach
  <1>4. QED
    BY <1>1, <1>2, <1>3 DEF TabInv

LEMMA RulesInitInv == RulesInit => RInv
  <1> SUFFICES ASSUME RulesInit PROVE RInv
    OBVIOUS
  <1>1. ASSUME NEW segment \in Segments, Take("address", <<segment>>) PROVE RInv
    BY <1>1, StartIsPath DEF Take, RInv
  <1>2. ASSUME NEW zone \in Zones, Take("calendar", [zone |-> zone, now |-> FirstInstant])
        PROVE  RInv
    BY <1>2, RulesAssumption DEF Take, RInv, Moments
  <1>3. ASSUME Take("settings", NothingSet) PROVE RInv
    BY <1>3, NothingIsSetting DEF Take, RInv
  <1>4. ASSUME NEW app \in {"web", "qr"}, NEW command \in Commands, NEW mode \in Modes,
               NEW v1 \in BOOLEAN, NEW v2 \in BOOLEAN,
               Runs(Loaded(app, command, mode, v1, v2)),
               Take("build", Loaded(app, command, mode, v1, v2))
        PROVE  RInv
    BY <1>4, LoadedInv DEF Take, RInv
  <1>5. ASSUME NEW draft \in Drafts, Take("letters", draft) PROVE RInv
    BY <1>5, RulesAssumption DEF Take, RInv
  <1>6. ASSUME NEW cost \in Costs, Take("packing", Unpacked(cost)) PROVE RInv
    <2>1. cost \in [shell : Nat, heading : Nat]
      BY RulesAssumption
    <2>2. MakingInv(Unpacked(cost))
      BY <2>1, UnpackedInv
    <2>3. QED
      BY <1>6, <2>2 DEF Take, RInv
  <1>7. ASSUME Take("columns", [tab |-> NoTab, meaning |-> <<>>]) PROVE RInv
    <2>1. input.tab = NoTab /\ input.meaning = <<>> /\ about = "columns"
      BY <1>7 DEF Take
    <2>2. TabInv(input.tab, input.meaning)
      BY <2>1, NoTabInv
    <2>3. QED
      BY <2>1, <2>2 DEF RInv
  <1>8. ASSUME Take("retention", EmptyBook) PROVE RInv
    BY <1>8, EmptyInv DEF Take, RInv
  <1>9. ASSUME NEW envelope \in Envelopes,
               Take("filing", [envelope |-> envelope, contacts |-> <<>>])
        PROVE  RInv
    <2>1. FilingInv([envelope |-> envelope, contacts |-> <<>>])
      <3>1. Len(<<>>) = 0 /\ <<>> \in Seq({}) /\ 0 < Len(Minted)
        BY RulesAssumption, FilingAssumption
      <3>2. AreKnown(<<>>)
        BY <3>1 DEF AreKnown
      <3>3. QED
        BY <3>2 DEF FilingInv
    <2>2. QED
      BY <1>9, <2>1 DEF Take, RInv
  <1>10. QED
    BY <1>1, <1>2, <1>3, <1>4, <1>5, <1>6, <1>7, <1>8, <1>9 DEF RulesInit, Take

LEMMA ChangedTab ==
    ASSUME NEW tab, NEW meaning, TabInv(tab, meaning), ChangeTab(tab, meaning)
    PROVE  RInv'
  <1>1. about' = "columns" /\ input' = [tab |-> tab, meaning |-> meaning]
    BY DEF ChangeTab, Grow
  <1>2. input'.tab = tab /\ input'.meaning = meaning
    BY <1>1
  <1>3. QED
    BY <1>1, <1>2 DEF RInv

LEMMA ColumnsNext ==
    ASSUME RInv,
           \/ ProvisionTab
           \/ ProvisioningDies
           \/ \E record \in TabRecords : Insert(record) \/ Update(record)
           \/ \E record \in TabRecords, fields \in Patches : Patch(record[Id], fields)
           \/ InUse /\ \E i \in DOMAIN Tab.headers :
                Delete(i) \/ Retype(i) \/ \E to \in DOMAIN Tab.headers : Drag(i, to)
           \/ \E name \in Fields \cup {Remarks} : Add(name)
           \/ InUse /\ \E r \in DOMAIN Tab.rows : RemarkOn(r)
    PROVE  RInv'
  <1> DEFINE meaning == input.meaning
  <1>1. about = "columns"
    BY DEF ProvisionTab, ProvisioningDies, Insert, Update, Patch, InUse, Add
  <1>2. /\ TabInv(Tab, meaning) /\ Shaped(Tab)
        /\ DOMAIN Tab.headers = 1 .. Len(Tab.headers) /\ DOMAIN Tab.rows = 1 .. Len(Tab.rows)
    <2>1. TabInv(Tab, meaning)
      BY <1>1 DEF RInv, Tab
    <2>2. QED
      BY <2>1 DEF TabInv, Shaped
  <1>3. CASE ProvisionTab \/ ProvisioningDies
    BY <1>2, <1>3, Provisioned, ChangedTab DEF ProvisionTab, ProvisioningDies
  <1>4. ASSUME NEW record \in TabRecords, Insert(record) PROVE RInv'
    BY <1>2, <1>4, Inserted, ChangedTab DEF Insert, InUse
  <1>5. ASSUME NEW record \in TabRecords, Update(record) PROVE RInv'
    <2> DEFINE row == FindById(Tab, record[Id])
               N == {f \in Fields : Has(Tab, f)}
               fields == PresentFields(Tab, record)
    <2>1. /\ Tab.headers # <<>> /\ row # 0
          /\ ChangeTab(SetCells(Tab, row, fields), [meaning EXCEPT ![row] = WithFields(@, fields)])
      BY <1>5 DEF Update, InUse, UpdateContact
    <2>2. row \in 1 .. Len(Tab.rows)
      BY <1>2, <2>1, FoundIsARow
    <2>3. N \in SUBSET Known /\ fields \in [N -> Values] /\ \A name \in N : Has(Tab, name)
      BY PresentIsWritten DEF Known
    <2> HIDE DEF row, N, fields, meaning
    <2>4. QED
      BY <1>2, <2>1, <2>2, <2>3, CellsSet, ChangedTab
  <1>6. ASSUME NEW record \in TabRecords, NEW patch \in Patches, Patch(record[Id], patch)
        PROVE  RInv'
    <2> DEFINE row == FindById(Tab, record[Id])
               fields == Patched(Tab, patch)
               N == DOMAIN fields
    <2>1. /\ Tab.headers # <<>> /\ row # 0
          /\ ChangeTab(SetCells(Tab, row, fields), [meaning EXCEPT ![row] = WithFields(@, fields)])
      BY <1>6 DEF Patch, InUse, PatchRecord
    <2>2. row \in 1 .. Len(Tab.rows)
      BY <1>2, <2>1, FoundIsARow
    <2>3. N \in SUBSET Known /\ fields \in [N -> Values] /\ \A name \in N : Has(Tab, name)
      BY PatchedIsWritten
    <2> HIDE DEF row, N, fields, meaning
    <2>4. QED
      BY <1>2, <2>1, <2>2, <2>3, CellsSet, ChangedTab
  <1>7. ASSUME InUse, NEW i \in DOMAIN Tab.headers, Delete(i) PROVE RInv'
    <2>1. ChangeTab(DeleteColumn(Tab, i), Cleared(meaning, KeyAt(Tab, i)))
      BY <1>7, Zenon DEF Delete, Cleared, KeyAt
    <2>2. Len(Tab.headers) > 1
      BY <1>7 DEF Delete
    <2>3. TabInv(DeleteColumn(Tab, i), Cleared(meaning, KeyAt(Tab, i)))
      BY <1>2, <1>7, <2>2, Deleted
    <2>4. QED
      BY <2>1, <2>3, ChangedTab
  <1>8. ASSUME InUse, NEW i \in DOMAIN Tab.headers, Retype(i) PROVE RInv'
    BY <1>2, <1>8, Retitled, ChangedTab DEF Retype
  <1>9. ASSUME InUse, NEW i \in DOMAIN Tab.headers, NEW to \in DOMAIN Tab.headers, Drag(i, to)
        PROVE  RInv'
    BY <1>2, <1>9, Dragged, ChangedTab DEF Drag, InUse
  <1>10. ASSUME NEW name \in Fields \cup {Remarks}, Add(name) PROVE RInv'
    BY <1>2, <1>10, Added, ChangedTab DEF Add, InUse, Known
  <1>11. ASSUME InUse, NEW r \in DOMAIN Tab.rows, RemarkOn(r) PROVE RInv'
    BY <1>2, <1>11, Remarked, ChangedTab DEF RemarkOn, InUse
  <1>12. QED
    BY <1>3, <1>4, <1>5, <1>6, <1>7, <1>8, <1>9, <1>10, <1>11

LEMMA RulesNextInv == RInv /\ [RulesNext]_rulesVars => RInv'
  <1> SUFFICES ASSUME RInv, [RulesNext]_rulesVars PROVE RInv'
    OBVIOUS
  <1>1. ASSUME NEW segment \in Segments, LongerAddress(segment) PROVE RInv'
    <2>1. about = "address" /\ about' = about /\ input' = Append(input, segment)
      BY <1>1 DEF LongerAddress, Grow
    <2>2. input' \in Paths
      BY <2>1, LongerIsPath DEF RInv
    <2>3. QED
      BY <2>1, <2>2 DEF RInv
  <1>2. ASSUME Later PROVE RInv'
    <2>1. about = "calendar" /\ about' = about /\ input' = [input EXCEPT !.now = @ + 1]
      BY <1>2 DEF Later, Grow
    <2>2. input \in Moments
      BY <2>1 DEF RInv
    <2>3. input' \in Moments
      BY <2>1, <2>2 DEF Moments
    <2>4. QED
      BY <2>1, <2>3 DEF RInv
  <1>3. ASSUME NEW key \in PropKeys, NEW text \in Texts(key), Set(key, text) PROVE RInv'
    <2>1. about = "settings" /\ about' = about /\ input' = SetProperty(input, key, text)
      BY <1>3 DEF Set, Grow
    <2>2. QED
      BY <2>1, SetIsSetting DEF RInv
  <1>4. ASSUME NEW submit \in SubmissionFixtures \cup {"nonsense"}, NEW book \in BookingFixtures,
               Ask(submit, book)
        PROVE  RInv'
    <2>1. about = "build" /\ about' = about
          /\ input' = [input EXCEPT !.submit = submit, !.book = book]
      BY <1>4 DEF Ask, Grow
    <2>2. BuildInv(input')
      BY <2>1, AskInv DEF RInv
    <2>3. QED
      BY <2>1, <2>2 DEF RInv
  <1>5. ASSUME UseClient PROVE RInv'
    <2>1. PICK which \in DOMAIN input.clients : Grow("build", GetClient(input, which))
      BY <1>5 DEF UseClient
    <2>2. about = "build" /\ about' = about /\ input' = GetClient(input, which)
      BY <2>1 DEF Grow
    <2>3. BuildInv(input) /\ which \in ClientsOf(input.app)
      BY <2>2 DEF RInv, BuildInv
    <2>4. BuildInv(input')
      BY <2>2, <2>3, UseInv
    <2>5. QED
      BY <2>2, <2>4 DEF RInv
  <1>6. ASSUME NEW contact \in Gathered, OneMoreContact(contact) PROVE RInv'
    <2> DEFINE met == [source |-> contact.source, size |-> contact.size,
                       at |-> Cardinality(input.contacts)]
    <2>1. /\ about = "packing" /\ about' = about /\ input.step = "gathering"
          /\ input' = [input EXCEPT !.contacts = @ \cup {met}]
      BY <1>6 DEF OneMoreContact, Grow
    <2>2. MakingInv(input)
      BY <2>1, InTheMaking
    <2>3. met \in GatheredContacts /\ met.at = Cardinality(input.contacts)
      <3>1. contact.source \in {"own", "firm", "unknown"} /\ contact.size \in Nat
        BY RulesAssumption
      <3>2. Cardinality(input.contacts) \in Nat
        BY <2>2, FS_CardinalityType DEF MakingInv, MetInTurn
      <3>3. QED
        BY <3>1, <3>2 DEF GatheredContacts
    <2> HIDE DEF met
    <2>4. MakingInv(input')
      BY <2>1, <2>2, <2>3, MetInv
    <2>5. QED
      BY <2>1, <2>4 DEF RInv
  <1>7. ASSUME \/ ProvisionTab
               \/ ProvisioningDies
               \/ \E record \in TabRecords : Insert(record) \/ Update(record)
               \/ \E record \in TabRecords, fields \in Patches : Patch(record[Id], fields)
               \/ InUse /\ \E i \in DOMAIN Tab.headers :
                    Delete(i) \/ Retype(i) \/ \E to \in DOMAIN Tab.headers : Drag(i, to)
               \/ \E name \in Fields \cup {Remarks} : Add(name)
               \/ InUse /\ \E r \in DOMAIN Tab.rows : RemarkOn(r)
        PROVE  RInv'
    BY <1>7, ColumnsNext
  <1>8. ASSUME NEW field \in OptionalFields, Give(field) PROVE RInv'
    <2>1. about = "letters" /\ about' = about /\ field \in MayBeGiven(input)
          /\ input' = [input EXCEPT !.given = @ \cup {field}]
      BY <1>8 DEF Give, Grow
    <2>2. IsLetter(input')
      BY <2>1, GivenIsLetter DEF RInv
    <2>3. QED
      BY <2>1, <2>2 DEF RInv
  <1>9. ASSUME NEW rec \in Gatherings, OneMoreGathered(rec) PROVE RInv'
    <2>1. about = "letters" /\ about' = about
          /\ input' = [input EXCEPT !.records = @ \cup {rec}]
      BY <1>9 DEF OneMoreGathered, Grow
    <2>2. IsLetter(input')
      BY <2>1, GatheredIsLetter DEF RInv
    <2>3. QED
      BY <2>1, <2>2 DEF RInv
  <1>10. ASSUME NEW row \in NewRow, about = "retention",
                input.step # "idle" => Unfinished(row),
                Grow("retention", Appended(input, row))
         PROVE  RInv'
    <2>1. about' = "retention" /\ input' = Appended(input, row)
      BY <1>10 DEF Grow
    <2>2. BookInv(input')
      BY <1>10, <2>1, AppendedInv DEF RInv
    <2>3. QED
      BY <2>1, <2>2 DEF RInv
  <1>11. ASSUME Maintain \/ MaintenanceEnds PROVE RInv'
    <2>1. about = "retention" /\ about' = about
      BY <1>11 DEF Maintain, MaintenanceEnds, Grow
    <2>2. BookInv(input')
      BY <1>11, <2>1, MaintainedInv DEF RInv, Maintain, MaintenanceEnds, Grow
    <2>3. QED
      BY <2>1, <2>2 DEF RInv
  <1>12. ASSUME NEW row \in Rows, OneMoreRow(row) PROVE RInv'
    BY <1>10, <1>12, RulesAssumption DEF OneMoreRow
  <1>13. ASSUME NEW row \in Arrivals, Arrives(row) PROVE RInv'
    BY <1>10, <1>13, RulesAssumption DEF Arrives
  <1>14. ASSUME NEW person \in People, OneMoreKnown(person) PROVE RInv'
    <2> DEFINE known == [contactId |-> Minted[Len(input.contacts) + 1],
                         email |-> person.email, phone |-> person.phone]
    <2>1. /\ about = "filing" /\ about' = about /\ Len(input.contacts) < MaxPeople
          /\ input' = [input EXCEPT !.contacts = Append(@, known)]
      BY <1>14 DEF OneMoreKnown, Grow
    <2>2. known.contactId = Minted[Len(input.contacts) + 1]
      OBVIOUS
    <2> HIDE DEF known
    <2>3. FilingInv(input')
      BY <2>1, <2>2, OneMoreKnownInv DEF RInv
    <2>4. QED
      BY <2>1, <2>3 DEF RInv
  <1>15. ASSUME MakeDigest PROVE RInv'
    <2>1. about = "packing" /\ about' = about
      BY <1>15 DEF MakeDigest, Grow
    <2>2. MakingInv(input)
      BY <2>1, InTheMaking
    <2>3. ASSUME input.step = "gathering", input.contacts # {}, input' = BuildDigestModel(input)
          PROVE  MakingInv(input')
      BY <2>2, <2>3, ModelledInv
    <2>4. ASSUME input.step = "packing", input.next <= Len(input.order), input' = Place(input)
          PROVE  MakingInv(input')
      BY <2>2, <2>4, Placed
    <2>5. ASSUME input.step = "packing", input.next > Len(input.order), input' = Measure(input)
          PROVE  MakingInv(input')
      <3>1. input.next \in Nat /\ Len(input.order) \in Nat
        <4>1. input.next \in Nat /\ input.order \in Seq(GatheredContacts)
          BY <2>2 DEF MakingInv, Makings
        <4>2. QED
          BY <4>1
      <3>2. ~ (input.next <= Len(input.order))
        BY <2>5, <3>1
      <3>3. QED
        BY <2>2, <2>5, <3>2, Measured
    <2>6. MakingInv(input')
      BY <1>15, <2>3, <2>4, <2>5 DEF MakeDigest, Grow
    <2>7. QED
      BY <2>1, <2>6 DEF RInv
  <1>16. CASE UNCHANGED rulesVars
    BY <1>16 DEF rulesVars, RInv
  <1>17. QED
    BY <1>1, <1>2, <1>3, <1>4, <1>5, <1>6, <1>7, <1>8, <1>9, <1>11, <1>12, <1>13, <1>14, <1>15,
       <1>16
       DEF RulesNext

LEMMA RulesInvariant == RulesSpec => []RInv
  BY RulesInitInv, RulesNextInv, PTL DEF RulesSpec

-----------------------------------------------------------------------------
(* Whatever address is asked for, of any segments, spelt in any way and    *)
(* with any slashes after it: a page that is shown names as its own one    *)
(* address, where it is found again and which the one asked for spells     *)
(* out; and its alternates, the selector and its links lead to pages that  *)
(* exist, in the locale they mean (i18n/route.ts, App.tsx, lib/meta.ts).   *)
THEOREM AddressesAreCanonical == RulesSpec => []OnePageOneAddress
  <1>1. RInv => OnePageOneAddress
    BY OneAddress DEF RInv, OnePageOneAddress
  <1>2. QED
    BY <1>1, RulesInvariant, PTL

(* At any instant, in any zone with or without a change of its offset and  *)
(* for any horizon, the slots the website offers are those the booking     *)
(* command takes (availability.ts against validateSlotWindow), each at the *)
(* time of day it is offered for, and the contract lets the request pass.  *)
THEOREM OffersAreAccepted == RulesSpec => []OfferedSlotsAreAccepted
  <1>1. ASSUME about = "calendar" => input \in Moments
        PROVE  OfferedSlotsAreAccepted
    <2>1. ASSUME input \in Moments PROVE OfferedIsAccepted(input.zone, input.now)
      <3>1. input.zone \in Zones /\ input.now \in Int
        BY <2>1 DEF Moments
      <3>2. QED
        BY <3>1, RulesAssumption, OfferedAccepted
    <2>2. QED
      BY <1>1, <2>1, BookingRequestOk DEF OfferedSlotsAreAccepted
  <1>2. RInv => OfferedSlotsAreAccepted
    BY <1>1 DEF RInv
  <1>3. QED
    BY <1>2, RulesInvariant, PTL

(* At any instant and in any zone an inquiry is due at 5 PM of the next    *)
(* business day (slaDueAt of Sla.js), though the rule steps by 24 hours.   *)
THEOREM AnswersAreDue == RulesSpec => []DueOnNextBusinessDay
  <1>1. ASSUME about = "calendar" => input \in Moments
        PROVE  DueOnNextBusinessDay
    <2>1. ASSUME input \in Moments PROVE DueIsNextBusinessDay(input.zone, input.now)
      <3>1. input.zone \in Zones /\ input.now \in Int
        BY <2>1 DEF Moments
      <3>2. QED
        BY <3>1, RulesAssumption, DueNext
    <2>2. QED
      BY <1>1, <2>1 DEF DueOnNextBusinessDay
  <1>2. RInv => DueOnNextBusinessDay
    BY <1>1 DEF RInv
  <1>3. QED
    BY <1>2, RulesInvariant, PTL

(* Whatever the properties are set to, the operator's list, the health of  *)
(* the backend and its wiring agree (Config.js, Provisioning.js,           *)
(* Runtime.js); and however a page is built, whatever its address asks of  *)
(* the simulator and whichever clients it uses in whatever order, it sends *)
(* where its build was told to and never simulates what is built.          *)
THEOREM WhatIsConfiguredRuns == RulesSpec => []SettingsAreHonest
  <1>1. RInv => SettingsAreHonest
    BY SettingsFacts, PageHonest DEF RInv, SettingsAreHonest
  <1>2. QED
    BY <1>1, RulesInvariant, PTL

(* Whatever of a record is given and whatever is configured, each of the   *)
(* five mails says the same in both of its parts, in English or in the     *)
(* language asked for, and no more than it may (gas/emails): the user of a *)
(* card reads only their own name and somebody they can reach, and every   *)
(* record of a digest has its ways to be reached and its owner in it.      *)
THEOREM MailsSayWhatIsKnown == RulesSpec => []LettersAreHonest
  <1>1. RInv => LettersAreHonest
    BY LetterHonest DEF RInv, LettersAreHonest
  <1>2. QED
    BY <1>1, RulesInvariant, PTL

(* However the partners drag, retype, delete and add columns, and in       *)
(* whatever order rows are appended, patched and updated meanwhile, what   *)
(* was written under a name is what is read under it, in every row, for    *)
(* any layout and for tabs of any size (platform/SheetRepository.js); and  *)
(* a tab that provisioning calls correct has a column for every field.     *)
THEOREM ColumnsMayMove == RulesSpec => []ColumnsKeepTheirMeaning
  <1>1. RInv => ColumnsKeepTheirMeaning
    BY ReadBack DEF RInv, ColumnsKeepTheirMeaning
  <1>2. QED
    BY <1>1, RulesInvariant, PTL

(* However many rows both tabs hold, wherever maintenance dies between two *)
(* deletions by row number, and whatever a booking appends meanwhile, no   *)
(* pending work, nothing unreadable and nothing younger than the cutoff is *)
(* deleted, and a tab that was gone through holds nothing else             *)
(* (runRetentionMaintenance, removeByIds).                                 *)
THEOREM PendingSurvives == RulesSpec => []RetentionKeepsPending
  <1>1. RInv => RetentionKeepsPending
    BY BookKeeps DEF RInv, RetentionKeepsPending
  <1>2. QED
    BY <1>1, RulesInvariant, PTL

(* However many contacts a digest is of, whatever their records take and   *)
(* however often its parts are measured and cut again, the parts that are  *)
(* sent are within the ceiling or a single record and go through every     *)
(* contact once, in order; and none is held back unless what stands around *)
(* the records alone takes more than the last allowance                    *)
(* (splitDigestModel, packPartsWithinCeiling of Digest.js).                *)
THEOREM DigestsAreWhole == RulesSpec => []DigestPacksAll
  <1>1. RInv => DigestPacksAll
    BY MakingPacks, InTheMaking DEF DigestPacksAll
  <1>2. QED
    BY <1>1, RulesInvariant, PTL

(* However the Contacts tab has grown and whatever the browser's signals   *)
(* say by now, a repair passes the conflict check and writes the Lead or   *)
(* Contact and the Delivery of the first attempt, for any way keys are     *)
(* compared and any number of contacts and suggestions (Matching.js,       *)
(* reconciliationContext of Intake.js).                                    *)
THEOREM RepairsAreFaithful == RulesSpec => []RepairsReproduce
  <1>1. RInv => RepairsReproduce
    BY RepairedAsAccepted, RulesAssumption DEF RInv, RepairsReproduce, FilingInv
  <1>2. QED
    BY <1>1, RulesInvariant, PTL
=============================================================================
