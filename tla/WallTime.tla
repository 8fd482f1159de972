------------------------------ MODULE WallTime ------------------------------
(***************************************************************************)
(* The wall clock of a named zone and the instant a wall time names        *)
(* (lib/timezone.ts), around one change of the zone's clocks.              *)
(*                                                                         *)
(* Instants are minutes of UTC.  A wall time is the instant its digits     *)
(* would name in UTC, so that a zone's offset is a difference of the two.  *)
(* A zone has one offset before the instant `at` and another from then on. *)
(***************************************************************************)
LOCAL INSTANCE Integers

Zone == [at : Int, before : Int, after : Int]

\* What the runtime makes of a name: {} when it knows none such, and else what
\* it resolves to, which may be an offset in place of a zone.
isValidTimeZone(resolved) == \E z \in resolved : ~z.isOffset

\* The reading of the zone's clock at an instant.
utcToZonedWallTime(t, zone) == t + (IF t < zone.at THEN zone.before ELSE zone.after)

offsetMinutesAt(t, zone) == utcToZonedWallTime(t, zone) - t

\* The wall time read as UTC, corrected by the offset found there, and once more
\* by the one found at that guess.
FirstGuess(wall, zone) == wall - offsetMinutesAt(wall, zone)
Corrected(wall, zone) == wall - offsetMinutesAt(FirstGuess(wall, zone), zone)

\* A correction that does not read back is dropped for the guess.
Instant(wall, zone) ==
    IF utcToZonedWallTime(Corrected(wall, zone), zone) # wall
    THEN FirstGuess(wall, zone) ELSE Corrected(wall, zone)

(************************** Digits, in a common year **********************)

DaysIn == <<31, 28, 31, 30, 31, 30, 31, 31, 30, 31, 30, 31>>
DaysBefore[m \in 1 .. 12] == IF m = 1 THEN 0 ELSE DaysBefore[m - 1] + DaysIn[m - 1]

\* The shape is right and every number within its widest range: no month is
\* shorter than another here.
parseWallClock(digits) ==
    {d \in {digits} : /\ d.month \in 1 .. 12 /\ d.day \in 1 .. 31
                      /\ d.hour \in 0 .. 23 /\ d.minute \in 0 .. 59}

\* Days past the end of a month run over into the next.
DateUTC(d) == ((DaysBefore[d.month] + d.day - 1) * 24 + d.hour) * 60 + d.minute

\* The instant, or {} for a request that is refused.  The digits of a day that
\* its month does not have never read back.
zonedWallTimeToUtc(digits, resolved) ==
    {IF d.day > DaysIn[d.month] THEN FirstGuess(DateUTC(d), z.zone)
     ELSE Instant(DateUTC(d), z.zone)
        : d \in parseWallClock(digits), z \in {r \in resolved : isValidTimeZone(resolved)}}
=============================================================================
