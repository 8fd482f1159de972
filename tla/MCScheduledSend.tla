--------------------------- MODULE MCScheduledSend ---------------------------
(* Instances of ScheduledSend for TLC, and the wall clock of every zone with *)
(* offsets of up to three on either side of a change.                        *)
EXTENDS ScheduledSend, WallTime, TLC

Symmetry == Permutations(Row) \cup Permutations(Worker)

Zones == [at : {0}, before : -3 .. 3, after : -3 .. 3]
West == {z \in Zones : z.before <= 0 /\ z.after <= 0}
East == {z \in Zones : z.before >= 0 /\ z.after >= 0}
Asked == -8 .. 8
Moments == -16 .. 16
Showing(w, z) == {t \in Moments : utcToZonedWallTime(t, z) = w}

\* The first moment at which the clock shows the wall time or a later one.
Arrival(w, z) ==
    CHOOSE t \in Moments : /\ utcToZonedWallTime(t, z) >= w
                           /\ \A u \in Moments : u < t => utcToZonedWallTime(u, z) < w

\* A wall time that exists is kept, and a third pass would change nothing.
ASSUME TimesAreKept ==
    \A z \in Zones, w \in Asked : Showing(w, z) # {} =>
        /\ Instant(w, z) \in Showing(w, z)
        /\ w - offsetMinutesAt(Corrected(w, z), z) = Corrected(w, z)

\* West of Greenwich nothing leaves before the wall time has arrived, and what
\* is shown twice leaves at the first.
ASSUME WestIsNeverEarly ==
    \A z \in West, w \in Asked :
        IF Showing(w, z) # {} THEN Instant(w, z) = Arrival(w, z)
        ELSE Instant(w, z) >= Arrival(w, z)

\* East of Greenwich what the clocks skip leaves before it has arrived, and what
\* is shown twice leaves at the second.
ASSUME EastIsNot ==
    \A z \in East, w \in Asked :
        /\ Showing(w, z) = {} <=> Instant(w, z) < Arrival(w, z)
        /\ \A t \in Showing(w, z) : t <= Instant(w, z)

\* A request is refused for what is not a wall time or not a zone; a day that its
\* month does not have runs over into the next.
ASSUME RequestsAreResolved ==
    LET Digits(m, d, h) == [month |-> m, day |-> d, hour |-> h, minute |-> 30]
        Named(offset) == [isOffset |-> FALSE,
                          zone |-> [at |-> 0, before |-> offset, after |-> offset]]
    IN  /\ \A d \in {Digits(13, 1, 9), Digits(2, 32, 9), Digits(2, 1, 24)} :
               zonedWallTimeToUtc(d, {Named(60)}) = {}
        /\ zonedWallTimeToUtc(Digits(3, 1, 9), {}) = {}
        /\ zonedWallTimeToUtc(Digits(3, 1, 9), {[Named(60) EXCEPT !.isOffset = TRUE]}) = {}
        /\ zonedWallTimeToUtc(Digits(2, 31, 9), {Named(60)})
               = zonedWallTimeToUtc(Digits(3, 3, 9), {Named(60)})
=============================================================================
