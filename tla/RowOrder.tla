------------------------------ MODULE RowOrder ------------------------------
(* Where the QML models insert a row: newest first, by a binary search. *)
EXTENDS Integers, Sequences

\* The bounds between which the search goes on: <<lowerBound, upperBound>>.
Bounds(size) == (0 .. size) \X (-1 .. size)
Middle(bounds) == IF bounds[1] + bounds[2] < 0 THEN 0 ELSE (bounds[1] + bounds[2]) \div 2

\* Mutant: a row older than all others goes before the last one.
PositionBeforeLast(times, time) ==
    LET search[bounds \in Bounds(Len(times))] ==
            LET pos == Middle(bounds)
                other == times[pos + 1]
            IN  IF bounds[1] = pos /\ time > other THEN pos
                ELSE IF other > time
                     THEN IF pos + 1 > bounds[2] THEN pos ELSE search[<<pos + 1, bounds[2]>>]
                ELSE IF bounds[1] > bounds[2] THEN pos
                ELSE search[<<bounds[1], pos - 1>>]
    IN  IF times = <<>> THEN 0 ELSE search[<<0, Len(times) - 1>>]

(* The search of positionForItem among rows with these times; positions    *)
(* count from 0. The order is descending.                                  *)
PositionForItem(times, time) ==
    LET search[bounds \in Bounds(Len(times))] ==
            LET pos == Middle(bounds)
                other == times[pos + 1]
            IN  IF bounds[1] = pos /\ time > other THEN pos
                ELSE IF other > time
                     THEN IF pos + 1 > bounds[2] THEN pos + 1 ELSE search[<<pos + 1, bounds[2]>>]
                ELSE IF bounds[1] > bounds[2] THEN pos
                ELSE search[<<bounds[1], pos - 1>>]
    IN  IF times = <<>> THEN 0 ELSE search[<<0, Len(times) - 1>>]
=============================================================================
