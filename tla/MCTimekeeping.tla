--------------------------- MODULE MCTimekeeping ---------------------------
EXTENDS Timekeeping

\* A counter of 1 ns that goes on in suspend, and one of 2 ns that stops
MCSource ==
    [tsc  |-> [mult |-> 2, shift |-> 1, size |-> 16, max_cycles |-> 2,
               period |-> 1, phase |-> 12, nonstop |-> TRUE],
     acpi |-> [mult |-> 2, shift |-> 0, size |-> 8, max_cycles |-> 3,
               period |-> 2, phase |-> 9, nonstop |-> FALSE]]

\* A counter that is steered in finer steps
MCFineSource ==
    [tsc  |-> [mult |-> 8, shift |-> 3, size |-> 32, max_cycles |-> 10,
               period |-> 1, phase |-> 0, nonstop |-> TRUE]]

\* How far adjtimex() moves the clock
MCShifts == {6, -4}

\* The conditions the theorems name, and the one that ReadersAgree has inside
ASSUME SourcesAreFit == UpdatesInTime /\ SteersSlowly /\ \A c \in Clocks : SeesLagging(c)
=============================================================================
