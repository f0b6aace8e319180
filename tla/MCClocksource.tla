--------------------------- MODULE MCClocksource ---------------------------
(* The values of Clocksource for TLC: jiffies, an ACPI timer and an HPET as *)
(* watchdogs, a TSC to be watched.                                          *)
EXTENDS Clocksource

CONSTANTS jiffies, pm, hpet, tsc

MCRating == [c \in {jiffies, pm, hpet, tsc} |->
    CASE c = jiffies -> 1 [] c = pm -> 2 [] c = hpet -> 3 [] OTHER -> 4]
=============================================================================
