--------------------------- MODULE MCServiceSync ---------------------------
\* TLC instances of ServiceSync.
EXTENDS ServiceSync, TLC

CONSTANTS a, b, bad, raw, h1, h2, p1, p2

MCInstanceOf == h1 :> p1 @@ h2 :> p2
MCBudget == [publish |-> 2, replay |-> 1, crash |-> 0]
MCCrashBudget == [publish |-> 2, replay |-> 0, crash |-> 1]
=============================================================================
