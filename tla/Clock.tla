-------------------------------- MODULE Clock --------------------------------
(***************************************************************************)
(* now(), as the code that compares dates with it sees it: it advances     *)
(* between any two steps of any request.  Zero stands for a null date.     *)
(***************************************************************************)
EXTENDS Naturals

CONSTANTS
    MaxTime     \* bound: how far the clock runs

ASSUME ClockAssumption == MaxTime \in Nat

VARIABLES now

Time == 1..MaxTime

ClockInit == now = 1

Tick ==
    /\ now < MaxTime
    /\ now' = now + 1

\* Carbon::isPast
IsPast(t) == t # 0 /\ t < now
=============================================================================
