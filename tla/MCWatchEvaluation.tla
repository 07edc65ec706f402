-------------------------- MODULE MCWatchEvaluation --------------------------
(***************************************************************************)
(* Small instances of WatchEvaluation.  Growth rates are in tenths, so     *)
(* that one unit is exactly the material change of 0.10.                   *)
(***************************************************************************)
EXTENDS WatchEvaluation

CONSTANTS p1, p2, r1, e1, e2

\* "r" packages revise: r1 revises p1; p2 is the next month.
MCCutoff == (p1 :> "month 1") @@ (r1 :> "month 1") @@ (p2 :> "month 2")
MCSupersedes == (p1 :> Null) @@ (p2 :> Null) @@ (r1 :> p1)
MCQuarterEnds == {"month 2"}

Result(state, growth) == [state |-> state, growth |-> growth]
OneResult == {Result("RISING", 1)}
ThreeResults == {Result("RISING", 1), Result("FALLING", -1), Result("SUPPORTED_NO_SIGNAL", Null)}

TwoMonths == <<p1, p2>>

\* The next month's package is withdrawn: the revision becomes active again.
Returned == <<p1, r1, p2, r1>>
=============================================================================
