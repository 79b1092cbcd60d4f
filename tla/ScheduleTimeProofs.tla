-------------------------- MODULE ScheduleTimeProofs --------------------------
(***************************************************************************)
(* The time fence of a Year Day schedule, for all 65536 years.              *)
(***************************************************************************)
EXTENDS ScheduleTimeCheck, ScheduleTimeLemmas

(***************************************************************************)
(* is_time_fence_valid accepts two valid time stamps exactly when the start *)
(* is before the end, for every year.                                       *)
(***************************************************************************)
THEOREM FenceChronological == SpecTimes => []FenceIsChronological
<1> DEFINE Inv == start \in Stamps /\ stop \in Stamps
<1>1. InitTimes => Inv
  BY DEF InitTimes
<1>2. Inv /\ [NextTimes]_<<start, stop>> => Inv'
  BY DEF NextTimes
<1>3. Inv => FenceIsChronological
  BY StampsAssumption, StartsBeforeIsOrder DEF FenceIsChronological, is_time_fence_valid
<1> QED BY <1>1, <1>2, <1>3, PTL DEF SpecTimes

==============================================================================
