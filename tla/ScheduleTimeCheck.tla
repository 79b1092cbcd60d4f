-------------------------- MODULE ScheduleTimeCheck --------------------------
(***************************************************************************)
(* The checks of ScheduleTime: every pair of time stamps of a set.          *)
(***************************************************************************)
EXTENDS ScheduleTime

CONSTANT Stamps

ASSUME StampsAssumption == Stamps \subseteq TimeStamp

VARIABLES start, stop

InitTimes == start \in Stamps /\ stop \in Stamps

\* The initial states are all the cases; a step turns a pair around.
NextTimes == start' = stop /\ stop' = start

SpecTimes == InitTimes /\ [][NextTimes]_<<start, stop>>

(***************************************************************************)
(* A Year Day schedule is accepted exactly when both its time stamps are    *)
(* and the start is the earlier one: the five nested comparisons of         *)
(* is_time_fence_valid order time stamps chronologically, whatever fields   *)
(* they share.                                                              *)
(***************************************************************************)
FenceIsChronological ==
    (is_time_stamp_valid(start) /\ is_time_stamp_valid(stop))
    => (is_time_fence_valid(start, stop) <=> Minutes(start) < Minutes(stop))

==============================================================================
