----------------------------- MODULE MCSchedules -----------------------------
(* Instances of Schedules for TLC. *)
EXTENDS Schedules

MCNameLength == [n \in Names |-> 1]

At(hour) == [year |-> 2025, month |-> 6, day |-> 1, hour |-> hour, minute |-> 0]

\* A schedule for an afternoon, and one that ends before it starts.
MCYearDays == {[start |-> At(12), stop |-> At(18)], [start |-> At(18), stop |-> At(12)]}

Weekly(mask, hour) == [weekday_mask |-> mask, start_hour |-> hour, start_minute |-> 0,
                       duration_hour |-> 8, duration_minute |-> 0]

\* Weekdays at nine, and an hour that does not exist.
MCDailies == {Weekly(62, 9), Weekly(62, 24)}

==============================================================================
