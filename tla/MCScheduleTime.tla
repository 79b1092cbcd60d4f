---------------------------- MODULE MCScheduleTime ----------------------------
(* Time stamps around every limit. *)
EXTENDS ScheduleTimeCheck

MCStamps == [year : {2023, 2024, 2100}, month : {0, 1, 2, 12, 13}, day : {0, 1, 28, 29, 31},
             hour : {0, 23, 24}, minute : {0, 59}]

==============================================================================
