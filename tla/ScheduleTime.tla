----------------------------- MODULE ScheduleTime -----------------------------
(***************************************************************************)
(* What app_schedules.c accepts as the time data of a schedule: the time    *)
(* fence of a Year Day schedule and the values of a Daily Repeating one.    *)
(* Pure functions of the command's fields.                                  *)
(***************************************************************************)
EXTENDS Naturals, Sequences

uint8_t == 0 .. 255
uint16_t == 0 .. 65535

\* ascc_time_stamp_t
TimeStamp == [year : uint16_t, month : uint8_t, day : uint8_t,
              hour : uint8_t, minute : uint8_t]

\* m_day_count, without its unused element 0
m_day_count == <<31, 28, 31, 30, 31, 30, 31, 31, 30, 31, 30, 31>>

\* February gets 29 days when year % 4 is not 0, as the condition in the code reads.
days(stamp) == IF stamp.month = 2 /\ stamp.year % 4 # 0
               THEN 29 ELSE m_day_count[stamp.month]

is_time_stamp_valid(stamp) ==
    /\ stamp.month \in 1 .. 12
    /\ stamp.day # 0 /\ stamp.day <= days(stamp)
    /\ stamp.hour <= 23
    /\ stamp.minute <= 59

\* Mutant of StartsBefore: days are compared before months.
StartsBefore_DayFirst(start, end) ==
    \/ start.year < end.year
    \/ start.year = end.year /\ start.day < end.day
    \/ start.year = end.year /\ start.day = end.day /\ start.month < end.month

\* The nested comparisons of is_time_fence_valid; equal stamps are refused.
StartsBefore(start, end) ==
    \/ start.year < end.year
    \/ /\ start.year = end.year
       /\ \/ start.month < end.month
          \/ /\ start.month = end.month
             /\ \/ start.day < end.day
                \/ /\ start.day = end.day
                   /\ \/ start.hour < end.hour
                      \/ start.hour = end.hour /\ start.minute < end.minute

is_time_fence_valid(start, end) ==
    /\ is_time_stamp_valid(start)
    /\ is_time_stamp_valid(end)
    /\ StartsBefore(start, end)

\* ascc_daily_repeating_schedule_t
DailyRepeating == [weekday_mask : uint8_t, start_hour : uint8_t, start_minute : uint8_t,
                   duration_hour : uint8_t, duration_minute : uint8_t]

is_daily_repeating_valid(schedule) ==
    /\ schedule.duration_hour <= 23
    /\ schedule.duration_minute <= 59
    /\ schedule.start_hour <= 23
    /\ schedule.start_minute <= 59
    /\ schedule.weekday_mask <= 127

(***************************************************************************)
(* app_sch_validate_schedule_data.  A Year Day schedule is a record of its  *)
(* two time stamps, start and stop.                                         *)
(***************************************************************************)
app_sch_validate_schedule_data(type, schedule) ==
    IF type = "daily_repeating" THEN is_daily_repeating_valid(schedule)
    ELSE is_time_fence_valid(schedule.start, schedule.stop)

------------------------------------------------------------------------------
(* Reference definitions *)

\* The place of a time stamp in a calendar in which every month has 31 days.
Minutes(stamp) ==
    (((stamp.year * 12 + (stamp.month - 1)) * 31 + (stamp.day - 1)) * 24 + stamp.hour) * 60
    + stamp.minute

==============================================================================
