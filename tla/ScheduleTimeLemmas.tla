-------------------------- MODULE ScheduleTimeLemmas --------------------------
(***************************************************************************)
(* The order of time stamps, for all 65536 years.                           *)
(***************************************************************************)
EXTENDS ScheduleTime, TLAPS

\* An accepted time stamp has its fields in the ranges of a calendar.
LEMMA ValidRanges ==
    ASSUME NEW t \in TimeStamp, is_time_stamp_valid(t)
    PROVE  /\ t.year \in Nat
           /\ t.month \in Nat /\ 1 <= t.month /\ t.month <= 12
           /\ t.day \in Nat /\ 1 <= t.day /\ t.day <= 31
           /\ t.hour \in Nat /\ t.hour <= 23
           /\ t.minute \in Nat /\ t.minute <= 59
<1>1. /\ t.year \in uint16_t /\ t.month \in uint8_t /\ t.day \in uint8_t
      /\ t.hour \in uint8_t /\ t.minute \in uint8_t
  BY DEF TimeStamp
<1>2. /\ t.month \in 1 .. 12
      /\ t.day # 0 /\ t.day <= days(t) /\ t.hour <= 23 /\ t.minute <= 59
  BY DEF is_time_stamp_valid
<1>3. days(t) = 29 \/ days(t) = m_day_count[t.month]
  BY DEF days
<1>4. \A m \in 1 .. 12 : m_day_count[m] \in Nat /\ m_day_count[m] <= 31
  BY DEF m_day_count
<1>5. days(t) \in Nat /\ days(t) <= 31
  BY <1>2, <1>3, <1>4
<1>6. t.year \in Nat /\ t.month \in Nat /\ t.day \in Nat /\ t.hour \in Nat /\ t.minute \in Nat
  <2>1. uint8_t \subseteq Nat /\ uint16_t \subseteq Nat
    BY DEF uint8_t, uint16_t
  <2> QED BY <1>1, <2>1
<1>7. 1 <= t.month /\ t.month <= 12 /\ 1 <= t.day /\ t.day <= 31
  BY <1>2, <1>5, <1>6
<1> QED BY <1>2, <1>6, <1>7

\* In a mixed radix number the higher digits decide.
LEMMA DigitsDecide ==
    ASSUME NEW a \in Nat, NEW b \in Nat, NEW x \in Nat, NEW y \in Nat
    PROVE  /\ x < 12 /\ y < 12 => /\ a * 12 + x < b * 12 + y <=> (a < b \/ (a = b /\ x < y))
                                  /\ a * 12 + x = b * 12 + y <=> (a = b /\ x = y)
           /\ x < 31 /\ y < 31 => /\ a * 31 + x < b * 31 + y <=> (a < b \/ (a = b /\ x < y))
                                  /\ a * 31 + x = b * 31 + y <=> (a = b /\ x = y)
           /\ x < 24 /\ y < 24 => /\ a * 24 + x < b * 24 + y <=> (a < b \/ (a = b /\ x < y))
                                  /\ a * 24 + x = b * 24 + y <=> (a = b /\ x = y)
           /\ x < 60 /\ y < 60 => (a * 60 + x < b * 60 + y <=> (a < b \/ (a = b /\ x < y)))
OBVIOUS

\* The comparisons of is_time_fence_valid order accepted time stamps by Minutes.
LEMMA StartsBeforeIsOrder ==
    ASSUME NEW s \in TimeStamp, NEW e \in TimeStamp,
           is_time_stamp_valid(s), is_time_stamp_valid(e)
    PROVE  StartsBefore(s, e) <=> Minutes(s) < Minutes(e)
<1> DEFINE ms == s.year * 12 + (s.month - 1)
           me == e.year * 12 + (e.month - 1)
           ds == ms * 31 + (s.day - 1)
           de == me * 31 + (e.day - 1)
           hs == ds * 24 + s.hour
           he == de * 24 + e.hour
<1>1. /\ s.year \in Nat /\ s.month - 1 \in Nat /\ s.month - 1 < 12
      /\ s.day - 1 \in Nat /\ s.day - 1 < 31 /\ s.hour \in Nat /\ s.hour < 24
      /\ s.minute \in Nat /\ s.minute < 60
  BY ValidRanges
<1>2. /\ e.year \in Nat /\ e.month - 1 \in Nat /\ e.month - 1 < 12
      /\ e.day - 1 \in Nat /\ e.day - 1 < 31 /\ e.hour \in Nat /\ e.hour < 24
      /\ e.minute \in Nat /\ e.minute < 60
  BY ValidRanges
<1>3. /\ s.month \in Nat /\ s.day \in Nat /\ e.month \in Nat /\ e.day \in Nat
  BY ValidRanges
<1>4. ms \in Nat /\ me \in Nat
      /\ (ms < me <=> (s.year < e.year \/ (s.year = e.year /\ s.month - 1 < e.month - 1)))
      /\ (ms = me <=> (s.year = e.year /\ s.month - 1 = e.month - 1))
  BY <1>1, <1>2, DigitsDecide
<1> HIDE DEF ms, me
<1>5. ds \in Nat /\ de \in Nat
      /\ (ds < de <=> (ms < me \/ (ms = me /\ s.day - 1 < e.day - 1)))
      /\ (ds = de <=> (ms = me /\ s.day - 1 = e.day - 1))
  BY <1>1, <1>2, <1>4, DigitsDecide
<1> HIDE DEF ds, de
<1>6. hs \in Nat /\ he \in Nat
      /\ (hs < he <=> (ds < de \/ (ds = de /\ s.hour < e.hour)))
      /\ (hs = he <=> (ds = de /\ s.hour = e.hour))
  BY <1>1, <1>2, <1>5, DigitsDecide
<1> HIDE DEF hs, he
<1>7. hs * 60 + s.minute < he * 60 + e.minute
      <=> (hs < he \/ (hs = he /\ s.minute < e.minute))
  BY <1>1, <1>2, <1>6, DigitsDecide
<1>8. Minutes(s) = hs * 60 + s.minute /\ Minutes(e) = he * 60 + e.minute
  BY DEF Minutes, hs, he, ds, de, ms, me
<1>9. /\ s.month - 1 < e.month - 1 <=> s.month < e.month
      /\ s.month - 1 = e.month - 1 <=> s.month = e.month
      /\ s.day - 1 < e.day - 1 <=> s.day < e.day
      /\ s.day - 1 = e.day - 1 <=> s.day = e.day
  BY <1>3
<1> QED BY <1>4, <1>5, <1>6, <1>7, <1>8, <1>9 DEF StartsBefore

==============================================================================
