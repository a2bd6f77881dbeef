--------------------- MODULE ScriptherderRetentionProofs ---------------------
(***************************************************************************)
(* Theorems about ScriptherderRetention, for any crontab lines that meet   *)
(* the premise of each: however long the gaps between the runs and the     *)
(* retention are, and however runs and cleanups fall.                      *)
(***************************************************************************)
EXTENDS ScriptherderRetention, FiniteSetTheorems, TLAPS

\* The retention of every line outlasts the longest gap between two runs.
GapsFit == \A l \in Lines : l.gap < (DaysToSave(DecideInterval(l)) + 1) * 24

\* No line is run at the start of the host only, which keeps to no period.
NoReboot == \A l \in Lines : l.word # "@reboot"

-----------------------------------------------------------------------------
(***************************************************************************)
(* Time and the ages of records                                            *)
(***************************************************************************)
Clocks ==
    /\ line \in Lines
    /\ ages \subseteq Nat
    /\ until_run \in 0..line.gap
    /\ until_clean \in 0..24
    /\ runs \in 0..min_logs_to_save

\* A line has a gap of an hour or more.
LEMMA GapType == \A l \in Lines : l.gap \in Nat /\ l.gap >= 1
  BY LinesAssumption

\* A retention is a number of days.
LEMMA DaysType == \A interval : DaysToSave(interval) \in Nat
  BY DEF DaysToSave, min_logs_to_save

\* The clocks are set when the first run is looked at.
LEMMA ClocksInit == Init => Clocks
<1> SUFFICES ASSUME Init PROVE Clocks
  OBVIOUS
<1>1. line.gap \in Nat /\ line.gap >= 1
  BY GapType DEF Init
<1>2. line.gap \div 2 \in 0..line.gap
  BY <1>1
<1>3. QED
  BY <1>1, <1>2 DEF Init, Clocks, min_logs_to_save

\* Runs and cleanups keep them.
LEMMA ClocksStep == Clocks /\ [Next]_vars => Clocks'
<1> SUFFICES ASSUME Clocks, [Next]_vars PROVE Clocks'
  OBVIOUS
<1>1. line.gap \in Nat /\ line.gap >= 1
  BY GapType DEF Clocks
<1>2. ASSUME NEW h \in Nat PROVE Older(h) \subseteq Nat
  BY <1>2 DEF Older, Clocks
<1>3. CASE RunJob
  <2>1. Older(until_run) \subseteq Nat
    BY <1>1, <1>2 DEF Clocks
  <2>2. QED
    BY <1>1, <1>3, <2>1 DEF RunJob, Clocks, min_logs_to_save
<1>4. CASE CleanUp
  <2>1. Older(until_clean) \subseteq Nat
    BY <1>2 DEF Clocks
  <2>2. QED
    BY <1>1, <1>4, <2>1 DEF CleanUp, Clocks
<1>5. CASE UNCHANGED vars
  BY <1>5 DEF vars, Clocks
<1>6. QED
  BY <1>3, <1>4, <1>5 DEF Next
-----------------------------------------------------------------------------
(***************************************************************************)
(* The newest record                                                       *)
(***************************************************************************)
\* The newest record is as old as the time since the last run.
NewestKept == runs > 0 => \E age \in ages : age + until_run = line.gap

RetentionInv == Clocks /\ NewestKept

\* A record no older than the gap between two runs is not deleted.
LEMMA YoungIsKept ==
    ASSUME GapsFit, Clocks, NEW age \in Nat, age <= line.gap
    PROVE  ~Deleted(age, DaysToSave(DecideInterval(line)))
<1> DEFINE days == DaysToSave(DecideInterval(line))
<1>1. days \in Nat
  BY DaysType
<1>2. line.gap < (days + 1) * 24 /\ line.gap \in Nat
  BY GapType DEF GapsFit, Clocks
<1> HIDE DEF days
<1>3. ~(age \div 24 > days)
  BY <1>1, <1>2
<1>4. QED
  BY <1>3 DEF days, Deleted

\* The next run finds the newest record in place, whatever cleanups there were.
LEMMA NewestStep ==
    ASSUME GapsFit, RetentionInv, [Next]_vars
    PROVE  NewestKept'
<1>1. line.gap \in Nat /\ line.gap >= 1
  BY GapType DEF RetentionInv, Clocks
<1>2. CASE RunJob
  <2>1. 0 \in ages' /\ until_run' = line.gap /\ line' = line
    BY <1>2 DEF RunJob
  <2>2. 0 + until_run' = line'.gap
    BY <1>1, <2>1
  <2>3. QED
    BY <2>1, <2>2 DEF NewestKept
<1>3. CASE CleanUp
  <2> SUFFICES ASSUME runs > 0
               PROVE  \E age \in ages' : age + until_run' = line'.gap
    BY <1>3 DEF CleanUp, NewestKept
  <2>1. PICK age \in ages : age + until_run = line.gap
    BY DEF RetentionInv, NewestKept
  <2>2. /\ age \in Nat /\ until_clean \in Nat /\ until_run \in Nat
        /\ until_clean <= until_run
        /\ until_run' = until_run - until_clean
        /\ line' = line
    BY <1>1, <1>3 DEF CleanUp, RetentionInv, Clocks
  <2>3. /\ age + until_clean \in Nat
        /\ age + until_clean <= line.gap
        /\ age + until_clean + until_run' = line'.gap
    BY <1>1, <2>1, <2>2
  <2>4. ~Deleted(age + until_clean, DaysToSave(DecideInterval(line)))
    BY <2>3, YoungIsKept DEF RetentionInv
  <2>5. age + until_clean \in ages'
    BY <1>3, <2>4 DEF CleanUp, Older
  <2>6. QED
    BY <2>3, <2>5
<1>4. CASE UNCHANGED vars
  BY <1>4 DEF vars, RetentionInv, NewestKept
<1>5. QED
  BY <1>2, <1>3, <1>4 DEF Next

\* If every line's retention outlasts the gap between its runs, cleanup never
\* takes the newest record of a job before there is a newer one.
THEOREM NewestRecordSurvives ==
    ASSUME GapsFit PROVE Spec => []NewestSurvives
<1>1. Init => RetentionInv
  BY ClocksInit DEF RetentionInv, NewestKept, Init
<1>2. RetentionInv /\ [Next]_vars => RetentionInv'
  BY ClocksStep, NewestStep DEF RetentionInv
<1>3. RetentionInv => NewestSurvives
  BY DEF RetentionInv, NewestKept, NewestSurvives
<1>4. QED
  BY <1>1, <1>2, <1>3, PTL DEF Spec
-----------------------------------------------------------------------------
(***************************************************************************)
(* min_logs_to_save                                                        *)
(***************************************************************************)
Regular == line.gap <= Period(DecideInterval(line))

\* The records of the last runs are still there, a gap apart.
LastRunsKept ==
    Regular => \A k \in 0..(runs - 1) : k * line.gap + line.gap - until_run \in ages

\* There is a bound to the ages, so that records can be counted.
Bounded == \E most \in Nat : \A age \in ages : age <= most

CountInv == Clocks /\ LastRunsKept /\ Bounded

\* Seven gaps, the last of them included, fit into the retention.
LEMMA SevenGapsFit ==
    ASSUME NoReboot, Clocks, Regular
    PROVE  7 * line.gap < (DaysToSave(DecideInterval(line)) + 1) * 24
<1> DEFINE interval == DecideInterval(line)
<1>1. line.word \in Words /\ line.word # "@reboot" /\ line.gap \in Nat
  BY LinesAssumption, GapType DEF NoReboot, Clocks
<1>2. interval # "halfyear"
  BY <1>1 DEF DecideInterval, Words
<1>3. line.gap <= Period(interval)
  BY DEF Regular
<1> HIDE DEF interval
<1>4. 7 * line.gap < (DaysToSave(interval) + 1) * 24
  BY <1>1, <1>2, <1>3 DEF Period, DaysToSave, min_logs_to_save
<1>5. QED
  BY <1>4 DEF interval

\* So none of the last seven records is deleted.
LEMMA LastSevenKept ==
    ASSUME NoReboot, Clocks, Regular, NEW age \in Nat, age <= 7 * line.gap
    PROVE  ~Deleted(age, DaysToSave(DecideInterval(line)))
<1> DEFINE days == DaysToSave(DecideInterval(line))
<1>1. days \in Nat /\ line.gap \in Nat
  BY DaysType, GapType DEF Clocks
<1>2. 7 * line.gap < (days + 1) * 24
  BY SevenGapsFit
<1> HIDE DEF days
<1>3. ~(age \div 24 > days)
  BY <1>1, <1>2
<1>4. QED
  BY <1>3 DEF days, Deleted

\* Each run adds a record a gap after the one before it, and cleanup leaves the
\* last seven of them.
LEMMA CountStep ==
    ASSUME NoReboot, CountInv, [Next]_vars
    PROVE  LastRunsKept'
<1>1. /\ line.gap \in Nat /\ line.gap >= 1
      /\ until_run \in 0..line.gap
      /\ until_clean \in Nat
      /\ runs \in 0..7
  BY GapType DEF CountInv, Clocks, min_logs_to_save
<1>2. CASE RunJob
  <2>1. /\ until_run' = line.gap
        /\ ages' = Older(until_run) \cup {0}
        /\ line' = line
    BY <1>2 DEF RunJob
  <2>2. \A k \in 0..(runs' - 1) : k \in 0..runs
    BY <1>1, <1>2 DEF RunJob, min_logs_to_save
  <2>3. ASSUME Regular, NEW k \in 0..runs
        PROVE  k * line.gap + line.gap - line.gap \in ages'
    <3>1. CASE k = 0
      BY <1>1, <2>1, <3>1
    <3>2. CASE k # 0
      <4>1. k - 1 \in 0..(runs - 1)
        BY <1>1, <3>2
      <4>2. (k - 1) * line.gap + line.gap - until_run \in ages
        BY <2>3, <4>1 DEF CountInv, LastRunsKept
      <4>3. ((k - 1) * line.gap + line.gap - until_run) + until_run \in ages'
        BY <2>1, <4>2 DEF Older
      <4>4. ((k - 1) * line.gap + line.gap - until_run) + until_run
               = k * line.gap + line.gap - line.gap
        BY <1>1, <4>1
      <4>5. QED
        BY <4>3, <4>4
    <3>3. QED
      BY <3>1, <3>2
  <2>4. QED
    BY <2>1, <2>2, <2>3 DEF LastRunsKept, Regular
<1>3. CASE CleanUp
  <2> SUFFICES ASSUME Regular, NEW k \in 0..(runs - 1)
               PROVE  k * line.gap + line.gap - until_run' \in ages'
    BY <1>3 DEF CleanUp, LastRunsKept, Regular
  <2> DEFINE age == k * line.gap + line.gap - until_run
  <2>1. /\ until_clean <= until_run
        /\ until_run' = until_run - until_clean
    BY <1>3 DEF CleanUp
  <2>2. k * line.gap \in Nat /\ k * line.gap <= 6 * line.gap
    <3>1. k = 0 \/ k = 1 \/ k = 2 \/ k = 3 \/ k = 4 \/ k = 5 \/ k = 6
      BY <1>1
    <3>2. QED
      BY <1>1, <3>1
  <2>3. /\ age \in Nat
        /\ age + until_clean \in Nat
        /\ age + until_clean <= 7 * line.gap
        /\ k * line.gap + line.gap - until_run' = age + until_clean
    <3> DEFINE before == k * line.gap
    <3>1. before \in Nat /\ before <= 6 * line.gap
      BY <2>2
    <3> HIDE DEF before
    <3>2. /\ before + line.gap - until_run \in Nat
          /\ before + line.gap - until_run + until_clean \in Nat
          /\ before + line.gap - until_run + until_clean <= 7 * line.gap
          /\ before + line.gap - until_run'
               = before + line.gap - until_run + until_clean
      BY <1>1, <2>1, <3>1
    <3>3. QED
      BY <3>2 DEF before
  <2>4. age \in ages
    BY DEF CountInv, LastRunsKept
  <2> HIDE DEF age
  <2>5. ~Deleted(age + until_clean, DaysToSave(DecideInterval(line)))
    BY <2>3, LastSevenKept DEF CountInv
  <2>6. age + until_clean \in ages'
    BY <1>3, <2>4, <2>5 DEF CleanUp, Older
  <2>7. QED
    BY <2>3, <2>6
<1>4. CASE UNCHANGED vars
  BY <1>4 DEF vars, CountInv, LastRunsKept, Regular
<1>5. QED
  BY <1>2, <1>3, <1>4 DEF Next

\* An hour later all records are an hour older.
LEMMA BoundedStep ==
    ASSUME CountInv, [Next]_vars
    PROVE  Bounded'
<1>1. PICK most \in Nat : \A age \in ages : age <= most
  BY DEF CountInv, Bounded
<1>2. /\ ages \subseteq Nat /\ until_run \in Nat /\ until_clean \in Nat
  BY GapType DEF CountInv, Clocks
<1>3. CASE RunJob
  <2>1. \A age \in ages' : age <= most + until_run
    BY <1>1, <1>2, <1>3 DEF RunJob, Older
  <2>2. QED
    BY <1>2, <2>1 DEF Bounded
<1>4. CASE CleanUp
  <2>1. \A age \in ages' : age <= most + until_clean
    BY <1>1, <1>2, <1>4 DEF CleanUp, Older
  <2>2. QED
    BY <1>2, <2>1 DEF Bounded
<1>5. CASE UNCHANGED vars
  BY <1>1, <1>5 DEF vars, Bounded
<1>6. QED
  BY <1>3, <1>4, <1>5 DEF Next

\* The records of that many runs are that many records.
LEMMA CountImplies == CountInv => MinLogsKept
<1> SUFFICES ASSUME CountInv, Regular PROVE Cardinality(ages) >= runs
  BY DEF MinLogsKept, Regular
<1>1. /\ line.gap \in Nat /\ line.gap >= 1
      /\ until_run \in 0..line.gap
      /\ runs \in 0..7
      /\ ages \subseteq Nat
  BY GapType DEF CountInv, Clocks, min_logs_to_save
<1>2. IsFiniteSet(ages)
  <2>1. PICK most \in Nat : \A age \in ages : age <= most
    BY DEF CountInv, Bounded
  <2>2. QED
    BY <1>1, <2>1, FS_BoundedSetOfNaturals
<1> DEFINE K == 0..(runs - 1)
           f == [k \in K |-> k * line.gap + line.gap - until_run]
<1>3. \A k \in K : f[k] \in ages
  BY DEF CountInv, LastRunsKept
<1>4. ASSUME NEW k \in K, NEW m \in K, f[k] = f[m] PROVE k = m
  <2>1. k \in Int /\ m \in Int /\ k * line.gap = m * line.gap
    BY <1>1, <1>4
  <2>2. (k - m) * line.gap = 0
    BY <1>1, <2>1
  <2>3. QED
    BY <1>1, <2>1, <2>2
<1>5. f \in Injection(K, ages)
  BY <1>3, <1>4 DEF Injection, IsInjective
<1>6. Cardinality(K) = runs
  BY <1>1, FS_Interval
<1>7. Cardinality(K) <= Cardinality(ages)
  BY <1>2, <1>5, FS_Injection
<1>8. Cardinality(ages) \in Nat
  BY <1>2, FS_CardinalityType
<1>9. QED
  BY <1>1, <1>6, <1>7, <1>8

\* Of a job that runs as often as the interval it is taken for says,
\* min_logs_to_save records are kept, wherever in the day cleanup falls.
THEOREM EnoughLogsKept ==
    ASSUME NoReboot PROVE Spec => []MinLogsKept
<1>1. Init => CountInv
  BY ClocksInit DEF CountInv, LastRunsKept, Bounded, Init
<1>2. CountInv /\ [Next]_vars => CountInv'
  BY ClocksStep, CountStep, BoundedStep DEF CountInv
<1>3. QED
  BY <1>1, <1>2, CountImplies, PTL DEF Spec

=============================================================================
