----------------------- MODULE ScriptherderRetention ------------------------
(***************************************************************************)
(* How long cleanup_scriptherder keeps the records of a job, against how   *)
(* often cron runs it: does the daily cleanup ever take the record a check *)
(* needs?  One crontab line is looked at; time goes from one event (a run  *)
(* of the job, a run of cleanup) to the next, counted in hours, and what   *)
(* is kept is how old each record is, so the clock needs no bound.         *)
(***************************************************************************)
EXTENDS Integers, FiniteSets, FiniteSetsExt

CONSTANTS
    Lines           \* the crontab lines looked at

\* A line is a record [word, hour, monthday, month, weekday, gap]: the special
\* word or "", the four time fields decide_interval looks at, and the most
\* hours that pass between two runs of such a line (what cron makes of it).
\* Of a field it only matters whether it is "*", begins with "*" or does not.
Fields == {"*", "*/n", "n"}

Words == {"", "@reboot", "@yearly", "@annually", "@monthly", "@weekly",
          "@daily", "@midnight", "@hourly"}

ASSUME LinesAssumption ==
    Lines \subseteq [word : Words, hour : Fields, monthday : Fields,
                     month : Fields, weekday : Fields, gap : Nat \ {0}]

VARIABLES
    line,           \* the job's crontab line
    ages,           \* the ages of its records, in hours
    until_run,      \* hours until cron runs the job
    until_clean,    \* hours until cron runs cleanup_scriptherder
    runs            \* how often it has run, up to min_logs_to_save

vars == <<line, ages, until_run, until_clean, runs>>

min_logs_to_save == 7

\* Fault: the tests for the day and for the month in the other order.
DecideIntervalDayFirst(l) ==
    IF l.monthday # "*" THEN "monthly"
    ELSE IF l.month # "*" THEN "yearly"
    ELSE IF l.weekday # "*" THEN "weekly" ELSE "daily"

\* decide_interval
DecideInterval(l) ==
    LET every_day == l.monthday = "*" /\ l.month = "*" /\ l.weekday = "*"
    IN  IF l.word # ""
        THEN CASE l.word = "@reboot" -> "halfyear"
               [] l.word \in {"@yearly", "@annually"} -> "yearly"
               [] l.word = "@monthly" -> "monthly"
               [] l.word = "@weekly" -> "weekly"
               [] l.word \in {"@daily", "@midnight", "@hourly"} -> "daily"
        ELSE CASE l.hour \in {"*", "*/n"} /\ every_day -> "hourly"
               [] l.hour = "n" /\ every_day -> "daily"
               [] l.month # "*" -> "yearly"
               [] l.month = "*" /\ l.monthday # "*" -> "monthly"
               [] OTHER -> "weekly"

\* Fault: a month is taken for thirty days.
DaysToSaveThirty(interval) ==
    CASE interval = "yearly"   -> min_logs_to_save * 365
      [] interval = "halfyear" -> min_logs_to_save * 180
      [] interval = "monthly"  -> min_logs_to_save * 30
      [] interval = "weekly"   -> min_logs_to_save * 7
      [] interval = "daily"    -> min_logs_to_save * 1
      [] OTHER                 -> 2

\* decide_days_to_save
DaysToSave(interval) ==
    CASE interval = "yearly"   -> min_logs_to_save * 365
      [] interval = "halfyear" -> min_logs_to_save * 180
      [] interval = "monthly"  -> min_logs_to_save * 31
      [] interval = "weekly"   -> min_logs_to_save * 7
      [] interval = "daily"    -> min_logs_to_save * 1
      [] OTHER                 -> 2

\* find -mtime +days: the age in whole days is more than days
Deleted(age, days) == age \div 24 > days

Older(hours) == {age + hours : age \in ages}
-----------------------------------------------------------------------------
Init ==
    /\ line \in Lines
    /\ ages = {}
    /\ until_run \in {0, line.gap \div 2}
    /\ until_clean \in {0, 11}
    /\ runs = 0

RunJob ==
    /\ until_run <= until_clean
    /\ ages' = Older(until_run) \cup {0}
    /\ until_run' = line.gap
    /\ until_clean' = until_clean - until_run
    /\ runs' = IF runs < min_logs_to_save THEN runs + 1 ELSE runs
    /\ UNCHANGED line

\* remove_files for the line, as the daily cron job of root calls it
CleanUp ==
    /\ until_clean <= until_run
    /\ ages' = {age \in Older(until_clean) :
                  ~Deleted(age, DaysToSave(DecideInterval(line)))}
    /\ until_run' = until_run - until_clean
    /\ until_clean' = 24
    /\ UNCHANGED <<line, runs>>

Next == RunJob \/ CleanUp

Spec == Init /\ [][Next]_vars
-----------------------------------------------------------------------------
\* The newest record of a job that keeps to its schedule is never cleaned away
\* before the next one is there, whatever kind of line it has: cleanup alone
\* never makes a check find a job that "has not executed at all".
NewestSurvives == runs > 0 => ages # {}

\* The time between two runs that the name of an interval stands for
Period(interval) ==
    CASE interval = "yearly"   -> 365 * 24
      [] interval = "halfyear" -> 183 * 24
      [] interval = "monthly"  -> 31 * 24
      [] interval = "weekly"   -> 7 * 24
      [] interval = "daily"    -> 24
      [] OTHER                 -> 1

\* min_logs_to_save: of a job run as often as the interval it is taken for
\* says, there are always that many records, once it has run that often:
\* long months and the hour cleanup runs at do not matter.
MinLogsKept ==
    line.gap <= Period(DecideInterval(line)) => Cardinality(ages) >= runs

=============================================================================
