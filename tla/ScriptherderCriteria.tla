------------------------ MODULE ScriptherderCriteria ------------------------
(***************************************************************************)
(* The check criteria of files/scriptherder/scriptherder.py: how the "ok"  *)
(* and "warning" lines of a check file are filtered by mode, evaluated     *)
(* against one execution record, and folded into one Nagios level.         *)
(*                                                                         *)
(* A criterion is a record [what, value, negate].  The code keeps criteria *)
(* in a list and uses its order only to word the message, so a set stands  *)
(* for the list.  Values are integers: an exit status, a number of         *)
(* seconds, or the identity of a text or of a file.                        *)
(*                                                                         *)
(* Times are counted in ticks, of which a second has several: the times of *)
(* a record have fractions of a second, the clock they are compared with   *)
(* is cut to whole ones.                                                   *)
(***************************************************************************)
EXTENDS Integers, FiniteSets

CONSTANT PerSecond          \* the ticks of a second

ASSUME PerSecondAssumption == PerSecond \in Nat \ {0}

None == -1                  \* Python's None, for a time or an exit status

NoStatus == "none"          \* a record whose check_status was never set

Levels == {"OK", "WARNING", "CRITICAL", "UNKNOWN"}

\* What an execution record can be tested for, and the criteria that are
\* alternatives rather than conditions.
AndCriteria == {"exit_status", "max_age", "output_contains",
                "output_matches", "stored_status"}
OrCriteria  == {"OR_running", "OR_file_exists"}

Criterion == [what : AndCriteria \cup OrCriteria, value : Int, negate : BOOLEAN]

\* The criteria that can only be decided when the record is checked, not when
\* the job has just run.
CheckTimeOnly == {"max_age", "OR_file_exists"}

\* Check._parse_criteria: a what=value criterion of the other mode is skipped,
\* the bare OR_running is kept in both.
ParseCriteria(criteria, runtime_mode) ==
    {c \in criteria : \/ c.what = "OR_running"
                      \/ runtime_mode = (c.what \notin CheckTimeOnly)}

\* The criterion every check outside runtime mode adds to both lists; "OK" is
\* the only stored status the code asks for, so its value is not looked at.
StoredStatusOk == [what |-> "stored_status", value |-> 0, negate |-> FALSE]

\* Fault: the warning criteria do not ask for the stored status, so that a
\* failed job just warns.
LoadCheckLenient(ok, warning, runtime_mode) ==
    LET added == IF runtime_mode THEN {} ELSE {StoredStatusOk}
    IN  [ok      |-> ParseCriteria(ok, runtime_mode) \cup added,
         warning |-> ParseCriteria(warning, runtime_mode)]

\* Check.__init__
LoadCheck(ok, warning, runtime_mode) ==
    LET added == IF runtime_mode THEN {} ELSE {StoredStatusOk}
    IN  [ok      |-> ParseCriteria(ok, runtime_mode) \cup added,
         warning |-> ParseCriteria(warning, runtime_mode) \cup added]

\* int(time.time())
Whole(time) == (time \div PerSecond) * PerSecond

\* The time that is "seconds" before the second now is in
Ago(seconds, now) == Whole(now) - seconds * PerSecond

\* Faults: max_age includes its limit, or has its comparison turned round.
FulfilledAtLimit(c, job, now, exists) ==
    IF c.what = "max_age" THEN job.end_time >= Ago(c.value, now)
    ELSE c.what # "stored_status" \/ job.check_status = "OK"

FulfilledTurned(c, job, now, exists) ==
    IF c.what = "max_age" THEN job.end_time < Ago(c.value, now)
    ELSE c.what # "stored_status" \/ job.check_status = "OK"

\* Check.check_<what>: does the job fulfil the criterion at time now, when
\* "exists" are the files that exist?  job.output is the set of texts and
\* patterns found in the output.
Fulfilled(c, job, now, exists) ==
    LET res ==
          CASE c.what = "exit_status"  -> job.exit_status = c.value
            [] c.what = "max_age"      -> /\ job.end_time # None
                                          /\ job.end_time > Ago(c.value, now)
            [] c.what \in {"output_contains", "output_matches"}
                                       -> c.value \in job.output
            [] c.what = "OR_running"   -> /\ job.start_time # None
                                          /\ job.end_time # None
            [] c.what = "OR_file_exists" -> c.value \in exists
            [] OTHER                   -> job.check_status = "OK"
    IN  IF c.negate THEN ~res ELSE res

\* Check._evaluate: one OR criterion suffices; otherwise there has to be an
\* AND criterion, and all of them have to hold.
Evaluate(criteria, job, now, exists) ==
    LET or  == {c \in criteria : c.what \in OrCriteria}
        and == criteria \ or
    IN  \/ \E c \in or : Fulfilled(c, job, now, exists)
        \/ and # {} /\ \A c \in and : Fulfilled(c, job, now, exists)

\* Fault: a level that is not one of exit_status.
JobCheckMisspelt(check, job, now, exists) ==
    IF Evaluate(check.ok, job, now, exists) THEN "OK" ELSE "CRIT"

\* Job.check
JobCheck(check, job, now, exists) ==
    IF Evaluate(check.ok, job, now, exists) THEN "OK"
    ELSE IF Evaluate(check.warning, job, now, exists) THEN "WARNING"
    ELSE "CRITICAL"

\* Job.__init__ without data: what _load_not_running makes up for a check file
\* no execution was found for.
NeverRun(name) ==
    [name |-> name, start_time |-> None, end_time |-> None,
     exit_status |-> None, output |-> {}, check_status |-> NoStatus]

\* Fault: several names are aggregated the way a single one is.
AggregateBestFirst(num_jobs, levels) ==
    IF "OK" \in levels THEN "OK"
    ELSE IF "WARNING" \in levels THEN "WARNING"
    ELSE IF "CRITICAL" \in levels THEN "CRITICAL" ELSE "UNKNOWN"

\* CheckStatus.aggregate_status over the levels of the checked names.  A single
\* name is reported as it is; among several the worst counts, and UNKNOWN ranks
\* below WARNING.
AggregateStatus(num_jobs, levels) ==
    LET First(order, default) ==
          IF \E i \in DOMAIN order : order[i] \in levels
          THEN order[CHOOSE i \in DOMAIN order :
                       /\ order[i] \in levels
                       /\ \A k \in 1..(i-1) : order[k] \notin levels]
          ELSE default
    IN  IF num_jobs = 1
        THEN First(<<"OK", "WARNING", "CRITICAL", "UNKNOWN">>, "FAIL")
        ELSE First(<<"CRITICAL", "WARNING", "UNKNOWN", "OK">>, "UNKNOWN")

=============================================================================
