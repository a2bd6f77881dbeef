---------------------------- MODULE Scriptherder ----------------------------
(***************************************************************************)
(* scriptherder on one host: the wrappers that run jobs and save records   *)
(* of them (mode wrap), the readers of those records (modes check, lastlog *)
(* and lastfaillog), the daily cleanup_scriptherder, and Puppet installing *)
(* and removing a job's check file and cron line.  They share nothing but  *)
(* the data directory, the check directory and the clock, take no lock,    *)
(* and interleave at every system call that changes or reads a file.       *)
(*                                                                         *)
(* A run is one execution of "scriptherder wrap"; its record is a file     *)
(* named after the run, with the output of the job in a second file.  Each *)
(* is written under a .tmp name and renamed.                               *)
(***************************************************************************)
EXTENDS ScriptherderCriteria

CONSTANTS
    Jobs,           \* job names; no two of them share a sanitised file name
    Runs,           \* executions of the wrapper (a bound: each is used once)
    JobOf,          \* [Runs -> Jobs]: the --name each is invoked with
    ExitCodes,      \* exit statuses of the wrapped commands
    Outputs,        \* their outputs, each the set of texts found in it
    OkCriteria,     \* [Jobs -> criteria]: the "ok" line of a check file
    WarnCriteria,   \* [Jobs -> criteria]: the "warning" line
    Keep,           \* [Jobs -> Nat]: how many ticks cleanup keeps a job's files
    DisableFiles,   \* files an OR_file_exists criterion may name
    Managed,        \* the jobs Puppet installs and removes while we look
    Modes,          \* the modes readers are started in
    MaxTime         \* bound on the clock

ASSUME CriteriaAssumption ==
    /\ OkCriteria \in [Jobs -> SUBSET Criterion]
    /\ WarnCriteria \in [Jobs -> SUBSET Criterion]

ASSUME BoundsAssumption ==
    /\ MaxTime \in Nat
    /\ JobOf \in [Runs -> Jobs]
    /\ Keep \in [Jobs -> Nat]
    /\ ExitCodes \subseteq Nat
    /\ Outputs \subseteq SUBSET Int
    /\ Managed \subseteq Jobs
    /\ Modes \subseteq {"check", "lastlog", "lastfaillog"}

VARIABLES
    now,            \* time.time()
    exists,         \* the disable files that exist
    ini,            \* the jobs with a check file in checkdir
    cron,           \* the jobs with a crontab line
    pc,             \* [Runs -> where the wrapper is]
    data,           \* [Runs -> the record the wrapper builds and saves]
    meta,           \* [Runs -> state of the record's file in datadir]
    output,         \* [Runs -> state of the output's file in datadir]
    mtime,          \* [Runs -> modification times of the two files, or None]
    reader          \* the one reader looked at

env    == <<now, exists, ini, cron>>
files  == <<meta, output, mtime>>
vars   == <<now, exists, ini, cron, pc, data, meta, output, mtime, reader>>

Times == 0..MaxTime

FileStates == {"absent", "tmp", "final"}

Record ==
    [name : Jobs, start_time : Times \cup {None}, end_time : Times \cup {None},
     exit_status : ExitCodes \cup {None}, output : Outputs \cup {{}},
     check_status : Levels \cup {NoStatus}]

WrapPhases == {"idle", "sleeping", "running", "ran", "checked", "meta_written",
               "meta_saved", "output_written", "saved", "dead"}

ReaderPhases == {"idle", "loading", "checking", "viewing", "done", "crashed"}

NoVerdict == "unchecked"

\* The file a reader died of: none, or the record or the output of a run
Missing == {<<>>} \cup ({"meta", "output"} \X Runs)

NoReader ==
    [pc |-> "idle", mode |-> "check", names |-> {}, begun |-> 0, listed |-> {},
     todo |-> {}, loaded |-> {}, pending |-> {},
     verdict |-> [j \in Jobs |-> NoVerdict], level |-> NoVerdict, shown |-> {},
     missed |-> <<>>]

Readers ==
    [pc : ReaderPhases, mode : Modes \cup {"check"}, names : SUBSET Jobs,
     begun : Times, listed : SUBSET Runs, todo : SUBSET Runs,
     loaded : SUBSET Runs, pending : SUBSET Jobs,
     verdict : [Jobs -> Levels \cup {NoVerdict}],
     level : Levels \cup {"FAIL", NoVerdict}, shown : SUBSET Runs,
     missed : Missing]

Init ==
    /\ now = 0
    /\ exists = {}
    /\ ini = Jobs
    /\ cron = Jobs
    /\ pc = [r \in Runs |-> "idle"]
    /\ data = [r \in Runs |-> NeverRun(JobOf[r])]
    /\ meta = [r \in Runs |-> "absent"]
    /\ output = [r \in Runs |-> "absent"]
    /\ mtime = [r \in Runs |-> [meta |-> None, output |-> None]]
    /\ reader = NoReader
-----------------------------------------------------------------------------
(***************************************************************************)
(* scriptherder wrap                                                       *)
(***************************************************************************)
Goto(r, phase) == pc' = [pc EXCEPT ![r] = phase]

\* mode_wrap: a Job for the name given, then the random sleep
StartWrap(r) ==
    /\ pc[r] = "idle"
    /\ Goto(r, "sleeping")
    /\ UNCHANGED <<env, data, files, reader>>

\* Job.run up to Popen
Run(r) ==
    /\ pc[r] = "sleeping"
    /\ data' = [data EXCEPT ![r].start_time = now]
    /\ Goto(r, "running")
    /\ UNCHANGED <<env, files, reader>>

\* Popen raises (no such command): nothing catches it and nothing is saved.
RunFails(r) ==
    /\ pc[r] = "sleeping"
    /\ Goto(r, "dead")
    /\ UNCHANGED <<env, data, files, reader>>

\* The command exits and Job.run returns.
Finish(r, code, out) ==
    /\ pc[r] = "running"
    /\ data' = [data EXCEPT ![r].end_time = now,
                            ![r].exit_status = code,
                            ![r].output = out]
    /\ Goto(r, "ran")
    /\ UNCHANGED <<env, files, reader>>

\* Fault: the status is filled in once the record is published.
CheckRunLate(r) ==
    /\ pc[r] \in {"ran", "meta_saved"}
    /\ data' = IF pc[r] = "ran" \/ data[r].name \notin ini THEN data
               ELSE [data EXCEPT ![r].check_status =
                       IF data[r].exit_status = 0 THEN "OK" ELSE "CRITICAL"]
    /\ Goto(r, IF pc[r] = "ran" THEN "checked" ELSE "meta_saved")
    /\ UNCHANGED <<env, files, reader>>

\* mode_wrap: the runtime criteria, or no check_status without a check file
CheckRun(r) ==
    /\ pc[r] = "ran"
    /\ LET j     == data[r].name
           check == LoadCheck(OkCriteria[j], WarnCriteria[j], TRUE)
       IN  data' = IF j \in ini
                   THEN [data EXCEPT ![r].check_status =
                                        JobCheck(check, data[r], now, exists)]
                   ELSE data
    /\ Goto(r, "checked")
    /\ UNCHANGED <<env, files, reader>>

\* Fault: a record is saved as soon as the job is started.
WriteMetaEarly(r) ==
    /\ pc[r] \in {"running", "checked"}
    /\ meta' = [meta EXCEPT ![r] = "tmp"]
    /\ mtime' = [mtime EXCEPT ![r].meta = now]
    /\ Goto(r, "meta_written")
    /\ UNCHANGED <<env, data, output, reader>>

\* Job.save_to_file, one action per step on the data directory.  A rename
\* fails, and ends the wrapper, when the .tmp file has been cleaned away.
WriteMeta(r) ==
    /\ pc[r] = "checked"
    /\ meta' = [meta EXCEPT ![r] = "tmp"]
    /\ mtime' = [mtime EXCEPT ![r].meta = now]
    /\ Goto(r, "meta_written")
    /\ UNCHANGED <<env, data, output, reader>>

\* Fault: the rename is forgotten.
RenameMetaForgotten(r) ==
    /\ pc[r] = "meta_written"
    /\ Goto(r, "meta_saved")
    /\ UNCHANGED <<env, data, meta, output, mtime, reader>>

RenameMeta(r) ==
    /\ pc[r] = "meta_written"
    /\ IF meta[r] = "tmp"
       THEN /\ meta' = [meta EXCEPT ![r] = "final"]
            /\ Goto(r, "meta_saved")
       ELSE /\ meta' = meta
            /\ Goto(r, "dead")
    /\ UNCHANGED <<env, data, output, mtime, reader>>

\* Fault: the output may be saved before the record.
WriteOutputFirst(r) ==
    /\ pc[r] \in {"checked", "meta_saved"}
    /\ output' = [output EXCEPT ![r] = "tmp"]
    /\ mtime' = [mtime EXCEPT ![r].output = now]
    /\ Goto(r, "output_written")
    /\ UNCHANGED <<env, data, meta, reader>>

WriteOutput(r) ==
    /\ pc[r] = "meta_saved"
    /\ output' = [output EXCEPT ![r] = "tmp"]
    /\ mtime' = [mtime EXCEPT ![r].output = now]
    /\ Goto(r, "output_written")
    /\ UNCHANGED <<env, data, meta, reader>>

RenameOutput(r) ==
    /\ pc[r] = "output_written"
    /\ IF output[r] = "tmp"
       THEN /\ output' = [output EXCEPT ![r] = "final"]
            /\ Goto(r, "saved")
       ELSE /\ output' = output
            /\ Goto(r, "dead")
    /\ UNCHANGED <<env, data, meta, mtime, reader>>

\* The wrapper is killed (a timeout around it, a reboot) at any point.
Crash(r) ==
    /\ pc[r] \notin {"idle", "saved", "dead"}
    /\ Goto(r, "dead")
    /\ UNCHANGED <<env, data, files, reader>>

WrapStep(r) ==
    \/ Run(r) \/ CheckRun(r) \/ WriteMeta(r) \/ RenameMeta(r)
    \/ WriteOutput(r) \/ RenameOutput(r)

Wrap(r) ==
    \/ StartWrap(r) \/ RunFails(r) \/ Crash(r) \/ WrapStep(r)
    \/ \E code \in ExitCodes, out \in Outputs : Finish(r, code, out)
-----------------------------------------------------------------------------
(***************************************************************************)
(* The readers.  JobsList lists the data directory, opens every record it  *)
(* saw, and adds a job that never ran for every check file without a       *)
(* record; check then evaluates the newest record of each name, lastlog    *)
(* and lastfaillog open the output of the newest record of each name.      *)
(***************************************************************************)
\* os.listdir and the isfile tests are one step: a file deleted between the
\* two might as well have been deleted before.
ReaderStart(mode, names) ==
    /\ reader.pc \in {"idle", "done", "crashed"}
    /\ LET seen == {r \in Runs : meta[r] = "final"}
       IN  reader' = [NoReader EXCEPT !.pc = "loading", !.mode = mode,
                                      !.names = names, !.begun = now,
                                      !.listed = seen, !.todo = seen]
    /\ UNCHANGED <<env, pc, data, files>>

\* Fault: a record that cannot be opened is tried again.
ReaderLoadRetries(r) ==
    /\ reader.pc = "loading"
    /\ r \in reader.todo
    /\ reader' =
         IF meta[r] # "final" THEN reader
         ELSE [reader EXCEPT !.todo = @ \ {r}, !.loaded = @ \cup {r}]
    /\ UNCHANGED <<env, pc, data, files>>

\* Job.from_file opens the record outside its try block, and JobsList catches
\* JobLoadError only: a record deleted since it was listed ends the reader.
ReaderLoad(r) ==
    /\ reader.pc = "loading"
    /\ r \in reader.todo
    /\ reader' =
         IF meta[r] # "final"
         THEN [reader EXCEPT !.pc = "crashed", !.missed = <<"meta", r>>]
         ELSE [reader EXCEPT !.todo = @ \ {r},
                 !.loaded = IF data[r].name \in reader.names
                            THEN @ \cup {r} ELSE @]
    /\ UNCHANGED <<env, pc, data, files>>

RecordsOf(j) == {r \in reader.loaded : data[r].name = j}

\* Fault: the list is sorted the other way round.
Oldest(j) == {r \in RecordsOf(j) :
                \A s \in RecordsOf(j) : data[r].start_time <= data[s].start_time}

\* JobsList sorts by start_time; the last of each name (JobsList.last_of_each,
\* and the first one check_jobs looks at) is the one started last.
Newest(j) == {r \in RecordsOf(j) :
                \A s \in RecordsOf(j) : data[s].start_time <= data[r].start_time}

\* JobsList._load_not_running; by_name then holds the names in pending.
ReaderListChecks ==
    /\ reader.pc = "loading"
    /\ reader.todo = {}
    /\ LET found      == {j \in Jobs : RecordsOf(j) # {}}
           never_run  == (reader.names \cap ini) \ found
       IN  reader' = [reader EXCEPT
                        !.pc = IF reader.mode = "check" THEN "checking"
                               ELSE "viewing",
                        !.pending = found \cup never_run]
    /\ UNCHANGED <<env, pc, data, files>>

\* One round of CheckStatus.check_jobs.  The newest record is always one of
\* OK, WARNING and CRITICAL, so the loop never reaches an older one.
CheckJob(j) ==
    /\ reader.pc = "checking"
    /\ j \in reader.pending
    /\ \E job \in IF RecordsOf(j) = {} THEN {NeverRun(j)}
                 ELSE {data[r] : r \in Newest(j)} :
         LET check == LoadCheck(OkCriteria[j], WarnCriteria[j], FALSE)
         IN  reader' = [reader EXCEPT
                          !.pending = @ \ {j},
                          !.verdict[j] =
                             IF j \in ini THEN JobCheck(check, job, now, exists)
                             ELSE "UNKNOWN"]
    /\ UNCHANGED <<env, pc, data, files>>

\* mode_check: aggregate, print, exit
ReaderReport ==
    /\ reader.pc = "checking"
    /\ reader.pending = {}
    /\ LET checked == {j \in Jobs : reader.verdict[j] # NoVerdict}
           levels  == {reader.verdict[j] : j \in checked}
       IN  reader' = [reader EXCEPT
                        !.pc = "done",
                        !.level = AggregateStatus(Cardinality(checked), levels)]
    /\ UNCHANGED <<env, pc, data, files>>

\* Fault: the output file is not looked for first.
SelectJobBlindly(j) ==
    /\ reader.pc = "viewing"
    /\ j \in reader.pending
    /\ \E last \in IF RecordsOf(j) = {} THEN {{}} ELSE {{r} : r \in Newest(j)} :
         reader' = [reader EXCEPT !.pending = @ \ {j}, !.todo = @ \cup last]
    /\ UNCHANGED <<env, pc, data, files>>

\* One round of the loop of mode_lastlog: the newest record of a name is to be
\* shown if its output file exists, for lastfaillog only if the job failed.
SelectJob(j) ==
    /\ reader.pc = "viewing"
    /\ j \in reader.pending
    /\ \E last \in IF RecordsOf(j) = {} THEN {{}} ELSE {{r} : r \in Newest(j)} :
         reader' = [reader EXCEPT
                      !.pending = @ \ {j},
                      !.todo = @ \cup {r \in last :
                                 /\ output[r] = "final"
                                 /\ \/ reader.mode = "lastlog"
                                    \/ data[r].exit_status # 0}]
    /\ UNCHANGED <<env, pc, data, files>>

\* The output is opened after the isfile test: it may be gone by then.
ReaderShow(r) ==
    /\ reader.pc = "viewing"
    /\ reader.pending = {}
    /\ r \in reader.todo
    /\ reader' = IF output[r] # "final"
                 THEN [reader EXCEPT !.pc = "crashed", !.missed = <<"output", r>>]
                 ELSE [reader EXCEPT !.todo = @ \ {r}, !.shown = @ \cup {r}]
    /\ UNCHANGED <<env, pc, data, files>>

ReaderEnd ==
    /\ reader.pc = "viewing"
    /\ reader.pending = {}
    /\ reader.todo = {}
    /\ reader' = [reader EXCEPT !.pc = "done"]
    /\ UNCHANGED <<env, pc, data, files>>

ReaderStep ==
    \/ \E r \in Runs : ReaderLoad(r) \/ ReaderShow(r)
    \/ \E j \in Jobs : CheckJob(j) \/ SelectJob(j)
    \/ ReaderListChecks \/ ReaderReport \/ ReaderEnd

\* An invocation names one job, or all of them.
ReaderArgs == {Jobs} \cup {{j} : j \in Jobs}

Reader ==
    \/ \E mode \in Modes, names \in ReaderArgs : ReaderStart(mode, names)
    \/ ReaderStep
-----------------------------------------------------------------------------
(***************************************************************************)
(* cleanup_scriptherder and Puppet                                         *)
(***************************************************************************)
\* find -mtime +days -name 'job__*' -delete: .tmp files and outputs match too,
\* and the files of one run go one at a time, in any order.
Aged(r, time) == time # None /\ now - time > Keep[data[r].name]

\* Faults: only .json files are looked for; or the age is not.
CleanMetaFinal(r) ==
    /\ data[r].name \in cron
    /\ meta[r] = "final"
    /\ Aged(r, mtime[r].meta)
    /\ meta' = [meta EXCEPT ![r] = "absent"]
    /\ UNCHANGED <<env, pc, data, output, mtime, reader>>

CleanMetaAny(r) ==
    /\ data[r].name \in cron
    /\ meta[r] # "absent"
    /\ meta' = [meta EXCEPT ![r] = "absent"]
    /\ UNCHANGED <<env, pc, data, output, mtime, reader>>

CleanMeta(r) ==
    /\ data[r].name \in cron
    /\ meta[r] # "absent"
    /\ Aged(r, mtime[r].meta)
    /\ meta' = [meta EXCEPT ![r] = "absent"]
    /\ UNCHANGED <<env, pc, data, output, mtime, reader>>

CleanOutput(r) ==
    /\ data[r].name \in cron
    /\ output[r] # "absent"
    /\ Aged(r, mtime[r].output)
    /\ output' = [output EXCEPT ![r] = "absent"]
    /\ UNCHANGED <<env, pc, data, meta, mtime, reader>>

Cleanup(r) == CleanMeta(r) \/ CleanOutput(r)

\* sunet::scriptherder::cronjob: the check file, then the cron line, whether
\* they are installed or removed.
InstallCheck(j) ==
    /\ j \in Managed \ ini
    /\ ini' = ini \cup {j}
    /\ UNCHANGED <<now, exists, cron, pc, data, files, reader>>

InstallCron(j) ==
    /\ j \in (Managed \cap ini) \ cron
    /\ cron' = cron \cup {j}
    /\ UNCHANGED <<now, exists, ini, pc, data, files, reader>>

RemoveCheck(j) ==
    /\ j \in Managed \cap ini
    /\ ini' = ini \ {j}
    /\ UNCHANGED <<now, exists, cron, pc, data, files, reader>>

RemoveCron(j) ==
    /\ j \in (Managed \cap cron) \ ini
    /\ cron' = cron \ {j}
    /\ UNCHANGED <<now, exists, ini, pc, data, files, reader>>

Puppet(j) ==
    InstallCheck(j) \/ InstallCron(j) \/ RemoveCheck(j) \/ RemoveCron(j)

\* An operator creates or removes a disable file.
Toggle(f) ==
    /\ exists' = IF f \in exists THEN exists \ {f} ELSE exists \cup {f}
    /\ UNCHANGED <<now, ini, cron, pc, data, files, reader>>

Tick ==
    /\ now < MaxTime
    /\ now' = now + 1
    /\ UNCHANGED <<exists, ini, cron, pc, data, files, reader>>
-----------------------------------------------------------------------------
Next ==
    \/ \E r \in Runs : Wrap(r) \/ Cleanup(r)
    \/ Reader
    \/ \E j \in Jobs : Puppet(j)
    \/ \E f \in DisableFiles : Toggle(f)
    \/ Tick

\* The scheduler runs every process that can take a step; cron runs cleanup
\* every day.  Nothing says that a command ever exits, that anyone looks, or
\* what Puppet and operators do.
Fairness ==
    /\ \A r \in Runs : WF_vars(WrapStep(r))
    /\ \A r \in Runs : WF_vars(CleanMeta(r)) /\ WF_vars(CleanOutput(r))
    /\ WF_vars(ReaderStep)
    /\ WF_vars(Tick)

Spec == Init /\ [][Next]_vars

FairSpec == Spec /\ Fairness
-----------------------------------------------------------------------------
(***************************************************************************)
(* What the wrapper and the cleanup promise to anyone reading datadir      *)
(***************************************************************************)
\* Every variable has its type.
TypeOK ==
    /\ now \in Times
    /\ exists \subseteq DisableFiles
    /\ ini \subseteq Jobs
    /\ cron \subseteq Jobs
    /\ pc \in [Runs -> WrapPhases]
    /\ data \in [Runs -> Record]
    /\ meta \in [Runs -> FileStates]
    /\ output \in [Runs -> FileStates]
    /\ mtime \in [Runs -> [meta : Times \cup {None}, output : Times \cup {None}]]
    /\ reader \in Readers

\* A record that can be seen under its final name is the whole record of an
\* execution that has ended, written no earlier than that, whatever killed its
\* wrapper and whenever (the reason save_to_file goes through a .tmp name).
RecordsComplete ==
    \A r \in Runs : meta[r] = "final" =>
        /\ data[r].start_time # None
        /\ data[r].start_time <= data[r].end_time
        /\ data[r].end_time <= mtime[r].meta
        /\ data[r].exit_status \in ExitCodes

\* Once written, a record does not change and its name does not come back after
\* cleanup: what two readers see of one execution can differ only in that the
\* later one may miss it.
RecordsImmutable ==
    [][\A r \in Runs :
         /\ meta[r] # "absent" => data'[r] = data[r]
         /\ meta[r] = "final" => meta'[r] \in {"final", "absent"}
         /\ meta[r] = "absent" /\ pc[r] \in {"meta_saved", "output_written",
                                             "saved", "dead"}
               => meta'[r] = "absent"]_vars

\* An output is found without its record only when cleanup has taken the
\* record: save_to_file publishes the record first, so there is no output that
\* no record names.
OutputFollowsRecord ==
    \A r \in Runs : output[r] # "absent" /\ meta[r] # "final"
                       => meta[r] = "absent" /\ Aged(r, mtime[r].meta)

\* The data directory is a log of executions: what a wrapper does before the
\* first rename and after it is invisible, and so is a wrapper being killed.
Log == INSTANCE JobLog WITH
         Entry   <- Record,
         Blank   <- [r \in Runs |-> NeverRun(JobOf[r])],
         KeepFor <- [r \in Runs |-> Keep[JobOf[r]]],
         clock   <- now,
         state   <- [r \in Runs |->
                       IF meta[r] = "final" THEN "logged"
                       ELSE IF pc[r] \in {"meta_saved", "output_written",
                                          "saved", "dead"} THEN "gone"
                       ELSE "pending"],
         log     <- [r \in Runs |-> IF meta[r] = "final" THEN data[r]
                                    ELSE NeverRun(JobOf[r])]

ImplementsLog == Log!LogSpec

(***************************************************************************)
(* What the readers promise                                                *)
(***************************************************************************)
\* The job has a criterion that is enough by itself.
HasOr(j) == \E c \in OkCriteria[j] \cup WarnCriteria[j] : c.what \in OrCriteria

Checked == reader.mode = "check" /\ reader.pc \in {"checking", "done"}

\* r is the execution of j started last, of all that had a record in datadir
\* when the reader started.
LastListed(j, r) ==
    /\ r \in reader.listed
    /\ data[r].name = j
    /\ \A s \in reader.listed :
         data[s].name = j => data[s].start_time <= data[r].start_time

\* "A failed job should always be critical": a verdict better than CRITICAL
\* rests on the last execution that was on record when the check started, and
\* that execution was OK when it ended - however wrappers, cleanup, Puppet and
\* the clock move between the listing and the verdict.
FailedIsCritical ==
    Checked => \A j \in Jobs :
        reader.verdict[j] \in {"OK", "WARNING"} /\ ~HasOr(j) =>
            \E r \in Runs : LastListed(j, r) /\ data[r].check_status = "OK"

\* OK within max_age means that the job did end no longer ago than that,
\* counted from the start of the second in which the check was started: the
\* clock is cut to whole seconds and the time of the record is not, so that up
\* to a second more passes.
OkIsRecent ==
    Checked => \A j \in Jobs : \A c \in OkCriteria[j] :
        /\ reader.verdict[j] = "OK"
        /\ c.what = "max_age"
        /\ ~c.negate
        /\ ~HasOr(j)
        => \E r \in Runs : /\ LastListed(j, r)
                           /\ data[r].end_time > Ago(c.value, reader.begun)

\* And no false alarm: a job whose last execution on record is OK by its check
\* file at this moment has not been called anything else since the check
\* started, whatever became of the record after it was listed.  (An OR criterion,
\* or one that asks for an old execution, may have come true in the meantime.)
NoFalseAlarm ==
    Checked => \A j \in Jobs \ Managed :
        /\ ~HasOr(j)
        /\ \A c \in OkCriteria[j] : c.what = "max_age" => ~c.negate
        /\ \E r \in Runs : LastListed(j, r)
        /\ \A r \in Runs : LastListed(j, r) =>
              JobCheck(LoadCheck(OkCriteria[j], WarnCriteria[j], FALSE),
                       data[r], now, exists) = "OK"
        => reader.verdict[j] \in {"OK", NoVerdict}

\* The exit status Nagios sees is one of a level, and OK for a set of jobs
\* means every one of them that is to be there was looked at and is OK.
NoJobOverlooked ==
    reader.mode = "check" /\ reader.pc = "done" =>
        /\ reader.level \in Levels
        /\ reader.level = "OK" =>
             \A j \in reader.names \ Managed : reader.verdict[j] = "OK"

\* The file a reader dies of is one that was there, was old enough, and has been
\* taken by cleanup: an output that was never written, as for the record that a
\* wrapper killed between the two renames leaves, never kills one.
CrashOnlyByCleanup ==
    reader.pc = "crashed" =>
        \E r \in reader.listed :
            \/ /\ reader.missed = <<"meta", r>>
               /\ meta[r] = "absent" /\ Aged(r, mtime[r].meta)
            \/ /\ reader.missed = <<"output", r>>
               /\ output[r] = "absent" /\ Aged(r, mtime[r].output)

\* The verdict a check would give right now
PublishedOf(j) == {r \in Runs : meta[r] = "final" /\ data[r].name = j}

NewestPublished(j) ==
    {r \in PublishedOf(j) :
       \A s \in PublishedOf(j) : data[s].start_time <= data[r].start_time}

VerdictsNow(j) ==
    {JobCheck(LoadCheck(OkCriteria[j], WarnCriteria[j], FALSE), job, now, exists) :
       job \in IF PublishedOf(j) = {} THEN {NeverRun(j)}
               ELSE {data[r] : r \in NewestPublished(j)}}

Severity(level) ==
    CASE level = "OK" -> 0 [] level = "WARNING" -> 1 [] level = "CRITICAL" -> 2

\* The verdict of a job improves only by a new record of that job, or when a
\* disable file or its newest record goes: not by time passing, not by what is
\* done for other jobs, and not by an execution that is under way.
OnlyNewsImproves ==
    [][\A j \in Jobs :
         \/ \E r \in Runs : /\ data[r].name = j
                            /\ meta[r] # "final" /\ meta'[r] = "final"
         \/ \E r \in NewestPublished(j) : meta'[r] = "absent"
         \/ exists' # exists
         \/ \A v \in VerdictsNow(j) : \E w \in VerdictsNow(j)' :
               Severity(v) <= Severity(w)]_vars

(***************************************************************************)
(* Liveness                                                                *)
(***************************************************************************)
\* Once the command has exited, its record gets its final name, unless the
\* wrapper is killed.
FinishedIsSaved ==
    \A r \in Runs : pc[r] = "ran" ~> (meta[r] = "final" \/ pc[r] = "dead")

\* A reader ends: it reads what it listed, whatever is added meanwhile.
ReaderEnds == (reader.pc = "loading") ~> (reader.pc \in {"done", "crashed"})

\* Whatever an execution leaves in datadir, the .tmp files of a killed wrapper
\* included, is gone some time after Keep if the job stays in the crontab.
\* (Restricted to what is written early enough for the bounded clock.)
FilesExpire ==
    \A r \in Runs :
        LET j == JobOf[r]
        IN  /\ (/\ meta[r] # "absent"
                /\ mtime[r].meta + Keep[j] < MaxTime) ~>
               (meta[r] = "absent" \/ j \notin cron)
            /\ (/\ output[r] # "absent"
                /\ mtime[r].output + Keep[j] < MaxTime) ~>
               (output[r] = "absent" \/ j \notin cron)

=============================================================================
