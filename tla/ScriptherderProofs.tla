------------------------- MODULE ScriptherderProofs -------------------------
(***************************************************************************)
(* Theorems about Scriptherder, for every set of jobs, runs, criteria and  *)
(* every bound on the clock.                                               *)
(***************************************************************************)
EXTENDS Scriptherder, TLAPS

\* The phases in which the record has, or had, its final name
Published == {"meta_saved", "output_written", "saved", "dead"}

\* The execution of r has ended, and its record says when and how.
Ended(r) ==
    /\ data[r].start_time \in Times
    /\ data[r].end_time \in Times
    /\ data[r].start_time <= data[r].end_time
    /\ data[r].end_time <= now
    /\ data[r].exit_status \in ExitCodes

\* What holds of a wrapper and its two files
WrapInv(r) ==
    /\ data[r].name = JobOf[r]
    /\ pc[r] = "running" => /\ data[r].start_time \in Times
                            /\ data[r].start_time <= now
    /\ pc[r] \in {"ran", "checked", "meta_written", "meta_saved",
                  "output_written", "saved"} => Ended(r)
    /\ meta[r] # "absent" => /\ Ended(r)
                             /\ data[r].end_time <= mtime[r].meta
                             /\ mtime[r].meta <= now
    /\ meta[r] = "tmp" => pc[r] \in {"meta_written", "dead"}
    /\ meta[r] = "final" => pc[r] \in Published
    /\ output[r] # "absent" => pc[r] \in {"output_written", "saved", "dead"}
    /\ \/ output[r] # "absent"
       \/ pc[r] \in {"meta_saved", "output_written", "saved"}
       => \/ meta[r] = "final"
          \/ meta[r] = "absent" /\ Aged(r, mtime[r].meta)

\* What holds of the reader
ReaderInv ==
    /\ \A r \in reader.listed : pc[r] \in Published
    /\ reader.loaded \subseteq reader.listed
    /\ reader.pc = "loading" =>
         /\ reader.pending = {}
         /\ reader.verdict = [j \in Jobs |-> NoVerdict]
         /\ reader.todo \subseteq reader.listed
         /\ \A r \in reader.loaded : data[r].name \in reader.names
         /\ \A r \in reader.listed \ reader.todo :
               data[r].name \in reader.names => r \in reader.loaded
    /\ reader.pc = "checking" =>
         /\ reader.pending \subseteq reader.names
         /\ \A r \in reader.listed :
               data[r].name \in reader.names => r \in reader.loaded
    /\ reader.pc = "viewing" => reader.mode # "check"

-----------------------------------------------------------------------------
(***************************************************************************)
(* The criteria                                                            *)
(***************************************************************************)
\* Job.check gives one of three levels, whatever the criteria.
LEMMA JobCheckLevel ==
    ASSUME NEW check, NEW job, NEW time, NEW there
    PROVE  JobCheck(check, job, time, there) \in {"OK", "WARNING", "CRITICAL"}
  BY DEF JobCheck

\* Outside runtime mode, criteria without an OR criterion can only hold of a
\* record that was stored as OK: "A failed job should always be critical".
LEMMA StoredStatusNeeded ==
    ASSUME NEW ok, NEW warning, NEW job, NEW time, NEW there,
           \A c \in ok \cup warning : c.what \notin OrCriteria,
           JobCheck(LoadCheck(ok, warning, FALSE), job, time, there)
              \in {"OK", "WARNING"}
    PROVE  job.check_status = "OK"
<1> DEFINE check == LoadCheck(ok, warning, FALSE)
<1>1. /\ StoredStatusOk \in check.ok
      /\ StoredStatusOk \in check.warning
  BY DEF LoadCheck
<1>2. /\ StoredStatusOk.what = "stored_status"
      /\ StoredStatusOk.negate = FALSE
      /\ StoredStatusOk.what \notin OrCriteria
  BY DEF StoredStatusOk, OrCriteria
<1>3. /\ \A c \in check.ok : c.what \notin OrCriteria
      /\ \A c \in check.warning : c.what \notin OrCriteria
  BY <1>2 DEF LoadCheck, ParseCriteria
<1>4. ASSUME NEW criteria, StoredStatusOk \in criteria,
             \A c \in criteria : c.what \notin OrCriteria,
             Evaluate(criteria, job, time, there)
      PROVE  job.check_status = "OK"
  <2>1. Fulfilled(StoredStatusOk, job, time, there)
    BY <1>2, <1>4 DEF Evaluate
  <2>2. QED
    BY <1>2, <2>1 DEF Fulfilled
<1>5. Evaluate(check.ok, job, time, there)
      \/ Evaluate(check.warning, job, time, there)
  BY DEF JobCheck
<1>6. QED
  BY <1>1, <1>3, <1>4, <1>5

\* aggregate_status gives a level, or FAIL where there is none to give.
LEMMA AggregateLevel ==
    ASSUME NEW num_jobs, NEW levels
    PROVE  AggregateStatus(num_jobs, levels) \in Levels \cup {"FAIL"}
<1> DEFINE P(order, i) == /\ order[i] \in levels
                          /\ \A k \in 1..(i-1) : order[k] \notin levels
<1>1. ASSUME NEW order \in [1..4 -> Levels],
             \E i \in 1..4 : order[i] \in levels
      PROVE  order[CHOOSE i \in 1..4 : P(order, i)] \in Levels
  <2>1. \E i \in 1..4 : P(order, i)
    <3>1. CASE order[1] \in levels
      BY <3>1
    <3>2. CASE order[1] \notin levels /\ order[2] \in levels
      <4>1. \A k \in 1..(2-1) : k = 1
        OBVIOUS
      <4>2. QED
        BY <3>2, <4>1
    <3>3. CASE order[1] \notin levels /\ order[2] \notin levels
               /\ order[3] \in levels
      <4>1. \A k \in 1..(3-1) : k = 1 \/ k = 2
        OBVIOUS
      <4>2. QED
        BY <3>3, <4>1
    <3>4. CASE order[1] \notin levels /\ order[2] \notin levels
               /\ order[3] \notin levels
      <4>1. \A k \in 1..(4-1) : k = 1 \/ k = 2 \/ k = 3
        OBVIOUS
      <4>2. order[4] \in levels
        <5>1. PICK i \in 1..4 : order[i] \in levels
          BY <1>1
        <5>2. i = 1 \/ i = 2 \/ i = 3 \/ i = 4
          OBVIOUS
        <5>3. QED
          BY <3>4, <5>1, <5>2
      <4>3. QED
        BY <3>4, <4>1, <4>2
    <3>5. QED
      BY <3>1, <3>2, <3>3, <3>4
  <2>2. (CHOOSE i \in 1..4 : P(order, i)) \in 1..4
    BY <2>1
  <2>3. QED
    BY <2>2
<1>2. /\ <<"OK", "WARNING", "CRITICAL", "UNKNOWN">> \in [1..4 -> Levels]
      /\ <<"CRITICAL", "WARNING", "UNKNOWN", "OK">> \in [1..4 -> Levels]
  BY DEF Levels
<1>3. QED
  BY <1>1, <1>2 DEF AggregateStatus, Levels
-----------------------------------------------------------------------------
(***************************************************************************)
(* Type correctness                                                        *)
(***************************************************************************)
LEMMA NoReaderType == NoReader \in Readers /\ NoReader.pc = "idle"
  BY BoundsAssumption
  DEF NoReader, Readers, Missing, ReaderPhases, Times, Levels, NoVerdict

\* The initial values have their types.
LEMMA TypeInit == Init => TypeOK
<1> SUFFICES ASSUME Init PROVE TypeOK
  OBVIOUS
<1>1. data \in [Runs -> Record]
  BY BoundsAssumption DEF Init, NeverRun, Record
<1>2. reader \in Readers
  BY NoReaderType DEF Init
<1>3. mtime \in [Runs -> [meta : Times \cup {None}, output : Times \cup {None}]]
  BY DEF Init
<1>4. QED
  BY <1>1, <1>2, <1>3, BoundsAssumption
  DEF Init, TypeOK, Times, WrapPhases, FileStates

\* A wrapper's steps
LEMMA TypeWrap ==
    ASSUME TypeOK, NEW r \in Runs, Wrap(r) PROVE TypeOK'
<1> USE DEF TypeOK, env, files
<1>1. CASE StartWrap(r)
  BY <1>1 DEF StartWrap, Goto, WrapPhases
<1>2. CASE Run(r)
  <2> DEFINE started == [data[r] EXCEPT !.start_time = now]
  <2>1. started \in Record
    <3>1. data[r] \in Record /\ now \in Times
      OBVIOUS
    <3>2. QED
      BY <3>1 DEF Record
  <2>2. data' = [data EXCEPT ![r] = started]
    BY <1>2 DEF Run
  <2>3. data' \in [Runs -> Record]
    BY <2>1, <2>2
  <2>4. QED
    BY <1>2, <2>3 DEF Run, Goto, WrapPhases
<1>3. CASE RunFails(r)
  BY <1>3 DEF RunFails, Goto, WrapPhases
<1>4. CASE \E code \in ExitCodes, out \in Outputs : Finish(r, code, out)
  <2>1. PICK code \in ExitCodes, out \in Outputs : Finish(r, code, out)
    BY <1>4
  <2> DEFINE ended == [data[r] EXCEPT !.end_time = now,
                                      !.exit_status = code,
                                      !.output = out]
  <2>2. ended \in Record
    <3>1. data[r] \in Record
      OBVIOUS
    <3>2. QED
      BY <3>1 DEF Record
  <2>3. data' = [data EXCEPT ![r] = ended]
    BY <2>1 DEF Finish
  <2>4. data' \in [Runs -> Record]
    BY <2>2, <2>3
  <2>5. QED
    BY <2>1, <2>4 DEF Finish, Goto, WrapPhases
<1>5. CASE CheckRun(r)
  <2> DEFINE check == LoadCheck(OkCriteria[data[r].name],
                                WarnCriteria[data[r].name], TRUE)
  <2>1. JobCheck(check, data[r], now, exists) \in Levels
    BY JobCheckLevel DEF Levels
  <2> DEFINE level == JobCheck(check, data[r], now, exists)
             judged == [data[r] EXCEPT !.check_status = level]
  <2> HIDE DEF level
  <2>2. judged \in Record
    <3>1. data[r] \in Record /\ level \in Levels
      BY <2>1 DEF level
    <3>2. QED
      BY <3>1 DEF Record
  <2>3. data' = [data EXCEPT ![r] = judged] \/ data' = data
    BY <1>5 DEF CheckRun, level
  <2>4. data' \in [Runs -> Record]
    BY <2>2, <2>3
  <2>5. QED
    BY <1>5, <2>4 DEF CheckRun, Goto, WrapPhases
<1>6. CASE WriteMeta(r)
  BY <1>6 DEF WriteMeta, Goto, WrapPhases, FileStates
<1>7. CASE RenameMeta(r)
  BY <1>7 DEF RenameMeta, Goto, WrapPhases, FileStates
<1>8. CASE WriteOutput(r)
  BY <1>8 DEF WriteOutput, Goto, WrapPhases, FileStates
<1>9. CASE RenameOutput(r)
  BY <1>9 DEF RenameOutput, Goto, WrapPhases, FileStates
<1>10. CASE Crash(r)
  BY <1>10 DEF Crash, Goto, WrapPhases
<1>11. QED
  BY <1>1, <1>2, <1>3, <1>4, <1>5, <1>6, <1>7, <1>8, <1>9, <1>10
  DEF Wrap, WrapStep

\* The reader's steps
LEMMA TypeReader ==
    ASSUME TypeOK, Reader PROVE TypeOK'
<1> SUFFICES reader' \in Readers /\ UNCHANGED <<env, pc, data, files>>
  BY DEF TypeOK, env, files
<1> USE DEF TypeOK
<1>1. ASSUME NEW mode \in Modes, NEW names \in ReaderArgs,
             ReaderStart(mode, names)
      PROVE  reader' \in Readers
  <2>1. names \subseteq Jobs
    BY DEF ReaderArgs
  <2>2. QED
    BY <1>1, <2>1, NoReaderType DEF ReaderStart, Readers, ReaderPhases
<1>2. ASSUME NEW r \in Runs, ReaderLoad(r)
      PROVE  reader' \in Readers
  <2>1. <<"meta", r>> \in Missing
    BY DEF Missing
  <2>2. CASE meta[r] # "final"
    BY <1>2, <2>1, <2>2 DEF ReaderLoad, Readers, ReaderPhases
  <2>3. CASE meta[r] = "final"
    BY <1>2, <2>3 DEF ReaderLoad, Readers
  <2>4. QED
    BY <2>2, <2>3
<1>3. ASSUME ReaderListChecks PROVE reader' \in Readers
  BY <1>3 DEF ReaderListChecks, Readers, ReaderPhases
<1>4. ASSUME NEW j \in Jobs, CheckJob(j)
      PROVE  reader' \in Readers
  <2>1. PICK job : reader' =
           [reader EXCEPT !.pending = @ \ {j},
              !.verdict[j] =
                 IF j \in ini
                 THEN JobCheck(LoadCheck(OkCriteria[j], WarnCriteria[j], FALSE),
                               job, now, exists)
                 ELSE "UNKNOWN"]
    BY <1>4 DEF CheckJob
  <2>2. JobCheck(LoadCheck(OkCriteria[j], WarnCriteria[j], FALSE),
                 job, now, exists) \in Levels
    BY JobCheckLevel DEF Levels
  <2>3. "UNKNOWN" \in Levels
    BY DEF Levels
  <2>4. QED
    BY <2>1, <2>2, <2>3 DEF Readers
<1>5. ASSUME ReaderReport PROVE reader' \in Readers
  <2> DEFINE checked == {j \in Jobs : reader.verdict[j] # NoVerdict}
             levels  == {reader.verdict[j] : j \in checked}
  <2>1. AggregateStatus(Cardinality(checked), levels) \in Levels \cup {"FAIL"}
    BY AggregateLevel
  <2> HIDE DEF checked, levels
  <2> DEFINE level == AggregateStatus(Cardinality(checked), levels)
  <2>2. reader' = [reader EXCEPT !.pc = "done", !.level = level]
    BY <1>5 DEF ReaderReport, checked, levels
  <2>3. level \in Levels \cup {"FAIL", NoVerdict}
    BY <2>1
  <2> HIDE DEF level
  <2>4. QED
    BY <2>2, <2>3 DEF Readers, ReaderPhases
<1>6. ASSUME NEW j \in Jobs, SelectJob(j)
      PROVE  reader' \in Readers
  <2>1. PICK last \in IF RecordsOf(j) = {} THEN {{}}
                      ELSE {{r} : r \in Newest(j)} :
          reader' = [reader EXCEPT
                       !.pending = @ \ {j},
                       !.todo = @ \cup {r \in last :
                                  /\ output[r] = "final"
                                  /\ \/ reader.mode = "lastlog"
                                     \/ data[r].exit_status # 0}]
    BY <1>6 DEF SelectJob
  <2>2. last \subseteq Runs
    BY <2>1 DEF Newest, RecordsOf, Readers
  <2>3. QED
    BY <2>1, <2>2 DEF Readers
<1>7. ASSUME NEW r \in Runs, ReaderShow(r)
      PROVE  reader' \in Readers
  <2>1. <<"output", r>> \in Missing
    BY DEF Missing
  <2>2. CASE output[r] # "final"
    BY <1>7, <2>1, <2>2 DEF ReaderShow, Readers, ReaderPhases
  <2>3. CASE output[r] = "final"
    BY <1>7, <2>3 DEF ReaderShow, Readers
  <2>4. QED
    BY <2>2, <2>3
<1>8. ASSUME ReaderEnd PROVE reader' \in Readers
  BY <1>8 DEF ReaderEnd, Readers, ReaderPhases
<1>9. UNCHANGED <<env, pc, data, files>>
  BY DEF Reader, ReaderStep, ReaderStart, ReaderLoad, ReaderListChecks,
         CheckJob, ReaderReport, SelectJob, ReaderShow, ReaderEnd
<1>10. QED
  BY <1>1, <1>2, <1>3, <1>4, <1>5, <1>6, <1>7, <1>8, <1>9
  DEF Reader, ReaderStep

\* Cleanup, Puppet, the disable files and the clock
LEMMA TypeOthers ==
    ASSUME TypeOK,
           \/ \E r \in Runs : Cleanup(r)
           \/ \E j \in Jobs : Puppet(j)
           \/ \E f \in DisableFiles : Toggle(f)
           \/ Tick
           \/ UNCHANGED vars
    PROVE  TypeOK'
<1> USE DEF TypeOK, env, files
<1>1. ASSUME NEW r \in Runs, Cleanup(r)
      PROVE  TypeOK'
  BY <1>1 DEF Cleanup, CleanMeta, CleanOutput, FileStates
<1>2. ASSUME NEW j \in Jobs, Puppet(j)
      PROVE  TypeOK'
  BY <1>2 DEF Puppet, InstallCheck, InstallCron, RemoveCheck, RemoveCron
<1>3. ASSUME NEW f \in DisableFiles, Toggle(f)
      PROVE  TypeOK'
  BY <1>3 DEF Toggle
<1>4. CASE Tick
  BY <1>4, BoundsAssumption DEF Tick, Times
<1>5. CASE UNCHANGED vars
  BY <1>5 DEF vars
<1>6. QED
  BY <1>1, <1>2, <1>3, <1>4, <1>5

\* Every step keeps the types.
LEMMA TypeStep == TypeOK /\ [Next]_vars => TypeOK'
  BY TypeWrap, TypeReader, TypeOthers DEF Next

\* Every variable keeps its type.
THEOREM TypeCorrect == Spec => []TypeOK
  BY TypeInit, TypeStep, PTL DEF Spec
-----------------------------------------------------------------------------
(***************************************************************************)
(* A wrapper and its files                                                 *)
(***************************************************************************)
\* What does not touch r's record and files, and does not turn back the clock,
\* keeps WrapInv(r).
Untouched(r) ==
    /\ now <= now'
    /\ data'[r] = data[r]
    /\ pc'[r] = pc[r]
    /\ meta'[r] = meta[r]
    /\ output'[r] = output[r]
    /\ mtime'[r] = mtime[r]

\* What the arithmetic of one execution's times needs
LEMMA RunTypes ==
    ASSUME TypeOK, NEW r \in Runs
    PROVE  /\ now \in Int
           /\ Keep[JobOf[r]] \in Int
           /\ mtime[r].meta \in Int
           /\ mtime[r].output \in Int
           /\ data[r].start_time \in Int
           /\ data[r].end_time \in Int
  BY BoundsAssumption DEF TypeOK, Times, Record, None

\* A step that leaves an execution alone keeps what its wrapper relies on, even
\* as the clock goes on.
LEMMA UntouchedKeeps ==
    ASSUME TypeOK, TypeOK', NEW r \in Runs, WrapInv(r), Untouched(r)
    PROVE  WrapInv(r)'
<1>1. now \in Int /\ now' \in Int /\ Keep[JobOf[r]] \in Int
  BY RunTypes, BoundsAssumption DEF TypeOK, Times
<1>2. Ended(r) => Ended(r)'
  BY <1>1, RunTypes DEF Ended, Untouched
<1>3. Aged(r, mtime[r].meta) => Aged(r, mtime[r].meta)'
  BY <1>1, RunTypes DEF Aged, Untouched, WrapInv
<1>4. mtime[r].meta <= now => mtime'[r].meta <= now'
  BY <1>1, RunTypes DEF Untouched
<1>5. data[r].start_time <= now => data'[r].start_time <= now'
  BY <1>1, RunTypes DEF Untouched
<1>6. QED
  BY <1>2, <1>3, <1>4, <1>5 DEF WrapInv, Untouched

\* No wrapper has started.
LEMMA WrapInvInit == Init => \A r \in Runs : WrapInv(r)
  BY DEF Init, WrapInv, NeverRun, Published

\* A step of r's own wrapper
LEMMA WrapInvWrap ==
    ASSUME TypeOK, NEW r \in Runs, WrapInv(r), Wrap(r)
    PROVE  WrapInv(r)'
<1>1. /\ pc \in [Runs -> WrapPhases]
      /\ data \in [Runs -> Record]
      /\ meta \in [Runs -> FileStates]
      /\ output \in [Runs -> FileStates]
      /\ mtime \in [Runs -> [meta : Times \cup {None},
                        output : Times \cup {None}]]
      /\ now \in Times
  BY DEF TypeOK
<1>2. now \in Int /\ now <= now
  BY <1>1 DEF Times
<1>3. /\ data[r].start_time \in Int
      /\ data[r].end_time \in Int
      /\ mtime[r].meta \in Int
  BY RunTypes
<1> USE DEF env, files, Goto
<1>4. CASE StartWrap(r)
  BY <1>1, <1>4 DEF StartWrap, WrapInv, Ended, Aged, Published
<1>5. CASE Run(r)
  <2>1. pc'[r] = "running" /\ data'[r].start_time = now
        /\ data'[r].name = data[r].name
    BY <1>1, <1>5 DEF Run, Record
  <2>2. meta[r] = "absent" /\ output[r] = "absent"
    BY <1>1, <1>5 DEF Run, WrapInv, FileStates, Published
  <2>3. meta' = meta /\ output' = output /\ now' = now
    BY <1>5 DEF Run
  <2>4. QED
    BY <1>1, <1>2, <2>1, <2>2, <2>3 DEF WrapInv
<1>6. CASE RunFails(r)
  BY <1>1, <1>6 DEF RunFails, WrapInv, Ended, Aged, Published
<1>7. CASE \E code \in ExitCodes, out \in Outputs : Finish(r, code, out)
  <2>1. PICK code \in ExitCodes, out \in Outputs : Finish(r, code, out)
    BY <1>7
  <2>2. /\ data'[r].name = data[r].name
        /\ data'[r].start_time = data[r].start_time
        /\ data'[r].end_time = now
        /\ data'[r].exit_status = code
        /\ pc'[r] = "ran"
    BY <1>1, <2>1 DEF Finish, Record
  <2>3. meta[r] = "absent" /\ output[r] = "absent"
    BY <1>1, <2>1 DEF Finish, WrapInv, FileStates, Published
  <2>4. meta' = meta /\ output' = output /\ now' = now
    BY <2>1 DEF Finish
  <2>5. data[r].start_time \in Times /\ data[r].start_time <= now
    BY <2>1 DEF Finish, WrapInv
  <2>6. Ended(r)'
    BY <1>1, <1>2, <2>2, <2>4, <2>5 DEF Ended
  <2>7. QED
    BY <2>2, <2>3, <2>4, <2>6 DEF WrapInv
<1>8. CASE CheckRun(r)
  <2>1. /\ data'[r].name = data[r].name
        /\ data'[r].start_time = data[r].start_time
        /\ data'[r].end_time = data[r].end_time
        /\ data'[r].exit_status = data[r].exit_status
        /\ pc'[r] = "checked"
    BY <1>1, <1>8 DEF CheckRun, Record
  <2>2. meta[r] = "absent" /\ output[r] = "absent"
    BY <1>1, <1>8 DEF CheckRun, WrapInv, FileStates, Published
  <2>3. meta' = meta /\ output' = output /\ now' = now
    BY <1>8 DEF CheckRun
  <2>4. Ended(r)
    BY <1>8 DEF CheckRun, WrapInv
  <2>5. Ended(r)'
    BY <2>1, <2>3, <2>4 DEF Ended
  <2>6. QED
    BY <2>1, <2>2, <2>3, <2>5 DEF WrapInv
<1>9. CASE WriteMeta(r)
  <2>1. /\ meta'[r] = "tmp"
        /\ mtime'[r].meta = now
        /\ pc'[r] = "meta_written"
        /\ data' = data /\ output' = output /\ now' = now
    BY <1>1, <1>9 DEF WriteMeta
  <2>2. Ended(r) /\ output[r] = "absent"
    BY <1>1, <1>9 DEF WriteMeta, WrapInv, FileStates
  <2>3. Ended(r)'
    BY <2>1, <2>2 DEF Ended
  <2>4. QED
    BY <1>2, <2>1, <2>2, <2>3 DEF WrapInv, Ended
<1>10. CASE RenameMeta(r)
  <2>1. /\ data' = data /\ output' = output /\ now' = now /\ mtime' = mtime
        /\ \/ meta[r] = "tmp" /\ meta'[r] = "final" /\ pc'[r] = "meta_saved"
           \/ meta[r] # "tmp" /\ meta'[r] = meta[r] /\ pc'[r] = "dead"
    BY <1>1, <1>10 DEF RenameMeta
  <2>2. Ended(r)'
    BY <1>10, <2>1 DEF RenameMeta, WrapInv, Ended
  <2>3. output[r] = "absent" /\ meta[r] # "final"
    BY <1>1, <1>10 DEF RenameMeta, WrapInv, FileStates, Published
  <2>4. QED
    BY <1>10, <2>1, <2>2, <2>3 DEF WrapInv, Published, RenameMeta
<1>11. CASE WriteOutput(r)
  <2>1. /\ data' = data /\ meta' = meta /\ now' = now
        /\ mtime'[r].meta = mtime[r].meta
        /\ pc[r] = "meta_saved" /\ pc'[r] = "output_written"
    BY <1>1, <1>11 DEF WriteOutput
  <2>2. Ended(r)' <=> Ended(r)
    BY <2>1 DEF Ended
  <2>3. Aged(r, mtime[r].meta)' <=> Aged(r, mtime[r].meta)
    BY <2>1 DEF Aged
  <2>4. QED
    BY <2>1, <2>2, <2>3 DEF WrapInv, Published
<1>12. CASE RenameOutput(r)
  <2>1. /\ data' = data /\ meta' = meta /\ now' = now /\ mtime' = mtime
        /\ pc[r] = "output_written" /\ pc'[r] \in {"saved", "dead"}
    BY <1>1, <1>12 DEF RenameOutput
  <2>2. Ended(r)' <=> Ended(r)
    BY <2>1 DEF Ended
  <2>3. Aged(r, mtime[r].meta)' <=> Aged(r, mtime[r].meta)
    BY <2>1 DEF Aged
  <2>4. QED
    BY <2>1, <2>2, <2>3 DEF WrapInv, Published
<1>13. CASE Crash(r)
  <2>1. /\ data' = data /\ meta' = meta /\ now' = now /\ mtime' = mtime
        /\ output' = output /\ pc'[r] = "dead"
    BY <1>1, <1>13 DEF Crash
  <2>2. Ended(r)' <=> Ended(r)
    BY <2>1 DEF Ended
  <2>3. Aged(r, mtime[r].meta)' <=> Aged(r, mtime[r].meta)
    BY <2>1 DEF Aged
  <2>4. QED
    BY <2>1, <2>2, <2>3 DEF WrapInv, Published
<1>14. QED
  BY <1>4, <1>5, <1>6, <1>7, <1>8, <1>9, <1>10, <1>11, <1>12, <1>13
  DEF Wrap, WrapStep

\* Cleanup of r's own files
LEMMA WrapInvCleanup ==
    ASSUME TypeOK, NEW r \in Runs, WrapInv(r), Cleanup(r)
    PROVE  WrapInv(r)'
<1>1. /\ meta \in [Runs -> FileStates]
      /\ output \in [Runs -> FileStates]
  BY DEF TypeOK
<1>2. /\ now' = now /\ pc' = pc /\ data' = data /\ mtime' = mtime
  BY DEF Cleanup, CleanMeta, CleanOutput, env
<1>3. Ended(r)' <=> Ended(r)
  BY <1>2 DEF Ended
<1>4. Aged(r, mtime[r].meta)' <=> Aged(r, mtime[r].meta)
  BY <1>2 DEF Aged
<1>5. CASE CleanMeta(r)
  BY <1>1, <1>2, <1>3, <1>4, <1>5 DEF CleanMeta, WrapInv
<1>6. CASE CleanOutput(r)
  <2>1. meta' = meta /\ output'[r] = "absent"
    BY <1>1, <1>6 DEF CleanOutput
  <2>2. QED
    BY <1>2, <1>3, <1>4, <2>1 DEF WrapInv
<1>7. QED
  BY <1>5, <1>6 DEF Cleanup

\* A step of a wrapper, or of cleanup on its files, touches no other run.
LEMMA StepsAreLocal ==
    ASSUME TypeOK, NEW r \in Runs, NEW q \in Runs, q # r, Wrap(q) \/ Cleanup(q)
    PROVE  Untouched(r) /\ now' = now
<1>1. now \in Int /\ now <= now
  BY DEF TypeOK, Times
<1>2. /\ pc \in [Runs -> WrapPhases]
      /\ data \in [Runs -> Record]
      /\ meta \in [Runs -> FileStates]
      /\ output \in [Runs -> FileStates]
      /\ mtime \in [Runs -> [meta : Times \cup {None},
                        output : Times \cup {None}]]
  BY DEF TypeOK
<1> USE DEF Untouched, env, files, Goto
<1>3. CASE Wrap(q)
  BY <1>1, <1>2, <1>3
  DEF Wrap, WrapStep, StartWrap, Run, RunFails, Finish, CheckRun, WriteMeta,
      RenameMeta, WriteOutput, RenameOutput, Crash
<1>4. CASE Cleanup(q)
  BY <1>1, <1>2, <1>4 DEF Cleanup, CleanMeta, CleanOutput
<1>5. QED
  BY <1>3, <1>4

\* Nor does any other step.
LEMMA OthersLeaveUntouched ==
    ASSUME TypeOK, NEW r \in Runs, [Next]_vars, ~Wrap(r), ~Cleanup(r)
    PROVE  Untouched(r)
<1>1. now \in Int /\ now <= now /\ now <= now + 1
  BY DEF TypeOK, Times
<1>2. ASSUME NEW q \in Runs, Wrap(q) \/ Cleanup(q)
      PROVE  Untouched(r)
  BY <1>2, StepsAreLocal
<1> USE DEF Untouched, env, files
<1>3. ASSUME Reader
      PROVE  Untouched(r)
  BY <1>1, <1>3
  DEF Reader, ReaderStep, ReaderStart, ReaderLoad, ReaderListChecks, CheckJob,
      ReaderReport, SelectJob, ReaderShow, ReaderEnd
<1>4. ASSUME NEW j \in Jobs, Puppet(j)
      PROVE  Untouched(r)
  BY <1>1, <1>4 DEF Puppet, InstallCheck, InstallCron, RemoveCheck, RemoveCron
<1>5. ASSUME NEW f \in DisableFiles, Toggle(f)
      PROVE  Untouched(r)
  BY <1>1, <1>5 DEF Toggle
<1>6. CASE Tick
  BY <1>1, <1>6 DEF Tick
<1>7. CASE UNCHANGED vars
  BY <1>1, <1>7 DEF vars
<1>8. QED
  BY <1>2, <1>3, <1>4, <1>5, <1>6, <1>7 DEF Next

\* What a wrapper relies on is kept by every step.
LEMMA WrapInvStep ==
    ASSUME TypeOK, TypeOK', NEW r \in Runs, WrapInv(r), [Next]_vars
    PROVE  WrapInv(r)'
  BY WrapInvWrap, WrapInvCleanup, OthersLeaveUntouched, UntouchedKeeps

WrapInvs == TypeOK /\ \A r \in Runs : WrapInv(r)

\* Every wrapper finds its files as it left them, or aged and cleaned away.
LEMMA WrapInvsHold == Spec => []WrapInvs
<1>1. Init => WrapInvs
  BY TypeInit, WrapInvInit DEF WrapInvs
<1>2. WrapInvs /\ [Next]_vars => WrapInvs'
  BY TypeStep, WrapInvStep DEF WrapInvs
<1>3. QED
  BY <1>1, <1>2, PTL DEF Spec

\* A visible record is the whole record of an execution that has ended.
THEOREM VisibleRecordsComplete == Spec => []RecordsComplete
<1>1. WrapInvs => RecordsComplete
  BY DEF WrapInvs, WrapInv, Ended, RecordsComplete, Times, None, TypeOK
<1>2. QED
  BY <1>1, WrapInvsHold, PTL

\* Only cleanup separates an output from its record.
THEOREM OutputsHaveRecords == Spec => []OutputFollowsRecord
<1>1. WrapInvs => OutputFollowsRecord
  BY DEF WrapInvs, WrapInv, OutputFollowsRecord
<1>2. QED
  BY <1>1, WrapInvsHold, PTL

\* After its record has had its final name, an execution is over and done with:
\* no step changes the record, or brings it back once it is cleaned away.
LEMMA PublishedStays ==
    ASSUME WrapInvs, [Next]_vars, NEW r \in Runs, pc[r] \in Published
    PROVE  /\ pc'[r] \in Published
           /\ data'[r] = data[r]
           /\ meta'[r] \in {meta[r], "absent"}
<1>1. /\ TypeOK
      /\ pc \in [Runs -> WrapPhases]
      /\ meta \in [Runs -> FileStates]
  BY DEF WrapInvs, TypeOK
<1>2. CASE Wrap(r)
  BY <1>1, <1>2
  DEF Wrap, WrapStep, StartWrap, Run, RunFails, Finish, CheckRun, WriteMeta,
      RenameMeta, WriteOutput, RenameOutput, Crash, Published, Goto, files
<1>3. CASE Cleanup(r)
  BY <1>1, <1>3 DEF Cleanup, CleanMeta, CleanOutput, env
<1>4. CASE ~Wrap(r) /\ ~Cleanup(r)
  BY <1>1, <1>4, OthersLeaveUntouched DEF Untouched
<1>5. QED
  BY <1>2, <1>3, <1>4

\* A written record does not change, and a cleaned one does not come back.
THEOREM RecordsNeverChange == Spec => RecordsImmutable
<1> DEFINE Kept(r) ==
      /\ meta[r] # "absent" => data'[r] = data[r]
      /\ meta[r] = "final" => meta'[r] \in {"final", "absent"}
      /\ meta[r] = "absent" /\ pc[r] \in {"meta_saved", "output_written",
                                          "saved", "dead"}
            => meta'[r] = "absent"
<1>1. ASSUME WrapInvs, [Next]_vars, NEW r \in Runs
      PROVE  Kept(r)
  <2>1. CASE pc[r] \in Published
    BY <1>1, <2>1, PublishedStays DEF Published
  <2>2. CASE pc[r] \notin Published
    <3>1. meta[r] # "absent" => meta[r] = "tmp" /\ pc[r] = "meta_written"
      BY <1>1, <2>2 DEF WrapInvs, WrapInv, TypeOK, FileStates, Published
    <3>2. pc[r] = "meta_written" => data'[r] = data[r]
      <4>1. CASE Wrap(r)
        BY <4>1
        DEF Wrap, WrapStep, StartWrap, Run, RunFails, Finish, CheckRun,
            WriteMeta, RenameMeta, WriteOutput, RenameOutput, Crash
      <4>2. CASE Cleanup(r)
        BY <4>2 DEF Cleanup, CleanMeta, CleanOutput
      <4>3. CASE ~Wrap(r) /\ ~Cleanup(r)
        BY <1>1, <4>3, OthersLeaveUntouched DEF Untouched, WrapInvs
      <4>4. QED
        BY <4>1, <4>2, <4>3
    <3>3. QED
      BY <2>2, <3>1, <3>2 DEF Published
  <2>3. QED
    BY <2>1, <2>2
<1>2. WrapInvs /\ [Next]_vars => [\A r \in Runs : Kept(r)]_vars
  BY <1>1
<1>3. QED
  BY <1>2, WrapInvsHold, PTL DEF Spec, RecordsImmutable
-----------------------------------------------------------------------------
(***************************************************************************)
(* The data directory is a log                                             *)
(***************************************************************************)
\* The abstract state of a run, as the refinement mapping defines it
StateOf(r) == IF meta[r] = "final" THEN "logged"
              ELSE IF pc[r] \in Published THEN "gone"
              ELSE "pending"

LogOf(r) == IF meta[r] = "final" THEN data[r] ELSE NeverRun(JobOf[r])

\* An empty data directory is an empty log.
LEMMA LogInitial == Init => Log!LogInit
  BY DEF Init, Log!LogInit

\* The three ways a run can move in the log, and none
LEMMA LogMoves ==
    ASSUME WrapInvs, NEW r \in Runs, Wrap(r) \/ Cleanup(r)
    PROVE  \/ StateOf(r)' = StateOf(r) /\ LogOf(r)' = LogOf(r)
           \/ /\ StateOf(r) = "pending" /\ StateOf(r)' = "logged"
              /\ Ended(r) /\ LogOf(r)' = data[r]
           \/ /\ StateOf(r) = "logged" /\ StateOf(r)' = "gone"
              /\ now - data[r].end_time > Keep[JobOf[r]]
              /\ LogOf(r) = data[r] /\ LogOf(r)' = NeverRun(JobOf[r])
           \/ /\ StateOf(r) = "pending" /\ StateOf(r)' = "gone"
              /\ LogOf(r)' = LogOf(r)
<1>1. /\ TypeOK
      /\ WrapInv(r)
      /\ pc \in [Runs -> WrapPhases]
      /\ data \in [Runs -> Record]
      /\ meta \in [Runs -> FileStates]
  BY DEF WrapInvs, TypeOK
<1> USE DEF StateOf, LogOf, Published, Goto, env, files
<1>2. CASE StartWrap(r) \/ RunFails(r)
  BY <1>1, <1>2 DEF StartWrap, RunFails, WrapInv
<1>3. CASE \/ Run(r) \/ CheckRun(r)
           \/ \E code \in ExitCodes, out \in Outputs : Finish(r, code, out)
  BY <1>1, <1>3 DEF Run, CheckRun, Finish, WrapInv
<1>4. CASE WriteMeta(r)
  BY <1>1, <1>4 DEF WriteMeta, WrapInv
<1>5. CASE RenameMeta(r)
  BY <1>1, <1>5 DEF RenameMeta, WrapInv
<1>6. CASE WriteOutput(r) \/ RenameOutput(r)
  BY <1>1, <1>6 DEF WriteOutput, RenameOutput
<1>7. CASE Crash(r)
  BY <1>1, <1>7 DEF Crash
<1>8. CASE CleanMeta(r)
  <2>1. /\ meta'[r] = "absent" /\ meta[r] # "absent"
        /\ pc' = pc /\ data' = data
        /\ now - mtime[r].meta > Keep[data[r].name]
    BY <1>1, <1>8 DEF CleanMeta, Aged
  <2>2. CASE meta[r] = "tmp"
    BY <1>1, <2>1, <2>2
  <2>3. CASE meta[r] = "final"
    <3>1. data[r].end_time <= mtime[r].meta /\ data[r].name = JobOf[r]
      BY <1>1, <2>3 DEF WrapInv
    <3>2. now - data[r].end_time > Keep[JobOf[r]]
      BY <1>1, <2>1, <3>1, RunTypes
    <3>3. pc[r] \in Published
      BY <1>1, <2>3 DEF WrapInv
    <3>4. QED
      BY <2>1, <2>3, <3>2, <3>3
  <2>4. QED
    BY <1>1, <2>1, <2>2, <2>3 DEF FileStates
<1>9. CASE CleanOutput(r)
  BY <1>1, <1>9 DEF CleanOutput
<1>10. QED
  BY <1>2, <1>3, <1>4, <1>5, <1>6, <1>7, <1>8, <1>9
  DEF Wrap, WrapStep, Cleanup

\* A step maps to a step of the log, or to none.
LEMMA LogStep ==
    ASSUME WrapInvs, [Next]_vars
    PROVE  [Log!LogNext]_(Log!logvars)
<1> DEFINE st == [r \in Runs |-> StateOf(r)]
           lg == [r \in Runs |-> LogOf(r)]
           blank == [r \in Runs |-> NeverRun(JobOf[r])]
           keep  == [r \in Runs |-> Keep[JobOf[r]]]
<1> USE DEF StateOf, LogOf, Published
<1>1. SUFFICES
        \/ now' = now + 1 /\ st' = st /\ lg' = lg
        \/ \E r \in Runs :
             \/ /\ st[r] = "pending"
                /\ st' = [st EXCEPT ![r] = "logged"]
                /\ \E e \in Record : /\ 0 <= e.start_time
                                     /\ e.start_time <= e.end_time
                                     /\ e.end_time <= now
                                     /\ lg' = [lg EXCEPT ![r] = e]
                /\ now' = now
             \/ /\ st[r] = "logged"
                /\ now - lg[r].end_time > keep[r]
                /\ st' = [st EXCEPT ![r] = "gone"]
                /\ lg' = [lg EXCEPT ![r] = blank[r]]
                /\ now' = now
             \/ /\ st[r] = "pending"
                /\ st' = [st EXCEPT ![r] = "gone"]
                /\ now' = now /\ lg' = lg
        \/ now' = now /\ st' = st /\ lg' = lg
  BY DEF Log!LogNext, Log!Advance, Log!Append, Log!Expire, Log!Lose,
         Log!logvars
<1> USE DEF WrapInvs
<1>2. ASSUME NEW r \in Runs, Untouched(r)
      PROVE  StateOf(r)' = StateOf(r) /\ LogOf(r)' = LogOf(r)
  BY <1>2 DEF Untouched
<1>3. CASE \E r \in Runs : Wrap(r) \/ Cleanup(r)
  <2>1. PICK r \in Runs : Wrap(r) \/ Cleanup(r)
    BY <1>3
  <2>2. now' = now
    BY <2>1
    DEF Wrap, WrapStep, StartWrap, Run, RunFails, Finish, CheckRun, WriteMeta,
        RenameMeta, WriteOutput, RenameOutput, Crash, Cleanup, CleanMeta,
        CleanOutput, env
  <2>3. \A q \in Runs \ {r} : StateOf(q)' = StateOf(q) /\ LogOf(q)' = LogOf(q)
    BY <1>2, <2>1, StepsAreLocal
  <2> HIDE DEF StateOf, LogOf
  <2>4. CASE StateOf(r)' = StateOf(r) /\ LogOf(r)' = LogOf(r)
    <3>1. st' = st /\ lg' = lg
      BY <2>3, <2>4
    <3>2. QED
      BY <2>2, <3>1
  <2>5. CASE /\ StateOf(r) = "pending" /\ StateOf(r)' = "logged"
             /\ Ended(r) /\ LogOf(r)' = data[r]
    <3>1. st' = [st EXCEPT ![r] = "logged"] /\ lg' = [lg EXCEPT ![r] = data[r]]
      BY <2>3, <2>5
    <3>2. data[r] \in Record
      BY DEF TypeOK
    <3>3. /\ 0 <= data[r].start_time
          /\ data[r].start_time <= data[r].end_time
          /\ data[r].end_time <= now
      BY <2>5 DEF Ended, Times
    <3>4. QED
      BY <2>2, <2>5, <3>1, <3>2, <3>3
  <2>6. CASE /\ StateOf(r) = "logged" /\ StateOf(r)' = "gone"
             /\ now - data[r].end_time > Keep[JobOf[r]]
             /\ LogOf(r) = data[r] /\ LogOf(r)' = NeverRun(JobOf[r])
    <3>1. /\ st' = [st EXCEPT ![r] = "gone"]
          /\ lg' = [lg EXCEPT ![r] = blank[r]]
          /\ now - lg[r].end_time > keep[r]
      BY <2>3, <2>6
    <3>2. QED
      BY <2>2, <2>6, <3>1
  <2>7. CASE /\ StateOf(r) = "pending" /\ StateOf(r)' = "gone"
             /\ LogOf(r)' = LogOf(r)
    <3>1. st' = [st EXCEPT ![r] = "gone"] /\ lg' = lg
      BY <2>3, <2>7
    <3>2. QED
      BY <2>2, <2>7, <3>1
  <2>8. QED
    BY <2>1, <2>4, <2>5, <2>6, <2>7, LogMoves
<1>4. CASE ~\E r \in Runs : Wrap(r) \/ Cleanup(r)
  <2>1. st' = st /\ lg' = lg
    BY <1>2, <1>4, OthersLeaveUntouched
  <2>2. now' = now \/ now' = now + 1
    BY <1>4
    DEF Next, Reader, ReaderStep, ReaderStart, ReaderLoad, ReaderListChecks,
        CheckJob, ReaderReport, SelectJob, ReaderShow, ReaderEnd, Puppet,
        InstallCheck, InstallCron, RemoveCheck, RemoveCron, Toggle, Tick,
        vars, env
  <2>3. QED
    BY <2>1, <2>2
<1>5. QED
  BY <1>3, <1>4

\* The wrappers and cleanup implement the log.
THEOREM ImplementsJobLog == Spec => ImplementsLog
  BY LogInitial, LogStep, WrapInvsHold, PTL
  DEF Spec, ImplementsLog, Log!LogSpec
-----------------------------------------------------------------------------
(***************************************************************************)
(* The verdicts                                                            *)
(***************************************************************************)
VerdictInv == WrapInvs /\ ReaderInv /\ FailedIsCritical

\* There is no verdict before the first check.
LEMMA VerdictInit == Init => VerdictInv
<1> SUFFICES ASSUME Init PROVE ReaderInv /\ FailedIsCritical
  BY TypeInit, WrapInvInit DEF VerdictInv, WrapInvs
<1>1. reader.pc = "idle" /\ reader.listed = {} /\ reader.loaded = {}
  BY DEF Init, NoReader
<1>2. QED
  BY <1>1 DEF ReaderInv, FailedIsCritical, Checked

\* While the reader stands still, what it listed stays as it was: the records
\* of executions that are over do not change, even when their files go.
LEMMA VerdictWait ==
    ASSUME VerdictInv, [Next]_vars, reader' = reader
    PROVE  ReaderInv' /\ FailedIsCritical'
<1>1. reader.listed \subseteq Runs /\ reader.loaded \subseteq reader.listed
  BY DEF VerdictInv, WrapInvs, TypeOK, Readers, ReaderInv
<1>2. \A r \in reader.listed : pc'[r] \in Published /\ data'[r] = data[r]
  BY <1>1, PublishedStays DEF VerdictInv, ReaderInv
<1>3. ReaderInv'
  BY <1>1, <1>2 DEF VerdictInv, ReaderInv
<1>4. ASSUME NEW j \in Jobs, NEW r \in Runs, LastListed(j, r)
      PROVE  LastListed(j, r)' /\ data'[r] = data[r]
  BY <1>1, <1>2, <1>4 DEF LastListed
<1>5. FailedIsCritical'
  BY <1>4 DEF VerdictInv, FailedIsCritical, Checked, HasOr
<1>6. QED
  BY <1>3, <1>5

\* A verdict better than CRITICAL given to a job without OR criteria
LEMMA CheckJobVerdict ==
    ASSUME VerdictInv, NEW j \in Jobs, CheckJob(j), ~HasOr(j),
           reader'.verdict[j] \in {"OK", "WARNING"}
    PROVE  \E r \in Runs : LastListed(j, r) /\ data[r].check_status = "OK"
<1>1. PICK job \in IF RecordsOf(j) = {} THEN {NeverRun(j)}
                   ELSE {data[r] : r \in Newest(j)} :
        reader' =
          [reader EXCEPT
             !.pending = @ \ {j},
             !.verdict[j] =
                IF j \in ini
                THEN JobCheck(LoadCheck(OkCriteria[j], WarnCriteria[j], FALSE),
                              job, now, exists)
                ELSE "UNKNOWN"]
  BY DEF CheckJob
<1>2. reader \in Readers
  BY DEF VerdictInv, WrapInvs, TypeOK
<1>3. reader'.verdict[j] = IF j \in ini
        THEN JobCheck(LoadCheck(OkCriteria[j], WarnCriteria[j], FALSE),
                      job, now, exists)
        ELSE "UNKNOWN"
  BY <1>1, <1>2 DEF Readers
<1>4. JobCheck(LoadCheck(OkCriteria[j], WarnCriteria[j], FALSE),
               job, now, exists) \in {"OK", "WARNING"}
  BY <1>3
<1>5. job.check_status = "OK"
  BY <1>4, StoredStatusNeeded DEF HasOr
<1>6. RecordsOf(j) # {}
  BY <1>1, <1>5 DEF NeverRun, NoStatus
<1>7. PICK r \in Newest(j) : job = data[r]
  BY <1>1, <1>6
<1>8. \A s \in reader.listed : data[s].name = j => s \in reader.loaded
  BY DEF VerdictInv, ReaderInv, CheckJob
<1>9. reader.loaded \subseteq reader.listed /\ reader.listed \subseteq Runs
  BY <1>2 DEF VerdictInv, ReaderInv, Readers
<1>10. LastListed(j, r)
  BY <1>7, <1>8, <1>9 DEF LastListed, Newest, RecordsOf
<1>11. QED
  BY <1>5, <1>7, <1>9, <1>10 DEF Newest, RecordsOf

\* The reader's own steps keep what its verdict rests on.
LEMMA VerdictRead ==
    ASSUME VerdictInv, Reader
    PROVE  ReaderInv' /\ FailedIsCritical'
<1>1. /\ reader \in Readers
      /\ ini \subseteq Jobs
      /\ ReaderInv
      /\ FailedIsCritical
      /\ \A r \in Runs : WrapInv(r)
  BY DEF VerdictInv, WrapInvs, TypeOK
<1>2. UNCHANGED <<env, pc, data, files>>
  BY DEF Reader, ReaderStep, ReaderStart, ReaderLoad, ReaderListChecks,
         CheckJob, ReaderReport, SelectJob, ReaderShow, ReaderEnd
<1> USE DEF env, files
<1>3. ASSUME NEW mode \in Modes, NEW names \in ReaderArgs,
             ReaderStart(mode, names)
      PROVE  ReaderInv' /\ FailedIsCritical'
  <2>1. /\ reader'.pc = "loading"
        /\ reader'.listed = {r \in Runs : meta[r] = "final"}
        /\ reader'.todo = reader'.listed
        /\ reader'.loaded = {}
        /\ reader'.pending = {}
        /\ reader'.verdict = [j \in Jobs |-> NoVerdict]
    BY <1>3 DEF ReaderStart, NoReader
  <2>2. \A r \in reader'.listed : pc[r] \in Published
    BY <1>1, <2>1 DEF WrapInv
  <2>3. QED
    BY <1>2, <2>1, <2>2 DEF ReaderInv, FailedIsCritical, Checked
<1>4. ASSUME NEW r \in Runs, ReaderLoad(r)
      PROVE  ReaderInv' /\ FailedIsCritical'
  <2>1. CASE reader' = [reader EXCEPT !.pc = "crashed",
                                      !.missed = <<"meta", r>>]
    BY <1>1, <1>2, <2>1
    DEF ReaderInv, FailedIsCritical, Checked, Readers
  <2>2. CASE reader' = [reader EXCEPT !.todo = @ \ {r},
                 !.loaded = IF data[r].name \in reader.names
                            THEN @ \cup {r} ELSE @]
    <3>1. /\ reader'.pc = "loading"
          /\ reader'.listed = reader.listed
          /\ reader'.names = reader.names
          /\ reader'.pending = reader.pending
          /\ reader'.verdict = reader.verdict
          /\ reader'.todo = reader.todo \ {r}
          /\ reader'.loaded = IF data[r].name \in reader.names
                              THEN reader.loaded \cup {r} ELSE reader.loaded
      BY <1>1, <1>4, <2>2 DEF ReaderLoad, Readers
    <3>2. reader.pc = "loading" /\ r \in reader.todo
      BY <1>4 DEF ReaderLoad
    <3>3. reader.loaded \subseteq reader.listed /\ reader.todo \subseteq reader.listed
      BY <1>1, <3>2 DEF ReaderInv
    <3>4. \A q \in reader'.loaded : /\ q \in reader.listed
                                    /\ data[q].name \in reader.names
      BY <1>1, <3>1, <3>2, <3>3 DEF ReaderInv
    <3>5. \A q \in reader.listed \ reader'.todo :
             data[q].name \in reader.names => q \in reader'.loaded
      BY <1>1, <3>1, <3>2 DEF ReaderInv
    <3>6. QED
      BY <1>1, <1>2, <3>1, <3>2, <3>4, <3>5
      DEF ReaderInv, FailedIsCritical, Checked
  <2>3. QED
    BY <1>4, <2>1, <2>2 DEF ReaderLoad
<1>5. ASSUME ReaderListChecks
      PROVE  ReaderInv' /\ FailedIsCritical'
  <2>1. /\ reader.pc = "loading"
        /\ reader.todo = {}
        /\ \/ reader'.pc = "checking"
           \/ reader'.pc = "viewing" /\ reader'.mode # "check"
        /\ reader'.listed = reader.listed
        /\ reader'.loaded = reader.loaded
        /\ reader'.names = reader.names
        /\ reader'.verdict = reader.verdict
        /\ \A j \in reader'.pending :
              RecordsOf(j) # {} \/ j \in reader.names
    BY <1>1, <1>5 DEF ReaderListChecks, Readers
  <2>2. \A j : RecordsOf(j) # {} => j \in reader.names
    BY <1>1, <2>1 DEF RecordsOf, ReaderInv
  <2>3. \A j \in Jobs : reader'.verdict[j] \notin {"OK", "WARNING"}
    BY <1>1, <2>1 DEF ReaderInv, NoVerdict
  <2>4. QED
    BY <1>1, <1>2, <2>1, <2>2, <2>3 DEF ReaderInv, FailedIsCritical
<1>6. ASSUME NEW j \in Jobs, CheckJob(j)
      PROVE  ReaderInv' /\ FailedIsCritical'
  <2>1. /\ reader.pc = "checking"
        /\ reader'.pc = reader.pc
        /\ reader'.mode = reader.mode
        /\ reader'.listed = reader.listed
        /\ reader'.loaded = reader.loaded
        /\ reader'.names = reader.names
        /\ reader'.pending = reader.pending \ {j}
        /\ \A i \in Jobs \ {j} : reader'.verdict[i] = reader.verdict[i]
    BY <1>1, <1>6 DEF CheckJob, Readers
  <2>2. ReaderInv'
    BY <1>1, <1>2, <2>1 DEF ReaderInv
  <2>3. ASSUME NEW i \in Jobs, NEW r \in Runs, LastListed(i, r)
        PROVE  LastListed(i, r)' /\ data'[r] = data[r]
    BY <1>2, <2>1, <2>3 DEF LastListed
  <2>4. ASSUME Checked', NEW i \in Jobs,
               reader'.verdict[i] \in {"OK", "WARNING"}, ~HasOr(i)
        PROVE  \E r \in Runs : LastListed(i, r) /\ data[r].check_status = "OK"
    <3>1. CASE i = j
      BY <1>6, <2>4, <3>1, CheckJobVerdict
    <3>2. CASE i # j
      BY <1>1, <2>1, <2>4, <3>2 DEF FailedIsCritical, Checked
    <3>3. QED
      BY <3>1, <3>2
  <2>5. FailedIsCritical'
    BY <2>3, <2>4 DEF FailedIsCritical, HasOr
  <2>6. QED
    BY <2>2, <2>5
<1>7. ASSUME ReaderReport
      PROVE  ReaderInv' /\ FailedIsCritical'
  <2>1. /\ reader.pc = "checking"
        /\ reader'.pc = "done"
        /\ reader'.mode = reader.mode
        /\ reader'.listed = reader.listed
        /\ reader'.loaded = reader.loaded
        /\ reader'.verdict = reader.verdict
    BY <1>1, <1>7 DEF ReaderReport, Readers
  <2>2. \A i, r : LastListed(i, r)' <=> LastListed(i, r)
    BY <1>2, <2>1 DEF LastListed
  <2>3. QED
    BY <1>1, <1>2, <2>1, <2>2
    DEF ReaderInv, FailedIsCritical, Checked, HasOr
<1>8. ASSUME NEW j \in Jobs, SelectJob(j)
      PROVE  ReaderInv' /\ FailedIsCritical'
  <2>1. /\ reader.pc = "viewing"
        /\ reader'.pc = "viewing"
        /\ reader'.mode = reader.mode
        /\ reader'.listed = reader.listed
        /\ reader'.loaded = reader.loaded
    BY <1>1, <1>8 DEF SelectJob, Readers
  <2>2. QED
    BY <1>1, <1>2, <2>1 DEF ReaderInv, FailedIsCritical, Checked
<1>9. ASSUME NEW r \in Runs, ReaderShow(r)
      PROVE  ReaderInv' /\ FailedIsCritical'
  <2>1. /\ reader.pc = "viewing"
        /\ reader'.pc \in {"viewing", "crashed"}
        /\ reader'.mode = reader.mode
        /\ reader'.listed = reader.listed
        /\ reader'.loaded = reader.loaded
    BY <1>1, <1>9 DEF ReaderShow, Readers
  <2>2. QED
    BY <1>1, <1>2, <2>1 DEF ReaderInv, FailedIsCritical, Checked
<1>10. ASSUME ReaderEnd
       PROVE  ReaderInv' /\ FailedIsCritical'
  <2>1. /\ reader.pc = "viewing"
        /\ reader'.pc = "done"
        /\ reader'.mode = reader.mode
        /\ reader'.listed = reader.listed
        /\ reader'.loaded = reader.loaded
    BY <1>1, <1>10 DEF ReaderEnd, Readers
  <2>2. QED
    BY <1>1, <1>2, <2>1 DEF ReaderInv, FailedIsCritical, Checked
<1>11. QED
  BY <1>3, <1>4, <1>5, <1>6, <1>7, <1>8, <1>9, <1>10 DEF Reader, ReaderStep

\* So does every step.
LEMMA VerdictStep == VerdictInv /\ [Next]_vars => VerdictInv'
<1> SUFFICES ASSUME VerdictInv, [Next]_vars PROVE VerdictInv'
  OBVIOUS
<1>1. WrapInvs'
  BY TypeStep, WrapInvStep DEF VerdictInv, WrapInvs
<1>2. CASE Reader
  BY <1>1, <1>2, VerdictRead DEF VerdictInv
<1>3. CASE ~Reader
  <2>1. reader' = reader
    BY <1>3
    DEF Next, Wrap, WrapStep, StartWrap, Run, RunFails, Finish, CheckRun,
        WriteMeta, RenameMeta, WriteOutput, RenameOutput, Crash, Cleanup,
        CleanMeta, CleanOutput, Puppet, InstallCheck, InstallCron,
        RemoveCheck, RemoveCron, Toggle, Tick, vars
  <2>2. QED
    BY <1>1, <2>1, VerdictWait DEF VerdictInv
<1>4. QED
  BY <1>2, <1>3

\* A verdict better than CRITICAL rests on the last execution on record when
\* the check started, and on its having been OK.
THEOREM FailedJobsAreCritical == Spec => []FailedIsCritical
<1>1. VerdictInv => FailedIsCritical
  BY DEF VerdictInv
<1>2. QED
  BY <1>1, VerdictInit, VerdictStep, PTL DEF Spec

=============================================================================
