----------------------- MODULE ScriptherderReaderProofs -----------------------
(***************************************************************************)
(* Theorems about the readers of Scriptherder: what an OK may be trusted   *)
(* for, what ends a reader early, and that no job is left out of a check.  *)
(***************************************************************************)
EXTENDS ScriptherderProofs, FiniteSetTheorems

\* A step that is not the reader's leaves the reader alone.
LEMMA ReaderAlone ==
    ASSUME [Next]_vars, ~Reader PROVE reader' = reader
  BY DEF Next, Wrap, WrapStep, StartWrap, Run, RunFails, Finish, CheckRun,
         WriteMeta, RenameMeta, WriteOutput, RenameOutput, Crash, Cleanup,
         CleanMeta, CleanOutput, Puppet, InstallCheck, InstallCron,
         RemoveCheck, RemoveCron, Toggle, Tick, vars

\* A step of the reader changes nothing else.
LEMMA ReaderOnlyReads ==
    ASSUME Reader PROVE UNCHANGED <<env, pc, data, files>>
  BY DEF Reader, ReaderStep, ReaderStart, ReaderLoad, ReaderListChecks,
         CheckJob, ReaderReport, SelectJob, ReaderShow, ReaderEnd

\* The clock is not turned back.
LEMMA ClockAdvances ==
    ASSUME TypeOK, [Next]_vars PROVE now' \in {now, now + 1} /\ now \in Nat
<1>1. now \in Nat
  BY DEF TypeOK, Times
<1>2. QED
  BY <1>1
  DEF Next, Wrap, WrapStep, StartWrap, Run, RunFails, Finish, CheckRun,
      WriteMeta, RenameMeta, WriteOutput, RenameOutput, Crash, Cleanup,
      CleanMeta, CleanOutput, Puppet, InstallCheck, InstallCron, RemoveCheck,
      RemoveCron, Toggle, Tick, Reader, ReaderStep, ReaderStart, ReaderLoad,
      ReaderListChecks, CheckJob, ReaderReport, SelectJob, ReaderShow,
      ReaderEnd, vars, env

\* How far a reader goes in one step, and what it keeps.
LEMMA ReaderGoesOn ==
    ASSUME TypeOK, Reader
    PROVE  \/ \E mode \in Modes, names \in ReaderArgs : ReaderStart(mode, names)
           \/ /\ reader'.mode = reader.mode
              /\ reader'.names = reader.names
              /\ reader'.begun = reader.begun
              /\ reader'.listed = reader.listed
              /\ \/ /\ \E r \in Runs : ReaderLoad(r)
                    /\ reader'.pc \in {"loading", "crashed"}
                 \/ /\ ReaderListChecks
                    /\ reader'.verdict = reader.verdict
                    /\ reader'.pc = IF reader.mode = "check" THEN "checking"
                                    ELSE "viewing"
                 \/ /\ \E j \in Jobs : CheckJob(j)
                    /\ reader'.pc = "checking"
                 \/ /\ ReaderReport
                    /\ reader'.verdict = reader.verdict
                    /\ reader'.pc = "done"
                 \/ /\ reader.pc = "viewing"
                    /\ \/ \E j \in Jobs : SelectJob(j)
                       \/ \E r \in Runs : ReaderShow(r)
                       \/ ReaderEnd
<1>1. reader \in Readers
  BY DEF TypeOK
<1>2. ASSUME NEW r \in Runs, ReaderLoad(r)
      PROVE  /\ reader'.mode = reader.mode
             /\ reader'.names = reader.names
             /\ reader'.begun = reader.begun
             /\ reader'.listed = reader.listed
             /\ reader'.pc \in {"loading", "crashed"}
  BY <1>1, <1>2 DEF ReaderLoad, Readers
<1>3. ASSUME ReaderListChecks
      PROVE  /\ reader'.mode = reader.mode
             /\ reader'.names = reader.names
             /\ reader'.begun = reader.begun
             /\ reader'.listed = reader.listed
             /\ reader'.verdict = reader.verdict
             /\ reader'.pc = IF reader.mode = "check" THEN "checking"
                             ELSE "viewing"
  BY <1>1, <1>3 DEF ReaderListChecks, Readers
<1>4. ASSUME NEW j \in Jobs, CheckJob(j)
      PROVE  /\ reader'.mode = reader.mode
             /\ reader'.names = reader.names
             /\ reader'.begun = reader.begun
             /\ reader'.listed = reader.listed
             /\ reader'.pc = "checking"
  BY <1>1, <1>4 DEF CheckJob, Readers
<1>5. ASSUME ReaderReport
      PROVE  /\ reader'.mode = reader.mode
             /\ reader'.names = reader.names
             /\ reader'.begun = reader.begun
             /\ reader'.listed = reader.listed
             /\ reader'.verdict = reader.verdict
             /\ reader'.pc = "done"
  BY <1>1, <1>5 DEF ReaderReport, Readers
<1>6. ASSUME \/ \E j \in Jobs : SelectJob(j)
             \/ \E r \in Runs : ReaderShow(r)
             \/ ReaderEnd
      PROVE  /\ reader'.mode = reader.mode
             /\ reader'.names = reader.names
             /\ reader'.begun = reader.begun
             /\ reader'.listed = reader.listed
             /\ reader.pc = "viewing"
  BY <1>1, <1>6 DEF SelectJob, ReaderShow, ReaderEnd, Readers
<1>7. QED
  BY <1>2, <1>3, <1>4, <1>5, <1>6 DEF Reader, ReaderStep

\* A reader that starts has checked nothing yet.
LEMMA ReaderStarts ==
    ASSUME NEW mode, NEW names, ReaderStart(mode, names)
    PROVE  /\ reader'.pc = "loading" /\ reader'.mode = mode
           /\ reader'.names = names /\ reader'.begun = now
           /\ reader'.listed = {r \in Runs : meta[r] = "final"}
           /\ reader'.todo = reader'.listed
           /\ reader'.verdict = [j \in Jobs |-> NoVerdict]
  BY DEF ReaderStart, NoReader
-----------------------------------------------------------------------------
(***************************************************************************)
(* An OK is recent                                                         *)
(***************************************************************************)
\* The clock cut to whole seconds goes on with the clock.
LEMMA WholeAdvances ==
    ASSUME NEW early \in Int, NEW late \in Int, early <= late
    PROVE  /\ Whole(early) \in Int /\ Whole(late) \in Int
           /\ Whole(early) <= Whole(late)
<1> DEFINE first == early \div PerSecond
           last  == late \div PerSecond
<1>1. PerSecond \in Int /\ PerSecond > 0
  BY PerSecondAssumption
<1>2. first \in Int /\ last \in Int /\ first <= last
  BY <1>1
<1> HIDE DEF first, last
<1>3. /\ first * PerSecond \in Int /\ last * PerSecond \in Int
      /\ first * PerSecond <= last * PerSecond
  BY <1>1, <1>2
<1>4. QED
  BY <1>3 DEF Whole, first, last

\* So does the time a number of seconds ago.
LEMMA AgoAdvances ==
    ASSUME NEW seconds \in Int,
           NEW early \in Int, NEW late \in Int, early <= late
    PROVE  /\ Ago(seconds, early) \in Int /\ Ago(seconds, late) \in Int
           /\ Ago(seconds, early) <= Ago(seconds, late)
<1> DEFINE span == seconds * PerSecond
<1>1. span \in Int
  BY PerSecondAssumption
<1> HIDE DEF span
<1>2. /\ Whole(early) \in Int /\ Whole(late) \in Int
      /\ Whole(early) <= Whole(late)
  BY WholeAdvances
<1>3. QED
  BY <1>1, <1>2 DEF Ago, span

\* max_age is among the criteria a check looks at, and an OK meets it.
LEMMA MaxAgeNeeded ==
    ASSUME NEW ok, NEW warning, NEW job, NEW time, NEW there,
           \A c \in ok : c.what \notin OrCriteria,
           NEW limit \in ok, limit.what = "max_age", ~limit.negate,
           JobCheck(LoadCheck(ok, warning, FALSE), job, time, there) = "OK"
    PROVE  job.end_time # None /\ job.end_time > Ago(limit.value, time)
<1> DEFINE check == LoadCheck(ok, warning, FALSE)
<1>1. limit \in check.ok
  BY DEF LoadCheck, ParseCriteria, CheckTimeOnly
<1>2. \A c \in check.ok : c.what \notin OrCriteria
  BY DEF LoadCheck, ParseCriteria, StoredStatusOk, OrCriteria
<1>3. Evaluate(check.ok, job, time, there)
  BY DEF JobCheck
<1>4. Fulfilled(limit, job, time, there)
  BY <1>1, <1>2, <1>3 DEF Evaluate
<1>5. QED
  BY <1>4 DEF Fulfilled

RecentInv == VerdictInv /\ reader.begun <= now /\ OkIsRecent

\* The OK of a job with a max_age is given for the execution started last.
LEMMA CheckJobRecent ==
    ASSUME RecentInv, NEW j \in Jobs, CheckJob(j), ~HasOr(j),
           NEW c \in OkCriteria[j], c.what = "max_age", ~c.negate,
           reader'.verdict[j] = "OK"
    PROVE  \E r \in Runs : /\ LastListed(j, r)
                           /\ data[r].end_time > Ago(c.value, reader.begun)
<1>1. PICK job \in IF RecordsOf(j) = {} THEN {NeverRun(j)}
                   ELSE {data[r] : r \in Newest(j)} :
        reader' =
          [reader EXCEPT
             !.pending = @ \ {j},
             !.verdict[j] =
                IF j \in ini
                THEN JobCheck(LoadCheck(OkCriteria[j], WarnCriteria[j], FALSE),
                              job, now, exists)
                ELSE "UNKNOWN"]
  BY DEF CheckJob
<1>2. reader \in Readers
  BY DEF RecentInv, VerdictInv, WrapInvs, TypeOK
<1>3. JobCheck(LoadCheck(OkCriteria[j], WarnCriteria[j], FALSE),
               job, now, exists) = "OK"
  BY <1>1, <1>2 DEF Readers
<1>4. job.end_time # None /\ job.end_time > Ago(c.value, now)
  BY <1>3, MaxAgeNeeded DEF HasOr
<1>5. RecordsOf(j) # {}
  BY <1>1, <1>4 DEF NeverRun
<1>6. PICK r \in Newest(j) : job = data[r]
  BY <1>1, <1>5
<1>7. \A s \in reader.listed : data[s].name = j => s \in reader.loaded
  BY DEF RecentInv, VerdictInv, ReaderInv, CheckJob
<1>8. reader.loaded \subseteq reader.listed /\ reader.listed \subseteq Runs
  BY <1>2 DEF RecentInv, VerdictInv, ReaderInv, Readers
<1>9. LastListed(j, r) /\ r \in Runs
  BY <1>6, <1>7, <1>8 DEF LastListed, Newest, RecordsOf
<1>10. /\ now \in Int /\ reader.begun \in Int /\ reader.begun <= now
       /\ data[r].end_time \in Int /\ c.value \in Int
  <2>1. c \in Criterion
    BY CriteriaAssumption
  <2>2. c.value \in Int
    BY <2>1 DEF Criterion
  <2>3. QED
    BY <1>2, <1>9, <2>2, RunTypes
    DEF RecentInv, VerdictInv, WrapInvs, TypeOK, Times, Readers
<1>11. data[r].end_time > Ago(c.value, reader.begun)
  <2>1. /\ Ago(c.value, reader.begun) \in Int /\ Ago(c.value, now) \in Int
        /\ Ago(c.value, reader.begun) <= Ago(c.value, now)
    BY <1>10, AgoAdvances
  <2>2. QED
    BY <1>4, <1>6, <1>10, <2>1
<1>12. QED
  BY <1>9, <1>11

\* The reader keeps that.
LEMMA RecentRead ==
    ASSUME RecentInv, Reader PROVE reader'.begun <= now' /\ OkIsRecent'
<1>1. /\ TypeOK /\ reader \in Readers /\ now \in Nat /\ reader.begun <= now
      /\ ReaderInv
  BY DEF RecentInv, VerdictInv, WrapInvs, TypeOK, Times
<1>2. now' = now /\ data' = data
  BY ReaderOnlyReads DEF env
<1>3. ASSUME reader'.listed = reader.listed
      PROVE  \A i, r : LastListed(i, r)' <=> LastListed(i, r)
  BY <1>2, <1>3 DEF LastListed
<1>4. ASSUME NEW mode \in Modes, NEW names \in ReaderArgs,
             ReaderStart(mode, names)
      PROVE  reader'.begun <= now' /\ OkIsRecent'
  BY <1>1, <1>2, <1>4, ReaderStarts DEF OkIsRecent, Checked
<1>5. ASSUME reader'.pc \notin {"checking", "done"} \/ reader'.mode # "check"
      PROVE  OkIsRecent'
  BY <1>5 DEF OkIsRecent, Checked
<1>6. ASSUME ReaderListChecks, reader'.verdict = reader.verdict
      PROVE  OkIsRecent'
  <2>1. \A j \in Jobs : reader'.verdict[j] # "OK"
    BY <1>1, <1>6 DEF ReaderListChecks, ReaderInv, NoVerdict
  <2>2. QED
    BY <2>1 DEF OkIsRecent
<1>7. ASSUME NEW j \in Jobs, CheckJob(j), reader'.mode = reader.mode,
             reader'.listed = reader.listed, reader'.begun = reader.begun
      PROVE  OkIsRecent'
  <2>1. /\ reader.pc = "checking"
        /\ \A i \in Jobs \ {j} : reader'.verdict[i] = reader.verdict[i]
    BY <1>1, <1>7 DEF CheckJob, Readers
  <2>2. ASSUME Checked', NEW i \in Jobs, NEW c \in OkCriteria[i],
               reader'.verdict[i] = "OK", c.what = "max_age", ~c.negate,
               ~HasOr(i)
        PROVE  \E r \in Runs : /\ LastListed(i, r)
                               /\ data[r].end_time > Ago(c.value, reader.begun)
    <3>1. CASE i = j
      BY <1>7, <2>2, <3>1, CheckJobRecent
    <3>2. CASE i # j
      <4>1. Checked /\ reader.verdict[i] = "OK"
        BY <1>7, <2>1, <2>2, <3>2 DEF Checked
      <4>2. QED
        BY <2>2, <4>1 DEF RecentInv, OkIsRecent
    <3>3. QED
      BY <3>1, <3>2
  <2>3. QED
    BY <1>2, <1>3, <1>7, <2>2 DEF OkIsRecent, HasOr
<1>8. ASSUME ReaderReport, reader'.mode = reader.mode,
             reader'.listed = reader.listed, reader'.begun = reader.begun,
             reader'.verdict = reader.verdict
      PROVE  OkIsRecent'
  <2>1. Checked' => Checked
    BY <1>8 DEF Checked, ReaderReport
  <2>2. QED
    BY <1>2, <1>3, <1>8, <2>1 DEF RecentInv, OkIsRecent, HasOr
<1>9. ASSUME reader.pc = "viewing", reader'.mode = reader.mode
      PROVE  OkIsRecent'
  BY <1>1, <1>5, <1>9 DEF ReaderInv
<1>10. QED
  BY <1>1, <1>2, <1>4, <1>5, <1>6, <1>7, <1>8, <1>9, ReaderGoesOn

\* So does every step: the records it rests on stay as they are.
LEMMA RecentStep == RecentInv /\ [Next]_vars => RecentInv'
<1> SUFFICES ASSUME RecentInv, [Next]_vars PROVE RecentInv'
  OBVIOUS
<1>1. VerdictInv'
  BY VerdictStep DEF RecentInv
<1>2. CASE Reader
  BY <1>1, <1>2, RecentRead DEF RecentInv
<1>3. CASE ~Reader
  <2>1. reader' = reader
    BY <1>3, ReaderAlone
  <2>2. reader.listed \subseteq Runs /\ TypeOK
    BY DEF RecentInv, VerdictInv, WrapInvs, TypeOK, Readers
  <2>3. \A r \in reader.listed : data'[r] = data[r]
    BY <2>2, PublishedStays DEF RecentInv, VerdictInv, ReaderInv
  <2>4. ASSUME NEW j \in Jobs, NEW r \in Runs, LastListed(j, r)
        PROVE  LastListed(j, r)' /\ data'[r] = data[r]
    BY <2>1, <2>2, <2>3, <2>4 DEF LastListed
  <2>5. OkIsRecent'
    BY <2>1, <2>4 DEF RecentInv, OkIsRecent, Checked, HasOr
  <2>6. reader.begun <= now'
    <3>1. reader.begun \in Nat /\ reader.begun <= now
      BY DEF RecentInv, VerdictInv, WrapInvs, TypeOK, Times, Readers
    <3>2. QED
      BY <2>2, <3>1, ClockAdvances
  <2>7. QED
    BY <1>1, <2>1, <2>5, <2>6 DEF RecentInv
<1>4. QED
  BY <1>2, <1>3

\* An OK for a job with a max_age is for an execution that ended within it,
\* counted from the start of the second in which the check started.
THEOREM OkJobsAreRecent == Spec => []OkIsRecent
<1>1. Init => RecentInv
  <2> SUFFICES ASSUME Init PROVE reader.begun <= now /\ OkIsRecent
    BY VerdictInit DEF RecentInv
  <2>1. reader.pc = "idle" /\ reader.begun = 0 /\ now = 0
    BY DEF Init, NoReader
  <2>2. QED
    BY <2>1 DEF OkIsRecent, Checked
<1>2. RecentInv => OkIsRecent
  BY DEF RecentInv
<1>3. QED
  BY <1>1, <1>2, RecentStep, PTL DEF Spec
-----------------------------------------------------------------------------
(***************************************************************************)
(* What ends a reader early                                                *)
(***************************************************************************)
\* The wrapper is done with the output.
Over == {"saved", "dead"}

MetaCleaned(r)   == meta[r] = "absent" /\ Aged(r, mtime[r].meta)

OutputCleaned(r) == output[r] = "absent" /\ Aged(r, mtime[r].output)

\* An output with its final name is not touched by its wrapper again.
OutputsOver == \A r \in Runs : output[r] = "final" => pc[r] \in Over

\* What a reader has listed is there, or was cleaned away at its age.
ListedThere ==
    /\ \A r \in reader.listed : meta[r] = "final" \/ MetaCleaned(r)
    /\ reader.pc = "viewing" => \A r \in reader.todo :
          /\ r \in reader.listed
          /\ pc[r] \in Over
          /\ output[r] = "final" \/ OutputCleaned(r)

\* And so was the file a reader died of.
DiedOfCleanup ==
    reader.pc = "crashed" =>
        \E r \in reader.listed :
            \/ reader.missed = <<"meta", r>> /\ MetaCleaned(r)
            \/ /\ reader.missed = <<"output", r>>
               /\ pc[r] \in Over /\ OutputCleaned(r)

CrashInv == VerdictInv /\ OutputsOver /\ ListedThere /\ DiedOfCleanup

\* Once old enough, always old enough.
LEMMA AgedStays ==
    ASSUME TypeOK, [Next]_vars, NEW r \in Runs, WrapInv(r), NEW t \in Int,
           data'[r] = data[r], Aged(r, t)
    PROVE  t # None /\ now' - t > Keep[data'[r].name]
<1>1. now \in Int /\ Keep[data[r].name] \in Int
  BY RunTypes DEF WrapInv
<1>2. now' \in Int /\ now <= now'
  BY <1>1, ClockAdvances
<1>3. QED
  BY <1>1, <1>2 DEF Aged

\* After its record is published, only cleanup takes a file of an execution,
\* and only one of its age; the output alone may still be written.
LEMMA FilesGoAged ==
    ASSUME WrapInvs, [Next]_vars, NEW r \in Runs, pc[r] \in Published
    PROVE  /\ mtime'[r].meta = mtime[r].meta
           /\ meta'[r] # meta[r] => Aged(r, mtime[r].meta)
           /\ pc[r] \in Over =>
                /\ pc'[r] \in Over
                /\ mtime'[r] = mtime[r]
                /\ \/ output'[r] = output[r]
                   \/ output'[r] = "absent" /\ Aged(r, mtime[r].output)
<1>1. /\ TypeOK
      /\ pc \in [Runs -> WrapPhases]
      /\ meta \in [Runs -> FileStates]
      /\ output \in [Runs -> FileStates]
      /\ mtime \in [Runs -> [meta : Times \cup {None},
                        output : Times \cup {None}]]
      /\ WrapInv(r)
  BY DEF WrapInvs, TypeOK
<1>2. CASE Wrap(r)
  <2>1. /\ pc[r] \notin Over
        /\ mtime'[r].meta = mtime[r].meta
    BY <1>1, <1>2
    DEF Wrap, WrapStep, StartWrap, Run, RunFails, Finish, CheckRun, WriteMeta,
        RenameMeta, WriteOutput, RenameOutput, Crash, Published, Over, files
  <2>2. meta'[r] = meta[r]
    BY <1>1, <1>2
    DEF Wrap, WrapStep, StartWrap, Run, RunFails, Finish, CheckRun, WriteMeta,
        RenameMeta, WriteOutput, RenameOutput, Crash, Published, files
  <2>3. QED
    BY <2>1, <2>2
<1>3. CASE Cleanup(r)
  BY <1>1, <1>3 DEF Cleanup, CleanMeta, CleanOutput, env
<1>4. CASE ~Wrap(r) /\ ~Cleanup(r)
  BY <1>1, <1>4, OthersLeaveUntouched DEF Untouched
<1>5. QED
  BY <1>2, <1>3, <1>4

\* Only its own wrapper publishes an output.
LEMMA OutputsOverStep ==
    ASSUME WrapInvs, OutputsOver, [Next]_vars PROVE OutputsOver'
<1> SUFFICES ASSUME NEW r \in Runs, output'[r] = "final"
             PROVE  pc'[r] \in Over
  BY DEF OutputsOver
<1>1. /\ TypeOK
      /\ pc \in [Runs -> WrapPhases]
      /\ output \in [Runs -> FileStates]
      /\ output[r] = "final" => pc[r] \in Over
  BY DEF WrapInvs, TypeOK, OutputsOver
<1>2. CASE Wrap(r)
  BY <1>1, <1>2
  DEF Wrap, WrapStep, StartWrap, Run, RunFails, Finish, CheckRun, WriteMeta,
      RenameMeta, WriteOutput, RenameOutput, Crash, Over, Goto, files
<1>3. CASE Cleanup(r)
  BY <1>1, <1>3 DEF Cleanup, CleanMeta, CleanOutput, env
<1>4. CASE ~Wrap(r) /\ ~Cleanup(r)
  BY <1>1, <1>4, OthersLeaveUntouched DEF Untouched
<1>5. QED
  BY <1>2, <1>3, <1>4

\* While the reader waits, files only go at their age.
LEMMA CrashWait ==
    ASSUME CrashInv, [Next]_vars, reader' = reader
    PROVE  ListedThere' /\ DiedOfCleanup'
<1>1. reader.listed \subseteq Runs /\ WrapInvs /\ TypeOK
  BY DEF CrashInv, VerdictInv, WrapInvs, TypeOK, Readers
<1>2. ASSUME NEW r \in reader.listed
      PROVE  /\ r \in Runs /\ WrapInv(r) /\ pc[r] \in Published
             /\ data'[r] = data[r]
             /\ mtime[r].meta \in Int /\ mtime[r].output \in Int
  BY <1>1, RunTypes, PublishedStays
  DEF CrashInv, VerdictInv, WrapInvs, ReaderInv
<1>3. ASSUME NEW r \in reader.listed, MetaCleaned(r)
      PROVE  MetaCleaned(r)'
  <2>1. meta'[r] = "absent" /\ mtime'[r].meta = mtime[r].meta
    BY <1>1, <1>2, <1>3, PublishedStays, FilesGoAged DEF MetaCleaned
  <2>2. mtime[r].meta # None /\ now' - mtime[r].meta > Keep[data'[r].name]
    BY <1>1, <1>2, <1>3, AgedStays DEF MetaCleaned
  <2>3. QED
    BY <2>1, <2>2 DEF MetaCleaned, Aged
<1>4. ASSUME NEW r \in reader.listed, meta[r] = "final"
      PROVE  meta'[r] = "final" \/ MetaCleaned(r)'
  <2>1. CASE meta'[r] = meta[r]
    BY <1>4, <2>1
  <2>2. CASE meta'[r] # meta[r]
    <3>1. /\ meta'[r] = "absent" /\ mtime'[r].meta = mtime[r].meta
          /\ Aged(r, mtime[r].meta)
      BY <1>1, <1>2, <2>2, PublishedStays, FilesGoAged
    <3>2. mtime[r].meta # None /\ now' - mtime[r].meta > Keep[data'[r].name]
      BY <1>1, <1>2, <3>1, AgedStays
    <3>3. QED
      BY <3>1, <3>2 DEF MetaCleaned, Aged
  <2>3. QED
    BY <2>1, <2>2
<1>5. ASSUME NEW r \in reader.listed, pc[r] \in Over,
             output[r] = "final" \/ OutputCleaned(r)
      PROVE  /\ pc'[r] \in Over
             /\ \/ output'[r] = output[r] /\ output[r] = "final"
                \/ OutputCleaned(r)'
  <2>1. /\ pc'[r] \in Over
        /\ mtime'[r] = mtime[r]
        /\ \/ output'[r] = output[r]
           \/ output'[r] = "absent" /\ Aged(r, mtime[r].output)
    BY <1>1, <1>2, <1>5, FilesGoAged
  <2>2. CASE output[r] = "final" /\ output'[r] = output[r]
    BY <2>1, <2>2
  <2>3. CASE output'[r] = "absent" /\ Aged(r, mtime[r].output)
    <3>1. /\ mtime[r].output # None
          /\ now' - mtime[r].output > Keep[data'[r].name]
      BY <1>1, <1>2, <2>3, AgedStays
    <3>2. QED
      BY <2>1, <2>3, <3>1 DEF OutputCleaned, Aged
  <2>4. QED
    BY <1>5, <2>1, <2>2, <2>3 DEF OutputCleaned
<1>6. ListedThere'
  BY <1>3, <1>4, <1>5 DEF CrashInv, ListedThere
<1>7. DiedOfCleanup'
  <2>1. ASSUME NEW r \in reader.listed, pc[r] \in Over, OutputCleaned(r)
        PROVE  pc'[r] \in Over /\ OutputCleaned(r)'
    BY <1>5, <2>1 DEF OutputCleaned
  <2>2. QED
    BY <1>3, <2>1 DEF CrashInv, DiedOfCleanup
<1>8. QED
  BY <1>6, <1>7

\* The reader dies only of a record it listed, or of an output it found.
LEMMA CrashRead ==
    ASSUME CrashInv, Reader PROVE ListedThere' /\ DiedOfCleanup'
<1>1. /\ TypeOK /\ reader \in Readers /\ reader.listed \subseteq Runs
      /\ reader.loaded \subseteq reader.listed
      /\ output \in [Runs -> FileStates]
      /\ \A r \in reader.listed : meta[r] = "final" \/ MetaCleaned(r)
  BY DEF CrashInv, VerdictInv, WrapInvs, ReaderInv, TypeOK, Readers, ListedThere
<1>2. UNCHANGED <<now, pc, data, meta, output, mtime>>
  BY ReaderOnlyReads DEF env, files
<1>3. \A r : /\ MetaCleaned(r)' <=> MetaCleaned(r)
             /\ OutputCleaned(r)' <=> OutputCleaned(r)
  BY <1>2 DEF MetaCleaned, OutputCleaned, Aged
<1>4. ASSUME NEW mode \in Modes, NEW names \in ReaderArgs,
             ReaderStart(mode, names)
      PROVE  ListedThere' /\ DiedOfCleanup'
  BY <1>2, <1>4, ReaderStarts DEF ListedThere, DiedOfCleanup
<1>5. ASSUME reader'.listed = reader.listed,
             reader'.pc \notin {"viewing", "crashed"}
      PROVE  ListedThere' /\ DiedOfCleanup'
  BY <1>1, <1>2, <1>3, <1>5 DEF ListedThere, DiedOfCleanup
<1>6. ASSUME NEW r \in Runs, ReaderLoad(r), reader'.listed = reader.listed
      PROVE  ListedThere' /\ DiedOfCleanup'
  <2>1. /\ reader.pc = "loading" /\ r \in reader.todo
        /\ \/ reader'.pc = "loading"
           \/ /\ meta[r] # "final" /\ reader'.pc = "crashed"
              /\ reader'.missed = <<"meta", r>>
    BY <1>1, <1>6 DEF ReaderLoad, Readers
  <2>2. r \in reader.listed
    BY <2>1 DEF CrashInv, VerdictInv, ReaderInv
  <2>3. QED
    BY <1>1, <1>2, <1>3, <1>6, <2>1, <2>2 DEF ListedThere, DiedOfCleanup
<1>7. ASSUME ReaderListChecks, reader'.listed = reader.listed,
             reader'.pc = IF reader.mode = "check" THEN "checking"
                          ELSE "viewing"
      PROVE  ListedThere' /\ DiedOfCleanup'
  <2>1. reader'.todo = {}
    BY <1>1, <1>7 DEF ReaderListChecks, Readers
  <2>2. QED
    BY <1>1, <1>2, <1>3, <1>7, <2>1 DEF ListedThere, DiedOfCleanup
<1>8. ASSUME reader'.listed = reader.listed,
             \A q \in reader'.todo :
                /\ q \in reader.listed
                /\ pc[q] \in Over
                /\ output[q] = "final" \/ OutputCleaned(q)
      PROVE  ListedThere'
  BY <1>1, <1>2, <1>3, <1>8 DEF ListedThere
<1>9. ASSUME NEW j \in Jobs, SelectJob(j), reader'.listed = reader.listed
      PROVE  ListedThere' /\ DiedOfCleanup'
  <2>1. PICK last \in IF RecordsOf(j) = {} THEN {{}}
                      ELSE {{r} : r \in Newest(j)} :
          reader' = [reader EXCEPT
                       !.pending = @ \ {j},
                       !.todo = @ \cup {r \in last :
                                  /\ output[r] = "final"
                                  /\ \/ reader.mode = "lastlog"
                                     \/ data[r].exit_status # 0}]
    BY <1>9 DEF SelectJob
  <2>2. last \subseteq reader.listed
    BY <1>1, <2>1 DEF Newest, RecordsOf
  <2>3. /\ reader.pc = "viewing" /\ reader'.pc = "viewing"
        /\ \A r \in reader'.todo :
              r \in reader.todo \/ (r \in reader.listed /\ output[r] = "final")
    BY <1>1, <1>9, <2>1, <2>2 DEF SelectJob, Readers
  <2>4. \A r \in reader'.todo :
          /\ r \in reader.listed
          /\ pc[r] \in Over
          /\ output[r] = "final" \/ OutputCleaned(r)
    BY <1>1, <2>3 DEF CrashInv, ListedThere, OutputsOver
  <2>5. ListedThere'
    BY <1>9, <2>4, <1>8
  <2>6. QED
    BY <2>3, <2>5 DEF DiedOfCleanup
<1>10. ASSUME NEW r \in Runs, ReaderShow(r), reader'.listed = reader.listed
      PROVE  ListedThere' /\ DiedOfCleanup'
  <2>1. /\ reader.pc = "viewing" /\ r \in reader.todo
        /\ reader'.todo \subseteq reader.todo
        /\ \/ reader'.pc = "viewing"
           \/ /\ output[r] # "final" /\ reader'.pc = "crashed"
              /\ reader'.missed = <<"output", r>>
    BY <1>1, <1>10 DEF ReaderShow, Readers
  <2>2. \A q \in reader.todo :
          /\ q \in reader.listed
          /\ pc[q] \in Over
          /\ output[q] = "final" \/ OutputCleaned(q)
    BY <2>1 DEF CrashInv, ListedThere
  <2>3. ListedThere'
    BY <1>10, <2>1, <2>2, <1>8
  <2>4. reader'.pc = "crashed" => /\ OutputCleaned(r)
                                  /\ reader'.missed = <<"output", r>>
    BY <2>1, <2>2
  <2>5. r \in reader'.listed /\ pc'[r] \in Over
        /\ (OutputCleaned(r)' <=> OutputCleaned(r))
    BY <1>2, <1>10, <2>1, <2>2 DEF OutputCleaned, Aged
  <2>6. QED
    BY <2>3, <2>4, <2>5 DEF DiedOfCleanup
<1>11. ASSUME ReaderEnd, reader'.listed = reader.listed
       PROVE  ListedThere' /\ DiedOfCleanup'
  <2>1. reader'.pc = "done"
    BY <1>1, <1>11 DEF ReaderEnd, Readers
  <2>2. QED
    BY <1>5, <1>11, <2>1
<1>12. QED
  BY <1>1, <1>4, <1>5, <1>6, <1>7, <1>9, <1>10, <1>11, ReaderGoesOn

\* The file a reader dies of had been there, was due, and went to cleanup.
THEOREM ReadersDieOfCleanup == Spec => []CrashOnlyByCleanup
<1>1. Init => CrashInv
  <2> SUFFICES ASSUME Init PROVE OutputsOver /\ ListedThere /\ DiedOfCleanup
    BY VerdictInit DEF CrashInv
  <2>1. reader.pc = "idle" /\ reader.listed = {}
    BY DEF Init, NoReader
  <2>2. QED
    BY <2>1 DEF Init, OutputsOver, ListedThere, DiedOfCleanup
<1>2. CrashInv /\ [Next]_vars => CrashInv'
  <2> SUFFICES ASSUME CrashInv, [Next]_vars PROVE CrashInv'
    OBVIOUS
  <2>1. VerdictInv' /\ OutputsOver'
    BY VerdictStep, OutputsOverStep DEF CrashInv, VerdictInv
  <2>2. ListedThere' /\ DiedOfCleanup'
    BY CrashRead, CrashWait, ReaderAlone
  <2>3. QED
    BY <2>1, <2>2 DEF CrashInv
<1>3. CrashInv => CrashOnlyByCleanup
  BY DEF CrashInv, DiedOfCleanup, CrashOnlyByCleanup, MetaCleaned,
         OutputCleaned
<1>4. QED
  BY <1>1, <1>2, <1>3, PTL DEF Spec
-----------------------------------------------------------------------------
(***************************************************************************)
(* No job is overlooked                                                    *)
(***************************************************************************)
\* The first entry of a list of four that is among the levels is found.
LEMMA FirstFound ==
    ASSUME NEW order, NEW levels, \E i \in 1..4 : order[i] \in levels,
           NEW first,
           first = CHOOSE i \in 1..4 : /\ order[i] \in levels
                                      /\ \A k \in 1..(i-1) : order[k] \notin levels
    PROVE  /\ first \in 1..4
           /\ order[first] \in levels
           /\ \A k \in 1..(first-1) : order[k] \notin levels
<1> DEFINE P(i) == /\ order[i] \in levels
                   /\ \A k \in 1..(i-1) : order[k] \notin levels
<1>1. CASE order[1] \in levels
  <2>1. P(1) /\ 1 \in 1..4
    BY <1>1
  <2>2. QED
    BY <2>1
<1>2. CASE order[1] \notin levels /\ order[2] \in levels
  <2>1. \A k \in 1..(2-1) : k = 1
    OBVIOUS
  <2>2. P(2) /\ 2 \in 1..4
    BY <1>2, <2>1
  <2>3. QED
    BY <2>2
<1>3. CASE order[1] \notin levels /\ order[2] \notin levels
           /\ order[3] \in levels
  <2>1. \A k \in 1..(3-1) : k = 1 \/ k = 2
    OBVIOUS
  <2>2. P(3) /\ 3 \in 1..4
    BY <1>3, <2>1
  <2>3. QED
    BY <2>2
<1>4. CASE order[1] \notin levels /\ order[2] \notin levels
           /\ order[3] \notin levels
  <2>1. \A k \in 1..(4-1) : k = 1 \/ k = 2 \/ k = 3
    OBVIOUS
  <2>2. order[4] \in levels
    <3>1. \A i \in 1..4 : i = 1 \/ i = 2 \/ i = 3 \/ i = 4
      OBVIOUS
    <3>2. QED
      BY <1>4, <3>1
  <2>3. P(4) /\ 4 \in 1..4
    BY <1>4, <2>1, <2>2
  <2>4. QED
    BY <2>3
<1>5. QED
  BY <1>1, <1>2, <1>3, <1>4

\* A single name is reported as it is.
LEMMA AggregateOne ==
    ASSUME NEW level \in Levels
    PROVE  AggregateStatus(1, {level}) = level
<1> DEFINE order == <<"OK", "WARNING", "CRITICAL", "UNKNOWN">>
           first == CHOOSE i \in 1..4 :
                      /\ order[i] \in {level}
                      /\ \A k \in 1..(i-1) : order[k] \notin {level}
<1>1. \E i \in 1..4 : order[i] \in {level}
  <2>1. order[1] = "OK" /\ order[2] = "WARNING" /\ order[3] = "CRITICAL"
        /\ order[4] = "UNKNOWN"
    OBVIOUS
  <2>2. 1 \in 1..4 /\ 2 \in 1..4 /\ 3 \in 1..4 /\ 4 \in 1..4
    OBVIOUS
  <2> HIDE DEF order
  <2>3. QED
    BY <2>1, <2>2 DEF Levels
<1>2. order[first] \in {level}
  <2> HIDE DEF order
  <2>1. QED
    BY <1>1, FirstFound
<1>3. DOMAIN order = 1..4
  OBVIOUS
<1>4. AggregateStatus(1, {level}) = order[first]
  BY <1>1, <1>3 DEF AggregateStatus
<1>5. QED
  BY <1>2, <1>4

\* Among several names the worst counts: OK is the last of the list.
LEMMA AggregateSeveral ==
    ASSUME NEW num, num # 1, NEW levels \in SUBSET Levels
    PROVE  /\ AggregateStatus(num, levels) \in Levels
           /\ AggregateStatus(num, levels) = "OK" => levels \subseteq {"OK"}
<1> DEFINE order == <<"CRITICAL", "WARNING", "UNKNOWN", "OK">>
           first == CHOOSE i \in 1..4 :
                      /\ order[i] \in levels
                      /\ \A k \in 1..(i-1) : order[k] \notin levels
<1>1. DOMAIN order = 1..4
  OBVIOUS
<1>2. order[1] = "CRITICAL" /\ order[2] = "WARNING" /\ order[3] = "UNKNOWN"
      /\ order[4] = "OK"
  OBVIOUS
<1>3. CASE \E i \in 1..4 : order[i] \in levels
  <2>1. AggregateStatus(num, levels) = order[first]
    BY <1>1, <1>3 DEF AggregateStatus
  <2>2. /\ first \in 1..4
        /\ order[first] \in levels
        /\ \A k \in 1..(first-1) : order[k] \notin levels
    <3> HIDE DEF order
    <3>1. QED
      BY <1>3, FirstFound
  <2> HIDE DEF order, first
  <2>3. ASSUME order[first] = "OK"
        PROVE  levels \subseteq {"OK"}
    <3>1. first = 4
      BY <1>2, <2>2, <2>3
    <3>2. order[1] \notin levels /\ order[2] \notin levels /\ order[3] \notin levels
      BY <2>2, <3>1
    <3>3. QED
      BY <1>2, <3>2 DEF Levels
  <2>4. QED
    BY <2>1, <2>2, <2>3
<1>4. CASE ~\E i \in 1..4 : order[i] \in levels
  <2>1. AggregateStatus(num, levels) = "UNKNOWN"
    BY <1>1, <1>4 DEF AggregateStatus
  <2>2. QED
    BY <2>1 DEF Levels
<1>5. QED
  BY <1>3, <1>4

\* The jobs a check has a verdict of
Judged == {j \in Jobs : reader.verdict[j] # NoVerdict}

\* Every job that is there to stay is waiting for its verdict or has one.
AllLookedAt ==
    /\ Jobs \ Managed \subseteq ini
    /\ IsFiniteSet(Judged)
    /\ reader.pc = "loading" => Judged = {}
    /\ reader.pc = "checking" =>
         \A j \in reader.names \ Managed : j \in reader.pending \cup Judged

OverlookInv ==
    /\ VerdictInv
    /\ AllLookedAt
    /\ NoJobOverlooked

\* The level of a finished check
LEMMA ReportedLevel ==
    ASSUME OverlookInv, ReaderReport
    PROVE  NoJobOverlooked'
<1> DEFINE levels == {reader.verdict[j] : j \in Judged}
           level  == AggregateStatus(Cardinality(Judged), levels)
<1>1. /\ reader \in Readers /\ IsFiniteSet(Judged)
      /\ reader.pc = "checking" /\ reader.pending = {}
  BY DEF OverlookInv, VerdictInv, WrapInvs, TypeOK, AllLookedAt, ReaderReport
<1>2. /\ reader'.level = level
      /\ reader'.names = reader.names
      /\ reader'.verdict = reader.verdict
  BY <1>1 DEF ReaderReport, Readers, Judged
<1>3. /\ reader.names \subseteq Jobs
      /\ \A j \in Judged : reader.verdict[j] \in Levels
  BY <1>1 DEF Readers, Judged
<1>4. \A j \in reader.names \ Managed : j \in Judged
  BY <1>1 DEF OverlookInv, AllLookedAt
<1>5. /\ level \in Levels
      /\ level = "OK" => \A j \in Judged : reader.verdict[j] = "OK"
  <2>1. CASE Cardinality(Judged) = 1
    <3>1. PICK j : Judged = {j}
      BY <1>1, <2>1, FS_Singleton
    <3>2. levels = {reader.verdict[j]} /\ reader.verdict[j] \in Levels
      BY <1>3, <3>1
    <3>3. level = reader.verdict[j]
      BY <2>1, <3>2, AggregateOne
    <3>4. QED
      BY <3>1, <3>2, <3>3
  <2>2. CASE Cardinality(Judged) # 1
    <3>1. levels \in SUBSET Levels
      BY <1>3
    <3>2. /\ level \in Levels
          /\ level = "OK" => levels \subseteq {"OK"}
      <4> HIDE DEF levels
      <4>1. QED
        BY <2>2, <3>1, AggregateSeveral
    <3>3. QED
      BY <3>2
  <2>3. QED
    BY <2>1, <2>2
<1> HIDE DEF level
<1>6. QED
  BY <1>2, <1>4, <1>5 DEF NoJobOverlooked

\* Each step of the reader puts a job on its list or takes it off with a verdict.
LEMMA OverlookRead ==
    ASSUME OverlookInv, Reader
    PROVE  AllLookedAt' /\ NoJobOverlooked'
<1>1. /\ TypeOK /\ reader \in Readers
      /\ Jobs \ Managed \subseteq ini
      /\ IsFiniteSet(Judged)
  BY DEF OverlookInv, VerdictInv, WrapInvs, TypeOK, AllLookedAt
<1>2. ini' = ini
  BY ReaderOnlyReads DEF env
<1>3. ASSUME reader'.pc # "done" PROVE NoJobOverlooked'
  BY <1>3 DEF NoJobOverlooked
<1>4. ASSUME reader'.verdict = reader.verdict,
             reader'.pc \notin {"loading", "checking"}
      PROVE  AllLookedAt'
  BY <1>1, <1>2, <1>4 DEF AllLookedAt, Judged
<1>5. ASSUME NEW mode \in Modes, NEW names \in ReaderArgs,
             ReaderStart(mode, names)
      PROVE  AllLookedAt' /\ NoJobOverlooked'
  <2>1. Judged' = {}
    BY <1>5, ReaderStarts DEF Judged
  <2>2. IsFiniteSet(Judged')
    BY <2>1, FS_EmptySet
  <2>3. QED
    BY <1>1, <1>2, <1>3, <1>5, <2>1, <2>2, ReaderStarts DEF AllLookedAt
<1>6. ASSUME NEW r \in Runs, ReaderLoad(r),
             reader'.pc \in {"loading", "crashed"}
      PROVE  AllLookedAt' /\ NoJobOverlooked'
  <2>1. reader'.verdict = reader.verdict /\ reader.pc = "loading"
    BY <1>1, <1>6 DEF ReaderLoad, Readers
  <2>2. Judged' = Judged
    BY <2>1 DEF Judged
  <2>3. QED
    BY <1>1, <1>2, <1>3, <1>6, <2>1, <2>2 DEF OverlookInv, AllLookedAt
<1>7. ASSUME ReaderListChecks, reader'.names = reader.names,
             reader'.verdict = reader.verdict,
             reader'.pc = IF reader.mode = "check" THEN "checking"
                          ELSE "viewing"
      PROVE  AllLookedAt' /\ NoJobOverlooked'
  <2>1. Judged' = Judged
    BY <1>7 DEF Judged
  <2>2. reader'.pending =
          {j \in Jobs : RecordsOf(j) # {}}
          \cup ((reader.names \cap ini) \ {j \in Jobs : RecordsOf(j) # {}})
    BY <1>1, <1>7 DEF ReaderListChecks, Readers
  <2>3. reader.names \subseteq Jobs
    BY <1>1 DEF Readers
  <2>4. \A j \in reader.names \ Managed : j \in reader'.pending
    BY <1>1, <2>2, <2>3
  <2>5. QED
    BY <1>1, <1>2, <1>3, <1>7, <2>1, <2>4 DEF AllLookedAt
<1>8. ASSUME NEW j \in Jobs, CheckJob(j), reader'.names = reader.names,
             reader'.pc = "checking"
      PROVE  AllLookedAt' /\ NoJobOverlooked'
  <2>1. PICK level :
           /\ level \in Levels
           /\ reader' = [reader EXCEPT !.pending = @ \ {j}, !.verdict[j] = level]
    <3>1. PICK job : reader' =
            [reader EXCEPT
               !.pending = @ \ {j},
               !.verdict[j] =
                  IF j \in ini
                  THEN JobCheck(LoadCheck(OkCriteria[j], WarnCriteria[j], FALSE),
                                job, now, exists)
                  ELSE "UNKNOWN"]
      BY <1>8 DEF CheckJob
    <3>2. /\ JobCheck(LoadCheck(OkCriteria[j], WarnCriteria[j], FALSE),
                      job, now, exists) \in Levels
          /\ "UNKNOWN" \in Levels
      BY JobCheckLevel DEF Levels
    <3>3. QED
      BY <3>1, <3>2
  <2>2. /\ reader'.pending = reader.pending \ {j}
        /\ reader'.verdict = [reader.verdict EXCEPT ![j] = level]
        /\ reader.pc = "checking"
    BY <1>1, <1>8, <2>1 DEF CheckJob, Readers
  <2>3. level # NoVerdict
    BY <2>1 DEF Levels, NoVerdict
  <2>4. Judged' = Judged \cup {j}
    BY <1>1, <2>2, <2>3 DEF Judged, Readers
  <2>5. IsFiniteSet(Judged')
    BY <1>1, <2>4, FS_AddElement
  <2>6. QED
    BY <1>1, <1>2, <1>3, <1>8, <2>2, <2>4, <2>5 DEF OverlookInv, AllLookedAt
<1>9. ASSUME ReaderReport, reader'.verdict = reader.verdict,
             reader'.pc = "done"
      PROVE  AllLookedAt' /\ NoJobOverlooked'
  BY <1>4, <1>9, ReportedLevel
<1>10. ASSUME reader.pc = "viewing", reader'.mode = reader.mode,
              \/ \E j \in Jobs : SelectJob(j)
              \/ \E r \in Runs : ReaderShow(r)
              \/ ReaderEnd
       PROVE  AllLookedAt' /\ NoJobOverlooked'
  <2>1. /\ reader'.verdict = reader.verdict
        /\ reader'.pc \in {"viewing", "crashed", "done"}
    BY <1>1, <1>10 DEF SelectJob, ReaderShow, ReaderEnd, Readers
  <2>2. reader'.mode # "check"
    BY <1>10 DEF OverlookInv, VerdictInv, ReaderInv
  <2>3. QED
    BY <1>4, <2>1, <2>2 DEF NoJobOverlooked
<1>11. QED
  BY <1>1, <1>5, <1>6, <1>7, <1>8, <1>9, <1>10, ReaderGoesOn

\* Puppet takes no check file but those of managed jobs, and nothing else
\* matters to what the reader has found.
LEMMA OverlookStep == OverlookInv /\ [Next]_vars => OverlookInv'
<1> SUFFICES ASSUME OverlookInv, [Next]_vars PROVE OverlookInv'
  OBVIOUS
<1>1. VerdictInv'
  BY VerdictStep DEF OverlookInv
<1>2. CASE Reader
  BY <1>1, <1>2, OverlookRead DEF OverlookInv
<1>3. CASE ~Reader
  <2>1. reader' = reader
    BY <1>3, ReaderAlone
  <2>2. Jobs \ Managed \subseteq ini'
    BY <1>3
    DEF OverlookInv, AllLookedAt, Next, Wrap, WrapStep, StartWrap, Run,
        RunFails, Finish, CheckRun, WriteMeta, RenameMeta, WriteOutput,
        RenameOutput, Crash, Cleanup, CleanMeta, CleanOutput, Puppet,
        InstallCheck, InstallCron, RemoveCheck, RemoveCron, Toggle, Tick,
        vars, env
  <2>3. Judged' = Judged
    BY <2>1 DEF Judged
  <2>4. AllLookedAt' /\ NoJobOverlooked'
    BY <2>1, <2>2, <2>3 DEF OverlookInv, AllLookedAt, NoJobOverlooked
  <2>5. QED
    BY <1>1, <2>4 DEF OverlookInv
<1>4. QED
  BY <1>2, <1>3

\* At the start, no job has been looked at.
LEMMA OverlookInit == Init => OverlookInv
<1> SUFFICES ASSUME Init PROVE AllLookedAt /\ NoJobOverlooked
  BY VerdictInit DEF OverlookInv
<1>1. /\ ini = Jobs /\ reader.pc = "idle"
      /\ reader.verdict = [j \in Jobs |-> NoVerdict]
  BY DEF Init, NoReader
<1>2. Judged = {}
  BY <1>1 DEF Judged
<1>3. QED
  BY <1>1, <1>2, FS_EmptySet DEF AllLookedAt, NoJobOverlooked

\* A check ends in a level, and in OK only if every job it was to look at, and
\* Puppet leaves alone, is OK.
THEOREM NoJobIsOverlooked == Spec => []NoJobOverlooked
<1>1. OverlookInv => NoJobOverlooked
  BY DEF OverlookInv
<1>2. QED
  BY <1>1, OverlookInit, OverlookStep, PTL DEF Spec
-----------------------------------------------------------------------------
(***************************************************************************)
(* Only news improves a verdict                                            *)
(***************************************************************************)
\* No criterion asks for an execution to be old: that one would be met in time.
AgesCount ==
    \A j \in Jobs : \A c \in OkCriteria[j] \cup WarnCriteria[j] :
        c.what = "max_age" => ~c.negate

\* What time takes from a criterion it does not give back.
LEMMA FulfilledBefore ==
    ASSUME NEW c \in Criterion, c.what = "max_age" => ~c.negate,
           NEW job, job.end_time \in Int, NEW there,
           NEW early \in Int, NEW late \in Int, early <= late,
           Fulfilled(c, job, late, there)
    PROVE  Fulfilled(c, job, early, there)
<1>1. CASE c.what = "max_age"
  <2>1. c.value \in Int
    BY DEF Criterion
  <2>2. job.end_time # None /\ job.end_time > Ago(c.value, late)
    BY <1>1 DEF Fulfilled
  <2>3. /\ Ago(c.value, early) \in Int /\ Ago(c.value, late) \in Int
        /\ Ago(c.value, early) <= Ago(c.value, late)
    BY <2>1, AgoAdvances
  <2>4. job.end_time > Ago(c.value, early)
    BY <2>2, <2>3
  <2>5. QED
    BY <1>1, <2>2, <2>4 DEF Fulfilled
<1>2. CASE c.what # "max_age"
  BY <1>2 DEF Fulfilled
<1>3. QED
  BY <1>1, <1>2

\* Nor does a line of a check file come true by time passing.
LEMMA EvaluateBefore ==
    ASSUME NEW criteria \in SUBSET Criterion,
           \A c \in criteria : c.what = "max_age" => ~c.negate,
           NEW job, job.end_time \in Int, NEW there,
           NEW early \in Int, NEW late \in Int, early <= late,
           Evaluate(criteria, job, late, there)
    PROVE  Evaluate(criteria, job, early, there)
<1>1. \A c \in criteria : Fulfilled(c, job, late, there)
                             => Fulfilled(c, job, early, there)
  BY FulfilledBefore
<1>2. QED
  BY <1>1 DEF Evaluate

\* So that the level of one and the same record can only get worse.
LEMMA LevelBefore ==
    ASSUME AgesCount, NEW j \in Jobs, NEW job, job.end_time \in Int, NEW there,
           NEW early \in Int, NEW late \in Int, early <= late
    PROVE  LET check == LoadCheck(OkCriteria[j], WarnCriteria[j], FALSE)
           IN  Severity(JobCheck(check, job, early, there))
                  <= Severity(JobCheck(check, job, late, there))
<1> DEFINE check == LoadCheck(OkCriteria[j], WarnCriteria[j], FALSE)
<1>1. StoredStatusOk \in Criterion /\ StoredStatusOk.what # "max_age"
  BY DEF StoredStatusOk, Criterion, AndCriteria, OrCriteria
<1>2. /\ check.ok \subseteq OkCriteria[j] \cup {StoredStatusOk}
      /\ check.warning \subseteq WarnCriteria[j] \cup {StoredStatusOk}
  BY DEF LoadCheck, ParseCriteria
<1>3. /\ check.ok \in SUBSET Criterion
      /\ check.warning \in SUBSET Criterion
      /\ \A c \in check.ok \cup check.warning : c.what = "max_age" => ~c.negate
  BY <1>1, <1>2, CriteriaAssumption DEF AgesCount
<1> HIDE DEF check
<1>4. /\ Evaluate(check.ok, job, late, there)
           => Evaluate(check.ok, job, early, there)
      /\ Evaluate(check.warning, job, late, there)
           => Evaluate(check.warning, job, early, there)
  BY <1>3, EvaluateBefore
<1>5. Severity("OK") = 0 /\ Severity("WARNING") = 1 /\ Severity("CRITICAL") = 2
  BY DEF Severity
<1>6. Severity(JobCheck(check, job, early, there))
         <= Severity(JobCheck(check, job, late, there))
  BY <1>4, <1>5 DEF JobCheck
<1>7. QED
  BY <1>6 DEF check

\* A step that publishes no record of a job and takes none of its newest leaves
\* what a check of that job would look at.
LEMMA NewestStays ==
    ASSUME WrapInvs, [Next]_vars, NEW j \in Jobs,
           ~\E r \in Runs : /\ data[r].name = j
                            /\ meta[r] # "final" /\ meta'[r] = "final",
           ~\E r \in NewestPublished(j) : meta'[r] = "absent"
    PROVE  /\ PublishedOf(j) = {} => PublishedOf(j)' = {}
           /\ \A r \in NewestPublished(j) :
                r \in NewestPublished(j)' /\ data'[r] = data[r]
<1>1. TypeOK /\ TypeOK' /\ \A r \in Runs : WrapInv(r) /\ WrapInv(r)'
  BY TypeStep, WrapInvStep DEF WrapInvs
<1>2. \A r \in Runs : data'[r].name = data[r].name
  BY <1>1 DEF WrapInv
<1>3. \A r \in PublishedOf(j) :
        data'[r] = data[r] /\ meta'[r] \in {"final", "absent"}
  BY <1>1, PublishedStays DEF PublishedOf, WrapInv
<1>4. \A r \in Runs : r \in PublishedOf(j)' => r \in PublishedOf(j)
  BY <1>2 DEF PublishedOf
<1>5. PublishedOf(j)' \subseteq PublishedOf(j)
  BY <1>4 DEF PublishedOf
<1>6. ASSUME NEW r \in NewestPublished(j)
      PROVE  r \in NewestPublished(j)' /\ data'[r] = data[r]
  <2>1. r \in PublishedOf(j) /\ data'[r] = data[r] /\ meta'[r] = "final"
    BY <1>3 DEF NewestPublished
  <2>2. r \in PublishedOf(j)'
    BY <2>1 DEF PublishedOf
  <2>3. \A s \in PublishedOf(j)' : data'[s].start_time <= data'[r].start_time
    BY <1>3, <1>5, <2>1 DEF NewestPublished
  <2>4. QED
    BY <2>1, <2>2, <2>3 DEF NewestPublished
<1>7. QED
  BY <1>5, <1>6

\* If no criterion asks for an execution to be old, the verdict of a job gets
\* better by a new record, a disable file or the loss of its newest record, and
\* by nothing else.
THEOREM NewsOnlyImproves == ASSUME AgesCount PROVE Spec => OnlyNewsImproves
<1> DEFINE Better(j) ==
      \/ \E r \in Runs : /\ data[r].name = j
                         /\ meta[r] # "final" /\ meta'[r] = "final"
      \/ \E r \in NewestPublished(j) : meta'[r] = "absent"
      \/ exists' # exists
      \/ \A v \in VerdictsNow(j) : \E w \in VerdictsNow(j)' :
            Severity(v) <= Severity(w)
<1>1. ASSUME WrapInvs, [Next]_vars, NEW j \in Jobs PROVE Better(j)
  <2> DEFINE check == LoadCheck(OkCriteria[j], WarnCriteria[j], FALSE)
  <2> SUFFICES ASSUME ~\E r \in Runs : /\ data[r].name = j
                                       /\ meta[r] # "final" /\ meta'[r] = "final",
                      ~\E r \in NewestPublished(j) : meta'[r] = "absent",
                      exists' = exists,
                      NEW v \in VerdictsNow(j)
               PROVE  \E w \in VerdictsNow(j)' : Severity(v) <= Severity(w)
    OBVIOUS
  <2>1. PICK job \in IF PublishedOf(j) = {} THEN {NeverRun(j)}
                     ELSE {data[r] : r \in NewestPublished(j)} :
               v = JobCheck(check, job, now, exists)
    BY DEF VerdictsNow
  <2>2. job \in IF PublishedOf(j)' = {} THEN {NeverRun(j)}
                ELSE {data'[r] : r \in NewestPublished(j)'}
    <3>1. CASE PublishedOf(j) = {}
      BY <1>1, <2>1, <3>1, NewestStays
    <3>2. CASE PublishedOf(j) # {}
      <4>1. PICK r \in NewestPublished(j) : job = data[r]
        BY <2>1, <3>2
      <4>2. r \in NewestPublished(j)' /\ data'[r] = job
        BY <1>1, <4>1, NewestStays
      <4>3. PublishedOf(j)' # {}
        BY <4>2 DEF NewestPublished
      <4>4. QED
        BY <4>2, <4>3
    <3>3. QED
      BY <3>1, <3>2
  <2>3. job.end_time \in Int
    <3>1. NeverRun(j).end_time \in Int
      BY DEF NeverRun, None
    <3>2. \A r \in NewestPublished(j) : r \in Runs
      BY DEF NewestPublished, PublishedOf
    <3>3. QED
      BY <1>1, <2>1, <3>1, <3>2, RunTypes DEF WrapInvs
  <2>4. now \in Int /\ now' \in Int /\ now <= now'
    BY <1>1, ClockAdvances DEF WrapInvs
  <2>5. JobCheck(check, job, now', exists') \in VerdictsNow(j)'
    BY <2>2 DEF VerdictsNow
  <2>6. Severity(JobCheck(check, job, now, exists))
           <= Severity(JobCheck(check, job, now', exists))
    BY <2>3, <2>4, LevelBefore
  <2>7. QED
    BY <2>1, <2>5, <2>6
<1>2. WrapInvs /\ [Next]_vars => [\A j \in Jobs : Better(j)]_vars
  BY <1>1
<1>3. QED
  BY <1>2, WrapInvsHold, PTL DEF Spec, OnlyNewsImproves
-----------------------------------------------------------------------------
(***************************************************************************)
(* No false alarm                                                          *)
(***************************************************************************)
\* A check says OK of the record at that time, with those files there.
OkAt(j, job, time, there) ==
    JobCheck(LoadCheck(OkCriteria[j], WarnCriteria[j], FALSE),
             job, time, there) = "OK"

\* What it would say at this moment
OkNow(j, r) == OkAt(j, data[r], now, exists)

\* The criteria of the job are such that an OK can be lost but not gained.
OkOnlyLost(j) ==
    /\ ~HasOr(j)
    /\ \A c \in OkCriteria[j] : c.what = "max_age" => ~c.negate

\* An alarm has a cause among the records listed, and it is one still.
AlarmHasCause ==
    Checked => \A j \in Jobs \ Managed :
        /\ OkOnlyLost(j)
        /\ \E r \in Runs : LastListed(j, r)
        /\ reader.verdict[j] \notin {"OK", NoVerdict}
        => \E r \in Runs : LastListed(j, r) /\ ~OkNow(j, r)

AlarmInv == OverlookInv /\ AlarmHasCause

LEMMA CauseOfAlarm == AlarmHasCause => NoFalseAlarm
  BY DEF AlarmHasCause, NoFalseAlarm, OkOnlyLost, OkNow, OkAt

\* Without an OR criterion, the files that exist do not matter to an OK, and
\* time can only take it away.
LEMMA OkBefore ==
    ASSUME NEW j \in Jobs, OkOnlyLost(j), NEW job, job.end_time \in Int,
           NEW early \in Int, NEW late \in Int, early <= late,
           NEW there, NEW then,
           OkAt(j, job, late, then)
    PROVE  OkAt(j, job, early, there)
<1> DEFINE check == LoadCheck(OkCriteria[j], WarnCriteria[j], FALSE)
<1>1. StoredStatusOk \in Criterion /\ StoredStatusOk.what = "stored_status"
  BY DEF StoredStatusOk, Criterion, AndCriteria, OrCriteria
<1>2. check.ok \subseteq OkCriteria[j] \cup {StoredStatusOk}
  BY DEF LoadCheck, ParseCriteria
<1>3. OkCriteria[j] \subseteq Criterion
  BY CriteriaAssumption
<1>4. /\ check.ok \in SUBSET Criterion
      /\ \A c \in check.ok : c.what = "max_age" => ~c.negate
      /\ \A c \in check.ok : c.what \notin OrCriteria
  BY <1>1, <1>2, <1>3 DEF OkOnlyLost, HasOr, OrCriteria
<1> HIDE DEF check
<1>5. Evaluate(check.ok, job, late, then)
  BY DEF OkAt, JobCheck, check
<1>6. Evaluate(check.ok, job, early, then)
  BY <1>4, <1>5, EvaluateBefore
<1>7. \A c \in check.ok : Fulfilled(c, job, early, then)
                             => Fulfilled(c, job, early, there)
  BY <1>4 DEF Fulfilled, OrCriteria
<1>8. Evaluate(check.ok, job, early, there)
  BY <1>6, <1>7 DEF Evaluate
<1>9. QED
  BY <1>8 DEF OkAt, JobCheck, check

\* The verdict is on one of the records that count, and not on the absence of
\* one.
LEMMA CheckJobCause ==
    ASSUME AlarmInv, NEW j \in Jobs \ Managed, CheckJob(j),
           \E r \in Runs : LastListed(j, r), reader'.verdict[j] # "OK"
    PROVE  \E r \in Runs : LastListed(j, r) /\ ~OkNow(j, r)
<1>1. PICK job \in IF RecordsOf(j) = {} THEN {NeverRun(j)}
                   ELSE {data[r] : r \in Newest(j)} :
        reader' =
          [reader EXCEPT
             !.pending = @ \ {j},
             !.verdict[j] =
                IF j \in ini
                THEN JobCheck(LoadCheck(OkCriteria[j], WarnCriteria[j], FALSE),
                              job, now, exists)
                ELSE "UNKNOWN"]
  BY DEF CheckJob
<1>2. reader \in Readers /\ j \in ini /\ ReaderInv
  BY DEF AlarmInv, OverlookInv, AllLookedAt, VerdictInv, WrapInvs, TypeOK
<1>3. JobCheck(LoadCheck(OkCriteria[j], WarnCriteria[j], FALSE),
               job, now, exists) # "OK"
  BY <1>1, <1>2 DEF Readers
<1>4. /\ \A s \in reader.listed : data[s].name = j => s \in reader.loaded
      /\ reader.loaded \subseteq reader.listed /\ reader.listed \subseteq Runs
  BY <1>2 DEF ReaderInv, CheckJob, Readers
<1>5. RecordsOf(j) # {}
  BY <1>4 DEF LastListed, RecordsOf
<1>6. PICK r \in Newest(j) : job = data[r]
  BY <1>1, <1>5
<1>7. r \in Runs /\ LastListed(j, r)
  BY <1>4, <1>6 DEF LastListed, Newest, RecordsOf
<1>8. QED
  BY <1>3, <1>6, <1>7 DEF OkNow, OkAt

\* The reader keeps that: only CheckJob gives a verdict.
LEMMA AlarmRead == ASSUME AlarmInv, Reader PROVE AlarmHasCause'
<1>1. /\ TypeOK /\ reader \in Readers /\ ReaderInv
  BY DEF AlarmInv, OverlookInv, VerdictInv, WrapInvs, TypeOK
<1>2. now' = now /\ data' = data /\ exists' = exists
  BY ReaderOnlyReads DEF env
<1>3. ASSUME reader'.listed = reader.listed
      PROVE  \A i, r : /\ LastListed(i, r)' <=> LastListed(i, r)
                       /\ OkNow(i, r)' <=> OkNow(i, r)
  BY <1>2, <1>3 DEF LastListed, OkNow
<1>4. ASSUME reader'.pc \notin {"checking", "done"} \/ reader'.mode # "check"
      PROVE  AlarmHasCause'
  BY <1>4 DEF AlarmHasCause, Checked
<1>5. ASSUME NEW mode \in Modes, NEW names \in ReaderArgs,
             ReaderStart(mode, names)
      PROVE  AlarmHasCause'
  BY <1>4, <1>5, ReaderStarts
<1>6. ASSUME ReaderListChecks, reader'.verdict = reader.verdict
      PROVE  AlarmHasCause'
  <2>1. \A j \in Jobs : reader'.verdict[j] = NoVerdict
    BY <1>1, <1>6 DEF ReaderListChecks, ReaderInv
  <2>2. QED
    BY <2>1 DEF AlarmHasCause
<1>7. ASSUME NEW j \in Jobs, CheckJob(j), reader'.mode = reader.mode,
             reader'.listed = reader.listed
      PROVE  AlarmHasCause'
  <2>1. /\ reader.pc = "checking"
        /\ \A i \in Jobs \ {j} : reader'.verdict[i] = reader.verdict[i]
    BY <1>1, <1>7 DEF CheckJob, Readers
  <2>2. ASSUME Checked', NEW i \in Jobs \ Managed, OkOnlyLost(i),
               \E r \in Runs : LastListed(i, r),
               reader'.verdict[i] \notin {"OK", NoVerdict}
        PROVE  \E r \in Runs : LastListed(i, r) /\ ~OkNow(i, r)
    <3>1. CASE i = j
      BY <1>7, <2>2, <3>1, CheckJobCause
    <3>2. CASE i # j
      <4>1. Checked /\ reader.verdict[i] \notin {"OK", NoVerdict}
        BY <1>7, <2>1, <2>2, <3>2 DEF Checked
      <4>2. QED
        BY <2>2, <4>1 DEF AlarmInv, AlarmHasCause
    <3>3. QED
      BY <3>1, <3>2
  <2>3. QED
    BY <1>3, <1>7, <2>2 DEF AlarmHasCause, OkOnlyLost, HasOr
<1>8. ASSUME ReaderReport, reader'.mode = reader.mode,
             reader'.listed = reader.listed, reader'.verdict = reader.verdict
      PROVE  AlarmHasCause'
  <2>1. Checked' => Checked
    BY <1>8 DEF Checked, ReaderReport
  <2>2. QED
    BY <1>3, <1>8, <2>1 DEF AlarmInv, AlarmHasCause, OkOnlyLost, HasOr
<1>9. ASSUME reader.pc = "viewing", reader'.mode = reader.mode
      PROVE  AlarmHasCause'
  BY <1>1, <1>4, <1>9 DEF ReaderInv
<1>10. QED
  BY <1>1, <1>4, <1>5, <1>6, <1>7, <1>8, <1>9, ReaderGoesOn

\* Nobody else can take the cause away: the records that were listed stay as
\* they are, and no passing of time and no disable file makes them OK.
LEMMA AlarmStep == AlarmInv /\ [Next]_vars => AlarmInv'
<1> SUFFICES ASSUME AlarmInv, [Next]_vars PROVE AlarmInv'
  OBVIOUS
<1>1. OverlookInv'
  BY OverlookStep DEF AlarmInv
<1>2. CASE Reader
  BY <1>1, <1>2, AlarmRead DEF AlarmInv
<1>3. CASE ~Reader
  <2>1. reader' = reader
    BY <1>3, ReaderAlone
  <2>2. /\ WrapInvs /\ TypeOK /\ reader.listed \subseteq Runs
        /\ \A r \in reader.listed : pc[r] \in Published
    BY DEF AlarmInv, OverlookInv, VerdictInv, WrapInvs, TypeOK, Readers, ReaderInv
  <2>3. \A r \in reader.listed : data'[r] = data[r]
    BY <2>2, PublishedStays
  <2>4. \A j \in Jobs : \A r \in Runs : LastListed(j, r)' <=> LastListed(j, r)
    BY <2>1, <2>3 DEF LastListed
  <2>5. ASSUME NEW j \in Jobs, NEW r \in Runs, OkOnlyLost(j),
               LastListed(j, r), ~OkNow(j, r)
        PROVE  ~OkNow(j, r)'
    <3>1. data'[r] = data[r] /\ data[r].end_time \in Int
      BY <2>2, <2>3, <2>5, RunTypes DEF LastListed
    <3>2. now \in Int /\ now' \in Int /\ now <= now'
      BY <2>2, ClockAdvances
    <3>3. \A early, late \in Int : \A there, then :
            early <= late /\ OkAt(j, data[r], late, then)
               => OkAt(j, data[r], early, there)
      BY <2>5, <3>1, OkBefore
    <3>4. OkAt(j, data[r], now', exists') => OkAt(j, data[r], now, exists)
      BY <3>2, <3>3
    <3>5. QED
      BY <2>5, <3>1, <3>4 DEF OkNow
  <2>6. AlarmHasCause'
    BY <2>1, <2>4, <2>5
    DEF AlarmInv, AlarmHasCause, Checked, OkOnlyLost, HasOr
  <2>7. QED
    BY <1>1, <2>6 DEF AlarmInv
<1>4. QED
  BY <1>2, <1>3

\* A job whose last execution on record is OK still has not been called anything
\* else since the check started.
THEOREM NoAlarmIsFalse == Spec => []NoFalseAlarm
<1>1. Init => AlarmInv
  <2> SUFFICES ASSUME Init PROVE AlarmInv
    OBVIOUS
  <2>1. reader.pc = "idle"
    BY DEF Init, NoReader
  <2>2. QED
    BY <2>1, OverlookInit DEF AlarmInv, AlarmHasCause, Checked
<1>2. AlarmInv => NoFalseAlarm
  BY CauseOfAlarm DEF AlarmInv
<1>3. QED
  BY <1>1, <1>2, AlarmStep, PTL DEF Spec

=============================================================================
