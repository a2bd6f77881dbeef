# Verification of puppet-sunet

puppet-sunet is a Puppet module. Puppet itself only says which files, cron jobs
and containers a host has; what happens on the host afterwards is done by some
twenty programs that the module carries along as files and templates. They run
from cron, from systemd or for ever, share directories with each other and with
Puppet, take few locks, and are killed by timeouts and reboots. This project
models those programs, checks the models with TLC and proves theorems about
them with TLAPS.

Paths are given relative to the repository's root (`src/` in PROJECT.json).

## 1. The system

### scriptherder (`files/scriptherder/scriptherder.py`)

Almost every periodic job of a host runs as `scriptherder wrap --name JOB --
command`.

| | |
|---|---|
| State | the data directory (`/var/cache/scriptherder`: per execution a record `JOB__ts-T_pid-P.json` and an output `..._output`), the check directory (`/etc/scriptherder/check/JOB.ini`), both plain directories |
| wrap | sleeps, runs the command, judges the result by those criteria of the check file that can be judged at once, saves record and output, each under a `.tmp` name that is then renamed |
| check | lists and opens the records, adds "never run" jobs for check files without a record, judges the newest record of each name, folds the levels into one Nagios status |
| lastlog, lastfaillog | the same listing, then shows the output of the newest record of each name (if it failed) |
| ls | the same listing, printed as a table |
| Users | cron (through `sunet::scriptherder::cronjob`), NRPE (check), people |

Hard: no process takes a lock. Executions of one job overlap, are killed
between any two system calls, and are read while they are written; a check file
comes and goes with Puppet; the criteria are evaluated twice, at the end of an
execution and at a check, each time leaving some out.

Correct means: a record is seen whole or not at all and never changes; a failed
or stale job is never reported OK; a reader that meets what a killed wrapper
left behind goes on.

### cleanup_scriptherder (`files/scriptherder/cleanup_scriptherder`)

Once a day: for every line of root's crontab that has `--name JOB`, guess the
interval from the five time fields or the special word, turn it into a number
of days, and `find -name 'JOB__*' -mtime +DAYS -delete`. It keeps no state. It
runs against wrappers and readers without a lock. Correct means: it finds all
files of the job and only those, never takes what the next check needs, and
leaves nothing for ever.

### sunet::scriptherder::cronjob (`manifests/scriptherder/cronjob.pp`, `init.pp`)

Installs, for a title, the check file and then the cron line, or removes both
and on request purges the records. `init.pp` has the check file of cosmos with
its disable file `/etc/no-automatic-cosmos`.

### Load balancer (`templates/lb/*.erb`)

* `start-frontend.erb` starts an instance: a lock file shared by all instances,
  taken with a bounded number of retries; a double fork whose grandchild waits
  for docker, configures the network and reports through a pipe.
* `haproxy-start.sh.erb` runs haproxy in its container and reloads it when
  inotify reports a new configuration, after testing a copy of it.
* `frontend-config.erb` computes from the configuration which backends and
  which exabgp announcements (with preferences) an instance has. It keeps no
  state.
* `websites_monitor.py.erb` is run by exabgp. State: per directory of a site
  what its announce file held (`InstanceDir._contents`), and the inotify
  watches. It reads all files, sets the watches, and for each event reads the
  file again and writes its lines to exabgp, which announces them to the
  routers. `websites2_monitor.sh.erb` does the same in shell.
* The announce files are written by `monitor-haproxy`, a program of a container
  image that is not in the repository.

Hard: files are read before a watch is added; events can get lost between two
watches; the list of announced routes has to agree with the files after any
sequence of creations, moves and deletions; whoever holds the lock may die.
Correct means: what the routers see follows the files; a frontend that is up is
preferred to one that is down; each service address has exactly one best place.

### Certificates

* `templates/dehydrated/*`, `files/dehydrated/remove_unused_checks.py`: a
  wrapper with a lock and a timeout per domain, a re-run on change, check files
  made after the first run.
* `files/certbot-sync/*`: the server exports certificates for its clients, the
  clients fetch them with rsync and run deploy hooks when something changed.

Hard: killed between fetch and hook; several files that belong together and are
fetched one by one.

### Registry cleanup (`files/docker_registry2/*`, `templates/docker_registry2/clean_registry_cron.erb`)

| | |
|---|---|
| State | the registry's tags; two files as flags: `/etc/no-automatic-cosmos` (Puppet keeps off), `/read-only` in the container `registry-auth` (Apache lets no writer through) |
| `clean_registry_cron` | once a week, unless the first flag is there: sets both flags, runs the program below and the registry's garbage collection, restarts the registry, clears the flags; `set -e` is not in force, one failing step does not stop the next |
| `clean_registry.py` | calls `registry.py`'s `main_loop` once per policy of the configuration, then for each image no policy speaks of |
| `main_loop` | per image: lists tags, asks for age and manifest of each in a pool of threads, orders them, protects the digests of the tags to keep, deletes the manifests of the others, again in threads |

Hard: the registry deletes manifests, policies speak of tags, and tags share
manifests; any request may fail, and most failures are passed over; requests let
in before the read-only flag take effect after it; no request has a timeout; a
thread that dies takes its answer with it; a kill leaves the flags. Correct
means: what a policy promises to keep is kept; what it does not is deleted; the
flags are cleared.

### Valkey check (`files/valkey/check-valkey-status.py`)

A Nagios check: for each port of the host a TLS connection, AUTH and four
questions; a result (state and issues) per node; the worst of them is the exit
status. It keeps no state beyond one run, but the nodes live on while it asks.
Correct means: trouble that lasts is reported; an alarm names a trouble there
was; the check ends.

### ACME account (`files/certbot/djangoca/generate_acme_key.py`)

Makes an account directory (four files), and a symlink that is at once Puppet's
guard against running it again and the way to the key. Run by Puppet and by
hand, without a lock. Correct means: the guard stands for a whole account;
there is one account; the key printed for the CA is the one the host has.

### Smaller programs with state

* `files/nftables/sunet_nft_container_dnat`: writes a rule file when it differs
  and reloads nftables.
* `templates/backup/restic/backup.sh.erb`: verifies hooks, runs them, backs up,
  prunes, maps the outcome to an exit status.
* `files/knubbis/fleetlock_standalone/*`: backup and restore of the lock server.

### The rest

Monitoring checks that read one state once, wrappers of external backup
programs, Puppet declarations, vendored programs. They are listed, with the
reason for leaving them out, under `components` in PROJECT.json.

### Hazards

PROJECT.json lists under `hazards` what is hard to test in all this, at the
line where it bites, with the properties that would notice. A hazard of a part
that is not modelled says why no property covers it.

## 2. Modules

| Module | Models | Built on |
|---|---|---|
| `ScriptherderCriteria` | pure operators: filtering and evaluating criteria, `Job.check`, aggregation | |
| `Scriptherder` | wrappers, readers, cleanup's deletions, Puppet, operators, the clock | `ScriptherderCriteria` |
| `JobLog` | what the data directory promises: an append-and-expire log | |
| `ScriptherderProofs` | the directory's theorems, refinement included | `Scriptherder`, TLAPS |
| `ScriptherderReaderProofs` | theorems about readers and verdicts | `ScriptherderProofs` |
| `ScriptherderRetention` | how long cleanup keeps records against how often the job runs | |
| `ScriptherderRetentionProofs` | theorems about it | `ScriptherderRetention`, TLAPS |
| `ScriptherderNames` | which file names belong to whom | |
| `ScriptherderNamesProofs` | theorems about it | `ScriptherderNames`, TLAPS |
| `FrontendConfig` | pure operators: the order of the frontends and the preferences of `print_exabgp_announce` | |
| `AnnounceMonitor` | the load balancers of a site: status, announce file, inotify, monitor, what exabgp announces | `FrontendConfig` |
| `SiteRoutes` | what the routers are to see of a site: each load balancer tells its notices, one after the other, address by address | |
| `AnnounceProofs` | theorems about `AnnounceMonitor`, refinement included | `AnnounceMonitor`, TLAPS |
| `DockerRegistry` | the weekly cleanup of a registry: script, program, threads, and the registry with those who push | |
| `DockerRegistryProofs` | theorems about it | `DockerRegistry`, TLAPS |
| `ValkeyStatus` | the check of a host's Valkey nodes, and the nodes | |
| `ValkeyProofs` | theorems about it | `ValkeyStatus`, TLAPS |
| `AcmeKey` | the account script, run by several, killed anywhere | |
| `AccountStore` | what the account script promises: a store of accounts with a guard | |
| `AcmeProofs` | theorems about `AcmeKey`, refinement included | `AcmeKey`, TLAPS |
| `MCScriptherder`, `MCRetention`, `MCNames`, `MCAnnounce`, `MCRegistry`, `MCValkey`, `MCAcme` | instances for TLC | the module of that name |

Each component stands alone: the programs share a host and the way they are
started, not state. Where they do meet - wrappers, readers, cleanup and Puppet
in one data directory; monitor, frontends and exabgp - one module has all of
them.

Operators whose comment begins with "Fault" are variants of the definition they
stand before, wrong the way an edit of the program might be. Nothing uses them;
PROJECT.json (`mutants`) pairs each with the property that has to fail when it
takes the place of the original.

### ScriptherderCriteria

A criterion of a check file is a record `[what, value, negate]`. The code keeps
criteria in lists and uses the order for the wording of messages only, so sets
stand for them. Times are ticks, of which a second has `PerSecond`: a record has
the times of `time.time()`, fractions included, while `max_age` is reckoned from
`int(time.time())` (`Whole`, `Ago`). Output is the set of texts and patterns that
occur in it. `ParseCriteria` keeps the code's asymmetry: the bare
`OR_running` skips the mode filter. `LoadCheck` adds `stored_status=OK` to
*both* lists outside runtime mode. `Fulfilled` keeps `check_OR_running` as it
is written (it asks for an `end_time`, so a never-run job does not count as
running). `AggregateStatus` keeps the two orders of `aggregate_status`: best
level first for a single name, worst first for several, with UNKNOWN below
WARNING.

### Scriptherder

| Variable | Code |
|---|---|
| `now`, `exists` | `time.time()`; the files an `OR_file_exists` names |
| `ini`, `cron` | the check files in `checkdir`; the lines in root's crontab |
| `pc[r]`, `data[r]` | where the wrapper process of execution `r` is; its `Job` object |
| `meta[r]`, `output[r]` | its two files: absent, `.tmp`, or under the final name |
| `mtime[r]` | their modification times, none for a file never written |
| `reader` | one reader process: mode, arguments, what it has listed, loaded, judged, shown |

One action per system call that another process can observe: `StartWrap`,
`Run`, `RunFails`, `Finish`, `CheckRun`, `WriteMeta`, `RenameMeta`,
`WriteOutput`, `RenameOutput` for the wrapper; `ReaderStart` (listing),
`ReaderLoad` (opening one record), `ReaderListChecks`, `CheckJob`,
`ReaderReport`, `SelectJob`, `ReaderShow`, `ReaderEnd` for the readers;
`CleanMeta` and `CleanOutput` for one deletion of `find`; Puppet's four steps;
`Crash` at any point of a wrapper. A reader that finds a file gone ends in a
traceback and remembers which one it missed.

Abstractions, and why they are sound for the properties:

* A record's file has no content of its own in the model: a reader sees
  `data[r]`. That is right because `data[r]` does not change once the file is
  written, which is itself checked and proved (`RecordsImmutable`).
* Executions that start at the same clock value are a tie for the code's sort by
  start time, which the file order decides; the model takes either.
* One reader at a time. Readers change nothing, so two of them cannot disturb
  each other. It may start again and again.
* A clean-up run is not one process: each deletion is an action, enabled
  whenever the file is old enough and the job's line is in the crontab. That
  covers any order and any interruption of `find`.
* Jobs are assumed to have names whose sanitised forms differ; what happens
  otherwise is looked at in `ScriptherderNames`.
* Mode `ls` is left out: it prints.

### JobLog

The abstract promise: an entry appears at once, whole, after its execution has
ended; it never changes; it goes only after it has been kept for its time; it
never comes back; an execution may be lost before it is logged. `Scriptherder`
implements it under the mapping of its definition `Log`: an entry is what lies
under a final name.

### ScriptherderRetention

`DecideInterval` and `DaysToSave` are translated branch for branch; a crontab
line is reduced to what the branches distinguish, together with the longest
time cron lets pass between two runs of it. Time advances from event to event,
the state holds the *ages* of the records, so no clock bound is needed.

### ScriptherderNames

Names are sequences of characters, because the property is about the
conversions: `SafeName` of cronjob.pp, `FileName` of `save_to_file`,
`CleanupGlob` of cleanup, `PurgeGlob` of the purge. A stamp (start time and pid)
is assumed to have no double underscore and none in front, as the format of
`save_to_file` gives it (`StampsAssumption`).

### FrontendConfig

Frontends are their places 1..N in the sorted list of names. `PrefSort` is
`_pref_sort_frontends`, `Order` the reversed list, `Announce` the lines printed:
the preference starts at 1000 (up) or 100 (down) and goes up by 100 or 10 from
one frontend's addresses to the next one's. All addresses of a frontend are one
address here, as the loop treats them alike.

### AnnounceMonitor

| Variable (per frontend) | Code |
|---|---|
| `status` | haproxy's view of its backends, or the site is removed there |
| `dir`, `announce` | the directory `monitor/INSTANCE`; the lines in its announce file (none: no file) |
| `events`, `watched` | the inotify queue; whether the site's directory is watched |
| `pc`, `new`, `unwritten` | where the monitor is; the lines it has just read; those of them not yet given to exabgp |
| `contents` | `InstanceDir._contents` |
| `rib` | what exabgp has been told to announce |

`ScanDirs` is the start-up loop of `main`; `AddWatch` is `wm.add_watch`, a later
step; `TakeEvent` is one call of `process_default`. `InstanceDir.reload` is in
three parts: `ReadFile` (within the step that calls it) reads the announce file,
`WriteLine` is one turn of the loop that writes and flushes one line at a time,
`EndReload` keeps the new `_contents`. The file may change after it is read, and
between two lines the frontend announces some of the old and some of the new.
inotify is modelled
with the merging of equal neighbouring events; a directory made later is watched
when its creation event is handled (`auto_add`). `Restart` is Puppet's restart
of exabgp; `Die` is the end of the monitor alone, anywhere, between two lines
too: it begins afresh, with the routes exabgp was given still announced or all
taken back, which is exabgp's to decide. `Place` is where a frontend's address
stands in the file, since the lines are sorted as text. What Puppet, haproxy, monitor-haproxy, inotify and exabgp do is
external and modelled from its use; the announce file is always replaced by a
move (the monitor listens for nothing else) and holds what `frontend-config`
prints.

Left out: `State.dirs` (an unknown directory gets a new `InstanceDir`, which
reads the file just as `reload` of a known one does), `poll` (never called),
lines that are neither announce nor withdraw.

### SiteRoutes

The abstract promise of the monitor, which knows of no inotify, queue or memory:
a load balancer has a notice, which others put up and take down; it reads it at
some time and tells it address by address, so that meanwhile what is announced
is of this notice and of those before; it is done with a notice, and reads the
next, only when all of it is announced. Nothing is announced that was not on a
notice, and nothing is taken back because one is gone. It may vanish at any time,
with it all routes or none, and then begins by reading. `AnnounceMonitor`
implements it under the mapping of `Routes`: a notice is the announce file's
lines, what is heard is what was read and is being written. That a file which
equals `_contents` is skipped, and `_contents` forgotten with the monitor, has to
come to the same: a notice that is skipped is one already announced.

### DockerRegistry

| Variable | Code |
|---|---|
| `tags` | the registry: per image, the manifest (its digest) each tag points to |
| `read_only`, `cosmos_off` | `/read-only` in `registry-auth`; `/etc/no-automatic-cosmos` |
| `pc`, `call`, `args`, `images` | where the script is; which call of `main_loop`, with which arguments, and its images still to come |
| `image`, `snap`, `dates`, `keep_tags`, `to_delete`, `keep_digests` | locals of the image loop: the tags as listed, `tags_date`, `keep_tags`, `tags_list_to_delete`, `keep_tag_digests` |
| `todo`, `worker`, `stuck` | the tags requests are still to be made for; the manifest each thread is about to delete; the threads whose request is not answered |
| `touched`, `missed` | history: tags pushed since the listing, tags a request about which failed |
| `locks` | how often docker has failed to let writers in again |

Each request is a step. `GetNewer`, `GetDate` and `GetKeepDigest` ask about one
tag, in any order, as the pool's threads do; `Take` and `Delete` are the two
halves of `delete_tag`, since other threads check `keep_digests` in between.
Every request may fail as `send` lets it: a list is empty, a tag has no date, a
digest is unknown. A request to delete that fails may have been carried out. As
requests have no timeout, one may also not be answered at all: `Unanswered` for
those somebody waits for at once, `FailOrWait` for those of a deleting thread,
which then is `stuck` while the others go on, until `delete_tags` waits for it too
(`WaitForThread`). `Abort` is an exception nothing catches, `Kill` the end of
everything, `ThreadExits` the `sys.exit` inside a pool's thread. All of these
count against `MaxFaults`, which bounds how often in a behaviour something goes
wrong, not what. `Push` is anyone's push; while `read_only`, only as many as
`MaxLate` take effect, let in before.

`SetReadOnly` sets `read_only` or, by a failing `touch` that the `;` hides, does
not; the cleanup goes on either way. `Operator` makes or removes
`/etc/no-automatic-cosmos` whenever it likes, in the middle of a cleanup as well.
A cleanup that hangs stays so; when an operator has removed the file, the one of
another week may start beside it, which the model shows as the one cleanup there
is beginning again. Two cleanups that both run are not modelled.

The time a tag was built is that of its manifest, a regular expression the set
of names it matches, a policy a record. Which of several tags of the same age
are the last ones the code's sort leaves to the order of the answers;
`AllButLatest` takes any choice. A policy for an exact name covers that one
image, and the week that unmanaged images are kept is not zero hours: both are in
`RegistryAssumption`, as `clean_registry.py` writes them. `Promised` therefore speaks of a tag only if it
is among the last ones for every choice (`Rivals` counts ties against it). An
image under two policies is cleaned by both; `PolicyRespected` says of each call
that it keeps to its own.

Left out: the options of `registry.py` that `clean_registry.py` does not use,
`dry_run`, layers, what garbage collection does with blobs.

### ValkeyStatus

| Variable | Code |
|---|---|
| `node` | per port, what is wrong with the node: with talking to it, or in what it says |
| `pc`, `at`, `conn`, `owed` | the question the check is at, of which port; its socket; whether the answer to `COMMANDLOG LEN` is still to come |
| `state`, `issues`, `results` | `NodeResult`'s fields; the results of the ports before |
| `status` | the exit status |
| `steady`, `seen` | history: what each node has had throughout the check, and at any time in it |

One action per question and per way it can end: answered, timed out or denied
(`Fails`), connection lost before the answer (`ConnectionLost`) or within it
(`AnswerCutOff`). `Change` lets any trouble come or go between any two steps.
What the nodes do is external, modelled from how the check talks to them.
Numbers are abstracted to the thresholds they are compared with.

### AcmeKey

| Variable | Code |
|---|---|
| `files`, `mtime`, `clock` | per key, the four files of its directory: absent, empty or whole; when `public_key.pem` was last written |
| `link` | `/etc/letsencrypt/accounts/public_key.pem` |
| `pc`, `key`, `fresh`, `printed` | per run of the script: where it is, its key, whether it made it, what it has printed |
| `overlapped` | history: two runs have been under way at once |

One action per system call another run could notice; `Open` and `Write` of a
file are two, because a kill between them leaves an empty file. A directory is
known by its key, as its name is derived from the key. `PrintKey` prints the key
in memory or what is in the file, and for an empty one a blank line, with exit
status 0 as for any other (`Blank`). `Begin` of Puppet has the
guard (`creates`), that of others has not. People may remove the symlink or move
an account away, as the script's messages ask them to.

### AccountStore

The abstract promise of the script: an account has all that certbot needs from
when it is first seen, stays until it is moved away and never comes back; without
contention it appears only where there is none; the guard leads only to an
account and is never bent from one to another; a key is shown only if it is that
of an account that was completed, without contention the one behind the guard.

The store also has what the script does not promise but does: an account whose
maker gives up before `public_key.pem` is written is *mute*. The guard and all
later runs take it for the account, nothing but a blank is ever shown of it, and
there is no way back but to move it away. Saying so bounds it: a blank is shown
for no other reason, and without contention only where there is no completed
account. `AcmeKey` implements this under the mapping of `Accounts`: an account is
there when its directory is `Provisioned`, every file whole; mute when
`public_key.pem` is empty and nobody is about to write it; and was never one while
that file had not been made, whatever killed runs leave lying about.

## 3. Runs

Bounds are in the .cfg files. Deadlock checking is on in all runs but those of
the Valkey check, which is over when it has reported.

| Run | Instance | Shows |
|---|---|---|
| `ScriptherderFiles` | two overlapping executions of job a beside a job b that never ran, OR and negated criteria, output texts, a disable file, cleanup after one unit, clock to 2, no reader | `TypeOK`, `RecordsComplete`, `RecordsImmutable`, `OutputFollowsRecord`, refinement of `JobLog` (`ImplementsLog`), `OnlyNewsImproves` |
| `ScriptherderCheck` | two overlapping executions of one job with the criteria of the header's example, beside a job that never ran and may; a check of any of them at any time, clock to 2 | `FailedIsCritical`, `NoFalseAlarm`, `NoJobOverlooked` |
| `ScriptherderLive` | one execution of a job whose check file and cron line come and go with Puppet, check, lastlog and lastfaillog, two ticks to a second, fairness, clock to 3 | `FinishedIsSaved`, `ReaderEnds`, `FilesExpire`, `CrashOnlyByCleanup`, `OkIsRecent`, `FailedIsCritical` |
| `Retention` | the special words, every kind of line `decide_interval` tells apart, and the lines for which its guess is off | `NewestSurvives`, `MinLogsKept` |
| `NamesCleanup` | titles plain, with hyphen, dot, blank, double underscore | `CleanupFindsAll`, `CleanupSparesOthers` |
| `Announce` | two frontends, the site removed and put back on one, restarts and deaths of the monitor on the other, lines in the other order than names, queues of three events, fairness of the monitor | `TypeOK`, `NoTie`, `FailoverInTurn`, `OwnAddressesServed`, `UpdatesReachExabgp`, refinement of `SiteRoutes` (`ImplementsRoutes`) |
| `Registry` | two images (one under an exact and a group policy, one without), three tags, the ways they can share current manifests but for those that only exchange two alike, two threads, one failure, silence or kill, one push that may be late, operators at any time | `TypeOK`, `PolicyRespected`, `EnoughRemain`, `Thorough`, `DeletionHasPolicy`, `CleanupEnds` |
| `Valkey` | two nodes, one too old for `COMMANDLOG`, three changes | `TypeOK`, `TroubleReported`, `AlarmHasCause`, `CheckEnds` |
| `AcmeAccount` | Puppet and one person, five keys, one kill, one removal by hand | `TypeOK`, `AccountBehindGuard`, `OneAccount`, refinement of `AccountStore` (`ImplementsAccounts`), `GuardSettles` |
| `KeepTags`, `RegistryHangs`, `ValkeyWarnings` | see 6 | violations |

Why the bounds are enough. The properties about records relate one execution to
its own files and to the clock; those about verdicts relate the newest execution
of a job to older ones and to other jobs. Two executions of one job are needed
for "newest" to mean something and for a late writer to overtake; a second job
for aggregation. With `Keep` = 1 and a clock to 2 a file can be written, age and
be cleaned while its wrapper, the other execution or a reader is still under
way. `max_age` 1 and 2 put its limits inside the clock's range, so that a verdict
passes from OK by WARNING to CRITICAL while nothing runs. `ScriptherderLive` has
a clock to 3, so that what is written at 1 still expires, and two ticks to a
second: an execution may end in the middle of a second and be checked in the
middle of another, where the truncated clock shows. The other two runs have whole
seconds.

`ScriptherderCheck` uses symmetry of its two executions: both are of one job,
no definition or property names one of them or orders them, and the run checks
invariants only.

`Announce` has two frontends because its properties compare two; they take no
steps together, and for more of them the theorems speak. The site is removed on
one (`Retiring`) and the monitor breaks off on the other (`Unsteady`): together on
one frontend the two give nothing new, since a restart forgets the queue. Three events let
deletion, move and deletion queue up behind one that is being handled.

`Registry` needs three tags for one to be saved by name, one to be the newest
and one to be deleted, and four manifests for every way of sharing among them
with one pair of the same age and one of schema version 1 that only a push
brings in. Images are cleaned one after the other and have nothing in common but
the policies; the second image is there for the call without a policy. Operators
are not bounded. Two
threads can hold one manifest at once, which is what more threads could do. One
failure at a time is what the properties are stated for: what is `missed`
concerns the tag it happened to. Faults are any number in the theorems.

`Valkey`: what is found at one node must not be lost or doubled at the next, so
two; three changes let trouble come, go and something else break. `AcmeAccount`:
with one kill and one removal no more than four keys are made, so `MaxKeys` = 5
never holds anything back. Any number of kills, removals and runs is in the
theorems.

### Fairness

`FairSpec` of `Scriptherder` assumes weak fairness of

* each wrapper's own steps after it has started: the operating system schedules
  processes; `Finish` is *not* fair, nothing in the code bounds a command;
* each deletion of cleanup: cron runs it every day (`init.pp`), so a file that
  stays old enough and whose job stays in the crontab meets it;
* the reader's steps once started, and the clock.

In `AnnounceMonitor` only the monitor's steps are weakly fair: it is a process
exabgp keeps running (`Die` is not excluded by it). In `DockerRegistry` the steps
of the script and of the program are; that does not mean that every request is
answered, since `Unanswered` and `WaitForThread` lead to `hung`, of which nothing
is assumed. `CleanupEnds` excepts that state and kills: it says what the script
owes when the registry answers. Cron, operators and pushers are not fair. In `ValkeyStatus` the check's steps are: the socket has a timeout
(the steps for a silent node are its expiry); nothing obliges NRPE to start it.
In `AcmeKey` each run's steps are, and `Begin` of Puppet, which cosmos runs
again and again; no person has to do anything.

No fairness of operators, of Puppet in `Scriptherder` or of crashes. The clock
ends at `MaxTime`, so `FilesExpire` speaks of files written early enough to
become old within it.

## 4. Proofs

`ScriptherderProofs` proves for every set of jobs and executions, all criteria
and retention times and every bound of the clock:

| Theorem | Property | |
|---|---|---|
| `TypeCorrect` | `TypeOK` | |
| `VisibleRecordsComplete` | `RecordsComplete` | |
| `OutputsHaveRecords` | `OutputFollowsRecord` | |
| `RecordsNeverChange` | `RecordsImmutable` | action property |
| `ImplementsJobLog` | `ImplementsLog` | refinement: initial states to initial states, each step to a step of `JobLog` or a stutter |
| `FailedJobsAreCritical` | `FailedIsCritical` | |

Assumptions: `CriteriaAssumption` and `BoundsAssumption` of `Scriptherder` - the
constants have the types they need, nothing more. TLC evaluates both.

The argument. None of the properties is inductive alone. `RecordsComplete` says
nothing of a wrapper that is about to rename, so `WrapInv` describes a wrapper
phase by phase: which fields of its record are set, in which state its files
can be, that times are in order, and that a file absent although it was written
is absent because it was old enough for cleanup. It mentions the clock only in
comparisons that time makes no less true, so `Tick` preserves it.
`RecordsComplete`, `OutputFollowsRecord`, the action property and the refinement
follow from `TypeOK` and `WrapInv` in one step each. `FailedIsCritical` needs
the reader: `ReaderInv` says that what is loaded was listed, that each listed
execution has been saved (so its record is final by immutability), and that once
the reader judges, every listed record of a job it asks for is loaded;
`VerdictInv` is the conjunction of these with the property proved,
`FailedIsCritical`. The key lemma about the criteria (`StoredStatusNeeded`) is
that outside runtime mode a record
whose stored status is not OK fulfils neither list, whatever the check file
says, unless there is an OR criterion.

`ScriptherderReaderProofs` builds on the above (`WrapInv`, `ReaderInv`,
`VerdictInv`) and proves, under the same assumptions:

| Theorem | Property | Invariant |
|---|---|---|
| `OkJobsAreRecent` | `OkIsRecent` | `RecentInv`: the verdicts' invariant, and that a check began in the past |
| `NoAlarmIsFalse` | `NoFalseAlarm` | `AlarmInv`: an alarm has a cause among the listed records of the job, one that no check would call OK at this moment either (`AlarmHasCause`) |
| `ReadersDieOfCleanup` | `CrashOnlyByCleanup` | `CrashInv`: every listed record is still there or was taken by cleanup when due, and its wrapper is over; an output that was tested for is there or was written and then cleaned; so for the very file a reader has missed |
| `NoJobIsOverlooked` | `NoJobOverlooked` | `OverlookInv`: while a check is judging, each job asked for and not managed by Puppet is still to be judged or has been; the level is the aggregate of all verdicts |
| `NewsOnlyImproves` | `OnlyNewsImproves` (action property) | `WrapInvs`; premise `AgesCount`: no criterion is a negated `max_age` |

`OkIsRecent` is stated with the truncation of the code: an OK given in a check that
began at time t is that of an execution which ended less than `max_age` before the
*second* t is in, so it may be up to a second older than `max_age` (section 6). The
proof needs that cutting off fractions keeps times in order (`WholeAdvances`,
`AgoAdvances`).

The first two are each other's converse: an OK rests on a record that was OK and
recent, and if the last record is OK still, nothing but OK was said of its job.
Both rest on the listed records being final (`PublishedStays`); the second on
`OkBefore` too: without an OR criterion or a negated `max_age`, an OK is lost in
time but never gained.

The step behind `ReadersDieOfCleanup` is that a wrapper past its last rename writes no
more (`OutputsOver`), so only cleanup can take a file a reader has seen. Behind
`NoJobIsOverlooked` are the two orders of `aggregate_status`, with `Cardinality`
of the set of verdicts deciding between them. `NewsOnlyImproves` joins two facts: what is newest
stays newest and unchanged (`NewestStays`), and the level of one record only gets
worse with time (`LevelBefore`). The latter is false of a negated `max_age`,
which the syntax allows and no manifest uses: it comes true by waiting.

`ScriptherderRetentionProofs`, for any set of crontab lines:

| Theorem | Property | Premise |
|---|---|---|
| `NewestRecordSurvives` | `NewestSurvives` | `GapsFit`: each line's retention, in whole days and one more, outlasts the longest gap between two runs |
| `EnoughLogsKept` | `MinLogsKept` | `NoReboot`: no line is `@reboot` |

`GapsFit` holds of all lines of the run `Retention`. `@reboot` has to be
excluded from the second: cron gives it no period, and the half year the code
takes it for is 183 days, of which seven are more than the 7 * 180 days kept.
The argument of both is one inequality between what a record's age can be when
its successor (or the seventh) comes and what `find -mtime` deletes; the
invariants say that the last run's record, and those of the last
`min_logs_to_save` runs, are the ages they have to be (`NewestKept`,
`LastRunsKept`).

`ScriptherderNamesProofs`, for any alphabet, titles and stamps
(`TitlesAssumption`, `StampsAssumption`): `NoFileEscapes` (`CleanupFindsAll`)
and `OthersAreSpared` (`CleanupSparesOthers`). The first is that the pattern and
the file name map each character of a title alike where it matters. In the
second a pattern that matches the other job's file must end within that job's
name: if it ended in the stamp, its two last underscores would be there, and a
stamp has no such pair nor begins with one.

`AnnounceProofs` proves for every number of frontends up to 90, any queue bound
and any set of frontends the site may leave:

| Theorem | Property |
|---|---|
| `TypeCorrect` | `TypeOK` |
| `NeverATie` | `NoTie` |
| `UpIsPreferred` | `UpBeatsDown`, defined with the theorem: the part of `FailoverInTurn` about one up and one down |
| `OwnersServe` | `OwnAddressesServed` |
| `TakenOverInTurn` | `FailoverInTurn` |
| `FollowsFiles` | `ImplementsRoutes` (refinement) |

Assumptions: `FrontendsAssumption` (N in 1..90) and `MonitorAssumption`. The code
has no limit of 90; the proof shows where one is: with 91 frontends the best
fallback preference, 100 + 10 * 90, is the lowest normal one. The argument: by
`LinesOfAnnounce` a frontend gives the address at rank k the preference
start + k * step, and by `RankProperties` its own address has the highest rank
while two frontends never give one address the same rank. `AllWhole`, the
inductive invariant, says that file, memory and what was read are each nothing or
one whole announcement of that frontend, and that exabgp was told lines of such
only, each address at most once. So `NoTie` holds in the middle of a reload and
after a death there too.

`FailoverInTurn` says what happens to an address when its own frontend is down:
of two that announce what they should, the one that is up has it, and of two
that are up the one nearer to the owner in the ring of the sorted names. Each
frontend computes its preferences for itself; that they agree on one order of
taking over is the point of turning the list. With the two frontends of the run
this says little more than `UpBeatsDown`; the theorem says it for up to 90, where
the order matters. The refinement adds `Remembered` to the invariant: what has
been written of a file is announced, and so is all of `_contents` until the first
line of another file is written. Hence a file that equals `_contents` may be
skipped, and one is announced in full when its reload ends.

`DockerRegistryProofs`, for any images, tags, manifests, ages and policies, any
number of threads, failures, kills, pushes and late pushes
(`RegistryAssumption`: types, finitely many tags, a policy for an exact name
covers one image, unmanaged images are kept for some hours):

| Theorem | Property |
|---|---|
| `TypeCorrect` | `TypeOK` |
| `PromisesAreKept` | `PolicyRespected` |
| `EnoughIsKept` | `EnoughRemain` |
| `NothingIsSpared` | `Thorough` (action property) |
| `DeletionsHavePolicies` | `DeletionHasPolicy` (action property) |

The invariant is `KeptTagsStay`. Until the first manifest is deleted the tags of
the image are as listed, but for pushes (`AsListed`). Each kind of promise has a
part that follows the tag into `keep_tags`: `NamedKept`, `YoungKept`,
`NewestKept` (of the tags deleted, each has at least `num` rivals). `DigestsKept`
follows it on into `keep_digests`, unless a request about it failed, and
`KeptStay` says that during deletion no thread holds such a manifest, which is
what the check in `Take` is for. `EnoughRemain` adds a count of what is not
deleted. `Thorough` rests on the opposite, `NoneSpared`: tags nobody pushed are
as listed or gone (`ListedOrGone`); while no request failed, a digest is in
`keep_digests` because of a tag to keep or because it is deleted everywhere
(`DigestsHaveCause`); and a tag taken from the list is done with, wanted, or has
its manifest in the hand of a thread (`InHand`).

`DeletionHasPolicy` is the other bound on what is lost: a tag disappears only
with a manifest that some tag has which a policy of the configuration lets go
for this very image - and the defaults for unmanaged images are one only if the
configuration has none. Its invariant is `Deserved`. `PolicyInForce`: the
arguments of the call are those of a policy for each image still to come, which
for the last call is what `get_unmanaged_images` computes. `HandHasCause`: what
a thread is about to delete is the manifest of a tag that was chosen and is not
to be kept, or of one pushed since. `NumberGiven`: tags are chosen only under a
policy with a number, since `[:-0]` is empty. None of it needs the two flags: that
writers are held back is not a property of the code (section 6), and what the
theorems say of pushes they say of any.

`ValkeyProofs`, for any number of ports, old or not, and of changes:
`TypeCorrect`, `LastingTroubleIsReported` (`TroubleReported`) and
`AlarmsHaveCauses` (`AlarmHasCause`). The invariant follows the check through
its questions: what has been asked about and has lasted is in `state` by now
(`Work`), what is in a result already is in it for good (`Judged`), the history
variables bracket the nodes (`Histories`), and the socket, the answer owed and
the issues each have a cause among what the node has had. `TroubleReported` is
about four of the seven troubles a node can tell of and about the three of talking
to it; of the others (`Swallowed`) the opposite is shown, see `ValkeyWarnings`.

`AcmeProofs`, for any runs, kills and removals: `TypeCorrect`, `GuardIsSound`
(`AccountBehindGuard`), `OneAccountOnly` (`OneAccount`), `PrintedIsKept`
(`PrintedKeyHasAccount`, the part of the refinement that is about keys printed,
and not checked apart from it) and the refinement `KeepsAccounts`
(`ImplementsAccounts`). `Ordered` says which files a writer has finished at
each phase; since `public_key.pem` comes last, a directory that has it is an
account (`Complete`). No two runs write one directory (`Unique`), what a run has
written is whole or moved away (`Kept`), and without overlap there is one
account at most and whoever writes it is alone (`Alone`).

The refinement needs more. The abstract account appears in the step in which
`public_key.pem` is first dated and is completed when it is written; `Dated` says
that nothing dates it before, that a key which is dated has its file or was moved
away, and that no run still has other files to write then. `Sole` says that
without overlap the account a run has made is the only one there is, so that it
appears where there was none. `AccountStates` and `AccountStatesNext` say what a
step makes of an account: a kill in `public_key.pem` makes it mute and nothing
else does. `Silent` says that a run that is under way has shown nothing.

Only model-checked are the liveness properties, which are beyond the prover:
`FinishedIsSaved`, `ReaderEnds`, `FilesExpire`, `UpdatesReachExabgp`,
`CleanupEnds`, `CheckEnds` and `GuardSettles`.

## 5. What is not modelled

Within the modules: formatting of tables and messages, logging, random sleep
lengths, the timezone in file names, permissions, syslog output of wrap,
`umask`, scriptherder's mode ls. File system errors other than a missing file (a
full disk makes `save_to_file` raise; the wrapper then ends as in `Crash`, after
closing a short `.tmp` file). Two executions with the same name, second and pid.
A check file that cannot be parsed (`CheckLoadError`, scriptherder.py:617: its job
is UNKNOWN to a check, as one without a check file is) and a criterion that does
not exist (:707, where `getattr` raises and the check ends in a traceback). Cleanup reads the crontab once, before it deletes; in the
model a job's line has to be there at each deletion.
Of `frontend-config` everything but the announcements.

Whole parts, with the reason:

* start-frontend, haproxy-start: shell around docker, inotifywait and haproxy;
  what they race with - docker's start-up time, reaping, haproxy's own reload -
  is not in the repository, and a model would mostly assume it.
* certbot-sync, the dehydrated wrapper: short scripts around rsync and the
  vendored dehydrated, whose view of a changing tree, and run time, decide what
  goes wrong. The hazards are plain from the order of the commands and listed.
* fleetlock backup and restore: run by hand, once, with the service stopped.
* sunet_nft_container_dnat, vrrphttp, the Nagios checks other than Valkey's: one
  pass that computes an output from an input.
* restic, baas2, mariadb, kopia, rt, updater: wrappers of external programs with
  their own locks and state.
* scriptherder-rs is a compiled program without source; the vendored programs are
  third-party; the Puppet declarations are not a program that runs on a host.

PROJECT.json (`components`) has the full list.

## 6. Where code and comments disagree

Three are shown by a run:

* `KeepTags`. `main_loop` protects the manifests of tags to keep, but a request
  for such a digest that fails is taken for a tag that is gone; the manifest is
  then deleted with an older tag that shares it, and so is the tag to keep.
* `RegistryHangs`. `sys.exit` for a manifest of schema version 1 happens in a
  thread of a pool, which then waits for ever; the script never comes to
  enabling cosmos again, and the registry stays read-only.
* `ValkeyWarnings`. check-valkey-status begins with UNKNOWN, which ranks above
  WARNING: taking the worse of the two (:300, :325) or asking whether it is below
  CRITICAL (:291) leaves it, and at the end it is made OK (:327-328). Failing nodes, a slow log and memory beyond 80 %, for which the code
  has the word WARNING, end as OK when they are all there is.

Further disagreements and observations, without a run of their own:

* `process_default` compares the name of a deletion event with `DELETE`
  (websites_monitor.py.erb:238); inotify's is `IN_DELETE`. `withdraw` is never
  called and the routes of a removed announce file stay announced until exabgp
  restarts. `SiteRoutes` says so: a notice that is gone takes no route away.
* `check_max_age` compares `int(time.time())` with an `end_time` that has
  fractions (scriptherder.py:739): an execution is OK for up to a second longer
  than `max_age` says. `OkIsRecent` is stated with that second.
* `touch /read-only ; apache2ctl -k graceful` (clean_registry_cron.erb:19) exits
  with the status of apache2ctl. If touch fails, the cleanup and the garbage
  collection go on while writers are let in, against the comment "so no new write
  requests gets thrue" (:15-17).
* registry.py makes its requests without a timeout (:59-60, :176, :248-253). A
  registry that accepts one and stays silent leaves the cleanup waiting, with
  Puppet disabled and the registry read-only, like `RegistryHangs` without any
  manifest of version 1.
* clean_registry_cron removes `/etc/no-automatic-cosmos` at its end (:50) whoever
  has made it: an operator who disables cosmos during a cleanup finds it enabled.
* scriptherder's header says lastfaillog shows the "last failed execution
  output"; `mode_lastlog` takes the last execution of each name and shows it if
  it failed. After a success the failed one is not shown though on record.
* `backup.sh.erb` of restic says its job treats exit statuses 3 and 4 as
  warnings; criteria of one line are AND-ed, and `stored_status=OK` is added.
  Both are reported as CRITICAL.
* `Job.from_file` opens the record outside its `try`. A record cleaned between
  listing and opening ends check in a traceback (`CrashOnlyByCleanup` says that
  nothing else does).
* The purge of cronjob.pp does not sanitise the name; hyphens and dots are
  underscores in the file names, so it removes nothing of such a job.
* The comment in `check_jobs` (scriptherder.py:859) speaks of all logged
  invocations; the loop ends at the newest, whatever its verdict.
* A job at `0 */12 * * *` counts as hourly and is kept for two days, which is
  fewer than `min_logs_to_save` records. `MinLogsKept` therefore speaks of jobs
  that run as often as the interval they are taken for.
* Cleanup reads root's crontab only. Records of a job that is removed, or of
  another user's crontab, stay.
* A command that does not exist leaves no record: `Popen` raises and nothing
  catches it. A check notices when the previous record is too old.
* `init.pp` gives cosmos a `max_age` without a unit; it is seconds.
* If one job's sanitised name followed by two underscores begins another's,
  cleanup of the first takes files of the second (`CleanupSparesOthers` says
  exactly when not).
* An announce file changed between the monitor's scan and its `add_watch`, or
  moved into a new directory before the event of its creation is handled, is
  not noticed until the next change: the poll that was there for this is not
  called any more (the file says so in a TODO).
* `_load_backends` appends one and the same dict for every address of a host, so
  that a host with two addresses is listed twice with the last one's data.
* An image that is configured by name and also matches a group is cleaned under
  both policies, and the second may delete what the first saves.
* A tag pushed between listing and deletion by a request let in earlier may be
  deleted although it is new; `delete_tag` asks for the digest again.
* The tags a policy's `regex_of_tags_to_delete` does not match are not handled,
  so neither are their manifests protected: such a tag goes if it shares one with
  a tag that is deleted. `DeletionHasPolicy` names that tag, not this one, as the
  one the policy lets go.
* A killed registry cleanup leaves cosmos disabled, and every later one exits at
  once because of it.
* check-valkey-status's loop that collects a payload does not notice the end of the connection and
  never ends (`CheckEnds` excepts this). A late answer to `COMMANDLOG LEN` is
  taken for the one to `INFO memory`.
* generate_acme_key.py:263-265 says that a directory written by
  `write_certbot_files` always holds both files. That of a run that is still
  writing or was killed does not: it is not found and another account is made,
  which is right after a kill and makes two if both runs go on. An empty
  `public_key.pem` left by a kill is found, now and by every later run, and
  generate_acme_key.py:289 prints an empty line for it and exits with 0, although
  the script "Prints the public key PEM to stdout" (:8). With overlapping runs the key printed need not be the one the
  symlink leads to. The guard is one per host, not per server URL: after a change
  of URL the script is not run.

## 7. What is left

The behaviour judged most important is modelled, checked and, where the prover
reaches, proved. What would come next, in this order: start-frontend's lock and
pipe, if docker's part of it is first written down as a contract; certbot-sync's
export and fetch as two processes over a tree, likewise with a contract for
rsync; a second ACME server beside the first.
