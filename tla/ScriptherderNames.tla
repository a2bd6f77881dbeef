------------------------- MODULE ScriptherderNames --------------------------
(***************************************************************************)
(* Whose files are these?  Three programs go from the name of a job to the *)
(* names of its files, each in its own way: save_to_file of scriptherder,  *)
(* cleanup_scriptherder and the purge of sunet::scriptherder::cronjob.     *)
(* This module has the data directory as a set of file names, which are    *)
(* sequences of characters, and lets the three write and delete them.      *)
(***************************************************************************)
EXTENDS Integers, Sequences, SequencesExt

CONSTANTS
    Letters,        \* the alphanumeric characters in use
    Titles,         \* titles of cronjob resources: sequences of characters
    Stamps          \* what comes after the name: start time and pid

\* Titles may hold any character; that they do not give the same file name is
\* for those who declare them to see to.
Others == {"-", ".", "_", " "}

ASSUME TitlesAssumption ==
    /\ Titles \subseteq Seq(Letters \cup Others)
    /\ Others \cap Letters = {}

\* A stamp is ts-<time>_pid-<pid> and an ending: it does not begin with an
\* underscore and has no two of them in a row.
ASSUME StampsAssumption ==
    /\ Stamps \subseteq Seq(Letters \cup Others)
    /\ \A stamp \in Stamps : \A i \in DOMAIN stamp :
          stamp[i] = "_" => i > 1 /\ stamp[i - 1] # "_"

VARIABLES
    installed,      \* the titles with ensure => present
    datadir         \* the file names in /var/cache/scriptherder

vars == <<installed, datadir>>

Replace(name, keep) ==
    [i \in DOMAIN name |-> IF name[i] \in keep THEN name[i] ELSE "_"]

\* $safe_name: the name in the crontab, of the check file and in the records
SafeName(title) == Replace(title, Letters \cup {"-", ".", "_"})

\* Job.save_to_file: whatever is not alphanumeric is an underscore
FileName(name, stamp) == Replace(name, Letters) \o <<"_", "_">> \o stamp

\* Faults: the name is taken as it is; or one underscore is enough.
CleanupGlobRaw(name) == name \o <<"_", "_">>

CleanupGlobShort(name) ==
    [i \in DOMAIN name |-> IF name[i] \in {"-", "."} THEN "_" ELSE name[i]]
       \o <<"_">>

\* cleanup_scriptherder: the word after --name with "-" and "." replaced
CleanupGlob(name) ==
    [i \in DOMAIN name |-> IF name[i] \in {"-", "."} THEN "_" ELSE name[i]]
       \o <<"_", "_">>

\* The purge: the name as it is, and one underscore
PurgeGlob(name) == name \o <<"_">>

Matching(glob) == {file \in datadir : IsPrefix(glob, file)}

FilesOf(title) == {FileName(SafeName(title), stamp) : stamp \in Stamps}
-----------------------------------------------------------------------------
Init ==
    /\ installed = {}
    /\ datadir = {}

Install(title) ==
    /\ title \notin installed
    /\ installed' = installed \cup {title}
    /\ UNCHANGED datadir

\* cron runs the wrapper and it saves a record.
Save(title, stamp) ==
    /\ title \in installed
    /\ datadir' = datadir \cup {FileName(SafeName(title), stamp)}
    /\ UNCHANGED installed

\* The daily cleanup comes to the crontab line of the job; here all of its
\* files are old enough.
CleanUp(title) ==
    /\ title \in installed
    /\ datadir' = datadir \ Matching(CleanupGlob(SafeName(title)))
    /\ UNCHANGED installed

\* ensure => absent with purge_results: check file and cron line go, and rm -f
\* takes what the glob matches.
Purge(title) ==
    /\ title \in installed
    /\ installed' = installed \ {title}
    /\ datadir' = datadir \ Matching(PurgeGlob(SafeName(title)))

Next ==
    \E title \in Titles :
        \/ Install(title) \/ CleanUp(title) \/ Purge(title)
        \/ \E stamp \in Stamps : Save(title, stamp)

Spec == Init /\ [][Next]_vars
-----------------------------------------------------------------------------
\* cleanup_scriptherder finds every file of the job, however its title is
\* spelt: no record of a job in the crontab escapes the retention.
CleanupFindsAll ==
    \A title \in Titles :
        datadir \cap FilesOf(title) \subseteq Matching(CleanupGlob(SafeName(title)))

\* It leaves alone the files of a job whose sanitised name does not continue
\* this one's after two underscores.
CleanupSparesOthers ==
    [][\A title, other \in Titles :
         CleanUp(title) /\ ~IsPrefix(Replace(title, Letters) \o <<"_", "_">>,
                                     Replace(other, Letters) \o <<"_", "_">>)
         => datadir' \cap FilesOf(other) = datadir \cap FilesOf(other)]_vars

=============================================================================
