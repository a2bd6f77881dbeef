-------------------------- MODULE MCScriptherder ----------------------------
(***************************************************************************)
(* Instances of Scriptherder for TLC: which runs there are, of which jobs, *)
(* and the check files of the jobs.                                        *)
(***************************************************************************)
EXTENDS Scriptherder, TLC

CONSTANTS a, b,             \* jobs
          r1, r2            \* runs

C(what, value) == [what |-> what, value |-> value, negate |-> FALSE]
Not(what, value) == [what |-> what, value |-> value, negate |-> TRUE]

\* All runs are of one job.
OneJob == [r \in Runs |-> a]

\* The criteria of the header's example, in the model's time units
ExampleOk   == [j \in Jobs |-> {C("exit_status", 0), C("max_age", 1)}]
ExampleWarn == [j \in Jobs |-> {C("exit_status", 0), C("max_age", 2)}]

\* cosmos.ini of sunet::scriptherder::init (the disable file counts only as a
\* warning) and a text that is not to be in the output, with a job beside it
\* that may be anything but running
DisableFile == 7
MixedOk   == [j \in Jobs |->
                IF j = a THEN {C("exit_status", 0), C("max_age", 1),
                               Not("output_contains", 1)}
                ELSE {C("exit_status", 0), Not("OR_running", 0)}]
MixedWarn == [j \in Jobs |->
                IF j = a THEN {C("exit_status", 0), C("max_age", 2),
                               C("OR_file_exists", DisableFile)}
                ELSE {C("exit_status", 0)}]

\* The header's example, beside a job that may be anything but running
RacedOk   == [j \in Jobs |->
                IF j = a THEN {C("exit_status", 0), C("max_age", 1)}
                ELSE {C("exit_status", 0), Not("OR_running", 0)}]
RacedWarn == [j \in Jobs |->
                IF j = a THEN {C("exit_status", 0), C("max_age", 2)}
                ELSE {C("exit_status", 0)}]

KeepOne == [j \in Jobs |-> 1]

\* Runs of one job are told apart only by what they do.
SameRuns == Permutations(Runs)

NoText  == {{}}
Texts   == {{}, {1}}

=============================================================================
