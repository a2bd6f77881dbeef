------------------------------- MODULE JobLog -------------------------------
(***************************************************************************)
(* What scriptherder's data directory is to those who read it: a log of    *)
(* executions.  The entry of an execution appears at once and whole, after *)
(* the execution has ended; it never changes; it stays for as long as      *)
(* entries of its job are kept and then may go; it never comes back.  An   *)
(* execution may also be lost before it is logged.                         *)
(***************************************************************************)
EXTENDS Integers

CONSTANTS Runs,         \* executions
          Entry,        \* what may be logged of one: a record with a
                        \* start_time and an end_time among its fields
          Blank,        \* [Runs -> what stands where nothing is logged]
          KeepFor       \* [Runs -> how long the entry is kept]

VARIABLES clock,
          state,        \* [Runs -> {"pending", "logged", "gone"}]
          log           \* [Runs -> the entry, if logged]

logvars == <<clock, state, log>>

LogInit ==
    /\ clock = 0
    /\ state = [r \in Runs |-> "pending"]
    /\ log = Blank

\* The execution has ended and its entry is put into the log.
Append(r) ==
    /\ state[r] = "pending"
    /\ state' = [state EXCEPT ![r] = "logged"]
    /\ \E e \in Entry : /\ 0 <= e.start_time
                        /\ e.start_time <= e.end_time
                        /\ e.end_time <= clock
                        /\ log' = [log EXCEPT ![r] = e]
    /\ UNCHANGED clock

\* An entry that has been kept long enough is dropped.
Expire(r) ==
    /\ state[r] = "logged"
    /\ clock - log[r].end_time > KeepFor[r]
    /\ state' = [state EXCEPT ![r] = "gone"]
    /\ log' = [log EXCEPT ![r] = Blank[r]]
    /\ UNCHANGED clock

\* The execution will not be logged.
Lose(r) ==
    /\ state[r] = "pending"
    /\ state' = [state EXCEPT ![r] = "gone"]
    /\ UNCHANGED <<clock, log>>

Advance ==
    /\ clock' = clock + 1
    /\ UNCHANGED <<state, log>>

LogNext == Advance \/ \E r \in Runs : Append(r) \/ Expire(r) \/ Lose(r)

LogSpec == LogInit /\ [][LogNext]_logvars

=============================================================================
