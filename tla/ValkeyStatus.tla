---------------------------- MODULE ValkeyStatus ----------------------------
(***************************************************************************)
(* check-valkey-status.py: a Nagios check that asks the Valkey nodes of a  *)
(* host, one port after the other, four questions each over one            *)
(* connection, while the nodes go on living.                               *)
(*                                                                         *)
(* A node is the set of its troubles.  It is modelled from how the check   *)
(* talks to it: it may refuse connections, go silent, deny every command,  *)
(* and come back, and what it says of itself may change between any two    *)
(* questions.  The check is one run of the program.                        *)
(***************************************************************************)
EXTENDS Integers, Sequences

CONSTANTS
    N,              \* args.ports are 1..N
    OldPorts,       \* those of nodes that do not know COMMANDLOG
    MaxChanges      \* bound on what happens to the nodes

ASSUME ValkeyAssumption ==
    /\ N \in Nat \ {0}
    /\ OldPorts \subseteq 1..N
    /\ MaxChanges \in Nat

Ports == 1..N

\* NagiosState
OK == 0
WARNING == 1
CRITICAL == 2
UNKNOWN == 3
NagiosState == OK..UNKNOWN

\* What may be wrong with a node: with talking to it, and what it says
Deaf == {"refusing", "silent", "denying"}
Said == {"alone",           \* a master without connected replicas
         "cluster",         \* cluster_state is not ok
         "slots",           \* cluster_slots_fail > 0
         "nodes",           \* cluster_nodes_fail > 0
         "slow",            \* entries in the slow command log
         "high", "over"}    \* used_memory is 80 % of maxmemory, or beyond it
Troubles == Deaf \cup Said

VARIABLES
    node,           \* [Ports -> the troubles it has]
    changes,        \* how many changes there have been
    pc,             \* where the check is
    at,             \* the port it is at
    conn,           \* the client's connection
    owed,           \* the answer to COMMANDLOG LEN is still to come
    state,          \* result.state of the port
    issues,         \* result.issues, as the troubles they tell of
    results,        \* those of the ports before
    status,         \* the exit status
    steady,         \* history: what each node has had ever since the check began
    seen            \* history: what each has had at any time since then

env == <<node, changes, steady, seen>>
client == <<conn, owed>>
result == <<state, issues>>
vars == <<env, pc, at, client, result, results, status>>

Questions == {"ping", "replication", "cluster", "commandlog", "memory"}
Phases == Questions \cup {"idle", "connect", "report", "done", "hung"}

Result == [state : NagiosState, issues : SUBSET Troubles]

Init ==
    /\ node = [p \in Ports |-> {}] /\ changes = 0
    /\ steady = node /\ seen = node
    /\ pc = "idle" /\ at = 1
    /\ conn = "none" /\ owed = FALSE
    /\ state = UNKNOWN /\ issues = {}
    /\ results = <<>> /\ status = UNKNOWN
-----------------------------------------------------------------------------
\* Something befalls a node, or is over.  One that begins to refuse has gone
\* away: the connection to it is lost for good.
Change(p, t) ==
    /\ changes < MaxChanges
    /\ changes' = changes + 1
    /\ node' = [node EXCEPT ![p] = IF t \in @ THEN @ \ {t} ELSE @ \cup {t}]
    /\ steady' = [steady EXCEPT ![p] = @ \cap node'[p]]
    /\ seen' = [seen EXCEPT ![p] = @ \cup node'[p]]
    /\ conn' = IF p = at /\ conn = "open" /\ "refusing" \in node'[p]
               THEN "lost" ELSE conn
    /\ UNCHANGED <<pc, at, owed, result, results, status>>
-----------------------------------------------------------------------------
(***************************************************************************)
(* What an answer makes of result.state                                    *)
(***************************************************************************)
Worse(a, b) == IF a < b THEN b ELSE a

Told(said) == node[at] \cap said

AfterReplication(s) == IF Told({"alone"}) # {} THEN WARNING ELSE s

\* Fault: failing nodes are a warning whatever there is beside them.
AfterClusterLast(s) ==
    IF Told({"nodes"}) # {} THEN WARNING
    ELSE IF Told({"cluster", "slots"}) # {} THEN CRITICAL ELSE s

AfterCluster(s) ==
    LET c == IF Told({"cluster", "slots"}) # {} THEN CRITICAL ELSE s
    IN  IF Told({"nodes"}) # {} /\ c < CRITICAL THEN WARNING ELSE c

\* Fault: an issue more is a state worse.
AfterCommandlogCounts(s) == IF Told({"slow"}) # {} THEN s + 1 ELSE s

AfterCommandlog(s) == IF Told({"slow"}) # {} THEN Worse(s, WARNING) ELSE s

\* With what a node is left at whose state is still UNKNOWN
AfterMemory(s) ==
    LET m == IF Told({"over"}) # {} THEN CRITICAL
             ELSE IF Told({"high"}) # {} THEN Worse(s, WARNING) ELSE s
    IN  IF m = UNKNOWN THEN OK ELSE m
-----------------------------------------------------------------------------
(***************************************************************************)
(* main                                                                    *)
(***************************************************************************)
\* The files are there and eyaml decrypts the password.
Start ==
    /\ pc = "idle"
    /\ pc' = "connect"
    /\ steady' = node
    /\ seen' = node
    /\ UNCHANGED <<node, changes, at, client, result, results, status>>

\* They are not, or it does not within its timeout: the program exits with
\* UNKNOWN before any node is asked.
NoPassword ==
    /\ pc = "idle"
    /\ pc' = "done"
    /\ UNCHANGED <<env, at, client, result, results, status>>

\* Fault: the results share one list of issues.
ReturnShared(level, found) ==
    /\ results' = Append(results, [state |-> level, issues |-> issues \cup found])
    /\ state' = UNKNOWN /\ issues' = issues \cup found
    /\ conn' = "none" /\ owed' = FALSE
    /\ at' = at + 1
    /\ pc' = IF at = N THEN "report" ELSE "connect"
    /\ UNCHANGED <<env, status>>

\* check_node returns, the connection closed, and the next port is checked.
Return(level, found) ==
    /\ results' = Append(results, [state |-> level, issues |-> issues \cup found])
    /\ state' = UNKNOWN /\ issues' = {}
    /\ conn' = "none" /\ owed' = FALSE
    /\ at' = at + 1
    /\ pc' = IF at = N THEN "report" ELSE "connect"
    /\ UNCHANGED <<env, status>>

\* The overall state is the worst of all nodes: max(r.state for r in results).
Report ==
    /\ pc = "report"
    /\ \E k \in DOMAIN results :
         /\ \A j \in DOMAIN results : results[j].state <= results[k].state
         /\ status' = results[k].state
    /\ pc' = "done"
    /\ UNCHANGED <<env, at, client, result, results>>
-----------------------------------------------------------------------------
(***************************************************************************)
(* check_node                                                              *)
(***************************************************************************)
Connect ==
    /\ pc = "connect"
    /\ node[at] \cap Deaf = {}
    /\ conn' = "open"
    /\ pc' = "ping"
    /\ UNCHANGED <<env, at, owed, result, results, status>>

\* ConnectionRefusedError or SSLError, TimeoutError, or the RuntimeError for
\* AUTH denied
ConnectFails(t) ==
    /\ pc = "connect"
    /\ t \in Told(Deaf)
    /\ Return(CRITICAL, {t})

\* The node answers the question the check has asked.
Answered == conn = "open" /\ node[at] \cap Deaf = {}

\* An answer that comes adds its troubles and may raise the state to level.
Ask(question, said, next, level) ==
    /\ pc = question
    /\ Answered
    /\ issues' = issues \cup Told(said)
    /\ state' = level
    /\ pc' = next
    /\ UNCHANGED <<env, at, client, results, status>>

\* The answer to PING is waited for, and any but PONG is an error.
Ping == Ask("ping", {}, "replication", state)

AskReplication ==
    Ask("replication", {"alone"}, "cluster", AfterReplication(state))

AskCluster ==
    Ask("cluster", {"cluster", "slots", "nodes"}, "commandlog",
        AfterCluster(state))

AskCommandlog ==
    /\ at \notin OldPorts
    /\ Ask("commandlog", {"slow"}, "memory", AfterCommandlog(state))

\* With the last answer the node is done.
AskMemory ==
    /\ pc = "memory"
    /\ Answered
    /\ ~owed
    /\ Return(AfterMemory(state), Told({"high", "over"}))

\* Fault: COMMANDLOG LEN is asked again until there is an answer.
CommandlogFailsRetry ==
    /\ pc = "commandlog"
    /\ at \in OldPorts \/ ~Answered
    /\ owed' = (owed \/ (conn = "open" /\ "silent" \in node[at]))
    /\ pc' = IF at \in OldPorts THEN "memory" ELSE "commandlog"
    /\ UNCHANGED <<env, at, conn, result, results, status>>

\* Whatever goes wrong with COMMANDLOG LEN is passed over.  If it is the time
\* that is up, the answer may still come.
CommandlogFails ==
    /\ pc = "commandlog"
    /\ at \in OldPorts \/ ~Answered
    /\ owed' = (conn = "open" /\ "silent" \in node[at])
    /\ conn' = IF conn = "lost" THEN "closed" ELSE conn
    /\ pc' = "memory"
    /\ UNCHANGED <<env, at, result, results, status>>

\* The answer that was still to come is taken for the one to INFO: a number
\* where lines are expected, or the error of an old node.
LateAnswer ==
    /\ pc = "memory"
    /\ Answered
    /\ owed
    /\ Return(IF at \in OldPorts THEN CRITICAL ELSE UNKNOWN, {"silent"})

\* The other questions: TimeoutError, or RuntimeError for an error in answer
Fails(t) ==
    /\ pc \in Questions \ {"commandlog"}
    /\ conn = "open"
    /\ t \in Told({"silent", "denying"})
    /\ Return(CRITICAL, {t})

\* A connection lost before the answer begins: a ConnectionError, which is
\* unexpected, or the SSLError the socket makes of it
ConnectionLost ==
    /\ pc \in Questions \ {"commandlog"}
    /\ conn \in {"lost", "closed"}
    /\ \E level \in {CRITICAL, UNKNOWN} : Return(level, {"refusing"})

\* One lost in the payload of an answer: recv returns nothing, at once, for
\* ever, and the loop that collects the payload goes on.
AnswerCutOff ==
    /\ pc \in {"replication", "cluster", "memory"}
    /\ conn = "lost"
    /\ pc' = "hung"
    /\ UNCHANGED <<env, at, client, result, results, status>>

CheckNode ==
    \/ Connect \/ \E t \in Deaf : ConnectFails(t)
    \/ Ping \/ AskReplication \/ AskCluster \/ AskCommandlog \/ AskMemory
    \/ CommandlogFails \/ LateAnswer
    \/ \E t \in Deaf : Fails(t)
    \/ ConnectionLost \/ AnswerCutOff

Next ==
    \/ Start \/ NoPassword \/ CheckNode \/ Report
    \/ \E p \in Ports, t \in Troubles : Change(p, t)

\* Every question has its timeout, so the check goes on as long as it can.
\* Nothing says that NRPE starts it.
Fairness == WF_vars(CheckNode) /\ WF_vars(Report)

Spec == Init /\ [][Next]_vars

FairSpec == Spec /\ Fairness
-----------------------------------------------------------------------------
TypeOK ==
    /\ node \in [Ports -> SUBSET Troubles]
    /\ steady \in [Ports -> SUBSET Troubles]
    /\ seen \in [Ports -> SUBSET Troubles]
    /\ changes \in 0..MaxChanges
    /\ pc \in Phases
    /\ at \in 1..N + 1
    /\ conn \in {"none", "open", "lost", "closed"}
    /\ owed \in BOOLEAN
    /\ state \in NagiosState
    /\ issues \subseteq Troubles
    /\ results \in Seq(Result)
    /\ status \in NagiosState

\* The state check_node means a trouble to have if it is the only one: for nodes
\* that fail, slow commands and memory the code has the word WARNING.
Due(t) == IF t \in {"alone", "nodes", "slow", "high"} THEN WARNING ELSE CRITICAL

\* Those it raises a state that is still UNKNOWN to WARNING for: UNKNOWN is above
\* WARNING, stays, and is made OK at the end (WarningsReported).
Swallowed == {"nodes", "slow", "high"}

\* "Overall state is the worst of all nodes": trouble that lasts as long as the
\* check does, but for these three, is in its exit status, on whichever node,
\* whatever the answers before and after it, whatever else comes and goes and
\* breaks meanwhile.
TroubleReported ==
    pc = "done" =>
        \A p \in Ports : \A t \in steady[p] \ Swallowed : status >= Due(t)

\* "memory WARNING: ...% of maxmemory", "... cluster node(s) in FAIL state", "...
\* slow command log entries": these are warnings if they last as well, slow
\* commands where the node knows COMMANDLOG and has answered all along.
WarningsReported ==
    pc = "done" =>
        \A p \in Ports : \A t \in steady[p] \cap Swallowed :
            (t = "slow" => p \notin OldPorts /\ seen[p] \cap Deaf = {})
                => status >= Due(t)

\* No false alarm: the check of a node ends with a state other than OK only
\* for troubles it names, and each of those the node had during the check.
AlarmHasCause ==
    \A k \in DOMAIN results :
        /\ results[k].state # OK => results[k].issues # {}
        /\ results[k].issues \subseteq seen[k]

\* A check that has begun ends, however many nodes are silent, unless the one
\* it is at goes away while it is asked: a hang has no other cause.
CheckEnds ==
    (pc = "connect") ~>
    (pc = "done" \/ (pc = "hung" /\ conn = "lost" /\ "refusing" \in seen[at]))

=============================================================================
