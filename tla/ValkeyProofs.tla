---------------------------- MODULE ValkeyProofs ----------------------------
(***************************************************************************)
(* What a check of Valkey reports, for any number of ports and of changes: *)
(* type correctness, that lasting trouble is in its exit status, and that  *)
(* an alarm has a cause.  The invariant follows the check from question to *)
(* question: Work says what the answers so far have made of the state of   *)
(* the node it is at, Judged what became of the nodes before.              *)
(***************************************************************************)
EXTENDS ValkeyStatus, TLAPS

\* Where the check is when it is at a node
Asking == Questions \cup {"hung"}

Place ==
    /\ pc \notin {"report", "done"} => at \in Ports /\ Len(results) = at - 1
    /\ pc = "idle" => at = 1
    /\ pc = "report" => Len(results) = N
    /\ pc # "done" => status = UNKNOWN
    /\ Len(results) <= N

Histories == \A p \in Ports : steady[p] \subseteq node[p] /\ node[p] \subseteq seen[p]

Idle ==
    pc \notin Asking => conn = "none" /\ ~owed /\ state = UNKNOWN /\ issues = {}

Connected == pc \in Asking => conn # "none"

Work ==
    /\ conn \in {"lost", "closed"} => "refusing" \in seen[at]
    /\ owed => "silent" \in seen[at]
    /\ \A t \in issues : t \in seen[at]
    /\ state # UNKNOWN => issues # {}
    /\ pc \in {"cluster", "commandlog", "memory"} /\ "alone" \in steady[at]
         => state \in {WARNING, CRITICAL}
    /\ pc \in {"commandlog", "memory"} /\ steady[at] \cap {"cluster", "slots"} # {}
         => state = CRITICAL

Judged ==
    \A k \in DOMAIN results :
        \A t \in steady[k] \ Swallowed : results[k].state >= Due(t)

IInv ==
    TypeOK /\ Place /\ Histories /\ Idle /\ Connected /\ Work /\ Judged /\ AlarmHasCause
        /\ TroubleReported

-----------------------------------------------------------------------------
(***************************************************************************)
(* Operators                                                               *)
(***************************************************************************)
\* What an answer makes of a state is a state.
LEMMA AnswersGiveStates ==
    ASSUME NEW s \in NagiosState
    PROVE  /\ AfterReplication(s) \in NagiosState
           /\ AfterCluster(s) \in NagiosState
           /\ AfterCommandlog(s) \in NagiosState
           /\ AfterMemory(s) \in NagiosState
  BY DEF AfterReplication, AfterCluster, AfterCommandlog, AfterMemory,
         Worse, NagiosState, OK, WARNING, CRITICAL, UNKNOWN

\* The state due for a trouble is one, and not beyond CRITICAL.
LEMMA DueType == \A t : Due(t) \in {OK, WARNING, CRITICAL}
  BY DEF Due

\* Returning from a node at one of the ports keeps the types.
LEMMA ReturnType ==
    ASSUME TypeOK, at \in Ports, Len(results) = at - 1,
           NEW level \in NagiosState, NEW found \in SUBSET Troubles,
           Return(level, found), pc \notin {"report", "done"}
    PROVE  /\ TypeOK'
           /\ Len(results') = at
           /\ results'[at] = [state |-> level, issues |-> issues \cup found]
           /\ \A k \in 1..Len(results) : results'[k] = results[k]
  <1> DEFINE r == [state |-> level, issues |-> issues \cup found]
  <1>1. r \in Result
    BY DEF TypeOK, Result
  <1>2. results' = Append(results, r)
    BY DEF Return
  <1> HIDE DEF r
  <1>3. /\ results' \in Seq(Result)
        /\ Len(results') = at
        /\ results'[at] = r
        /\ \A k \in 1..Len(results) : results'[k] = results[k]
    BY <1>1, <1>2, ValkeyAssumption DEF TypeOK, Ports
  <1>4. at' \in 1..N + 1 /\ pc' \in Phases
    BY ValkeyAssumption DEF Return, Ports, Phases
  <1>5. UNKNOWN \in NagiosState
    BY DEF NagiosState, OK, UNKNOWN
  <1>6. UNCHANGED <<node, changes, steady, seen, status>>
    BY DEF Return, env
  <1>7. state' = UNKNOWN /\ issues' = {} /\ conn' = "none" /\ owed' = FALSE
    BY DEF Return
  <1>8. TypeOK'
    BY <1>3, <1>4, <1>5, <1>6, <1>7 DEF TypeOK
  <1> QED BY <1>3, <1>8 DEF r
-----------------------------------------------------------------------------
(***************************************************************************)
(* Every action keeps the invariant                                        *)
(***************************************************************************)
\* Nothing has been asked of any node.
LEMMA InitInv == Init => IInv
  <1> SUFFICES ASSUME Init PROVE IInv
    OBVIOUS
  <1>1. TypeOK
    <2>1. state \in NagiosState /\ status \in NagiosState
      BY DEF Init, NagiosState, OK, UNKNOWN
    <2>2. at \in 1..N + 1 /\ changes \in 0..MaxChanges /\ pc \in Phases
      BY ValkeyAssumption DEF Init, Phases
    <2>3. /\ node \in [Ports -> SUBSET Troubles]
          /\ steady \in [Ports -> SUBSET Troubles]
          /\ seen \in [Ports -> SUBSET Troubles]
      BY DEF Init
    <2>4. results \in Seq(Result)
      BY DEF Init
    <2> QED BY <2>1, <2>2, <2>3, <2>4 DEF Init, TypeOK
  <1>2. Place /\ Idle /\ Connected /\ TroubleReported
    BY ValkeyAssumption DEF Init, Place, Idle, Connected, TroubleReported, Ports,
       Asking, Questions
  <1>3. Work
    BY DEF Init, Work
  <1>4. Histories /\ Judged /\ AlarmHasCause
    BY DEF Init, Histories, Judged, AlarmHasCause
  <1> QED BY <1>1, <1>2, <1>3, <1>4 DEF IInv

\* A node may be returned from with a state that is due and has a cause.
LEMMA ReturnStep ==
    ASSUME IInv, pc \in Questions \cup {"connect"},
           NEW level \in NagiosState, NEW found \in SUBSET seen[at],
           \A t \in steady[at] \ Swallowed : level >= Due(t),
           level # OK => issues \cup found # {},
           Return(level, found)
    PROVE  IInv'
  <1>1. TypeOK /\ at \in Ports /\ Len(results) = at - 1
    BY DEF IInv, Place, Questions
  <1>2. seen[at] \in SUBSET Troubles /\ at \in Nat /\ N \in Nat
    BY <1>1, ValkeyAssumption DEF TypeOK, Ports
  <1>3. /\ TypeOK'
        /\ Len(results') = at
        /\ results'[at] = [state |-> level, issues |-> issues \cup found]
        /\ \A k \in 1..Len(results) : results'[k] = results[k]
    BY <1>1, <1>2, ReturnType DEF Questions
  <1>4. /\ results \in Seq(Result) /\ results' \in Seq(Result)
        /\ DOMAIN results = 1..(at - 1) /\ DOMAIN results' = 1..at
    BY <1>1, <1>2, <1>3 DEF TypeOK
  <1>5. UNCHANGED <<node, steady, seen, status>>
    BY DEF Return, env
  <1>6. at' = at + 1 /\ pc' = (IF at = N THEN "report" ELSE "connect")
    BY DEF Return
  <1>7. Place'
    <2>1. status' = UNKNOWN
      BY <1>5 DEF IInv, Place, Questions
    <2> QED BY <2>1, <1>1, <1>2, <1>3, <1>6 DEF Place, Ports
  <1>8. Histories'
    BY <1>5 DEF IInv, Histories
  <1>9. Idle' /\ Connected' /\ Work'
    BY <1>6 DEF Return, Idle, Connected, Work, Asking, Questions
  <1>10. Judged'
    <2> SUFFICES ASSUME NEW k \in 1..at, NEW t \in steady[k] \ Swallowed
                 PROVE  results'[k].state >= Due(t)
      BY <1>4, <1>5 DEF Judged
    <2>1. CASE k = at
      BY <2>1, <1>3
    <2>2. CASE k # at
      BY <2>2, <1>2, <1>3, <1>4 DEF IInv, Judged
    <2> QED BY <2>1, <2>2
  <1>11. AlarmHasCause'
    <2> SUFFICES ASSUME NEW k \in 1..at
                 PROVE  /\ results'[k].state # OK => results'[k].issues # {}
                        /\ results'[k].issues \subseteq seen[k]
      BY <1>4, <1>5 DEF AlarmHasCause
    <2>1. CASE k = at
      BY <2>1, <1>3 DEF IInv, Work
    <2>2. CASE k # at
      BY <2>2, <1>2, <1>3, <1>4 DEF IInv, AlarmHasCause
    <2> QED BY <2>1, <2>2
  <1>12. TroubleReported'
    BY <1>6 DEF TroubleReported
  <1> QED BY <1>3, <1>7, <1>8, <1>9, <1>10, <1>11, <1>12 DEF IInv

\* Something befalls a node.
LEMMA ChangeStep ==
    ASSUME IInv, NEW p \in Ports, NEW t \in Troubles, Change(p, t)
    PROVE  IInv'
  <1>1. TypeOK
    BY DEF IInv
  <1>2. /\ node' \in [Ports -> SUBSET Troubles]
        /\ steady' = [steady EXCEPT ![p] = @ \cap node'[p]]
        /\ seen' = [seen EXCEPT ![p] = @ \cup node'[p]]
        /\ \A q \in Ports \ {p} : node'[q] = node[q]
    BY <1>1 DEF TypeOK, Change
  <1>3. /\ \A q \in Ports : steady'[q] \subseteq steady[q] /\ seen[q] \subseteq seen'[q]
        /\ \A q \in Ports : steady'[q] \subseteq node'[q] /\ node'[q] \subseteq seen'[q]
        /\ steady' \in [Ports -> SUBSET Troubles] /\ seen' \in [Ports -> SUBSET Troubles]
    BY <1>1, <1>2 DEF IInv, TypeOK, Histories
  <1>4. UNCHANGED <<pc, at, owed, state, issues, results, status>>
    BY DEF Change, result
  <1>5. /\ conn' = conn \/ (conn' = "lost" /\ conn = "open" /\ p = at /\ "refusing" \in node'[p])
        /\ changes' \in 0..MaxChanges
    BY <1>1, ValkeyAssumption DEF TypeOK, Change
  <1>6. TypeOK'
    BY <1>1, <1>2, <1>3, <1>4, <1>5 DEF TypeOK
  <1>7. Place' /\ Histories'
    BY <1>3, <1>4 DEF IInv, Place, Histories
  <1>8. Idle'
    <2>1. pc \notin Asking => conn = "none" /\ ~owed /\ state = UNKNOWN /\ issues = {}
      BY DEF IInv, Idle
    <2>2. conn = "none" => conn' = "none"
      BY <1>5
    <2> QED BY <2>1, <2>2, <1>4 DEF Idle, Asking, Questions
  <1>14. Connected'
    BY <1>4, <1>5 DEF IInv, Connected, Asking, Questions
  <1>9. DOMAIN results = 1..Len(results) /\ Len(results) \in Nat /\ N \in Nat
    BY <1>1, ValkeyAssumption DEF TypeOK
  <1>10. DOMAIN results \subseteq Ports
    <2>1. Len(results) <= N
      BY DEF IInv, Place
    <2> QED BY <1>9, <2>1 DEF Ports
  <1>11. Judged' /\ AlarmHasCause'
    BY <1>3, <1>4, <1>10 DEF IInv, Judged, AlarmHasCause
  <1>12. TroubleReported'
    BY <1>3, <1>4 DEF IInv, TroubleReported
  <1>13. Work'
    <2>1. CASE pc \in Asking
      <3>1. at \in Ports
        BY <2>1 DEF IInv, Place, Asking, Questions
      <3> QED BY <3>1, <1>3, <1>4, <1>5 DEF IInv, Work
    <2>2. CASE pc \notin Asking
      BY <2>2, <1>4, <1>8 DEF IInv, Idle, Work, Asking, Questions
    <2> QED BY <2>1, <2>2
  <1> QED BY <1>6, <1>7, <1>8, <1>11, <1>12, <1>13, <1>14 DEF IInv

\* A step from question to question need only account for the answer.
LEMMA SameNode ==
    ASSUME IInv, pc \in Questions, pc' \in Asking,
           UNCHANGED <<node, changes, steady, seen, at, results, status>>,
           conn' \in {"open", "lost", "closed"}, owed' \in BOOLEAN,
           state' \in NagiosState, issues' \subseteq Troubles, Work'
    PROVE  IInv'
  <1>1. TypeOK'
    <2>1. pc' \in Phases
      BY DEF Asking, Phases
    <2> QED BY <2>1 DEF IInv, TypeOK
  <1>2. Place' /\ Histories' /\ Idle' /\ Connected' /\ TroubleReported'
    BY DEF IInv, Place, Histories, Idle, Connected, TroubleReported, Asking, Questions
  <1>3. Judged' /\ AlarmHasCause'
    BY DEF IInv, Judged, AlarmHasCause
  <1> QED BY <1>1, <1>2, <1>3 DEF IInv

\* The facts every step from a question starts from
LEMMA AtNode ==
    ASSUME IInv, pc \in Questions \cup {"connect"}
    PROVE  /\ TypeOK /\ Work /\ at \in Ports
           /\ state \in NagiosState
           /\ issues \subseteq Troubles
           /\ steady[at] \subseteq node[at] /\ node[at] \subseteq seen[at]
           /\ node[at] \in SUBSET Troubles
  BY DEF IInv, Place, Histories, TypeOK, Questions

\* The answers but the last, one lemma each: the state they leave is due for what
\* has lasted so far.
LEMMA PingStep == ASSUME IInv, Ping PROVE IInv'
  <1>1. pc \in Questions /\ pc' = "replication" /\ issues' = issues /\ state' = state
    BY DEF Ping, Ask, Told, Questions
  <1>2. conn = "open" /\ UNCHANGED <<node, changes, steady, seen, at, conn, owed, results, status>>
    BY DEF Ping, Ask, Answered, env, client
  <1>3. Work'
    BY <1>1, <1>2, AtNode DEF Work
  <1> QED BY <1>1, <1>2, <1>3, AtNode, SameNode DEF Asking, Questions, TypeOK

\* An answer to INFO replication adds what it tells of, to issues and state alike.
LEMMA ReplicationStep == ASSUME IInv, AskReplication PROVE IInv'
  <1>1. /\ pc \in Questions /\ pc' = "cluster"
        /\ issues' = issues \cup Told({"alone"}) /\ state' = AfterReplication(state)
    BY DEF AskReplication, Ask, Questions
  <1>2. conn = "open" /\ UNCHANGED <<node, changes, steady, seen, at, conn, owed, results, status>>
    BY DEF AskReplication, Ask, Answered, env, client
  <1>3. state' \in NagiosState /\ issues' \subseteq Troubles
    BY <1>1, AtNode, AnswersGiveStates DEF Told
  <1>4. Work'
    BY <1>1, <1>2, AtNode DEF Work, Told, AfterReplication
  <1> QED BY <1>1, <1>2, <1>3, <1>4, AtNode, SameNode DEF Asking, Questions, TypeOK

\* So does one to CLUSTER INFO, which never lowers a state.
LEMMA ClusterStep == ASSUME IInv, AskCluster PROVE IInv'
  <1>1. /\ pc = "cluster" /\ pc \in Questions /\ pc' = "commandlog"
        /\ issues' = issues \cup Told({"cluster", "slots", "nodes"})
        /\ state' = AfterCluster(state)
    BY DEF AskCluster, Ask, Questions
  <1>2. conn = "open" /\ UNCHANGED <<node, changes, steady, seen, at, conn, owed, results, status>>
    BY DEF AskCluster, Ask, Answered, env, client
  <1>3. state' \in NagiosState /\ issues' \subseteq Troubles
    BY <1>1, AtNode, AnswersGiveStates DEF Told
  <1>4. Work'
    <2>1. (\A t \in issues : t \in seen[at])' /\ (state # UNKNOWN => issues # {})'
      BY <1>1, <1>2, AtNode DEF Work, Told, AfterCluster
    <2>2. "alone" \in steady[at] => state' \in {WARNING, CRITICAL}
      BY <1>1, AtNode DEF Work, AfterCluster, WARNING, CRITICAL
    <2>3. steady[at] \cap {"cluster", "slots"} # {} => state' = CRITICAL
      BY <1>1, AtNode DEF Work, Told, AfterCluster, CRITICAL
    <2> QED BY <1>1, <1>2, <2>1, <2>2, <2>3, AtNode DEF Work
  <1> QED BY <1>1, <1>2, <1>3, <1>4, AtNode, SameNode DEF Asking, Questions, TypeOK

\* And one to COMMANDLOG LEN
LEMMA CommandlogStep == ASSUME IInv, AskCommandlog PROVE IInv'
  <1>1. /\ pc = "commandlog" /\ pc \in Questions /\ pc' = "memory"
        /\ issues' = issues \cup Told({"slow"}) /\ state' = AfterCommandlog(state)
    BY DEF AskCommandlog, Ask, Questions
  <1>2. conn = "open" /\ UNCHANGED <<node, changes, steady, seen, at, conn, owed, results, status>>
    BY DEF AskCommandlog, Ask, Answered, env, client
  <1>3. state' \in NagiosState /\ issues' \subseteq Troubles
    BY <1>1, AtNode, AnswersGiveStates DEF Told
  <1>4. Work'
    <2>1. (\A t \in issues : t \in seen[at])' /\ (state # UNKNOWN => issues # {})'
      BY <1>1, <1>2, AtNode DEF Work, Told, AfterCommandlog, Worse
    <2>2. /\ state = CRITICAL => state' = CRITICAL
          /\ state = WARNING => state' = WARNING
      BY <1>1 DEF AfterCommandlog, Worse, WARNING, CRITICAL
    <2> QED BY <1>1, <1>2, <2>1, <2>2, AtNode DEF Work
  <1> QED BY <1>1, <1>2, <1>3, <1>4, AtNode, SameNode DEF Asking, Questions, TypeOK

\* That COMMANDLOG LEN fails is no reason to change the state.
LEMMA CommandlogFailsStep == ASSUME IInv, CommandlogFails PROVE IInv'
  <1>1. /\ pc = "commandlog" /\ pc \in Questions /\ pc' = "memory"
        /\ owed' \in BOOLEAN /\ (owed' => "silent" \in node[at])
    BY DEF CommandlogFails, Questions
  <1>2. UNCHANGED <<node, changes, steady, seen, at, state, issues, results, status>>
    BY DEF CommandlogFails, env, result
  <1>3. /\ conn \in {"open", "lost", "closed"}
        /\ conn' \in {"open", "lost", "closed"}
        /\ conn' \in {"lost", "closed"} => conn \in {"lost", "closed"}
    BY <1>1 DEF CommandlogFails, IInv, Connected, TypeOK, Asking
  <1>4. Work'
    BY <1>1, <1>2, <1>3, AtNode DEF Work
  <1> QED BY <1>1, <1>2, <1>3, <1>4, AtNode, SameNode DEF Asking, Questions, TypeOK

\* The last answer: all lasting trouble has been told of, or is told of now.
LEMMA MemoryStep == ASSUME IInv, AskMemory PROVE IInv'
  <1> DEFINE level == AfterMemory(state)
             found == Told({"high", "over"})
  <1>1. pc = "memory" /\ node[at] \cap Deaf = {} /\ Return(level, found)
    BY DEF AskMemory, Answered
  <1>2. level \in NagiosState /\ found \in SUBSET seen[at]
    BY <1>1, AtNode, AnswersGiveStates DEF Told, Questions
  <1>3. ASSUME NEW t \in steady[at] \ Swallowed PROVE level >= Due(t)
    <2>1. t \in Troubles /\ t \notin Deaf /\ t \in node[at]
      BY <1>1, <1>3, AtNode DEF Questions
    <2>2. CASE t \in {"cluster", "slots"}
      <3>1. state = CRITICAL
        BY <1>1, <1>3, <2>2, AtNode DEF Work, Questions
      <3>2. level = CRITICAL
        BY <3>1 DEF AfterMemory, Worse, WARNING, CRITICAL, UNKNOWN
      <3> QED BY <2>2, <3>2 DEF Due, CRITICAL, WARNING, OK
    <2>3. CASE t = "alone"
      <3>1. state \in {WARNING, CRITICAL}
        BY <1>1, <1>3, <2>3, AtNode DEF Work, Questions
      <3>2. level \in {WARNING, CRITICAL}
        BY <3>1 DEF AfterMemory, Worse, WARNING, CRITICAL, UNKNOWN
      <3> QED BY <2>3, <3>2 DEF Due, CRITICAL, WARNING, OK
    <2>4. CASE t = "over"
      <3>1. level = CRITICAL
        BY <2>1, <2>4 DEF AfterMemory, Told, CRITICAL, UNKNOWN
      <3> QED BY <2>4, <3>1 DEF Due, CRITICAL, WARNING, OK
    <2>5. t \notin {"nodes", "slow", "high"}
      BY <1>3 DEF Swallowed
    <2> QED BY <2>1, <2>2, <2>3, <2>4, <2>5 DEF Troubles, Deaf, Said
  <1>4. level # OK => issues \cup found # {}
    <2>1. Work
      BY <1>1, AtNode DEF Questions
    <2> QED BY <2>1 DEF Work, AfterMemory, Told, OK, UNKNOWN
  <1>5. pc \in Questions \cup {"connect"}
    BY <1>1 DEF Questions
  <1> HIDE DEF level, found
  <1> QED BY <1>1, <1>2, <1>3, <1>4, <1>5, ReturnStep

\* Any return with CRITICAL or UNKNOWN, and one thing that went wrong
LEMMA AlarmStep ==
    ASSUME IInv, pc \in Questions \cup {"connect"},
           NEW level \in {CRITICAL, UNKNOWN}, NEW t \in seen[at],
           Return(level, {t})
    PROVE  IInv'
  <1>1. level \in NagiosState /\ level # OK
    BY DEF NagiosState, OK, CRITICAL, UNKNOWN
  <1>2. \A u \in steady[at] \ Swallowed : level >= Due(u)
    BY DueType DEF OK, WARNING, CRITICAL, UNKNOWN
  <1>3. {t} \in SUBSET seen[at] /\ issues \cup {t} # {}
    OBVIOUS
  <1> QED BY <1>1, <1>2, <1>3, ReturnStep

\* Everything that goes wrong with a connection has the node to blame.
LEMMA FailureStep ==
    ASSUME IInv,
           (\E t \in Deaf : ConnectFails(t) \/ Fails(t)) \/ LateAnswer \/ ConnectionLost
    PROVE  IInv'
  <1>1. ASSUME NEW t \in Deaf, ConnectFails(t) \/ Fails(t) PROVE IInv'
    <2>1. pc \in Questions \cup {"connect"} /\ t \in node[at] /\ Return(CRITICAL, {t})
      BY <1>1 DEF ConnectFails, Fails, Told
    <2> QED BY <2>1, AtNode, AlarmStep
  <1>2. CASE LateAnswer
    <2>1. pc \in Questions /\ owed
      BY <1>2 DEF LateAnswer, Questions
    <2>2. "silent" \in seen[at]
      BY <2>1, AtNode DEF Work
    <2>3. \E level \in {CRITICAL, UNKNOWN} : Return(level, {"silent"})
      BY <1>2 DEF LateAnswer
    <2> QED BY <2>1, <2>2, <2>3, AlarmStep
  <1>3. CASE ConnectionLost
    <2>1. pc \in Questions /\ conn \in {"lost", "closed"}
      BY <1>3 DEF ConnectionLost
    <2>2. "refusing" \in seen[at]
      BY <2>1, AtNode DEF Work
    <2>3. \E level \in {CRITICAL, UNKNOWN} : Return(level, {"refusing"})
      BY <1>3 DEF ConnectionLost
    <2> QED BY <2>1, <2>2, <2>3, AlarmStep
  <1> QED BY <1>1, <1>2, <1>3

\* Connecting, hanging and starting judge nothing yet.
LEMMA ConnectStep == ASSUME IInv, Connect PROVE IInv'
  <1>1. /\ pc = "connect" /\ pc' = "ping" /\ conn' = "open"
        /\ UNCHANGED <<node, changes, steady, seen, at, owed, state, issues, results, status>>
    BY DEF Connect, env, result
  <1>2. TypeOK'
    BY <1>1 DEF IInv, TypeOK, Phases, Questions
  <1>3. Place' /\ Histories' /\ Idle' /\ Connected' /\ TroubleReported'
    BY <1>1 DEF IInv, Place, Histories, Idle, Connected, TroubleReported, Asking, Questions
  <1>4. Work'
    BY <1>1 DEF IInv, Work, Idle, Asking, Questions
  <1>5. Judged' /\ AlarmHasCause'
    BY <1>1 DEF IInv, Judged, AlarmHasCause
  <1> QED BY <1>2, <1>3, <1>4, <1>5 DEF IInv

\* A check that hangs has reported nothing.
LEMMA AnswerCutOffStep == ASSUME IInv, AnswerCutOff PROVE IInv'
  <1>1. /\ pc \in Questions /\ pc' = "hung" /\ conn = "lost"
        /\ UNCHANGED <<node, changes, steady, seen, at, conn, owed, state, issues, results, status>>
    BY DEF AnswerCutOff, env, client, result, Questions
  <1>2. Work'
    BY <1>1, AtNode DEF Work
  <1> QED BY <1>1, <1>2, AtNode, SameNode DEF Asking, TypeOK

\* When the check begins, what lasts and what has been seen is what there is.
LEMMA StartStep == ASSUME IInv, Start PROVE IInv'
  <1>1. /\ pc = "idle" /\ pc' = "connect" /\ steady' = node /\ seen' = node
        /\ UNCHANGED <<node, changes, at, conn, owed, state, issues, results, status>>
    BY DEF Start, client, result
  <1>2. TypeOK'
    BY <1>1 DEF IInv, TypeOK, Phases
  <1>3. Place' /\ Histories' /\ Idle' /\ Connected' /\ TroubleReported'
    BY <1>1 DEF IInv, Place, Histories, Idle, Connected, TroubleReported, Asking, Questions
  <1>4. Work'
    BY <1>1 DEF IInv, Work, Idle, Asking, Questions
  <1>5. DOMAIN results = {}
    BY <1>1 DEF IInv, TypeOK, Place
  <1>6. Judged' /\ AlarmHasCause'
    BY <1>1, <1>5 DEF Judged, AlarmHasCause
  <1> QED BY <1>2, <1>3, <1>4, <1>6 DEF IInv

\* UNKNOWN is as bad as anything that is due.
LEMMA NoPasswordStep == ASSUME IInv, NoPassword PROVE IInv'
  <1>1. /\ pc = "idle" /\ pc' = "done"
        /\ UNCHANGED <<node, changes, steady, seen, at, conn, owed, state, issues, results, status>>
    BY DEF NoPassword, env, client, result
  <1>2. status' = UNKNOWN
    BY <1>1 DEF IInv, Place
  <1>3. TypeOK'
    BY <1>1 DEF IInv, TypeOK, Phases
  <1>4. Place' /\ Histories' /\ Idle' /\ Connected'
    BY <1>1 DEF IInv, Place, Histories, Idle, Connected, Asking, Questions
  <1>5. Work'
    BY <1>1 DEF IInv, Work
  <1>6. Judged' /\ AlarmHasCause'
    BY <1>1 DEF IInv, Judged, AlarmHasCause
  <1>7. TroubleReported'
    BY <1>2, DueType DEF TroubleReported, OK, WARNING, CRITICAL, UNKNOWN
  <1> QED BY <1>3, <1>4, <1>5, <1>6, <1>7 DEF IInv

\* The worst state is as bad as what is due for each node.
LEMMA ReportStep == ASSUME IInv, Report PROVE IInv'
  <1>1. /\ pc = "report" /\ pc' = "done"
        /\ UNCHANGED <<node, changes, steady, seen, at, conn, owed, state, issues, results>>
    BY DEF Report, env, client, result
  <1>2. DOMAIN results = Ports /\ results \in Seq(Result)
    <2>1. results \in Seq(Result) /\ Len(results) = N
      BY <1>1 DEF IInv, TypeOK, Place
    <2> QED BY <2>1, ValkeyAssumption DEF Ports
  <1>3. PICK k \in Ports : /\ \A j \in Ports : results[j].state <= results[k].state
                          /\ status' = results[k].state
    BY <1>2 DEF Report
  <1>4. \A j \in Ports : results[j].state \in NagiosState
    <2>1. \A j \in Ports : results[j] \in Result
      BY <1>2
    <2> QED BY <2>1 DEF Result
  <1>5. TypeOK'
    BY <1>1, <1>3, <1>4 DEF IInv, TypeOK, Phases
  <1>6. Place' /\ Histories' /\ Idle' /\ Connected'
    BY <1>1 DEF IInv, Place, Histories, Idle, Connected, Asking, Questions
  <1>7. Work'
    BY <1>1 DEF IInv, Work
  <1>8. Judged' /\ AlarmHasCause'
    BY <1>1 DEF IInv, Judged, AlarmHasCause
  <1>9. TroubleReported'
    <2> SUFFICES ASSUME NEW p \in Ports, NEW t \in steady[p] \ Swallowed
                 PROVE  status' >= Due(t)
      BY <1>1 DEF TroubleReported
    <2>1. results[p].state >= Due(t) /\ results[p].state <= status'
      BY <1>2, <1>3 DEF IInv, Judged
    <2> QED BY <2>1, <1>3, <1>4, DueType DEF NagiosState, OK, WARNING, CRITICAL, UNKNOWN
  <1> QED BY <1>5, <1>6, <1>7, <1>8, <1>9 DEF IInv
-----------------------------------------------------------------------------
\* The invariant is inductive.
LEMMA NextInv == IInv /\ [Next]_vars => IInv'
  <1> SUFFICES ASSUME IInv, [Next]_vars PROVE IInv'
    OBVIOUS
  <1>1. CASE CheckNode
    BY <1>1, ConnectStep, PingStep, ReplicationStep, ClusterStep, CommandlogStep,
       MemoryStep, CommandlogFailsStep, FailureStep, AnswerCutOffStep DEF CheckNode
  <1>2. CASE Start \/ NoPassword \/ Report
    BY <1>2, StartStep, NoPasswordStep, ReportStep
  <1>3. CASE \E p \in Ports, t \in Troubles : Change(p, t)
    BY <1>3, ChangeStep
  <1>4. CASE UNCHANGED vars
    <2>1. UNCHANGED <<node, changes, steady, seen, pc, at, conn, owed, state, issues,
                      results, status>>
      BY <1>4 DEF vars, env, client, result
    <2>2. TypeOK' /\ Place' /\ Histories' /\ Idle' /\ Connected'
      BY <2>1 DEF IInv, TypeOK, Place, Histories, Idle, Connected
    <2>3. Work' /\ Judged' /\ AlarmHasCause' /\ TroubleReported'
      BY <2>1 DEF IInv, Work, Judged, AlarmHasCause, TroubleReported
    <2> QED BY <2>2, <2>3 DEF IInv
  <1> QED BY <1>1, <1>2, <1>3, <1>4 DEF Next

\* So it holds of the specification.
LEMMA Invariant == Spec => []IInv
  BY InitInv, NextInv, PTL DEF Spec

\* Every variable of the check and of the nodes keeps its type.
THEOREM TypeCorrect == Spec => []TypeOK
  <1>1. IInv => TypeOK
    BY DEF IInv
  <1> QED BY <1>1, Invariant, PTL

\* For any number of ports, each old or not, and however the nodes change:
\* refusals, silence, denials, a master alone, a cluster that is not ok, slots
\* that fail and memory beyond its limit are in the exit status if they last as
\* long as the check does.
THEOREM LastingTroubleIsReported == Spec => []TroubleReported
  <1>1. IInv => TroubleReported
    BY DEF IInv
  <1> QED BY <1>1, Invariant, PTL

\* A state other than OK names a trouble, and one the node has had since the
\* check began.
THEOREM AlarmsHaveCauses == Spec => []AlarmHasCause
  <1>1. IInv => AlarmHasCause
    BY DEF IInv
  <1> QED BY <1>1, Invariant, PTL

=============================================================================
