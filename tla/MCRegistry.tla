----------------------------- MODULE MCRegistry -----------------------------
(***************************************************************************)
(* An image with a policy of its own, one of a group that has none left    *)
(* for it, and one without                                                 *)
(***************************************************************************)
EXTENDS DockerRegistry, TLC

CONSTANTS app, old, latest, v1, v2, d1, d2, d3, d4

\* d2 and d3 are as old; at the hour 4, only d1 is older than two hours.
Built == d1 :> 1 @@ d2 :> 3 @@ d3 :> 3 @@ d4 :> 4

\* Of app, what is called latest is saved, and the newest of the rest.
AppExact ==
    <<[images |-> {app}, save |-> {latest}, delete |-> Tags, num |-> 1]>>

\* A group that matches app as well.
AppGroup ==
    <<[images |-> {app}, save |-> {}, delete |-> Tags \ {latest}, num |-> 2]>>

\* Any current manifest under any tag of app, but for what only exchanges v1 and
\* v2, or d2 and d3, which do not differ otherwise.  The other image has two
\* tags, of which one is old.
SomeTags ==
    {[i \in Images |-> IF i = app THEN p ELSE v1 :> d1 @@ v2 :> d2 @@ latest :> None] :
        p \in {q \in [Tags -> Digests \ Schema1] :
                 /\ Built[q[v1]] <= Built[q[v2]]
                 /\ q[latest] # d3
                 /\ q[v1] = d3 => q[latest] = d2 /\ q[v2] = d3
                 /\ q[v2] = d3 => d2 \in {q[latest], q[v1]}}}

=============================================================================
