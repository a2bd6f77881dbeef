----------------------------- MODULE SiteRoutes -----------------------------
(***************************************************************************)
(* What the routers are to see of a site's load balancers, without         *)
(* inotify, queues and memory.  Each has a notice, which is put up and     *)
(* taken down by others.  It reads it at some times and then tells it,     *)
(* address by address: meanwhile some routes are of this notice and some   *)
(* of those before it.  It is done with a notice only when all of it is    *)
(* announced, and reads the next one only then; a notice that is gone      *)
(* takes no route away.  A load balancer may be gone at any time, and with *)
(* it all routes or none: when it is back it begins by reading.            *)
(***************************************************************************)
CONSTANTS Frontends,
          Notices       \* [Frontends -> what may be put up: sets of routes]

VARIABLES notice,       \* [Frontends -> the one that is up, or none]
          awake,        \* [Frontends -> does anybody read and tell?]
          heard,        \* [Frontends -> what has been read and is being told]
          routes        \* [Frontends -> what is announced]

routevars == <<notice, awake, heard, routes>>

RoutesInit ==
    /\ notice = [h \in Frontends |-> {}]
    /\ awake = [h \in Frontends |-> FALSE]
    /\ heard = [h \in Frontends |-> {}]
    /\ routes = [h \in Frontends |-> {}]

Put(h) ==
    /\ \E a \in Notices[h] \cup {{}} : notice' = [notice EXCEPT ![h] = a]
    /\ UNCHANGED <<awake, heard, routes>>

Hear(h) ==
    /\ heard[h] = {}
    /\ awake' = [awake EXCEPT ![h] = TRUE]
    /\ heard' = [heard EXCEPT ![h] = notice[h]]
    /\ UNCHANGED <<notice, routes>>

Tell(h) ==
    /\ \E r \in heard[h] :
          routes' = [routes EXCEPT ![h] = {q \in @ : q.ip # r.ip} \cup {r}]
    /\ UNCHANGED <<notice, awake, heard>>

Done(h) ==
    /\ heard[h] \subseteq routes[h]
    /\ heard' = [heard EXCEPT ![h] = {}]
    /\ UNCHANGED <<notice, awake, routes>>

Vanish(h) ==
    /\ awake' = [awake EXCEPT ![h] = FALSE]
    /\ heard' = [heard EXCEPT ![h] = {}]
    /\ routes' = routes \/ routes' = [routes EXCEPT ![h] = {}]
    /\ UNCHANGED notice

RoutesNext ==
    \E h \in Frontends : Put(h) \/ Hear(h) \/ Tell(h) \/ Done(h) \/ Vanish(h)

RoutesSpec == RoutesInit /\ [][RoutesNext]_routevars

=============================================================================
