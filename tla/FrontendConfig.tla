--------------------------- MODULE FrontendConfig ---------------------------
(***************************************************************************)
(* What each load balancer ("frontend") is to announce to its routers: the *)
(* action print_exabgp_announce of templates/lb/frontend-config.erb.       *)
(*                                                                         *)
(* The frontends of a site are known by their place 1..N in the sorted     *)
(* list of their names; "ip" k stands for the service addresses configured *)
(* for frontend k, which all get the same treatment.  Every frontend       *)
(* announces the addresses of every frontend, with a local preference that *)
(* says how much traffic for an address it is to get: routers take the     *)
(* highest.                                                                *)
(***************************************************************************)
EXTENDS Integers, Sequences

CONSTANT N              \* the number of frontends of the site

\* The code has no limit; with more than 90 frontends the preferences of a
\* frontend that is down would reach into those of frontends that are up.
ASSUME FrontendsAssumption == N \in 1..90

Frontends == 1..N

Line == [ip : Frontends, pref : 100 .. 1000 + 100 * N]

\* Fault: the list is not turned to begin with the frontend itself.
PrefSortUnturned(me) == [k \in Frontends |-> k]

\* _pref_sort_frontends: frontends[index:] + frontends[:index]
PrefSort(me) ==
    [k \in Frontends |-> IF me + k - 1 <= N THEN me + k - 1 ELSE me + k - 1 - N]

\* frontends.reverse(); Fault: it is not reversed.
OrderUnreversed(me) == PrefSort(me)

Order(me) == [k \in Frontends |-> PrefSort(me)[N + 1 - k]]

\* Faults: the fallback is forgotten, or it begins at nought.
FirstPrefSame(status) == 1000

FirstPrefZero(status) == IF status = "UP" THEN 1000 ELSE 0

\* bgp_pref of the first address, and what is added for each of the others
FirstPref(status) == IF status = "UP" THEN 1000 ELSE 100

PrefStep(status) == IF status = "UP" THEN 100 ELSE 10

\* print_exabgp_announce
Announce(me, status) ==
    {[ip |-> Order(me)[k], pref |-> FirstPref(status) + PrefStep(status) * (k - 1)] :
       k \in Frontends}

=============================================================================
