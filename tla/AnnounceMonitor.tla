-------------------------- MODULE AnnounceMonitor ---------------------------
(***************************************************************************)
(* The load balancers of one site, each with its announce file, the        *)
(* program templates/lb/websites_monitor.py.erb that exabgp runs to watch  *)
(* it, and what exabgp has been told to announce.                          *)
(*                                                                         *)
(* The announce file is written by monitor-haproxy, which is not in the    *)
(* repository: it writes what frontend-config prints and moves the file    *)
(* into place whenever haproxy's view of its backends changes.  inotify    *)
(* and pyinotify are modelled from how the monitor uses them: a recursive  *)
(* watch is set directory by directory; the watch of a directory made      *)
(* later is added when the event of its creation is taken from the queue.  *)
(***************************************************************************)
EXTENDS FrontendConfig

CONSTANTS
    Retiring,       \* frontends the site may be removed from
    Place,          \* [Frontends -> the place of its addresses in announce files]
    Unsteady,       \* bound: frontends where the monitor may be restarted or die
    MaxEvents       \* bound on the events waiting at a frontend

ASSUME MonitorAssumption ==
    /\ Retiring \subseteq Frontends
    /\ Place \in [Frontends -> Nat]
    /\ Unsteady \subseteq Frontends
    /\ MaxEvents \in Nat

VARIABLES
    status,         \* [Frontends -> is the site up, down or removed there?]
    dir,            \* [Frontends -> is there a directory of the site?]
    announce,       \* [Frontends -> the lines of its announce file, or none]
    events,         \* [Frontends -> the inotify events not yet handled]
    watched,        \* [Frontends -> is that directory watched?]
    pc,             \* [Frontends -> where the monitor is]
    new,            \* [Frontends -> the lines it has just read]
    unwritten,      \* [Frontends -> those of them not yet given to exabgp]
    contents,       \* [Frontends -> InstanceDir._contents]
    rib             \* [Frontends -> what exabgp announces]

host == <<status, dir, announce>>
monitor == <<pc, new, unwritten, contents, rib>>
vars == <<status, dir, announce, events, watched, pc, new, unwritten, contents, rib>>

Statuses == {"UP", "DOWN", "GONE"}

EventNames == {"IN_CREATE", "IN_MOVED_TO", "IN_DELETE"}

MonitorPhases == {"starting", "scanning", "scanned", "watching", "reading"}

Init ==
    /\ status = [h \in Frontends |-> "UP"]
    /\ dir = [h \in Frontends |-> FALSE]
    /\ announce = [h \in Frontends |-> {}]
    /\ events = [h \in Frontends |-> <<>>]
    /\ watched = [h \in Frontends |-> FALSE]
    /\ pc = [h \in Frontends |-> "starting"]
    /\ new = [h \in Frontends |-> {}]
    /\ unwritten = [h \in Frontends |-> {}]
    /\ contents = [h \in Frontends |-> {}]
    /\ rib = [h \in Frontends |-> {}]

\* inotify merges an event with the one before it if they are the same.
Notify(h, watching, name) ==
    events' = [events EXCEPT ![h] =
                 IF ~watching \/ (@ # <<>> /\ @[Len(@)] = name) THEN @
                 ELSE Append(@, name)]

Room(h) == Len(events[h]) < MaxEvents

\* The directory above those of the sites is watched.
Watching(h) == pc[h] \in {"watching", "reading"}
-----------------------------------------------------------------------------
(***************************************************************************)
(* haproxy, Puppet and monitor-haproxy                                     *)
(***************************************************************************)
ChangeStatus(h, s) ==
    /\ s # status[h]
    /\ s = "GONE" => h \in Retiring
    /\ status' = [status EXCEPT ![h] = s]
    /\ UNCHANGED <<dir, announce, events, watched, monitor>>

\* sunet::lb::load_balancer::website makes the directory of the site.
CreateDir(h) ==
    /\ ~dir[h]
    /\ Room(h)
    /\ dir' = [dir EXCEPT ![h] = TRUE]
    /\ Notify(h, Watching(h), "IN_CREATE")
    /\ UNCHANGED <<status, announce, watched, monitor>>

\* A new announce file is moved into place.
Publish(h) ==
    /\ dir[h]
    /\ status[h] # "GONE"
    /\ Room(h)
    /\ announce' = [announce EXCEPT ![h] = Announce(h, status[h])]
    /\ Notify(h, watched[h], "IN_MOVED_TO")
    /\ UNCHANGED <<status, dir, watched, monitor>>

\* The site is no longer served here and its announce file is removed.
RemoveFile(h) ==
    /\ status[h] = "GONE"
    /\ announce[h] # {}
    /\ Room(h)
    /\ announce' = [announce EXCEPT ![h] = {}]
    /\ Notify(h, watched[h], "IN_DELETE")
    /\ UNCHANGED <<status, dir, watched, monitor>>

\* The monitor starts again, with no memory and no watches; what exabgp goes on
\* announcing is in kept.
Afresh(h, kept) ==
    /\ h \in Unsteady
    /\ pc[h] # "starting"
    /\ pc' = [pc EXCEPT ![h] = "starting"]
    /\ events' = [events EXCEPT ![h] = <<>>]
    /\ watched' = [watched EXCEPT ![h] = FALSE]
    /\ new' = [new EXCEPT ![h] = {}]
    /\ unwritten' = [unwritten EXCEPT ![h] = {}]
    /\ contents' = [contents EXCEPT ![h] = {}]
    /\ rib' = [rib EXCEPT ![h] = kept]
    /\ UNCHANGED host

\* Puppet restarts the exabgp service, the monitor with it.
Restart(h) == Afresh(h, {})

\* The monitor dies wherever it is, between two lines too, and exabgp starts it
\* again.  It keeps the routes it was given, or takes them back.
Die(h) == Afresh(h, rib[h]) \/ Afresh(h, {})
-----------------------------------------------------------------------------
(***************************************************************************)
(* The monitor                                                             *)
(***************************************************************************)
\* The loop of InstanceDir.reload that reads the announce file, none at all if it
\* cannot be opened
ReadFile(h) ==
    /\ new' = [new EXCEPT ![h] = announce[h]]
    /\ unwritten' = [unwritten EXCEPT ![h] = announce[h]]

\* main: an InstanceDir for each directory there is; it reads the announce
\* file if there is one.
ScanDirs(h) ==
    /\ pc[h] = "starting"
    /\ ReadFile(h)
    /\ pc' = [pc EXCEPT ![h] = "scanning"]
    /\ UNCHANGED <<host, events, watched, contents, rib>>

\* A line of exabgp's input: what is announced for an address replaces what was
\* announced for it before.
Told(before, line) == {l \in before : l.ip # line.ip} \cup {line}

\* A file that cannot be read changes nothing, one that reads as before is not
\* sent again.
News(h) == new[h] \notin {{}, contents[h]}

\* The loop that passes the lines on, from the first to the last
WriteLine(h) ==
    /\ pc[h] \in {"scanning", "reading"}
    /\ News(h)
    /\ \E l \in unwritten[h] :
          /\ \A m \in unwritten[h] : Place[l.ip] <= Place[m.ip]
          /\ unwritten' = [unwritten EXCEPT ![h] = @ \ {l}]
          /\ rib' = [rib EXCEPT ![h] = Told(@, l)]
    /\ UNCHANGED <<host, events, watched, pc, new, contents>>

\* Fault: the last two lines of reload are in the loop that passes lines on.
ReturnInLoop(h) ==
    /\ pc[h] \in {"scanning", "reading"}
    /\ News(h) => unwritten[h] # new[h]
    /\ contents' = [contents EXCEPT ![h] = IF News(h) THEN new[h] ELSE @]
    /\ new' = [new EXCEPT ![h] = {}]
    /\ unwritten' = [unwritten EXCEPT ![h] = {}]
    /\ pc' = [pc EXCEPT ![h] = IF @ = "scanning" THEN "scanned" ELSE "watching"]
    /\ UNCHANGED <<host, events, watched, rib>>

\* Reload is done: when there is news, after its last line.
EndReload(h) ==
    /\ pc[h] \in {"scanning", "reading"}
    /\ News(h) => unwritten[h] = {}
    /\ contents' = [contents EXCEPT ![h] = IF News(h) THEN new[h] ELSE @]
    /\ new' = [new EXCEPT ![h] = {}]
    /\ unwritten' = [unwritten EXCEPT ![h] = {}]
    /\ pc' = [pc EXCEPT ![h] = IF @ = "scanning" THEN "scanned" ELSE "watching"]
    /\ UNCHANGED <<host, events, watched, rib>>

\* main: add_watch with rec=True, after the scan
AddWatch(h) ==
    /\ pc[h] = "scanned"
    /\ pc' = [pc EXCEPT ![h] = "watching"]
    /\ watched' = [watched EXCEPT ![h] = dir[h]]
    /\ UNCHANGED <<host, events, new, unwritten, contents, rib>>

\* Fault: the event that is handled takes those behind it along.
TakeEventAndAll(h) ==
    /\ pc[h] = "watching"
    /\ events[h] # <<>>
    /\ events' = [events EXCEPT ![h] = <<>>]
    /\ IF Head(events[h]) = "IN_MOVED_TO"
       THEN ReadFile(h) /\ pc' = [pc EXCEPT ![h] = "reading"]
       ELSE UNCHANGED <<new, unwritten, pc>>
    /\ watched' = [watched EXCEPT ![h] = @ \/ Head(events[h]) = "IN_CREATE"]
    /\ UNCHANGED <<host, contents, rib>>

\* One event: pyinotify watches a directory that was created (auto_add), and
\* process_default reads the file again when one was moved into place.  The
\* name it compares a deletion with is not IN_DELETE, so that a deletion ends
\* as an "unhandled announce event".
TakeEvent(h) ==
    /\ pc[h] = "watching"
    /\ events[h] # <<>>
    /\ events' = [events EXCEPT ![h] = Tail(@)]
    /\ IF Head(events[h]) = "IN_MOVED_TO"
       THEN ReadFile(h) /\ pc' = [pc EXCEPT ![h] = "reading"]
       ELSE UNCHANGED <<new, unwritten, pc>>
    /\ watched' = [watched EXCEPT ![h] = @ \/ Head(events[h]) = "IN_CREATE"]
    /\ UNCHANGED <<host, contents, rib>>

MonitorStep(h) ==
    ScanDirs(h) \/ WriteLine(h) \/ EndReload(h) \/ AddWatch(h) \/ TakeEvent(h)
-----------------------------------------------------------------------------
Next ==
    \E h \in Frontends :
        \/ \E s \in Statuses : ChangeStatus(h, s)
        \/ CreateDir(h) \/ Publish(h) \/ RemoveFile(h) \/ Restart(h) \/ Die(h)
        \/ MonitorStep(h)

Spec == Init /\ [][Next]_vars

\* The monitor is scheduled; nothing is assumed of backends, Puppet or
\* monitor-haproxy.
FairSpec == Spec /\ \A h \in Frontends : WF_vars(MonitorStep(h))
-----------------------------------------------------------------------------
\* Every variable has its type.
TypeOK ==
    /\ status \in [Frontends -> Statuses]
    /\ dir \in [Frontends -> BOOLEAN]
    /\ announce \in [Frontends -> SUBSET Line]
    /\ events \in [Frontends -> Seq(EventNames)]
    /\ watched \in [Frontends -> BOOLEAN]
    /\ pc \in [Frontends -> MonitorPhases]
    /\ new \in [Frontends -> SUBSET Line]
    /\ unwritten \in [Frontends -> SUBSET Line]
    /\ contents \in [Frontends -> SUBSET Line]
    /\ rib \in [Frontends -> SUBSET Line]

\* At no time do routers see two frontends announce an address with the same
\* preference, however stale what some of them announce is, whichever is in the
\* middle of telling and wherever one dies: an address has one place it goes to.
NoTie ==
    \A g, h \in Frontends : \A l \in rib[g], m \in rib[h] :
        g # h /\ l.ip = m.ip => l.pref # m.pref

\* What h announces is what it should.
UpToDate(h) == status[h] # "GONE" /\ rib[h] = Announce(h, status[h])

\* How far the frontend h comes before k in the ring of the sorted names
Before(h, k) == IF h <= k THEN k - h ELSE k - h + N

\* Of two frontends that announce what they should, an address goes to the one
\* that is up or, if both are, to the one that comes less far before the owner
\* of the address: each next one takes over if those after it are down.
FailoverInTurn ==
    \A g, h \in Frontends : \A l \in rib[g], m \in rib[h] :
        /\ UpToDate(g) /\ UpToDate(h) /\ l.ip = m.ip
        /\ status[h] = "UP"
        /\ status[g] = "UP" => Before(h, l.ip) < Before(g, l.ip)
        => m.pref > l.pref

\* "A should announce 1 with the lowest MED, and B should announce 2": the
\* addresses of a frontend that is up go to it, whatever the others announce.
OwnAddressesServed ==
    \A g, h \in Frontends :
        UpToDate(h) /\ status[h] = "UP" /\ g # h =>
            \E m \in rib[h] : /\ m.ip = h
                              /\ \A l \in rib[g] : l.ip = h => l.pref < m.pref

\* "propagate changes of them to exabgp": a file moved into a directory that is
\* watched is told to exabgp, unless the next one replaces it, it is removed,
\* or the monitor is started again first.  Changes that come while an earlier one
\* is being read are not lost, whatever else is in the queue.
UpdatesReachExabgp ==
    \A h \in Frontends : \A s \in {"UP", "DOWN"} :
        (/\ \E i \in DOMAIN events[h] : events[h][i] = "IN_MOVED_TO"
         /\ announce[h] = Announce(h, s))
        ~> (\/ rib[h] = Announce(h, s)
            \/ announce[h] # Announce(h, s)
            \/ pc[h] = "starting")

Routes == INSTANCE SiteRoutes WITH
    Notices <- [h \in Frontends |-> {Announce(h, "UP"), Announce(h, "DOWN")}],
    notice <- announce,
    awake <- [h \in Frontends |-> pc[h] # "starting"],
    heard <- new,
    routes <- rib

\* What exabgp announces follows the announce file as SiteRoutes says: every file
\* that is read is told to its last line before the next one is read, and one that
\* is not told, because the monitor remembers it, is what is announced already,
\* although a monitor that died in the middle left a mixture behind.
ImplementsRoutes == Routes!RoutesSpec

=============================================================================
