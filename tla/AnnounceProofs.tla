--------------------------- MODULE AnnounceProofs ---------------------------
(***************************************************************************)
(* Theorems about AnnounceMonitor, for any number of frontends up to 90.   *)
(* They rest on three things: which preference a frontend gives an address *)
(* (Rank); that files and the monitor's memory are never anything but a    *)
(* whole announcement of that frontend (Whole), and what exabgp was told   *)
(* never anything but lines of those; and that what the monitor remembers  *)
(* is announced unless it is just telling something else (Remembered).     *)
(***************************************************************************)
EXTENDS AnnounceMonitor, TLAPS

\* How often the preference has been stepped up when ip's turn comes
Rank(me, ip) == IF ip >= me THEN N - 1 - (ip - me) ELSE me - 1 - ip

Pref(me, s, ip) == FirstPref(s) + PrefStep(s) * Rank(me, ip)

\* The order of print_exabgp_announce: place k has the address of rank k - 1.
LEMMA OrderIsRank ==
    ASSUME NEW me \in Frontends, NEW k \in Frontends
    PROVE  /\ Order(me)[k] \in Frontends
           /\ Rank(me, Order(me)[k]) = k - 1
<1>1. N \in Nat /\ N >= 1
  BY FrontendsAssumption
<1>2. N + 1 - k \in Frontends
  BY <1>1 DEF Frontends
<1>3. Order(me)[k] = PrefSort(me)[N + 1 - k]
  BY DEF Order
<1>4. PrefSort(me)[N + 1 - k] = IF me + N - k <= N THEN me + N - k ELSE me - k
  BY <1>1, <1>2 DEF PrefSort, Frontends
<1> QED
  BY <1>1, <1>3, <1>4 DEF Rank, Frontends

\* Every address is announced once, with the preference of its rank.
LEMMA LinesOfAnnounce ==
    ASSUME NEW me \in Frontends, NEW s
    PROVE  /\ \A l \in Announce(me, s) :
                 /\ l.ip \in Frontends
                 /\ l = [ip |-> l.ip, pref |-> Pref(me, s, l.ip)]
           /\ \A ip \in Frontends :
                 [ip |-> ip, pref |-> Pref(me, s, ip)] \in Announce(me, s)
<1>1. N \in Nat /\ N >= 1
  BY FrontendsAssumption
<1>2. ASSUME NEW l \in Announce(me, s)
      PROVE  l.ip \in Frontends /\ l = [ip |-> l.ip, pref |-> Pref(me, s, l.ip)]
  <2>1. PICK k \in Frontends :
          l = [ip   |-> Order(me)[k],
               pref |-> FirstPref(s) + PrefStep(s) * (k - 1)]
    BY DEF Announce
  <2> QED
    BY <2>1, OrderIsRank DEF Pref
<1>3. ASSUME NEW ip \in Frontends
      PROVE  [ip |-> ip, pref |-> Pref(me, s, ip)] \in Announce(me, s)
  <2> DEFINE k == Rank(me, ip) + 1
  <2>1. k \in Frontends
    BY <1>1 DEF Rank, Frontends
  <2>2. Order(me)[k] = ip
    <3>1. N + 1 - k \in Frontends
      BY <1>1, <2>1 DEF Frontends
    <3>2. Order(me)[k] = PrefSort(me)[N + 1 - k]
      BY <2>1 DEF Order
    <3>3. PrefSort(me)[N + 1 - k] =
            IF me + N - k <= N THEN me + N - k ELSE me - k
      BY <1>1, <2>1, <3>1 DEF PrefSort, Frontends
    <3> QED
      BY <1>1, <3>2, <3>3 DEF Rank, Frontends
  <2>3. Rank(me, ip) = k - 1
    BY <1>1 DEF Rank, Frontends
  <2>4. Pref(me, s, ip) = FirstPref(s) + PrefStep(s) * (k - 1)
    BY <2>3 DEF Pref
  <2> HIDE DEF k
  <2> QED
    BY <2>1, <2>2, <2>4 DEF Announce
<1> QED
  BY <1>2, <1>3

\* The ranks a frontend gives are those of the list; its own address has the
\* highest, and no two frontends give an address the same.
LEMMA RankProperties ==
    ASSUME NEW me \in Frontends, NEW ip \in Frontends
    PROVE  /\ Rank(me, ip) \in 0 .. N - 1
           /\ Rank(me, me) = N - 1
           /\ ip # me => Rank(me, ip) < N - 1
           /\ \A you \in Frontends : you # me => Rank(you, ip) # Rank(me, ip)
<1>1. N \in Nat /\ N >= 1
  BY FrontendsAssumption
<1> QED
  BY <1>1 DEF Rank, Frontends

\* Preferences are in range; those of a frontend that is up are above those of
\* one that is down.
LEMMA PrefProperties ==
    ASSUME NEW me \in Frontends, NEW you \in Frontends, NEW ip \in Frontends
    PROVE  /\ Pref(me, "UP", ip) \in 1000 .. 1000 + 100 * N
           /\ Pref(me, "DOWN", ip) \in 100 .. 990
           /\ you # me => /\ Pref(you, "UP", ip) # Pref(me, "UP", ip)
                          /\ Pref(you, "DOWN", ip) # Pref(me, "DOWN", ip)
                          /\ Pref(you, "UP", ip) < Pref(ip, "UP", ip) \/ you = ip
<1>1. N \in Nat /\ N >= 1 /\ N <= 90
  BY FrontendsAssumption
<1>2. /\ Pref(me, "UP", ip) = 1000 + 100 * Rank(me, ip)
      /\ Pref(me, "DOWN", ip) = 100 + 10 * Rank(me, ip)
      /\ Pref(you, "UP", ip) = 1000 + 100 * Rank(you, ip)
      /\ Pref(you, "DOWN", ip) = 100 + 10 * Rank(you, ip)
      /\ Pref(ip, "UP", ip) = 1000 + 100 * Rank(ip, ip)
  BY DEF Pref, FirstPref, PrefStep
<1>3. /\ Rank(me, ip) \in 0 .. N - 1
      /\ Rank(you, ip) \in 0 .. N - 1
      /\ Rank(ip, ip) = N - 1
      /\ you # me => Rank(you, ip) # Rank(me, ip)
      /\ you # ip => Rank(you, ip) # Rank(ip, ip)
  BY RankProperties
<1> QED
  BY <1>1, <1>2, <1>3


\* What is announced is well formed and, but for nothing at all, complete: a
\* second announcement replaces the first one entirely.
LEMMA AnnounceType ==
    ASSUME NEW me \in Frontends, NEW s \in {"UP", "DOWN"}
    PROVE  Announce(me, s) \in SUBSET Line
<1>1. N \in Nat /\ N >= 1
  BY FrontendsAssumption
<1> SUFFICES ASSUME NEW l \in Announce(me, s)
             PROVE  l \in Line
  OBVIOUS
<1>2. l.ip \in Frontends /\ l = [ip |-> l.ip, pref |-> Pref(me, s, l.ip)]
  BY LinesOfAnnounce
<1>3. Pref(me, s, l.ip) \in 100 .. 1000 + 100 * N
  BY <1>1, <1>2, PrefProperties
<1> QED
  BY <1>2, <1>3 DEF Line

Whole(h) == {{}, Announce(h, "UP"), Announce(h, "DOWN")}

Lines(h) == Announce(h, "UP") \cup Announce(h, "DOWN")

\* An announcement has one line for an address, so that a line that is told
\* takes none of its other lines away.
LEMMA OneLineEach ==
    ASSUME NEW h \in Frontends, NEW lines \in Whole(h),
           NEW l \in lines, NEW m \in lines, l.ip = m.ip
    PROVE  l = m
<1>1. PICK s : lines = Announce(h, s)
  BY DEF Whole
<1>2. /\ l = [ip |-> l.ip, pref |-> Pref(h, s, l.ip)]
      /\ m = [ip |-> m.ip, pref |-> Pref(h, s, m.ip)]
  BY <1>1, LinesOfAnnounce
<1> QED
  BY <1>2

(***************************************************************************)
(* The inductive invariant                                                 *)
(***************************************************************************)
AllWhole ==
    \A h \in Frontends :
        /\ announce[h] \in Whole(h)
        /\ new[h] \in Whole(h)
        /\ unwritten[h] \subseteq new[h]
        /\ contents[h] \in Whole(h)
        /\ rib[h] \subseteq Lines(h)

IInv == TypeOK /\ AllWhole

\* A whole announcement is a set of lines.
LEMMA WholeType ==
    ASSUME NEW h \in Frontends
    PROVE  /\ Whole(h) \subseteq SUBSET Line
           /\ Lines(h) \subseteq Line
           /\ \A w \in Whole(h) : w \subseteq Lines(h)
BY AnnounceType DEF Whole, Lines

\* At first nobody has announced anything.
LEMMA InitIInv == Init => IInv
<1> SUFFICES ASSUME Init
             PROVE  IInv
  OBVIOUS
<1> USE DEF Init
<1>1. TypeOK
  BY DEF TypeOK, Statuses, MonitorPhases
<1>2. AllWhole
  BY DEF AllWhole, Whole, Lines
<1> QED
  BY <1>1, <1>2 DEF IInv

\* A notification only adds an event to one queue.
LEMMA NotifyType ==
    ASSUME TypeOK, NEW h \in Frontends, NEW watching, NEW name \in EventNames,
           Notify(h, watching, name)
    PROVE  events' \in [Frontends -> Seq(EventNames)]
BY DEF TypeOK, Notify

\* File and memory stay nothing or whole, announced routes lines of those.
LEMMA NextIInv == IInv /\ [Next]_vars => IInv'
<1> SUFFICES ASSUME IInv, [Next]_vars
             PROVE  IInv'
  OBVIOUS
<1> USE DEF IInv, monitor
<1>1. CASE UNCHANGED vars
  BY <1>1 DEF vars, TypeOK, AllWhole
<1>2. ASSUME NEW h \in Frontends, NEW s \in Statuses, ChangeStatus(h, s)
      PROVE  IInv'
  BY <1>2 DEF ChangeStatus, TypeOK, AllWhole
<1>3. ASSUME NEW h \in Frontends, CreateDir(h)
      PROVE  IInv'
  <2>1. events' \in [Frontends -> Seq(EventNames)]
    BY <1>3, NotifyType DEF CreateDir, EventNames
  <2> QED
    BY <1>3, <2>1 DEF CreateDir, TypeOK, AllWhole
<1>4. ASSUME NEW h \in Frontends, Publish(h)
      PROVE  IInv'
  <2>1. events' \in [Frontends -> Seq(EventNames)]
    BY <1>4, NotifyType DEF Publish, EventNames
  <2>2. Announce(h, status[h]) \in Whole(h)
    BY <1>4 DEF Publish, TypeOK, Statuses, Whole
  <2>3. Announce(h, status[h]) \in SUBSET Line
    BY <2>2, WholeType
  <2> QED
    BY <1>4, <2>1, <2>2, <2>3 DEF Publish, TypeOK, AllWhole
<1>5. ASSUME NEW h \in Frontends, RemoveFile(h)
      PROVE  IInv'
  <2>1. events' \in [Frontends -> Seq(EventNames)]
    BY <1>5, NotifyType DEF RemoveFile, EventNames
  <2>2. {} \in Whole(h)
    BY DEF Whole
  <2> QED
    BY <1>5, <2>1, <2>2 DEF RemoveFile, TypeOK, AllWhole
<1>6. ASSUME NEW h \in Frontends, NEW kept \in {rib[h], {}}, Afresh(h, kept)
      PROVE  IInv'
  <2>1. {} \in Whole(h)
    BY DEF Whole
  <2>2. kept \subseteq Lines(h) /\ kept \in SUBSET Line
    BY DEF AllWhole, TypeOK
  <2> QED
    BY <1>6, <2>1, <2>2 DEF Afresh, host, TypeOK, MonitorPhases, AllWhole
<1>7. ASSUME NEW h \in Frontends, ScanDirs(h)
      PROVE  IInv'
  BY <1>7 DEF ScanDirs, ReadFile, host, TypeOK, MonitorPhases, AllWhole
<1>8. ASSUME NEW h \in Frontends, WriteLine(h)
      PROVE  IInv'
  <2>1. PICK l \in unwritten[h] :
          /\ unwritten' = [unwritten EXCEPT ![h] = @ \ {l}]
          /\ rib' = [rib EXCEPT ![h] = Told(@, l)]
    BY <1>8 DEF WriteLine
  <2>2. l \in Lines(h) /\ l \in Line
    BY WholeType DEF AllWhole
  <2>3. Told(rib[h], l) \subseteq Lines(h) /\ Told(rib[h], l) \in SUBSET Line
    BY <2>2 DEF Told, AllWhole, TypeOK
  <2>4. TypeOK'
    BY <1>8, <2>1, <2>3 DEF WriteLine, host, TypeOK
  <2> QED
    BY <1>8, <2>1, <2>3, <2>4 DEF WriteLine, host, TypeOK, AllWhole
<1>11. ASSUME NEW h \in Frontends, EndReload(h)
       PROVE  IInv'
  <2>1. {} \in Whole(h)
    BY DEF Whole
  <2> QED
    BY <1>11, <2>1 DEF EndReload, host, TypeOK, MonitorPhases, AllWhole
<1>9. ASSUME NEW h \in Frontends, AddWatch(h)
      PROVE  IInv'
  BY <1>9 DEF AddWatch, host, TypeOK, MonitorPhases, AllWhole
<1>10. ASSUME NEW h \in Frontends, TakeEvent(h)
       PROVE  IInv'
  <2>1. /\ events[h] \in Seq(EventNames)
        /\ Tail(events[h]) \in Seq(EventNames)
    BY <1>10 DEF TakeEvent, TypeOK
  <2>2. events' \in [Frontends -> Seq(EventNames)]
    BY <1>10, <2>1 DEF TakeEvent, TypeOK
  <2>3. watched' \in [Frontends -> BOOLEAN]
    BY <1>10 DEF TakeEvent, TypeOK
  <2>4. /\ new' \in [Frontends -> SUBSET Line]
        /\ unwritten' \in [Frontends -> SUBSET Line]
        /\ pc' \in [Frontends -> MonitorPhases]
        /\ \A g \in Frontends : new'[g] \in Whole(g) /\ unwritten'[g] \subseteq new'[g]
    <3>1. CASE Head(events[h]) = "IN_MOVED_TO"
      <4>1. /\ new' = [new EXCEPT ![h] = announce[h]]
            /\ unwritten' = [unwritten EXCEPT ![h] = announce[h]]
            /\ pc' = [pc EXCEPT ![h] = "reading"]
        BY <1>10, <3>1 DEF TakeEvent, ReadFile
      <4> QED
        BY <4>1 DEF TypeOK, AllWhole, MonitorPhases
    <3>2. CASE Head(events[h]) # "IN_MOVED_TO"
      BY <1>10, <3>2 DEF TakeEvent, TypeOK, AllWhole
    <3> QED
      BY <3>1, <3>2
  <2> QED
    BY <1>10, <2>2, <2>3, <2>4 DEF TakeEvent, host, TypeOK, AllWhole
<1> QED
  BY <1>1, <1>2, <1>3, <1>4, <1>5, <1>6, <1>7, <1>8, <1>9, <1>10, <1>11
     DEF Next, MonitorStep, Restart, Die

\* File and memory are nothing or whole announcements of that frontend, and what
\* exabgp announces is made of their lines, for ever.
THEOREM Invariance == Spec => []IInv
<1> QED
  BY InitIInv, NextIInv, PTL DEF Spec

(***************************************************************************)
(* What the routers see                                                    *)
(***************************************************************************)
\* A line that h announces has the preference of its address, as if up or down.
LEMMA LineOfRib ==
    ASSUME IInv, NEW h \in Frontends, NEW l \in rib[h]
    PROVE  /\ l.ip \in Frontends
           /\ l.pref \in {Pref(h, "UP", l.ip), Pref(h, "DOWN", l.ip)}
<1>1. PICK s \in {"UP", "DOWN"} : l \in Announce(h, s)
  BY DEF IInv, AllWhole, Lines
<1>2. l.ip \in Frontends /\ l = [ip |-> l.ip, pref |-> Pref(h, s, l.ip)]
  BY <1>1, LinesOfAnnounce
<1> QED
  BY <1>2

\* Every variable keeps its type, the events and the lines announced included.
THEOREM TypeCorrect == Spec => []TypeOK
<1>1. IInv => TypeOK
  BY DEF IInv
<1> QED
  BY <1>1, Invariance, PTL

\* No two frontends ever announce an address with the same preference, through
\* any changes of status, restarts, lost events and halfway through a file.
THEOREM NeverATie == Spec => []NoTie
<1>1. IInv => NoTie
  <2> SUFFICES ASSUME IInv, NEW g \in Frontends, NEW h \in Frontends,
                      NEW l \in rib[g], NEW m \in rib[h],
                      g # h, l.ip = m.ip
               PROVE  l.pref # m.pref
    BY DEF NoTie
  <2>1. /\ l.ip \in Frontends
        /\ l.pref \in {Pref(g, "UP", l.ip), Pref(g, "DOWN", l.ip)}
        /\ m.pref \in {Pref(h, "UP", l.ip), Pref(h, "DOWN", l.ip)}
    BY LineOfRib
  <2>2. PICK ip \in Frontends :
          /\ l.pref \in {Pref(g, "UP", ip), Pref(g, "DOWN", ip)}
          /\ m.pref \in {Pref(h, "UP", ip), Pref(h, "DOWN", ip)}
    BY <2>1
  <2>3. /\ Pref(g, "UP", ip) \in 1000 .. 1000 + 100 * N
        /\ Pref(g, "DOWN", ip) \in 100 .. 990
        /\ Pref(g, "UP", ip) # Pref(h, "UP", ip)
        /\ Pref(g, "DOWN", ip) # Pref(h, "DOWN", ip)
    BY PrefProperties
  <2>4. /\ Pref(h, "UP", ip) \in 1000 .. 1000 + 100 * N
        /\ Pref(h, "DOWN", ip) \in 100 .. 990
    BY PrefProperties
  <2>5. /\ Pref(g, "UP", ip) # Pref(h, "DOWN", ip)
        /\ Pref(g, "DOWN", ip) # Pref(h, "UP", ip)
    BY <2>3, <2>4, FrontendsAssumption
  <2> QED
    BY <2>2, <2>3, <2>5
<1> QED
  BY <1>1, Invariance, PTL

\* A frontend that is up is preferred to one that is down, for every address,
\* those of the one that is down included.
UpBeatsDown ==
    \A g, h \in Frontends :
        UpToDate(g) /\ status[g] = "UP" /\ UpToDate(h) /\ status[h] = "DOWN" =>
            \A l \in rib[g], m \in rib[h] : l.ip = m.ip => l.pref > m.pref

\* Where both announce what they should, a frontend that is up is preferred to
\* one that is down.
THEOREM UpIsPreferred == Spec => []UpBeatsDown
<1>1. IInv => UpBeatsDown
  <2> SUFFICES ASSUME IInv, NEW g \in Frontends, NEW h \in Frontends,
                      rib[g] = Announce(g, "UP"), rib[h] = Announce(h, "DOWN"),
                      NEW l \in rib[g], NEW m \in rib[h], l.ip = m.ip
               PROVE  l.pref > m.pref
    BY DEF UpBeatsDown, UpToDate
  <2>1. /\ l.ip \in Frontends
        /\ l.pref = Pref(g, "UP", l.ip)
        /\ m.pref = Pref(h, "DOWN", l.ip)
    <3>1. l.ip \in Frontends /\ l = [ip |-> l.ip, pref |-> Pref(g, "UP", l.ip)]
      BY LinesOfAnnounce
    <3>2. m = [ip |-> m.ip, pref |-> Pref(h, "DOWN", m.ip)]
      BY LinesOfAnnounce
    <3> QED
      BY <3>1, <3>2
  <2>2. /\ Pref(g, "UP", l.ip) \in 1000 .. 1000 + 100 * N
        /\ Pref(h, "DOWN", l.ip) \in 100 .. 990
    BY <2>1, PrefProperties
  <2> QED
    BY <2>1, <2>2, FrontendsAssumption
<1> QED
  BY <1>1, Invariance, PTL

\* The addresses of a frontend that is up and announced as such go to it,
\* whatever the others announce.
THEOREM OwnersServe == Spec => []OwnAddressesServed
<1>1. IInv => OwnAddressesServed
  <2> SUFFICES ASSUME IInv, NEW g \in Frontends, NEW h \in Frontends,
                      rib[h] = Announce(h, "UP"), g # h
               PROVE  \E m \in rib[h] :
                        /\ m.ip = h
                        /\ \A l \in rib[g] : l.ip = h => l.pref < m.pref
    BY DEF OwnAddressesServed, UpToDate
  <2> DEFINE own == [ip |-> h, pref |-> Pref(h, "UP", h)]
  <2>1. own \in rib[h] /\ own.ip = h
    BY LinesOfAnnounce
  <2>2. ASSUME NEW l \in rib[g], l.ip = h
        PROVE  l.pref < own.pref
    <3>1. l.pref \in {Pref(g, "UP", h), Pref(g, "DOWN", h)}
      BY <2>2, LineOfRib
    <3>2. Pref(g, "UP", h) < Pref(h, "UP", h)
      BY PrefProperties
    <3>3. Pref(g, "DOWN", h) \in 100 .. 990
      BY PrefProperties
    <3>4. Pref(h, "UP", h) \in 1000 .. 1000 + 100 * N
      BY PrefProperties
    <3> QED
      BY <3>1, <3>2, <3>3, <3>4, FrontendsAssumption
  <2> QED
    BY <2>1, <2>2
<1> QED
  BY <1>1, Invariance, PTL

\* The frontends of a site agree on who takes over which address from whom,
\* although each computes its own preferences only, for up to 90 of them.
THEOREM TakenOverInTurn == Spec => []FailoverInTurn
<1>1. IInv => FailoverInTurn
  <2> SUFFICES ASSUME IInv, NEW g \in Frontends, NEW h \in Frontends,
                      NEW l \in rib[g], NEW m \in rib[h],
                      rib[g] = Announce(g, status[g]), rib[h] = Announce(h, "UP"),
                      status[g] \in {"UP", "DOWN"}, l.ip = m.ip,
                      status[g] = "UP" => Before(h, l.ip) < Before(g, l.ip)
               PROVE  m.pref > l.pref
    BY DEF FailoverInTurn, UpToDate, IInv, TypeOK, Statuses
  <2>1. PICK ip \in Frontends :
          /\ l.ip = ip
          /\ l.pref = Pref(g, status[g], ip)
          /\ m.pref = Pref(h, "UP", ip)
    <3>1. l.ip \in Frontends /\ l = [ip |-> l.ip, pref |-> Pref(g, status[g], l.ip)]
      BY LinesOfAnnounce
    <3>2. m = [ip |-> m.ip, pref |-> Pref(h, "UP", m.ip)]
      BY LinesOfAnnounce
    <3> QED
      BY <3>1, <3>2
  <2>2. CASE status[g] = "DOWN"
    <3>1. /\ Pref(h, "UP", ip) \in 1000 .. 1000 + 100 * N
          /\ Pref(g, "DOWN", ip) \in 100 .. 990
      BY PrefProperties
    <3> QED
      BY <2>1, <2>2, <3>1, FrontendsAssumption
  <2>3. CASE status[g] = "UP"
    <3>1. Before(h, ip) < Before(g, ip)
      BY <2>1, <2>3
    <3>2. Rank(g, ip) \in Int /\ Rank(h, ip) \in Int /\ Rank(g, ip) < Rank(h, ip)
      BY <3>1, FrontendsAssumption DEF Rank, Before, Frontends
    <3>3. /\ Pref(h, "UP", ip) = 1000 + 100 * Rank(h, ip)
          /\ Pref(g, "UP", ip) = 1000 + 100 * Rank(g, ip)
      BY DEF Pref, FirstPref, PrefStep
    <3> QED
      BY <2>1, <2>3, <3>2, <3>3
  <2> QED
    BY <2>2, <2>3
<1> QED
  BY <1>1, Invariance, PTL
-----------------------------------------------------------------------------
(***************************************************************************)
(* That AnnounceMonitor implements SiteRoutes                              *)
(***************************************************************************)
\* Nothing is read or being told but in a reload.  What has been told of what was
\* read is announced, and so is what the monitor remembers until it begins to tell
\* something else.
Remembered ==
    \A h \in Frontends :
        /\ pc[h] \notin {"scanning", "reading"} => new[h] = {} /\ unwritten[h] = {}
        /\ new[h] \ unwritten[h] \subseteq rib[h]
        /\ unwritten[h] = new[h] => contents[h] \subseteq rib[h]
        /\ unwritten[h] # new[h] => News(h)

\* The monitor learns what it tells and forgets it with exabgp.
LEMMA RememberedNext == IInv /\ Remembered /\ [Next]_vars => Remembered'
<1> SUFFICES ASSUME IInv, Remembered, [Next]_vars PROVE Remembered'
  OBVIOUS
<1> USE DEF host, monitor
<1>a. TypeOK
  BY DEF IInv
<1>1. ASSUME NEW h \in Frontends, WriteLine(h) PROVE Remembered'
  <2>1. PICK l \in unwritten[h] :
          /\ unwritten' = [unwritten EXCEPT ![h] = @ \ {l}]
          /\ rib' = [rib EXCEPT ![h] = Told(@, l)]
    BY <1>1 DEF WriteLine
  <2>2. new[h] \in Whole(h) /\ unwritten[h] \subseteq new[h]
    BY DEF IInv, AllWhole
  <2>3. new[h] \ (unwritten[h] \ {l}) \subseteq Told(rib[h], l)
    <3> SUFFICES ASSUME NEW m \in new[h], m \notin unwritten[h] \/ m = l
                 PROVE  m \in Told(rib[h], l)
      OBVIOUS
    <3>1. CASE m = l
      BY <3>1 DEF Told
    <3>2. CASE m # l
      <4>1. m.ip # l.ip
        BY <2>2, <3>2, OneLineEach
      <4> QED
        BY <3>2, <4>1 DEF Told, Remembered
    <3> QED
      BY <3>1, <3>2
  <2>4. unwritten'[h] # new'[h] /\ News(h)'
    BY <1>1, <1>a, <2>1, <2>2 DEF WriteLine, News, TypeOK
  <2> QED
    BY <1>1, <1>a, <2>1, <2>3, <2>4 DEF WriteLine, Remembered, News, TypeOK
<1>2. ASSUME NEW h \in Frontends, EndReload(h) PROVE Remembered'
  BY <1>2, <1>a DEF EndReload, Remembered, News, TypeOK
<1>3. ASSUME NEW h \in Frontends, NEW kept, Afresh(h, kept) PROVE Remembered'
  BY <1>3, <1>a DEF Afresh, Remembered, News, TypeOK
<1>4. ASSUME NEW h \in Frontends, ScanDirs(h) PROVE Remembered'
  BY <1>4, <1>a DEF ScanDirs, ReadFile, Remembered, News, TypeOK
<1>5. ASSUME NEW h \in Frontends, TakeEvent(h) PROVE Remembered'
  <2>1. UNCHANGED <<contents, rib>>
    BY <1>5 DEF TakeEvent
  <2>2. CASE Head(events[h]) = "IN_MOVED_TO"
    <3>1. /\ new' = [new EXCEPT ![h] = announce[h]]
          /\ unwritten' = [unwritten EXCEPT ![h] = announce[h]]
          /\ pc' = [pc EXCEPT ![h] = "reading"]
          /\ pc[h] = "watching"
      BY <1>5, <2>2 DEF TakeEvent, ReadFile
    <3> QED
      BY <1>a, <2>1, <3>1 DEF Remembered, News, TypeOK
  <2>3. CASE Head(events[h]) # "IN_MOVED_TO"
    <3>1. UNCHANGED monitor
      BY <1>5, <2>1, <2>3 DEF TakeEvent
    <3> QED
      BY <3>1 DEF Remembered, News
  <2> QED
    BY <2>2, <2>3
<1>6. ASSUME NEW h \in Frontends, AddWatch(h) PROVE Remembered'
  BY <1>6, <1>a DEF AddWatch, Remembered, News, TypeOK
<1>7. CASE UNCHANGED monitor
  BY <1>7 DEF Remembered, News
<1> QED
  BY <1>1, <1>2, <1>3, <1>4, <1>5, <1>6, <1>7
     DEF Next, MonitorStep, ChangeStatus, CreateDir, Publish, RemoveFile,
         Restart, Die, vars

\* Reading and writing announce files, telling lines, restarts and deaths are the
\* steps of SiteRoutes: the monitor is done with a file, told or not, only when all
\* of it is announced.
THEOREM FollowsFiles == Spec => ImplementsRoutes
<1> DEFINE awake == [h \in Frontends |-> pc[h] # "starting"]
           same == UNCHANGED <<announce, awake, new, rib>>
<1>1. Init => Routes!RoutesInit /\ Remembered
  BY DEF Init, Routes!RoutesInit, Remembered
<1>2. ASSUME IInv, Remembered, [Next]_vars
      PROVE  [Routes!RoutesNext]_(Routes!routevars)
  <2> USE DEF host, monitor
  <2>a. TypeOK
    BY <1>2 DEF IInv
  <2>1. ASSUME NEW h \in Frontends, Publish(h)
        PROVE  Routes!Put(h)
    <3>1. status[h] \in {"UP", "DOWN"}
      BY <2>1, <2>a DEF Publish, TypeOK, Statuses
    <3>2. Announce(h, status[h]) \in {Announce(h, "UP"), Announce(h, "DOWN")} \cup {{}}
      BY <3>1
    <3> QED
      BY <2>1, <3>2 DEF Publish, Routes!Put
  <2>2. ASSUME NEW h \in Frontends, RemoveFile(h)
        PROVE  Routes!Put(h)
    BY <2>2 DEF RemoveFile, Routes!Put
  <2>3. ASSUME NEW h \in Frontends, Restart(h) \/ Die(h)
        PROVE  Routes!Vanish(h)
    <3>1. PICK kept \in {rib[h], {}} : Afresh(h, kept)
      BY <2>3 DEF Restart, Die
    <3>2. awake' = [awake EXCEPT ![h] = FALSE]
      BY <2>a, <3>1 DEF Afresh, TypeOK
    <3>3. rib' = rib \/ rib' = [rib EXCEPT ![h] = {}]
      BY <2>a, <3>1 DEF Afresh, TypeOK
    <3> QED
      BY <3>1, <3>2, <3>3 DEF Afresh, Routes!Vanish
  <2>4. ASSUME NEW h \in Frontends, ScanDirs(h)
        PROVE  Routes!Hear(h)
    <3>1. awake' = [awake EXCEPT ![h] = TRUE]
      BY <2>4, <2>a DEF ScanDirs, TypeOK
    <3>2. new[h] = {}
      BY <1>2, <2>4 DEF ScanDirs, Remembered
    <3> QED
      BY <2>4, <3>1, <3>2 DEF ScanDirs, ReadFile, Routes!Hear
  <2>5. ASSUME NEW h \in Frontends, TakeEvent(h)
        PROVE  Routes!Hear(h) \/ same
    <3>1. CASE Head(events[h]) = "IN_MOVED_TO"
      <4>1. awake' = [awake EXCEPT ![h] = TRUE]
        BY <2>5, <2>a, <3>1 DEF TakeEvent, TypeOK
      <4>2. new[h] = {}
        BY <1>2, <2>5 DEF TakeEvent, Remembered
      <4> QED
        BY <2>5, <3>1, <4>1, <4>2 DEF TakeEvent, ReadFile, Routes!Hear
    <3>2. CASE Head(events[h]) # "IN_MOVED_TO"
      BY <2>5, <3>2 DEF TakeEvent
    <3> QED
      BY <3>1, <3>2
  <2>6. ASSUME NEW h \in Frontends, WriteLine(h)
        PROVE  Routes!Tell(h)
    <3>1. unwritten[h] \subseteq new[h]
      BY <1>2 DEF IInv, AllWhole
    <3>2. PICK l \in new[h] : rib' = [rib EXCEPT ![h] = Told(@, l)]
      BY <2>6, <3>1 DEF WriteLine
    <3>3. rib' = [rib EXCEPT ![h] = {q \in @ : q.ip # l.ip} \cup {l}]
      BY <3>2 DEF Told
    <3> QED
      BY <2>6, <3>3 DEF WriteLine, Routes!Tell
  <2>7. ASSUME NEW h \in Frontends, EndReload(h)
        PROVE  Routes!Done(h)
    <3>1. new[h] \subseteq rib[h]
      BY <1>2, <2>7 DEF EndReload, News, Remembered
    <3>2. UNCHANGED awake
      BY <2>7, <2>a DEF EndReload, TypeOK
    <3> QED
      BY <2>7, <3>1, <3>2 DEF EndReload, Routes!Done
  <2>8. ASSUME NEW h \in Frontends,
               (\E s \in Statuses : ChangeStatus(h, s)) \/ CreateDir(h)
        PROVE  same
    BY <2>8 DEF ChangeStatus, CreateDir
  <2>9. ASSUME NEW h \in Frontends, AddWatch(h)
        PROVE  same
    <3>1. UNCHANGED awake
      BY <2>9, <2>a DEF AddWatch, TypeOK
    <3> QED
      BY <2>9, <3>1 DEF AddWatch
  <2>10. CASE UNCHANGED vars
    BY <2>10 DEF vars, Routes!routevars
  <2>11. same => UNCHANGED Routes!routevars
    BY DEF Routes!routevars
  <2> HIDE DEF same
  <2> QED
    BY <1>2, <2>1, <2>2, <2>3, <2>4, <2>5, <2>6, <2>7, <2>8, <2>9, <2>10, <2>11
       DEF Next, MonitorStep, Routes!RoutesNext
<1> QED
  BY <1>1, <1>2, Invariance, RememberedNext, PTL
     DEF Spec, ImplementsRoutes, Routes!RoutesSpec

=============================================================================
