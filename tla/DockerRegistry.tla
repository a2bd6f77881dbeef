--------------------------- MODULE DockerRegistry ---------------------------
(***************************************************************************)
(* The weekly cleanup of a Docker registry: clean_registry_cron holds back *)
(* Puppet and writers, clean_registry.py asks registry.py to thin out the  *)
(* tags of each image, and the registry is garbage collected.              *)
(*                                                                         *)
(* A manifest is its digest.  The registry can only delete a manifest: all *)
(* tags of the image that point to it go with it, so what registry.py has  *)
(* to protect are digests, while policies are about tags.  The time a tag  *)
(* was built is that of its manifest.  A regular expression is the set of  *)
(* names it matches.  The registry itself and those who push to it are     *)
(* modelled from how registry.py uses the HTTP interface.                  *)
(***************************************************************************)
EXTENDS Integers, Sequences, FiniteSets

CONSTANTS
    Images, Tags, Digests,
    None,           \* no manifest, or no image
    Created,        \* [Digests -> the hour it was built]
    Schema1,        \* the digests of manifests of schema version 1
    Now,            \* the hour of the cleanup
    ExactImages,    \* config["exact_images"], each with its policy
    GroupImages,    \* config["group_images"], the same
    DefaultNum,     \* CONST_KEEP_LAST_VERSIONS
    KeepHours,      \* 24 * 7
    InitialTags,    \* the tags there may be to begin with
    Workers,        \* ThreadPool(4)
    MaxFaults,      \* bound on the requests that fail and the kills
    MaxPushes,      \* bound on the tags pushed
    MaxLate         \* bound on those let in before, and done after, read-only

Policy == [images : SUBSET Images, save : SUBSET Tags, delete : SUBSET Tags, num : Nat]

ASSUME RegistryAssumption ==
    /\ None \notin Images \cup Digests
    /\ IsFiniteSet(Tags)
    /\ Created \in [Digests -> Nat]
    /\ Schema1 \subseteq Digests
    /\ Now \in Nat /\ DefaultNum \in Nat /\ KeepHours \in Nat \ {0}
    /\ ExactImages \in Seq(Policy) /\ GroupImages \in Seq(Policy)
    /\ \A k \in 1..Len(ExactImages) : \E i \in Images : ExactImages[k].images = {i}
    /\ InitialTags \subseteq [Images -> [Tags -> Digests \cup {None}]]
    /\ MaxFaults \in Nat /\ MaxPushes \in Nat /\ MaxLate \in Nat

VARIABLES
    tags,           \* the registry: [Images -> [Tags -> the manifest]]
    read_only,      \* /read-only in the container registry-auth
    cosmos_off,     \* /etc/no-automatic-cosmos
    pc,             \* where the cleanup is
    call,           \* how many times clean has called main_loop
    args,           \* the arguments of the last call
    images,         \* its image_list, those still to come
    image,          \* the one it is at
    snap,           \* the tags of the image when they were listed
    todo,           \* the tags the present requests still have to be made for
    dates,          \* tags_date
    keep_tags,
    to_delete,      \* tags_list_to_delete
    keep_digests,   \* keep_tag_digests
    worker,         \* [Workers -> the manifest it is about to delete]
    stuck,          \* the workers that wait for an answer that does not come
    touched,        \* history: tags pushed since the listing
    missed,         \* history: tags a request about which has failed since
    faults, pushes, late, kills, locks      \* counters of what is bounded

host == <<read_only, cosmos_off>>
job == <<call, args, images>>
choice == <<image, snap, dates, keep_tags, to_delete>>
counters == <<faults, pushes, late, kills, locks>>
vars == <<tags, host, pc, job, choice, todo, keep_digests, worker, stuck,
          touched, missed, counters>>

\* Phases of one image, of main_loop and of the script around them
ImagePhases == {"newer", "dating", "keeping", "deleting"}
CleanPhases == ImagePhases \cup {"next", "loop"}
Phases == CleanPhases \cup {"idle", "disabled", "gc", "restart", "enable", "hung"}

Pointers == [Tags -> Digests \cup {None}]
NoTags == [t \in Tags |-> None]
NoWorker == [w \in Workers |-> None]

Args == [image : SUBSET Images, images_like : SUBSET Images, tags_like : SUBSET Tags,
         keep_tags_like : SUBSET Tags, num : Nat, keep_by_hours : Nat]

\* parse_args without options: every image, all tags, none protected
DefaultArgs ==
    [image |-> {}, images_like |-> Images, tags_like |-> Tags,
     keep_tags_like |-> {}, num |-> DefaultNum, keep_by_hours |-> 0]

PolicyArgs(p) ==
    [DefaultArgs EXCEPT !.tags_like = p.delete, !.keep_tags_like = p.save, !.num = p.num]

\* The calls clean makes for the configuration, in the order of the file
ConfiguredCalls ==
    [k \in 1..Len(ExactImages) |->
        [PolicyArgs(ExactImages[k]) EXCEPT !.image = ExactImages[k].images]]
    \o
    [k \in 1..Len(GroupImages) |->
        [PolicyArgs(GroupImages[k]) EXCEPT !.images_like = GroupImages[k].images]]

\* keep_images_like, of the images there are, for one regular expression
KeepImagesLike(all, like) == all \cap like

\* Fault: images that are configured are not left out.
UnmanagedAll(all) == all

\* get_unmanaged_images, for the images the registry names
Unmanaged(all) ==
    all \ UNION ({ExactImages[k].images : k \in 1..Len(ExactImages)} \cup
                 {KeepImagesLike(all, GroupImages[k].images) : k \in 1..Len(GroupImages)})

\* The last call of clean.  It calls main_loop for each of these images, with
\* arguments that differ in nothing else.
UnmanagedArgs(all) ==
    [DefaultArgs EXCEPT !.image = Unmanaged(all), !.keep_by_hours = KeepHours]

\* get_tags: of the tags there are, those that are handled
GetTags(p) == {t \in args.tags_like : p[t] # None}

Listed == GetTags(snap)

\* get_tag_digest and the manifest get_tag_config reads: what t points to now
TagDigest(t) == tags[image][t]

\* get_image_age, from the configuration the manifest names
ImageAge(d) == Created[d]

\* Of get_newer_tags: the manifest is not older than --keep-by-hours.
Young(d) == ImageAge(d) + args.keep_by_hours >= Now

Init ==
    /\ tags \in InitialTags
    /\ read_only = FALSE /\ cosmos_off = FALSE
    /\ pc = "idle"
    /\ call = 0 /\ args = DefaultArgs /\ images = {}
    /\ image = None /\ snap = NoTags /\ todo = {} /\ dates = <<>>
    /\ keep_tags = {} /\ to_delete = {} /\ keep_digests = {}
    /\ worker = NoWorker /\ stuck = {}
    /\ touched = {} /\ missed = {}
    /\ faults = 0 /\ pushes = 0 /\ late = 0 /\ kills = 0 /\ locks = 0
-----------------------------------------------------------------------------
(***************************************************************************)
(* clean_registry_cron                                                     *)
(***************************************************************************)
\* With cosmos disabled by whomever, it exits at once.  A cleanup of another
\* week that still waits for an answer changes nothing.
CronStart ==
    /\ pc \in {"idle", "hung"}
    /\ ~cosmos_off
    /\ cosmos_off' = TRUE
    /\ pc' = "disabled"
    /\ UNCHANGED <<tags, read_only, job, choice, todo, keep_digests, worker,
                   stuck, touched, missed, counters>>

\* A request, or a command, that fails
Fail ==
    /\ faults < MaxFaults
    /\ faults' = faults + 1
    /\ UNCHANGED <<pushes, late, kills, locks>>

\* docker exec registry-auth, and clean begins: the file counts from the next
\* request on.  The exit status is that of apache2ctl alone: nobody notices
\* that touch has failed.
SetReadOnly ==
    /\ pc = "disabled"
    /\ \/ read_only' = TRUE /\ UNCHANGED counters
       \/ Fail /\ UNCHANGED read_only
    /\ call' = 0
    /\ pc' = "next"
    /\ UNCHANGED <<tags, cosmos_off, args, images, choice, todo, keep_digests,
                   worker, stuck, touched, missed>>

\* Without the auth container, or with one that cannot reload, there is no
\* cleanup.
SetReadOnlyFails ==
    /\ pc = "disabled"
    /\ Fail
    /\ read_only' \in {read_only, TRUE}
    /\ pc' = "restart"
    /\ UNCHANGED <<tags, cosmos_off, job, choice, todo, keep_digests, worker,
                   stuck, touched, missed>>

\* What main_loop knows of an image ends with it.
Forget ==
    /\ image' = None /\ snap' = NoTags /\ todo' = {} /\ dates' = <<>>
    /\ keep_tags' = {} /\ to_delete' = {} /\ keep_digests' = {}
    /\ worker' = NoWorker /\ stuck' = {}
    /\ touched' = {} /\ missed' = {}

\* registry garbage-collect, if clean_registry.py has exited with 0
CollectGarbage ==
    /\ pc = "gc"
    /\ pc' = "restart"
    /\ UNCHANGED <<tags, host, job, choice, todo, keep_digests, worker, stuck,
                   touched, missed, counters>>

\* Once the registry has restarted, the auth container lets writers in again,
\* if docker reaches it and rm works.
SetReadWrite ==
    /\ pc = "restart"
    /\ pc' = "enable"
    /\ \/ read_only' = FALSE /\ UNCHANGED counters
       \/ /\ faults < MaxFaults
          /\ faults' = faults + 1
          /\ locks' = locks + 1
          /\ UNCHANGED <<read_only, pushes, late, kills>>
    /\ UNCHANGED <<tags, cosmos_off, job, choice, todo, keep_digests, worker,
                   stuck, touched, missed>>

EnableCosmos ==
    /\ pc = "enable"
    /\ cosmos_off' = FALSE
    /\ pc' = "idle"
    /\ UNCHANGED <<tags, read_only, job, choice, todo, keep_digests, worker,
                   stuck, touched, missed, counters>>
-----------------------------------------------------------------------------
(***************************************************************************)
(* clean and main_loop                                                     *)
(***************************************************************************)
\* The next call of main_loop for what is configured, and its image_list.  A
\* list the registry is asked for is empty if that fails.
NextCall ==
    /\ pc = "next"
    /\ call < Len(ConfiguredCalls)
    /\ call' = call + 1
    /\ args' = ConfiguredCalls[call']
    /\ \/ /\ images' = IF args'.image # {} THEN args'.image
                       ELSE KeepImagesLike(Images, args'.images_like)
          /\ UNCHANGED counters
       \/ /\ args'.image = {}
          /\ images' = {}
          /\ Fail
    /\ pc' = "loop"
    /\ UNCHANGED <<tags, host, choice, todo, keep_digests, worker, stuck, touched, missed>>

\* The calls for the other images
LastCall ==
    /\ pc = "next"
    /\ call = Len(ConfiguredCalls)
    /\ call' = call + 1
    /\ \/ args' = UnmanagedArgs(Images) /\ UNCHANGED counters
       \/ args' = UnmanagedArgs({}) /\ Fail
    /\ images' = args'.image
    /\ pc' = "loop"
    /\ UNCHANGED <<tags, host, choice, todo, keep_digests, worker, stuck, touched, missed>>

\* The image loop goes on with the tags of the next image.  One without tags,
\* or whose tags cannot be listed, is skipped.
ListTags(i) ==
    /\ pc = "loop"
    /\ i \in images
    /\ images' = images \ {i}
    /\ \/ /\ tags[i] # NoTags
          /\ image' = i
          /\ snap' = tags[i]
          /\ todo' = GetTags(snap')
          /\ keep_tags' = todo' \cap args.keep_tags_like
          /\ pc' = IF args.keep_by_hours # 0 THEN "newer" ELSE "dating"
          /\ UNCHANGED counters
       \/ /\ tags[i] = NoTags
          /\ UNCHANGED <<image, snap, todo, keep_tags, pc, counters>>
       \/ /\ Fail
          /\ UNCHANGED <<image, snap, todo, keep_tags, pc>>
    /\ UNCHANGED <<tags, host, call, args, dates, to_delete, keep_digests, worker,
                   stuck, touched, missed>>

\* main_loop returns; after the last call, the program exits with 0.
EndCall ==
    /\ pc = "loop"
    /\ images = {}
    /\ pc' = IF call > Len(ConfiguredCalls) THEN "gc" ELSE "next"
    /\ UNCHANGED <<tags, host, job, choice, todo, keep_digests, worker,
                   stuck, touched, missed, counters>>
-----------------------------------------------------------------------------
(***************************************************************************)
(* One image                                                               *)
(***************************************************************************)
\* get_tag_config in a thread of a pool: the sys.exit for a manifest of
\* version 1 ends the thread, not the program, and the pool waits for the
\* answer of that thread forever.
ThreadExits(t) ==
    /\ pc \in {"newer", "dating"}
    /\ t \in todo
    /\ TagDigest(t) \in Schema1
    /\ pc' = "hung"
    /\ Forget
    /\ UNCHANGED <<tags, host, job, counters>>

\* get_newer_tags: a tag whose age cannot be had is not kept.
GetNewer(t) ==
    /\ pc = "newer"
    /\ t \in todo
    /\ todo' = todo \ {t}
    /\ LET d == TagDigest(t)
       IN  \/ /\ d \notin Schema1
              /\ keep_tags' = keep_tags \cup {u \in {t} : d # None /\ Young(d)}
              /\ UNCHANGED <<missed, counters>>
           \/ /\ Fail
              /\ missed' = missed \cup {t}
              /\ UNCHANGED keep_tags
    /\ UNCHANGED <<tags, host, pc, job, image, snap, dates, to_delete,
                   keep_digests, worker, stuck, touched>>

StartDating ==
    /\ pc = "newer"
    /\ todo = {}
    /\ todo' = Listed
    /\ pc' = "dating"
    /\ UNCHANGED <<tags, host, job, choice, keep_digests, worker,
                   stuck, touched, missed, counters>>

\* get_datetime_tags: a tag whose age cannot be had is left out.
GetDate(t) ==
    /\ pc = "dating"
    /\ t \in todo
    /\ todo' = todo \ {t}
    /\ LET d == TagDigest(t)
       IN  \/ /\ d \in Digests \ Schema1
              /\ dates' = [u \in DOMAIN dates \cup {t} |->
                             IF u = t THEN ImageAge(d) ELSE dates[u]]
              /\ UNCHANGED counters
           \/ d = None /\ UNCHANGED <<dates, counters>>
           \/ Fail /\ UNCHANGED dates
    /\ UNCHANGED <<tags, host, pc, job, image, snap, keep_tags, to_delete,
                   keep_digests, worker, stuck, touched, missed>>

\* ordered_tags_list[-num:] when the dates in the list are in order: which of
\* those with the same date come last is open.
Latest(num) ==
    {R \in SUBSET DOMAIN dates :
        /\ Cardinality(R) = num
        /\ \A r \in R, o \in DOMAIN dates \ R : dates[r] >= dates[o]}

\* Fault: a tag without a date counts as one of the oldest.
AllButLatestUndated(num) ==
    IF num = 0 \/ Cardinality(Listed) <= num THEN {{}}
    ELSE {Listed \ R : R \in Latest(num)}

\* ordered_tags_list[:-num], which is empty if there are no more than num, and
\* also if num is 0
AllButLatest(num) ==
    IF num = 0 \/ Cardinality(DOMAIN dates) <= num THEN {{}}
    ELSE {DOMAIN dates \ R : R \in Latest(num)}

\* Fault: only the tags protected by name or age join in.
ChooseTagsOnly ==
    /\ pc = "dating"
    /\ todo = {}
    /\ to_delete' \in AllButLatest(args.num)
    /\ todo' = keep_tags
    /\ pc' = "keeping"
    /\ UNCHANGED <<tags, host, job, image, snap, dates, keep_tags, keep_digests,
                   worker, stuck, touched, missed, counters>>

\* What to delete; every other tag that is handled joins keep_tags, "to
\* prevent any manifest they are using from being deleted".
ChooseTags ==
    /\ pc = "dating"
    /\ todo = {}
    /\ to_delete' \in AllButLatest(args.num)
    /\ keep_tags' = keep_tags \cup (Listed \ to_delete')
    /\ todo' = keep_tags'
    /\ pc' = "keeping"
    /\ UNCHANGED <<tags, host, job, image, snap, dates, keep_digests, worker,
                   stuck, touched, missed, counters>>

\* delete_tags: the manifest of a tag to keep, unless that cannot be had
GetKeepDigest(t) ==
    /\ pc = "keeping"
    /\ t \in todo
    /\ todo' = todo \ {t}
    /\ \/ /\ keep_digests' = keep_digests \cup ({TagDigest(t)} \ {None})
          /\ UNCHANGED <<missed, counters>>
       \/ /\ Fail
          /\ missed' = missed \cup {t}
          /\ UNCHANGED keep_digests
    /\ UNCHANGED <<tags, host, pc, job, choice, worker, stuck, touched>>

StartDeleting ==
    /\ pc = "keeping"
    /\ todo = {}
    /\ todo' = to_delete \ keep_tags
    /\ pc' = "deleting"
    /\ UNCHANGED <<tags, host, job, choice, keep_digests, worker,
                   stuck, touched, missed, counters>>

\* Fault: a manifest that is to be kept is deleted as any other.
TakeAny(w) ==
    /\ pc = "deleting"
    /\ worker[w] = None
    /\ \E t \in todo :
        /\ \A u \in todo : dates[t] <= dates[u]
        /\ todo' = todo \ {t}
        /\ \/ worker' = [worker EXCEPT ![w] = TagDigest(t)] /\ UNCHANGED counters
           \/ Fail /\ UNCHANGED worker
    /\ UNCHANGED <<tags, host, pc, job, choice, keep_digests, stuck, touched, missed>>

\* A request of a thread that fails, or to which no answer ever comes: they are
\* made without a timeout.
FailOrWait(w) == Fail /\ stuck' \in {stuck, stuck \cup {w}}

\* Registry.delete_tag in an idle thread, up to the request to delete: the
\* oldest tag not yet taken, unless its manifest is gone or to be kept.
Take(w) ==
    /\ pc = "deleting"
    /\ worker[w] = None
    /\ w \notin stuck
    /\ \E t \in todo :
        /\ \A u \in todo : dates[t] <= dates[u]
        /\ todo' = todo \ {t}
        /\ LET d == TagDigest(t)
           IN  \/ /\ worker' = [worker EXCEPT ![w] = IF d \in keep_digests THEN None ELSE d]
                  /\ UNCHANGED <<stuck, counters>>
               \/ FailOrWait(w) /\ UNCHANGED worker
    /\ UNCHANGED <<tags, host, pc, job, choice, keep_digests, touched, missed>>

\* Fault: the digest is recorded, the manifest is not deleted.
DeleteLess(w) ==
    /\ pc = "deleting"
    /\ worker[w] # None
    /\ worker' = [worker EXCEPT ![w] = None]
    /\ keep_digests' = keep_digests \cup {worker[w]}
    /\ UNCHANGED <<tags, host, pc, job, choice, todo, stuck, touched, missed, counters>>

\* The registry without a manifest: every tag of the image that points to it
\* goes with it.
Without(d) ==
    [tags EXCEPT ![image] = [t \in Tags |-> IF @[t] = d THEN None ELSE @[t]]]

\* The rest of delete_tag.  A manifest that is deleted is not to be asked for
\* again; one that was may be gone without an answer that says so.
Delete(w) ==
    /\ pc = "deleting"
    /\ worker[w] # None
    /\ worker' = [worker EXCEPT ![w] = None]
    /\ \/ /\ tags' = Without(worker[w])
          /\ keep_digests' = keep_digests \cup {worker[w]}
          /\ UNCHANGED <<stuck, counters>>
       \/ /\ FailOrWait(w)
          /\ tags' \in {tags, Without(worker[w])}
          /\ UNCHANGED keep_digests
    /\ UNCHANGED <<host, pc, job, choice, todo, touched, missed>>

EndImage ==
    /\ pc = "deleting"
    /\ todo = {}
    /\ worker = NoWorker
    /\ stuck = {}
    /\ pc' = "loop"
    /\ Forget
    /\ UNCHANGED <<tags, host, job, counters>>

\* When the other threads have done what there is to do, delete_tags waits for
\* the result of one that waits itself.
WaitForThread ==
    /\ pc = "deleting"
    /\ worker = NoWorker
    /\ stuck # {}
    /\ todo = {} \/ Workers \subseteq stuck
    /\ pc' = "hung"
    /\ Forget
    /\ UNCHANGED <<tags, host, job, counters>>
-----------------------------------------------------------------------------
(***************************************************************************)
(* What may end it early, and the others                                   *)
(***************************************************************************)
\* Fault: an exception ends the script around the program, too (set -e).
AbortAll ==
    /\ pc \in CleanPhases
    /\ Fail
    /\ pc' = "idle"
    /\ Forget
    /\ UNCHANGED <<tags, host, job>>

\* An exception that nothing catches: a connection that breaks, a field that
\* an answer lacks.  The threads end with the program and there is no garbage
\* collection.
Abort ==
    /\ pc \in CleanPhases
    /\ Fail
    /\ pc' = "restart"
    /\ Forget
    /\ UNCHANGED <<tags, host, job>>

\* Any other request that is never answered: what is waited for, in a thread or
\* not, does not come.
Unanswered ==
    /\ \/ pc = "next"
       \/ pc = "loop" /\ images # {}
       \/ pc \in {"newer", "dating", "keeping"} /\ todo # {}
    /\ Fail
    /\ pc' = "hung"
    /\ Forget
    /\ UNCHANGED <<tags, host, job>>

\* A kill or a reboot: nobody removes the two files.
Kill ==
    /\ pc # "idle"
    /\ faults < MaxFaults
    /\ faults' = faults + 1
    /\ kills' = kills + 1
    /\ pc' = "idle"
    /\ Forget
    /\ UNCHANGED <<tags, host, job, pushes, late, locks>>

\* An operator disables or enables cosmos, at any time: for one after finding
\* it left disabled.
Operator ==
    /\ cosmos_off' = ~cosmos_off
    /\ UNCHANGED <<tags, read_only, pc, job, choice, todo, keep_digests, worker,
                   stuck, touched, missed, counters>>

\* A tag is pushed.  A request let in before the registry was read-only may
\* take effect after that.
Push(i, t, d) ==
    /\ d # tags[i][t]
    /\ pushes < MaxPushes
    /\ pushes' = pushes + 1
    /\ read_only => late < MaxLate
    /\ late' = IF read_only THEN late + 1 ELSE late
    /\ tags' = [tags EXCEPT ![i][t] = d]
    /\ touched' = touched \cup {u \in {t} : i = image}
    /\ UNCHANGED <<host, pc, job, choice, todo, keep_digests, worker, missed,
                   stuck, faults, kills, locks>>
-----------------------------------------------------------------------------
Script ==
    \/ SetReadOnly \/ SetReadOnlyFails \/ CollectGarbage \/ SetReadWrite
    \/ EnableCosmos

Cleanup ==
    \/ NextCall \/ LastCall \/ EndCall \/ StartDating \/ ChooseTags
    \/ StartDeleting \/ EndImage \/ WaitForThread
    \/ \E i \in Images : ListTags(i)
    \/ \E t \in Tags : ThreadExits(t) \/ GetNewer(t) \/ GetDate(t) \/ GetKeepDigest(t)
    \/ \E w \in Workers : Take(w) \/ Delete(w)

Next ==
    \/ CronStart \/ Script \/ Cleanup \/ Abort \/ Unanswered \/ Kill \/ Operator
    \/ \E i \in Images, t \in Tags, d \in Digests : Push(i, t, d)

Spec == Init /\ [][Next]_vars

\* The script and its programs are scheduled.  A request is answered, fails, or
\* leaves them in "hung", where nothing is assumed; nor is anything of cron,
\* operators and those who push.
FairSpec == Spec /\ WF_vars(Script) /\ WF_vars(Cleanup)
-----------------------------------------------------------------------------
\* Every variable has its type.
TypeOK ==
    /\ tags \in [Images -> Pointers]
    /\ read_only \in BOOLEAN /\ cosmos_off \in BOOLEAN
    /\ pc \in Phases
    /\ call \in Nat /\ args \in Args /\ images \subseteq Images
    /\ image \in Images \cup {None}
    /\ pc \in ImagePhases => image \in Images
    /\ snap \in Pointers
    /\ todo \subseteq Tags
    /\ DOMAIN dates \subseteq Tags /\ dates \in [DOMAIN dates -> Nat]
    /\ keep_tags \subseteq Tags /\ to_delete \subseteq DOMAIN dates
    /\ keep_digests \subseteq Digests
    /\ worker \in [Workers -> Digests \cup {None}] /\ stuck \subseteq Workers
    /\ touched \subseteq Tags /\ missed \subseteq Tags
    /\ faults \in Nat /\ pushes \in Nat /\ late \in Nat /\ kills \in Nat /\ locks \in Nat

\* The tags that were listed and are at least as new as t, as far as can be
\* told: one pushed since may have any date.
Rivals(t) ==
    {u \in Listed \ {t} : u \in touched \/ Created[snap[u]] >= Created[snap[t]]}

\* The arguments promise to keep t: for its name, its age, or because it is
\* one of the newest.
Promised(t) ==
    /\ t \in Listed
    /\ \/ t \in args.keep_tags_like
       \/ args.keep_by_hours # 0 /\ Young(snap[t])
       \/ args.num = 0
       \/ Cardinality(Rivals(t)) < args.num

\* Every tag the policy of the image promises to keep still points to what it
\* pointed to when the tags were listed, unless it was pushed since or a
\* request about it failed: it is neither deleted nor does it lose its
\* manifest to another tag that is deleted, whichever threads delete at once,
\* whatever is pushed late, fails or is killed.
PolicyRespected ==
    \A t \in Tags :
        pc \in ImagePhases /\ Promised(t) /\ t \notin touched \cup missed =>
            tags[image][t] = snap[t]

\* "delete all but last {0} tags" (registry.py:446): that many tags remain, if
\* there are as many, where of tags that are as old any may be taken for the
\* last ones.  Tags that are deleted do not take others along.
EnoughRemain ==
    pc \in ImagePhases =>
        LET there == {t \in Listed : \/ tags[image][t] = snap[t]
                                     \/ t \in touched \cup missed}
        IN  there = Listed \/ Cardinality(there) >= args.num

\* The same for every failure: "Explicitly add those tags that we want to
\* preserve to the keep_tags list, to prevent any manifest they are using from
\* being deleted" (registry.py:832-834).
KeepTagsSurvive ==
    \A t \in Tags :
        pc \in ImagePhases /\ Promised(t) /\ t \notin touched =>
            tags[image][t] = snap[t]

\* If no request has failed, an image has been done when no tag that was to be
\* deleted is left, but for those that share their manifest with a tag to keep
\* and those pushed since.
Thorough ==
    [][EndImage /\ faults = 0 =>
        \A t \in to_delete \ touched :
            \/ tags[image][t] = None
            \/ \E u \in keep_tags : snap[u] = snap[t] \/ u \in touched]_vars

\* The policies the configuration has for an image, by its name and by groups
ConfiguredPolicies(i) ==
    {p \in {ExactImages[k] : k \in 1..Len(ExactImages)} \cup
           {GroupImages[k] : k \in 1..Len(GroupImages)} : i \in p.images}

\* The one of an image for which there is none: what is younger than a week is
\* saved, if its age could be had.
DefaultPolicy ==
    [images |-> Images,
     save |-> {t \in Tags \ (touched \cup missed) :
                 snap[t] # None /\ Created[snap[t]] + KeepHours >= Now},
     delete |-> Tags,
     num |-> DefaultNum]

PoliciesOf(i) ==
    IF ConfiguredPolicies(i) = {} THEN {DefaultPolicy} ELSE ConfiguredPolicies(i)

\* The policy p lets the tag u go: it is one to delete and not one to save, and
\* among those to delete there are as many to keep that are at least as new.
LetsGo(p, u) ==
    /\ u \in p.delete \ p.save /\ snap[u] # None
    /\ p.num # 0
    /\ u \notin touched =>
         Cardinality({v \in p.delete \ {u} :
                        /\ snap[v] # None
                        /\ v \in touched \/ Created[snap[v]] >= Created[snap[u]]}) >= p.num

\* A tag only disappears while its image is cleaned, and because its manifest is
\* that of a tag which a policy the configuration has for that image lets go,
\* whether or not the registry did become read-only.  In particular, an image with
\* a policy never falls to the default of registry.py.  A tag pushed since the
\* listing may have had any manifest.
DeletionHasPolicy ==
    [][\A i \in Images, t \in Tags :
         tags[i][t] # None /\ tags'[i][t] = None =>
             /\ i = image
             /\ \E u \in Tags, p \in PoliciesOf(i) :
                   LetsGo(p, u) /\ (snap[u] = tags[i][t] \/ u \in touched)]_vars

\* A cleanup that gets an answer to each of its requests, be it an error, and is
\* not killed comes to its end, with cosmos enabled and writers let in again
\* unless docker does not reach the auth container on the way back: neither a
\* container that cannot be made read-only, nor an image, a policy or the whole
\* program failing, nor garbage that is not collected keeps it from there.
CleanupEnds ==
    pc = "disabled" ~>
        \/ pc = "idle" /\ ~cosmos_off /\ (read_only => locks > 0)
        \/ kills > 0
        \/ pc = "hung"

\* "Enabling Cosmos again by removing /etc/no-automatic-cosmos": a cleanup
\* that is not killed does.
CosmosEnabledAgain == pc = "disabled" ~> ~cosmos_off \/ kills > 0

=============================================================================
