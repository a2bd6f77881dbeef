------------------------ MODULE DockerRegistryProofs ------------------------
(***************************************************************************)
(* Theorems about DockerRegistry: for any images, tags, manifests and      *)
(* policies, any number of threads, failures, late pushes and kills.       *)
(***************************************************************************)
EXTENDS DockerRegistry, FiniteSetTheorems, TLAPS

\* What clean asks for are arguments that parse_args gives.
LEMMA CallsAreArgs ==
    /\ DefaultArgs \in Args
    /\ Len(ConfiguredCalls) \in Nat
    /\ \A k \in 1..Len(ConfiguredCalls) : ConfiguredCalls[k] \in Args
    /\ \A all \in SUBSET Images : UnmanagedArgs(all) \in Args
<1>1. DefaultArgs \in Args
  BY RegistryAssumption DEF DefaultArgs, Args
<1>2. ASSUME NEW p \in Policy
      PROVE  /\ PolicyArgs(p) \in Args
             /\ [PolicyArgs(p) EXCEPT !.image = p.images] \in Args
             /\ [PolicyArgs(p) EXCEPT !.images_like = p.images] \in Args
  BY <1>1 DEF Policy, PolicyArgs, Args
<1> DEFINE exact == [k \in 1..Len(ExactImages) |->
                       [PolicyArgs(ExactImages[k]) EXCEPT !.image = ExactImages[k].images]]
           group == [k \in 1..Len(GroupImages) |->
                       [PolicyArgs(GroupImages[k]) EXCEPT !.images_like = GroupImages[k].images]]
<1>3. exact \in Seq(Args) /\ group \in Seq(Args)
  <2>1. /\ Len(ExactImages) \in Nat /\ Len(GroupImages) \in Nat
        /\ \A k \in 1..Len(ExactImages) : ExactImages[k] \in Policy
        /\ \A k \in 1..Len(GroupImages) : GroupImages[k] \in Policy
    BY RegistryAssumption
  <2>2. \A k \in 1..Len(ExactImages) : exact[k] \in Args
    BY <1>2, <2>1
  <2>3. \A k \in 1..Len(GroupImages) : group[k] \in Args
    BY <1>2, <2>1
  <2> QED
    BY <2>1, <2>2, <2>3
<1>4. ConfiguredCalls \in Seq(Args)
  <2>1. ConfiguredCalls = exact \o group
    BY DEF ConfiguredCalls
  <2> QED
    BY <1>3, <2>1
<1>5. ASSUME NEW all \in SUBSET Images
      PROVE  UnmanagedArgs(all) \in Args
  <2>1. Unmanaged(all) \in SUBSET Images
    BY DEF Unmanaged, KeepImagesLike
  <2> QED
    BY <1>1, <2>1, RegistryAssumption DEF UnmanagedArgs, Args
<1> QED
  BY <1>1, <1>4, <1>5

\* A pushed or deleted tag leaves the registry in order.
LEMMA PointersChange ==
    ASSUME NEW p \in Pointers, NEW d \in Digests
    PROVE  /\ \A t \in Tags : [p EXCEPT ![t] = d] \in Pointers
           /\ \A e : [t \in Tags |-> IF p[t] = e THEN None ELSE p[t]] \in Pointers
  BY DEF Pointers

-----------------------------------------------------------------------------
\* DockerRegistry's type invariant holds from the start.
LEMMA TypeInit == Init => TypeOK
<1> SUFFICES ASSUME Init PROVE TypeOK
  OBVIOUS
<1>1. NoTags \in Pointers /\ NoWorker \in [Workers -> Digests \cup {None}]
  BY DEF NoTags, Pointers, NoWorker
<1>2. dates = <<>> /\ DOMAIN dates = {}
  BY DEF Init
<1>3. dates \in [DOMAIN dates -> Nat]
  BY <1>2
<1>4. tags \in [Images -> Pointers]
  BY RegistryAssumption DEF Init, Pointers
<1> QED
  BY <1>1, <1>2, <1>3, <1>4, CallsAreArgs DEF Init, TypeOK, Phases, ImagePhases

\* Forgetting an image keeps types.
LEMMA ForgetType ==
    ASSUME Forget
    PROVE  /\ image' \in Images \cup {None} /\ snap' \in Pointers
           /\ todo' \subseteq Tags
           /\ DOMAIN dates' \subseteq Tags /\ dates' \in [DOMAIN dates' -> Nat]
           /\ keep_tags' \subseteq Tags /\ to_delete' \subseteq DOMAIN dates'
           /\ keep_digests' \subseteq Digests
           /\ worker' \in [Workers -> Digests \cup {None}] /\ stuck' = {}
           /\ touched' \subseteq Tags /\ missed' \subseteq Tags
<1>1. dates' = <<>> /\ DOMAIN dates' = {}
  BY DEF Forget
<1>2. dates' \in [DOMAIN dates' -> Nat]
  BY <1>1
<1> QED
  BY <1>1, <1>2 DEF Forget, NoTags, Pointers, NoWorker

\* Every step keeps types.
LEMMA TypeNext == TypeOK /\ [Next]_vars => TypeOK'
<1> SUFFICES ASSUME TypeOK, [Next]_vars PROVE TypeOK'
  OBVIOUS
<1> USE DEF TypeOK, host, job, choice, counters
<1>a. Fail => /\ faults' \in Nat /\ pushes' \in Nat /\ late' \in Nat
              /\ kills' \in Nat /\ locks' \in Nat
  BY DEF Fail
<1>b. UNCHANGED <<todo, keep_digests, worker, touched, missed, choice>> =>
        /\ snap' \in Pointers /\ todo' \subseteq Tags
        /\ DOMAIN dates' \subseteq Tags /\ dates' \in [DOMAIN dates' -> Nat]
        /\ keep_tags' \subseteq Tags /\ to_delete' \subseteq DOMAIN dates'
  OBVIOUS
<1>1. CASE CronStart
  BY <1>1 DEF CronStart, Phases, CleanPhases, ImagePhases
<1>2. CASE Script
  <2>1. CASE SetReadOnly
    BY <2>1, <1>a DEF SetReadOnly, Phases, CleanPhases, ImagePhases
  <2>2. CASE SetReadOnlyFails
    BY <2>2, <1>a DEF SetReadOnlyFails, Phases, CleanPhases, ImagePhases
  <2>3. CASE CollectGarbage
    BY <2>3 DEF CollectGarbage, Phases, CleanPhases, ImagePhases
  <2>4. CASE SetReadWrite
    <3>1. /\ faults' \in Nat /\ pushes' \in Nat /\ late' \in Nat
          /\ kills' \in Nat /\ locks' \in Nat
      BY <2>4 DEF SetReadWrite
    <3>2. read_only' \in BOOLEAN /\ pc' \in Phases /\ pc' \notin ImagePhases
      BY <2>4 DEF SetReadWrite, Phases, CleanPhases, ImagePhases
    <3> QED
      BY <2>4, <3>1, <3>2 DEF SetReadWrite
  <2>5. CASE EnableCosmos
    BY <2>5 DEF EnableCosmos, Phases, CleanPhases, ImagePhases
  <2> QED
    BY <1>2, <2>1, <2>2, <2>3, <2>4, <2>5 DEF Script
<1>3. CASE Cleanup
  <2>1. CASE NextCall
    <3>1. call' \in 1..Len(ConfiguredCalls) /\ args' \in Args
      BY <2>1, CallsAreArgs DEF NextCall
    <3>2. images' \subseteq Images
      BY <2>1, <3>1 DEF NextCall, Args, KeepImagesLike
    <3>3. /\ faults' \in Nat /\ pushes' \in Nat /\ late' \in Nat
          /\ kills' \in Nat /\ locks' \in Nat
      BY <2>1, <1>a DEF NextCall
    <3>4. call' \in Nat /\ pc' \in Phases /\ pc' \notin ImagePhases
      BY <2>1 DEF NextCall, Phases, CleanPhases, ImagePhases
    <3> QED
      BY <2>1, <3>1, <3>2, <3>3, <3>4 DEF NextCall
  <2>2. CASE LastCall
    <3>1. args' \in Args
      BY <2>2, CallsAreArgs DEF LastCall
    <3>2. images' \subseteq Images
      BY <2>2, <3>1 DEF LastCall, Args
    <3> QED
      BY <2>2, <1>a, <3>1, <3>2 DEF LastCall, Phases, CleanPhases, ImagePhases
  <2>3. CASE EndCall
    BY <2>3 DEF EndCall, Phases, CleanPhases, ImagePhases
  <2>4. CASE StartDating
    <3>1. Listed \subseteq Tags
      BY DEF Listed, GetTags, Args
    <3> QED
      BY <2>4, <3>1 DEF StartDating, Phases, CleanPhases, ImagePhases
  <2>5. CASE ChooseTags
    <3>1. Listed \subseteq Tags
      BY DEF Listed, GetTags, Args
    <3>2. to_delete' \subseteq DOMAIN dates
      BY <2>5 DEF ChooseTags, AllButLatest
    <3> QED
      BY <2>5, <3>1, <3>2 DEF ChooseTags, Phases, CleanPhases, ImagePhases
  <2>6. CASE StartDeleting
    BY <2>6 DEF StartDeleting, Phases, CleanPhases, ImagePhases
  <2>7. CASE EndImage
    BY <2>7, ForgetType DEF EndImage, Phases, CleanPhases, ImagePhases
  <2>8. ASSUME NEW i \in Images, ListTags(i)
        PROVE  TypeOK'
    <3>1. CASE /\ image' = i /\ snap' = tags[i] /\ todo' = GetTags(snap')
               /\ keep_tags' = todo' \cap args.keep_tags_like
               /\ pc' \in {"newer", "dating"}
               /\ UNCHANGED counters
      <4>1. snap' \in Pointers /\ todo' \subseteq Tags /\ keep_tags' \subseteq Tags
        BY <2>8, <3>1 DEF ListTags, GetTags, Args
      <4> QED
        BY <2>8, <3>1, <4>1 DEF ListTags, Phases, CleanPhases, ImagePhases
    <3>2. CASE /\ UNCHANGED <<image, snap, todo, keep_tags, pc>>
               /\ Fail \/ UNCHANGED counters
      BY <2>8, <3>2, <1>a DEF ListTags
    <3> QED
      BY <2>8, <3>1, <3>2 DEF ListTags
  <2>9. ASSUME NEW t \in Tags, ThreadExits(t)
        PROVE  TypeOK'
    BY <2>9, ForgetType DEF ThreadExits, Phases, CleanPhases, ImagePhases
  <2>10. ASSUME NEW t \in Tags, GetNewer(t)
         PROVE  TypeOK'
    BY <2>10, <1>a DEF GetNewer, TagDigest
  <2>11. ASSUME NEW t \in Tags, GetDate(t)
         PROVE  TypeOK'
    <3>1. CASE UNCHANGED dates
      BY <2>11, <3>1, <1>a DEF GetDate, TagDigest, ImageAge
    <3>2. CASE tags[image][t] \in Digests \ Schema1
               /\ dates' = [u \in DOMAIN dates \cup {t} |->
                              IF u = t THEN Created[tags[image][t]] ELSE dates[u]]
      <4>1. dates' \in [DOMAIN dates \cup {t} -> Nat]
        BY <3>2, RegistryAssumption
      <4>2. DOMAIN dates' = DOMAIN dates \cup {t}
        BY <3>2
      <4> QED
        BY <2>11, <4>1, <4>2, <1>a DEF GetDate, TagDigest, ImageAge
    <3> QED
      BY <2>11, <3>1, <3>2 DEF GetDate, TagDigest, ImageAge
  <2>12. ASSUME NEW t \in Tags, GetKeepDigest(t)
         PROVE  TypeOK'
    <3>1. image \in Images /\ tags[image][t] \in Digests \cup {None}
      BY <2>12 DEF GetKeepDigest, TagDigest, ImagePhases, Pointers
    <3> QED
      BY <2>12, <3>1, <1>a DEF GetKeepDigest, TagDigest
  <2>13. ASSUME NEW w \in Workers, Take(w)
         PROVE  TypeOK'
    <3>1. worker' \in [Workers -> Digests \cup {None}]
      <4>1. image \in Images
        BY <2>13 DEF Take, TagDigest, ImagePhases
      <4>2. PICK t \in todo :
              \/ worker' = [worker EXCEPT ![w] =
                              IF tags[image][t] \in keep_digests THEN None
                              ELSE tags[image][t]]
              \/ UNCHANGED worker
        BY <2>13 DEF Take, TagDigest
      <4>3. tags[image][t] \in Digests \cup {None}
        BY <4>1, <4>2 DEF Pointers
      <4> QED
        BY <4>2, <4>3
    <3> QED
      BY <2>13, <3>1, <1>a DEF Take, TagDigest, FailOrWait
  <2>14. ASSUME NEW w \in Workers, Delete(w)
         PROVE  TypeOK'
    <3>1. image \in Images /\ worker[w] \in Digests
      BY <2>14 DEF Delete, ImagePhases
    <3>2. tags' \in [Images -> Pointers]
      <4>1. \/ UNCHANGED tags
            \/ tags' = [tags EXCEPT ![image] =
                          [t \in Tags |-> IF tags[image][t] = worker[w] THEN None
                                          ELSE tags[image][t]]]
        BY <2>14, <3>1 DEF Delete, Without
      <4>2. [t \in Tags |-> IF tags[image][t] = worker[w] THEN None
                             ELSE tags[image][t]] \in Pointers
        BY <3>1, PointersChange
      <4> QED
        BY <3>1, <4>1, <4>2
    <3>3. worker' \in [Workers -> Digests \cup {None}] /\ stuck' \subseteq Workers
      BY <2>14 DEF Delete, FailOrWait
    <3> QED
      BY <2>14, <3>1, <3>2, <3>3, <1>a DEF Delete, FailOrWait
  <2>15. CASE WaitForThread
    BY <2>15, ForgetType DEF WaitForThread, Phases, CleanPhases, ImagePhases
  <2> QED
    BY <1>3, <2>1, <2>2, <2>3, <2>4, <2>5, <2>6, <2>7, <2>8, <2>9, <2>10,
       <2>11, <2>12, <2>13, <2>14, <2>15 DEF Cleanup
<1>4. CASE Abort
  BY <1>4, <1>a, ForgetType DEF Abort, Phases, CleanPhases, ImagePhases
<1>5. CASE Kill
  BY <1>5, ForgetType DEF Kill, Phases, CleanPhases, ImagePhases
<1>6. CASE Operator
  BY <1>6 DEF Operator
<1>7. ASSUME NEW i \in Images, NEW t \in Tags, NEW d \in Digests, Push(i, t, d)
      PROVE  TypeOK'
  <2>1. tags' = [tags EXCEPT ![i] = [tags[i] EXCEPT ![t] = d]]
    BY <1>7 DEF Push
  <2>2. tags' \in [Images -> Pointers]
    BY <2>1, PointersChange
  <2>3. late' \in Nat
    BY <1>7 DEF Push
  <2> QED
    BY <1>7, <2>2, <2>3 DEF Push
<1>8. CASE UNCHANGED vars
  BY <1>8 DEF vars
<1>9. CASE Unanswered
  BY <1>9, <1>a, ForgetType DEF Unanswered, Phases, CleanPhases, ImagePhases
<1> QED
  BY <1>1, <1>2, <1>3, <1>4, <1>5, <1>6, <1>7, <1>8, <1>9 DEF Next

\* Every variable keeps its type.
THEOREM TypeCorrect == Spec => []TypeOK
BY TypeInit, TypeNext, PTL DEF Spec
-----------------------------------------------------------------------------
(***************************************************************************)
(* That promised tags survive.  Until the first manifest is deleted, the   *)
(* tags are those that were listed; from then on, the manifests of tags to *)
(* keep are in keep_digests and no thread has one of them in hand.  That   *)
(* every promised tag is among the tags to keep takes one part for each    *)
(* promise.                                                                *)
(***************************************************************************)
\* The tags to keep that nobody has pushed and no request has failed for
Settled == keep_tags \ (touched \cup missed)

\* Between images nothing is remembered of any.
Forgotten ==
    pc \notin ImagePhases =>
        /\ image = None /\ dates = <<>> /\ keep_digests = {}
        /\ worker = NoWorker /\ touched = {} /\ missed = {}

\* The registry is as it was listed.
AsListed ==
    pc \in {"newer", "dating", "keeping"} =>
        /\ worker = NoWorker
        /\ \A t \in Tags \ touched : tags[image][t] = snap[t]

\* What is asked for and kept has been listed, with these dates.
OfListed ==
    pc \in ImagePhases =>
        /\ pc \in {"newer", "dating"} => todo \subseteq Listed
        /\ keep_tags \subseteq Listed
        /\ \A t \in DOMAIN dates :
             t \in Listed /\ (t \in touched \/ dates[t] = Created[snap[t]])

NamedKept == pc \in ImagePhases => Listed \cap args.keep_tags_like \subseteq keep_tags

YoungKept ==
    pc \in ImagePhases /\ args.keep_by_hours # 0 =>
        \A t \in Listed \ (touched \cup missed) :
            Young(snap[t]) => t \in keep_tags \/ (pc = "newer" /\ t \in todo)

NewestKept ==
    pc \in {"keeping", "deleting"} =>
        /\ Listed \ to_delete \subseteq keep_tags
        /\ to_delete = {} \/ Cardinality(Listed \ to_delete) >= args.num
        /\ \A t \in to_delete \ touched :
             args.num # 0 /\ Cardinality(Rivals(t)) >= args.num

DigestsKept ==
    pc \in {"keeping", "deleting"} =>
        \A t \in Settled :
            snap[t] \in keep_digests \/ (pc = "keeping" /\ t \in todo)

KeptStay ==
    pc = "deleting" =>
        \A t \in Settled :
            tags[image][t] = snap[t] /\ \A w \in Workers : worker[w] # snap[t]

KeptTagsStay ==
    /\ Forgotten /\ AsListed /\ OfListed /\ NamedKept
    /\ YoungKept /\ NewestKept /\ DigestsKept /\ KeptStay

\* A promised tag is one to keep, from when those have been chosen.
LEMMA PromisedIsKept ==
    ASSUME TypeOK, KeptTagsStay, pc \in {"keeping", "deleting"},
           NEW t \in Tags, Promised(t), t \notin touched \cup missed
    PROVE  t \in Settled
<1>1. t \in Listed
  BY DEF Promised
<1>2. CASE t \in args.keep_tags_like
  BY <1>1, <1>2 DEF KeptTagsStay, NamedKept, ImagePhases, Settled
<1>3. CASE args.keep_by_hours # 0 /\ Young(snap[t])
  BY <1>1, <1>3 DEF KeptTagsStay, YoungKept, ImagePhases, Settled
<1>4. CASE args.num = 0 \/ Cardinality(Rivals(t)) < args.num
  <2>1. Rivals(t) \subseteq Tags /\ IsFiniteSet(Rivals(t))
    <3>1. Rivals(t) \subseteq Tags
      BY DEF Rivals, Listed, GetTags, TypeOK, Args
    <3> QED
      BY <3>1, RegistryAssumption, FS_Subset
  <2>2. Cardinality(Rivals(t)) \in Nat /\ args.num \in Nat
    BY <2>1, FS_CardinalityType DEF TypeOK, Args
  <2>3. t \notin to_delete
    BY <1>4, <2>2 DEF KeptTagsStay, NewestKept
  <2> QED
    BY <1>1, <2>3 DEF KeptTagsStay, NewestKept, Settled
<1> QED
  BY <1>2, <1>3, <1>4 DEF Promised

\* So none of them is gone.
LEMMA KeptTagsStayImplies == TypeOK /\ KeptTagsStay => PolicyRespected
<1> SUFFICES ASSUME TypeOK, KeptTagsStay, pc \in ImagePhases,
                    NEW t \in Tags, Promised(t), t \notin touched \cup missed
             PROVE  tags[image][t] = snap[t]
  BY DEF PolicyRespected
<1>1. CASE pc = "deleting"
  BY <1>1, PromisedIsKept DEF KeptTagsStay, KeptStay
<1>2. CASE pc # "deleting"
  BY <1>2 DEF KeptTagsStay, AsListed, ImagePhases
<1> QED
  BY <1>1, <1>2

\* Besides, of those that are not to be deleted there are enough.
LEMMA KeptTagsStayEnough == TypeOK /\ KeptTagsStay => EnoughRemain
<1> DEFINE there == {t \in Listed : \/ tags[image][t] = snap[t]
                                    \/ t \in touched \cup missed}
<1> SUFFICES ASSUME TypeOK, KeptTagsStay, pc \in ImagePhases
             PROVE  there = Listed \/ Cardinality(there) >= args.num
  BY DEF EnoughRemain
<1>1. Listed \subseteq Tags
  BY DEF Listed, GetTags, TypeOK, Args
<1>2. CASE pc # "deleting"
  BY <1>1, <1>2 DEF KeptTagsStay, AsListed, ImagePhases
<1>3. CASE pc = "deleting"
  <2>1. Listed \ to_delete \subseteq there
    <3> SUFFICES ASSUME NEW t \in Listed \ to_delete, t \notin touched \cup missed
                 PROVE  tags[image][t] = snap[t]
      OBVIOUS
    <3>1. t \in Settled
      BY <1>3 DEF KeptTagsStay, NewestKept, Settled
    <3> QED
      BY <1>3, <3>1 DEF KeptTagsStay, KeptStay
  <2>2. CASE to_delete = {}
    BY <2>1, <2>2
  <2>3. CASE Cardinality(Listed \ to_delete) >= args.num
    <3>1. IsFiniteSet(there)
      BY <1>1, RegistryAssumption, FS_Subset
    <3>2. /\ Cardinality(Listed \ to_delete) <= Cardinality(there)
          /\ Cardinality(Listed \ to_delete) \in Nat /\ Cardinality(there) \in Nat
      BY <2>1, <3>1, FS_Subset, FS_CardinalityType
    <3>3. args.num \in Nat
      BY DEF TypeOK, Args
    <3> QED
      BY <2>3, <3>2, <3>3
  <2> QED
    BY <1>3, <2>2, <2>3 DEF KeptTagsStay, NewestKept
<1> QED
  BY <1>2, <1>3

\* A step that forgets the image, and one between images, keeps it so.
LEMMA StaysForgotten ==
    ASSUME pc' \notin ImagePhases,
           \/ Forget
           \/ /\ Forgotten
              /\ pc \notin ImagePhases
              /\ UNCHANGED <<choice, keep_digests, worker, touched, missed>>
    PROVE  KeptTagsStay'
  BY DEF Forget, Forgotten, choice, KeptTagsStay, AsListed, OfListed, NamedKept,
         YoungKept, NewestKept, DigestsKept, KeptStay, ImagePhases

\* Of a tag that is chosen for deletion, at least as many as are to be kept are
\* as new, or have been pushed since.
LEMMA SortedDeleted ==
    ASSUME TypeOK, KeptTagsStay, pc = "dating", ChooseTags, NEW t \in to_delete' \ touched
    PROVE  args.num # 0 /\ Cardinality(Rivals(t)) >= args.num
<1>1. args.num # 0
  BY DEF ChooseTags, AllButLatest
<1>2. PICK R \in Latest(args.num) : to_delete' = DOMAIN dates \ R
  BY <1>1 DEF ChooseTags, AllButLatest
<1>3. /\ R \subseteq DOMAIN dates /\ Cardinality(R) = args.num
      /\ \A r \in R : dates[r] >= dates[t]
      /\ t \in DOMAIN dates /\ t \notin R
  BY <1>2 DEF Latest
<1>4. R \subseteq Rivals(t)
  <2> SUFFICES ASSUME NEW r \in R PROVE r \in Rivals(t)
    OBVIOUS
  <2>1. r \in Listed /\ (r \in touched \/ dates[r] = Created[snap[r]])
    BY <1>3 DEF KeptTagsStay, OfListed, ImagePhases
  <2>2. dates[t] = Created[snap[t]]
    BY <1>3 DEF KeptTagsStay, OfListed, ImagePhases
  <2>3. r # t /\ dates[r] >= dates[t]
    BY <1>3
  <2> QED
    BY <2>1, <2>2, <2>3 DEF Rivals
<1>5. IsFiniteSet(Rivals(t))
  <2>1. Rivals(t) \subseteq Tags
    BY DEF Rivals, Listed, GetTags, TypeOK, Args
  <2> QED
    BY <2>1, RegistryAssumption, FS_Subset
<1>6. Cardinality(R) <= Cardinality(Rivals(t))
  BY <1>4, <1>5, FS_Subset
<1> QED
  BY <1>1, <1>3, <1>6

\* As many as are to be kept are not chosen.
LEMMA EnoughChosen ==
    ASSUME TypeOK, KeptTagsStay, pc = "dating", ChooseTags, to_delete' # {}
    PROVE  Cardinality(Listed \ to_delete') >= args.num
<1>1. PICK R \in Latest(args.num) : to_delete' = DOMAIN dates \ R
  BY DEF ChooseTags, AllButLatest
<1>2. R \subseteq DOMAIN dates /\ Cardinality(R) = args.num
  BY <1>1 DEF Latest
<1>3. DOMAIN dates \subseteq Listed
  BY DEF KeptTagsStay, OfListed, ImagePhases
<1>4. R \subseteq Listed \ to_delete'
  BY <1>1, <1>2, <1>3
<1>5. IsFiniteSet(Listed \ to_delete')
  <2>1. Listed \ to_delete' \subseteq Tags
    BY DEF Listed, GetTags, TypeOK, Args
  <2> QED
    BY <2>1, RegistryAssumption, FS_Subset
<1> QED
  BY <1>2, <1>4, <1>5, FS_Subset

\* Choosing, deleting and being interrupted leave the promised tags.
LEMMA KeptTagsStayNext ==
    TypeOK /\ TypeOK' /\ KeptTagsStay /\ [Next]_vars => KeptTagsStay'
<1> SUFFICES ASSUME TypeOK, TypeOK', KeptTagsStay, [Next]_vars
             PROVE  KeptTagsStay'
  OBVIOUS
<1> USE DEF job, choice, ImagePhases
<1>1. CASE CronStart \/ Script
  <2>1. /\ pc \notin ImagePhases /\ pc' \notin ImagePhases
        /\ UNCHANGED <<choice, keep_digests, worker, touched, missed>>
    BY <1>1 DEF CronStart, Script, SetReadOnly, SetReadOnlyFails,
                CollectGarbage, SetReadWrite, EnableCosmos
  <2> QED
    BY <2>1, StaysForgotten DEF KeptTagsStay
<1>2. CASE NextCall \/ LastCall \/ EndCall
  <2>1. /\ pc \notin ImagePhases /\ pc' \notin ImagePhases
        /\ UNCHANGED <<choice, keep_digests, worker, touched, missed>>
    BY <1>2 DEF NextCall, LastCall, EndCall
  <2> QED
    BY <2>1, StaysForgotten DEF KeptTagsStay
<1>3. CASE EndImage \/ WaitForThread \/ Abort \/ Unanswered \/ Kill
  <2>1. pc' \notin ImagePhases /\ Forget
    BY <1>3 DEF EndImage, WaitForThread, Abort, Unanswered, Kill
  <2> QED
    BY <2>1, StaysForgotten
<1>4. ASSUME NEW i \in Images, ListTags(i)
      PROVE  KeptTagsStay'
  <2>1. CASE /\ UNCHANGED <<image, snap, todo, keep_tags, pc>>
    <3>1. /\ pc \notin ImagePhases /\ pc' \notin ImagePhases
          /\ UNCHANGED <<choice, keep_digests, worker, touched, missed>>
      BY <1>4, <2>1 DEF ListTags
    <3> QED
      BY <3>1, StaysForgotten DEF KeptTagsStay
  <2>2. CASE /\ image' = i /\ snap' = tags[i] /\ todo' = GetTags(snap')
             /\ keep_tags' = todo' \cap args.keep_tags_like
             /\ pc' = IF args.keep_by_hours # 0 THEN "newer" ELSE "dating"
    <3>1. /\ dates' = <<>> /\ worker' = NoWorker /\ touched' = {} /\ missed' = {}
          /\ tags' = tags /\ args' = args
      BY <1>4 DEF ListTags, KeptTagsStay, Forgotten
    <3>2. Listed' = todo' /\ Listed' \subseteq Tags
      BY <2>2, <3>1 DEF Listed, GetTags, TypeOK, Args
    <3>3. DOMAIN dates' = {}
      BY <3>1
    <3> QED
      BY <2>2, <3>1, <3>2, <3>3 DEF KeptTagsStay, Forgotten, AsListed, OfListed,
         NamedKept, YoungKept, NewestKept, DigestsKept, KeptStay
  <2> QED
    BY <1>4, <2>1, <2>2 DEF ListTags
<1>5. ASSUME NEW t \in Tags, ThreadExits(t)
      PROVE  KeptTagsStay'
  BY <1>5, StaysForgotten DEF ThreadExits
<1>6. ASSUME NEW t \in Tags, GetNewer(t)
      PROVE  KeptTagsStay'
  <2>1. /\ pc = "newer" /\ pc' = "newer" /\ t \in todo /\ todo' = todo \ {t}
        /\ UNCHANGED <<tags, args, image, snap, dates, worker, touched>>
        /\ Listed' = Listed
    BY <1>6 DEF GetNewer, TagDigest, Listed, GetTags
  <2>2. \/ /\ keep_tags' = keep_tags \cup
                {u \in {t} : tags[image][t] # None /\ Young(tags[image][t])}
           /\ missed' = missed
        \/ keep_tags' = keep_tags /\ missed' = missed \cup {t}
    BY <1>6 DEF GetNewer, TagDigest
  <2>3. t \in Listed /\ snap[t] # None /\ (t \in touched \/ tags[image][t] = snap[t])
    BY <2>1 DEF KeptTagsStay, OfListed, AsListed, Listed, GetTags
  <2>4. YoungKept'
    BY <2>1, <2>2, <2>3 DEF KeptTagsStay, YoungKept, Young, ImageAge
  <2>5. OfListed' /\ NamedKept'
    BY <2>1, <2>2, <2>3 DEF KeptTagsStay, OfListed, NamedKept
  <2> QED
    BY <2>1, <2>4, <2>5 DEF KeptTagsStay, Forgotten, AsListed, NewestKept,
       DigestsKept, KeptStay
<1>7. CASE StartDating
  <2>1. /\ pc = "newer" /\ pc' = "dating" /\ todo = {} /\ todo' = Listed
        /\ UNCHANGED <<tags, args, image, snap, dates, keep_tags, worker, touched, missed>>
        /\ Listed' = Listed
    BY <1>7 DEF StartDating, Listed, GetTags
  <2> QED
    BY <2>1 DEF KeptTagsStay, Forgotten, AsListed, OfListed, NamedKept, YoungKept,
       NewestKept, DigestsKept, KeptStay, Young, ImageAge
<1>8. ASSUME NEW t \in Tags, GetDate(t)
      PROVE  KeptTagsStay'
  <2>1. /\ pc = "dating" /\ pc' = "dating" /\ t \in todo /\ todo' = todo \ {t}
        /\ UNCHANGED <<tags, args, image, snap, keep_tags, worker, touched, missed>>
        /\ Listed' = Listed
    BY <1>8 DEF GetDate, TagDigest, ImageAge, Listed, GetTags
  <2>2. t \in Listed /\ (t \in touched \/ tags[image][t] = snap[t])
    BY <2>1 DEF KeptTagsStay, OfListed, AsListed
  <2>3. \/ dates' = [u \in DOMAIN dates \cup {t} |->
                        IF u = t THEN Created[tags[image][t]] ELSE dates[u]]
        \/ dates' = dates
    BY <1>8 DEF GetDate, TagDigest, ImageAge
  <2>4. OfListed'
    BY <2>1, <2>2, <2>3 DEF KeptTagsStay, OfListed
  <2> QED
    BY <2>1, <2>4 DEF KeptTagsStay, Forgotten, AsListed, NamedKept, YoungKept,
       NewestKept, DigestsKept, KeptStay, Young, ImageAge
<1>9. CASE ChooseTags
  <2>1. /\ pc = "dating" /\ pc' = "keeping"
        /\ keep_tags' = keep_tags \cup (Listed \ to_delete') /\ todo' = keep_tags'
        /\ UNCHANGED <<tags, args, image, snap, dates, worker, touched, missed>>
        /\ Listed' = Listed
        /\ \A t \in Tags : Rivals(t)' = Rivals(t)
    BY <1>9 DEF ChooseTags, Listed, GetTags, Rivals
  <2>2. NewestKept'
    <3>1. \A t \in to_delete' \ touched :
            args.num # 0 /\ Cardinality(Rivals(t)) >= args.num
      BY <1>9, <2>1, SortedDeleted
    <3>2. to_delete' \subseteq Tags
      BY DEF TypeOK
    <3>3. to_delete' = {} \/ Cardinality(Listed \ to_delete') >= args.num
      BY <1>9, <2>1, EnoughChosen
    <3> QED
      BY <2>1, <3>1, <3>2, <3>3 DEF NewestKept
  <2> QED
    BY <2>1, <2>2 DEF KeptTagsStay, Forgotten, AsListed, OfListed, NamedKept,
       YoungKept, DigestsKept, KeptStay, Settled, Young, ImageAge
<1>10. ASSUME NEW t \in Tags, GetKeepDigest(t)
       PROVE  KeptTagsStay'
  <2>1. /\ pc = "keeping" /\ pc' = "keeping" /\ t \in todo /\ todo' = todo \ {t}
        /\ UNCHANGED <<tags, args, choice, worker, touched>>
        /\ Listed' = Listed
        /\ \A u \in Tags : Rivals(u)' = Rivals(u)
    BY <1>10 DEF GetKeepDigest, TagDigest, Listed, GetTags, Rivals
  <2>2. \/ keep_digests' = keep_digests \cup ({tags[image][t]} \ {None})
           /\ missed' = missed
        \/ keep_digests' = keep_digests /\ missed' = missed \cup {t}
    BY <1>10 DEF GetKeepDigest, TagDigest
  <2>3. DigestsKept'
    <3> SUFFICES ASSUME NEW u \in Settled', u \notin todo'
                 PROVE  snap[u] \in keep_digests'
      BY <2>1 DEF DigestsKept
    <3>1. u \in Settled /\ u \in Listed /\ u \in Tags
      BY <2>1, <2>2 DEF Settled, KeptTagsStay, OfListed, TypeOK
    <3>2. CASE u = t
      <4>1. tags[image][t] = snap[t] /\ snap[t] # None
        BY <2>1, <3>1, <3>2 DEF KeptTagsStay, AsListed, Listed, GetTags, Settled
      <4>2. t \notin missed'
        BY <3>2 DEF Settled
      <4> QED
        BY <2>2, <3>2, <4>1, <4>2
    <3>3. CASE u # t
      BY <2>1, <2>2, <3>1, <3>3 DEF KeptTagsStay, DigestsKept
    <3> QED
      BY <3>2, <3>3
  <2>4. NewestKept'
    BY <2>1 DEF KeptTagsStay, NewestKept, TypeOK
  <2>5. YoungKept'
    BY <2>1, <2>2 DEF KeptTagsStay, YoungKept, Young, ImageAge
  <2> QED
    BY <2>1, <2>3, <2>4, <2>5 DEF KeptTagsStay, Forgotten, AsListed, OfListed,
       NamedKept, KeptStay
<1>11. CASE StartDeleting
  <2>1. /\ pc = "keeping" /\ pc' = "deleting" /\ todo = {}
        /\ UNCHANGED <<tags, args, choice, keep_digests, worker, touched, missed>>
        /\ Listed' = Listed /\ Settled' = Settled
        /\ \A u \in Tags : Rivals(u)' = Rivals(u)
    BY <1>11 DEF StartDeleting, Listed, GetTags, Rivals, Settled
  <2>2. KeptStay'
    <3> SUFFICES ASSUME NEW t \in Settled
                 PROVE  /\ tags[image][t] = snap[t]
                        /\ \A w \in Workers : worker[w] # snap[t]
      BY <2>1 DEF KeptStay
    <3>1. t \in Tags /\ t \notin touched /\ snap[t] # None
      BY <2>1 DEF Settled, KeptTagsStay, OfListed, Listed, GetTags, TypeOK
    <3> QED
      BY <2>1, <3>1 DEF KeptTagsStay, AsListed, NoWorker
  <2>3. NewestKept'
    BY <2>1 DEF KeptTagsStay, NewestKept, TypeOK
  <2>4. YoungKept'
    BY <2>1 DEF KeptTagsStay, YoungKept, Young, ImageAge
  <2> QED
    BY <2>1, <2>2, <2>3, <2>4 DEF KeptTagsStay, Forgotten, AsListed, OfListed,
       NamedKept, DigestsKept
<1>12. ASSUME NEW w \in Workers, Take(w) \/ Delete(w)
       PROVE  KeptTagsStay'
  <2>1. /\ pc = "deleting" /\ pc' = "deleting" /\ keep_digests \subseteq keep_digests'
        /\ UNCHANGED <<args, choice, touched, missed>>
        /\ Listed' = Listed /\ Settled' = Settled
        /\ \A u \in Tags : Rivals(u)' = Rivals(u)
    BY <1>12 DEF Take, TagDigest, Delete, Listed, GetTags, Rivals, Settled
  <2>2. KeptStay'
    <3> SUFFICES ASSUME NEW t \in Settled
                 PROVE  /\ tags'[image][t] = snap[t]
                        /\ \A v \in Workers : worker'[v] # snap[t]
      BY <2>1 DEF KeptStay
    <3>1. /\ t \in Tags /\ snap[t] # None /\ snap[t] \in keep_digests
          /\ tags[image][t] = snap[t] /\ image \in Images
          /\ \A v \in Workers : worker[v] # snap[t]
      BY <2>1 DEF Settled, KeptTagsStay, OfListed, Listed, GetTags, TypeOK,
                  DigestsKept, KeptStay
    <3>2. CASE Take(w)
      <4>1. PICK u \in todo :
              \/ worker' = [worker EXCEPT ![w] =
                              IF tags[image][u] \in keep_digests THEN None
                              ELSE tags[image][u]]
              \/ UNCHANGED worker
        BY <3>2 DEF Take, TagDigest, FailOrWait
      <4>2. tags' = tags
        BY <3>2 DEF Take, TagDigest
      <4> QED
        BY <3>1, <4>1, <4>2 DEF TypeOK
    <3>3. CASE Delete(w)
      <4>1. \/ UNCHANGED tags
            \/ tags' = [tags EXCEPT ![image] =
                          [u \in Tags |-> IF tags[image][u] = worker[w] THEN None
                                          ELSE tags[image][u]]]
        BY <3>1, <3>3 DEF Delete, Without, TypeOK
      <4>2. worker' = [worker EXCEPT ![w] = None]
        BY <3>3 DEF Delete
      <4>3. tags'[image][t] = snap[t]
        BY <3>1, <4>1 DEF TypeOK
      <4> QED
        BY <3>1, <4>2, <4>3 DEF TypeOK
    <3> QED
      BY <1>12, <3>2, <3>3
  <2>3. NewestKept'
    BY <2>1 DEF KeptTagsStay, NewestKept, TypeOK
  <2>4. YoungKept'
    BY <2>1 DEF KeptTagsStay, YoungKept, Young, ImageAge
  <2> QED
    BY <2>1, <2>2, <2>3, <2>4 DEF KeptTagsStay, Forgotten, AsListed, OfListed,
       NamedKept, DigestsKept
<1>13. ASSUME NEW i \in Images, NEW t \in Tags, NEW d \in Digests, Push(i, t, d)
       PROVE  KeptTagsStay'
  <2>1. /\ UNCHANGED <<pc, args, choice, todo, keep_digests, worker, missed>>
        /\ touched' = touched \cup {u \in {t} : i = image}
        /\ tags' = [tags EXCEPT ![i] = [tags[i] EXCEPT ![t] = d]]
        /\ Listed' = Listed /\ Settled' \subseteq Settled
    BY <1>13 DEF Push, Listed, GetTags, Settled
  <2>2. image \in Images =>
          \A u \in Tags \ touched' : tags'[image][u] = tags[image][u]
    BY <2>1 DEF TypeOK, Pointers
  <2>3. Forgotten'
    BY <2>1, RegistryAssumption DEF KeptTagsStay, Forgotten
  <2>4. AsListed'
    BY <2>1, <2>2 DEF KeptTagsStay, AsListed, TypeOK
  <2>5. OfListed'
    BY <2>1 DEF KeptTagsStay, OfListed
  <2>6. NewestKept'
    <3> SUFFICES ASSUME pc \in {"keeping", "deleting"},
                        NEW u \in to_delete \ touched'
                 PROVE  args.num # 0 /\ Cardinality(Rivals(u)') >= args.num
      BY <2>1 DEF KeptTagsStay, NewestKept
    <3>1. args.num # 0 /\ Cardinality(Rivals(u)) >= args.num /\ args.num \in Nat
      BY <2>1 DEF KeptTagsStay, NewestKept, TypeOK, Args
    <3>2. Rivals(u) \subseteq Rivals(u)' /\ Rivals(u)' \subseteq Tags
      BY <2>1 DEF Rivals, Listed, GetTags, TypeOK, Args
    <3>3. IsFiniteSet(Rivals(u)')
      BY <3>2, RegistryAssumption, FS_Subset
    <3>4. /\ Cardinality(Rivals(u)) <= Cardinality(Rivals(u)')
          /\ Cardinality(Rivals(u)) \in Nat /\ Cardinality(Rivals(u)') \in Nat
      BY <3>2, <3>3, FS_Subset, FS_CardinalityType
    <3> QED
      BY <3>1, <3>4
  <2>7. KeptStay'
    <3> SUFFICES ASSUME pc = "deleting", NEW u \in Settled'
                 PROVE  /\ tags'[image][u] = snap[u]
                        /\ \A w \in Workers : worker[w] # snap[u]
      BY <2>1 DEF KeptStay
    <3>1. u \in Settled /\ u \in Tags /\ u \notin touched' /\ image \in Images
      BY <2>1 DEF Settled, TypeOK
    <3> QED
      BY <2>2, <3>1 DEF KeptTagsStay, KeptStay
  <2>8. YoungKept'
    BY <2>1 DEF KeptTagsStay, YoungKept, Young, ImageAge
  <2> QED
    BY <2>1, <2>3, <2>4, <2>5, <2>6, <2>7, <2>8 DEF KeptTagsStay, NamedKept, DigestsKept
<1>14. CASE Operator \/ UNCHANGED vars
  <2>1. UNCHANGED <<tags, pc, args, choice, todo, keep_digests, worker, touched, missed>>
    BY <1>14 DEF Operator, vars
  <2>2. Listed' = Listed /\ Settled' = Settled /\ \A u \in Tags : Rivals(u)' = Rivals(u)
    BY <2>1 DEF Listed, GetTags, Settled, Rivals
  <2>3. Forgotten' /\ AsListed' /\ OfListed' /\ NamedKept'
    BY <2>1, <2>2 DEF KeptTagsStay, Forgotten, AsListed, OfListed, NamedKept
  <2>4. YoungKept' /\ DigestsKept' /\ KeptStay'
    BY <2>1, <2>2 DEF KeptTagsStay, YoungKept, Young, ImageAge, DigestsKept, KeptStay
  <2>5. NewestKept'
    BY <2>1, <2>2 DEF KeptTagsStay, NewestKept, TypeOK
  <2> QED
    BY <2>3, <2>4, <2>5 DEF KeptTagsStay
<1> QED
  BY <1>1, <1>2, <1>3, <1>4, <1>5, <1>6, <1>7, <1>8, <1>9, <1>10, <1>11, <1>12,
     <1>13, <1>14 DEF Next, Cleanup

\* Nothing is known of an image to begin with.
LEMMA KeptTagsStayInit == Init => KeptTagsStay
BY DEF Init, KeptTagsStay, Forgotten, AsListed, OfListed, NamedKept,
       YoungKept, NewestKept, DigestsKept, KeptStay, ImagePhases

\* A tag that a policy promises to keep is neither deleted nor does it lose
\* its manifest, unless it is pushed or a request about it fails.
THEOREM PromisesAreKept == Spec => []PolicyRespected
<1>1. Init => KeptTagsStay
  BY KeptTagsStayInit
<1> QED
  BY <1>1, TypeCorrect, KeptTagsStayNext, KeptTagsStayImplies, PTL DEF Spec

\* As many of an image's tags remain as its policy says, unless there are
\* fewer to begin with.
THEOREM EnoughIsKept == Spec => []EnoughRemain
<1>1. Init => KeptTagsStay
  BY KeptTagsStayInit
<1> QED
  BY <1>1, TypeCorrect, KeptTagsStayNext, KeptTagsStayEnough, PTL DEF Spec
-----------------------------------------------------------------------------
(***************************************************************************)
(* That nothing is spared by mistake.  As long as no request has failed, a *)
(* manifest is in keep_digests because of a tag to keep or because it has  *)
(* been deleted, and a tag that was taken from the list is either done or  *)
(* its manifest is in the hand of a thread.                                *)
(***************************************************************************)
\* A tag to keep has the manifest d, or may have it by now.
Wanted(d) == \E u \in keep_tags : snap[u] = d \/ u \in touched

\* Untouched tags are as listed, or their manifest is deleted.
ListedOrGone ==
    pc \in ImagePhases =>
        \A t \in Tags \ touched : tags[image][t] \in {snap[t], None}

KeepersAsked == pc = "keeping" => todo \subseteq keep_tags

DigestsHaveCause ==
    pc \in ImagePhases /\ faults = 0 =>
        \A d \in keep_digests :
            Wanted(d) \/ \A t \in Tags \ touched : tags[image][t] # d

InHand ==
    pc = "deleting" /\ faults = 0 =>
        \A t \in to_delete \ touched :
            \/ t \in todo
            \/ tags[image][t] = None
            \/ Wanted(snap[t])
            \/ \E w \in Workers : worker[w] = tags[image][t]

NoneSpared == ListedOrGone /\ KeepersAsked /\ DigestsHaveCause /\ InHand

\* Outside an image it says nothing.
LEMMA NoneSparedOutside ==
    ASSUME pc' \notin ImagePhases
    PROVE  NoneSpared'
BY DEF NoneSpared, ListedOrGone, KeepersAsked, DigestsHaveCause, InHand, ImagePhases

\* Taking a tag and deleting a manifest leave none behind.
LEMMA NoneSparedDeleting ==
    ASSUME TypeOK, TypeOK', NoneSpared, NEW w \in Workers, Take(w) \/ Delete(w)
    PROVE  NoneSpared'
<1> USE DEF choice
<1>1. /\ pc = "deleting" /\ pc' = "deleting"
      /\ UNCHANGED <<image, snap, keep_tags, to_delete, touched>>
      /\ image \in Images /\ faults \in Nat
      /\ \A d : Wanted(d)' <=> Wanted(d)
  BY DEF Take, TagDigest, Delete, Wanted, TypeOK, ImagePhases
<1>2. CASE Take(w)
  <2>1. PICK t \in todo :
          /\ todo' = todo \ {t}
          /\ \/ /\ worker' = [worker EXCEPT ![w] =
                               IF tags[image][t] \in keep_digests THEN None
                               ELSE tags[image][t]]
                /\ faults' = faults
             \/ faults' = faults + 1 /\ UNCHANGED worker
    BY <1>2 DEF Take, TagDigest, FailOrWait, Fail, counters
  <2>2. worker[w] = None /\ tags' = tags /\ keep_digests' = keep_digests
    BY <1>2 DEF Take, TagDigest
  <2>3. ListedOrGone' /\ KeepersAsked' /\ DigestsHaveCause'
    BY <1>1, <2>1, <2>2 DEF NoneSpared, ListedOrGone, KeepersAsked, DigestsHaveCause,
       ImagePhases
  <2>4. InHand'
    <3> SUFFICES ASSUME faults' = 0, NEW u \in to_delete \ touched, u \notin todo',
                        tags[image][u] # None, ~Wanted(snap[u])
                 PROVE  \E v \in Workers : worker'[v] = tags[image][u]
      BY <1>1, <2>2 DEF InHand
    <3>1. /\ faults = 0
          /\ worker' = [worker EXCEPT ![w] =
                          IF tags[image][t] \in keep_digests THEN None
                          ELSE tags[image][t]]
      BY <1>1, <2>1
    <3>2. u \in Tags \ touched /\ tags[image][u] = snap[u]
      BY <1>1 DEF NoneSpared, ListedOrGone, ImagePhases, TypeOK
    <3>3. CASE u = t
      <4>1. tags[image][u] \notin keep_digests
        BY <1>1, <3>1, <3>2 DEF NoneSpared, DigestsHaveCause, ImagePhases
      <4> QED
        BY <3>1, <3>3, <4>1 DEF TypeOK
    <3>4. CASE u # t
      <4>1. PICK v \in Workers : worker[v] = tags[image][u]
        BY <1>1, <2>1, <3>1, <3>4 DEF NoneSpared, InHand
      <4> QED
        BY <2>2, <3>1, <4>1 DEF TypeOK
    <3> QED
      BY <3>3, <3>4
  <2> QED
    BY <2>3, <2>4 DEF NoneSpared
<1>3. CASE Delete(w)
  <2>1. /\ worker[w] # None /\ worker' = [worker EXCEPT ![w] = None] /\ todo' = todo
        /\ \/ /\ tags' = [tags EXCEPT ![image] =
                            [t \in Tags |-> IF tags[image][t] = worker[w] THEN None
                                            ELSE tags[image][t]]]
              /\ keep_digests' = keep_digests \cup {worker[w]}
              /\ faults' = faults
           \/ /\ tags' = tags \/
                 tags' = [tags EXCEPT ![image] =
                            [t \in Tags |-> IF tags[image][t] = worker[w] THEN None
                                            ELSE tags[image][t]]]
              /\ keep_digests' = keep_digests
              /\ faults' = faults + 1
    BY <1>1, <1>3 DEF Delete, Without, FailOrWait, Fail, counters, TypeOK
  <2>2. \A t \in Tags :
          \/ tags'[image][t] = None /\ tags[image][t] = worker[w]
          \/ tags'[image][t] = tags[image][t]
    BY <1>1, <2>1 DEF TypeOK
  <2>3. faults' = 0 => \A t \in Tags : tags'[image][t] # worker[w]
    BY <1>1, <2>1 DEF TypeOK
  <2>4. ListedOrGone' /\ KeepersAsked'
    BY <1>1, <2>2 DEF NoneSpared, ListedOrGone, KeepersAsked, ImagePhases
  <2>5. DigestsHaveCause'
    <3> SUFFICES ASSUME faults' = 0, NEW d \in keep_digests', ~Wanted(d),
                        NEW t \in Tags \ touched
                 PROVE  tags'[image][t] # d
      BY <1>1 DEF DigestsHaveCause
    <3>1. faults = 0 /\ keep_digests' = keep_digests \cup {worker[w]}
      BY <1>1, <2>1
    <3>2. d # None
      BY RegistryAssumption DEF TypeOK
    <3>3. CASE d \in keep_digests
      <4>1. tags[image][t] # d
        BY <1>1, <3>1, <3>3 DEF NoneSpared, DigestsHaveCause, ImagePhases
      <4> QED
        BY <2>2, <3>2, <4>1
    <3> QED
      BY <2>3, <3>1, <3>3
  <2>6. InHand'
    <3> SUFFICES ASSUME faults' = 0, NEW u \in to_delete \ touched, u \notin todo,
                        tags'[image][u] # None, ~Wanted(snap[u])
                 PROVE  \E v \in Workers : worker'[v] = tags'[image][u]
      BY <1>1, <2>1 DEF InHand
    <3>1. u \in Tags /\ tags'[image][u] = tags[image][u] /\ faults = 0
      BY <1>1, <2>1, <2>2 DEF TypeOK
    <3>2. PICK v \in Workers : worker[v] = tags[image][u]
      BY <1>1, <3>1 DEF NoneSpared, InHand
    <3>3. v # w
      BY <2>3, <3>1, <3>2
    <3> QED
      BY <2>1, <3>1, <3>2, <3>3 DEF TypeOK
  <2> QED
    BY <2>4, <2>5, <2>6 DEF NoneSpared
<1> QED
  BY <1>2, <1>3

\* So does a push, which touches its tag.
LEMMA NoneSparedPush ==
    ASSUME TypeOK, NoneSpared, NEW i \in Images, NEW t \in Tags, NEW d \in Digests,
           Push(i, t, d)
    PROVE  NoneSpared'
<1>1. /\ UNCHANGED <<pc, image, snap, keep_tags, to_delete, todo, keep_digests, worker, faults>>
      /\ touched' = touched \cup {u \in {t} : i = image}
      /\ tags' = [tags EXCEPT ![i] = [tags[i] EXCEPT ![t] = d]]
  BY DEF Push, choice
<1>2. image \in Images => \A u \in Tags \ touched' : tags'[image][u] = tags[image][u]
  BY <1>1 DEF TypeOK, Pointers
<1>3. \A e : Wanted(e) => Wanted(e)'
  BY <1>1 DEF Wanted
<1>4. pc \in ImagePhases => image \in Images
  BY DEF TypeOK
<1>5. ListedOrGone' /\ KeepersAsked'
  BY <1>1, <1>2, <1>4 DEF NoneSpared, ListedOrGone, KeepersAsked
<1>6. DigestsHaveCause'
  <2> SUFFICES ASSUME pc \in ImagePhases, faults = 0, NEW e \in keep_digests,
                      ~Wanted(e)', NEW u \in Tags \ touched'
               PROVE  tags'[image][u] # e
    BY <1>1 DEF DigestsHaveCause
  <2>1. tags[image][u] # e
    BY <1>1, <1>3 DEF NoneSpared, DigestsHaveCause
  <2> QED
    BY <1>2, <1>4, <2>1
<1>7. InHand'
  <2> SUFFICES ASSUME pc = "deleting", faults = 0, NEW u \in to_delete \ touched'
               PROVE  \/ u \in todo
                      \/ tags'[image][u] = None
                      \/ Wanted(snap[u])'
                      \/ \E w \in Workers : worker[w] = tags'[image][u]
    BY <1>1 DEF InHand
  <2>1. u \in Tags \ touched' /\ tags'[image][u] = tags[image][u]
    BY <1>2, <1>4 DEF ImagePhases, TypeOK
  <2>2. u \in to_delete \ touched
    BY <1>1
  <2>3. \/ u \in todo
        \/ tags[image][u] = None
        \/ Wanted(snap[u])
        \/ \E w \in Workers : worker[w] = tags[image][u]
    BY <2>2 DEF NoneSpared, InHand
  <2>4. Wanted(snap[u]) => Wanted(snap[u])'
    BY <1>1, <2>1 DEF Wanted
  <2> QED
    BY <2>1, <2>3, <2>4
<1> QED
  BY <1>5, <1>6, <1>7 DEF NoneSpared

\* The requests before, about tags to keep and those to choose from
LEMMA NoneSparedAsking ==
    ASSUME TypeOK, TypeOK', KeptTagsStay, NoneSpared, NEW t \in Tags,
           GetNewer(t) \/ GetDate(t) \/ GetKeepDigest(t)
    PROVE  NoneSpared'
<1> USE DEF choice
<1>1. /\ pc' = pc /\ pc \in {"newer", "dating", "keeping"}
      /\ UNCHANGED <<tags, image, snap, touched>>
      /\ keep_tags \subseteq keep_tags'
      /\ t \in todo /\ todo' = todo \ {t}
      /\ faults' = 0 => faults = 0
  BY DEF GetNewer, GetDate, GetKeepDigest, TagDigest, Fail, counters, TypeOK
<1>2. \A d : Wanted(d) => Wanted(d)'
  BY <1>1 DEF Wanted
<1>3. ListedOrGone' /\ KeepersAsked' /\ InHand'
  BY <1>1 DEF NoneSpared, ListedOrGone, KeepersAsked, InHand
<1>4. DigestsHaveCause'
  <2> SUFFICES ASSUME faults' = 0, NEW d \in keep_digests'
               PROVE  Wanted(d)' \/ \A u \in Tags \ touched : tags[image][u] # d
    BY <1>1 DEF DigestsHaveCause
  <2>1. CASE d \in keep_digests
    BY <1>1, <1>2, <2>1 DEF NoneSpared, DigestsHaveCause, ImagePhases
  <2>2. CASE d \notin keep_digests
    <3>1. d = tags[image][t] /\ pc = "keeping"
      BY <2>2 DEF GetNewer, GetDate, GetKeepDigest, TagDigest
    <3>2. t \in keep_tags /\ (t \in touched \/ tags[image][t] = snap[t])
      BY <1>1, <3>1 DEF NoneSpared, KeepersAsked, KeptTagsStay, AsListed
    <3> QED
      BY <1>2, <3>1, <3>2 DEF Wanted
  <2> QED
    BY <2>1, <2>2
<1> QED
  BY <1>3, <1>4 DEF NoneSpared

\* From one phase of an image to the next
LEMMA NoneSparedPhases ==
    ASSUME TypeOK, TypeOK', KeptTagsStay, NoneSpared,
           StartDating \/ ChooseTags \/ StartDeleting
    PROVE  NoneSpared'
<1> USE DEF choice
<1>1. /\ pc \in ImagePhases /\ pc' \in ImagePhases
      /\ UNCHANGED <<tags, image, snap, keep_digests, touched, faults>>
      /\ keep_tags \subseteq keep_tags'
      /\ pc' = "keeping" => todo' = keep_tags'
      /\ pc' = "deleting" => /\ todo' = to_delete \ keep_tags
                             /\ UNCHANGED <<keep_tags, to_delete>>
  BY DEF StartDating, ChooseTags, StartDeleting, ImagePhases, counters
<1>2. \A d : Wanted(d) => Wanted(d)'
  BY <1>1 DEF Wanted
<1>3. ListedOrGone' /\ KeepersAsked' /\ DigestsHaveCause'
  BY <1>1, <1>2 DEF NoneSpared, ListedOrGone, KeepersAsked, DigestsHaveCause
<1>4. InHand'
  BY <1>1 DEF InHand, Wanted
<1> QED
  BY <1>3, <1>4 DEF NoneSpared

\* Every step keeps it.
LEMMA NoneSparedNext ==
    TypeOK /\ TypeOK' /\ KeptTagsStay /\ NoneSpared /\ [Next]_vars => NoneSpared'
<1> SUFFICES ASSUME TypeOK, TypeOK', KeptTagsStay, NoneSpared, [Next]_vars
             PROVE  NoneSpared'
  OBVIOUS
<1>1. CASE CronStart \/ Script \/ NextCall \/ LastCall \/ EndCall \/ EndImage
           \/ WaitForThread \/ Abort \/ Unanswered \/ Kill \/ \E t \in Tags : ThreadExits(t)
  <2>1. pc' \notin ImagePhases
    BY <1>1 DEF CronStart, Script, SetReadOnly, SetReadOnlyFails, CollectGarbage,
       SetReadWrite, EnableCosmos, NextCall, LastCall, EndCall, EndImage, WaitForThread,
       Abort, Unanswered, Kill, ThreadExits, ImagePhases
  <2> QED
    BY <2>1, NoneSparedOutside
<1>2. ASSUME NEW i \in Images, ListTags(i)
      PROVE  NoneSpared'
  <2>1. CASE pc' \notin ImagePhases
    BY <2>1, NoneSparedOutside
  <2>2. CASE pc' \in ImagePhases
    <3>1. /\ image' = i /\ snap' = tags[i] /\ tags' = tags
          /\ pc' \in {"newer", "dating"}
          /\ keep_digests' = {} /\ touched' = {}
      BY <1>2, <2>2 DEF ListTags, KeptTagsStay, Forgotten, ImagePhases
    <3> QED
      BY <3>1 DEF NoneSpared, ListedOrGone, KeepersAsked, DigestsHaveCause, InHand
  <2> QED
    BY <2>1, <2>2
<1>3. CASE Operator \/ UNCHANGED vars
  BY <1>3 DEF Operator, vars, choice, counters, NoneSpared, ListedOrGone, KeepersAsked,
     DigestsHaveCause, InHand, Wanted
<1> QED
  BY <1>1, <1>2, <1>3, NoneSparedDeleting, NoneSparedPush, NoneSparedAsking,
     NoneSparedPhases DEF Next, Cleanup

\* Unless a request fails, nothing that a policy does not keep is left when the
\* cleanup of an image ends: threads that meet the same manifest, and digests
\* that are not to be asked for again, never spare a tag.
THEOREM NothingIsSpared == Spec => Thorough
<1> DEFINE Spared == EndImage /\ faults = 0 =>
               \A t \in to_delete \ touched :
                   \/ tags[image][t] = None
                   \/ \E u \in keep_tags : snap[u] = snap[t] \/ u \in touched
<1>1. Init => NoneSpared
  BY DEF Init, NoneSpared, ListedOrGone, KeepersAsked, DigestsHaveCause, InHand, ImagePhases
<1>2. NoneSpared => Spared
  <2> SUFFICES ASSUME NoneSpared, EndImage, faults = 0, NEW t \in to_delete \ touched
               PROVE  tags[image][t] = None \/ Wanted(snap[t])
    BY DEF Wanted
  <2>1. pc = "deleting" /\ todo = {} /\ \A w \in Workers : worker[w] = None
    BY DEF EndImage, NoWorker
  <2> QED
    BY <2>1 DEF NoneSpared, InHand
<1>3. Init => KeptTagsStay
  BY KeptTagsStayInit
<1>4. NoneSpared => [Spared]_vars
  BY <1>2
<1> QED
  BY <1>1, <1>3, <1>4, TypeCorrect, KeptTagsStayNext, NoneSparedNext, PTL DEF Spec, Thorough
-----------------------------------------------------------------------------
(***************************************************************************)
(* That what is deleted was to go.  Each call of main_loop has arguments   *)
(* that are a policy of each of its images, and a thread only has in hand  *)
(* the manifest of a tag that was chosen and is not to be kept.            *)
(***************************************************************************)
\* The arguments are a policy of the image i.
InForce(i) ==
    \/ \E p \in ConfiguredPolicies(i) :
         args.tags_like = p.delete /\ args.keep_tags_like = p.save /\ args.num = p.num
    \/ /\ ConfiguredPolicies(i) = {}
       /\ args.tags_like = Tags /\ args.num = DefaultNum /\ args.keep_by_hours = KeepHours

PolicyInForce ==
    /\ pc \in ImagePhases \cup {"loop"} => \A i \in images : InForce(i)
    /\ pc \in ImagePhases => InForce(image)

\* The tags that have been chosen and are not to be kept
Doomed == to_delete \ keep_tags

HandHasCause ==
    pc = "deleting" =>
        /\ todo \subseteq Doomed
        /\ \A w \in Workers :
             worker[w] # None => \E u \in Doomed : snap[u] = worker[w] \/ u \in touched

NumberGiven == pc \in {"keeping", "deleting"} /\ to_delete # {} => args.num # 0

Deserved == PolicyInForce /\ HandHasCause /\ NumberGiven

\* Of the configured calls, each has the policy of all images it is for.
LEMMA ConfiguredInForce ==
    ASSUME TypeOK, NextCall, NEW i \in images'
    PROVE  InForce(i)'
<1>1. /\ Len(ExactImages) \in Nat /\ Len(GroupImages) \in Nat
      /\ \A k \in 1..Len(ExactImages) : ExactImages[k] \in Policy
      /\ \A k \in 1..Len(GroupImages) : GroupImages[k] \in Policy
  BY RegistryAssumption
<1> DEFINE exact == [k \in 1..Len(ExactImages) |->
                       [PolicyArgs(ExactImages[k]) EXCEPT !.image = ExactImages[k].images]]
           group == [k \in 1..Len(GroupImages) |->
                       [PolicyArgs(GroupImages[k]) EXCEPT !.images_like = GroupImages[k].images]]
<1>2. ConfiguredCalls = exact \o group
  BY DEF ConfiguredCalls
<1>3. Len(exact) = Len(ExactImages) /\ Len(group) = Len(GroupImages)
  BY <1>1
<1> DEFINE elements == {exact[k] : k \in 1..Len(ExactImages)} \cup
                       {group[k] : k \in 1..Len(GroupImages)}
<1>a. exact \in Seq(elements) /\ group \in Seq(elements)
  <2>1. \A k \in 1..Len(ExactImages) : exact[k] \in elements
    OBVIOUS
  <2>2. \A k \in 1..Len(GroupImages) : group[k] \in elements
    OBVIOUS
  <2> HIDE DEF elements
  <2> QED
    BY <1>1, <2>1, <2>2
<1> HIDE DEF exact, group, elements
<1>4. call' \in 1..Len(ConfiguredCalls) /\ args' = ConfiguredCalls[call']
  BY CallsAreArgs DEF NextCall, TypeOK
<1>5. \/ \E k \in 1..Len(ExactImages) : args' = exact[k]
      \/ \E k \in 1..Len(GroupImages) : args' = group[k]
  <2>1. \/ call' \in 1..Len(exact) /\ args' = exact[call']
        \/ call' - Len(exact) \in 1..Len(group) /\ args' = group[call' - Len(exact)]
    BY <1>a, <1>2, <1>4
  <2> QED
    BY <1>3, <2>1
<1>6. ASSUME NEW k \in 1..Len(ExactImages), args' = exact[k]
      PROVE  InForce(i)'
  <2>1. /\ args'.image = ExactImages[k].images
        /\ args'.tags_like = ExactImages[k].delete
        /\ args'.keep_tags_like = ExactImages[k].save
        /\ args'.num = ExactImages[k].num
    BY <1>6 DEF exact, PolicyArgs, DefaultArgs
  <2>2. i \in ExactImages[k].images
    BY <1>6, <2>1, RegistryAssumption DEF NextCall
  <2> QED
    BY <2>1, <2>2 DEF InForce, ConfiguredPolicies
<1>7. ASSUME NEW k \in 1..Len(GroupImages), args' = group[k]
      PROVE  InForce(i)'
  <2>1. /\ args'.image = {} /\ args'.images_like = GroupImages[k].images
        /\ args'.tags_like = GroupImages[k].delete
        /\ args'.keep_tags_like = GroupImages[k].save
        /\ args'.num = GroupImages[k].num
    BY <1>7 DEF group, PolicyArgs, DefaultArgs
  <2>2. i \in GroupImages[k].images
    BY <2>1 DEF NextCall, KeepImagesLike
  <2> QED
    BY <2>1, <2>2 DEF InForce, ConfiguredPolicies
<1> QED
  BY <1>5, <1>6, <1>7

\* The last call is for images that no policy is for.
LEMMA DefaultInForce ==
    ASSUME LastCall, NEW i \in images'
    PROVE  InForce(i)'
<1>1. PICK all \in {Images, {}} : args' = UnmanagedArgs(all)
  BY DEF LastCall
<1>2. /\ args'.image = Unmanaged(all) /\ args'.tags_like = Tags
      /\ args'.num = DefaultNum /\ args'.keep_by_hours = KeepHours
  BY <1>1 DEF UnmanagedArgs, DefaultArgs
<1>3. i \in Unmanaged(all)
  BY <1>2 DEF LastCall
<1>4. ConfiguredPolicies(i) = {}
  <2> SUFFICES ASSUME NEW p \in ConfiguredPolicies(i) PROVE FALSE
    OBVIOUS
  <2>1. i \in p.images /\ i \in all
    BY <1>3 DEF ConfiguredPolicies, Unmanaged
  <2>2. \A k \in 1..Len(ExactImages) : i \notin ExactImages[k].images
    BY <1>3 DEF Unmanaged
  <2>3. \A k \in 1..Len(GroupImages) : i \notin KeepImagesLike(all, GroupImages[k].images)
    BY <1>3 DEF Unmanaged
  <2> QED
    BY <2>1, <2>2, <2>3 DEF ConfiguredPolicies, KeepImagesLike
<1> QED
  BY <1>2, <1>4 DEF InForce

\* A policy of the image lets every doomed tag go.
LEMMA DoomedMayGo ==
    ASSUME TypeOK, KeptTagsStay, Deserved, pc = "deleting", NEW u \in Doomed
    PROVE  \E p \in PoliciesOf(image) : LetsGo(p, u)
<1> USE DEF ImagePhases
<1>1. /\ u \in Tags /\ u \in args.tags_like /\ snap[u] # None
      /\ u \notin args.keep_tags_like /\ args.num # 0
  BY DEF Doomed, TypeOK, KeptTagsStay, OfListed, NamedKept, Listed, GetTags,
         Deserved, NumberGiven
<1>2. u \notin touched => Cardinality(Rivals(u)) >= args.num
  BY DEF Doomed, KeptTagsStay, NewestKept
<1>3. Rivals(u) = {v \in args.tags_like \ {u} :
                     /\ snap[v] # None
                     /\ v \in touched \/ Created[snap[v]] >= Created[snap[u]]}
  BY DEF Rivals, Listed, GetTags
<1>4. CASE \E p \in ConfiguredPolicies(image) :
             args.tags_like = p.delete /\ args.keep_tags_like = p.save /\ args.num = p.num
  BY <1>1, <1>2, <1>3, <1>4 DEF LetsGo, PoliciesOf
<1>5. CASE /\ ConfiguredPolicies(image) = {}
           /\ args.tags_like = Tags /\ args.num = DefaultNum
           /\ args.keep_by_hours = KeepHours
  <2>1. u \notin touched \cup missed => ~Young(snap[u])
    BY <1>1, <1>5, RegistryAssumption DEF Doomed, KeptTagsStay, YoungKept, Listed, GetTags
  <2>2. u \notin DefaultPolicy.save
    BY <1>5, <2>1 DEF DefaultPolicy, Young, ImageAge
  <2>3. LetsGo(DefaultPolicy, u)
    BY <1>1, <1>2, <1>3, <1>5, <2>2 DEF LetsGo, DefaultPolicy
  <2> QED
    BY <1>5, <2>3 DEF PoliciesOf
<1> QED
  BY <1>4, <1>5 DEF Deserved, PolicyInForce, InForce

\* Between images, and when the script is elsewhere, nothing is to be shown
\* but of the arguments.
LEMMA DeservedOutside ==
    ASSUME pc' \notin ImagePhases, pc' = "loop" => \A i \in images' : InForce(i)'
    PROVE  Deserved'
BY DEF Deserved, PolicyInForce, HandHasCause, NumberGiven, ImagePhases

\* Every step keeps it.
LEMMA DeservedNext ==
    TypeOK /\ TypeOK' /\ KeptTagsStay /\ NoneSpared /\ Deserved /\ [Next]_vars => Deserved'
<1> SUFFICES ASSUME TypeOK, TypeOK', KeptTagsStay, NoneSpared, Deserved, [Next]_vars
             PROVE  Deserved'
  OBVIOUS
<1> USE DEF job, choice
<1>1. CASE CronStart \/ Script \/ EndCall \/ WaitForThread \/ Abort \/ Unanswered \/ Kill
           \/ \E t \in Tags : ThreadExits(t)
  <2>1. pc' \notin ImagePhases \cup {"loop"}
    BY <1>1 DEF CronStart, Script, SetReadOnly, SetReadOnlyFails, CollectGarbage,
       SetReadWrite, EnableCosmos, EndCall, WaitForThread, Abort, Unanswered, Kill,
       ThreadExits, ImagePhases
  <2> QED
    BY <2>1, DeservedOutside
<1>2. CASE NextCall
  BY <1>2, ConfiguredInForce, DeservedOutside DEF NextCall, ImagePhases
<1>3. CASE LastCall
  BY <1>3, DefaultInForce, DeservedOutside DEF LastCall, ImagePhases
<1>4. ASSUME UNCHANGED args
      PROVE  \A i : InForce(i) => InForce(i)'
  BY <1>4 DEF InForce, ConfiguredPolicies
<1>5. CASE EndImage
  <2>1. pc = "deleting" /\ pc' = "loop" /\ UNCHANGED <<args, images>>
    BY <1>5 DEF EndImage
  <2> QED
    BY <2>1, <1>4, DeservedOutside DEF Deserved, PolicyInForce, ImagePhases
<1>6. ASSUME NEW i \in Images, ListTags(i)
      PROVE  Deserved'
  <2>1. /\ pc = "loop" /\ i \in images /\ images' = images \ {i} /\ args' = args
        /\ pc' = "loop" \/ (pc' \in {"newer", "dating"} /\ image' = i)
    BY <1>6 DEF ListTags
  <2>2. PolicyInForce'
    BY <2>1, <1>4 DEF Deserved, PolicyInForce, ImagePhases
  <2> QED
    BY <2>1, <2>2 DEF Deserved, HandHasCause, NumberGiven
<1>7. CASE StartDating \/ \E t \in Tags : GetNewer(t) \/ GetDate(t) \/ GetKeepDigest(t)
  <2>1. /\ pc \in {"newer", "dating", "keeping"} /\ pc' \in {"newer", "dating", "keeping"}
        /\ pc' = "keeping" => pc = "keeping"
        /\ UNCHANGED <<args, images, image, to_delete>>
    BY <1>7 DEF GetNewer, GetDate, GetKeepDigest, StartDating, TagDigest
  <2>2. PolicyInForce'
    BY <2>1, <1>4 DEF Deserved, PolicyInForce, ImagePhases
  <2> QED
    BY <2>1, <2>2 DEF Deserved, HandHasCause, NumberGiven
<1>8. CASE ChooseTags
  <2>1. /\ pc = "dating" /\ pc' = "keeping" /\ UNCHANGED <<args, images, image>>
        /\ to_delete' # {} => args.num # 0
    BY <1>8 DEF ChooseTags, AllButLatest
  <2>2. PolicyInForce'
    BY <2>1, <1>4 DEF Deserved, PolicyInForce, ImagePhases
  <2> QED
    BY <2>1, <2>2 DEF Deserved, HandHasCause, NumberGiven
<1>9. CASE StartDeleting
  <2>1. /\ pc = "keeping" /\ pc' = "deleting" /\ todo' = to_delete \ keep_tags
        /\ UNCHANGED <<args, images, image, to_delete, keep_tags, worker>>
    BY <1>9 DEF StartDeleting
  <2>2. PolicyInForce'
    BY <2>1, <1>4 DEF Deserved, PolicyInForce, ImagePhases
  <2>3. \A w \in Workers : worker'[w] = None
    BY <2>1 DEF KeptTagsStay, AsListed, NoWorker
  <2> QED
    BY <2>1, <2>2, <2>3 DEF Deserved, HandHasCause, NumberGiven, Doomed
<1>10. ASSUME NEW w \in Workers, Take(w) \/ Delete(w)
       PROVE  Deserved'
  <2>1. /\ pc = "deleting" /\ pc' = "deleting"
        /\ UNCHANGED <<args, images, image, snap, to_delete, keep_tags, touched>>
        /\ todo' \subseteq todo
    BY <1>10 DEF Take, Delete, TagDigest
  <2>2. PolicyInForce' /\ NumberGiven'
    BY <2>1, <1>4 DEF Deserved, PolicyInForce, NumberGiven, ImagePhases
  <2>3. \/ worker' = worker
        \/ worker' = [worker EXCEPT ![w] = None]
        \/ \E t \in todo : worker' = [worker EXCEPT ![w] = tags[image][t]]
    BY <1>10 DEF Take, Delete, TagDigest, FailOrWait
  <2>4. ASSUME NEW t \in todo, tags[image][t] # None
        PROVE  t \in Doomed /\ (snap[t] = tags[image][t] \/ t \in touched)
    BY <2>1, <2>4 DEF Deserved, HandHasCause, NoneSpared, ListedOrGone, TypeOK, ImagePhases
  <2>5. ASSUME NEW v \in Workers, worker'[v] # None
        PROVE  \E u \in Doomed : snap[u] = worker'[v] \/ u \in touched
    BY <2>1, <2>3, <2>4, <2>5 DEF Deserved, HandHasCause, TypeOK
  <2> QED
    BY <2>1, <2>2, <2>5 DEF Deserved, HandHasCause, Doomed
<1>11. ASSUME NEW i \in Images, NEW t \in Tags, NEW d \in Digests, Push(i, t, d)
       PROVE  Deserved'
  <2>1. /\ UNCHANGED <<pc, args, images, image, snap, to_delete, keep_tags, todo, worker>>
        /\ touched \subseteq touched'
    BY <1>11 DEF Push
  <2>2. PolicyInForce' /\ NumberGiven'
    BY <2>1, <1>4 DEF Deserved, PolicyInForce, NumberGiven
  <2> QED
    BY <2>1, <2>2 DEF Deserved, HandHasCause, Doomed
<1>12. CASE Operator \/ UNCHANGED vars
  <2>1. UNCHANGED <<pc, args, images, image, snap, to_delete, keep_tags, todo, worker, touched>>
    BY <1>12 DEF Operator, vars
  <2> QED
    BY <2>1, <1>4 DEF Deserved, PolicyInForce, HandHasCause, NumberGiven, Doomed
<1> QED
  BY <1>1, <1>2, <1>3, <1>5, <1>6, <1>7, <1>8, <1>9, <1>10, <1>11, <1>12,
     RegistryAssumption DEF Next, Cleanup

\* A tag only disappears when a thread deletes the manifest it has in hand.
LEMMA OnlyDeleteRemoves ==
    ASSUME TypeOK, [Next]_vars, NEW i \in Images, NEW t \in Tags,
           tags[i][t] # None, tags'[i][t] = None
    PROVE  \E w \in Workers : Delete(w) /\ i = image /\ worker[w] = tags[i][t]
<1>1. tags' # tags
  OBVIOUS
<1>2. ASSUME NEW j \in Images, NEW u \in Tags, NEW d \in Digests, Push(j, u, d)
      PROVE  FALSE
  <2>1. tags' = [tags EXCEPT ![j] = [tags[j] EXCEPT ![u] = d]]
    BY <1>2 DEF Push
  <2> QED
    BY <2>1, RegistryAssumption DEF TypeOK, Pointers
<1>3. ASSUME NEW w \in Workers, Delete(w)
      PROVE  i = image /\ worker[w] = tags[i][t]
  BY <1>1, <1>3 DEF Delete, Without, TypeOK
<1>4. \E w \in Workers : Delete(w)
  BY <1>1, <1>2 DEF Next, Script, Cleanup, vars, CronStart, SetReadOnly, SetReadOnlyFails,
     CollectGarbage, SetReadWrite, EnableCosmos, NextCall, LastCall, EndCall, StartDating,
     ChooseTags, StartDeleting, EndImage, ListTags, ThreadExits, GetNewer, GetDate,
     GetKeepDigest, Take, WaitForThread, Abort, Unanswered, Kill, Operator
<1> QED
  BY <1>3, <1>4

\* Every tag that disappears had the manifest of one that a policy which the
\* configuration has for its image lets go, with the registry read-only or not.
THEOREM DeletionsHavePolicies == Spec => DeletionHasPolicy
<1> DEFINE Step == \A i \in Images, t \in Tags :
         tags[i][t] # None /\ tags'[i][t] = None =>
             /\ i = image
             /\ \E u \in Tags, p \in PoliciesOf(i) :
                   LetsGo(p, u) /\ (snap[u] = tags[i][t] \/ u \in touched)
<1>1. Init => KeptTagsStay /\ NoneSpared /\ Deserved
  BY KeptTagsStayInit DEF Init, NoneSpared, ListedOrGone, KeepersAsked, DigestsHaveCause,
     InHand, ImagePhases, Deserved, PolicyInForce, HandHasCause, NumberGiven
<1>2. TypeOK /\ KeptTagsStay /\ Deserved /\ [Next]_vars => Step
  <2> SUFFICES ASSUME TypeOK, KeptTagsStay, Deserved, [Next]_vars,
                      NEW i \in Images, NEW t \in Tags,
                      tags[i][t] # None, tags'[i][t] = None
               PROVE  /\ i = image
                      /\ \E u \in Tags, p \in PoliciesOf(i) :
                            LetsGo(p, u) /\ (snap[u] = tags[i][t] \/ u \in touched)
    OBVIOUS
  <2>1. PICK w \in Workers : Delete(w) /\ i = image /\ worker[w] = tags[i][t]
    BY OnlyDeleteRemoves
  <2>2. pc = "deleting"
    BY <2>1 DEF Delete
  <2>3. PICK u \in Doomed : snap[u] = worker[w] \/ u \in touched
    BY <2>1, <2>2 DEF Deserved, HandHasCause
  <2>4. PICK p \in PoliciesOf(image) : LetsGo(p, u)
    BY <2>2, DoomedMayGo
  <2>5. u \in Tags
    BY DEF Doomed, TypeOK
  <2> QED
    BY <2>1, <2>2, <2>3, <2>4, <2>5
<1>3. TypeOK /\ KeptTagsStay /\ Deserved /\ [Next]_vars => [Step]_vars
  BY <1>2
<1> QED
  BY <1>1, <1>3, TypeCorrect, KeptTagsStayNext, NoneSparedNext,
     DeservedNext, PTL DEF Spec, DeletionHasPolicy
=============================================================================
