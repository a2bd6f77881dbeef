------------------------------- MODULE AcmeKey ------------------------------
(***************************************************************************)
(* generate_acme_key.py: an ACME account made once per host, by Puppet as  *)
(* long as /etc/letsencrypt/accounts/public_key.pem does not resolve and   *)
(* by whoever runs the script by hand to pipe the key to the CA.  It may   *)
(* be killed anywhere, and two of it may run at the same time.             *)
(*                                                                         *)
(* One server is looked at, so an account directory is known by its key.   *)
(* Whoever runs the script can also remove the symlink or move an account  *)
(* directory away, as its messages ask for.                                *)
(***************************************************************************)
EXTENDS Integers

CONSTANTS
    Runs,           \* who runs the script, one run at a time each
    Puppet,         \* one of them
    None,           \* no file, or nothing
    File,           \* a file that is not a symlink
    Blank,          \* an empty line
    MaxKeys,        \* bound on the keys generated
    MaxKills,       \* bound on the runs killed
    MaxMoves        \* bound on what is removed by hand

ASSUME AcmeAssumption ==
    /\ Puppet \in Runs
    /\ MaxKeys \in Nat /\ MaxKills \in Nat /\ MaxMoves \in Nat
    /\ {None, File, Blank} \cap Nat = {}
    /\ None \notin {File, Blank}

Keys == 1..MaxKeys

\* What write_certbot_files writes, in this order; certbot needs the first
\* three.  An empty file is one that is open and not yet written.
CertbotFiles == {"private_key", "regr", "meta"}
Names == CertbotFiles \cup {"public_key"}
Contents == {"absent", "empty", "whole"}

VARIABLES
    files,          \* [Keys -> [Names -> Contents]]
    mtime,          \* [Keys -> when its public_key.pem was last written]
    clock,          \* counts those writes
    link,           \* what public_key.pem is: a key is a symlink to that one's
    made,           \* how many keys have been generated
    pc,             \* [Runs -> where it is]
    key,            \* [Runs -> the key it makes or has found]
    fresh,          \* [Runs -> whether it is one it has made]
    printed,        \* [Runs -> what it has printed: a key, or Blank]
    overlapped,     \* history: two runs have been under way at the same time
    kills, moves    \* counters of what is bounded

disk == <<files, mtime, clock, link, made>>
run == <<pc, key, fresh, printed>>
counters == <<kills, moves>>
vars == <<disk, run, overlapped, counters>>

Phases == Names \cup {"idle", "look", "test", "unlink", "symlink", "print"}

Init ==
    /\ files = [k \in Keys |-> [f \in Names |-> "absent"]]
    /\ mtime = [k \in Keys |-> 0] /\ clock = 0
    /\ link \in {None, File}
    /\ made = 0
    /\ pc = [r \in Runs |-> "idle"]
    /\ key = [r \in Runs |-> None]
    /\ fresh = [r \in Runs |-> FALSE]
    /\ printed = [r \in Runs |-> None]
    /\ overlapped = FALSE
    /\ kills = 0 /\ moves = 0

Present(k, f) == files[k][f] # "absent"

\* symlink.is_symlink() and symlink.exists(), which follows it
IsSymlink == link \in Keys

Exists == link = File \/ (IsSymlink /\ Present(link, "public_key"))

Goto(r, phase) == pc' = [pc EXCEPT ![r] = phase]

\* The run ends in an exception, or is told to exit.
Stop(r) == Goto(r, "idle") /\ UNCHANGED <<key, fresh, printed>>
-----------------------------------------------------------------------------
(***************************************************************************)
(* main                                                                    *)
(***************************************************************************)
\* The script exits if the symlink is none, and Puppet does not run it if it
\* resolves ("creates").
Begin(r) ==
    /\ pc[r] = "idle"
    /\ link # File
    /\ r = Puppet => ~Exists
    /\ overlapped' = (overlapped \/ \E s \in Runs : pc[s] # "idle")
    /\ Goto(r, "look")
    /\ key' = [key EXCEPT ![r] = None]
    /\ fresh' = [fresh EXCEPT ![r] = FALSE]
    /\ printed' = [printed EXCEPT ![r] = None]
    /\ UNCHANGED <<disk, counters>>

\* Fault: an account is one the symlink leads to.
ExistingByLink == {k \in Keys : link = k /\ Present(k, "public_key")}

\* Fault: a directory with a private key is an account.
ExistingPrivate == {k \in Keys : Present(k, "private_key")}

\* The accounts of the server
Existing == {k \in Keys : Present(k, "public_key") /\ Present(k, "private_key")}

\* Of several, the most recently modified one is used.
Reuse(r) ==
    /\ pc[r] = "look"
    /\ \E k \in Existing :
         /\ \A j \in Existing : mtime[j] <= mtime[k]
         /\ key' = [key EXCEPT ![r] = k]
    /\ Goto(r, "test")
    /\ UNCHANGED <<disk, fresh, printed, overlapped, counters>>

\* There is none: a new key, and a directory of its name.
Generate(r) ==
    /\ pc[r] = "look"
    /\ Existing = {}
    /\ made < MaxKeys
    /\ made' = made + 1
    /\ key' = [key EXCEPT ![r] = made']
    /\ fresh' = [fresh EXCEPT ![r] = TRUE]
    /\ Goto(r, "private_key")
    /\ UNCHANGED <<files, mtime, clock, link, printed, overlapped, counters>>

\* Faults: the public key is written before what certbot needs; or a phase is
\* not one.
FollowingPublicFirst ==
    [private_key |-> "public_key", public_key |-> "regr", regr |-> "meta", meta |-> "test"]

FollowingNowhere ==
    [private_key |-> "regr", regr |-> "meta", meta |-> "public_key", public_key |-> "end"]

\* What comes after a file is written
Following ==
    [private_key |-> "regr", regr |-> "meta", meta |-> "public_key", public_key |-> "test"]

Touch(k, f) ==
    IF f = "public_key" THEN clock' = clock + 1 /\ mtime' = [mtime EXCEPT ![k] = clock']
    ELSE UNCHANGED <<clock, mtime>>

\* write_certbot_files creates a file of the directory,
Open(r, f) ==
    /\ pc[r] = f
    /\ files[key[r]][f] = "absent"
    /\ files' = [files EXCEPT ![key[r]][f] = "empty"]
    /\ Touch(key[r], f)
    /\ UNCHANGED <<link, made, run, overlapped, counters>>

\* and writes it.
Write(r, f) ==
    /\ pc[r] = f
    /\ files[key[r]][f] = "empty"
    /\ files' = [files EXCEPT ![key[r]][f] = "whole"]
    /\ Touch(key[r], f)
    /\ Goto(r, Following[f])
    /\ UNCHANGED <<link, made, key, fresh, printed, overlapped, counters>>

\* Fault: a symlink that leads nowhere is not there.
TestExists(r) ==
    /\ pc[r] = "test"
    /\ Goto(r, IF Exists THEN (IF fresh[r] THEN "unlink" ELSE "print") ELSE "symlink")
    /\ UNCHANGED <<disk, key, fresh, printed, overlapped, counters>>

\* A new account replaces a symlink; for one that was found, only one that
\* leads nowhere is.
Test(r) ==
    /\ pc[r] = "test"
    /\ Goto(r, IF ~fresh[r] /\ Exists THEN "print"
               ELSE IF IsSymlink THEN "unlink" ELSE "symlink")
    /\ UNCHANGED <<disk, key, fresh, printed, overlapped, counters>>

\* FileNotFoundError if someone else has removed it since
Unlink(r) ==
    /\ pc[r] = "unlink"
    /\ link' = None
    /\ IF link = None THEN Stop(r) ELSE Goto(r, "symlink") /\ UNCHANGED <<key, fresh, printed>>
    /\ UNCHANGED <<files, mtime, clock, made, overlapped, counters>>

\* FileExistsError if someone else has made one
Symlink(r) ==
    /\ pc[r] = "symlink"
    /\ \/ link = None /\ link' = key[r] /\ Goto(r, "print") /\ UNCHANGED <<key, fresh, printed>>
       \/ link # None /\ UNCHANGED link /\ Stop(r)
    /\ UNCHANGED <<files, mtime, clock, made, overlapped, counters>>

\* The key in memory; of an account that was found, what is in its file, which
\* is an empty line if the file is empty, and an exception if it is gone.
Output(r) ==
    IF fresh[r] THEN key[r]
    ELSE CASE files[key[r]]["public_key"] = "whole" -> key[r]
           [] files[key[r]]["public_key"] = "empty" -> Blank
           [] OTHER -> None

PrintKey(r) ==
    /\ pc[r] = "print"
    /\ printed' = [printed EXCEPT ![r] = Output(r)]
    /\ Goto(r, "idle")
    /\ UNCHANGED <<disk, key, fresh, overlapped, counters>>

Step(r) ==
    \/ Reuse(r) \/ Generate(r)
    \/ \E f \in Names : Open(r, f) \/ Write(r, f)
    \/ Test(r) \/ Unlink(r) \/ Symlink(r) \/ PrintKey(r)
-----------------------------------------------------------------------------
(***************************************************************************)
(* What comes from outside                                                 *)
(***************************************************************************)
\* What a run that is killed has written stays as it is.
Kill(r) ==
    /\ pc[r] # "idle"
    /\ kills < MaxKills
    /\ kills' = kills + 1
    /\ Stop(r)
    /\ UNCHANGED <<disk, overlapped, moves>>

RemoveLink ==
    /\ link # None
    /\ moves < MaxMoves
    /\ moves' = moves + 1
    /\ link' = None
    /\ UNCHANGED <<files, mtime, clock, made, run, overlapped, kills>>

\* The directory of an account, not one that is being written
MoveAway(k) ==
    /\ k \in Existing
    /\ \A r \in Runs : pc[r] \in Names => key[r] # k
    /\ moves < MaxMoves
    /\ moves' = moves + 1
    /\ files' = [files EXCEPT ![k] = [f \in Names |-> "absent"]]
    /\ UNCHANGED <<mtime, clock, link, made, run, overlapped, kills>>

Next ==
    \/ \E r \in Runs : Begin(r) \/ Step(r) \/ Kill(r)
    \/ RemoveLink
    \/ \E k \in Keys : MoveAway(k)

\* Puppet comes back, and what runs goes on.  Nobody need do anything by hand.
Fairness == WF_vars(Begin(Puppet)) /\ \A r \in Runs : WF_vars(Step(r))

Spec == Init /\ [][Next]_vars

FairSpec == Spec /\ Fairness
-----------------------------------------------------------------------------
TypeOK ==
    /\ files \in [Keys -> [Names -> Contents]]
    /\ mtime \in [Keys -> Nat] /\ clock \in Nat
    /\ link \in Keys \cup {None, File}
    /\ made \in 0..MaxKeys
    /\ pc \in [Runs -> Phases]
    /\ key \in [Runs -> Keys \cup {None}]
    /\ fresh \in [Runs -> BOOLEAN]
    /\ printed \in [Runs -> Keys \cup {None, Blank}]
    /\ overlapped \in BOOLEAN
    /\ kills \in 0..MaxKills /\ moves \in 0..MaxMoves

\* What certbot needs of an account,
HasAccount(k) == \A f \in CertbotFiles : files[k][f] = "whole"

\* and what it takes to print the key again
Provisioned(k) == HasAccount(k) /\ files[k]["public_key"] = "whole"

\* Puppet takes the host for done when the symlink resolves: then all that
\* certbot needs of the account it leads to is written, whatever run was
\* killed, and when, and whoever made the symlink.
AccountBehindGuard == IsSymlink /\ Exists => HasAccount(link)

\* "Check for an existing account for this server before generating a new
\* key": runs that do not overlap leave the server one account, however often
\* one of them is killed between any two steps.  A public_key.pem that is
\* still empty counts.
OneAccount ==
    ~overlapped =>
        \A j, k \in Keys : Present(j, "public_key") /\ Present(k, "public_key") => j = k

\* The key that is printed, to be registered with the CA, is that of an account
\* the host has and can print again, unless it was moved away meanwhile; and
\* unless runs overlap, it is the one behind the guard.
PrintedKeyHasAccount ==
    [][\A r \in Runs : pc[r] = "print" /\ printed'[r] \in Keys =>
         \/ \A f \in Names : ~Present(printed'[r], f)
         \/ /\ Provisioned(printed'[r])
            /\ ~overlapped /\ IsSymlink /\ Exists => link = printed'[r]]_vars

\* A run is about to write the public key of k.
Writing(k) == \E r \in Runs : pc[r] = "public_key" /\ key[r] = k

\* What has become of the account of a key.  The directory of a run that was
\* killed before it came to public_key.pem is none, and stays so.  With that
\* file still empty it is one, which is mute when nobody is left to write it;
\* and without another file it would be one that nobody can use.
AccountState(k) ==
    IF mtime[k] = 0 THEN "none"
    ELSE IF \A f \in Names : ~Present(k, f) THEN "gone"
    ELSE IF ~HasAccount(k) \/ ~Present(k, "public_key") THEN "broken"
    ELSE IF Provisioned(k) THEN "there"
    ELSE IF Writing(k) THEN "started" ELSE "mute"

Accounts == INSTANCE AccountStore WITH
    Users <- Runs,
    account <- [k \in Keys |-> AccountState(k)],
    guard <- link,
    shown <- printed,
    contended <- overlapped

\* However its runs are interleaved and killed between any two of their steps,
\* the script keeps accounts as AccountStore promises: certbot has all of one
\* when the guard or a later run first sees it, its key is printed only if the
\* host can print it again, and an empty line is printed only for one whose
\* maker is not done or was killed at its public_key.pem.
ImplementsAccounts == Accounts!StoreSpec

\* As long as Puppet comes back, the guard resolves in the end, whatever was
\* killed, moved or raced before.
GuardSettles == <>[]Exists

=============================================================================
