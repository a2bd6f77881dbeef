---------------------------- MODULE AccountStore ----------------------------
(***************************************************************************)
(* What generate_acme_key.py promises to those who use its accounts:       *)
(* certbot, Puppet's guard and who registers the key with the CA.  An      *)
(* account has all that certbot needs from when it is first seen, and its  *)
(* key can be shown when its maker has completed it.  If the maker gives   *)
(* up before that it is mute: it counts as the account, and all that is    *)
(* shown of it, now and ever after, is blank.  An account stays as it is   *)
(* until someone moves it away, and never comes back.  Unless users        *)
(* contend, it only appears where there is none.                           *)
(*                                                                         *)
(* The guard only leads to an account, and is never bent from one to       *)
(* another.  A key that is shown is that of an account that was completed: *)
(* the one behind the guard, if users do not contend and the guard         *)
(* resolves.                                                               *)
(***************************************************************************)
CONSTANTS Users,        \* who asks for a key
          Keys,
          None,         \* no guard, nothing shown
          File,         \* a guard that the script did not make
          Blank         \* what is shown of a mute account

VARIABLES account,      \* [Keys -> {"none", "started", "mute", "there", "gone"}]
          guard,        \* the key whose account it leads to
          shown,        \* [Users -> what is shown]
          contended     \* two users have been at it at the same time

storevars == <<account, guard, shown, contended>>

StoreInit ==
    /\ account = [k \in Keys |-> "none"]
    /\ guard \in {None, File}
    /\ shown = [u \in Users |-> None]
    /\ contended = FALSE

Gone(k) == account[k] \in {"none", "gone"}

\* A user asks anew, perhaps while another one is being served.
Ask(u) ==
    /\ shown' = [shown EXCEPT ![u] = None]
    /\ contended' \in {contended, TRUE}
    /\ UNCHANGED <<account, guard>>

Become(k, from, to) ==
    /\ account[k] \in from
    /\ account' = [account EXCEPT ![k] = to]
    /\ UNCHANGED <<guard, shown, contended>>

Create(k) ==
    /\ ~contended => \A j \in Keys : Gone(j)
    /\ Become(k, {"none"}, "started")

Complete(k) == Become(k, {"started"}, "there")

\* There is no way back from this but to move the account away.
Abandon(k) == Become(k, {"started"}, "mute")

Remove(k) == Become(k, {"there", "mute"}, "gone")

\* The account may be mute, or have been moved away in between, which leaves a
\* guard that does not resolve.
SetGuard(k) ==
    /\ guard = None
    /\ account[k] # "none"
    /\ guard' = k
    /\ UNCHANGED <<account, shown, contended>>

DropGuard ==
    /\ guard' = None
    /\ UNCHANGED <<account, shown, contended>>

Show(u, k) ==
    /\ shown[u] = None
    /\ account[k] \in {"there", "gone"}
    /\ ~contended /\ guard \in Keys /\ ~Gone(guard) => guard = k
    /\ shown' = [shown EXCEPT ![u] = k]
    /\ UNCHANGED <<account, guard, contended>>

\* Users that do not contend see this only where there is no other account.
ShowBlank(u) ==
    /\ shown[u] = None
    /\ \E k \in Keys : account[k] = "mute" \/ (contended /\ account[k] = "started")
    /\ ~contended => \A k \in Keys : account[k] # "there"
    /\ shown' = [shown EXCEPT ![u] = Blank]
    /\ UNCHANGED <<account, guard, contended>>

StoreNext ==
    \/ \E u \in Users : Ask(u) \/ ShowBlank(u) \/ \E k \in Keys : Show(u, k)
    \/ \E k \in Keys : Create(k) \/ Complete(k) \/ Abandon(k) \/ Remove(k) \/ SetGuard(k)
    \/ DropGuard

StoreSpec == StoreInit /\ [][StoreNext]_storevars

=============================================================================
