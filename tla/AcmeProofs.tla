----------------------------- MODULE AcmeProofs -----------------------------
(***************************************************************************)
(* What is behind Puppet's guard, for any number of runs, keys, kills and  *)
(* moves.  The invariant says what the files of a key are while the run    *)
(* that made it writes them and afterwards (Ordered, Complete, Kept), that *)
(* no two runs write the same key (Unique), and what holds on top of that  *)
(* as long as runs have not overlapped (Alone).                            *)
(***************************************************************************)
EXTENDS AcmeKey, TLAPS

Later == {"test", "unlink", "symlink", "print"}

Active(r) == pc[r] \in Names \cup Later

MovedAway(k) == \A f \in Names : ~Present(k, f)

\* A writer has what it has written so far, in a directory of its own.
Ordered ==
    \A r \in Runs :
        /\ Active(r) => key[r] \in Keys
        /\ pc[r] \in Names => fresh[r]
        /\ pc[r] = "look" => ~fresh[r]
        /\ pc[r] \in {"regr", "meta", "public_key"}
             => files[key[r]]["private_key"] = "whole"
        /\ pc[r] \in {"meta", "public_key"} => files[key[r]]["regr"] = "whole"
        /\ pc[r] = "public_key" => files[key[r]]["meta"] = "whole"

Complete == \A k \in Keys : Present(k, "public_key") => HasAccount(k)

Unique ==
    /\ \A r \in Runs : Active(r) /\ fresh[r] => key[r] <= made
    /\ \A r, s \in Runs :
         Active(r) /\ Active(s) /\ fresh[r] /\ fresh[s] /\ key[r] = key[s] => r = s

Kept ==
    \A r \in Runs : pc[r] \in Later /\ fresh[r]
        => Provisioned(key[r]) \/ MovedAway(key[r])

Alone ==
    ~overlapped =>
        /\ \A r, s \in Runs : pc[r] # "idle" /\ pc[s] # "idle" => r = s
        /\ \A j, k \in Keys :
             Present(j, "public_key") /\ Present(k, "public_key") => j = k
        /\ \A r \in Runs : \A k \in Keys :
             pc[r] \in Names /\ Present(k, "public_key") => k = key[r]

Inv == Ordered /\ Complete /\ Unique /\ Kept /\ Alone

IInv == TypeOK /\ Inv
-----------------------------------------------------------------------------
\* At first there is no file and nobody at work.
LEMMA InitInv == Init => IInv
  <1> SUFFICES ASSUME Init PROVE IInv
    OBVIOUS
  <1>1. /\ files \in [Keys -> [Names -> Contents]] /\ mtime \in [Keys -> Nat]
        /\ link \in Keys \cup {None, File}
        /\ \A k \in Keys : files[k]["public_key"] = "absent"
    BY DEF Init, Contents, Names
  <1>2. /\ pc \in [Runs -> Phases] /\ key \in [Runs -> Keys \cup {None}]
        /\ fresh \in [Runs -> BOOLEAN] /\ printed \in [Runs -> Keys \cup {None, Blank}]
        /\ \A r \in Runs : pc[r] = "idle"
    BY DEF Init, Phases
  <1>3. TypeOK
    <2>1. clock = 0 /\ made = 0 /\ kills = 0 /\ moves = 0 /\ overlapped \in BOOLEAN
      BY DEF Init
    <2>2. 0 \in Nat /\ 0 \in 0..MaxKeys /\ 0 \in 0..MaxKills /\ 0 \in 0..MaxMoves
      BY AcmeAssumption
    <2> QED BY <1>1, <1>2, <2>1, <2>2 DEF TypeOK
  <1>4. \A r \in Runs : ~Active(r) /\ pc[r] \notin Names /\ pc[r] \notin Later
    BY <1>2 DEF Active, Names, CertbotFiles, Later
  <1>5. Ordered /\ Unique /\ Kept
    BY <1>2, <1>4 DEF Ordered, Unique, Kept
  <1>6. Complete /\ Alone
    BY <1>1, <1>2 DEF Complete, Alone, Present
  <1> QED BY <1>3, <1>5, <1>6 DEF IInv, Inv

\* A run that goes on after the files are written, or ends, disturbs nothing.
LEMMA QuietStep ==
    ASSUME IInv, NEW r \in Runs, NEW phase \in Later \cup {"idle"},
           pc[r] \in Later \/ phase = "idle",
           UNCHANGED <<files, made, key, fresh, overlapped>>, Goto(r, phase)
    PROVE  Inv'
  <1>1. /\ pc'[r] = phase
        /\ \A s \in Runs : s # r => pc'[s] = pc[s]
        /\ TypeOK /\ Inv
    BY DEF IInv, TypeOK, Goto
  <1>2. \A s \in Runs : /\ pc'[s] \in Names => pc[s] \in Names /\ pc'[s] = pc[s]
                        /\ pc'[s] \in Later => pc[s] \in Later
                        /\ pc'[s] = "look" => pc[s] = "look"
                        /\ pc'[s] # "idle" => pc[s] # "idle"
                        /\ Active(s)' => Active(s)
    BY <1>1 DEF Later, Names, CertbotFiles, Active
  <1>3. Ordered'
    BY <1>1, <1>2 DEF Inv, Ordered, Names, CertbotFiles
  <1>6. Unique'
    BY <1>1, <1>2 DEF Inv, Unique
  <1>4. Complete' /\ Kept'
    BY <1>1, <1>2 DEF Inv, Complete, Kept, Present, HasAccount, Provisioned, MovedAway
  <1>5. Alone'
    BY <1>1, <1>2 DEF Inv, Alone, Present
  <1> QED BY <1>3, <1>4, <1>5, <1>6 DEF Inv

\* Nor does one that begins, but it may overlap with others.
LEMMA BeginStep == ASSUME IInv, NEW r \in Runs, Begin(r) PROVE Inv'
  <1>1. /\ pc[r] = "idle" /\ pc'[r] = "look" /\ ~fresh'[r] /\ UNCHANGED <<files, made>>
        /\ \A s \in Runs : s # r => pc'[s] = pc[s] /\ key'[s] = key[s] /\ fresh'[s] = fresh[s]
        /\ overlapped' = (overlapped \/ \E s \in Runs : pc[s] # "idle")
        /\ TypeOK /\ Inv
    BY DEF IInv, TypeOK, Begin, Goto, disk
  <1>2. \A s \in Runs : /\ s = r => ~Active(s)' /\ pc'[s] \notin Names /\ pc'[s] \notin Later
                        /\ s # r => (Active(s)' <=> Active(s))
    BY <1>1 DEF Active, Names, CertbotFiles, Later
  <1>3. Ordered'
    BY <1>1, <1>2 DEF Inv, Ordered, Active, Names, CertbotFiles
  <1>4. Unique'
    BY <1>1, <1>2 DEF Inv, Unique
  <1>5. Complete' /\ Kept'
    BY <1>1, <1>2 DEF Inv, Complete, Kept, Present, HasAccount, Provisioned, MovedAway
  <1>6. Alone'
    BY <1>1, <1>2 DEF Inv, Alone, Present
  <1> QED BY <1>3, <1>4, <1>5, <1>6 DEF Inv

\* An account that is found is no concern of who writes.
LEMMA ReuseStep == ASSUME IInv, NEW r \in Runs, Reuse(r) PROVE Inv'
  <1>1. PICK k \in Existing : key' = [key EXCEPT ![r] = k]
    BY DEF Reuse
  <1>2. /\ pc[r] = "look" /\ pc'[r] = "test" /\ k \in Keys /\ key'[r] = k
        /\ UNCHANGED <<files, made, fresh, overlapped>>
        /\ \A s \in Runs : s # r => pc'[s] = pc[s] /\ key'[s] = key[s]
        /\ TypeOK /\ Inv
    BY <1>1 DEF IInv, TypeOK, Reuse, Goto, disk, Existing
  <1>3. ~fresh[r]
    BY <1>2 DEF Inv, Ordered
  <1>4. \A s \in Runs :
          /\ pc'[s] \in Names => s # r
          /\ Active(s)' /\ fresh[s] => s # r /\ Active(s)
          /\ s # r => (Active(s)' <=> Active(s))
    BY <1>2, <1>3 DEF Active, Names, CertbotFiles, Later
  <1>5. Ordered'
    BY <1>2, <1>4 DEF Inv, Ordered, Names, CertbotFiles
  <1>6. Unique'
    BY <1>2, <1>4 DEF Inv, Unique
  <1>7. Complete' /\ Kept'
    BY <1>2, <1>3 DEF Inv, Complete, Kept, Present, HasAccount, Provisioned, MovedAway
  <1>8. Alone'
    BY <1>2, <1>4 DEF Inv, Alone, Present
  <1> QED BY <1>5, <1>6, <1>7, <1>8 DEF Inv

\* A key that is generated is new, and without an account there is none that it
\* could come to stand beside.
LEMMA GenerateStep == ASSUME IInv, NEW r \in Runs, Generate(r) PROVE Inv'
  <1>1. /\ pc[r] = "look" /\ pc'[r] = "private_key" /\ key'[r] = made + 1
        /\ fresh'[r] = TRUE /\ made' = made + 1 /\ made' \in Keys
        /\ UNCHANGED <<files, overlapped>>
        /\ \A s \in Runs : s # r => pc'[s] = pc[s] /\ key'[s] = key[s] /\ fresh'[s] = fresh[s]
        /\ TypeOK /\ Inv /\ Existing = {} /\ made \in Nat
    BY AcmeAssumption DEF IInv, TypeOK, Generate, Goto, Keys
  <1>2. \A k \in Keys : ~Present(k, "public_key")
    BY <1>1 DEF Existing, Inv, Complete, HasAccount, Present, CertbotFiles
  <1>3. \A s \in Runs : s # r => (Active(s)' <=> Active(s))
    BY <1>1 DEF Active
  <1>4. \A s \in Runs : Active(s) /\ fresh[s] => key[s] \in Nat /\ key[s] <= made
    BY <1>1 DEF Inv, Ordered, Unique, Keys
  <1>5. Ordered'
    BY <1>1, <1>3 DEF Inv, Ordered, Names, CertbotFiles
  <1>6. Unique'
    <2>1. \A s \in Runs : (Active(s) /\ fresh[s])' => key'[s] <= made'
      BY <1>1, <1>3, <1>4
    <2>2. ASSUME NEW s \in Runs, NEW t \in Runs, Active(s)', Active(t)',
                 fresh'[s], fresh'[t], key'[s] = key'[t]
          PROVE  s = t
      <3>1. CASE s # r /\ t # r
        BY <1>1, <1>3, <2>2, <3>1 DEF Inv, Unique
      <3>2. CASE s = r \/ t = r
        BY <1>1, <1>3, <1>4, <2>2, <3>2
      <3> QED BY <3>1, <3>2
    <2> QED BY <2>1, <2>2 DEF Unique
  <1>7. Complete' /\ Kept'
    BY <1>1 DEF Inv, Complete, Kept, Present, HasAccount, Provisioned, MovedAway, Later
  <1>8. Alone'
    BY <1>1, <1>2 DEF Inv, Alone, Present
  <1> QED BY <1>5, <1>6, <1>7, <1>8 DEF Inv

\* Writing changes a single file, of a key no other run has made.
LEMMA WriterFacts ==
    ASSUME IInv, NEW r \in Runs, NEW f \in Names, pc[r] = f
    PROVE  /\ TypeOK /\ Inv /\ Active(r) /\ fresh[r] /\ key[r] \in Keys
           /\ \A s \in Runs : Active(s) /\ fresh[s] /\ key[s] = key[r] => s = r
  BY DEF IInv, Inv, Ordered, Unique, Active

\* A file that is opened is public_key.pem only if all certbot needs is written.
LEMMA OpenStep ==
    ASSUME IInv, NEW r \in Runs, NEW f \in Names, Open(r, f)
    PROVE  Inv'
  <1> DEFINE k == key[r]
  <1>1. pc[r] = f /\ UNCHANGED <<made, pc, key, fresh, overlapped>>
    BY DEF Open, run
  <1>2. /\ TypeOK /\ Inv /\ Active(r) /\ fresh[r] /\ k \in Keys
        /\ \A s \in Runs : Active(s) /\ fresh[s] /\ key[s] = k => s = r
    BY <1>1, WriterFacts
  <1>3. /\ files[k][f] = "absent" /\ files'[k][f] = "empty"
        /\ \A j \in Keys, g \in Names : j # k \/ g # f => files'[j][g] = files[j][g]
    BY <1>2 DEF Open, TypeOK
  <1> HIDE DEF k
  <1>4. \A j \in Keys, g \in Names : files[j][g] = "whole" => files'[j][g] = "whole"
    BY <1>3
  <1>5. Ordered'
    BY <1>1, <1>2, <1>4 DEF Inv, Ordered, Active, Names, CertbotFiles
  <1>6. Unique'
    BY <1>1, <1>2 DEF Inv, Unique, Active
  <1>7. f = "public_key" => HasAccount(k)
    BY <1>1, <1>2 DEF Inv, Ordered, HasAccount, CertbotFiles, k
  <1>8. \A j \in Keys : HasAccount(j) => HasAccount(j)'
    BY <1>4 DEF HasAccount, Names
  <1>9. \A j \in Keys : Present(j, "public_key")' =>
                          Present(j, "public_key") \/ (j = k /\ f = "public_key")
    BY <1>3 DEF Present, Names
  <1>10. Complete'
    BY <1>2, <1>7, <1>8, <1>9 DEF Inv, Complete
  <1>11. Kept'
    <2> SUFFICES ASSUME NEW s \in Runs, pc[s] \in Later, fresh[s]
                 PROVE  (Provisioned(key[s]) \/ MovedAway(key[s]))'
      BY <1>1 DEF Kept
    <2>1. Active(s) /\ key[s] \in Keys /\ s # r
      BY <1>1, <1>2 DEF Active, Inv, Ordered, Later, Names, CertbotFiles
    <2>2. key[s] # k
      BY <1>2, <2>1
    <2>3. \A g \in Names : files'[key[s]][g] = files[key[s]][g]
      BY <1>3, <2>1, <2>2
    <2>4. Provisioned(key[s]) \/ MovedAway(key[s])
      BY <1>2 DEF Inv, Kept
    <2> QED BY <1>1, <2>3, <2>4 DEF Provisioned, MovedAway, HasAccount, Present, Names
  <1>12. Alone'
    BY <1>1, <1>2, <1>9 DEF Inv, Alone, Active, Names, CertbotFiles, Later, k
  <1> QED BY <1>5, <1>6, <1>10, <1>11, <1>12 DEF Inv

\* A file that is written brings its run to the next one, or to the symlink.
LEMMA WriteStep ==
    ASSUME IInv, NEW r \in Runs, NEW f \in Names, Write(r, f)
    PROVE  Inv'
  <1> DEFINE k == key[r]
  <1>1. pc[r] = f /\ UNCHANGED <<made, key, fresh, overlapped>>
    BY DEF Write
  <1>2. /\ TypeOK /\ Inv /\ Active(r) /\ fresh[r] /\ k \in Keys
        /\ \A s \in Runs : Active(s) /\ fresh[s] /\ key[s] = k => s = r
    BY <1>1, WriterFacts
  <1>3. /\ files[k][f] = "empty" /\ files'[k][f] = "whole"
        /\ \A j \in Keys, g \in Names : j # k \/ g # f => files'[j][g] = files[j][g]
    BY <1>2 DEF Write, TypeOK
  <1>4. /\ pc'[r] = Following[f]
        /\ \A s \in Runs : s # r => pc'[s] = pc[s]
        /\ pc'[r] \in {"regr", "meta", "public_key", "test"}
        /\ pc'[r] = "regr" => f = "private_key"
        /\ pc'[r] = "meta" => f = "regr"
        /\ pc'[r] = "public_key" => f = "meta"
        /\ pc'[r] = "test" => f = "public_key"
    BY <1>2 DEF Write, Goto, TypeOK, Following, Names, CertbotFiles
  <1> HIDE DEF k
  <1>5. \A j \in Keys, g \in Names : files[j][g] = "whole" => files'[j][g] = "whole"
    BY <1>3
  <1>6. \A s \in Runs : Active(s)' <=> Active(s)
    BY <1>2, <1>4 DEF Active, Names, CertbotFiles, Later
  <1>7. Ordered'
    <2> SUFFICES ASSUME NEW s \in Runs
                 PROVE  (/\ Active(s) => key[s] \in Keys
                         /\ pc[s] \in Names => fresh[s]
                         /\ pc[s] = "look" => ~fresh[s]
                         /\ pc[s] \in {"regr", "meta", "public_key"}
                              => files[key[s]]["private_key"] = "whole"
                         /\ pc[s] \in {"meta", "public_key"}
                              => files[key[s]]["regr"] = "whole"
                         /\ pc[s] = "public_key" => files[key[s]]["meta"] = "whole")'
      BY DEF Ordered
    <2>1. CASE s = r
      <3>1. f \in {"regr", "meta", "public_key"} => files[k]["private_key"] = "whole"
        BY <1>1, <1>2 DEF Inv, Ordered, k
      <3>2. f \in {"meta", "public_key"} => files[k]["regr"] = "whole"
        BY <1>1, <1>2 DEF Inv, Ordered, k
      <3> QED BY <2>1, <3>1, <3>2, <1>1, <1>2, <1>3, <1>4, <1>5 DEF Names, CertbotFiles, k
    <2>2. CASE s # r
      BY <2>2, <1>1, <1>2, <1>4, <1>5, <1>6 DEF Inv, Ordered, Active, Names, CertbotFiles
    <2> QED BY <2>1, <2>2
  <1>8. Unique'
    BY <1>1, <1>2, <1>6 DEF Inv, Unique
  <1>9. \A j \in Keys : HasAccount(j) => HasAccount(j)'
    BY <1>5 DEF HasAccount, Names
  <1>10. \A j \in Keys : Present(j, "public_key")' <=> Present(j, "public_key")
    BY <1>3 DEF Present, Names
  <1>11. Complete'
    BY <1>2, <1>9, <1>10 DEF Inv, Complete
  <1>12. Kept'
    <2> SUFFICES ASSUME NEW s \in Runs, pc'[s] \in Later, fresh[s]
                 PROVE  (Provisioned(key[s]) \/ MovedAway(key[s]))'
      BY <1>1 DEF Kept
    <2>1. CASE s = r
      <3>1. f = "public_key"
        BY <2>1, <1>4 DEF Later
      <3>2. HasAccount(k)
        BY <1>1, <1>2, <3>1 DEF Inv, Ordered, HasAccount, CertbotFiles, k
      <3>3. HasAccount(k)' /\ files'[k]["public_key"] = "whole"
        BY <1>1, <1>2, <1>3, <1>9, <3>1, <3>2 DEF k
      <3> QED BY <2>1, <1>1, <3>3 DEF Provisioned, k
    <2>2. CASE s # r
      <3>1. pc[s] \in Later /\ Active(s) /\ key[s] \in Keys
        BY <2>2, <1>2, <1>4 DEF Active, Inv, Ordered
      <3>2. key[s] # k
        BY <1>2, <2>2, <3>1
      <3>3. \A g \in Names : files'[key[s]][g] = files[key[s]][g]
        BY <1>3, <3>1, <3>2
      <3>4. Provisioned(key[s]) \/ MovedAway(key[s])
        BY <1>2, <3>1 DEF Inv, Kept
      <3> QED BY <1>1, <3>3, <3>4 DEF Provisioned, MovedAway, HasAccount, Present, Names
    <2> QED BY <2>1, <2>2
  <1>13. Alone'
    BY <1>1, <1>2, <1>4, <1>10 DEF Inv, Alone, Active, Names, CertbotFiles, Later
  <1> QED BY <1>7, <1>8, <1>11, <1>12, <1>13 DEF Inv

\* What is moved away goes whole, and not from under a writer.
LEMMA MoveStep == ASSUME IInv, NEW k \in Keys, MoveAway(k) PROVE Inv'
  <1>1. /\ TypeOK /\ Inv /\ UNCHANGED <<made, pc, key, fresh, overlapped>>
        /\ \A r \in Runs : pc[r] \in Names => key[r] # k
    BY DEF IInv, MoveAway, run
  <1>2. /\ \A f \in Names : files'[k][f] = "absent"
        /\ \A j \in Keys : j # k => files'[j] = files[j]
    BY <1>1 DEF MoveAway, TypeOK
  <1>3. Ordered'
    BY <1>1, <1>2 DEF Inv, Ordered, Active, Names, CertbotFiles
  <1>4. Unique'
    BY <1>1 DEF Inv, Unique, Active
  <1>5. Complete' /\ Alone'
    BY <1>1, <1>2 DEF Inv, Complete, Alone, HasAccount, Present, Names
  <1>6. Kept'
    <2> SUFFICES ASSUME NEW s \in Runs, pc[s] \in Later, fresh[s]
                 PROVE  (Provisioned(key[s]) \/ MovedAway(key[s]))'
      BY <1>1 DEF Kept
    <2>1. key[s] \in Keys
      BY <1>1 DEF Inv, Ordered, Active
    <2>2. CASE key[s] = k
      BY <1>1, <1>2, <2>2 DEF MovedAway, Present
    <2>3. CASE key[s] # k
      BY <1>1, <1>2, <2>1, <2>3 DEF Inv, Kept, Provisioned, MovedAway, HasAccount, Present
    <2> QED BY <2>2, <2>3
  <1> QED BY <1>3, <1>4, <1>5, <1>6 DEF Inv

\* The symlink is no part of the invariant: neither what the script does with it
\* nor who removes it by hand disturbs anything.
LEMMA LinkStep ==
    ASSUME IInv, NEW r \in Runs, Test(r) \/ Unlink(r) \/ Symlink(r) \/ PrintKey(r)
    PROVE  Inv'
  <1>1. /\ pc[r] \in Later
        /\ UNCHANGED <<files, made, key, fresh, overlapped>>
        /\ \E phase \in Later \cup {"idle"} : Goto(r, phase)
    <2>1. CASE Test(r)
      BY <2>1 DEF Test, Later, disk
    <2>2. CASE Unlink(r)
      BY <2>2 DEF Unlink, Later, Stop
    <2>3. CASE Symlink(r)
      BY <2>3 DEF Symlink, Later, Stop
    <2>4. CASE PrintKey(r)
      BY <2>4 DEF PrintKey, Later, disk
    <2> QED BY <2>1, <2>2, <2>3, <2>4
  <1>2. PICK phase \in Later \cup {"idle"} : Goto(r, phase)
    BY <1>1
  <1> QED BY <1>1, <1>2, QuietStep

\* Nor does a run that is killed.
LEMMA KillStep == ASSUME IInv, NEW r \in Runs, Kill(r) PROVE Inv'
  <1>1. UNCHANGED <<files, made, key, fresh, overlapped>> /\ Goto(r, "idle")
    BY DEF Kill, Stop, disk
  <1> QED BY <1>1, QuietStep

\* Nor does removing the symlink by hand.
LEMMA RemoveStep == ASSUME IInv, RemoveLink PROVE Inv'
  <1>1. UNCHANGED <<files, made, pc, key, fresh, overlapped>> /\ Inv
    BY DEF IInv, RemoveLink, run
  <1> QED
    BY <1>1 DEF Inv, Ordered, Complete, Unique, Kept, Alone, Active, Provisioned,
                MovedAway, HasAccount, Present

\* Every step preserves the invariant.
LEMMA NextInv == IInv /\ [Next]_vars => Inv'
  <1> SUFFICES ASSUME IInv, [Next]_vars PROVE Inv'
    OBVIOUS
  <1>1. ASSUME NEW r \in Runs, Step(r) PROVE Inv'
    <2>1. CASE \E f \in Names : Open(r, f) \/ Write(r, f)
      BY <2>1, OpenStep, WriteStep
    <2>2. CASE Test(r) \/ Unlink(r) \/ Symlink(r) \/ PrintKey(r)
      BY <2>2, LinkStep
    <2> QED BY <1>1, <2>1, <2>2, ReuseStep, GenerateStep DEF Step
  <1>2. CASE UNCHANGED vars
    <2>1. UNCHANGED <<files, made, pc, key, fresh, overlapped>> /\ Inv
      BY <1>2 DEF IInv, vars, disk, run
    <2> QED
      BY <2>1 DEF Inv, Ordered, Complete, Unique, Kept, Alone, Active, Provisioned,
                  MovedAway, HasAccount, Present
  <1> QED BY <1>1, <1>2, BeginStep, KillStep, RemoveStep, MoveStep DEF Next
-----------------------------------------------------------------------------
\* A key with a writer is a key.
LEMMA NextType == IInv /\ [Next]_vars => TypeOK'
  <1> SUFFICES ASSUME IInv, [Next]_vars PROVE TypeOK'
    OBVIOUS
  <1> USE DEF TypeOK
  <1>1. TypeOK /\ Ordered
    BY DEF IInv, Inv
  <1>2. \A phase \in Phases, r \in Runs : Goto(r, phase) => pc' \in [Runs -> Phases]
    BY <1>1 DEF Goto
  <1>3. Names \subseteq Phases /\ "idle" \in Phases /\ Later \subseteq Phases
        /\ "look" \in Phases
    BY DEF Names, CertbotFiles, Phases, Later
  <1>4. ASSUME NEW r \in Runs, NEW f \in Names, pc[r] = f
        PROVE  key[r] \in Keys /\ Following[f] \in Phases
    BY <1>1, <1>4 DEF Ordered, Active, Following, Names, CertbotFiles, Phases
  <1>5. ASSUME NEW k \in Keys, NEW f \in Names, Touch(k, f)
        PROVE  mtime' \in [Keys -> Nat] /\ clock' \in Nat
    BY <1>1, <1>5 DEF Touch
  <1>6. ASSUME NEW r \in Runs, Begin(r) PROVE TypeOK'
    BY <1>1, <1>2, <1>3, <1>6 DEF Begin, disk, counters
  <1>7. ASSUME NEW r \in Runs, Reuse(r) PROVE TypeOK'
    BY <1>1, <1>2, <1>3, <1>7 DEF Reuse, Existing, disk, counters, Later
  <1>8. ASSUME NEW r \in Runs, Generate(r) PROVE TypeOK'
    <2>1. made' \in 0..MaxKeys /\ made' \in Keys
      BY <1>1, <1>8, AcmeAssumption DEF Generate, Keys
    <2> QED BY <1>1, <1>2, <1>3, <1>8, <2>1 DEF Generate, counters, Names, CertbotFiles
  <1>9. ASSUME NEW r \in Runs, NEW f \in Names, Open(r, f) PROVE TypeOK'
    <2>1. files' \in [Keys -> [Names -> Contents]]
      BY <1>1, <1>4, <1>9 DEF Open, Contents
    <2> QED BY <1>1, <1>4, <1>5, <1>9, <2>1 DEF Open, run, counters
  <1>10. ASSUME NEW r \in Runs, NEW f \in Names, Write(r, f) PROVE TypeOK'
    <2>1. files' \in [Keys -> [Names -> Contents]]
      BY <1>1, <1>4, <1>10 DEF Write, Contents
    <2> QED BY <1>1, <1>2, <1>4, <1>5, <1>10, <2>1 DEF Write, counters
  <1>11. ASSUME NEW r \in Runs, Test(r) PROVE TypeOK'
    BY <1>1, <1>2, <1>3, <1>11 DEF Test, disk, counters, Later
  <1>12. ASSUME NEW r \in Runs, Unlink(r) PROVE TypeOK'
    BY <1>1, <1>2, <1>3, <1>12 DEF Unlink, Stop, counters, Later
  <1>13. ASSUME NEW r \in Runs, Symlink(r) PROVE TypeOK'
    <2>1. key[r] \in Keys
      BY <1>1, <1>13 DEF Symlink, Ordered, Active, Later
    <2> QED BY <1>1, <1>2, <1>3, <1>13, <2>1 DEF Symlink, Stop, counters, Later
  <1>14. ASSUME NEW r \in Runs, PrintKey(r) PROVE TypeOK'
    <2>1. Output(r) \in Keys \cup {None, Blank}
      BY <1>1, <1>14 DEF PrintKey, Output, Ordered, Active, Later
    <2> QED BY <1>1, <1>2, <1>3, <1>14, <2>1 DEF PrintKey, disk, counters
  <1>15. ASSUME NEW r \in Runs, Kill(r) PROVE TypeOK'
    <2>1. kills' \in 0..MaxKills
      BY <1>1, <1>15, AcmeAssumption DEF Kill
    <2> QED BY <1>1, <1>2, <1>3, <1>15, <2>1 DEF Kill, Stop, disk
  <1>16. ASSUME RemoveLink PROVE TypeOK'
    <2>1. moves' \in 0..MaxMoves
      BY <1>1, <1>16, AcmeAssumption DEF RemoveLink
    <2> QED BY <1>1, <1>16, <2>1 DEF RemoveLink, run
  <1>17. ASSUME NEW k \in Keys, MoveAway(k) PROVE TypeOK'
    <2>1. moves' \in 0..MaxMoves
      BY <1>1, <1>17, AcmeAssumption DEF MoveAway
    <2>2. files' \in [Keys -> [Names -> Contents]]
      BY <1>1, <1>17 DEF MoveAway, Contents
    <2> QED BY <1>1, <1>17, <2>1, <2>2 DEF MoveAway, run
  <1>18. CASE UNCHANGED vars
    BY <1>1, <1>18 DEF vars, disk, run, counters
  <1> QED BY <1>6, <1>7, <1>8, <1>9, <1>10, <1>11, <1>12, <1>13, <1>14, <1>15, <1>16,
             <1>17, <1>18 DEF Next, Step

\* The invariant holds for ever.
LEMMA Inductive == Spec => []IInv
  <1>1. IInv /\ [Next]_vars => IInv'
    BY NextInv, NextType DEF IInv
  <1> QED BY InitInv, <1>1, PTL DEF Spec

\* Every variable keeps its type.
THEOREM TypeCorrect == Spec => []TypeOK
  <1>1. IInv => TypeOK
    BY DEF IInv
  <1> QED BY <1>1, Inductive, PTL

\* The symlink that stops Puppet from running the script again leads to an
\* account with everything certbot needs, however many runs there are and
\* wherever they are killed.
THEOREM GuardIsSound == Spec => []AccountBehindGuard
  <1>1. IInv => AccountBehindGuard
    <2> SUFFICES ASSUME IInv, IsSymlink, Exists PROVE HasAccount(link)
      BY DEF AccountBehindGuard
    <2>1. link \in Keys /\ link # File
      BY AcmeAssumption DEF IsSymlink, Keys
    <2> QED BY <2>1 DEF Exists, IInv, Inv, Complete
  <1> QED BY <1>1, Inductive, PTL

\* One run after the other makes a single account.
THEOREM OneAccountOnly == Spec => []OneAccount
  <1>1. IInv => OneAccount
    BY DEF IInv, Inv, Alone, OneAccount
  <1> QED BY <1>1, Inductive, PTL

\* A run prints once, and last.
Silent == \A r \in Runs : pc[r] # "idle" => printed[r] = None

\* No step prints before the last one.
LEMMA StaysSilent == Spec => []Silent
  <1>1. Init => Silent
    BY DEF Init, Silent
  <1>2. ASSUME TypeOK, Silent, [Next]_vars PROVE Silent'
    <2>1. ASSUME NEW r \in Runs, Begin(r) PROVE Silent'
      BY <1>2, <2>1 DEF TypeOK, Silent, Begin, Goto
    <2>2. ASSUME NEW r \in Runs, PrintKey(r) PROVE Silent'
      BY <1>2, <2>2 DEF TypeOK, Silent, PrintKey, Goto
    <2>3. ASSUME UNCHANGED printed, \A s \in Runs : pc[s] = "idle" => pc'[s] = "idle"
          PROVE  Silent'
      BY <1>2, <2>3 DEF Silent
    <2>4. ASSUME NEW r \in Runs, NEW phase, Goto(r, phase), pc[r] # "idle"
          PROVE  \A s \in Runs : pc[s] = "idle" => pc'[s] = "idle"
      BY <1>2, <2>4 DEF TypeOK, Goto
    <2>5. ASSUME NEW r \in Runs, Step(r) PROVE Silent'
      <3>1. ASSUME NEW f \in Names, Open(r, f) \/ Write(r, f) PROVE Silent'
        <4>1. UNCHANGED printed /\ pc[r] # "idle"
          BY <3>1 DEF Open, Write, run, Names, CertbotFiles
        <4>2. UNCHANGED pc \/ Goto(r, Following[f])
          BY <3>1 DEF Open, Write, run
        <4> QED BY <4>1, <4>2, <2>3, <2>4
      <3>2. CASE Reuse(r) \/ Generate(r) \/ Test(r)
        <4>1. UNCHANGED printed /\ pc[r] # "idle" /\ \E phase : Goto(r, phase)
          BY <3>2 DEF Reuse, Generate, Test
        <4> QED BY <4>1, <2>3, <2>4
      <3>3. CASE Unlink(r) \/ Symlink(r)
        <4>1. UNCHANGED printed /\ pc[r] # "idle" /\ \E phase : Goto(r, phase)
          BY <3>3 DEF Unlink, Symlink, Stop
        <4> QED BY <4>1, <2>3, <2>4
      <3> QED BY <2>5, <2>2, <3>1, <3>2, <3>3 DEF Step
    <2>6. ASSUME NEW r \in Runs, Kill(r) PROVE Silent'
      <3>1. UNCHANGED printed /\ pc[r] # "idle" /\ Goto(r, "idle")
        BY <2>6 DEF Kill, Stop
      <3> QED BY <3>1, <2>3, <2>4
    <2>7. CASE RemoveLink \/ (\E k \in Keys : MoveAway(k)) \/ UNCHANGED vars
      BY <2>3, <2>7 DEF RemoveLink, MoveAway, vars, run
    <2> QED BY <1>2, <2>1, <2>5, <2>6, <2>7 DEF Next
  <1> QED BY <1>1, <1>2, TypeCorrect, PTL DEF Spec

\* The key that is printed, whether made or found, is that of an account certbot
\* can use and whose key can be printed again, and without overlapping runs the
\* one that is behind the guard.
THEOREM PrintedIsKept == Spec => PrintedKeyHasAccount
  <1> DEFINE Good(r) ==
        \/ \A f \in Names : ~Present(printed'[r], f)
        \/ /\ Provisioned(printed'[r])
           /\ ~overlapped /\ IsSymlink /\ Exists => link = printed'[r]
  <1>1. ASSUME IInv, Silent, Next, NEW r \in Runs, pc[r] = "print", printed'[r] \in Keys
        PROVE  Good(r)
    <2>1. /\ TypeOK /\ Inv /\ key[r] \in Keys /\ printed[r] = None
      BY <1>1 DEF IInv, Inv, Ordered, Active, Later, Silent
    <2>a. printed'[r] # None
      BY <1>1, AcmeAssumption DEF Keys
    <2>2. PrintKey(r)
      <3>1. printed' # printed
        BY <2>a, <2>1
      <3>2. \A s \in Runs : Begin(s) \/ PrintKey(s) => s = r
        BY <1>1, <2>1, <2>a DEF Begin, PrintKey, TypeOK
      <3>3. ~Begin(r)
        BY <1>1 DEF Begin
      <3>4. PICK s \in Runs : Begin(s) \/ PrintKey(s)
        <4>1. ASSUME NEW s \in Runs, Reuse(s) \/ Generate(s) \/ Test(s) PROVE FALSE
          BY <3>1, <4>1 DEF Reuse, Generate, Test
        <4>2. ASSUME NEW s \in Runs, Unlink(s) \/ Symlink(s) \/ Kill(s) PROVE FALSE
          BY <3>1, <4>2 DEF Unlink, Symlink, Kill, Stop
        <4>3. ASSUME NEW s \in Runs, NEW f \in Names, Open(s, f) \/ Write(s, f)
              PROVE  FALSE
          BY <3>1, <4>3 DEF Open, Write, run
        <4>4. ASSUME RemoveLink \/ \E k \in Keys : MoveAway(k) PROVE FALSE
          BY <3>1, <4>4 DEF RemoveLink, MoveAway, run
        <4> QED BY <1>1, <4>1, <4>2, <4>3, <4>4 DEF Next, Step
      <3> QED BY <3>2, <3>3, <3>4
    <2>3. /\ printed'[r] = key[r]
          /\ fresh[r] \/ files[key[r]]["public_key"] = "whole"
      <3>1. printed'[r] = Output(r)
        BY <2>1, <2>2 DEF PrintKey, TypeOK
      <3> QED BY <1>1, <2>a, <3>1, AcmeAssumption DEF Output, Keys
    <2>4. ASSUME files[key[r]]["public_key"] = "whole" PROVE Good(r)
      <3>0. Present(key[r], "public_key")
        BY <2>4 DEF Present
      <3>1. Provisioned(key[r])
        BY <2>1, <2>4, <3>0 DEF Inv, Complete, Provisioned
      <3>2. IsSymlink /\ Exists => link \in Keys /\ Present(link, "public_key")
        BY AcmeAssumption DEF IsSymlink, Exists, Keys
      <3>3. ~overlapped /\ IsSymlink /\ Exists => link = key[r]
        BY <2>1, <3>0, <3>2 DEF Inv, Alone
      <3> QED BY <2>3, <3>1, <3>3
    <2>5. CASE fresh[r]
      <3>1. Provisioned(key[r]) \/ MovedAway(key[r])
        BY <1>1, <2>1, <2>5 DEF Inv, Kept, Later
      <3> QED BY <2>3, <2>4, <3>1 DEF Provisioned, MovedAway
    <2>6. CASE ~fresh[r]
      BY <2>3, <2>4, <2>6
    <2> QED BY <2>5, <2>6
  <1>2. IInv /\ Silent /\ [Next]_vars
          => [\A r \in Runs : pc[r] = "print" /\ printed'[r] \in Keys => Good(r)]_vars
    BY <1>1
  <1> QED BY <1>2, Inductive, StaysSilent, PTL DEF PrintedKeyHasAccount, Spec
-----------------------------------------------------------------------------
(***************************************************************************)
(* That AcmeKey implements AccountStore.  The account of a key is there    *)
(* from when its public_key.pem is: that is when it is first dated, and    *)
(* no step dates a key again that has none left.                           *)
(***************************************************************************)
Dated ==
    /\ \A k \in Keys : Present(k, "public_key") => mtime[k] > 0
    /\ \A k \in Keys :
         mtime[k] > 0 => k <= made /\ (Present(k, "public_key") \/ MovedAway(k))
    /\ \A r \in Runs :
         /\ pc[r] \in Names /\ mtime[key[r]] > 0
              => pc[r] = "public_key" /\ Present(key[r], "public_key")
         /\ pc[r] \in Later => mtime[key[r]] > 0

\* At first no key is dated.
LEMMA DatedInit == Init => Dated
  BY DEF Init, Dated, Present, Names, CertbotFiles, Later

\* Runs that write nothing leave it so.
LEMMA DatedQuiet ==
    ASSUME Dated, UNCHANGED <<files, mtime, made>>,
           \A r \in Runs :
             /\ pc'[r] \in Names => pc'[r] = pc[r] /\ key'[r] = key[r]
             /\ pc'[r] \in Later => mtime[key'[r]] > 0
    PROVE  Dated'
  BY DEF Dated, Present, MovedAway

\* The writer of a file dates its key with public_key.pem and not before.
LEMMA DatedOpen ==
    ASSUME IInv, Dated, NEW r \in Runs, NEW f \in Names, Open(r, f)
    PROVE  Dated'
  <1> DEFINE k == key[r]
  <1>1. pc[r] = f /\ UNCHANGED <<made, pc, key>>
    BY DEF Open, run
  <1>2. /\ TypeOK /\ Inv /\ Active(r) /\ fresh[r] /\ k \in Keys /\ k <= made
        /\ \A s \in Runs : Active(s) /\ fresh[s] /\ key[s] = k => s = r
    BY <1>1, WriterFacts DEF Inv, Unique
  <1>3. /\ files[k][f] = "absent" /\ files'[k][f] = "empty"
        /\ \A j \in Keys, g \in Names : j # k \/ g # f => files'[j][g] = files[j][g]
    BY <1>2 DEF Open, TypeOK
  <1>4. mtime[k] = 0
    BY <1>1, <1>2, <1>3 DEF Dated, Present, TypeOK
  <1>5. /\ \A j \in Keys : j # k => mtime'[j] = mtime[j]
        /\ f = "public_key" => mtime'[k] > 0
        /\ f # "public_key" => mtime'[k] = mtime[k]
    BY <1>2 DEF Open, Touch, TypeOK
  <1> HIDE DEF k
  <1>6. \A j \in Keys : Present(j, "public_key")' <=>
                          Present(j, "public_key") \/ (j = k /\ f = "public_key")
    BY <1>3 DEF Present, Names
  <1>7. \A j \in Keys : j # k /\ MovedAway(j) => MovedAway(j)'
    BY <1>3 DEF MovedAway, Present
  <1>8. \A s \in Runs : pc[s] \in Names /\ s # r => key[s] \in Keys /\ key[s] # k
    BY <1>2 DEF Inv, Ordered, Active
  <1>9. \A s \in Runs : pc[s] \in Later => key[s] \in Keys /\ key[s] # k
    BY <1>2, <1>4 DEF Inv, Ordered, Active, Dated
  <1>10. mtime'[k] > 0 => f = "public_key"
    BY <1>4, <1>5
  <1>11. \A j \in Keys : j # k => (mtime'[j] > 0 <=> mtime[j] > 0)
    BY <1>5
  <1>12. \A s \in Runs :
           /\ pc[s] \in Names /\ mtime'[key[s]] > 0
                => pc[s] = "public_key" /\ Present(key[s], "public_key")'
           /\ pc[s] \in Later => mtime'[key[s]] > 0
    <2>1. \A s \in Runs : s # r /\ pc[s] \in Names => mtime'[key[s]] = mtime[key[s]]
      BY <1>5, <1>8
    <2>2. \A s \in Runs : pc[s] \in Later => mtime'[key[s]] = mtime[key[s]]
      BY <1>5, <1>9
    <2> QED BY <2>1, <2>2, <1>1, <1>2, <1>6, <1>8, <1>10 DEF Dated, k
  <1>13. \A j \in Keys : Present(j, "public_key")' => mtime'[j] > 0
    BY <1>5, <1>6, <1>10, <1>11, <1>4 DEF Dated
  <1>14. \A j \in Keys : mtime'[j] > 0 => j <= made /\ (Present(j, "public_key")' \/ MovedAway(j)')
    BY <1>2, <1>6, <1>7, <1>10, <1>11 DEF Dated
  <1> QED BY <1>1, <1>12, <1>13, <1>14 DEF Dated

\* A file that is whole has been there before.
LEMMA DatedWrite ==
    ASSUME IInv, Dated, NEW r \in Runs, NEW f \in Names, Write(r, f)
    PROVE  Dated'
  <1> DEFINE k == key[r]
  <1>1. pc[r] = f /\ UNCHANGED <<made, key>>
    BY DEF Write
  <1>2. /\ TypeOK /\ Inv /\ Active(r) /\ fresh[r] /\ k \in Keys
        /\ \A s \in Runs : Active(s) /\ fresh[s] /\ key[s] = k => s = r
    BY <1>1, WriterFacts
  <1>3. /\ files[k][f] = "empty" /\ files'[k][f] = "whole"
        /\ \A j \in Keys, g \in Names : j # k \/ g # f => files'[j][g] = files[j][g]
    BY <1>2 DEF Write, TypeOK
  <1>4. /\ \A s \in Runs : s # r => pc'[s] = pc[s]
        /\ pc'[r] \in {"regr", "meta", "public_key", "test"}
        /\ pc'[r] = "test" <=> f = "public_key"
    BY <1>2 DEF Write, Goto, TypeOK, Following, Names, CertbotFiles
  <1>5. /\ \A j \in Keys : j # k => mtime'[j] = mtime[j]
        /\ f # "public_key" => mtime'[k] = mtime[k]
        /\ f = "public_key" => mtime'[k] > 0 /\ mtime[k] > 0
    BY <1>2, <1>3 DEF Write, Touch, TypeOK, Dated, Present
  <1> HIDE DEF k
  <1>6. \A j \in Keys, g \in Names : Present(j, g)' <=> Present(j, g)
    BY <1>3 DEF Present
  <1>7. \A j \in Keys : mtime'[j] > 0 <=> mtime[j] > 0
    BY <1>5
  <1>8. \A j \in Keys : MovedAway(j)' <=> MovedAway(j)
    BY <1>6 DEF MovedAway
  <1>9. \A s \in Runs : pc[s] \in Names \cup Later => key[s] \in Keys
    BY <1>2 DEF Inv, Ordered, Active
  <1>10. f # "public_key" => ~(mtime[k] > 0)
    BY <1>1, <1>2 DEF Dated, k
  <1>11. \A s \in Runs :
           /\ pc'[s] \in Names /\ mtime'[key[s]] > 0
                => pc'[s] = "public_key" /\ Present(key[s], "public_key")'
           /\ pc'[s] \in Later => mtime'[key[s]] > 0
    <2>1. ASSUME NEW s \in Runs, s # r
          PROVE  /\ pc'[s] \in Names /\ mtime'[key[s]] > 0
                      => pc'[s] = "public_key" /\ Present(key[s], "public_key")'
                 /\ pc'[s] \in Later => mtime'[key[s]] > 0
      <3>1. pc'[s] = pc[s] /\ "public_key" \in Names
        BY <2>1, <1>4 DEF Names
      <3>2. CASE pc[s] \in Names \cup Later
        <4>1. key[s] \in Keys
          BY <1>9, <3>2
        <4>2. /\ mtime'[key[s]] > 0 <=> mtime[key[s]] > 0
              /\ Present(key[s], "public_key")' <=> Present(key[s], "public_key")
          BY <1>1, <1>6, <1>7, <3>1, <4>1
        <4> QED BY <3>1, <4>2 DEF Dated
      <3> QED BY <3>1, <3>2
    <2>2. /\ pc'[r] \in Names => f # "public_key"
          /\ pc'[r] \in Later => f = "public_key"
      BY <1>4 DEF Names, CertbotFiles, Later
    <2>3. (mtime'[k] > 0 <=> mtime[k] > 0) /\ (f = "public_key" => mtime'[k] > 0)
      BY <1>2, <1>5, <1>7
    <2> QED BY <2>1, <2>2, <2>3, <1>10 DEF k
  <1> QED BY <1>1, <1>6, <1>7, <1>8, <1>11 DEF Dated, Names

\* What is moved away has been dated, and no writer is left in it.
LEMMA DatedMove ==
    ASSUME IInv, Dated, NEW k \in Keys, MoveAway(k)
    PROVE  Dated'
  <1>1. /\ TypeOK /\ UNCHANGED <<mtime, made, pc, key>>
        /\ \A r \in Runs : pc[r] \in Names => key[r] # k
        /\ \A r \in Runs : pc[r] \in Names => key[r] \in Keys
    BY DEF IInv, Inv, Ordered, Active, MoveAway, run
  <1>2. /\ \A f \in Names : files'[k][f] = "absent"
        /\ \A j \in Keys : j # k => files'[j] = files[j]
    BY <1>1 DEF MoveAway, TypeOK
  <1>3. /\ MovedAway(k)' /\ ~Present(k, "public_key")'
        /\ \A j \in Keys : j # k =>
             (MovedAway(j)' <=> MovedAway(j)) /\ (Present(j, "public_key")' <=> Present(j, "public_key"))
    BY <1>2 DEF MovedAway, Present, Names
  <1> QED BY <1>1, <1>3 DEF Dated

\* Every step keeps it.
LEMMA DatedNext == IInv /\ Dated /\ [Next]_vars => Dated'
  <1> SUFFICES ASSUME IInv, Dated, [Next]_vars PROVE Dated'
    OBVIOUS
  <1> USE DEF disk
  <1>a. TypeOK /\ Inv
    BY DEF IInv
  <1>b. ASSUME NEW r \in Runs, NEW phase \in Later \cup {"idle", "look"}, Goto(r, phase),
               phase \in Later => pc[r] \in Later,
               \A s \in Runs : s # r => key'[s] = key[s],
               phase \in Later => key'[r] = key[r],
               UNCHANGED <<files, mtime, made>>
        PROVE  Dated'
    <2>1. /\ pc'[r] = phase
          /\ \A s \in Runs : s # r => pc'[s] = pc[s]
          /\ phase \notin Names
      BY <1>a, <1>b DEF TypeOK, Goto, Later, Names, CertbotFiles
    <2>2. \A s \in Runs :
            /\ pc'[s] \in Names => pc'[s] = pc[s] /\ key'[s] = key[s]
            /\ pc'[s] \in Later => mtime[key'[s]] > 0
      BY <1>b, <2>1 DEF Dated
    <2> QED BY <1>b, <2>2, DatedQuiet
  <1>1. ASSUME NEW r \in Runs, Begin(r) PROVE Dated'
    BY <1>a, <1>1, <1>b DEF Begin, TypeOK, Later
  <1>2. ASSUME NEW r \in Runs, Kill(r) PROVE Dated'
    BY <1>2, <1>b DEF Kill, Stop, Later
  <1>3. ASSUME NEW r \in Runs, Test(r) \/ Unlink(r) \/ Symlink(r) \/ PrintKey(r)
        PROVE  Dated'
    <2>1. pc[r] \in Later /\ UNCHANGED <<files, mtime, made, key>>
      BY <1>3 DEF Test, Unlink, Symlink, PrintKey, Stop, Later
    <2>2. \E phase \in Later \cup {"idle", "look"} : Goto(r, phase)
      BY <1>3 DEF Test, Unlink, Symlink, PrintKey, Stop, Later
    <2> QED BY <2>1, <2>2, <1>b
  <1>4. ASSUME NEW r \in Runs, Reuse(r) PROVE Dated'
    <2>1. PICK k \in Existing : key' = [key EXCEPT ![r] = k]
      BY <1>4 DEF Reuse
    <2>2. /\ k \in Keys /\ Present(k, "public_key") /\ key'[r] = k
          /\ \A s \in Runs : s # r => pc'[s] = pc[s] /\ key'[s] = key[s]
          /\ pc'[r] = "test" /\ UNCHANGED <<files, mtime, made>>
      BY <1>a, <1>4, <2>1 DEF Existing, Reuse, Goto, TypeOK
    <2>3. mtime[k] > 0 /\ "test" \notin Names
      BY <2>2 DEF Dated, Names, CertbotFiles
    <2> QED BY <2>2, <2>3, DatedQuiet DEF Dated
  <1>5. ASSUME NEW r \in Runs, Generate(r) PROVE Dated'
    <2>1. /\ pc'[r] = "private_key" /\ key'[r] = made + 1 /\ made' = made + 1
          /\ UNCHANGED <<files, mtime>> /\ made \in Nat /\ made + 1 \in Keys
          /\ \A s \in Runs : s # r => pc'[s] = pc[s] /\ key'[s] = key[s]
      BY <1>a, <1>5, AcmeAssumption DEF Generate, Goto, TypeOK, Keys
    <2>2. ~(mtime[made + 1] > 0)
      BY <2>1 DEF Dated
    <2>3. \A k \in Keys : k <= made => k <= made'
      BY <2>1 DEF Keys
    <2>4. "private_key" \notin Later
      BY DEF Later
    <2>5. \A k \in Keys : (Present(k, "public_key")' <=> Present(k, "public_key"))
                          /\ (MovedAway(k)' <=> MovedAway(k))
      BY <2>1 DEF Present, MovedAway
    <2>6. ASSUME NEW s \in Runs
          PROVE  /\ pc'[s] \in Names /\ mtime'[key'[s]] > 0
                      => pc'[s] = "public_key" /\ Present(key[s], "public_key")'
                 /\ pc'[s] \in Later => mtime'[key'[s]] > 0
      <3>1. CASE s = r
        BY <2>1, <2>2, <2>4, <3>1
      <3>2. CASE s # r
        BY <2>1, <3>2 DEF Dated, Present
      <3> QED BY <3>1, <3>2
    <2>7. /\ \A k \in Keys : Present(k, "public_key")' => mtime'[k] > 0
          /\ \A k \in Keys :
               mtime'[k] > 0 => k <= made' /\ (Present(k, "public_key")' \/ MovedAway(k)')
      <3>1. /\ \A k \in Keys : Present(k, "public_key") => mtime[k] > 0
            /\ \A k \in Keys :
                 mtime[k] > 0 => k <= made /\ (Present(k, "public_key") \/ MovedAway(k))
        BY DEF Dated
      <3> QED BY <2>1, <2>3, <2>5, <3>1
    <2> QED BY <2>6, <2>7 DEF Dated
  <1>6. CASE RemoveLink \/ UNCHANGED vars
    BY <1>6, DatedQuiet DEF RemoveLink, vars, run, Dated
  <1> QED BY <1>1, <1>2, <1>3, <1>4, <1>5, <1>6, DatedOpen, DatedWrite, DatedMove
          DEF Next, Step

\* What has become of an account that is not moved away
Standing(k) ==
    IF files[k]["public_key"] = "whole" THEN "there"
    ELSE IF Writing(k) THEN "started" ELSE "mute"

\* All that is dated is there in some way or moved away; nothing is ever broken.
LEMMA AccountStates ==
    ASSUME IInv, Dated, NEW k \in Keys
    PROVE  AccountState(k) = IF mtime[k] > 0
                             THEN IF Present(k, "public_key") THEN Standing(k) ELSE "gone"
                             ELSE "none"
  <1>1. mtime[k] \in Nat /\ (Present(k, "public_key") => HasAccount(k)) /\ "public_key" \in Names
    BY DEF IInv, TypeOK, Inv, Complete, Names
  <1>2. CASE mtime[k] > 0 /\ Present(k, "public_key")
    BY <1>1, <1>2 DEF AccountState, Provisioned, Standing
  <1>3. CASE mtime[k] > 0 /\ ~Present(k, "public_key")
    <2>1. MovedAway(k)
      BY <1>3 DEF Dated
    <2> QED BY <1>3, <2>1 DEF AccountState, MovedAway
  <1>4. CASE mtime[k] = 0
    BY <1>4 DEF AccountState
  <1> QED BY <1>1, <1>2, <1>3, <1>4

LEMMA AccountStatesNext ==
    ASSUME IInv', Dated', NEW k \in Keys
    PROVE  AccountState(k)' = IF mtime'[k] > 0
                              THEN IF Present(k, "public_key")' THEN Standing(k)' ELSE "gone"
                              ELSE "none"
  <1>1. mtime'[k] \in Nat /\ (Present(k, "public_key")' => HasAccount(k)')
        /\ "public_key" \in Names
    BY DEF IInv, TypeOK, Inv, Complete, Names
  <1>2. CASE mtime'[k] > 0 /\ Present(k, "public_key")'
    BY <1>1, <1>2 DEF AccountState, Provisioned, Standing
  <1>3. CASE mtime'[k] > 0 /\ ~Present(k, "public_key")'
    <2>1. MovedAway(k)'
      BY <1>3 DEF Dated
    <2> QED BY <1>3, <2>1 DEF AccountState, MovedAway
  <1>4. CASE mtime'[k] = 0
    BY <1>4 DEF AccountState
  <1> QED BY <1>1, <1>2, <1>3, <1>4

\* A run on its own has made the only account, if it still is there.
Sole ==
    ~overlapped =>
        \A r \in Runs : \A k \in Keys :
            pc[r] \in Later /\ fresh[r] /\ Present(k, "public_key") => k = key[r]

\* Every step keeps it.
LEMMA SoleNext == IInv /\ Sole /\ [Next]_vars => Sole'
  <1> SUFFICES ASSUME IInv, Sole, [Next]_vars, ~overlapped',
                      NEW r \in Runs, NEW k \in Keys,
                      pc'[r] \in Later, fresh'[r], Present(k, "public_key")'
               PROVE  k = key'[r]
    BY DEF Sole
  <1> USE DEF disk, run
  <1>1. TypeOK /\ Inv /\ ~overlapped
    <2>1. CASE \E s \in Runs : Begin(s)
      BY <2>1 DEF IInv, Begin
    <2>2. ASSUME NEW s \in Runs, Step(s) \/ Kill(s) PROVE UNCHANGED overlapped
      BY <2>2 DEF Step, Reuse, Generate, Open, Write, Test, Unlink, Symlink, PrintKey, Kill
    <2>3. CASE RemoveLink \/ (\E j \in Keys : MoveAway(j)) \/ UNCHANGED vars
      BY <2>3 DEF IInv, RemoveLink, MoveAway, vars
    <2> QED BY <2>1, <2>2, <2>3 DEF IInv, Next
  <1>2. \/ Present(k, "public_key")
        \/ \E s \in Runs : pc[s] = "public_key" /\ k = key[s]
    <2>1. CASE \E s \in Runs, f \in Names : Open(s, f) \/ Write(s, f)
      <3>1. PICK s \in Runs, f \in Names : Open(s, f) \/ Write(s, f)
        BY <2>1
      <3>2. pc[s] = f /\ key[s] \in Keys
        BY <3>1, WriterFacts DEF Open, Write
      <3>3. \A g \in Names : k # key[s] \/ g # f => files'[k][g] = files[k][g]
        BY <1>1, <3>1, <3>2 DEF Open, Write, TypeOK
      <3> QED BY <3>2, <3>3 DEF Present, Names
    <2>2. CASE \E j \in Keys : MoveAway(j)
      BY <1>1, <2>2 DEF MoveAway, TypeOK, Present, Names
    <2>3. CASE UNCHANGED files
      BY <2>3 DEF Present
    <2> QED BY <2>1, <2>2, <2>3 DEF Next, Step, Begin, Reuse, Generate, Test, Unlink, Symlink,
               PrintKey, Kill, RemoveLink, vars
  <1>3. fresh[r] /\ key'[r] = key[r] /\ pc[r] \in Names \cup Later
    <2>1. ASSUME NEW s \in Runs, Begin(s) PROVE s # r
      BY <1>1, <2>1 DEF Begin, Goto, TypeOK, Later
    <2>2. ASSUME NEW s \in Runs, Reuse(s) PROVE s # r
      BY <1>1, <2>2 DEF Reuse, Inv, Ordered
    <2>3. ASSUME NEW s \in Runs, Generate(s) PROVE s # r
      BY <1>1, <2>3 DEF Generate, Goto, TypeOK, Later
    <2>4. ASSUME NEW s \in Runs, Begin(s) \/ Reuse(s) \/ Generate(s)
          PROVE  s # r /\ fresh'[r] = fresh[r] /\ key'[r] = key[r] /\ pc'[r] = pc[r]
      BY <1>1, <2>1, <2>2, <2>3, <2>4 DEF Begin, Reuse, Generate, Goto, TypeOK
    <2>5. ASSUME NEW s \in Runs,
                 \/ \E f \in Names : Open(s, f) \/ Write(s, f)
                 \/ Test(s) \/ Unlink(s) \/ Symlink(s) \/ PrintKey(s) \/ Kill(s)
          PROVE  /\ UNCHANGED <<fresh, key>>
                 /\ s # r => pc'[r] = pc[r]
                 /\ pc'[s] \in Later => pc[s] \in Names \cup Later
      BY <1>1, <2>5 DEF Open, Write, Test, Unlink, Symlink, PrintKey, Kill, Stop, Goto,
         TypeOK, Later
    <2>6. CASE RemoveLink \/ (\E j \in Keys : MoveAway(j)) \/ UNCHANGED vars
      BY <2>6 DEF RemoveLink, MoveAway, vars
    <2> QED BY <2>4, <2>5, <2>6 DEF Next, Step
  <1>4. CASE Present(k, "public_key")
    BY <1>1, <1>3, <1>4 DEF Inv, Alone, Sole
  <1>5. CASE \E s \in Runs : pc[s] = "public_key" /\ k = key[s]
    <2>1. PICK s \in Runs : pc[s] = "public_key" /\ k = key[s]
      BY <1>5
    <2>2. pc[r] # "idle"
      BY <1>3 DEF Names, CertbotFiles, Later
    <2>3. s = r
      BY <1>1, <2>1, <2>2 DEF Inv, Alone
    <2> QED BY <1>3, <2>1, <2>3
  <1> QED BY <1>2, <1>4, <1>5

\* The state of the accounts is that of the store.
account == [k \in Keys |-> AccountState(k)]

\* A run that neither comes to its public key nor leaves it is about to write
\* the same as before.
LEMMA WritingSame ==
    ASSUME TypeOK, NEW r \in Runs, NEW phase, Goto(r, phase), pc[r] # "public_key",
           phase # "public_key", \A s \in Runs : s # r => key'[s] = key[s], NEW k \in Keys
    PROVE  Writing(k)' <=> Writing(k)
  <1>1. pc'[r] = phase /\ \A s \in Runs : s # r => pc'[s] = pc[s]
    BY DEF TypeOK, Goto
  <1> QED BY <1>1 DEF Writing

\* A step that changes no file and no writer changes no account.
LEMMA AccountsSame ==
    UNCHANGED <<files, mtime>> /\ (\A k \in Keys : Writing(k)' <=> Writing(k))
        => UNCHANGED account
  <1> SUFFICES ASSUME UNCHANGED <<files, mtime>>, \A k \in Keys : Writing(k)' <=> Writing(k)
               PROVE  UNCHANGED account
    OBVIOUS
  <1>1. ASSUME NEW k \in Keys PROVE AccountState(k)' = AccountState(k)
    BY DEF AccountState, Provisioned, HasAccount, Present
  <1> QED BY <1>1 DEF account

\* Runs that write nothing
LEMMA QuietMaps ==
    ASSUME TypeOK, NEW r \in Runs,
           Begin(r) \/ Reuse(r) \/ Generate(r) \/ Test(r) \/ Unlink(r) \/ Symlink(r) \/ PrintKey(r)
    PROVE  UNCHANGED account
  <1>1. /\ pc[r] # "public_key" /\ UNCHANGED <<files, mtime>>
        /\ \A s \in Runs : s # r => key'[s] = key[s]
        /\ \E phase \in Later \cup {"idle", "look", "private_key"} : Goto(r, phase)
    <2>1. CASE Begin(r)
      BY <2>1 DEF Begin, disk, TypeOK
    <2>2. CASE Reuse(r) \/ Generate(r)
      BY <2>2 DEF Reuse, Generate, disk, TypeOK, Later
    <2>3. CASE Test(r) \/ PrintKey(r)
      BY <2>3 DEF Test, PrintKey, disk, Later
    <2>4. CASE Unlink(r) \/ Symlink(r)
      BY <2>4 DEF Unlink, Symlink, Stop, Later
    <2> QED BY <2>1, <2>2, <2>3, <2>4
  <1>2. PICK phase \in Later \cup {"idle", "look", "private_key"} : Goto(r, phase)
    BY <1>1
  <1>3. phase # "public_key"
    BY DEF Later
  <1> QED BY <1>1, <1>2, <1>3, WritingSame, AccountsSame

\* A file that is opened starts an account if it is public_key.pem.
LEMMA OpenMaps ==
    ASSUME IInv, IInv', Dated, Dated', NEW r \in Runs, NEW f \in Names, Open(r, f)
    PROVE  UNCHANGED account \/ Accounts!Create(key[r])
  <1> DEFINE k == key[r]
  <1>1. /\ pc[r] = f /\ UNCHANGED <<link, pc, key, printed, overlapped>>
        /\ TypeOK /\ Inv /\ k \in Keys
    BY WriterFacts DEF Open, run
  <1>2. /\ files[k][f] = "absent" /\ files'[k][f] = "empty"
        /\ \A j \in Keys, g \in Names : j # k \/ g # f => files'[j][g] = files[j][g]
        /\ \A j \in Keys : j # k \/ f # "public_key" => mtime'[j] = mtime[j]
        /\ f = "public_key" => mtime'[k] > 0
    BY <1>1 DEF Open, Touch, TypeOK
  <1>3. ~(mtime[k] > 0)
    BY <1>1, <1>2 DEF Dated, Present
  <1>4. \A j \in Keys : j # k \/ f # "public_key" => AccountState(j)' = AccountState(j)
    <2> SUFFICES ASSUME NEW j \in Keys, j # k \/ f # "public_key"
                 PROVE  AccountState(j)' = AccountState(j)
      OBVIOUS
    <2>1. files'[j]["public_key"] = files[j]["public_key"]
      BY <1>2 DEF Names
    <2>2. Standing(j)' = Standing(j)
      BY <1>1, <2>1 DEF Standing, Writing
    <2> QED BY <1>2, <2>1, <2>2, AccountStates, AccountStatesNext DEF Present
  <1>5. CASE f # "public_key"
    BY <1>4, <1>5 DEF account
  <1>6. CASE f = "public_key"
    <2>1. AccountState(k) = "none"
      BY <1>1, <1>3, AccountStates
    <2>2. Present(k, "public_key")' /\ Standing(k)' = "started"
      BY <1>1, <1>2, <1>6 DEF Present, Standing, Writing
    <2>3. AccountState(k)' = "started"
      BY <1>1, <1>2, <1>6, <2>2, AccountStatesNext
    <2>4. account' = [account EXCEPT ![k] = "started"]
      BY <1>1, <1>4, <2>3 DEF account
    <2>5. ~overlapped => \A j \in Keys : AccountState(j) \in {"none", "gone"}
      BY <1>1, <1>2, <1>6, AccountStates DEF Inv, Alone, Names, Present
    <2> QED BY <1>1, <2>1, <2>4, <2>5
            DEF Accounts!Create, Accounts!Gone, Accounts!Become, account
  <1> QED BY <1>5, <1>6

\* Written, it completes the account; another file makes no difference.
LEMMA WriteMaps ==
    ASSUME IInv, IInv', Dated, Dated', NEW r \in Runs, NEW f \in Names, Write(r, f)
    PROVE  UNCHANGED account \/ Accounts!Complete(key[r])
  <1> DEFINE k == key[r]
  <1>1. TypeOK /\ k \in Keys /\ pc[r] = f /\ UNCHANGED <<link, key, printed, overlapped>>
        /\ Goto(r, Following[f])
    BY WriterFacts DEF Write
  <1>2. /\ files[k][f] = "empty" /\ files'[k][f] = "whole"
        /\ \A j \in Keys, g \in Names : j # k \/ g # f => files'[j][g] = files[j][g]
        /\ \A j \in Keys : j # k \/ f # "public_key" => mtime'[j] = mtime[j]
        /\ f = "public_key" => mtime'[k] > 0
    BY <1>1 DEF Write, Touch, TypeOK
  <1>3. f = "public_key" => mtime[k] > 0
    BY <1>1, <1>2 DEF Dated, Present
  <1>4. f # "public_key" => ~(mtime[k] > 0)
    BY <1>1 DEF Dated
  <1>5. \A s \in Runs : s # r => pc'[s] = pc[s]
    BY <1>1 DEF Goto, TypeOK
  <1>6. ASSUME NEW j \in Keys, j # k
        PROVE  AccountState(j)' = AccountState(j)
    <2>1. files'[j]["public_key"] = files[j]["public_key"] /\ mtime'[j] = mtime[j]
      BY <1>2, <1>6 DEF Names
    <2>2. Writing(j)' <=> Writing(j)
      BY <1>1, <1>5, <1>6 DEF Writing
    <2> QED BY <2>1, <2>2, AccountStates, AccountStatesNext DEF Present, Standing
  <1>7. CASE f # "public_key"
    <2>1. AccountState(k) = "none" /\ AccountState(k)' = "none"
      BY <1>1, <1>2, <1>4, <1>7, AccountStates, AccountStatesNext
    <2> QED BY <1>1, <1>6, <2>1 DEF account
  <1>8. CASE f = "public_key"
    <2>1. Standing(k) = "started" /\ Standing(k)' = "there"
      BY <1>1, <1>2, <1>8 DEF Standing, Writing
    <2>2. Present(k, "public_key") /\ Present(k, "public_key")'
      BY <1>1, <1>2, <1>8 DEF Present
    <2>3. AccountState(k) = "started" /\ AccountState(k)' = "there"
      BY <1>1, <1>2, <1>3, <1>8, <2>1, <2>2, AccountStates, AccountStatesNext
    <2>4. account' = [account EXCEPT ![k] = "there"]
      BY <1>1, <1>6, <2>3 DEF account
    <2> QED BY <1>1, <2>3, <2>4 DEF Accounts!Complete, Accounts!Become, account
  <1> QED BY <1>7, <1>8

\* Killed before it is, the run abandons the account.
LEMMA KillMaps ==
    ASSUME IInv, IInv', Dated, Dated', NEW r \in Runs, Kill(r)
    PROVE  UNCHANGED account \/ Accounts!Abandon(key[r])
  <1> DEFINE k == key[r]
  <1>1. /\ TypeOK /\ Inv /\ UNCHANGED <<files, mtime, made, link, key, fresh, printed, overlapped>>
        /\ pc'[r] = "idle" /\ \A s \in Runs : s # r => pc'[s] = pc[s]
    BY DEF IInv, TypeOK, Kill, Stop, Goto, disk
  <1>2. CASE pc[r] # "public_key"
    <2>1. Goto(r, "idle")
      BY DEF Kill, Stop
    <2> QED BY <1>1, <1>2, <2>1, WritingSame, AccountsSame
  <1>3. CASE pc[r] = "public_key"
    <2>1. /\ k \in Keys
          /\ \A s \in Runs : pc[s] = "public_key" /\ key[s] = k => s = r
      BY <1>1, <1>3 DEF Inv, Ordered, Unique, Active, Names
    <2>2. Writing(k) /\ ~Writing(k)' /\ \A j \in Keys : j # k => (Writing(j)' <=> Writing(j))
      BY <1>1, <1>3, <2>1 DEF Writing
    <2>3. \A j \in Keys : j # k => AccountState(j)' = AccountState(j)
      BY <1>1, <2>2 DEF AccountState, Provisioned, HasAccount, Present
    <2>4. CASE AccountState(k) = "started"
      <3>1. AccountState(k)' = "mute"
        BY <1>1, <2>1, <2>2, <2>4, AccountStates, AccountStatesNext DEF Standing, Present
      <3>2. account' = [account EXCEPT ![k] = "mute"]
        BY <1>1, <2>1, <2>3, <3>1 DEF account
      <3> QED BY <1>1, <2>1, <2>4, <3>2 DEF Accounts!Abandon, Accounts!Become, account
    <2>5. CASE AccountState(k) # "started"
      <3>1. AccountState(k)' = AccountState(k)
        BY <1>1, <2>1, <2>2, <2>5, AccountStates, AccountStatesNext DEF Standing, Present
      <3> QED BY <1>1, <2>3, <3>1 DEF account
    <2> QED BY <2>4, <2>5
  <1> QED BY <1>2, <1>3

\* A directory that is moved away takes its account along.
LEMMA MoveMaps ==
    ASSUME IInv, IInv', Dated, Dated', NEW k \in Keys, MoveAway(k)
    PROVE  Accounts!Remove(k)
  <1>1. /\ TypeOK /\ UNCHANGED <<mtime, pc, key, link, printed, overlapped>>
        /\ Present(k, "public_key") /\ \A r \in Runs : pc[r] \in Names => key[r] # k
    BY DEF IInv, MoveAway, Existing, run
  <1>2. /\ \A f \in Names : files'[k][f] = "absent"
        /\ \A j \in Keys : j # k => files'[j] = files[j]
    BY <1>1 DEF MoveAway, TypeOK
  <1>3. AccountState(k) \in {"there", "mute"}
    BY <1>1, AccountStates DEF Dated, Standing, Writing, Names
  <1>4. AccountState(k)' = "gone"
    BY <1>1, <1>2, AccountStatesNext DEF Dated, Present, Names
  <1>5. \A j \in Keys : j # k => AccountState(j)' = AccountState(j)
    BY <1>1, <1>2 DEF AccountState, Provisioned, HasAccount, Present, Writing
  <1>6. account' = [account EXCEPT ![k] = "gone"]
    BY <1>4, <1>5 DEF account
  <1> QED BY <1>1, <1>3, <1>6 DEF Accounts!Remove, Accounts!Become, account

\* The guard is only set, by who has an account, where there is none.
LEMMA LinkMaps ==
    ASSUME IInv, Dated, NEW r \in Runs, Unlink(r) \/ Symlink(r) \/ RemoveLink
    PROVE  \/ UNCHANGED <<account, link, printed, overlapped>>
           \/ Accounts!DropGuard
           \/ \E k \in Keys : Accounts!SetGuard(k)
  <1>1. UNCHANGED <<account, printed, overlapped>>
    <2>1. CASE Unlink(r) \/ Symlink(r)
      BY <2>1, QuietMaps DEF IInv, Unlink, Symlink, Stop
    <2>2. CASE RemoveLink
      BY <2>2, AccountsSame DEF RemoveLink, run, Writing
    <2> QED BY <2>1, <2>2
  <1>2. CASE Unlink(r) \/ RemoveLink
    BY <1>1, <1>2 DEF Unlink, RemoveLink, Accounts!DropGuard, account
  <1>3. CASE Symlink(r)
    <2>1. key[r] \in Keys /\ mtime[key[r]] > 0
      BY <1>3 DEF Symlink, IInv, Inv, Ordered, Active, Later, Dated
    <2>2. AccountState(key[r]) # "none"
      BY <2>1, AccountStates DEF Standing
    <2>3. CASE link # None
      BY <1>1, <1>3, <2>3 DEF Symlink
    <2>4. CASE link = None
      BY <1>1, <1>3, <2>1, <2>2, <2>4 DEF Symlink, Accounts!SetGuard, account
    <2> QED BY <2>3, <2>4
  <1> QED BY <1>2, <1>3

\* What is printed is the key of an account that was completed, and of which
\* one, or blank for one that is not.
LEMMA PrintMaps ==
    ASSUME IInv, Dated, Silent, Sole, NEW r \in Runs, PrintKey(r)
    PROVE  \/ UNCHANGED <<account, link, printed, overlapped>>
           \/ Accounts!ShowBlank(r)
           \/ \E k \in Keys : Accounts!Show(r, k)
  <1>1. /\ UNCHANGED <<account, link, overlapped>> /\ pc[r] = "print" /\ TypeOK /\ Inv
        /\ printed[r] = None /\ printed' = [printed EXCEPT ![r] = Output(r)]
    BY QuietMaps DEF PrintKey, disk, IInv, Silent
  <1>2. key[r] \in Keys /\ mtime[key[r]] > 0
    BY <1>1 DEF Inv, Ordered, Active, Later, Dated
  <1>3. CASE fresh[r] \/ files[key[r]]["public_key"] = "whole"
    <2>1. Output(r) = key[r]
      BY <1>3 DEF Output
    <2>2. AccountState(key[r]) \in {"there", "gone"}
      <3>1. CASE files[key[r]]["public_key"] = "whole"
        BY <1>2, <3>1, AccountStates DEF Standing
      <3>2. CASE MovedAway(key[r])
        BY <1>2, <3>2, AccountStates DEF MovedAway, Names
      <3> QED BY <1>1, <1>3, <3>1, <3>2 DEF Inv, Kept, Later, Provisioned
    <2>3. ASSUME ~overlapped, link \in Keys, AccountState(link) \notin {"none", "gone"}
          PROVE  link = key[r]
      <3>1. Present(link, "public_key")
        BY <2>3, AccountStates
      <3>2. CASE fresh[r]
        BY <1>1, <2>3, <3>1, <3>2 DEF Sole, Later
      <3>3. CASE ~fresh[r]
        <4>1. Present(key[r], "public_key")
          BY <1>3, <3>3 DEF Present
        <4> QED BY <1>1, <1>2, <2>3, <3>1, <4>1 DEF Inv, Alone
      <3> QED BY <3>2, <3>3
    <2> QED BY <1>1, <1>2, <2>1, <2>2, <2>3 DEF Accounts!Show, Accounts!Gone, account
  <1>4. CASE ~fresh[r] /\ files[key[r]]["public_key"] = "empty"
    <2>1. Output(r) = Blank /\ Present(key[r], "public_key")
      BY <1>4 DEF Output, Present
    <2>2. AccountState(key[r]) = IF Writing(key[r]) THEN "started" ELSE "mute"
      BY <1>2, <1>4, <2>1, AccountStates DEF Standing
    <2>3. ASSUME ~overlapped
          PROVE  /\ AccountState(key[r]) = "mute"
                 /\ \A k \in Keys : AccountState(k) # "there"
      <3>1. ~Writing(key[r])
        BY <1>1, <2>3 DEF Inv, Alone, Writing
      <3>2. ASSUME NEW k \in Keys, AccountState(k) = "there" PROVE FALSE
        <4>1. Present(k, "public_key") /\ Standing(k) = "there"
          BY <3>2, AccountStates
        <4>2. k = key[r]
          BY <1>1, <1>2, <2>1, <2>3, <4>1 DEF Inv, Alone
        <4> QED BY <2>2, <3>2, <4>2
      <3> QED BY <2>2, <3>1, <3>2
    <2> QED BY <1>1, <1>2, <2>1, <2>2, <2>3 DEF Accounts!ShowBlank, account
  <1>5. CASE ~fresh[r] /\ files[key[r]]["public_key"] \notin {"empty", "whole"}
    <2>1. Output(r) = None
      BY <1>5 DEF Output
    <2> QED BY <1>1, <2>1 DEF TypeOK
  <1> QED BY <1>3, <1>4, <1>5

\* The runs of generate_acme_key.py, however interleaved and wherever killed, do
\* to the accounts what the abstract store does, or nothing.
THEOREM KeepsAccounts == Spec => ImplementsAccounts
  <1>1. Init => Accounts!StoreInit /\ Sole
    <2> SUFFICES ASSUME Init PROVE Accounts!StoreInit /\ Sole
      OBVIOUS
    <2>1. \A k \in Keys : AccountState(k) = "none"
      BY DEF Init, AccountState
    <2>2. link \in {None, File} /\ printed = [r \in Runs |-> None] /\ overlapped = FALSE
          /\ \A r \in Runs : pc[r] \notin Later
      BY DEF Init, Later
    <2>3. account = [k \in Keys |-> "none"]
      BY <2>1 DEF account
    <2> QED BY <2>2, <2>3 DEF Accounts!StoreInit, Sole, account
  <1>2. ASSUME IInv, IInv', Dated, Dated', Silent, Sole, [Next]_vars
        PROVE  [Accounts!StoreNext]_(Accounts!storevars)
    <2>a. CASE UNCHANGED <<account, link, printed, overlapped>>
      BY <2>a DEF Accounts!storevars, account
    <2>1. ASSUME NEW r \in Runs, Begin(r)
          PROVE  Accounts!Ask(r)
      <3>1. UNCHANGED <<account, link>> /\ overlapped \in BOOLEAN /\ overlapped' \in BOOLEAN
        BY <2>1, <1>2, QuietMaps DEF Begin, disk, IInv, TypeOK
      <3>2. overlapped' \in {overlapped, TRUE}
        BY <2>1, <3>1 DEF Begin
      <3> QED BY <2>1, <3>1, <3>2 DEF Begin, Accounts!Ask, account
    <2>2. ASSUME NEW r \in Runs, Reuse(r) \/ Generate(r) \/ Test(r)
          PROVE  UNCHANGED <<account, link, printed, overlapped>>
      BY <1>2, <2>2, QuietMaps DEF Reuse, Generate, Test, disk, IInv
    <2>3. ASSUME NEW r \in Runs, NEW f \in Names, Open(r, f)
          PROVE  \/ UNCHANGED <<account, link, printed, overlapped>>
                 \/ \E k \in Keys : Accounts!Create(k)
      <3>1. UNCHANGED <<link, printed, overlapped>> /\ key[r] \in Keys
        BY <1>2, <2>3, WriterFacts DEF Open, run
      <3> QED BY <1>2, <2>3, <3>1, OpenMaps
    <2>4. ASSUME NEW r \in Runs, NEW f \in Names, Write(r, f)
          PROVE  \/ UNCHANGED <<account, link, printed, overlapped>>
                 \/ \E k \in Keys : Accounts!Complete(k)
      <3>1. UNCHANGED <<link, printed, overlapped>> /\ key[r] \in Keys
        BY <1>2, <2>4, WriterFacts DEF Write
      <3> QED BY <1>2, <2>4, <3>1, WriteMaps
    <2>b. ASSUME NEW r \in Runs, Kill(r)
          PROVE  \/ UNCHANGED <<account, link, printed, overlapped>>
                 \/ \E k \in Keys : Accounts!Abandon(k)
      <3>1. UNCHANGED <<link, printed, overlapped>>
        BY <2>b DEF Kill, Stop, disk
      <3>2. CASE key[r] \in Keys
        BY <1>2, <2>b, <3>1, <3>2, KillMaps
      <3>3. CASE key[r] \notin Keys
        <4>1. pc[r] # "public_key"
          BY <1>2, <3>3 DEF IInv, Inv, Ordered, Active, Names
        <4>2. Goto(r, "idle") /\ UNCHANGED <<files, mtime, key>>
          BY <2>b DEF Kill, Stop, disk
        <4> QED BY <1>2, <3>1, <4>1, <4>2, WritingSame, AccountsSame DEF IInv
      <3> QED BY <3>2, <3>3
    <2>5. ASSUME NEW r \in Runs, Unlink(r) \/ Symlink(r) \/ RemoveLink
          PROVE  \/ UNCHANGED <<account, link, printed, overlapped>>
                 \/ Accounts!DropGuard
                 \/ \E k \in Keys : Accounts!SetGuard(k)
      BY <1>2, <2>5, LinkMaps
    <2>6. ASSUME NEW r \in Runs, PrintKey(r)
          PROVE  \/ UNCHANGED <<account, link, printed, overlapped>>
                 \/ Accounts!ShowBlank(r)
                 \/ \E k \in Keys : Accounts!Show(r, k)
      BY <1>2, <2>6, PrintMaps
    <2>7. ASSUME NEW k \in Keys, MoveAway(k)
          PROVE  Accounts!Remove(k)
      BY <1>2, <2>7, MoveMaps
    <2>8. CASE UNCHANGED vars
      BY <2>8, AccountsSame, <2>a DEF vars, disk, run, Writing
    <2> QED BY <1>2, <2>a, <2>1, <2>2, <2>3, <2>4, <2>b, <2>5, <2>6, <2>7, <2>8, AcmeAssumption
            DEF Next, Step, Accounts!StoreNext
  <1> QED BY <1>1, <1>2, DatedInit, DatedNext, SoleNext, Inductive, StaysSilent, PTL
          DEF Spec, ImplementsAccounts, Accounts!StoreSpec

=============================================================================
