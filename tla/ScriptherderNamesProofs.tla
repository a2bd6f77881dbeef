----------------------- MODULE ScriptherderNamesProofs ------------------------
(***************************************************************************)
(* Theorems about ScriptherderNames, for any alphabet, titles and stamps:  *)
(* the pattern of cleanup_scriptherder matches the files of its own job,   *)
(* and of no other job whose sanitised name does not continue it.          *)
(***************************************************************************)
EXTENDS ScriptherderNames, SequenceTheorems, TLAPS

Chars == Letters \cup Others

\* The name in the file names of a job
Base(title) == Replace(title, Letters)

-----------------------------------------------------------------------------
(***************************************************************************)
(* Names                                                                   *)
(***************************************************************************)
\* A title is a sequence of characters.
LEMMA TitleType ==
    ASSUME NEW title \in Titles
    PROVE  /\ title \in Seq(Chars)
           /\ Len(title) \in Nat
           /\ DOMAIN title = 1..Len(title)
           /\ \A i \in 1..Len(title) : title[i] \in Chars
<1>1. title \in Seq(Chars)
  BY TitlesAssumption DEF Chars
<1>2. QED
  BY <1>1, LenProperties, ElementOfSeq

\* A replacement is a name of the same length.
LEMMA BaseType ==
    ASSUME NEW title \in Titles
    PROVE  Base(title) \in Seq(Chars) /\ Len(Base(title)) = Len(title)
<1>1. /\ Len(title) \in Nat
      /\ DOMAIN title = 1..Len(title)
      /\ \A i \in 1..Len(title) : title[i] \in Chars
  BY TitleType
<1>2. Base(title) \in [1..Len(title) -> Chars]
  BY <1>1 DEF Base, Replace, Chars, Others
<1>3. QED
  BY <1>1, <1>2

\* scriptherder and cleanup_scriptherder make the same of the name Puppet made
\* of a title.
LEMMA SameBase ==
    ASSUME NEW title \in Titles
    PROVE  /\ Replace(SafeName(title), Letters) = Base(title)
           /\ CleanupGlob(SafeName(title)) = Base(title) \o <<"_", "_">>
<1> DEFINE name == SafeName(title)
<1>1. /\ DOMAIN title = 1..Len(title)
      /\ \A i \in DOMAIN title : title[i] \in Letters \cup Others
  BY TitleType DEF Chars
<1>2. /\ DOMAIN name = DOMAIN title
      /\ \A i \in DOMAIN title :
            name[i] = IF title[i] \in Letters \cup {"-", ".", "_"}
                      THEN title[i] ELSE "_"
  BY DEF SafeName, Replace
<1>3. \A i \in DOMAIN title :
         /\ (IF name[i] \in Letters THEN name[i] ELSE "_")
              = (IF title[i] \in Letters THEN title[i] ELSE "_")
         /\ (IF name[i] \in {"-", "."} THEN "_" ELSE name[i])
              = (IF title[i] \in Letters THEN title[i] ELSE "_")
  BY <1>1, <1>2, TitlesAssumption DEF Others
<1> HIDE DEF name
<1>4. /\ [i \in DOMAIN name |-> IF name[i] \in Letters THEN name[i] ELSE "_"]
           = [i \in DOMAIN title |->
                IF title[i] \in Letters THEN title[i] ELSE "_"]
      /\ [i \in DOMAIN name |-> IF name[i] \in {"-", "."} THEN "_" ELSE name[i]]
           = [i \in DOMAIN title |->
                IF title[i] \in Letters THEN title[i] ELSE "_"]
  BY <1>2, <1>3
<1>5. QED
  BY <1>4 DEF name, Base, Replace, CleanupGlob

\* What a job's files begin with
Start(title) == Base(title) \o <<"_", "_">>

\* It ends in two underscores.
LEMMA StartType ==
    ASSUME NEW title \in Titles
    PROVE  /\ Start(title) \in Seq(Chars)
           /\ Len(Start(title)) \in Nat /\ Len(Start(title)) >= 2
           /\ Start(title)[Len(Start(title))] = "_"
           /\ Start(title)[Len(Start(title)) - 1] = "_"
<1> DEFINE b == Base(title)
           u == <<"_", "_">>
           n == Len(b)
<1>1. b \in Seq(Chars)
  BY BaseType
<1>2. n \in Nat
  BY <1>1, LenProperties
<1>3. u \in Seq(Chars) /\ Len(u) = 2 /\ u[1] = "_" /\ u[2] = "_"
  BY DEF Chars, Others
<1> HIDE DEF b, u, n
<1>4. /\ b \o u \in Seq(Chars)
      /\ Len(b \o u) = n + Len(u)
      /\ \A i \in 1..(n + Len(u)) :
            (b \o u)[i] = IF i <= n THEN b[i] ELSE u[i - n]
  BY <1>1, <1>3, ConcatProperties DEF n
<1> DEFINE s == b \o u
<1> HIDE DEF s
<1>5. /\ s \in Seq(Chars) /\ Len(s) = n + 2
      /\ \A i \in 1..(n + 2) : s[i] = IF i <= n THEN b[i] ELSE u[i - n]
  BY <1>3, <1>4 DEF s
<1>6. /\ n + 2 \in 1..(n + 2) /\ ~(n + 2 <= n) /\ (n + 2) - n = 2
      /\ (n + 2) - 1 \in 1..(n + 2) /\ ~((n + 2) - 1 <= n)
      /\ ((n + 2) - 1) - n = 1
  BY <1>2
<1>7. s[n + 2] = u[2] /\ s[(n + 2) - 1] = u[1]
  BY <1>5, <1>6
<1>8. /\ s \in Seq(Chars)
      /\ Len(s) \in Nat /\ Len(s) >= 2
      /\ s[Len(s)] = "_" /\ s[Len(s) - 1] = "_"
  <2>1. s[n + 2] = "_" /\ s[(n + 2) - 1] = "_"
    BY <1>3, <1>7
  <2>2. Len(s) = n + 2 /\ s \in Seq(Chars)
    BY <1>5
  <2>3. s[Len(s)] = "_" /\ s[Len(s) - 1] = "_"
    BY <2>1, <2>2
  <2>4. Len(s) \in Nat /\ Len(s) >= 2
    BY <1>2, <2>2
  <2>5. QED
    BY <2>2, <2>3, <2>4
<1>9. QED
  BY <1>8 DEF Start, s, b, u
-----------------------------------------------------------------------------
(***************************************************************************)
(* Prefixes                                                                *)
(***************************************************************************)
\* A prefix agrees with the sequence it is a prefix of.
LEMMA PrefixElements ==
    ASSUME NEW S, NEW s \in Seq(S), NEW t \in Seq(S)
    PROVE  IsPrefix(s, t) <=> /\ Len(s) <= Len(t)
                              /\ \A i \in 1..Len(s) : s[i] = t[i]
<1>1. Len(s) \in Nat /\ Len(t) \in Nat
  BY LenProperties
<1>2. SubSeq(s, 1, Len(s)) = s
  BY SubSeqFull
<1>3. ASSUME Len(s) <= Len(t)
      PROVE  /\ SubSeq(t, 1, Len(s)) \in Seq(S)
             /\ Len(SubSeq(t, 1, Len(s))) = Len(s)
             /\ \A i \in 1..Len(s) : SubSeq(t, 1, Len(s))[i] = t[i]
  <2>1. \A i \in 1..Len(s) : t[i] \in S
    BY <1>1, <1>3, ElementOfSeq
  <2> DEFINE n == Len(s)
  <2>2. n \in Int /\ 1 \in Int /\ n >= 0
    BY <1>1
  <2>3. \A i \in 1..n : t[i] \in S
    BY <2>1
  <2> HIDE DEF n
  <2>4. /\ SubSeq(t, 1, n) \in Seq(S)
        /\ Len(SubSeq(t, 1, n)) = IF 1 <= n THEN n - 1 + 1 ELSE 0
        /\ \A i \in 1..(n - 1 + 1) : SubSeq(t, 1, n)[i] = t[1 + i - 1]
    BY <2>2, <2>3, SubSeqProperties
  <2>5. /\ Len(SubSeq(t, 1, n)) = n
        /\ \A i \in 1..n : SubSeq(t, 1, n)[i] = t[i]
    BY <2>2, <2>4
  <2>6. QED
    BY <2>4, <2>5 DEF n
<1>4. ASSUME IsPrefix(s, t)
      PROVE  Len(s) <= Len(t) /\ \A i \in 1..Len(s) : s[i] = t[i]
  BY <1>2, <1>3, <1>4 DEF IsPrefix
<1>5. ASSUME Len(s) <= Len(t), \A i \in 1..Len(s) : s[i] = t[i]
      PROVE  IsPrefix(s, t)
  <2>1. s = SubSeq(t, 1, Len(s))
    BY <1>3, <1>5, SeqEqual
  <2>2. QED
    BY <1>2, <1>5, <2>1 DEF IsPrefix
<1>6. QED
  BY <1>4, <1>5

\* The name of a file of a job
LEMMA FileNameType ==
    ASSUME NEW title \in Titles, NEW stamp \in Stamps
    PROVE  /\ FileName(SafeName(title), stamp) = Start(title) \o stamp
           /\ Start(title) \o stamp \in Seq(Chars)
           /\ Len(Start(title) \o stamp) = Len(Start(title)) + Len(stamp)
           /\ \A i \in 1..(Len(Start(title)) + Len(stamp)) :
                 (Start(title) \o stamp)[i] =
                    IF i <= Len(Start(title)) THEN Start(title)[i]
                    ELSE stamp[i - Len(Start(title))]
<1>1. stamp \in Seq(Chars)
  BY StampsAssumption DEF Chars
<1>2. FileName(SafeName(title), stamp) = Start(title) \o stamp
  BY SameBase DEF FileName, Start
<1>3. QED
  BY <1>1, <1>2, StartType, ConcatProperties

\* The files of a job begin with what cleanup looks for.
LEMMA OwnFilesMatch ==
    ASSUME NEW title \in Titles, NEW stamp \in Stamps
    PROVE  IsPrefix(CleanupGlob(SafeName(title)),
                    FileName(SafeName(title), stamp))
<1> DEFINE g == Start(title)
           file == g \o stamp
<1>1. g \in Seq(Chars) /\ Len(g) \in Nat
  BY StartType
<1>2. Len(stamp) \in Nat
  BY StampsAssumption, LenProperties
<1>3. /\ file \in Seq(Chars)
      /\ Len(file) = Len(g) + Len(stamp)
      /\ \A i \in 1..(Len(g) + Len(stamp)) :
            file[i] = IF i <= Len(g) THEN g[i] ELSE stamp[i - Len(g)]
  BY FileNameType
<1>4. CleanupGlob(SafeName(title)) = g /\ FileName(SafeName(title), stamp) = file
  BY SameBase, FileNameType DEF Start
<1> HIDE DEF g, file
<1>5. Len(g) <= Len(file) /\ \A i \in 1..Len(g) : g[i] = file[i]
  BY <1>1, <1>2, <1>3
<1>6. QED
  BY <1>1, <1>3, <1>4, <1>5, PrefixElements

\* A file of another job begins with it only if the other job's name does: the
\* two underscores at its end are not in a stamp.
LEMMA ForeignFiles ==
    ASSUME NEW title \in Titles, NEW other \in Titles, NEW stamp \in Stamps,
           IsPrefix(CleanupGlob(SafeName(title)),
                    FileName(SafeName(other), stamp))
    PROVE  IsPrefix(Start(title), Start(other))
<1> DEFINE g == Start(title)
           b == Start(other)
           file == b \o stamp
           n == Len(g)
           m == Len(b)
<1>1. /\ g \in Seq(Chars) /\ n \in Nat /\ n >= 2 /\ g[n] = "_" /\ g[n - 1] = "_"
      /\ b \in Seq(Chars) /\ m \in Nat
  BY StartType
<1>2. /\ Len(stamp) \in Nat
      /\ DOMAIN stamp = 1..Len(stamp)
      /\ \A i \in 1..Len(stamp) : stamp[i] = "_" => i > 1 /\ stamp[i - 1] # "_"
  BY StampsAssumption, LenProperties
<1>3. /\ file \in Seq(Chars)
      /\ Len(file) = m + Len(stamp)
      /\ \A i \in 1..(m + Len(stamp)) :
            file[i] = IF i <= m THEN b[i] ELSE stamp[i - m]
  BY FileNameType
<1>4. IsPrefix(g, file)
  BY SameBase, FileNameType DEF Start
<1> HIDE DEF g, b, file
<1>5. n <= Len(file) /\ \A i \in 1..n : g[i] = file[i]
  BY <1>1, <1>3, <1>4, PrefixElements
<1> DEFINE k == Len(stamp)
<1>6. /\ n \in Nat /\ n >= 2
      /\ m \in Nat /\ k \in Nat
  <2>1. n \in Nat /\ n >= 2
    BY <1>1
  <2>2. m \in Nat
    BY <1>1
  <2>3. k \in Nat
    BY <1>2
  <2>4. QED
    BY <2>1, <2>2, <2>3
<1>7. n <= m + k
  BY <1>3, <1>5
<1> HIDE DEF n, m, k
<1>8. n <= m
  <2> SUFFICES ASSUME ~(n <= m) PROVE FALSE
    OBVIOUS
  <2>1. /\ n - m \in 1..k
        /\ n \in 1..(m + k) /\ n \in 1..n
        /\ n - 1 \in 1..(m + k) /\ n - 1 \in 1..n
        /\ (n - 1) - m = (n - m) - 1
    BY <1>6, <1>7
  <2>2. stamp[n - m] = "_"
    <3>1. file[n] = "_"
      BY <1>1, <1>5, <2>1
    <3>2. file[n] = stamp[n - m]
      BY <1>3, <2>1 DEF k
    <3>3. QED
      BY <3>1, <3>2
  <2>3. n - m > 1
    BY <1>2, <2>1, <2>2 DEF k
  <2>4. stamp[(n - m) - 1] # "_"
    BY <1>2, <2>1, <2>2 DEF k
  <2>5. ~(n - 1 <= m)
    <3>1. n \in Nat /\ m \in Nat
      BY <1>6
    <3>2. QED
      BY <3>1, <2>3
  <2>6. file[n - 1] = "_"
    BY <1>1, <1>5, <2>1
  <2>7. file[n - 1] = stamp[(n - 1) - m]
    BY <1>3, <2>1, <2>5 DEF k
  <2>8. QED
    BY <2>1, <2>4, <2>6, <2>7
<1>9. \A i \in 1..n : g[i] = b[i]
  <2>1. \A i \in 1..n : i \in 1..(m + k) /\ i <= m
    BY <1>6, <1>7, <1>8
  <2>2. QED
    BY <1>3, <1>5, <2>1 DEF k
<1>10. IsPrefix(g, b)
  BY <1>1, <1>8, <1>9, PrefixElements DEF n, m
<1>11. QED
  BY <1>10 DEF g, b
-----------------------------------------------------------------------------
(***************************************************************************)
(* Cleanup                                                                 *)
(***************************************************************************)
\* No file of a job in the crontab escapes cleanup_scriptherder.
THEOREM NoFileEscapes == Spec => []CleanupFindsAll
<1>1. CleanupFindsAll
  BY OwnFilesMatch DEF CleanupFindsAll, FilesOf, Matching
<1>2. QED
  BY <1>1, PTL

\* Cleanup of one job takes no file of another one whose sanitised name does
\* not continue the first one's after two underscores.
THEOREM OthersAreSpared == Spec => CleanupSparesOthers
<1> DEFINE Spared ==
      \A title, other \in Titles :
         CleanUp(title) /\ ~IsPrefix(Replace(title, Letters) \o <<"_", "_">>,
                                     Replace(other, Letters) \o <<"_", "_">>)
         => datadir' \cap FilesOf(other) = datadir \cap FilesOf(other)
<1>1. Spared
  <2> SUFFICES ASSUME NEW title \in Titles, NEW other \in Titles,
                      CleanUp(title), ~IsPrefix(Start(title), Start(other))
               PROVE  datadir' \cap FilesOf(other) = datadir \cap FilesOf(other)
    BY DEF Start, Base
  <2>1. \A stamp \in Stamps :
           ~IsPrefix(CleanupGlob(SafeName(title)),
                     FileName(SafeName(other), stamp))
    BY ForeignFiles
  <2>2. FilesOf(other) \cap Matching(CleanupGlob(SafeName(title))) = {}
    BY <2>1 DEF FilesOf, Matching
  <2>3. datadir' = datadir \ Matching(CleanupGlob(SafeName(title)))
    BY DEF CleanUp
  <2>4. QED
    BY <2>2, <2>3
<1>2. [Next]_vars => [Spared]_vars
  BY <1>1
<1>3. QED
  BY <1>2, PTL DEF Spec, CleanupSparesOthers

=============================================================================
