---------------------------- MODULE Mount_proofs ----------------------------
(***************************************************************************)
(* What TLAPS proves of modules Directory and Mount, for every number of   *)
(* entries, of inodes, of requests and of failures.  Of the directory of   *)
(* logs, in every environment that meets the hypotheses of a theorem: who  *)
(* may lock and rename it, and whose files a process has open.  Of the     *)
(* mount, for every set of volumes that meets them: whose log a handle     *)
(* answers for, and whose chunks the filters are of.                       *)
(***************************************************************************)
EXTENDS Mount, SequenceFacts, FiniteSetTheorems

------------------------------------------------------------------------------
IndexFile == [ino : Nat, id : Nat, ever : BOOLEAN, recs : Seq(Nat)]
TrunkFile == [ino : Nat, frames : Seq(Nat)]
Known == [ring : Nat, trunk : Nat, chunks : Seq(Nat)]

LocksOK ==
    /\ env \in Environments
    /\ lockFile \in [Names -> Nat] /\ dirLock \subseteq Processes
    /\ tried \in [Processes -> [Names -> Nat]] /\ held \in [Processes -> [Names -> Nat]]
    /\ inodes \in Nat

\* Only a mount claims and renames, and it locks no log; only a trim deletes.
StagesOK ==
    /\ pc \in [Processes -> {"down", "locks", "opens", "runs", "claims", "renames", "deletes"}]
    /\ pc["mount"] \in {"down", "claims", "runs", "renames"}
    /\ \A p \in Processes : /\ pc[p] \in {"claims", "renames"} => p = "mount"
                            /\ pc[p] = "deletes" => p = "trim"

FilesOK ==
    /\ rings \in [Names -> IndexFile] /\ trunk \in [Names -> TrunkFile]
    /\ bark \in [Names -> Nat] /\ grain \in [Names -> Seq(Nat)]

KnownOK ==
    /\ image \in [Processes -> [Names -> Known]]
    /\ moving \in [head : Seq(Nat), new : BOOLEAN]
    /\ entries \in Nat

DirTypeOK == LocksOK /\ StagesOK /\ FilesOK /\ KnownOK

------------------------------------------------------------------------------
\* The operators on the records of a log.
LEMMA PutAtTheEnd ==
    ASSUME NEW s \in Seq(Nat), NEW e \in Nat
    PROVE  Put(s, Len(s) + 1, e) = Append(s, e)
<1>1. Len(s) \in Nat /\ Len(s) < Len(s) + 1
  BY LenProperties
<1>2. Append(s, e) \in Seq(Nat) /\ Len(Append(s, e)) = Len(s) + 1
      /\ \A i \in 1 .. Len(s) : Append(s, e)[i] = s[i]
  BY AppendIsSeq
<1>3. Append(s, e)[Len(s) + 1] = e
  BY AppendProperties
<1> DEFINE put == [j \in 1 .. Len(s) + 1 |-> IF j = Len(s) + 1 THEN e ELSE IF j <= Len(s) THEN s[j] ELSE 0]
<1>4. Put(s, Len(s) + 1, e) = put
  BY <1>1 DEF Put
<1>5. \A j \in 1 .. Len(s) + 1 : put[j] = Append(s, e)[j]
  BY <1>1, <1>2, <1>3
<1>6. put \in [1 .. Len(s) + 1 -> Nat]
  BY <1>1, ElementOfSeq
<1>7. put \in Seq(Nat) /\ Len(put) = Len(s) + 1
  BY <1>1, <1>6, FunctionIsSeq
<1>8. put = Append(s, e)
  BY <1>1, <1>2, <1>5, <1>7, SeqEqual
<1> QED BY <1>4, <1>8

LEMMA PutIsSeq ==
    ASSUME NEW s \in Seq(Nat), NEW i \in Nat \ {0}, NEW e \in Nat
    PROVE  Put(s, i, e) \in Seq(Nat)
<1> DEFINE long == IF Len(s) < i THEN i ELSE Len(s)
<1>1. long \in Nat
  BY LenProperties
<1>2. Put(s, i, e) \in [1 .. long -> Nat]
  BY <1>1, ElementOfSeq, LenProperties DEF Put
<1> HIDE DEF long
<1> QED BY <1>1, <1>2, FunctionIsSeq

LEMMA RestIsSeq ==
    ASSUME NEW s \in Seq(Nat), NEW k \in Nat
    PROVE  /\ Rest(s, k) \in Seq(Nat) /\ Rebased(s, k) = Rest(s, k)
           /\ Len(s) \in Nat
           /\ Len(Rest(s, k)) = IF k < Len(s) THEN Len(s) - k ELSE 0
           /\ \A i \in 1 .. Len(s) - k : Rest(s, k)[i] = s[k + i]
<1>1. k + 1 \in Nat \ {0} /\ Len(s) \in Nat
  BY LenProperties
<1>2. /\ SubSeq(s, k + 1, Len(s)) \in Seq(Nat)
      /\ Len(SubSeq(s, k + 1, Len(s))) = IF k + 1 <= Len(s) THEN Len(s) - (k + 1) + 1 ELSE 0
      /\ \A i \in 1 .. Len(s) - (k + 1) + 1 : SubSeq(s, k + 1, Len(s))[i] = s[k + 1 + i - 1]
  BY <1>1, SuffixIsSeq
<1>3. \A i \in 1 .. Len(s) - k : i \in 1 .. Len(s) - (k + 1) + 1 /\ k + 1 + i - 1 = k + i
  BY <1>1
<1> QED BY <1>1, <1>2, <1>3 DEF Rest, Rebased

\* Every entry of a log is in its head or in the rest.
LEMMA HeadAndRest ==
    ASSUME NEW s \in Seq(Nat), NEW k \in 0 .. Len(s)
    PROVE  /\ Range(s) \subseteq Range(SubSeq(s, 1, k)) \cup Range(Rest(s, k))
           /\ Range(SubSeq(s, 1, k)) \subseteq Range(s)
<1>1. /\ SubSeq(s, 1, k) \in Seq(Nat) /\ Len(SubSeq(s, 1, k)) = k
      /\ \A i \in 1 .. k : SubSeq(s, 1, k)[i] = s[i]
  BY PrefixIsSeq
<1>2. k \in Nat /\ Len(s) \in Nat /\ k <= Len(s)
  BY LenProperties
<1>3. /\ Rest(s, k) \in Seq(Nat)
      /\ Len(Rest(s, k)) = Len(s) - k
      /\ \A i \in 1 .. Len(s) - k : Rest(s, k)[i] = s[k + i]
  <2>1. /\ Rest(s, k) \in Seq(Nat)
        /\ Len(Rest(s, k)) = IF k < Len(s) THEN Len(s) - k ELSE 0
        /\ \A i \in 1 .. Len(s) - k : Rest(s, k)[i] = s[k + i]
    BY <1>2, RestIsSeq
  <2>2. Len(Rest(s, k)) = Len(s) - k
    BY <1>2, <2>1
  <2> QED BY <2>1, <2>2
<1>4. DOMAIN s = 1 .. Len(s) /\ DOMAIN SubSeq(s, 1, k) = 1 .. k
      /\ DOMAIN Rest(s, k) = 1 .. Len(s) - k
  BY <1>1, <1>3, SeqElements
<1>5. ASSUME NEW i \in 1 .. Len(s)
      PROVE  s[i] \in Range(SubSeq(s, 1, k)) \cup Range(Rest(s, k))
  <2>1. CASE i <= k
    <3>1. i \in DOMAIN SubSeq(s, 1, k) /\ SubSeq(s, 1, k)[i] = s[i]
      BY <1>1, <1>2, <1>4, <2>1
    <3> QED BY <3>1 DEF Range
  <2>2. CASE k < i
    <3>1. i - k \in 1 .. Len(s) - k /\ k + (i - k) = i
      BY <1>2, <2>2
    <3>2. i - k \in DOMAIN Rest(s, k) /\ Rest(s, k)[i - k] = s[i]
      BY <1>3, <1>4, <3>1
    <3> QED BY <3>2 DEF Range
  <2> QED BY <1>2, <2>1, <2>2
<1>6. \A i \in 1 .. k : i \in DOMAIN s
  BY <1>2, <1>4
<1>7. Range(s) \subseteq Range(SubSeq(s, 1, k)) \cup Range(Rest(s, k))
  BY <1>4, <1>5 DEF Range
<1>8. \A i \in 1 .. k : s[i] \in Range(s)
  BY <1>6 DEF Range
<1>9. Range(SubSeq(s, 1, k)) \subseteq Range(s)
  BY <1>1, <1>4, <1>8 DEF Range
<1> QED BY <1>7, <1>9

LEMMA WholeIsSeq ==
    ASSUME FilesOK, NEW n \in Names
    PROVE  /\ Whole(n) \in Seq(Nat)
           /\ (rings[n].ino = 0 \/ trunk[n].ino = 0) => Whole(n) = <<>>
           /\ (rings[n].ino # 0 /\ trunk[n].ino # 0 /\ trunk[n].frames = rings[n].recs)
                 => Whole(n) = rings[n].recs
<1> DEFINE found == IF rings[n].ino = 0 \/ trunk[n].ino = 0 THEN 0
                    ELSE IF Len(trunk[n].frames) < Len(rings[n].recs) THEN Len(trunk[n].frames)
                    ELSE Len(rings[n].recs)
<1>1. trunk[n].frames \in Seq(Nat) /\ rings[n].recs \in Seq(Nat)
  BY DEF FilesOK, IndexFile, TrunkFile
<1>2. Len(trunk[n].frames) \in Nat /\ Len(rings[n].recs) \in Nat
  BY <1>1, LenProperties
<1>3. found \in 0 .. Len(trunk[n].frames)
  BY <1>2
<1>4. Whole(n) = SubSeq(trunk[n].frames, 1, found)
  BY DEF Whole
<1>5. (rings[n].ino = 0 \/ trunk[n].ino = 0) => found = 0
  OBVIOUS
<1>6. (rings[n].ino # 0 /\ trunk[n].ino # 0 /\ trunk[n].frames = rings[n].recs)
         => found = Len(trunk[n].frames)
  BY <1>2
<1> HIDE DEF found
<1> QED BY <1>1, <1>3, <1>4, <1>5, <1>6, PrefixIsSeq

------------------------------------------------------------------------------
\* The steps, with those that let a process go, open its log and take the directory apart.
Leaves(p) == Gone(p) /\ UNCHANGED diskVars /\ (pc[p] = "renames" => Event("halfway"))

Opens(p) ==
    /\ pc[p] = "opens" /\ ~Refused("log") /\ Opened("log", inodes + 1) /\ inodes' = inodes + 1
    /\ image' = [image EXCEPT ![p]["log"] = ImageOf("log")]
    /\ pc' = [pc EXCEPT ![p] = "runs"]
    /\ UNCHANGED <<env, bark, grain, lockFile, dirLock, tried, held, moving, entries, retired>>

Takes ==
    /\ pc["mount"] = "claims" /\ dirLock' = dirLock \cup {"mount"}
    /\ pc' = [pc EXCEPT !["mount"] = "runs"]
    /\ UNCHANGED <<env, diskVars, lockFile, tried, held, image, moving, entries, retired, inodes>>

lockVars == <<env, lockFile, dirLock, pc, tried, held>>

DataStep ==
    \E p \in Processes :
        CopyHead(p) \/ CutRotated(p) \/ \E n \in Names : Write(p, n) \/ Extend(p, n) \/ Retain(p, n)

LEMMA DirSteps ==
    ASSUME DirNext
    PROVE  \/ \E p \in Processes : Enter(p) \/ Grab(p) \/ Leaves(p) \/ Opens(p)
           \/ DataStep
           \/ Enumerate \/ Takes \/ Trimmed \/ Delete \/ MovedTrunk \/ MovedRest
<1>1. ASSUME NEW p \in Processes, GiveUp(p) \/ OpenLog(p) \/ Exit(p) \/ Die(p)
      PROVE  Leaves(p) \/ Opens(p)
  BY <1>1 DEF GiveUp, OpenLog, Exit, Die, Leaves, Opens
<1>2. Claim => Takes \/ Leaves("mount")
  BY DEF Claim, Takes, Leaves
<1> QED BY <1>1, <1>2 DEF DirNext, DataStep, Processes

\* Nothing but the ends of their lives moves the processes' locks.
LEMMA DataKeepsLocks ==
    ASSUME DataStep
    PROVE  UNCHANGED lockVars
BY ZenonT(60) DEF DataStep, CopyHead, CutRotated, Write, Extend, Retain, lockVars

LEMMA InodesCount ==
    ASSUME DirNext, inodes \in Nat
    PROVE  inodes' \in Nat /\ (inodes' = inodes \/ inodes' = inodes + 1)
<1>1. DataStep => (inodes' = inodes \/ inodes' = inodes + 1)
  <2>1. \A p \in Processes : CopyHead(p) => inodes' = inodes + 1
    BY DEF CopyHead
  <2>2. \A p \in Processes : CutRotated(p) => inodes' = inodes + 1
    BY DEF CutRotated, CutHead
  <2>3. \A p \in Processes, n \in Names : Retain(p, n) => inodes' = inodes + 1
    BY DEF Retain, CutHead
  <2>4. \A p \in Processes, n \in Names : Write(p, n) \/ Extend(p, n) => inodes' = inodes
    BY DEF Write, Extend
  <2> QED BY <2>1, <2>2, <2>3, <2>4 DEF DataStep
<1>2. inodes' = inodes \/ inodes' = inodes + 1
  BY <1>1, DirSteps
     DEF Enter, Grab, Leaves, Gone, Opens, Enumerate, Takes, Trimmed, Delete, MovedTrunk, MovedRest
<1> QED BY <1>2

LEMMA LocksStep ==
    ASSUME LocksOK, StagesOK, DirNext
    PROVE  LocksOK' /\ StagesOK'
<1>1. inodes' \in Nat
  BY InodesCount DEF LocksOK
<1> DEFINE Stage == {"down", "locks", "opens", "runs", "claims", "renames", "deletes"}
           None == [n \in Names |-> 0]
<1>2. None \in [Names -> Nat]
  OBVIOUS
<1>3. ASSUME NEW p \in Processes, Enter(p)
      PROVE  LocksOK' /\ StagesOK'
  <2>1. lockFile' \in [Names -> Nat]
    BY <1>1, <1>3 DEF Enter, LocksOK
  <2>2. [n \in Names |-> IF n \in Wanted(p) THEN lockFile'[n] ELSE 0] \in [Names -> Nat]
    BY <2>1
  <2>3. tried' \in [Processes -> [Names -> Nat]]
    BY <1>3, <2>2 DEF Enter, LocksOK
  <2> QED BY <1>1, <1>3, <2>1, <2>3 DEF Enter, LocksOK, StagesOK
<1>4. ASSUME NEW p \in Processes, Grab(p)
      PROVE  LocksOK' /\ StagesOK'
  <2>1. held' \in [Processes -> [Names -> Nat]]
    BY <1>4 DEF Grab, LocksOK
  <2>2. pc["mount"] # "locks" /\ p # "mount"
    BY <1>4 DEF Grab, StagesOK
  <2> QED BY <1>1, <1>4, <2>1, <2>2 DEF Grab, LocksOK, StagesOK
<1>5. ASSUME NEW p \in Processes, Leaves(p)
      PROVE  LocksOK' /\ StagesOK'
  BY <1>1, <1>2, <1>5 DEF Leaves, Gone, LocksOK, StagesOK
<1>6. ASSUME NEW p \in Processes, Opens(p)
      PROVE  LocksOK' /\ StagesOK'
  BY <1>1, <1>6 DEF Opens, LocksOK, StagesOK
<1>7. DataStep => LocksOK' /\ StagesOK'
  BY <1>1, DataKeepsLocks DEF lockVars, LocksOK, StagesOK
<1>8. Enumerate \/ Takes \/ MovedTrunk \/ MovedRest => LocksOK' /\ StagesOK'
  BY <1>1 DEF Enumerate, Takes, MovedTrunk, MovedRest, LocksOK, StagesOK, Processes
<1>9. Trimmed => LocksOK' /\ StagesOK'
  BY <1>1, <1>2 DEF Trimmed, LocksOK, StagesOK, Processes
<1>10. Delete => LocksOK' /\ StagesOK'
  <2>1. CASE Delete /\ rings["log"].ino # 0
    BY <1>1, <2>1 DEF Delete, LocksOK, StagesOK
  <2>2. CASE Delete /\ rings["log"].ino = 0
    <3>1. lockFile' \in [Names -> Nat] /\ tried' \in [Processes -> [Names -> Nat]]
      BY <1>2, <2>2 DEF Delete, LocksOK
    <3>2. UNCHANGED <<env, dirLock, held>> /\ pc' = [pc EXCEPT !["trim"] = "down"]
      BY <2>2 DEF Delete
    <3>3. StagesOK'
      BY <3>2 DEF StagesOK, Processes
    <3> QED BY <1>1, <3>1, <3>2, <3>3 DEF LocksOK
  <2> QED BY <2>1, <2>2
<1> QED BY <1>3, <1>4, <1>5, <1>6, <1>7, <1>8, <1>9, <1>10, DirSteps

------------------------------------------------------------------------------
\* What the steps do to the logs, field by field.
LEMMA Fields ==
    ASSUME FilesOK, KnownOK
    PROVE  /\ \A n \in Names :
                 /\ rings[n] \in IndexFile /\ trunk[n] \in TrunkFile
                 /\ rings[n].ino \in Nat /\ rings[n].id \in Nat /\ rings[n].recs \in Seq(Nat)
                 /\ trunk[n].ino \in Nat /\ trunk[n].frames \in Seq(Nat)
                 /\ bark[n] \in Nat /\ grain[n] \in Seq(Nat)
           /\ \A p \in Processes, n \in Names :
                 /\ image[p][n] \in Known
                 /\ image[p][n].ring \in Nat /\ image[p][n].trunk \in Nat
                 /\ image[p][n].chunks \in Seq(Nat)
           /\ moving.head \in Seq(Nat)
           /\ Still.head = <<>>
BY SMTT(60) DEF FilesOK, KnownOK, IndexFile, TrunkFile, Known, Still

LEMMA CutDoes ==
    ASSUME FilesOK, KnownOK, inodes \in Nat, NEW p \in Processes, NEW n \in Names, NEW k \in Nat,
           CutHead(p, n, k)
    PROVE  /\ rings' \in [Names -> IndexFile] /\ trunk' \in [Names -> TrunkFile]
           /\ grain' \in [Names -> Seq(Nat)] /\ image' \in [Processes -> [Names -> Known]]
           /\ rings'[n].ino = inodes + 1 /\ rings'[n].id = rings[n].id
           /\ trunk'[n].ino = inodes + 1
           /\ rings'[n].recs = Rest(image[p][n].chunks, k)
           /\ trunk'[n].frames = Rest(image[p][n].chunks, k)
           /\ grain'[n] = Rest(grain[n], k)
           /\ image'[p][n].ring = inodes + 1 /\ image'[p][n].trunk = inodes + 1
           /\ image'[p][n].chunks = Rest(image[p][n].chunks, k)
           /\ \A m \in Names \ {n} : /\ rings'[m] = rings[m] /\ trunk'[m] = trunk[m]
                                     /\ grain'[m] = grain[m] /\ image'[p][m] = image[p][m]
           /\ \A q \in Processes \ {p} : image'[q] = image[q]
<1> DEFINE rest == Rest(image[p][n].chunks, k)
<1>1. inodes' = inodes + 1 /\ inodes' \in Nat
  BY DEF CutHead
<1>2. rest \in Seq(Nat) /\ Rebased(grain[n], k) \in Seq(Nat)
      /\ Rebased(grain[n], k) = Rest(grain[n], k)
  BY Fields, RestIsSeq
<1> HIDE DEF rest
<1>3. rings' = [rings EXCEPT ![n].ino = inodes', ![n].recs = rest]
      /\ trunk' = [trunk EXCEPT ![n] = [ino |-> inodes', frames |-> rest]]
      /\ grain' = [grain EXCEPT ![n] = Rebased(@, k)]
      /\ image' = [image EXCEPT ![p][n] = ImageOf(n)]
  BY DEF CutHead, rest
<1>4. /\ rings' \in [Names -> IndexFile]
      /\ rings'[n].ino = inodes + 1 /\ rings'[n].id = rings[n].id /\ rings'[n].recs = rest
      /\ \A m \in Names \ {n} : rings'[m] = rings[m]
  BY <1>1, <1>2, <1>3 DEF FilesOK, IndexFile
<1>5. /\ trunk' \in [Names -> TrunkFile]
      /\ trunk'[n].ino = inodes + 1 /\ trunk'[n].frames = rest
      /\ \A m \in Names \ {n} : trunk'[m] = trunk[m]
  BY <1>1, <1>2, <1>3 DEF FilesOK, TrunkFile
<1>6. /\ grain' \in [Names -> Seq(Nat)] /\ grain'[n] = Rest(grain[n], k)
      /\ \A m \in Names \ {n} : grain'[m] = grain[m]
  BY <1>2, <1>3 DEF FilesOK
<1>7. ImageOf(n) = [ring |-> inodes + 1, trunk |-> inodes + 1, chunks |-> rest]
  BY <1>4, <1>5 DEF ImageOf
<1>8. /\ image' \in [Processes -> [Names -> Known]]
      /\ image'[p][n].ring = inodes + 1 /\ image'[p][n].trunk = inodes + 1
      /\ image'[p][n].chunks = rest
      /\ \A m \in Names \ {n} : image'[p][m] = image[p][m]
      /\ \A q \in Processes \ {p} : image'[q] = image[q]
  BY <1>1, <1>2, <1>3, <1>7 DEF KnownOK, Known
<1> QED BY <1>4, <1>5, <1>6, <1>8 DEF rest

LEMMA WriteDoes ==
    ASSUME FilesOK, KnownOK, NEW p \in Processes, NEW n \in Names, Write(p, n)
    PROVE  /\ rings' \in [Names -> IndexFile] /\ trunk' \in [Names -> TrunkFile]
           /\ image' \in [Processes -> [Names -> Known]]
           /\ entries' = entries + 1
           /\ rings'[n].ino = rings[n].ino /\ rings'[n].id = rings[n].id
           /\ trunk'[n].ino = trunk[n].ino
           /\ (rings[n].ino = image[p][n].ring /\ rings[n].recs = image[p][n].chunks)
                  => rings'[n].recs = Append(rings[n].recs, entries')
           /\ (trunk[n].ino = image[p][n].trunk /\ trunk[n].frames = image[p][n].chunks)
                  => trunk'[n].frames = Append(trunk[n].frames, entries')
           /\ image'[p][n].ring = image[p][n].ring /\ image'[p][n].trunk = image[p][n].trunk
           /\ image'[p][n].chunks = Append(image[p][n].chunks, entries')
           /\ \A m \in Names \ {n} : /\ rings'[m] = rings[m] /\ trunk'[m] = trunk[m]
                                     /\ image'[p][m] = image[p][m]
           /\ \A q \in Processes \ {p} : image'[q] = image[q]
<1> DEFINE at == Len(image[p][n].chunks) + 1
           longer == Append(image[p][n].chunks, entries')
<1>1. entries' = entries + 1 /\ entries' \in Nat
  BY DEF Write, KnownOK
<1>2. at \in Nat \ {0}
  BY Fields, LenProperties
<1>3. /\ Put(rings[n].recs, at, entries') \in Seq(Nat)
      /\ Put(trunk[n].frames, at, entries') \in Seq(Nat)
  BY <1>1, <1>2, Fields, PutIsSeq
<1>4. /\ rings[n].recs = image[p][n].chunks =>
             Put(rings[n].recs, at, entries') = Append(rings[n].recs, entries')
      /\ trunk[n].frames = image[p][n].chunks =>
             Put(trunk[n].frames, at, entries') = Append(trunk[n].frames, entries')
  BY <1>1, Fields, PutAtTheEnd
<1>5. longer \in Seq(Nat)
  BY <1>1, Fields, AppendIsSeq
<1> HIDE DEF at, longer
<1>6. /\ rings' = IF rings[n].ino # image[p][n].ring THEN rings
                  ELSE [rings EXCEPT ![n].recs = Put(@, at, entries'), ![n].ever = TRUE]
      /\ trunk' = IF trunk[n].ino # image[p][n].trunk THEN trunk
                  ELSE [trunk EXCEPT ![n].frames = Put(@, at, entries')]
      /\ image' = [image EXCEPT ![p][n].chunks = longer]
  BY DEF Write, at, longer, KnownOK
<1>7. /\ rings' \in [Names -> IndexFile]
      /\ rings'[n].ino = rings[n].ino /\ rings'[n].id = rings[n].id
      /\ rings[n].ino = image[p][n].ring => rings'[n].recs = Put(rings[n].recs, at, entries')
      /\ \A m \in Names \ {n} : rings'[m] = rings[m]
  BY <1>3, <1>6 DEF FilesOK, IndexFile
<1>8. /\ trunk' \in [Names -> TrunkFile] /\ trunk'[n].ino = trunk[n].ino
      /\ trunk[n].ino = image[p][n].trunk
             => trunk'[n].frames = Put(trunk[n].frames, at, entries')
      /\ \A m \in Names \ {n} : trunk'[m] = trunk[m]
  BY <1>3, <1>6 DEF FilesOK, TrunkFile
<1>9. /\ image' \in [Processes -> [Names -> Known]]
      /\ image'[p][n].ring = image[p][n].ring /\ image'[p][n].trunk = image[p][n].trunk
      /\ image'[p][n].chunks = longer
      /\ \A m \in Names \ {n} : image'[p][m] = image[p][m]
      /\ \A q \in Processes \ {p} : image'[q] = image[q]
  <2>1. image' = [image EXCEPT ![p] = [image[p] EXCEPT ![n] = [image[p][n] EXCEPT !.chunks = longer]]]
    BY <1>6
  <2> DEFINE known == [image[p][n] EXCEPT !.chunks = longer]
  <2>2. known \in Known /\ known.ring = image[p][n].ring /\ known.trunk = image[p][n].trunk
        /\ known.chunks = longer
    BY <1>5, Fields DEF Known
  <2> HIDE DEF known
  <2>3. image' = [image EXCEPT ![p] = [image[p] EXCEPT ![n] = known]]
    BY <2>1 DEF known
  <2> QED BY <2>2, <2>3 DEF KnownOK
<1> QED BY <1>1, <1>4, <1>7, <1>8, <1>9 DEF longer

LEMMA ExtendDoes ==
    ASSUME FilesOK, KnownOK, NEW p \in Processes, NEW n \in Names, Extend(p, n)
    PROVE  /\ grain' \in [Names -> Seq(Nat)]
           /\ Len(grain[n]) > Len(rings[n].recs) => grain'[n] = rings[n].recs
           /\ Len(grain[n]) <= Len(rings[n].recs) =>
                 grain'[n] = grain[n] \o SubSeq(rings[n].recs, Len(grain[n]) + 1, Len(rings[n].recs))
           /\ \A m \in Names \ {n} : grain'[m] = grain[m]
           /\ UNCHANGED <<rings, trunk, bark, image, moving, entries, retired, inodes>>
<1>1. grain[n] \in Seq(Nat) /\ rings[n].recs \in Seq(Nat)
      /\ Len(grain[n]) \in Nat /\ Len(rings[n].recs) \in Nat
  BY Fields, LenProperties
<1>2. SubSeq(rings[n].recs, Len(grain[n]) + 1, Len(rings[n].recs)) \in Seq(Nat)
  BY <1>1, SuffixIsSeq
<1>3. grain[n] \o SubSeq(rings[n].recs, Len(grain[n]) + 1, Len(rings[n].recs)) \in Seq(Nat)
  BY <1>1, <1>2, ConcatProperties
<1> DEFINE sums == grain[n] \o SubSeq(rings[n].recs, Len(grain[n]) + 1, Len(rings[n].recs))
<1>4. grain' = [grain EXCEPT ![n] = IF Len(grain[n]) > Len(rings[n].recs) THEN rings[n].recs ELSE sums]
  BY DEF Extend, FilesOK
<1> HIDE DEF sums
<1>5. sums \in Seq(Nat)
  BY <1>3 DEF sums
<1>6. /\ grain' \in [Names -> Seq(Nat)]
      /\ Len(grain[n]) > Len(rings[n].recs) => grain'[n] = rings[n].recs
      /\ Len(grain[n]) <= Len(rings[n].recs) => grain'[n] = sums
      /\ \A m \in Names \ {n} : grain'[m] = grain[m]
  BY <1>1, <1>4, <1>5 DEF FilesOK
<1>7. UNCHANGED <<rings, trunk, bark, image, moving, entries, retired, inodes>>
  BY DEF Extend
<1> QED BY <1>6, <1>7 DEF sums

LEMMA OpensDoes ==
    ASSUME FilesOK, KnownOK, inodes \in Nat, NEW p \in Processes, Opens(p)
    PROVE  /\ rings' \in [Names -> IndexFile] /\ trunk' \in [Names -> TrunkFile]
           /\ image' \in [Processes -> [Names -> Known]]
           /\ rings'["log"].ino # 0 /\ trunk'["log"].ino # 0
           /\ rings'["log"].id = IF rings["log"].ino # 0 THEN rings["log"].id
                                 ELSE IF bark["log"] # 0 THEN bark["log"] ELSE inodes + 1
           /\ rings'["log"].recs = Whole("log") /\ trunk'["log"].frames = trunk["log"].frames
           /\ image'[p]["log"].ring = rings'["log"].ino
           /\ image'[p]["log"].trunk = trunk'["log"].ino
           /\ image'[p]["log"].chunks = rings'["log"].recs
           /\ \A m \in Names \ {"log"} : /\ rings'[m] = rings[m] /\ trunk'[m] = trunk[m]
                                         /\ image'[p][m] = image[p][m]
           /\ \A q \in Processes \ {p} : image'[q] = image[q]
<1> DEFINE ino == inodes + 1
           id == IF rings["log"].ino # 0 THEN rings["log"].id
                 ELSE IF bark["log"] # 0 THEN bark["log"] ELSE ino
           ring == [ino |-> IF rings["log"].ino = 0 THEN ino ELSE rings["log"].ino, id |-> id,
                    ever |-> rings["log"].ino # 0 /\ rings["log"].ever, recs |-> Whole("log")]
<1>1. "log" \in Names /\ ino \in Nat /\ ino # 0 /\ id \in Nat /\ Whole("log") \in Seq(Nat)
  BY Fields, WholeIsSeq DEF Names
<1>2. (rings["log"].ino # 0 /\ rings["log"].ever) \in BOOLEAN
  OBVIOUS
<1>3. /\ rings' = [rings EXCEPT !["log"] = ring]
      /\ trunk' = [trunk EXCEPT !["log"].ino = IF @ = 0 THEN ino ELSE @]
      /\ image' = [image EXCEPT ![p]["log"] = ImageOf("log")]
  BY <1>1 DEF Opens, Opened, FilesOK
<1>4. /\ ring \in IndexFile /\ ring.ino # 0 /\ ring.id = id /\ ring.recs = Whole("log")
  BY <1>1, <1>2, Fields DEF IndexFile
<1> HIDE DEF ring
<1>5. /\ rings' \in [Names -> IndexFile] /\ rings'["log"] = ring
      /\ \A m \in Names \ {"log"} : rings'[m] = rings[m]
  BY <1>1, <1>3, <1>4 DEF FilesOK
<1>6. /\ trunk' \in [Names -> TrunkFile] /\ trunk'["log"].ino # 0
      /\ trunk'["log"].frames = trunk["log"].frames
      /\ \A m \in Names \ {"log"} : trunk'[m] = trunk[m]
  BY <1>1, <1>3, Fields DEF FilesOK, TrunkFile
<1>7. ImageOf("log") \in Known
  BY <1>1, <1>5, <1>6 DEF ImageOf, Known, IndexFile, TrunkFile
<1>8. /\ image' \in [Processes -> [Names -> Known]]
      /\ image'[p]["log"] = ImageOf("log")
      /\ \A m \in Names \ {"log"} : image'[p][m] = image[p][m]
      /\ \A q \in Processes \ {p} : image'[q] = image[q]
  BY <1>1, <1>3, <1>7 DEF KnownOK
<1>9. /\ image'[p]["log"].ring = rings'["log"].ino
      /\ image'[p]["log"].trunk = trunk'["log"].ino
      /\ image'[p]["log"].chunks = rings'["log"].recs
  BY <1>8 DEF ImageOf
<1> QED BY <1>4, <1>5, <1>6, <1>8, <1>9

LEMMA EnumerateDoes ==
    ASSUME FilesOK, KnownOK, Enumerate
    PROVE  /\ rings' \in [Names -> IndexFile] /\ image' \in [Processes -> [Names -> Known]]
           /\ \A n \in Names : /\ rings'[n].ino = rings[n].ino /\ rings'[n].id = rings[n].id
                               /\ rings'[n].recs = Whole(n)
                               /\ rings[n].ino = 0 => image'["mount"][n] = NotOpen
                               /\ rings[n].ino # 0 =>
                                     /\ image'["mount"][n].ring = rings[n].ino
                                     /\ image'["mount"][n].trunk = trunk[n].ino
                                     /\ image'["mount"][n].chunks = Whole(n)
           /\ \A q \in Processes \ {"mount"} : image'[q] = image[q]
<1> DEFINE known == [n \in Names |-> IF rings[n].ino = 0 THEN NotOpen
                                     ELSE [ring |-> rings[n].ino, trunk |-> trunk[n].ino,
                                           chunks |-> Whole(n)]]
<1>1. /\ \A n \in Names : Whole(n) \in Seq(Nat)
      /\ NotOpen \in Known /\ "mount" \in Processes
  BY WholeIsSeq, EmptySeq DEF NotOpen, Known, Processes
<1>2. known \in [Names -> Known]
  BY <1>1, Fields DEF Known
<1>3. rings' = [n \in Names |-> [rings[n] EXCEPT !.recs = Whole(n)]]
      /\ image' = [image EXCEPT !["mount"] = known]
  BY DEF Enumerate
<1>4. /\ rings' \in [Names -> IndexFile]
      /\ \A n \in Names : /\ rings'[n].ino = rings[n].ino /\ rings'[n].id = rings[n].id
                          /\ rings'[n].recs = Whole(n)
  BY <1>1, <1>3, Fields DEF IndexFile
<1>5. \A n \in Names : /\ rings[n].ino = 0 => known[n] = NotOpen
                       /\ rings[n].ino # 0 =>
                             /\ known[n].ring = rings[n].ino
                             /\ known[n].trunk = trunk[n].ino
                             /\ known[n].chunks = Whole(n)
  OBVIOUS
<1> HIDE DEF known
<1>6. /\ image' \in [Processes -> [Names -> Known]] /\ image'["mount"] = known
      /\ \A q \in Processes \ {"mount"} : image'[q] = image[q]
  BY <1>1, <1>2, <1>3 DEF KnownOK
<1> QED BY <1>4, <1>5, <1>6

LEMMA CopyDoes ==
    ASSUME FilesOK, KnownOK, inodes \in Nat, NEW p \in Processes, CopyHead(p)
    PROVE  /\ rings' \in [Names -> IndexFile] /\ trunk' \in [Names -> TrunkFile]
           /\ image' \in [Processes -> [Names -> Known]]
           /\ moving' \in [head : Seq(Nat), new : BOOLEAN]
           /\ \E k \in 1 .. Len(image[p]["log"].chunks) :
                 /\ moving'.head = SubSeq(image[p]["log"].chunks, 1, k)
                 /\ rings'["old"].recs = Whole("old") \o SubSeq(image[p]["log"].chunks, 1, k)
           /\ rings'["old"].ino # 0 /\ trunk'["old"].ino # 0
           /\ trunk'["old"].frames = rings'["old"].recs
           /\ rings'["old"].id = IF rings["old"].ino # 0 THEN rings["old"].id
                                 ELSE IF bark["old"] # 0 THEN bark["old"] ELSE inodes + 1
           /\ image'[p]["old"].ring = rings'["old"].ino
           /\ image'[p]["old"].trunk = trunk'["old"].ino
           /\ image'[p]["old"].chunks = rings'["old"].recs
           /\ \A m \in Names \ {"old"} : /\ rings'[m] = rings[m] /\ trunk'[m] = trunk[m]
                                         /\ image'[p][m] = image[p][m]
           /\ \A q \in Processes \ {p} : image'[q] = image[q]
<1> DEFINE new == inodes + 1
           base == Whole("old")
           ino == IF rings["old"].ino = 0 THEN new ELSE rings["old"].ino
           at == IF trunk["old"].ino = 0 THEN new ELSE trunk["old"].ino
           id == IF rings["old"].ino # 0 THEN rings["old"].id
                 ELSE IF bark["old"] # 0 THEN bark["old"] ELSE new
<1>1. PICK k \in 1 .. Len(image[p]["log"].chunks) :
         LET head == SubSeq(image[p]["log"].chunks, 1, k)
         IN  /\ rings' = [rings EXCEPT !["old"] = [ino |-> ino, id |-> id, ever |-> TRUE,
                                                  recs |-> base \o head]]
             /\ trunk' = [trunk EXCEPT !["old"] = [ino |-> at, frames |-> base \o head]]
             /\ image' = [image EXCEPT ![p]["old"] = ImageOf("old")]
             /\ moving' = [head |-> head, new |-> rings["old"].ino = 0]
  BY DEF CopyHead
<1> DEFINE head == SubSeq(image[p]["log"].chunks, 1, k)
           recs == base \o head
<1>2. "old" \in Names /\ new \in Nat /\ new # 0 /\ ino \in Nat /\ ino # 0 /\ at \in Nat /\ at # 0
      /\ id \in Nat /\ "log" \in Names
  <2>1. "old" \in Names /\ "log" \in Names
    BY DEF Names
  <2>2. rings["old"].ino \in Nat /\ rings["old"].id \in Nat /\ trunk["old"].ino \in Nat
        /\ bark["old"] \in Nat
    BY <2>1, Fields
  <2> QED BY <2>1, <2>2
<1>3. image[p]["log"].chunks \in Seq(Nat) /\ Len(image[p]["log"].chunks) \in Nat
  BY <1>2, Fields, LenProperties
<1>4. head \in Seq(Nat)
  BY <1>3, PrefixIsSeq
<1>5. recs \in Seq(Nat)
  BY <1>2, <1>4, WholeIsSeq, ConcatProperties
<1> HIDE DEF recs, ino, at, id
<1>6. /\ rings' = [rings EXCEPT !["old"] = [ino |-> ino, id |-> id, ever |-> TRUE, recs |-> recs]]
      /\ trunk' = [trunk EXCEPT !["old"] = [ino |-> at, frames |-> recs]]
      /\ image' = [image EXCEPT ![p]["old"] = ImageOf("old")]
  BY <1>1 DEF recs
<1>7. moving' \in [head : Seq(Nat), new : BOOLEAN] /\ moving'.head = head
  BY <1>1, <1>4
<1>8. /\ rings' \in [Names -> IndexFile]
      /\ rings'["old"].ino = ino /\ rings'["old"].id = id /\ rings'["old"].recs = recs
      /\ \A m \in Names \ {"old"} : rings'[m] = rings[m]
  BY <1>2, <1>5, <1>6 DEF FilesOK, IndexFile
<1>9. /\ trunk' \in [Names -> TrunkFile]
      /\ trunk'["old"].ino = at /\ trunk'["old"].frames = recs
      /\ \A m \in Names \ {"old"} : trunk'[m] = trunk[m]
  BY <1>2, <1>5, <1>6 DEF FilesOK, TrunkFile
<1>10. ImageOf("old") = [ring |-> ino, trunk |-> at, chunks |-> recs]
  BY <1>8, <1>9 DEF ImageOf
<1>11. /\ image' \in [Processes -> [Names -> Known]]
       /\ image'[p]["old"].ring = ino /\ image'[p]["old"].trunk = at
       /\ image'[p]["old"].chunks = recs
       /\ \A m \in Names \ {"old"} : image'[p][m] = image[p][m]
       /\ \A q \in Processes \ {p} : image'[q] = image[q]
  BY <1>2, <1>5, <1>6, <1>10 DEF KnownOK, Known
<1>12. recs = base \o head /\ id = IF rings["old"].ino # 0 THEN rings["old"].id
                                   ELSE IF bark["old"] # 0 THEN bark["old"] ELSE new
  BY DEF recs, id
<1> QED BY <1>2, <1>7, <1>8, <1>9, <1>11, <1>12

LEMMA GoneDoes ==
    ASSUME KnownOK, NEW p \in Processes, Gone(p)
    PROVE  /\ image' \in [Processes -> [Names -> Known]] /\ image'[p] = Nothing
           /\ \A q \in Processes \ {p} : image'[q] = image[q]
           /\ moving' = IF p \in {"rotate", "mount"} THEN Still ELSE moving
           /\ UNCHANGED <<entries, retired>>
<1>1. Nothing \in [Names -> Known]
  BY EmptySeq DEF Nothing, NotOpen, Known
<1> QED BY <1>1 DEF Gone, KnownOK

\* The two halves of a rename, and of a delete.
LEMMA MovedTrunkDoes ==
    ASSUME FilesOK, MovedTrunk
    PROVE  /\ rings' \in [Names -> IndexFile] /\ trunk' \in [Names -> TrunkFile]
           /\ trunk'["old"] = trunk["log"]
           /\ trunk'["log"].ino = 0 /\ trunk'["log"].frames = <<>>
           /\ rings'["old"].ino = 0 /\ rings'["old"].recs = <<>>
           /\ rings'["log"] = rings["log"]
<1>1. "log" \in Names /\ "old" \in Names /\ "log" # "old" /\ <<>> \in Seq(Nat)
  BY EmptySeq DEF Names
<1> DEFINE none == [ino |-> 0, frames |-> <<>>]
<1>2. none \in TrunkFile /\ none.ino = 0 /\ none.frames = <<>>
  BY <1>1 DEF TrunkFile
<1> HIDE DEF none
<1>3. trunk' = [trunk EXCEPT !["old"] = trunk["log"], !["log"] = none]
  BY DEF MovedTrunk, none
<1>4. trunk' \in [Names -> TrunkFile] /\ trunk'["old"] = trunk["log"] /\ trunk'["log"] = none
  BY <1>1, <1>2, <1>3 DEF FilesOK
<1>5. rings' = [rings EXCEPT !["old"].ino = 0, !["old"].ever = FALSE, !["old"].recs = <<>>]
  BY DEF MovedTrunk
<1>6. /\ rings' \in [Names -> IndexFile] /\ rings'["log"] = rings["log"]
      /\ rings'["old"].ino = 0 /\ rings'["old"].recs = <<>>
  BY ZenonT(60), <1>1, <1>5 DEF FilesOK, IndexFile
<1> QED BY <1>2, <1>4, <1>6

LEMMA MovedRestDoes ==
    ASSUME FilesOK, KnownOK, MovedRest
    PROVE  /\ rings' \in [Names -> IndexFile] /\ image' \in [Processes -> [Names -> Known]]
           /\ bark' \in [Names -> Nat] /\ grain' \in [Names -> Seq(Nat)]
           /\ rings'["old"] = rings["log"]
           /\ rings'["log"].ino = 0 /\ rings'["log"].recs = <<>>
           /\ image'["mount"]["old"] = image["mount"]["log"]
           /\ image'["mount"]["log"] = NotOpen
           /\ \A q \in Processes \ {"mount"} : image'[q] = image[q]
<1>1. /\ "log" \in Names /\ "old" \in Names /\ "log" # "old" /\ "mount" \in Processes
      /\ <<>> \in Seq(Nat) /\ NotOpen \in Known
  BY EmptySeq DEF Names, Processes, NotOpen, Known
<1>2. rings' = [rings EXCEPT !["old"] = rings["log"], !["log"].ino = 0, !["log"].ever = FALSE,
                             !["log"].recs = <<>>]
  BY DEF MovedRest
<1>3. /\ rings' \in [Names -> IndexFile] /\ rings'["old"] = rings["log"]
      /\ rings'["log"].ino = 0 /\ rings'["log"].recs = <<>>
  <2> DEFINE empty == [rings["log"] EXCEPT !.ino = 0, !.ever = FALSE, !.recs = <<>>]
  <2>1. rings["log"] \in IndexFile
    BY <1>1 DEF FilesOK
  <2>2. empty \in IndexFile /\ empty.ino = 0 /\ empty.recs = <<>>
    BY <1>1, <2>1 DEF IndexFile
  <2> HIDE DEF empty
  <2>3. rings' = [rings EXCEPT !["old"] = rings["log"], !["log"] = empty]
    BY <1>1, <1>2 DEF empty, FilesOK
  <2> QED BY <1>1, <2>1, <2>2, <2>3 DEF FilesOK
<1>4. image' = [image EXCEPT !["mount"] = [n \in Names |->
                     IF n = "old" THEN image["mount"]["log"] ELSE NotOpen]]
  BY DEF MovedRest
<1>5. /\ image' \in [Processes -> [Names -> Known]]
      /\ image'["mount"]["old"] = image["mount"]["log"]
      /\ image'["mount"]["log"] = NotOpen
      /\ \A q \in Processes \ {"mount"} : image'[q] = image[q]
  BY <1>1, <1>4 DEF KnownOK
<1>6. bark' \in [Names -> Nat] /\ grain' \in [Names -> Seq(Nat)]
  BY <1>1 DEF MovedRest, SidesMoved, MovedIfThere, FilesOK
<1> QED BY <1>3, <1>5, <1>6

LEMMA DeleteDoes ==
    ASSUME FilesOK, KnownOK, Delete
    PROVE  /\ rings' \in [Names -> IndexFile] /\ trunk' \in [Names -> TrunkFile]
           /\ bark' \in [Names -> Nat] /\ grain' \in [Names -> Seq(Nat)]
           /\ image' \in [Processes -> [Names -> Known]]
           /\ rings'["log"].ino = 0
           /\ \A q \in Processes \ {"trim"} : image'[q] = image[q]
           /\ image'["trim"] \in {image["trim"], Nothing}
           /\ \A m \in Names \ {"log"} : /\ rings'[m] = rings[m] /\ trunk'[m] = trunk[m]
                                         /\ bark'[m] = bark[m] /\ grain'[m] = grain[m]
           /\ rings["log"].ino # 0 =>
                 /\ rings'["log"].recs = <<>> /\ image' = image /\ pc' = pc
                 /\ UNCHANGED <<trunk, bark, grain>>
           /\ rings["log"].ino = 0 =>
                 /\ UNCHANGED rings
                 /\ trunk'["log"].ino = 0 /\ trunk'["log"].frames = <<>> /\ bark'["log"] = 0
                 /\ grain'["log"] = <<>> /\ image'["trim"] = Nothing
                 /\ pc' = [pc EXCEPT !["trim"] = "down"]
<1>1. "log" \in Names /\ "trim" \in Processes /\ <<>> \in Seq(Nat)
      /\ Nothing \in [Names -> Known]
  BY EmptySeq DEF Names, Processes, Nothing, NotOpen, Known
<1>2. CASE rings["log"].ino # 0
  <2>1. /\ rings' = [rings EXCEPT !["log"].ino = 0, !["log"].recs = <<>>, !["log"].ever = FALSE]
        /\ UNCHANGED <<trunk, bark, grain, image, pc>>
    BY <1>2 DEF Delete
  <2>2. /\ rings' \in [Names -> IndexFile] /\ rings'["log"].ino = 0 /\ rings'["log"].recs = <<>>
        /\ \A m \in Names \ {"log"} : rings'[m] = rings[m]
    BY ZenonT(60), <1>1, <2>1 DEF FilesOK, IndexFile
  <2> QED BY <1>2, <2>1, <2>2 DEF FilesOK, KnownOK
<1>3. CASE rings["log"].ino = 0
  <2> DEFINE none == [ino |-> 0, frames |-> <<>>]
  <2>1. none \in TrunkFile /\ none.ino = 0 /\ none.frames = <<>>
    BY <1>1 DEF TrunkFile
  <2> HIDE DEF none
  <2>2. /\ trunk' = [trunk EXCEPT !["log"] = none]
        /\ bark' = [bark EXCEPT !["log"] = 0] /\ grain' = [grain EXCEPT !["log"] = <<>>]
        /\ image' = [image EXCEPT !["trim"] = Nothing] /\ UNCHANGED rings
        /\ pc' = [pc EXCEPT !["trim"] = "down"]
    BY <1>3 DEF Delete, none
  <2>3. /\ trunk' \in [Names -> TrunkFile] /\ bark' \in [Names -> Nat]
        /\ grain' \in [Names -> Seq(Nat)] /\ trunk'["log"] = none /\ bark'["log"] = 0
        /\ grain'["log"] = <<>>
        /\ \A m \in Names \ {"log"} :
              trunk'[m] = trunk[m] /\ bark'[m] = bark[m] /\ grain'[m] = grain[m]
    BY <1>1, <2>1, <2>2 DEF FilesOK
  <2>4. /\ image' \in [Processes -> [Names -> Known]] /\ image'["trim"] = Nothing
        /\ \A q \in Processes \ {"trim"} : image'[q] = image[q]
    BY <1>1, <2>2 DEF KnownOK
  <2>5. rings' = rings /\ rings \in [Names -> IndexFile]
    BY <2>2 DEF FilesOK
  <2> QED BY <1>3, <2>1, <2>2, <2>3, <2>4, <2>5
<1> QED BY <1>2, <1>3

LEMMA LogFilesStep ==
    ASSUME DirTypeOK, DirNext
    PROVE  FilesOK' /\ KnownOK'
<1> USE DEF DirTypeOK
<1>1. inodes \in Nat
  BY DEF LocksOK
<1>2. ASSUME NEW p \in Processes, CopyHead(p)
      PROVE  FilesOK' /\ KnownOK'
  <2>1. UNCHANGED <<bark, grain, entries>>
    BY <1>2 DEF CopyHead
  <2> QED BY <1>1, <1>2, <2>1, CopyDoes DEF FilesOK, KnownOK
<1>3. ASSUME NEW p \in Processes, CutRotated(p)
      PROVE  FilesOK' /\ KnownOK'
  <2>1. "log" \in Names /\ Len(moving.head) \in Nat
    BY Fields, LenProperties DEF Names
  <2>2. CutHead(p, "log", Len(moving.head)) /\ moving' = Still /\ UNCHANGED entries
        /\ bark' = IF moving.new THEN [n \in Names |-> rings[n].id] ELSE bark
    BY <1>3 DEF CutRotated
  <2>3. bark' \in [Names -> Nat]
    BY <2>2, Fields DEF FilesOK
  <2>4. Still \in [head : Seq(Nat), new : BOOLEAN]
    BY EmptySeq DEF Still
  <2>5. CutHead(p, "log", Len(moving.head)) => /\ rings' \in [Names -> IndexFile] /\ trunk' \in [Names -> TrunkFile]
           /\ grain' \in [Names -> Seq(Nat)] /\ image' \in [Processes -> [Names -> Known]]
    BY <1>1, <2>1, CutDoes
  <2> QED BY <2>2, <2>3, <2>4, <2>5 DEF FilesOK, KnownOK
<1>4. ASSUME NEW p \in Processes, NEW n \in Names, Write(p, n)
      PROVE  FilesOK' /\ KnownOK'
  <2>1. UNCHANGED <<bark, grain, moving>> /\ entries' = entries + 1
    BY <1>4 DEF Write
  <2> QED BY <1>4, <2>1, WriteDoes DEF FilesOK, KnownOK
<1>5. ASSUME NEW p \in Processes, NEW n \in Names, Extend(p, n)
      PROVE  FilesOK' /\ KnownOK'
  BY <1>5, ExtendDoes DEF FilesOK, KnownOK
<1>6. ASSUME NEW p \in Processes, NEW n \in Names, Retain(p, n)
      PROVE  FilesOK' /\ KnownOK'
  <2>1. PICK k \in 1 .. Len(image[p][n].chunks) : CutHead(p, n, k)
    BY <1>6 DEF Retain
  <2>2. Len(image[p][n].chunks) \in Nat
    BY Fields, LenProperties
  <2>3. k \in Nat
    BY <2>2
  <2>4. UNCHANGED <<bark, moving, entries>>
    BY <1>6 DEF Retain
  <2> QED BY <1>1, <2>1, <2>3, <2>4, CutDoes DEF FilesOK, KnownOK
<1>7. ASSUME NEW p \in Processes, Opens(p)
      PROVE  FilesOK' /\ KnownOK'
  <2>1. UNCHANGED <<bark, grain, moving, entries>>
    BY <1>7 DEF Opens
  <2> QED BY <1>1, <1>7, <2>1, OpensDoes DEF FilesOK, KnownOK
<1>8. ASSUME NEW p \in Processes, Leaves(p)
      PROVE  FilesOK' /\ KnownOK'
  <2>1. Still \in [head : Seq(Nat), new : BOOLEAN]
    BY EmptySeq DEF Still
  <2>2. UNCHANGED diskVars /\ Gone(p)
    BY <1>8 DEF Leaves
  <2> QED BY <2>1, <2>2, GoneDoes DEF FilesOK, KnownOK, diskVars
<1>9. ASSUME NEW p \in Processes, Enter(p) \/ Grab(p)
      PROVE  FilesOK' /\ KnownOK'
  BY <1>9 DEF Enter, Grab, FilesOK, KnownOK, diskVars
<1>10. Takes \/ Trimmed => FilesOK' /\ KnownOK'
  BY DEF Takes, Trimmed, FilesOK, KnownOK, diskVars
<1>11. Enumerate => FilesOK' /\ KnownOK'
  <2>1. Enumerate => UNCHANGED <<trunk, bark, grain, moving, entries>>
    BY DEF Enumerate
  <2> QED BY <2>1, EnumerateDoes DEF FilesOK, KnownOK
<1>12. Delete => FilesOK' /\ KnownOK'
  <2>1. Delete => UNCHANGED <<moving, entries>>
    BY DEF Delete
  <2> QED BY <2>1, DeleteDoes DEF FilesOK, KnownOK
<1>13. MovedTrunk => FilesOK' /\ KnownOK'
  <2>1. MovedTrunk => UNCHANGED <<bark, grain, image, moving, entries>>
    BY DEF MovedTrunk
  <2> QED BY <2>1, MovedTrunkDoes DEF FilesOK, KnownOK
<1>14. MovedRest => FilesOK' /\ KnownOK'
  <2>1. MovedRest => UNCHANGED <<trunk, moving, entries>>
    BY DEF MovedRest
  <2> QED BY <2>1, MovedRestDoes DEF FilesOK, KnownOK
<1>15. DataStep => FilesOK' /\ KnownOK'
  BY <1>2, <1>3, <1>4, <1>5, <1>6 DEF DataStep
<1> QED BY <1>7, <1>8, <1>9, <1>10, <1>11, <1>12, <1>13, <1>14, <1>15, DirSteps

LEMMA DirTypeInit ==
    ASSUME DirInit
    PROVE  DirTypeOK
<1>1. /\ \A i, j \in Nat : [ino |-> i, id |-> j, ever |-> FALSE, recs |-> <<>>] \in IndexFile
      /\ \A i \in Nat : [ino |-> i, frames |-> <<>>] \in TrunkFile
      /\ Nothing \in [Names -> Known] /\ <<>> \in Seq(Nat)
      /\ Still \in [head : Seq(Nat), new : BOOLEAN]
  BY EmptySeq DEF IndexFile, TrunkFile, Nothing, NotOpen, Known, Still
<1>2. FilesOK
  <2>1. rings \in [Names -> IndexFile]
    <3>1. rings = [n \in Names |-> [ino |-> IF n \in env.kept THEN 1 ELSE 0,
                                    id |-> IF n = "log" THEN 1 ELSE 2,
                                    ever |-> FALSE, recs |-> <<>>]]
      BY DEF DirInit
    <3> QED BY <1>1, <3>1
  <2>2. trunk \in [Names -> TrunkFile]
    BY <1>1 DEF DirInit
  <2>3. \A n \in Names : rings[n].id \in Nat
    BY DEF DirInit
  <2> QED BY <1>1, <2>1, <2>2, <2>3 DEF DirInit, FilesOK
<1>3. KnownOK
  BY <1>1 DEF DirInit, KnownOK
<1>4. LocksOK /\ StagesOK
  BY DEF DirInit, LocksOK, StagesOK, Processes
<1> QED BY <1>2, <1>3, <1>4 DEF DirTypeOK

\* The types: every file, lock and image keeps its shape in all steps of the programs.
THEOREM DirTypeCorrect == DirSpec => []DirTypeOK
<1>1. DirTypeOK /\ [DirNext]_dirVars => DirTypeOK'
  <2>1. DirTypeOK /\ DirNext => DirTypeOK'
    BY LogFilesStep, LocksStep DEF DirTypeOK
  <2>2. DirTypeOK /\ UNCHANGED dirVars => DirTypeOK'
    BY DEF DirTypeOK, dirVars, diskVars, LocksOK, StagesOK, FilesOK, KnownOK
  <2> QED BY <2>1, <2>2
<1> QED BY <1>1, DirTypeInit, PTL DEF DirSpec

------------------------------------------------------------------------------
\* Who has what.  A process that has come as far as its locks has the lock files of the
\* directory, and one that has gone further holds them; a mount that is there, and a trim
\* that deletes, are alone.
NoneBeside == \A e \in Environments : "beside" \notin e.events

Apart ==
    /\ \A p \in Processes \ {"mount"} :
          /\ pc[p] \in {"locks", "opens", "runs"} =>
                p \in dirLock /\ tried[p]["log"] = lockFile["log"] /\ lockFile["log"] # 0
          /\ pc[p] \in {"opens", "runs"} => held[p]["log"] = tried[p]["log"]
    /\ \A p, q \in Processes \ {"mount"} :
          pc[p] \in {"opens", "runs"} /\ pc[q] \in {"opens", "runs"} => p = q
    /\ pc["mount"] # "down" => \A p \in Processes \ {"mount"} : pc[p] = "down"
    /\ pc["mount"] \in {"runs", "renames"} => "mount" \in dirLock
    /\ pc["trim"] = "deletes" => \A p \in Processes \ {"trim"} : pc[p] = "down"

Busy(p) == pc[p] \in {"opens", "runs", "claims", "renames", "deletes"}
OneIsBusy == \A p, q \in Processes : Busy(p) /\ Busy(q) => p = q

LEMMA ApartMeansOne ==
    ASSUME StagesOK, Apart
    PROVE  OneIsBusy
<1> SUFFICES ASSUME NEW p \in Processes, NEW q \in Processes, Busy(p), Busy(q), p # q
             PROVE  FALSE
  BY DEF OneIsBusy
<1>1. pc["mount"] = "down" /\ p # "mount" /\ q # "mount"
  BY DEF Apart, Busy, StagesOK
<1>2. pc[p] # "deletes" /\ pc[q] # "deletes"
  BY DEF Apart, Busy, StagesOK
<1>3. pc[p] \in {"opens", "runs"} /\ pc[q] \in {"opens", "runs"}
  BY <1>1, <1>2 DEF Busy, StagesOK
<1> QED BY <1>1, <1>3 DEF Apart

LEMMA ApartStep ==
    ASSUME NoneBeside, LocksOK, StagesOK, Apart, DirNext
    PROVE  Apart'
<1> USE DEF LocksOK, StagesOK
<1>1. ~Event("beside")
  BY DEF NoneBeside, Event
<1>2. /\ "mount" \in Processes /\ "trim" \in Processes /\ "log" \in Names
      /\ \A p \in Processes : "log" \in Wanted(p)
      /\ [n \in Names |-> 0]["log"] = 0
  BY DEF Processes, Names, Wanted
<1>3. ASSUME NEW p \in Processes, Enter(p)
      PROVE  Apart'
  <2>1. /\ p # "mount" /\ pc[p] = "down" /\ pc' = [pc EXCEPT ![p] = "locks"]
        /\ "mount" \notin dirLock /\ pc["mount"] # "claims" /\ pc["trim"] # "deletes"
        /\ dirLock' = dirLock \cup {p} /\ held' = held
    BY <1>1, <1>3 DEF Enter, MayEnter
  <2>2. /\ inodes' # 0 /\ inodes' \in Nat
        /\ lockFile'["log"] = IF lockFile["log"] = 0 THEN inodes' ELSE lockFile["log"]
        /\ tried'[p]["log"] = lockFile'["log"]
        /\ \A q \in Processes \ {p} : tried'[q] = tried[q]
    BY <1>2, <1>3 DEF Enter
  <2>3. pc["mount"] = "down"
    BY <2>1 DEF Apart
  <2> QED BY <1>2, <2>1, <2>2, <2>3 DEF Apart
<1>4. ASSUME NEW p \in Processes, Grab(p)
      PROVE  Apart'
  <2>1. /\ pc[p] = "locks" /\ pc' = [pc EXCEPT ![p] = "opens"] /\ Free(p)
        /\ held' = [held EXCEPT ![p] = tried[p]]
        /\ UNCHANGED <<lockFile, dirLock, tried>>
    BY <1>4 DEF Grab
  <2>2. p # "mount" /\ pc["mount"] = "down" /\ pc["trim"] # "deletes"
    BY <1>2, <2>1 DEF Apart
  <2>3. \A q \in Processes \ {p} : held[q]["log"] # tried[p]["log"]
    BY <1>2, <2>1 DEF Free
  <2>4. \A q \in Processes \ {p, "mount"} : pc[q] \notin {"opens", "runs"}
    BY <2>1, <2>2, <2>3 DEF Apart
  <2>5. \A q \in Processes : pc'[q] = IF q = p THEN "opens" ELSE pc[q]
    BY <2>1
  <2>6. held'[p] = tried[p] /\ \A q \in Processes \ {p} : held'[q] = held[q]
    BY <2>1
  <2> QED BY <1>2, <2>1, <2>2, <2>4, <2>5, <2>6 DEF Apart
<1>5. ASSUME NEW p \in Processes, Leaves(p)
      PROVE  Apart'
  <2>1. /\ pc' = [pc EXCEPT ![p] = "down"] /\ dirLock' = dirLock \ {p} /\ lockFile' = lockFile
        /\ \A q \in Processes \ {p} : tried'[q] = tried[q] /\ held'[q] = held[q]
    BY <1>5 DEF Leaves, Gone
  <2>2. \A q \in Processes : pc'[q] = IF q = p THEN "down" ELSE pc[q]
    BY <2>1
  <2> QED BY <1>2, <2>1, <2>2 DEF Apart
<1>6. ASSUME NEW p \in Processes, Opens(p)
      PROVE  Apart'
  <2>1. /\ pc[p] = "opens" /\ pc' = [pc EXCEPT ![p] = "runs"]
        /\ UNCHANGED <<lockFile, dirLock, tried, held>>
    BY <1>6 DEF Opens
  <2>2. p # "mount"
    BY <1>2, <2>1
  <2> QED BY <1>2, <2>1, <2>2 DEF Apart
<1>7. DataStep => Apart'
  BY DataKeepsLocks DEF lockVars, Apart
<1>8. Enumerate => Apart'
  <2> SUFFICES ASSUME Enumerate
               PROVE  Apart'
    OBVIOUS
  <2>1. /\ pc["mount"] = "down" /\ dirLock = {} /\ pc["trim"] # "deletes"
        /\ pc' = [pc EXCEPT !["mount"] = "claims"]
        /\ UNCHANGED <<lockFile, dirLock, tried, held>>
    BY <1>1 DEF Enumerate
  <2>2. \A p \in Processes \ {"mount"} : pc[p] = "down"
    BY <2>1 DEF Apart
  <2> QED BY <1>2, <2>1, <2>2 DEF Apart
<1>9. Takes \/ MovedTrunk \/ MovedRest => Apart'
  <2> SUFFICES ASSUME Takes \/ MovedTrunk \/ MovedRest
               PROVE  Apart'
    OBVIOUS
  <2>1. /\ pc["mount"] # "down" /\ "mount" \in dirLock' /\ dirLock \subseteq dirLock'
        /\ \E s \in {"runs", "renames"} : pc' = [pc EXCEPT !["mount"] = s]
        /\ UNCHANGED <<lockFile, tried, held>>
    BY <1>2 DEF Takes, MovedTrunk, MovedRest, Apart
  <2>2. \A p \in Processes \ {"mount"} : pc[p] = "down" /\ pc'[p] = "down"
    BY <1>2, <2>1 DEF Apart
  <2>3. pc'["mount"] # "down" /\ pc'["trim"] # "deletes"
    BY <1>2, <2>1, <2>2
  <2> QED BY <1>2, <2>1, <2>2, <2>3 DEF Apart
<1>10. Trimmed => Apart'
  <2> SUFFICES ASSUME Trimmed
               PROVE  Apart'
    OBVIOUS
  <2>1. /\ \A q \in Processes \ {"trim"} : pc[q] = "down"
        /\ pc' = [pc EXCEPT !["trim"] = "deletes"]
    BY <1>1 DEF Trimmed, Live
  <2> QED BY <1>2, <2>1 DEF Apart
<1>11. Delete => Apart'
  <2> SUFFICES ASSUME Delete
               PROVE  Apart'
    OBVIOUS
  <2>1. /\ pc["trim"] = "deletes" /\ pc' \in {pc, [pc EXCEPT !["trim"] = "down"]}
    BY DEF Delete
  <2>2. \A q \in Processes \ {"trim"} : pc[q] = "down" /\ pc'[q] = "down"
    BY <2>1 DEF Apart
  <2>3. pc'["trim"] \in {"deletes", "down"}
    BY <1>2, <2>1
  <2> QED BY <1>2, <2>2, <2>3 DEF Apart
<1> QED BY <1>3, <1>4, <1>5, <1>6, <1>7, <1>8, <1>9, <1>10, <1>11, DirSteps

LEMMA ApartAtFirst ==
    ASSUME DirInit
    PROVE  Apart
BY DEF DirInit, Apart, Processes

\* One writer: where nothing starts beside a process without its lock, at most one has a
\* log open, claims the directory or changes it.
THEOREM OneWriter ==
    ASSUME NoneBeside
    PROVE  DirSpec => []OneIsBusy
<1>1. DirTypeOK /\ Apart /\ [DirNext]_dirVars => Apart'
  <2>1. DirTypeOK /\ Apart /\ DirNext => Apart'
    BY ApartStep DEF DirTypeOK
  <2>2. Apart /\ UNCHANGED dirVars => Apart'
    BY DEF Apart, dirVars
  <2> QED BY <2>1, <2>2
<1>2. DirTypeOK /\ Apart => OneIsBusy
  BY ApartMeansOne DEF DirTypeOK
<1> QED BY <1>1, <1>2, ApartAtFirst, DirTypeCorrect, PTL DEF DirSpec

------------------------------------------------------------------------------
\* What a process has open and knows is the log of that name, from its open to its end; in
\* the midst of a rename the mount's image is of the files that move.
Matches(p, n) ==
    /\ rings[n].ino = image[p][n].ring /\ rings[n].recs = image[p][n].chunks
    /\ trunk[n].ino = image[p][n].trunk

Knows ==
    /\ \A p \in Processes, n \in Names :
          (pc[p] \in {"runs", "claims"} /\ image[p][n].ring # 0) => Matches(p, n)
    /\ \A p \in Processes : pc[p] \in {"down", "locks", "opens"} => image[p] = Nothing
    /\ \A p \in Processes, n \in Names : image[p][n].ring = 0 => image[p][n].chunks = <<>>
    /\ \A p \in Processes \ {"mount"} : pc[p] = "runs" => image[p]["log"].ring # 0
    /\ pc["mount"] = "renames" =>
          /\ rings["log"].ino = image["mount"]["log"].ring /\ image["mount"]["log"].ring # 0
          /\ rings["log"].recs = image["mount"]["log"].chunks
          /\ trunk["old"].ino = image["mount"]["log"].trunk

LEMMA OthersRest ==
    ASSUME OneIsBusy, NEW p \in Processes, Busy(p)
    PROVE  \A q \in Processes \ {p} : pc[q] \notin {"opens", "runs", "claims", "renames", "deletes"}
BY DEF OneIsBusy, Busy

\* A step of a process that runs, which leaves it running, with the images of the others
\* untouched: what is to be seen of the logs it has open.
LEMMA KnowsOfARunner ==
    ASSUME StagesOK, OneIsBusy, Knows, NEW p \in Processes, pc[p] = "runs",
           pc' = pc, \A q \in Processes \ {p} : image'[q] = image[q],
           \A n \in Names : /\ image'[p][n].ring # 0 => Matches(p, n)'
                            /\ image'[p][n].ring = 0 => image'[p][n].chunks = <<>>
                            /\ image[p][n].ring # 0 => image'[p][n].ring # 0
    PROVE  Knows'
<1>1. \A q \in Processes \ {p} : pc[q] \notin {"opens", "runs", "claims", "renames", "deletes"}
  BY OthersRest DEF Busy
<1>2. \A q \in Processes, n \in Names :
         (pc'[q] \in {"runs", "claims"} /\ image'[q][n].ring # 0) => Matches(q, n)'
  BY <1>1
<1>3. \A q \in Processes : pc'[q] \in {"down", "locks", "opens"} => image'[q] = Nothing
  BY DEF Knows
<1>4. \A q \in Processes, n \in Names : image'[q][n].ring = 0 => image'[q][n].chunks = <<>>
  BY DEF Knows
<1>5. "log" \in Names /\ "mount" \in Processes
  BY DEF Names, Processes
<1>6. \A q \in Processes \ {"mount"} : pc'[q] = "runs" => image'[q]["log"].ring # 0
  BY <1>5 DEF Knows
<1>7. pc'["mount"] # "renames"
  BY <1>1, <1>5
<1> QED BY <1>2, <1>3, <1>4, <1>6, <1>7 DEF Knows

LEMMA CutKnows ==
    ASSUME DirTypeOK, OneIsBusy, Knows, NEW p \in Processes, NEW n \in Names, NEW k \in Nat,
           pc[p] = "runs", pc' = pc, CutHead(p, n, k)
    PROVE  Knows'
<1> USE DEF DirTypeOK
<1>1. inodes \in Nat
  BY DEF LocksOK
<1>2. CutHead(p, n, k)
  OBVIOUS
<1>3. /\ rings'[n].ino = inodes + 1 /\ trunk'[n].ino = inodes + 1
      /\ rings'[n].recs = Rest(image[p][n].chunks, k)
      /\ image'[p][n].ring = inodes + 1 /\ image'[p][n].trunk = inodes + 1
      /\ image'[p][n].chunks = Rest(image[p][n].chunks, k)
      /\ \A m \in Names \ {n} :
            rings'[m] = rings[m] /\ trunk'[m] = trunk[m] /\ image'[p][m] = image[p][m]
      /\ \A q \in Processes \ {p} : image'[q] = image[q]
  BY <1>1, <1>2, CutDoes
<1>4. inodes + 1 # 0
  BY <1>1
<1>5. \A m \in Names : /\ image'[p][m].ring # 0 => Matches(p, m)'
                       /\ image'[p][m].ring = 0 => image'[p][m].chunks = <<>>
                       /\ image[p][m].ring # 0 => image'[p][m].ring # 0
  BY <1>3, <1>4 DEF Knows, Matches
<1> QED BY <1>3, <1>5, KnowsOfARunner

LEMMA DataKnows ==
    ASSUME DirTypeOK, OneIsBusy, Knows, DataStep
    PROVE  Knows'
<1> USE DEF DirTypeOK
<1>1. pc' = pc
  BY DataKeepsLocks DEF lockVars
<1>2. inodes \in Nat
  BY DEF LocksOK
<1>3. ASSUME NEW p \in Processes, CopyHead(p)
      PROVE  Knows'
  <2>1. pc[p] = "runs"
    BY <1>3 DEF CopyHead, Rotator
  <2>2. /\ rings'["old"].ino # 0
        /\ image'[p]["old"].ring = rings'["old"].ino
        /\ image'[p]["old"].trunk = trunk'["old"].ino
        /\ image'[p]["old"].chunks = rings'["old"].recs
        /\ \A m \in Names \ {"old"} :
              rings'[m] = rings[m] /\ trunk'[m] = trunk[m] /\ image'[p][m] = image[p][m]
        /\ \A q \in Processes \ {p} : image'[q] = image[q]
    BY <1>2, <1>3, CopyDoes
  <2>3. \A m \in Names : /\ image'[p][m].ring # 0 => Matches(p, m)'
                         /\ image'[p][m].ring = 0 => image'[p][m].chunks = <<>>
                         /\ image[p][m].ring # 0 => image'[p][m].ring # 0
    BY <2>1, <2>2 DEF Knows, Matches
  <2> QED BY <1>1, <2>1, <2>2, <2>3, KnowsOfARunner
<1>4. ASSUME NEW p \in Processes, CutRotated(p)
      PROVE  Knows'
  <2>1. "log" \in Names /\ Len(moving.head) \in Nat
    BY Fields, LenProperties DEF Names
  <2>2. CutHead(p, "log", Len(moving.head)) /\ pc[p] = "runs"
    BY <1>4 DEF CutRotated
  <2> QED BY <1>1, <2>1, <2>2, CutKnows
<1>5. ASSUME NEW p \in Processes, NEW n \in Names, Retain(p, n)
      PROVE  Knows'
  <2>1. PICK k \in 1 .. Len(image[p][n].chunks) : CutHead(p, n, k)
    BY <1>5 DEF Retain
  <2>2. Len(image[p][n].chunks) \in Nat
    BY Fields, LenProperties
  <2>3. k \in Nat /\ pc[p] = "runs"
    BY <1>5, <2>2 DEF Retain, Idle
  <2> QED BY <1>1, <2>1, <2>3, CutKnows
<1>6. ASSUME NEW p \in Processes, NEW n \in Names, Write(p, n)
      PROVE  Knows'
  <2>1. pc[p] = "runs" /\ image[p][n].ring # 0
    BY <1>6 DEF Write, Idle
  <2>2. Matches(p, n)
    BY <2>1 DEF Knows
  <2>3. /\ rings'[n].ino = rings[n].ino /\ trunk'[n].ino = trunk[n].ino
        /\ rings'[n].recs = Append(rings[n].recs, entries')
        /\ image'[p][n].ring = image[p][n].ring /\ image'[p][n].trunk = image[p][n].trunk
        /\ image'[p][n].chunks = Append(image[p][n].chunks, entries')
        /\ \A m \in Names \ {n} :
              rings'[m] = rings[m] /\ trunk'[m] = trunk[m] /\ image'[p][m] = image[p][m]
        /\ \A q \in Processes \ {p} : image'[q] = image[q]
    BY <1>6, <2>2, WriteDoes DEF Matches
  <2>4. \A m \in Names : /\ image'[p][m].ring # 0 => Matches(p, m)'
                         /\ image'[p][m].ring = 0 => image'[p][m].chunks = <<>>
                         /\ image[p][m].ring # 0 => image'[p][m].ring # 0
    BY ZenonT(60), <2>1, <2>2, <2>3 DEF Knows, Matches
  <2> QED BY <1>1, <2>1, <2>3, <2>4, KnowsOfARunner
<1>7. ASSUME NEW p \in Processes, NEW n \in Names, Extend(p, n)
      PROVE  Knows'
  BY <1>1, <1>7 DEF Extend, Knows, Matches
<1> QED BY <1>3, <1>4, <1>5, <1>6, <1>7 DEF DataStep

LEMMA KnowsStep ==
    ASSUME DirTypeOK, OneIsBusy, Apart, Knows, DirNext, NoneBeside
    PROVE  Knows'
<1> USE DEF DirTypeOK, StagesOK
<1>1. /\ "mount" \in Processes /\ "trim" \in Processes /\ "log" \in Names /\ "old" \in Names
      /\ inodes \in Nat
  BY DEF Processes, Names, LocksOK
<1>2. /\ \A n \in Names : Nothing[n] = NotOpen
      /\ NotOpen.ring = 0 /\ NotOpen.chunks = <<>>
  BY DEF Nothing, NotOpen
<1>3. ASSUME NEW p \in Processes, Enter(p) \/ Grab(p)
      PROVE  Knows'
  <2>1. /\ pc[p] \in {"down", "locks"}
        /\ \E s \in {"locks", "opens"} : pc' = [pc EXCEPT ![p] = s]
        /\ UNCHANGED <<rings, trunk, image>>
    BY <1>3 DEF Enter, Grab, diskVars
  <2> QED BY <1>1, <2>1 DEF Knows, Matches
<1>4. ASSUME NEW p \in Processes, Leaves(p)
      PROVE  Knows'
  <2>1. /\ pc' = [pc EXCEPT ![p] = "down"]
        /\ image'[p] = Nothing /\ \A q \in Processes \ {p} : image'[q] = image[q]
        /\ UNCHANGED <<rings, trunk>>
    BY <1>4, GoneDoes DEF Leaves, Gone, diskVars
  <2>2. \A q \in Processes : pc'[q] = IF q = p THEN "down" ELSE pc[q]
    BY <2>1
  <2> QED BY <1>1, <1>2, <2>1, <2>2 DEF Knows, Matches
<1>5. ASSUME NEW p \in Processes, Opens(p)
      PROVE  Knows'
  <2>1. pc[p] = "opens" /\ pc' = [pc EXCEPT ![p] = "runs"]
    BY <1>5 DEF Opens
  <2>2. \A q \in Processes \ {p} : pc[q] \notin {"opens", "runs", "claims", "renames", "deletes"}
    BY <2>1, OthersRest DEF Busy
  <2>3. image[p]["old"] = NotOpen
    BY <1>1, <1>2, <2>1 DEF Knows
  <2>4. /\ rings'["log"].ino # 0 /\ trunk'["log"].ino # 0
        /\ image'[p]["log"].ring = rings'["log"].ino
        /\ image'[p]["log"].trunk = trunk'["log"].ino
        /\ image'[p]["log"].chunks = rings'["log"].recs
        /\ image'[p]["old"] = image[p]["old"]
        /\ \A q \in Processes \ {p} : image'[q] = image[q]
    BY <1>1, <1>5, OpensDoes
  <2>5. \A q \in Processes : pc'[q] = IF q = p THEN "runs" ELSE pc[q]
    BY <2>1
  <2>6. \A n \in Names : /\ image'[p][n].ring # 0 => Matches(p, n)'
                         /\ image'[p][n].ring = 0 => image'[p][n].chunks = <<>>
    BY <1>2, <2>3, <2>4 DEF Matches, Names
  <2> QED BY <1>1, <2>2, <2>4, <2>5, <2>6 DEF Knows
<1>6. Takes => Knows'
  <2> SUFFICES ASSUME Takes
               PROVE  Knows'
    OBVIOUS
  <2>1. /\ pc["mount"] = "claims" /\ pc' = [pc EXCEPT !["mount"] = "runs"]
        /\ UNCHANGED <<rings, trunk, image>>
    BY DEF Takes, diskVars
  <2> QED BY <1>1, <2>1 DEF Knows, Matches
<1>7. Trimmed => Knows'
  <2> SUFFICES ASSUME Trimmed
               PROVE  Knows'
    OBVIOUS
  <2>1. pc' = [pc EXCEPT !["trim"] = "deletes"] /\ UNCHANGED <<rings, trunk, image>>
    BY DEF Trimmed, diskVars
  <2> QED BY <1>1, <2>1 DEF Knows, Matches
<1>8. Enumerate => Knows'
  <2> SUFFICES ASSUME Enumerate
               PROVE  Knows'
    OBVIOUS
  <2>1. /\ pc["mount"] = "down" /\ dirLock = {} /\ pc["trim"] # "deletes"
        /\ pc' = [pc EXCEPT !["mount"] = "claims"] /\ trunk' = trunk
    BY DEF Enumerate, NoneBeside, Event, LocksOK
  <2>2. \A p \in Processes \ {"mount"} : pc[p] = "down" /\ pc'[p] = "down"
    BY <2>1 DEF Apart
  <2>3. /\ \A n \in Names : /\ rings'[n].ino = rings[n].ino
                            /\ rings'[n].recs = Whole(n)
                            /\ rings[n].ino = 0 => image'["mount"][n] = NotOpen
                            /\ rings[n].ino # 0 => /\ image'["mount"][n].ring = rings[n].ino
                                                   /\ image'["mount"][n].trunk = trunk[n].ino
                                                   /\ image'["mount"][n].chunks = Whole(n)
        /\ \A q \in Processes \ {"mount"} : image'[q] = image[q]
    BY EnumerateDoes
  <2>4. \A n \in Names : /\ image'["mount"][n].ring # 0 => Matches("mount", n)'
                         /\ image'["mount"][n].ring = 0 => image'["mount"][n].chunks = <<>>
    BY <1>2, <2>1, <2>3 DEF Matches
  <2>5. pc'["mount"] = "claims"
    BY <1>1, <2>1
  <2> QED BY <2>2, <2>3, <2>4, <2>5 DEF Knows
<1>9. Delete => Knows'
  <2> SUFFICES ASSUME Delete
               PROVE  Knows'
    OBVIOUS
  <2>1. pc["trim"] = "deletes"
    BY DEF Delete
  <2>2. /\ \A q \in Processes \ {"trim"} : pc[q] = "down" /\ pc'[q] = pc[q]
        /\ \/ pc'["trim"] = "down" /\ image'["trim"] = Nothing
           \/ pc'["trim"] = "deletes" /\ image'["trim"] = image["trim"]
        /\ \A q \in Processes \ {"trim"} : image'[q] = image[q]
    BY <1>1, <2>1, DeleteDoes DEF Apart
  <2> QED BY <1>1, <1>2, <2>2 DEF Knows
<1>10. MovedTrunk => Knows'
  <2> SUFFICES ASSUME MovedTrunk
               PROVE  Knows'
    OBVIOUS
  <2>1. /\ pc["mount"] = "runs" /\ pc' = [pc EXCEPT !["mount"] = "renames"]
        /\ image["mount"]["log"].ring # 0 /\ image' = image
    BY DEF MovedTrunk
  <2>2. trunk'["old"] = trunk["log"] /\ rings'["log"] = rings["log"]
    BY MovedTrunkDoes
  <2>3. Matches("mount", "log")
    BY <1>1, <2>1 DEF Knows
  <2>4. \A p \in Processes \ {"mount"} : pc[p] = "down" /\ pc'[p] = "down"
    BY <2>1 DEF Apart
  <2>5. pc'["mount"] = "renames"
    BY <1>1, <2>1
  <2> QED BY <2>1, <2>2, <2>3, <2>4, <2>5 DEF Knows, Matches
<1>11. MovedRest => Knows'
  <2> SUFFICES ASSUME MovedRest
               PROVE  Knows'
    OBVIOUS
  <2>1. /\ pc["mount"] = "renames" /\ pc' = [pc EXCEPT !["mount"] = "runs"] /\ trunk' = trunk
    BY DEF MovedRest
  <2>2. /\ rings'["old"] = rings["log"]
        /\ image'["mount"]["old"] = image["mount"]["log"] /\ image'["mount"]["log"] = NotOpen
        /\ \A q \in Processes \ {"mount"} : image'[q] = image[q]
    BY MovedRestDoes
  <2>3. \A p \in Processes \ {"mount"} : pc[p] = "down" /\ pc'[p] = "down"
    BY <2>1 DEF Apart
  <2>4. pc'["mount"] = "runs"
    BY <1>1, <2>1
  <2>5. Matches("mount", "old")' /\ image'["mount"]["old"].ring # 0
    BY <2>1, <2>2 DEF Knows, Matches
  <2>6. \A n \in Names : n # "old" => image'["mount"][n] = NotOpen
    BY <2>2 DEF Names
  <2> QED BY <1>2, <2>2, <2>3, <2>4, <2>5, <2>6 DEF Knows
<1> QED BY <1>3, <1>4, <1>5, <1>6, <1>7, <1>8, <1>9, <1>10, <1>11, DataKnows, DirSteps

LEMMA KnowsAtFirst ==
    ASSUME DirInit
    PROVE  Knows
BY DEF DirInit, Knows, Processes, Nothing, NotOpen

\* Whatever runs, dies, rotates or renames where nothing starts beside a process without its
\* lock: a writer's image of a log is that log.
THEOREM WritersKnowTheirLogs ==
    ASSUME NoneBeside
    PROVE  DirSpec => []ImagesTrue
<1> DEFINE Inv == DirTypeOK /\ Apart /\ Knows
<1>1. Inv /\ [DirNext]_dirVars => Knows'
  <2>1. Inv /\ DirNext => Knows'
    BY KnowsStep, ApartMeansOne DEF DirTypeOK
  <2>2. Knows /\ UNCHANGED dirVars => Knows'
    BY DEF Knows, Matches, dirVars, diskVars
  <2> QED BY <2>1, <2>2
<1>2. DirTypeOK /\ Apart /\ [DirNext]_dirVars => Apart'
  <2>1. DirTypeOK /\ Apart /\ DirNext => Apart'
    BY ApartStep DEF DirTypeOK
  <2>2. Apart /\ UNCHANGED dirVars => Apart'
    BY DEF Apart, dirVars
  <2> QED BY <2>1, <2>2
<1>3. Knows => ImagesTrue
  BY DEF Knows, Matches, ImagesTrue
<1> QED BY <1>1, <1>2, <1>3, ApartAtFirst, KnowsAtFirst, DirTypeCorrect, PTL DEF DirSpec

------------------------------------------------------------------------------
\* A trunk has the frames of its index, in the midst of a rename at the other name; what was
\* written is retired, or in one of the logs; what a rotation is about to cut from one log is
\* in the other.
NeverHalfway == \A e \in Environments : "halfway" \notin e.events

Paired ==
    /\ pc["mount"] # "renames" =>
          \A n \in Names : /\ trunk[n].frames = rings[n].recs
                           /\ rings[n].ino # 0 => trunk[n].ino # 0
                           /\ rings[n].ino = 0 => rings[n].recs = <<>>
    /\ pc["mount"] = "renames" =>
          /\ trunk["old"].frames = rings["log"].recs /\ trunk["old"].ino # 0
          /\ trunk["log"].frames = <<>> /\ rings["old"].recs = <<>>
    /\ pc["trim"] = "deletes" => rings["log"].recs = <<>>

Kept == 1 .. entries \subseteq retired \cup Range(rings["log"].recs) \cup Range(rings["old"].recs)

Copied ==
    moving # Still =>
        /\ \E p \in {"rotate", "mount"} : pc[p] = "runs" /\ image[p]["log"].ring # 0
        /\ Len(moving.head) \in 0 .. Len(rings["log"].recs)
        /\ moving.head = SubSeq(rings["log"].recs, 1, Len(moving.head))
        /\ Range(moving.head) \subseteq Range(rings["old"].recs)

Accounted == Paired /\ Kept /\ Copied

LEMMA WholeIsRecs ==
    ASSUME FilesOK, Paired, pc["mount"] # "renames", NEW n \in Names
    PROVE  Whole(n) = rings[n].recs
BY WholeIsSeq DEF Paired

\* Where another process is busy, or none runs, nothing is being moved.
LEMMA NobodyMoves ==
    ASSUME OneIsBusy, Copied,
           \/ \E p \in Processes \ {"rotate", "mount"} : Busy(p)
           \/ \E p \in Processes : Busy(p) /\ pc[p] # "runs"
           \/ pc["rotate"] # "runs" /\ pc["mount"] # "runs"
    PROVE  moving = Still
<1>1. SUFFICES ASSUME moving # Still
               PROVE  FALSE
  OBVIOUS
<1>2. PICK m \in {"rotate", "mount"} : pc[m] = "runs"
  BY <1>1 DEF Copied
<1>3. m \in Processes /\ Busy(m)
  BY <1>2 DEF Processes, Busy
<1> QED BY <1>2, <1>3 DEF OneIsBusy

LEMMA DataAccounted ==
    ASSUME DirTypeOK, OneIsBusy, Knows, Accounted, DataStep
    PROVE  Accounted'
<1> USE DEF DirTypeOK
<1>1. pc' = pc
  BY DataKeepsLocks DEF lockVars
<1>2. /\ inodes \in Nat /\ "log" \in Names /\ "old" \in Names /\ "mount" \in Processes
      /\ "trim" \in Processes
  BY DEF LocksOK, Names, Processes
<1>3. ASSUME NEW p \in Processes, pc[p] = "runs"
      PROVE  /\ Busy(p) /\ pc["mount"] # "renames" /\ pc["trim"] # "deletes"
             /\ \A n \in Names : /\ trunk[n].frames = rings[n].recs
                                 /\ rings[n].ino # 0 => trunk[n].ino # 0
                                 /\ rings[n].ino = 0 => rings[n].recs = <<>>
  <2>1. Busy(p)
    BY <1>3 DEF Busy
  <2>2. pc["mount"] # "renames" /\ pc["trim"] # "deletes"
    BY <1>2, <1>3, <2>1, OthersRest
  <2> QED BY <2>1, <2>2 DEF Accounted, Paired
<1>4. ASSUME NEW p \in Processes, CopyHead(p)
      PROVE  Accounted'
  <2>1. pc[p] = "runs" /\ p \in {"rotate", "mount"} /\ image[p]["log"].ring # 0
        /\ UNCHANGED <<entries, retired>>
    BY <1>4 DEF CopyHead, Rotator
  <2>2. Whole("old") = rings["old"].recs
    BY <1>2, <1>3, <2>1, WholeIsRecs DEF Accounted
  <2>3. rings["log"].recs = image[p]["log"].chunks
    BY <1>2, <2>1 DEF Knows, Matches
  <2>4. /\ \E k \in 1 .. Len(image[p]["log"].chunks) :
              /\ moving'.head = SubSeq(image[p]["log"].chunks, 1, k)
              /\ rings'["old"].recs = Whole("old") \o SubSeq(image[p]["log"].chunks, 1, k)
        /\ rings'["old"].ino # 0 /\ trunk'["old"].ino # 0
        /\ trunk'["old"].frames = rings'["old"].recs
        /\ rings'["log"] = rings["log"] /\ trunk'["log"] = trunk["log"]
        /\ image'[p]["log"] = image[p]["log"]
    BY <1>2, <1>4, CopyDoes DEF Names
  <2>5. PICK k \in 1 .. Len(rings["log"].recs) :
              /\ moving'.head = SubSeq(rings["log"].recs, 1, k)
              /\ rings'["old"].recs = rings["old"].recs \o SubSeq(rings["log"].recs, 1, k)
    BY <2>2, <2>3, <2>4
  <2>6. rings["log"].recs \in Seq(Nat) /\ rings["old"].recs \in Seq(Nat)
        /\ Len(rings["log"].recs) \in Nat
    BY <1>2, Fields, LenProperties
  <2>7. k \in 0 .. Len(rings["log"].recs)
    BY <2>6
  <2>8. moving'.head \in Seq(Nat) /\ Len(moving'.head) = k
    <3>1. /\ SubSeq(rings["log"].recs, 1, k) \in Seq(Nat)
          /\ Len(SubSeq(rings["log"].recs, 1, k)) = k
      BY <2>6, <2>7, PrefixIsSeq
    <3>2. QED
      BY <2>5, <3>1
  <2>9. Range(rings'["old"].recs) = Range(rings["old"].recs) \cup Range(moving'.head)
    <3>1. SubSeq(rings["log"].recs, 1, k) \in Seq(Nat)
      BY <2>5, <2>8
    <3>2. Range(rings["old"].recs \o SubSeq(rings["log"].recs, 1, k))
             = Range(rings["old"].recs) \cup Range(SubSeq(rings["log"].recs, 1, k))
      BY ZenonT(60), <2>6, <3>1, ConcatRange
    <3> QED BY <2>5, <3>2
  <2>10. Copied'
    BY <1>1, <2>1, <2>4, <2>5, <2>7, <2>8, <2>9 DEF Copied
  <2>11. Kept'
    BY <2>1, <2>4, <2>9 DEF Accounted, Kept
  <2>12. Paired'
    BY <1>1, <1>3, <2>1, <2>4 DEF Paired, Names
  <2> QED BY <2>10, <2>11, <2>12 DEF Accounted
<1>5. ASSUME NEW p \in Processes, CutRotated(p)
      PROVE  Accounted'
  <2>1. /\ pc[p] = "runs" /\ moving # Still /\ moving' = Still /\ UNCHANGED <<entries, retired>>
        /\ CutHead(p, "log", Len(moving.head))
    BY <1>5 DEF CutRotated
  <2>2. image[p]["log"].ring # 0
    <3>1. PICK m \in {"rotate", "mount"} : pc[m] = "runs" /\ image[m]["log"].ring # 0
      BY <2>1 DEF Accounted, Copied
    <3>2. m \in Processes /\ Busy(m) /\ Busy(p)
      BY <2>1, <3>1 DEF Processes, Busy
    <3> QED BY <3>1, <3>2 DEF OneIsBusy
  <2>3. rings["log"].recs = image[p]["log"].chunks
    BY <1>2, <2>1, <2>2 DEF Knows, Matches
  <2> DEFINE k == Len(moving.head)
  <2>4. /\ k \in 0 .. Len(rings["log"].recs) /\ moving.head = SubSeq(rings["log"].recs, 1, k)
        /\ Range(moving.head) \subseteq Range(rings["old"].recs)
    BY <2>1 DEF Accounted, Copied
  <2>5. k \in Nat /\ rings["log"].recs \in Seq(Nat)
    BY <1>2, Fields, LenProperties
  <2> HIDE DEF k
  <2>6. /\ rings'["log"].ino = inodes + 1 /\ trunk'["log"].ino = inodes + 1
        /\ rings'["log"].recs = Rest(image[p]["log"].chunks, k)
        /\ trunk'["log"].frames = Rest(image[p]["log"].chunks, k)
        /\ rings'["old"] = rings["old"] /\ trunk'["old"] = trunk["old"]
    BY <1>2, <2>1, <2>5, CutDoes DEF Names, k
  <2>7. Range(rings["log"].recs) \subseteq
            Range(rings'["log"].recs) \cup Range(rings'["old"].recs)
    <3>1. Range(rings["log"].recs) \subseteq
             Range(SubSeq(rings["log"].recs, 1, k)) \cup Range(Rest(rings["log"].recs, k))
      BY <2>4, <2>5, HeadAndRest
    <3>2. Range(SubSeq(rings["log"].recs, 1, k)) \subseteq Range(rings["old"].recs)
      BY <2>4
    <3> QED BY <2>3, <2>6, <3>1, <3>2
  <2>8. Kept'
    BY <2>1, <2>6, <2>7 DEF Accounted, Kept
  <2>9. Paired'
    BY <1>1, <1>2, <1>3, <2>1, <2>6 DEF Paired, Names
  <2> QED BY <2>1, <2>8, <2>9 DEF Accounted, Copied
<1>6. ASSUME NEW p \in Processes, NEW n \in Names, Retain(p, n)
      PROVE  Accounted'
  <2>1. pc[p] = "runs" /\ p # "rotate" /\ (p = "mount" => moving = Still)
        /\ UNCHANGED <<entries, moving>>
    BY <1>6 DEF Retain, Idle
  <2>2. moving = Still
    BY <1>3, <2>1, NobodyMoves DEF Accounted
  <2>3. PICK k \in 1 .. Len(image[p][n].chunks) :
           CutHead(p, n, k) /\ retired' = retired \cup Range(SubSeq(image[p][n].chunks, 1, k))
    BY <1>6 DEF Retain
  <2>4. Len(image[p][n].chunks) \in Nat /\ image[p][n].chunks \in Seq(Nat)
    BY Fields, LenProperties
  <2>5. k \in Nat /\ k \in 0 .. Len(image[p][n].chunks) /\ Len(image[p][n].chunks) # 0
    BY <2>4
  <2>6. image[p][n].chunks # <<>>
    BY <2>4, <2>5, SeqElements
  <2>7. rings[n].recs = image[p][n].chunks
    BY <2>1, <2>6 DEF Knows, Matches
  <2>8. /\ rings'[n].ino = inodes + 1 /\ trunk'[n].ino = inodes + 1
        /\ rings'[n].recs = Rest(image[p][n].chunks, k)
        /\ trunk'[n].frames = Rest(image[p][n].chunks, k)
        /\ \A m \in Names \ {n} : rings'[m] = rings[m] /\ trunk'[m] = trunk[m]
    BY <1>2, <2>3, <2>5, CutDoes
  <2>9. Range(rings[n].recs) \subseteq retired' \cup Range(rings'[n].recs)
    BY <2>3, <2>4, <2>5, <2>7, <2>8, HeadAndRest
  <2>10. retired \subseteq retired'
    BY <2>3
  <2>11. Kept'
    BY <2>1, <2>8, <2>9, <2>10 DEF Accounted, Kept, Names
  <2>12. Paired'
    BY <1>1, <1>2, <1>3, <2>1, <2>8 DEF Paired, Names
  <2> QED BY <2>1, <2>2, <2>11, <2>12 DEF Accounted, Copied
<1>7. ASSUME NEW p \in Processes, NEW n \in Names, Write(p, n)
      PROVE  Accounted'
  <2>1. /\ pc[p] = "runs" /\ p # "rotate" /\ (p = "mount" => moving = Still)
        /\ image[p][n].ring # 0 /\ UNCHANGED <<retired, moving>>
    BY <1>7 DEF Write, Idle
  <2>2. moving = Still
    BY <1>3, <2>1, NobodyMoves DEF Accounted
  <2>3. Matches(p, n) /\ trunk[n].frames = rings[n].recs
    BY <1>3, <2>1 DEF Knows
  <2>4. /\ rings'[n].ino = rings[n].ino /\ trunk'[n].ino = trunk[n].ino
        /\ entries' = entries + 1
        /\ rings'[n].recs = Append(rings[n].recs, entries')
        /\ trunk'[n].frames = Append(trunk[n].frames, entries')
        /\ \A m \in Names \ {n} : rings'[m] = rings[m] /\ trunk'[m] = trunk[m]
    <3>1. /\ rings[n].ino = image[p][n].ring /\ rings[n].recs = image[p][n].chunks
          /\ trunk[n].ino = image[p][n].trunk /\ trunk[n].frames = image[p][n].chunks
      BY <2>3 DEF Matches
    <3>2. Write(p, n)
      BY <1>7
    <3> QED BY <3>1, <3>2, WriteDoes
  <2>5. entries' \in Nat /\ rings[n].recs \in Seq(Nat) /\ rings[n].ino # 0
    BY <2>1, <2>3, <2>4, Fields DEF KnownOK, Matches
  <2>6. Range(rings'[n].recs) = Range(rings[n].recs) \cup {entries'}
    BY <2>4, <2>5, AppendRange
  <2>7. 1 .. entries' = (1 .. entries) \cup {entries'}
    BY <2>4 DEF KnownOK
  <2>8. Kept'
    BY <2>1, <2>4, <2>6, <2>7 DEF Accounted, Kept, Names
  <2>9. Paired'
    BY ZenonT(60), <1>1, <1>3, <2>1, <2>4, <2>5 DEF Paired, Names
  <2> QED BY <2>1, <2>2, <2>8, <2>9 DEF Accounted, Copied
<1>8. ASSUME NEW p \in Processes, NEW n \in Names, Extend(p, n)
      PROVE  Accounted'
  <2>1. UNCHANGED <<rings, trunk, image, moving, entries, retired>>
    BY <1>8 DEF Extend
  <2> QED BY <1>1, <2>1 DEF Accounted, Paired, Kept, Copied
<1> QED BY <1>4, <1>5, <1>6, <1>7, <1>8 DEF DataStep

LEMMA AccountedStep ==
    ASSUME NoneBeside, NeverHalfway, DirTypeOK, Apart, Knows, Accounted, DirNext
    PROVE  Accounted'
<1> USE DEF DirTypeOK, StagesOK
<1>1. /\ inodes \in Nat /\ "log" \in Names /\ "old" \in Names /\ "log" # "old"
      /\ Names = {"log", "old"}
      /\ "mount" \in Processes /\ "trim" \in Processes /\ "rotate" \in Processes
      /\ Range(<<>>) = {}
  BY DEF LocksOK, Names, Processes, Range
<1>2. OneIsBusy
  BY ApartMeansOne
<1>3. ASSUME NEW p \in Processes, Enter(p) \/ Grab(p)
      PROVE  Accounted'
  <2>1. /\ pc[p] \in {"down", "locks"}
        /\ \E s \in {"locks", "opens"} : pc' = [pc EXCEPT ![p] = s]
        /\ UNCHANGED <<rings, trunk, image, moving, entries, retired>>
    BY <1>3 DEF Enter, Grab, diskVars
  <2>2. /\ pc'["mount"] = "renames" => pc["mount"] = "renames"
        /\ pc["mount"] = "renames" => pc'["mount"] = "renames"
        /\ pc'["trim"] = "deletes" => pc["trim"] = "deletes"
        /\ \A m \in {"rotate", "mount"} : pc[m] = "runs" => pc'[m] = "runs"
    BY <1>1, <2>1
  <2> QED BY <2>1, <2>2 DEF Accounted, Paired, Kept, Copied
<1>4. ASSUME NEW p \in Processes, Leaves(p)
      PROVE  Accounted'
  <2>1. /\ pc' = [pc EXCEPT ![p] = "down"] /\ UNCHANGED <<rings, trunk, entries, retired>>
        /\ moving' = (IF p \in {"rotate", "mount"} THEN Still ELSE moving)
        /\ \A q \in Processes \ {p} : image'[q] = image[q]
    BY <1>4, GoneDoes DEF Leaves, Gone, diskVars
  <2>2. pc[p] # "renames"
    BY <1>4 DEF Leaves, NeverHalfway, Event, LocksOK
  <2>3. \A q \in Processes : pc'[q] = IF q = p THEN "down" ELSE pc[q]
    BY <2>1
  <2>4. Paired'
    BY <1>1, <2>1, <2>2, <2>3 DEF Accounted, Paired
  <2>5. Copied'
    BY <1>1, <2>1, <2>3 DEF Accounted, Copied
  <2> QED BY <2>1, <2>4, <2>5 DEF Accounted, Kept
<1>5. ASSUME NEW p \in Processes, Opens(p)
      PROVE  Accounted'
  <2>1. pc[p] = "opens" /\ pc' = [pc EXCEPT ![p] = "runs"]
        /\ UNCHANGED <<moving, entries, retired>>
    BY <1>5 DEF Opens
  <2>2. \A q \in Processes \ {p} : pc[q] \notin {"opens", "runs", "claims", "renames", "deletes"}
    BY <1>2, <2>1, OthersRest DEF Busy
  <2>3. pc["mount"] # "renames" /\ pc'["mount"] # "renames" /\ pc'["trim"] # "deletes"
    BY <1>1, <2>1, <2>2
  <2>4. moving = Still
    BY <1>2, <2>1, NobodyMoves DEF Accounted, Busy
  <2>5. Whole("log") = rings["log"].recs
    BY <1>1, <2>3, WholeIsRecs DEF Accounted
  <2>6. /\ rings'["log"].ino # 0 /\ trunk'["log"].ino # 0
        /\ rings'["log"].recs = rings["log"].recs /\ trunk'["log"].frames = trunk["log"].frames
        /\ rings'["old"] = rings["old"] /\ trunk'["old"] = trunk["old"]
    BY <1>1, <1>5, <2>5, OpensDoes
  <2>7. Paired'
    BY <1>1, <2>3, <2>6 DEF Accounted, Paired
  <2> QED BY <2>1, <2>4, <2>6, <2>7 DEF Accounted, Kept, Copied
<1>6. Takes => Accounted'
  <2> SUFFICES ASSUME Takes
               PROVE  Accounted'
    OBVIOUS
  <2>1. /\ pc["mount"] = "claims" /\ pc' = [pc EXCEPT !["mount"] = "runs"]
        /\ UNCHANGED <<rings, trunk, image, moving, entries, retired>>
    BY DEF Takes, diskVars
  <2>2. pc'["mount"] = "runs" /\ pc'["trim"] = pc["trim"] /\ pc'["rotate"] = pc["rotate"]
    BY <1>1, <2>1
  <2> QED BY <2>1, <2>2 DEF Accounted, Paired, Kept, Copied
<1>7. Trimmed => Accounted'
  <2> SUFFICES ASSUME Trimmed
               PROVE  Accounted'
    OBVIOUS
  <2>1. /\ pc["trim"] = "runs" /\ pc' = [pc EXCEPT !["trim"] = "deletes"]
        /\ image["trim"]["log"].chunks = <<>>
        /\ UNCHANGED <<rings, trunk, image, moving, entries, retired>>
    BY DEF Trimmed, diskVars
  <2>2. rings["log"].recs = <<>>
    BY <1>1, <2>1 DEF Knows, Matches
  <2>3. pc'["mount"] = pc["mount"] /\ pc'["rotate"] = pc["rotate"]
    BY <1>1, <2>1
  <2> QED BY <2>1, <2>2, <2>3 DEF Accounted, Paired, Kept, Copied
<1>8. Enumerate => Accounted'
  <2> SUFFICES ASSUME Enumerate
               PROVE  Accounted'
    OBVIOUS
  <2>1. /\ pc["mount"] = "down" /\ dirLock = {} /\ pc["trim"] # "deletes"
        /\ pc' = [pc EXCEPT !["mount"] = "claims"]
        /\ UNCHANGED <<trunk, moving, entries, retired>>
    BY DEF Enumerate, NoneBeside, Event, LocksOK
  <2>2. \A p \in Processes \ {"mount"} : pc[p] = "down" /\ pc'[p] = "down"
    BY <2>1 DEF Apart
  <2>3. moving = Still
    BY <1>1, <1>2, <2>1, <2>2, NobodyMoves DEF Accounted
  <2>4. \A n \in Names : rings'[n].ino = rings[n].ino /\ rings'[n].recs = rings[n].recs
    BY <2>1, EnumerateDoes, WholeIsRecs DEF Accounted
  <2>5. pc'["mount"] # "renames" /\ pc'["trim"] # "deletes"
    BY <1>1, <2>1, <2>2
  <2>6. Paired'
    BY <2>1, <2>4, <2>5 DEF Accounted, Paired
  <2> QED BY <1>1, <2>1, <2>3, <2>4, <2>6 DEF Accounted, Kept, Copied
<1>9. Delete => Accounted'
  <2> SUFFICES ASSUME Delete
               PROVE  Accounted'
    OBVIOUS
  <2>1. pc["trim"] = "deletes" /\ UNCHANGED <<moving, entries, retired>>
    BY DEF Delete
  <2>2. \A q \in Processes \ {"trim"} : pc[q] = "down"
    BY <2>1 DEF Apart
  <2>3. moving = Still
    BY <1>1, <1>2, <2>2, NobodyMoves DEF Accounted
  <2>4. rings["log"].recs = <<>> /\ pc["mount"] = "down"
    BY <1>1, <2>1, <2>2 DEF Accounted, Paired
  <2>5. trunk["log"].frames = <<>>
    BY <1>1, <2>4 DEF Accounted, Paired
  <2>6. /\ rings'["log"].ino = 0 /\ rings'["old"] = rings["old"] /\ trunk'["old"] = trunk["old"]
        /\ rings["log"].ino # 0 => rings'["log"].recs = <<>> /\ trunk' = trunk /\ pc' = pc
        /\ rings["log"].ino = 0 => /\ rings' = rings /\ trunk'["log"].frames = <<>>
                                   /\ pc' = [pc EXCEPT !["trim"] = "down"]
    BY <1>1, DeleteDoes
  <2>7. rings'["log"].recs = <<>> /\ trunk'["log"].frames = <<>> /\ pc'["mount"] = "down"
    BY <1>1, <2>4, <2>5, <2>6
  <2>8. Paired'
    BY <1>1, <2>4, <2>6, <2>7 DEF Accounted, Paired
  <2>9. Kept'
    BY <2>1, <2>4, <2>6, <2>7 DEF Accounted, Kept
  <2> QED BY <2>1, <2>3, <2>8, <2>9 DEF Accounted, Copied
<1>10. MovedTrunk => Accounted'
  <2> SUFFICES ASSUME MovedTrunk
               PROVE  Accounted'
    OBVIOUS
  <2>1. /\ pc["mount"] = "runs" /\ pc' = [pc EXCEPT !["mount"] = "renames"] /\ moving = Still
        /\ image["mount"]["log"].ring # 0 /\ retired' = retired \cup Range(Whole("old"))
        /\ UNCHANGED <<moving, entries>>
    BY DEF MovedTrunk
  <2>2. /\ trunk'["old"] = trunk["log"] /\ trunk'["log"].frames = <<>>
        /\ rings'["old"].recs = <<>> /\ rings'["log"] = rings["log"]
    BY MovedTrunkDoes
  <2>3. rings["log"].ino # 0
    BY <1>1, <2>1 DEF Knows, Matches
  <2>4. Whole("old") = rings["old"].recs
    BY <1>1, <2>1, WholeIsRecs DEF Accounted
  <2>5. pc'["mount"] = "renames" /\ pc'["trim"] # "deletes"
    BY <1>1, <2>1 DEF Apart
  <2>6. Paired'
    BY <1>1, <2>1, <2>2, <2>3, <2>5 DEF Accounted, Paired
  <2>7. Kept'
    BY <1>1, <2>1, <2>2, <2>4 DEF Accounted, Kept
  <2> QED BY <2>1, <2>6, <2>7 DEF Accounted, Copied
<1>11. MovedRest => Accounted'
  <2> SUFFICES ASSUME MovedRest
               PROVE  Accounted'
    OBVIOUS
  <2>1. /\ pc["mount"] = "renames" /\ pc' = [pc EXCEPT !["mount"] = "runs"]
        /\ UNCHANGED <<trunk, moving, entries, retired>>
    BY DEF MovedRest
  <2>2. /\ rings'["old"] = rings["log"] /\ rings'["log"].ino = 0 /\ rings'["log"].recs = <<>>
    BY MovedRestDoes
  <2>3. moving = Still
    BY <1>1, <1>2, <2>1, NobodyMoves DEF Accounted, Busy
  <2>4. pc'["mount"] = "runs" /\ pc'["trim"] # "deletes"
    BY <1>1, <2>1 DEF Apart
  <2>5. rings["old"].recs = <<>> /\ trunk["old"].frames = rings["log"].recs
        /\ trunk["old"].ino # 0 /\ trunk["log"].frames = <<>> /\ rings["log"].ino # 0
    BY <2>1 DEF Accounted, Paired, Knows
  <2>6. Paired'
    BY <1>1, <2>1, <2>2, <2>4, <2>5 DEF Paired
  <2>7. Kept'
    BY <1>1, <2>1, <2>2, <2>5 DEF Accounted, Kept
  <2> QED BY <2>1, <2>3, <2>6, <2>7 DEF Accounted, Copied
<1> QED BY <1>2, <1>3, <1>4, <1>5, <1>6, <1>7, <1>8, <1>9, <1>10, <1>11, DataAccounted, DirSteps

LEMMA AccountedAtFirst ==
    ASSUME DirInit
    PROVE  Accounted
<1>1. moving = Still /\ entries = 0 /\ \A n \in Names : trunk[n].frames = <<>> /\ rings[n].recs = <<>>
  BY DEF DirInit
<1>2. \A n \in Names : trunk[n].ino = rings[n].ino
  BY DEF DirInit
<1>3. pc["mount"] = "down" /\ pc["trim"] = "down" /\ "log" \in Names /\ "old" \in Names
  BY DEF DirInit, Processes, Names
<1> QED BY <1>1, <1>2, <1>3 DEF Accounted, Paired, Kept, Copied

\* The inductive invariant of a directory.
DirInv == DirTypeOK /\ Apart /\ Knows /\ Accounted

LEMMA DirInvAtFirst ==
    ASSUME DirInit
    PROVE  DirInv
BY DirTypeInit, ApartAtFirst, KnowsAtFirst, AccountedAtFirst DEF DirInv

LEMMA DirInvStep ==
    ASSUME NoneBeside, NeverHalfway, DirInv, [DirNext]_dirVars
    PROVE  DirInv'
<1>1. CASE DirNext
  BY <1>1, LogFilesStep, LocksStep, ApartStep, ApartMeansOne, KnowsStep, AccountedStep
     DEF DirInv, DirTypeOK
<1>2. CASE UNCHANGED dirVars
  <2>1. DirTypeOK'
    BY <1>2 DEF DirInv, DirTypeOK, dirVars, diskVars, LocksOK, StagesOK, FilesOK, KnownOK
  <2>2. Apart' /\ Knows'
    BY <1>2 DEF DirInv, Apart, Knows, Matches, dirVars, diskVars
  <2>3. Accounted'
    BY <1>2 DEF DirInv, Accounted, Paired, Kept, Copied, dirVars, diskVars
  <2> QED BY <2>1, <2>2, <2>3 DEF DirInv
<1> QED BY <1>1, <1>2

\* What is acknowledged stays in the directory, through handovers, trims that delete,
\* rotations that die midway and renames, until a policy lets it go: unless a mount dies
\* between two renames, or a process starts beside one without its lock.
THEOREM NothingIsLost ==
    ASSUME NoneBeside, NeverHalfway
    PROVE  DirSpec => []NothingVanishes
<1>1. DirInv => NothingVanishes
  <2> SUFFICES ASSUME DirInv, pc["mount"] # "renames"
               PROVE  1 .. entries \subseteq
                          retired \cup Range(Whole("log")) \cup Range(Whole("old"))
    BY DEF NothingVanishes
  <2>1. Whole("log") = rings["log"].recs /\ Whole("old") = rings["old"].recs
    BY WholeIsRecs DEF DirInv, DirTypeOK, Accounted, Names
  <2> QED BY <2>1 DEF DirInv, Accounted, Kept
<1> QED BY <1>1, DirInvAtFirst, DirInvStep, PTL DEF DirSpec

------------------------------------------------------------------------------
\* Filters are those of the first chunks of their log.
BeginningOf(g, s) == Len(g) <= Len(s) /\ \A i \in 1 .. Len(g) : g[i] = s[i]

LEMMA BeginningOfAppended ==
    ASSUME NEW g \in Seq(Nat), NEW s \in Seq(Nat), NEW e \in Nat, BeginningOf(g, s)
    PROVE  BeginningOf(g, Append(s, e))
<1>1. Len(g) \in Nat /\ Len(s) \in Nat
  BY LenProperties
<1>2. /\ Len(Append(s, e)) = Len(s) + 1
      /\ \A i \in 1 .. Len(s) : Append(s, e)[i] = s[i]
  BY AppendIsSeq
<1> QED BY <1>1, <1>2 DEF BeginningOf

LEMMA BeginningOfLonger ==
    ASSUME NEW g \in Seq(Nat), NEW s \in Seq(Nat), NEW t \in Seq(Nat), BeginningOf(g, s)
    PROVE  BeginningOf(g, s \o t)
<1>1. Len(g) \in Nat /\ Len(s) \in Nat /\ Len(t) \in Nat
  BY LenProperties
<1>2. /\ Len(s \o t) = Len(s) + Len(t)
      /\ \A i \in 1 .. Len(s) + Len(t) : (s \o t)[i] = IF i <= Len(s) THEN s[i] ELSE t[i - Len(s)]
  BY ConcatProperties
<1>3. \A i \in 1 .. Len(s) : i \in 1 .. Len(s) + Len(t) /\ i <= Len(s)
  BY <1>1
<1>4. \A i \in 1 .. Len(s) : (s \o t)[i] = s[i]
  BY <1>2, <1>3
<1> QED BY <1>1, <1>2, <1>4 DEF BeginningOf

LEMMA BeginningOfRest ==
    ASSUME NEW g \in Seq(Nat), NEW s \in Seq(Nat), NEW k \in Nat, BeginningOf(g, s)
    PROVE  BeginningOf(Rest(g, k), Rest(s, k))
<1>1. /\ Len(g) \in Nat /\ Len(s) \in Nat
      /\ Len(Rest(g, k)) = IF k < Len(g) THEN Len(g) - k ELSE 0
      /\ Len(Rest(s, k)) = IF k < Len(s) THEN Len(s) - k ELSE 0
      /\ \A i \in 1 .. Len(g) - k : Rest(g, k)[i] = g[k + i]
      /\ \A i \in 1 .. Len(s) - k : Rest(s, k)[i] = s[k + i]
  BY RestIsSeq
<1>2. Len(g) <= Len(s) /\ \A i \in 1 .. Len(g) : g[i] = s[i]
  BY DEF BeginningOf
<1>3. \A i \in 1 .. Len(g) - k : k + i \in 1 .. Len(g) /\ i \in 1 .. Len(s) - k
  BY <1>1, <1>2
<1>4. \A i \in 1 .. Len(g) - k : Rest(g, k)[i] = Rest(s, k)[i]
  BY <1>1, <1>2, <1>3
<1>5. CASE k < Len(g)
  BY <1>1, <1>2, <1>4, <1>5 DEF BeginningOf
<1>6. CASE ~(k < Len(g))
  BY <1>1, <1>6 DEF BeginningOf
<1> QED BY <1>5, <1>6

LEMMA BeginningOfExtended ==
    ASSUME NEW g \in Seq(Nat), NEW s \in Seq(Nat), BeginningOf(g, s)
    PROVE  BeginningOf(g \o SubSeq(s, Len(g) + 1, Len(s)), s)
<1> DEFINE t == SubSeq(s, Len(g) + 1, Len(s))
<1>1. Len(g) \in Nat /\ Len(s) \in Nat /\ Len(g) + 1 \in Nat \ {0}
  BY LenProperties
<1>2. /\ t \in Seq(Nat)
      /\ Len(t) = IF Len(g) + 1 <= Len(s) THEN Len(s) - (Len(g) + 1) + 1 ELSE 0
      /\ \A i \in 1 .. Len(s) - (Len(g) + 1) + 1 : t[i] = s[Len(g) + 1 + i - 1]
  BY <1>1, SuffixIsSeq
<1> HIDE DEF t
<1>3. Len(g) <= Len(s) /\ \A i \in 1 .. Len(g) : g[i] = s[i]
  BY DEF BeginningOf
<1>4. Len(t) = Len(s) - Len(g)
  BY <1>1, <1>2, <1>3
<1>5. /\ Len(g \o t) = Len(g) + Len(t)
      /\ \A i \in 1 .. Len(g) + Len(t) : (g \o t)[i] = IF i <= Len(g) THEN g[i] ELSE t[i - Len(g)]
  BY <1>2, ConcatProperties
<1>6. ASSUME NEW i \in 1 .. Len(s)
      PROVE  (g \o t)[i] = s[i]
  <2>1. i \in 1 .. Len(g) + Len(t)
    BY <1>1, <1>4
  <2>2. CASE i <= Len(g)
    BY <1>1, <1>3, <1>5, <2>1, <2>2
  <2>3. CASE ~(i <= Len(g))
    <3>1. i - Len(g) \in 1 .. Len(s) - (Len(g) + 1) + 1 /\ Len(g) + 1 + (i - Len(g)) - 1 = i
      BY <1>1, <2>3
    <3>2. t[i - Len(g)] = s[i]
      BY <1>2, <3>1
    <3> QED BY <1>5, <2>1, <2>3, <3>2
  <2> QED BY <2>2, <2>3
<1>7. Len(g \o t) = Len(s)
  BY <1>1, <1>4, <1>5
<1> QED BY <1>1, <1>6, <1>7 DEF BeginningOf, t

------------------------------------------------------------------------------
\* A mount that renames finds no manifest: what a log without one leaves of the one it
\* replaces is not what this is about (Store::rename moves the sides there are).
RenamesBare == \A e \in Environments : "renames" \in e.events => e.declared = {} /\ "rotate" \notin e.runs

Sides == \A n \in Names : /\ rings[n].ino # 0 => bark[n] \in {0, rings[n].id}
                          /\ BeginningOf(grain[n], rings[n].recs)

Bare ==
    /\ Event("renames") => moving = Still /\ \A n \in Names : bark[n] = 0 /\ grain[n] = <<>>
    /\ pc["mount"] = "renames" => Event("renames")

LEMMA BareStep ==
    ASSUME RenamesBare, DirTypeOK, Bare, DirNext
    PROVE  Bare'
<1> USE DEF DirTypeOK
<1>1. env' = env /\ env \in Environments
  BY LocksStep, DirSteps, DataKeepsLocks
     DEF LocksOK, lockVars, Enter, Grab, Leaves, Gone, Opens, Enumerate, Takes, Trimmed, Delete,
         MovedTrunk, MovedRest
<1> "mount" \in Processes /\ "trim" \in Processes
  BY DEF Processes
<1>a. pc'["mount"] = "renames" => pc["mount"] = "renames" \/ Event("renames")
  <2>1. ASSUME NEW p \in Processes, Enter(p) \/ Grab(p) \/ Leaves(p) \/ Opens(p)
        PROVE  pc'["mount"] # "renames" \/ pc["mount"] = "renames"
    BY <2>1 DEF Enter, Grab, Leaves, Gone, Opens, StagesOK
  <2>2. DataStep => pc' = pc
    BY DataKeepsLocks DEF lockVars
  <2>3. Enumerate \/ Takes \/ Trimmed \/ MovedRest => pc'["mount"] # "renames" \/ pc["mount"] = "renames"
    BY DEF Enumerate, Takes, Trimmed, MovedRest, StagesOK
  <2>4. Delete => pc' \in {pc, [pc EXCEPT !["trim"] = "down"]}
    BY DEF Delete
  <2>5. MovedTrunk => Event("renames")
    BY DEF MovedTrunk
  <2> QED BY <2>1, <2>2, <2>3, <2>4, <2>5, DirSteps DEF StagesOK
<1>2. SUFFICES ASSUME Event("renames")
               PROVE  moving' = Still /\ \A n \in Names : bark'[n] = 0 /\ grain'[n] = <<>>
  BY <1>1, <1>a DEF Bare, Event
<1>3. /\ moving = Still /\ \A n \in Names : bark[n] = 0 /\ grain[n] = <<>>
      /\ "rotate" \notin env.runs
  BY <1>1, <1>2 DEF Bare, RenamesBare, Event
<1>4. ASSUME NEW p \in Processes, NEW n \in Names, Retain(p, n)
      PROVE  moving' = Still /\ \A m \in Names : bark'[m] = 0 /\ grain'[m] = <<>>
  <2>1. PICK k \in 1 .. Len(image[p][n].chunks) : CutHead(p, n, k)
    BY <1>4 DEF Retain
  <2>2. UNCHANGED <<bark, moving>>
    BY <1>4 DEF Retain
  <2>3. k \in Nat /\ inodes \in Nat
    BY Fields, LenProperties DEF LocksOK
  <2>4. grain'[n] = Rest(grain[n], k) /\ \A m \in Names \ {n} : grain'[m] = grain[m]
    BY <2>1, <2>3, CutDoes
  <2>5. Rest(<<>>, k) \in Seq(Nat) /\ Len(Rest(<<>>, k)) = 0
    <3>1. <<>> \in Seq(Nat) /\ Len(<<>>) = 0 /\ ~(k < 0)
      BY <2>3, EmptySeq
    <3> QED BY <2>3, <3>1, RestIsSeq
  <2>6. Rest(<<>>, k) = <<>>
    BY <2>5, SeqElements
  <2> QED BY <1>3, <2>2, <2>4, <2>6
<1>5. DataStep => moving' = Still /\ \A m \in Names : bark'[m] = 0 /\ grain'[m] = <<>>
  <2>1. \A p \in Processes : ~CopyHead(p) /\ ~CutRotated(p)
    BY <1>3 DEF CopyHead, CutRotated
  <2>2. \A p \in Processes, n \in Names : ~Extend(p, n)
    BY <1>3 DEF Extend
  <2>3. \A p \in Processes, n \in Names : Write(p, n) => UNCHANGED <<bark, grain, moving>>
    BY DEF Write
  <2> QED BY <1>3, <1>4, <2>1, <2>2, <2>3 DEF DataStep
<1>6. Delete => moving' = Still /\ \A m \in Names : bark'[m] = 0 /\ grain'[m] = <<>>
  <2>1. Delete => moving' = moving
    BY DEF Delete
  <2>2. Delete => \A m \in Names : bark'[m] \in {0, bark[m]} /\ grain'[m] \in {<<>>, grain[m]}
    BY DeleteDoes
  <2> QED BY <1>3, <2>1, <2>2
<1>7. MovedRest => moving' = Still /\ \A m \in Names : bark'[m] = 0 /\ grain'[m] = <<>>
  <2>1. "log" \in Names
    BY DEF Names
  <2> QED BY <1>3, <2>1 DEF MovedRest, SidesMoved, MovedIfThere
<1>8. ASSUME NEW p \in Processes, Enter(p) \/ Grab(p) \/ Leaves(p) \/ Opens(p)
      PROVE  moving' = Still /\ \A m \in Names : bark'[m] = 0 /\ grain'[m] = <<>>
  BY <1>3, <1>8 DEF Enter, Grab, Leaves, Gone, Opens, diskVars
<1>9. Enumerate \/ Takes \/ Trimmed \/ MovedTrunk
         => moving' = Still /\ \A m \in Names : bark'[m] = 0 /\ grain'[m] = <<>>
  BY <1>3 DEF Enumerate, Takes, Trimmed, MovedTrunk, diskVars
<1> QED BY <1>5, <1>6, <1>7, <1>8, <1>9, DirSteps

LEMMA SidesOfALogAtATime ==
    ASSUME Sides, NEW n \in Names,
           \A m \in Names \ {n} : rings'[m] = rings[m] /\ bark'[m] = bark[m] /\ grain'[m] = grain[m],
           rings'[n].ino # 0 => bark'[n] \in {0, rings'[n].id},
           BeginningOf(grain'[n], rings'[n].recs)
    PROVE  Sides'
<1>1. \A m \in Names : /\ rings'[m].ino # 0 => bark'[m] \in {0, rings'[m].id}
                       /\ BeginningOf(grain'[m], rings'[m].recs)
  BY DEF Sides
<1> QED BY <1>1 DEF Sides, BeginningOf

LEMMA SidesStep ==
    ASSUME NoneBeside, NeverHalfway, RenamesBare, DirInv, Sides, Bare, DirNext
    PROVE  Sides'
<1> USE DEF DirInv, DirTypeOK, StagesOK
<1>1. /\ inodes \in Nat /\ "log" \in Names /\ "old" \in Names /\ "log" # "old"
      /\ Names = {"log", "old"} /\ "mount" \in Processes /\ "trim" \in Processes
  BY DEF LocksOK, Names, Processes
<1>2. /\ \A n \in Names : /\ rings[n].recs \in Seq(Nat) /\ grain[n] \in Seq(Nat)
                          /\ BeginningOf(grain[n], rings[n].recs)
                          /\ rings[n].ino # 0 => bark[n] \in {0, rings[n].id}
                          /\ BeginningOf(<<>>, rings[n].recs)
      /\ BeginningOf(<<>>, <<>>)
  <2>1. \A n \in Names : /\ rings[n].recs \in Seq(Nat) /\ grain[n] \in Seq(Nat)
                         /\ BeginningOf(grain[n], rings[n].recs)
                         /\ rings[n].ino # 0 => bark[n] \in {0, rings[n].id}
    BY Fields DEF Sides
  <2>2. \A s \in Seq(Nat) : BeginningOf(<<>>, s)
    BY EmptySeq, LenProperties DEF BeginningOf
  <2> QED BY <2>1, <2>2, EmptySeq
<1>3. ASSUME NEW p \in Processes, NEW n \in Names, NEW k \in Nat, CutHead(p, n, k),
             rings[n].ino # 0, rings[n].recs = image[p][n].chunks,
             bark'[n] \in {bark[n], rings[n].id}, \A m \in Names \ {n} : rings[m].ino # 0 => bark'[m] \in {bark[m], rings[m].id}
      PROVE  Sides'
  <2>1. /\ rings'[n].id = rings[n].id /\ rings'[n].recs = Rest(rings[n].recs, k)
        /\ grain'[n] = Rest(grain[n], k)
        /\ \A m \in Names \ {n} : rings'[m] = rings[m] /\ grain'[m] = grain[m]
    BY <1>1, <1>3, CutDoes
  <2>2. BeginningOf(grain'[n], rings'[n].recs)
    BY <1>2, <1>3, <2>1, BeginningOfRest
  <2>3. \A m \in Names : rings'[m].ino # 0 => bark'[m] \in {0, rings'[m].id}
    BY <1>2, <1>3, <2>1
  <2>4. \A m \in Names : BeginningOf(grain'[m], rings'[m].recs)
    BY <1>2, <2>1, <2>2
  <2> QED BY <2>3, <2>4 DEF Sides, BeginningOf
<1>4. ASSUME NEW p \in Processes, CopyHead(p)
      PROVE  Sides'
  <2>1. UNCHANGED <<bark, grain>> /\ pc[p] = "runs" /\ image[p]["log"].ring # 0
    BY <1>4 DEF CopyHead, Rotator
  <2>2. Busy(p) /\ pc["mount"] # "renames"
    BY <1>1, <2>1, ApartMeansOne, OthersRest DEF Busy
  <2>3. Whole("old") = rings["old"].recs
    BY <1>1, <2>2, WholeIsRecs DEF Accounted
  <2>4. /\ \E k \in 1 .. Len(image[p]["log"].chunks) :
              /\ moving'.head = SubSeq(image[p]["log"].chunks, 1, k)
              /\ rings'["old"].recs = Whole("old") \o SubSeq(image[p]["log"].chunks, 1, k)
        /\ rings'["old"].id = IF rings["old"].ino # 0 THEN rings["old"].id
                              ELSE IF bark["old"] # 0 THEN bark["old"] ELSE inodes + 1
        /\ \A m \in Names \ {"old"} : /\ rings'[m] = rings[m] /\ trunk'[m] = trunk[m]
                                      /\ image'[p][m] = image[p][m]
    <3>1. FilesOK /\ KnownOK /\ inodes \in Nat /\ CopyHead(p)
      BY <1>1, <1>4
    <3>2. QED
      BY <3>1, CopyDoes
  <2>5. PICK k \in 1 .. Len(image[p]["log"].chunks) :
              rings'["old"].recs = rings["old"].recs \o SubSeq(image[p]["log"].chunks, 1, k)
    BY <2>3, <2>4
  <2>6. image[p]["log"].chunks \in Seq(Nat) /\ Len(image[p]["log"].chunks) \in Nat
    BY <1>1, Fields, LenProperties
  <2>7. SubSeq(image[p]["log"].chunks, 1, k) \in Seq(Nat)
    BY SMTT(60), <2>6, PrefixIsSeq
  <2>8. BeginningOf(grain["old"], rings'["old"].recs)
    <3>1. /\ grain["old"] \in Seq(Nat) /\ rings["old"].recs \in Seq(Nat)
          /\ BeginningOf(grain["old"], rings["old"].recs)
      BY <1>1, <1>2
    <3>2. BeginningOf(grain["old"], rings["old"].recs \o SubSeq(image[p]["log"].chunks, 1, k))
      BY <2>7, <3>1, BeginningOfLonger
    <3> QED BY <2>5, <3>2
  <2>9. bark["old"] \in {0, rings'["old"].id}
    BY <1>1, <1>2, <2>4
  <2> QED BY <1>1, <2>1, <2>4, <2>8, <2>9, SidesOfALogAtATime
<1>5. ASSUME NEW p \in Processes, CutRotated(p)
      PROVE  Sides'
  <2>1. /\ pc[p] = "runs" /\ moving # Still /\ CutHead(p, "log", Len(moving.head))
        /\ bark' = IF moving.new THEN [n \in Names |-> rings[n].id] ELSE bark
    BY <1>5 DEF CutRotated
  <2>2. image[p]["log"].ring # 0
    <3>1. PICK m \in {"rotate", "mount"} : pc[m] = "runs" /\ image[m]["log"].ring # 0
      BY <2>1 DEF Accounted, Copied
    <3>2. m \in Processes /\ Busy(m) /\ Busy(p)
      BY <2>1, <3>1 DEF Processes, Busy
    <3> QED BY <3>1, <3>2, ApartMeansOne DEF OneIsBusy
  <2>3. rings["log"].ino # 0 /\ rings["log"].recs = image[p]["log"].chunks
    BY <1>1, <2>1, <2>2 DEF Knows, Matches
  <2>4. Len(moving.head) \in Nat
    BY Fields, LenProperties
  <2>5. \A n \in Names : bark'[n] \in {bark[n], rings[n].id}
    BY <2>1
  <2> QED BY <1>1, <1>3, <2>1, <2>3, <2>4, <2>5
<1>6. ASSUME NEW p \in Processes, NEW n \in Names, Retain(p, n)
      PROVE  Sides'
  <2>1. pc[p] = "runs" /\ bark' = bark
    BY <1>6 DEF Retain, Idle
  <2>2. PICK k \in 1 .. Len(image[p][n].chunks) : CutHead(p, n, k)
    BY <1>6 DEF Retain
  <2>3. Len(image[p][n].chunks) \in Nat /\ image[p][n].chunks \in Seq(Nat)
    BY Fields, LenProperties
  <2>4. k \in Nat /\ Len(image[p][n].chunks) # 0
    BY <2>3
  <2>5. image[p][n].ring # 0
    BY <2>3, <2>4, SeqElements DEF Knows
  <2>6. rings[n].ino # 0 /\ rings[n].recs = image[p][n].chunks
    BY <2>1, <2>5 DEF Knows, Matches
  <2> QED BY <1>3, <2>1, <2>2, <2>4, <2>6
<1>7. ASSUME NEW p \in Processes, NEW n \in Names, Write(p, n)
      PROVE  Sides'
  <2>1. pc[p] = "runs" /\ image[p][n].ring # 0 /\ UNCHANGED <<bark, grain>>
    BY <1>7 DEF Write, Idle
  <2>2. rings[n].ino = image[p][n].ring /\ rings[n].recs = image[p][n].chunks
    BY <2>1 DEF Knows, Matches
  <2>3. /\ rings'[n].ino = rings[n].ino /\ rings'[n].id = rings[n].id
        /\ rings'[n].recs = Append(rings[n].recs, entries') /\ entries' = entries + 1
        /\ \A m \in Names \ {n} : rings'[m] = rings[m]
    <3>1. Write(p, n)
      BY <1>7
    <3>2. /\ rings'[n].ino = rings[n].ino /\ rings'[n].id = rings[n].id
          /\ entries' = entries + 1
          /\ (rings[n].ino = image[p][n].ring /\ rings[n].recs = image[p][n].chunks)
                 => rings'[n].recs = Append(rings[n].recs, entries')
          /\ \A m \in Names \ {n} : rings'[m] = rings[m]
      BY <3>1, WriteDoes
    <3> QED BY <2>2, <3>2
  <2>4. entries' \in Nat
    BY <2>3 DEF KnownOK
  <2>5. BeginningOf(grain'[n], rings'[n].recs)
    <3>1. BeginningOf(grain[n], Append(rings[n].recs, entries'))
      BY <1>2, <2>4, BeginningOfAppended
    <3> QED BY <2>1, <2>3, <3>1
  <2>6. rings'[n].ino # 0 => bark'[n] \in {0, rings'[n].id}
    BY <1>2, <2>1, <2>3
  <2>7. \A m \in Names \ {n} : rings'[m] = rings[m] /\ bark'[m] = bark[m] /\ grain'[m] = grain[m]
    BY <2>1, <2>3
  <2> QED BY <2>5, <2>6, <2>7, SidesOfALogAtATime
<1>8. ASSUME NEW p \in Processes, NEW n \in Names, Extend(p, n)
      PROVE  Sides'
  <2>1. Len(grain[n]) <= Len(rings[n].recs)
    BY <1>2 DEF BeginningOf
  <2>2. /\ grain'[n] = grain[n] \o SubSeq(rings[n].recs, Len(grain[n]) + 1, Len(rings[n].recs))
        /\ \A m \in Names \ {n} : grain'[m] = grain[m]
        /\ UNCHANGED <<rings, bark>>
    BY <1>8, <2>1, ExtendDoes
  <2>3. BeginningOf(grain'[n], rings'[n].recs)
    BY <1>2, <2>2, BeginningOfExtended
  <2> QED BY <1>2, <2>2, <2>3, SidesOfALogAtATime
<1>9. ASSUME NEW p \in Processes, Enter(p) \/ Grab(p) \/ Leaves(p)
      PROVE  Sides'
  BY <1>9 DEF Enter, Grab, Leaves, diskVars, Sides, BeginningOf
<1>10. ASSUME NEW p \in Processes, Opens(p)
       PROVE  Sides'
  <2>1. pc[p] = "opens" /\ UNCHANGED <<bark, grain>>
    BY <1>10 DEF Opens
  <2>2. pc["mount"] # "renames"
    BY <1>1, <2>1, ApartMeansOne, OthersRest DEF Busy
  <2>3. Whole("log") = rings["log"].recs
    BY <1>1, <2>2, WholeIsRecs DEF Accounted
  <2>4. /\ rings'["log"].recs = rings["log"].recs
        /\ rings'["log"].id = IF rings["log"].ino # 0 THEN rings["log"].id
                              ELSE IF bark["log"] # 0 THEN bark["log"] ELSE inodes + 1
        /\ \A m \in Names \ {"log"} : rings'[m] = rings[m]
    BY <1>1, <1>10, <2>3, OpensDoes
  <2>5. bark["log"] \in {0, rings'["log"].id}
    BY <1>1, <1>2, <2>4
  <2> QED BY <1>1, <1>2, <2>1, <2>4, <2>5, SidesOfALogAtATime
<1>11. Takes \/ Trimmed => Sides'
  BY DEF Takes, Trimmed, diskVars, Sides, BeginningOf
<1>12. Enumerate => Sides'
  <2> SUFFICES ASSUME Enumerate
               PROVE  Sides'
    OBVIOUS
  <2>1. pc["mount"] = "down" /\ UNCHANGED <<bark, grain>>
    BY DEF Enumerate
  <2>2. \A n \in Names : /\ rings'[n].ino = rings[n].ino /\ rings'[n].id = rings[n].id
                         /\ rings'[n].recs = rings[n].recs
    BY <2>1, EnumerateDoes, WholeIsRecs DEF Accounted
  <2> QED BY <2>1, <2>2 DEF Sides, BeginningOf
<1>13. Delete => Sides'
  <2> SUFFICES ASSUME Delete
               PROVE  Sides'
    OBVIOUS
  <2>1. rings["log"].recs = <<>>
    BY DEF Delete, Accounted, Paired
  <2>2. /\ rings'["log"].ino = 0
        /\ \A m \in Names \ {"log"} : rings'[m] = rings[m] /\ bark'[m] = bark[m] /\ grain'[m] = grain[m]
        /\ rings["log"].ino # 0 => rings'["log"].recs = <<>> /\ grain' = grain
        /\ rings["log"].ino = 0 => rings' = rings /\ grain'["log"] = <<>>
    BY DeleteDoes
  <2>3. BeginningOf(grain'["log"], rings'["log"].recs)
    <3>1. rings'["log"].recs = <<>> /\ grain'["log"] \in {<<>>, grain["log"]}
      BY <2>1, <2>2
    <3> QED BY <1>1, <1>2, <2>1, <3>1
  <2> QED BY <1>1, <2>2, <2>3, SidesOfALogAtATime
<1>14. MovedTrunk => Sides'
  <2> SUFFICES ASSUME MovedTrunk
               PROVE  Sides'
    OBVIOUS
  <2>1. Event("renames") /\ UNCHANGED <<bark, grain>>
    BY DEF MovedTrunk
  <2>2. rings'["old"].ino = 0 /\ rings'["old"].recs = <<>> /\ rings'["log"] = rings["log"]
    BY MovedTrunkDoes
  <2>3. grain["old"] = <<>>
    BY <1>1, <2>1 DEF Bare
  <2> QED BY <1>1, <1>2, <2>1, <2>2, <2>3, SidesOfALogAtATime
<1>15. MovedRest => Sides'
  <2> SUFFICES ASSUME MovedRest
               PROVE  Sides'
    OBVIOUS
  <2>1. pc["mount"] = "renames" /\ SidesMoved
    BY DEF MovedRest
  <2>2. \A n \in Names : bark[n] = 0 /\ grain[n] = <<>>
    BY <2>1 DEF Bare
  <2>3. bark' = bark /\ grain' = grain
    BY <1>1, <2>1, <2>2 DEF SidesMoved, MovedIfThere
  <2>4. rings'["old"] = rings["log"] /\ rings'["log"].recs = <<>>
    BY MovedRestDoes
  <2>5. \A n \in Names : bark'[n] = 0 /\ grain'[n] = <<>>
    BY <2>2, <2>3
  <2>6. \A n \in Names : BeginningOf(grain'[n], rings'[n].recs)
    BY <1>1, <1>2, <2>4, <2>5
  <2> QED BY <2>5, <2>6 DEF Sides, BeginningOf
<1> QED BY <1>4, <1>5, <1>6, <1>7, <1>8, <1>9, <1>10, <1>11, <1>12, <1>13, <1>14, <1>15, DirSteps
   DEF DataStep

LEMMA SidesAtFirst ==
    ASSUME RenamesBare, DirInit
    PROVE  Sides /\ Bare
<1>1. moving = Still /\ pc["mount"] = "down"
      /\ \A n \in Names : /\ grain[n] = <<>> /\ rings[n].recs = <<>>
                          /\ bark[n] \in {0, rings[n].id}
                          /\ env.declared = {} => bark[n] = 0
  BY DEF DirInit, Processes
<1>2. BeginningOf(<<>>, <<>>)
  BY EmptySeq DEF BeginningOf
<1>3. env \in Environments
  BY DEF DirInit
<1> QED BY <1>1, <1>2, <1>3 DEF Sides, Bare, RenamesBare, Event

\* The filters of a log are of its chunks and its manifest of its store, where a mount that
\* renames finds no manifests, and no process dies between two renames or starts beside one
\* without its lock.
THEOREM SidesFollow ==
    ASSUME NoneBeside, NeverHalfway, RenamesBare
    PROVE  DirSpec => []SidesBelong
<1>1. DirInv /\ Sides /\ Bare /\ [DirNext]_dirVars => Sides' /\ Bare'
  <2>1. DirInv /\ Sides /\ Bare /\ DirNext => Sides' /\ Bare'
    BY SidesStep, BareStep DEF DirInv
  <2>2. Sides /\ Bare /\ UNCHANGED dirVars => Sides' /\ Bare'
    BY DEF Sides, BeginningOf, Bare, Event, dirVars, diskVars
  <2> QED BY <2>1, <2>2
<1>2. DirInv /\ Sides => SidesBelong
  <2> SUFFICES ASSUME DirInv, Sides, NEW n \in Names
               PROVE  /\ rings[n].ino # 0 => ~Refused(n)
                      /\ \A i \in DOMAIN grain[n] :
                             i <= Len(rings[n].recs) => grain[n][i] = rings[n].recs[i]
    BY DEF SidesBelong
  <2>1. grain[n] \in Seq(Nat)
    BY Fields DEF DirInv, DirTypeOK
  <2>2. DOMAIN grain[n] = 1 .. Len(grain[n])
    BY <2>1, SeqElements
  <2> QED BY <2>2 DEF Sides, BeginningOf, Refused
<1> QED BY <1>1, <1>2, DirInvAtFirst, SidesAtFirst, DirInvStep, PTL DEF DirSpec

------------------------------------------------------------------------------
\* What the troubles the model names (README, disagreements) would break: an empty target of
\* a rotation that cannot be made; a log that is cut, moved or made again while its filters
\* are extended; a log without filters that is renamed over one that has them.
TargetsMade == \A v \in Volumes : "target" \notin v.troubles
FiltersUndisturbed ==
    \A v \in Volumes : v.troubles \cap {"beside extending", "over filters"} = {}

------------------------------------------------------------------------------
Chunk == Seq(Nat) \ {<<>>}
LogFile == [id : Nat, recs : Seq(Chunk), buf : Seq(Nat)]
Filters == [ino : Nat, filters : Seq(Chunk)]
Manifest == [stamp : Nat, retains : BOOLEAN, index : BOOLEAN, legible : BOOLEAN]

VolumeOK ==
    /\ volume \in Volumes
    /\ files \in [Names -> LogFile] /\ sides \in [Names -> [bark : Manifest, grain : Filters]]
    /\ made \in Nat /\ written \in Nat
    /\ \A n \in Names : files[n].id <= made /\ (~There(n) => files[n] = Absent)

\* The kernel's offset is of no matter here.
HandleOK(h) ==
    /\ handle[h] = [ino |-> handle[h].ino, of |-> handle[h].of, at |-> handle[h].at,
                    open |-> handle[h].open]
    /\ handle[h].ino \in Nat /\ handle[h].of \in Nat /\ handle[h].open \in BOOLEAN

SessionOK ==
    /\ request \in [kind : {"none", "unlink", "rename", "cuts", "rotated"}, name : Names,
                    to : Names, cut : Nat, new : BOOLEAN]
    /\ request.kind = "none" => request = Served
    /\ DOMAIN handle = Handles /\ \A h \in Handles : HandleOK(h)
    /\ DOMAIN nameIno \subseteq Names /\ \A i \in DOMAIN inoName : inoName[i] \in Names

FlusherRecord ==
    [at : {"sleeps", "polls", "enforces", "counts", "indexes", "reads", "installs", "exits"},
     todo : SUBSET Names, name : Names, policy : BOOLEAN, counts : [Names -> Int],
     out : Filters, seen : Seq(Chunk)]

FlusherOK ==
    /\ flusher \in FlusherRecord
    /\ stamps \in [Names -> Int] /\ lastGood \in [Names -> BOOLEAN] /\ indexed \in [Names -> Int]

\* The inodes of the names are those a session has given.
InodesRight == nextIno \in Nat /\ \A n \in DOMAIN nameIno : nameIno[n] \in Nat

MountTyped == VolumeOK /\ SessionOK /\ FlusherOK

------------------------------------------------------------------------------
\* The two tables are inverse, and the flusher's copy is one of them; an inode that is
\* not in them is never given again.
TablesInverse ==
    /\ nextIno \in Nat
    /\ nameIno = [n \in DOMAIN nameIno |-> nameIno[n]]
    /\ inoName = [i \in DOMAIN inoName |-> inoName[i]]
    /\ \A n \in DOMAIN nameIno : nameIno[n] \in DOMAIN inoName /\ inoName[nameIno[n]] = n
    /\ \A i \in DOMAIN inoName : /\ i \in Nat /\ i < nextIno
                                 /\ inoName[i] \in DOMAIN nameIno /\ nameIno[inoName[i]] = i
    /\ mirror = nameIno

\* What a request that is past its call of the store has still to do to the tables.
Listed ==
    CASE request.kind = "unlink" -> DOMAIN nameIno \ {request.name}
      [] request.kind = "rename" -> (DOMAIN nameIno \cup {request.to}) \ {request.name}
      [] request.kind \in {"cuts", "rotated"} -> DOMAIN nameIno \cup {request.to}
      [] OTHER -> DOMAIN nameIno

\* The name that an inode of name n is about to stand for under request q; none, if it is
\* about to go.
Stands(q, n) ==
    CASE q.kind = "unlink" /\ n = q.name -> {}
      [] q.kind = "rename" /\ n = q.to -> {}
      [] q.kind = "rename" /\ n = q.name -> {q.to}
      [] OTHER -> {n}

HandlesTrue ==
    \A h \in Handles :
        handle[h] # NotHeld =>
            /\ handle[h].ino < nextIno
            /\ handle[h].ino \in DOMAIN inoName =>
                   \A n \in Stands(request, inoName[handle[h].ino]) : files[n].id = handle[h].of

RequestRight ==
    /\ request.kind = "rename" => request.name # request.to
    /\ request.kind \in {"unlink", "rename"} => request.name \in DOMAIN nameIno
    /\ request.kind \in {"cuts", "rotated"} => request.name \in DOMAIN nameIno

TablesInv ==
    /\ TablesInverse /\ RequestRight /\ HandlesTrue
    /\ Present = Listed

------------------------------------------------------------------------------
\* The chunks of more begin with those.
Longer(chunks, more) ==
    /\ Len(chunks) <= Len(more)
    /\ \A i \in 1 .. Len(chunks) : more[i] = chunks[i]

\* The filters of g are of the first chunks.
Covers(g, chunks) ==
    /\ Len(g.filters) <= Len(chunks)
    /\ \A i \in 1 .. Len(g.filters) : g.filters[i] = chunks[i]

\* In the middle of a cut the filters are those of before it.
CoversAfter(g, k, chunks) ==
    k <= Len(g.filters) =>
        /\ Len(g.filters) - k <= Len(chunks)
        /\ \A i \in 1 .. Len(g.filters) - k : g.filters[k + i] = chunks[i]

GrainsTrue ==
    \A n \in Names :
        IF request.kind = "cuts" /\ request.name = n
        THEN CoversAfter(sides[n].grain, request.cut, files[n].recs)
        ELSE Covers(sides[n].grain, files[n].recs)

\* What the flusher has read is of the log that still has the name.
ExtendingTrue ==
    /\ flusher.at \in {"reads", "installs"} => request = Served
    /\ flusher.at = "reads" => flusher.out = sides[flusher.name].grain
    /\ flusher.at = "installs" =>
          /\ Longer(flusher.seen, files[flusher.name].recs)
          /\ Covers(flusher.out, flusher.seen)

FiltersInv == GrainsTrue /\ ExtendingTrue


------------------------------------------------------------------------------
\* The operators on a log and its filters.
LEMMA FlushedType ==
    ASSUME NEW f \in LogFile
    PROVE  /\ Flushed(f) \in LogFile /\ Flushed(f).id = f.id
           /\ Len(f.recs) \in Nat /\ Len(f.recs) <= Len(Flushed(f).recs)
           /\ \A i \in 1 .. Len(f.recs) : Flushed(f).recs[i] = f.recs[i]
           /\ f.buf = <<>> => Flushed(f) = f
<1>1. f.id \in Nat /\ f.recs \in Seq(Chunk) /\ f.buf \in Seq(Nat)
  BY DEF LogFile
<1>2. CASE f.buf = <<>>
  BY <1>1, <1>2, LenProperties DEF Flushed
<1>3. CASE f.buf # <<>>
  <2>1. f.buf \in Chunk
    BY <1>1, <1>3 DEF Chunk
  <2>2. Append(f.recs, f.buf) \in Seq(Chunk) /\ Len(Append(f.recs, f.buf)) = Len(f.recs) + 1
        /\ Len(f.recs) \in Nat /\ \A i \in 1 .. Len(f.recs) : Append(f.recs, f.buf)[i] = f.recs[i]
    BY <1>1, <2>1, AppendIsSeq
  <2>3. Flushed(f) = [f EXCEPT !.recs = Append(f.recs, f.buf), !.buf = <<>>]
    BY <1>3 DEF Flushed
  <2>4. Flushed(f).id = f.id /\ Flushed(f).recs = Append(f.recs, f.buf) /\ Flushed(f) \in LogFile
    BY <2>2, <2>3, EmptySeq DEF LogFile
  <2>5. QED
    BY <1>3, <2>2, <2>4
<1>4. QED
  BY <1>2, <1>3

LEMMA DroppedType ==
    ASSUME NEW f \in LogFile, NEW k \in 0 .. Len(f.recs)
    PROVE  /\ Dropped(f, k) \in LogFile /\ Dropped(f, k).id = f.id
           /\ Len(f.recs) \in Nat /\ Len(Dropped(f, k).recs) = Len(f.recs) - k
           /\ \A i \in 1 .. Len(f.recs) - k : Dropped(f, k).recs[i] = f.recs[k + i]
<1>1. f.recs \in Seq(Chunk) /\ Len(f.recs) \in Nat /\ k \in Nat /\ k <= Len(f.recs)
      /\ k + 1 \in Nat \ {0}
  BY LenProperties DEF LogFile
<1>2. /\ SubSeq(f.recs, k + 1, Len(f.recs)) \in Seq(Chunk)
      /\ Len(SubSeq(f.recs, k + 1, Len(f.recs))) =
             IF k + 1 <= Len(f.recs) THEN Len(f.recs) - (k + 1) + 1 ELSE 0
      /\ \A i \in 1 .. Len(f.recs) - (k + 1) + 1 :
             SubSeq(f.recs, k + 1, Len(f.recs))[i] = f.recs[k + 1 + i - 1]
  BY <1>1, SuffixIsSeq
<1>3. Dropped(f, k).recs = SubSeq(f.recs, k + 1, Len(f.recs)) /\ Dropped(f, k).id = f.id
      /\ Dropped(f, k) \in LogFile
  BY <1>2 DEF Dropped, LogFile
<1>4. \A i \in 1 .. Len(f.recs) - k : i \in 1 .. Len(f.recs) - (k + 1) + 1 /\ k + 1 + i - 1 = k + i
  BY <1>1
<1>5. QED
  BY <1>1, <1>2, <1>3, <1>4

LEMMA NoGrainType == NoGrain \in Filters /\ Len(NoGrain.filters) = 0
BY EmptySeq DEF NoGrain, Filters

LEMMA FiltersCutType ==
    ASSUME NEW g \in Filters, NEW k \in Nat, NEW ino \in Nat
    PROVE  /\ FiltersCut(g, k, ino) \in Filters
           /\ Len(g.filters) \in Nat
           /\ FiltersCut(g, k, ino) = NoGrain
              \/ /\ k <= Len(g.filters)
                 /\ Len(FiltersCut(g, k, ino).filters) = Len(g.filters) - k
                 /\ \A i \in 1 .. Len(g.filters) - k :
                        FiltersCut(g, k, ino).filters[i] = g.filters[k + i]
<1>1. g.filters \in Seq(Chunk) /\ Len(g.filters) \in Nat /\ k + 1 \in Nat \ {0}
  BY LenProperties DEF Filters
<1>2. /\ SubSeq(g.filters, k + 1, Len(g.filters)) \in Seq(Chunk)
      /\ Len(SubSeq(g.filters, k + 1, Len(g.filters))) =
             IF k + 1 <= Len(g.filters) THEN Len(g.filters) - (k + 1) + 1 ELSE 0
      /\ \A i \in 1 .. Len(g.filters) - (k + 1) + 1 :
             SubSeq(g.filters, k + 1, Len(g.filters))[i] = g.filters[k + 1 + i - 1]
  BY <1>1, SuffixIsSeq
<1>3. CASE g = NoGrain \/ Len(g.filters) < k
  BY <1>1, <1>3, NoGrainType DEF FiltersCut
<1>4. CASE g # NoGrain /\ k <= Len(g.filters)
  <2>1. FiltersCut(g, k, ino) = [ino |-> ino, filters |-> SubSeq(g.filters, k + 1, Len(g.filters))]
    BY <1>1, <1>4 DEF FiltersCut
  <2>2. \A i \in 1 .. Len(g.filters) - k :
            i \in 1 .. Len(g.filters) - (k + 1) + 1 /\ k + 1 + i - 1 = k + i
    BY <1>1
  <2>3. QED
    BY <1>1, <1>2, <1>4, <2>1, <2>2 DEF Filters
<1>5. QED
  BY <1>1, <1>3, <1>4

\* The chunks that a rotation moves, and a log they are appended to.
LEMMA MovedType ==
    ASSUME NEW f \in LogFile, NEW g \in LogFile, NEW k \in 1 .. Len(f.recs)
    PROVE  LET moved == SubSeq(f.recs, 1, k)
               target == [g EXCEPT !.recs = @ \o moved]
           IN  /\ target \in LogFile /\ target.id = g.id /\ moved[1][1] \in Nat
               /\ Len(g.recs) \in Nat /\ Len(g.recs) <= Len(target.recs)
               /\ \A i \in 1 .. Len(g.recs) : target.recs[i] = g.recs[i]
<1> DEFINE moved == SubSeq(f.recs, 1, k)
           target == [g EXCEPT !.recs = @ \o moved]
<1>1. f.recs \in Seq(Chunk) /\ g.recs \in Seq(Chunk) /\ Len(g.recs) \in Nat /\ Len(f.recs) \in Nat
      /\ k \in 0 .. Len(f.recs) /\ 1 \in 1 .. k
  BY LenProperties DEF LogFile
<1>2. moved \in Seq(Chunk) /\ Len(moved) = k /\ \A i \in 1 .. k : moved[i] = f.recs[i]
  BY <1>1, PrefixIsSeq
<1>3. moved[1] \in Chunk
  BY <1>1, <1>2, ElementOfSeq
<1>4. moved[1][1] \in Nat
  <2>1. moved[1] \in Seq(Nat) /\ moved[1] # <<>>
    BY <1>3 DEF Chunk
  <2>2. Len(moved[1]) \in Nat /\ Len(moved[1]) # 0
    BY <2>1, SeqElements
  <2>3. QED
    BY <2>1, <2>2, ElementOfSeq
<1> HIDE DEF moved
<1>5. /\ g.recs \o moved \in Seq(Chunk) /\ Len(g.recs \o moved) = Len(g.recs) + k
      /\ \A i \in 1 .. Len(g.recs) : (g.recs \o moved)[i] = g.recs[i]
  <2>1. /\ g.recs \o moved \in Seq(Chunk) /\ Len(g.recs \o moved) = Len(g.recs) + Len(moved)
        /\ \A i \in 1 .. Len(g.recs) + Len(moved) :
              (g.recs \o moved)[i] = IF i <= Len(g.recs) THEN g.recs[i] ELSE moved[i - Len(g.recs)]
    BY <1>1, <1>2, ConcatProperties
  <2>2. \A i \in 1 .. Len(g.recs) : i \in 1 .. Len(g.recs) + Len(moved) /\ i <= Len(g.recs)
    BY <1>1, <1>2
  <2>3. QED
    BY <1>2, <2>1, <2>2
<1>6. target.recs = g.recs \o moved /\ target.id = g.id /\ target \in LogFile
  BY <1>5 DEF LogFile
<1>7. QED
  BY <1>1, <1>4, <1>5, <1>6 DEF moved

LEMMA AbsentType ==
    /\ Absent \in LogFile /\ Absent.id = 0 /\ Absent.recs = <<>> /\ Absent.buf = <<>>
    /\ Flushed(Absent) = Absent /\ Len(Absent.recs) = 0
BY EmptySeq DEF Absent, LogFile, Flushed

NewLog(i) == [Absent EXCEPT !.id = i]

LEMMA NewLogType ==
    ASSUME NEW i \in Nat
    PROVE  /\ NewLog(i) \in LogFile /\ NewLog(i).id = i /\ NewLog(i).recs = <<>>
           /\ Flushed(NewLog(i)) = NewLog(i) /\ Len(NewLog(i).recs) = 0
<1>1. NewLog(i) = [id |-> i, recs |-> <<>>, buf |-> <<>>]
  BY DEF Absent, NewLog
<1>2. NewLog(i) \in LogFile /\ NewLog(i).buf = <<>> /\ NewLog(i).recs = <<>> /\ NewLog(i).id = i
  BY <1>1, EmptySeq DEF LogFile
<1>3. QED
  BY <1>2, EmptySeq DEF Flushed

LEMMA FirstOfType ==
    ASSUME NEW names \in SUBSET Names
    PROVE  FirstOf(names) \in Names
BY DEF FirstOf, Names

------------------------------------------------------------------------------
\* The types: one lemma for the three parts of the state each.
LEMMA VolumeStep ==
    ASSUME VolumeOK, volume' = volume, files' \in [Names -> LogFile],
           sides' \in [Names -> [bark : Manifest, grain : Filters]],
           made' \in Nat, made <= made', written' \in Nat,
           \A n \in Names : files'[n] = files[n] \/ (files'[n].id <= made' /\ files'[n].id # 0)
                            \/ files'[n] = Absent
    PROVE  VolumeOK'
<1>1. made \in Nat /\ \A n \in Names : files[n].id <= made /\ (files[n].id = 0 => files[n] = Absent)
  BY DEF VolumeOK, There
<1>2. files \in [Names -> LogFile] /\ \A n \in Names : files[n].id \in Nat /\ files'[n].id \in Nat
  BY DEF VolumeOK, LogFile
<1>3. ASSUME NEW n \in Names PROVE files'[n].id <= made' /\ (files'[n].id = 0 => files'[n] = Absent)
  <2>1. CASE files'[n] = files[n]
    BY <1>1, <1>2, <2>1
  <2>2. CASE files'[n].id <= made' /\ files'[n].id # 0
    BY <2>2
  <2>3. CASE files'[n] = Absent
    BY <2>3, AbsentType
  <2>4. QED
    BY <2>1, <2>2, <2>3
<1>4. QED
  BY <1>3 DEF VolumeOK, There

LEMMA VolumeFacts ==
    ASSUME VolumeOK
    PROVE  /\ files \in [Names -> LogFile] /\ sides \in [Names -> [bark : Manifest, grain : Filters]]
           /\ made \in Nat /\ written \in Nat /\ volume \in Volumes
           /\ \A n \in Names : /\ files[n] \in LogFile /\ files[n].id \in Nat /\ files[n].id <= made
                               /\ sides[n].bark \in Manifest /\ sides[n].grain \in Filters
                               /\ There(n) <=> files[n].id # 0
                               /\ ~There(n) => files[n] = Absent
BY DEF VolumeOK, LogFile, There

\* Of a handle that is none, or one that is the same but for its offset.
SameHandle(h) ==
    \/ handle'[h] = handle[h]
    \/ handle'[h] = NotHeld
    \/ /\ handle[h] # NotHeld /\ handle'[h].ino = handle[h].ino /\ handle'[h].of = handle[h].of
       /\ HandleOK(h)'

LEMMA SessionStep ==
    ASSUME SessionOK, DOMAIN handle' = Handles, \A h \in Handles : SameHandle(h),
           request' = request, nameIno' = nameIno, inoName' = inoName
    PROVE  SessionOK'
<1>1. ASSUME NEW h \in Handles PROVE HandleOK(h)'
  <2>1. CASE handle'[h] = handle[h]
    BY <2>1 DEF SessionOK, HandleOK
  <2>2. CASE handle'[h] = NotHeld
    BY <2>2 DEF HandleOK, NotHeld
  <2>3. QED
    BY <2>1, <2>2 DEF SameHandle
<1>2. QED
  BY <1>1 DEF SessionOK

\* A step that gives a log more chunks, or none, and leaves the rest.
LEMMA FilesStep ==
    ASSUME VolumeOK, NEW n \in Names, NEW f \in LogFile, f.id = files[n].id, f.id = 0 => f = Absent,
           volume' = volume, files' = [files EXCEPT ![n] = f], made' = made, written' \in Nat,
           sides' \in [Names -> [bark : Manifest, grain : Filters]]
    PROVE  VolumeOK' /\ \A m \in Names : files'[m].id = files[m].id
<1>1. /\ files' \in [Names -> LogFile] /\ files'[n] = f
      /\ \A m \in Names : m # n => files'[m] = files[m]
  BY VolumeFacts
<1>2. f.id <= made' /\ made \in Nat /\ made <= made'
  BY VolumeFacts
<1>3. VolumeOK'
  BY <1>1, <1>2, VolumeStep
<1>4. QED
  BY <1>1, <1>3

\* What a step leaves of the logs: the chunks there were, and maybe more.
Grows(f, g) ==
    /\ g.id = f.id /\ Len(f.recs) <= Len(g.recs)
    /\ \A i \in 1 .. Len(f.recs) : g.recs[i] = f.recs[i]

LEMMA GrowsItself == ASSUME NEW f \in LogFile PROVE Grows(f, f) /\ Len(f.recs) \in Nat
BY LenProperties DEF Grows, LogFile

LEMMA FlushedGrows ==
    ASSUME NEW f \in LogFile PROVE Flushed(f) \in LogFile /\ Grows(f, Flushed(f))
BY FlushedType DEF Grows

LEMMA LogIsNamed ==
    ASSUME SessionOK, VolumeOK, NEW h \in Handles, Answers(h)
    PROVE  LogOf(h) \in Names /\ There(LogOf(h)) /\ handle[h].open /\ handle[h] # NotHeld
BY DEF SessionOK, Answers, LogOf, There, NotHeld

LEMMA WriteTypes ==
    ASSUME MountTyped, NEW h \in Handles, WriteAt(h)
    PROVE  /\ MountTyped' /\ \A m \in Names : Grows(files[m], files'[m])
           /\ \A j \in Handles : SameHandle(j)
<1> DEFINE n == LogOf(h)
           f == [files[n] EXCEPT !.buf = Append(@, written')]
           g == IF Len(f.buf) = 2 THEN Flushed(f) ELSE f
<1>1. n \in Names /\ There(n) /\ handle[h].open /\ handle[h] # NotHeld
  BY LogIsNamed DEF WriteAt, MountTyped
<1>2. written' \in Nat /\ files[n] \in LogFile /\ files[n].id # 0
  BY <1>1, VolumeFacts DEF WriteAt, MountTyped, There
<1>3. f \in LogFile /\ f.id = files[n].id /\ f.recs = files[n].recs
  <2>1. Append(files[n].buf, written') \in Seq(Nat)
    BY <1>2, AppendIsSeq DEF LogFile
  <2>2. QED
    BY <1>2, <2>1 DEF LogFile
<1>4. g \in LogFile /\ Grows(files[n], g)
  <2>1. Grows(files[n], f)
    BY <1>2, <1>3, GrowsItself DEF Grows
  <2>2. Flushed(f) \in LogFile /\ Grows(f, Flushed(f)) /\ Len(f.recs) \in Nat
    BY <1>3, FlushedGrows, GrowsItself
  <2>3. Grows(files[n], Flushed(f))
    BY <1>2, <1>3, <2>2 DEF Grows
  <2>4. QED
    BY <1>3, <2>1, <2>2, <2>3
<1>5. files' = [files EXCEPT ![n] = g]
  BY DEF WriteAt
<1>6. handle' = [handle EXCEPT ![h].at = AtEnd(h, f)]
  BY DEF WriteAt
<1>7. UNCHANGED <<volume, sides, tableVars, request, flusherVars, made>>
  BY DEF WriteAt
<1> HIDE DEF f, g, n
<1>8. VolumeOK' /\ \A m \in Names : Grows(files[m], files'[m])
  <2>1. VolumeOK'
    BY <1>1, <1>2, <1>4, <1>5, <1>7, FilesStep, VolumeFacts DEF Grows, MountTyped
  <2>2. \A m \in Names : Grows(files[m], files'[m])
    BY <1>1, <1>4, <1>5, GrowsItself, VolumeFacts DEF MountTyped
  <2>3. QED
    BY <2>1, <2>2
<1>9. DOMAIN handle' = Handles /\ \A j \in Handles : SameHandle(j)
  <2>1. DOMAIN handle = Handles /\ HandleOK(h)
    BY DEF MountTyped, SessionOK
  <2>2. /\ DOMAIN handle' = Handles /\ \A j \in Handles : j # h => handle'[j] = handle[j]
        /\ handle'[h] = [handle[h] EXCEPT !.at = AtEnd(h, f)]
    BY <1>6, <2>1
  <2>3. /\ handle'[h] = [ino |-> handle[h].ino, of |-> handle[h].of, at |-> AtEnd(h, f),
                         open |-> handle[h].open]
    BY <2>1, <2>2 DEF HandleOK
  <2>4. HandleOK(h)' /\ handle'[h].ino = handle[h].ino /\ handle'[h].of = handle[h].of
    BY <2>1, <2>3 DEF HandleOK
  <2>5. QED
    BY <1>1, <2>2, <2>4 DEF SameHandle
<1>10. SessionOK' /\ FlusherOK'
  BY <1>7, <1>9, SessionStep DEF MountTyped, FlusherOK, tableVars, flusherVars
<1>11. QED
  BY <1>8, <1>9, <1>10 DEF MountTyped

LEMMA FlushTypes ==
    ASSUME MountTyped, NEW h \in Handles, FlushFile(h)
    PROVE  /\ MountTyped' /\ \A m \in Names : Grows(files[m], files'[m])
           /\ \A j \in Handles : SameHandle(j)
<1>1. UNCHANGED <<volume, sides, tableVars, request, flusherVars, written, made>>
  BY DEF FlushFile
<1>2. VolumeOK' /\ \A m \in Names : Grows(files[m], files'[m])
  <2>1. CASE Answers(h)
    <3>1. LogOf(h) \in Names /\ files[LogOf(h)] \in LogFile /\ files[LogOf(h)].id # 0
      BY <2>1, LogIsNamed, VolumeFacts DEF MountTyped, There
    <3>2. files' = [files EXCEPT ![LogOf(h)] = Flushed(files[LogOf(h)])]
      BY <2>1 DEF FlushFile
    <3>3. Flushed(files[LogOf(h)]) \in LogFile /\ Grows(files[LogOf(h)], Flushed(files[LogOf(h)]))
      BY <3>1, FlushedGrows
    <3>4. VolumeOK'
      BY <1>1, <3>1, <3>2, <3>3, FilesStep, VolumeFacts DEF Grows, MountTyped
    <3>5. QED
      BY <3>1, <3>2, <3>3, <3>4, GrowsItself, VolumeFacts DEF MountTyped
  <2>2. CASE ~Answers(h)
    <3>1. files' = files
      BY <2>2 DEF FlushFile
    <3>2. VolumeOK'
      BY <1>1, <3>1 DEF MountTyped, VolumeOK, There
    <3>3. QED
      BY <3>1, <3>2, GrowsItself, VolumeFacts DEF MountTyped
  <2>3. QED
    BY <2>1, <2>2
<1>3. DOMAIN handle' = Handles /\ \A j \in Handles : SameHandle(j)
  BY DEF FlushFile, SameHandle, MountTyped, SessionOK
<1>4. SessionOK' /\ FlusherOK'
  BY <1>1, <1>3, SessionStep DEF MountTyped, FlusherOK, tableVars, flusherVars
<1>5. QED
  BY <1>2, <1>3, <1>4 DEF MountTyped

LEMMA OpenTypes ==
    ASSUME MountTyped, NEW h \in Handles, Open(h)
    PROVE  MountTyped' /\ \A j \in Handles : SameHandle(j)
<1>1. UNCHANGED <<volume, files, sides, tableVars, request, flusherVars, written, made>>
  BY DEF Open
<1>2. DOMAIN handle' = Handles /\ \A j \in Handles : SameHandle(j)
  <2>1. DOMAIN handle = Handles /\ HandleOK(h) /\ handle[h] # NotHeld
    BY DEF MountTyped, SessionOK, Open
  <2>2. /\ DOMAIN handle' = Handles /\ \A j \in Handles : j # h => handle'[j] = handle[j]
        /\ handle'[h] = NotHeld \/ handle'[h] = [handle[h] EXCEPT !.open = TRUE]
    BY <2>1 DEF Open
  <2>3. CASE handle'[h] = [handle[h] EXCEPT !.open = TRUE]
    <3>1. handle'[h] = [ino |-> handle[h].ino, of |-> handle[h].of, at |-> handle[h].at, open |-> TRUE]
      BY <2>1, <2>3 DEF HandleOK
    <3>2. HandleOK(h)' /\ handle'[h].ino = handle[h].ino /\ handle'[h].of = handle[h].of
      BY <2>1, <3>1 DEF HandleOK
    <3>3. QED
      BY <2>1, <2>2, <3>2 DEF SameHandle
  <2>4. CASE handle'[h] = NotHeld
    BY <2>2, <2>4 DEF SameHandle
  <2>5. QED
    BY <2>2, <2>3, <2>4
<1>3. SessionOK' /\ FlusherOK' /\ VolumeOK'
  BY <1>1, <1>2, SessionStep DEF MountTyped, FlusherOK, VolumeOK, There, tableVars, flusherVars
<1>4. QED
  BY <1>2, <1>3 DEF MountTyped

LEMMA NewHandle ==
    ASSUME SessionOK, NEW h \in Handles, NEW i \in Nat, NEW o \in Nat, NEW at, NEW open \in BOOLEAN,
           handle' = [handle EXCEPT ![h] = [ino |-> i, of |-> o, at |-> at, open |-> open]],
           request' = request, DOMAIN nameIno' \subseteq Names,
           \A j \in DOMAIN inoName' : inoName'[j] \in Names
    PROVE  SessionOK'
<1>1. DOMAIN handle = Handles /\ \A j \in Handles : HandleOK(j)
  BY DEF SessionOK
<1>2. DOMAIN handle' = Handles /\ \A j \in Handles : j # h => handle'[j] = handle[j]
  BY <1>1
<1>3. handle'[h] = [ino |-> i, of |-> o, at |-> at, open |-> open]
  BY <1>1
<1>4. HandleOK(h)'
  BY <1>3 DEF HandleOK
<1>5. \A j \in Handles : HandleOK(j)'
  BY <1>1, <1>2, <1>4 DEF HandleOK
<1>6. QED
  BY <1>2, <1>5 DEF SessionOK

LEMMA SessionKept ==
    ASSUME SessionOK, UNCHANGED <<handle, nameIno, inoName>>,
           request' \in [kind : {"none", "unlink", "rename", "cuts", "rotated"}, name : Names,
                         to : Names, cut : Nat, new : BOOLEAN],
           request'.kind = "none" => request' = Served
    PROVE  SessionOK'
BY DEF SessionOK, HandleOK

LEMMA FlusherKept ==
    ASSUME FlusherOK, UNCHANGED flusherVars
    PROVE  FlusherOK'
BY DEF FlusherOK, flusherVars

LEMMA VolumeKept ==
    ASSUME VolumeOK, UNCHANGED <<volume, files, sides, made, written>>
    PROVE  VolumeOK'
BY DEF VolumeOK, There

LEMMA TablesInodes == TablesInverse => InodesRight
BY DEF TablesInverse, InodesRight

LEMMA LookupTypes ==
    ASSUME MountTyped, InodesRight, NEW h \in Handles, NEW n \in Names, Lookup(h, n)
    PROVE  MountTyped'
<1>1. n \in DOMAIN nameIno /\ nameIno[n] \in Nat
  BY DEF Lookup, InodesRight
<1>2. files[n].id \in Nat
  BY VolumeFacts DEF MountTyped
<1>3. handle' = [handle EXCEPT ![h] = [ino |-> nameIno[n], of |-> files[n].id,
                                       at |-> AtEnd(h, files[n]), open |-> FALSE]]
  BY DEF Lookup
<1>4. UNCHANGED <<volume, files, sides, tableVars, request, flusherVars, written, made>>
  BY DEF Lookup
<1>5. SessionOK'
  BY <1>1, <1>2, <1>3, <1>4, NewHandle DEF MountTyped, SessionOK, tableVars
<1>6. QED
  BY <1>4, <1>5, VolumeKept, FlusherKept DEF MountTyped

\* assign_ino.
LEMMA AssignedTables ==
    ASSUME TablesInverse, DOMAIN nameIno \subseteq Names, NEW n \in Names, Assigned(n)
    PROVE  /\ TablesInverse'
           /\ DOMAIN nameIno' = DOMAIN nameIno \cup {n}
           /\ nextIno <= nextIno'
           /\ \A i \in DOMAIN inoName : i \in DOMAIN inoName' /\ inoName'[i] = inoName[i]
           /\ \A i \in DOMAIN inoName' : i \in DOMAIN inoName \/ (nextIno <= i /\ inoName'[i] = n)
           /\ nameIno'[n] \in Nat
<1>1. CASE n \in DOMAIN nameIno
  <2>1. UNCHANGED tableVars
    BY <1>1 DEF Assigned
  <2>2. UNCHANGED <<inoName, nameIno, mirror, nextIno>>
    BY <2>1 DEF tableVars
  <2>3. TablesInverse' /\ nextIno \in Nat /\ nameIno[n] \in Nat
    BY <1>1, <2>2 DEF TablesInverse
  <2>4. QED
    BY <1>1, <2>2, <2>3
<1>2. CASE n \notin DOMAIN nameIno
  <2>1. /\ nameIno' = With(nameIno, n, nextIno) /\ inoName' = With(inoName, nextIno, n)
        /\ mirror' = With(mirror, n, nextIno) /\ nextIno' = nextIno + 1 /\ nextIno \in Nat
    BY <1>2 DEF Assigned, TablesInverse
  <2>2. nextIno \notin DOMAIN inoName
    BY <2>1 DEF TablesInverse
  <2>3. nameIno' = [m \in DOMAIN nameIno \cup {n} |-> IF m = n THEN nextIno ELSE nameIno[m]]
    BY <2>1 DEF With
  <2>4. inoName' = [i \in DOMAIN inoName \cup {nextIno} |-> IF i = nextIno THEN n ELSE inoName[i]]
    BY <2>1 DEF With
  <2>5. mirror' = nameIno'
    BY <2>1 DEF TablesInverse
  <2>6. TablesInverse'
    BY <1>2, <2>1, <2>2, <2>3, <2>4, <2>5 DEF TablesInverse
  <2>7. QED
    BY <1>2, <2>1, <2>2, <2>3, <2>4, <2>6
<1>3. QED
  BY <1>1, <1>2

LEMMA AssignedInodes ==
    ASSUME InodesRight, NEW n, Assigned(n)
    PROVE  /\ InodesRight'
           /\ DOMAIN nameIno' = DOMAIN nameIno \cup {n} /\ nameIno'[n] \in Nat
           /\ \A i \in DOMAIN inoName' :
                  inoName'[i] = n \/ (i \in DOMAIN inoName /\ inoName'[i] = inoName[i])
<1>1. CASE n \in DOMAIN nameIno
  <2>1. UNCHANGED tableVars
    BY <1>1 DEF Assigned
  <2>2. QED
    BY <1>1, <2>1 DEF tableVars, InodesRight
<1>2. CASE n \notin DOMAIN nameIno
  BY <1>2 DEF Assigned, With, InodesRight
<1>3. QED
  BY <1>1, <1>2

LEMMA CreateTypes ==
    ASSUME MountTyped, InodesRight, NEW h \in Handles, NEW n \in Names, Create(h, n)
    PROVE  MountTyped'
<1>1. /\ UNCHANGED <<volume, sides, request, flusherVars, written>> /\ Assigned(n)
      /\ handle' = [handle EXCEPT ![h] = [ino |-> nameIno'[n], of |-> files'[n].id, at |-> 0,
                                          open |-> TRUE]]
  BY DEF Create
<1>2. /\ DOMAIN nameIno \subseteq Names /\ \A i \in DOMAIN inoName : inoName[i] \in Names
  BY DEF MountTyped, SessionOK
<1>3. /\ DOMAIN nameIno' = DOMAIN nameIno \cup {n} /\ nameIno'[n] \in Nat
      /\ \A i \in DOMAIN inoName' : inoName'[i] \in Names
  BY <1>1, <1>2, AssignedInodes
<1>4. VolumeOK' /\ files'[n].id \in Nat
  <2>1. CASE There(n)
    BY <1>1, <2>1, VolumeKept, VolumeFacts DEF Create, MountTyped
  <2>2. CASE ~There(n)
    <3>1. files' = [files EXCEPT ![n] = [Absent EXCEPT !.id = made + 1]] /\ made' = made + 1
      BY <2>2 DEF Create
    <3>2. made \in Nat /\ made + 1 \in Nat /\ [Absent EXCEPT !.id = made + 1] \in LogFile
          /\ [Absent EXCEPT !.id = made + 1].id = made + 1
      <4>1. made \in Nat /\ made + 1 \in Nat
        BY VolumeFacts DEF MountTyped
      <4>2. NewLog(made + 1) \in LogFile /\ NewLog(made + 1).id = made + 1
        BY <4>1, NewLogType
      <4>3. QED
        BY <4>1, <4>2 DEF NewLog
    <3>3. /\ files' \in [Names -> LogFile] /\ files'[n].id = made + 1
          /\ \A m \in Names : m # n => files'[m] = files[m]
      BY <3>1, <3>2, VolumeFacts DEF MountTyped
    <3>4. QED
      BY <1>1, <3>1, <3>2, <3>3, VolumeStep, VolumeFacts DEF MountTyped
  <2>3. QED
    BY <2>1, <2>2
<1>5. SessionOK'
  BY <1>1, <1>2, <1>3, <1>4, NewHandle DEF MountTyped
<1>6. QED
  BY <1>1, <1>4, <1>5, FlusherKept DEF MountTyped

------------------------------------------------------------------------------
\* What a request does to a log and its sidecars, and then to the tables.
LEMMA GrainStep ==
    ASSUME VolumeOK, NEW n \in Names, NEW g \in Filters,
           sides' = [sides EXCEPT ![n].grain = g]
    PROVE  /\ sides' \in [Names -> [bark : Manifest, grain : Filters]]
           /\ sides'[n].grain = g /\ sides'[n].bark = sides[n].bark
           /\ \A m \in Names : m # n => sides'[m] = sides[m]
<1>1. sides \in [Names -> [bark : Manifest, grain : Filters]]
  BY VolumeFacts
<1>2. /\ sides'[n] = [sides[n] EXCEPT !.grain = g]
      /\ \A m \in Names : m # n => sides'[m] = sides[m]
      /\ DOMAIN sides' = Names
      /\ sides' = [m \in Names |-> sides'[m]]
  BY <1>1
<1>3. /\ sides'[n].grain = g /\ sides'[n].bark = sides[n].bark
      /\ sides'[n] \in [bark : Manifest, grain : Filters]
  BY <1>1, <1>2
<1>4. \A m \in Names : sides'[m] \in [bark : Manifest, grain : Filters]
  BY <1>1, <1>2, <1>3
<1>5. QED
  BY <1>2, <1>3, <1>4

LEMMA BarkStep ==
    ASSUME VolumeOK, NEW n \in Names, NEW b \in Manifest,
           sides' = [sides EXCEPT ![n].bark = b]
    PROVE  /\ sides' \in [Names -> [bark : Manifest, grain : Filters]]
           /\ \A m \in Names : sides'[m].grain = sides[m].grain
<1>1. sides \in [Names -> [bark : Manifest, grain : Filters]]
  BY VolumeFacts
<1>2. /\ sides'[n] = [sides[n] EXCEPT !.bark = b]
      /\ \A m \in Names : m # n => sides'[m] = sides[m]
      /\ DOMAIN sides' = Names
      /\ sides' = [m \in Names |-> sides'[m]]
  BY <1>1
<1>3. /\ sides'[n].grain = sides[n].grain
      /\ sides'[n] \in [bark : Manifest, grain : Filters]
  BY <1>1, <1>2
<1>4. \A m \in Names : sides'[m] \in [bark : Manifest, grain : Filters]
  BY <1>1, <1>2, <1>3
<1>5. QED
  BY <1>2, <1>3, <1>4

LEMMA NoBarkType == NoBark \in Manifest
BY DEF NoBark, Manifest

LEMMA TruncateTypes ==
    ASSUME MountTyped, NEW n \in Names, Truncate(n)
    PROVE  /\ MountTyped' /\ \A m \in Names : files'[m].id = files[m].id
           /\ files'[n].recs = <<>> /\ sides'[n].grain = NoGrain
           /\ \A m \in Names : m # n => files'[m] = files[m] /\ sides'[m] = sides[m]
<1> DEFINE f == [files[n] EXCEPT !.recs = <<>>, !.buf = <<>>]
<1>1. /\ files' = [files EXCEPT ![n] = f] /\ sides' = [sides EXCEPT ![n].grain = NoGrain]
      /\ UNCHANGED <<volume, tableVars, handle, request, flusherVars, written, made>>
  BY DEF Truncate, Restarted
<1>2. files[n] \in LogFile /\ files[n].id # 0 /\ files[n].id \in Nat /\ written \in Nat
  BY VolumeFacts DEF Truncate, There, MountTyped
<1>3. f \in LogFile /\ f.id = files[n].id /\ f.recs = <<>>
  BY <1>2, EmptySeq DEF LogFile
<1> HIDE DEF f
<1>4. VolumeOK' /\ \A m \in Names : files'[m].id = files[m].id
  BY <1>1, <1>2, <1>3, FilesStep, GrainStep, NoGrainType DEF MountTyped
<1>5. SessionOK' /\ FlusherOK'
  BY <1>1, SessionKept, FlusherKept DEF MountTyped, tableVars, SessionOK
<1>6. files'[n] = f /\ \A m \in Names : m # n => files'[m] = files[m]
  BY <1>1, VolumeFacts DEF MountTyped
<1>7. sides'[n].grain = NoGrain /\ \A m \in Names : m # n => sides'[m] = sides[m]
  BY <1>1, GrainStep, NoGrainType DEF MountTyped
<1>8. QED
  BY <1>3, <1>4, <1>5, <1>6, <1>7 DEF MountTyped

LEMMA UnlinkTypes ==
    ASSUME MountTyped, NEW n \in Names, Unlink(n)
    PROVE  /\ MountTyped' /\ files'[n] = Absent /\ sides'[n].grain = NoGrain
           /\ request' = [Served EXCEPT !.kind = "unlink", !.name = n]
           /\ request'.kind = "unlink" /\ request'.name = n
           /\ \A m \in Names : m # n => files'[m] = files[m] /\ sides'[m] = sides[m]
<1>1. /\ files' = [files EXCEPT ![n] = Absent]
      /\ sides' = [sides EXCEPT ![n] = [bark |-> NoBark, grain |-> NoGrain]]
      /\ request' = [Served EXCEPT !.kind = "unlink", !.name = n]
      /\ UNCHANGED <<volume, tableVars, handle, flusherVars, written, made>>
  BY DEF Unlink
<1>2. /\ files' \in [Names -> LogFile] /\ files'[n] = Absent
      /\ \A m \in Names : m # n => files'[m] = files[m]
  BY <1>1, VolumeFacts, AbsentType DEF MountTyped
<1>3. /\ sides' \in [Names -> [bark : Manifest, grain : Filters]] /\ sides'[n].grain = NoGrain
      /\ \A m \in Names : m # n => sides'[m] = sides[m]
  BY <1>1, VolumeFacts, NoGrainType, NoBarkType DEF MountTyped
<1>4. VolumeOK'
  BY <1>1, <1>2, <1>3, VolumeStep, VolumeFacts DEF MountTyped
<1>5. request' = [kind |-> "unlink", name |-> n, to |-> "log", cut |-> 0, new |-> FALSE]
  BY <1>1 DEF Served
<1>6. SessionOK'
  <2>1. UNCHANGED <<handle, nameIno, inoName>> /\ SessionOK
    BY <1>1 DEF tableVars, MountTyped
  <2>2. request' \in [kind : {"none", "unlink", "rename", "cuts", "rotated"}, name : Names,
                      to : Names, cut : Nat, new : BOOLEAN]
    BY <1>5 DEF Names
  <2>3. request'.kind # "none"
    BY <1>5
  <2>4. QED
    BY <2>1, <2>2, <2>3, SessionKept
<1>7. QED
  BY <1>1, <1>2, <1>3, <1>4, <1>5, <1>6, FlusherKept DEF MountTyped

LEMMA RenameTypes ==
    ASSUME MountTyped, NEW o \in Names, NEW n \in Names, Rename(o, n)
    PROVE  /\ MountTyped' /\ o # n /\ files'[o] = Absent /\ files'[n] = Flushed(files[o])
           /\ request'.kind = "rename" /\ request'.name = o /\ request'.to = n /\ request' # Served
           /\ sides' = MovedSides(o, n)
           /\ \A m \in Names : m \in {o, n}
<1>1. /\ files' = [files EXCEPT ![n] = Flushed(files[o]), ![o] = Absent]
      /\ sides' = MovedSides(o, n) /\ o # n /\ There(o)
      /\ request' = [Served EXCEPT !.kind = "rename", !.name = o, !.to = n]
      /\ UNCHANGED <<volume, tableVars, handle, flusherVars, written, made>>
  BY DEF Rename
<1>2. Flushed(files[o]) \in LogFile /\ Flushed(files[o]).id = files[o].id /\ files[o].id # 0
      /\ files[o].id <= made /\ \A m \in Names : m \in {o, n}
  BY <1>1, FlushedType, VolumeFacts DEF MountTyped, There, Names
<1>3. /\ files' \in [Names -> LogFile] /\ files'[o] = Absent /\ files'[n] = Flushed(files[o])
  BY <1>1, <1>2, VolumeFacts, AbsentType DEF MountTyped
<1>4. sides' \in [Names -> [bark : Manifest, grain : Filters]]
  BY <1>1, VolumeFacts, NoGrainType, NoBarkType DEF MountTyped, MovedSides
<1>5. VolumeOK'
  BY <1>1, <1>2, <1>3, <1>4, VolumeStep, VolumeFacts DEF MountTyped
<1>6. request' = [kind |-> "rename", name |-> o, to |-> n, cut |-> 0, new |-> FALSE]
  BY <1>1 DEF Served
<1>7. SessionOK'
  <2>1. UNCHANGED <<handle, nameIno, inoName>> /\ SessionOK
    BY <1>1 DEF tableVars, MountTyped
  <2>2. request' \in [kind : {"none", "unlink", "rename", "cuts", "rotated"}, name : Names,
                      to : Names, cut : Nat, new : BOOLEAN]
    BY <1>6
  <2>3. request'.kind # "none"
    BY <1>6
  <2>4. QED
    BY <2>1, <2>2, <2>3, SessionKept
<1>8. QED
  BY <1>1, <1>2, <1>3, <1>5, <1>6, <1>7, FlusherKept DEF MountTyped, Served

LEMMA RotateNothingTypes ==
    ASSUME MountTyped, NEW n \in Names, NEW to \in Names, RotateNothing(n, to)
    PROVE  /\ MountTyped' /\ n # to /\ n \in DOMAIN nameIno
           /\ UNCHANGED <<files, request>>
              \/ /\ request'.kind = "rotated" /\ request'.name = n /\ request'.to = to
                 /\ request' # Served /\ made' = made + 1
                 /\ \E makes \in {TRUE, ~Trouble("target")} :
                       files' = IF There(to) \/ ~makes THEN files
                                ELSE [files EXCEPT ![to] = [Absent EXCEPT !.id = made']]
<1>1. UNCHANGED <<volume, sides, tableVars, handle, flusherVars, written>> /\ n # to
      /\ n \in DOMAIN nameIno
  BY DEF RotateNothing
<1>2. CASE UNCHANGED <<files, request, made>>
  <2>1. VolumeOK'
    BY <1>1, <1>2, VolumeKept DEF MountTyped
  <2>2. SessionOK'
    BY <1>1, <1>2, SessionKept DEF MountTyped, tableVars, SessionOK
  <2>3. QED
    BY <1>1, <1>2, <2>1, <2>2, FlusherKept DEF MountTyped
<1>3. CASE ~UNCHANGED <<files, request, made>>
  <2>1. PICK makes \in {TRUE, ~Trouble("target")} :
            /\ request' = [Served EXCEPT !.kind = "rotated", !.name = n, !.to = to, !.new = ~There(to)]
            /\ made' = made + 1
            /\ files' = IF There(to) \/ ~makes THEN files
                        ELSE [files EXCEPT ![to] = [Absent EXCEPT !.id = made']]
    BY <1>3 DEF RotateNothing
  <2>2. made \in Nat /\ made + 1 \in Nat /\ [Absent EXCEPT !.id = made + 1] \in LogFile
        /\ [Absent EXCEPT !.id = made + 1].id = made + 1
    <3>1. made \in Nat /\ made + 1 \in Nat
      BY VolumeFacts DEF MountTyped
    <3>2. NewLog(made + 1) \in LogFile /\ NewLog(made + 1).id = made + 1
      BY <3>1, NewLogType
    <3>3. QED
      BY <3>1, <3>2 DEF NewLog
  <2>3. /\ files' \in [Names -> LogFile]
        /\ \A m \in Names : files'[m] = files[m] \/ files'[m].id = made + 1
    BY <2>1, <2>2, VolumeFacts DEF MountTyped
  <2>4. VolumeOK'
    BY <1>1, <2>1, <2>2, <2>3, VolumeStep, VolumeFacts DEF MountTyped
  <2>5. request' = [kind |-> "rotated", name |-> n, to |-> to, cut |-> 0, new |-> ~There(to)]
    BY <2>1 DEF Served
  <2>6. SessionOK'
    <3>1. UNCHANGED <<handle, nameIno, inoName>> /\ SessionOK
      BY <1>1 DEF tableVars, MountTyped
    <3>2. request' \in [kind : {"none", "unlink", "rename", "cuts", "rotated"}, name : Names,
                        to : Names, cut : Nat, new : BOOLEAN]
      BY <2>5 DEF There
    <3>3. request'.kind # "none"
      BY <2>5
    <3>4. QED
      BY <3>1, <3>2, <3>3, SessionKept
  <2>7. request' # Served /\ request'.kind = "rotated" /\ request'.name = n /\ request'.to = to
    BY <2>5 DEF Served
  <2>8. FlusherOK'
    BY <1>1, FlusherKept DEF MountTyped
  <2>9. QED
    BY <1>1, <2>1, <2>4, <2>6, <2>7, <2>8 DEF MountTyped
<1>4. QED
  BY <1>2, <1>3

\* What a rotation moves is gone from its source, and added to a target that is there by then.
Moves(n, to, k) ==
    /\ k \in Nat
    /\ request'.kind = "cuts" /\ request'.name = n /\ request'.cut = k /\ request' # Served
    /\ \E source \in LogFile :
          /\ Grows(files[n], source) /\ k \in 0 .. Len(source.recs)
          /\ files'[n] = Dropped(source, k)
    /\ \/ request'.to = n /\ files'[to] = files[to]
       \/ /\ request'.to = to /\ files'[to].id # 0
          /\ Len(files[to].recs) <= Len(files'[to].recs)
          /\ \A i \in 1 .. Len(files[to].recs) : files'[to].recs[i] = files[to].recs[i]
          /\ There(to) => files'[to].id = files[to].id

LEMMA RotateTypes ==
    ASSUME MountTyped, NEW n \in Names, NEW to \in Names, Rotate(n, to)
    PROVE  /\ MountTyped' /\ n # to /\ n \in DOMAIN nameIno /\ There(n) /\ sides' = sides
           /\ \A m \in Names : m \in {n, to}
           /\ \/ Moves(n, to, request'.cut)
              \/ request' = request /\ \A m \in Names : Grows(files[m], files'[m])
<1>1. /\ UNCHANGED <<volume, sides, tableVars, handle, flusherVars, written>> /\ n # to
      /\ n \in DOMAIN nameIno /\ There(n)
  BY DEF Rotate
<1>2. PICK flush \in BOOLEAN, k \in 1 .. MaxEntries, deletes \in BOOLEAN :
        LET source == IF flush THEN Flushed(files[n]) ELSE files[n]
            moved == SubSeq(source.recs, 1, k)
            target == IF There(to) THEN Flushed(files[to]) ELSE [Absent EXCEPT !.id = made + 1]
        IN  /\ k <= Len(source.recs)
            /\ deletes => There(to)
            /\ IF deletes
               THEN /\ files' = [files EXCEPT ![n] = Dropped(source, k)]
                    /\ gone' = gone \cup Range(FlattenSeq(moved)) /\ UNCHANGED made
                    /\ request' = [Served EXCEPT !.kind = "cuts", !.name = n, !.to = n, !.cut = k]
               ELSE /\ UNCHANGED gone /\ made' = made + 1
                    /\ IF FitsAfter(target, moved)
                       THEN /\ files' = [files EXCEPT ![n] = Dropped(source, k),
                                                      ![to] = [target EXCEPT !.recs = @ \o moved]]
                            /\ request' = [Served EXCEPT !.kind = "cuts", !.name = n, !.to = to,
                                                         !.cut = k, !.new = ~There(to)]
                       ELSE files' = [files EXCEPT ![n] = source, ![to] = target] /\ UNCHANGED request
  BY DEF Rotate
<1> DEFINE source == IF flush THEN Flushed(files[n]) ELSE files[n]
           moved == SubSeq(source.recs, 1, k)
           target == IF There(to) THEN Flushed(files[to]) ELSE [Absent EXCEPT !.id = made + 1]
           more == [target EXCEPT !.recs = @ \o moved]
<1>3. /\ k <= Len(source.recs) /\ (deletes => There(to))
      /\ deletes => /\ files' = [files EXCEPT ![n] = Dropped(source, k)] /\ UNCHANGED made
                    /\ request' = [Served EXCEPT !.kind = "cuts", !.name = n, !.to = n, !.cut = k]
      /\ ~deletes => made' = made + 1
      /\ ~deletes /\ FitsAfter(target, moved) =>
            /\ files' = [files EXCEPT ![n] = Dropped(source, k), ![to] = more]
            /\ request' = [Served EXCEPT !.kind = "cuts", !.name = n, !.to = to, !.cut = k,
                                         !.new = ~There(to)]
      /\ ~deletes /\ ~FitsAfter(target, moved) =>
            files' = [files EXCEPT ![n] = source, ![to] = target] /\ UNCHANGED request
  BY <1>2
<1>4. /\ made \in Nat /\ files \in [Names -> LogFile] /\ files[n] \in LogFile /\ files[to] \in LogFile
      /\ files[n].id # 0 /\ files[n].id <= made /\ files[to].id <= made /\ files[n].id \in Nat
      /\ files[to].id \in Nat /\ \A m \in Names : m \in {n, to}
      /\ There(to) <=> files[to].id # 0
      /\ ~There(to) => files[to] = Absent
  BY <1>1, VolumeFacts DEF MountTyped, There, Names
<1>5. source \in LogFile /\ Grows(files[n], source) /\ source.id = files[n].id
      /\ Len(files[n].recs) \in Nat /\ Len(source.recs) \in Nat /\ k \in Nat \ {0}
      /\ k \in 0 .. Len(source.recs) /\ k \in 1 .. Len(source.recs)
  <2>1. source \in LogFile /\ Grows(files[n], source)
    BY <1>4, FlushedGrows, GrowsItself
  <2>2. Len(files[n].recs) \in Nat /\ Len(source.recs) \in Nat
    BY <1>4, <2>1, GrowsItself
  <2> HIDE DEF source
  <2>3. QED
    BY <1>3, <2>1, <2>2 DEF Grows
<1>6. Dropped(source, k) \in LogFile /\ Dropped(source, k).id = files[n].id
  BY <1>5, DroppedType
<1>7. /\ target \in LogFile /\ Len(files[to].recs) \in Nat /\ target.id # 0 /\ target.id <= made + 1
      /\ Len(files[to].recs) <= Len(target.recs)
      /\ \A i \in 1 .. Len(files[to].recs) : target.recs[i] = files[to].recs[i]
      /\ There(to) => Grows(files[to], target)
      /\ ~There(to) => target = [Absent EXCEPT !.id = made + 1]
  <2>1. CASE There(to)
    <3>1. target = Flushed(files[to])
      BY <2>1
    <3>2. target \in LogFile /\ Grows(files[to], target) /\ Len(files[to].recs) \in Nat
      BY <1>4, <3>1, FlushedGrows, GrowsItself
    <3>3. QED
      <4>1. target.id = files[to].id
        BY <3>2 DEF Grows
      <4>2. target.id # 0 /\ target.id <= made + 1
        BY <1>4, <2>1, <4>1
      <4>3. QED
        BY <2>1, <3>2, <4>2 DEF Grows
  <2>2. CASE ~There(to)
    <3>1. target = NewLog(made + 1) /\ target = [Absent EXCEPT !.id = made + 1] /\ made + 1 \in Nat
      BY <1>4, <2>2 DEF NewLog
    <3>2. target \in LogFile /\ target.id = made + 1 /\ target.recs = <<>>
      BY <3>1, NewLogType
    <3>3. Len(files[to].recs) = 0 /\ files[to].recs = <<>>
      BY <1>4, <2>2, AbsentType
    <3>4. QED
      BY <1>4, <2>2, <3>1, <3>2, <3>3
  <2>3. QED
    BY <2>1, <2>2
<1> HIDE DEF source, target
<1>8. /\ more \in LogFile /\ more.id = target.id /\ moved[1][1] \in Nat
      /\ Len(target.recs) \in Nat /\ Len(target.recs) <= Len(more.recs)
      /\ \A i \in 1 .. Len(target.recs) : more.recs[i] = target.recs[i]
  BY <1>5, <1>7, MovedType
<1> HIDE DEF more, moved
<1>9. /\ Len(files[to].recs) <= Len(more.recs)
      /\ \A i \in 1 .. Len(files[to].recs) : more.recs[i] = files[to].recs[i]
  BY <1>7, <1>8
<1>10. ~There(to) => FitsAfter(target, moved)
  <2>1. SUFFICES ASSUME ~There(to) PROVE FitsAfter(target, moved)
    OBVIOUS
  <2>2. Flushed(target).recs = <<>>
    <3>1. target = NewLog(made + 1) /\ made + 1 \in Nat
      BY <1>4, <1>7, <2>1 DEF NewLog
    <3>2. QED
      BY <3>1, NewLogType
  <2>3. FlattenSeq(Flushed(target).recs) = <<>>
    BY <2>2, EmptySeq DEF FlattenSeq
  <2>4. NewestIn(Flushed(target)) = 0
    BY <2>3 DEF NewestIn
  <2>5. QED
    BY <1>8, <2>4 DEF FitsAfter
<1>11. ASSUME deletes
       PROVE  VolumeOK' /\ (Moves(n, to, request'.cut)
                         \/ (request' = request /\ \A m \in Names : Grows(files[m], files'[m])))
  <2>1. /\ files' \in [Names -> LogFile] /\ files'[n] = Dropped(source, k) /\ files'[to] = files[to]
    BY <1>1, <1>3, <1>4, <1>6, <1>11
  <2>2. request' = [kind |-> "cuts", name |-> n, to |-> n, cut |-> k, new |-> FALSE]
    BY <1>3, <1>11 DEF Served
  <2>3. Moves(n, to, request'.cut)
    <3>1. request'.kind = "cuts" /\ request'.name = n /\ request'.cut = k /\ request' # Served
          /\ request'.to = n
      BY <2>2 DEF Served
    <3>2. QED
      BY <1>5, <2>1, <3>1 DEF Moves
  <2>4. VolumeOK'
    BY <1>1, <1>3, <1>4, <1>6, <1>11, <2>1, VolumeStep, VolumeFacts DEF MountTyped
  <2>5. QED
    BY <2>1, <2>2, <2>3, <2>4
<1>12. ASSUME ~deletes, FitsAfter(target, moved)
       PROVE  VolumeOK' /\ (Moves(n, to, request'.cut)
                         \/ (request' = request /\ \A m \in Names : Grows(files[m], files'[m])))
  <2>1. /\ files' \in [Names -> LogFile] /\ files'[n] = Dropped(source, k) /\ files'[to] = more
    BY <1>1, <1>3, <1>4, <1>6, <1>8, <1>12
  <2>2. request' = [kind |-> "cuts", name |-> n, to |-> to, cut |-> k, new |-> ~There(to)]
    BY <1>3, <1>12 DEF Served
  <2>3. Moves(n, to, request'.cut)
    <3>1. request'.kind = "cuts" /\ request'.name = n /\ request'.cut = k /\ request' # Served
          /\ request'.to = to
      BY <2>2 DEF Served
    <3>2. files'[to].id # 0 /\ (There(to) => files'[to].id = files[to].id)
      BY <1>7, <1>8, <2>1 DEF Grows
    <3>3. QED
      BY <1>5, <1>9, <2>1, <3>1, <3>2 DEF Moves
  <2>4. VolumeOK'
    <3>1. \A m \in Names : \/ files'[m] = files[m]
                           \/ files'[m].id <= made' /\ files'[m].id # 0
                           \/ files'[m] = Absent
      BY <1>1, <1>3, <1>4, <1>6, <1>7, <1>8, <1>12, <2>1, VolumeFacts DEF MountTyped
    <3>2. VolumeOK /\ volume' = volume /\ made' \in Nat /\ made <= made' /\ written' \in Nat
          /\ sides' \in [Names -> [bark : Manifest, grain : Filters]]
      BY <1>1, <1>3, <1>4, <1>6, <1>12, VolumeFacts DEF MountTyped
    <3>3. QED
      BY <2>1, <3>1, <3>2, VolumeStep
  <2>5. QED
    BY <2>1, <2>2, <2>3, <2>4
<1>13. ASSUME ~deletes, ~FitsAfter(target, moved)
       PROVE  VolumeOK' /\ (Moves(n, to, request'.cut)
                         \/ (request' = request /\ \A m \in Names : Grows(files[m], files'[m])))
  <2>1. files' \in [Names -> LogFile] /\ files'[n] = source /\ files'[to] = target /\ There(to)
        /\ request' = request
    BY <1>1, <1>3, <1>4, <1>5, <1>7, <1>10, <1>13
  <2>2. \A m \in Names : Grows(files[m], files'[m])
    BY <1>4, <1>5, <1>7, <2>1
  <2>3. VolumeOK'
    BY <1>1, <1>3, <1>4, <1>5, <1>7, <1>13, <2>1, VolumeStep, VolumeFacts DEF MountTyped
  <2>4. QED
    BY <2>1, <2>2, <2>3
<1>14. VolumeOK' /\ (Moves(n, to, request'.cut)
                     \/ (request' = request /\ \A m \in Names : Grows(files[m], files'[m])))
  BY <1>11, <1>12, <1>13
<1>15. SessionOK'
  <2>1. UNCHANGED <<handle, nameIno, inoName>> /\ SessionOK
    BY <1>1 DEF tableVars, MountTyped
  <2>2. /\ request' \in [kind : {"none", "unlink", "rename", "cuts", "rotated"}, name : Names,
                        to : Names, cut : Nat, new : BOOLEAN]
        /\ request'.kind = "none" => request' = Served
    <3>1. CASE request' = request
      BY <2>1, <3>1 DEF SessionOK
    <3>2. CASE request' = [kind |-> "cuts", name |-> n, to |-> n, cut |-> k, new |-> FALSE]
      BY <1>5, <3>2
    <3>3. CASE request' = [kind |-> "cuts", name |-> n, to |-> to, cut |-> k, new |-> ~There(to)]
      BY <1>5, <3>3 DEF There
    <3>4. QED
      BY <1>3, <3>1, <3>2, <3>3 DEF Served
  <2>3. QED
    BY <2>1, <2>2, SessionKept
<1>16. QED
  BY <1>1, <1>4, <1>14, <1>15, FlusherKept DEF MountTyped

LEMMA SessionEnds ==
    ASSUME SessionOK, handle' = handle, request' = Served, DOMAIN nameIno' \subseteq Names,
           \A i \in DOMAIN inoName' : inoName'[i] \in Names
    PROVE  SessionOK'
<1>1. Served \in [kind : {"none", "unlink", "rename", "cuts", "rotated"}, name : Names,
                  to : Names, cut : Nat, new : BOOLEAN]
  BY DEF Served, Names
<1>2. QED
  BY <1>1 DEF SessionOK, HandleOK

LEMMA UnlinkedTypes ==
    ASSUME MountTyped, Unlinked
    PROVE  MountTyped'
<1>1. UNCHANGED <<volume, files, sides, nextIno, handle, flusherVars, written, made>> /\ request' = Served
  BY DEF Unlinked
<1>2. DOMAIN nameIno' \subseteq Names /\ \A i \in DOMAIN inoName' : inoName'[i] \in Names
  BY DEF Unlinked, ForgetName, Without, MountTyped, SessionOK
<1>3. SessionOK'
  BY <1>1, <1>2, SessionEnds DEF MountTyped
<1>4. QED
  BY <1>1, <1>3, VolumeKept, FlusherKept DEF MountTyped

LEMMA RenamedTypes ==
    ASSUME MountTyped, Renamed
    PROVE  MountTyped'
<1>1. UNCHANGED <<volume, files, sides, nextIno, handle, flusherVars, written, made>> /\ request' = Served
  BY DEF Renamed
<1>2. request.to \in Names /\ DOMAIN nameIno \subseteq Names /\ \A i \in DOMAIN inoName : inoName[i] \in Names
  BY DEF MountTyped, SessionOK
<1>3. DOMAIN nameIno' \subseteq Names /\ \A i \in DOMAIN inoName' : inoName'[i] \in Names
  <2>1. CASE request.name \in DOMAIN nameIno
    BY <1>2, <2>1 DEF Renamed
  <2>2. CASE request.name \notin DOMAIN nameIno
    BY <1>2, <2>2 DEF Renamed, Without
  <2>3. QED
    BY <2>1, <2>2
<1>4. SessionOK'
  BY <1>1, <1>3, SessionEnds DEF MountTyped
<1>5. QED
  BY <1>1, <1>4, VolumeKept, FlusherKept DEF MountTyped

LEMMA CutFiltersTypes ==
    ASSUME MountTyped, CutFilters
    PROVE  /\ MountTyped' /\ files' = files /\ handle' = handle /\ request.name \in Names
           /\ request.cut \in Nat
           /\ sides'[request.name].grain = FiltersCut(sides[request.name].grain, request.cut, made')
           /\ \A m \in Names : m # request.name => sides'[m] = sides[m]
<1>1. /\ request.kind = "cuts" /\ made' = made + 1
      /\ sides' = [sides EXCEPT ![request.name].grain =
                                     FiltersCut(sides[request.name].grain, request.cut, made')]
      /\ request' = IF request.to = request.name THEN Served ELSE [request EXCEPT !.kind = "rotated"]
      /\ UNCHANGED <<volume, files, tableVars, handle, flusherVars, written>>
  BY DEF CutFilters
<1>2. /\ request.name \in Names /\ request.cut \in Nat
      /\ request \in [kind : {"none", "unlink", "rename", "cuts", "rotated"}, name : Names,
                      to : Names, cut : Nat, new : BOOLEAN]
  BY DEF MountTyped, SessionOK
<1>3. made \in Nat /\ made' \in Nat /\ sides[request.name].grain \in Filters
  BY <1>1, <1>2, VolumeFacts DEF MountTyped
<1>4. FiltersCut(sides[request.name].grain, request.cut, made') \in Filters
  BY <1>2, <1>3, FiltersCutType
<1>5. /\ sides' \in [Names -> [bark : Manifest, grain : Filters]]
      /\ sides'[request.name].grain = FiltersCut(sides[request.name].grain, request.cut, made')
      /\ \A m \in Names : m # request.name => sides'[m] = sides[m]
  BY <1>1, <1>2, <1>4, GrainStep DEF MountTyped
<1>6. VolumeOK'
  BY <1>1, <1>3, <1>5, VolumeStep, VolumeFacts DEF MountTyped
<1>7. SessionOK'
  <2>1. UNCHANGED <<handle, nameIno, inoName>> /\ SessionOK
    BY <1>1 DEF tableVars, MountTyped
  <2>2. CASE request.to = request.name
    BY <1>1, <2>1, <2>2, SessionEnds DEF SessionOK
  <2>3. CASE request.to # request.name
    <3>1. request' = [request EXCEPT !.kind = "rotated"]
      BY <1>1, <2>3
    <3>2. /\ request' \in [kind : {"none", "unlink", "rename", "cuts", "rotated"}, name : Names,
                           to : Names, cut : Nat, new : BOOLEAN]
          /\ request'.kind # "none"
      BY <1>2, <3>1
    <3>3. QED
      BY <2>1, <3>2, SessionKept
  <2>4. QED
    BY <2>2, <2>3
<1>8. QED
  BY <1>1, <1>2, <1>5, <1>6, <1>7, FlusherKept DEF MountTyped

LEMMA RotatedTypes ==
    ASSUME MountTyped, Rotated
    PROVE  MountTyped' /\ \A m \in Names : sides'[m].grain = sides[m].grain
<1>1. /\ UNCHANGED <<volume, files, handle, flusherVars, written>> /\ request' = Served
      /\ Assigned(request.to) /\ request.to \in Names
      /\ IF request.new
         THEN /\ made' = made + 1
              /\ sides' = [sides EXCEPT ![request.to].bark = [NoBark EXCEPT !.stamp = made']]
         ELSE UNCHANGED <<sides, made>>
  BY DEF Rotated, MountTyped, SessionOK
<1>2. DOMAIN nameIno \subseteq Names /\ \A i \in DOMAIN inoName : inoName[i] \in Names
  BY DEF MountTyped, SessionOK
<1>3. DOMAIN nameIno' \subseteq Names /\ \A i \in DOMAIN inoName' : inoName'[i] \in Names
  <2>1. CASE request.to \in DOMAIN nameIno
    BY <1>1, <1>2, <2>1 DEF Assigned, tableVars
  <2>2. CASE request.to \notin DOMAIN nameIno
    BY <1>1, <1>2, <2>2 DEF Assigned, With
  <2>3. QED
    BY <2>1, <2>2
<1>4. SessionOK'
  BY <1>1, <1>3, SessionEnds DEF MountTyped
<1>5. VolumeOK' /\ \A m \in Names : sides'[m].grain = sides[m].grain
  <2>1. CASE request.new
    <3>1. made \in Nat /\ made' = made + 1 /\ made' \in Nat
      BY <1>1, <2>1, VolumeFacts DEF MountTyped
    <3>2. [NoBark EXCEPT !.stamp = made'] \in Manifest
      BY <3>1 DEF NoBark, Manifest
    <3>3. /\ sides' \in [Names -> [bark : Manifest, grain : Filters]]
          /\ \A m \in Names : sides'[m].grain = sides[m].grain
      BY <1>1, <2>1, <3>2, BarkStep DEF MountTyped
    <3>4. QED
      BY <1>1, <3>1, <3>3, VolumeStep, VolumeFacts DEF MountTyped
  <2>2. CASE ~request.new
    BY <1>1, <2>2, VolumeKept DEF MountTyped
  <2>3. QED
    BY <2>1, <2>2
<1>6. QED
  BY <1>1, <1>4, <1>5, FlusherKept DEF MountTyped

LEMMA SetPolicyTypes ==
    ASSUME MountTyped, NEW n \in Names, SetPolicy(n)
    PROVE  MountTyped' /\ \A m \in Names : sides'[m].grain = sides[m].grain
<1>1. /\ made' = made + 1
      /\ UNCHANGED <<volume, files, tableVars, handle, request, flusherVars, written>>
  BY DEF SetPolicy
<1>2. PICK retains \in BOOLEAN, index \in BOOLEAN, legible \in BOOLEAN :
          sides' = [sides EXCEPT ![n].bark = [stamp |-> made', retains |-> retains,
                                              index |-> index, legible |-> legible]]
  BY DEF SetPolicy
<1>3. made \in Nat /\ made' \in Nat
  BY <1>1, VolumeFacts DEF MountTyped
<1>4. [stamp |-> made', retains |-> retains, index |-> index, legible |-> legible] \in Manifest
  BY <1>3 DEF Manifest
<1>5. /\ sides' \in [Names -> [bark : Manifest, grain : Filters]]
      /\ \A m \in Names : sides'[m].grain = sides[m].grain
  BY <1>2, <1>4, BarkStep DEF MountTyped
<1>6. VolumeOK'
  BY <1>1, <1>3, <1>5, VolumeStep, VolumeFacts DEF MountTyped
<1>7. SessionOK'
  BY <1>1, SessionKept DEF MountTyped, tableVars, SessionOK
<1>8. QED
  BY <1>1, <1>5, <1>6, <1>7, FlusherKept DEF MountTyped

------------------------------------------------------------------------------
\* The flusher.
LEMMA SessionSame ==
    ASSUME SessionOK, UNCHANGED <<tableVars, handle, request>>
    PROVE  SessionOK'
BY SessionKept DEF tableVars, SessionOK

LEMMA FlusherStep ==
    ASSUME FlusherOK, flusher' \in FlusherRecord, stamps' = stamps, lastGood' = lastGood,
           indexed' \in [Names -> Int]
    PROVE  FlusherOK'
BY DEF FlusherOK, FlusherRecord

LEMMA FlusherFacts ==
    ASSUME FlusherOK
    PROVE  /\ flusher \in FlusherRecord /\ indexed \in [Names -> Int] /\ stamps \in [Names -> Int]
           /\ lastGood \in [Names -> BOOLEAN] /\ flusher.name \in Names /\ flusher.out \in Filters
           /\ flusher.seen \in Seq(Chunk) /\ flusher.todo \in SUBSET Names
           /\ FirstOf(flusher.todo) \in Names
BY FirstOfType DEF FlusherOK, FlusherRecord

LEMMA AsleepType == Asleep \in FlusherRecord /\ Asleep.at = "sleeps"
BY NoGrainType, EmptySeq DEF Asleep, FlusherRecord, Names

LEMMA TickTypes ==
    ASSUME MountTyped, Tick \/ Doze
    PROVE  /\ MountTyped' /\ UNCHANGED <<files, sides, tableVars, handle, request>>
           /\ flusher'.at \in {"polls", "sleeps"}
<1>1. /\ UNCHANGED <<volume, files, sides, tableVars, handle, request, stamps, lastGood, indexed,
                     written, made>>
      /\ flusher' = Asleep \/ flusher' = [Asleep EXCEPT !.at = "polls", !.todo = Present]
  BY DEF Tick, Doze
<1>2. Present \in SUBSET Names
  BY DEF Present
<1>3. flusher' \in FlusherRecord /\ flusher'.at \in {"polls", "sleeps"}
  BY <1>1, <1>2, AsleepType DEF FlusherRecord
<1>4. FlusherOK'
  BY <1>1, <1>3, FlusherStep, FlusherFacts DEF MountTyped
<1>5. QED
  BY <1>1, <1>3, <1>4, SessionSame, VolumeKept DEF MountTyped

LEMMA ReadPolicyTypes ==
    ASSUME MountTyped, ReadPolicy
    PROVE  /\ MountTyped' /\ UNCHANGED <<files, sides, tableVars, handle, request>>
           /\ flusher'.at \in {"polls", "enforces"}
<1> DEFINE n == FirstOf(flusher.todo)
<1>1. /\ At("polls") /\ stamps' = [stamps EXCEPT ![n] = sides[n].bark.stamp]
      /\ lastGood' = [lastGood EXCEPT ![n] = Policy(n)]
      /\ flusher' = [flusher EXCEPT !.todo = @ \ {n}, !.name = n, !.at = IF Policy(n) THEN "enforces" ELSE @]
      /\ UNCHANGED <<volume, files, sides, tableVars, handle, request, indexed, written, made>>
  BY DEF ReadPolicy
<1>2. n \in Names /\ flusher \in FlusherRecord /\ flusher.at = "polls" /\ stamps \in [Names -> Int]
      /\ lastGood \in [Names -> BOOLEAN]
  BY <1>1, FlusherFacts DEF MountTyped, At
<1> HIDE DEF n
<1>3. sides[n].bark \in Manifest
  BY <1>2, VolumeFacts DEF MountTyped
<1>4. sides[n].bark.stamp \in Int /\ Policy(n) \in BOOLEAN
  BY <1>2, <1>3 DEF Manifest, Policy
<1>5. flusher' \in FlusherRecord /\ flusher'.at \in {"polls", "enforces"}
  BY <1>1, <1>2, <1>4 DEF FlusherRecord
<1>6. stamps' \in [Names -> Int] /\ lastGood' \in [Names -> BOOLEAN] /\ indexed' \in [Names -> Int]
  BY <1>1, <1>2, <1>4, FlusherFacts DEF MountTyped
<1>7. FlusherOK'
  BY <1>5, <1>6 DEF FlusherOK, FlusherRecord
<1>8. QED
  BY <1>1, <1>5, <1>7, SessionSame, VolumeKept DEF MountTyped

\* A log that has lost its first k chunks, and their filters.
Shed(n, k) ==
    /\ k \in 0 .. Len(files[n].recs)
    /\ files' = [files EXCEPT ![n] = Dropped(files[n], k)]
    /\ IF k = 0 THEN sides' = sides
       ELSE sides' = [sides EXCEPT ![n].grain = FiltersCut(@, k, made + 1)]

LEMMA EnforceTypes ==
    ASSUME MountTyped, Enforce
    PROVE  /\ MountTyped' /\ UNCHANGED <<tableVars, handle, request>>
           /\ flusher'.at = "polls" /\ MutexFree /\ flusher.name \in Names
           /\ UNCHANGED <<files, sides>> \/ \E k \in Nat : Shed(flusher.name, k)
           /\ \A m \in Names : files'[m].id = files[m].id
<1> DEFINE n == flusher.name
           f == files[n]
<1>1. /\ MutexFree /\ flusher' = [flusher EXCEPT !.at = "polls"]
      /\ UNCHANGED <<volume, tableVars, handle, request, stamps, lastGood, indexed, written>>
  BY DEF Enforce
<1>2. flusher.name \in Names /\ flusher \in FlusherRecord /\ indexed \in [Names -> Int]
      /\ made \in Nat /\ made + 1 \in Nat /\ made <= made + 1
  BY FlusherFacts, VolumeFacts DEF MountTyped
<1>3. flusher' \in FlusherRecord /\ flusher'.at = "polls"
  BY <1>1, <1>2 DEF FlusherRecord
<1>4. FlusherOK'
  BY <1>1, <1>2, <1>3, FlusherStep DEF MountTyped
<1>5. ASSUME f.recs = <<>>
      PROVE  VolumeOK' /\ UNCHANGED <<files, sides>>
  <2>1. UNCHANGED <<files, sides, made>>
    BY <1>5 DEF Enforce
  <2>2. QED
    BY <1>1, <2>1, VolumeKept DEF MountTyped
<1>6. ASSUME f.recs # <<>>
      PROVE  VolumeOK' /\ (\E k \in Nat : Shed(n, k)) /\ \A m \in Names : files'[m].id = files[m].id
  <2>1. PICK k \in 0 .. Len(f.recs) :
            /\ files' = [files EXCEPT ![n] = Dropped(f, k)]
            /\ IF k = 0 THEN UNCHANGED <<sides, made>>
               ELSE /\ sides' = [sides EXCEPT ![n].grain = FiltersCut(@, k, made + 1)]
                    /\ made' = made + 1
    BY <1>6 DEF Enforce
  <2>2. files \in [Names -> LogFile] /\ f \in LogFile /\ f.id \in Nat /\ f.id <= made
        /\ (f.id = 0 => f = Absent) /\ sides[n].grain \in Filters
    BY <1>2, VolumeFacts DEF MountTyped, There
  <2>3. f.id # 0
    BY <1>6, <2>2, AbsentType
  <2>4. Dropped(f, k) \in LogFile /\ Dropped(f, k).id = f.id /\ Len(f.recs) \in Nat
    BY <2>2, DroppedType
  <2>5. k \in Nat /\ FiltersCut(sides[n].grain, k, made + 1) \in Filters
    <3>1. k \in Nat
      BY <2>4
    <3>2. QED
      BY <1>2, <2>2, <3>1, FiltersCutType
  <2>6. sides' \in [Names -> [bark : Manifest, grain : Filters]] /\ made' \in {made, made + 1}
    BY <1>2, <2>1, <2>5, GrainStep, VolumeFacts DEF MountTyped
  <2>7. /\ files' \in [Names -> LogFile] /\ files'[n] = Dropped(f, k)
        /\ \A m \in Names : m # n => files'[m] = files[m]
    BY <1>2, <2>1, <2>2, <2>4
  <2>8. made' \in Nat /\ made <= made' /\ f.id <= made'
    BY <1>2, <2>2, <2>6
  <2>9. VolumeOK'
    BY <1>1, <2>3, <2>4, <2>6, <2>7, <2>8, VolumeStep, VolumeFacts DEF MountTyped
  <2>10. Shed(n, k)
    BY <2>1 DEF Shed
  <2>11. QED
    BY <2>4, <2>5, <2>7, <2>9, <2>10
<1>7. QED
  BY <1>1, <1>2, <1>3, <1>4, <1>5, <1>6, SessionSame DEF MountTyped

LEMMA FlushAgedTypes ==
    ASSUME MountTyped, FlushAged \/ FlushAll
    PROVE  /\ MountTyped' /\ UNCHANGED <<sides, tableVars, handle, request>>
           /\ flusher'.at \in {"counts", "exits"} /\ \A m \in Names : Grows(files[m], files'[m])
<1>1. /\ UNCHANGED <<volume, sides, tableVars, handle, request, stamps, lastGood, indexed, written, made>>
      /\ flusher' = [flusher EXCEPT !.at = "counts"] \/ flusher' = [flusher EXCEPT !.at = "exits"]
      /\ \E aged \in SUBSET Names :
             files' = [n \in Names |-> IF n \in aged THEN Flushed(files[n]) ELSE files[n]]
  BY DEF FlushAged, FlushAll
<1>2. PICK aged \in SUBSET Names :
             files' = [n \in Names |-> IF n \in aged THEN Flushed(files[n]) ELSE files[n]]
  BY <1>1
<1>3. ASSUME NEW m \in Names
      PROVE  /\ files'[m] \in LogFile /\ Grows(files[m], files'[m])
             /\ files'[m] = files[m] \/ (files'[m].id <= made /\ files'[m].id # 0)
  <2>1. files[m] \in LogFile /\ files[m].id <= made /\ (files[m].id = 0 => files[m] = Absent)
    BY VolumeFacts DEF MountTyped, There
  <2>2. Flushed(files[m]) \in LogFile /\ Grows(files[m], Flushed(files[m]))
        /\ Grows(files[m], files[m])
    BY <2>1, FlushedGrows, GrowsItself
  <2>3. CASE files[m].id = 0
    BY <1>2, <2>1, <2>2, <2>3, AbsentType
  <2>4. CASE files[m].id # 0
    BY <1>2, <2>1, <2>2, <2>4 DEF Grows
  <2>5. QED
    BY <2>3, <2>4
<1>4. files' \in [Names -> LogFile]
  BY <1>2, <1>3
<1>5. VolumeOK'
  BY <1>1, <1>3, <1>4, VolumeStep, VolumeFacts DEF MountTyped
<1>6. flusher' \in FlusherRecord /\ flusher'.at \in {"counts", "exits"}
  BY <1>1, FlusherFacts DEF FlusherRecord, MountTyped
<1>7. FlusherOK'
  BY <1>1, <1>6, FlusherStep, FlusherFacts DEF MountTyped
<1>8. QED
  BY <1>1, <1>3, <1>5, <1>6, <1>7, SessionSame DEF MountTyped

LEMMA CountsTypes ==
    ASSUME MountTyped, Counts
    PROVE  /\ MountTyped' /\ UNCHANGED <<files, sides, tableVars, handle, request>>
           /\ flusher'.at = "indexes"
<1>1. /\ UNCHANGED <<volume, files, sides, tableVars, handle, request, stamps, lastGood, written, made>>
      /\ indexed' = [n \in Names |-> IF There(n) THEN indexed[n] ELSE -1]
      /\ flusher' = [flusher EXCEPT !.at = "indexes", !.counts = [n \in Names |-> ChunkCount(n)],
                                    !.todo = {n \in Present : indexed[n] # ChunkCount(n)}]
  BY DEF Counts
<1>2. \A n \in Names : ChunkCount(n) \in Int
  BY VolumeFacts, LenProperties DEF ChunkCount, MountTyped, LogFile
<1>3. /\ [n \in Names |-> ChunkCount(n)] \in [Names -> Int]
      /\ {n \in Present : indexed[n] # ChunkCount(n)} \in SUBSET Names
      /\ indexed' \in [Names -> Int]
  BY <1>1, <1>2, FlusherFacts DEF Present, MountTyped
<1>4. flusher' \in FlusherRecord /\ flusher'.at = "indexes"
  BY <1>1, <1>3, FlusherFacts DEF FlusherRecord, MountTyped
<1>5. FlusherOK'
  BY <1>1, <1>3, <1>4, FlusherStep DEF MountTyped
<1>6. QED
  BY <1>1, <1>4, <1>5, SessionSame, VolumeKept DEF MountTyped

LEMMA OpenGrainTypes ==
    ASSUME MountTyped, OpenGrain
    PROVE  /\ MountTyped' /\ UNCHANGED <<files, sides, tableVars, handle, request>>
           /\ flusher'.at \in {"indexes", "reads"} /\ flusher'.name \in Names
           /\ flusher'.out = sides[flusher'.name].grain
<1> DEFINE n == FirstOf(flusher.todo)
<1>1. /\ UNCHANGED <<volume, files, sides, tableVars, handle, request, stamps, lastGood, indexed,
                     written, made>>
      /\ At("indexes")
      /\ flusher' = [flusher EXCEPT !.todo = @ \ {n}, !.name = n, !.out = sides[n].grain,
                                    !.at = IF sides[n].bark.index THEN "reads" ELSE @]
  BY DEF OpenGrain
<1>2. n \in Names /\ flusher \in FlusherRecord /\ flusher.at = "indexes"
  BY <1>1, FlusherFacts DEF MountTyped, At
<1> HIDE DEF n
<1>3. sides[n].grain \in Filters
  BY <1>2, VolumeFacts DEF MountTyped
<1>4. flusher' \in FlusherRecord /\ flusher'.at \in {"indexes", "reads"} /\ flusher'.name = n
      /\ flusher'.out = sides[n].grain
  BY <1>1, <1>2, <1>3 DEF FlusherRecord
<1>5. FlusherOK'
  BY <1>1, <1>4, FlusherStep, FlusherFacts DEF MountTyped
<1>6. QED
  BY <1>1, <1>2, <1>4, <1>5, SessionSame, VolumeKept DEF MountTyped

LEMMA ReadChunksTypes ==
    ASSUME MountTyped, ReadChunks
    PROVE  /\ MountTyped' /\ UNCHANGED <<files, sides, tableVars, handle, request>> /\ At("reads")
           /\ flusher'.name = flusher.name /\ flusher.name \in Names
           /\ \/ flusher'.at = "indexes"
              \/ /\ flusher'.at = "installs" /\ flusher'.seen = files[flusher.name].recs
                 /\ flusher'.out = IF Len(flusher.out.filters) > Len(files[flusher.name].recs)
                                   THEN NoGrain ELSE flusher.out
<1> DEFINE n == flusher.name
           all == files[n].recs
           covers == Len(flusher.out.filters)
<1>1. /\ UNCHANGED <<volume, files, sides, tableVars, handle, request, stamps, lastGood, indexed,
                     written, made>>
      /\ At("reads")
      /\ flusher' = IF ~There(n) THEN [flusher EXCEPT !.at = "indexes"]
                    ELSE [flusher EXCEPT !.at = "installs", !.seen = all,
                                         !.out = IF covers > Len(all) THEN NoGrain ELSE @]
  BY DEF ReadChunks
<1>2. n \in Names /\ flusher \in FlusherRecord /\ all \in Seq(Chunk)
  BY FlusherFacts, VolumeFacts DEF MountTyped, LogFile
<1> HIDE DEF n, all, covers
<1>3. /\ flusher' \in FlusherRecord /\ flusher'.name = flusher.name
      /\ \/ flusher'.at = "indexes"
         \/ /\ flusher'.at = "installs" /\ flusher'.seen = all
            /\ flusher'.out = IF covers > Len(all) THEN NoGrain ELSE flusher.out
  <2>1. CASE There(n)
    BY <1>1, <1>2, <2>1, NoGrainType DEF FlusherRecord
  <2>2. CASE ~There(n)
    BY <1>1, <1>2, <2>2 DEF FlusherRecord
  <2>3. QED
    BY <2>1, <2>2
<1>4. FlusherOK'
  BY <1>1, <1>3, FlusherStep, FlusherFacts DEF MountTyped
<1>5. QED
  BY <1>1, <1>2, <1>3, <1>4, SessionSame, VolumeKept DEF MountTyped, n, all, covers

\* What an extension leaves: filters of the chunks it has seen, or those of somebody else.
LEMMA InstalledType ==
    ASSUME MountTyped
    PROVE  /\ Installed \in Filters
           /\ Covers(flusher.out, flusher.seen) =>
                 Installed = sides[flusher.name].grain \/ Covers(Installed, flusher.seen)
<1> DEFINE out == flusher.out
           seen == flusher.seen
           more == SubSeq(seen, Len(out.filters) + 1, Len(seen))
<1>1. /\ flusher.name \in Names /\ out \in Filters /\ seen \in Seq(Chunk) /\ made + 1 \in Nat
      /\ sides[flusher.name].grain \in Filters /\ out.filters \in Seq(Chunk)
      /\ Len(out.filters) \in Nat /\ Len(seen) \in Nat /\ Len(out.filters) + 1 \in Nat \ {0}
  <2>1. /\ flusher.name \in Names /\ out \in Filters /\ seen \in Seq(Chunk) /\ made \in Nat
    BY FlusherFacts, VolumeFacts DEF MountTyped
  <2>2. sides[flusher.name].grain \in Filters
    BY <2>1, VolumeFacts DEF MountTyped
  <2>3. out.filters \in Seq(Chunk)
    BY <2>1 DEF Filters
  <2>4. Len(out.filters) \in Nat /\ Len(seen) \in Nat
    BY <2>1, <2>3, LenProperties
  <2>5. QED
    BY <2>1, <2>2, <2>3, <2>4
<1>2. /\ more \in Seq(Chunk)
      /\ Len(more) = IF Len(out.filters) + 1 <= Len(seen)
                     THEN Len(seen) - (Len(out.filters) + 1) + 1 ELSE 0
      /\ \A i \in 1 .. Len(seen) - (Len(out.filters) + 1) + 1 :
             more[i] = seen[Len(out.filters) + 1 + i - 1]
  BY <1>1, SuffixIsSeq
<1>3. Installed = IF out = NoGrain THEN [ino |-> made + 1, filters |-> seen]
                  ELSE IF sides[flusher.name].grain.ino = out.ino THEN [out EXCEPT !.filters = @ \o more]
                  ELSE sides[flusher.name].grain
  BY DEF Installed
<1> HIDE DEF out, seen, more
<1>4. /\ out.filters \o more \in Seq(Chunk) /\ Len(out.filters \o more) = Len(out.filters) + Len(more)
      /\ \A i \in 1 .. Len(out.filters) + Len(more) :
             (out.filters \o more)[i] = IF i <= Len(out.filters) THEN out.filters[i]
                                        ELSE more[i - Len(out.filters)]
  BY <1>1, <1>2, ConcatProperties
<1>5. CASE out = NoGrain
  BY <1>1, <1>3, <1>5 DEF Filters, Covers, seen
<1>6. CASE out # NoGrain /\ sides[flusher.name].grain.ino = out.ino
  <2>1. Installed \in Filters /\ Installed.filters = out.filters \o more
    BY <1>1, <1>3, <1>4, <1>6 DEF Filters
  <2>2. ASSUME Covers(out, seen) PROVE Covers(Installed, seen)
    <3>1. Len(out.filters) <= Len(seen) /\ \A i \in 1 .. Len(out.filters) : out.filters[i] = seen[i]
      BY <2>2 DEF Covers
    <3>2. Len(more) = Len(seen) - Len(out.filters)
      <4>1. \A a, b \in Nat : a <= b => (IF a + 1 <= b THEN b - (a + 1) + 1 ELSE 0) = b - a
        OBVIOUS
      <4>2. QED
        BY <1>1, <1>2, <3>1, <4>1
    <3>3. Len(Installed.filters) = Len(seen)
      BY <1>1, <1>4, <2>1, <3>2
    <3>4. ASSUME NEW i \in 1 .. Len(seen) PROVE Installed.filters[i] = seen[i]
      <4>1. i \in 1 .. Len(out.filters) + Len(more)
        BY <1>1, <3>2
      <4>2. CASE i <= Len(out.filters)
        BY <1>1, <1>4, <2>1, <3>1, <4>1, <4>2
      <4>3. CASE ~(i <= Len(out.filters))
        <5>1. i - Len(out.filters) \in 1 .. Len(seen) - (Len(out.filters) + 1) + 1
              /\ Len(out.filters) + 1 + (i - Len(out.filters)) - 1 = i
          <6>1. \A a, b \in Nat : \A j \in 1 .. b : ~(j <= a) =>
                    j - a \in 1 .. b - (a + 1) + 1 /\ a + 1 + (j - a) - 1 = j
            OBVIOUS
          <6>2. QED
            BY <1>1, <4>3, <6>1
        <5>2. more[i - Len(out.filters)] = seen[i]
          BY <1>2, <5>1
        <5>3. QED
          BY <1>4, <2>1, <4>1, <4>3, <5>2
      <4>4. QED
        BY <4>2, <4>3
    <3>5. QED
      BY <1>1, <3>3, <3>4 DEF Covers
  <2>3. QED
    BY <2>1, <2>2 DEF out, seen
<1>7. CASE out # NoGrain /\ sides[flusher.name].grain.ino # out.ino
  BY <1>1, <1>3, <1>7
<1>8. QED
  BY <1>5, <1>6, <1>7

LEMMA InstallTypes ==
    ASSUME MountTyped, Install
    PROVE  /\ MountTyped' /\ UNCHANGED <<files, tableVars, handle, request>> /\ At("installs")
           /\ flusher'.at = "indexes" /\ flusher.name \in Names
           /\ sides' = sides \/ sides' = [sides EXCEPT ![flusher.name].grain = Installed]
<1> DEFINE n == flusher.name
<1>1. /\ UNCHANGED <<volume, files, tableVars, handle, request, stamps, lastGood, written>>
      /\ At("installs")
      /\ flusher' = [flusher EXCEPT !.at = "indexes", !.out = NoGrain, !.seen = <<>>]
      /\ \/ /\ sides' = [sides EXCEPT ![n].grain = Installed]
            /\ made' = IF flusher.out = NoGrain THEN made + 1 ELSE made
            /\ indexed' = [indexed EXCEPT ![n] = flusher.counts[n]]
         \/ UNCHANGED <<sides, made, indexed>>
  BY DEF Install
<1>2. n \in Names /\ flusher \in FlusherRecord /\ indexed \in [Names -> Int] /\ Installed \in Filters
      /\ made \in Nat
  BY FlusherFacts, VolumeFacts, InstalledType DEF MountTyped
<1>3. flusher.counts[n] \in Int
  BY <1>2 DEF FlusherRecord
<1>4. flusher' \in FlusherRecord /\ flusher'.at = "indexes"
  BY <1>1, <1>2, NoGrainType, EmptySeq DEF FlusherRecord
<1>5. indexed' \in [Names -> Int] /\ made' \in Nat /\ made <= made'
  BY <1>1, <1>2, <1>3
<1>6. FlusherOK'
  BY <1>1, <1>4, <1>5, FlusherStep DEF MountTyped
<1>7. sides' \in [Names -> [bark : Manifest, grain : Filters]]
  BY <1>1, <1>2, GrainStep, VolumeFacts DEF MountTyped
<1>8. VolumeOK'
  BY <1>1, <1>5, <1>7, VolumeStep, VolumeFacts DEF MountTyped
<1>9. QED
  BY <1>1, <1>2, <1>4, <1>6, <1>8, SessionSame DEF MountTyped

------------------------------------------------------------------------------
\* A mount gives the logs it finds inodes from 2 on.
NumberedRight(names, f) ==
    /\ f \in [names -> 2 .. 1 + Cardinality(names)]
    /\ \A m, n \in names : m # n => f[m] # f[n]

LEMMA NumberedType ==
    ASSUME NEW names \in SUBSET Names
    PROVE  NumberedRight(names, Numbered(names)) /\ Cardinality(names) \in Nat
<1>1. names \in {{}, {"log"}, {"old"}, {"log", "old"}}
  BY DEF Names
<1>2. Cardinality(names) \in Nat /\ \E f : NumberedRight(names, f)
  <2>1. CASE names = {}
    <3>1. Cardinality(names) = 0
      BY <2>1, FS_EmptySet
    <3>2. NumberedRight(names, [n \in names |-> 2])
      BY <2>1, <3>1 DEF NumberedRight
    <3>3. QED
      BY <3>1, <3>2
  <2>2. ASSUME NEW a, names = {a} PROVE Cardinality(names) \in Nat /\ \E f : NumberedRight(names, f)
    <3>1. Cardinality(names) = 1
      BY <2>2, FS_Singleton
    <3>2. NumberedRight(names, [n \in names |-> 2])
      BY <2>2, <3>1 DEF NumberedRight
    <3>3. QED
      BY <3>1, <3>2
  <2>3. CASE names = {"log", "old"}
    <3>1. IsFiniteSet({"log"}) /\ Cardinality({"log"}) = 1 /\ "old" \notin {"log"}
      BY FS_Singleton
    <3>2. Cardinality({"log"} \cup {"old"}) = 2
      BY <3>1, FS_AddElement
    <3>3. Cardinality(names) = 2
      <4>1. names = {"log"} \cup {"old"}
        BY <2>3
      <4>2. QED
        BY <3>2, <4>1
    <3>4. NumberedRight(names, [n \in names |-> IF n = "log" THEN 2 ELSE 3])
      BY <2>3, <3>3 DEF NumberedRight
    <3>5. QED
      BY <3>3, <3>4
  <2>4. QED
    BY <1>1, <2>1, <2>2, <2>3
<1>3. Numbered(names) = CHOOSE f : NumberedRight(names, f)
  BY DEF Numbered, NumberedRight
<1>4. QED
  BY <1>2, <1>3

LEMMA NumberedTables ==
    ASSUME NEW names \in SUBSET Names, NEW f, f = Numbered(names), NEW g, g = NamesOf(f)
    PROVE  /\ DOMAIN f = names /\ 2 + Cardinality(names) \in Nat
           /\ f = [n \in DOMAIN f |-> f[n]] /\ g = [i \in DOMAIN g |-> g[i]]
           /\ \A n \in DOMAIN f : f[n] \in DOMAIN g /\ g[f[n]] = n
           /\ \A i \in DOMAIN g : /\ i \in Nat /\ i < 2 + Cardinality(names)
                                  /\ g[i] \in DOMAIN f /\ f[g[i]] = i
<1>1. /\ f \in [names -> 2 .. 1 + Cardinality(names)] /\ Cardinality(names) \in Nat
      /\ \A m, n \in names : m # n => f[m] # f[n]
  BY NumberedType DEF NumberedRight
<1>2. g = [i \in Range(f) |-> CHOOSE n \in DOMAIN f : f[n] = i]
  BY DEF NamesOf
<1>3. DOMAIN f = names /\ DOMAIN g = {f[n] : n \in names}
  BY <1>1, <1>2 DEF Range
<1>4. ASSUME NEW i \in DOMAIN g PROVE g[i] \in names /\ f[g[i]] = i
  <2>1. \E n \in DOMAIN f : f[n] = i
    BY <1>3
  <2>2. g[i] = CHOOSE n \in DOMAIN f : f[n] = i
    BY <1>2
  <2>3. QED
    BY <1>3, <2>1, <2>2
<1>5. ASSUME NEW n \in names PROVE f[n] \in DOMAIN g /\ g[f[n]] = n
  <2>1. f[n] \in DOMAIN g
    BY <1>3
  <2>2. QED
    BY <1>1, <1>4, <2>1
<1>6. ASSUME NEW i \in DOMAIN g PROVE i \in Nat /\ i < 2 + Cardinality(names)
  <2>1. PICK n \in names : i = f[n]
    BY <1>3
  <2>2. i \in 2 .. 1 + Cardinality(names)
    BY <1>1, <2>1
  <2>3. QED
    BY <1>1, <2>2
<1>7. QED
  BY <1>1, <1>2, <1>3, <1>4, <1>5, <1>6

LEMMA NotHeldType == NotHeld.ino = 0 /\ NotHeld.of = 0 /\ NotHeld.open = FALSE
BY DEF NotHeld

LEMMA RemountTypes ==
    ASSUME MountTyped, Remount
    PROVE  /\ MountTyped' /\ TablesInverse' /\ DOMAIN nameIno' = Present /\ request' = Served
           /\ sides' = sides /\ flusher' = Asleep /\ request.kind # "cuts"
           /\ \A h \in Handles : handle'[h] = NotHeld
           /\ \A m \in Names : files'[m].id = files[m].id /\ files'[m].recs = files[m].recs
<1>1. /\ files' = [n \in Names |-> [files[n] EXCEPT !.buf = <<>>]]
      /\ nameIno' = Numbered(Present) /\ mirror' = nameIno' /\ inoName' = NamesOf(nameIno')
      /\ nextIno' = 2 + Cardinality(Present)
      /\ handle' = [h \in Handles |-> NotHeld] /\ request' = Served /\ flusher' = Asleep
      /\ stamps' = [n \in Names |-> -1] /\ lastGood' = [n \in Names |-> FALSE]
      /\ indexed' = [n \in Names |-> -1] /\ request.kind # "cuts"
      /\ UNCHANGED <<volume, sides, written, made>>
  BY DEF Remount, MutexFree
<1>2. Present \in SUBSET Names
  BY DEF Present
<1>3. TablesInverse' /\ DOMAIN nameIno' = Present
  BY <1>1, <1>2, NumberedTables DEF TablesInverse
<1>4. ASSUME NEW m \in Names
      PROVE  /\ files'[m] \in LogFile /\ files'[m].id = files[m].id /\ files'[m].recs = files[m].recs
             /\ files'[m] = Absent \/ (files'[m].id <= made' /\ files'[m].id # 0)
  <2>1. files[m] \in LogFile /\ files[m].id <= made /\ (files[m].id = 0 => files[m] = Absent)
    BY VolumeFacts DEF MountTyped, There
  <2>2. files'[m] = [files[m] EXCEPT !.buf = <<>>]
    BY <1>1
  <2>3. files'[m] \in LogFile /\ files'[m].id = files[m].id /\ files'[m].recs = files[m].recs
    BY <2>1, <2>2, EmptySeq DEF LogFile
  <2>4. files[m] = Absent => files'[m] = Absent
    BY <2>2 DEF Absent
  <2>5. QED
    BY <1>1, <2>1, <2>3, <2>4
<1>5. files' \in [Names -> LogFile]
  BY <1>1, <1>4
<1>6. VolumeOK'
  BY <1>1, <1>4, <1>5, VolumeStep, VolumeFacts DEF MountTyped
<1>7. SessionOK'
  <2>1. Served \in [kind : {"none", "unlink", "rename", "cuts", "rotated"}, name : Names,
                    to : Names, cut : Nat, new : BOOLEAN]
    BY DEF Served, Names
  <2>2. DOMAIN handle' = Handles /\ \A h \in Handles : HandleOK(h)'
    BY <1>1 DEF HandleOK, NotHeld
  <2>3. DOMAIN nameIno' \subseteq Names /\ \A i \in DOMAIN inoName' : inoName'[i] \in Names
    BY <1>2, <1>3 DEF TablesInverse
  <2>4. QED
    BY <1>1, <2>1, <2>2, <2>3 DEF SessionOK
<1>8. FlusherOK'
  <2>1. stamps' \in [Names -> Int] /\ lastGood' \in [Names -> BOOLEAN] /\ indexed' \in [Names -> Int]
    BY <1>1
  <2>2. QED
    BY <1>1, <2>1, AsleepType DEF FlusherOK, FlusherRecord
<1>9. QED
  BY <1>1, <1>3, <1>4, <1>6, <1>7, <1>8 DEF MountTyped

LEMMA InitTypes ==
    ASSUME MountInit
    PROVE  /\ MountTyped /\ TablesInverse /\ DOMAIN nameIno = Present /\ request = Served
           /\ flusher = Asleep /\ \A h \in Handles : handle[h] = NotHeld
           /\ \A m \in Names : sides[m].grain = NoGrain
<1>1. /\ volume \in Volumes
      /\ files = [n \in Names |-> IF n \in volume.logs
                                  THEN [Absent EXCEPT !.id = IF n = "log" THEN 1 ELSE 2] ELSE Absent]
      /\ sides = [n \in Names |->
                     [bark |-> IF n \in volume.retains \cup volume.indexes
                               THEN [stamp |-> IF n = "log" THEN 1 ELSE 2,
                                     retains |-> n \in volume.retains,
                                     index |-> n \in volume.indexes, legible |-> TRUE]
                               ELSE NoBark,
                      grain |-> NoGrain]]
      /\ nameIno = Numbered(volume.logs) /\ mirror = Numbered(volume.logs)
      /\ inoName = NamesOf(Numbered(volume.logs)) /\ nextIno = 2 + Cardinality(volume.logs)
      /\ handle = [h \in Handles |-> NotHeld] /\ request = Served /\ flusher = Asleep
      /\ stamps = [n \in Names |-> -1] /\ lastGood = [n \in Names |-> FALSE]
      /\ indexed = [n \in Names |-> -1]
      /\ written = 0 /\ made = 2
  BY DEF MountInit, Session
<1>2. volume.logs \in SUBSET Names
  BY <1>1, MountAssumption DEF Volume
<1>3. ASSUME NEW m \in Names
      PROVE  /\ files[m] \in LogFile /\ files[m].id <= 2 /\ (files[m].id = 0 => files[m] = Absent)
             /\ files[m].id # 0 <=> m \in volume.logs
  <2>1. CASE m \in volume.logs
    <3>1. files[m] = NewLog(1) \/ files[m] = NewLog(2)
      BY <1>1, <2>1 DEF NewLog
    <3>2. QED
      BY <2>1, <3>1, NewLogType
  <2>2. CASE m \notin volume.logs
    BY <1>1, <2>2, AbsentType
  <2>3. QED
    BY <2>1, <2>2
<1>4. files \in [Names -> LogFile] /\ Present = volume.logs
  <2>1. files \in [Names -> LogFile]
    BY <1>1, <1>3
  <2>2. QED
    BY <1>2, <1>3, <2>1 DEF Present, There
<1>5. sides \in [Names -> [bark : Manifest, grain : Filters]]
  BY <1>1, NoGrainType, NoBarkType DEF Manifest
<1>6. VolumeOK
  <2>1. /\ volume \in Volumes /\ made \in Nat /\ written \in Nat /\ made = 2
    BY <1>1
  <2>2. \A m \in Names : files[m].id <= made /\ (~There(m) => files[m] = Absent)
    BY <1>3, <2>1 DEF There
  <2>3. QED
    BY <1>4, <1>5, <2>1, <2>2 DEF VolumeOK
<1>7. TablesInverse /\ DOMAIN nameIno = volume.logs
  BY <1>1, <1>2, NumberedTables DEF TablesInverse
<1>8. SessionOK
  <2>1. Served \in [kind : {"none", "unlink", "rename", "cuts", "rotated"}, name : Names,
                    to : Names, cut : Nat, new : BOOLEAN]
    BY DEF Served, Names
  <2>2. DOMAIN handle = Handles /\ \A h \in Handles : HandleOK(h)
    BY <1>1 DEF HandleOK, NotHeld
  <2>3. DOMAIN nameIno \subseteq Names /\ \A i \in DOMAIN inoName : inoName[i] \in Names
    BY <1>2, <1>7 DEF TablesInverse
  <2>4. QED
    BY <1>1, <2>1, <2>2, <2>3 DEF SessionOK
<1>9. FlusherOK
  <2>1. stamps \in [Names -> Int] /\ lastGood \in [Names -> BOOLEAN] /\ indexed \in [Names -> Int]
    BY <1>1
  <2>2. QED
    BY <1>1, <2>1, AsleepType DEF FlusherOK, FlusherRecord
<1>10. QED
  BY <1>1, <1>4, <1>6, <1>7, <1>8, <1>9 DEF MountTyped

------------------------------------------------------------------------------
\* The tables: what the names and the inodes of a session are of.
LEMMA ServedTables ==
    ASSUME NEW q, q.kind \notin {"unlink", "rename"}, NEW n
    PROVE  Stands(q, n) = {n}
BY DEF Stands

LEMMA TablesStep ==
    ASSUME TablesInv, UNCHANGED <<tableVars, request>>, \A h \in Handles : SameHandle(h),
           \A m \in Names : files'[m].id = files[m].id,
           \A i \in DOMAIN inoName : inoName[i] \in Names, request.to \in Names
    PROVE  TablesInv'
<1>1. UNCHANGED <<inoName, nameIno, mirror, nextIno, request>>
  BY DEF tableVars
<1>2. TablesInverse' /\ RequestRight'
  BY <1>1 DEF TablesInv, TablesInverse, RequestRight
<1>3. Present' = Listed'
  BY <1>1 DEF TablesInv, Present, Listed, There
<1>4. ASSUME NEW h \in Handles, handle'[h] # NotHeld
      PROVE  /\ handle'[h].ino < nextIno'
             /\ handle'[h].ino \in DOMAIN inoName' =>
                    \A n \in Stands(request', inoName'[handle'[h].ino]) : files'[n].id = handle'[h].of
  <2>1. handle[h] # NotHeld /\ handle'[h].ino = handle[h].ino /\ handle'[h].of = handle[h].of
    BY <1>4 DEF SameHandle
  <2>2. /\ handle[h].ino < nextIno
        /\ handle[h].ino \in DOMAIN inoName =>
               \A n \in Stands(request, inoName[handle[h].ino]) : files[n].id = handle[h].of
    BY <2>1 DEF TablesInv, HandlesTrue
  <2>3. Stands(request', inoName'[handle'[h].ino]) = Stands(request, inoName[handle[h].ino])
    BY <1>1, <2>1
  <2>4. handle[h].ino \in DOMAIN inoName => Stands(request, inoName[handle[h].ino]) \subseteq Names
    BY DEF Stands
  <2>5. QED
    BY <1>1, <2>1, <2>2, <2>3, <2>4
<1>5. QED
  BY <1>2, <1>3, <1>4 DEF TablesInv, HandlesTrue

LEMMA LookupTables ==
    ASSUME MountTyped, TablesInv, NEW h \in Handles, NEW n \in Names, Lookup(h, n)
    PROVE  TablesInv'
<1>1. /\ request = Served /\ n \in DOMAIN nameIno
      /\ handle' = [handle EXCEPT ![h] = [ino |-> nameIno[n], of |-> files[n].id,
                                          at |-> AtEnd(h, files[n]), open |-> FALSE]]
      /\ UNCHANGED <<files, inoName, nameIno, mirror, nextIno, request>>
  BY DEF Lookup, Ready, tableVars
<1>2. TablesInverse' /\ RequestRight' /\ Present' = Listed'
  BY <1>1 DEF TablesInv, TablesInverse, RequestRight, Present, There, Listed
<1>3. DOMAIN handle = Handles
  BY DEF MountTyped, SessionOK
<1>4. ASSUME NEW j \in Handles, handle'[j] # NotHeld
      PROVE  /\ handle'[j].ino < nextIno'
             /\ handle'[j].ino \in DOMAIN inoName' =>
                    \A m \in Stands(request', inoName'[handle'[j].ino]) : files'[m].id = handle'[j].of
  <2>1. CASE j = h
    <3>1. handle'[j].ino = nameIno[n] /\ handle'[j].of = files[n].id
      BY <1>1, <1>3, <2>1
    <3>2. nameIno[n] < nextIno /\ nameIno[n] \in DOMAIN inoName /\ inoName[nameIno[n]] = n
      BY <1>1 DEF TablesInv, TablesInverse
    <3>3. Stands(request', inoName'[handle'[j].ino]) = {n}
      BY <1>1, <3>1, <3>2, ServedTables DEF Served
    <3>4. QED
      BY <1>1, <3>1, <3>2, <3>3
  <2>2. CASE j # h
    <3>1. handle'[j] = handle[j]
      BY <1>1, <1>3, <2>2
    <3>2. QED
      BY <1>1, <1>4, <3>1 DEF TablesInv, HandlesTrue
  <2>3. QED
    BY <2>1, <2>2
<1>5. QED
  BY <1>2, <1>4 DEF TablesInv, HandlesTrue

LEMMA CreateTables ==
    ASSUME MountTyped, TablesInv, NEW h \in Handles, NEW n \in Names, Create(h, n)
    PROVE  TablesInv'
<1>1. /\ request = Served /\ request' = request /\ Assigned(n)
      /\ n \notin DOMAIN nameIno \/ ~There(n)
      /\ handle' = [handle EXCEPT ![h] = [ino |-> nameIno'[n], of |-> files'[n].id, at |-> 0,
                                          open |-> TRUE]]
  BY DEF Create, Ask, Ready
<1>2. Present = DOMAIN nameIno
  BY <1>1 DEF TablesInv, Listed, Served
<1>3. n \notin DOMAIN nameIno /\ ~There(n)
  BY <1>1, <1>2 DEF Present
<1>4. /\ files' = [files EXCEPT ![n] = [Absent EXCEPT !.id = made + 1]] /\ made \in Nat
      /\ files \in [Names -> LogFile] /\ DOMAIN nameIno \subseteq Names /\ DOMAIN handle = Handles
      /\ \A i \in DOMAIN inoName : inoName[i] \in Names
  BY <1>3, VolumeFacts DEF Create, MountTyped, SessionOK
<1>5. files'[n].id # 0 /\ \A m \in Names : m # n => files'[m] = files[m]
  BY <1>4, VolumeFacts DEF Absent
<1>6. /\ TablesInverse' /\ DOMAIN nameIno' = DOMAIN nameIno \cup {n} /\ nextIno <= nextIno'
      /\ \A i \in DOMAIN inoName : i \in DOMAIN inoName' /\ inoName'[i] = inoName[i]
      /\ \A i \in DOMAIN inoName' : i \in DOMAIN inoName \/ (nextIno <= i /\ inoName'[i] = n)
      /\ nameIno'[n] \in Nat
  BY <1>1, <1>4, AssignedTables DEF TablesInv
<1>7. Present' = Listed' /\ RequestRight'
  <2>1. Listed' = DOMAIN nameIno'
    BY <1>1 DEF Listed, Served
  <2>2. Present' = Present \cup {n}
    BY <1>5 DEF Present, There
  <2>3. QED
    BY <1>1, <1>2, <1>6, <2>1, <2>2 DEF RequestRight, Served
<1>8. ASSUME NEW j \in Handles, handle'[j] # NotHeld
      PROVE  /\ handle'[j].ino < nextIno'
             /\ handle'[j].ino \in DOMAIN inoName' =>
                    \A m \in Stands(request', inoName'[handle'[j].ino]) : files'[m].id = handle'[j].of
  <2>1. \A m : Stands(request', m) = {m} /\ Stands(request, m) = {m}
    BY <1>1, ServedTables DEF Served
  <2>2. CASE j = h
    <3>1. handle'[j].ino = nameIno'[n] /\ handle'[j].of = files'[n].id
      BY <1>1, <1>4, <2>2
    <3>2. nameIno'[n] < nextIno' /\ inoName'[nameIno'[n]] = n
      BY <1>6 DEF TablesInverse
    <3>3. QED
      BY <2>1, <3>1, <3>2
  <2>3. CASE j # h
    <3>1. handle'[j] = handle[j] /\ HandleOK(j)
      BY <1>1, <1>4, <2>3 DEF MountTyped, SessionOK
    <3>2. /\ handle[j].ino < nextIno /\ handle[j].ino \in Nat /\ nextIno \in Nat /\ nextIno' \in Nat
          /\ handle[j].ino \in DOMAIN inoName =>
                 \A m \in Stands(request, inoName[handle[j].ino]) : files[m].id = handle[j].of
      BY <1>6, <1>8, <3>1 DEF TablesInv, HandlesTrue, HandleOK, TablesInverse
    <3>3. handle'[j].ino < nextIno'
      BY <1>6, <3>1, <3>2
    <3>4. ASSUME handle'[j].ino \in DOMAIN inoName'
          PROVE  files'[inoName'[handle'[j].ino]].id = handle'[j].of
      <4>1. handle[j].ino \in DOMAIN inoName
        BY <1>6, <3>1, <3>2, <3>4
      <4>2. inoName'[handle[j].ino] = inoName[handle[j].ino] /\ inoName[handle[j].ino] # n
            /\ inoName[handle[j].ino] \in Names
        BY <1>3, <1>4, <1>6, <4>1 DEF TablesInv, TablesInverse
      <4>3. QED
        BY <1>5, <2>1, <3>1, <3>2, <4>1, <4>2
    <3>5. QED
      BY <2>1, <3>3, <3>4
  <2>4. QED
    BY <2>2, <2>3
<1>9. QED
  BY <1>6, <1>7, <1>8 DEF TablesInv, HandlesTrue

LEMMA UnlinkTables ==
    ASSUME MountTyped, TablesInv, NEW n \in Names, Unlink(n)
    PROVE  TablesInv'
<1>1. /\ request = Served /\ There(n) /\ UNCHANGED <<inoName, nameIno, mirror, nextIno, handle>>
  BY DEF Unlink, Ask, Ready, tableVars
<1>2. /\ files'[n] = Absent /\ request'.kind = "unlink" /\ request'.name = n
      /\ \A m \in Names : m # n => files'[m] = files[m]
  BY UnlinkTypes
<1>3. Present = DOMAIN nameIno /\ n \in DOMAIN nameIno
  BY <1>1 DEF TablesInv, Listed, Served, Present
<1>4. Present' = Listed' /\ TablesInverse' /\ RequestRight'
  <2>1. Present' = Present \ {n}
    BY <1>2, AbsentType DEF Present, There
  <2>2. Listed' = DOMAIN nameIno' \ {n}
    BY <1>2 DEF Listed
  <2>3. TablesInverse'
    BY <1>1 DEF TablesInv, TablesInverse
  <2>4. QED
    BY <1>1, <1>2, <1>3, <2>1, <2>2, <2>3 DEF RequestRight
<1>5. HandlesTrue'
  <2>1. ASSUME NEW h \in Handles, handle[h] # NotHeld, handle[h].ino \in DOMAIN inoName,
               NEW m \in Stands(request', inoName[handle[h].ino])
        PROVE  files'[m].id = handle[h].of
    <3>1. inoName[handle[h].ino] \in Names /\ files[inoName[handle[h].ino]].id = handle[h].of
      BY <1>1, <2>1, ServedTables DEF TablesInv, HandlesTrue, Served, MountTyped, SessionOK
    <3>2. m = inoName[handle[h].ino] /\ m # n
      BY <1>2, <2>1 DEF Stands
    <3>3. QED
      BY <1>2, <3>1, <3>2
  <2>2. QED
    BY <1>1, <2>1 DEF TablesInv, HandlesTrue
<1>6. QED
  BY <1>4, <1>5 DEF TablesInv

LEMMA UnlinkedTables ==
    ASSUME MountTyped, TablesInv, Unlinked
    PROVE  TablesInv'
<1> DEFINE n == request.name
<1>1. /\ request.kind = "unlink" /\ request' = Served /\ n \in DOMAIN nameIno
      /\ inoName' = Without(inoName, {nameIno[n]})
      /\ nameIno' = Without(nameIno, {n}) /\ mirror' = Without(mirror, {n})
      /\ UNCHANGED <<files, nextIno, handle>>
  BY DEF Unlinked, ForgetName, TablesInv, RequestRight
<1>2. /\ nameIno' = [m \in DOMAIN nameIno \ {n} |-> nameIno[m]]
      /\ inoName' = [i \in DOMAIN inoName \ {nameIno[n]} |-> inoName[i]]
      /\ mirror' = nameIno'
  BY <1>1 DEF Without, TablesInv, TablesInverse
<1> HIDE DEF n
<1>3. TablesInverse'
  <2>1. nextIno' \in Nat /\ nameIno' = [m \in DOMAIN nameIno' |-> nameIno'[m]]
        /\ inoName' = [i \in DOMAIN inoName' |-> inoName'[i]]
    BY <1>1, <1>2 DEF TablesInv, TablesInverse
  <2>2. ASSUME NEW m \in DOMAIN nameIno'
        PROVE  nameIno'[m] \in DOMAIN inoName' /\ inoName'[nameIno'[m]] = m
    <3>1. m \in DOMAIN nameIno /\ m # n /\ nameIno'[m] = nameIno[m]
      BY <1>2, <2>2
    <3>2. nameIno[m] \in DOMAIN inoName /\ inoName[nameIno[m]] = m /\ nameIno[m] # nameIno[n]
      BY <1>1, <3>1 DEF TablesInv, TablesInverse
    <3>3. QED
      BY <1>2, <3>1, <3>2
  <2>3. ASSUME NEW i \in DOMAIN inoName'
        PROVE  i \in Nat /\ i < nextIno' /\ inoName'[i] \in DOMAIN nameIno' /\ nameIno'[inoName'[i]] = i
    <3>1. i \in DOMAIN inoName /\ i # nameIno[n] /\ inoName'[i] = inoName[i]
      BY <1>2, <2>3
    <3>2. /\ i \in Nat /\ i < nextIno /\ inoName[i] \in DOMAIN nameIno
          /\ nameIno[inoName[i]] = i /\ inoName[i] # n
      BY <3>1 DEF TablesInv, TablesInverse
    <3>3. QED
      BY <1>1, <1>2, <3>1, <3>2
  <2>4. QED
    BY <1>2, <2>1, <2>2, <2>3 DEF TablesInverse
<1>4. Present' = Listed' /\ RequestRight'
  <2>1. Present' = Present /\ Present = DOMAIN nameIno \ {n} /\ Listed' = DOMAIN nameIno'
    BY <1>1 DEF Present, There, TablesInv, Listed, Served, n
  <2>2. QED
    BY <1>1, <1>2, <2>1 DEF RequestRight, Served
<1>5. HandlesTrue'
  <2>1. ASSUME NEW h \in Handles, handle[h] # NotHeld, handle[h].ino \in DOMAIN inoName',
               NEW m \in Stands(request', inoName'[handle[h].ino])
        PROVE  files'[m].id = handle[h].of
    <3>1. handle[h].ino \in DOMAIN inoName /\ inoName'[handle[h].ino] = inoName[handle[h].ino]
          /\ handle[h].ino # nameIno[n]
      BY <1>2, <2>1
    <3>2. m = inoName[handle[h].ino]
      BY <1>1, <2>1, <3>1, ServedTables DEF Served
    <3>3. m # n
      BY <3>1, <3>2 DEF TablesInv, TablesInverse
    <3>4. m \in Stands(request, inoName[handle[h].ino])
      BY <1>1, <3>2, <3>3 DEF Stands, n
    <3>5. QED
      BY <1>1, <2>1, <3>1, <3>4 DEF TablesInv, HandlesTrue
  <2>2. QED
    BY <1>1, <2>1 DEF TablesInv, HandlesTrue
<1>6. QED
  BY <1>3, <1>4, <1>5 DEF TablesInv

LEMMA RenameTables ==
    ASSUME MountTyped, TablesInv, NEW o \in Names, NEW n \in Names, Rename(o, n)
    PROVE  TablesInv'
<1>1. /\ request = Served /\ There(o) /\ UNCHANGED <<inoName, nameIno, mirror, nextIno, handle>>
  BY DEF Rename, Ask, Ready, tableVars
<1>2. /\ files'[o] = Absent /\ files'[n] = Flushed(files[o]) /\ o # n
      /\ request'.kind = "rename" /\ request'.name = o /\ request'.to = n
      /\ \A m \in Names : m \in {o, n}
  BY RenameTypes
<1>3. Present = DOMAIN nameIno /\ o \in DOMAIN nameIno
  BY <1>1 DEF TablesInv, Listed, Served, Present
<1>4. files'[n].id = files[o].id /\ files[o].id # 0
  BY <1>1, <1>2, FlushedType, VolumeFacts DEF MountTyped
<1>5. Present' = Listed' /\ TablesInverse' /\ RequestRight'
  <2>1. Present' = {n}
    BY <1>2, <1>4, AbsentType DEF Present, There
  <2>2. Listed' = (DOMAIN nameIno' \cup {n}) \ {o}
    BY <1>2 DEF Listed
  <2>3. TablesInverse' /\ DOMAIN nameIno \subseteq Names
    BY <1>1 DEF TablesInv, TablesInverse, MountTyped, SessionOK
  <2>4. QED
    BY <1>1, <1>2, <1>3, <2>1, <2>2, <2>3 DEF RequestRight
<1>6. HandlesTrue'
  <2>1. ASSUME NEW h \in Handles, handle[h] # NotHeld, handle[h].ino \in DOMAIN inoName,
               NEW m \in Stands(request', inoName[handle[h].ino])
        PROVE  files'[m].id = handle[h].of
    <3>1. inoName[handle[h].ino] \in Names /\ files[inoName[handle[h].ino]].id = handle[h].of
      BY <1>1, <2>1, ServedTables DEF TablesInv, HandlesTrue, Served, MountTyped, SessionOK
    <3>2. m = n /\ inoName[handle[h].ino] = o
      BY <1>2, <2>1, <3>1 DEF Stands
    <3>3. QED
      BY <1>4, <3>1, <3>2
  <2>2. QED
    BY <1>1, <2>1 DEF TablesInv, HandlesTrue
<1>7. QED
  BY <1>5, <1>6 DEF TablesInv

LEMMA RenamedTables ==
    ASSUME MountTyped, TablesInv, Renamed
    PROVE  TablesInv'
<1> DEFINE o == request.name
           n == request.to
           over == IF n \in DOMAIN nameIno THEN {nameIno[n]} ELSE {}
<1>1. /\ request.kind = "rename" /\ request' = Served /\ o \in DOMAIN nameIno /\ o # n
      /\ nameIno' = [m \in (DOMAIN nameIno \cup {n}) \ {o} |-> IF m = n THEN nameIno[o] ELSE nameIno[m]]
      /\ inoName' = [i \in DOMAIN inoName \ over |-> IF i = nameIno[o] THEN n ELSE inoName[i]]
      /\ mirror' = [m \in (DOMAIN mirror \cup {n}) \ {o} |-> IF m = n THEN nameIno[o] ELSE mirror[m]]
      /\ UNCHANGED <<files, nextIno, handle>>
  BY DEF Renamed, TablesInv, RequestRight
<1>2. mirror' = nameIno'
  BY <1>1 DEF TablesInv, TablesInverse
<1>3. n \in Names /\ DOMAIN nameIno \subseteq Names /\ nameIno[o] \notin over
  BY <1>1 DEF MountTyped, SessionOK, TablesInv, TablesInverse
<1>4. \A i \in DOMAIN inoName : i \in over <=> inoName[i] = n
  BY DEF TablesInv, TablesInverse
<1> HIDE DEF o, n, over
<1>5. TablesInverse'
  <2>1. nextIno' \in Nat /\ nameIno' = [m \in DOMAIN nameIno' |-> nameIno'[m]]
        /\ inoName' = [i \in DOMAIN inoName' |-> inoName'[i]]
    BY <1>1 DEF TablesInv, TablesInverse
  <2>2. ASSUME NEW m \in DOMAIN nameIno'
        PROVE  nameIno'[m] \in DOMAIN inoName' /\ inoName'[nameIno'[m]] = m
    <3>1. CASE m = n
      BY <1>1, <1>3, <2>2, <3>1 DEF TablesInv, TablesInverse
    <3>2. CASE m # n
      <4>1. m \in DOMAIN nameIno /\ m # o /\ nameIno'[m] = nameIno[m]
        BY <1>1, <2>2, <3>2
      <4>2. nameIno[m] \in DOMAIN inoName /\ inoName[nameIno[m]] = m /\ nameIno[m] # nameIno[o]
        BY <1>1, <4>1 DEF TablesInv, TablesInverse
      <4>3. QED
        BY <1>1, <1>4, <3>2, <4>1, <4>2
    <3>3. QED
      BY <3>1, <3>2
  <2>3. ASSUME NEW i \in DOMAIN inoName'
        PROVE  i \in Nat /\ i < nextIno' /\ inoName'[i] \in DOMAIN nameIno' /\ nameIno'[inoName'[i]] = i
    <3>1. i \in DOMAIN inoName /\ i \notin over /\ i \in Nat /\ i < nextIno
          /\ inoName[i] \in DOMAIN nameIno /\ nameIno[inoName[i]] = i /\ inoName[i] # n
      BY <1>1, <1>4, <2>3 DEF TablesInv, TablesInverse
    <3>2. CASE i = nameIno[o]
      BY <1>1, <3>1, <3>2
    <3>3. CASE i # nameIno[o]
      BY <1>1, <3>1, <3>3
    <3>4. QED
      BY <3>2, <3>3
  <2>4. QED
    BY <1>2, <2>1, <2>2, <2>3 DEF TablesInverse
<1>6. Present' = Listed' /\ RequestRight'
  <2>1. Present' = Present /\ Present = (DOMAIN nameIno \cup {n}) \ {o} /\ Listed' = DOMAIN nameIno'
    BY <1>1 DEF Present, There, TablesInv, Listed, Served, n, o
  <2>2. QED
    BY <1>1, <2>1 DEF RequestRight, Served
<1>7. HandlesTrue'
  <2>1. ASSUME NEW h \in Handles, handle[h] # NotHeld, handle[h].ino \in DOMAIN inoName',
               NEW m \in Stands(request', inoName'[handle[h].ino])
        PROVE  files'[m].id = handle[h].of
    <3>1. m = inoName'[handle[h].ino]
      BY <1>1, <2>1, ServedTables DEF Served
    <3>2. handle[h].ino \in DOMAIN inoName /\ inoName[handle[h].ino] # n
      BY <1>1, <1>4, <2>1
    <3>3. m \in Stands(request, inoName[handle[h].ino])
      <4>1. CASE handle[h].ino = nameIno[o]
        <5>1. m = n /\ inoName[handle[h].ino] = o
          BY <1>1, <2>1, <3>1, <4>1 DEF TablesInv, TablesInverse
        <5>2. QED
          BY <1>1, <3>2, <5>1 DEF Stands, n, o
      <4>2. CASE handle[h].ino # nameIno[o]
        <5>1. m = inoName[handle[h].ino] /\ m # o
          BY <1>1, <2>1, <3>1, <3>2, <4>2 DEF TablesInv, TablesInverse
        <5>2. QED
          BY <1>1, <3>2, <5>1 DEF Stands, n, o
      <4>3. QED
        BY <4>1, <4>2
    <3>4. QED
      BY <1>1, <2>1, <3>2, <3>3 DEF TablesInv, HandlesTrue
  <2>2. QED
    BY <1>1, <2>1 DEF TablesInv, HandlesTrue
<1>8. QED
  BY <1>5, <1>6, <1>7 DEF TablesInv

\* A rotation past its call of the store: the target is there, and has no inode yet.
LEMMA TargetTables ==
    ASSUME MountTyped, TablesInv, request = Served, UNCHANGED <<tableVars, handle>>,
           request'.kind \in {"cuts", "rotated"}, request'.name \in DOMAIN nameIno,
           request'.to \in Names, files'[request'.to].id # 0,
           \A m \in Names : There(m) => files'[m].id = files[m].id,
           \A m \in Names : m # request'.to /\ ~There(m) => files'[m].id = 0
    PROVE  TablesInv'
<1>1. UNCHANGED <<inoName, nameIno, mirror, nextIno, handle>>
  BY DEF tableVars
<1>2. Present = DOMAIN nameIno
  BY DEF TablesInv, Listed, Served
<1>3. Present' = Listed'
  <2>1. Listed' = DOMAIN nameIno \cup {request'.to}
    BY <1>1 DEF Listed
  <2>2. Present' = Present \cup {request'.to}
    BY DEF Present, There
  <2>3. QED
    BY <1>2, <2>1, <2>2
<1>4. TablesInverse' /\ RequestRight'
  BY <1>1 DEF TablesInv, TablesInverse, RequestRight
<1>5. HandlesTrue'
  <2>1. ASSUME NEW h \in Handles, handle[h] # NotHeld, handle[h].ino \in DOMAIN inoName,
               NEW m \in Stands(request', inoName[handle[h].ino])
        PROVE  files'[m].id = handle[h].of
    <3>1. inoName[handle[h].ino] \in Names /\ files[inoName[handle[h].ino]].id = handle[h].of
          /\ inoName[handle[h].ino] \in DOMAIN nameIno
      BY <2>1, ServedTables DEF TablesInv, HandlesTrue, TablesInverse, Served, MountTyped, SessionOK
    <3>2. m = inoName[handle[h].ino]
      BY <2>1, ServedTables
    <3>3. QED
      BY <1>2, <3>1, <3>2 DEF Present
  <2>2. QED
    BY <1>1, <2>1 DEF TablesInv, HandlesTrue
<1>6. QED
  BY <1>3, <1>4, <1>5 DEF TablesInv

LEMMA RotateNothingTables ==
    ASSUME TargetsMade, MountTyped, TablesInv, NEW n \in Names, NEW to \in Names,
           RotateNothing(n, to)
    PROVE  TablesInv'
<1>1. request = Served /\ UNCHANGED <<tableVars, handle>>
  BY DEF RotateNothing, Ask, Ready
<1>2. CASE UNCHANGED <<files, request>>
  BY <1>1, <1>2, TablesStep DEF MountTyped, SessionOK, SameHandle
<1>3. CASE ~UNCHANGED <<files, request>>
  <2>1. /\ request'.kind = "rotated" /\ request'.name = n /\ request'.to = to
        /\ made' = made + 1 /\ n \in DOMAIN nameIno
        /\ \E makes \in {TRUE, ~Trouble("target")} :
              files' = IF There(to) \/ ~makes THEN files
                       ELSE [files EXCEPT ![to] = [Absent EXCEPT !.id = made']]
    BY <1>3, RotateNothingTypes
  <2>2. files' = IF There(to) THEN files ELSE [files EXCEPT ![to] = NewLog(made')]
    BY <2>1 DEF MountTyped, VolumeOK, TargetsMade, Trouble, NewLog
  <2>3. NewLog(made').id # 0 /\ files \in [Names -> LogFile]
    BY <2>1, NewLogType, VolumeFacts DEF MountTyped
  <2>4. files'[to].id # 0 /\ (\A m \in Names : m # to => files'[m] = files[m])
        /\ (There(to) => files'[to] = files[to])
    BY <2>2, <2>3 DEF There
  <2>5. \A m \in Names : There(m) => files'[m].id = files[m].id
    BY <2>4
  <2>6. \A m \in Names : m # request'.to /\ ~There(m) => files'[m].id = 0
    BY <2>1, <2>4 DEF There
  <2>7. QED
    BY <1>1, <2>1, <2>4, <2>5, <2>6, TargetTables
<1>4. QED
  BY <1>2, <1>3

LEMMA RotateTables ==
    ASSUME MountTyped, TablesInv, NEW n \in Names, NEW to \in Names, Rotate(n, to)
    PROVE  TablesInv'
<1>1. request = Served /\ UNCHANGED <<tableVars, handle>>
  BY DEF Rotate, Ask, Ready
<1>2. /\ n # to /\ n \in DOMAIN nameIno /\ There(n) /\ \A m \in Names : m \in {n, to}
      /\ \/ Moves(n, to, request'.cut)
         \/ request' = request /\ \A m \in Names : Grows(files[m], files'[m])
  BY RotateTypes
<1>3. CASE request' = request /\ \A m \in Names : Grows(files[m], files'[m])
  BY <1>1, <1>3, TablesStep DEF MountTyped, SessionOK, SameHandle, Grows
<1>4. CASE Moves(n, to, request'.cut)
  <2>1. /\ request'.kind = "cuts" /\ request'.name = n
        /\ \/ request'.to = n /\ files'[to] = files[to]
           \/ request'.to = to /\ files'[to].id # 0 /\ (There(to) => files'[to].id = files[to].id)
    BY <1>4 DEF Moves
  <2>2. files'[n].id = files[n].id
    <3>1. PICK source \in LogFile : /\ Grows(files[n], source)
                                    /\ request'.cut \in 0 .. Len(source.recs)
                                    /\ files'[n] = Dropped(source, request'.cut)
      BY <1>4 DEF Moves
    <3>2. QED
      BY <3>1, DroppedType DEF Grows
  <2>3. \A m \in Names : There(m) => files'[m].id = files[m].id
    BY <1>2, <2>1, <2>2
  <2>4. \A m \in Names : m # request'.to /\ ~There(m) => files'[m].id = 0
    BY <1>2, <2>1, <2>2 DEF There
  <2>5. files'[request'.to].id # 0 /\ request'.to \in Names
    BY <1>2, <2>1, <2>2 DEF There
  <2>6. QED
    BY <1>1, <1>2, <2>1, <2>3, <2>4, <2>5, TargetTables
<1>5. QED
  BY <1>2, <1>3, <1>4

LEMMA CutFiltersTables ==
    ASSUME MountTyped, TablesInv, CutFilters
    PROVE  TablesInv'
<1>1. /\ request.kind = "cuts" /\ UNCHANGED <<files, handle, inoName, nameIno, mirror, nextIno>>
      /\ request' = IF request.to = request.name THEN Served ELSE [request EXCEPT !.kind = "rotated"]
  BY DEF CutFilters, tableVars
<1>2. \/ request' = Served /\ request.to = request.name
      \/ /\ request' # Served /\ request'.kind = "rotated"
         /\ request'.to = request.to /\ request'.name = request.name
  <2>1. request \in [kind : {"none", "unlink", "rename", "cuts", "rotated"}, name : Names,
                     to : Names, cut : Nat, new : BOOLEAN]
    BY DEF MountTyped, SessionOK
  <2>2. LET q == [request EXCEPT !.kind = "rotated"]
        IN  q.kind = "rotated" /\ q.to = request.to /\ q.name = request.name
    BY <2>1
  <2>3. QED
    BY <1>1, <2>2 DEF Served
<1>3. request'.kind \notin {"unlink", "rename"} /\ request.kind \notin {"unlink", "rename"}
  BY <1>1, <1>2 DEF Served
<1>4. TablesInverse' /\ RequestRight'
  BY <1>1, <1>2 DEF TablesInv, TablesInverse, RequestRight, Served
<1>5. Present' = Listed'
  <2>1. Present' = Present /\ Present = DOMAIN nameIno \cup {request.to}
        /\ request.name \in DOMAIN nameIno
    BY <1>1 DEF TablesInv, Present, There, Listed, RequestRight
  <2>2. Listed' = DOMAIN nameIno \cup (IF request' = Served THEN {} ELSE {request.to})
    BY <1>1, <1>2 DEF Listed, Served
  <2>3. QED
    BY <1>2, <2>1, <2>2
<1>6. HandlesTrue'
  <2>1. \A m : Stands(request', m) = {m} /\ Stands(request, m) = {m}
    BY <1>3, ServedTables
  <2>2. QED
    BY <1>1, <2>1 DEF TablesInv, HandlesTrue
<1>7. QED
  BY <1>4, <1>5, <1>6 DEF TablesInv

LEMMA RotatedTables ==
    ASSUME MountTyped, TablesInv, Rotated
    PROVE  TablesInv'
<1>1. /\ request.kind = "rotated" /\ request' = Served /\ Assigned(request.to)
      /\ UNCHANGED <<files, handle>>
  BY DEF Rotated
<1>2. request.to \in Names /\ DOMAIN nameIno \subseteq Names
  BY DEF MountTyped, SessionOK
<1>3. /\ TablesInverse' /\ DOMAIN nameIno' = DOMAIN nameIno \cup {request.to} /\ nextIno <= nextIno'
      /\ \A i \in DOMAIN inoName : i \in DOMAIN inoName' /\ inoName'[i] = inoName[i]
      /\ \A i \in DOMAIN inoName' : i \in DOMAIN inoName \/ (nextIno <= i /\ inoName'[i] = request.to)
  BY <1>1, <1>2, AssignedTables DEF TablesInv
<1>4. Present' = Listed' /\ RequestRight'
  <2>1. Present' = Present /\ Present = DOMAIN nameIno \cup {request.to} /\ Listed' = DOMAIN nameIno'
    BY <1>1 DEF TablesInv, Present, There, Listed, Served
  <2>2. QED
    BY <1>1, <1>3, <2>1 DEF RequestRight, Served
<1>5. \A m : Stands(request', m) = {m} /\ Stands(request, m) = {m}
  BY <1>1, ServedTables DEF Served
<1>6. ASSUME NEW h \in Handles, handle[h] # NotHeld
      PROVE  /\ handle[h].ino < nextIno'
             /\ handle[h].ino \in DOMAIN inoName' => files[inoName'[handle[h].ino]].id = handle[h].of
  <2>1. /\ handle[h].ino < nextIno /\ handle[h].ino \in Nat /\ nextIno \in Nat /\ nextIno' \in Nat
        /\ handle[h].ino \in DOMAIN inoName => files[inoName[handle[h].ino]].id = handle[h].of
    BY <1>3, <1>5, <1>6 DEF TablesInv, HandlesTrue, TablesInverse, MountTyped, SessionOK, HandleOK
  <2>2. handle[h].ino \in DOMAIN inoName' => handle[h].ino \in DOMAIN inoName
    BY <1>3, <2>1
  <2>3. QED
    BY <1>3, <2>1, <2>2
<1>7. HandlesTrue'
  BY <1>1, <1>5, <1>6 DEF HandlesTrue
<1>8. QED
  BY <1>3, <1>4, <1>7 DEF TablesInv

LEMMA RemountTables ==
    ASSUME MountTyped, TablesInv, Remount
    PROVE  TablesInv'
<1>1. /\ TablesInverse' /\ DOMAIN nameIno' = Present /\ request' = Served
      /\ \A h \in Handles : handle'[h] = NotHeld
      /\ \A m \in Names : files'[m].id = files[m].id
  BY RemountTypes
<1>2. Present' = Listed'
  BY <1>1 DEF Present, There, Listed, Served
<1>3. QED
  BY <1>1, <1>2 DEF TablesInv, RequestRight, HandlesTrue, Served

------------------------------------------------------------------------------
\* The filters: whose chunks they are of.
LEMMA CoversGrown ==
    ASSUME NEW g \in Filters, NEW chunks \in Seq(Chunk), NEW more \in Seq(Chunk),
           Longer(chunks, more)
    PROVE  /\ Covers(g, chunks) => Covers(g, more)
           /\ \A k \in Nat : CoversAfter(g, k, chunks) => CoversAfter(g, k, more)
<1>1. /\ Len(g.filters) \in Nat /\ Len(chunks) \in Nat /\ Len(more) \in Nat
      /\ Len(chunks) <= Len(more) /\ \A i \in 1 .. Len(chunks) : more[i] = chunks[i]
  BY DEF Longer, Filters
<1>2. ASSUME Covers(g, chunks)
      PROVE  Covers(g, more)
  BY <1>1, <1>2 DEF Covers
<1>3. ASSUME NEW k \in Nat, CoversAfter(g, k, chunks), k <= Len(g.filters)
      PROVE  /\ Len(g.filters) - k <= Len(more)
             /\ \A i \in 1 .. Len(g.filters) - k : g.filters[k + i] = more[i]
  BY <1>1, <1>3 DEF CoversAfter
<1>4. QED
  BY <1>2, <1>3 DEF CoversAfter

LEMMA NothingCovers ==
    ASSUME NEW chunks \in Seq(Chunk)
    PROVE  Covers(NoGrain, chunks)
<1>1. Len(NoGrain.filters) = 0 /\ Len(chunks) \in Nat
  BY NoGrainType
<1>2. QED
  BY <1>1 DEF Covers

LEMMA CutCovers ==
    ASSUME NEW g \in Filters, NEW k \in Nat, NEW ino \in Nat, NEW chunks \in Seq(Chunk),
           CoversAfter(g, k, chunks)
    PROVE  Covers(FiltersCut(g, k, ino), chunks)
<1>1. CASE FiltersCut(g, k, ino) = NoGrain
  BY <1>1, NothingCovers
<1>2. CASE FiltersCut(g, k, ino) # NoGrain
  <2>1. /\ Len(g.filters) \in Nat /\ k <= Len(g.filters)
        /\ Len(FiltersCut(g, k, ino).filters) = Len(g.filters) - k
        /\ \A i \in 1 .. Len(g.filters) - k : FiltersCut(g, k, ino).filters[i] = g.filters[k + i]
    BY <1>2, FiltersCutType
  <2>2. /\ Len(g.filters) - k <= Len(chunks)
        /\ \A i \in 1 .. Len(g.filters) - k : g.filters[k + i] = chunks[i]
    BY <2>1 DEF CoversAfter
  <2>3. QED
    BY <2>1, <2>2 DEF Covers
<1>3. QED
  BY <1>1, <1>2

\* The filters of a log whose first k chunks are dropped.
LEMMA DroppedCovers ==
    ASSUME NEW g \in Filters, NEW f \in LogFile, NEW k \in 0 .. Len(f.recs), Covers(g, f.recs)
    PROVE  CoversAfter(g, k, Dropped(f, k).recs)
<1>1. /\ Len(f.recs) \in Nat /\ Len(g.filters) \in Nat /\ k \in Nat /\ k <= Len(f.recs)
      /\ Len(Dropped(f, k).recs) = Len(f.recs) - k
      /\ \A i \in 1 .. Len(f.recs) - k : Dropped(f, k).recs[i] = f.recs[k + i]
  BY DroppedType DEF Filters
<1>2. Len(g.filters) <= Len(f.recs) /\ \A i \in 1 .. Len(g.filters) : g.filters[i] = f.recs[i]
  BY DEF Covers
<1>3. ASSUME k <= Len(g.filters), NEW i \in 1 .. Len(g.filters) - k
      PROVE  g.filters[k + i] = Dropped(f, k).recs[i]
  <2>1. k + i \in 1 .. Len(g.filters) /\ i \in 1 .. Len(f.recs) - k
    BY <1>1, <1>2, <1>3
  <2>2. QED
    BY <1>1, <1>2, <2>1
<1>4. QED
  BY <1>1, <1>2, <1>3 DEF CoversAfter

LEMMA ChunksOf ==
    ASSUME VolumeOK, NEW n \in Names
    PROVE  files[n].recs \in Seq(Chunk) /\ sides[n].grain \in Filters
           /\ Longer(files[n].recs, files[n].recs)
BY VolumeFacts DEF LogFile, Longer

LEMMA GrownLonger ==
    ASSUME NEW f, NEW g, Grows(f, g)
    PROVE  Longer(f.recs, g.recs)
BY DEF Grows, Longer

\* A step that is not of the filters.
LEMMA GrainsKept ==
    ASSUME VolumeOK, VolumeOK', SessionOK, GrainsTrue,
           request' = request \/ (request.kind # "cuts" /\ request'.kind # "cuts"),
           \A m \in Names : sides'[m].grain = sides[m].grain,
           \A m \in Names : Longer(files[m].recs, files'[m].recs)
    PROVE  GrainsTrue'
<1> SUFFICES ASSUME NEW n \in Names
             PROVE  IF request'.kind = "cuts" /\ request'.name = n
                    THEN CoversAfter(sides'[n].grain, request'.cut, files'[n].recs)
                    ELSE Covers(sides'[n].grain, files'[n].recs)
  BY DEF GrainsTrue
<1>1. files[n].recs \in Seq(Chunk) /\ files'[n].recs \in Seq(Chunk) /\ sides[n].grain \in Filters
      /\ request.cut \in Nat
  <2>1. files \in [Names -> LogFile] /\ files' \in [Names -> LogFile] /\ sides[n].grain \in Filters
    BY VolumeFacts DEF VolumeOK
  <2>2. QED
    BY <2>1 DEF LogFile, SessionOK
<1>2. CASE request'.kind = "cuts" /\ request'.name = n
  BY <1>1, <1>2, CoversGrown DEF GrainsTrue
<1>3. CASE ~(request'.kind = "cuts" /\ request'.name = n)
  BY <1>1, <1>3, CoversGrown DEF GrainsTrue
<1>4. QED
  BY <1>2, <1>3

LEMMA ExtendingKept ==
    ASSUME MountTyped, MountTyped', ExtendingTrue, flusher' = flusher, request' = request,
           \A m \in Names : sides'[m].grain = sides[m].grain,
           \A m \in Names : Longer(files[m].recs, files'[m].recs)
    PROVE  ExtendingTrue'
<1>1. flusher.name \in Names /\ flusher.seen \in Seq(Chunk)
  BY FlusherFacts DEF MountTyped
<1>2. /\ files[flusher.name].recs \in Seq(Chunk) /\ files'[flusher.name].recs \in Seq(Chunk)
  <2>1. files \in [Names -> LogFile] /\ files' \in [Names -> LogFile]
    BY DEF MountTyped, VolumeOK
  <2>2. QED
    BY <1>1, <2>1 DEF LogFile
<1>3. ASSUME Longer(flusher.seen, files[flusher.name].recs)
      PROVE  Longer(flusher.seen, files'[flusher.name].recs)
  <2>1. Longer(files[flusher.name].recs, files'[flusher.name].recs)
    BY <1>1
  <2>2. QED
    BY <1>1, <1>2, <1>3, <2>1 DEF Longer
<1>4. QED
  BY <1>1, <1>3 DEF ExtendingTrue

LEMMA NotExtending ==
    ASSUME flusher'.at \notin {"reads", "installs"}
    PROVE  ExtendingTrue'
BY DEF ExtendingTrue

LEMMA FiltersStep ==
    ASSUME MountTyped, MountTyped', FiltersInv, flusher' = flusher, request' = request,
           \A m \in Names : sides'[m].grain = sides[m].grain,
           \A m \in Names : Grows(files[m], files'[m])
    PROVE  FiltersInv'
<1>1. \A m \in Names : Longer(files[m].recs, files'[m].recs)
  BY GrownLonger
<1>2. GrainsTrue /\ ExtendingTrue
  BY DEF FiltersInv
<1>3. VolumeOK /\ VolumeOK' /\ SessionOK
  BY DEF MountTyped
<1>4. GrainsTrue'
  <2>1. request' = request \/ (request.kind # "cuts" /\ request'.kind # "cuts")
    OBVIOUS
  <2>2. QED
    BY <1>1, <1>2, <1>3, <2>1, GrainsKept
<1>5. ExtendingTrue'
  BY <1>1, <1>2, ExtendingKept
<1>6. QED
  BY <1>4, <1>5 DEF FiltersInv

\* A request does not come while filters are extended, and they are not while one is served.
LEMMA Undisturbed ==
    ASSUME FiltersUndisturbed, VolumeOK, ExtendingTrue, flusher' = flusher,
           \/ request # Served
           \/ \E kind \in Kinds \ {"set"} : Ask(kind)
    PROVE  ExtendingTrue'
<1>1. flusher.at \notin {"reads", "installs"}
  BY DEF FiltersUndisturbed, VolumeOK, Ask, Trouble, ExtendingTrue, Kinds
<1>2. QED
  BY <1>1, NotExtending

LEMMA TruncateFilters ==
    ASSUME FiltersUndisturbed, MountTyped, FiltersInv, NEW n \in Names, Truncate(n)
    PROVE  FiltersInv'
<1>1. /\ Ask("truncate") /\ request = Served /\ request' = request /\ flusher' = flusher
      /\ request'.kind # "cuts"
  BY DEF Truncate, Ask, Ready, flusherVars, Served
<1>2. /\ files'[n].recs = <<>> /\ sides'[n].grain = NoGrain
      /\ \A m \in Names : m # n => files'[m] = files[m] /\ sides'[m] = sides[m]
  BY TruncateTypes
<1>3. ExtendingTrue'
  BY <1>1, Undisturbed DEF FiltersInv, MountTyped, Kinds
<1>4. \A m \in Names : Covers(sides'[m].grain, files'[m].recs)
  <2>1. files'[n].recs \in Seq(Chunk)
    BY <1>2
  <2>2. Covers(sides'[n].grain, files'[n].recs)
    BY <1>2, <2>1, NothingCovers
  <2>3. QED
    BY <1>1, <1>2, <2>2 DEF FiltersInv, GrainsTrue
<1>5. QED
  BY <1>1, <1>3, <1>4 DEF FiltersInv, GrainsTrue

LEMMA UnlinkFilters ==
    ASSUME FiltersUndisturbed, MountTyped, FiltersInv, NEW n \in Names, Unlink(n)
    PROVE  FiltersInv'
<1>1. Ask("unlink") /\ request = Served /\ flusher' = flusher /\ request.kind # "cuts"
  BY DEF Unlink, Ask, Ready, flusherVars, Served
<1>2. /\ files'[n] = Absent /\ sides'[n].grain = NoGrain /\ request'.kind # "cuts"
      /\ \A m \in Names : m # n => files'[m] = files[m] /\ sides'[m] = sides[m]
  BY UnlinkTypes
<1>3. ExtendingTrue'
  BY <1>1, Undisturbed DEF FiltersInv, MountTyped, Kinds
<1>4. Absent.recs \in Seq(Chunk)
  BY AbsentType
<1>5. \A m \in Names : Covers(sides'[m].grain, files'[m].recs)
  BY <1>1, <1>2, <1>4, NothingCovers DEF FiltersInv, GrainsTrue
<1>6. QED
  BY <1>2, <1>3, <1>5 DEF FiltersInv, GrainsTrue

LEMMA RenameFilters ==
    ASSUME FiltersUndisturbed, MountTyped, FiltersInv, NEW o \in Names, NEW n \in Names, Rename(o, n)
    PROVE  FiltersInv'
<1>1. /\ Ask("rename") /\ request = Served /\ flusher' = flusher /\ request.kind # "cuts"
      /\ sides[o].grain = NoGrain => sides[n].grain = NoGrain
  BY DEF Rename, Ask, Ready, flusherVars, Served, FiltersUndisturbed, Trouble, MountTyped, VolumeOK
<1>2. /\ o # n /\ files'[o] = Absent /\ files'[n] = Flushed(files[o]) /\ sides' = MovedSides(o, n)
      /\ request'.kind # "cuts" /\ \A m \in Names : m \in {o, n}
  BY RenameTypes
<1>3. ExtendingTrue'
  BY <1>1, Undisturbed DEF FiltersInv, MountTyped, Kinds
<1>4. sides'[n].grain = sides[o].grain /\ sides'[o].grain = NoGrain
  BY <1>1, <1>2 DEF MovedSides
<1>5. Covers(sides'[o].grain, files'[o].recs)
  <2>1. files'[o].recs \in Seq(Chunk)
    BY <1>2, AbsentType
  <2>2. QED
    BY <1>4, <2>1, NothingCovers
<1>6. Covers(sides'[n].grain, files'[n].recs)
  <2>1. Covers(sides[o].grain, files[o].recs)
    BY <1>1 DEF FiltersInv, GrainsTrue
  <2>2. /\ files[o] \in LogFile /\ sides[o].grain \in Filters /\ Flushed(files[o]) \in LogFile
        /\ Longer(files[o].recs, Flushed(files[o]).recs)
    BY VolumeFacts, FlushedGrows, GrownLonger DEF MountTyped
  <2>3. files[o].recs \in Seq(Chunk) /\ Flushed(files[o]).recs \in Seq(Chunk)
    BY <2>2 DEF LogFile
  <2>4. Covers(sides[o].grain, Flushed(files[o]).recs)
    BY <2>1, <2>2, <2>3, CoversGrown
  <2>5. QED
    BY <1>2, <1>4, <2>4
<1>7. QED
  BY <1>2, <1>3, <1>5, <1>6 DEF FiltersInv, GrainsTrue

LEMMA RotateNothingFilters ==
    ASSUME FiltersUndisturbed, MountTyped, FiltersInv, NEW n \in Names, NEW to \in Names,
           RotateNothing(n, to)
    PROVE  FiltersInv'
<1>1. /\ Ask("rotate") /\ request = Served /\ flusher' = flusher /\ request.kind # "cuts"
      /\ sides' = sides
  BY DEF RotateNothing, Ask, Ready, flusherVars, Served
<1>2. /\ MountTyped' /\ made' \in Nat
      /\ UNCHANGED <<files, request>>
         \/ /\ request'.kind = "rotated" /\ made' = made + 1
            /\ \E makes \in {TRUE, ~Trouble("target")} :
                  files' = IF There(to) \/ ~makes THEN files
                           ELSE [files EXCEPT ![to] = [Absent EXCEPT !.id = made']]
  BY RotateNothingTypes DEF MountTyped, VolumeOK
<1>3. ExtendingTrue'
  BY <1>1, Undisturbed DEF FiltersInv, MountTyped, Kinds
<1>4. files' = files \/ (~There(to) /\ files' = [files EXCEPT ![to] = NewLog(made')])
  <2>1. NewLog(made') = [Absent EXCEPT !.id = made']
    BY DEF NewLog
  <2>2. CASE files' = files
    BY <2>2
  <2>3. CASE files' # files
    <3>1. PICK makes \in {TRUE, ~Trouble("target")} :
              files' = IF There(to) \/ ~makes THEN files
                       ELSE [files EXCEPT ![to] = [Absent EXCEPT !.id = made']]
      BY <1>2, <2>3
    <3>2. QED
      BY <2>1, <2>3, <3>1
  <2>4. QED
    BY <2>2, <2>3
<1>5. \A m \in Names : Longer(files[m].recs, files'[m].recs)
  <2>1. CASE files' = files
    BY <2>1, ChunksOf DEF MountTyped
  <2>2. CASE ~There(to) /\ files' = [files EXCEPT ![to] = NewLog(made')]
    <3>1. NewLog(made').recs = <<>> /\ files[to].recs = <<>>
      BY <1>2, <2>2, NewLogType, AbsentType, VolumeFacts DEF MountTyped
    <3>2. files'[to].recs = files[to].recs /\ \A m \in Names : m # to => files'[m] = files[m]
      BY <2>2, <3>1, VolumeFacts DEF MountTyped
    <3>3. QED
      BY <3>2, ChunksOf DEF MountTyped
  <2>3. QED
    BY <1>4, <2>1, <2>2
<1>6. request' = request \/ (request.kind # "cuts" /\ request'.kind # "cuts")
  BY <1>1, <1>2
<1>7. GrainsTrue
  BY DEF FiltersInv
<1>8. VolumeOK /\ VolumeOK' /\ SessionOK
  BY <1>2 DEF MountTyped
<1>9. GrainsTrue'
  BY <1>1, <1>5, <1>6, <1>7, <1>8, GrainsKept
<1>10. QED
  BY <1>3, <1>9 DEF FiltersInv

LEMMA RotateFilters ==
    ASSUME FiltersUndisturbed, MountTyped, FiltersInv, NEW n \in Names, NEW to \in Names,
           Rotate(n, to)
    PROVE  FiltersInv'
<1>1. Ask("rotate") /\ request = Served /\ flusher' = flusher /\ request.kind # "cuts"
  BY DEF Rotate, Ask, Ready, flusherVars, Served
<1>2. /\ MountTyped' /\ n # to /\ sides' = sides /\ \A m \in Names : m \in {n, to}
      /\ \/ Moves(n, to, request'.cut)
         \/ request' = request /\ \A m \in Names : Grows(files[m], files'[m])
  BY RotateTypes
<1>3. CASE request' = request /\ \A m \in Names : Grows(files[m], files'[m])
  BY <1>1, <1>2, <1>3, FiltersStep
<1>4. CASE Moves(n, to, request'.cut)
  <2> DEFINE k == request'.cut
  <2>1. /\ files \in [Names -> LogFile] /\ files' \in [Names -> LogFile]
        /\ \A m \in Names : files[m].recs \in Seq(Chunk) /\ files'[m].recs \in Seq(Chunk)
                            /\ sides[m].grain \in Filters
    BY <1>2, VolumeFacts DEF MountTyped, VolumeOK, LogFile
  <2>2. \A m \in Names : Covers(sides[m].grain, files[m].recs)
    BY <1>1 DEF FiltersInv, GrainsTrue
  <2>3. request'.kind = "cuts" /\ request'.name = n /\ Longer(files[to].recs, files'[to].recs)
    BY <1>4, ChunksOf DEF Moves, Longer, MountTyped
  <2>4. PICK source \in LogFile : /\ Grows(files[n], source) /\ k \in 0 .. Len(source.recs)
                                  /\ files'[n] = Dropped(source, k)
    BY <1>4 DEF Moves
  <2>5. Longer(files[n].recs, source.recs) /\ source.recs \in Seq(Chunk)
    BY <2>4, GrownLonger DEF LogFile
  <2>6. Covers(sides[n].grain, source.recs)
    BY <2>1, <2>2, <2>5, CoversGrown
  <2>7. CoversAfter(sides[n].grain, k, files'[n].recs)
    BY <2>1, <2>4, <2>6, DroppedCovers
  <2>8. Covers(sides[to].grain, files'[to].recs)
    BY <2>1, <2>2, <2>3, CoversGrown
  <2>9. GrainsTrue'
    BY <1>2, <2>3, <2>7, <2>8 DEF GrainsTrue
  <2>10. ExtendingTrue'
    BY <1>1, Undisturbed DEF FiltersInv, MountTyped, Kinds
  <2>11. QED
    BY <2>9, <2>10 DEF FiltersInv
<1>5. QED
  BY <1>2, <1>3, <1>4

LEMMA CutFiltersFilters ==
    ASSUME FiltersUndisturbed, MountTyped, FiltersInv, CutFilters
    PROVE  FiltersInv'
<1>1. /\ request.kind = "cuts" /\ request # Served /\ flusher' = flusher /\ made' = made + 1
      /\ request' = IF request.to = request.name THEN Served ELSE [request EXCEPT !.kind = "rotated"]
  BY DEF CutFilters, flusherVars, Served
<1>2. request'.kind # "cuts" /\ made' \in Nat
  <2>1. request \in [kind : {"none", "unlink", "rename", "cuts", "rotated"}, name : Names,
                     to : Names, cut : Nat, new : BOOLEAN]
    BY DEF MountTyped, SessionOK
  <2>2. [request EXCEPT !.kind = "rotated"].kind = "rotated"
    BY <2>1
  <2>3. QED
    BY <1>1, <2>2, VolumeFacts DEF Served, MountTyped
<1>3. /\ files' = files /\ request.name \in Names /\ request.cut \in Nat
      /\ sides'[request.name].grain = FiltersCut(sides[request.name].grain, request.cut, made')
      /\ \A m \in Names : m # request.name => sides'[m] = sides[m]
  BY CutFiltersTypes
<1>4. Covers(sides'[request.name].grain, files[request.name].recs)
  <2>1. CoversAfter(sides[request.name].grain, request.cut, files[request.name].recs)
    BY <1>1, <1>3 DEF FiltersInv, GrainsTrue
  <2>2. files[request.name].recs \in Seq(Chunk) /\ sides[request.name].grain \in Filters
    BY <1>3, ChunksOf DEF MountTyped
  <2>3. QED
    BY <1>2, <1>3, <2>1, <2>2, CutCovers
<1>5. \A m \in Names : Covers(sides'[m].grain, files'[m].recs)
  BY <1>1, <1>3, <1>4 DEF FiltersInv, GrainsTrue
<1>6. ExtendingTrue'
  BY <1>1, Undisturbed DEF FiltersInv, MountTyped
<1>7. QED
  BY <1>2, <1>5, <1>6 DEF FiltersInv, GrainsTrue

\* The rest of a request is of the tables, and of the manifest.
LEMMA FinishedFilters ==
    ASSUME FiltersUndisturbed, MountTyped, MountTyped', FiltersInv, Unlinked \/ Renamed \/ Rotated
    PROVE  FiltersInv'
<1>1. /\ request # Served /\ request.kind # "cuts" /\ request' = Served /\ flusher' = flusher
      /\ files' = files
  BY DEF Unlinked, Renamed, Rotated, flusherVars, Served
<1>2. \A m \in Names : sides'[m].grain = sides[m].grain
  BY RotatedTypes DEF Unlinked, Renamed
<1>3. ExtendingTrue'
  BY <1>1, Undisturbed DEF FiltersInv, MountTyped
<1>4. \A m \in Names : Covers(sides'[m].grain, files'[m].recs)
  BY <1>1, <1>2 DEF FiltersInv, GrainsTrue
<1>5. QED
  BY <1>1, <1>3, <1>4 DEF FiltersInv, GrainsTrue, Served

LEMMA EnforceFilters ==
    ASSUME MountTyped, FiltersInv, Enforce
    PROVE  FiltersInv'
<1>1. /\ request' = request /\ request.kind # "cuts" /\ flusher'.at = "polls"
      /\ flusher.name \in Names
      /\ UNCHANGED <<files, sides>> \/ \E k \in Nat : Shed(flusher.name, k)
  BY EnforceTypes DEF MutexFree
<1>2. ExtendingTrue'
  BY <1>1, NotExtending
<1>3. \A m \in Names : Covers(sides[m].grain, files[m].recs)
  BY <1>1 DEF FiltersInv, GrainsTrue
<1>4. ASSUME NEW k \in Nat, Shed(flusher.name, k)
      PROVE  \A m \in Names : Covers(sides'[m].grain, files'[m].recs)
  <2> DEFINE n == flusher.name
  <2>1. /\ files[n] \in LogFile /\ sides[n].grain \in Filters /\ made \in Nat
        /\ files \in [Names -> LogFile]
        /\ sides \in [Names -> [bark : Manifest, grain : Filters]]
    BY <1>1, VolumeFacts DEF MountTyped
  <2>2. /\ k \in 0 .. Len(files[n].recs) /\ files' = [files EXCEPT ![n] = Dropped(files[n], k)]
        /\ IF k = 0 THEN sides' = sides
           ELSE sides' = [sides EXCEPT ![n].grain = FiltersCut(@, k, made + 1)]
    BY <1>4 DEF Shed
  <2>3. CoversAfter(sides[n].grain, k, Dropped(files[n], k).recs)
        /\ Dropped(files[n], k).recs \in Seq(Chunk)
    BY <1>1, <1>3, <2>1, <2>2, DroppedCovers, DroppedType DEF LogFile
  <2>4. files'[n] = Dropped(files[n], k) /\ \A m \in Names : m # n => files'[m] = files[m]
    BY <1>1, <2>1, <2>2
  <2>5. CASE k = 0
    <3>1. Covers(sides[n].grain, files'[n].recs)
      <4>1. /\ Len(sides[n].grain.filters) <= Len(files'[n].recs)
            /\ \A i \in 1 .. Len(sides[n].grain.filters) :
                   sides[n].grain.filters[i] = files'[n].recs[i]
        BY <2>1, <2>3, <2>4, <2>5 DEF CoversAfter, Filters
      <4>2. QED
        BY <4>1 DEF Covers
    <3>2. QED
      BY <1>3, <2>2, <2>4, <2>5, <3>1
  <2>6. CASE k # 0
    <3>1. sides' = [sides EXCEPT ![n].grain = FiltersCut(sides[n].grain, k, made + 1)]
      BY <2>2, <2>6
    <3>2. FiltersCut(sides[n].grain, k, made + 1) \in Filters
      <4>1. made + 1 \in Nat /\ sides[n].grain \in Filters
        BY <2>1
      <4>2. QED
        BY <4>1, FiltersCutType
    <3>3. /\ sides'[n].grain = FiltersCut(sides[n].grain, k, made + 1)
          /\ \A m \in Names : m # n => sides'[m] = sides[m]
      BY <1>1, <3>1, <3>2, GrainStep DEF MountTyped
    <3>4. Covers(sides'[n].grain, files'[n].recs)
      BY <2>1, <2>3, <2>4, <3>3, CutCovers
    <3>5. QED
      BY <1>3, <2>4, <3>3, <3>4
  <2>7. QED
    BY <2>5, <2>6
<1>5. \A m \in Names : Covers(sides'[m].grain, files'[m].recs)
  BY <1>1, <1>3, <1>4
<1>6. QED
  BY <1>1, <1>2, <1>5 DEF FiltersInv, GrainsTrue

\* A step of the flusher that leaves the logs what they are, or longer.
LEMMA AwakeFilters ==
    ASSUME MountTyped, MountTyped', FiltersInv, UNCHANGED <<sides, request>>,
           \A m \in Names : Grows(files[m], files'[m]), flusher'.at \notin {"reads", "installs"}
    PROVE  FiltersInv'
<1>1. \A m \in Names : Longer(files[m].recs, files'[m].recs)
  BY GrownLonger
<1>2. GrainsTrue /\ VolumeOK /\ VolumeOK' /\ SessionOK
  BY DEF FiltersInv, MountTyped
<1>3. GrainsTrue'
  BY <1>1, <1>2, GrainsKept
<1>4. QED
  BY <1>3, NotExtending DEF FiltersInv

LEMMA SameGrows ==
    ASSUME MountTyped, files' = files
    PROVE  \A m \in Names : Grows(files[m], files'[m])
BY GrowsItself, VolumeFacts DEF MountTyped

LEMMA OpenGrainFilters ==
    ASSUME FiltersUndisturbed, MountTyped, FiltersInv, OpenGrain
    PROVE  FiltersInv'
<1>1. /\ MountTyped' /\ UNCHANGED <<files, sides, request>> /\ flusher'.at \in {"indexes", "reads"}
      /\ flusher'.out = sides[flusher'.name].grain
  BY OpenGrainTypes
<1>2. request = Served
  BY DEF OpenGrain, FiltersUndisturbed, Trouble, MountTyped, VolumeOK
<1>3. ExtendingTrue'
  BY <1>1, <1>2 DEF ExtendingTrue
<1>4. GrainsTrue'
  BY <1>1 DEF FiltersInv, GrainsTrue
<1>5. QED
  BY <1>3, <1>4 DEF FiltersInv

LEMMA ReadChunksFilters ==
    ASSUME MountTyped, FiltersInv, ReadChunks
    PROVE  FiltersInv'
<1> DEFINE n == flusher.name
<1>1. /\ UNCHANGED <<files, sides, request>> /\ At("reads") /\ flusher'.name = n /\ n \in Names
      /\ \/ flusher'.at = "indexes"
         \/ /\ flusher'.at = "installs" /\ flusher'.seen = files[n].recs
            /\ flusher'.out = IF Len(flusher.out.filters) > Len(files[n].recs)
                              THEN NoGrain ELSE flusher.out
  BY ReadChunksTypes
<1>2. request = Served /\ flusher.out = sides[n].grain /\ Covers(sides[n].grain, files[n].recs)
  BY <1>1 DEF FiltersInv, ExtendingTrue, GrainsTrue, At, Served
<1>3. files[n].recs \in Seq(Chunk) /\ Longer(files[n].recs, files[n].recs)
  BY <1>1, ChunksOf DEF MountTyped
<1>4. Covers(NoGrain, files[n].recs)
  BY <1>3, NothingCovers
<1>5. ExtendingTrue'
  BY <1>1, <1>2, <1>3, <1>4 DEF ExtendingTrue
<1>6. GrainsTrue'
  BY <1>1 DEF FiltersInv, GrainsTrue
<1>7. QED
  BY <1>5, <1>6 DEF FiltersInv

LEMMA InstallFilters ==
    ASSUME MountTyped, FiltersInv, Install
    PROVE  FiltersInv'
<1> DEFINE n == flusher.name
<1>1. /\ UNCHANGED <<files, request>> /\ At("installs") /\ flusher'.at = "indexes" /\ n \in Names
      /\ sides' = sides \/ sides' = [sides EXCEPT ![n].grain = Installed]
  BY InstallTypes
<1>2. request = Served /\ Longer(flusher.seen, files[n].recs) /\ Covers(flusher.out, flusher.seen)
  BY <1>1 DEF FiltersInv, ExtendingTrue, At
<1>3. \A m \in Names : Covers(sides[m].grain, files[m].recs)
  BY <1>2 DEF FiltersInv, GrainsTrue, Served
<1>4. Installed \in Filters /\ (Installed = sides[n].grain \/ Covers(Installed, flusher.seen))
  BY <1>2, InstalledType
<1>5. Covers(Installed, files[n].recs)
  <2>1. flusher.seen \in Seq(Chunk) /\ files[n].recs \in Seq(Chunk)
    BY <1>1, ChunksOf, FlusherFacts DEF MountTyped
  <2>2. QED
    BY <1>1, <1>2, <1>3, <1>4, <2>1, CoversGrown
<1>6. \A m \in Names : Covers(sides'[m].grain, files'[m].recs)
  <2>1. CASE sides' = [sides EXCEPT ![n].grain = Installed]
    <3>1. sides'[n].grain = Installed /\ \A m \in Names : m # n => sides'[m] = sides[m]
      BY <1>1, <1>4, <2>1, GrainStep DEF MountTyped
    <3>2. QED
      BY <1>1, <1>3, <1>5, <3>1
  <2>2. QED
    BY <1>1, <1>3, <2>1
<1>7. ExtendingTrue'
  BY <1>1, NotExtending
<1>8. QED
  BY <1>1, <1>2, <1>6, <1>7 DEF FiltersInv, GrainsTrue, Served

LEMMA RemountFilters ==
    ASSUME MountTyped, FiltersInv, Remount
    PROVE  FiltersInv'
<1>1. /\ request' = Served /\ sides' = sides /\ flusher' = Asleep /\ request.kind # "cuts"
      /\ \A m \in Names : files'[m].recs = files[m].recs
  BY RemountTypes
<1>2. ExtendingTrue'
  BY <1>1, NotExtending, AsleepType
<1>3. QED
  BY <1>1, <1>2 DEF FiltersInv, GrainsTrue, Served

LEMMA MountInitFilters ==
    ASSUME MountInit
    PROVE  FiltersInv
<1>1. /\ MountTyped /\ request = Served /\ flusher = Asleep
      /\ \A m \in Names : sides[m].grain = NoGrain
  BY InitTypes
<1>2. \A m \in Names : files[m].recs \in Seq(Chunk)
  BY <1>1, ChunksOf DEF MountTyped
<1>3. \A m \in Names : Covers(sides[m].grain, files[m].recs)
  BY <1>1, <1>2, NothingCovers
<1>4. ExtendingTrue
  BY <1>1, AsleepType DEF ExtendingTrue
<1>5. QED
  BY <1>1, <1>3, <1>4 DEF FiltersInv, GrainsTrue, Served

------------------------------------------------------------------------------
\* The invariant of a mount.
MountInv == MountTyped /\ TablesInv

LEMMA MountInvInit ==
    ASSUME MountInit
    PROVE  MountInv
<1>1. /\ MountTyped /\ TablesInverse /\ DOMAIN nameIno = Present /\ request = Served
      /\ \A h \in Handles : handle[h] = NotHeld
  BY InitTypes
<1>2. QED
  BY <1>1 DEF MountInv, TablesInv, RequestRight, HandlesTrue, Listed, Served

LEMMA HandlesOfMount ==
    ASSUME MountTyped, UNCHANGED <<tableVars, handle, request>>, TablesInv,
           \A m \in Names : files'[m].id = files[m].id
    PROVE  TablesInv'
BY TablesStep DEF MountTyped, SessionOK, SameHandle

LEMMA FlusherInv ==
    ASSUME MountInv, Flusher
    PROVE  MountInv'
<1>1. MountTyped /\ TablesInv
  BY DEF MountInv
<1>2. CASE Tick \/ Doze
  <2>1. MountTyped' /\ UNCHANGED <<files, tableVars, handle, request>>
    BY <1>1, <1>2, TickTypes
  <2>2. QED
    BY <1>1, <2>1, HandlesOfMount DEF MountInv
<1>3. CASE ReadPolicy
  <2>1. MountTyped' /\ UNCHANGED <<files, tableVars, handle, request>>
    BY <1>1, <1>3, ReadPolicyTypes
  <2>2. QED
    BY <1>1, <2>1, HandlesOfMount DEF MountInv
<1>4. CASE Enforce
  BY <1>1, <1>4, EnforceTypes, HandlesOfMount DEF MountInv
<1>5. CASE FlushAged \/ FlushAll
  <2>1. MountTyped' /\ UNCHANGED <<tableVars, handle, request>>
        /\ \A m \in Names : files'[m].id = files[m].id
    BY <1>1, <1>5, FlushAgedTypes DEF Grows
  <2>2. QED
    BY <1>1, <2>1, HandlesOfMount DEF MountInv
<1>6. CASE Counts
  <2>1. MountTyped' /\ UNCHANGED <<files, tableVars, handle, request>>
    BY <1>1, <1>6, CountsTypes
  <2>2. QED
    BY <1>1, <2>1, HandlesOfMount DEF MountInv
<1>7. CASE OpenGrain
  <2>1. MountTyped' /\ UNCHANGED <<files, tableVars, handle, request>>
    BY <1>1, <1>7, OpenGrainTypes
  <2>2. QED
    BY <1>1, <2>1, HandlesOfMount DEF MountInv
<1>8. CASE ReadChunks
  <2>1. MountTyped' /\ UNCHANGED <<files, tableVars, handle, request>>
    BY <1>1, <1>8, ReadChunksTypes
  <2>2. QED
    BY <1>1, <2>1, HandlesOfMount DEF MountInv
<1>9. CASE Install
  <2>1. MountTyped' /\ UNCHANGED <<files, tableVars, handle, request>>
    BY <1>1, <1>9, InstallTypes
  <2>2. QED
    BY <1>1, <2>1, HandlesOfMount DEF MountInv
<1>10. CASE Remount
  BY <1>1, <1>10, RemountTypes, RemountTables DEF MountInv
<1>11. QED
  BY <1>2, <1>3, <1>4, <1>5, <1>6, <1>7, <1>8, <1>9, <1>10 DEF Flusher

LEMMA HandleInv ==
    ASSUME MountInv, NEW h \in Handles,
           Open(h) \/ WriteAt(h) \/ FlushFile(h) \/ (\E n \in Names : Lookup(h, n) \/ Create(h, n))
    PROVE  MountInv'
<1>1. MountTyped /\ TablesInv /\ TablesInverse /\ request.to \in Names
      /\ \A i \in DOMAIN inoName : inoName[i] \in Names
  BY DEF MountInv, TablesInv, MountTyped, SessionOK
<1>2. CASE Open(h)
  <2>1. MountTyped' /\ UNCHANGED <<files, tableVars, request>> /\ \A j \in Handles : SameHandle(j)
    BY <1>1, <1>2, OpenTypes DEF Open
  <2>2. QED
    BY <1>1, <2>1, TablesStep DEF MountInv
<1>3. CASE WriteAt(h)
  <2>1. MountTyped' /\ UNCHANGED <<tableVars, request>> /\ (\A j \in Handles : SameHandle(j))
        /\ \A m \in Names : files'[m].id = files[m].id
    BY <1>1, <1>3, WriteTypes DEF WriteAt, Grows
  <2>2. QED
    BY <1>1, <2>1, TablesStep DEF MountInv
<1>4. CASE FlushFile(h)
  <2>1. MountTyped' /\ UNCHANGED <<tableVars, request>> /\ (\A j \in Handles : SameHandle(j))
        /\ \A m \in Names : files'[m].id = files[m].id
    BY <1>1, <1>4, FlushTypes DEF FlushFile, Grows
  <2>2. QED
    BY <1>1, <2>1, TablesStep DEF MountInv
<1>5. CASE \E n \in Names : Lookup(h, n) \/ Create(h, n)
  BY <1>1, <1>5, TablesInodes, LookupTypes, LookupTables, CreateTypes, CreateTables DEF MountInv
<1>6. QED
  BY <1>2, <1>3, <1>4, <1>5

LEMMA NamesInv ==
    ASSUME TargetsMade, MountInv, NEW o \in Names, NEW n \in Names,
           \/ Truncate(n) \/ Unlink(n) \/ SetPolicy(n)
           \/ Rename(o, n) \/ RotateNothing(o, n) \/ Rotate(o, n)
    PROVE  MountInv'
<1>1. MountTyped /\ TablesInv
  BY DEF MountInv
<1>2. CASE Truncate(n)
  <2>1. MountTyped' /\ UNCHANGED <<tableVars, handle, request>>
        /\ \A m \in Names : files'[m].id = files[m].id
    BY <1>1, <1>2, TruncateTypes DEF Truncate
  <2>2. QED
    BY <1>1, <2>1, HandlesOfMount DEF MountInv
<1>3. CASE Unlink(n)
  BY <1>1, <1>3, UnlinkTypes, UnlinkTables DEF MountInv
<1>4. CASE SetPolicy(n)
  <2>1. MountTyped' /\ UNCHANGED <<files, tableVars, handle, request>>
    BY <1>1, <1>4, SetPolicyTypes DEF SetPolicy
  <2>2. QED
    BY <1>1, <2>1, HandlesOfMount DEF MountInv
<1>5. CASE Rename(o, n)
  BY <1>1, <1>5, RenameTypes, RenameTables DEF MountInv
<1>6. CASE RotateNothing(o, n)
  BY <1>1, <1>6, RotateNothingTypes, RotateNothingTables DEF MountInv
<1>7. CASE Rotate(o, n)
  BY <1>1, <1>7, RotateTypes, RotateTables DEF MountInv
<1>8. QED
  BY <1>2, <1>3, <1>4, <1>5, <1>6, <1>7

LEMMA MountInvNext ==
    ASSUME TargetsMade, MountInv, MountNext
    PROVE  MountInv'
<1>1. MountTyped /\ TablesInv /\ "log" \in Names
  BY DEF MountInv, Names
<1>2. CASE Flusher
  BY <1>2, FlusherInv
<1>3. CASE Unlinked \/ Renamed \/ CutFilters \/ Rotated
  BY <1>1, <1>3, UnlinkedTypes, UnlinkedTables, RenamedTypes, RenamedTables, CutFiltersTypes,
     CutFiltersTables, RotatedTypes, RotatedTables DEF MountInv
<1>4. CASE \E h \in Handles : Open(h) \/ WriteAt(h) \/ FlushFile(h)
                              \/ (\E n \in Names : Lookup(h, n) \/ Create(h, n))
  BY <1>4, HandleInv
<1>5. CASE \E n \in Names : Truncate(n) \/ Unlink(n) \/ SetPolicy(n)
  BY <1>1, <1>5, NamesInv
<1>6. CASE \E o, n \in Names : Rename(o, n) \/ RotateNothing(o, n) \/ Rotate(o, n)
  BY <1>6, NamesInv
<1>7. QED
  BY <1>2, <1>3, <1>4, <1>5, <1>6 DEF MountNext, Answer

LEMMA MountInvStutters ==
    ASSUME MountInv, UNCHANGED mountVars
    PROVE  MountInv'
<1>1. UNCHANGED <<volume, files, sides, inoName, nameIno, mirror, nextIno, handle, request,
                  flusher, stamps, lastGood, indexed, written, made>>
  BY DEF mountVars, tableVars, flusherVars
<1>2. VolumeOK' /\ SessionOK' /\ FlusherOK'
  BY <1>1, VolumeKept, SessionSame, FlusherKept DEF MountInv, MountTyped, tableVars, flusherVars
<1>3. TablesInv'
  BY <1>1, HandlesOfMount DEF MountInv, tableVars
<1>4. QED
  BY <1>2, <1>3 DEF MountInv, MountTyped

\* The tables and the store agree between requests, and a handle answers for the log its name
\* stood for when it was looked up, whatever has been renamed, removed, made again or moved
\* since, or for none: provided that an empty target of a rotation can be made.
THEOREM HandlesKeepTheirLogs ==
    ASSUME TargetsMade
    PROVE  BothSpec => []HandlesKeepTheirLog
<1>1. BothInit => MountInv
  BY MountInvInit DEF BothInit
<1>2. MountInv /\ [BothNext]_<<dirVars, mountVars>> => MountInv'
  <2>1. ASSUME MountInv, BothNext \/ UNCHANGED <<dirVars, mountVars>>
        PROVE  MountInv'
    BY <2>1, MountInvNext, MountInvStutters DEF BothNext
  <2>2. QED
    BY <2>1
<1>3. MountInv => HandlesKeepTheirLog
  <2>1. SUFFICES ASSUME MountInv, request = Served
                 PROVE  TablesAgree /\ \A h \in Handles : Answers(h) => files[LogOf(h)].id = handle[h].of
    BY DEF HandlesKeepTheirLog
  <2>2. TablesAgree
    BY <2>1 DEF MountInv, TablesInv, TablesInverse, TablesAgree, Listed, Served
  <2>3. ASSUME NEW h \in Handles, Answers(h)
        PROVE  files[LogOf(h)].id = handle[h].of
    <3>1. handle[h] # NotHeld /\ handle[h].ino \in DOMAIN inoName
      BY <2>3, NotHeldType DEF Answers
    <3>2. Stands(request, inoName[handle[h].ino]) = {inoName[handle[h].ino]}
      BY <2>1, ServedTables DEF Served
    <3>3. QED
      BY <2>1, <3>1, <3>2 DEF MountInv, TablesInv, HandlesTrue, LogOf
  <2>4. QED
    BY <2>2, <2>3
<1>4. QED
  BY <1>1, <1>2, <1>3, PTL DEF BothSpec

------------------------------------------------------------------------------
\* The filters follow the log whether or not the targets of rotations are made.
LEMMA InodesStep ==
    ASSUME MountTyped, InodesRight, MountNext
    PROVE  InodesRight'
<1>1. ASSUME UNCHANGED tableVars PROVE InodesRight'
  BY <1>1 DEF tableVars, InodesRight
<1>2. CASE Unlinked
  BY <1>2 DEF Unlinked, ForgetName, Without, InodesRight
<1>3. CASE Renamed
  <2>1. CASE request.name \in DOMAIN nameIno
    BY <1>3, <2>1 DEF Renamed, InodesRight
  <2>2. CASE request.name \notin DOMAIN nameIno
    BY <1>3, <2>2 DEF Renamed, Without, InodesRight
  <2>3. QED
    BY <2>1, <2>2
<1>4. CASE Rotated
  BY <1>4, AssignedInodes DEF Rotated
<1>5. CASE \E h \in Handles, n \in Names : Create(h, n)
  BY <1>5, AssignedInodes DEF Create
<1>6. CASE Remount
  <2>1. TablesInverse'
    BY <1>6, RemountTypes
  <2>2. QED
    BY <2>1 DEF TablesInverse, InodesRight
<1>7. CASE Flusher /\ ~Remount
  BY <1>1, <1>7 DEF Flusher, Tick, Enforce, FlushAged, Counts, ReadChunks, Install, Doze, FlushAll,
     ReadPolicy, OpenGrain
<1>8. CASE CutFilters
  BY <1>1, <1>8 DEF CutFilters
<1>9. CASE \E h \in Handles : Open(h) \/ WriteAt(h) \/ FlushFile(h) \/ (\E n \in Names : Lookup(h, n))
  BY <1>1, <1>9 DEF Open, WriteAt, FlushFile, Lookup
<1>10. CASE \E n \in Names : Truncate(n) \/ Unlink(n) \/ SetPolicy(n)
  BY <1>1, <1>10 DEF Truncate, Unlink, SetPolicy
<1>11. CASE \E o, n \in Names : Rename(o, n) \/ RotateNothing(o, n) \/ Rotate(o, n)
  BY <1>1, <1>11 DEF Rename, RotateNothing, Rotate
<1>12. QED
  BY <1>2, <1>3, <1>4, <1>5, <1>6, <1>7, <1>8, <1>9, <1>10, <1>11 DEF MountNext, Answer

ExtendedInv == MountTyped /\ InodesRight /\ FiltersInv

LEMMA FlusherFilters ==
    ASSUME FiltersUndisturbed, MountTyped, FiltersInv, Flusher
    PROVE  MountTyped' /\ FiltersInv'
<1>1. CASE Tick \/ Doze
  <2>1. MountTyped' /\ UNCHANGED <<files, sides, request>> /\ flusher'.at \notin {"reads", "installs"}
    BY <1>1, TickTypes
  <2>2. QED
    BY <2>1, SameGrows, AwakeFilters
<1>2. CASE ReadPolicy
  <2>1. MountTyped' /\ UNCHANGED <<files, sides, request>> /\ flusher'.at \notin {"reads", "installs"}
    BY <1>2, ReadPolicyTypes
  <2>2. QED
    BY <2>1, SameGrows, AwakeFilters
<1>3. CASE Enforce
  BY <1>3, EnforceTypes, EnforceFilters
<1>4. CASE FlushAged \/ FlushAll
  <2>1. MountTyped' /\ UNCHANGED <<sides, request>> /\ flusher'.at \notin {"reads", "installs"}
        /\ \A m \in Names : Grows(files[m], files'[m])
    BY <1>4, FlushAgedTypes
  <2>2. QED
    BY <2>1, AwakeFilters
<1>5. CASE Counts
  <2>1. MountTyped' /\ UNCHANGED <<files, sides, request>> /\ flusher'.at \notin {"reads", "installs"}
    BY <1>5, CountsTypes
  <2>2. QED
    BY <2>1, SameGrows, AwakeFilters
<1>6. CASE OpenGrain
  BY <1>6, OpenGrainTypes, OpenGrainFilters
<1>7. CASE ReadChunks
  BY <1>7, ReadChunksTypes, ReadChunksFilters
<1>8. CASE Install
  BY <1>8, InstallTypes, InstallFilters
<1>9. CASE Remount
  BY <1>9, RemountTypes, RemountFilters
<1>10. QED
  BY <1>1, <1>2, <1>3, <1>4, <1>5, <1>6, <1>7, <1>8, <1>9 DEF Flusher

LEMMA HandleFilters ==
    ASSUME MountTyped, InodesRight, FiltersInv, NEW h \in Handles,
           Open(h) \/ WriteAt(h) \/ FlushFile(h) \/ (\E n \in Names : Lookup(h, n) \/ Create(h, n))
    PROVE  MountTyped' /\ FiltersInv'
<1>1. CASE Open(h)
  <2>1. MountTyped' /\ UNCHANGED <<files, sides, request, flusher>>
    BY <1>1, OpenTypes DEF Open, flusherVars
  <2>2. QED
    BY <2>1, SameGrows, FiltersStep
<1>2. CASE WriteAt(h)
  <2>1. MountTyped' /\ UNCHANGED <<sides, request, flusher>>
        /\ \A m \in Names : Grows(files[m], files'[m])
    BY <1>2, WriteTypes DEF WriteAt, flusherVars
  <2>2. QED
    BY <2>1, FiltersStep
<1>3. CASE FlushFile(h)
  <2>1. MountTyped' /\ UNCHANGED <<sides, request, flusher>>
        /\ \A m \in Names : Grows(files[m], files'[m])
    BY <1>3, FlushTypes DEF FlushFile, flusherVars
  <2>2. QED
    BY <2>1, FiltersStep
<1>4. ASSUME NEW n \in Names, Lookup(h, n)
      PROVE  MountTyped' /\ FiltersInv'
  <2>1. MountTyped' /\ UNCHANGED <<files, sides, request, flusher>>
    BY <1>4, LookupTypes DEF Lookup, flusherVars
  <2>2. QED
    BY <2>1, SameGrows, FiltersStep
<1>5. ASSUME NEW n \in Names, Create(h, n)
      PROVE  MountTyped' /\ FiltersInv'
  <2>1. MountTyped' /\ UNCHANGED <<sides, request, flusher>>
    BY <1>5, CreateTypes DEF Create, flusherVars
  <2>2. \A m \in Names : Longer(files[m].recs, files'[m].recs)
    <3>1. CASE There(n)
      BY <1>5, <3>1, ChunksOf DEF Create, MountTyped
    <3>2. CASE ~There(n)
      <4>1. made + 1 \in Nat /\ files[n].recs = <<>> /\ files \in [Names -> LogFile]
        BY <3>2, AbsentType, VolumeFacts DEF MountTyped
      <4>2. files' = [files EXCEPT ![n] = NewLog(made + 1)] /\ NewLog(made + 1).recs = <<>>
        BY <1>5, <3>2, <4>1, NewLogType DEF Create, NewLog
      <4>3. files'[n].recs = files[n].recs /\ \A m \in Names : m # n => files'[m] = files[m]
        BY <4>1, <4>2
      <4>4. QED
        BY <4>3, ChunksOf DEF MountTyped
    <3>3. QED
      BY <3>1, <3>2
  <2>3. GrainsTrue /\ ExtendingTrue /\ VolumeOK /\ VolumeOK' /\ SessionOK
    BY <2>1 DEF FiltersInv, MountTyped
  <2>4. GrainsTrue'
    BY <2>1, <2>2, <2>3, GrainsKept
  <2>5. ExtendingTrue'
    BY <2>1, <2>2, <2>3, ExtendingKept
  <2>6. QED
    BY <2>1, <2>4, <2>5 DEF FiltersInv
<1>6. QED
  BY <1>1, <1>2, <1>3, <1>4, <1>5

LEMMA NamesFilters ==
    ASSUME FiltersUndisturbed, MountTyped, FiltersInv, NEW o \in Names, NEW n \in Names,
           \/ Truncate(n) \/ Unlink(n) \/ SetPolicy(n)
           \/ Rename(o, n) \/ RotateNothing(o, n) \/ Rotate(o, n)
    PROVE  MountTyped' /\ FiltersInv'
<1>1. CASE Truncate(n)
  BY <1>1, TruncateTypes, TruncateFilters
<1>2. CASE Unlink(n)
  BY <1>2, UnlinkTypes, UnlinkFilters
<1>3. CASE SetPolicy(n)
  <2>1. MountTyped' /\ UNCHANGED <<files, request, flusher>>
        /\ \A m \in Names : sides'[m].grain = sides[m].grain
    BY <1>3, SetPolicyTypes DEF SetPolicy, flusherVars
  <2>2. QED
    BY <2>1, SameGrows, FiltersStep
<1>4. CASE Rename(o, n)
  BY <1>4, RenameTypes, RenameFilters
<1>5. CASE RotateNothing(o, n)
  BY <1>5, RotateNothingTypes, RotateNothingFilters
<1>6. CASE Rotate(o, n)
  BY <1>6, RotateTypes, RotateFilters
<1>7. QED
  BY <1>1, <1>2, <1>3, <1>4, <1>5, <1>6

LEMMA ExtendedNext ==
    ASSUME FiltersUndisturbed, ExtendedInv, MountNext
    PROVE  ExtendedInv'
<1>1. MountTyped /\ InodesRight /\ FiltersInv /\ InodesRight' /\ "log" \in Names
  BY InodesStep DEF ExtendedInv, Names
<1>2. CASE Flusher
  BY <1>1, <1>2, FlusherFilters DEF ExtendedInv
<1>3. CASE Unlinked \/ Renamed \/ Rotated
  <2>1. MountTyped'
    BY <1>1, <1>3, UnlinkedTypes, RenamedTypes, RotatedTypes
  <2>2. QED
    BY <1>1, <1>3, <2>1, FinishedFilters DEF ExtendedInv
<1>4. CASE CutFilters
  BY <1>1, <1>4, CutFiltersTypes, CutFiltersFilters DEF ExtendedInv
<1>5. CASE \E h \in Handles : Open(h) \/ WriteAt(h) \/ FlushFile(h)
                              \/ (\E n \in Names : Lookup(h, n) \/ Create(h, n))
  BY <1>1, <1>5, HandleFilters DEF ExtendedInv
<1>6. CASE \E n \in Names : Truncate(n) \/ Unlink(n) \/ SetPolicy(n)
  BY <1>1, <1>6, NamesFilters DEF ExtendedInv
<1>7. CASE \E o, n \in Names : Rename(o, n) \/ RotateNothing(o, n) \/ Rotate(o, n)
  BY <1>1, <1>7, NamesFilters DEF ExtendedInv
<1>8. QED
  BY <1>2, <1>3, <1>4, <1>5, <1>6, <1>7 DEF MountNext, Answer

LEMMA ExtendedStutters ==
    ASSUME ExtendedInv, UNCHANGED mountVars
    PROVE  ExtendedInv'
<1>1. UNCHANGED <<volume, files, sides, inoName, nameIno, mirror, nextIno, handle, request,
                  flusher, stamps, lastGood, indexed, written, made>>
  BY DEF mountVars, tableVars, flusherVars
<1>2. MountTyped /\ InodesRight /\ FiltersInv
  BY DEF ExtendedInv
<1>3. VolumeOK' /\ SessionOK' /\ FlusherOK'
  BY <1>1, <1>2, VolumeKept, SessionSame, FlusherKept DEF MountTyped, tableVars, flusherVars
<1>4. MountTyped'
  BY <1>3 DEF MountTyped
<1>5. FiltersInv'
  BY <1>1, <1>2, <1>4, SameGrows, FiltersStep
<1>6. InodesRight'
  BY <1>1, <1>2 DEF InodesRight
<1>7. QED
  BY <1>4, <1>5, <1>6 DEF ExtendedInv

\* The filter at a position is of the chunk at that position, whatever was written, cut,
\* renamed or extended since it was made: provided that no log is cut, moved or made again
\* while its filters are extended, and none without filters is renamed over one with them.
THEOREM FiltersAreOfTheirChunks ==
    ASSUME FiltersUndisturbed
    PROVE  BothSpec => []FiltersTrue
<1>1. BothInit => ExtendedInv
  BY InitTypes, TablesInodes, MountInitFilters DEF BothInit, ExtendedInv
<1>2. ExtendedInv /\ [BothNext]_<<dirVars, mountVars>> => ExtendedInv'
  <2>1. ASSUME ExtendedInv, BothNext \/ UNCHANGED <<dirVars, mountVars>>
        PROVE  ExtendedInv'
    BY <2>1, ExtendedNext, ExtendedStutters DEF BothNext
  <2>2. QED
    BY <2>1
<1>3. ExtendedInv => FiltersTrue
  <2>1. SUFFICES ASSUME ExtendedInv, NEW n \in Names, MutexFree,
                        NEW i \in DOMAIN sides[n].grain.filters, i <= Len(files[n].recs)
                 PROVE  sides[n].grain.filters[i] = files[n].recs[i]
    BY DEF FiltersTrue
  <2>2. Covers(sides[n].grain, files[n].recs)
    BY <2>1 DEF ExtendedInv, FiltersInv, GrainsTrue, MutexFree
  <2>3. sides[n].grain \in Filters
    BY <2>1, VolumeFacts DEF ExtendedInv, MountTyped
  <2>4. QED
    BY <2>1, <2>2, <2>3 DEF Covers, Filters
<1>4. QED
  BY <1>1, <1>2, <1>3, PTL DEF BothSpec
=============================================================================
