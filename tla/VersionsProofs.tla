---------------------------- MODULE VersionsProofs ----------------------------
(***************************************************************************)
(* The version store for every set of files, every retention and any       *)
(* number of deploys, reverts, failed writes, crashes and restarts.        *)
(***************************************************************************)
EXTENDS Versions, TLAPS, FiniteSetTheorems

-----------------------------------------------------------------------------
(* Sequences and overlays *)

\* A list's last entries, once the first `cut' are dropped.
LEMMA Cut ==
  ASSUME NEW S, NEW s \in Seq(S), NEW cut \in 0..Len(s)
  PROVE  LET t == SubSeq(s, cut + 1, Len(s))
         IN  /\ t \in Seq(S) /\ Len(t) = Len(s) - cut
             /\ \A i \in 1..Len(t) : t[i] = s[i + cut]
             /\ Range(t) \subseteq Range(s)
<1> DEFINE t == SubSeq(s, cut + 1, Len(s))
<1>1. t \in Seq(S) /\ Len(t) = Len(s) - cut /\ \A i \in 1..Len(t) : t[i] = s[i + cut]
  OBVIOUS
<1>2. Range(t) \subseteq Range(s)
  BY <1>1 DEF Range
<1>3. QED BY <1>1, <1>2

\* Appending a version puts it last and keeps the others in place.
LEMMA Appended ==
  ASSUME NEW S, NEW s \in Seq(S), NEW x \in S
  PROVE  /\ Append(s, x) \in Seq(S) /\ Len(Append(s, x)) = Len(s) + 1
         /\ Append(s, x)[Len(s) + 1] = x
         /\ \A i \in 1..Len(s) : Append(s, x)[i] = s[i]
         /\ Range(Append(s, x)) \subseteq Range(s) \cup {x}
<1>1. /\ Append(s, x) \in Seq(S) /\ Len(Append(s, x)) = Len(s) + 1
      /\ Append(s, x)[Len(s) + 1] = x /\ Len(s) \in Nat
      /\ \A i \in 1..Len(s) : Append(s, x)[i] = s[i]
  OBVIOUS
<1>2. ASSUME NEW i \in 1..(Len(s) + 1)
      PROVE  Append(s, x)[i] \in Range(s) \cup {x}
  <2>1. CASE i \in 1..Len(s) BY <2>1, <1>1 DEF Range
  <2>2. CASE i = Len(s) + 1 BY <2>2, <1>1
  <2>3. QED BY <2>1, <2>2, <1>1
<1>3. Range(Append(s, x)) \subseteq Range(s) \cup {x}
  BY <1>1, <1>2 DEF Range
<1>4. QED BY <1>1, <1>3

\* Overlays are closed under merging.
LEMMA MergeType ==
  ASSUME NEW under \in Overlay, NEW over \in Overlay
  PROVE  Merge(under, over) \in Overlay
BY DEF Merge, Overlay

\* The empty overlay is an overlay.
LEMMA NoPatchesType == NoPatches \in Overlay
BY DEF NoPatches, Overlay

-----------------------------------------------------------------------------
(* The inductive invariant *)

\* The counter is the number of the newest version.
SeqIsNewest == seq = IF order = <<>> THEN 0 ELSE Newest.seq

\* Whatever memory, disk or a revert in progress holds was once recorded, and every
\* revert on record carries its target.
OnRecord ==
  /\ Range(order) \subseteq recorded /\ disk \subseteq recorded
  /\ held # NoVersion => held \in recorded
  /\ \A v \in recorded : v.revertOf # 0 =>
       \E t \in recorded : t.seq = v.revertOf /\ t.patches = v.patches

Inv == /\ TypeOK /\ CumulativeIsNewest /\ NumbersGrow /\ SeqIsNewest /\ OnRecord
       /\ IsFiniteSet(disk)

\* An empty store satisfies the invariant.
LEMMA InitInv == Init => Inv
BY NoPatchesType, FS_EmptySet
   DEF Init, Inv, TypeOK, CumulativeIsNewest, NumbersGrow, SeqIsNewest, OnRecord, Range

\* A version for an overlay that extends the record is well formed.
LEMMA AppendKeeps ==
  ASSUME Inv, NEW patches \in Overlay, NEW revertOf \in Nat,
         NEW written \in BOOLEAN, NEW unlinked \in BOOLEAN,
         cumulative' = patches, AppendLocked(patches, revertOf, written, unlinked),
         held' \in {held, NoVersion},
         revertOf # 0 => \E t \in recorded : t.seq = revertOf /\ t.patches = patches
  PROVE  Inv'
<1> DEFINE v == [seq |-> NextSeq, patches |-> patches, revertOf |-> revertOf]
           listed == Append(order, v)
           cut == Surplus(listed)
<1> USE VersionsAssumption
<1>1. v \in Version /\ v.seq = seq + 1 /\ v.patches = patches /\ v.revertOf = revertOf
  BY DEF Inv, TypeOK, Version, NextSeq
<1>2. order \in Seq(Version) /\ Len(order) \in Nat /\ seq \in Nat
  BY DEF Inv, TypeOK
<1>3. /\ listed \in Seq(Version) /\ Len(listed) = Len(order) + 1
      /\ listed[Len(order) + 1] = v
      /\ \A i \in 1..Len(order) : listed[i] = order[i]
      /\ Range(listed) \subseteq Range(order) \cup {v}
  BY <1>1, <1>2, Appended
<1>4. cut \in 0..Len(order)
  BY <1>2, <1>3 DEF Surplus
<1>5. /\ order' = SubSeq(listed, cut + 1, Len(listed)) /\ seq' = seq + 1
      /\ cumulative' = patches /\ held' \in {held, NoVersion}
      /\ recorded' = recorded \cup {v} /\ disk' \subseteq disk \cup {v}
  BY DEF AppendLocked
<1> HIDE DEF v, listed, cut
<1>6. /\ order' \in Seq(Version) /\ Len(order') = Len(order) + 1 - cut
      /\ \A i \in 1..Len(order') : order'[i] = listed[i + cut]
      /\ Range(order') \subseteq Range(order) \cup {v}
  <2>1. cut \in 0..Len(listed) BY <1>2, <1>3, <1>4
  <2>2. QED BY <2>1, <1>2, <1>3, <1>4, <1>5, Cut
<1>7. order' # <<>> /\ order'[Len(order')] = v
  BY <1>2, <1>3, <1>4, <1>6
<1>8. \A i \in 1..Len(order) : order[i].seq \in Nat /\ order[i].seq <= seq
  <2>1. SUFFICES ASSUME NEW i \in 1..Len(order)
                 PROVE  order[i].seq \in Nat /\ order[i].seq <= seq
    OBVIOUS
  <2>2. order[i] \in Version /\ Newest \in Version /\ order # <<>> /\ Len(order) \in 1..Len(order)
    BY <1>2 DEF Newest
  <2>3. order[i].seq \in Nat /\ Newest.seq \in Nat
    BY <2>2 DEF Version
  <2>4. i # Len(order) => order[i].seq < Newest.seq
    BY <1>2, <2>2 DEF Inv, NumbersGrow, Newest
  <2>5. QED BY <2>2, <2>3, <2>4 DEF Inv, SeqIsNewest, Newest
<1>9. TypeOK'
  BY <1>1, <1>5, <1>6 DEF Inv, TypeOK
<1>10. CumulativeIsNewest' /\ SeqIsNewest'
  BY <1>1, <1>5, <1>7 DEF CumulativeIsNewest, SeqIsNewest, Newest
<1>11. NumbersGrow'
  <2>1. ASSUME NEW i \in 1..Len(order'), NEW j \in 1..Len(order'), i < j
        PROVE  order'[i].seq < order'[j].seq
    <3>1. i + cut \in 1..Len(order) /\ order'[i] = order[i + cut]
      BY <2>1, <1>2, <1>3, <1>4, <1>6
    <3>2. CASE j = Len(order')
      BY <3>1, <3>2, <1>1, <1>2, <1>7, <1>8
    <3>3. CASE j # Len(order')
      <4>1. j + cut \in 1..Len(order) /\ order'[j] = order[j + cut]
        BY <2>1, <3>3, <1>2, <1>3, <1>4, <1>6
      <4>2. i + cut < j + cut BY <2>1, <1>4, <1>6
      <4>3. QED BY <3>1, <4>1, <4>2 DEF Inv, NumbersGrow
    <3>4. QED BY <3>2, <3>3
  <2>2. \A w \in disk' : w.seq <= seq'
    BY <1>1, <1>2, <1>5 DEF Inv, TypeOK, Version, NumbersGrow
  <2>3. ASSUME NEW w \in disk', NEW u \in disk', w.seq = u.seq PROVE w = u
    <3>1. \A d \in disk : d.seq \in Nat /\ d.seq <= seq
      BY DEF Inv, TypeOK, Version, NumbersGrow
    <3>2. (w \in disk /\ u \in disk) \/ (w = v /\ u = v)
      BY <2>3, <3>1, <1>1, <1>2, <1>5
    <3>3. QED BY <2>3, <3>2 DEF Inv, NumbersGrow
  <2>4. QED BY <2>1, <2>2, <2>3 DEF NumbersGrow
<1>12. OnRecord'
  BY <1>1, <1>5, <1>6 DEF Inv, OnRecord
<1>13. IsFiniteSet(disk')
  BY <1>5, FS_AddElement, FS_Subset DEF Inv
<1>14. QED BY <1>9, <1>10, <1>11, <1>12, <1>13 DEF Inv

\* A restart rebuilds the invariant from whatever well-formed files it finds.
LEMMA LoadKeeps ==
  ASSUME Inv, NEW files, Load(files), recorded \subseteq recorded', recorded' \subseteq Version,
         files \subseteq recorded', IsFiniteSet(files),
         \A v, w \in files : v.seq = w.seq => v = w,
         \A v \in recorded' : v.revertOf # 0 =>
           \E t \in recorded' : t.seq = v.revertOf /\ t.patches = v.patches
  PROVE  Inv'
<1>1. PICK s \in [1..Cardinality(files) -> files] :
        /\ IsListing(s, files)
        /\ order' = s /\ disk' = files /\ held' = NoVersion
        /\ seq' = ResumedSeq(s) /\ cumulative' = RestoredOverlay(s)
  BY DEF Load
<1>2. Cardinality(files) \in Nat
  BY FS_CardinalityType
<1>3. files \subseteq Version
  OBVIOUS
<1>4. /\ s \in Seq(Version) /\ Len(s) \in Nat /\ DOMAIN s = 1..Len(s)
      /\ \A i \in 1..Len(s) : s[i] \in Version /\ s[i].seq \in Nat
  <2>1. s \in [1..Cardinality(files) -> Version] BY <1>3
  <2>2. s \in Seq(Version) /\ Len(s) = Cardinality(files) BY <2>1, <1>2
  <2>3. \A i \in 1..Len(s) : s[i] \in Version BY <2>2
  <2>4. \A i \in 1..Len(s) : s[i].seq \in Nat BY <2>3 DEF Version
  <2>5. QED BY <1>2, <2>1, <2>2, <2>3, <2>4
<1>5. Range(s) = files /\ \A i, j \in 1..Len(s) : i < j => s[i].seq < s[j].seq
  <2>1. ASSUME NEW i \in 1..Len(s), NEW j \in 1..Len(s), i < j
        PROVE  s[i].seq < s[j].seq
    <3>1. s[i] # s[j] /\ s[i].seq <= s[j].seq /\ s[i] \in files /\ s[j] \in files
      BY <2>1, <1>1, <1>4 DEF IsListing
    <3>2. QED BY <2>1, <3>1, <1>4
  <2>2. QED BY <2>1, <1>1 DEF IsListing
<1>6. s # <<>> => Len(s) \in 1..Len(s) /\ s[Len(s)] \in Version
  <2>1. s \in Seq(Version) /\ s # <<>> => Len(s) # 0 OBVIOUS
  <2>2. QED BY <2>1, <1>4
<1>7. TypeOK'
  <2>1. seq' \in Nat BY <1>1, <1>6 DEF ResumedSeq, Version
  <2>2. cumulative' \in Overlay
    BY <1>1, <1>6, NoPatchesType DEF RestoredOverlay, Version
  <2>3. QED BY <1>1, <1>3, <1>4, <2>1, <2>2 DEF TypeOK
<1>8. CumulativeIsNewest' /\ SeqIsNewest'
  BY <1>1 DEF CumulativeIsNewest, SeqIsNewest, ResumedSeq, RestoredOverlay, Newest
<1>9. NumbersGrow'
  <2>1. ASSUME NEW v \in files PROVE v.seq <= seq'
    <3>1. PICK i \in 1..Len(s) : v = s[i]
      BY <1>5, <1>4 DEF Range
    <3>2. s # <<>> BY <3>1, <1>4
    <3>3. s[i].seq \in Nat /\ s[Len(s)].seq \in Nat
      BY <1>4, <1>6, <3>1, <3>2
    <3>4. i # Len(s) => s[i].seq < s[Len(s)].seq
      BY <1>4, <1>5, <3>1
    <3>5. QED BY <1>1, <3>1, <3>2, <3>3, <3>4 DEF ResumedSeq
  <2>2. QED BY <1>1, <1>5, <2>1 DEF NumbersGrow
<1>10. OnRecord'
  BY <1>1, <1>5 DEF OnRecord
<1>11. IsFiniteSet(disk')
  BY <1>1
<1>12. QED BY <1>7, <1>8, <1>9, <1>10, <1>11 DEF Inv

\* The record of a revert in progress is a target worth recording.
LEMMA HeldTarget ==
  ASSUME Inv, held # NoVersion
  PROVE  /\ OverlayAfterRevert(held) \in Overlay /\ held.seq \in Nat
         /\ \E t \in recorded : t.seq = held.seq /\ t.patches = OverlayAfterRevert(held)
<1>1. held \in Version BY DEF Inv, TypeOK
<1>2. held \in recorded BY DEF Inv, OnRecord
<1>3. QED BY <1>1, <1>2 DEF Version, OverlayAfterRevert

\* What a crash inside appendLocked leaves on disk.
LEMMA CrashKeeps ==
  ASSUME Inv, NEW patches \in Overlay, NEW revertOf \in Nat, CrashInAppend(patches, revertOf),
         revertOf # 0 => \E t \in recorded : t.seq = revertOf /\ t.patches = patches
  PROVE  Inv'
<1> DEFINE v == [seq |-> NextSeq, patches |-> patches, revertOf |-> revertOf]
<1>1. v \in Version /\ v.patches = patches /\ v.revertOf = revertOf
  BY DEF Inv, TypeOK, Version, NextSeq
<1>2. Load(disk \cup {v}) /\ recorded' = recorded \cup {v}
  BY DEF CrashInAppend
<1> HIDE DEF v
<1>3. disk \cup {v} \subseteq recorded' /\ recorded' \subseteq Version
  BY <1>1, <1>2 DEF Inv, TypeOK, OnRecord
<1>4. IsFiniteSet(disk \cup {v})
  BY FS_AddElement DEF Inv
<1>5. \A w \in recorded' : w.revertOf # 0 =>
        \E t \in recorded' : t.seq = w.revertOf /\ t.patches = w.patches
  BY <1>1, <1>2 DEF Inv, OnRecord
<1>6. \A u, w \in disk \cup {v} : u.seq = w.seq => u = w
  <2>1. v.seq = seq + 1 /\ seq \in Nat /\ \A d \in disk : d.seq \in Nat /\ d.seq <= seq
    BY DEF v, NextSeq, Inv, TypeOK, Version, NumbersGrow
  <2>2. \A d \in disk : d.seq # v.seq
    BY <2>1
  <2>3. QED BY <2>2 DEF Inv, NumbersGrow
<1>7. QED BY <1>2, <1>3, <1>4, <1>5, <1>6, LoadKeeps

\* Records, reverts, failed writes, restarts and crashes keep the invariant.
LEMMA StepInv == Inv /\ [Next]_vars => Inv'
<1> SUFFICES ASSUME Inv, [Next]_vars PROVE Inv'
  OBVIOUS
<1>1. ASSUME NEW written \in BOOLEAN, NEW unlinked \in BOOLEAN, NEW run \in Overlay,
             RecordDeploy(run, written, unlinked)
      PROVE  Inv'
  <2>1. Merge(cumulative, run) \in Overlay
    BY MergeType DEF Inv, TypeOK
  <2>2. AppendLocked(Merge(cumulative, run), 0, written, unlinked)
        /\ cumulative' = Merge(cumulative, run) /\ held' = held
    BY <1>1 DEF RecordDeploy, AppendLocked
  <2>3. QED BY <2>1, <2>2, AppendKeeps
<1>2. ASSUME NEW written \in BOOLEAN, NEW unlinked \in BOOLEAN,
             RecordRevert(written, unlinked)
      PROVE  Inv'
  <2>1. AppendLocked(OverlayAfterRevert(held), held.seq, written, unlinked)
        /\ cumulative' = OverlayAfterRevert(held) /\ held' = NoVersion /\ held # NoVersion
    BY <1>2 DEF RecordRevert, AppendLocked
  <2>2. QED BY <2>1, HeldTarget, AppendKeeps
<1>3. CASE Get
  BY <1>3 DEF Get, Inv, TypeOK, CumulativeIsNewest, NumbersGrow, SeqIsNewest, OnRecord,
              Newest, Range
<1>4. CASE RevertFails
  BY <1>4 DEF RevertFails, Inv, TypeOK, CumulativeIsNewest, NumbersGrow, SeqIsNewest,
              OnRecord, Newest
<1>5. ASSUME NEW cleared \in BOOLEAN, Restart(cleared) PROVE Inv'
  <2>1. /\ Load(IF cleared THEN {} ELSE disk) /\ recorded' = recorded
    BY <1>5 DEF Restart
  <2>2. (IF cleared THEN {} ELSE disk) \subseteq recorded /\ recorded \subseteq Version
    BY DEF Inv, TypeOK, OnRecord
  <2>3. IsFiniteSet(IF cleared THEN {} ELSE disk)
    BY FS_EmptySet DEF Inv
  <2>4. \A u, w \in IF cleared THEN {} ELSE disk : u.seq = w.seq => u = w
    BY DEF Inv, NumbersGrow
  <2>5. QED BY <2>1, <2>2, <2>3, <2>4, LoadKeeps DEF Inv, OnRecord
<1>6. ASSUME NEW run \in Overlay, CrashInAppend(Merge(cumulative, run), 0) PROVE Inv'
  BY <1>6, MergeType, CrashKeeps DEF Inv, TypeOK
<1>7. ASSUME held # NoVersion, CrashInAppend(OverlayAfterRevert(held), held.seq) PROVE Inv'
  BY <1>7, HeldTarget, CrashKeeps
<1>8. CASE UNCHANGED vars
  BY <1>8 DEF vars, Inv, TypeOK, CumulativeIsNewest, NumbersGrow, SeqIsNewest, OnRecord,
              Newest
<1>9. QED BY <1>1, <1>2, <1>3, <1>4, <1>5, <1>6, <1>7, <1>8 DEF Next, Record

\* The inductive invariant of the version store holds throughout.
LEMMA Invariance == Spec => []Inv
BY InitInv, StepInv, PTL DEF Spec

-----------------------------------------------------------------------------
(* The theorems *)

\* The store's state is well formed, for every retention.
THEOREM TypeCorrect == Spec => []TypeOK
<1>1. Inv => TypeOK BY DEF Inv
<1>2. QED BY <1>1, Invariance, PTL

\* The overlay the next deploy builds on is the newest version's, always.
THEOREM CumulativeNewest == Spec => []CumulativeIsNewest
<1>1. Inv => CumulativeIsNewest BY DEF Inv
<1>2. QED BY <1>1, Invariance, PTL

\* No number is given twice to versions on the list.
THEOREM NumbersGrowing == Spec => []NumbersGrow
<1>1. Inv => NumbersGrow BY DEF Inv
<1>2. QED BY <1>1, Invariance, PTL

\* Every revert on the list carries its target's overlay.
THEOREM RevertsCarryTarget == Spec => []RevertCarriesTarget
<1>1. Inv => RevertCarriesTarget BY DEF Inv, OnRecord, RevertCarriesTarget
<1>2. QED BY <1>1, Invariance, PTL

\* What appendLocked drops are the oldest versions, and only those past the cap.
LEMMA AppendPrunesOldest ==
  ASSUME Inv, NEW patches \in Overlay, NEW revertOf \in Nat, NEW written, NEW unlinked,
         AppendLocked(patches, revertOf, written, unlinked),
         NEW v \in Range(order) \ Range(order')
  PROVE  Len(order') = Retention /\ \A w \in Range(order') : v.seq < w.seq
<1> DEFINE x == [seq |-> NextSeq, patches |-> patches, revertOf |-> revertOf]
           listed == Append(order, x)
           cut == Surplus(listed)
<1> USE VersionsAssumption
<1>1. x \in Version /\ x.seq = seq + 1
  BY DEF Inv, TypeOK, Version, NextSeq
<1>2. order \in Seq(Version) /\ Len(order) \in Nat /\ seq \in Nat
  BY DEF Inv, TypeOK
<1>3. /\ listed \in Seq(Version) /\ Len(listed) = Len(order) + 1
      /\ listed[Len(order) + 1] = x
      /\ \A i \in 1..Len(order) : listed[i] = order[i]
  BY <1>1, <1>2, Appended
<1>4. cut \in 0..Len(order) /\ (cut # 0 => Len(order) + 1 - cut = Retention)
  BY <1>2, <1>3 DEF Surplus
<1>5. order' = SubSeq(listed, cut + 1, Len(listed))
  BY DEF AppendLocked
<1> HIDE DEF x, listed, cut
<1>6. /\ order' \in Seq(Version) /\ Len(order') = Len(order) + 1 - cut
      /\ \A i \in 1..Len(order') : order'[i] = listed[i + cut]
  <2>1. cut \in 0..Len(listed) BY <1>2, <1>3, <1>4
  <2>2. QED BY <2>1, <1>2, <1>3, <1>5, Cut
<1>7. PICK k \in 1..Len(order) : v = order[k]
  BY <1>2 DEF Range
<1>8. k <= cut
  <2>1. SUFFICES ASSUME cut < k PROVE FALSE
    BY <1>2, <1>4, <1>7
  <2>2. k - cut \in 1..Len(order') /\ order'[k - cut] = listed[k]
    BY <2>1, <1>2, <1>4, <1>6, <1>7
  <2>3. v \in Range(order')
    BY <2>2, <1>3, <1>6, <1>7 DEF Range
  <2>4. QED BY <2>3
<1>9. Len(order') = Retention
  BY <1>2, <1>4, <1>6, <1>7, <1>8
<1>10. ASSUME NEW i \in 1..Len(order') PROVE v.seq < order'[i].seq
  <2>1. CASE i + cut \in 1..Len(order)
    <3>1. order'[i] = order[i + cut] /\ k < i + cut
      BY <2>1, <1>2, <1>3, <1>4, <1>6, <1>7, <1>8
    <3>2. QED BY <2>1, <3>1, <1>7 DEF Inv, NumbersGrow
  <2>2. CASE i + cut = Len(order) + 1
    <3>1. order'[i] = x
      BY <2>2, <1>3, <1>6
    <3>2. v.seq \in Nat /\ v.seq <= seq
      <4>1. Newest \in Version /\ v \in Version /\ Len(order) \in 1..Len(order) /\ order # <<>>
        BY <1>2, <1>7 DEF Newest
      <4>2. k # Len(order) => v.seq < Newest.seq
        BY <1>2, <1>7, <4>1 DEF Inv, NumbersGrow, Newest
      <4>3. QED BY <4>1, <4>2, <1>7 DEF Inv, SeqIsNewest, Newest, Version
    <3>3. order'[i].seq = seq + 1
      BY <3>1, <1>1
    <3>4. QED BY <3>2, <3>3, <1>2
  <2>3. i + cut \in 1..(Len(order) + 1)
    BY <1>2, <1>4, <1>6
  <2>4. QED BY <2>1, <2>2, <2>3, <1>2
<1>11. QED BY <1>6, <1>9, <1>10 DEF Range

\* A record drops only the oldest versions, and none below the cap.
THEOREM OldestPruned == Spec => OnlyOldestPruned
<1>1. Inv /\ Record => DropsOldest
  <2> SUFFICES ASSUME Inv, Record, NEW v \in Range(order) \ Range(order')
               PROVE  Len(order') = Retention /\ \A w \in Range(order') : v.seq < w.seq
    BY DEF DropsOldest
  <2>1. PICK written \in BOOLEAN, unlinked \in BOOLEAN :
          \/ \E run \in Overlay : RecordDeploy(run, written, unlinked)
          \/ RecordRevert(written, unlinked)
    BY DEF Record
  <2>2. CASE \E run \in Overlay : RecordDeploy(run, written, unlinked)
    <3>1. PICK run \in Overlay : RecordDeploy(run, written, unlinked)
      BY <2>2
    <3>2. Merge(cumulative, run) \in Overlay
      BY MergeType DEF Inv, TypeOK
    <3>3. AppendLocked(Merge(cumulative, run), 0, written, unlinked)
      BY <3>1 DEF RecordDeploy, AppendLocked
    <3>4. QED BY <3>2, <3>3, AppendPrunesOldest
  <2>3. CASE RecordRevert(written, unlinked)
    <3>1. AppendLocked(OverlayAfterRevert(held), held.seq, written, unlinked) /\ held # NoVersion
      BY <2>3 DEF RecordRevert, AppendLocked
    <3>2. QED BY <3>1, HeldTarget, AppendPrunesOldest
  <2>4. QED BY <2>1, <2>2, <2>3
<1>2. QED BY <1>1, Invariance, PTL DEF OnlyOldestPruned

\* A restart that finds the newest version's file resumes where the store was.
THEOREM RestartsResume == Spec => RestartResumes
<1>1. Inv /\ Restart(FALSE) /\ order # <<>> /\ Newest \in disk => UNCHANGED <<cumulative, seq>>
  <2> SUFFICES ASSUME Inv, Restart(FALSE), order # <<>>, Newest \in disk
               PROVE  cumulative' = cumulative /\ seq' = seq
    OBVIOUS
  <2>1. PICK s \in [1..Cardinality(disk) -> disk] :
          /\ IsListing(s, disk)
          /\ seq' = ResumedSeq(s) /\ cumulative' = RestoredOverlay(s)
    BY DEF Restart, Load
  <2>2. Cardinality(disk) \in Nat BY FS_CardinalityType DEF Inv
  <2>3. /\ s \in Seq(disk) /\ Len(s) = Cardinality(disk) /\ DOMAIN s = 1..Len(s)
        /\ \A i \in 1..Len(s) : s[i] \in disk
    BY <2>1, <2>2
  <2>4. PICK i \in 1..Len(s) : s[i] = Newest
    BY <2>1, <2>3 DEF IsListing, Range
  <2>5. Len(s) \in 1..Len(s) /\ s # <<>> /\ s[Len(s)] \in disk
    BY <2>3, <2>4, <2>2
  <2>6. s[Len(s)].seq <= seq /\ s[Len(s)].seq \in Nat /\ seq = Newest.seq /\ seq \in Nat
    BY <2>5 DEF Inv, TypeOK, NumbersGrow, SeqIsNewest, Version
  <2>7. s[Len(s)] = Newest
    <3>1. i < Len(s) => Newest.seq <= s[Len(s)].seq
      BY <2>1, <2>3, <2>4, <2>5, <2>2 DEF IsListing
    <3>2. s[Len(s)].seq = Newest.seq
      BY <3>1, <2>3, <2>4, <2>5, <2>6, <2>2
    <3>3. QED BY <3>2, <2>5 DEF Inv, NumbersGrow
  <2>8. QED
    BY <2>1, <2>5, <2>6, <2>7 DEF ResumedSeq, RestoredOverlay, Inv, CumulativeIsNewest
<1>2. QED BY <1>1, Invariance, PTL DEF RestartResumes


-----------------------------------------------------------------------------
(* The store implements the plain log of overlays *)

\* A reload resumes from the overlay of a file it found, or from none.
LEMMA LoadResumes ==
  ASSUME NEW files, IsFiniteSet(files), Load(files)
  PROVE  cumulative' \in {v.patches : v \in files} \cup {NoPatches}
<1>1. PICK s \in [1..Cardinality(files) -> files] : cumulative' = RestoredOverlay(s)
  BY DEF Load
<1>2. Cardinality(files) \in Nat
  BY FS_CardinalityType
<1>3. s \in Seq(files) /\ Len(s) = Cardinality(files)
  BY <1>2
<1>4. s # <<>> => s[Len(s)] \in files
  <2>1. s \in Seq(files) /\ s # <<>> => Len(s) # 0
    OBVIOUS
  <2>2. Len(s) \in Nat /\ \A i \in 1..Len(s) : s[i] \in files
    BY <1>2, <1>3
  <2>3. QED BY <1>3, <2>1, <2>2
<1>5. QED BY <1>1, <1>4 DEF RestoredOverlay

\* A reload that finds a version newer than all others resumes from it.
LEMMA LoadTakesNewest ==
  ASSUME NEW files, IsFiniteSet(files), Load(files), files \subseteq Version,
         NEW v \in files, \A w \in files : w # v => w.seq < v.seq
  PROVE  cumulative' = v.patches
<1>1. PICK s \in [1..Cardinality(files) -> files] :
        IsListing(s, files) /\ cumulative' = RestoredOverlay(s)
  BY DEF Load
<1>2. Cardinality(files) \in Nat
  BY FS_CardinalityType
<1>3. s \in Seq(files) /\ Len(s) = Cardinality(files) /\ DOMAIN s = 1..Len(s)
  BY <1>2
<1>4. PICK i \in 1..Len(s) : s[i] = v
  BY <1>1, <1>3 DEF IsListing, Range
<1>5. s # <<>> /\ Len(s) \in 1..Len(s) /\ s[Len(s)] \in files
  BY <1>3, <1>4
<1>6. s[Len(s)] = v
  <2>1. SUFFICES ASSUME i # Len(s), s[Len(s)] # v PROVE FALSE
    BY <1>4
  <2>2. i < Len(s)
    BY <2>1, <1>3, <1>4
  <2>3. s[i].seq <= s[Len(s)].seq
    BY <2>2, <1>1, <1>4, <1>5 DEF IsListing
  <2>4. s[Len(s)].seq < v.seq
    BY <2>1, <1>5
  <2>5. v.seq \in Nat /\ s[Len(s)].seq \in Nat
    BY <1>5 DEF Version
  <2>6. QED BY <2>3, <2>4, <2>5, <1>4
<1>7. QED BY <1>1, <1>5, <1>6 DEF RestoredOverlay

\* The abstract log, seen from here.
Logged == {v.patches : v \in recorded}

\* Recording a version logs its overlay.
LEMMA RecordingLogs ==
  ASSUME NEW v, recorded' = recorded \cup {v}
  PROVE  Logged' = Logged \cup {v.patches}
BY DEF Logged

\* The overlay of an abstract deploy or revert is an overlay here.
LEMMA SameOverlays ==
  /\ Log!Overlay = Overlay /\ Log!NoPatches = NoPatches
  /\ \A under, over : Log!Merge(under, over) = Merge(under, over)
BY DEF Log!Overlay, Overlay, Log!NoPatches, NoPatches, Log!Merge, Merge

\* A crash inside a record call leaves the recorded overlay carried.
LEMMA CrashCarries ==
  ASSUME Inv, NEW patches \in Overlay, NEW revertOf \in Nat, CrashInAppend(patches, revertOf)
  PROVE  cumulative' = patches /\ Logged' = Logged \cup {patches}
<1> DEFINE v == [seq |-> NextSeq, patches |-> patches, revertOf |-> revertOf]
<1>1. v \in Version /\ v.patches = patches /\ v.seq = seq + 1 /\ seq \in Nat
  BY DEF Inv, TypeOK, Version, NextSeq
<1>2. Load(disk \cup {v}) /\ recorded' = recorded \cup {v}
  BY DEF CrashInAppend
<1> HIDE DEF v
<1>3. \A d \in disk : d.seq \in Nat /\ d.seq <= seq
  BY DEF Inv, TypeOK, Version, NumbersGrow
<1>4. IsFiniteSet(disk \cup {v}) /\ disk \cup {v} \subseteq Version
  BY <1>1, FS_AddElement DEF Inv, TypeOK
<1>5. \A w \in disk \cup {v} : w # v => w.seq < v.seq
  BY <1>1, <1>3
<1>6. cumulative' = v.patches
  <2>1. v \in disk \cup {v} OBVIOUS
  <2>2. QED BY <2>1, <1>2, <1>4, <1>5, LoadTakesNewest
<1>7. QED BY <1>1, <1>2, <1>6, RecordingLogs

\* Every step of the store is a step of the log, or none.
LEMMA StepLogs ==
  ASSUME Inv, [Next]_vars
  PROVE  [Log!Next]_<<Logged, cumulative>>
<1>1. ASSUME NEW written \in BOOLEAN, NEW unlinked \in BOOLEAN, NEW run \in Overlay,
             RecordDeploy(run, written, unlinked)
      PROVE  Log!Deploy(run)
  <2>1. cumulative' = Merge(cumulative, run) /\ run # NoPatches
    BY <1>1 DEF RecordDeploy
  <2>2. Logged' = Logged \cup {cumulative'}
    BY <1>1, RecordingLogs DEF RecordDeploy, AppendLocked
  <2>3. QED BY <2>1, <2>2, SameOverlays DEF Log!Deploy, Logged
<1>2. ASSUME held # NoVersion, cumulative' = OverlayAfterRevert(held),
             Logged' = Logged \cup {cumulative'}
      PROVE  \E target \in Logged : Log!Revert(target)
  <2>1. held.patches \in Logged
    BY <1>2 DEF Inv, OnRecord, Logged
  <2>2. cumulative' = held.patches /\ Logged' = Logged
    BY <1>2, <2>1 DEF OverlayAfterRevert
  <2>3. QED BY <2>1, <2>2 DEF Log!Revert, Logged
<1>3. ASSUME NEW written \in BOOLEAN, NEW unlinked \in BOOLEAN,
             RecordRevert(written, unlinked)
      PROVE  \E target \in Logged : Log!Revert(target)
  <2>1. held # NoVersion /\ cumulative' = OverlayAfterRevert(held)
    BY <1>3 DEF RecordRevert
  <2>2. Logged' = Logged \cup {cumulative'}
    BY <1>3, RecordingLogs DEF RecordRevert, AppendLocked
  <2>3. QED BY <2>1, <2>2, <1>2
<1>4. CASE Get \/ RevertFails \/ UNCHANGED vars
  BY <1>4 DEF Get, RevertFails, vars, Logged
<1>5. ASSUME NEW cleared \in BOOLEAN, Restart(cleared) PROVE Log!Resume
  <2>1. Load(IF cleared THEN {} ELSE disk) /\ recorded' = recorded
    BY <1>5 DEF Restart
  <2>2. IsFiniteSet(IF cleared THEN {} ELSE disk)
        /\ (IF cleared THEN {} ELSE disk) \subseteq recorded
    BY FS_EmptySet DEF Inv, OnRecord
  <2>3. cumulative' \in Logged \cup {NoPatches} /\ Logged' = Logged
    BY <2>1, <2>2, LoadResumes DEF Logged
  <2>4. QED BY <2>3, SameOverlays DEF Log!Resume, Logged
<1>6. ASSUME NEW run \in Overlay, run # NoPatches, CrashInAppend(Merge(cumulative, run), 0)
      PROVE  Log!Deploy(run)
  <2>1. Merge(cumulative, run) \in Overlay /\ 0 \in Nat
    BY MergeType DEF Inv, TypeOK
  <2>2. cumulative' = Merge(cumulative, run) /\ Logged' = Logged \cup {cumulative'}
    BY <1>6, <2>1, CrashCarries
  <2>3. QED BY <1>6, <2>2, SameOverlays DEF Log!Deploy, Logged
<1>7. ASSUME held # NoVersion, CrashInAppend(OverlayAfterRevert(held), held.seq)
      PROVE  \E target \in Logged : Log!Revert(target)
  <2>1. OverlayAfterRevert(held) \in Overlay /\ held.seq \in Nat
    BY <1>7, HeldTarget
  <2>2. QED BY <1>7, <2>1, CrashCarries, <1>2
<1>8. QED
  BY <1>1, <1>3, <1>4, <1>5, <1>6, <1>7, SameOverlays DEF Next, Record, Log!Next, Logged

\* The store, however it prunes, loses files or crashes, is a log that carries a
\* recorded overlay or none, for every retention.
THEOREM VersionsImplementLog == Spec => ImplementsLog
<1>1. Init => Log!Init
  BY SameOverlays DEF Init, Log!Init
<1>2. Inv /\ [Next]_vars => [Log!Next]_<<Logged, cumulative>>
  BY StepLogs
<1>3. QED
  BY <1>1, <1>2, Invariance, PTL DEF Spec, ImplementsLog, Log!Spec, Logged
=============================================================================
