-------------------------- MODULE CoreIndexProofs --------------------------
(***************************************************************************)
(* Proofs about CoreIndex, for every number of datasets, frames, stamps,   *)
(* labels and instances, every label list and any number of requests and   *)
(* restarts.                                                               *)
(*                                                                         *)
(* The inductive invariant is TypeOK with the safety properties            *)
(* themselves: each is preserved given TypeOK and, for RtTransformable,    *)
(* that the tf buffer only grows between restarts.  The lemmas of the      *)
(* first part say what AddDatasetToIndices and TryAddingDataWithMissingTF  *)
(* do; the second part has one step per action.                            *)
(***************************************************************************)
EXTENDS CoreIndex, SequenceTheorems, TLAPS

\* what a label list is once its instance texts are parsed
IndexLabels == Seq([label : Labels, inst : Instances \cup {Nil}])

-----------------------------------------------------------------------------
(* Typing of the helpers.                                                  *)

\* An element of a sequence over S is in S.
LEMMA ElementType ==
  ASSUME NEW S, NEW s \in Seq(S), NEW k \in DOMAIN s
  PROVE  s[k] \in S
BY LenProperties

\* The list the file and the index get are label lists.
LEMMA ConcatType ==
  ASSUME NEW a \in Seq(LabelsWithInstance), NEW b \in Seq(LabelsWithInstance)
  PROVE  a \o b \in Seq(LabelsWithInstance)
OBVIOUS

\* Parsing leaves a list of labels with parsed instance uuids.
LEMMA ParsedType ==
  ASSUME NEW ls \in Seq(LabelsWithInstance)
  PROVE  /\ Parsed(ls) \in IndexLabels
         /\ DOMAIN Parsed(ls) = DOMAIN ls
         /\ \A k \in DOMAIN ls : Parsed(ls)[k].label = ls[k].label
<1> DEFINE item(k) == [label |-> ls[k].label,
                       inst |-> IF ls[k].inst = Malformed THEN Nil ELSE ls[k].inst]
<1>1. DOMAIN ls = 1 .. Len(ls) /\ Len(ls) \in Nat
  OBVIOUS
<1>2. \A k \in 1 .. Len(ls) : item(k) \in [label : Labels, inst : Instances \cup {Nil}]
  <2> SUFFICES ASSUME NEW k \in 1 .. Len(ls)
               PROVE  item(k) \in [label : Labels, inst : Instances \cup {Nil}]
    OBVIOUS
  <2>1. ls[k] \in LabelsWithInstance
    OBVIOUS
  <2>2. ls[k].label \in Labels /\ ls[k].inst \in Instances \cup {Nil, Malformed}
    BY <2>1 DEF LabelsWithInstance
  <2> QED BY <2>2
<1>3. Parsed(ls) = [k \in 1 .. Len(ls) |-> item(k)]
  BY <1>1 DEF Parsed
<1> QED BY <1>1, <1>2, <1>3 DEF IndexLabels

\* A stored list without a malformed instance is such a list as it stands.
LEMMA ReadableLabels ==
  ASSUME TypeOK, NEW g \in Datatypes, NEW u \in Uuids, Readable(g, u)
  PROVE  StoredLabels(g, u) \in IndexLabels /\ fileHeader[g][u] \in Headers
<1> DEFINE ls == StoredLabels(g, u)
<1>1. ls \in Seq(LabelsWithInstance)
  BY ConcatType DEF TypeOK, FileTypeOK, StoredLabels
<1>2. \A k \in DOMAIN ls : ls[k].inst # Malformed
  BY DEF Readable
<1>3. \A k \in 1 .. Len(ls) : ls[k] \in [label : Labels, inst : Instances \cup {Nil}]
  <2> HIDE DEF ls
  <2> SUFFICES ASSUME NEW k \in 1 .. Len(ls)
               PROVE  ls[k] \in [label : Labels, inst : Instances \cup {Nil}]
    OBVIOUS
  <2>1. ls[k] \in LabelsWithInstance /\ k \in DOMAIN ls
    BY <1>1
  <2>2. ls[k].inst \in Instances \cup {Nil}
    BY <1>2, <2>1 DEF LabelsWithInstance
  <2> QED BY <2>1, <2>2 DEF LabelsWithInstance
<1>4. ls \in IndexLabels
  <2> HIDE DEF ls
  <2> DEFINE S == [label : Labels, inst : Instances \cup {Nil}]
  <2>1. Len(ls) \in Nat /\ ls \in [1 .. Len(ls) -> LabelsWithInstance]
    BY <1>1, LenProperties
  <2>2. ls \in [1 .. Len(ls) -> S]
    BY <1>3, <2>1
  <2> HIDE DEF S
  <2>3. ls \in Seq(S)
    BY <2>1, <2>2, SeqDef
  <2> QED BY <2>3 DEF IndexLabels, S
<1>5. fileHeader[g][u] \in Headers
  BY DEF TypeOK, FileTypeOK, Readable, HasRawData
<1> QED BY <1>4, <1>5

\* An instance joined by the loop has the label of its list position, and it is
\* the label found before if there was one.
LEMMA JoinedLabel ==
  ASSUME TypeOK, NEW ls \in IndexLabels, NEW i \in InstancesIn(ls)
  PROVE  /\ i \in Instances
         /\ \E k \in Visited(ls) : ls[k].inst = i /\ ls[k].label = LabelOf(ls, i)
         /\ LabelOf(ls, i) \in Labels
         /\ instLabel[i] # None => LabelOf(ls, i) = instLabel[i]
<1>1. PICK k \in Joined(ls) : ls[k].inst = i
  BY DEF InstancesIn
<1>2. k \in DOMAIN ls /\ k \in Visited(ls) /\ i # Nil /\ ~Mismatch(ls, k)
  BY <1>1 DEF Joined, Visited
<1>3. ls[k] \in [label : Labels, inst : Instances \cup {Nil}]
  BY <1>2, ElementType DEF IndexLabels
<1>4. ls[k].label = LabelOf(ls, i)
  BY <1>1, <1>2 DEF Mismatch
<1>5. instLabel[i] # None => LabelOf(ls, i) = instLabel[i]
  BY DEF LabelOf
<1>6. ls[k].label \in Labels /\ ls[k].inst \in Instances \cup {Nil}
  BY <1>3
<1>7. i \in Instances /\ LabelOf(ls, i) \in Labels
  BY <1>1, <1>2, <1>4, <1>6
<1> QED BY <1>1, <1>2, <1>4, <1>5, <1>7, Zenon

-----------------------------------------------------------------------------
(* What AddDatasetToIndices does to the index.                             *)

\* The entry of a dataset is an entry.
LEMMA EntryType ==
  ASSUME NEW u \in Uuids, NEW h \in Headers
  PROVE  Entry(u, h) \in Entries /\ Entry(u, h).uuid = u
BY DEF Entry, Entries, Headers

\* It keeps the types of the index.
LEMMA AddKeepsType ==
  ASSUME TypeOK, NEW d \in Datatypes, NEW u \in Uuids, NEW h \in Headers,
         NEW ls \in IndexLabels, AddDatasetToIndices(d, u, h, ls)
  PROVE  IndexTypeOK'
<1> DEFINE e == Entry(u, h)
<1>1. e \in Entries
  BY EntryType
<1>a. Place(d, e) /\ timetree' = [timetree EXCEPT ![d][e] = @ + 1]
  BY DEF AddDatasetToIndices
<1> HIDE DEF e
<1>2. /\ rt' \in [Datatypes -> [Entries -> Nat]]
      /\ dataWithMissingTF' \in [Datatypes -> [Entries -> Nat]]
  <2>1. /\ rt \in [Datatypes -> [Entries -> Nat]]
        /\ dataWithMissingTF \in [Datatypes -> [Entries -> Nat]]
    BY DEF TypeOK, IndexTypeOK
  <2>2. CASE rt' = [rt EXCEPT ![d][e] = @ + 1] /\ UNCHANGED dataWithMissingTF
    BY <1>1, <2>1, <2>2
  <2>3. CASE /\ dataWithMissingTF' = [dataWithMissingTF EXCEPT ![d][e] = @ + 1]
             /\ UNCHANGED rt
    BY <1>1, <2>1, <2>3
  <2> QED BY <1>a, <2>2, <2>3 DEF Place
<1>3. timetree' \in [Datatypes -> [Entries -> Nat]]
  BY <1>1, <1>a DEF TypeOK, IndexTypeOK
<1>4. labelDatasets' \in [Datatypes -> [Labels -> SUBSET Uuids]]
  BY DEF AddDatasetToIndices, AddLabels, TypeOK, IndexTypeOK
<1>5. instLabel' \in [Instances -> Labels \cup {None}]
  BY JoinedLabel DEF AddDatasetToIndices, AddToInstances, TypeOK, IndexTypeOK
<1>6. instDatasets' \in [Instances -> [Datatypes -> SUBSET Uuids]]
  BY DEF AddDatasetToIndices, AddToInstances, TypeOK, IndexTypeOK
<1>7. fileInst' \in [Instances -> Labels \cup {None}]
  BY JoinedLabel DEF AddDatasetToIndices, AddToInstances, TypeOK, IndexTypeOK
<1>8. InstancesIn(ls) \subseteq Instances
  BY JoinedLabel
<1>9. /\ instancesKnown' \in [Datatypes -> SUBSET Uuids]
      /\ datasetInstances' \in [Datatypes -> [Uuids -> SUBSET Instances]]
  <2>1. MapInstances(d, u, ls)
    BY DEF AddDatasetToIndices
  <2>2. CASE Aborted(ls) \/ u \in instancesKnown[d]
    BY <2>1, <2>2 DEF MapInstances, TypeOK, IndexTypeOK
  <2>3. CASE ~(Aborted(ls) \/ u \in instancesKnown[d])
    <3>1. /\ instancesKnown' = [instancesKnown EXCEPT ![d] = @ \cup {u}]
          /\ datasetInstances' = [datasetInstances EXCEPT ![d][u] = InstancesIn(ls)]
      BY <2>1, <2>3 DEF MapInstances
    <3>2. instancesKnown' \in [Datatypes -> SUBSET Uuids]
      BY <3>1 DEF TypeOK, IndexTypeOK
    <3>3. datasetInstances' \in [Datatypes -> [Uuids -> SUBSET Instances]]
      BY <1>8, <3>1 DEF TypeOK, IndexTypeOK
    <3> QED BY <3>2, <3>3
  <2> QED BY <2>2, <2>3
<1> QED BY <1>2, <1>3, <1>4, <1>5, <1>6, <1>7, <1>9 DEF IndexTypeOK

\* It puts the new entry in one of the two spatial places, as canTransform says.
LEMMA AddKeepsPlacement ==
  ASSUME TypeOK, PlacementConserved, RtTransformable,
         NEW d \in Datatypes, NEW u \in Uuids, NEW h \in Headers, NEW ls,
         AddDatasetToIndices(d, u, h, ls), UNCHANGED tfBuffer
  PROVE  PlacementConserved' /\ RtTransformable'
<1> DEFINE e == Entry(u, h)
<1>1. e \in Entries
  BY EntryType
<1>2. timetree' = [timetree EXCEPT ![d][e] = @ + 1]
  BY DEF AddDatasetToIndices
<1>3. \A f : Transformable(f)' <=> Transformable(f)
  BY DEF Transformable, CanTransform
<1>4. CASE Transformable(e) /\ rt' = [rt EXCEPT ![d][e] = @ + 1] /\ UNCHANGED dataWithMissingTF
  <2> HIDE DEF e
  <2>1. PlacementConserved'
    BY <1>1, <1>2, <1>4 DEF PlacementConserved, TypeOK, IndexTypeOK
  <2>2. ASSUME NEW c \in Datatypes, NEW f \in Entries, rt'[c][f] > 0
        PROVE  Transformable(f)'
    <3>1. CASE c = d /\ f = e
      BY <3>1, <1>3, <1>4
    <3>2. CASE ~(c = d /\ f = e)
      <4>1. rt'[c][f] = rt[c][f]
        BY <3>2, <1>1, <1>4 DEF TypeOK, IndexTypeOK
      <4> QED BY <4>1, <2>2, <1>3 DEF RtTransformable
    <3> QED BY <3>1, <3>2
  <2> QED BY <2>1, <2>2 DEF RtTransformable
<1>5. CASE /\ dataWithMissingTF' = [dataWithMissingTF EXCEPT ![d][e] = @ + 1]
           /\ UNCHANGED rt
  <2> HIDE DEF e
  <2>1. PlacementConserved'
    <3> SUFFICES ASSUME NEW c \in Datatypes, NEW f \in Entries
                 PROVE  rt'[c][f] + dataWithMissingTF'[c][f] = timetree'[c][f]
      BY DEF PlacementConserved
    <3>1. rt[c][f] + dataWithMissingTF[c][f] = timetree[c][f]
      BY DEF PlacementConserved
    <3>2. /\ rt[c][f] \in Nat /\ dataWithMissingTF[c][f] \in Nat
          /\ timetree[c][f] \in Nat
      BY DEF TypeOK, IndexTypeOK
    <3>3. CASE c = d /\ f = e
      <4>1. /\ dataWithMissingTF'[c][f] = dataWithMissingTF[c][f] + 1
            /\ timetree'[c][f] = timetree[c][f] + 1
        BY <1>1, <1>2, <1>5, <3>3 DEF TypeOK, IndexTypeOK
      <4> QED BY <1>5, <3>1, <3>2, <4>1
    <3>4. CASE ~(c = d /\ f = e)
      <4>1. dataWithMissingTF'[c][f] = dataWithMissingTF[c][f] /\ timetree'[c][f] = timetree[c][f]
        BY <1>1, <1>2, <1>5, <3>4 DEF TypeOK, IndexTypeOK
      <4> QED BY <1>5, <3>1, <4>1
    <3> QED BY <3>3, <3>4
  <2>2. RtTransformable'
    BY <1>3, <1>5 DEF RtTransformable
  <2> QED BY <2>1, <2>2
<1> QED BY <1>4, <1>5 DEF AddDatasetToIndices, Place

\* The labels a dataset is found by only grow, by those the loop visits.
LEMMA AddGrowsLabels ==
  ASSUME TypeOK, NEW d \in Datatypes, NEW u \in Uuids, NEW labels, AddLabels(d, u, labels)
  PROVE  \A c \in Datatypes, l \in Labels :
           /\ labelDatasets[c][l] \subseteq labelDatasets'[c][l]
           /\ c = d /\ l \in labels => u \in labelDatasets'[c][l]
           /\ labelDatasets'[c][l] \subseteq labelDatasets[c][l] \cup {u}
           /\ labelDatasets'[c][l] # labelDatasets[c][l] => c = d /\ l \in labels
BY DEF AddLabels, TypeOK, IndexTypeOK

\* It lists the dataset under an instance together with the instance's label.
LEMMA AddKeepsInstances ==
  ASSUME TypeOK, InstanceLabelAgrees, NEW d \in Datatypes, NEW u \in Uuids, NEW h,
         NEW ls \in IndexLabels, AddDatasetToIndices(d, u, h, ls)
  PROVE  InstanceLabelAgrees'
<1> DEFINE added == {ls[k].label : k \in Visited(ls)}
<1>1. AddLabels(d, u, added) /\ AddToInstances(d, u, ls)
  BY DEF AddDatasetToIndices
<1> SUFFICES ASSUME NEW i \in Instances, NEW c \in Datatypes, instDatasets'[i][c] # {}
             PROVE  /\ instLabel'[i] # None
                    /\ instDatasets'[i][c] \subseteq labelDatasets'[c][instLabel'[i]]
  BY DEF InstanceLabelAgrees
<1>2. CASE i \notin InstancesIn(ls)
  <2>1. instLabel'[i] = instLabel[i] /\ instDatasets'[i] = instDatasets[i]
    BY <1>1, <1>2 DEF AddToInstances
  <2>2. instLabel[i] \in Labels /\ instDatasets[i][c] \subseteq labelDatasets[c][instLabel[i]]
    BY <2>1 DEF InstanceLabelAgrees, TypeOK, IndexTypeOK
  <2>3. labelDatasets[c][instLabel[i]] \subseteq labelDatasets'[c][instLabel[i]]
    BY <1>1, <2>2, AddGrowsLabels
  <2> QED BY <2>1, <2>2, <2>3, ConstantsAssumption DEF ConstantsAssumption
<1>3. CASE i \in InstancesIn(ls)
  <2>1. PICK k \in Visited(ls) : ls[k].inst = i /\ ls[k].label = LabelOf(ls, i)
    BY <1>3, JoinedLabel
  <2> DEFINE l == LabelOf(ls, i)
  <2>2. l \in Labels /\ (instLabel[i] # None => l = instLabel[i])
    BY <1>3, JoinedLabel
  <2>3. instLabel'[i] = l /\ instDatasets'[i] = [instDatasets[i] EXCEPT ![d] = @ \cup {u}]
    BY <1>1, <1>3 DEF AddToInstances
  <2>4. l \in added
    BY <2>1
  <2> HIDE DEF l, added
  <2>5. instDatasets[i][c] \subseteq labelDatasets[c][l]
    BY <2>2 DEF InstanceLabelAgrees
  <2>6. labelDatasets[c][l] \subseteq labelDatasets'[c][l] /\ (c = d => u \in labelDatasets'[c][l])
    BY <1>1, <2>2, <2>4, AddGrowsLabels
  <2>7. instDatasets'[i][c] \subseteq instDatasets[i][c] \cup (IF c = d THEN {u} ELSE {})
    BY <2>3 DEF TypeOK, IndexTypeOK
  <2> QED BY <2>2, <2>3, <2>5, <2>6, <2>7, ConstantsAssumption DEF ConstantsAssumption
<1> QED BY <1>2, <1>3

\* A dataset is mapped to instances only after they list it.
LEMMA AddKeepsListed ==
  ASSUME TypeOK, ListedInstancesKnow, NEW d \in Datatypes, NEW u \in Uuids, NEW h,
         NEW ls \in IndexLabels, AddDatasetToIndices(d, u, h, ls)
  PROVE  ListedInstancesKnow'
<1>1. AddToInstances(d, u, ls) /\ MapInstances(d, u, ls)
  BY DEF AddDatasetToIndices
<1> SUFFICES ASSUME NEW c \in Datatypes, NEW v \in Uuids, NEW i \in datasetInstances'[c][v]
             PROVE  v \in instDatasets'[i][c]
  BY DEF ListedInstancesKnow
<1>2. \A j \in Instances : instDatasets[j][c] \subseteq instDatasets'[j][c]
  BY <1>1 DEF AddToInstances, TypeOK, IndexTypeOK
<1>3. InstancesIn(ls) \subseteq Instances
  BY JoinedLabel
<1>4. CASE i \in datasetInstances[c][v]
  BY <1>2, <1>4 DEF ListedInstancesKnow, TypeOK, IndexTypeOK
<1>5. CASE i \notin datasetInstances[c][v]
  <2>1. c = d /\ v = u /\ i \in InstancesIn(ls)
    BY <1>1, <1>5 DEF MapInstances, TypeOK, IndexTypeOK
  <2>2. instDatasets'[i] = [instDatasets[i] EXCEPT ![d] = @ \cup {u}]
    BY <1>1, <1>3, <2>1 DEF AddToInstances
  <2> QED BY <1>3, <2>1, <2>2 DEF TypeOK, IndexTypeOK
<1> QED BY <1>4, <1>5

-----------------------------------------------------------------------------
(* What a request does to the file.                                        *)

\* Nothing that backs an index entry leaves the file.
FileGrows ==
  \A g \in Datatypes, u \in Uuids :
    /\ fileHeader[g][u] # None => fileHeader'[g][u] # None
    /\ \A l \in Labels : Carries(g, u, l) => Carries(g, u, l)'

\* The groups of a datatype are groups.
LEMMA GroupsType ==
  ASSUME NEW d \in Datatypes
  PROVE  Groups(d) \subseteq Datatypes /\ d \in Groups(d)
BY DEF Groups, Datatypes

\* A list that may be written keeps what was there and adds what is new.
LEMMA WrittenMentions ==
  ASSUME NEW old, NEW new, Creatable(old, new), NEW l
  PROVE  /\ Mentions(old, l) => Mentions(Written(old, new), l)
         /\ Mentions(new, l) => Mentions(Written(old, new), l)
<1>1. ~Mentions(<<>>, l)
  BY DEF Mentions
<1>2. CASE new = <<>>
  BY <1>1, <1>2 DEF Written
<1>3. CASE new # <<>>
  BY <1>1, <1>3 DEF Written, Creatable
<1> QED BY <1>2, <1>3

\* Two lists joined mention what one of them does.
LEMMA ConcatMentions ==
  ASSUME NEW a \in Seq(LabelsWithInstance), NEW b \in Seq(LabelsWithInstance), NEW l,
         Mentions(a \o b, l)
  PROVE  Mentions(a, l) \/ Mentions(b, l)
<1>1. PICK k \in DOMAIN (a \o b) : (a \o b)[k].label = l
  BY DEF Mentions
<1>2. /\ DOMAIN a = 1 .. Len(a) /\ DOMAIN b = 1 .. Len(b)
      /\ Len(a) \in Nat /\ Len(b) \in Nat
      /\ k \in 1 .. Len(a) + Len(b)
  BY <1>1, LenProperties, ConcatProperties
<1>3. CASE k <= Len(a)
  <2>1. (a \o b)[k] = a[k] /\ k \in DOMAIN a
    BY <1>2, <1>3, ConcatProperties
  <2> QED BY <1>1, <2>1 DEF Mentions
<1>4. CASE k > Len(a)
  <2>1. (a \o b)[k] = b[k - Len(a)] /\ k - Len(a) \in DOMAIN b
    BY <1>2, <1>4, ConcatProperties
  <2> QED BY <1>1, <2>1 DEF Mentions
<1> QED BY <1>2, <1>3, <1>4

\* Every list a request carries is a label list.
LEMMA ListType ==
  ASSUME NEW ls \in LabelLists
  PROVE  ls \in Seq(LabelsWithInstance)
BY ConstantsAssumption DEF ConstantsAssumption

\* One entry of a table is replaced.
LEMMA NestedUpdate ==
  ASSUME NEW D, NEW U, NEW S, NEW f \in [D -> [U -> S]], NEW g \in D, NEW u \in U, NEW x \in S
  PROVE  [f EXCEPT ![g][u] = x] \in [D -> [U -> S]]
OBVIOUS

\* Writing general labels, or bounding box labels, keeps the type and the labels.
LEMMA WriteKeepsType ==
  ASSUME TypeOK, NEW g \in Datatypes, NEW u \in Uuids, NEW ls \in LabelLists
  PROVE  /\ WriteGeneral(g, u, ls) => fileGeneral' \in [Datatypes -> [Uuids -> Seq(LabelsWithInstance)]]
         /\ WriteBB(g, u, ls) => fileBB' \in [Datatypes -> [Uuids -> Seq(LabelsWithInstance)]]
<1>1. ls \in Seq(LabelsWithInstance)
  BY ListType
<1>2. /\ Written(fileGeneral[g][u], ls) \in Seq(LabelsWithInstance)
      /\ Written(fileBB[g][u], ls) \in Seq(LabelsWithInstance)
  BY <1>1 DEF Written, TypeOK, FileTypeOK
<1>3. /\ fileGeneral \in [Datatypes -> [Uuids -> Seq(LabelsWithInstance)]]
      /\ fileBB \in [Datatypes -> [Uuids -> Seq(LabelsWithInstance)]]
  BY DEF TypeOK, FileTypeOK
<1>4. /\ WriteGeneral(g, u, ls) =>
           fileGeneral' = [fileGeneral EXCEPT ![g][u] = Written(fileGeneral[g][u], ls)]
      /\ WriteBB(g, u, ls) => fileBB' = [fileBB EXCEPT ![g][u] = Written(fileBB[g][u], ls)]
  BY DEF WriteGeneral, WriteBB
<1> DEFINE S == Seq(LabelsWithInstance)
           fg == Written(fileGeneral[g][u], ls)
           fb == Written(fileBB[g][u], ls)
<1>5. /\ fg \in S /\ fileGeneral \in [Datatypes -> [Uuids -> S]]
      /\ fb \in S /\ fileBB \in [Datatypes -> [Uuids -> S]]
  BY <1>2, <1>3
<1>6. /\ WriteGeneral(g, u, ls) => fileGeneral' = [fileGeneral EXCEPT ![g][u] = fg]
      /\ WriteBB(g, u, ls) => fileBB' = [fileBB EXCEPT ![g][u] = fb]
  BY <1>4
<1> HIDE DEF S, fg, fb
<1>7. [fileGeneral EXCEPT ![g][u] = fg] \in [Datatypes -> [Uuids -> S]]
  BY <1>5, NestedUpdate
<1>8. [fileBB EXCEPT ![g][u] = fb] \in [Datatypes -> [Uuids -> S]]
  BY <1>5, NestedUpdate
<1> QED BY <1>6, <1>7, <1>8 DEF S

LabelsGrow(old, new) ==
  \A g \in Datatypes, u \in Uuids, l \in Labels : Mentions(old[g][u], l) => Mentions(new[g][u], l)

\* A list that may be created loses no label, and then holds what was sent.
LEMMA WriteGrows ==
  ASSUME TypeOK, NEW g \in Datatypes, NEW u \in Uuids, NEW ls
  PROVE  /\ WriteGeneral(g, u, ls) /\ Creatable(fileGeneral[g][u], ls) =>
              /\ LabelsGrow(fileGeneral, fileGeneral')
              /\ \A l : Mentions(ls, l) => Mentions(fileGeneral'[g][u], l)
         /\ WriteBB(g, u, ls) /\ Creatable(fileBB[g][u], ls) =>
              /\ LabelsGrow(fileBB, fileBB')
              /\ \A l : Mentions(ls, l) => Mentions(fileBB'[g][u], l)
<1>1. ASSUME WriteGeneral(g, u, ls), Creatable(fileGeneral[g][u], ls)
      PROVE  /\ LabelsGrow(fileGeneral, fileGeneral')
             /\ \A l : Mentions(ls, l) => Mentions(fileGeneral'[g][u], l)
  <2>1. fileGeneral'[g][u] = Written(fileGeneral[g][u], ls)
    BY <1>1 DEF WriteGeneral, TypeOK, FileTypeOK
  <2>2. \A l : Mentions(ls, l) => Mentions(fileGeneral'[g][u], l)
    BY <1>1, <2>1, WrittenMentions
  <2>3. ASSUME NEW c \in Datatypes, NEW v \in Uuids, NEW l \in Labels, Mentions(fileGeneral[c][v], l)
        PROVE  Mentions(fileGeneral'[c][v], l)
    <3>1. CASE c = g /\ v = u
      BY <1>1, <2>1, <2>3, <3>1, WrittenMentions
    <3>2. CASE ~(c = g /\ v = u)
      <4>1. fileGeneral \in [Datatypes -> [Uuids -> Seq(LabelsWithInstance)]]
        BY DEF TypeOK, FileTypeOK
      <4>2. fileGeneral' = [fileGeneral EXCEPT ![g][u] = Written(fileGeneral[g][u], ls)]
        BY <1>1 DEF WriteGeneral
      <4>3. fileGeneral'[c][v] = fileGeneral[c][v]
        BY <3>2, <4>1, <4>2
      <4> QED BY <2>3, <4>3
    <3> QED BY <3>1, <3>2
  <2> QED BY <2>2, <2>3 DEF LabelsGrow
<1>2. ASSUME WriteBB(g, u, ls), Creatable(fileBB[g][u], ls)
      PROVE  /\ LabelsGrow(fileBB, fileBB')
             /\ \A l : Mentions(ls, l) => Mentions(fileBB'[g][u], l)
  <2>1. fileBB'[g][u] = Written(fileBB[g][u], ls)
    BY <1>2 DEF WriteBB, TypeOK, FileTypeOK
  <2>2. \A l : Mentions(ls, l) => Mentions(fileBB'[g][u], l)
    BY <1>2, <2>1, WrittenMentions
  <2>3. ASSUME NEW c \in Datatypes, NEW v \in Uuids, NEW l \in Labels, Mentions(fileBB[c][v], l)
        PROVE  Mentions(fileBB'[c][v], l)
    <3>1. CASE c = g /\ v = u
      BY <1>2, <2>1, <2>3, <3>1, WrittenMentions
    <3>2. CASE ~(c = g /\ v = u)
      <4>1. fileBB \in [Datatypes -> [Uuids -> Seq(LabelsWithInstance)]]
        BY DEF TypeOK, FileTypeOK
      <4>2. fileBB' = [fileBB EXCEPT ![g][u] = Written(fileBB[g][u], ls)]
        BY <1>2 DEF WriteBB
      <4>3. fileBB'[c][v] = fileBB[c][v]
        BY <3>2, <4>1, <4>2
      <4> QED BY <2>3, <4>3
    <3> QED BY <3>1, <3>2
  <2> QED BY <2>2, <2>3 DEF LabelsGrow
<1> QED BY <1>1, <1>2

\* A header that is written, or left alone, and labels that grow make the file grow.
LEMMA GrowingFile ==
  ASSUME TypeOK, NEW g \in Datatypes, NEW u \in Uuids, NEW h \in Headers,
         fileHeader' = fileHeader \/ fileHeader' = [fileHeader EXCEPT ![g][u] = h],
         LabelsGrow(fileGeneral, fileGeneral'), LabelsGrow(fileBB, fileBB')
  PROVE  FileGrows /\ fileHeader' \in [Datatypes -> [Uuids -> Headers \cup {None}]]
<1>1. h # None
  BY ConstantsAssumption DEF ConstantsAssumption
<1>2. fileHeader \in [Datatypes -> [Uuids -> Headers \cup {None}]]
  BY DEF TypeOK, FileTypeOK
<1>3. fileHeader' \in [Datatypes -> [Uuids -> Headers \cup {None}]]
  BY <1>2
<1>4. \A c \in Datatypes, v \in Uuids : fileHeader[c][v] # None => fileHeader'[c][v] # None
  BY <1>1, <1>2
<1>5. \A c \in Datatypes, v \in Uuids, l \in Labels : Carries(c, v, l) => Carries(c, v, l)'
  BY DEF Carries, LabelsGrow
<1> QED BY <1>3, <1>4, <1>5 DEF FileGrows

-----------------------------------------------------------------------------
(* The inductive invariant.                                                *)

Backed == IndexBacked /\ LabelsBacked

IInv ==
  /\ TypeOK
  /\ PlacementConserved
  /\ RtTransformable
  /\ InstanceLabelAgrees
  /\ ListedInstancesKnow
  /\ IndexBacked
  /\ LabelsBacked

\* Indexing a dataset that the file holds, under labels the file holds.
LEMMA AddKeepsBacked ==
  ASSUME TypeOK, Backed, FileGrows,
         NEW d \in Datatypes, NEW u \in Uuids, NEW h \in Headers, NEW ls \in IndexLabels,
         AddDatasetToIndices(d, u, h, ls),
         NEW g \in Groups(d), fileHeader'[g][u] # None,
         \A l \in Labels : Mentions(ls, l) => Carries(g, u, l)'
  PROVE  Backed'
<1> DEFINE added == {ls[k].label : k \in Visited(ls)}
           e == Entry(u, h)
<1>1. e \in Entries /\ e.uuid = u
  BY EntryType
<1>2. timetree' = [timetree EXCEPT ![d][e] = @ + 1] /\ AddLabels(d, u, added)
  BY DEF AddDatasetToIndices
<1>3. g \in Datatypes
  BY GroupsType
<1>4. ASSUME NEW c \in Datatypes, NEW f \in Entries, timetree'[c][f] > 0
      PROVE  \E b \in Groups(c) : fileHeader'[b][f.uuid] # None
  <2>1. CASE c = d /\ f = e
    BY <1>1, <2>1
  <2>2. CASE ~(c = d /\ f = e)
    <3> HIDE DEF e
    <3>1. timetree'[c][f] = timetree[c][f]
      BY <1>1, <1>2, <2>2 DEF TypeOK, IndexTypeOK
    <3>2. PICK b \in Groups(c) : fileHeader[b][f.uuid] # None
      BY <1>4, <3>1 DEF Backed, IndexBacked
    <3>3. b \in Datatypes /\ f.uuid \in Uuids
      BY GroupsType DEF Entries
    <3> QED BY <3>2, <3>3 DEF FileGrows
  <2> QED BY <2>1, <2>2
<1>5. ASSUME NEW c \in Datatypes, NEW l \in Labels, NEW v \in labelDatasets'[c][l]
      PROVE  \E b \in Groups(c) : Carries(b, v, l)'
  <2>1. CASE v \in labelDatasets[c][l]
    <3>1. PICK b \in Groups(c) : Carries(b, v, l)
      BY <2>1 DEF Backed, LabelsBacked
    <3>2. b \in Datatypes /\ v \in Uuids
      BY <2>1, GroupsType DEF TypeOK, IndexTypeOK
    <3> QED BY <3>1, <3>2 DEF FileGrows
  <2>2. CASE v \notin labelDatasets[c][l]
    <3> HIDE DEF added
    <3>1. c = d /\ v = u /\ l \in added
      BY <1>2, <2>2, AddGrowsLabels
    <3>2. Mentions(ls, l)
      BY <3>1 DEF added, Visited, Mentions
    <3> QED BY <3>1, <3>2
  <2> QED BY <2>1, <2>2
<1> QED BY <1>4, <1>5 DEF Backed, IndexBacked, LabelsBacked

\* A step that leaves the index alone while the file grows.
LEMMA FileStep ==
  ASSUME IInv, FileGrows, FileTypeOK', ControlTypeOK', UNCHANGED <<indexVars, tfBuffer>>
  PROVE  IInv'
<1>1. TypeOK'
  BY DEF IInv, TypeOK, IndexTypeOK, indexVars
<1>2. PlacementConserved' /\ RtTransformable'
  BY DEF IInv, PlacementConserved, RtTransformable, Transformable, CanTransform, indexVars
<1>3. InstanceLabelAgrees' /\ ListedInstancesKnow'
  BY DEF IInv, InstanceLabelAgrees, ListedInstancesKnow, indexVars
<1>4. IndexBacked'
  <2> SUFFICES ASSUME NEW c \in Datatypes, NEW f \in Entries, timetree[c][f] > 0
               PROVE  \E b \in Groups(c) : fileHeader'[b][f.uuid] # None
    BY DEF IndexBacked, indexVars
  <2>1. PICK b \in Groups(c) : fileHeader[b][f.uuid] # None
    BY DEF IInv, IndexBacked
  <2>2. b \in Datatypes /\ f.uuid \in Uuids
    BY GroupsType DEF Entries
  <2> QED BY <2>1, <2>2 DEF FileGrows
<1>5. LabelsBacked'
  <2> SUFFICES ASSUME NEW c \in Datatypes, NEW l \in Labels, NEW v \in labelDatasets[c][l]
               PROVE  \E b \in Groups(c) : Carries(b, v, l)'
    BY DEF LabelsBacked, indexVars
  <2>1. PICK b \in Groups(c) : Carries(b, v, l)
    BY DEF IInv, LabelsBacked
  <2>2. b \in Datatypes /\ v \in Uuids
    BY GroupsType DEF IInv, TypeOK, IndexTypeOK
  <2> QED BY <2>1, <2>2 DEF FileGrows
<1> QED BY <1>1, <1>2, <1>3, <1>4, <1>5 DEF IInv

\* A step that writes a dataset to the file, or finds it there, and indexes it.
LEMMA IndexStep ==
  ASSUME IInv, FileGrows, FileTypeOK', ControlTypeOK', UNCHANGED tfBuffer,
         NEW d \in Datatypes, NEW u \in Uuids, NEW h \in Headers, NEW ls \in IndexLabels,
         AddDatasetToIndices(d, u, h, ls),
         NEW g \in Groups(d), fileHeader'[g][u] # None,
         \A l \in Labels : Mentions(ls, l) => Carries(g, u, l)'
  PROVE  IInv'
<1>1. TypeOK'
  BY AddKeepsType DEF IInv, TypeOK
<1>2. PlacementConserved' /\ RtTransformable'
  BY AddKeepsPlacement DEF IInv
<1>3. InstanceLabelAgrees' /\ ListedInstancesKnow'
  BY AddKeepsInstances, AddKeepsListed DEF IInv
<1>4. IndexBacked' /\ LabelsBacked'
  BY AddKeepsBacked DEF IInv, Backed
<1> QED BY <1>1, <1>2, <1>3, <1>4 DEF IInv

-----------------------------------------------------------------------------
(* One lemma per action.                                                   *)

\* A request counts itself and leaves the startup alone.
LEMMA AcceptType ==
  ASSUME TypeOK, Accept
  PROVE  ControlTypeOK'
BY ConstantsAssumption DEF ConstantsAssumption, TypeOK, ControlTypeOK, Accept

\* Labels that are not written do not change.
LEMMA SameLabels ==
  /\ UNCHANGED fileGeneral => LabelsGrow(fileGeneral, fileGeneral')
  /\ UNCHANGED fileBB => LabelsGrow(fileBB, fileBB')
BY DEF LabelsGrow

\* A dataset written in full, then passed to the index, as datatype d.
LEMMA StoredAndIndexed ==
  ASSUME IInv, Accept, NEW d \in Datatypes, NEW g \in Groups(d), NEW u \in Uuids, NEW h \in Headers,
         NEW general \in LabelLists, NEW bb \in LabelLists,
         fileHeader' = [fileHeader EXCEPT ![g][u] = h],
         Creatable(fileGeneral[g][u], general), WriteGeneral(g, u, general),
         Creatable(fileBB[g][u], bb), WriteBB(g, u, bb),
         AddDataset(d, u, h, Parsed(general \o bb)), UNCHANGED <<fileTf, tfBuffer>>
  PROVE  IInv'
<1> DEFINE sent == general \o bb
           ls == Parsed(sent)
<1>1. g \in Datatypes /\ TypeOK
  BY GroupsType DEF IInv
<1>2. general \in Seq(LabelsWithInstance) /\ bb \in Seq(LabelsWithInstance)
  BY ListType
<1>3. ls \in IndexLabels /\ \A l : Mentions(ls, l) => Mentions(sent, l)
  BY <1>2, ConcatType, ParsedType DEF Mentions
<1>4. /\ LabelsGrow(fileGeneral, fileGeneral') /\ LabelsGrow(fileBB, fileBB')
      /\ \A l : Mentions(general, l) => Mentions(fileGeneral'[g][u], l)
      /\ \A l : Mentions(bb, l) => Mentions(fileBB'[g][u], l)
  BY <1>1, WriteGrows
<1>5. FileGrows /\ fileHeader' \in [Datatypes -> [Uuids -> Headers \cup {None}]]
  BY <1>1, <1>4, GrowingFile
<1>6. FileTypeOK'
  BY <1>1, <1>5, WriteKeepsType DEF FileTypeOK, TypeOK
<1>7. ControlTypeOK'
  BY <1>1, AcceptType
<1>8. fileHeader'[g][u] # None
  BY <1>1, ConstantsAssumption DEF ConstantsAssumption, TypeOK, FileTypeOK
<1>9. \A l \in Labels : Mentions(ls, l) => Carries(g, u, l)'
  BY <1>2, <1>3, <1>4, ConcatMentions DEF Carries
<1>10. CASE AddDatasetToIndices(d, u, h, ls)
  <2> HIDE DEF ls
  <2> QED BY <1>3, <1>5, <1>6, <1>7, <1>8, <1>9, <1>10, IndexStep
<1>11. CASE UNCHANGED indexVars
  BY <1>5, <1>6, <1>7, <1>11, FileStep
<1> QED BY <1>10, <1>11 DEF AddDataset

\* A dataset whose write fails half way: the header and one list may be written.
LEMMA StoredInPart ==
  ASSUME IInv, Accept, NEW g \in Datatypes, NEW u \in Uuids, NEW h \in Headers, NEW ls \in LabelLists,
         fileHeader' = [fileHeader EXCEPT ![g][u] = h],
         \/ Creatable(fileGeneral[g][u], ls) /\ WriteGeneral(g, u, ls)
         \/ UNCHANGED fileGeneral,
         \/ Creatable(fileBB[g][u], ls) /\ WriteBB(g, u, ls)
         \/ UNCHANGED fileBB,
         UNCHANGED <<fileTf, tfBuffer, indexVars>>
  PROVE  IInv'
<1>1. TypeOK
  BY DEF IInv
<1>2. LabelsGrow(fileGeneral, fileGeneral') /\ LabelsGrow(fileBB, fileBB')
  BY <1>1, WriteGrows, SameLabels
<1>3. FileGrows /\ fileHeader' \in [Datatypes -> [Uuids -> Headers \cup {None}]]
  BY <1>1, <1>2, GrowingFile
<1>4. FileTypeOK'
  <2>1. fileGeneral' \in [Datatypes -> [Uuids -> Seq(LabelsWithInstance)]]
    BY <1>1, WriteKeepsType DEF TypeOK, FileTypeOK
  <2>2. fileBB' \in [Datatypes -> [Uuids -> Seq(LabelsWithInstance)]]
    BY <1>1, WriteKeepsType DEF TypeOK, FileTypeOK
  <2> QED BY <1>1, <1>3, <2>1, <2>2 DEF TypeOK, FileTypeOK
<1>5. ControlTypeOK'
  BY <1>1, AcceptType
<1> QED BY <1>3, <1>4, <1>5, FileStep

\* Uploads of images.
LEMMA ImageStep ==
  ASSUME IInv, NEW u \in Uuids, NEW h \in Headers, NEW general \in LabelLists, NEW bb \in LabelLists,
         TransferImage(u, h, general, bb)
  PROVE  IInv'
<1>1. "Image" \in Groups("Image") /\ "Image" \in Datatypes
  BY DEF Groups, Datatypes
<1>2. /\ Accept /\ fileHeader' = [fileHeader EXCEPT !["Image"][u] = h]
      /\ UNCHANGED <<fileTf, tfBuffer>>
  BY DEF TransferImage
<1>3. CASE /\ Creatable(fileBB["Image"][u], bb)
           /\ Creatable(fileGeneral["Image"][u], general)
           /\ WriteBB("Image", u, bb)
           /\ WriteGeneral("Image", u, general)
           /\ AddDataset("Image", u, h, Parsed(general \o bb))
  BY <1>1, <1>2, <1>3, StoredAndIndexed
<1>4. CASE /\ Creatable(fileBB["Image"][u], bb)
           /\ WriteBB("Image", u, bb)
           /\ UNCHANGED <<fileGeneral, indexVars>>
  BY <1>1, <1>2, <1>4, StoredInPart
<1>5. CASE UNCHANGED <<fileLabels, indexVars>>
  BY <1>1, <1>2, <1>5, StoredInPart DEF fileLabels
<1> QED BY <1>3, <1>4, <1>5 DEF TransferImage

\* Uploads of point clouds.
LEMMA PointCloudStep ==
  ASSUME IInv, NEW u \in Uuids, NEW h \in Headers, NEW general \in LabelLists, NEW bb \in LabelLists,
         TransferPointCloud2(u, h, general, bb)
  PROVE  IInv'
<1>1. "PointCloud" \in Groups("PointCloud") /\ "PointCloud" \in Datatypes
  BY DEF Groups, Datatypes
<1>2. /\ Accept /\ fileHeader' = [fileHeader EXCEPT !["PointCloud"][u] = h]
      /\ UNCHANGED <<fileTf, tfBuffer>>
  BY DEF TransferPointCloud2
<1>3. CASE /\ Creatable(fileGeneral["PointCloud"][u], general)
           /\ Creatable(fileBB["PointCloud"][u], bb)
           /\ WriteGeneral("PointCloud", u, general)
           /\ WriteBB("PointCloud", u, bb)
           /\ AddDataset("PointCloud", u, h, Parsed(general \o bb))
  BY <1>1, <1>2, <1>3, StoredAndIndexed
<1>4. CASE /\ Creatable(fileGeneral["PointCloud"][u], general)
           /\ WriteGeneral("PointCloud", u, general)
           /\ UNCHANGED <<fileBB, indexVars>>
  BY <1>1, <1>2, <1>4, StoredInPart
<1>5. CASE UNCHANGED <<fileLabels, indexVars>>
  BY <1>1, <1>2, <1>5, StoredInPart DEF fileLabels
<1> QED BY <1>3, <1>4, <1>5 DEF TransferPointCloud2

\* Uploads of points, which are indexed as images.
LEMMA PointStep ==
  ASSUME IInv, NEW u \in Uuids, NEW h \in Headers, NEW general \in LabelLists,
         TransferPoint(u, h, general)
  PROVE  IInv'
<1>1. "Point" \in Groups("Image") /\ "Point" \in Datatypes /\ "Image" \in Datatypes
  BY DEF Groups, Datatypes
<1>2. /\ Accept /\ fileHeader' = [fileHeader EXCEPT !["Point"][u] = h]
      /\ UNCHANGED <<fileBB, fileTf, tfBuffer>>
  BY DEF TransferPoint
<1>3. CASE /\ Creatable(fileGeneral["Point"][u], general)
           /\ WriteGeneral("Point", u, general)
           /\ AddDataset("Image", u, h, Parsed(general))
  <2>1. <<>> \in LabelLists /\ general \o <<>> = general
    BY ListType, ConstantsAssumption, ConcatEmptySeq DEF ConstantsAssumption
  <2>2. Creatable(fileBB["Point"][u], <<>>) /\ WriteBB("Point", u, <<>>)
    BY <1>1, <1>2 DEF Creatable, WriteBB, Written, IInv, TypeOK, FileTypeOK
  <2>3. AddDataset("Image", u, h, Parsed(general \o <<>>))
    BY <1>3, <2>1
  <2> QED BY <1>1, <1>2, <1>3, <2>1, <2>2, <2>3, StoredAndIndexed
<1>4. CASE UNCHANGED <<fileGeneral, indexVars>>
  BY <1>1, <1>2, <1>4, StoredInPart
<1> QED BY <1>3, <1>4 DEF TransferPoint

\* Bounding boxes added to an image: file and label index, nothing else.
LEMMA BoundingBoxStep ==
  ASSUME IInv, NEW u \in Uuids, NEW bb \in LabelLists, AddBoundingBoxes2dLabeled(u, bb)
  PROVE  IInv'
<1> DEFINE added == {bb[k].label : k \in DOMAIN bb}
<1>1. "Image" \in Datatypes /\ "Image" \in Groups("Image") /\ TypeOK
  BY DEF Datatypes, Groups, IInv
<1>2. /\ Accept
      /\ UNCHANGED <<fileHeader, fileGeneral, fileTf, tfBuffer, rt, dataWithMissingTF, timetree,
                     instancesKnown, datasetInstances, instLabel, instDatasets, fileInst>>
  BY DEF AddBoundingBoxes2dLabeled, spatial
<1>3. ControlTypeOK'
  BY <1>1, <1>2, AcceptType
<1>4. CASE /\ Creatable(fileBB["Image"][u], bb)
           /\ WriteBB("Image", u, bb)
           /\ AddLabels("Image", u, added)
  <2>1. /\ LabelsGrow(fileBB, fileBB') /\ LabelsGrow(fileGeneral, fileGeneral')
        /\ \A l : Mentions(bb, l) => Mentions(fileBB'["Image"][u], l)
    BY <1>1, <1>2, <1>4, WriteGrows, SameLabels
  <2>2. \A c \in Datatypes, v \in Uuids, l \in Labels : Carries(c, v, l) => Carries(c, v, l)'
    BY <2>1 DEF Carries, LabelsGrow
  <2>3. TypeOK'
    <3>1. FileTypeOK'
      BY <1>1, <1>2, <1>4, WriteKeepsType DEF TypeOK, FileTypeOK
    <3>2. IndexTypeOK'
      BY <1>1, <1>2, <1>4 DEF AddLabels, TypeOK, IndexTypeOK
    <3> QED BY <1>1, <1>2, <1>3, <3>1, <3>2 DEF TypeOK
  <2>4. PlacementConserved' /\ RtTransformable'
    BY <1>2 DEF IInv, PlacementConserved, RtTransformable, Transformable, CanTransform
  <2>5. InstanceLabelAgrees'
    <3> SUFFICES ASSUME NEW i \in Instances, NEW c \in Datatypes, instDatasets[i][c] # {}
                 PROVE  /\ instLabel[i] # None
                        /\ instDatasets[i][c] \subseteq labelDatasets'[c][instLabel[i]]
      BY <1>2 DEF InstanceLabelAgrees
    <3>1. /\ instLabel[i] # None
          /\ instDatasets[i][c] \subseteq labelDatasets[c][instLabel[i]]
      BY DEF IInv, InstanceLabelAgrees
    <3>2. instLabel[i] \in Labels
      BY <1>1, <3>1 DEF TypeOK, IndexTypeOK
    <3> QED BY <1>1, <1>4, <3>1, <3>2, AddGrowsLabels
  <2>6. ListedInstancesKnow' /\ IndexBacked'
    BY <1>2 DEF IInv, ListedInstancesKnow, IndexBacked
  <2>7. LabelsBacked'
    <3> SUFFICES ASSUME NEW c \in Datatypes, NEW l \in Labels, NEW v \in labelDatasets'[c][l]
                 PROVE  \E b \in Groups(c) : Carries(b, v, l)'
      BY DEF LabelsBacked
    <3>1. CASE v \in labelDatasets[c][l]
      <4>1. PICK b \in Groups(c) : Carries(b, v, l)
        BY <3>1 DEF IInv, LabelsBacked
      <4>2. b \in Datatypes /\ v \in Uuids
        BY <1>1, <3>1, GroupsType DEF TypeOK, IndexTypeOK
      <4> QED BY <2>2, <4>1, <4>2
    <3>2. CASE v \notin labelDatasets[c][l]
      <4> HIDE DEF added
      <4>1. c = "Image" /\ v = u /\ l \in added
        BY <1>1, <1>4, <3>2, AddGrowsLabels
      <4>2. Mentions(bb, l)
        BY <4>1 DEF added, Mentions
      <4> QED BY <1>1, <2>1, <4>1, <4>2 DEF Carries
    <3> QED BY <3>1, <3>2
  <2> QED BY <2>3, <2>4, <2>5, <2>6, <2>7 DEF IInv
<1>5. CASE UNCHANGED <<fileBB, labelDatasets>>
  <2>1. FileGrows /\ FileTypeOK'
    BY <1>1, <1>2, <1>5 DEF FileGrows, Carries, TypeOK, FileTypeOK
  <2>2. UNCHANGED <<indexVars, tfBuffer>>
    BY <1>2, <1>5 DEF indexVars
  <2> QED BY <1>3, <2>1, <2>2, FileStep
<1> QED BY <1>4, <1>5 DEF AddBoundingBoxes2dLabeled

\* A transform only makes more entries transformable.
LEMMA TransformStep ==
  ASSUME IInv, NEW frame \in Frames, NEW time \in Times, TransferTransform(frame, time)
  PROVE  IInv'
<1>1. /\ Accept /\ UNCHANGED <<fileHeader, fileGeneral, fileBB, indexVars>>
      /\ fileTf' = fileTf \cup {<<frame, time>>}
      /\ tfBuffer' = tfBuffer \cup {<<frame, time>>}
  BY DEF TransferTransform, fileLabels
<1>2. TypeOK'
  <2>1. ControlTypeOK'
    BY <1>1, AcceptType DEF IInv
  <2>2. <<frame, time>> \in Transforms
    BY DEF Transforms
  <2> QED BY <1>1, <2>1, <2>2 DEF IInv, TypeOK, FileTypeOK, IndexTypeOK, indexVars
<1>3. \A e : Transformable(e) => Transformable(e)'
  BY <1>1 DEF Transformable, CanTransform
<1>4. PlacementConserved' /\ RtTransformable'
  BY <1>1, <1>3 DEF IInv, PlacementConserved, RtTransformable, indexVars
<1>5. InstanceLabelAgrees' /\ ListedInstancesKnow' /\ IndexBacked' /\ LabelsBacked'
  BY <1>1 DEF IInv, InstanceLabelAgrees, ListedInstancesKnow, IndexBacked, LabelsBacked,
              Carries, indexVars
<1> QED BY <1>2, <1>4, <1>5 DEF IInv

\* A query moves waiting entries, one by one of the entries that can be placed.
LEMMA QueryStep ==
  ASSUME IInv, NEW ds, TryAddingDataWithMissingTF(ds),
         UNCHANGED <<fileVars, tfBuffer, timetree, semantic, control>>
  PROVE  IInv'
<1>1. UNCHANGED <<fileHeader, fileGeneral, fileBB, fileTf, tfBuffer, timetree, labelDatasets,
                  instancesKnown, datasetInstances, instLabel, instDatasets, fileInst,
                  toLoad, requests, restarts>>
  BY DEF fileVars, semantic, control
<1>2. \A d \in Datatypes, e \in Entries :
        /\ rt[d][e] \in Nat /\ dataWithMissingTF[d][e] \in Nat
        /\ rt[d][e] + dataWithMissingTF[d][e] = timetree[d][e]
  BY DEF IInv, TypeOK, IndexTypeOK, PlacementConserved
<1>3. \A d \in Datatypes, e \in Entries :
        /\ rt'[d][e] = IF d \in ds /\ Transformable(e) THEN rt[d][e] + dataWithMissingTF[d][e]
                                                       ELSE rt[d][e]
        /\ dataWithMissingTF'[d][e] = IF d \in ds /\ Transformable(e) THEN 0
                                                       ELSE dataWithMissingTF[d][e]
  BY DEF TryAddingDataWithMissingTF
<1>4. \A e : Transformable(e)' <=> Transformable(e)
  BY <1>1 DEF Transformable, CanTransform
<1>5. PlacementConserved'
  BY <1>1, <1>2, <1>3 DEF PlacementConserved
<1>6. RtTransformable'
  BY <1>3, <1>4 DEF IInv, RtTransformable
<1>7. TypeOK'
  <2>1. /\ rt' \in [Datatypes -> [Entries -> Nat]]
        /\ dataWithMissingTF' \in [Datatypes -> [Entries -> Nat]]
    BY <1>2, <1>3 DEF TryAddingDataWithMissingTF
  <2>2. FileTypeOK' /\ ControlTypeOK' /\ tfBuffer' \in SUBSET Transforms
    BY <1>1 DEF IInv, TypeOK, FileTypeOK, ControlTypeOK
  <2>3. IndexTypeOK'
    BY <1>1, <2>1 DEF IInv, TypeOK, IndexTypeOK
  <2> QED BY <2>2, <2>3 DEF TypeOK
<1>8. InstanceLabelAgrees' /\ ListedInstancesKnow' /\ IndexBacked' /\ LabelsBacked'
  BY <1>1 DEF IInv, InstanceLabelAgrees, ListedInstancesKnow, IndexBacked, LabelsBacked, Carries
<1> QED BY <1>5, <1>6, <1>7, <1>8 DEF IInv

\* An index that was emptied.
LEMMA EmptyIndex ==
  ASSUME FileTypeOK', ControlTypeOK', tfBuffer' \in SUBSET Transforms,
         rt' = NoEntries, dataWithMissingTF' = NoEntries, timetree' = NoEntries,
         labelDatasets' = [d \in Datatypes |-> [l \in Labels |-> {}]],
         instancesKnown' = NoUuids,
         datasetInstances' = [d \in Datatypes |-> [u \in Uuids |-> {}]],
         instDatasets' = [i \in Instances |-> NoUuids],
         instLabel' \in [Instances -> Labels \cup {None}],
         fileInst' \in [Instances -> Labels \cup {None}]
  PROVE  IInv'
<1>1. IndexTypeOK'
  BY DEF IndexTypeOK, NoEntries, NoUuids
<1>2. TypeOK'
  BY <1>1 DEF TypeOK
<1>3. PlacementConserved' /\ RtTransformable' /\ IndexBacked'
  BY DEF PlacementConserved, RtTransformable, IndexBacked, NoEntries
<1>4. InstanceLabelAgrees' /\ ListedInstancesKnow' /\ LabelsBacked'
  BY DEF InstanceLabelAgrees, ListedInstancesKnow, LabelsBacked, NoUuids
<1> QED BY <1>2, <1>3, <1>4 DEF IInv

\* A restart empties the index and keeps the file.
LEMMA RestartStep ==
  ASSUME IInv, Restart
  PROVE  IInv'
<1>1. FileTypeOK' /\ tfBuffer' \in SUBSET Transforms
  BY DEF IInv, TypeOK, FileTypeOK, Restart, fileVars
<1>2. ControlTypeOK'
  BY ConstantsAssumption DEF ConstantsAssumption, IInv, TypeOK, ControlTypeOK, Restart
<1>3. /\ instLabel' \in [Instances -> Labels \cup {None}]
      /\ fileInst' \in [Instances -> Labels \cup {None}]
  BY DEF IInv, TypeOK, IndexTypeOK, Restart
<1> QED BY <1>1, <1>2, <1>3, EmptyIndex DEF Restart

\* The startup indexes one stored dataset, or skips it.
LEMMA RecreateStep ==
  ASSUME IInv, RecreateDataset
  PROVE  IInv'
<1>1. PICK p \in toLoad :
        /\ toLoad' = toLoad \ {p}
        /\ \/ /\ Readable(p[1], p[2])
              /\ AddDatasetToIndices(p[1], p[2], fileHeader[p[1]][p[2]], StoredLabels(p[1], p[2]))
           \/ UNCHANGED indexVars
  BY DEF RecreateDataset
<1>2. UNCHANGED <<fileHeader, fileGeneral, fileBB, fileTf, tfBuffer, requests, restarts>>
  BY DEF RecreateDataset, fileVars
<1>3. TypeOK /\ p[1] \in Datatypes /\ p[2] \in Uuids
  BY DEF IInv, TypeOK, ControlTypeOK
<1>4. FileGrows /\ FileTypeOK' /\ ControlTypeOK'
  BY <1>1, <1>2, <1>3 DEF FileGrows, Carries, TypeOK, FileTypeOK, ControlTypeOK
<1>5. CASE UNCHANGED indexVars
  BY <1>2, <1>4, <1>5, FileStep
<1>6. CASE /\ Readable(p[1], p[2])
           /\ AddDatasetToIndices(p[1], p[2], fileHeader[p[1]][p[2]], StoredLabels(p[1], p[2]))
  <2> DEFINE d == p[1]
             u == p[2]
             ls == StoredLabels(d, u)
  <2>1. ls \in IndexLabels /\ fileHeader[d][u] \in Headers
    BY <1>3, <1>6, ReadableLabels
  <2>2. d \in Groups(d) /\ fileHeader'[d][u] # None
    BY <1>2, <1>3, <1>6, GroupsType DEF Readable, HasRawData
  <2>3. \A l \in Labels : Mentions(ls, l) => Carries(d, u, l)'
    BY <1>2, <1>3, ConcatMentions DEF StoredLabels, Carries, TypeOK, FileTypeOK
  <2> HIDE DEF ls, d, u
  <2>4. AddDatasetToIndices(d, u, fileHeader[d][u], ls)
    BY <1>6 DEF ls, d, u
  <2>5. d \in Datatypes /\ u \in Uuids
    BY <1>3 DEF d, u
  <2> QED BY <1>2, <1>4, <2>1, <2>2, <2>3, <2>4, <2>5, IndexStep
<1> QED BY <1>1, <1>5, <1>6

-----------------------------------------------------------------------------
(* The theorems.                                                           *)

\* An empty project satisfies the invariant.
LEMMA InitInvariant == Init => IInv
<1> SUFFICES ASSUME Init PROVE IInv
  OBVIOUS
<1>1. TypeOK
  <2>1. <<>> \in Seq(LabelsWithInstance)
    BY EmptySeq
  <2>2. FileTypeOK
    BY <2>1 DEF Init, FileTypeOK
  <2>3. IndexTypeOK
    BY DEF Init, IndexTypeOK, NoEntries, NoUuids
  <2>4. ControlTypeOK /\ tfBuffer \in SUBSET Transforms
    BY ConstantsAssumption DEF ConstantsAssumption, Init, ControlTypeOK
  <2> QED BY <2>2, <2>3, <2>4 DEF TypeOK
<1>2. PlacementConserved /\ RtTransformable /\ IndexBacked
  BY DEF Init, PlacementConserved, RtTransformable, IndexBacked, NoEntries
<1>3. InstanceLabelAgrees /\ ListedInstancesKnow /\ LabelsBacked
  BY DEF Init, InstanceLabelAgrees, ListedInstancesKnow, LabelsBacked, NoUuids
<1> QED BY <1>1, <1>2, <1>3 DEF IInv

\* Every step keeps it.
LEMMA NextInvariant == IInv /\ [Next]_vars => IInv'
<1> SUFFICES ASSUME IInv, [Next]_vars PROVE IInv'
  OBVIOUS
<1>1. CASE \E u \in Uuids, bb \in LabelLists : AddBoundingBoxes2dLabeled(u, bb)
  BY <1>1, BoundingBoxStep
<1>2. ASSUME NEW u \in Uuids, NEW h \in Headers, NEW general \in LabelLists, NEW bb \in LabelLists,
             TransferImage(u, h, general, bb) \/ TransferPointCloud2(u, h, general, bb)
      PROVE  IInv'
  BY <1>2, ImageStep, PointCloudStep
<1>3. CASE \E u \in Uuids, h \in Headers, general \in LabelLists : TransferPoint(u, h, general)
  BY <1>3, PointStep
<1>4. CASE \E frame \in Frames, time \in Times : TransferTransform(frame, time)
  BY <1>4, TransformStep
<1>5. CASE \E d \in Datatypes : GetData(d)
  BY <1>5, QueryStep DEF GetData
<1>6. CASE GetInstances
  BY <1>6, QueryStep DEF GetInstances
<1>7. CASE Restart
  BY <1>7, RestartStep
<1>8. CASE RecreateDataset
  BY <1>8, RecreateStep
<1>9. CASE UNCHANGED vars
  <2>1. UNCHANGED <<fileHeader, fileGeneral, fileBB, fileTf, toLoad, requests, restarts>>
    BY <1>9 DEF vars
  <2>2. UNCHANGED <<indexVars, tfBuffer>>
    BY <1>9 DEF vars, indexVars
  <2>3. FileGrows /\ FileTypeOK' /\ ControlTypeOK'
    BY <2>1 DEF FileGrows, Carries, IInv, TypeOK, FileTypeOK, ControlTypeOK
  <2> QED BY <2>2, <2>3, FileStep
<1> QED BY <1>1, <1>2, <1>3, <1>4, <1>5, <1>6, <1>7, <1>8, <1>9 DEF Next

\* The conjunction of the properties is an invariant.
THEOREM Invariance == Spec => []IInv
BY InitInvariant, NextInvariant, PTL DEF Spec

\* Every variable keeps its type: no waiting entry is removed twice, and the
\* index knows instances only by parsed uuids that are not nil.
THEOREM TypeCorrect == Spec => []TypeOK
BY Invariance, PTL DEF IInv

\* addDatasetToIndices and tryAddingDataWithMissingTF neither lose nor double an
\* entry of the spatial index.
THEOREM SpatialConservation == Spec => []PlacementConserved
BY Invariance, PTL DEF IInv

\* Nothing is in the R-tree that the transforms cannot place.
THEOREM SpatialPlacement == Spec => []RtTransformable
BY Invariance, PTL DEF IInv

\* After getData has tried the waiting data, the R-tree is exactly what the
\* transforms allow.
THEOREM SpatialCompleteness == Spec => SpatialComplete
<1>1. IInv /\ [Next]_vars =>
        \A d \in Datatypes : GetData(d) =>
          \A e \in Entries : rt'[d][e] = IF Transformable(e) THEN timetree[d][e] ELSE 0
  <2> SUFFICES ASSUME IInv, NEW d \in Datatypes, GetData(d), NEW e \in Entries
               PROVE  rt'[d][e] = IF Transformable(e) THEN timetree[d][e] ELSE 0
    OBVIOUS
  <2>1. rt'[d][e] = IF Transformable(e) THEN rt[d][e] + dataWithMissingTF[d][e] ELSE rt[d][e]
    BY DEF GetData, TryAddingDataWithMissingTF
  <2>2. rt[d][e] \in Nat /\ rt[d][e] + dataWithMissingTF[d][e] = timetree[d][e]
    BY DEF IInv, TypeOK, IndexTypeOK, PlacementConserved
  <2>3. ~Transformable(e) => rt[d][e] = 0
    BY <2>2 DEF IInv, RtTransformable
  <2> QED BY <2>1, <2>2, <2>3
<1> QED BY <1>1, Invariance, PTL DEF Spec, SpatialComplete

\* An instance lists a dataset only under a label the dataset is found by.
THEOREM InstanceLabels == Spec => []InstanceLabelAgrees
BY Invariance, PTL DEF IInv

\* An instance reported for a dataset knows the dataset.
THEOREM InstanceMaps == Spec => []ListedInstancesKnow
BY Invariance, PTL DEF IInv

\* What the temporal index answers with is in the file, after whatever failed half way.
THEOREM EntriesBacked == Spec => []IndexBacked
BY Invariance, PTL DEF IInv

\* What the semantic index answers with is in the file, under the labels asked for.
THEOREM LabelledBacked == Spec => []LabelsBacked
BY Invariance, PTL DEF IInv

-----------------------------------------------------------------------------
(* The startup.                                                            *)

\* The datasets the startup has read so far, and no others, are in the temporal
\* index: the file does not change meanwhile, since no request is served.
Rebuilt ==
  \A d \in Datatypes, e \in Entries :
    timetree[d][e] = IF /\ <<d, e.uuid>> \notin toLoad
                        /\ Readable(d, e.uuid)
                        /\ e = Entry(e.uuid, fileHeader[d][e.uuid])
                     THEN 1 ELSE 0

StartupInv == toLoad # {} => Rebuilt

\* What is readable is listed when the startup begins.
LEMMA ReadableStored ==
  ASSUME NEW d \in Datatypes, NEW u \in Uuids, Readable(d, u)
  PROVE  Stored(d, u)
BY DEF Readable, HasRawData, Stored

\* The startup begins with an empty index and everything still to be read.
LEMMA RestartUnread ==
  ASSUME IInv, Restart
  PROVE  Rebuilt'
<1> SUFFICES ASSUME NEW d \in Datatypes, NEW e \in Entries
             PROVE  (timetree[d][e] = IF /\ <<d, e.uuid>> \notin toLoad
                                         /\ Readable(d, e.uuid)
                                         /\ e = Entry(e.uuid, fileHeader[d][e.uuid])
                                      THEN 1 ELSE 0)'
  BY DEF Rebuilt
<1>1. e.uuid \in Uuids /\ timetree'[d][e] = 0
  BY DEF Entries, Restart, NoEntries
<1>2. UNCHANGED <<fileHeader, fileGeneral, fileBB>>
  BY DEF Restart, fileVars
<1>3. Readable(d, e.uuid)' => Stored(d, e.uuid)
  BY <1>1, <1>2, ReadableStored DEF Readable, HasRawData, StoredLabels
<1>4. Stored(d, e.uuid) => <<d, e.uuid>> \in toLoad'
  BY <1>1 DEF Restart
<1> QED  BY <1>1, <1>3, <1>4

\* Reading one more dataset adds its entry, or none when it cannot be read.
LEMMA RecreateRebuilds ==
  ASSUME IInv, Rebuilt, RecreateDataset
  PROVE  Rebuilt'
<1>1. PICK p \in toLoad :
        /\ toLoad' = toLoad \ {p}
        /\ \/ /\ Readable(p[1], p[2])
              /\ AddDatasetToIndices(p[1], p[2], fileHeader[p[1]][p[2]], StoredLabels(p[1], p[2]))
           \/ ~Readable(p[1], p[2]) /\ UNCHANGED indexVars
  BY DEF RecreateDataset
<1>2. UNCHANGED <<fileHeader, fileGeneral, fileBB>>
  BY DEF RecreateDataset, fileVars
<1>3. TypeOK /\ p \in Datatypes \X Uuids
  BY DEF IInv, TypeOK, ControlTypeOK
<1> SUFFICES ASSUME NEW d \in Datatypes, NEW e \in Entries
             PROVE  (timetree[d][e] = IF /\ <<d, e.uuid>> \notin toLoad
                                         /\ Readable(d, e.uuid)
                                         /\ e = Entry(e.uuid, fileHeader[d][e.uuid])
                                      THEN 1 ELSE 0)'
  BY DEF Rebuilt
<1> DEFINE listed(read) == IF read /\ Readable(d, e.uuid) /\ e = Entry(e.uuid, fileHeader[d][e.uuid])
                           THEN 1 ELSE 0
<1>4. timetree[d][e] = listed(<<d, e.uuid>> \notin toLoad)
  BY DEF Rebuilt
<1>5. e.uuid \in Uuids
  BY DEF Entries
<1>6. SUFFICES timetree'[d][e] = listed(<<d, e.uuid>> \notin toLoad')
  BY <1>2 DEF Readable, HasRawData, StoredLabels
<1>7. CASE <<d, e.uuid>> # p
  <2>1. p[1] # d \/ p[2] # e.uuid
    BY <1>3, <1>7
  <2>2. timetree'[d][e] = timetree[d][e]
    <3>1. CASE UNCHANGED indexVars
      BY <3>1 DEF indexVars
    <3>2. CASE Readable(p[1], p[2])
               /\ AddDatasetToIndices(p[1], p[2], fileHeader[p[1]][p[2]], StoredLabels(p[1], p[2]))
      <4>1. PICK f : f = Entry(p[2], fileHeader[p[1]][p[2]])
        OBVIOUS
      <4>2. f.uuid = p[2]
        BY <4>1 DEF Entry
      <4>3. timetree' = [timetree EXCEPT ![p[1]][f] = @ + 1]
        BY <3>2, <4>1 DEF AddDatasetToIndices
      <4>4. p[1] # d \/ f # e
        BY <2>1, <4>2
      <4> QED  BY <1>3, <4>3, <4>4 DEF TypeOK, IndexTypeOK
    <3> QED  BY <1>1, <3>1, <3>2
  <2> QED  BY <1>1, <1>4, <1>7, <2>2
<1>8. CASE <<d, e.uuid>> = p
  <2>1. p[1] = d /\ p[2] = e.uuid
    BY <1>8
  <2>2. timetree[d][e] = 0 /\ <<d, e.uuid>> \notin toLoad'
    BY <1>1, <1>4, <1>8
  <2>3. CASE ~Readable(d, e.uuid) /\ UNCHANGED indexVars
    BY <2>2, <2>3 DEF indexVars
  <2>4. CASE Readable(d, e.uuid)
             /\ AddDatasetToIndices(d, e.uuid, fileHeader[d][e.uuid], StoredLabels(d, e.uuid))
    <3>1. PICK f : f = Entry(e.uuid, fileHeader[d][e.uuid])
      OBVIOUS
    <3>2. timetree' = [timetree EXCEPT ![d][f] = @ + 1]
      BY <2>4, <3>1 DEF AddDatasetToIndices
    <3>3. CASE e = f
      <4>1. timetree'[d][e] = 1
        BY <1>3, <2>2, <3>2, <3>3 DEF TypeOK, IndexTypeOK
      <4> QED  BY <2>2, <2>4, <3>1, <3>3, <4>1
    <3>4. CASE e # f
      <4>1. timetree'[d][e] = 0
        BY <1>3, <2>2, <3>2, <3>4 DEF TypeOK, IndexTypeOK
      <4> QED  BY <3>1, <3>4, <4>1
    <3> QED  BY <3>3, <3>4
  <2> QED  BY <1>1, <2>1, <2>3, <2>4
<1> QED  BY <1>7, <1>8

\* A step that leaves the list of the startup not empty is one of the startup,
\* since requests and queries wait for its end.
LEMMA StartupStep ==
  ASSUME IInv, StartupInv, [Next]_vars
  PROVE  StartupInv' /\ (toLoad # {} => Rebuilt')
<1>1. CASE Restart
  BY <1>1, RestartUnread DEF StartupInv
<1>2. CASE RecreateDataset
  <2>1. toLoad # {}
    BY <1>2 DEF RecreateDataset
  <2> QED  BY <1>2, <2>1, RecreateRebuilds DEF StartupInv
<1>3. CASE UNCHANGED vars
  BY <1>3 DEF vars, StartupInv, Rebuilt, Readable, HasRawData, StoredLabels
<1>4. CASE /\ ~Restart /\ ~RecreateDataset /\ Next
  <2>1. CASE Accept
    BY <2>1 DEF Accept, Serving, StartupInv
  <2>2. CASE GetInstances \/ \E d \in Datatypes : GetData(d)
    BY <2>2 DEF GetInstances, GetData, control, Serving, StartupInv
  <2>3. ASSUME NEW u \in Uuids, NEW bb \in LabelLists, AddBoundingBoxes2dLabeled(u, bb)
        PROVE  Accept
    BY <2>3 DEF AddBoundingBoxes2dLabeled
  <2>4. ASSUME NEW u \in Uuids, NEW h \in Headers, NEW general \in LabelLists,
               NEW bb \in LabelLists,
               \/ TransferImage(u, h, general, bb)
               \/ TransferPointCloud2(u, h, general, bb)
               \/ TransferPoint(u, h, general)
        PROVE  Accept
    BY <2>4 DEF TransferImage, TransferPointCloud2, TransferPoint
  <2>5. ASSUME NEW frame \in Frames, NEW time \in Times, TransferTransform(frame, time)
        PROVE  Accept
    BY <2>5 DEF TransferTransform
  <2>6. <<>> \in LabelLists
    BY ConstantsAssumption
  <2> QED  BY <1>4, <2>1, <2>2, <2>3, <2>4, <2>5, <2>6 DEF Next
<1> QED  BY <1>1, <1>2, <1>3, <1>4

\* The startup leaves in the index what it can read in the file, each once, for
\* any number of datasets and whatever crashes, restarts of it included, came
\* before.
THEOREM StartupRebuilds == Spec => StartupExact
<1>1. Init => StartupInv
  BY DEF Init, StartupInv
<1>2. IInv /\ StartupInv /\ [Next]_vars => StartupInv'
  BY StartupStep
<1>3. IInv /\ StartupInv /\ [Next]_vars => (toLoad # {} /\ toLoad' = {} => TimetreeMatchesFile')
  <2>1. Rebuilt' /\ toLoad' = {} => TimetreeMatchesFile'
    BY DEF Rebuilt, TimetreeMatchesFile
  <2> QED  BY <2>1, StartupStep
<1> QED  BY <1>1, <1>2, <1>3, Invariance, PTL DEF Spec, StartupExact

=============================================================================
