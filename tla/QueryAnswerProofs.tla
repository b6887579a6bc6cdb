------------------------- MODULE QueryAnswerProofs -------------------------
(***************************************************************************)
(* Proofs about Query, for every number of handlers, uploads, queries and  *)
(* projects: the variables keep their types, what a query is answered with *)
(* passes the filters of the query, and what was completely added before   *)
(* the query, passes the filters and can be found is in the answer.        *)
(*                                                                         *)
(* The argument goes from the index to the queries.  SoundInv says where   *)
(* every entry of the index comes from, StoreInv which entries a dataset   *)
(* has once its upload is past a container.  The containers only grow      *)
(* (IndexGrows), and so do the sets a filter may pass: what a query has    *)
(* found at one step stays right while uploads and transforms go on.       *)
(* BasicInv says what a query remembers of its parameters, MatchInv that   *)
(* each partial result passes its filter, CompleteInv that nothing which   *)
(* passes the filter is missing from it.                                   *)
(***************************************************************************)
EXTENDS QueryProofs

-----------------------------------------------------------------------------
(* What the index holds was sent by somebody.                               *)

TimeEntry(m) == [project |-> m.project, type |-> m.type, uuid |-> m.uuid, time |-> m.time]
LabelEntry(m, k) == <<m.project, m.type, m.labels[k].label, m.uuid>>
IsMapped(e, m) == e.project = m.project /\ e.type = m.type /\ e.uuid = m.uuid

\* No instance is nil, and an upload that looks for one has it in hand.
InstancesSound ==
  /\ \A l \in instLabel : l[1] \in Projects /\ l[2] \in Instances
  /\ \A e \in instDatasets : e[2] # Nil
  /\ \A w \in Writers :
       /\ writer[w].pc = "idle" => writer[w] = NoDataset
       /\ writer[w].pc \in {"find", "create"} => writer[w].m.labels[writer[w].k].inst # Nil

\* Every entry of the index is one of a dataset whose upload has begun.
IndexSound ==
  /\ DOMAIN tf = Projects /\ \A p \in Projects : tf[p] \subseteq Frames \ {MapFrame[p]}
  /\ stored \subseteq begun /\ dataWithMissingTF \subseteq begun
  /\ \A e \in rt : \E m \in begun : e = RtEntry(m)
  /\ \A e \in timetree : \E m \in begun : e = TimeEntry(m)
  /\ \A e \in labelDatasets : \E m \in begun : \E k \in DOMAIN m.labels : e = LabelEntry(m, k)
  /\ \A e \in datasetInstances : \E m \in begun : IsMapped(e, m) /\ e.insts = InstancesIn(m)

SoundInv == InstanceInv /\ InstancesSound /\ IndexSound

\* The dataset and the label a thread has in hand.
LEMMA InHand ==
  ASSUME InstanceInv, NEW w \in Writers, writer[w].pc # "idle"
  PROVE  /\ writer[w].m \in begun /\ writer[w].m \in Uploads
         /\ writer[w].k \in Nat /\ writer[w].k >= 1
         /\ Len(writer[w].m.labels) \in Nat
         /\ DOMAIN writer[w].m.labels = 1 .. Len(writer[w].m.labels)
         /\ (writer[w].pc \in {"find", "create"} \/ writer[w].k <= Len(writer[w].m.labels)) =>
              writer[w].k \in DOMAIN writer[w].m.labels
BY ConstantsAssumption DEF InstanceInv, WriterType, AtLabel

\* Steps that move only one upload on.
LEMMA MovesOn ==
  ASSUME InstanceInv, NEW w \in Writers, NEW l, NEW k, ToWriter(w, l, k)
  PROVE  /\ DOMAIN writer' = Writers
         /\ writer'[w].pc = l /\ writer'[w].k = k /\ writer'[w].m = writer[w].m
         /\ \A v \in Writers \ {w} : writer'[v] = writer[v]
BY DEF InstanceInv, WriterType, ToWriter

LEMMA UploadStaysSound ==
  ASSUME SoundInv, NEW w \in Writers, writer[w].pc # "idle", NEW l \in WriterPcs \ {"idle"},
         NEW k, ToWriter(w, l, k), UNCHANGED instVars,
         l \in {"find", "create"} => writer[w].m.labels[k].inst # Nil
  PROVE  InstancesSound'
<1>1. /\ writer'[w].pc = l /\ writer'[w].k = k /\ writer'[w].m = writer[w].m
      /\ \A v \in Writers \ {w} : writer'[v] = writer[v]
  BY MovesOn DEF SoundInv
<1>2. \A v \in Writers :
        /\ writer'[v].pc = "idle" => writer'[v] = NoDataset
        /\ writer'[v].pc \in {"find", "create"} => writer'[v].m.labels[writer'[v].k].inst # Nil
  BY <1>1 DEF SoundInv, InstancesSound
<1> QED  BY <1>2 DEF SoundInv, InstancesSound, instVars

\* An upload that ends, or only begins.
LEMMA UploadEndsSound ==
  ASSUME SoundInv, NEW w \in Writers, UNCHANGED instVars,
         Leave(w) \/ \E m : writer' = [writer EXCEPT ![w] = [pc |-> "place", m |-> m, k |-> 1]]
  PROVE  InstancesSound'
<1>1. \A v \in Writers :
        /\ writer'[v].pc = "idle" => writer'[v] = NoDataset
        /\ writer'[v].pc \in {"find", "create"} => writer'[v].m.labels[writer'[v].k].inst # Nil
  BY DEF SoundInv, InstancesSound, Leave, NoDataset, InstanceInv, WriterType
<1> QED  BY <1>1 DEF SoundInv, InstancesSound, instVars

LEMMA InstancesStaySound ==
  ASSUME SoundInv, UNCHANGED <<writer, instVars>>
  PROVE  InstancesSound'
BY DEF SoundInv, InstancesSound, instVars

LEMMA FindStaysSound ==
  ASSUME SoundInv, NEW w \in Writers, FindInstance(w)
  PROVE  InstancesSound'
<1> DEFINE m == writer[w].m
           k == writer[w].k
           i == m.labels[k].inst
<1>1. writer[w].pc = "find" /\ instLabel' = instLabel /\ i # Nil
  BY DEF FindInstance, WriterAt, SoundInv, InstancesSound
<1>2. CASE /\ instDatasets' = instDatasets \cup {<<m.project, i, m.type, m.uuid>>}
           /\ ToWriter(w, "label", k + 1)
  <2>1. \A e \in instDatasets' : e[2] # Nil
    BY <1>1, <1>2 DEF SoundInv, InstancesSound
  <2>2. /\ writer'[w].pc = "label" /\ \A v \in Writers \ {w} : writer'[v] = writer[v]
    BY <1>2, MovesOn DEF SoundInv
  <2>3. \A v \in Writers :
          /\ writer'[v].pc = "idle" => writer'[v] = NoDataset
          /\ writer'[v].pc \in {"find", "create"} => writer'[v].m.labels[writer'[v].k].inst # Nil
    BY <2>2 DEF SoundInv, InstancesSound
  <2> QED  BY <1>1, <2>1, <2>3 DEF SoundInv, InstancesSound
<1>3. CASE Leave(w) /\ UNCHANGED instDatasets
  BY <1>1, <1>3, UploadEndsSound DEF instVars
<1>4. CASE ToWriter(w, "create", k) /\ UNCHANGED instDatasets
  BY <1>1, <1>4, UploadStaysSound DEF instVars, WriterPcs
<1> QED  BY <1>2, <1>3, <1>4 DEF FindInstance

LEMMA CreateStaysSound ==
  ASSUME SoundInv, NEW w \in Writers, CreateInstance(w)
  PROVE  InstancesSound'
<1> DEFINE m == writer[w].m
           k == writer[w].k
           i == m.labels[k].inst
<1>1. writer[w].pc = "create" /\ i # Nil /\ ToWriter(w, "label", k + 1)
  BY DEF CreateInstance, WriterAt, SoundInv, InstancesSound
<1>2. CASE UNCHANGED instVars
  BY <1>1, <1>2, UploadStaysSound DEF WriterPcs
<1>3. CASE /\ instLabel' = instLabel \cup {<<m.project, i, m.labels[k].label>>}
           /\ instDatasets' = instDatasets \cup {<<m.project, i, m.type, m.uuid>>}
  <2>1. m.project \in Projects /\ i \in Instances
    BY <1>1, InHand, ConstantsAssumption DEF SoundInv, Instances
  <2>2. \A e \in instDatasets' : e[2] # Nil
    <3>1. \A e \in instDatasets : e[2] # Nil
      BY DEF SoundInv, InstancesSound
    <3> SUFFICES ASSUME NEW e \in instDatasets'
                 PROVE  e[2] # Nil
      OBVIOUS
    <3>2. CASE e \in instDatasets
      BY <3>1, <3>2
    <3>3. CASE e = <<m.project, i, m.type, m.uuid>>
      BY <1>1, <3>3
    <3> QED  BY <1>3, <3>2, <3>3
  <2>3. \A x \in instLabel' : x[1] \in Projects /\ x[2] \in Instances
    <3>1. \A x \in instLabel : x[1] \in Projects /\ x[2] \in Instances
      BY DEF SoundInv, InstancesSound
    <3> SUFFICES ASSUME NEW x \in instLabel'
                 PROVE  x[1] \in Projects /\ x[2] \in Instances
      OBVIOUS
    <3>2. CASE x \in instLabel
      BY <3>1, <3>2
    <3>3. CASE x = <<m.project, i, m.labels[k].label>>
      BY <2>1, <3>3
    <3> QED  BY <1>3, <3>2, <3>3
  <2>4. /\ writer'[w].pc = "label" /\ \A v \in Writers \ {w} : writer'[v] = writer[v]
    BY <1>1, MovesOn DEF SoundInv
  <2>5. \A v \in Writers :
          /\ writer'[v].pc = "idle" => writer'[v] = NoDataset
          /\ writer'[v].pc \in {"find", "create"} => writer'[v].m.labels[writer'[v].k].inst # Nil
    BY <2>4 DEF SoundInv, InstancesSound
  <2>6. Instances' = Instances
    BY DEF Instances
  <2> QED  BY <2>2, <2>3, <2>5 DEF InstancesSound, Instances
<1> QED  BY <1>2, <1>3 DEF CreateInstance

\* What any step does to the index, at most: it adds entries of a dataset whose
\* upload is in hand.
LEMMA UploadIndexSound ==
  ASSUME SoundInv, NEW w \in Writers,
         \/ \E m \in Uploads : AddDataset(w, m)
         \/ Place(w) \/ AddTime(w) \/ AddLabel(w)
         \/ FindInstance(w) \/ CreateInstance(w) \/ MapInstances(w)
  PROVE  IndexSound'
<1> DEFINE m == writer[w].m
<1> USE DEF SoundInv
<1>1. CASE \E n \in Uploads : AddDataset(w, n)
  <2>1. /\ begun \subseteq begun' /\ UNCHANGED stored
        /\ UNCHANGED <<tf, rt, dataWithMissingTF, timetree, labelDatasets, datasetInstances>>
    BY <1>1 DEF AddDataset, indexVars, treeVars
  <2> QED  BY <2>1 DEF IndexSound, TimeEntry, LabelEntry
<1>2. CASE Place(w)
  <2>1. m \in begun
    BY <1>2, InHand DEF Place, WriterAt
  <2>2. UNCHANGED <<begun, stored, tf, timetree, labelDatasets, datasetInstances>>
    BY <1>2 DEF Place
  <2>3. /\ rt' = rt \/ rt' = rt \cup {RtEntry(m)}
        /\ dataWithMissingTF' = dataWithMissingTF \/ dataWithMissingTF' = dataWithMissingTF \cup {m}
    BY <1>2 DEF Place
  <2>4. \A e \in rt' : \E n \in begun' : e = RtEntry(n)
    BY <2>1, <2>2, <2>3 DEF IndexSound
  <2> QED  BY <2>1, <2>2, <2>3, <2>4 DEF IndexSound
<1>3. CASE AddTime(w)
  <2>1. m \in begun
    BY <1>3, InHand DEF AddTime, WriterAt
  <2>2. UNCHANGED <<begun, stored, tf, treeVars, labelDatasets, datasetInstances>>
    BY <1>3 DEF AddTime
  <2>3. timetree' = timetree \cup {TimeEntry(m)}
    BY <1>3 DEF AddTime, TimeEntry
  <2> QED  BY <2>1, <2>2, <2>3 DEF IndexSound, treeVars
<1>4. CASE AddLabel(w)
  <2> DEFINE k == writer[w].k
  <2>1. m \in begun /\ k \in DOMAIN m.labels
    BY <1>4, InHand DEF AddLabel, WriterAt
  <2>2. UNCHANGED <<begun, stored, tf, treeVars, timetree, datasetInstances>>
    BY <1>4 DEF AddLabel
  <2>3. labelDatasets' = labelDatasets \cup {LabelEntry(m, k)}
    BY <1>4 DEF AddLabel, LabelEntry
  <2>4. \A e \in labelDatasets' : \E n \in begun' : \E j \in DOMAIN n.labels : e = LabelEntry(n, j)
    BY <2>1, <2>2, <2>3 DEF IndexSound
  <2> QED  BY <2>2, <2>4 DEF IndexSound, treeVars
<1>5. CASE FindInstance(w) \/ CreateInstance(w)
  <2>1. UNCHANGED <<begun, stored, tf, rt, dataWithMissingTF, timetree, labelDatasets,
                    datasetInstances>>
    BY <1>5 DEF FindInstance, CreateInstance, treeVars
  <2> QED  BY <2>1 DEF IndexSound
<1>6. CASE MapInstances(w)
  <2> DEFINE x == [project |-> m.project, type |-> m.type, uuid |-> m.uuid,
                   insts |-> InstancesIn(m)]
  <2>1. m \in begun
    BY <1>6, InHand DEF MapInstances, WriterAt
  <2>2. UNCHANGED <<begun, tf, treeVars, timetree, labelDatasets>>
    BY <1>6 DEF MapInstances
  <2>3. /\ datasetInstances' = datasetInstances \/ datasetInstances' = datasetInstances \cup {x}
        /\ stored' = stored \cup {m}
    BY <1>6 DEF MapInstances
  <2>4. IsMapped(x, m) /\ x.insts = InstancesIn(m)
    BY DEF IsMapped
  <2>5. \A e \in datasetInstances' : \E n \in begun : IsMapped(e, n) /\ e.insts = InstancesIn(n)
    BY <2>1, <2>3, <2>4 DEF IndexSound
  <2> QED
    BY <2>1, <2>2, <2>3, <2>5 DEF IndexSound, treeVars, IsMapped,
                                  InstancesIn
<1> QED  BY <1>1, <1>2, <1>3, <1>4, <1>5, <1>6

LEMMA TransformIndexSound ==
  ASSUME SoundInv, NEW t \in Transforms, AddTF(t[1], t[2])
  PROVE  IndexSound'
<1>1. UNCHANGED <<begun, stored, rt, dataWithMissingTF, timetree, labelDatasets, datasetInstances>>
  BY DEF AddTF, indexVars, treeVars, uploadVars
<1>2. DOMAIN tf' = Projects /\ \A p \in Projects : tf'[p] \subseteq Frames \ {MapFrame[p]}
  BY ConstantsAssumption DEF AddTF, SoundInv, IndexSound
<1> QED  BY <1>1, <1>2 DEF SoundInv, IndexSound

\* A query only moves entries that wait.
LEMMA ReadIndexSound ==
  ASSUME SoundInv, NEW r \in Readers, ReadStep(r)
  PROVE  IndexSound'
<1>1. CASE TryAddingDataWithMissingTF(r)
  <2>1. UNCHANGED <<begun, stored, tf, timetree, labelDatasets, datasetInstances>>
    BY <1>1 DEF TryAddingDataWithMissingTF, uploadVars
  <2>2. PICK ready \in SUBSET dataWithMissingTF :
          /\ rt' = rt \cup {RtEntry(m) : m \in ready}
          /\ dataWithMissingTF' = dataWithMissingTF \ ready
    BY <1>1 DEF TryAddingDataWithMissingTF
  <2>3. \A e \in rt' : \E m \in begun : e = RtEntry(m)
    BY <2>2 DEF SoundInv, IndexSound
  <2> QED  BY <2>1, <2>2, <2>3 DEF SoundInv, IndexSound
<1>2. CASE ~TryAddingDataWithMissingTF(r)
  <2>1. UNCHANGED <<begun, stored, tf, rt, dataWithMissingTF, timetree, labelDatasets,
                    datasetInstances>>
    BY <1>2 DEF ReadStep, Receive, NextProject, TransformQuery, NextType,
       QuerySpatial, QueryTemporal, QuerySemantic, QueryInstances, QueryUuids, Filter,
       Intersect, Collect, indexVars, treeVars, uploadVars
  <2> QED  BY <2>1 DEF SoundInv, IndexSound
<1> QED  BY <1>1, <1>2

LEMMA SoundInvHolds == Spec => []SoundInv
<1>1. Init => InstancesSound /\ IndexSound
  BY DEF Init, InstancesSound, IndexSound, NoDataset
<1>2. SoundInv /\ InstanceInv' /\ [Next]_vars => SoundInv'
  <2> SUFFICES ASSUME SoundInv, InstanceInv', [Next]_vars
               PROVE  InstancesSound' /\ IndexSound'
    BY DEF SoundInv
  <2>1. CASE UNCHANGED vars
    BY <2>1 DEF vars, SoundInv, InstancesSound, IndexSound
  <2>2. ASSUME NEW w \in Writers,
               \/ \E m \in Uploads : AddDataset(w, m)
               \/ Place(w) \/ AddTime(w) \/ AddLabel(w)
               \/ FindInstance(w) \/ CreateInstance(w) \/ MapInstances(w)
        PROVE  InstancesSound' /\ IndexSound'
    <3>1. IndexSound'
      BY <2>2, UploadIndexSound
    <3>2. CASE \E m \in Uploads : AddDataset(w, m)
      BY <3>1, <3>2, UploadEndsSound DEF AddDataset, indexVars
    <3>3. CASE Place(w)
      <4>1. writer[w].pc = "place" /\ UNCHANGED instVars /\ ToWriter(w, "time", 1)
        BY <3>3 DEF Place, WriterAt
      <4> QED  BY <3>1, <4>1, UploadStaysSound DEF WriterPcs
    <3>4. CASE AddTime(w)
      <4>1. writer[w].pc = "time" /\ UNCHANGED instVars /\ ToWriter(w, "label", 1)
        BY <3>4 DEF AddTime, WriterAt
      <4> QED  BY <3>1, <4>1, UploadStaysSound DEF WriterPcs
    <3>5. CASE AddLabel(w)
      <4> DEFINE k == writer[w].k
      <4>1. writer[w].pc = "label" /\ UNCHANGED instVars
        BY <3>5 DEF AddLabel, WriterAt
      <4>2. CASE ToWriter(w, "label", k + 1)
        BY <3>1, <4>1, <4>2, UploadStaysSound DEF WriterPcs
      <4>3. CASE writer[w].m.labels[k].inst # Nil /\ ToWriter(w, "find", k)
        BY <3>1, <4>1, <4>3, UploadStaysSound DEF WriterPcs
      <4> QED  BY <3>5, <4>2, <4>3 DEF AddLabel
    <3>6. CASE MapInstances(w)
      BY <3>1, <3>6, UploadEndsSound DEF MapInstances
    <3> QED  BY <2>2, <3>1, <3>2, <3>3, <3>4, <3>5, <3>6, FindStaysSound, CreateStaysSound
  <2>3. ASSUME NEW t \in Transforms, AddTF(t[1], t[2])
        PROVE  InstancesSound' /\ IndexSound'
    <3>1. UNCHANGED <<writer, instVars>>
      BY <2>3 DEF AddTF, indexVars, uploadVars
    <3> QED  BY <2>3, <3>1, TransformIndexSound, InstancesStaySound
  <2>4. ASSUME NEW r \in Readers, ReadStep(r)
        PROVE  InstancesSound' /\ IndexSound'
    <3>1. UNCHANGED <<writer, instVars>>
      BY <2>4, ReadingChangesNoInstance
    <3> QED  BY <2>4, <3>1, ReadIndexSound, InstancesStaySound
  <2> QED  BY <2>1, <2>2, <2>3, <2>4 DEF Next, ReadStep
<1> QED  BY <1>1, <1>2, InstanceInvHolds, PTL DEF Spec, SoundInv

\* The index holds entries of datasets whose upload has begun, no instance is nil,
\* and a query is in a project of the server, however the handlers interleave
\* (CoreDataset::addDatasetToIndices, CoreInstances::addDataset).
THEOREM TypeCorrect == Spec => []TypeOK
<1>1. SoundInv /\ FailureInv => TypeOK
  <2> SUFFICES ASSUME SoundInv, FailureInv
               PROVE  TypeOK
    OBVIOUS
  <2>1. begun \subseteq Uploads
    BY DEF SoundInv, InstanceInv, WriterType
  <2>2. rt \subseteq {RtEntry(m) : m \in begun}
    BY DEF SoundInv, IndexSound
  <2>3. timetree \subseteq {[project |-> m.project, type |-> m.type, uuid |-> m.uuid,
                             time |-> m.time] : m \in begun}
    BY DEF SoundInv, IndexSound, TimeEntry
  <2>4. \A e \in instDatasets : Known(e[1], e[2])
    BY DEF SoundInv, InstanceInv, InstanceLabelAgrees, Known
  <2>5. ASSUME NEW e \in datasetInstances
        PROVE  e.insts \subseteq Instances \ {Nil}
    BY <2>1 DEF SoundInv, IndexSound, InstancesIn, Instances
  <2>6. \A w \in Writers : writer[w] # NoDataset => writer[w].m \in begun
    BY DEF SoundInv, InstancesSound, InstanceInv, AtLabel
  <2>7. \A r \in Readers : pc[r] \notin {"idle", "project", "answered", "failed"} =>
                             at[r].project \in Projects
    BY DEF FailureInv, ReaderType, Searching
  <2> QED
    BY <2>1, <2>2, <2>3, <2>4, <2>5, <2>6, <2>7 DEF TypeOK, SoundInv, IndexSound, InstancesSound
<1> QED  BY <1>1, SoundInvHolds, FailureInvHolds, PTL

-----------------------------------------------------------------------------
(* What was added stays in the index, whole once the upload is answered.    *)

Placed(m) == RtEntry(m) \in rt \/ m \in dataWithMissingTF
Timed(m) == TimeEntry(m) \in timetree
LabelledTo(m, n) == \A k \in 1 .. n : LabelEntry(m, k) \in labelDatasets
Mapped(m) == \E e \in datasetInstances : IsMapped(e, m)

\* What an upload has done when its thread is at a program counter.
Underway(w) ==
  LET m == writer[w].m
      k == writer[w].k
      l == writer[w].pc
  IN  /\ l \in {"time", "label", "find", "create"} => Placed(m)
      /\ l \in {"label", "find", "create"} => Timed(m)
      /\ l = "label" => LabelledTo(m, k - 1)
      /\ l \in {"find", "create"} => LabelledTo(m, k)

Complete(m) == Placed(m) /\ Timed(m) /\ LabelledTo(m, Len(m.labels)) /\ Mapped(m)

StoreInv == (\A w \in Writers : Underway(w)) /\ (\A m \in stored : Complete(m))

\* The index only grows, and a dataset that waits leaves the list for the R-tree.
IndexGrows ==
  /\ begun \subseteq begun' /\ stored \subseteq stored'
  /\ \A p \in Projects : tf[p] \subseteq tf'[p]
  /\ rt \subseteq rt' /\ timetree \subseteq timetree' /\ labelDatasets \subseteq labelDatasets'
  /\ instDatasets \subseteq instDatasets' /\ datasetInstances \subseteq datasetInstances'
  /\ \A m \in dataWithMissingTF : m \in dataWithMissingTF' \/ RtEntry(m) \in rt'

LEMMA EveryStepGrows == SoundInv /\ [Next]_vars => IndexGrows
<1> SUFFICES ASSUME SoundInv, [Next]_vars
             PROVE  IndexGrows
  OBVIOUS
<1>1. CASE UNCHANGED vars
  BY <1>1 DEF vars, IndexGrows
<1>2. ASSUME NEW w \in Writers,
             \/ \E m \in Uploads : AddDataset(w, m)
             \/ Place(w) \/ AddTime(w) \/ AddLabel(w)
             \/ FindInstance(w) \/ CreateInstance(w) \/ MapInstances(w)
      PROVE  IndexGrows
  <2>1. UNCHANGED tf
    BY <1>2 DEF AddDataset, Place, AddTime, AddLabel, FindInstance, CreateInstance, MapInstances
  <2>2. CASE \E m \in Uploads : AddDataset(w, m)
    BY <2>1, <2>2 DEF AddDataset, IndexGrows, indexVars, treeVars, instVars
  <2>3. CASE Place(w)
    BY <2>1, <2>3 DEF Place, IndexGrows, instVars
  <2>4. CASE AddTime(w)
    BY <2>1, <2>4 DEF AddTime, IndexGrows, treeVars, instVars
  <2>5. CASE AddLabel(w)
    BY <2>1, <2>5 DEF AddLabel, IndexGrows, treeVars, instVars
  <2>6. CASE FindInstance(w) \/ CreateInstance(w)
    BY <2>1, <2>6 DEF FindInstance, CreateInstance, IndexGrows, treeVars, instVars
  <2>7. CASE MapInstances(w)
    BY <2>1, <2>7 DEF MapInstances, IndexGrows, treeVars, instVars
  <2> QED  BY <1>2, <2>2, <2>3, <2>4, <2>5, <2>6, <2>7
<1>3. ASSUME NEW t \in Transforms, AddTF(t[1], t[2])
      PROVE  IndexGrows
  <2>1. \A p \in Projects : tf[p] \subseteq tf'[p]
    BY <1>3, ConstantsAssumption DEF AddTF, SoundInv, IndexSound
  <2> QED  BY <1>3, <2>1 DEF AddTF, IndexGrows, indexVars, treeVars, instVars, uploadVars
<1>4. ASSUME NEW r \in Readers, ReadStep(r)
      PROVE  IndexGrows
  <2>1. CASE TryAddingDataWithMissingTF(r)
    <3>1. UNCHANGED <<begun, stored, tf, timetree, labelDatasets, instVars, datasetInstances>>
      BY <2>1 DEF TryAddingDataWithMissingTF, uploadVars
    <3>2. PICK ready \in SUBSET dataWithMissingTF :
            /\ rt' = rt \cup {RtEntry(m) : m \in ready}
            /\ dataWithMissingTF' = dataWithMissingTF \ ready
      BY <2>1 DEF TryAddingDataWithMissingTF
    <3> QED  BY <3>1, <3>2 DEF IndexGrows, instVars
  <2>2. CASE ~TryAddingDataWithMissingTF(r)
    <3>1. UNCHANGED <<begun, stored, tf, rt, dataWithMissingTF, timetree, labelDatasets,
                      instVars, datasetInstances>>
      BY <1>4, <2>2 DEF ReadStep, Receive, NextProject, TransformQuery, NextType,
         QuerySpatial, QueryTemporal, QuerySemantic, QueryInstances, QueryUuids, Filter,
         Intersect, Collect, indexVars, treeVars, uploadVars
    <3> QED  BY <3>1 DEF IndexGrows, instVars
  <2> QED  BY <2>1, <2>2
<1> QED  BY <1>1, <1>2, <1>3, <1>4 DEF Next, ReadStep

\* So what is in the index of a dataset stays there.
LEMMA StaysInTheIndex ==
  ASSUME IndexGrows, NEW m
  PROVE  /\ Placed(m) => Placed(m)'
         /\ Timed(m) => Timed(m)'
         /\ \A n : LabelledTo(m, n) => LabelledTo(m, n)'
         /\ Mapped(m) => Mapped(m)'
         /\ Complete(m) => Complete(m)'
<1>1. (Placed(m) => Placed(m)') /\ (Timed(m) => Timed(m)') /\ (Mapped(m) => Mapped(m)')
  BY DEF IndexGrows, Placed, Timed, Mapped, TimeEntry, IsMapped
<1>2. \A n : LabelledTo(m, n) => LabelledTo(m, n)'
  BY DEF IndexGrows, LabelledTo, LabelEntry
<1> QED  BY <1>1, <1>2 DEF Complete

\* An upload has done no less when another thread moves on.
LEMMA UnderwayStays ==
  ASSUME StoreInv, IndexGrows, NEW w \in Writers, writer'[w] = writer[w]
  PROVE  Underway(w)'
<1> DEFINE m == writer[w].m
<1>1. PICK n, k, l : n = writer[w].m /\ k = writer[w].k /\ l = writer[w].pc
  OBVIOUS
<1>2. /\ l \in {"time", "label", "find", "create"} => Placed(n)
      /\ l \in {"label", "find", "create"} => Timed(n)
      /\ l = "label" => LabelledTo(n, k - 1)
      /\ l \in {"find", "create"} => LabelledTo(n, k)
  BY <1>1 DEF StoreInv, Underway
<1>3. /\ l \in {"time", "label", "find", "create"} => Placed(n)'
      /\ l \in {"label", "find", "create"} => Timed(n)'
      /\ l = "label" => LabelledTo(n, k - 1)'
      /\ l \in {"find", "create"} => LabelledTo(n, k)'
  BY <1>2, StaysInTheIndex
<1> QED  BY <1>1, <1>3 DEF Underway, Placed, Timed, LabelledTo

\* What a step has to establish for the upload it moves on.
LEMMA UploadMovesOn ==
  ASSUME SoundInv, StoreInv, IndexGrows, NEW w \in Writers,
         NEW m, m = writer[w].m, NEW l, NEW k, ToWriter(w, l, k), UNCHANGED stored,
         l \in {"time", "label", "find", "create"} => Placed(m)',
         l \in {"label", "find", "create"} => Timed(m)',
         l = "label" => LabelledTo(m, k - 1)',
         l \in {"find", "create"} => LabelledTo(m, k)'
  PROVE  StoreInv'
<1>1. /\ writer'[w].pc = l /\ writer'[w].k = k /\ writer'[w].m = m
      /\ \A v \in Writers \ {w} : writer'[v] = writer[v]
  BY MovesOn DEF SoundInv
<1>2. Underway(w)'
  BY <1>1 DEF Underway, Placed, Timed, LabelledTo
<1>3. \A v \in Writers \ {w} : Underway(v)'
  BY <1>1, UnderwayStays
<1>4. \A n \in stored' : Complete(n)'
  <2> TAKE n \in stored'
  <2>1. Complete(n)
    BY DEF StoreInv
  <2> QED  BY <2>1, StaysInTheIndex
<1> QED  BY <1>2, <1>3, <1>4 DEF StoreInv

\* An upload that begins has done nothing yet, and one that ends is not underway.
LEMMA UploadStopsOrStarts ==
  ASSUME SoundInv, StoreInv, IndexGrows, NEW w \in Writers,
         Leave(w) \/ \E m : writer' = [writer EXCEPT ![w] = [pc |-> "place", m |-> m, k |-> 1]],
         \A n \in stored' : Complete(n)'
  PROVE  StoreInv'
<1>1. writer'[w].pc \in {"idle", "place"} /\ \A v \in Writers \ {w} : writer'[v] = writer[v]
  BY DEF SoundInv, InstanceInv, WriterType, Leave, NoDataset
<1>2. Underway(w)'
  BY <1>1 DEF Underway
<1>3. \A v \in Writers \ {w} : Underway(v)'
  BY <1>1, UnderwayStays
<1> QED  BY <1>2, <1>3 DEF StoreInv

LEMMA StoredStayComplete ==
  ASSUME StoreInv, IndexGrows, stored' = stored
  PROVE  \A n \in stored' : Complete(n)'
<1> TAKE n \in stored'
<1>1. Complete(n)
  BY DEF StoreInv
<1> QED  BY <1>1, StaysInTheIndex

LEMMA UploadKeepsStore ==
  ASSUME SoundInv, StoreInv, IndexGrows, NEW w \in Writers,
         \/ \E m \in Uploads : AddDataset(w, m)
         \/ Place(w) \/ AddTime(w) \/ AddLabel(w)
         \/ FindInstance(w) \/ CreateInstance(w) \/ MapInstances(w)
  PROVE  StoreInv'
<1>1. PICK m, k, c : m = writer[w].m /\ k = writer[w].k /\ c = writer[w].pc
  OBVIOUS
<1>2. c # "idle" => k \in Nat /\ k >= 1 /\ Len(m.labels) \in Nat
  BY <1>1, InHand DEF SoundInv
<1>3. /\ c \in {"time", "label", "find", "create"} => Placed(m)'
      /\ c \in {"label", "find", "create"} => Timed(m)'
      /\ c = "label" => LabelledTo(m, k - 1)'
      /\ c \in {"find", "create"} => LabelledTo(m, k)'
  <2>1. /\ c \in {"time", "label", "find", "create"} => Placed(m)
        /\ c \in {"label", "find", "create"} => Timed(m)
        /\ c = "label" => LabelledTo(m, k - 1)
        /\ c \in {"find", "create"} => LabelledTo(m, k)
    BY <1>1 DEF StoreInv, Underway
  <2> QED  BY <2>1, StaysInTheIndex
<1>4. CASE \E n \in Uploads : AddDataset(w, n)
  BY <1>4, UploadStopsOrStarts, StoredStayComplete DEF AddDataset
<1>5. CASE Place(w)
  <2>1. /\ ToWriter(w, "time", 1) /\ UNCHANGED stored
        /\ RtEntry(m) \in rt' \/ m \in dataWithMissingTF'
    BY <1>1, <1>5 DEF Place
  <2>2. Placed(m)'
    BY <2>1 DEF Placed
  <2> QED  BY <1>1, <2>1, <2>2, UploadMovesOn
<1>6. CASE AddTime(w)
  <2>1. ToWriter(w, "label", 1) /\ UNCHANGED stored /\ TimeEntry(m) \in timetree' /\ c = "time"
    BY <1>1, <1>6 DEF AddTime, TimeEntry, WriterAt
  <2>2. Timed(m)'
    BY <2>1 DEF Timed, TimeEntry
  <2>3. LabelledTo(m, 1 - 1)'
    BY DEF LabelledTo
  <2> QED  BY <1>1, <1>3, <2>1, <2>2, <2>3, UploadMovesOn
<1>7. CASE AddLabel(w)
  <2>1. /\ c = "label" /\ UNCHANGED stored /\ LabelEntry(m, k) \in labelDatasets'
        /\ ToWriter(w, "label", k + 1) \/ ToWriter(w, "find", k)
    BY <1>1, <1>7 DEF AddLabel, LabelEntry, WriterAt
  <2>2. LabelledTo(m, k)'
    BY <1>2, <1>3, <2>1 DEF LabelledTo, LabelEntry
  <2>3. LabelledTo(m, (k + 1) - 1)'
    BY <1>2, <2>1, <2>2 DEF LabelledTo
  <2>4. CASE ToWriter(w, "label", k + 1)
    <3>1. PICK j : j = k + 1
      OBVIOUS
    <3>2. ToWriter(w, "label", j) /\ LabelledTo(m, j - 1)'
      BY <2>3, <2>4, <3>1
    <3> QED  BY <1>1, <1>3, <2>1, <3>2, UploadMovesOn
  <2>5. CASE ToWriter(w, "find", k)
    BY <1>1, <1>3, <2>1, <2>2, <2>5, UploadMovesOn
  <2> QED  BY <2>1, <2>4, <2>5
<1>8. CASE FindInstance(w) \/ CreateInstance(w)
  <2>1. /\ c \in {"find", "create"} /\ UNCHANGED stored
        /\ \/ ToWriter(w, "label", k + 1) \/ ToWriter(w, "create", k)
           \/ Leave(w)
    BY <1>1, <1>8 DEF FindInstance, CreateInstance, WriterAt
  <2>2. CASE ToWriter(w, "label", k + 1)
    <3>1. PICK j : j = k + 1
      OBVIOUS
    <3>2. ToWriter(w, "label", j) /\ LabelledTo(m, j - 1)'
      BY <1>2, <1>3, <2>1, <2>2, <3>1 DEF LabelledTo
    <3> QED  BY <1>1, <1>3, <2>1, <3>2, UploadMovesOn
  <2>3. CASE ToWriter(w, "create", k)
    BY <1>1, <1>3, <2>1, <2>3, UploadMovesOn
  <2>4. CASE Leave(w)
    BY <2>1, <2>4, UploadStopsOrStarts, StoredStayComplete
  <2> QED  BY <2>1, <2>2, <2>3, <2>4
<1>9. CASE MapInstances(w)
  <2>1. /\ c = "label" /\ k > Len(m.labels) /\ stored' = stored \cup {m} /\ Leave(w)
    BY <1>1, <1>9 DEF MapInstances, WriterAt
  <2>2. \E e \in datasetInstances' : IsMapped(e, m)
    <3> DEFINE x == [project |-> m.project, type |-> m.type, uuid |-> m.uuid,
                     insts |-> InstancesIn(m)]
    <3>1. CASE \E e \in datasetInstances : IsMapped(e, m)
      BY <3>1 DEF IndexGrows
    <3>2. CASE ~ \E e \in datasetInstances : IsMapped(e, m)
      <4>1. x \in datasetInstances'
        BY <1>1, <1>9, <3>2 DEF MapInstances, IsMapped
      <4>2. IsMapped(x, m)
        BY DEF IsMapped
      <4> QED  BY <4>1, <4>2
    <3> QED  BY <3>1, <3>2
  <2>3. Complete(m)'
    <3>1. Mapped(m)'
      BY <2>2 DEF Mapped, IsMapped
    <3>2. LabelledTo(m, Len(m.labels))'
      BY <1>2, <1>3, <2>1 DEF LabelledTo
    <3> QED  BY <1>3, <2>1, <3>1, <3>2 DEF Complete
  <2>4. \A n \in stored : Complete(n)'
    BY StaysInTheIndex DEF StoreInv
  <2> QED  BY <2>1, <2>3, <2>4, UploadStopsOrStarts
<1> QED  BY <1>4, <1>5, <1>6, <1>7, <1>8, <1>9

LEMMA StoreInvHolds == Spec => []StoreInv
<1>1. Init => StoreInv
  BY DEF Init, StoreInv, Underway, NoDataset
<1>2. StoreInv /\ SoundInv /\ [Next]_vars => StoreInv'
  <2> SUFFICES ASSUME StoreInv, SoundInv, [Next]_vars
               PROVE  StoreInv'
    OBVIOUS
  <2>1. IndexGrows
    BY EveryStepGrows
  <2>2. ASSUME writer' = writer, stored' = stored
        PROVE  StoreInv'
    <3>1. \A w \in Writers : Underway(w)'
      BY <2>1, <2>2, UnderwayStays
    <3> QED  BY <2>1, <2>2, <3>1, StoredStayComplete DEF StoreInv
  <2>3. ASSUME NEW w \in Writers,
               \/ \E m \in Uploads : AddDataset(w, m)
               \/ Place(w) \/ AddTime(w) \/ AddLabel(w)
               \/ FindInstance(w) \/ CreateInstance(w) \/ MapInstances(w)
        PROVE  StoreInv'
    BY <2>1, <2>3, UploadKeepsStore
  <2>4. ASSUME NEW t \in Transforms, AddTF(t[1], t[2])
        PROVE  StoreInv'
    BY <2>2, <2>4 DEF AddTF, uploadVars
  <2>5. ASSUME NEW r \in Readers, ReadStep(r)
        PROVE  StoreInv'
    <3>1. UNCHANGED uploadVars
      BY <2>5 DEF ReadStep, Receive, NextProject, TransformQuery, NextType,
         TryAddingDataWithMissingTF, QuerySpatial, QueryTemporal, QuerySemantic,
         QueryInstances, QueryUuids, Filter, Intersect, Collect
    <3> QED  BY <2>2, <3>1 DEF uploadVars
  <2>6. CASE UNCHANGED vars
    BY <2>2, <2>6 DEF vars
  <2> QED  BY <2>3, <2>4, <2>5, <2>6 DEF Next, ReadStep
<1> QED  BY <1>1, <1>2, SoundInvHolds, PTL DEF Spec

-----------------------------------------------------------------------------
(* Boxes: what the R-tree compares, and what a box takes up.                *)

\* The corners of a transformed box span what the box takes up.
LEMMA TransformedSpan ==
  ASSUME NEW p \in Projects, NEW b, IsBox(b)
  PROVE  \E lo, hi \in Int :
           /\ TransformBox(p, b) = [lo |-> lo, hi |-> hi]
           /\ Covered(p, b) = {x \in Int : (lo <= x /\ x <= hi) \/ (hi <= x /\ x <= lo)}
           /\ Upright(p, b) => lo <= hi
<1>1. b.frame \in Frames /\ b.lo \in Int /\ b.hi \in Int
  BY DEF IsBox
<1>2. PICK s \in Int, l \in Int, h \in Int : s = Shift[b.frame] /\ l = b.lo /\ h = b.hi
  BY <1>1, ConstantsAssumption
<1> DEFINE span == (b.lo .. b.hi) \cup (b.hi .. b.lo)
<1>3. CASE b.frame = MapFrame[p]
  <2>1. TransformBox(p, b) = [lo |-> l, hi |-> h]
    BY <1>2, <1>3 DEF TransformBox
  <2>2. Covered(p, b) = {x \in Int : (l <= x /\ x <= h) \/ (h <= x /\ x <= l)}
    <3>1. Covered(p, b) = (l .. h) \cup (h .. l)
      BY <1>2, <1>3 DEF Covered
    <3> QED  BY <3>1
  <2>3. Upright(p, b) => l <= h
    BY <1>2 DEF Upright
  <2> QED  BY <2>1, <2>2, <2>3
<1>4. CASE b.frame # MapFrame[p] /\ b.frame \in Turned
  <2>1. TransformBox(p, b) = [lo |-> s - l, hi |-> s - h]
    BY <1>2, <1>4 DEF TransformBox, InMap
  <2>2. Covered(p, b) = {x \in Int : \/ s - l <= x /\ x <= s - h
                                     \/ s - h <= x /\ x <= s - l}
    <3>1. Covered(p, b) = {s - y : y \in (l .. h) \cup (h .. l)}
      BY <1>2, <1>4 DEF Covered, InMap
    <3>2. ASSUME NEW x \in Int
          PROVE  (\E y \in (l .. h) \cup (h .. l) : x = s - y)
                   <=> (s - l <= x /\ x <= s - h) \/ (s - h <= x /\ x <= s - l)
      <4>1. ASSUME (s - l <= x /\ x <= s - h) \/ (s - h <= x /\ x <= s - l)
            PROVE  \E y \in (l .. h) \cup (h .. l) : x = s - y
        <5>1. s - x \in (l .. h) \cup (h .. l) /\ x = s - (s - x)
          BY <4>1
        <5> QED  BY <5>1
      <4> QED  BY <4>1
    <3>3. \A y \in (l .. h) \cup (h .. l) : s - y \in Int
      OBVIOUS
    <3> QED  BY <3>1, <3>2, <3>3
  <2>3. Upright(p, b) => s - l <= s - h
    BY <1>2, <1>4 DEF Upright
  <2>4. s - l \in Int /\ s - h \in Int
    OBVIOUS
  <2> QED  BY <2>1, <2>2, <2>3, <2>4
<1>5. CASE b.frame # MapFrame[p] /\ b.frame \notin Turned
  <2>1. TransformBox(p, b) = [lo |-> s + l, hi |-> s + h]
    BY <1>2, <1>5 DEF TransformBox, InMap
  <2>2. Covered(p, b) = {x \in Int : \/ s + l <= x /\ x <= s + h
                                     \/ s + h <= x /\ x <= s + l}
    <3>1. Covered(p, b) = {s + y : y \in (l .. h) \cup (h .. l)}
      BY <1>2, <1>5 DEF Covered, InMap
    <3>2. ASSUME NEW x \in Int
          PROVE  (\E y \in (l .. h) \cup (h .. l) : x = s + y)
                   <=> (s + l <= x /\ x <= s + h) \/ (s + h <= x /\ x <= s + l)
      <4>1. ASSUME (s + l <= x /\ x <= s + h) \/ (s + h <= x /\ x <= s + l)
            PROVE  \E y \in (l .. h) \cup (h .. l) : x = s + y
        <5>1. x - s \in (l .. h) \cup (h .. l) /\ x = s + (x - s)
          BY <4>1
        <5> QED  BY <5>1
      <4> QED  BY <4>1
    <3>3. \A y \in (l .. h) \cup (h .. l) : s + y \in Int
      OBVIOUS
    <3> QED  BY <3>1, <3>2, <3>3
  <2>3. Upright(p, b) => s + l <= s + h
    BY <1>2 DEF Upright
  <2>4. s + l \in Int /\ s + h \in Int
    OBVIOUS
  <2> QED  BY <2>1, <2>2, <2>3, <2>4
<1> QED  BY <1>3, <1>4, <1>5

\* What the R-tree finds does meet the box of the query, and it misses nothing
\* that does when both boxes come out of the transform upright.
LEMMA IntersectsMeans ==
  ASSUME NEW p \in Projects, NEW a, NEW b, IsBox(a), IsBox(b)
  PROVE  /\ Intersects(TransformBox(p, a), TransformBox(p, b)) =>
              Covered(p, a) \cap Covered(p, b) # {}
         /\ Upright(p, a) /\ Upright(p, b) /\ Covered(p, a) \cap Covered(p, b) # {} =>
              Intersects(TransformBox(p, a), TransformBox(p, b))
<1>1. PICK al, ah \in Int :
        /\ TransformBox(p, a) = [lo |-> al, hi |-> ah]
        /\ Covered(p, a) = {x \in Int : (al <= x /\ x <= ah) \/ (ah <= x /\ x <= al)}
        /\ Upright(p, a) => al <= ah
  BY TransformedSpan
<1>2. PICK bl, bh \in Int :
        /\ TransformBox(p, b) = [lo |-> bl, hi |-> bh]
        /\ Covered(p, b) = {x \in Int : (bl <= x /\ x <= bh) \/ (bh <= x /\ x <= bl)}
        /\ Upright(p, b) => bl <= bh
  BY TransformedSpan
<1>3. Intersects(TransformBox(p, a), TransformBox(p, b)) <=> al <= bh /\ bl <= ah
  BY <1>1, <1>2 DEF Intersects
<1>4. ASSUME al <= bh, bl <= ah
      PROVE  Covered(p, a) \cap Covered(p, b) # {}
  <2>1. \E x \in {al, ah, bl, bh} : /\ (al <= x /\ x <= ah) \/ (ah <= x /\ x <= al)
                                    /\ (bl <= x /\ x <= bh) \/ (bh <= x /\ x <= bl)
    BY <1>4
  <2> QED  BY <1>1, <1>2, <2>1
<1>5. ASSUME Upright(p, a), Upright(p, b), Covered(p, a) \cap Covered(p, b) # {}
      PROVE  al <= bh /\ bl <= ah
  <2>1. al <= ah /\ bl <= bh
    BY <1>1, <1>2, <1>5
  <2>2. PICK x \in Int : /\ (al <= x /\ x <= ah) \/ (ah <= x /\ x <= al)
                         /\ (bl <= x /\ x <= bh) \/ (bh <= x /\ x <= bl)
    BY <1>1, <1>2, <1>5
  <2> QED  BY <2>1, <2>2
<1> QED  BY <1>3, <1>4, <1>5

-----------------------------------------------------------------------------
(* A query between two steps.                                               *)

Uuids == {m.uuid : m \in Uploads} \cup
         UNION {q.dataUuids : q \in {x \in Queries : x.dataUuids # None}}

\* The program counters of a query at a datatype, and after each of its filters.
Filtering == {"spatial", "temporal", "semantic", "instances", "uuids", "intersect"}
PastSpace == {"temporal", "semantic", "instances", "uuids", "intersect"}
PastTime == {"semantic", "instances", "uuids", "intersect"}
PastLabel == {"instances", "uuids", "intersect"}
PastInstances == {"uuids", "intersect"}
Typed == {"waiting", "spatial", "temporal", "semantic", "instances", "uuids", "intersect"}
Transformed == {"type", "waiting", "spatial", "temporal", "semantic", "instances", "uuids",
                "intersect"}

HasType(r) ==
  /\ parts[r] \in Seq(SUBSET Uuids)
  /\ pc[r] # "idle" => query[r] \in Queries
  /\ pc[r] \in Transformed => types[r] \subseteq TypesOf(query[r])
  /\ pc[r] \in Typed => at[r].type \in TypesOf(query[r])
  /\ pc[r] \in Active \ {"project"} =>
       at[r] = [project |-> at[r].project, type |-> at[r].type, box |-> at[r].box]

\* What there was when a query was received is still there.
Remembers(r) ==
  pc[r] # "idle" =>
    /\ before[r].stored \subseteq stored
    /\ before[r].shown \subseteq instDatasets
    /\ \A p \in Projects : before[r].tf[p] \subseteq tf[p]

BoxMoved(r) ==
  pc[r] \in Transformed /\ query[r].box # None =>
    at[r].box = TransformBox(at[r].project, query[r].box)

ReadersApart ==
  /\ DOMAIN types = Readers /\ DOMAIN parts = Readers
  /\ DOMAIN answer = Readers /\ DOMAIN before = Readers

BasicInv ==
  /\ SoundInv /\ FailureInv /\ ReadersApart
  /\ \A r \in Readers : HasType(r) /\ Remembers(r) /\ BoxMoved(r)

Same(r) ==
  /\ pc'[r] = pc[r] /\ query'[r] = query[r] /\ todo'[r] = todo[r] /\ types'[r] = types[r]
  /\ at'[r] = at[r] /\ parts'[r] = parts[r] /\ answer'[r] = answer[r] /\ before'[r] = before[r]

\* A query's step is its own.
LEMMA OthersSame ==
  ASSUME FailureInv, ReadersApart, NEW r \in Readers, ReadStep(r)
  PROVE  ReadersApart' /\ \A s \in Readers \ {r} : Same(s)
<1> USE DEF FailureInv, ReaderType, ReadersApart, Same, Goto, PushPart
<1>1. CASE \E q \in Queries : Receive(r, q)
  BY <1>1 DEF Receive
<1>2. CASE NextProject(r)
  BY <1>2 DEF NextProject
<1>3. CASE TransformQuery(r)
  BY <1>3 DEF TransformQuery
<1>4. CASE NextType(r)
  BY <1>4 DEF NextType
<1>5. CASE TryAddingDataWithMissingTF(r)
  BY <1>5 DEF TryAddingDataWithMissingTF
<1>6. CASE \/ QuerySpatial(r) \/ QueryTemporal(r) \/ QuerySemantic(r) \/ QueryInstances(r)
           \/ QueryUuids(r)
  <2>1. /\ UNCHANGED <<query, todo, types, at, answer, before>>
        /\ \E l : pc' = [pc EXCEPT ![r] = l]
        /\ parts' = parts \/ \E ids : parts' = [parts EXCEPT ![r] = Append(@, ids)]
    BY <1>6 DEF QuerySpatial, QueryTemporal, QuerySemantic, QueryInstances, QueryUuids, Filter
  <2> QED  BY <2>1
<1>7. CASE Intersect(r)
  <2>1. \E x : parts' = [parts EXCEPT ![r] = x]
    BY <1>7 DEF Intersect
  <2> QED  BY <1>7, <2>1 DEF Intersect
<1>8. CASE Collect(r)
  <2>1. \E x : answer' = [answer EXCEPT ![r] = x]
    BY <1>8 DEF Collect
  <2> QED  BY <1>8, <2>1 DEF Collect
<1> QED  BY <1>1, <1>2, <1>3, <1>4, <1>5, <1>6, <1>7, <1>8 DEF ReadStep

\* Uploads and transforms leave the queries alone.
LEMMA OutsideSame ==
  ASSUME [Next]_vars, ~ \E r \in Readers : ReadStep(r)
  PROVE  UNCHANGED readVars
<1>1. CASE UNCHANGED vars
  BY <1>1 DEF vars, readVars
<1>2. ASSUME NEW w \in Writers,
             \/ \E m \in Uploads : AddDataset(w, m)
             \/ Place(w) \/ AddTime(w) \/ AddLabel(w)
             \/ FindInstance(w) \/ CreateInstance(w) \/ MapInstances(w)
      PROVE  UNCHANGED readVars
  BY <1>2 DEF AddDataset, Place, AddTime, AddLabel, FindInstance, CreateInstance, MapInstances
<1>3. ASSUME NEW t \in Transforms, AddTF(t[1], t[2])
      PROVE  UNCHANGED readVars
  BY <1>3 DEF AddTF
<1> QED  BY <1>1, <1>2, <1>3 DEF Next, ReadStep

LEMMA BasicStays ==
  ASSUME IndexGrows, NEW r \in Readers, Same(r), HasType(r), Remembers(r), BoxMoved(r)
  PROVE  HasType(r)' /\ Remembers(r)' /\ BoxMoved(r)'
<1>1. HasType(r)'
  BY DEF HasType, Same, Active, Typed, Transformed, TypesOf
<1>2. Remembers(r)'
  <2>1. CASE pc[r] = "idle"
    BY <2>1 DEF Remembers, Same
  <2>2. CASE pc[r] # "idle"
    BY <2>2 DEF Remembers, Same, IndexGrows
  <2> QED  BY <2>1, <2>2
<1>3. BoxMoved(r)'
  BY DEF BoxMoved, Same, Transformed
<1> QED  BY <1>1, <1>2, <1>3

\* What one filter does to its query.
LEMMA FilterEffect ==
  ASSUME FailureInv, ReadersApart, NEW r \in Readers, NEW from, NEW set \in BOOLEAN, NEW ids,
         NEW to, Filter(r, from, set, ids, to)
  PROVE  /\ pc[r] = from /\ pc'[r] = to
         /\ parts'[r] = IF set THEN Append(parts[r], ids) ELSE parts[r]
         /\ query'[r] = query[r] /\ todo'[r] = todo[r] /\ types'[r] = types[r]
         /\ at'[r] = at[r] /\ answer'[r] = answer[r] /\ before'[r] = before[r]
BY DEF Filter, PushPart, Goto, FailureInv, ReaderType, ReadersApart

\* The five filters, with what each adds to the parts.
SpaceIds(r) == {e.uuid : e \in {e \in rt : Here(r, e) /\ Intersects(at[r].box, e)}}
TimeIds(r) ==
  {e.uuid : e \in {e \in timetree : Here(r, e) /\ query[r].time.min <= e.time
                                    /\ e.time <= query[r].time.max}}
LabelIds(r) ==
  {e[4] : e \in {e \in labelDatasets : /\ e[1] = at[r].project /\ e[2] = at[r].type
                                       /\ e[3] \in query[r].label}}
UuidsIds(r) == IF Unfiltered(query[r]) THEN AllDatasetUuids(r) ELSE query[r].dataUuids

FilterStep(r, from, set, ids, to) ==
  \/ /\ QuerySpatial(r) /\ from = "spatial" /\ to = "temporal"
     /\ set = (query[r].box # None) /\ ids = SpaceIds(r)
  \/ /\ QueryTemporal(r) /\ from = "temporal" /\ to = "semantic"
     /\ set = (query[r].time # None) /\ ids = TimeIds(r)
  \/ /\ QuerySemantic(r) /\ from = "semantic" /\ to = "instances"
     /\ set = (query[r].label # None) /\ ids = LabelIds(r)
  \/ /\ QueryInstances(r) /\ from = "instances" /\ to = "uuids"
     /\ set = (query[r].instances # None /\ ShowingInstances(r) # {})
     /\ ids = ShowingInstances(r)
  \/ /\ QueryUuids(r) /\ from = "uuids" /\ to = "intersect"
     /\ set = (Unfiltered(query[r]) \/ query[r].dataUuids # None) /\ ids = UuidsIds(r)

Filters(r) ==
  \/ QuerySpatial(r) \/ QueryTemporal(r) \/ QuerySemantic(r) \/ QueryInstances(r)
  \/ QueryUuids(r)

LEMMA FilterSteps ==
  ASSUME NEW r \in Readers, Filters(r)
  PROVE  \E from, to, ids : \E set \in BOOLEAN :
           FilterStep(r, from, set, ids, to) /\ Filter(r, from, set, ids, to)
<1>1. CASE QuerySpatial(r)
  BY <1>1 DEF FilterStep, QuerySpatial, SpaceIds
<1>2. CASE QueryTemporal(r)
  BY <1>2 DEF FilterStep, QueryTemporal, TimeIds
<1>3. CASE QuerySemantic(r)
  BY <1>3 DEF FilterStep, QuerySemantic, LabelIds
<1>4. CASE QueryInstances(r)
  BY <1>4 DEF FilterStep, QueryInstances
<1>5. CASE QueryUuids(r)
  BY <1>5 DEF FilterStep, QueryUuids, UuidsIds
<1> QED  BY <1>1, <1>2, <1>3, <1>4, <1>5 DEF Filters

\* A filter only names uuids that were sent, or asked for.
LEMMA FilterIdsType ==
  ASSUME SoundInv, NEW r \in Readers, pc[r] # "idle", HasType(r),
         NEW from, NEW set \in BOOLEAN, NEW ids, NEW to,
         FilterStep(r, from, set, ids, to), set
  PROVE  ids \subseteq Uuids
<1>1. begun \subseteq Uploads
  BY DEF SoundInv, InstanceInv, WriterType
<1>2. \A m \in begun : m.uuid \in Uuids
  BY <1>1 DEF Uuids
<1>3. SpaceIds(r) \subseteq Uuids
  <2>1. \A e \in rt : \E m \in begun : e.uuid = m.uuid
    BY DEF SoundInv, IndexSound, RtEntry
  <2> QED  BY <1>2, <2>1 DEF SpaceIds
<1>4. TimeIds(r) \subseteq Uuids /\ AllDatasetUuids(r) \subseteq Uuids
  <2>1. \A e \in timetree : \E m \in begun : e.uuid = m.uuid
    BY DEF SoundInv, IndexSound, TimeEntry
  <2> QED  BY <1>2, <2>1 DEF TimeIds, AllDatasetUuids
<1>5. LabelIds(r) \subseteq Uuids
  <2>1. \A e \in labelDatasets : \E m \in begun : e[4] = m.uuid
    BY DEF SoundInv, IndexSound, LabelEntry
  <2> QED  BY <1>2, <2>1 DEF LabelIds
<1>6. ShowingInstances(r) \subseteq Uuids
  <2>1. \A e \in instDatasets : \E m \in begun : e[4] = m.uuid
    BY DEF SoundInv, InstanceInv, InstanceLabelAgrees
  <2> QED  BY <1>2, <2>1 DEF ShowingInstances
<1>7. query[r].dataUuids # None => query[r].dataUuids \subseteq Uuids
  BY DEF HasType, Uuids
<1> QED  BY <1>3, <1>4, <1>5, <1>6, <1>7 DEF FilterStep, UuidsIds

\* What a filter leaves in the parts.
LEMMA PartsAfterFilter ==
  ASSUME BasicInv, NEW r \in Readers, NEW from, NEW set \in BOOLEAN, NEW ids, NEW to,
         FilterStep(r, from, set, ids, to), Filter(r, from, set, ids, to)
  PROVE  /\ parts[r] \in Seq(SUBSET Uuids) /\ parts'[r] \in Seq(SUBSET Uuids)
         /\ ~set => parts'[r] = parts[r]
         /\ \A i \in DOMAIN parts[r] : i \in DOMAIN parts'[r] /\ parts'[r][i] = parts[r][i]
         /\ set => /\ Len(parts'[r]) \in DOMAIN parts'[r] /\ parts'[r] # <<>>
                   /\ parts'[r][Len(parts'[r])] = ids
         /\ \A i \in DOMAIN parts'[r] : i \in DOMAIN parts[r] \/ (set /\ parts'[r][i] = ids)
<1>1. pc[r] = from /\ parts'[r] = IF set THEN Append(parts[r], ids) ELSE parts[r]
  BY FilterEffect DEF BasicInv
<1>2. pc[r] # "idle"
  BY <1>1 DEF FilterStep
<1>3. set => ids \in SUBSET Uuids
  BY <1>2, FilterIdsType DEF BasicInv
<1>4. PICK s \in Seq(SUBSET Uuids) : s = parts[r]
  BY DEF BasicInv, HasType
<1>5. CASE ~set
  BY <1>1, <1>4, <1>5
<1>6. CASE set
  <2>1. PICK x \in SUBSET Uuids : x = ids
    BY <1>3, <1>6
  <2>2. parts'[r] = Append(s, x)
    BY <1>1, <1>4, <1>6, <2>1
  <2>3. /\ Append(s, x) \in Seq(SUBSET Uuids)
        /\ Len(Append(s, x)) = Len(s) + 1 /\ Append(s, x)[Len(s) + 1] = x
        /\ DOMAIN s = 1 .. Len(s) /\ DOMAIN Append(s, x) = 1 .. (Len(s) + 1)
        /\ \A i \in 1 .. Len(s) : Append(s, x)[i] = s[i]
        /\ Len(s) \in Nat
    OBVIOUS
  <2>4. Len(s) + 1 \in DOMAIN Append(s, x)
    BY <2>3
  <2>5. Append(s, x) # <<>>
    BY <2>4
  <2> QED  BY <1>4, <1>6, <2>1, <2>2, <2>3, <2>4, <2>5
<1> QED  BY <1>5, <1>6

\* Each step of a query, in its own fields.
LEMMA ReceiveEffect ==
  ASSUME FailureInv, ReadersApart, NEW r \in Readers, NEW q \in Queries, Receive(r, q)
  PROVE  /\ pc'[r] = "project" /\ query'[r] = q /\ answer'[r] = {}
         /\ before'[r] = [stored |-> stored, tf |-> tf, shown |-> instDatasets]
         /\ \/ q.projects # None /\ todo'[r] = q.projects
            \/ q.projects = None /\ todo'[r] \in Orders
         /\ types'[r] = types[r] /\ at'[r] = at[r] /\ parts'[r] = parts[r]
         /\ UNCHANGED <<tf, indexVars, uploadVars>>
BY DEF Receive, Goto, FailureInv, ReaderType, ReadersApart

LEMMA NextProjectEffect ==
  ASSUME FailureInv, ReadersApart, NEW r \in Readers, NextProject(r)
  PROVE  /\ pc[r] = "project"
         /\ \/ todo[r] = <<>> /\ pc'[r] = "answered" /\ todo'[r] = todo[r] /\ at'[r] = at[r]
            \/ /\ todo[r] # <<>> /\ pc'[r] = "transform" /\ todo'[r] = Tail(todo[r])
               /\ at'[r] = [project |-> Head(todo[r]), type |-> Unknown, box |-> None]
            \/ pc'[r] = "failed"
         /\ query'[r] = query[r] /\ types'[r] = types[r] /\ parts'[r] = parts[r]
         /\ answer'[r] = answer[r] /\ before'[r] = before[r]
         /\ UNCHANGED <<tf, indexVars, uploadVars>>
BY DEF NextProject, Goto, FailureInv, ReaderType, ReadersApart

LEMMA TransformQueryEffect ==
  ASSUME BasicInv, NEW r \in Readers, TransformQuery(r)
  PROVE  /\ pc[r] = "transform"
         /\ \/ /\ pc'[r] = "type" /\ types'[r] = TypesOf(query[r])
               /\ \E x : at'[r] = [project |-> at[r].project, type |-> at[r].type, box |-> x]
               /\ query[r].box # None => at'[r].box = TransformBox(at[r].project, query[r].box)
            \/ pc'[r] = "failed"
         /\ query'[r] = query[r] /\ todo'[r] = todo[r] /\ parts'[r] = parts[r]
         /\ answer'[r] = answer[r] /\ before'[r] = before[r]
         /\ UNCHANGED <<tf, indexVars, uploadVars>>
<1> USE DEF FailureInv, ReaderType, ReadersApart, Goto
<1>1. /\ pc[r] = "transform" /\ UNCHANGED <<tf, indexVars, uploadVars>>
      /\ query'[r] = query[r] /\ todo'[r] = todo[r] /\ parts'[r] = parts[r]
      /\ answer'[r] = answer[r] /\ before'[r] = before[r]
  BY DEF TransformQuery, BasicInv
<1>2. at[r] = [project |-> at[r].project, type |-> at[r].type, box |-> at[r].box]
  BY <1>1 DEF BasicInv, HasType, Active
<1>3. CASE Goto(r, "failed")
  BY <1>1, <1>3 DEF BasicInv
<1>4. CASE /\ IF query[r].box = None THEN at' = at
              ELSE at' = [at EXCEPT ![r].box = TransformBox(at[r].project, query[r].box)]
           /\ types' = [types EXCEPT ![r] =
                          IF query[r].type = Unknown THEN Datatypes ELSE {query[r].type}]
           /\ Goto(r, "type")
  <2>1. pc'[r] = "type" /\ types'[r] = TypesOf(query[r])
    BY <1>4 DEF BasicInv, TypesOf
  <2>2. CASE query[r].box = None
    BY <1>1, <1>2, <1>4, <2>1, <2>2 DEF BasicInv
  <2>3. CASE query[r].box # None
    <3>1. PICK p, d, b : p = at[r].project /\ d = at[r].type /\ b = at[r].box
      OBVIOUS
    <3>2. PICK x : x = TransformBox(at[r].project, query[r].box)
      OBVIOUS
    <3>3. at'[r] = [[project |-> p, type |-> d, box |-> b] EXCEPT !.box = x]
      BY <1>2, <1>4, <2>3, <3>1, <3>2 DEF BasicInv
    <3>4. at'[r] = [project |-> p, type |-> d, box |-> x]
      BY <3>3
    <3>5. at'[r] = [project |-> at[r].project, type |-> at[r].type, box |-> x]
      BY <3>1, <3>4
    <3>6. at'[r].box = TransformBox(at[r].project, query[r].box)
      BY <3>2, <3>4
    <3> QED  BY <1>1, <2>1, <3>5, <3>6
  <2> QED  BY <2>2, <2>3
<1> QED  BY <1>3, <1>4 DEF TransformQuery

LEMMA NextTypeEffect ==
  ASSUME BasicInv, NEW r \in Readers, NextType(r)
  PROVE  /\ pc[r] = "type"
         /\ \/ types[r] = {} /\ pc'[r] = "project" /\ types'[r] = types[r] /\ at'[r] = at[r]
            \/ /\ pc'[r] = "waiting"
               /\ \E d \in types[r] :
                    /\ types'[r] = types[r] \ {d}
                    /\ at'[r] = [project |-> at[r].project, type |-> d, box |-> at[r].box]
         /\ query'[r] = query[r] /\ todo'[r] = todo[r] /\ parts'[r] = parts[r]
         /\ answer'[r] = answer[r] /\ before'[r] = before[r]
         /\ UNCHANGED <<tf, indexVars, uploadVars>>
<1> USE DEF FailureInv, ReaderType, ReadersApart, Goto
<1>1. /\ pc[r] = "type" /\ UNCHANGED <<tf, indexVars, uploadVars>>
      /\ query'[r] = query[r] /\ todo'[r] = todo[r] /\ parts'[r] = parts[r]
      /\ answer'[r] = answer[r] /\ before'[r] = before[r]
  BY DEF NextType, BasicInv
<1>2. CASE types[r] = {} /\ Goto(r, "project") /\ UNCHANGED <<types, at>>
  BY <1>1, <1>2 DEF BasicInv
<1>3. ASSUME NEW d \in types[r], types' = [types EXCEPT ![r] = @ \ {d}],
             at' = [at EXCEPT ![r].type = d], Goto(r, "waiting")
      PROVE  /\ pc'[r] = "waiting" /\ types'[r] = types[r] \ {d}
             /\ at'[r] = [project |-> at[r].project, type |-> d, box |-> at[r].box]
  <2>1. at[r] = [project |-> at[r].project, type |-> at[r].type, box |-> at[r].box]
    BY <1>1 DEF BasicInv, HasType, Active
  <2>2. PICK p, e, b : p = at[r].project /\ e = at[r].type /\ b = at[r].box
    OBVIOUS
  <2>3. at'[r] = [[project |-> p, type |-> e, box |-> b] EXCEPT !.type = d]
    BY <1>3, <2>1, <2>2 DEF BasicInv
  <2>4. at'[r] = [project |-> p, type |-> d, box |-> b]
    BY <2>3
  <2> QED  BY <1>3, <2>2, <2>4 DEF BasicInv
<1> QED  BY <1>1, <1>2, <1>3 DEF NextType

LEMMA WaitingEffect ==
  ASSUME FailureInv, ReadersApart, NEW r \in Readers, TryAddingDataWithMissingTF(r)
  PROVE  /\ pc[r] = "waiting" /\ pc'[r] = "spatial" /\ parts'[r] = <<>>
         /\ query'[r] = query[r] /\ todo'[r] = todo[r] /\ types'[r] = types[r]
         /\ at'[r] = at[r] /\ answer'[r] = answer[r] /\ before'[r] = before[r]
         /\ UNCHANGED <<tf, timetree, labelDatasets, instVars, datasetInstances, uploadVars>>
BY DEF TryAddingDataWithMissingTF, Goto, FailureInv, ReaderType, ReadersApart

LEMMA IntersectEffect ==
  ASSUME FailureInv, ReadersApart, NEW r \in Readers, Intersect(r)
  PROVE  /\ pc[r] = "intersect" /\ pc'[r] = "intersect" /\ Len(parts[r]) > 1
         /\ parts'[r] = Append(SubSeq(parts[r], 1, Len(parts[r]) - 2),
                               parts[r][Len(parts[r]) - 1] \cap parts[r][Len(parts[r])])
         /\ query'[r] = query[r] /\ todo'[r] = todo[r] /\ types'[r] = types[r]
         /\ at'[r] = at[r] /\ answer'[r] = answer[r] /\ before'[r] = before[r]
         /\ UNCHANGED <<tf, indexVars, uploadVars>>
BY DEF Intersect, FailureInv, ReaderType, ReadersApart

LEMMA CollectEffect ==
  ASSUME FailureInv, ReadersApart, NEW r \in Readers, Collect(r),
         NEW ids, ids = (IF parts[r] = <<>> THEN {} ELSE parts[r][1]),
         NEW found, found = (IF query[r].kind = "data" THEN ids ELSE InstancesOf(r, ids))
  PROVE  /\ pc[r] = "intersect" /\ pc'[r] = "type" /\ Len(parts[r]) <= 1
         /\ answer'[r] = answer[r] \cup {<<at[r].project, u>> : u \in found}
         /\ query'[r] = query[r] /\ todo'[r] = todo[r] /\ types'[r] = types[r]
         /\ at'[r] = at[r] /\ parts'[r] = parts[r] /\ before'[r] = before[r]
         /\ UNCHANGED <<tf, indexVars, uploadVars>>
BY DEF Collect, Goto, FailureInv, ReaderType, ReadersApart

\* The last two parts become one: each old part contains a new one, and what was in
\* every old part is in every new one.
LEMMA LastTwoBecomeOne ==
  ASSUME NEW T, NEW s \in Seq(T), NEW n \in Nat, n = Len(s), n > 1,
         NEW x \in T, NEW t, t = SubSeq(s, 1, n - 2), NEW v, v = Append(t, x)
  PROVE  /\ v \in Seq(T) /\ v # <<>> /\ DOMAIN s = 1 .. n /\ DOMAIN v = 1 .. (n - 1)
         /\ v[n - 1] = x /\ \A i \in 1 .. (n - 2) : v[i] = s[i]
<1>1. n - 2 \in 0 .. Len(s) /\ n - 2 \in Nat
  OBVIOUS
<1>2. \A i \in 1 .. (n - 2) : s[i] \in T
  OBVIOUS
<1>3. t \in Seq(T) /\ Len(t) = n - 2 /\ \A i \in 1 .. (n - 2) : t[i] = s[i]
  BY <1>1, <1>2, SubSeqProperties
<1>4. /\ v \in Seq(T) /\ Len(v) = (n - 2) + 1 /\ v[(n - 2) + 1] = x
      /\ \A i \in 1 .. (n - 2) : v[i] = t[i]
  BY <1>3
<1>5. DOMAIN v = 1 .. Len(v) /\ DOMAIN s = 1 .. n
  BY <1>4
<1>6. Len(v) = n - 1
  BY <1>4
<1>7. \A i \in 1 .. (n - 2) : v[i] = s[i]
  BY <1>3, <1>4
<1>8. v[n - 1] = x
  BY <1>4
<1>9. v # <<>>
  BY <1>6
<1> QED  BY <1>4, <1>5, <1>6, <1>7, <1>8, <1>9

LEMMA PartsAfterIntersect ==
  ASSUME BasicInv, NEW r \in Readers, Intersect(r)
  PROVE  /\ parts'[r] \in Seq(SUBSET Uuids) /\ parts'[r] # <<>>
         /\ \A i \in DOMAIN parts[r] :
              \E j \in DOMAIN parts'[r] : parts'[r][j] \subseteq parts[r][i]
         /\ \A u : (\A i \in DOMAIN parts[r] : u \in parts[r][i]) =>
                     \A j \in DOMAIN parts'[r] : u \in parts'[r][j]
<1>1. PICK s \in Seq(SUBSET Uuids) : s = parts[r]
  BY DEF BasicInv, HasType
<1>2. PICK n \in Nat : n = Len(s)
  OBVIOUS
<1>3. n > 1 /\ parts'[r] = Append(SubSeq(s, 1, n - 2), s[n - 1] \cap s[n])
  BY <1>1, <1>2, IntersectEffect DEF BasicInv
<1>4. PICK x \in SUBSET Uuids : x = s[n - 1] \cap s[n]
  <2>1. s[n - 1] \in SUBSET Uuids /\ s[n] \in SUBSET Uuids
    BY <1>2, <1>3
  <2> QED  BY <2>1
<1>5. PICK v : v = Append(SubSeq(s, 1, n - 2), x)
  OBVIOUS
<1>6. /\ v \in Seq(SUBSET Uuids) /\ v # <<>> /\ DOMAIN s = 1 .. n /\ DOMAIN v = 1 .. (n - 1)
      /\ v[n - 1] = x /\ \A i \in 1 .. (n - 2) : v[i] = s[i]
  BY <1>2, <1>3, <1>5, LastTwoBecomeOne
<1>7. parts'[r] = v
  BY <1>3, <1>4, <1>5
<1>8. ASSUME NEW i \in DOMAIN s
      PROVE  \E j \in DOMAIN v : v[j] \subseteq s[i]
  <2>1. i \in 1 .. (n - 2) \/ i = n - 1 \/ i = n
    BY <1>6
  <2>2. CASE i \in 1 .. (n - 2)
    <3>1. i \in DOMAIN v /\ v[i] = s[i]
      BY <1>6, <2>2
    <3> QED  BY <3>1
  <2>3. CASE i = n - 1 \/ i = n
    <3>1. n - 1 \in DOMAIN v
      BY <1>3, <1>6
    <3> QED  BY <1>4, <1>6, <2>3, <3>1
  <2> QED  BY <2>1, <2>2, <2>3
<1>9. ASSUME NEW u, \A i \in DOMAIN s : u \in s[i], NEW j \in DOMAIN v
      PROVE  u \in v[j]
  <2>1. n - 1 \in DOMAIN s /\ n \in DOMAIN s
    BY <1>3, <1>6
  <2>2. j \in 1 .. (n - 2) \/ j = n - 1
    BY <1>6
  <2>3. CASE j \in 1 .. (n - 2)
    <3>1. j \in DOMAIN s /\ v[j] = s[j]
      BY <1>6, <2>3
    <3> QED  BY <1>9, <3>1
  <2>4. CASE j = n - 1
    <3>1. u \in s[n - 1] /\ u \in s[n]
      BY <1>9, <2>1
    <3> QED  BY <1>4, <1>6, <2>4, <3>1
  <2> QED  BY <2>2, <2>3, <2>4
<1> QED  BY <1>1, <1>6, <1>7, <1>8, <1>9

\* A query's own step keeps what every query has in hand.
LEMMA OwnStepBasic ==
  ASSUME BasicInv, IndexGrows, NEW r \in Readers, ReadStep(r)
  PROVE  HasType(r)' /\ Remembers(r)' /\ BoxMoved(r)'
<1>1. FailureInv /\ ReadersApart /\ HasType(r) /\ Remembers(r) /\ BoxMoved(r)
  BY DEF BasicInv
<1>2. ASSUME pc[r] # "idle", before'[r] = before[r]
      PROVE  Remembers(r)'
  BY <1>1, <1>2 DEF Remembers, IndexGrows
<1>3. ASSUME NEW q \in Queries, Receive(r, q)
      PROVE  HasType(r)' /\ Remembers(r)' /\ BoxMoved(r)'
  <2>1. /\ pc'[r] = "project" /\ query'[r] = q /\ parts'[r] = parts[r]
        /\ before'[r] = [stored |-> stored, tf |-> tf, shown |-> instDatasets]
        /\ UNCHANGED <<tf, indexVars, uploadVars>>
    BY <1>1, <1>3, ReceiveEffect
  <2>2. HasType(r)'
    BY <1>1, <2>1 DEF HasType, Transformed, Typed, Active
  <2>3. Remembers(r)'
    BY <2>1 DEF Remembers, indexVars, instVars, uploadVars
  <2>4. BoxMoved(r)'
    BY <2>1 DEF BoxMoved, Transformed
  <2> QED  BY <2>2, <2>3, <2>4
<1>4. CASE NextProject(r)
  <2>1. /\ pc[r] = "project" /\ query'[r] = query[r] /\ before'[r] = before[r]
        /\ parts'[r] = parts[r]
        /\ \/ pc'[r] \in {"answered", "failed"}
           \/ /\ pc'[r] = "transform"
              /\ at'[r] = [project |-> Head(todo[r]), type |-> Unknown, box |-> None]
    BY <1>1, <1>4, NextProjectEffect
  <2>2. HasType(r)'
    <3>1. pc'[r] \notin Transformed /\ pc'[r] \notin Typed
      BY <2>1 DEF Transformed, Typed
    <3>2. pc'[r] \in Active \ {"project"} =>
            at'[r] = [project |-> at'[r].project, type |-> at'[r].type, box |-> at'[r].box]
      BY <2>1 DEF Active
    <3>3. parts'[r] \in Seq(SUBSET Uuids) /\ query'[r] \in Queries
      BY <1>1, <2>1 DEF HasType
    <3> QED  BY <3>1, <3>2, <3>3 DEF HasType, Transformed, Typed, Active
  <2>3. BoxMoved(r)'
    BY <2>1 DEF BoxMoved, Transformed
  <2> QED  BY <1>2, <2>1, <2>2, <2>3
<1>5. CASE TransformQuery(r)
  <2>1. /\ pc[r] = "transform" /\ query'[r] = query[r] /\ before'[r] = before[r]
        /\ parts'[r] = parts[r]
        /\ \/ /\ pc'[r] = "type" /\ types'[r] = TypesOf(query[r])
              /\ \E x : at'[r] = [project |-> at[r].project, type |-> at[r].type, box |-> x]
              /\ query[r].box # None => at'[r].box = TransformBox(at[r].project, query[r].box)
           \/ pc'[r] = "failed"
    BY <1>5, TransformQueryEffect
  <2>2. parts'[r] \in Seq(SUBSET Uuids) /\ query'[r] \in Queries
    BY <1>1, <2>1 DEF HasType
  <2>3. CASE pc'[r] = "failed"
    BY <1>2, <2>1, <2>2, <2>3
       DEF HasType, BoxMoved, Transformed, Typed, Active
  <2>4. CASE pc'[r] # "failed"
    <3>1. PICK x : at'[r] = [project |-> at[r].project, type |-> at[r].type, box |-> x]
      BY <2>1, <2>4
    <3>2. /\ at'[r].project = at[r].project
          /\ at'[r] = [project |-> at'[r].project, type |-> at'[r].type, box |-> at'[r].box]
      BY <3>1
    <3>3. pc'[r] = "type" /\ types'[r] = TypesOf(query[r])
      BY <2>1, <2>4
    <3>4. types'[r] \subseteq TypesOf(query'[r])
      BY <2>1, <3>3
    <3>5. HasType(r)'
      BY <2>2, <3>2, <3>3, <3>4
         DEF HasType, Transformed, Typed, Active, TypesOf
    <3>6. query[r].box # None => at'[r].box = TransformBox(at'[r].project, query'[r].box)
      BY <2>1, <2>4, <3>2
    <3>7. BoxMoved(r)'
      BY <2>1, <3>6 DEF BoxMoved
    <3> QED  BY <1>2, <2>1, <3>5, <3>7
  <2> QED  BY <2>3, <2>4
<1>6. CASE NextType(r)
  <2>1. /\ pc[r] = "type" /\ query'[r] = query[r] /\ before'[r] = before[r]
        /\ parts'[r] = parts[r]
        /\ \/ pc'[r] = "project"
           \/ /\ pc'[r] = "waiting"
              /\ \E d \in types[r] :
                   /\ types'[r] = types[r] \ {d}
                   /\ at'[r] = [project |-> at[r].project, type |-> d, box |-> at[r].box]
    BY <1>6, NextTypeEffect
  <2>2. parts'[r] \in Seq(SUBSET Uuids) /\ query'[r] \in Queries
    BY <1>1, <2>1 DEF HasType
  <2>3. CASE pc'[r] = "project"
    BY <1>2, <2>1, <2>2, <2>3
       DEF HasType, BoxMoved, Transformed, Typed, Active
  <2>4. CASE pc'[r] = "waiting"
    <3>1. PICK d \in types[r] :
            /\ types'[r] = types[r] \ {d}
            /\ at'[r] = [project |-> at[r].project, type |-> d, box |-> at[r].box]
      BY <2>1, <2>4
    <3>2. /\ at'[r].project = at[r].project /\ at'[r].type = d /\ at'[r].box = at[r].box
          /\ at'[r] = [project |-> at'[r].project, type |-> at'[r].type, box |-> at'[r].box]
      BY <3>1
    <3>3. types[r] \subseteq TypesOf(query[r])
      BY <1>1, <2>1 DEF HasType, Transformed
    <3>4. types'[r] \subseteq TypesOf(query'[r]) /\ at'[r].type \in TypesOf(query'[r])
      BY <2>1, <3>1, <3>2, <3>3
    <3>5. HasType(r)'
      BY <2>2, <2>4, <3>2, <3>4
         DEF HasType, Transformed, Typed, Active, TypesOf
    <3>6. BoxMoved(r)'
      BY <1>1, <2>1, <3>2 DEF BoxMoved, Transformed
    <3> QED  BY <1>2, <2>1, <3>5, <3>6
  <2> QED  BY <2>1, <2>3, <2>4
<1>7. ASSUME pc[r] \in Typed, pc'[r] \in Transformed, parts'[r] \in Seq(SUBSET Uuids),
             query'[r] = query[r], types'[r] = types[r], at'[r] = at[r], before'[r] = before[r]
      PROVE  HasType(r)' /\ Remembers(r)' /\ BoxMoved(r)'
  <2>1. pc[r] \in Transformed /\ pc[r] \in Active \ {"project"} /\ pc[r] # "idle"
    BY <1>7 DEF Typed, Transformed, Active
  <2>2. /\ query[r] \in Queries /\ types[r] \subseteq TypesOf(query[r])
        /\ at[r].type \in TypesOf(query[r])
        /\ at[r] = [project |-> at[r].project, type |-> at[r].type, box |-> at[r].box]
    BY <1>1, <1>7, <2>1 DEF HasType
  <2>3. HasType(r)'
    BY <1>7, <2>2 DEF HasType, TypesOf
  <2>4. BoxMoved(r)'
    BY <1>1, <1>7, <2>1 DEF BoxMoved
  <2> QED  BY <1>2, <1>7, <2>1, <2>3, <2>4
<1>8. CASE TryAddingDataWithMissingTF(r)
  <2>1. <<>> \in Seq(SUBSET Uuids)
    OBVIOUS
  <2> QED  BY <1>1, <1>7, <1>8, <2>1, WaitingEffect DEF Typed, Transformed
<1>9. CASE Filters(r)
  <2>1. PICK from, to, ids : \E set \in BOOLEAN :
          FilterStep(r, from, set, ids, to) /\ Filter(r, from, set, ids, to)
    BY <1>9, FilterSteps
  <2>2. PICK set \in BOOLEAN :
          FilterStep(r, from, set, ids, to) /\ Filter(r, from, set, ids, to)
    BY <2>1
  <2>3. from \in Typed /\ to \in Transformed
    BY <2>2 DEF FilterStep, Typed, Transformed
  <2>4. parts'[r] \in Seq(SUBSET Uuids)
    BY <2>2, PartsAfterFilter
  <2> QED  BY <1>1, <1>7, <2>2, <2>3, <2>4, FilterEffect
<1>10. CASE Intersect(r)
  BY <1>1, <1>7, <1>10, IntersectEffect, PartsAfterIntersect DEF Typed, Transformed
<1>11. CASE Collect(r)
  <2>1. parts[r] \in Seq(SUBSET Uuids)
    BY <1>1 DEF HasType
  <2> QED  BY <1>1, <1>7, <1>11, <2>1, CollectEffect DEF Typed, Transformed
<1> QED
  BY <1>3, <1>4, <1>5, <1>6, <1>8, <1>9, <1>10, <1>11 DEF ReadStep, Filters

LEMMA BasicInvHolds == Spec => []BasicInv
<1>1. Init => ReadersApart /\ \A r \in Readers : HasType(r) /\ Remembers(r) /\ BoxMoved(r)
  <2>1. <<>> \in Seq(SUBSET Uuids)
    OBVIOUS
  <2> QED
    BY <2>1 DEF Init, ReadersApart, HasType, Remembers, BoxMoved, Typed, Transformed, Active
<1>2. BasicInv /\ SoundInv' /\ FailureInv' /\ [Next]_vars => BasicInv'
  <2> SUFFICES ASSUME BasicInv, SoundInv', FailureInv', [Next]_vars
               PROVE  /\ ReadersApart'
                      /\ \A s \in Readers : HasType(s)' /\ Remembers(s)' /\ BoxMoved(s)'
    BY DEF BasicInv
  <2>1. IndexGrows
    BY EveryStepGrows DEF BasicInv
  <2>2. CASE \E r \in Readers : ReadStep(r)
    <3>1. PICK r \in Readers : ReadStep(r)
      BY <2>2
    <3>2. ReadersApart' /\ \A s \in Readers \ {r} : Same(s)
      BY <3>1, OthersSame DEF BasicInv
    <3>3. HasType(r)' /\ Remembers(r)' /\ BoxMoved(r)'
      BY <2>1, <3>1, OwnStepBasic
    <3>4. ASSUME NEW s \in Readers \ {r}
          PROVE  HasType(s)' /\ Remembers(s)' /\ BoxMoved(s)'
      BY <2>1, <3>2, BasicStays DEF BasicInv
    <3> QED  BY <3>2, <3>3, <3>4
  <2>3. CASE ~ \E r \in Readers : ReadStep(r)
    <3>1. UNCHANGED readVars
      BY <2>3, OutsideSame
    <3>2. ReadersApart' /\ \A s \in Readers : Same(s)
      BY <3>1 DEF readVars, BasicInv, ReadersApart, Same
    <3>3. ASSUME NEW s \in Readers
          PROVE  HasType(s)' /\ Remembers(s)' /\ BoxMoved(s)'
      BY <2>1, <3>2, BasicStays DEF BasicInv
    <3> QED  BY <3>2, <3>3
  <2> QED  BY <2>2, <2>3
<1> QED  BY <1>1, <1>2, SoundInvHolds, FailureInvHolds, PTL DEF Spec, BasicInv

-----------------------------------------------------------------------------
(* What an answer holds passes the filters.                                 *)

\* The uuids, of the datatype and the project a query is at, that pass a filter.
InSpaceIds(r) == {m.uuid : m \in {n \in begun : Here(r, n) /\ InSpace(query[r], n)}}
InTimeIds(r) == {m.uuid : m \in {n \in begun : Here(r, n) /\ InTime(query[r], n)}}
HasLabelIds(r) == {m.uuid : m \in {n \in begun : Here(r, n) /\ HasLabel(query[r], n)}}
ShowsInstanceIds(r) == {m.uuid : m \in {n \in begun : Here(r, n) /\ ShowsInstance(query[r], n)}}
SentIds(r) == {m.uuid : m \in {n \in begun : Here(r, n)}}

\* Some part holds only these.
Within(r, ids) == \E i \in DOMAIN parts[r] : parts[r][i] \subseteq ids

\* Each filter that a query sets and has been through has left a part that holds
\* only what passes it; and only a list of uuids puts what nobody has sent in a part.
PartsSound(r) ==
  /\ pc[r] \in PastSpace /\ query[r].box # None => Within(r, InSpaceIds(r))
  /\ pc[r] \in PastTime /\ query[r].time # None => Within(r, InTimeIds(r))
  /\ pc[r] \in PastLabel /\ query[r].label # None => Within(r, HasLabelIds(r))
  /\ pc[r] \in PastInstances /\ query[r].instances # None =>
       Within(r, ShowsInstanceIds(r)) \/ NothingShown(r, at[r].project, at[r].type)
  /\ pc[r] = "intersect" /\ query[r].dataUuids # None => Within(r, query[r].dataUuids)
  /\ pc[r] \in Filtering /\ parts[r] # <<>> =>
       \/ query[r].box # None \/ query[r].time # None \/ query[r].label # None
       \/ query[r].dataUuids # None
       \/ Within(r, SentIds(r))

AnswerSound(r) ==
  \A a \in answer[r] :
    /\ a[1] \in Searched(query[r])
    /\ \E d \in TypesOf(query[r]) :
         \/ query[r].kind = "data" /\ Matches(r, a[1], d, a[2])
         \/ /\ query[r].kind = "instances"
            /\ \E m \in begun : /\ m \in Sent(a[1], d, m.uuid) /\ a[2] \in InstancesIn(m)
                                /\ Matches(r, a[1], d, m.uuid)

MatchInv ==
  BasicInv /\ \A r \in Readers : PartsSound(r) /\ AnswerSound(r)

\* More datasets pass as more are sent.
LEMMA IdsGrow ==
  ASSUME begun \subseteq begun', NEW r \in Readers, query'[r] = query[r], at'[r] = at[r]
  PROVE  /\ InSpaceIds(r) \subseteq InSpaceIds(r)' /\ InTimeIds(r) \subseteq InTimeIds(r)'
         /\ HasLabelIds(r) \subseteq HasLabelIds(r)'
         /\ ShowsInstanceIds(r) \subseteq ShowsInstanceIds(r)' /\ SentIds(r) \subseteq SentIds(r)'
<1>1. InSpaceIds(r) \subseteq InSpaceIds(r)'
  BY DEF InSpaceIds, Here
<1>2. InTimeIds(r) \subseteq InTimeIds(r)'
  BY DEF InTimeIds, Here
<1>3. HasLabelIds(r) \subseteq HasLabelIds(r)'
  BY DEF HasLabelIds, Here
<1>4. ShowsInstanceIds(r) \subseteq ShowsInstanceIds(r)'
  BY DEF ShowsInstanceIds, Here
<1>5. SentIds(r) \subseteq SentIds(r)'
  BY DEF SentIds, Here
<1> QED  BY <1>1, <1>2, <1>3, <1>4, <1>5

\* Parts that shrink stay within what they were within.
LEMMA PartsStayWithin ==
  ASSUME NEW r \in Readers, NEW ids, NEW more, Within(r, ids), ids \subseteq more,
         \A i \in DOMAIN parts[r] : \E j \in DOMAIN parts'[r] : parts'[r][j] \subseteq parts[r][i]
  PROVE  \E j \in DOMAIN parts'[r] : parts'[r][j] \subseteq more
<1>1. PICK i \in DOMAIN parts[r] : parts[r][i] \subseteq ids
  BY DEF Within
<1>2. PICK j \in DOMAIN parts'[r] : parts'[r][j] \subseteq parts[r][i]
  BY <1>1
<1> QED  BY <1>1, <1>2

\* A step that goes through no filter, at the same place, with no part less narrow.
LEMMA PartsStaySound ==
  ASSUME begun \subseteq begun', NEW r \in Readers, PartsSound(r), pc'[r] = pc[r],
         query'[r] = query[r], at'[r] = at[r], before'[r] = before[r],
         \A i \in DOMAIN parts[r] : \E j \in DOMAIN parts'[r] : parts'[r][j] \subseteq parts[r][i],
         parts[r] = <<>> => parts'[r] = <<>>
  PROVE  PartsSound(r)'
<1>1. pc'[r] \in PastSpace /\ query'[r].box # None => Within(r, InSpaceIds(r))'
  BY IdsGrow, PartsStayWithin DEF PartsSound, Within, PastSpace
<1>2. pc'[r] \in PastTime /\ query'[r].time # None => Within(r, InTimeIds(r))'
  BY IdsGrow, PartsStayWithin DEF PartsSound, Within, PastTime
<1>3. pc'[r] \in PastLabel /\ query'[r].label # None => Within(r, HasLabelIds(r))'
  BY IdsGrow, PartsStayWithin DEF PartsSound, Within, PastLabel
<1>4. pc'[r] \in PastInstances /\ query'[r].instances # None =>
        Within(r, ShowsInstanceIds(r))' \/ NothingShown(r, at[r].project, at[r].type)'
  BY IdsGrow, PartsStayWithin DEF PartsSound, Within, PastInstances, NothingShown
<1>5. pc'[r] = "intersect" /\ query'[r].dataUuids # None => Within(r, query[r].dataUuids)'
  BY PartsStayWithin DEF PartsSound, Within
<1>6. pc'[r] \in Filtering /\ parts'[r] # <<>> =>
        \/ query[r].box # None \/ query[r].time # None \/ query[r].label # None
        \/ query[r].dataUuids # None
        \/ Within(r, SentIds(r))'
  BY IdsGrow, PartsStayWithin DEF PartsSound, Within, Filtering
<1> QED  BY <1>1, <1>2, <1>3, <1>4, <1>5, <1>6 DEF PartsSound

\* Nothing is claimed of the parts where no filter has been.
LEMMA NoPartsYet ==
  ASSUME NEW r \in Readers, pc'[r] \notin PastSpace, pc'[r] \notin Filtering \/ parts'[r] = <<>>
  PROVE  PartsSound(r)'
BY DEF PartsSound, PastSpace, PastTime, PastLabel, PastInstances

\* What each filter finds in the index passes it.
LEMMA FiltersFindWhatPasses ==
  ASSUME BasicInv, NEW r \in Readers
  PROVE  /\ pc[r] = "spatial" /\ query[r].box # None => SpaceIds(r) \subseteq InSpaceIds(r)
         /\ query[r].time # None => TimeIds(r) \subseteq InTimeIds(r)
         /\ query[r].label # None => LabelIds(r) \subseteq HasLabelIds(r)
         /\ query[r].instances # None => ShowingInstances(r) \subseteq ShowsInstanceIds(r)
         /\ AllDatasetUuids(r) \subseteq SentIds(r)
         /\ ShowsInstanceIds(r) \subseteq SentIds(r)
<1>1. SoundInv /\ IndexSound /\ begun \subseteq Uploads
  BY DEF BasicInv, SoundInv, InstanceInv, WriterType
<1>2. ASSUME pc[r] = "spatial", query[r].box # None, NEW e \in rt, Here(r, e),
             Intersects(at[r].box, e)
      PROVE  e.uuid \in InSpaceIds(r)
  <2>1. PICK m \in begun : e = RtEntry(m)
    BY <1>1 DEF IndexSound
  <2>2. PICK p, a : p = m.project /\ a = TransformBox(p, m.box)
    OBVIOUS
  <2>3. e = [project |-> p, type |-> m.type, uuid |-> m.uuid, lo |-> a.lo, hi |-> a.hi]
    BY <2>1, <2>2 DEF RtEntry
  <2>4. e.project = p /\ e.type = m.type /\ e.uuid = m.uuid /\ e.lo = a.lo /\ e.hi = a.hi
    BY <2>3
  <2>5. p = at[r].project /\ Here(r, m)
    BY <1>2, <2>2, <2>4 DEF Here
  <2>6. at[r].box = TransformBox(p, query[r].box)
    BY <1>2, <2>5 DEF BasicInv, BoxMoved, Transformed
  <2>7. Intersects(TransformBox(p, query[r].box), TransformBox(p, m.box))
    BY <1>2, <2>2, <2>4, <2>6 DEF Intersects
  <2>8. query[r] \in Queries
    BY <1>2 DEF BasicInv, HasType
  <2>9. IsBox(query[r].box) /\ IsBox(m.box) /\ p \in Projects
    BY <1>1, <1>2, <2>2, <2>8, ConstantsAssumption DEF Queries, FromFb, FromPb
  <2>10. InSpace(query[r], m)
    BY <2>2, <2>7, <2>9, IntersectsMeans DEF InSpace
  <2> QED  BY <2>4, <2>5, <2>10 DEF InSpaceIds
<1>3. ASSUME query[r].time # None
      PROVE  TimeIds(r) \subseteq InTimeIds(r)
  <2>1. ASSUME NEW e \in timetree, Here(r, e), query[r].time.min <= e.time,
               e.time <= query[r].time.max
        PROVE  e.uuid \in InTimeIds(r)
    <3>1. PICK m \in begun : e = TimeEntry(m)
      BY <1>1 DEF IndexSound
    <3>2. e.project = m.project /\ e.type = m.type /\ e.uuid = m.uuid /\ e.time = m.time
      BY <3>1 DEF TimeEntry
    <3>3. Here(r, m) /\ InTime(query[r], m)
      BY <2>1, <3>2 DEF Here, InTime
    <3> QED  BY <3>2, <3>3 DEF InTimeIds
  <2> QED  BY <2>1 DEF TimeIds
<1>4. ASSUME query[r].label # None
      PROVE  LabelIds(r) \subseteq HasLabelIds(r)
  <2>1. ASSUME NEW e \in labelDatasets, e[1] = at[r].project, e[2] = at[r].type,
               e[3] \in query[r].label
        PROVE  e[4] \in HasLabelIds(r)
    <3>1. PICK m \in begun : \E k \in DOMAIN m.labels : e = LabelEntry(m, k)
      BY <1>1 DEF IndexSound
    <3>2. PICK k \in DOMAIN m.labels : e = LabelEntry(m, k)
      BY <3>1
    <3>3. e[1] = m.project /\ e[2] = m.type /\ e[3] = m.labels[k].label /\ e[4] = m.uuid
      BY <3>2 DEF LabelEntry
    <3>4. Here(r, m) /\ HasLabel(query[r], m)
      BY <2>1, <3>3 DEF Here, HasLabel
    <3> QED  BY <3>3, <3>4 DEF HasLabelIds
  <2> QED  BY <2>1 DEF LabelIds
<1>5. ASSUME query[r].instances # None
      PROVE  ShowingInstances(r) \subseteq ShowsInstanceIds(r)
  <2>1. ASSUME NEW e \in instDatasets, e[1] = at[r].project, e[3] = at[r].type,
               e[2] \in query[r].instances
        PROVE  e[4] \in ShowsInstanceIds(r)
    <3>1. PICK m \in begun : /\ m.project = e[1] /\ m.type = e[3] /\ m.uuid = e[4]
                             /\ \E k \in DOMAIN m.labels : m.labels[k].inst = e[2]
      BY <1>1 DEF SoundInv, InstanceInv, InstanceLabelAgrees
    <3>2. e[2] \in InstancesIn(m)
      BY <1>1, <3>1 DEF SoundInv, InstancesSound, InstancesIn
    <3>3. Here(r, m) /\ ShowsInstance(query[r], m)
      BY <2>1, <3>1, <3>2 DEF Here, ShowsInstance
    <3> QED  BY <3>1, <3>3 DEF ShowsInstanceIds
  <2> QED  BY <2>1 DEF ShowingInstances
<1>6. AllDatasetUuids(r) \subseteq SentIds(r)
  <2>1. ASSUME NEW e \in timetree, Here(r, e)
        PROVE  e.uuid \in SentIds(r)
    <3>1. PICK m \in begun : e = TimeEntry(m)
      BY <1>1 DEF IndexSound
    <3>2. e.project = m.project /\ e.type = m.type /\ e.uuid = m.uuid
      BY <3>1 DEF TimeEntry
    <3>3. Here(r, m)
      BY <2>1, <3>2 DEF Here
    <3> QED  BY <3>2, <3>3 DEF SentIds
  <2> QED  BY <2>1 DEF AllDatasetUuids
<1>7. pc[r] = "spatial" /\ query[r].box # None => SpaceIds(r) \subseteq InSpaceIds(r)
  BY <1>2 DEF SpaceIds
<1>8. ShowsInstanceIds(r) \subseteq SentIds(r)
  BY DEF ShowsInstanceIds, SentIds
<1> QED  BY <1>3, <1>4, <1>5, <1>6, <1>7, <1>8

\* So each filter leaves a part that holds only what passes it.
LEMMA FilterKeepsPartsSound ==
  ASSUME BasicInv, IndexGrows, NEW r \in Readers, PartsSound(r),
         NEW from, NEW set \in BOOLEAN, NEW ids, NEW to,
         FilterStep(r, from, set, ids, to), Filter(r, from, set, ids, to)
  PROVE  PartsSound(r)'
<1>1. /\ pc[r] = from /\ pc'[r] = to /\ query'[r] = query[r] /\ at'[r] = at[r]
      /\ before'[r] = before[r]
  BY FilterEffect DEF BasicInv
<1>2. begun \subseteq begun'
  BY DEF IndexGrows
<1>3. /\ parts[r] \in Seq(SUBSET Uuids) /\ parts'[r] \in Seq(SUBSET Uuids)
      /\ ~set => parts'[r] = parts[r]
      /\ \A i \in DOMAIN parts[r] : i \in DOMAIN parts'[r] /\ parts'[r][i] = parts[r][i]
      /\ set => /\ Len(parts'[r]) \in DOMAIN parts'[r] /\ parts'[r] # <<>>
                /\ parts'[r][Len(parts'[r])] = ids
      /\ \A i \in DOMAIN parts'[r] : i \in DOMAIN parts[r] \/ (set /\ parts'[r][i] = ids)
  BY PartsAfterFilter, Zenon
<1>4. ASSUME NEW x, NEW y, Within(r, x), x \subseteq y
      PROVE  \E j \in DOMAIN parts'[r] : parts'[r][j] \subseteq y
  <2>1. PICK i \in DOMAIN parts[r] : parts[r][i] \subseteq x
    BY <1>4 DEF Within
  <2>2. i \in DOMAIN parts'[r] /\ parts'[r][i] = parts[r][i]
    BY <1>3, <2>1, Zenon
  <2> QED  BY <1>4, <2>1, <2>2
<1>5. ASSUME NEW y, set, ids \subseteq y
      PROVE  \E j \in DOMAIN parts'[r] : parts'[r][j] \subseteq y
  <2>1. Len(parts'[r]) \in DOMAIN parts'[r] /\ parts'[r][Len(parts'[r])] = ids
    BY <1>3, <1>5, Zenon
  <2> QED  BY <1>5, <2>1
<1>6. ASSUME to \in PastSpace, query[r].box # None
      PROVE  Within(r, InSpaceIds(r))'
  <2>1. CASE from = "spatial"
    <3>1. set /\ ids \subseteq InSpaceIds(r)
      BY <1>1, <1>6, <2>1, FiltersFindWhatPasses DEF FilterStep
    <3>2. ids \subseteq InSpaceIds(r)'
      BY <1>1, <1>2, <3>1, IdsGrow
    <3> QED  BY <1>5, <3>1, <3>2 DEF Within
  <2>2. CASE from # "spatial"
    <3>1. Within(r, InSpaceIds(r))
      BY <1>1, <1>6, <2>2 DEF FilterStep, PartsSound, PastSpace
    <3> QED  BY <1>1, <1>2, <1>4, <3>1, IdsGrow DEF Within
  <2> QED  BY <2>1, <2>2
<1>7. ASSUME to \in PastTime, query[r].time # None
      PROVE  Within(r, InTimeIds(r))'
  <2>1. CASE from = "temporal"
    <3>1. set /\ ids \subseteq InTimeIds(r)
      BY <1>7, <2>1, FiltersFindWhatPasses DEF FilterStep
    <3>2. ids \subseteq InTimeIds(r)'
      BY <1>1, <1>2, <3>1, IdsGrow
    <3> QED  BY <1>5, <3>1, <3>2 DEF Within
  <2>2. CASE from # "temporal"
    <3>1. Within(r, InTimeIds(r))
      BY <1>1, <1>7, <2>2 DEF FilterStep, PartsSound, PastTime
    <3> QED  BY <1>1, <1>2, <1>4, <3>1, IdsGrow DEF Within
  <2> QED  BY <2>1, <2>2
<1>8. ASSUME to \in PastLabel, query[r].label # None
      PROVE  Within(r, HasLabelIds(r))'
  <2>1. CASE from = "semantic"
    <3>1. set /\ ids \subseteq HasLabelIds(r)
      BY <1>8, <2>1, FiltersFindWhatPasses DEF FilterStep
    <3>2. ids \subseteq HasLabelIds(r)'
      BY <1>1, <1>2, <3>1, IdsGrow
    <3> QED  BY <1>5, <3>1, <3>2 DEF Within
  <2>2. CASE from # "semantic"
    <3>1. Within(r, HasLabelIds(r))
      BY <1>1, <1>8, <2>2 DEF FilterStep, PartsSound, PastLabel
    <3> QED  BY <1>1, <1>2, <1>4, <3>1, IdsGrow DEF Within
  <2> QED  BY <2>1, <2>2
<1>9. ASSUME to \in PastInstances, query[r].instances # None
      PROVE  Within(r, ShowsInstanceIds(r))' \/ NothingShown(r, at[r].project, at[r].type)'
  <2>1. CASE from = "instances"
    <3>1. set <=> ShowingInstances(r) # {}
      BY <1>9, <2>1 DEF FilterStep
    <3>2. CASE set
      <4>1. ids \subseteq ShowsInstanceIds(r)
        BY <1>9, <2>1, FiltersFindWhatPasses DEF FilterStep
      <4>2. ids \subseteq ShowsInstanceIds(r)'
        BY <1>1, <1>2, <4>1, IdsGrow
      <4> QED  BY <1>5, <3>2, <4>2 DEF Within
    <3>3. CASE ~set
      <4>1. \A e \in instDatasets :
              ~(e[1] = at[r].project /\ e[3] = at[r].type /\ e[2] \in query[r].instances)
        BY <3>1, <3>3 DEF ShowingInstances
      <4>2. before[r].shown \subseteq instDatasets
        BY <1>1, <2>1 DEF BasicInv, Remembers
      <4> QED  BY <1>1, <4>1, <4>2 DEF NothingShown
    <3> QED  BY <3>2, <3>3
  <2>2. CASE from # "instances"
    <3>1. Within(r, ShowsInstanceIds(r)) \/ NothingShown(r, at[r].project, at[r].type)
      BY <1>1, <1>9, <2>2 DEF FilterStep, PartsSound, PastInstances
    <3>2. CASE Within(r, ShowsInstanceIds(r))
      BY <1>1, <1>2, <1>4, <3>2, IdsGrow DEF Within
    <3>3. CASE NothingShown(r, at[r].project, at[r].type)
      BY <1>1, <3>3 DEF NothingShown
    <3> QED  BY <3>1, <3>2, <3>3
  <2> QED  BY <2>1, <2>2
<1>10. ASSUME to = "intersect", query[r].dataUuids # None
      PROVE  Within(r, query[r].dataUuids)'
  <2>1. set /\ ids \subseteq query[r].dataUuids
    BY <1>10 DEF FilterStep, UuidsIds, Unfiltered
  <2> QED  BY <1>1, <1>5, <2>1 DEF Within
<1>11. ASSUME to \in Filtering, parts'[r] # <<>>, query[r].box = None, query[r].time = None,
             query[r].label = None, query[r].dataUuids = None
       PROVE  Within(r, SentIds(r))'
  <2>1. CASE set
    <3>1. from \in {"instances", "uuids"} /\ (from = "uuids" => Unfiltered(query[r]))
      BY <1>11, <2>1 DEF FilterStep
    <3>2. ids \subseteq SentIds(r)
      BY <2>1, <3>1, FiltersFindWhatPasses DEF FilterStep, UuidsIds
    <3>3. ids \subseteq SentIds(r)'
      BY <1>1, <1>2, <3>2, IdsGrow
    <3> QED  BY <1>5, <2>1, <3>3 DEF Within
  <2>2. CASE ~set
    <3>1. parts'[r] = parts[r] /\ from \in Filtering
      BY <2>2, PartsAfterFilter DEF FilterStep, Filtering
    <3>2. Within(r, SentIds(r))
      BY <1>1, <1>11, <3>1 DEF PartsSound
    <3> QED  BY <1>1, <1>2, <1>4, <3>2, IdsGrow DEF Within
  <2> QED  BY <2>1, <2>2
<1>12. PartsSound(r)'
  BY <1>1, <1>6, <1>7, <1>8, <1>9, <1>10, <1>11
     DEF PartsSound, PastSpace, PastTime, PastLabel, PastInstances
<1> QED  BY <1>12

\* A uuid that is left when the parts have been intersected passes every filter.
LEMMA LeftOverMatches ==
  ASSUME BasicInv, NEW r \in Readers, PartsSound(r), pc[r] = "intersect",
         Len(parts[r]) <= 1, parts[r] # <<>>, NEW u \in parts[r][1]
  PROVE  /\ Matches(r, at[r].project, at[r].type, u)
         /\ at[r].project \in Searched(query[r]) /\ at[r].type \in TypesOf(query[r])
<1> DEFINE q == query[r]
           p == at[r].project
           d == at[r].type
<1>1. p \in Searched(q) /\ d \in TypesOf(q)
  BY DEF BasicInv, HasType, FailureInv, Searching, Active, Typed
<1>2. DOMAIN parts[r] = {1}
  <2>1. PICK s \in Seq(SUBSET Uuids) : s = parts[r]
    BY DEF BasicInv, HasType
  <2>2. Len(s) \in Nat /\ DOMAIN s = 1 .. Len(s) /\ Len(s) <= 1 /\ Len(s) # 0
    BY <2>1, EmptySeq
  <2>3. Len(s) = 1
    BY <2>2
  <2> QED  BY <2>1, <2>2, <2>3
<1>3. ASSUME NEW ids, Within(r, ids)
      PROVE  u \in ids
  BY <1>2, <1>3 DEF Within
<1>4. q.box # None => \E m \in Sent(p, d, u) : InSpace(q, m)
  <2>1. q.box # None => u \in InSpaceIds(r)
    BY <1>3 DEF PartsSound, PastSpace
  <2> QED  BY <2>1 DEF InSpaceIds, Sent, Here
<1>5. q.time # None => \E m \in Sent(p, d, u) : InTime(q, m)
  <2>1. q.time # None => u \in InTimeIds(r)
    BY <1>3 DEF PartsSound, PastTime
  <2> QED  BY <2>1 DEF InTimeIds, Sent, Here
<1>6. q.label # None => \E m \in Sent(p, d, u) : HasLabel(q, m)
  <2>1. q.label # None => u \in HasLabelIds(r)
    BY <1>3 DEF PartsSound, PastLabel
  <2> QED  BY <2>1 DEF HasLabelIds, Sent, Here
<1>7. q.instances # None => (\E m \in Sent(p, d, u) : ShowsInstance(q, m)) \/ NothingShown(r, p, d)
  <2>1. q.instances # None => u \in ShowsInstanceIds(r) \/ NothingShown(r, p, d)
    BY <1>3 DEF PartsSound, PastInstances
  <2> QED  BY <2>1 DEF ShowsInstanceIds, Sent, Here
<1>8. q.dataUuids # None => u \in q.dataUuids
  BY <1>3 DEF PartsSound
<1>9. ASSUME q.box = None, q.time = None, q.label = None, q.dataUuids = None
      PROVE  Sent(p, d, u) # {}
  <2>1. u \in SentIds(r)
    BY <1>3, <1>9 DEF PartsSound, Filtering
  <2> QED  BY <2>1 DEF SentIds, Sent, Here
<1>10. CASE Sent(p, d, u) # {}
  <2>1. PICK n \in Sent(p, d, u) : TRUE
    BY <1>10
  <2>2. /\ q.box = None => InSpace(q, n)
        /\ q.time = None => InTime(q, n)
        /\ q.label = None => HasLabel(q, n)
        /\ q.instances = None => ShowsInstance(q, n)
    BY DEF InSpace, InTime, HasLabel, ShowsInstance
  <2> QED  BY <1>1, <1>4, <1>5, <1>6, <1>7, <1>8, <2>1, <2>2 DEF Matches, Passes
<1>11. CASE Sent(p, d, u) = {}
  <2>1. q.box = None /\ q.time = None /\ q.label = None
    BY <1>4, <1>5, <1>6, <1>11
  <2>2. q.instances = None \/ NothingShown(r, p, d)
    BY <1>7, <1>11
  <2> QED  BY <1>1, <1>8, <1>9, <1>11, <2>1, <2>2 DEF Matches, OnlyListed
<1> QED  BY <1>10, <1>11

\* A dataset that matches goes on matching.
LEMMA MatchesStay ==
  ASSUME begun \subseteq begun', NEW r \in Readers, query'[r] = query[r], before'[r] = before[r],
         NEW p, NEW d, NEW u, Matches(r, p, d, u)
  PROVE  Matches(r, p, d, u)'
<1>1. Sent(p, d, u) \subseteq Sent(p, d, u)'
  BY DEF Sent
<1>2. NothingShown(r, p, d) => NothingShown(r, p, d)'
  BY DEF NothingShown
<1>3. Passes(r, p, d, u) => Passes(r, p, d, u)'
  BY <1>1, <1>2 DEF Passes
<1>4. OnlyListed(r, p, d, u) => OnlyListed(r, p, d, u)'
  BY <1>2 DEF OnlyListed
<1> QED  BY <1>3, <1>4 DEF Matches

LEMMA AnswerStaysSound ==
  ASSUME begun \subseteq begun', NEW r \in Readers, AnswerSound(r), query'[r] = query[r],
         before'[r] = before[r], answer'[r] = answer[r]
  PROVE  AnswerSound(r)'
<1> SUFFICES ASSUME NEW a \in answer[r]
             PROVE  /\ a[1] \in Searched(query[r])
                    /\ \E d \in TypesOf(query[r]) :
                         \/ query[r].kind = "data" /\ Matches(r, a[1], d, a[2])'
                         \/ /\ query[r].kind = "instances"
                            /\ \E m \in begun' : /\ m \in Sent(a[1], d, m.uuid)'
                                                 /\ a[2] \in InstancesIn(m)
                                                 /\ Matches(r, a[1], d, m.uuid)'
  BY DEF AnswerSound, Sent
<1>1. a[1] \in Searched(query[r])
  BY DEF AnswerSound
<1>2. PICK d \in TypesOf(query[r]) :
         \/ query[r].kind = "data" /\ Matches(r, a[1], d, a[2])
         \/ /\ query[r].kind = "instances"
            /\ \E m \in begun : /\ m \in Sent(a[1], d, m.uuid) /\ a[2] \in InstancesIn(m)
                                /\ Matches(r, a[1], d, m.uuid)
  BY DEF AnswerSound
<1>3. CASE query[r].kind = "data" /\ Matches(r, a[1], d, a[2])
  BY <1>1, <1>3, MatchesStay
<1>4. CASE /\ query[r].kind = "instances"
           /\ \E m \in begun : /\ m \in Sent(a[1], d, m.uuid) /\ a[2] \in InstancesIn(m)
                               /\ Matches(r, a[1], d, m.uuid)
  <2>1. PICK m \in begun : /\ m \in Sent(a[1], d, m.uuid) /\ a[2] \in InstancesIn(m)
                           /\ Matches(r, a[1], d, m.uuid)
    BY <1>4
  <2>2. m \in begun' /\ m \in Sent(a[1], d, m.uuid)'
    BY <2>1 DEF Sent
  <2>3. Matches(r, a[1], d, m.uuid)'
    BY <2>1, MatchesStay
  <2> QED  BY <1>1, <1>4, <2>1, <2>2, <2>3
<1> QED  BY <1>2, <1>3, <1>4

\* What a query collects at a datatype matches it.
LEMMA CollectKeepsAnswerSound ==
  ASSUME BasicInv, IndexGrows, NEW r \in Readers, PartsSound(r), AnswerSound(r), Collect(r)
  PROVE  AnswerSound(r)'
<1>1. PICK q, p, d : q = query[r] /\ p = at[r].project /\ d = at[r].type
  OBVIOUS
<1>2. PICK ids : ids = (IF parts[r] = <<>> THEN {} ELSE parts[r][1])
  OBVIOUS
<1>3. PICK found : found = (IF query[r].kind = "data" THEN ids ELSE InstancesOf(r, ids))
  OBVIOUS
<1>4. /\ pc[r] = "intersect" /\ Len(parts[r]) <= 1
      /\ answer'[r] = answer[r] \cup {<<p, u>> : u \in found}
      /\ query'[r] = q /\ before'[r] = before[r] /\ at'[r] = at[r]
      /\ begun \subseteq begun' /\ begun' = begun
  <2>1. FailureInv /\ ReadersApart
    BY DEF BasicInv
  <2>2. /\ pc[r] = "intersect" /\ Len(parts[r]) <= 1
        /\ answer'[r] = answer[r] \cup {<<at[r].project, u>> : u \in found}
        /\ query'[r] = query[r] /\ before'[r] = before[r] /\ at'[r] = at[r]
        /\ UNCHANGED <<tf, indexVars, uploadVars>>
    BY <1>2, <1>3, <2>1, CollectEffect
  <2>3. begun' = begun
    BY <2>2 DEF uploadVars
  <2> QED  BY <1>1, <2>2, <2>3
<1>5. ASSUME NEW u \in ids
      PROVE  Matches(r, p, d, u) /\ p \in Searched(q) /\ d \in TypesOf(q)
  <2>1. parts[r] # <<>> /\ u \in parts[r][1]
    BY <1>2
  <2> QED  BY <1>1, <1>4, <2>1, LeftOverMatches
<1>6. q.kind \in {"data", "instances"}
  <2>1. q \in Queries
    BY <1>1, <1>4 DEF BasicInv, HasType
  <2> QED  BY <2>1, ConstantsAssumption DEF Queries, FromFb, FromPb
<1>7. SUFFICES ASSUME NEW a \in answer'[r]
               PROVE  /\ a[1] \in Searched(q)
                      /\ \E e \in TypesOf(q) :
                           \/ q.kind = "data" /\ Matches(r, a[1], e, a[2])'
                           \/ /\ q.kind = "instances"
                              /\ \E m \in begun' : /\ m \in Sent(a[1], e, m.uuid)'
                                                   /\ a[2] \in InstancesIn(m)
                                                   /\ Matches(r, a[1], e, m.uuid)'
  BY <1>1, <1>4 DEF AnswerSound, Sent
<1>8. CASE a \in answer[r]
  <2>1. a[1] \in Searched(q)
    BY <1>1, <1>8 DEF AnswerSound
  <2>2. PICK e \in TypesOf(q) :
           \/ q.kind = "data" /\ Matches(r, a[1], e, a[2])
           \/ /\ q.kind = "instances"
              /\ \E m \in begun : /\ m \in Sent(a[1], e, m.uuid) /\ a[2] \in InstancesIn(m)
                                  /\ Matches(r, a[1], e, m.uuid)
    BY <1>1, <1>8 DEF AnswerSound
  <2>3. CASE q.kind = "data" /\ Matches(r, a[1], e, a[2])
    BY <1>1, <1>4, <2>1, <2>3, MatchesStay
  <2>4. CASE /\ q.kind = "instances"
             /\ \E m \in begun : /\ m \in Sent(a[1], e, m.uuid) /\ a[2] \in InstancesIn(m)
                                 /\ Matches(r, a[1], e, m.uuid)
    <3>1. PICK m \in begun : /\ m \in Sent(a[1], e, m.uuid) /\ a[2] \in InstancesIn(m)
                             /\ Matches(r, a[1], e, m.uuid)
      BY <2>4
    <3>2. m \in begun' /\ m \in Sent(a[1], e, m.uuid)'
      BY <1>4, <3>1 DEF Sent
    <3>3. Matches(r, a[1], e, m.uuid)'
      BY <1>1, <1>4, <3>1, MatchesStay
    <3> QED  BY <2>1, <2>4, <3>1, <3>2, <3>3
  <2> QED  BY <2>2, <2>3, <2>4
<1>9. CASE a \notin answer[r]
  <2>1. PICK x \in found : a = <<p, x>>
    BY <1>4, <1>9
  <2>2. a[1] = p /\ a[2] = x
    BY <2>1
  <2>3. CASE q.kind = "data"
    <3>1. x \in ids
      BY <1>1, <1>3, <2>1, <2>3
    <3>2. Matches(r, p, d, x) /\ p \in Searched(q) /\ d \in TypesOf(q)
      BY <1>5, <3>1
    <3>3. Matches(r, p, d, x)'
      BY <1>1, <1>4, <3>2, MatchesStay
    <3> QED  BY <2>2, <2>3, <3>2, <3>3
  <2>4. CASE q.kind = "instances"
    <3>1. x \in InstancesOf(r, ids)
      BY <1>1, <1>3, <2>1, <2>4
    <3>2. PICK e \in datasetInstances : Here(r, e) /\ e.uuid \in ids /\ x \in e.insts
      BY <3>1 DEF InstancesOf
    <3>3. PICK m \in begun : IsMapped(e, m) /\ e.insts = InstancesIn(m)
      BY DEF BasicInv, SoundInv, IndexSound
    <3>4. /\ m.project = p /\ m.type = d /\ m.uuid \in ids /\ x \in InstancesIn(m)
      BY <1>1, <3>2, <3>3 DEF Here, IsMapped
    <3>5. Matches(r, p, d, m.uuid) /\ p \in Searched(q) /\ d \in TypesOf(q)
      BY <1>5, <3>4
    <3>6. Matches(r, p, d, m.uuid)'
      BY <1>1, <1>4, <3>5, MatchesStay
    <3>7. m \in begun' /\ m \in Sent(p, d, m.uuid)'
      BY <1>4, <3>4 DEF Sent
    <3> QED  BY <2>2, <2>4, <3>4, <3>5, <3>6, <3>7
  <2> QED  BY <1>6, <2>3, <2>4
<1> QED  BY <1>8, <1>9

\* A query's own step keeps its parts and its answer sound.
LEMMA OwnStepMatch ==
  ASSUME MatchInv, IndexGrows, NEW r \in Readers, ReadStep(r)
  PROVE  PartsSound(r)' /\ AnswerSound(r)'
<1>1. /\ BasicInv /\ FailureInv /\ ReadersApart /\ PartsSound(r) /\ AnswerSound(r)
      /\ begun \subseteq begun'
  BY DEF MatchInv, BasicInv, IndexGrows
<1>2. ASSUME NEW q \in Queries, Receive(r, q)
      PROVE  PartsSound(r)' /\ AnswerSound(r)'
  <2>1. pc'[r] = "project" /\ answer'[r] = {}
    BY <1>1, <1>2, ReceiveEffect
  <2>2. PartsSound(r)'
    BY <2>1, NoPartsYet DEF PastSpace, Filtering
  <2> QED  BY <2>1, <2>2 DEF AnswerSound
<1>3. CASE NextProject(r) \/ TransformQuery(r) \/ NextType(r) \/ TryAddingDataWithMissingTF(r)
  <2>1. /\ query'[r] = query[r] /\ before'[r] = before[r] /\ answer'[r] = answer[r]
        /\ \/ pc'[r] \in {"answered", "failed", "project", "transform", "type", "waiting"}
           \/ pc'[r] = "spatial" /\ parts'[r] = <<>>
    <3>1. CASE NextProject(r)
      BY <1>1, <3>1, NextProjectEffect
    <3>2. CASE TransformQuery(r)
      BY <1>1, <3>2, TransformQueryEffect
    <3>3. CASE NextType(r)
      BY <1>1, <3>3, NextTypeEffect
    <3>4. CASE TryAddingDataWithMissingTF(r)
      BY <1>1, <3>4, WaitingEffect
    <3> QED  BY <1>3, <3>1, <3>2, <3>3, <3>4
  <2>2. PartsSound(r)'
    BY <2>1, NoPartsYet DEF PastSpace, Filtering
  <2> QED  BY <1>1, <2>1, <2>2, AnswerStaysSound
<1>4. CASE Filters(r)
  <2>1. PICK from, to, ids : \E set \in BOOLEAN :
          FilterStep(r, from, set, ids, to) /\ Filter(r, from, set, ids, to)
    BY <1>4, FilterSteps
  <2>2. PICK set \in BOOLEAN :
          FilterStep(r, from, set, ids, to) /\ Filter(r, from, set, ids, to)
    BY <2>1
  <2>3. query'[r] = query[r] /\ before'[r] = before[r] /\ answer'[r] = answer[r]
    BY <1>1, <2>2, FilterEffect
  <2>4. PartsSound(r)'
    BY <1>1, <2>2, FilterKeepsPartsSound
  <2> QED  BY <1>1, <2>3, <2>4, AnswerStaysSound
<1>5. CASE Intersect(r)
  <2>1. /\ pc'[r] = pc[r] /\ query'[r] = query[r] /\ at'[r] = at[r]
        /\ before'[r] = before[r] /\ answer'[r] = answer[r] /\ Len(parts[r]) > 1
    BY <1>1, <1>5, IntersectEffect
  <2>2. parts[r] # <<>>
    BY <2>1
  <2>3. PartsSound(r)'
    BY <1>1, <1>5, <2>1, <2>2, PartsAfterIntersect, PartsStaySound
  <2> QED  BY <1>1, <2>1, <2>3, AnswerStaysSound
<1>6. CASE Collect(r)
  <2>1. pc'[r] = "type"
    BY <1>1, <1>6, CollectEffect
  <2>2. PartsSound(r)'
    BY <2>1, NoPartsYet DEF PastSpace, Filtering
  <2> QED  BY <1>1, <1>6, <2>2, CollectKeepsAnswerSound
<1> QED  BY <1>2, <1>3, <1>4, <1>5, <1>6 DEF ReadStep, Filters

LEMMA MatchInvHolds == Spec => []MatchInv
<1>1. Init => \A r \in Readers : PartsSound(r) /\ AnswerSound(r)
  BY DEF Init, PartsSound, AnswerSound, Filtering, PastSpace, PastTime, PastLabel, PastInstances
<1>2. MatchInv /\ BasicInv' /\ [Next]_vars => MatchInv'
  <2> SUFFICES ASSUME MatchInv, BasicInv', [Next]_vars
               PROVE  \A s \in Readers : PartsSound(s)' /\ AnswerSound(s)'
    BY DEF MatchInv
  <2>1. IndexGrows /\ begun \subseteq begun'
    BY EveryStepGrows DEF MatchInv, BasicInv, IndexGrows
  <2>2. ASSUME NEW s \in Readers, Same(s)
        PROVE  PartsSound(s)' /\ AnswerSound(s)'
    <3>1. PartsSound(s) /\ AnswerSound(s)
      BY DEF MatchInv
    <3>2. /\ pc'[s] = pc[s] /\ query'[s] = query[s] /\ at'[s] = at[s] /\ parts'[s] = parts[s]
          /\ before'[s] = before[s] /\ answer'[s] = answer[s]
      BY <2>2 DEF Same
    <3>3. PartsSound(s)'
      BY <2>1, <3>1, <3>2, PartsStaySound
    <3> QED  BY <2>1, <3>1, <3>2, <3>3, AnswerStaysSound
  <2>3. CASE \E r \in Readers : ReadStep(r)
    <3>1. PICK r \in Readers : ReadStep(r)
      BY <2>3
    <3>2. \A s \in Readers \ {r} : Same(s)
      BY <3>1, OthersSame DEF MatchInv, BasicInv
    <3>3. PartsSound(r)' /\ AnswerSound(r)'
      BY <2>1, <3>1, OwnStepMatch
    <3> QED  BY <2>2, <3>2, <3>3
  <2>4. CASE ~ \E r \in Readers : ReadStep(r)
    <3>1. UNCHANGED readVars
      BY <2>4, OutsideSame
    <3>2. \A s \in Readers : Same(s)
      BY <3>1 DEF readVars, Same
    <3> QED  BY <2>2, <3>2
  <2> QED  BY <2>3, <2>4
<1> QED  BY <1>1, <1>2, BasicInvHolds, PTL DEF Spec, MatchInv

\* What a query answers with was sent and passes every filter, but for the two
\* exceptions that AnswersMatch names, whatever uploads, transforms and queries
\* overlap it (CoreDataset::intersectQueryResults).
THEOREM Matching == Spec => []AnswersMatch
<1>1. MatchInv => AnswersMatch
  BY DEF MatchInv, AnswerSound, AnswersMatch
<1> QED  BY <1>1, MatchInvHolds, PTL

-----------------------------------------------------------------------------
(* An answer holds what was there.                                          *)

\* The datasets a query has to find at the datatype and the project it is at.
Due(r) == {m \in before[r].stored : Here(r, m) /\ Wanted(query[r], m) /\ Findable(r, m)}

\* Every dataset that is due is in every part, and there is a part.
PartsComplete(r) ==
  /\ pc[r] = "spatial" => parts[r] = <<>>
  /\ pc[r] = "spatial" /\ query[r].box # None => \A m \in Due(r) : RtEntry(m) \in rt
  /\ pc[r] \in Filtering => \A m \in Due(r) : \A i \in DOMAIN parts[r] : m.uuid \in parts[r][i]
  /\ pc[r] \in PastSpace /\ query[r].box # None => parts[r] # <<>>
  /\ pc[r] \in PastTime /\ query[r].time # None => parts[r] # <<>>
  /\ pc[r] \in PastLabel /\ query[r].label # None => parts[r] # <<>>
  /\ pc[r] \in PastInstances /\ query[r].instances # None /\ Due(r) # {} => parts[r] # <<>>
  /\ pc[r] = "intersect" /\ Due(r) # {} => parts[r] # <<>>

\* A dataset the query has not reached yet.
StillToCome(r, m) ==
  \/ \E i \in DOMAIN todo[r] : todo[r][i] = m.project
  \/ /\ pc[r] \in Active \ {"project"} /\ at[r].project = m.project
     /\ \/ pc[r] = "transform"
        \/ m.type \in types[r]
        \/ pc[r] \in Typed /\ at[r].type = m.type

FindsAll(r) ==
  pc[r] \in Active \cup {"answered"} =>
    \A m \in before[r].stored :
      Wanted(query[r], m) /\ Findable(r, m) =>
        Answered(r, m) \/ (pc[r] # "answered" /\ StillToCome(r, m))

CompleteInv ==
  BasicInv /\ StoreInv /\ \A r \in Readers : PartsComplete(r) /\ FindsAll(r)

LEMMA DueStays ==
  ASSUME NEW r \in Readers, query'[r] = query[r], at'[r] = at[r], before'[r] = before[r]
  PROVE  Due(r)' = Due(r)
BY DEF Due, Here, Findable

\* What is due is whole in the index, and was sent by somebody.
LEMMA DueIsStored ==
  ASSUME BasicInv, StoreInv, NEW r \in Readers, pc[r] # "idle", NEW m \in before[r].stored
  PROVE  /\ Complete(m) /\ m \in Uploads /\ m.project \in Projects /\ IsBox(m.box)
         /\ DOMAIN m.labels = 1 .. Len(m.labels)
<1>1. m \in stored
  BY DEF BasicInv, Remembers
<1>2. m \in Uploads
  BY <1>1 DEF BasicInv, SoundInv, IndexSound, InstanceInv, WriterType
<1> QED  BY <1>1, <1>2, ConstantsAssumption DEF StoreInv

\* Each filter finds what is due.
LEMMA FiltersFindWhatIsDue ==
  ASSUME BasicInv, StoreInv, NEW r \in Readers, PartsComplete(r), pc[r] # "idle", NEW m \in Due(r)
  PROVE  /\ pc[r] = "spatial" /\ query[r].box # None => m.uuid \in SpaceIds(r)
         /\ query[r].time # None => m.uuid \in TimeIds(r)
         /\ query[r].label # None => m.uuid \in LabelIds(r)
         /\ query[r].instances # None => m.uuid \in ShowingInstances(r)
         /\ Unfiltered(query[r]) => m.uuid \in AllDatasetUuids(r)
         /\ query[r].dataUuids # None => m.uuid \in query[r].dataUuids
<1>1. /\ m \in before[r].stored /\ Here(r, m) /\ Wanted(query[r], m) /\ Findable(r, m)
  BY DEF Due
<1>2. /\ Complete(m) /\ m \in Uploads /\ m.project \in Projects /\ IsBox(m.box)
      /\ DOMAIN m.labels = 1 .. Len(m.labels)
  BY <1>1, DueIsStored
<1>3. TimeEntry(m) \in timetree /\ \A k \in DOMAIN m.labels : LabelEntry(m, k) \in labelDatasets
  BY <1>2 DEF Complete, Timed, LabelledTo
<1>4. ASSUME pc[r] = "spatial", query[r].box # None
      PROVE  m.uuid \in SpaceIds(r)
  <2>1. RtEntry(m) \in rt
    BY <1>4 DEF PartsComplete
  <2>2. PICK p, a : p = m.project /\ a = TransformBox(p, m.box)
    OBVIOUS
  <2>3. PICK e : e = RtEntry(m)
    OBVIOUS
  <2>4. e = [project |-> p, type |-> m.type, uuid |-> m.uuid, lo |-> a.lo, hi |-> a.hi]
    BY <2>2, <2>3 DEF RtEntry
  <2>5. e.project = p /\ e.type = m.type /\ e.uuid = m.uuid /\ e.lo = a.lo /\ e.hi = a.hi
    BY <2>4
  <2>6. Here(r, e) /\ p = at[r].project
    BY <1>1, <2>2, <2>5 DEF Here
  <2>7. at[r].box = TransformBox(p, query[r].box)
    BY <1>4, <2>6 DEF BasicInv, BoxMoved, Transformed
  <2>8. IsBox(query[r].box)
    <3>1. query[r] \in Queries
      BY DEF BasicInv, HasType
    <3> QED  BY <1>4, <3>1, ConstantsAssumption DEF Queries, FromFb, FromPb
  <2>9. /\ Covered(p, query[r].box) \cap Covered(p, m.box) # {}
        /\ Upright(p, query[r].box) /\ Upright(p, m.box)
    BY <1>1, <1>4, <2>2 DEF Wanted, InSpace, Findable
  <2>10. Intersects(TransformBox(p, query[r].box), a)
    BY <1>2, <2>2, <2>8, <2>9, IntersectsMeans
  <2>11. Intersects(at[r].box, e)
    BY <2>5, <2>7, <2>10 DEF Intersects
  <2> QED  BY <2>1, <2>3, <2>5, <2>6, <2>11 DEF SpaceIds
<1>5. PICK e : e = TimeEntry(m)
  OBVIOUS
<1>6. e.project = m.project /\ e.type = m.type /\ e.uuid = m.uuid /\ e.time = m.time
  BY <1>5 DEF TimeEntry
<1>7. query[r].time # None => m.uuid \in TimeIds(r)
  BY <1>1, <1>3, <1>5, <1>6 DEF Here, Wanted, InTime, TimeIds
<1>8. Unfiltered(query[r]) => m.uuid \in AllDatasetUuids(r)
  BY <1>1, <1>3, <1>5, <1>6 DEF Here, Findable, AllDatasetUuids
<1>9. ASSUME query[r].label # None
      PROVE  m.uuid \in LabelIds(r)
  <2>1. PICK k \in DOMAIN m.labels : m.labels[k].label \in query[r].label
    BY <1>1, <1>9 DEF Wanted, HasLabel
  <2>2. PICK x : x = LabelEntry(m, k)
    OBVIOUS
  <2>3. x[1] = m.project /\ x[2] = m.type /\ x[3] = m.labels[k].label /\ x[4] = m.uuid
    BY <2>2 DEF LabelEntry
  <2> QED  BY <1>1, <1>3, <2>1, <2>2, <2>3 DEF Here, LabelIds
<1>10. ASSUME query[r].instances # None
       PROVE  m.uuid \in ShowingInstances(r)
  <2>1. PICK i \in query[r].instances : <<m.project, i, m.type, m.uuid>> \in before[r].shown
    BY <1>1, <1>10 DEF Findable
  <2>2. PICK x : x = <<m.project, i, m.type, m.uuid>>
    OBVIOUS
  <2>3. x \in instDatasets /\ x[1] = m.project /\ x[2] = i /\ x[3] = m.type /\ x[4] = m.uuid
    BY <2>1, <2>2 DEF BasicInv, Remembers
  <2> QED  BY <1>1, <2>1, <2>3 DEF Here, ShowingInstances
<1>11. query[r].dataUuids # None => m.uuid \in query[r].dataUuids
  BY <1>1 DEF Wanted, IsListed
<1> QED  BY <1>4, <1>7, <1>8, <1>9, <1>10, <1>11

\* So a filter that the query sets leaves a part with what is due, and one that is
\* left out has nothing due to leave.
LEMMA FilterLeavesWhatIsDue ==
  ASSUME BasicInv, StoreInv, NEW r \in Readers, PartsComplete(r),
         NEW from, NEW set \in BOOLEAN, NEW ids, NEW to,
         FilterStep(r, from, set, ids, to), pc[r] = from
  PROVE  /\ set => \A m \in Due(r) : m.uuid \in ids
         /\ from = "spatial" /\ query[r].box # None => set
         /\ from = "temporal" /\ query[r].time # None => set
         /\ from = "semantic" /\ query[r].label # None => set
         /\ from = "instances" /\ query[r].instances # None /\ Due(r) # {} => set
         /\ from = "uuids" /\ (Unfiltered(query[r]) \/ query[r].dataUuids # None) => set
<1>1. pc[r] # "idle"
  BY DEF FilterStep
<1>2. ASSUME NEW m \in Due(r)
      PROVE  /\ pc[r] = "spatial" /\ query[r].box # None => m.uuid \in SpaceIds(r)
             /\ query[r].time # None => m.uuid \in TimeIds(r)
             /\ query[r].label # None => m.uuid \in LabelIds(r)
             /\ query[r].instances # None => m.uuid \in ShowingInstances(r)
             /\ Unfiltered(query[r]) => m.uuid \in AllDatasetUuids(r)
             /\ query[r].dataUuids # None => m.uuid \in query[r].dataUuids
  BY <1>1, FiltersFindWhatIsDue
<1>3. set => \A m \in Due(r) : m.uuid \in ids
  BY <1>2 DEF FilterStep, UuidsIds
<1>4. from = "instances" /\ query[r].instances # None /\ Due(r) # {} => set
  BY <1>2 DEF FilterStep
<1> QED  BY <1>3, <1>4 DEF FilterStep

LEMMA FilterKeepsPartsComplete ==
  ASSUME BasicInv, StoreInv, NEW r \in Readers, PartsComplete(r),
         NEW from, NEW set \in BOOLEAN, NEW ids, NEW to,
         FilterStep(r, from, set, ids, to), Filter(r, from, set, ids, to)
  PROVE  PartsComplete(r)'
<1>1. /\ pc[r] = from /\ pc'[r] = to /\ query'[r] = query[r] /\ at'[r] = at[r]
      /\ before'[r] = before[r]
  BY FilterEffect DEF BasicInv
<1>2. Due(r)' = Due(r)
  BY <1>1, DueStays
<1>3. /\ parts[r] \in Seq(SUBSET Uuids) /\ parts'[r] \in Seq(SUBSET Uuids)
      /\ ~set => parts'[r] = parts[r]
      /\ \A i \in DOMAIN parts[r] : i \in DOMAIN parts'[r] /\ parts'[r][i] = parts[r][i]
      /\ set => /\ Len(parts'[r]) \in DOMAIN parts'[r] /\ parts'[r] # <<>>
                /\ parts'[r][Len(parts'[r])] = ids
      /\ \A i \in DOMAIN parts'[r] : i \in DOMAIN parts[r] \/ (set /\ parts'[r][i] = ids)
  BY PartsAfterFilter, Zenon
<1>4. /\ set => \A m \in Due(r) : m.uuid \in ids
      /\ from = "spatial" /\ query[r].box # None => set
      /\ from = "temporal" /\ query[r].time # None => set
      /\ from = "semantic" /\ query[r].label # None => set
      /\ from = "instances" /\ query[r].instances # None /\ Due(r) # {} => set
      /\ from = "uuids" /\ (Unfiltered(query[r]) \/ query[r].dataUuids # None) => set
  BY <1>1, FilterLeavesWhatIsDue, Zenon
<1>5. \/ from = "spatial" /\ to = "temporal"
      \/ from = "temporal" /\ to = "semantic"
      \/ from = "semantic" /\ to = "instances"
      \/ from = "instances" /\ to = "uuids"
      \/ from = "uuids" /\ to = "intersect"
  BY DEF FilterStep
<1>6. ASSUME NEW m \in Due(r), NEW i \in DOMAIN parts'[r]
      PROVE  m.uuid \in parts'[r][i]
  <2>1. CASE i \in DOMAIN parts[r]
    <3>1. m.uuid \in parts[r][i]
      BY <1>1, <1>5, <2>1 DEF PartsComplete, Filtering
    <3> QED  BY <1>3, <2>1, <3>1
  <2>2. CASE set /\ parts'[r][i] = ids
    BY <1>4, <2>2
  <2> QED  BY <1>3, <2>1, <2>2
<1>7. parts[r] # <<>> => parts'[r] # <<>>
  <2>1. CASE set
    BY <1>3, <2>1
  <2>2. CASE ~set
    BY <1>3, <2>2
  <2> QED  BY <2>1, <2>2
<1>8. set => parts'[r] # <<>>
  BY <1>3
<1>9. to \in PastSpace /\ query[r].box # None => parts'[r] # <<>>
  BY <1>1, <1>4, <1>5, <1>7, <1>8 DEF PartsComplete, PastSpace
<1>10. to \in PastTime /\ query[r].time # None => parts'[r] # <<>>
  BY <1>1, <1>4, <1>5, <1>7, <1>8 DEF PartsComplete, PastTime
<1>11. to \in PastLabel /\ query[r].label # None => parts'[r] # <<>>
  BY <1>1, <1>4, <1>5, <1>7, <1>8 DEF PartsComplete, PastLabel
<1>12. to \in PastInstances /\ query[r].instances # None /\ Due(r) # {} => parts'[r] # <<>>
  BY <1>1, <1>4, <1>5, <1>7, <1>8 DEF PartsComplete, PastInstances
<1>13. to = "intersect" /\ Due(r) # {} => parts'[r] # <<>>
  BY <1>1, <1>4, <1>5, <1>8, <1>9, <1>10, <1>11, <1>12
     DEF Unfiltered, PastSpace, PastTime, PastLabel, PastInstances
<1> QED
  BY <1>1, <1>2, <1>5, <1>6, <1>9, <1>10, <1>11, <1>12, <1>13 DEF PartsComplete

\* What waits for its transform and is due has left for the R-tree when the query
\* looks there.
LEMMA WaitingKeepsPartsComplete ==
  ASSUME BasicInv, StoreInv, NEW r \in Readers, TryAddingDataWithMissingTF(r)
  PROVE  PartsComplete(r)'
<1>1. /\ pc[r] = "waiting" /\ pc'[r] = "spatial" /\ parts'[r] = <<>>
      /\ query'[r] = query[r] /\ at'[r] = at[r] /\ before'[r] = before[r]
  BY WaitingEffect DEF BasicInv
<1>2. Due(r)' = Due(r)
  BY <1>1, DueStays
<1>3. ASSUME query[r].box # None, NEW m \in Due(r)
      PROVE  RtEntry(m) \in rt'
  <2>1. /\ m \in before[r].stored /\ Here(r, m) /\ Findable(r, m)
    BY DEF Due
  <2>2. Complete(m) /\ m.project \in Projects
    BY <1>1, <2>1, DueIsStored
  <2>3. CASE RtEntry(m) \in rt
    BY <2>3 DEF TryAddingDataWithMissingTF
  <2>4. CASE m \in dataWithMissingTF
    <3>1. CanTransform(m.project, m.box.frame)
      <4>1. m.box.frame = MapFrame[m.project] \/ m.box.frame \in before[r].tf[m.project]
        BY <1>3, <2>1 DEF Findable
      <4>2. before[r].tf[m.project] \subseteq tf[m.project]
        BY <1>1, <2>2 DEF BasicInv, Remembers
      <4> QED  BY <4>1, <4>2 DEF CanTransform
    <3>2. m.project = at[r].project /\ m.type = at[r].type
      BY <2>1 DEF Here
    <3> QED  BY <2>4, <3>1, <3>2 DEF TryAddingDataWithMissingTF
  <2> QED  BY <2>2, <2>3, <2>4 DEF Complete, Placed
<1>4. \A i \in DOMAIN parts'[r] : FALSE
  BY <1>1
<1>5. pc'[r] \notin PastSpace /\ pc'[r] # "intersect"
  BY <1>1 DEF PastSpace
<1> QED
  BY <1>1, <1>2, <1>3, <1>4, <1>5
     DEF PartsComplete, PastSpace, PastTime, PastLabel, PastInstances

LEMMA IntersectKeepsPartsComplete ==
  ASSUME BasicInv, NEW r \in Readers, PartsComplete(r), Intersect(r)
  PROVE  PartsComplete(r)'
<1>1. /\ pc[r] = "intersect" /\ pc'[r] = "intersect"
      /\ query'[r] = query[r] /\ at'[r] = at[r] /\ before'[r] = before[r]
  BY IntersectEffect DEF BasicInv
<1>2. Due(r)' = Due(r)
  BY <1>1, DueStays
<1>3. /\ parts'[r] # <<>>
      /\ \A u : (\A i \in DOMAIN parts[r] : u \in parts[r][i]) =>
                  \A j \in DOMAIN parts'[r] : u \in parts'[r][j]
  BY PartsAfterIntersect
<1>4. ASSUME NEW m \in Due(r)
      PROVE  \A j \in DOMAIN parts'[r] : m.uuid \in parts'[r][j]
  <2>1. \A i \in DOMAIN parts[r] : m.uuid \in parts[r][i]
    BY <1>1 DEF PartsComplete, Filtering
  <2>2. PICK u : u = m.uuid
    OBVIOUS
  <2> QED  BY <1>3, <2>1, <2>2
<1> QED  BY <1>1, <1>2, <1>3, <1>4 DEF PartsComplete

LEMMA NoPartsToComplete ==
  ASSUME NEW r \in Readers, pc'[r] \notin Filtering
  PROVE  PartsComplete(r)'
BY DEF PartsComplete, Filtering, PastSpace, PastTime, PastLabel, PastInstances

LEMMA PartsStayComplete ==
  ASSUME IndexGrows, NEW r \in Readers, PartsComplete(r), Same(r)
  PROVE  PartsComplete(r)'
<1>1. /\ pc'[r] = pc[r] /\ query'[r] = query[r] /\ at'[r] = at[r] /\ before'[r] = before[r]
      /\ parts'[r] = parts[r]
  BY DEF Same
<1>2. Due(r)' = Due(r)
  BY <1>1, DueStays
<1>3. rt \subseteq rt'
  BY DEF IndexGrows
<1> QED  BY <1>1, <1>2, <1>3 DEF PartsComplete

-----------------------------------------------------------------------------
(* Every dataset that is due is found, or still to come.                    *)

LEMMA AnsweredStays ==
  ASSUME IndexGrows, NEW r \in Readers, query'[r] = query[r], answer[r] \subseteq answer'[r],
         NEW m, Answered(r, m)
  PROVE  Answered(r, m)'
<1>1. CASE query[r].kind = "data" /\ <<m.project, m.uuid>> \in answer[r]
  BY <1>1 DEF Answered
<1>2. CASE /\ query[r].kind = "instances"
           /\ \E e \in datasetInstances :
                /\ e.project = m.project /\ e.type = m.type /\ e.uuid = m.uuid
                /\ \A i \in e.insts : <<m.project, i>> \in answer[r]
  <2>1. PICK e \in datasetInstances :
          /\ e.project = m.project /\ e.type = m.type /\ e.uuid = m.uuid
          /\ \A i \in e.insts : <<m.project, i>> \in answer[r]
    BY <1>2
  <2>2. e \in datasetInstances' /\ \A i \in e.insts : <<m.project, i>> \in answer'[r]
    BY <2>1 DEF IndexGrows
  <2> QED  BY <1>2, <2>1, <2>2 DEF Answered
<1> QED  BY <1>1, <1>2 DEF Answered

\* A step keeps FindsAll when it answers with nothing less and leaves nothing out.
LEMMA FindsAllByStep ==
  ASSUME IndexGrows, NEW r \in Readers, FindsAll(r), pc[r] \in Active \cup {"answered"},
         query'[r] = query[r], before'[r] = before[r], answer[r] \subseteq answer'[r],
         \A m \in before[r].stored :
           /\ Wanted(query[r], m) /\ Findable(r, m) /\ pc[r] # "answered" /\ StillToCome(r, m)
           => Answered(r, m)' \/ (pc'[r] # "answered" /\ StillToCome(r, m)'),
         pc[r] = "answered" => pc'[r] = "answered"
  PROVE  FindsAll(r)'
<1> SUFFICES ASSUME NEW m \in before[r].stored, Wanted(query[r], m), Findable(r, m)
             PROVE  Answered(r, m)' \/ (pc'[r] # "answered" /\ StillToCome(r, m)')
  <2>1. \A m : Findable(r, m)' <=> Findable(r, m)
    BY DEF Findable
  <2> QED  BY <2>1 DEF FindsAll
<1>1. Answered(r, m) \/ (pc[r] # "answered" /\ StillToCome(r, m))
  BY DEF FindsAll
<1>2. CASE Answered(r, m)
  BY <1>2, AnsweredStays
<1> QED  BY <1>1, <1>2

\* A query that is received has all its projects still to come.
LEMMA ReceiveFindsAll ==
  ASSUME BasicInv, StoreInv, NEW r \in Readers, NEW q \in Queries, Receive(r, q)
  PROVE  FindsAll(r)'
<1>1. /\ pc'[r] = "project" /\ query'[r] = q
      /\ before'[r] = [stored |-> stored, tf |-> tf, shown |-> instDatasets]
      /\ \/ q.projects # None /\ todo'[r] = q.projects
         \/ q.projects = None /\ todo'[r] \in Orders
  BY ReceiveEffect DEF BasicInv
<1>2. before'[r].stored = stored
  BY <1>1
<1>3. ASSUME NEW m \in stored, Wanted(q, m)
      PROVE  \E i \in DOMAIN todo'[r] : todo'[r][i] = m.project
  <2>1. m.project \in Searched(q)
    BY <1>3 DEF Wanted
  <2>2. CASE q.projects # None /\ todo'[r] = q.projects
    BY <2>1, <2>2 DEF Searched
  <2>3. CASE q.projects = None /\ todo'[r] \in Orders
    BY <2>1, <2>3 DEF Searched, Orders
  <2> QED  BY <1>1, <2>2, <2>3
<1> QED  BY <1>1, <1>2, <1>3 DEF FindsAll, StillToCome

LEMMA NextProjectFindsAll ==
  ASSUME BasicInv, IndexGrows, NEW r \in Readers, FindsAll(r), NextProject(r)
  PROVE  FindsAll(r)'
<1>1. /\ pc[r] = "project"
      /\ \/ todo[r] = <<>> /\ pc'[r] = "answered" /\ todo'[r] = todo[r] /\ at'[r] = at[r]
         \/ /\ todo[r] # <<>> /\ pc'[r] = "transform" /\ todo'[r] = Tail(todo[r])
            /\ at'[r] = [project |-> Head(todo[r]), type |-> Unknown, box |-> None]
         \/ pc'[r] = "failed"
      /\ query'[r] = query[r] /\ before'[r] = before[r] /\ answer'[r] = answer[r]
  BY NextProjectEffect DEF BasicInv
<1>2. PICK s \in Seq(Searched(query[r])) : s = todo[r]
  BY <1>1 DEF BasicInv, FailureInv, Searching, Active
<1>3. ASSUME NEW m, StillToCome(r, m)
      PROVE  pc'[r] = "failed" \/ (pc'[r] # "answered" /\ StillToCome(r, m)')
  <2>1. PICK i \in DOMAIN s : s[i] = m.project
    BY <1>1, <1>2, <1>3 DEF StillToCome
  <2>2. DOMAIN s = 1 .. Len(s) /\ Len(s) \in Nat
    OBVIOUS
  <2>3. s # <<>>
    BY <2>1, <2>2
  <2>4. CASE pc'[r] = "transform" /\ todo'[r] = Tail(s) /\ at'[r].project = Head(s)
    <3>1. Head(s) = s[1] /\ Len(Tail(s)) = Len(s) - 1
          /\ \A j \in 1 .. (Len(s) - 1) : Tail(s)[j] = s[j + 1]
      BY <2>3, HeadTailProperties
    <3>2. DOMAIN Tail(s) = 1 .. (Len(s) - 1)
      BY <2>3, <3>1, HeadTailProperties
    <3>3. CASE i = 1
      BY <2>1, <2>4, <3>1, <3>3 DEF StillToCome, Active
    <3>4. CASE i # 1
      <4>1. i - 1 \in 1 .. (Len(s) - 1) /\ (i - 1) + 1 = i
        BY <2>2, <3>4
      <4>2. i - 1 \in DOMAIN todo'[r] /\ todo'[r][i - 1] = m.project
        BY <2>1, <2>4, <3>1, <3>2, <4>1
      <4> QED  BY <2>4, <4>2 DEF StillToCome
    <3> QED  BY <3>3, <3>4
  <2>5. todo[r] # <<>> /\ pc'[r] = "transform" => at'[r].project = Head(s)
    BY <1>1, <1>2
  <2> QED  BY <1>1, <1>2, <2>3, <2>4, <2>5
<1>4. CASE pc'[r] = "failed"
  BY <1>4 DEF FindsAll, Active
<1>5. CASE pc'[r] # "failed"
  BY <1>1, <1>3, <1>5, FindsAllByStep DEF Active
<1> QED  BY <1>4, <1>5

LEMMA TransformQueryFindsAll ==
  ASSUME BasicInv, IndexGrows, NEW r \in Readers, FindsAll(r), TransformQuery(r)
  PROVE  FindsAll(r)'
<1>1. /\ pc[r] = "transform"
      /\ \/ /\ pc'[r] = "type" /\ types'[r] = TypesOf(query[r])
            /\ \E x : at'[r] = [project |-> at[r].project, type |-> at[r].type, box |-> x]
         \/ pc'[r] = "failed"
      /\ query'[r] = query[r] /\ todo'[r] = todo[r] /\ before'[r] = before[r]
      /\ answer'[r] = answer[r]
  BY TransformQueryEffect
<1>2. CASE pc'[r] = "failed"
  BY <1>2 DEF FindsAll, Active
<1>3. CASE pc'[r] # "failed"
  <2>1. at'[r].project = at[r].project
    <3>1. PICK x : at'[r] = [project |-> at[r].project, type |-> at[r].type, box |-> x]
      BY <1>1, <1>3
    <3> QED  BY <3>1
  <2>2. ASSUME NEW m, Wanted(query[r], m), StillToCome(r, m)
        PROVE  pc'[r] # "answered" /\ StillToCome(r, m)'
    <3>1. m.type \in types'[r]
      BY <1>1, <1>3, <2>2 DEF Wanted
    <3> QED  BY <1>1, <1>3, <2>1, <2>2, <3>1 DEF StillToCome, Active, Typed
  <2> QED  BY <1>1, <1>3, <2>2, FindsAllByStep DEF Active
<1> QED  BY <1>2, <1>3

LEMMA NextTypeFindsAll ==
  ASSUME BasicInv, IndexGrows, NEW r \in Readers, FindsAll(r), NextType(r)
  PROVE  FindsAll(r)'
<1>1. /\ pc[r] = "type"
      /\ \/ types[r] = {} /\ pc'[r] = "project" /\ types'[r] = types[r] /\ at'[r] = at[r]
         \/ /\ pc'[r] = "waiting"
            /\ \E d \in types[r] :
                 /\ types'[r] = types[r] \ {d}
                 /\ at'[r] = [project |-> at[r].project, type |-> d, box |-> at[r].box]
      /\ query'[r] = query[r] /\ todo'[r] = todo[r] /\ before'[r] = before[r]
      /\ answer'[r] = answer[r]
  BY NextTypeEffect
<1>2. ASSUME NEW m, StillToCome(r, m)
      PROVE  pc'[r] # "answered" /\ StillToCome(r, m)'
  <2>1. CASE \E i \in DOMAIN todo[r] : todo[r][i] = m.project
    BY <1>1, <2>1 DEF StillToCome
  <2>2. CASE at[r].project = m.project /\ m.type \in types[r]
    <3>1. PICK d \in types[r] :
            /\ types'[r] = types[r] \ {d} /\ pc'[r] = "waiting"
            /\ at'[r] = [project |-> at[r].project, type |-> d, box |-> at[r].box]
      BY <1>1, <2>2
    <3>2. at'[r].project = at[r].project /\ at'[r].type = d
      BY <3>1
    <3>3. m.type \in types'[r] \/ at'[r].type = m.type
      BY <2>2, <3>1, <3>2
    <3> QED  BY <2>2, <3>1, <3>2, <3>3 DEF StillToCome, Active, Typed
  <2> QED  BY <1>1, <1>2, <2>1, <2>2 DEF StillToCome, Typed
<1> QED  BY <1>1, <1>2, FindsAllByStep DEF Active

\* At a datatype the query stays where it is until it collects.
LEMMA GoingOnFindsAll ==
  ASSUME IndexGrows, NEW r \in Readers, FindsAll(r), pc[r] \in Typed, pc'[r] \in Typed,
         query'[r] = query[r], todo'[r] = todo[r], types'[r] = types[r], at'[r] = at[r],
         answer'[r] = answer[r], before'[r] = before[r]
  PROVE  FindsAll(r)'
<1>1. pc[r] \in Active \ {"project"} /\ pc'[r] \in Active \ {"project"}
      /\ pc[r] # "transform" /\ pc[r] # "answered" /\ pc'[r] # "answered"
  BY DEF Typed, Active
<1>2. \A m : StillToCome(r, m) => StillToCome(r, m)'
  BY <1>1 DEF StillToCome
<1> QED  BY <1>1, <1>2, FindsAllByStep

\* What was due at the datatype is in the answer when the query leaves it.
LEMMA CollectFindsAll ==
  ASSUME BasicInv, StoreInv, IndexGrows, NEW r \in Readers, PartsComplete(r), FindsAll(r),
         Collect(r)
  PROVE  FindsAll(r)'
<1>1. PICK ids : ids = (IF parts[r] = <<>> THEN {} ELSE parts[r][1])
  OBVIOUS
<1>2. PICK found : found = (IF query[r].kind = "data" THEN ids ELSE InstancesOf(r, ids))
  OBVIOUS
<1>3. /\ pc[r] = "intersect" /\ pc'[r] = "type" /\ Len(parts[r]) <= 1
      /\ answer'[r] = answer[r] \cup {<<at[r].project, u>> : u \in found}
      /\ query'[r] = query[r] /\ todo'[r] = todo[r] /\ types'[r] = types[r]
      /\ at'[r] = at[r] /\ before'[r] = before[r]
  BY <1>1, <1>2, CollectEffect DEF BasicInv
<1>4. query[r].kind \in {"data", "instances"}
  <2>1. query[r] \in Queries
    BY <1>3 DEF BasicInv, HasType
  <2> QED  BY <2>1, ConstantsAssumption DEF Queries, FromFb, FromPb
<1>5. ASSUME NEW m \in Due(r)
      PROVE  m.uuid \in ids
  <2>1. parts[r] # <<>> /\ \A i \in DOMAIN parts[r] : m.uuid \in parts[r][i]
    BY <1>3 DEF PartsComplete, Filtering
  <2>2. PICK s \in Seq(SUBSET Uuids) : s = parts[r]
    BY DEF BasicInv, HasType
  <2>3. Len(s) \in Nat /\ DOMAIN s = 1 .. Len(s) /\ Len(s) # 0
    BY <2>1, <2>2, EmptySeq
  <2>4. 1 \in DOMAIN parts[r]
    BY <2>2, <2>3
  <2> QED  BY <1>1, <2>1, <2>4
<1>6. ASSUME NEW m \in before[r].stored, Wanted(query[r], m), Findable(r, m),
             StillToCome(r, m)
      PROVE  Answered(r, m)' \/ (pc'[r] # "answered" /\ StillToCome(r, m)')
  <2>1. CASE at[r].project = m.project /\ at[r].type = m.type
    <3>1. m \in Due(r)
      BY <1>6, <2>1 DEF Due, Here
    <3>2. CASE query[r].kind = "data"
      <4>1. <<m.project, m.uuid>> \in answer'[r]
        BY <1>2, <1>3, <1>5, <2>1, <3>1, <3>2
      <4> QED  BY <1>3, <3>2, <4>1 DEF Answered
    <3>3. CASE query[r].kind = "instances"
      <4>1. Mapped(m)
        BY <1>3, <1>6, DueIsStored DEF Complete
      <4>2. PICK e \in datasetInstances : IsMapped(e, m)
        BY <4>1 DEF Mapped
      <4>3. e.project = m.project /\ e.type = m.type /\ e.uuid = m.uuid
        BY <4>2 DEF IsMapped
      <4>4. Here(r, e) /\ e.uuid \in ids
        BY <1>5, <2>1, <3>1, <4>3 DEF Here
      <4>5. e.insts \subseteq found
        BY <1>2, <3>3, <4>4 DEF InstancesOf
      <4>6. \A i \in e.insts : <<m.project, i>> \in answer'[r]
        BY <1>3, <2>1, <4>5
      <4>7. e \in datasetInstances'
        BY DEF IndexGrows
      <4> QED  BY <1>3, <3>3, <4>3, <4>6, <4>7 DEF Answered
    <3> QED  BY <1>4, <3>2, <3>3
  <2>2. CASE \E i \in DOMAIN todo[r] : todo[r][i] = m.project
    BY <1>3, <2>2 DEF StillToCome
  <2>3. CASE at[r].project = m.project /\ m.type \in types[r]
    BY <1>3, <2>3 DEF StillToCome, Active
  <2> QED  BY <1>3, <1>6, <2>1, <2>2, <2>3 DEF StillToCome
<1>7. answer[r] \subseteq answer'[r]
  BY <1>3
<1>8. pc[r] \in Active /\ pc[r] # "answered"
  BY <1>3 DEF Active
<1> QED  BY <1>3, <1>6, <1>7, <1>8, FindsAllByStep

\* A query's own step keeps its parts and its answer complete.
LEMMA OwnStepComplete ==
  ASSUME CompleteInv, IndexGrows, NEW r \in Readers, ReadStep(r)
  PROVE  PartsComplete(r)' /\ FindsAll(r)'
<1>1. /\ BasicInv /\ FailureInv /\ ReadersApart /\ StoreInv
      /\ PartsComplete(r) /\ FindsAll(r)
  BY DEF CompleteInv, BasicInv
<1>2. ASSUME NEW q \in Queries, Receive(r, q)
      PROVE  PartsComplete(r)' /\ FindsAll(r)'
  <2>1. pc'[r] = "project"
    BY <1>1, <1>2, ReceiveEffect
  <2> QED  BY <1>1, <1>2, <2>1, ReceiveFindsAll, NoPartsToComplete DEF Filtering
<1>3. CASE NextProject(r)
  <2>1. pc'[r] \in {"answered", "failed", "transform"}
    BY <1>1, <1>3, NextProjectEffect
  <2> QED  BY <1>1, <1>3, <2>1, NextProjectFindsAll, NoPartsToComplete DEF Filtering
<1>4. CASE TransformQuery(r)
  <2>1. pc'[r] \in {"type", "failed"}
    BY <1>1, <1>4, TransformQueryEffect
  <2> QED  BY <1>1, <1>4, <2>1, TransformQueryFindsAll, NoPartsToComplete DEF Filtering
<1>5. CASE NextType(r)
  <2>1. pc'[r] \in {"project", "waiting"}
    BY <1>1, <1>5, NextTypeEffect
  <2> QED  BY <1>1, <1>5, <2>1, NextTypeFindsAll, NoPartsToComplete DEF Filtering
<1>6. CASE TryAddingDataWithMissingTF(r)
  <2>1. FindsAll(r)'
    BY <1>1, <1>6, WaitingEffect, GoingOnFindsAll DEF Typed
  <2> QED  BY <1>1, <1>6, <2>1, WaitingKeepsPartsComplete
<1>7. CASE Filters(r)
  <2>1. PICK from, to, ids : \E set \in BOOLEAN :
          FilterStep(r, from, set, ids, to) /\ Filter(r, from, set, ids, to)
    BY <1>7, FilterSteps
  <2>2. PICK set \in BOOLEAN :
          FilterStep(r, from, set, ids, to) /\ Filter(r, from, set, ids, to)
    BY <2>1
  <2>3. from \in Typed /\ to \in Typed
    BY <2>2 DEF FilterStep, Typed
  <2>4. FindsAll(r)'
    BY <1>1, <2>2, <2>3, FilterEffect, GoingOnFindsAll
  <2>5. PartsComplete(r)'
    BY <1>1, <2>2, FilterKeepsPartsComplete
  <2> QED  BY <2>4, <2>5
<1>8. CASE Intersect(r)
  <2>1. FindsAll(r)'
    BY <1>1, <1>8, IntersectEffect, GoingOnFindsAll DEF Typed
  <2> QED  BY <1>1, <1>8, <2>1, IntersectKeepsPartsComplete
<1>9. CASE Collect(r)
  <2>1. pc'[r] = "type"
    BY <1>1, <1>9, CollectEffect
  <2> QED  BY <1>1, <1>9, <2>1, CollectFindsAll, NoPartsToComplete DEF Filtering
<1> QED  BY <1>2, <1>3, <1>4, <1>5, <1>6, <1>7, <1>8, <1>9 DEF ReadStep, Filters

LEMMA FindsAllStays ==
  ASSUME IndexGrows, NEW r \in Readers, FindsAll(r), Same(r)
  PROVE  FindsAll(r)'
<1>1. /\ pc'[r] = pc[r] /\ query'[r] = query[r] /\ todo'[r] = todo[r] /\ types'[r] = types[r]
      /\ at'[r] = at[r] /\ answer'[r] = answer[r] /\ before'[r] = before[r]
  BY DEF Same
<1>2. CASE pc[r] \in Active \cup {"answered"}
  <2>1. \A m : StillToCome(r, m) => StillToCome(r, m)'
    BY <1>1 DEF StillToCome
  <2> QED  BY <1>1, <1>2, <2>1, FindsAllByStep
<1>3. CASE pc[r] \notin Active \cup {"answered"}
  BY <1>1, <1>3 DEF FindsAll
<1> QED  BY <1>2, <1>3

LEMMA CompleteInvHolds == Spec => []CompleteInv
<1>1. Init => \A r \in Readers : PartsComplete(r) /\ FindsAll(r)
  BY DEF Init, PartsComplete, FindsAll, Filtering, PastSpace, PastTime, PastLabel,
         PastInstances, Active
<1>2. CompleteInv /\ BasicInv' /\ StoreInv' /\ [Next]_vars => CompleteInv'
  <2> SUFFICES ASSUME CompleteInv, BasicInv', StoreInv', [Next]_vars
               PROVE  \A s \in Readers : PartsComplete(s)' /\ FindsAll(s)'
    BY DEF CompleteInv
  <2>1. IndexGrows
    BY EveryStepGrows DEF CompleteInv, BasicInv
  <2>2. ASSUME NEW s \in Readers, Same(s)
        PROVE  PartsComplete(s)' /\ FindsAll(s)'
    BY <2>1, <2>2, PartsStayComplete, FindsAllStays DEF CompleteInv
  <2>3. CASE \E r \in Readers : ReadStep(r)
    <3>1. PICK r \in Readers : ReadStep(r)
      BY <2>3
    <3>2. \A s \in Readers \ {r} : Same(s)
      BY <3>1, OthersSame DEF CompleteInv, BasicInv
    <3>3. PartsComplete(r)' /\ FindsAll(r)'
      BY <2>1, <3>1, OwnStepComplete
    <3> QED  BY <2>2, <3>2, <3>3
  <2>4. CASE ~ \E r \in Readers : ReadStep(r)
    <3>1. UNCHANGED readVars
      BY <2>4, OutsideSame
    <3>2. \A s \in Readers : Same(s)
      BY <3>1 DEF readVars, Same
    <3> QED  BY <2>2, <3>2
  <2> QED  BY <2>3, <2>4
<1> QED  BY <1>1, <1>2, BasicInvHolds, StoreInvHolds, PTL DEF Spec, CompleteInv

\* A query that is answered found every dataset that was completely added when it
\* was received, matches it and can be found, however uploads, transforms and other
\* queries overlap it (CoreDataset::getData).
THEOREM Completeness == Spec => []AnswersComplete
<1>1. CompleteInv => AnswersComplete
  BY DEF CompleteInv, FindsAll, AnswersComplete
<1> QED  BY <1>1, CompleteInvHolds, PTL

=============================================================================
