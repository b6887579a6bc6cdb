---------------------------- MODULE QueryProofs ----------------------------
(***************************************************************************)
(* Proofs about Query, for every number of handlers, uploads, queries and  *)
(* projects: instances and labels agree however uploads interleave, and a  *)
(* query fails for no other reason than the ones FailureExplained names.   *)
(*                                                                         *)
(* The inductive invariants say what a handler may rely on between two     *)
(* visits of a container.  An upload in FindInstance or CreateInstance is  *)
(* at a label that names an instance (AtLabel): so what it adds there is   *)
(* what it was sent with.  A query has only projects to search that it     *)
(* named (Searching), and found the one it is at.                          *)
(***************************************************************************)
EXTENDS Query, FiniteSetTheorems, SequenceTheorems, TLAPS

-----------------------------------------------------------------------------
(* Uploads and instances.                                                   *)

WriterPcs == {"idle", "place", "time", "label", "find", "create"}

WriterType ==
  /\ writer \in [Writers -> [pc : WriterPcs, m : Uploads \cup {None}, k : Nat]]
  /\ begun \subseteq Uploads

\* What an upload has in hand between two steps.
AtLabel(w) ==
  writer[w].pc # "idle" =>
    /\ writer[w].m \in begun
    /\ writer[w].k >= 1
    /\ writer[w].pc \in {"find", "create"} => writer[w].k <= Len(writer[w].m.labels)

InstanceInv ==
  /\ WriterType
  /\ \A w \in Writers : AtLabel(w)
  /\ InstanceLabelAgrees

\* The invariant speaks of these variables only.
LEMMA InstanceStutter ==
  InstanceInv /\ UNCHANGED <<writer, begun, instVars>> => InstanceInv'
BY DEF InstanceInv, WriterType, AtLabel, InstanceLabelAgrees, instVars

\* A step that moves one upload on, to a label that it has.
LEMMA WriterMoves ==
  ASSUME InstanceInv, NEW w \in Writers, writer[w].pc # "idle", UNCHANGED begun,
         NEW l \in WriterPcs, NEW k \in Nat, ToWriter(w, l, k),
         k >= 1, l \in {"find", "create"} => k <= Len(writer[w].m.labels)
  PROVE  WriterType' /\ \A v \in Writers : AtLabel(v)'
<1>1. WriterType'
  BY DEF InstanceInv, WriterType, ToWriter
<1>2. \A v \in Writers : AtLabel(v)'
  BY DEF InstanceInv, WriterType, ToWriter, AtLabel
<1> QED  BY <1>1, <1>2

\* It keeps the invariant when it leaves the instances alone.
LEMMA InstancesStay ==
  ASSUME InstanceInv, UNCHANGED <<begun, instVars>>
  PROVE  InstanceLabelAgrees'
BY DEF InstanceInv, InstanceLabelAgrees, instVars

LEMMA WriterLeaves ==
  ASSUME InstanceInv, NEW w \in Writers, UNCHANGED <<begun, instVars>>, Leave(w)
  PROVE  InstanceInv'
<1>1. WriterType'
  BY DEF InstanceInv, WriterType, Leave, NoDataset, WriterPcs
<1>2. \A v \in Writers : AtLabel(v)'
  BY DEF InstanceInv, WriterType, Leave, NoDataset, AtLabel
<1>3. InstanceLabelAgrees'
  BY DEF InstanceInv, InstanceLabelAgrees, instVars
<1> QED  BY <1>1, <1>2, <1>3 DEF InstanceInv

\* The dataset of an upload joins an instance that has the label it was sent with.
LEMMA DatasetJoins ==
  ASSUME InstanceInv, NEW w \in Writers, WriterAt(w, "find") \/ WriterAt(w, "create"),
         NEW m, m = writer[w].m, NEW i, i = m.labels[writer[w].k].inst,
         NEW l, l = m.labels[writer[w].k].label,
         UNCHANGED begun,
         instLabel \subseteq instLabel', <<m.project, i, l>> \in instLabel',
         instDatasets' = instDatasets \cup {<<m.project, i, m.type, m.uuid>>}
  PROVE  \A e \in instDatasets' : \E n \in begun', x \in instLabel' :
           /\ n.project = e[1] /\ n.type = e[3] /\ n.uuid = e[4]
           /\ x[1] = e[1] /\ x[2] = e[2]
           /\ \E k \in DOMAIN n.labels : n.labels[k].inst = e[2] /\ n.labels[k].label = x[3]
<1>1. m \in begun /\ writer[w].k \in DOMAIN m.labels
  BY ConstantsAssumption DEF InstanceInv, WriterType, AtLabel, WriterAt
<1> QED
  <2> SUFFICES ASSUME NEW e \in instDatasets'
               PROVE  \E n \in begun', x \in instLabel' :
                        /\ n.project = e[1] /\ n.type = e[3] /\ n.uuid = e[4]
                        /\ x[1] = e[1] /\ x[2] = e[2]
                        /\ \E k \in DOMAIN n.labels : /\ n.labels[k].inst = e[2]
                                                      /\ n.labels[k].label = x[3]
    OBVIOUS
  <2>1. CASE e \in instDatasets
    BY <2>1 DEF InstanceInv, InstanceLabelAgrees
  <2>2. CASE e = <<m.project, i, m.type, m.uuid>>
    <3> DEFINE x == <<m.project, i, l>>
    <3>1. x \in instLabel' /\ x[1] = e[1] /\ x[2] = e[2] /\ x[3] = l
      BY <2>2
    <3>2. m \in begun' /\ m.project = e[1] /\ m.type = e[3] /\ m.uuid = e[4] /\ i = e[2]
      BY <1>1, <2>2
    <3> QED  BY <1>1, <3>1, <3>2
  <2> QED  BY <2>1, <2>2

LEMMA FindKeepsInstances ==
  ASSUME InstanceInv, NEW w \in Writers, FindInstance(w)
  PROVE  InstanceInv'
<1> DEFINE m == writer[w].m
           k == writer[w].k
           i == m.labels[k].inst
<1>0. writer[w].pc = "find" /\ m \in begun /\ k \in 1 .. Len(m.labels) /\ k \in Nat
  BY ConstantsAssumption DEF FindInstance, WriterAt, InstanceInv, WriterType, AtLabel
<1>1. CASE /\ <<m.project, i, m.labels[k].label>> \in instLabel
           /\ instDatasets' = instDatasets \cup {<<m.project, i, m.type, m.uuid>>}
           /\ ToWriter(w, "label", k + 1)
  <2>1. begun' = begun
    BY DEF FindInstance
  <2>2. WriterType' /\ \A v \in Writers : AtLabel(v)'
    BY <1>0, <1>1, <2>1, WriterMoves DEF WriterPcs
  <2>3. InstanceLabelAgrees'
    <3>1. instLabel' = instLabel /\ begun' = begun
      BY DEF FindInstance
    <3>2. WriterAt(w, "find")
      BY DEF FindInstance
    <3> QED
      BY <1>1, <3>1, <3>2, DatasetJoins DEF InstanceInv, InstanceLabelAgrees
  <2> QED  BY <2>2, <2>3 DEF InstanceInv
<1>2. CASE Leave(w) /\ UNCHANGED instDatasets
  BY <1>2, WriterLeaves DEF FindInstance, instVars
<1>3. CASE ToWriter(w, "create", k) /\ UNCHANGED instDatasets
  <2>1. UNCHANGED <<begun, instVars>>
    BY <1>3 DEF FindInstance, instVars
  <2> QED
    BY <1>0, <1>3, <2>1, WriterMoves, InstancesStay DEF WriterPcs, InstanceInv
<1> QED  BY <1>1, <1>2, <1>3 DEF FindInstance

LEMMA CreateKeepsInstances ==
  ASSUME InstanceInv, NEW w \in Writers, CreateInstance(w)
  PROVE  InstanceInv'
<1> DEFINE m == writer[w].m
           k == writer[w].k
           i == m.labels[k].inst
           l == m.labels[k].label
<1>0. writer[w].pc = "create" /\ m \in begun /\ k \in 1 .. Len(m.labels) /\ k \in Nat
  BY ConstantsAssumption DEF CreateInstance, WriterAt, InstanceInv, WriterType, AtLabel
<1>1. CASE ~Known(m.project, i)
  <2>0. /\ instLabel' = instLabel \cup {<<m.project, i, l>>}
        /\ instDatasets' = instDatasets \cup {<<m.project, i, m.type, m.uuid>>}
        /\ ToWriter(w, "label", k + 1) /\ begun' = begun
    BY <1>1 DEF CreateInstance
  <2>1. WriterType' /\ \A v \in Writers : AtLabel(v)'
    BY <1>0, <2>0, WriterMoves DEF WriterPcs
  <2>2. \A a \in instLabel : ~(a[1] = m.project /\ a[2] = i)
    BY <1>1 DEF Known
  <2>3. ASSUME NEW a \in instLabel', NEW b \in instLabel', a[1] = b[1] /\ a[2] = b[2]
        PROVE  a = b
    <3> DEFINE x == <<m.project, i, l>>
    <3>1. x[1] = m.project /\ x[2] = i
      OBVIOUS
    <3>2. (a \in instLabel \/ a = x) /\ (b \in instLabel \/ b = x)
      BY <2>0
    <3>3. a \in instLabel /\ b \in instLabel => a = b
      BY <2>3 DEF InstanceInv, InstanceLabelAgrees
    <3> QED  BY <2>2, <2>3, <3>1, <3>2, <3>3
  <2>4. WriterAt(w, "create")
    BY DEF CreateInstance
  <2>5. InstanceLabelAgrees'
    BY <2>0, <2>3, <2>4, DatasetJoins DEF InstanceLabelAgrees
  <2> QED  BY <2>1, <2>5 DEF InstanceInv
<1>2. CASE Known(m.project, i)
  <2>1. UNCHANGED <<begun, instVars>> /\ ToWriter(w, "label", k + 1)
    BY <1>2 DEF CreateInstance
  <2> QED
    BY <1>0, <2>1, WriterMoves, InstancesStay DEF WriterPcs, InstanceInv
<1> QED  BY <1>1, <1>2

LEMMA UploadKeepsInstances ==
  ASSUME InstanceInv, NEW w \in Writers,
         \/ \E m \in Uploads : AddDataset(w, m)
         \/ Place(w) \/ AddTime(w) \/ AddLabel(w) \/ MapInstances(w)
  PROVE  InstanceInv'
<1> USE DEF WriterAt, WriterPcs
<1>1. ASSUME NEW m \in Uploads, AddDataset(w, m)
      PROVE  InstanceInv'
  <2>1. /\ begun' = begun \cup {m} /\ UNCHANGED instVars
        /\ writer' = [writer EXCEPT ![w] = [pc |-> "place", m |-> m, k |-> 1]]
    BY <1>1 DEF AddDataset, indexVars
  <2>2. WriterType'
    BY <2>1 DEF InstanceInv, WriterType
  <2>3. \A v \in Writers : AtLabel(v)'
    BY <2>1 DEF InstanceInv, WriterType, AtLabel
  <2>4. InstanceLabelAgrees'
    BY <2>1 DEF InstanceInv, InstanceLabelAgrees, instVars
  <2> QED  BY <2>2, <2>3, <2>4 DEF InstanceInv
<1>2. CASE Place(w)
  <2>1. UNCHANGED <<begun, instVars>> /\ writer[w].pc # "idle" /\ ToWriter(w, "time", 1)
    BY <1>2 DEF Place
  <2> QED  BY <2>1, WriterMoves, InstancesStay DEF InstanceInv
<1>3. CASE AddTime(w)
  <2>1. UNCHANGED <<begun, instVars>> /\ writer[w].pc # "idle" /\ ToWriter(w, "label", 1)
    BY <1>3 DEF AddTime
  <2> QED  BY <2>1, WriterMoves, InstancesStay DEF InstanceInv
<1>4. CASE AddLabel(w)
  <2> DEFINE k == writer[w].k
  <2>1. /\ UNCHANGED <<begun, instVars>> /\ writer[w].pc = "label"
        /\ k <= Len(writer[w].m.labels)
        /\ ToWriter(w, "label", k + 1) \/ ToWriter(w, "find", k)
    BY <1>4 DEF AddLabel
  <2>2. k \in Nat /\ k >= 1
    BY <2>1 DEF InstanceInv, WriterType, AtLabel
  <2>3. CASE ToWriter(w, "label", k + 1)
    BY <2>1, <2>2, <2>3, WriterMoves, InstancesStay DEF InstanceInv
  <2>4. CASE ToWriter(w, "find", k)
    BY <2>1, <2>2, <2>4, WriterMoves, InstancesStay DEF InstanceInv
  <2> QED  BY <2>1, <2>3, <2>4
<1>5. CASE MapInstances(w)
  <2>1. UNCHANGED <<begun, instVars>> /\ Leave(w)
    BY <1>5 DEF MapInstances
  <2> QED  BY <2>1, WriterLeaves
<1> QED  BY <1>1, <1>2, <1>3, <1>4, <1>5

\* The steps of a query, and a transform, change neither uploads nor instances.
ReadStep(r) ==
  \/ \E q \in Queries : Receive(r, q)
  \/ NextProject(r) \/ TransformQuery(r) \/ NextType(r) \/ TryAddingDataWithMissingTF(r)
  \/ QuerySpatial(r) \/ QueryTemporal(r) \/ QuerySemantic(r) \/ QueryInstances(r)
  \/ QueryUuids(r) \/ Intersect(r) \/ Collect(r)

LEMMA ReadingChangesNoInstance ==
  ASSUME NEW r \in Readers, ReadStep(r)
  PROVE  UNCHANGED <<writer, begun, instVars>>
BY DEF ReadStep, Receive, NextProject, TransformQuery, NextType, TryAddingDataWithMissingTF,
       QuerySpatial, QueryTemporal, QuerySemantic, QueryInstances, QueryUuids, Filter,
       Intersect, Collect, indexVars, uploadVars

LEMMA InstanceInvHolds == Spec => []InstanceInv
<1>1. Init => InstanceInv
  BY DEF Init, InstanceInv, WriterType, WriterPcs, AtLabel, NoDataset, InstanceLabelAgrees
<1>2. InstanceInv /\ [Next]_vars => InstanceInv'
  <2> SUFFICES ASSUME InstanceInv, [Next]_vars
               PROVE  InstanceInv'
    OBVIOUS
  <2>1. CASE UNCHANGED vars
    BY <2>1, InstanceStutter DEF vars, instVars
  <2>2. ASSUME NEW w \in Writers,
               \/ \E m \in Uploads : AddDataset(w, m)
               \/ Place(w) \/ AddTime(w) \/ AddLabel(w)
               \/ FindInstance(w) \/ CreateInstance(w) \/ MapInstances(w)
        PROVE  InstanceInv'
    BY <2>2, UploadKeepsInstances, FindKeepsInstances, CreateKeepsInstances
  <2>3. ASSUME NEW t \in Transforms, AddTF(t[1], t[2])
        PROVE  InstanceInv'
    BY <2>3, InstanceStutter DEF AddTF, indexVars, uploadVars
  <2>4. ASSUME NEW r \in Readers, ReadStep(r)
        PROVE  InstanceInv'
    BY <2>4, ReadingChangesNoInstance, InstanceStutter
  <2> QED  BY <2>1, <2>2, <2>3, <2>4 DEF Next, ReadStep
<1> QED  BY <1>1, <1>2, PTL DEF Spec

\* However uploads interleave, an instance has one label and shows only datasets
\* that were sent with it (core-instances.cpp:89).
THEOREM InstanceLabels == Spec => []InstanceLabelAgrees
<1>1. InstanceInv => InstanceLabelAgrees
  BY DEF InstanceInv
<1> QED  BY <1>1, InstanceInvHolds, PTL

-----------------------------------------------------------------------------
(* Queries that fail.                                                       *)

Active == {"project", "transform", "type", "waiting", "spatial", "temporal", "semantic",
           "instances", "uuids", "intersect"}

ReaderType ==
  /\ DOMAIN pc = Readers /\ DOMAIN query = Readers /\ DOMAIN todo = Readers
  /\ DOMAIN at = Readers
  /\ \A r \in Readers : pc[r] \in Active \cup {"idle", "answered", "failed"}

\* What a query has in hand between two steps.
Searching(r) ==
  /\ pc[r] \in Active => todo[r] \in Seq(Searched(query[r]))
  /\ pc[r] \in Active \ {"project"} =>
       "project" \in DOMAIN at[r] /\ at[r].project \in Searched(query[r]) \cap Projects

Explained(r) ==
  pc[r] = "failed" =>
    \/ ~(Searched(query[r]) \subseteq Projects)
    \/ /\ query[r].box # None
       /\ \E p \in Searched(query[r]) \cap Projects : query[r].box.frame # MapFrame[p]

FailureInv == ReaderType /\ \A r \in Readers : Searching(r) /\ Explained(r)

LEMMA FailureStutter ==
  FailureInv /\ UNCHANGED <<pc, query, todo, at>> => FailureInv'
BY DEF FailureInv, ReaderType, Searching, Explained

\* What the conversions leave of the projects a client names.
LEMMA QueriesNameProjects ==
  ASSUME NEW q \in Queries, q.projects # None
  PROVE  q.projects \in Seq(Searched(q))
<1>1. q.projects \in Seq(ProjectUuids)
  BY ConstantsAssumption DEF Queries, FromFb, FromPb
<1>2. Searched(q) = {q.projects[i] : i \in DOMAIN q.projects}
  BY DEF Searched
<1> QED  BY <1>1, <1>2

\* A step of one query that stays in a project keeps what it has in hand.
LEMMA StaysInProject ==
  ASSUME FailureInv, NEW r \in Readers, pc[r] \in Active \ {"project"},
         NEW l \in Active, Goto(r, l), UNCHANGED <<query, todo>>,
         \/ UNCHANGED at
         \/ \E b : at' = [at EXCEPT ![r].box = b]
         \/ \E d : at' = [at EXCEPT ![r].type = d]
  PROVE  FailureInv'
<1>1. DOMAIN at' = Readers /\ \A s \in Readers \ {r} : at'[s] = at[s]
  BY DEF FailureInv, ReaderType
<1>2. "project" \in DOMAIN at[r] => "project" \in DOMAIN at'[r] /\ at'[r].project = at[r].project
  BY DEF FailureInv, ReaderType
<1>3. DOMAIN pc' = Readers /\ pc'[r] = l /\ \A s \in Readers \ {r} : pc'[s] = pc[s]
  BY DEF FailureInv, ReaderType, Goto
<1>4. ReaderType'
  BY <1>1, <1>3 DEF FailureInv, ReaderType
<1>5. ASSUME NEW s \in Readers
      PROVE  Searching(s)' /\ Explained(s)'
  BY <1>1, <1>2, <1>3 DEF FailureInv, Searching, Explained, Active
<1> QED  BY <1>4, <1>5 DEF FailureInv

LEMMA ReceiveKeeps ==
  ASSUME FailureInv, NEW r \in Readers, NEW q \in Queries, Receive(r, q)
  PROVE  FailureInv'
<1>1. /\ query' = [query EXCEPT ![r] = q] /\ Goto(r, "project") /\ UNCHANGED at
      /\ \/ q.projects # None /\ todo' = [todo EXCEPT ![r] = q.projects]
         \/ q.projects = None /\ \E s \in Orders : todo' = [todo EXCEPT ![r] = s]
  BY DEF Receive
<1>2. \E s \in Seq(Searched(q)) : todo' = [todo EXCEPT ![r] = s]
  <2>1. CASE q.projects # None
    BY <1>1, <2>1, QueriesNameProjects
  <2>2. CASE q.projects = None
    <3>1. Cardinality(Projects) \in Nat
      BY ConstantsAssumption, FS_CardinalityType
    <3>2. Orders \subseteq Seq(Projects)
      BY <3>1 DEF Orders
    <3> QED  BY <1>1, <2>2, <3>2 DEF Searched
  <2> QED  BY <2>1, <2>2
<1>3. ReaderType'
  BY <1>1, <1>2 DEF FailureInv, ReaderType, Goto, Active
<1>4. ASSUME NEW s \in Readers
      PROVE  Searching(s)' /\ Explained(s)'
  <2>1. CASE s = r
    <3>1. pc'[r] = "project" /\ query'[r] = q /\ todo'[r] \in Seq(Searched(q))
      BY <1>1, <1>2 DEF FailureInv, ReaderType, Goto
    <3> QED  BY <2>1, <3>1 DEF Searching, Explained
  <2>2. CASE s # r
    <3>1. pc'[s] = pc[s] /\ query'[s] = query[s] /\ todo'[s] = todo[s] /\ at'[s] = at[s]
      BY <1>1, <1>2, <2>2 DEF FailureInv, ReaderType, Goto
    <3> QED  BY <3>1 DEF FailureInv, Searching, Explained
  <2> QED  BY <2>1, <2>2
<1> QED  BY <1>3, <1>4 DEF FailureInv

\* A query moves on to its next project, is answered, or fails at an unknown one.
LEMMA NextProjectKeeps ==
  ASSUME FailureInv, NEW r \in Readers, NextProject(r)
  PROVE  FailureInv'
<1> DEFINE p == Head(todo[r])
<1>1. pc[r] = "project" /\ todo[r] \in Seq(Searched(query[r])) /\ query' = query
  BY DEF NextProject, FailureInv, Searching, Active
<1>2. \A s \in Readers \ {r} : pc'[s] = pc[s] /\ todo'[s] = todo[s] /\ at'[s] = at[s]
  BY DEF NextProject, FailureInv, ReaderType, Goto
<1>3. ReaderType'
  BY DEF NextProject, FailureInv, ReaderType, Goto, Active
<1>4. \A s \in Readers \ {r} : Searching(s)' /\ Explained(s)'
  BY <1>1, <1>2 DEF FailureInv, Searching, Explained
<1>5. Searching(r)' /\ Explained(r)'
  <2>1. CASE todo[r] = <<>>
    <3>1. pc'[r] = "answered"
      BY <2>1 DEF NextProject, Goto, FailureInv, ReaderType
    <3> QED  BY <3>1 DEF Searching, Explained, Active
  <2>2. CASE todo[r] # <<>> /\ p \in Projects
    <3>1. pc'[r] = "transform" /\ todo'[r] = Tail(todo[r])
          /\ at'[r] = [project |-> p, type |-> Unknown, box |-> None]
      BY <2>2 DEF NextProject, Goto, FailureInv, ReaderType
    <3>2. p \in Searched(query[r]) /\ Tail(todo[r]) \in Seq(Searched(query[r]))
      BY <1>1, <2>2, HeadTailProperties
    <3>3. "project" \in DOMAIN at'[r] /\ at'[r].project = p
      BY <3>1
    <3>4. query'[r] = query[r]
      BY <1>1
    <3>5. Searched(query[r])' = Searched(query[r])
      BY <3>4 DEF Searched
    <3> QED  BY <2>2, <3>1, <3>2, <3>3, <3>5 DEF Searching, Explained, Active
  <2>3. CASE todo[r] # <<>> /\ p \notin Projects
    <3>1. pc'[r] = "failed"
      BY <2>3 DEF NextProject, Goto, FailureInv, ReaderType
    <3>2. p \in Searched(query[r])
      BY <1>1, <2>3, HeadTailProperties
    <3>3. ~(Searched(query'[r]) \subseteq Projects)
      BY <1>1, <2>3, <3>2
    <3> QED  BY <3>1, <3>3 DEF Searching, Explained, Active
  <2> QED  BY <2>1, <2>2, <2>3
<1> QED  BY <1>3, <1>4, <1>5 DEF FailureInv

\* A lookup that fails was for a box in another frame.
LEMMA TransformQueryKeeps ==
  ASSUME FailureInv, NEW r \in Readers, TransformQuery(r)
  PROVE  FailureInv'
<1> DEFINE p == at[r].project
           b == query[r].box
<1>1. pc[r] \in Active \ {"project"} /\ UNCHANGED <<query, todo>>
  BY DEF TransformQuery, Active
<1>2. CASE /\ IF b = None THEN at' = at
              ELSE /\ CanTransform(p, b.frame)
                   /\ at' = [at EXCEPT ![r].box = TransformBox(p, b)]
           /\ Goto(r, "type")
  <2>1. UNCHANGED at \/ \E x : at' = [at EXCEPT ![r].box = x]
    BY <1>2
  <2>2. "type" \in Active
    BY DEF Active
  <2> QED  BY <1>1, <1>2, <2>1, <2>2, StaysInProject
<1>3. CASE /\ b # None /\ b.frame # MapFrame[p]
           /\ Goto(r, "failed") /\ UNCHANGED at
  <2>1. p \in Searched(query[r]) \cap Projects
    BY <1>1 DEF FailureInv, Searching
  <2>2. pc'[r] = "failed" /\ \A s \in Readers \ {r} : pc'[s] = pc[s]
    BY <1>3 DEF Goto, FailureInv, ReaderType
  <2>3. ReaderType'
    BY <1>1, <1>3 DEF FailureInv, ReaderType, Goto
  <2>4. \A s \in Readers \ {r} : Searching(s)' /\ Explained(s)'
    BY <1>1, <1>3, <2>2 DEF FailureInv, Searching, Explained
  <2>5. Searching(r)' /\ Explained(r)'
    BY <1>1, <1>3, <2>1, <2>2 DEF Searching, Explained, Active
  <2> QED  BY <2>3, <2>4, <2>5 DEF FailureInv
<1> QED  BY <1>2, <1>3 DEF TransformQuery

LEMMA GoingOnKeeps ==
  ASSUME FailureInv, NEW r \in Readers,
         \/ TryAddingDataWithMissingTF(r)
         \/ QuerySpatial(r) \/ QueryTemporal(r) \/ QuerySemantic(r) \/ QueryInstances(r)
         \/ QueryUuids(r) \/ Collect(r)
  PROVE  FailureInv'
<1>1. /\ pc[r] \in Active \ {"project"} /\ UNCHANGED <<query, todo, at>>
      /\ \E l \in Active : Goto(r, l)
  BY DEF TryAddingDataWithMissingTF, QuerySpatial, QueryTemporal, QuerySemantic, QueryInstances,
         QueryUuids, Filter, Collect, Active
<1> QED  BY <1>1, StaysInProject

LEMMA NextTypeKeeps ==
  ASSUME FailureInv, NEW r \in Readers, NextType(r)
  PROVE  FailureInv'
<1>1. pc[r] \in Active \ {"project"} /\ UNCHANGED <<query, todo>>
  BY DEF NextType, Active
<1>2. \E l \in Active : Goto(r, l)
  BY DEF NextType, Active
<1>3. UNCHANGED at \/ \E d : at' = [at EXCEPT ![r].type = d]
  BY DEF NextType
<1> QED  BY <1>1, <1>2, <1>3, StaysInProject

LEMMA FailureInvHolds == Spec => []FailureInv
<1>1. Init => FailureInv
  BY DEF Init, FailureInv, ReaderType, Searching, Explained, Active
<1>2. FailureInv /\ [Next]_vars => FailureInv'
  <2> SUFFICES ASSUME FailureInv, [Next]_vars
               PROVE  FailureInv'
    OBVIOUS
  <2>1. CASE UNCHANGED vars
    BY <2>1, FailureStutter DEF vars
  <2>2. ASSUME NEW w \in Writers,
               \/ \E m \in Uploads : AddDataset(w, m)
               \/ Place(w) \/ AddTime(w) \/ AddLabel(w)
               \/ FindInstance(w) \/ CreateInstance(w) \/ MapInstances(w)
        PROVE  FailureInv'
    <3>1. UNCHANGED readVars
      BY <2>2 DEF AddDataset, Place, AddTime, AddLabel, FindInstance, CreateInstance,
                  MapInstances
    <3> QED  BY <3>1, FailureStutter DEF readVars
  <2>3. ASSUME NEW t \in Transforms, AddTF(t[1], t[2])
        PROVE  FailureInv'
    BY <2>3, FailureStutter DEF AddTF, readVars
  <2>4. ASSUME NEW r \in Readers, ReadStep(r)
        PROVE  FailureInv'
    <3>1. CASE Intersect(r)
      BY <3>1, FailureStutter DEF Intersect
    <3> QED
      BY <2>4, <3>1, ReceiveKeeps, NextProjectKeeps, TransformQueryKeeps, NextTypeKeeps,
         GoingOnKeeps DEF ReadStep
  <2> QED  BY <2>1, <2>2, <2>3, <2>4 DEF Next, ReadStep
<1> QED  BY <1>1, <1>2, PTL DEF Spec

\* A query fails only for a project the server does not have or a box in another
\* frame, whatever uploads and queries overlap it (core.cpp:187, core-tf.cpp:105).
THEOREM Failures == Spec => []FailureExplained
<1>1. FailureInv => FailureExplained
  BY DEF FailureInv, Explained, FailureExplained
<1> QED  BY <1>1, FailureInvHolds, PTL
=============================================================================
