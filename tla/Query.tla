------------------------------- MODULE Query -------------------------------
(***************************************************************************)
(* Queries over the projects of a SEEREP server while datasets are being   *)
(* added (seerep-core: Core, CoreProject, CoreDataset, CoreInstances, and  *)
(* the conversions of queries of the two service families).                *)
(*                                                                         *)
(* gRPC runs the handlers on several threads and none of these classes has *)
(* a lock: a query reads the spatial, temporal, semantic and instance      *)
(* index one after the other while uploads fill them in the same order.    *)
(* A step here is one visit of one of these containers.  The module takes  *)
(* a visit as atomic; what two threads inside the same container do to it  *)
(* is undefined in C++ and out of its scope.                               *)
(*                                                                         *)
(* CoreIndex looks at the same containers one whole request at a time,     *)
(* with the file and restarts.  Abstracted here: a coordinate is one       *)
(* integer; transforms do not change with time; a stamp is its key.        *)
(***************************************************************************)
EXTENDS Integers, Sequences, FiniteSets

CONSTANTS
  ProjectUuids,  \* the project uuids a query may name
  Projects,      \* those the server has
  Frames,        \* tf frames
  MapFrame,      \* per project: the frame of its spatial index
  Shift,         \* per frame: its origin, in the map frame
  Turned,        \* the frames that are turned by half a turn against the map frame
  Nil,           \* the instance uuid that is all zeros
  None,          \* a field that is not set
  Uploads,       \* the datasets clients may send
  Transforms,    \* the transforms they may send: <<project, frame>>
  FbQueries,     \* the queries of clients of the flatbuffer services
  PbQueries,     \* the queries of clients of the protobuf services
  Writers,       \* handler threads that add a dataset
  Readers,       \* handler threads that run a query
  MaxUploads,    \* bound on the uploads
  MaxQueries     \* bound on the queries

Datatypes == {"Image", "PointCloud", "Point"}
Unknown == "Unknown"

IsBox(b) == b.frame \in Frames /\ b.lo \in Int /\ b.hi \in Int

ASSUME ConstantsAssumption ==
  /\ Projects \subseteq ProjectUuids
  /\ MapFrame \in [Projects -> Frames]
  /\ Shift \in [Frames -> Int]
  /\ Turned \subseteq Frames
  /\ IsFiniteSet(Projects)
  /\ \A m \in Uploads : /\ m.project \in Projects /\ m.type \in Datatypes
                        /\ IsBox(m.box) /\ m.time \in Int
                        /\ Len(m.labels) \in Nat /\ DOMAIN m.labels = 1 .. Len(m.labels)
  /\ \A x \in FbQueries \cup PbQueries :
        /\ x.projectuuid = None \/ x.projectuuid \in Seq(ProjectUuids)
        /\ x.boundingbox = None \/ IsBox(x.boundingbox)
  /\ \A x \in FbQueries : x.kind \in {"data", "instances"}
  /\ \A t \in Transforms : t[1] \in Projects /\ t[2] \in Frames \ {MapFrame[t[1]]}
  /\ MaxUploads \in Nat /\ MaxQueries \in Nat

VARIABLES
  tf,                \* per project: the frames the tf2 buffer connects to the map frame
  rt,                \* the spatial R-trees: [project, type, uuid, lo, hi], in the map frame
  dataWithMissingTF, \* the datasets that wait for their transform
  timetree,          \* the temporal R-trees: [project, type, uuid, time]
  labelDatasets,     \* labelDatasetsMap: <<project, type, label, uuid>>
  instLabel,         \* the instances of m_instances and their label: <<project, inst, label>>
  instDatasets,      \* what they show: <<project, inst, type, uuid>>
  datasetInstances,  \* datasetInstancesMap: [project, type, uuid, insts]
  writer,            \* per writer: the program counter, the dataset, the position in its labels
  begun, stored,     \* history: the datasets whose upload has begun, or is answered
  pc,                \* per reader: the program counter
  query,             \* per reader: the query
  todo,              \* per reader: the projects still to search
  types,             \* per reader: the datatypes still to search in the project
  at,                \* per reader: the project and the datatype searched, the box in its map frame
  parts,             \* per reader: idsPerSingleModality, the result of each filter
  answer,            \* per reader: the result so far, <<project, uuid>>
  before,            \* history, per reader: what there was when the query was received
  queries            \* the number of queries received

treeVars == <<rt, dataWithMissingTF>>
instVars == <<instLabel, instDatasets>>
indexVars == <<treeVars, timetree, labelDatasets, instVars, datasetInstances>>
uploadVars == <<writer, begun, stored>>
readVars == <<pc, query, todo, types, at, parts, answer, before, queries>>
vars == <<tf, rt, dataWithMissingTF, timetree, labelDatasets, instLabel, instDatasets,
          datasetInstances, writer, begun, stored, pc, query, todo, types, at, parts, answer,
          before, queries>>

NoDataset == [pc |-> "idle", m |-> None, k |-> 0]

Init ==
  /\ tf = [p \in Projects |-> {}]
  /\ rt = {} /\ dataWithMissingTF = {}
  /\ timetree = {}
  /\ labelDatasets = {}
  /\ instLabel = {} /\ instDatasets = {}
  /\ datasetInstances = {}
  /\ writer = [w \in Writers |-> NoDataset]
  /\ begun = {} /\ stored = {}
  /\ pc = [r \in Readers |-> "idle"]
  /\ query = [r \in Readers |-> None]
  /\ todo = [r \in Readers |-> <<>>]
  /\ types = [r \in Readers |-> {}]
  /\ at = [r \in Readers |-> None]
  /\ parts = [r \in Readers |-> <<>>]
  /\ answer = [r \in Readers |-> {}]
  /\ before = [r \in Readers |-> None]
  /\ queries = 0

-----------------------------------------------------------------------------
(* Boxes.  transformAABB and transformQuery move the two corners of a box   *)
(* and do not sort them again: a box of a turned frame comes out inverted.  *)

InMap(frame, x) == IF frame \in Turned THEN Shift[frame] - x ELSE Shift[frame] + x

TransformBox(p, b) ==
  IF b.frame = MapFrame[p] THEN [lo |-> b.lo, hi |-> b.hi]
                           ELSE [lo |-> InMap(b.frame, b.lo), hi |-> InMap(b.frame, b.hi)]

Intersects(a, b) == a.lo <= b.hi /\ b.lo <= a.hi

CanTransform(p, frame) == frame = MapFrame[p] \/ frame \in tf[p]

RtEntry(m) ==
  [project |-> m.project, type |-> m.type, uuid |-> m.uuid,
   lo |-> TransformBox(m.project, m.box).lo, hi |-> TransformBox(m.project, m.box).hi]

-----------------------------------------------------------------------------
(* Uploads: CoreDataset::addDatasetToIndices, for a dataset with a uuid.    *)

ToWriter(w, l, k) == writer' = [writer EXCEPT ![w].pc = l, ![w].k = k]
Leave(w) == writer' = [writer EXCEPT ![w] = NoDataset]
WriterAt(w, l) == writer[w].pc = l

AddDataset(w, m) ==
  /\ WriterAt(w, "idle")
  /\ m \notin begun
  /\ Cardinality(begun) < MaxUploads
  /\ begun' = begun \cup {m}
  /\ writer' = [writer EXCEPT ![w] = [pc |-> "place", m |-> m, k |-> 1]]
  /\ UNCHANGED <<tf, indexVars, stored, readVars>>

\* Wrong on purpose, as every definition named Wrong...: a dataset without a
\* transform is dropped.
WrongPlaceDrops(w) ==
  LET m == writer[w].m
  IN  /\ WriterAt(w, "place")
      /\ rt' = IF CanTransform(m.project, m.box.frame) THEN rt \cup {RtEntry(m)} ELSE rt
      /\ ToWriter(w, "time", 1)
      /\ UNCHANGED <<tf, dataWithMissingTF, timetree, labelDatasets, instVars, datasetInstances,
                     begun, stored, readVars>>

Place(w) ==
  LET m == writer[w].m
  IN  /\ WriterAt(w, "place")
      /\ \/ /\ CanTransform(m.project, m.box.frame)
            /\ rt' = rt \cup {RtEntry(m)}
            /\ UNCHANGED dataWithMissingTF
         \/ /\ ~CanTransform(m.project, m.box.frame)
            /\ dataWithMissingTF' = dataWithMissingTF \cup {m}
            /\ UNCHANGED rt
      /\ ToWriter(w, "time", 1)
      /\ UNCHANGED <<tf, timetree, labelDatasets, instVars, datasetInstances, begun, stored,
                     readVars>>

AddTime(w) ==
  LET m == writer[w].m
  IN  /\ WriterAt(w, "time")
      /\ timetree' = timetree \cup
           {[project |-> m.project, type |-> m.type, uuid |-> m.uuid, time |-> m.time]}
      /\ ToWriter(w, "label", 1)
      /\ UNCHANGED <<tf, treeVars, labelDatasets, instVars, datasetInstances, begun, stored,
                     readVars>>

AddLabel(w) ==
  LET m == writer[w].m
      k == writer[w].k
  IN  /\ WriterAt(w, "label")
      /\ k <= Len(m.labels)
      /\ labelDatasets' = labelDatasets \cup {<<m.project, m.type, m.labels[k].label, m.uuid>>}
      /\ \/ m.labels[k].inst = Nil /\ ToWriter(w, "label", k + 1)
         \/ m.labels[k].inst # Nil /\ ToWriter(w, "find", k)
      /\ UNCHANGED <<tf, treeVars, timetree, instVars, datasetInstances, begun, stored,
                     readVars>>

Known(p, i) == \E l \in instLabel : l[1] = p /\ l[2] = i

\* CoreInstances::addDataset looks for the instance.  It joins a known one,
\* unless the labels differ, which ends the upload with an exception.
FindInstance(w) ==
  LET m == writer[w].m
      k == writer[w].k
      i == m.labels[k].inst
  IN  /\ WriterAt(w, "find")
      /\ \/ /\ <<m.project, i, m.labels[k].label>> \in instLabel
            /\ instDatasets' = instDatasets \cup {<<m.project, i, m.type, m.uuid>>}
            /\ ToWriter(w, "label", k + 1)
         \/ /\ Known(m.project, i)
            /\ <<m.project, i, m.labels[k].label>> \notin instLabel
            /\ Leave(w)
            /\ UNCHANGED instDatasets
         \/ /\ ~Known(m.project, i)
            /\ ToWriter(w, "create", k)
            /\ UNCHANGED instDatasets
      /\ UNCHANGED <<tf, treeVars, timetree, labelDatasets, instLabel, datasetInstances, begun,
                     stored, readVars>>

\* Wrong: the dataset joins the instance another thread has created, unasked.
WrongCreateInstanceJoins(w) ==
  LET m == writer[w].m
      k == writer[w].k
      i == m.labels[k].inst
  IN  /\ WriterAt(w, "create")
      /\ instLabel' = IF Known(m.project, i) THEN instLabel
                      ELSE instLabel \cup {<<m.project, i, m.labels[k].label>>}
      /\ instDatasets' = instDatasets \cup {<<m.project, i, m.type, m.uuid>>}
      /\ ToWriter(w, "label", k + 1)
      /\ UNCHANGED <<tf, treeVars, timetree, labelDatasets, datasetInstances, begun,
                     stored, readVars>>

\* createNewInstance reads and writes the file and then emplaces, which leaves
\* an instance alone that another thread has created since: the dataset then
\* joins an object nobody will find.
CreateInstance(w) ==
  LET m == writer[w].m
      k == writer[w].k
      i == m.labels[k].inst
  IN  /\ WriterAt(w, "create")
      /\ \/ /\ ~Known(m.project, i)
            /\ instLabel' = instLabel \cup {<<m.project, i, m.labels[k].label>>}
            /\ instDatasets' = instDatasets \cup {<<m.project, i, m.type, m.uuid>>}
         \/ /\ Known(m.project, i)
            /\ UNCHANGED instVars
      /\ ToWriter(w, "label", k + 1)
      /\ UNCHANGED <<tf, treeVars, timetree, labelDatasets, datasetInstances, begun, stored,
                     readVars>>

\* Wrong: the nil instance is collected too.
WrongInstancesIn(m) == {m.labels[k].inst : k \in DOMAIN m.labels}

InstancesIn(m) == {m.labels[k].inst : k \in DOMAIN m.labels} \ {Nil}

\* emplace again: the instances of an earlier upload of the uuid stay
MapInstances(w) ==
  LET m == writer[w].m
      known == \E e \in datasetInstances :
                  e.project = m.project /\ e.type = m.type /\ e.uuid = m.uuid
  IN  /\ WriterAt(w, "label")
      /\ writer[w].k > Len(m.labels)
      /\ datasetInstances' =
           IF known THEN datasetInstances
           ELSE datasetInstances \cup {[project |-> m.project, type |-> m.type,
                                        uuid |-> m.uuid, insts |-> InstancesIn(m)]}
      /\ stored' = stored \cup {m}
      /\ Leave(w)
      /\ UNCHANGED <<tf, treeVars, timetree, labelDatasets, instVars, begun, readVars>>

\* CoreTf::addDataset
AddTF(p, frame) ==
  /\ frame \notin tf[p]
  /\ tf' = [tf EXCEPT ![p] = @ \cup {frame}]
  /\ UNCHANGED <<indexVars, uploadVars, readVars>>

-----------------------------------------------------------------------------
(* Queries.  The flatbuffer conversion sets a filter when the field is      *)
(* present, with whatever list it holds; the protobuf conversion sets one   *)
(* when the list is not empty, and knows no filter by instance or uuid.     *)

FromFb(x) ==
  [kind |-> x.kind, type |-> x.type, projects |-> x.projectuuid, box |-> x.boundingbox,
   time |-> x.timeinterval, label |-> x.label, instances |-> x.instanceuuid,
   dataUuids |-> x.datauuid]

FromPb(x) ==
  [kind |-> "data", type |-> x.type,
   projects |-> IF x.projectuuid = <<>> THEN None ELSE x.projectuuid,
   box |-> x.boundingbox, time |-> x.timeinterval,
   label |-> IF x.label = {} THEN None ELSE x.label,
   instances |-> None, dataUuids |-> None]

Queries == {FromFb(x) : x \in FbQueries} \cup {FromPb(x) : x \in PbQueries}

\* the order of m_projects, an unordered map
Orders == {s \in [1 .. Cardinality(Projects) -> Projects] :
             \A p \in Projects : \E i \in DOMAIN s : s[i] = p}

Goto(r, l) == pc' = [pc EXCEPT ![r] = l]
PushPart(r, ids) == parts' = [parts EXCEPT ![r] = Append(@, ids)]

Receive(r, q) ==
  /\ pc[r] \in {"idle", "answered", "failed"}
  /\ queries < MaxQueries
  /\ queries' = queries + 1
  /\ query' = [query EXCEPT ![r] = q]
  /\ \/ q.projects # None /\ todo' = [todo EXCEPT ![r] = q.projects]
     \/ q.projects = None /\ \E s \in Orders : todo' = [todo EXCEPT ![r] = s]
  /\ answer' = [answer EXCEPT ![r] = {}]
  /\ before' = [before EXCEPT ![r] = [stored |-> stored, tf |-> tf, shown |-> instDatasets]]
  /\ Goto(r, "project")
  /\ UNCHANGED <<tf, indexVars, uploadVars, types, at, parts>>

\* Core::getDataset, Core::getInstances: findProject throws for an unknown one
NextProject(r) ==
  LET p == Head(todo[r])
  IN  /\ pc[r] = "project"
      /\ \/ todo[r] = <<>> /\ Goto(r, "answered") /\ UNCHANGED <<todo, at>>
         \/ /\ todo[r] # <<>> /\ p \in Projects
            /\ todo' = [todo EXCEPT ![r] = Tail(@)]
            /\ at' = [at EXCEPT ![r] = [project |-> p, type |-> Unknown, box |-> None]]
            /\ Goto(r, "transform")
         \/ todo[r] # <<>> /\ p \notin Projects /\ Goto(r, "failed") /\ UNCHANGED <<todo, at>>
      /\ UNCHANGED <<tf, indexVars, uploadVars, query, types, parts, answer, before, queries>>

\* Wrong: the lookup happens also when the box is in the map frame.
WrongTransformQueryLooksUp(r) ==
  LET p == at[r].project
      b == query[r].box
  IN  /\ pc[r] = "transform"
      /\ \/ /\ IF b = None THEN at' = at
               ELSE /\ CanTransform(p, b.frame)
                    /\ at' = [at EXCEPT ![r].box = TransformBox(p, b)]
            /\ types' = [types EXCEPT ![r] =
                           IF query[r].type = Unknown THEN Datatypes ELSE {query[r].type}]
            /\ Goto(r, "type")
         \/ /\ b # None
            /\ Goto(r, "failed")
            /\ UNCHANGED <<at, types>>
      /\ UNCHANGED <<tf, indexVars, uploadVars, query, todo, parts, answer, before, queries>>

\* CoreTf::transformQuery asks for the transform at header.timestamp, which no
\* conversion sets: the lookup in a known frame succeeds or throws.
TransformQuery(r) ==
  LET p == at[r].project
      b == query[r].box
  IN  /\ pc[r] = "transform"
      /\ \/ /\ IF b = None THEN at' = at
               ELSE /\ CanTransform(p, b.frame)
                    /\ at' = [at EXCEPT ![r].box = TransformBox(p, b)]
            /\ types' = [types EXCEPT ![r] =
                           IF query[r].type = Unknown THEN Datatypes ELSE {query[r].type}]
            /\ Goto(r, "type")
         \/ /\ b # None /\ b.frame # MapFrame[p]
            /\ Goto(r, "failed")
            /\ UNCHANGED <<at, types>>
      /\ UNCHANGED <<tf, indexVars, uploadVars, query, todo, parts, answer, before, queries>>

\* CoreDataset::getInstances goes through the datatypes when none is given
NextType(r) ==
  /\ pc[r] = "type"
  /\ \/ types[r] = {} /\ Goto(r, "project") /\ UNCHANGED <<types, at>>
     \/ \E d \in types[r] :
          /\ types' = [types EXCEPT ![r] = @ \ {d}]
          /\ at' = [at EXCEPT ![r].type = d]
          /\ Goto(r, "waiting")
  /\ UNCHANGED <<tf, indexVars, uploadVars, query, todo, parts, answer, before, queries>>

TryAddingDataWithMissingTF(r) ==
  LET ready == {m \in dataWithMissingTF : /\ m.project = at[r].project /\ m.type = at[r].type
                                          /\ CanTransform(m.project, m.box.frame)}
  IN  /\ pc[r] = "waiting"
      /\ rt' = rt \cup {RtEntry(m) : m \in ready}
      /\ dataWithMissingTF' = dataWithMissingTF \ ready
      /\ parts' = [parts EXCEPT ![r] = <<>>]
      /\ Goto(r, "spatial")
      /\ UNCHANGED <<tf, timetree, labelDatasets, instVars, datasetInstances, uploadVars, query,
                     todo, types, at, answer, before, queries>>

Here(r, e) == e.project = at[r].project /\ e.type = at[r].type

\* One filter of getData: its result joins the parts when the query sets it.
Filter(r, from, set, ids, to) ==
  /\ pc[r] = from
  /\ \/ set /\ PushPart(r, ids)
     \/ ~set /\ UNCHANGED parts
  /\ Goto(r, to)
  /\ UNCHANGED <<tf, indexVars, uploadVars, query, todo, types, at, answer, before, queries>>

QuerySpatial(r) ==
  Filter(r, "spatial", query[r].box # None,
         {e.uuid : e \in {e \in rt : Here(r, e) /\ Intersects(at[r].box, e)}}, "temporal")

QueryTemporal(r) ==
  Filter(r, "temporal", query[r].time # None,
         {e.uuid : e \in {e \in timetree : Here(r, e) /\ query[r].time.min <= e.time
                                           /\ e.time <= query[r].time.max}}, "semantic")

QuerySemantic(r) ==
  Filter(r, "semantic", query[r].label # None,
         {e[4] : e \in {e \in labelDatasets : /\ e[1] = at[r].project /\ e[2] = at[r].type
                                              /\ e[3] \in query[r].label}}, "instances")

\* an empty result counts as no filter
ShowingInstances(r) ==
  {e[4] : e \in {e \in instDatasets : /\ e[1] = at[r].project /\ e[3] = at[r].type
                                      /\ e[2] \in query[r].instances}}

QueryInstances(r) ==
  Filter(r, "instances", query[r].instances # None /\ ShowingInstances(r) # {},
         ShowingInstances(r), "uuids")

Unfiltered(q) ==
  /\ q.box = None /\ q.time = None /\ q.label = None
  /\ q.instances = None /\ q.dataUuids = None

\* getAllDatasetUuids starts at the key of second 0
AllDatasetUuids(r) == {e.uuid : e \in {e \in timetree : Here(r, e) /\ e.time >= 0}}

QueryUuids(r) ==
  Filter(r, "uuids", Unfiltered(query[r]) \/ query[r].dataUuids # None,
         IF Unfiltered(query[r]) THEN AllDatasetUuids(r) ELSE query[r].dataUuids, "intersect")

\* Wrong: set_union for set_intersection.
WrongIntersectUnites(r) ==
  LET n == Len(parts[r])
  IN  /\ pc[r] = "intersect"
      /\ n > 1
      /\ parts' = [parts EXCEPT ![r] = Append(SubSeq(@, 1, n - 2), @[n - 1] \cup @[n])]
      /\ UNCHANGED <<tf, indexVars, uploadVars, pc, query, todo, types, at, answer, before, queries>>

\* intersectVectorOfSets: the last two sets become one
Intersect(r) ==
  LET n == Len(parts[r])
  IN  /\ pc[r] = "intersect"
      /\ n > 1
      /\ parts' = [parts EXCEPT ![r] = Append(SubSeq(@, 1, n - 2), @[n - 1] \cap @[n])]
      /\ UNCHANGED <<tf, indexVars, uploadVars, pc, query, todo, types, at, answer, before, queries>>

\* getUuidsFromMap
InstancesOf(r, ids) ==
  UNION {e.insts : e \in {e \in datasetInstances : Here(r, e) /\ e.uuid \in ids}}

Collect(r) ==
  LET ids == IF parts[r] = <<>> THEN {} ELSE parts[r][1]
      found == IF query[r].kind = "data" THEN ids ELSE InstancesOf(r, ids)
  IN  /\ pc[r] = "intersect"
      /\ Len(parts[r]) <= 1
      /\ answer' = [answer EXCEPT ![r] = @ \cup {<<at[r].project, u>> : u \in found}]
      /\ Goto(r, "type")
      /\ UNCHANGED <<tf, indexVars, uploadVars, query, todo, types, at, parts, before, queries>>

Next ==
  \/ \E w \in Writers : \/ \E m \in Uploads : AddDataset(w, m)
                        \/ Place(w) \/ AddTime(w) \/ AddLabel(w)
                        \/ FindInstance(w) \/ CreateInstance(w) \/ MapInstances(w)
  \/ \E t \in Transforms : AddTF(t[1], t[2])
  \/ \E r \in Readers : \/ \E q \in Queries : Receive(r, q)
                        \/ NextProject(r) \/ TransformQuery(r) \/ NextType(r)
                        \/ TryAddingDataWithMissingTF(r)
                        \/ QuerySpatial(r) \/ QueryTemporal(r) \/ QuerySemantic(r)
                        \/ QueryInstances(r) \/ QueryUuids(r)
                        \/ Intersect(r) \/ Collect(r)

Spec == Init /\ [][Next]_vars

-----------------------------------------------------------------------------
(* What a query means, from the messages alone.                             *)

\* the coordinates in the map frame that a box takes up, whichever corner comes first
Covered(p, b) ==
  {IF b.frame = MapFrame[p] THEN x ELSE InMap(b.frame, x) :
     x \in (b.lo .. b.hi) \cup (b.hi .. b.lo)}

InSpace(q, m) == q.box = None \/ Covered(m.project, q.box) \cap Covered(m.project, m.box) # {}
InTime(q, m) == q.time = None \/ (q.time.min <= m.time /\ m.time <= q.time.max)
HasLabel(q, m) == q.label = None \/ \E k \in DOMAIN m.labels : m.labels[k].label \in q.label
ShowsInstance(q, m) == q.instances = None \/ InstancesIn(m) \cap q.instances # {}
IsListed(q, m) == q.dataUuids = None \/ m.uuid \in q.dataUuids

Searched(q) == IF q.projects = None THEN Projects ELSE {q.projects[i] : i \in DOMAIN q.projects}
TypesOf(q) == IF q.type = Unknown THEN Datatypes ELSE {q.type}

Wanted(q, m) ==
  /\ m.project \in Searched(q) /\ m.type \in TypesOf(q)
  /\ InSpace(q, m) /\ InTime(q, m) /\ HasLabel(q, m) /\ ShowsInstance(q, m) /\ IsListed(q, m)

\* What the index needs to find m: its transform and boxes that are not
\* inverted, an instance that knows it, a stamp that is not before second 0.
Upright(p, b) ==
  b.lo = b.hi \/ (b.lo < b.hi /\ (b.frame = MapFrame[p] \/ b.frame \notin Turned))
Findable(r, m) ==
  LET q == query[r]
  IN  /\ q.box # None => /\ m.box.frame = MapFrame[m.project]
                            \/ m.box.frame \in before[r].tf[m.project]
                         /\ Upright(m.project, q.box) /\ Upright(m.project, m.box)
      /\ q.instances # None => \E i \in q.instances :
                                  <<m.project, i, m.type, m.uuid>> \in before[r].shown
      /\ Unfiltered(q) => m.time >= 0

Answered(r, m) ==
  \/ query[r].kind = "data" /\ <<m.project, m.uuid>> \in answer[r]
  \/ /\ query[r].kind = "instances"
     /\ \E e \in datasetInstances : /\ e.project = m.project /\ e.type = m.type /\ e.uuid = m.uuid
                                    /\ \A i \in e.insts : <<m.project, i>> \in answer[r]

-----------------------------------------------------------------------------
(* Properties.                                                              *)

Instances == UNION {{m.labels[k].inst : k \in DOMAIN m.labels} : m \in Uploads}

\* Every variable has its type: the index holds entries of datasets whose upload
\* has begun, no instance is nil, and a query searches the projects of the server.
TypeOK ==
  /\ \A p \in Projects : tf[p] \subseteq Frames \ {MapFrame[p]}
  /\ stored \subseteq begun /\ begun \subseteq Uploads
  /\ dataWithMissingTF \subseteq begun
  /\ rt \subseteq {RtEntry(m) : m \in begun}
  /\ timetree \subseteq {[project |-> m.project, type |-> m.type, uuid |-> m.uuid,
                          time |-> m.time] : m \in begun}
  /\ \A l \in instLabel : l[1] \in Projects /\ l[2] \in Instances
  /\ \A e \in instDatasets : Known(e[1], e[2])
  /\ \A e \in datasetInstances : e.insts \subseteq Instances \ {Nil}
  /\ \A w \in Writers : writer[w] # NoDataset => writer[w].m \in begun
  /\ \A r \in Readers : pc[r] \notin {"idle", "project", "answered", "failed"} =>
                          at[r].project \in Projects

\* A query that is answered found every dataset that was completely added when
\* it was received, matches it, and can be found, whatever uploads, transforms
\* and other queries overlap it (CoreDataset::getData, core-dataset.h:79).
AnswersComplete ==
  \A r \in Readers : pc[r] = "answered" =>
    \A m \in before[r].stored : Wanted(query[r], m) /\ Findable(r, m) => Answered(r, m)

\* What a query answers with was sent by somebody, of a datatype and to a project
\* that the query asks for, and passes each filter of the query, with two
\* exceptions: the filter by instance does not count when no dataset shows the
\* instances, and when a list of uuids is the only filter that is left, the
\* uuids of the list are the answer, whether or not a dataset has them
\* (CoreDataset::intersectQueryResults).
Sent(p, d, u) == {m \in begun : m.project = p /\ m.type = d /\ m.uuid = u}

NothingShown(r, p, d) ==
  \A e \in before[r].shown : ~(e[1] = p /\ e[3] = d /\ e[2] \in query[r].instances)

Passes(r, p, d, u) ==
  LET q == query[r]
      sent == Sent(p, d, u)
  IN  /\ \E m \in sent : InSpace(q, m)
      /\ \E m \in sent : InTime(q, m)
      /\ \E m \in sent : HasLabel(q, m)
      /\ (\E m \in sent : ShowsInstance(q, m)) \/ NothingShown(r, p, d)
      /\ q.dataUuids = None \/ u \in q.dataUuids

OnlyListed(r, p, d, u) ==
  LET q == query[r]
  IN  /\ q.box = None /\ q.time = None /\ q.label = None
      /\ q.instances = None \/ NothingShown(r, p, d)
      /\ q.dataUuids # None /\ u \in q.dataUuids

Matches(r, p, d, u) == Passes(r, p, d, u) \/ OnlyListed(r, p, d, u)

AnswersMatch ==
  \A r \in Readers : pc[r] = "answered" =>
    \A a \in answer[r] :
      /\ a[1] \in Searched(query[r])
      /\ \E d \in TypesOf(query[r]) :
           \/ query[r].kind = "data" /\ Matches(r, a[1], d, a[2])
           \/ /\ query[r].kind = "instances"
              /\ \E m \in begun : /\ m \in Sent(a[1], d, m.uuid) /\ a[2] \in InstancesIn(m)
                                  /\ Matches(r, a[1], d, m.uuid)

\* A query fails only for a project the server does not have, or for a box in a
\* frame that is not the map frame of a project it searches (Core::findProject,
\* CoreTf::transformQuery).
FailureExplained ==
  \A r \in Readers : pc[r] = "failed" =>
    \/ ~(Searched(query[r]) \subseteq Projects)
    \/ /\ query[r].box # None
       /\ \E p \in Searched(query[r]) \cap Projects : query[r].box.frame # MapFrame[p]

\* An instance has one label and shows only datasets that were sent with this
\* label for it, also when two uploads create it at the same time
\* (core-instances.cpp:89).
InstanceLabelAgrees ==
  /\ \A a, b \in instLabel : a[1] = b[1] /\ a[2] = b[2] => a = b
  /\ \A e \in instDatasets : \E m \in begun, l \in instLabel :
       /\ m.project = e[1] /\ m.type = e[3] /\ m.uuid = e[4]
       /\ l[1] = e[1] /\ l[2] = e[2]
       /\ \E k \in DOMAIN m.labels : m.labels[k].inst = e[2] /\ m.labels[k].label = l[3]

\* core-instance.h:29, "The UUID of all data showing the instances are stored".
InstancesKnowData ==
  \A m \in stored : \A i \in InstancesIn(m) : <<m.project, i, m.type, m.uuid>> \in instDatasets

=============================================================================
