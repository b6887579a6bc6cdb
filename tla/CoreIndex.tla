------------------------------ MODULE CoreIndex ------------------------------
(***************************************************************************)
(* The spatial, temporal and semantic index of one SEEREP project          *)
(* (seerep-core: CoreProject, CoreDataset, CoreInstances, CoreInstance,    *)
(* CoreTf), the HDF5 file the index is rebuilt from, and the handlers that *)
(* write both: image, point and point cloud uploads, bounding boxes added  *)
(* later, transforms, queries, and a restart of the server.                *)
(*                                                                         *)
(* A handler is one step here: this module is about what a sequence of     *)
(* requests and restarts does to the two copies.  The HDF5 steps inside a  *)
(* handler, and handlers that overlap, belong to other modules.            *)
(*                                                                         *)
(* Abstracted: payloads (pixels, points, boxes) are left out; a label list *)
(* keeps the order the code visits it in; a list of uuids that every       *)
(* reader turns into a std::set is a set.                                  *)
(***************************************************************************)
EXTENDS Integers, Sequences, FiniteSets

CONSTANTS
  Uuids,        \* uuids of datasets; the order of the numbers is the order of the names in the file
  Frames,       \* tf frames a header may name
  MapFrame,     \* the frame of the project
  Times,        \* time stamps; 0 is "the latest transform" to tf2
  Labels,       \* label texts
  Instances,    \* uuids of instances
  Nil,          \* the instance uuid that is all zeros
  Malformed,    \* an instance text that is no uuid; the empty text is one
  LabelLists,   \* the label lists a message may carry
  None,         \* no value
  MaxRequests,  \* bound on the requests that write
  MaxRestarts   \* bound on the restarts

Datatypes == {"Image", "PointCloud", "Point"}
NilUuid == 0

LabelsWithInstance == [label : Labels, inst : Instances \cup {Nil, Malformed}]
Headers == [frame : Frames, time : Times]
Entries == [uuid : Uuids, frame : Frames, time : Times]
Transforms == Frames \X Times

ASSUME ConstantsAssumption ==
  /\ Uuids \subseteq Nat
  /\ Times \subseteq Nat
  /\ MapFrame \in Frames
  /\ Nil \notin Instances /\ Malformed \notin Instances /\ Nil # Malformed
  /\ None \notin Labels /\ None \notin Headers
  /\ LabelLists \subseteq Seq(LabelsWithInstance)
  /\ <<>> \in LabelLists
  /\ MaxRequests \in Nat /\ MaxRestarts \in Nat

VARIABLES
  \* the HDF5 file
  fileHeader,        \* per group and uuid: the header attributes, or None
  fileGeneral,       \* per group and uuid: labelGeneral and its instances; <<>> when not written
  fileBB,            \* per group and uuid: labelBB, boxes and instances; <<>> when not written
  fileTf,            \* the rows of the tf group
  fileInst,          \* the label attribute of the group instance/<uuid>, None when there is no such group
  \* the index, in memory
  tfBuffer,          \* what the tf2 buffer holds: <<child frame, time>>, parent is the map frame
  rt,                \* per datatype: how often an entry is in the spatial R-tree
  dataWithMissingTF, \* per datatype: how often an entry waits for its transform
  timetree,          \* per datatype: how often an entry is in the temporal R-tree
  labelDatasets,     \* per datatype and label: the uuids annotated with it
  instancesKnown,    \* per datatype: the uuids that are keys of datasetInstancesMap
  datasetInstances,  \* per datatype and uuid: the value under that key
  instLabel,         \* CoreInstance: the label attribute, None when there is no such instance
  instDatasets,      \* CoreInstance: per datatype, the uuids showing the instance
  \* the run of the server
  toLoad,            \* the datasets the startup has still to read; {} once requests are served
  requests, restarts

fileLabels == <<fileGeneral, fileBB>>
fileVars == <<fileHeader, fileGeneral, fileBB, fileTf>>
spatial == <<rt, dataWithMissingTF>>
semantic == <<labelDatasets, instancesKnown, datasetInstances, instLabel, instDatasets, fileInst>>
indexVars == <<rt, dataWithMissingTF, timetree, labelDatasets, instancesKnown,
               datasetInstances, instLabel, instDatasets, fileInst>>
control == <<toLoad, requests, restarts>>
vars == <<fileHeader, fileGeneral, fileBB, fileTf, fileInst, tfBuffer, rt, dataWithMissingTF,
          timetree, labelDatasets, instancesKnown, datasetInstances, instLabel, instDatasets,
          toLoad, requests, restarts>>

-----------------------------------------------------------------------------
(* The index of a project nothing was added to.                            *)

NoEntries == [d \in Datatypes |-> [e \in Entries |-> 0]]
NoUuids == [d \in Datatypes |-> {}]

Init ==
  /\ fileHeader = [g \in Datatypes |-> [u \in Uuids |-> None]]
  /\ fileGeneral = [g \in Datatypes |-> [u \in Uuids |-> <<>>]]
  /\ fileBB = [g \in Datatypes |-> [u \in Uuids |-> <<>>]]
  /\ fileTf = {}
  /\ fileInst = [i \in Instances |-> None]
  /\ tfBuffer = {}
  /\ rt = NoEntries
  /\ dataWithMissingTF = NoEntries
  /\ timetree = NoEntries
  /\ labelDatasets = [d \in Datatypes |-> [l \in Labels |-> {}]]
  /\ instancesKnown = NoUuids
  /\ datasetInstances = [d \in Datatypes |-> [u \in Uuids |-> {}]]
  /\ instLabel = [i \in Instances |-> None]
  /\ instDatasets = [i \in Instances |-> NoUuids]
  /\ toLoad = {}
  /\ requests = 0
  /\ restarts = 0

-----------------------------------------------------------------------------
(* CoreTf.                                                                 *)

\* tf2's canTransform to the map frame: at once in the map frame, between two
\* known transforms of the frame, or from the latest one for time 0.
CanTransform(frame, time) ==
  \/ frame = MapFrame
  \/ \E a, b \in tfBuffer : /\ a[1] = frame /\ b[1] = frame
                            /\ a[2] <= time /\ time <= b[2]
  \/ time = 0 /\ \E a \in tfBuffer : a[1] = frame

Transformable(e) == CanTransform(e.frame, e.time)

-----------------------------------------------------------------------------
(* CoreInstances and the label loop of CoreDataset::addDatasetToIndices.   *)

\* The label instance i has when the loop over ls is done: the one it had, or
\* the one of its first mention, which creates it.
LabelOf(ls, i) ==
  IF instLabel[i] # None
  THEN instLabel[i]
  ELSE LET k == CHOOSE k \in DOMAIN ls :
                   /\ ls[k].inst = i
                   /\ \A j \in 1 .. k - 1 : ls[j].inst # i
       IN  ls[k].label

\* Wrong on purpose, as every definition named Wrong...: the labels are not compared.
WrongMismatchNever(ls, k) == FALSE

\* CoreInstances::addDataset throws at position k.
Mismatch(ls, k) == ls[k].inst # Nil /\ ls[k].label # LabelOf(ls, ls[k].inst)

\* The positions whose label is pushed to labelDatasetsMap before the loop ends
\* or an exception leaves it, and those that reach an instance.
Visited(ls) == {k \in DOMAIN ls : \A j \in 1 .. k - 1 : ~Mismatch(ls, j)}
Joined(ls) == {k \in Visited(ls) : ls[k].inst # Nil /\ ~Mismatch(ls, k)}
Aborted(ls) == \E k \in DOMAIN ls : Mismatch(ls, k)
InstancesIn(ls) == {ls[k].inst : k \in Joined(ls)}

AddLabels(d, u, labels) ==
  labelDatasets' = [labelDatasets EXCEPT ![d] =
                      [l \in Labels |-> IF l \in labels THEN @[l] \cup {u} ELSE @[l]]]

AddToInstances(d, u, ls) ==
  /\ instLabel' = [i \in Instances |->
                     IF i \in InstancesIn(ls) THEN LabelOf(ls, i) ELSE instLabel[i]]
  /\ instDatasets' = [i \in Instances |->
                        IF i \in InstancesIn(ls)
                        THEN [instDatasets[i] EXCEPT ![d] = @ \cup {u}]
                        ELSE instDatasets[i]]
  \* createNewInstance writes the label, but only into a group that is there
  /\ fileInst' = [i \in Instances |->
                    IF i \in InstancesIn(ls) /\ instLabel[i] = None /\ fileInst[i] # None
                    THEN LabelOf(ls, i) ELSE fileInst[i]]

\* Wrong: the instances are mapped before the loop that may throw.
WrongMapInstancesFirst(d, u, ls) ==
  IF u \in instancesKnown[d]
  THEN UNCHANGED <<instancesKnown, datasetInstances>>
  ELSE /\ instancesKnown' = [instancesKnown EXCEPT ![d] = @ \cup {u}]
       /\ datasetInstances' = [datasetInstances EXCEPT ![d][u] =
                                  {ls[k].inst : k \in DOMAIN ls} \ {Nil}]

\* emplace leaves a key that is already there as it is
MapInstances(d, u, ls) ==
  IF Aborted(ls) \/ u \in instancesKnown[d]
  THEN UNCHANGED <<instancesKnown, datasetInstances>>
  ELSE /\ instancesKnown' = [instancesKnown EXCEPT ![d] = @ \cup {u}]
       /\ datasetInstances' = [datasetInstances EXCEPT ![d][u] = InstancesIn(ls)]

-----------------------------------------------------------------------------
(* CoreDataset.                                                            *)

Entry(u, h) == [uuid |-> u, frame |-> h.frame, time |-> h.time]

\* Wrong: canTransform is not asked.
WrongPlaceUnasked(d, e) ==
  /\ rt' = [rt EXCEPT ![d][e] = @ + 1]
  /\ UNCHANGED dataWithMissingTF

Place(d, e) ==
  \/ /\ Transformable(e)
     /\ rt' = [rt EXCEPT ![d][e] = @ + 1]
     /\ UNCHANGED dataWithMissingTF
  \/ /\ ~Transformable(e)
     /\ dataWithMissingTF' = [dataWithMissingTF EXCEPT ![d][e] = @ + 1]
     /\ UNCHANGED rt

AddDatasetToIndices(d, u, h, ls) ==
  /\ Place(d, Entry(u, h))
  /\ timetree' = [timetree EXCEPT ![d][Entry(u, h)] = @ + 1]
  /\ AddLabels(d, u, {ls[k].label : k \in Visited(ls)})
  /\ AddToInstances(d, u, ls)
  /\ MapInstances(d, u, ls)

\* Wrong: the datatype of the header is not the one of the message.
WrongAddDatasetAsImage(d, u, h, ls) ==
  \/ u # NilUuid /\ AddDatasetToIndices("Image", u, h, ls)
  \/ u = NilUuid /\ UNCHANGED indexVars

\* addDataset refuses the nil uuid
AddDataset(d, u, h, ls) ==
  \/ u # NilUuid /\ AddDatasetToIndices(d, u, h, ls)
  \/ u = NilUuid /\ UNCHANGED indexVars

\* Wrong: the data set stays in the vector after it was placed.
WrongTryAddingNoErase(ds) ==
  /\ rt' = [d \in Datatypes |-> [e \in Entries |->
              IF d \in ds /\ Transformable(e) THEN rt[d][e] + dataWithMissingTF[d][e]
                                              ELSE rt[d][e]]]
  /\ UNCHANGED dataWithMissingTF

\* Wrong: the iterator is advanced after erase as well, the next one is skipped.
WrongTryAddingSkipsNext(ds) ==
  LET moves(d, e) == d \in ds /\ Transformable(e) /\ dataWithMissingTF[d][e] > 0
  IN  /\ rt' = [d \in Datatypes |-> [e \in Entries |->
                  IF moves(d, e) THEN rt[d][e] + 1 ELSE rt[d][e]]]
      /\ dataWithMissingTF' = [d \in Datatypes |-> [e \in Entries |->
                  IF moves(d, e) THEN dataWithMissingTF[d][e] - 1 ELSE dataWithMissingTF[d][e]]]

\* Every waiting entry whose transform has arrived moves to the R-tree.
TryAddingDataWithMissingTF(ds) ==
  /\ rt' = [d \in Datatypes |-> [e \in Entries |->
              IF d \in ds /\ Transformable(e) THEN rt[d][e] + dataWithMissingTF[d][e]
                                              ELSE rt[d][e]]]
  /\ dataWithMissingTF' = [d \in Datatypes |-> [e \in Entries |->
              IF d \in ds /\ Transformable(e) THEN 0 ELSE dataWithMissingTF[d][e]]]

-----------------------------------------------------------------------------
(* Requests.  A list of labels goes to the file as its texts and to the     *)
(* index as parsed uuids; a text that is no uuid becomes nil.               *)

Serving == toLoad = {}

Accept ==
  /\ Serving
  /\ requests < MaxRequests
  /\ requests' = requests + 1
  /\ UNCHANGED <<toLoad, restarts>>

Parsed(ls) ==
  [k \in DOMAIN ls |->
     [label |-> ls[k].label, inst |-> IF ls[k].inst = Malformed THEN Nil ELSE ls[k].inst]]

\* Wrong: labels already in the file are overwritten.
WrongCreatableAlways(old, new) == TRUE

\* createDataSet fails when the data set exists; an empty list writes none
Creatable(old, new) == old = <<>> \/ new = <<>>
Written(old, new) == IF new = <<>> THEN old ELSE new

WriteGeneral(g, u, ls) == fileGeneral' = [fileGeneral EXCEPT ![g][u] = Written(@, ls)]
WriteBB(g, u, ls) == fileBB' = [fileBB EXCEPT ![g][u] = Written(@, ls)]

\* writeImage: header, bounding box labels, general labels, then the index
TransferImage(u, h, general, bb) ==
  /\ Accept
  /\ fileHeader' = [fileHeader EXCEPT !["Image"][u] = h]
  /\ \/ /\ Creatable(fileBB["Image"][u], bb)
        /\ Creatable(fileGeneral["Image"][u], general)
        /\ WriteBB("Image", u, bb)
        /\ WriteGeneral("Image", u, general)
        /\ AddDataset("Image", u, h, Parsed(general \o bb))
     \/ /\ Creatable(fileBB["Image"][u], bb)
        /\ ~Creatable(fileGeneral["Image"][u], general)
        /\ WriteBB("Image", u, bb)
        /\ UNCHANGED <<fileGeneral, indexVars>>
     \/ /\ ~Creatable(fileBB["Image"][u], bb)
        /\ UNCHANGED <<fileLabels, indexVars>>
  /\ UNCHANGED <<fileTf, tfBuffer>>

\* writePoint stores below points/, but the core header says Image
TransferPoint(u, h, general) ==
  /\ Accept
  /\ fileHeader' = [fileHeader EXCEPT !["Point"][u] = h]
  /\ \/ /\ Creatable(fileGeneral["Point"][u], general)
        /\ WriteGeneral("Point", u, general)
        /\ AddDataset("Image", u, h, Parsed(general))
     \/ /\ ~Creatable(fileGeneral["Point"][u], general)
        /\ UNCHANGED <<fileGeneral, indexVars>>
  /\ UNCHANGED <<fileBB, fileTf, tfBuffer>>

\* writePointCloud2: header, general labels, bounding box labels, points
TransferPointCloud2(u, h, general, bb) ==
  /\ Accept
  /\ fileHeader' = [fileHeader EXCEPT !["PointCloud"][u] = h]
  /\ \/ /\ Creatable(fileGeneral["PointCloud"][u], general)
        /\ Creatable(fileBB["PointCloud"][u], bb)
        /\ WriteGeneral("PointCloud", u, general)
        /\ WriteBB("PointCloud", u, bb)
        /\ AddDataset("PointCloud", u, h, Parsed(general \o bb))
     \/ /\ Creatable(fileGeneral["PointCloud"][u], general)
        /\ ~Creatable(fileBB["PointCloud"][u], bb)
        /\ WriteGeneral("PointCloud", u, general)
        /\ UNCHANGED <<fileBB, indexVars>>
     \/ /\ ~Creatable(fileGeneral["PointCloud"][u], general)
        /\ UNCHANGED <<fileLabels, indexVars>>
  /\ UNCHANGED <<fileTf, tfBuffer>>

\* The bounding boxes of an image, sent after it: neither the file nor the index
\* asks whether there is such an image, and the instances stay out of the index.
AddBoundingBoxes2dLabeled(u, bb) ==
  /\ Accept
  /\ bb # <<>>
  /\ \/ /\ Creatable(fileBB["Image"][u], bb)
        /\ WriteBB("Image", u, bb)
        /\ AddLabels("Image", u, {bb[k].label : k \in DOMAIN bb})
     \/ /\ ~Creatable(fileBB["Image"][u], bb)
        /\ UNCHANGED <<fileBB, labelDatasets>>
  /\ UNCHANGED <<fileHeader, fileGeneral, fileTf, tfBuffer, spatial, timetree,
                 instancesKnown, datasetInstances, instLabel, instDatasets, fileInst>>

TransferTransform(frame, time) ==
  /\ Accept
  /\ frame # MapFrame
  /\ fileTf' = fileTf \cup {<<frame, time>>}
  /\ tfBuffer' = tfBuffer \cup {<<frame, time>>}
  /\ UNCHANGED <<fileHeader, fileLabels, indexVars>>

\* CoreDataset::getData of one datatype, and getInstances, which asks them all
GetData(d) ==
  /\ Serving
  /\ TryAddingDataWithMissingTF({d})
  /\ UNCHANGED <<fileVars, tfBuffer, timetree, semantic, control>>

GetInstances ==
  /\ Serving
  /\ TryAddingDataWithMissingTF(Datatypes)
  /\ UNCHANGED <<fileVars, tfBuffer, timetree, semantic, control>>

-----------------------------------------------------------------------------
(* Startup: CoreProject reads the transforms, the instances, then the       *)
(* images, the point clouds and the points, each group in name order.       *)

Rank(g) == IF g = "Image" THEN 1 ELSE IF g = "PointCloud" THEN 2 ELSE 3
Before(p, q) == Rank(p[1]) < Rank(q[1]) \/ (p[1] = q[1] /\ p[2] <= q[2])

Stored(g, u) == fileHeader[g][u] # None \/ fileGeneral[g][u] # <<>> \/ fileBB[g][u] # <<>>

\* The server dies or is stopped, and starts again on the same file.
Restart ==
  /\ restarts < MaxRestarts
  /\ restarts' = restarts + 1
  /\ toLoad' = {p \in Datatypes \X Uuids : Stored(p[1], p[2])}
  /\ tfBuffer' = fileTf
  /\ instLabel' = fileInst
  /\ instDatasets' = [i \in Instances |-> NoUuids]
  /\ rt' = NoEntries
  /\ dataWithMissingTF' = NoEntries
  /\ timetree' = NoEntries
  /\ labelDatasets' = [d \in Datatypes |-> [l \in Labels |-> {}]]
  /\ instancesKnown' = NoUuids
  /\ datasetInstances' = [d \in Datatypes |-> [u \in Uuids |-> {}]]
  /\ UNCHANGED <<fileVars, fileInst, requests>>

\* readDataset returns nothing without the data set "rawdata", which no point
\* cloud has (they are stored as "points"), and throws on a malformed uuid.
HasRawData(g, u) == g # "PointCloud" /\ fileHeader[g][u] # None
StoredLabels(g, u) == fileGeneral[g][u] \o fileBB[g][u]
Readable(g, u) ==
  /\ HasRawData(g, u)
  /\ \A k \in DOMAIN StoredLabels(g, u) : StoredLabels(g, u)[k].inst # Malformed

First(p) == p \in toLoad /\ \A q \in toLoad : Before(p, q)

\* Wrong: the exception of one dataset leaves the loop over all of them.
WrongRecreateAborts ==
  /\ \E p \in toLoad :
       /\ First(p)
       /\ \/ /\ Readable(p[1], p[2])
             /\ toLoad' = toLoad \ {p}
             /\ AddDatasetToIndices(p[1], p[2], fileHeader[p[1]][p[2]], StoredLabels(p[1], p[2]))
          \/ /\ ~Readable(p[1], p[2])
             /\ toLoad' = {}
             /\ UNCHANGED indexVars
  /\ UNCHANGED <<fileVars, tfBuffer, requests, restarts>>

\* Wrong: the startup calls addDataset, which refuses the nil uuid.
WrongRecreateRefusesNil ==
  /\ \E p \in toLoad :
       /\ First(p)
       /\ toLoad' = toLoad \ {p}
       /\ \/ /\ Readable(p[1], p[2])
             /\ AddDataset(p[1], p[2], fileHeader[p[1]][p[2]], StoredLabels(p[1], p[2]))
          \/ /\ ~Readable(p[1], p[2])
             /\ UNCHANGED indexVars
  /\ UNCHANGED <<fileVars, tfBuffer, requests, restarts>>

\* Wrong: a dataset that cannot be read is tried again.
WrongRecreateRetries ==
  /\ \E p \in toLoad :
       /\ First(p)
       /\ Readable(p[1], p[2])
       /\ toLoad' = toLoad \ {p}
       /\ AddDatasetToIndices(p[1], p[2], fileHeader[p[1]][p[2]], StoredLabels(p[1], p[2]))
  /\ UNCHANGED <<fileVars, tfBuffer, requests, restarts>>

RecreateDataset ==
  /\ \E p \in toLoad :
       /\ First(p)
       /\ toLoad' = toLoad \ {p}
       /\ \/ /\ Readable(p[1], p[2])
             /\ AddDatasetToIndices(p[1], p[2], fileHeader[p[1]][p[2]], StoredLabels(p[1], p[2]))
          \/ /\ ~Readable(p[1], p[2])
             /\ UNCHANGED indexVars
  /\ UNCHANGED <<fileVars, tfBuffer, requests, restarts>>

-----------------------------------------------------------------------------

Next ==
  \/ \E u \in Uuids, bb \in LabelLists : AddBoundingBoxes2dLabeled(u, bb)
  \/ \E u \in Uuids, h \in Headers, general \in LabelLists, bb \in LabelLists :
       \/ TransferImage(u, h, general, bb)
       \/ TransferPointCloud2(u, h, general, bb)
  \/ \E u \in Uuids, h \in Headers, general \in LabelLists : TransferPoint(u, h, general)
  \/ \E frame \in Frames, time \in Times : TransferTransform(frame, time)
  \/ \E d \in Datatypes : GetData(d)
  \/ GetInstances
  \/ Restart
  \/ RecreateDataset

\* The constructors run the startup to its end on their own.
Spec == Init /\ [][Next]_vars /\ WF_vars(RecreateDataset)

-----------------------------------------------------------------------------
(* Properties.                                                             *)

FileTypeOK ==
  /\ fileHeader \in [Datatypes -> [Uuids -> Headers \cup {None}]]
  /\ fileGeneral \in [Datatypes -> [Uuids -> Seq(LabelsWithInstance)]]
  /\ fileBB \in [Datatypes -> [Uuids -> Seq(LabelsWithInstance)]]
  /\ fileTf \in SUBSET Transforms

IndexTypeOK ==
  /\ rt \in [Datatypes -> [Entries -> Nat]]
  /\ dataWithMissingTF \in [Datatypes -> [Entries -> Nat]]
  /\ timetree \in [Datatypes -> [Entries -> Nat]]
  /\ labelDatasets \in [Datatypes -> [Labels -> SUBSET Uuids]]
  /\ instancesKnown \in [Datatypes -> SUBSET Uuids]
  /\ datasetInstances \in [Datatypes -> [Uuids -> SUBSET Instances]]
  /\ instLabel \in [Instances -> Labels \cup {None}]
  /\ instDatasets \in [Instances -> [Datatypes -> SUBSET Uuids]]
  /\ fileInst \in [Instances -> Labels \cup {None}]

ControlTypeOK ==
  /\ toLoad \in SUBSET (Datatypes \X Uuids)
  /\ requests \in 0 .. MaxRequests
  /\ restarts \in 0 .. MaxRestarts

TypeOK == FileTypeOK /\ IndexTypeOK /\ ControlTypeOK /\ tfBuffer \in SUBSET Transforms

\* Whatever uploads, transforms, queries and restarts happen in which order, an
\* entry of the temporal index is exactly once in the spatial one: in the R-tree
\* or among the data waiting for a transform (addDatasetToIndices and
\* tryAddingDataWithMissingTF, which moves it while it iterates).
PlacementConserved ==
  \A d \in Datatypes, e \in Entries :
    rt[d][e] + dataWithMissingTF[d][e] = timetree[d][e]

\* Nothing is in the spatial R-tree that could not be placed in the map frame
\* with the transforms the server has: transformAABB never had to guess, and
\* after a restart the entry finds its place again.
RtTransformable ==
  \A d \in Datatypes, e \in Entries : rt[d][e] > 0 => Transformable(e)

\* When getData runs the spatial query, the R-tree holds every dataset the
\* known transforms can place, however long its transform took to arrive, and
\* nothing else.
SpatialComplete ==
  [][\A d \in Datatypes : GetData(d) =>
       \A e \in Entries :
         rt'[d][e] = IF Transformable(e) THEN timetree[d][e] ELSE 0]_vars

\* A dataset is listed under an instance only if it is also found by the label
\* of that instance: CoreInstances::addDataset refuses a second label.
InstanceLabelAgrees ==
  \A i \in Instances, d \in Datatypes :
    instDatasets[i][d] # {} =>
      /\ instLabel[i] # None
      /\ instDatasets[i][d] \subseteq labelDatasets[d][instLabel[i]]

\* An instance that getInstances reports for a dataset leads back to that
\* dataset when it is used as a filter (getDatasets), also when the loop over
\* the labels was left by an exception.
ListedInstancesKnow ==
  \A d \in Datatypes, u \in Uuids :
    \A i \in datasetInstances[d][u] : u \in instDatasets[i][d]

\* The groups an index entry of datatype d may have been written to: points are
\* indexed with the datatype Image while the server runs.
Groups(d) == IF d = "Image" THEN {"Image", "Point"} ELSE {d}

\* An indexed dataset can be read: the file holds data under its uuid, of a
\* datatype that is indexed this way.
IndexBacked ==
  \A d \in Datatypes, e \in Entries :
    timetree[d][e] > 0 => \E g \in Groups(d) : fileHeader[g][e.uuid] # None

\* The file stores the label l for the dataset u.
Mentions(ls, l) == \E k \in DOMAIN ls : ls[k].label = l
Carries(g, u, l) == Mentions(fileGeneral[g][u], l) \/ Mentions(fileBB[g][u], l)

\* A dataset is found by a label only if the file stores that label for it, so
\* the answer to a semantic query carries what was asked for, even after uploads
\* that failed half way and after labels were added later.
LabelsBacked ==
  \A d \in Datatypes, l \in Labels : \A u \in labelDatasets[d][l] :
    \E g \in Groups(d) : Carries(g, u, l)

TimetreeMatchesFile ==
  \A d \in Datatypes, e \in Entries :
    timetree[d][e] = IF /\ Readable(d, e.uuid)
                        /\ e = Entry(e.uuid, fileHeader[d][e.uuid])
                     THEN 1 ELSE 0

\* When the startup is over, every dataset that can be read is indexed once,
\* with the header it has in the file, and nothing else is: an unreadable
\* dataset keeps none of the others out, whatever crashes preceded.
StartupExact == [][toLoad # {} /\ toLoad' = {} => TimetreeMatchesFile']_vars

\* The startup ends: one bad dataset never keeps the server from serving.
StartupEnds == (toLoad # {}) ~> (toLoad = {})

-----------------------------------------------------------------------------
(* What a comment of the code says and the code does not do. *)

\* core-dataset.h:32 "On startup all datasets are loaded from the HDF5 file".
StartupLoadsAll ==
  [][toLoad # {} /\ toLoad' = {} =>
       \A d \in Datatypes, u \in Uuids : fileHeader[d][u] # None =>
         timetree'[d][Entry(u, fileHeader[d][u])] > 0]_vars

=============================================================================
