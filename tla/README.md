# A TLA+ model of SEEREP

SEEREP is a gRPC server that stores what a robot perceives: images, point
clouds, points and transforms, with labels and object instances, one HDF5 file
per project. For every project it keeps a spatial, temporal and semantic index
in memory, which is not stored: it is rebuilt from the file whenever the server
starts. Two families of services write the same file, one for flatbuffers
("fb") and one for protobuf ("pb").

What makes this hard to test is that everything exists twice, in the file and in
memory; that the two are written one after the other by handlers that may fail
half way; that data arrives before the transform that places it; that gRPC runs
the handlers on several threads; and that the process may be stopped at any call
(the handler of SIGINT calls `exit`) and must come back from the file alone.

## 1. Inventory

Paths are relative to the repository. "fb" and "pb" mean the directories
`seerep-core-fb`, `seerep-hdf5-fb` and their `pb` twins.

| Component | State | Operations | Talks to |
|---|---|---|---|
| `Core` (`seerep-core/src/core.cpp`) | map of projects, shared by all handler threads without a lock | load all files, create a project, route queries and uploads | services, `CoreProject` |
| `CoreProject`, `CoreDataset` | per datatype: R-tree, data waiting for a transform, temporal R-tree, label map, instance map | add dataset, add labels, query, rebuild at startup | `CoreTf`, `CoreInstances`, HDF5 readers |
| `CoreInstances`, `CoreInstance` | instances with their attributes and the datasets showing them | add dataset (creates the instance), read and write attributes, rebuild | `Hdf5CoreInstance` |
| `CoreTf` | the tf2 buffer | add, look up, rebuild | `Hdf5CoreTf` |
| HDF5 writers (`Hdf5Fb*`, `Hdf5Pb*`) | the file, and one mutex per file | one write per kind of message | the HDF5 library |
| HDF5 readers (`Hdf5Core*`) | none | what a dataset looks like at startup | the HDF5 library |
| accessor caches (`CoreFbGeneral`, `getHdf5`) | per service: project uuid to writer | find or create | `Core` |
| services (`seerep-server`) | none | one handler per call, streams of messages | fb and pb cores |
| server process (`server.cpp`) | options, log | start, signal | all |
| point cloud messages (`hdf5-pb-point-cloud2-iterator`) | the layout of a message while it is built | set fields, resize, clear, iterate over a channel | the writer of point clouds, clients |
| ROS clients (`seerep_ros_communication`) | `clientImagesWithDetection`: a map from stamps to uuids of images | forward messages; a detection takes the uuid of the image with its stamp | services |

How they interact. An upload converts the message to a `DatasetIndexable`, takes
a writer from the accessor cache, writes the file under the mutex of the file
(HDF5 calls may throw between any two writes), releases it, and then adds the
dataset to the index. A query first moves data whose transform has arrived into
the R-tree and then asks the indices; the answer is read back from the file. The
startup reads transforms, instances, images, point clouds and points, in this
order, and catches `std::runtime_error` per item; a `HighFive::Exception` or a
`std::invalid_argument` is none and ends the process.

Hard behaviour, and what correctness means, per component:

* index: transforms later than their data, uploads that repeat a uuid, label
  loops left by an exception, datasets that cannot be read at startup. Nothing
  is lost, repeated or misplaced; file and index agree; instance and label maps
  agree; the startup is exact and ends.
* transforms in the file: one row is three cells and a counter, written by seven
  calls that another handler or a stop may separate. Whole rows only, no
  answered transform lost, one damaged frame pair at most per stop.
* image and point store: the same for the five data sets and the attributes of
  one upload, together with the index: whole datasets, readable by both services,
  and the same in the file as in the index.
* point clouds: a layout that is kept while a message is changed, channels read
  where they are, one cloud and its box per uuid.
* query evaluation: the intersection of optional partial results, the time key,
  boxes in the map frame.
* projects and accessors: a map and caches filled by whoever comes first. What is
  answered stays served; one mutex per file; an iteration misses nothing.

`PROJECT.json` lists the hazards line by line, each with its properties or with
the reason why none covers it.

## 2. Modules

| Module | Content |
|---|---|
| `CoreIndex` | the index of one project, its file, uploads, queries, restarts |
| `MCCoreIndex` | label lists for the runs of `CoreIndex` |
| `CoreIndexProofs` | theorems about `CoreIndex` |
| `TfLog` | abstract specification: what stored transforms promise |
| `Hdf5Tf` | how transforms are stored, one HDF5 call at a time, and loaded |
| `MCHdf5Tf` | frame pairs and rows for the runs of `Hdf5Tf` |
| `Hdf5TfProofs` | theorems about `Hdf5Tf`, among them that it implements `TfLog` |
| `Query` | queries over the projects, interleaved with uploads, and what they mean |
| `MCQuery` | datasets and queries for the runs of `Query` |
| `QueryProofs` | theorems about `Query`: instances, and why a query fails |
| `QueryAnswerProofs` | theorems about `Query`: what the index holds, and what an answer holds |
| `ImageStore` | how images, points and their labels get into the file and the index, one write at a time, and are read back |
| `MCImageStore` | messages, streams and queries for the run of `ImageStore` |
| `ImageStoreProofs` | theorems about `ImageStore` |
| `Projects` | the projects of a server: folder, map, accessors, while handlers create, list, send and ask |
| `MCProjects` | services and symmetry for the runs of `Projects` |
| `ProjectsProofs` | theorems about `Projects` |
| `PointCloud` | a point cloud from the message that is built to the file and the index |
| `MCPointCloud` | fields and contents for the run of `PointCloud` |
| `PointCloudProofs` | theorems about `PointCloud` |

`CoreIndex`, `Query` and `Hdf5Tf` look at the system at three grains. In
`CoreIndex` a handler is one step and all components of a project take part,
with the file and restarts. In `Query` a step is one visit of a container of the
index, only the memory is there, and handlers interleave. In `Hdf5Tf` a step is
one call of the HDF5 library and only the transforms are there.
`CoreIndex.TransferTransform` is what a run of `Receive` to `AddTF` amounts to
when no other handler and no stop comes between.

The other three look between the steps of `CoreIndex` as `Hdf5Tf` does for
transforms. `ImageStore` opens `TransferImage`, `TransferPoint` and
`AddBoundingBoxes2dLabeled`, with the readers of queries beside them;
`PointCloud` opens `TransferPointCloud2` and goes back to where the message is
built; both keep of the index what tells a query about the dataset, since
`CoreIndex` has the rest. `Projects` is around all of them: which project, which
accessor, which mutex. Its `UseFile` and `AddDataset` are a whole upload of
`ImageStore`, from `Lock` to `Unlock` and the step after it.

### 2.1 CoreIndex

State: `fileHeader`, `fileGeneral`, `fileBB` are the header attributes and the
two label lists of each group in the file; `fileTf` the transforms; `fileInst`
the attribute of an instance group. `rt`, `dataWithMissingTF`, `timetree` count
how often an entry (uuid, frame, stamp) is in the R-tree, in the vector of
waiting data and in the temporal R-tree: they are multisets, because the code
inserts again when a uuid is uploaded again. `labelDatasets` is
`labelDatasetsMap`; `instancesKnown` and `datasetInstances` are the keys and the
values of `datasetInstancesMap`; `instLabel` and `instDatasets` are
`CoreInstance`. `toLoad` is what a startup has still to read, empty while
requests are served.

| Action | Code |
|---|---|
| `TransferImage` | `FbImageService::TransferImage`, `CoreFbImage::addData`, `Hdf5FbImage::writeImage`, `CoreDataset::addDataset` |
| `TransferPoint` | the same for points; the shared conversion gives them the datatype Image |
| `TransferPointCloud2` | `CorePbPointCloud::addData`, `Hdf5PbPointCloud::writePointCloud2` |
| `AddBoundingBoxes2dLabeled` | `CoreFbImage::addBoundingBoxesLabeled` |
| `TransferTransform` | `CoreFbTf::addData` |
| `GetData`, `GetInstances` | the part of a query that changes state: `tryAddingDataWithMissingTF` |
| `Restart`, `RecreateDataset` | a stop, and the constructors of the project, one dataset per step |

An upload has one disjunct per outcome. The order of the writes decides what a
failure leaves: `createDataSet` throws when the label data set is there, so an
image keeps its new header and perhaps its boxes without its general labels, and
the index hears nothing. In the label loop of `addDatasetToIndices`, `Visited`
and `Joined` are the positions reached before `CoreInstances::addDataset`
throws, which leaves the maps half updated. `emplace` leaves a known key alone.

Left out: pixels, points and boxes, and writes that fail for lack of space; a
second upload has the same size as the first; a point cloud has coordinates. A
frame other than the map frame is a child of it. tf2 is modelled from its use: a
frame is transformable into itself, between two known stamps, and for stamp 0 as
soon as one transform is known; it refuses a transform of a frame to itself.

### 2.2 TfLog, Hdf5Tf

A frame pair is a group with three data sets and the attribute `size`: `frames`,
`rows`, `size`. A handler thread has a program counter, the column it is at, its
local `size` (`got`) and its request. `Locked` are the threads of the fb
service, which take `m_write_mtx`; the others are those of the pb service, whose
`writeTransformStamped` is the same code without the mutex. Each action is one
call of the library: `Find`, `CreateGroup`, `CreateDataSet` (three times),
`Open`, `Resize` (three times), `WriteRow` (three times), `WriteSize`, `Flush`,
then `AddTF` for the buffer and the answer. A call that throws ends the request
(`Fail`), and the scoped lock gives the mutex back.

`Open` stands for three `getDataSet` and the reading of `size`. One step is
exact for the data sets, since they are never removed. `CreateGroup` contains
the two frame attributes: without data sets nobody reads them. The library is
built thread-safe, so its calls are atomic. A message of a stream is one
request. `Restart` keeps the file as the calls left it: the library closes it on
exit, and what a harder stop loses of the unflushed end is the state of an
earlier stop.

`TfLog` promises, per group, a log of whole transforms that only grows, and that
an acknowledged transform is in it. `Hdf5Tf!Promise` maps the log to the rows
below `size` (`Log`), so that a row counts from `WriteSize` on.

### 2.3 Query

State: `tf`, `rt`, `dataWithMissingTF`, `timetree`, `labelDatasets`,
`instLabel`, `instDatasets` and `datasetInstances` are the containers of
`CoreIndex`, for several projects and with boxes, as sets of entries; `rt` has
the box in the map frame, as the R-tree does. `writer` is a handler thread that
adds a dataset; `pc`, `query`, `todo`, `types`, `at`, `parts` and `answer` are
the locals of one that runs a query. `begun`, `stored` and `before` are history:
what was sent, what was completely added, and what there was when a query came.

| Action | Code |
|---|---|
| `AddDataset`, `Place`, `AddTime`, `AddLabel`, `MapInstances` | `CoreDataset::addDatasetToIndices`, one container after the other |
| `FindInstance`, `CreateInstance` | `CoreInstances::addDataset`, `createNewInstance` |
| `AddTF` | `CoreTf::addDataset` |
| `Receive` | `fromFb` or `fromPb` of the query: `FromFb`, `FromPb` |
| `NextProject` | the loops of `Core::getDataset` and `Core::getInstances`, `findProject` |
| `TransformQuery` | `CoreTf::transformQuery` |
| `NextType` | the loop over the datatypes in `CoreDataset::getInstances` |
| `TryAddingDataWithMissingTF`, `QuerySpatial`, `QueryTemporal`, `QuerySemantic`, `QueryInstances`, `QueryUuids` | `CoreDataset::getData` |
| `Intersect`, `Collect` | `intersectVectorOfSets`, `getUuidsFromMap`, the result of the project |

No container has a lock. The module takes one visit of one container as atomic;
two threads inside the same container are undefined behaviour in C++, which no
property could survive, and are out of scope. So a property that holds here is
one that the order of the visits cannot break; it says nothing about a race
inside a container. What goes wrong here needs no such race.
`TryAddingDataWithMissingTF` and a filter by several labels or instances visit
their container several times in the code and once here.

A coordinate is one integer, and a frame is shifted against the map frame or
turned by half a turn: that tells apart what `transformQuery` and
`transformAABB` do, which move the two corners of a box and do not sort them
again. A transform does not change with time (`CoreIndex` has stamps). A stamp
is its key in the temporal R-tree, which orders them as the clock does. The
queries are what the conversions can produce: the fb one sets a filter for an
empty list, the pb one does not, and the pb one knows no filter by instance or
uuid. No conversion sets the time stamp at which `transformQuery` looks up the
transform, so the lookup in a known frame may succeed or throw.

### 2.4 ImageStore

State: `file` has, for each attribute and data set of each group, the message it
was last written from, so that a dataset is torn when its fields disagree;
`mutex` is `m_write_mtx`. A handler has `pc`, the messages of its call (`stream`,
`pos`), the write it is at (`at`) and the text of its answer. A handler that
evaluates a query has `query` and `todo`, what it has still to read. `index` and
`labelled` are the part of the index that names a dataset, with the messages the
header and the labels came from. `acked`, `failed` and `torn` are history.

| Action | Code |
|---|---|
| `Receive`, `NextMessage`, `EndStream` | `TransferImage`, `TransferPoint`, `AddBoundingBoxes2dLabeled`, `AddAttribute` of the services: the loop over the stream, the message without a project |
| `Lock`, `Write`, `Fail`, `Unlock` | `writeImage` of both services, `writePoint`, `writeImageBoundingBox2DLabeled`, `writeAttributeMap` under `m_write_mtx`; `WriteImage`, `WritePoint` are the order of the writes, `Throws` when one throws, `Written` what it leaves |
| `AddDataset` | `CoreDataset::addDataset` or `addLabels`, after the lock is released |
| `GetData`, `ReadDataset`, `EndQuery`, `FailQuery` | a query: the index names the datasets, `readImage` or `readPoint` reads each under the mutex |
| `Restart` | a stop, and the constructor of the project; `Fatal` is what ends it with an exception nobody catches |

Creating a data set and filling it are one step for a list of labels, which
`createDataSet` guards, and two for pixels (`rawdata`, `data`). The encoding
stands for the layout attributes after it, which are only asked whether they are
there. Whether the index refuses a dataset is in `CoreIndex`.

### 2.5 Projects

State: `files`, `named`, `framed`, `stored` are the folder: which projects have a
file, the attributes `projectname` and `frameid` in it, and datasets. `projects`
is `m_projects` as the list its iterators follow, `info` and `indexed` what a
`CoreProject` has in memory, `accessors` the caches of the services
(`m_hdf5IoMap`), `mutex` the holder of each `m_write_mtx`. `phase`, `unread` and
`made` are how far the startup is. `handler` is a thread with its locals. The
rest is history: `drawn`, `created`, `told`, `cut`, `kept`.

| Action | Code |
|---|---|
| `CreateProject`, `CreateFile`, `WriteProjectname`, `WriteProjectFrameId`, `FailCreation`, `InsertProject` | `FbMetaOperations::CreateProject`, `Core::createProject` and the constructor of `CoreProject` |
| `GetProjects`, `Visit`, `EndVisit` | `Core::getProjects`, the loops over the map |
| `GetDatasetFromAllProjects`, `GetDatasetFromSpecificProjects`, `NextDataset` | `Core::getDatasetFromAllProjects`, `getDatasetFromSpecificProjects`, the loops over their results |
| `Upload`, `FindAccessor`, `GetHdf5File`, `GetHdf5FileMutex` | `CoreFbGeneral::getHdf5` and its copies in the protobuf cores |
| `Lock`, `LockNothing`, `UseFile`, `AddDataset` | the scoped lock, a write or a read, `Core::addDataset` |
| `Restart`, `RecreateProject`, `EndLoading` | a stop, `Core::recreateProjects` |
| `MakeService`, `BuildAndStart` | `getAllFileAccessorFromCore` in the constructors of the services, the end of `main` |

A new node may come anywhere in the list, and an insertion beyond `Buckets`
relinks it in any order (`Inserted`): both are what a hash map may do. That an
iterator is a node, not a position, is what the mutant of
`IterationComplete` gets wrong. Two threads inside the map at the same moment
are out of scope, as in `Query`. So is an iteration that meets a rehash, for
which the property claims nothing.

### 2.6 PointCloud

State: `cloud` is the message a client builds, its bytes reduced to their number;
`threw` tells whether the fields were set last by a call that ended with an
exception. `uploads` are the messages sent; a handler has `pc`, its upload
(`job`), the calls of the library it has still to make and the upload whose box
it read back. `file` names, for each part of a stored cloud, the upload it was
written by, `extent` what each data set was created with, `index` which upload
is indexed with whose box.

| Action or operator | Code |
|---|---|
| `SetPointCloud2Fields`, `SetPointCloud2FieldsByString`, `Resize`, `Clear` | `PointCloud2Modifier`, with `addPointField`, `sizeOfPointField` |
| `SetField`, `IteratorAt`, `IteratorEnd` | `PointCloud2IteratorBase` |
| `Reads`, `BoundingBox` | the loops of the writers over a message |
| `Transfer`, `Lock`, `Write`, `Fail`, `Unlock` | `TransferPointCloud2`, `writePointCloud2`; `WritePointCloud2` is the order of the calls, `Throws` when one throws |
| `LoadBoundingBox`, `NoBoundingBox`, `AddDataset` | the rest of `CorePbPointCloud::addData` |
| `Restart` | a stop; the startup indexes no cloud (section 5) |

Unsigned integers are computed modulo `UIntSize`. The three coordinates are
handled alike and one stands for them. The library takes a vector of another
length into a data set or attribute of one dimension. A message is changed only
while no handler writes it, since a service works on its own copy; the clouds
that are sent have points and data and were built without an exception. A clash
of labels in the index is in `CoreIndex`. `PointCloud2Modifier::size` and
`reserve` change no layout and are left out.

## 3. Runs

All passing runs are exhaustive within their bounds. Deadlock is checked in the
runs of `CoreIndex`, where queries are always possible; in `Hdf5Tf` the number
of requests is bounded, so the system may stop, and so it may in `Query`, where
uploads and queries are, and so in the other modules. The two writers of `Query`,
the handlers of `Projects` and of `PointCloud` are symmetric: they run the same
code, and no property of these runs is temporal. Projects drawn at random are
symmetric too.

| Run | Question | Bounds |
|---|---|---|
| `CoreIndexSpatial` | is the spatial index complete and exact, whatever arrives first? | 2 uuids, one of them nil; map frame and one other; stamps 0, 1, 2; no labels; 3 requests, 2 restarts |
| `CoreIndexSemantic` | do labels, instances and file agree, and does a restart rebuild them? | 2 uuids, 2 labels, 1 instance; lists that agree, clash, or hold a text that is no uuid; 3 requests, 1 restart |
| `Hdf5TfLocked` | does the file implement the log under two fb handlers and stops? | 2 frame pairs, 2 rows with distinct cells, 3 requests, 2 stops |
| `Hdf5TfEnds` | does every request end, errors included? | 2 fb and 1 pb handler, 1 frame pair, 4 requests, 1 stop |
| `Query` | does an answer hold what it should, whatever overlaps the query? | 2 projects with different map frames and an unknown one; 4 datasets (a uuid twice, a clash on an instance, a stamp before second 0, a turned frame), 2 of them uploaded by 2 handlers; one transform; 1 of 10 queries |
| `ImageStore` | is the file whole and the same as the index, whoever writes, fails, asks or stops? | 2 handlers, 1 uuid, an image of each service with labels of both kinds or none and another extent, boxes, a point and attributes for it; streams with a message without a project or one that throws; 2 uploads, 1 query, 1 restart |
| `Projects` | is everything answered still served, and no file used by two? | 2 handlers, 3 projects and an unknown one, 2 services, 1 dataset, a rehash at the third project, a foreign file; 4 calls, 1 restart |
| `PointCloud` | is what is read in the data, and what is stored one cloud with its box? | 2 handlers, 1 uuid, fields of every kind, also of the datatype `UNSET`; 2 changes to the message, 2 uploads, 1 restart; integers below 80 |
| `CoreIndexStartupLoadsAll`, `Hdf5TfAnsweredStored`, `QueryInstanceRace`, `ProjectsUnknownRefused` | section 5 | those of the passing run, or smaller |

Why the bounds are enough. For the spatial index, three requests are a dataset
and the two transforms that enclose its stamp, in every order, or two datasets
and one transform; the second dataset matters to the loop that moves waiting
data. For labels, three uploads are the first, one that clashes and one that
repeats a uuid, with another uuid to confuse it with. For transforms, a group is
created by the first request and appended to by the second; the third is
concurrent, before or after a stop, in the same pair or in the other; two stops
damage two pairs. The theorems of section 4 remove the bounds for the safety
properties. For queries, a dataset that is stored and one that is under way show
each order of one index against the other; a query is not changed by another
query but through the data it moves, which an upload does as well; and each
filter is set and unset, alone and with the others. For images one uuid is
enough, because different groups share nothing but the mutex, and two uploads
are a dataset and what is sent over it, at the same time or later; each has its
own handler, and the query the one that is free. For projects, three insert
before and during an iteration and reach the rehash; four calls are two
creations, an upload and a query, or two uploads through two services that both
have no accessor yet. For point clouds, two changes are the fields and a size, or
fields over fields that threw; 80 lets three points of 16 bytes be counted and
the largest layouts overflow.

Properties:

* `PlacementConserved`: every entry of the temporal index is exactly once in the
  R-tree or among the waiting data. `RtTransformable`: what is in the R-tree can
  be placed with the known transforms. `SpatialComplete`: when `getData` runs
  the spatial query, the R-tree holds everything that can be placed.
* `IndexBacked`, `LabelsBacked`: what the index answers is in the file, also
  after uploads that failed half way.
* `InstanceLabelAgrees`, `ListedInstancesKnow`: the maps of labels, of instances
  per dataset and of datasets per instance agree.
* `StartupExact`: when a startup is over, the temporal index is what can be read
  from the file, once each, and nothing else. `StartupEnds`: it gets there.
* `ImplementsLog`, `StoredLoadable`, `RestartServes`: section 2.2; a stored
  transform leaves its group loadable with it as the last row, even if a stop
  had left longer columns; when the server comes up again every answered
  transform is back, unless its own pair is damaged. `DamageBounded`: at most one damaged pair per
  stop. `EveryRequestEnds`: nobody waits for ever.
* `AnswersComplete`: a query that is answered found every dataset that was
  completely added when it was received and matches it. `Wanted` says what
  matching means, from the two messages alone, with boxes as sets of points.
  `Findable` is what the code needs besides, each part a limit that section 5
  describes: the transform known, no box of a turned frame, an instance that
  knows its dataset, a stamp not before second 0.
* `AnswersMatch`: what is in an answer was sent, to a project and of a datatype
  the query asks for, and passes every filter of the query, with two exceptions:
  the filter by instance counts for nothing when nothing shows the instances, and
  a list of uuids that is the only filter left is answered as it is. A uuid that
  is sent twice may pass one filter for one upload and the next for the other.
* `FailureExplained`: a query fails for an unknown project or for a box in
  another frame, and for nothing else.
* `InstanceLabelAgrees` of `Query`: as above, with two uploads at a time, between
  all their steps.
* `WholeUnlessTorn`: what is in the file is one message's pixels, layout and
  header, and whole lists of labels, but for a dataset a stop has cut.
  `IndexedReadable`: what the index names, both services can read. `AckedKept`:
  what was answered with success stays in the index, and boxes sent by themselves
  in the file. `IndexCurrent`: what is in the file is in the index, unless its upload is under way or has failed.
  `FatalBounded`: a startup ends for nothing that only exceptions left.
  `EveryCallEnds`: nobody waits for ever.
* `CreatedServed`, `KeptServed`: a project or an upload that was answered is
  served after every restart. `IterationComplete`: an iteration passes every
  project there was, once, whatever is inserted meanwhile. `OneUserPerFile`: all
  services use one mutex per file.
* `ShapeKept`: bytes, rows and points of a message agree. `ReadsInside`,
  `ColoursInOrder`: the iterators read a channel where it is, and inside the
  data. `WholeUnlessSpoiled`: a stored cloud is one upload's. `BoxCovers`: the
  box contains the points. `BoxIndexed`: the index knows the box of the file.

Fairness. `CoreIndex`: weak fairness of `RecreateDataset`, since the
constructors run the loop to its end without waiting for anyone; requests and
restarts are not fair. `Hdf5Tf`: weak fairness of the steps of each thread that
is in a handler, since a handler waits for nothing but the mutex and the system
schedules its thread. Requests arrive and stops happen or not. Weak fairness is
enough for the mutex because requests are bounded: a waiting thread is at most
passed finitely often, and `std::mutex` promises no more. `ImageStore`: the same,
weak fairness of the steps of each handler, uploads and queries alike. `Projects`
and `PointCloud` state no liveness and no fairness: their one wait is for the
mutex, which is the same in `ImageStore`.

## 4. Proofs

`CoreIndexProofs`, for all constants that satisfy `ConstantsAssumption` (uuids
and stamps are numbers, the map frame is a frame, the special values are
distinct):

* `Invariance`: `Spec => []IInv`. `IInv` is the conjunction of the type
  invariant, `PlacementConserved`, `RtTransformable`, `InstanceLabelAgrees`,
  `ListedInstancesKnow`, `IndexBacked` and `LabelsBacked`. The conjunction is
  inductive where the parts are not: `RtTransformable` needs that the buffer
  never holds less than before until a restart clears the tree, and
  `LabelsBacked` that the file only grows, which is proved for each upload
  (`FileGrows`) before the index is looked at.
* `TypeCorrect`, `SpatialConservation`, `SpatialPlacement`, `InstanceLabels`,
  `InstanceMaps`, `EntriesBacked`, `LabelledBacked` are its parts. `SpatialCompleteness` is the
  action property, from `PlacementConserved` and `RtTransformable`.
* `StartupRebuilds`: `Spec => StartupExact`. Beside `IInv` it needs `StartupInv`:
  while there are datasets left to read, the temporal index is `Rebuilt`, that is,
  it holds the readable datasets that are no longer in `toLoad`, each once. A
  restart makes it true because what can be read is stored (`ReadableStored`) and
  so still to be read; reading a dataset moves it from one side to the other; and
  nothing else happens meanwhile, because requests and queries wait for the end.

The proof has one lemma per action, on top of lemmas about what adding to the
index keeps (`AddKeeps...`) and about the label loop (`JoinedLabel`).

`Hdf5TfProofs` assumes `Locked = Writers` in each theorem but the first, that is,
that no pb client writes transforms; section 5 shows that this is necessary for
what a sender is promised. `IInv` adds to
the types: `Exclusion`, one thread between two calls; `FileOK`, no column is
shorter than `size`, which is what a stop leaves; `Progress`, what the holder of
the mutex has written so far, per program counter; `Stored`, what was answered,
or is about to be, is in the log.

* `TypeCorrect`: `Spec => []TypeOK`, whichever threads take the mutex, from an
  invariant of its own (`MixedInv`): a thread that is in a handler has a request,
  and a group has its frames before it has a `size`. So where two threads share a
  group they lose rows, but no cell is without a value.
* `StoredIsLoadable`, `RestartKeepsAnswered`.
* `CrashesBoundDamage`: `Spec => DamageBounded`. `DamageInv` counts the damaged
  groups without those in pieces (`Held`), and says that these are no more than the
  crashes. No write adds one, since a thread leaves the mutex with its group
  loadable, or with an error before it has touched it (`FailsWhole`); a crash adds
  the one group that was held (`OneHeld`). It holds for infinitely many frame
  pairs too: that the set is finite is part of the invariant.
* `LogImplemented`: `Spec => ImplementsLog`, the refinement of `TfLog`. Every
  step but `WriteSize` and `AddTF` leaves the log, `WriteSize` appends the row
  that `Progress` says is complete, `AddTF` answers what `Stored` says is there.

`QueryProofs`, for all constants that satisfy the `ConstantsAssumption` of
`Query` (a finite number of projects; the labels of an upload and the projects a
query names are lists):

* `InstanceLabels`: `Spec => []InstanceLabelAgrees`, for any number of uploads at
  a time. `InstanceInv` adds `AtLabel`: an upload between its search for an
  instance and the creation of it is still at the label that names it. What
  another upload does in between is covered by the second `emplace`, which
  changes nothing.
* `Failures`: `Spec => []FailureExplained`. `FailureInv` adds `Searching`: the
  projects still to search are among those the query named, and the one it is
  at is a project of the server.

`QueryAnswerProofs`, under the same assumption, which also gives what a client
sends its type (a project of the server and a datatype for an upload, integers
for stamps and for the corners of a box, in either order). A query looks into one
container per step, and between two of them uploads, transforms and other queries
go on, so what it found is true of no single state. The argument is that all of
them only add. `IndexGrows` says so of every step, for every container: entries
stay, and a dataset leaves the list of waiting data only for the R-tree. On top of
it:

* `TypeCorrect`: `Spec => []TypeOK`, from `SoundInv`: every entry of the index is
  that of an upload that has begun, and an upload that looks for an instance has
  one in hand.
* `Matching`: `Spec => []AnswersMatch`. `MatchInv` says, per filter that is set
  and that the query is past, that one of the partial results holds only what
  passes it (`PartsSound`); which one is left open, since `Intersect` replaces the
  last two by their intersection and so only makes them narrower. That a uuid was
  sent at all follows from any filter but the list of uuids; where it is the only
  one left there is nothing to prove, and this is the second exception.
* `Completeness`: `Spec => []AnswersComplete`. `CompleteInv` says that every
  dataset that is due at the datatype and the project the query is at is in every
  partial result (`PartsComplete`), and that every other one is either answered or
  of a datatype or a project still to come (`FindsAll`). It needs `StoreInv`: a
  dataset whose upload was answered is in the containers it belongs to, and one
  whose upload is under way is in those it is past; and `BasicInv`: the box the
  query compares is the one it was sent with, moved to the project it is at, and
  what there was at the start is there still. That the R-tree finds the boxes that
  meet, and no other, is `IntersectsMeans`, which is where `Upright` comes
  in.

These invariants were checked with TLC on the run `Query` before they were
proved. The attempt to prove `AnswersMatch` as it stood before found its second
exception: no query of the run had set a list of uuids and an instance that
nothing shows. The run has one now.

`PointCloudProofs`, for all constants that satisfy the two assumptions of
`PointCloud`, so for every list of fields, sequence of coordinates and number of
handlers, uploads and restarts. The first assumption gives the constants their
types; it says that what a client starts with and resizes to is an unsigned int,
and that no other field is named like a coordinate, a colour or one of its
channels, since the iterators take a channel for a field of that name. The second
says that no other field is named like a part of a cloud: the code stores them in
a group of their own, and `Parts` is one set. What the fields add up to and
the box of a sequence of coordinates are proved by induction, which the lemma
`Induction` derives from the well-founded order of the natural numbers; so
`AddFields` is a recursive function of the number of fields.

* `ReadsStayInside`: `Spec => []ReadsInside`. `LayoutInv` says that the fields of
  a message that was built without an exception are `LaidOut`: each ends before
  the next begins and the last before the point does. `AddFieldsLaysOut` is the
  induction, over the fields of a call; with `MessageShape` it follows that the
  last point ends where the data ends.
* `ColoursOrdered`: `Spec => []ColoursInOrder`. `ReadHome` finds the field each
  read is inside, `ReadsApart` that two channels in one field are different bytes
  of it. Two fields with one name, or a colour of fewer than four bytes, would
  break it, and nothing in the code refuses them: they are hypotheses of the
  property.
* `StoredWhole`: `Spec => []WholeUnlessSpoiled`. `StoreInv` adds `StillToWrite`:
  what the writer's message has to store and the file does not have is among the
  calls it still has to make. `WriteIs` says which calls those are.
* `BoxesCover`: `Spec => []BoxCovers`. `BoxWithPoints`: the points and the box in
  the file are of one upload, or its writer has the points still to write, which
  come after the box. `InsideBox` is the loop over the points, by induction.
* `TypeCorrect`: `Spec => []TypeOK`.
* `MessageShape`: `Spec => []ShapeKept`. `ShapeInv` is stronger in that
  `row_step` is what `RowStep` says even when the bytes cannot be counted, so
  that the next change that makes them countable again makes them right.
* `BoxOfTheIndex`: `Spec => []BoxIndexed`, for any number of handlers. `IndexInv`
  adds `Handling` (an upload has one handler, which is not done with it before it
  is answered), `BoxSent` (the box in the file is that of an upload of the same
  uuid) and `BoxRead` (a handler whose own box is in the file has read that one,
  and none that was there before).

`ProjectsProofs`, for all constants that satisfy the `ConstantsAssumption` of
`Projects`, so for any number of handlers, services, projects, calls and
restarts:

* `Invariance`: `Spec => []IInv`. Its parts are `FolderInv` (each step of a
  creation has what the one before wrote; what was stored is in a file),
  `MemoryInv` (once the startup has loaded the folder, memory has what was
  answered), `StartupInv` (how far the loading is: what is in a file is known or
  still unread), `AccessorsInv` and, per handler, `Local`. `Local` carries what
  a handler found out earlier past the steps of the others: whoever looks for an
  accessor looks for that of a project there is, or of the one there never is,
  and projects only come (`OthersLocal`), so what `getHdf5File` said is still
  true when the accessor is inserted, and whoever inserts second would have
  inserted the same.
* `TypeCorrect`, `OneUser`, `Served`, `Kept` follow. The lemmas `InsertedSeq`,
  `AfterKnown` and `BeginKnown` say what the list operators return.
* `Iteration`: `Spec => []IterationComplete`, from `IterationInv`: no project is
  twice in the list (`NoneTwice`), and each handler that iterates over a list that
  was not relinked has passed and has ahead of it, together and apart, what there
  was (`Iterating`). An insertion puts at most the new project ahead of an iterator
  (`AheadGrows`), and the new one was not passed before. That a relinked list still
  holds every project once is proved by counting (`InsertedOnce`).

`ImageStoreProofs`, for all constants that satisfy the `ConstantsAssumption` of
`ImageStore`, so for any number of handlers, uuids, messages, uploads, queries
and restarts:

* `Invariance`: `Spec => []IInv`. What a run sees in the file between two calls
  is not inductive, because a writer leaves a dataset half written on its way;
  `IInv` says what is half written and by whom. `Locks`: only the holder of the
  mutex is at a write. `Progress`: the writes it has passed are in the file.
  `DatasetInv`, for each dataset: a field holds a message of that dataset
  (`FromKey`); a list of labels is written in its order and its writer finds the
  rest missing (`LabelOrder`, `AtLabels`), since `createDataSet` throws at the
  first that is there; data, layout and header are of one message, or their
  writer is still in them, or they are marked torn (`DataInv`); likewise the
  labels (`LabelsInv`); and a serving process has passed its startup, so a
  dataset that could have ended it has a header (`ServingInv`). `IndexInv`: what
  the index names is in the file. `KeptInv` and `Local`: what was answered, or
  passed by a handler that will be, is in the file and the index. `BrokenInv`:
  the datasets that end a startup, or will as soon as they get their data, are
  no more than the stops; only the dataset of the writer can join them, at a
  stop, because an exception comes at the first list of labels, the pixels or an
  attribute and never between two lists.
* `TypeCorrect`, `DatasetsWhole`, `IndexReadable`, `AcknowledgedKept`,
  `IndexFollowsFile`, `FatalByStops`: the six invariants of the run. Each is a
  part of `IInv` or follows from it when nobody writes.

Each conjunct has one lemma per action that can disturb it; the lemmas before
them say what the writes of a message are (`Steps`), which come before which, and
which of them can throw. `IInv` was checked with TLC, for three requests, a query
and two restarts, before it was proved. The theorem `TypeCorrect` needs `TypeOK`
to say that `index` holds records and that `pos` and `at` are never 0.

Only model-checked: the liveness properties `StartupEnds`, `EveryRequestEnds` and
`EveryCallEnds`, because fairness is outside the proof system's reach. Every invariant and every other action property of a passing run
is the statement of a theorem.

## 5. Where the code does not do what its comments say

Each of these has a run whose counterexample shows it.

1. `core-dataset.h:32`, "On startup all datasets are loaded from the HDF5 file".
   The reader of point clouds asks for the data set `rawdata`
   (`hdf5-core-point-cloud.cpp:24`), the writer stores `points`: no point cloud
   is indexed after a restart (`CoreIndexStartupLoadsAll`). An image or point
   with an instance text that is no uuid, also an empty one, is left out too:
   the upload turns it into nil, `hdf5-core-image.cpp:56` throws on it.
2. `core-fb-tf.h:51`, "The tf is stored in the hdf5 file": the pb side does not
   take the mutex (`hdf5-pb-tf.cpp:12`); two requests at the same time read the
   same size, write the same row, and both are answered with success
   (`Hdf5TfAnsweredStored`).
3. `core-instance.h:29`, "The UUID of all data showing the instances are stored":
   `addDataset` looks for an instance and `createNewInstance` emplaces it, and
   two uploads may both have missed it. The second `emplace` is ignored and its
   dataset joins an object that no query finds (`core-instances.cpp:79`,
   `QueryInstanceRace`).
4. `core-fb-general.hpp:60`, "this throws an exeption if core has no project with
   the uuid": `Core::getHdf5File` and `getHdf5FileMutex` catch the exception and
   return a null pointer (`core.cpp:162`), so an accessor of null pointers is
   kept, and the lock after it dereferences one (`ProjectsUnknownRefused`).

Visible in the models, without a run of their own:

* the conversion of a point sets the datatype Image (`core-fb-conversion.cpp:255`),
  so a point is in the index of the images until the next restart
  (`DatatypeOf`), where a query for images finds no group for it;
* a stop before the first `size` of a frame pair makes every later startup throw
  a HighFive exception that nobody catches (`hdf5-core-tf.cpp:32`); so does a
  stop between `rawdata` and the header of an image or point, or between labels
  and their instances (`Fatal`, bounded by `FatalBounded`);
* the result of the filter by instance is dropped when it is empty
  (`core-dataset.cpp:73`): with another filter set, a query is answered as if it
  named no instance; with none, with nothing;
* a list of uuids is one more partial result, and nothing looks up what it names
  (`core-dataset.cpp:82` and `:246`): a query with no other filter left is answered
  with the list, in every project it searches and also where no dataset has the
  uuid (`OnlyListed`);
* a stop inside an append leaves columns longer than `size`, and
  `convertToTfs` then drops the whole frame pair at startup
  (`hdf5-core-tf.cpp:113`) until the next transform of that pair is stored
  (`Damaged`, bounded by `DamageBounded`, healed by `StoredLoadable`);
* frame pairs `a`, `b_c` and `a_b`, `c` share the group `a_b_c` and are read
  back with the frames of the first (`hdf5-fb-tf.cpp:16`, operator `Group`);
* bounding boxes sent twice are refused, where `core-fb-image.cpp:70` says
  "overrides" (`Creatable`);
* the label of an instance never reaches the file, because nothing creates its
  group (`hdf5-core-instance.cpp:51`; `fileInst` stays `None`);
* a second upload of a uuid does not update its list of instances
  (`core-dataset.cpp:407`, `MapInstances`);
* the box of a turned frame comes out with its corners swapped, for data and for
  queries, and what it crosses is missed (`core-tf.cpp:74` and `:113`; `InMap`,
  `Upright`);
* a query with a box in another frame than the map frame reads a time stamp that
  nothing has set (`core-tf.cpp:106`, `TransformQuery`);
* a query without filters misses what is stamped before second 0
  (`core-dataset.cpp:290`, `AllDatasetUuids`);
* a query over several projects is lost as a whole when one of them cannot
  transform its box (`core.cpp:205`, `NextProject` and `TransformQuery`), and a
  query that names one unknown project as a whole too;
* a project whose creation is cut half way comes back without a name or a frame
  (`core-project.cpp:18`, `CreatedServed`);
* attributes for a point that is not there are dropped, and the call is answered
  "everything stored!" (`hdf5-fb-point.cpp:65`, `Steps`);
* boxes sent for an image before the image are in the file and not in the index
  after a restart, until the image is sent and the server started again;
* an upload answered with an error after its header was written appears after the
  next restart (`IndexCurrent`);
* an image sent again with another extent is refused after its new layout was
  written over the old pixels (`hdf5-fb-image.cpp:75`, `torn`); a point cloud
  likewise, with its header and box (`spoiled`);
* a stop between the group of a point cloud and its attributes leaves a uuid that
  can never be written again (`hdf5-pb-pointcloud.cpp:39`, `Throws`); a cloud
  with labels cannot be sent again, and one with both `rgb` and `rgba` is never
  stored whole;
* a query never returns a point cloud: `readPointCloud2` asks for the uuid
  without its group (`hdf5-pb-pointcloud.cpp:282`), and `readPointFieldAttributes`
  reads `BOUNDINGBOX` for the datatypes and counts (`:492`);
* the maximum of a bounding box starts at the smallest positive float (`:99`), so
  the box of a cloud with negative coordinates reaches 0, and that of a cloud
  without numbers is inverted (`BoundingBox`);
* a further field is stored with as many values as the field has elements, not as
  there are points, and read past the data when there are fewer points
  (`hdf5-pb-pointcloud.h:61`, `Reads`);
* a cloud without coordinates fails after it is in the file (`NoBoundingBox`);
* fields of an unknown datatype or name leave the new fields with the old steps
  (`threw`), and the number of bytes wraps at 2^32 (`Fits`).

## 6. Plan

Left to model: `Query` with transforms that change with time, so that the box of
an entry depends on when it was placed.

Theorems to come: a log for the frame pairs that only fb clients write, while pb
clients write others; that a handler of `CoreIndex` is what the steps of the finer
modules amount to.

Not modelled: the readers of point clouds, which no query reaches (section 5);
the ROS clients, which are no part of the server: `clientImagesWithDetection`
looks a detection up by the stamp of its image and drops it when there is none;
writing further attributes of an instance, which has no caller in the server;
conversions between ROS, protobuf and flatbuffers (field by field
copies), the layout of payloads, generated messages, options and logging, TLS,
build files, examples and documentation; the service for sensor messages, whose
handlers are empty.
