----------------------------- MODULE ImageStore -----------------------------
(***************************************************************************)
(* How images and points get into the HDF5 file and into the index, one    *)
(* write of the HDF5 library at a time: Hdf5FbImage, Hdf5PbImage,          *)
(* Hdf5FbPoint with the label and header writers of Hdf5FbGeneral and      *)
(* Hdf5PbGeneral, the services that read a stream of messages, the queries *)
(* that read the file, and the startup on what a stop left behind.         *)
(*                                                                         *)
(* A dataset is a group of the file.  It is modelled by where its content  *)
(* comes from: each attribute and each data set in it holds the message    *)
(* that was written there last.  So a dataset is torn when it holds parts  *)
(* of two messages.                                                        *)
(*                                                                         *)
(* The index is reduced to what a query needs to name a dataset: which     *)
(* header and which labels it was inserted with.  When the index refuses a *)
(* dataset is the subject of CoreIndex; here it does not.                  *)
(***************************************************************************)
EXTENDS Integers, Sequences, FiniteSets

CONSTANTS
  Handlers,     \* the handler threads
  Uuids,        \* uuids of datasets
  Messages,     \* what may be sent, see MessageType
  Streams,      \* the sequences of messages a call may carry
  Sent,         \* the queries that are sent
  None,         \* no value
  MaxRequests,  \* bound on the uploads
  MaxQueries,   \* bound on the queries
  MaxRestarts   \* bound on the restarts

Calls == {"fbImage", "pbImage", "fbPoint", "fbBoxes", "fbAttributes"}
Groups == {"images", "points"}
Keys == Groups \X Uuids

\* size is the extent of the pixels; bb and general tell whether the message has
\* labels of the two kinds; an attribute is untyped when its value is not set.
MessageType ==
  [call : Calls, uuid : Uuids, size : Nat, truecolor : BOOLEAN, project : BOOLEAN,
   bb : BOOLEAN, general : BOOLEAN, attributes : {"none", "some", "untyped"}, number : Nat]

\* Only the flatbuffer service for images leaves the pixels out when it is asked to.
Queries == [reader : {"fbImage"}, filter : {"none", "labels"}, withoutData : BOOLEAN]
             \cup [reader : {"pbImage", "fbPoint"}, filter : {"none", "labels"}, withoutData : {FALSE}]

ASSUME ConstantsAssumption ==
  /\ Messages \subseteq MessageType
  /\ \A m \in Messages : m.call = "fbBoxes" => ~m.general
  /\ Sent \subseteq Queries
  /\ Streams \subseteq Seq(Messages)
  /\ \A s \in Streams : \A i, j \in DOMAIN s : s[i].call = s[j].call
  /\ \A s \in Streams : Len(s) = 1 \/ \A i \in DOMAIN s : s[i].call # "pbImage"
  /\ None \notin Handlers /\ None \notin Messages /\ None \notin Queries
  /\ MaxRequests \in Nat /\ MaxQueries \in Nat /\ MaxRestarts \in Nat

-----------------------------------------------------------------------------
(* What is written for a message, in the order of the writes.              *)

\* encoding stands for is_bigendian, point_step and row_step too, which are written
\* after it and only asked whether they are there.
Layout == <<"height", "width", "encoding">>
Header == <<"seconds", "nanos", "frame_id", "seq">>
BoundingBoxes == <<"labelBB", "labelBBBoxes", "labelBBInstances">>
LabelsGeneral == <<"labelGeneral", "labelGeneralInstances">>

InSeq(s) == {s[i] : i \in DOMAIN s}
LabelFields == InSeq(BoundingBoxes \o LabelsGeneral)
Fields == InSeq(Layout \o Header) \cup LabelFields \cup {"rawdata", "class", "data", "attributes"}

Group(m) == IF m.call \in {"fbPoint", "fbAttributes"} THEN "points" ELSE "images"
KeyOf(m) == <<Group(m), m.uuid>>

\* An empty list of labels writes nothing.
Labels(m) == (IF m.bb THEN BoundingBoxes ELSE <<>>)
               \o (IF m.general THEN LabelsGeneral ELSE <<>>)
Attributes(m) == IF m.attributes = "none" THEN <<>> ELSE <<"attributes">>

\* Wrong on purpose, as every definition named Wrong...: the labels are written
\* before the header.
WrongWriteImage(m) == <<"rawdata">> \o Layout \o <<"class", "data">> \o Labels(m) \o Header

WriteImage(m) == <<"rawdata">> \o Layout \o <<"class", "data">> \o Header \o Labels(m)

\* The twin of the protobuf service makes the same writes in the same order.
WriteImagePb(m) == WriteImage(m)

WritePoint(m) == <<"rawdata", "data">> \o Header \o Attributes(m) \o Labels(m)

VARIABLES
  \* the file
  file,      \* per group and uuid: the message each field was written from, or None
  mutex,     \* the handler that holds m_write_mtx, or None
  \* the handler threads
  pc,        \* what a handler does next
  stream,    \* the messages of the call
  pos,       \* the message of the stream it is at
  at,        \* the write it is at
  answer,    \* the text of the answer so far
  query,     \* the query a handler evaluates
  todo,      \* the uuids it has still to read from the file
  \* the index of the project, in memory
  index,     \* per datatype: uuids with the messages their header came from
  labelled,  \* per datatype: <<uuid, message, kind>>, the labels known for a uuid
  serving,   \* FALSE: an exception left the startup and ended the process
  \* history
  acked,     \* the messages of the calls answered with "everything stored!" or a uuid
  failed,    \* the messages whose upload ended with an exception
  torn,      \* <<key, part>>: the last write of that part did not get to its end
  requests, queries, restarts

handlerVars == <<pc, stream, pos, at, answer>>
queryVars == <<query, todo>>
indexVars == <<index, labelled>>
history == <<acked, failed, torn>>
bounds == <<requests, queries, restarts>>
vars == <<file, mutex, pc, stream, pos, at, answer, query, todo, index, labelled, serving,
          acked, failed, torn, requests, queries, restarts>>

Init ==
  /\ file = [k \in Keys |-> [f \in Fields |-> None]]
  /\ mutex = None
  /\ pc = [h \in Handlers |-> "idle"]
  /\ stream = [h \in Handlers |-> <<>>]
  /\ pos = [h \in Handlers |-> 1]
  /\ at = [h \in Handlers |-> 1]
  /\ answer = [h \in Handlers |-> "everything stored!"]
  /\ query = [h \in Handlers |-> None]
  /\ todo = [h \in Handlers |-> {}]
  /\ index = [d \in Groups |-> {}]
  /\ labelled = [d \in Groups |-> {}]
  /\ serving = TRUE
  /\ acked = {} /\ failed = {} /\ torn = {}
  /\ requests = 0 /\ queries = 0 /\ restarts = 0

-----------------------------------------------------------------------------
(* A call that uploads.                                                    *)

Goto(h, label) == pc' = [pc EXCEPT ![h] = label]

\* The handler returns, or an exception leaves it, and its locals are gone.
Leave(h) ==
  /\ Goto(h, "idle")
  /\ stream' = [stream EXCEPT ![h] = <<>>]
  /\ pos' = [pos EXCEPT ![h] = 1]
  /\ at' = [at EXCEPT ![h] = 1]
  /\ answer' = [answer EXCEPT ![h] = "everything stored!"]

NextInStream(h) ==
  /\ Goto(h, "read")
  /\ pos' = [pos EXCEPT ![h] = @ + 1]
  /\ at' = [at EXCEPT ![h] = 1]
  /\ UNCHANGED <<stream, answer>>

Current(h) == stream[h][pos[h]]

\* The attributes of a point that is not there are dropped with a line in the log.
Steps(m) ==
  CASE m.call = "fbImage" -> WriteImage(m)
    [] m.call = "pbImage" -> WriteImagePb(m)
    [] m.call = "fbPoint" -> WritePoint(m)
    [] m.call = "fbBoxes" -> IF m.bb THEN BoundingBoxes ELSE <<>>
    [] m.call = "fbAttributes" -> IF file[KeyOf(m)]["rawdata"] = None THEN <<>> ELSE Attributes(m)

Receive(h, s) ==
  /\ serving /\ pc[h] = "idle" /\ requests < MaxRequests
  /\ requests' = requests + 1
  /\ Goto(h, "read")
  /\ stream' = [stream EXCEPT ![h] = s]
  /\ UNCHANGED <<file, mutex, pos, at, answer, queryVars, indexVars, serving, history,
                 queries, restarts>>

\* reader->Read.  A message without a project is skipped by the flatbuffer
\* services, which say so in the answer, and refused by the protobuf ones.
WrongNextMessage(h) ==
  /\ pc[h] = "read" /\ pos[h] <= Len(stream[h])
  /\ IF Current(h).project
     THEN Goto(h, "lock") /\ UNCHANGED pos
     ELSE pos' = [pos EXCEPT ![h] = @ + 1] /\ UNCHANGED pc
  /\ UNCHANGED <<file, mutex, stream, at, answer, indexVars, history>>

NextMessage(h) ==
  /\ pc[h] = "read" /\ pos[h] <= Len(stream[h])
  /\ \/ /\ Current(h).project
        /\ Goto(h, "lock")
        /\ UNCHANGED <<stream, pos, at, answer>>
     \/ /\ ~Current(h).project /\ Current(h).call # "pbImage"
        /\ answer' = [answer EXCEPT ![h] = "a msg had no project uuid!"]
        /\ pos' = [pos EXCEPT ![h] = @ + 1]
        /\ UNCHANGED <<pc, stream, at>>
     \/ /\ ~Current(h).project /\ Current(h).call = "pbImage"
        /\ Leave(h)
  /\ UNCHANGED <<file, mutex, indexVars, history>>

\* The end of the stream: the call is answered with success.
EndStream(h) ==
  /\ pc[h] = "read" /\ pos[h] > Len(stream[h])
  /\ Leave(h)
  /\ acked' = IF answer[h] = "everything stored!" THEN acked \cup InSeq(stream[h]) ELSE acked
  /\ UNCHANGED <<file, mutex, indexVars, failed, torn>>

WrongLock(h) ==
  /\ pc[h] = "lock"
  /\ mutex' = h
  /\ Goto(h, "write")
  /\ UNCHANGED <<file, stream, pos, at, answer, indexVars, history>>

Lock(h) ==
  /\ pc[h] = "lock" /\ mutex = None
  /\ mutex' = h
  /\ Goto(h, "write")
  /\ UNCHANGED <<file, stream, pos, at, answer, indexVars, history>>

\* createDataSet throws when there is one; pixels do not fit a data set that was
\* created for another extent; an attribute needs a value.
Throws(m, field) ==
  \/ field \in LabelFields /\ file[KeyOf(m)][field] # None
  \/ field = "data" /\ file[KeyOf(m)]["rawdata"].size # m.size
  \/ field = "attributes" /\ m.attributes = "untyped"

\* rawdata is created once and found later; the attributes that make HDF5 viewers
\* show an image are deleted when it is none with three colours.
Written(m, field) ==
  CASE field = "rawdata" /\ file[KeyOf(m)]["rawdata"] # None -> file[KeyOf(m)]["rawdata"]
    [] field = "class" /\ ~m.truecolor -> None
    [] OTHER -> m

Write(h) ==
  /\ pc[h] = "write" /\ at[h] <= Len(Steps(Current(h)))
  /\ LET m == Current(h)
         field == Steps(m)[at[h]]
     IN /\ ~Throws(m, field)
        /\ file' = [file EXCEPT ![KeyOf(m)][field] = Written(m, field)]
        /\ torn' = IF field = "seq" THEN torn \ {<<KeyOf(m), "data">>} ELSE torn
  /\ at' = [at EXCEPT ![h] = @ + 1]
  /\ UNCHANGED <<mutex, pc, stream, pos, answer, indexVars, acked, failed>>

\* An exception leaves the handler, which ends the call; the lock goes out of
\* scope.  The attributes sent for a point by themselves are the exception: it is
\* caught where they are written.
WrongFail(h) ==
  /\ pc[h] = "write" /\ at[h] <= Len(Steps(Current(h)))
  /\ Throws(Current(h), Steps(Current(h))[at[h]])
  /\ failed' = failed \cup {Current(h)}
  /\ Leave(h)
  /\ UNCHANGED <<file, mutex, indexVars, acked, torn>>

Fail(h) ==
  /\ pc[h] = "write" /\ at[h] <= Len(Steps(Current(h)))
  /\ LET m == Current(h)
         field == Steps(m)[at[h]]
     IN /\ Throws(m, field)
        /\ failed' = failed \cup {m}
        /\ torn' = IF field = "data" THEN torn \cup {<<KeyOf(m), "data">>} ELSE torn
        /\ \/ m.call = "fbAttributes" /\ NextInStream(h)
           \/ m.call # "fbAttributes" /\ Leave(h)
  /\ mutex' = None
  /\ UNCHANGED <<file, indexVars, acked>>

\* The last write is done; the lock goes out of scope.
Unlock(h) ==
  /\ pc[h] = "write" /\ at[h] > Len(Steps(Current(h)))
  /\ mutex' = None
  /\ \/ Current(h).call = "fbAttributes" /\ NextInStream(h)
     \/ /\ Current(h).call # "fbAttributes"
        /\ Goto(h, "index")
        /\ UNCHANGED <<stream, pos, at, answer>>
  /\ UNCHANGED <<file, indexVars, history>>

HeadOf(m) == [uuid |-> m.uuid, seconds |-> m, nanos |-> m, frame_id |-> m]
LabelsOf(m) == (IF m.bb THEN {<<m.uuid, m, "bb">>} ELSE {})
                 \cup (IF m.general THEN {<<m.uuid, m, "general">>} ELSE {})

\* The conversion says Image for a point too.
DatatypeOf(m) == "images"

WrongAddDataset(h) ==
  /\ pc[h] = "index"
  /\ LET m == Current(h)
     IN /\ index' = IF \E e \in index["images"] : e.uuid = m.uuid THEN index
                    ELSE [index EXCEPT ![DatatypeOf(m)] = @ \cup {HeadOf(m)}]
        /\ labelled' = [labelled EXCEPT ![DatatypeOf(m)] = @ \cup LabelsOf(m)]
  /\ NextInStream(h)
  /\ UNCHANGED <<file, mutex, history>>

\* The index hears of the dataset after the file is released.
AddDataset(h) ==
  /\ pc[h] = "index"
  /\ LET m == Current(h)
     IN /\ index' = IF m.call = "fbBoxes" THEN index
                    ELSE [index EXCEPT ![DatatypeOf(m)] = @ \cup {HeadOf(m)}]
        /\ labelled' = [labelled EXCEPT ![DatatypeOf(m)] = @ \cup LabelsOf(m)]
  /\ NextInStream(h)
  /\ UNCHANGED <<file, mutex, history>>

UploadStep(h) ==
  /\ \/ NextMessage(h) \/ EndStream(h) \/ Lock(h) \/ Write(h) \/ Fail(h) \/ Unlock(h)
     \/ AddDataset(h)
  /\ UNCHANGED <<queryVars, serving, bounds>>

-----------------------------------------------------------------------------
(* Reading a dataset back, in a query.                                     *)

Has(k, fields) == \A i \in DOMAIN fields : file[k][fields[i]] # None

\* The loops over the rows and columns the attributes promise leave the data set.
HasHeader(k) == Has(k, Header)
PixelsMissing(k) == \E f \in {"height", "width"} : file[k][f].size > file[k]["rawdata"].size

\* The flatbuffer reader takes the labels without their instances: of the general
\* ones it then asks for an instance that is not there; of the boxes there are none.
ReadImageFb(k, withoutData) ==
  IF ~Has(k, <<"rawdata">> \o Layout) THEN "nothing"
  ELSE IF \/ ~withoutData /\ PixelsMissing(k)
          \/ ~HasHeader(k)
          \/ Has(k, <<"labelGeneral">>) /\ ~Has(k, <<"labelGeneralInstances">>)
       THEN "throws" ELSE "dataset"

\* The protobuf reader looks first whether all data sets of a kind are there.
ReadImagePb(k) ==
  IF ~Has(k, <<"rawdata">> \o Layout) THEN "nothing"
  ELSE IF PixelsMissing(k) \/ ~HasHeader(k) THEN "throws" ELSE "dataset"

\* The labels in an answer are whole lists.
ReadBoundingBox2DLabeled(k) == IF Has(k, BoundingBoxes) THEN {"bb"} ELSE {}
ReadLabelsGeneral(k) == IF Has(k, LabelsGeneral) THEN {"general"} ELSE {}

ReadPoint(k) ==
  IF ~Has(k, <<"rawdata">>) THEN "nothing"
  ELSE IF \/ ~HasHeader(k)
          \/ Has(k, <<"labelGeneral">>) /\ ~Has(k, <<"labelGeneralInstances">>)
       THEN "throws" ELSE "dataset"

GroupRead(q) == IF q.reader = "fbPoint" THEN "points" ELSE "images"

ReadData(q, u) ==
  CASE q.reader = "fbImage" -> ReadImageFb(<<"images", u>>, q.withoutData)
    [] q.reader = "pbImage" -> ReadImagePb(<<"images", u>>)
    [] q.reader = "fbPoint" -> ReadPoint(<<"points", u>>)

\* A query: the index names the datasets, ...
GetData(h, q) ==
  /\ serving /\ pc[h] = "idle" /\ queries < MaxQueries
  /\ queries' = queries + 1
  /\ query' = [query EXCEPT ![h] = q]
  /\ todo' = [todo EXCEPT ![h] =
                IF q.filter = "none" THEN {e.uuid : e \in index[GroupRead(q)]}
                ELSE {l[1] : l \in labelled[GroupRead(q)]}]
  /\ Goto(h, "fetch")
  /\ UNCHANGED <<file, mutex, stream, pos, at, answer, indexVars, serving, history,
                 requests, restarts>>

\* ... and each one is read under the mutex.
ReadDataset(h) ==
  /\ pc[h] = "fetch" /\ mutex = None
  /\ \E u \in todo[h] : /\ ReadData(query[h], u) # "throws"
                       /\ todo' = [todo EXCEPT ![h] = @ \ {u}]
  /\ UNCHANGED <<pc, query>>

\* The answer is complete, ...
EndQuery(h) ==
  /\ pc[h] = "fetch" /\ todo[h] = {}
  /\ Goto(h, "idle")
  /\ query' = [query EXCEPT ![h] = None]
  /\ UNCHANGED todo

\* ... or an exception of the reader ends the query.
FailQuery(h) ==
  /\ pc[h] = "fetch" /\ mutex = None
  /\ \E u \in todo[h] : ReadData(query[h], u) = "throws"
  /\ Goto(h, "idle")
  /\ query' = [query EXCEPT ![h] = None]
  /\ todo' = [todo EXCEPT ![h] = {}]

QueryStep(h) ==
  /\ ReadDataset(h) \/ EndQuery(h) \/ FailQuery(h)
  /\ UNCHANGED <<file, mutex, stream, pos, at, answer, indexVars, serving, history, bounds>>

-----------------------------------------------------------------------------
(* A stop at any time, and the startup.                                    *)

\* Wrong: a header that is not there is not noticed.
WrongFatal(k) ==
  /\ Has(k, <<"rawdata">>)
  /\ Has(k, <<"labelGeneral">>) /\ ~Has(k, <<"labelGeneralInstances">>)

\* What ends the startup: an attribute of the header is missing, or a label has no
\* instance; neither exception is a std::runtime_error.
Fatal(k) ==
  /\ Has(k, <<"rawdata">>)
  /\ \/ ~Has(k, <<"frame_id", "seconds", "nanos">>)
     \/ Has(k, <<"labelGeneral">>) /\ ~Has(k, <<"labelGeneralInstances">>)
     \/ Has(k, <<"labelBB">>) /\ ~Has(k, <<"labelBBInstances">>)

StoredHead(k) == [uuid |-> k[2], seconds |-> file[k]["seconds"], nanos |-> file[k]["nanos"],
                  frame_id |-> file[k]["frame_id"]]
StoredLabels(k) ==
  (IF Has(k, <<"labelBB">>) THEN {<<k[2], file[k]["labelBB"], "bb">>} ELSE {})
    \cup (IF Has(k, <<"labelGeneral">>) THEN {<<k[2], file[k]["labelGeneral"], "general">>} ELSE {})

\* readDataset returns nothing for a group without rawdata.
ReadDatasets(g) == {k \in {g} \X Uuids : Has(k, <<"rawdata">>)}

\* The part of a dataset a handler is at when it is stopped.
CutPart(h) ==
  IF at[h] > Len(Steps(Current(h))) \/ Steps(Current(h))[at[h]] = "attributes" THEN {}
  ELSE {<<KeyOf(Current(h)),
          IF Steps(Current(h))[at[h]] \in LabelFields THEN "labels" ELSE "data">>}

Restart ==
  /\ restarts < MaxRestarts
  /\ restarts' = restarts + 1
  /\ torn' = torn \cup UNION {CutPart(h) : h \in {h \in Handlers : pc[h] = "write"}}
  /\ mutex' = None
  /\ pc' = [h \in Handlers |-> "idle"]
  /\ stream' = [h \in Handlers |-> <<>>]
  /\ pos' = [h \in Handlers |-> 1]
  /\ at' = [h \in Handlers |-> 1]
  /\ answer' = [h \in Handlers |-> "everything stored!"]
  /\ query' = [h \in Handlers |-> None]
  /\ todo' = [h \in Handlers |-> {}]
  /\ serving' = ~\E k \in Keys : Fatal(k)
  /\ index' = [g \in Groups |-> IF serving' THEN {StoredHead(k) : k \in ReadDatasets(g)} ELSE {}]
  /\ labelled' = [g \in Groups |->
                    IF serving' THEN UNION {StoredLabels(k) : k \in ReadDatasets(g)} ELSE {}]
  /\ UNCHANGED <<file, acked, failed, requests, queries>>

-----------------------------------------------------------------------------

Next ==
  \/ \E h \in Handlers :
       \/ \E s \in Streams : Receive(h, s)
       \/ \E q \in Sent : GetData(h, q)
       \/ UploadStep(h)
       \/ QueryStep(h)
  \/ Restart

Spec == Init /\ [][Next]_vars

\* A handler waits for nothing but the mutex.
FairSpec == Spec /\ \A h \in Handlers : WF_vars(UploadStep(h) \/ QueryStep(h))

-----------------------------------------------------------------------------
(* Properties.                                                             *)

TypeOK ==
  /\ file \in [Keys -> [Fields -> Messages \cup {None}]]
  /\ mutex \in Handlers \cup {None}
  /\ pc \in [Handlers -> {"idle", "read", "lock", "write", "index", "fetch"}]
  /\ stream \in [Handlers -> Streams \cup {<<>>}]
  /\ \A h \in Handlers : pc[h] \in {"lock", "write", "index"} => pos[h] \in DOMAIN stream[h]
  /\ pos \in [Handlers -> Nat \ {0}] /\ at \in [Handlers -> Nat \ {0}]
  /\ answer \in [Handlers -> {"everything stored!", "a msg had no project uuid!"}]
  /\ query \in [Handlers -> Queries \cup {None}]
  /\ todo \in [Handlers -> SUBSET Uuids]
  /\ index \in [Groups -> SUBSET [uuid : Uuids, seconds : Messages, nanos : Messages,
                                  frame_id : Messages]]
  /\ labelled \in [Groups -> SUBSET (Uuids \X Messages \X {"bb", "general"})]
  /\ serving \in BOOLEAN
  /\ acked \subseteq Messages /\ failed \subseteq Messages
  /\ torn \subseteq Keys \X {"data", "labels"}

\* The parts of a dataset that are replaced when its uuid is sent again.
DataFields(k) ==
  InSeq(Header) \cup {"data"} \cup (IF k[1] = "images" THEN InSeq(Layout) ELSE {})

DataFrom(k, m) ==
  /\ \A f \in DataFields(k) : file[k][f] = m
  /\ m # None => /\ file[k]["rawdata"] # None
                 /\ file[k]["rawdata"].size = m.size
                 /\ k[1] = "images" => file[k]["class"] = IF m.truecolor THEN m ELSE None

LabelsWhole(k) ==
  /\ \A f \in InSeq(BoundingBoxes) : file[k][f] = file[k]["labelBB"]
  /\ \A f \in InSeq(LabelsGeneral) : file[k][f] = file[k]["labelGeneral"]

Writing(k) == \E h \in Handlers : pc[h] = "write" /\ KeyOf(Current(h)) = k

\* What writeImage and writePoint leave in the file, two services and two handlers
\* at a time and with exceptions half way, is the pixels, layout and header of one
\* message and whole lists of labels; but for a dataset at which the server was
\* stopped, or that was sent again with another extent, until it is sent once more.
WholeUnlessTorn ==
  \A k \in Keys : ~Writing(k) =>
    /\ <<k, "data">> \notin torn => \E m \in Messages \cup {None} : DataFrom(k, m)
    /\ <<k, "labels">> \notin torn => LabelsWhole(k)

\* A dataset the index names can be read from the file by both services, also while
\* it is sent again, and after a restart: no query fails or skips it, and the answer
\* shows each kind of labels the index finds it by.
IndexedReadable ==
  serving /\ mutex = None =>
    \A g \in Groups :
      /\ \A e \in index[g] : Group(e.frame_id) = g /\ <<<<g, e.uuid>>, "data">> \notin torn =>
           \A q \in Queries : GroupRead(q) = g => ReadData(q, e.uuid) = "dataset"
      /\ \A l \in labelled[g] : Group(l[2]) = g /\ <<<<g, l[1]>>, "labels">> \notin torn =>
           l[3] \in ReadBoundingBox2DLabeled(<<g, l[1]>>) \cup ReadLabelsGeneral(<<g, l[1]>>)

\* What was answered with success is in the index with its labels, whatever is sent
\* under the same uuid later, fails there, or is stopped, and however often the
\* server restarts.  Boxes that are sent by themselves stay in the file; the index
\* need not know the image they are for.
AckedKept ==
  serving => \A m \in acked :
    /\ m.call = "fbBoxes" /\ m.bb => file[KeyOf(m)]["labelBB"] = m
    /\ m.call \notin {"fbBoxes", "fbAttributes"} =>
         /\ \E g \in Groups : \E e \in index[g] : e.uuid = m.uuid
         /\ LabelsOf(m) \subseteq labelled["images"] \cup labelled["points"]

\* File and index are changed one after the other, without a lock around both.  A
\* header in the file is in the index too, unless the upload is still under way or
\* has failed after it had written the header.
IndexCurrent ==
  serving => \A k \in Keys : \A m \in Messages :
    /\ \A f \in {"seconds", "nanos", "frame_id"} : file[k][f] = m
    /\ <<k, "data">> \notin torn
    => \/ m \in failed
       \/ \E h \in Handlers : pc[h] \in {"write", "index"} /\ Current(h) = m
       \/ \E g \in Groups : HeadOf(m) \in index[g]

\* Each dataset that ends the startup was left so by a stop of its own: no exception
\* of an upload leaves one behind.
FatalBounded ==
  mutex = None => Cardinality({k \in Keys : Fatal(k)}) <= restarts

\* Every call ends, also when it throws while it holds the mutex of the file.
EveryCallEnds == \A h \in Handlers : pc[h] # "idle" ~> pc[h] = "idle"

=============================================================================
