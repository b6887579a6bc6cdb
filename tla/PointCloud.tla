----------------------------- MODULE PointCloud -----------------------------
(***************************************************************************)
(* A point cloud from the message a client builds to the file and the      *)
(* index: PointCloud2Modifier, which keeps the layout of the message while *)
(* it is changed; the iterators, which find a channel of a point in its    *)
(* bytes; the writers of Hdf5PbPointCloud, one call of the HDF5 library at *)
(* a time; CorePbPointCloud::addData and the service.                      *)
(*                                                                         *)
(* The bytes of a message are abstracted to their number, and what is read *)
(* from them to the position it is read at.  A stored part of a cloud is   *)
(* modelled by the number of the upload it was written by.  Of the three   *)
(* coordinates, which are handled alike, a message has the values of one.  *)
(***************************************************************************)
EXTENDS Integers, Sequences, FiniteSets, SequencesExt

CONSTANTS
  Handlers,     \* the handler threads
  Uuids,        \* uuids of point clouds
  OtherNames,   \* names of fields that are neither coordinates nor colours
  Normals,      \* those of them that begin with "normal"
  Starts,       \* <<height, width, is_bigendian>>, what a client starts with
  FieldLists,   \* what setPointCloud2Fields is called with, see FieldType
  NameLists,    \* what setPointCloud2FieldsByString is called with
  Sizes,        \* what resize is called with
  Contents,     \* <<general, bb, coordinates>>: whether a message has labels of the two
                \* kinds, and a sequence of coordinates, which its points take in turn
  NaN,          \* a coordinate that is no number
  UIntSize,     \* an unsigned int of a message is computed modulo this, 2^32 in the code
  None,         \* no handler
  MaxEdits,     \* bound on the changes to the message
  MaxUploads,   \* bound on the uploads
  MaxRestarts   \* bound on the restarts

\* The bytes of a datatype; it throws for one that is not listed.
Datatypes == {"INT8", "UINT8", "INT16", "UINT16", "INT32", "UINT32", "FLOAT32", "FLOAT64"}
SizeOfPointField ==
  [t \in Datatypes |->
     CASE t \in {"INT8", "UINT8"} -> 1
       [] t \in {"INT16", "UINT16"} -> 2
       [] t \in {"INT32", "UINT32", "FLOAT32"} -> 4
       [] t = "FLOAT64" -> 8]

Names == {"x", "y", "z", "rgb", "rgba"} \cup OtherNames
FieldType == [name : Names, count : Nat \ {0}, datatype : Datatypes \cup {"UNSET"}]

-----------------------------------------------------------------------------
(* PointCloud2Modifier.                                                    *)

NoFields == [fields |-> <<>>, offset |-> 0, threw |-> FALSE]

\* The field is added before the size of its datatype is asked for.
AddPointField(a, f) ==
  IF a.threw THEN a
  ELSE LET known == f.datatype \in Datatypes
       IN [fields |-> Append(a.fields, [name |-> f.name, count |-> f.count,
                                        datatype |-> f.datatype, offset |-> a.offset]),
           offset |-> a.offset + IF known THEN f.count * SizeOfPointField[f.datatype] ELSE 0,
           threw |-> ~known]

\* One field after the other.
AddFields(fs) ==
  LET added[i \in 0 .. Len(fs)] ==
        IF i = 0 THEN NoFields ELSE AddPointField(added[i - 1], fs[i])
  IN added[Len(fs)]

Float(name) == [name |-> name, count |-> 1, datatype |-> "FLOAT32"]
Pad(a, floats) == [a EXCEPT !.offset = @ + floats * SizeOfPointField["FLOAT32"]]

\* "xyz" and the colours are padded to four floats; another name throws.
AddByString(a, name) ==
  CASE a.threw -> a
    [] ~a.threw /\ name = "xyz" ->
         Pad(AddPointField(AddPointField(AddPointField(a, Float("x")), Float("y")),
                           Float("z")), 1)
    [] ~a.threw /\ name \in {"rgb", "rgba"} -> Pad(AddPointField(a, Float(name)), 3)
    [] OTHER -> [a EXCEPT !.threw = TRUE]

AddFieldsByString(names) ==
  LET added[i \in 0 .. Len(names)] ==
        IF i = 0 THEN NoFields ELSE AddByString(added[i - 1], names[i])
  IN added[Len(names)]

\* The names of the other fields are also no channels of a colour; a message has a value
\* for some point.
ASSUME ConstantsAssumption ==
  /\ None \notin Handlers
  /\ Starts \subseteq Nat \X Nat \X BOOLEAN /\ Sizes \subseteq Nat /\ UIntSize \in Nat \ {0}
  /\ \A s \in Starts : s[1] < UIntSize /\ s[2] < UIntSize
  /\ \A n \in Sizes : n < UIntSize
  /\ OtherNames \cap {"x", "y", "z", "rgb", "rgba", "r", "g", "b", "a"} = {}
  /\ FieldLists \subseteq Seq(FieldType) /\ NameLists \subseteq Seq(STRING)
  /\ Contents \subseteq BOOLEAN \X BOOLEAN \X (Seq(Int \cup {NaN}) \ {<<>>})
  /\ MaxEdits \in Nat /\ MaxUploads \in Nat /\ MaxRestarts \in Nat

VARIABLES
  \* the client
  cloud,    \* the message: fields, height, width, is_bigendian, point_step, row_step and
            \* size, the number of bytes in data
  threw,    \* the fields were set last by a call that ended with an exception
  \* the service
  uploads,  \* the messages sent so far, each with its uuid, labels and coordinates
  pc,       \* what a handler does next
  job,      \* the upload it handles, 0 for none
  calls,    \* the calls of the library it has still to make
  box,      \* the upload whose bounding box it read back
  mutex,    \* the handler that holds m_write_mtx, or None
  \* the file
  file,     \* per uuid: the upload each part was written by, 0 for none
  extent,   \* per uuid: the extent each data set was created with, <<>> for none
  \* the index
  index,    \* which upload was indexed with whose box
  \* history
  acked,    \* the uploads answered with success since the server started
  spoiled,  \* the uuids at which a write was not carried through
  edits, restarts

clientVars == <<cloud, threw, edits>>
fileVars == <<file, extent>>
vars == <<cloud, threw, uploads, pc, job, calls, box, mutex, file, extent, index, acked, spoiled,
          edits, restarts>>

\* What the modifier and the calls of set_row_step and data().resize() store.
RowStep(width, step) == (width * step) % UIntSize

\* Wrong on purpose, as every definition named Wrong...: the data keeps its size.
WrongWithFields(c, a) ==
  IF a.threw THEN [c EXCEPT !.fields = a.fields]
  ELSE [c EXCEPT !.fields = a.fields,
                 !.point_step = a.offset,
                 !.row_step = RowStep(c.width, a.offset)]

\* The layout after the fields are set, when that did not throw.
WithFields(c, a) ==
  IF a.threw THEN [c EXCEPT !.fields = a.fields]
  ELSE [c EXCEPT !.fields = a.fields,
                 !.point_step = a.offset,
                 !.row_step = RowStep(c.width, a.offset),
                 !.size = (c.height * RowStep(c.width, a.offset)) % UIntSize]

\* A message that is written is a copy; the client goes on when it has reached the file.
Edit ==
  /\ edits < MaxEdits
  /\ \A h \in Handlers : pc[h] \in {"idle", "lock"}
  /\ edits' = edits + 1
  /\ UNCHANGED <<uploads, pc, job, calls, box, mutex, fileVars, index, acked, spoiled, restarts>>

SetPointCloud2Fields(fs) ==
  /\ cloud' = WithFields(cloud, AddFields(fs))
  /\ threw' = AddFields(fs).threw
  /\ Edit

SetPointCloud2FieldsByString(names) ==
  /\ cloud' = WithFields(cloud, AddFieldsByString(names))
  /\ threw' = AddFieldsByString(names).threw
  /\ Edit

\* A cloud of one column grows downwards, any other one becomes a row.
WrongResized(c, n) ==
  IF c.height # 1 /\ c.width = 1
  THEN [c EXCEPT !.height = n, !.size = n * c.point_step]
  ELSE [c EXCEPT !.height = 1, !.width = n, !.size = n * c.point_step]

Resized(c, n) ==
  IF c.height # 1 /\ c.width = 1
  THEN [c EXCEPT !.height = n, !.size = n * c.point_step]
  ELSE [c EXCEPT !.height = 1, !.width = n, !.size = n * c.point_step,
                 !.row_step = RowStep(n, c.point_step)]

Resize(n) == cloud' = Resized(cloud, n) /\ Edit /\ UNCHANGED threw

\* Likewise, with nothing left; the height of a row stays 1.
Cleared(c) ==
  CASE c.height = 1 -> [c EXCEPT !.size = 0, !.row_step = 0, !.width = 0]
    [] c.height # 1 /\ c.width = 1 -> [c EXCEPT !.size = 0, !.height = 0]
    [] OTHER -> [c EXCEPT !.size = 0, !.row_step = 0, !.width = 0, !.height = 0]

Clear == cloud' = Cleared(cloud) /\ Edit /\ UNCHANGED threw

ClientStep ==
  \/ \E fs \in FieldLists : SetPointCloud2Fields(fs)
  \/ \E names \in NameLists : SetPointCloud2FieldsByString(names)
  \/ \E n \in Sizes : Resize(n)
  \/ Clear

-----------------------------------------------------------------------------
(* What the writer makes of a message.                                     *)

FieldNames(c) == {c.fields[i].name : i \in DOMAIN c.fields}

\* getCloudInfo: what is stored of a cloud.  Normals are not.
HasPoints(c) == {"x", "y", "z"} \subseteq FieldNames(c)
HasRgb(c) == "rgb" \in FieldNames(c)
HasRgba(c) == "rgba" \in FieldNames(c)
OtherFields(c) == FieldNames(c) \cap (OtherNames \ Normals)

\* The field a name stands for in the map of the other fields: the last one.
OtherField(c, name) == c.fields[Max({i \in DOMAIN c.fields : c.fields[i].name = name})]

FirstField(c, names) == c.fields[Min({i \in DOMAIN c.fields : c.fields[i].name \in names})]

\* Where the bytes of a colour are, by the order of the bytes.
WrongShift(big, channel) ==
  CASE channel = "r" -> 2 [] channel = "g" -> 1 [] channel = "b" -> 0 [] channel = "a" -> 3

Shift(big, channel) ==
  CASE channel = "r" -> IF big THEN 1 ELSE 2
    [] channel = "g" -> IF big THEN 2 ELSE 1
    [] channel = "b" -> IF big THEN 3 ELSE 0
    [] channel = "a" -> IF big THEN 0 ELSE 3

\* A field of that name, or a channel of the first field with packed colours.
SetField(c, name) ==
  IF name \in FieldNames(c) THEN FirstField(c, {name}).offset
  ELSE FirstField(c, {"rgb", "rgba"}).offset + Shift(c.is_bigendian, name)

\* operator++ moves an iterator on by a point, whatever the steps of the rows are.
IteratorAt(c, name, k) == SetField(c, name) + k * c.point_step
IteratorEnd(c, name) == SetField(c, name) + c.size

Points(c) == 0 .. c.height * c.width - 1

\* What is read: the channel, the bytes it takes, and at how many points.
Reads(c) ==
  (IF HasPoints(c) THEN {"x", "y", "z"} \X {4} \X {c.height * c.width} ELSE {})
    \cup (IF HasRgb(c) THEN {"r", "g", "b"} \X {1} \X {c.height * c.width} ELSE {})
    \cup (IF HasRgba(c) THEN {"r", "g", "b", "a"} \X {1} \X {c.height * c.width} ELSE {})
    \cup {<<name, SizeOfPointField[OtherField(c, name).datatype], OtherField(c, name).count>> :
            name \in {n \in OtherFields(c) :
                        OtherField(c, n).datatype \in Datatypes}}

\* Coordinates are integers scaled so that the smallest positive float is 1; NaN is
\* none of them and compares with nothing.
Largest == 1000
Smallest == 1

\* The coordinate of point k.
Value(m, k) == m.coordinates[(k % Len(m.coordinates)) + 1]

\* The loop over the points, with its initial values.
WrongBoundingBox(m) ==
  LET v == {Value(m, k) : k \in Points(m.cloud)} \ {NaN}
  IN <<Min(v \cup {Largest}), Smallest>>

BoundingBox(m) ==
  LET v == {Value(m, k) : k \in Points(m.cloud)} \ {NaN}
  IN <<Min(v \cup {Largest}), Max(v \cup {Smallest})>>

-----------------------------------------------------------------------------
(* Hdf5PbPointCloud::writePointCloud2: the calls of the library.           *)

\* The attributes of the layout between the first and the last are like them, and so
\* are the boxes between the labels and the instances.
Layout == <<"height", "is_dense">>
LabelsGeneral == <<"labelGeneral", "labelGeneralInstances">>
BoundingBoxLabeled == <<"labelBB", "labelBBInstances">>
LabelFields == ToSet(LabelsGeneral \o BoundingBoxLabeled)
DataSets == {"points", "colors"} \cup OtherNames
CloudParts == {"group", "fields", "header", "boundingbox", "points", "colors"}
                \cup ToSet(Layout) \cup LabelFields
Parts == CloudParts \cup OtherNames

\* The other fields are stored in a group of their own.
ASSUME PartsAssumption == OtherNames \cap CloudParts = {}

\* kind is what the call does with the part; of is the extent of a data set.
Call(kind, part, of) == [kind |-> kind, part |-> part, of |-> of]
Calls(kind, parts) == [i \in DOMAIN parts |-> Call(kind, parts[i], <<>>)]

ExtentOf(m, depth) == <<m.cloud.height, m.cloud.width, depth>>

WritePoints(m) ==
  <<Call("create", "points", ExtentOf(m, 3)), Call("attribute", "boundingbox", <<>>),
    Call("data", "points", ExtentOf(m, 3))>>

WriteColorsRGB(m) ==
  <<Call("create", "colors", ExtentOf(m, 3)), Call("data", "colors", ExtentOf(m, 3))>>

WriteColorsRGBA(m) ==
  <<Call("create", "colors", ExtentOf(m, 4)), Call("data", "colors", ExtentOf(m, 4))>>

\* One data set per field of a known datatype, for as many values as the field has
\* elements; the library takes another number of them into it later.
WriteOtherFields(m) ==
  LET known == {n \in OtherFields(m.cloud) :
                  OtherField(m.cloud, n).datatype \in Datatypes}
      Name(i) == SetToSeq(known)[(i + 1) \div 2]
  IN [i \in 1 .. 2 * Cardinality(known) |->
        IF i % 2 = 1 THEN Call("create", Name(i), <<OtherField(m.cloud, Name(i)).count>>)
                     ELSE Call("values", Name(i), <<>>)]

When(condition, s) == IF condition THEN s ELSE <<>>

WritePointCloud2(m) ==
  Calls("group", <<"group">>) \o Calls("layout", Layout)
    \o Calls("attribute", <<"fields", "header">>)
    \o When(m.general, Calls("label", LabelsGeneral))
    \o When(m.bb, Calls("label", BoundingBoxLabeled))
    \o When(HasPoints(m.cloud), WritePoints(m))
    \o When(HasRgb(m.cloud), WriteColorsRGB(m))
    \o When(HasRgba(m.cloud), WriteColorsRGBA(m))
    \o WriteOtherFields(m)

\* The attributes of the layout are created with the group and only looked up in one
\* that is there; a list of labels is created once; data fits its data set or not.
Throws(n, c) ==
  LET u == uploads[n].uuid
  IN \/ c.kind = "layout" /\ file[u]["group"] # n /\ file[u][c.part] = 0
     \/ c.kind = "label" /\ file[u][c.part] # 0
     \/ c.kind = "data" /\ extent[u][c.part] # c.of

-----------------------------------------------------------------------------

Init ==
  /\ \E s \in Starts :
       cloud = [fields |-> <<>>, height |-> s[1], width |-> s[2], is_bigendian |-> s[3],
                point_step |-> 0, row_step |-> 0, size |-> 0]
  /\ threw = FALSE
  /\ uploads = <<>>
  /\ pc = [h \in Handlers |-> "idle"]
  /\ job = [h \in Handlers |-> 0]
  /\ calls = [h \in Handlers |-> <<>>]
  /\ box = [h \in Handlers |-> 0]
  /\ mutex = None
  /\ file = [u \in Uuids |-> [p \in Parts |-> 0]]
  /\ extent = [u \in Uuids |-> [d \in DataSets |-> <<>>]]
  /\ index = {} /\ acked = {} /\ spoiled = {}
  /\ edits = 0 /\ restarts = 0

Goto(h, label) == pc' = [pc EXCEPT ![h] = label]

Leave(h) ==
  /\ Goto(h, "idle")
  /\ job' = [job EXCEPT ![h] = 0]
  /\ calls' = [calls EXCEPT ![h] = <<>>]
  /\ box' = [box EXCEPT ![h] = 0]

Upload(h) == uploads[job[h]]

\* A message is sent as it is.  One without a project is refused and changes nothing;
\* the clouds that are sent have points and data and were built without an exception.
Transfer(h, u, content) ==
  /\ pc[h] = "idle" /\ Len(uploads) < MaxUploads
  /\ ~threw /\ cloud.height * cloud.width > 0 /\ cloud.size > 0
  /\ uploads' = Append(uploads, [cloud |-> cloud, uuid |-> u, general |-> content[1],
                                 bb |-> content[2], coordinates |-> content[3]])
  /\ job' = [job EXCEPT ![h] = Len(uploads) + 1]
  /\ Goto(h, "lock")
  /\ UNCHANGED <<clientVars, calls, box, mutex, fileVars, index, acked, spoiled, restarts>>

WrongLock(h) ==
  /\ pc[h] = "lock"
  /\ mutex' = h
  /\ Goto(h, "write")
  /\ calls' = [calls EXCEPT ![h] = WritePointCloud2(Upload(h))]
  /\ UNCHANGED <<job, box, fileVars, index, acked, spoiled>>

Lock(h) ==
  /\ pc[h] = "lock" /\ mutex = None
  /\ mutex' = h
  /\ Goto(h, "write")
  /\ calls' = [calls EXCEPT ![h] = WritePointCloud2(Upload(h))]
  /\ UNCHANGED <<job, box, fileVars, index, acked, spoiled>>

Write(h) ==
  /\ pc[h] = "write" /\ calls[h] # <<>>
  /\ LET c == Head(calls[h])
         u == Upload(h).uuid
     IN /\ ~Throws(job[h], c)
        /\ extent' = IF c.kind = "create" /\ extent[u][c.part] = <<>>
                     THEN [extent EXCEPT ![u][c.part] = c.of] ELSE extent
        /\ file' = IF c.kind = "create" \/ (c.kind = "group" /\ file[u]["group"] # 0)
                   THEN file ELSE [file EXCEPT ![u][c.part] = job[h]]
  /\ calls' = [calls EXCEPT ![h] = Tail(@)]
  /\ UNCHANGED <<pc, job, box, mutex, index, acked, spoiled>>

\* An exception ends the upload; the lock goes out of scope.
Fail(h) ==
  /\ pc[h] = "write" /\ calls[h] # <<>>
  /\ Throws(job[h], Head(calls[h]))
  /\ spoiled' = spoiled \cup {Upload(h).uuid}
  /\ Leave(h)
  /\ mutex' = None
  /\ UNCHANGED <<fileVars, index, acked>>

\* A cloud that was written to its end with its points leaves nothing of another one.
Unlock(h) ==
  /\ pc[h] = "write" /\ calls[h] = <<>>
  /\ spoiled' = IF HasPoints(Upload(h).cloud) THEN spoiled \ {Upload(h).uuid} ELSE spoiled
  /\ mutex' = None
  /\ Goto(h, "box")
  /\ UNCHANGED <<job, calls, box, fileVars, index, acked>>

WrongLoadBoundingBox(h) ==
  /\ pc[h] = "box" /\ mutex = None
  /\ box' = [box EXCEPT ![h] = file[Upload(h).uuid]["boundingbox"]]
  /\ Goto(h, "add")
  /\ UNCHANGED <<job, calls, mutex, fileVars, index, acked, spoiled>>

\* addData reads the bounding box back, under a lock of its own.
LoadBoundingBox(h) ==
  /\ pc[h] = "box" /\ mutex = None
  /\ file[Upload(h).uuid]["boundingbox"] # 0
  /\ box' = [box EXCEPT ![h] = file[Upload(h).uuid]["boundingbox"]]
  /\ Goto(h, "add")
  /\ UNCHANGED <<job, calls, mutex, fileVars, index, acked, spoiled>>

\* There is none when the cloud has no points: an exception ends the upload.
NoBoundingBox(h) ==
  /\ pc[h] = "box" /\ mutex = None
  /\ file[Upload(h).uuid]["boundingbox"] = 0
  /\ Leave(h)
  /\ UNCHANGED <<mutex, fileVars, index, acked, spoiled>>

WrongAddDataset(h) ==
  /\ pc[h] = "add"
  /\ index' = IF \E e \in index : e.uuid = Upload(h).uuid THEN index
              ELSE index \cup {[uuid |-> Upload(h).uuid, header |-> job[h], box |-> box[h]]}
  /\ acked' = acked \cup {job[h]}
  /\ Leave(h)
  /\ UNCHANGED <<mutex, fileVars, spoiled>>

AddDataset(h) ==
  /\ pc[h] = "add"
  /\ index' = index \cup {[uuid |-> Upload(h).uuid, header |-> job[h], box |-> box[h]]}
  /\ acked' = acked \cup {job[h]}
  /\ Leave(h)
  /\ UNCHANGED <<mutex, fileVars, spoiled>>

UploadStep(h) ==
  /\ \/ Lock(h) \/ Write(h) \/ Fail(h) \/ Unlock(h) \/ LoadBoundingBox(h) \/ NoBoundingBox(h)
     \/ AddDataset(h)
  /\ UNCHANGED <<clientVars, uploads, restarts>>

\* A stop at any time.  The startup reads no point cloud: none has the data set
\* readDataset asks for.
Restart ==
  /\ restarts < MaxRestarts
  /\ restarts' = restarts + 1
  /\ spoiled' = spoiled \cup {Upload(h).uuid : h \in {h \in Handlers : pc[h] = "write"}}
  /\ pc' = [h \in Handlers |-> "idle"]
  /\ job' = [h \in Handlers |-> 0]
  /\ calls' = [h \in Handlers |-> <<>>]
  /\ box' = [h \in Handlers |-> 0]
  /\ mutex' = None
  /\ index' = {} /\ acked' = {}
  /\ UNCHANGED <<clientVars, uploads, fileVars>>

Next ==
  \/ ClientStep
  \/ \E h \in Handlers :
       \/ \E u \in Uuids, content \in Contents : Transfer(h, u, content)
       \/ UploadStep(h)
  \/ Restart

Spec == Init /\ [][Next]_vars

-----------------------------------------------------------------------------
(* Properties.                                                             *)

TypeOK ==
  /\ {cloud.height, cloud.width, cloud.point_step, cloud.row_step, cloud.size} \subseteq Nat
  /\ cloud.is_bigendian \in BOOLEAN /\ threw \in BOOLEAN
  /\ \A i \in DOMAIN cloud.fields :
       cloud.fields[i].name \in Names /\ cloud.fields[i].offset \in Nat
  /\ pc \in [Handlers -> {"idle", "lock", "write", "box", "add"}]
  /\ job \in [Handlers -> 0 .. Len(uploads)] /\ box \in [Handlers -> 0 .. Len(uploads)]
  /\ \A h \in Handlers : (pc[h] = "idle") <=> (job[h] = 0)
  /\ mutex \in Handlers \cup {None}
  /\ file \in [Uuids -> [Parts -> 0 .. Len(uploads)]]
  /\ \A u \in Uuids : DOMAIN extent[u] = DataSets
  /\ \A e \in index : e.uuid \in Uuids /\ {e.header, e.box} \subseteq 1 .. Len(uploads)
  /\ acked \subseteq 1 .. Len(uploads) /\ spoiled \subseteq Uuids

\* The number of bytes can be computed in an unsigned int.
Fits(c) == c.height * c.width * c.point_step < UIntSize

\* However a message is resized, cleared and given other fields, its bytes are those of
\* its rows and its rows those of their points, as long as they can be counted.
ShapeKept ==
  Fits(cloud) => /\ cloud.size = cloud.height * cloud.width * cloud.point_step
                 /\ cloud.height > 0 => cloud.row_step = cloud.width * cloud.point_step

FourBytes(c) ==
  \A i \in DOMAIN c.fields :
    c.fields[i].name \in {"x", "y", "z", "rgb", "rgba"} =>
      SizeOfPointField[c.fields[i].datatype] >= 4

\* The iterators the server copies a message with read inside its data, and end where
\* it ends, when the message was built without an exception, can be counted, and has
\* floats for coordinates and colours; but for a field with more elements than the
\* cloud has points, of which as many are read as there are elements.
ReadsInside ==
  ~threw /\ Fits(cloud) /\ FourBytes(cloud) =>
    \A r \in Reads(cloud) : r[3] <= cloud.height * cloud.width =>
      /\ \A k \in 0 .. r[3] - 1 : IteratorAt(cloud, r[1], k) + r[2] <= cloud.size
      /\ IteratorAt(cloud, r[1], cloud.height * cloud.width) = IteratorEnd(cloud, r[1])

\* The colours of a point are four bytes in the order the message says, from the highest
\* to the lowest alpha, red, green, blue, and two channels of a point are never read from
\* the same byte, when no two fields have one name.
NamesDiffer(c) ==
  \A i, j \in DOMAIN c.fields : c.fields[i].name = c.fields[j].name => i = j
PackedOrder(big) == IF big THEN <<"a", "r", "g", "b">> ELSE <<"b", "g", "r", "a">>
ColoursInOrder ==
  ~threw =>
    /\ HasRgb(cloud) \/ HasRgba(cloud) =>
         \E i \in DOMAIN cloud.fields :
           /\ cloud.fields[i].name \in {"rgb", "rgba"}
           /\ \A j \in 1 .. 4 : SetField(cloud, PackedOrder(cloud.is_bigendian)[j])
                                  = cloud.fields[i].offset + j - 1
    /\ FourBytes(cloud) /\ NamesDiffer(cloud) => \A r, s \in Reads(cloud) : r[1] # s[1] =>
         {SetField(cloud, r[1]), SetField(cloud, r[1]) + r[2] - 1}
           \cap SetField(cloud, s[1]) .. SetField(cloud, s[1]) + s[2] - 1 = {}

Writing(u) == \E h \in Handlers : pc[h] = "write" /\ Upload(h).uuid = u

\* What two handlers write under one uuid is, when none of them writes, all that one
\* message has to store, but for a uuid at which an upload failed or was stopped, until
\* a cloud with points is stored under it.
WholeUnlessSpoiled ==
  \A u \in Uuids : Writing(u) \/ u \in spoiled \/
    \E n \in 0 .. Len(uploads) :
      /\ \A p \in ToSet(Layout) \cup {"fields", "header"} : file[u][p] = n
      /\ n # 0 => \A c \in ToSet(WritePointCloud2(uploads[n])) :
                    c.kind \notin {"group", "create"} => file[u][c.part] = n

\* The bounding box stored with a cloud contains the stored points, whichever were sent
\* under its uuid; a coordinate that is no number is in no box.
BoxCovers ==
  \A u \in Uuids : Writing(u) \/ u \in spoiled \/ file[u]["points"] = 0 \/
    LET m == uploads[file[u]["points"]]
        b == BoundingBox(uploads[file[u]["boundingbox"]])
    IN \A k \in Points(m.cloud) : Value(m, k) # NaN =>
         b[1] <= Value(m, k) /\ Value(m, k) <= b[2]

\* File and index are changed one after the other and the box is read back in between:
\* the box in the file is the one the index knows the cloud by, once the upload that
\* wrote it is answered.
BoxIndexed ==
  \A u \in Uuids : file[u]["boundingbox"] \in acked =>
    \E e \in index : e.uuid = u /\ e.box = file[u]["boundingbox"]

=============================================================================
