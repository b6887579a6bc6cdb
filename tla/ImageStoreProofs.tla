-------------------------- MODULE ImageStoreProofs --------------------------
(***************************************************************************)
(* Proofs about ImageStore, for any number of handlers, uuids, messages,   *)
(* uploads and restarts: what the file holds when nobody writes to it,     *)
(* what the index names, what a call was answered with success for, and    *)
(* how many datasets can end a startup.                                    *)
(***************************************************************************)
EXTENDS ImageStore, FiniteSetTheorems, TLAPS

-----------------------------------------------------------------------------
(* The invariant.                                                          *)

Uploads == {"fbImage", "pbImage", "fbPoint"}

\* The writes of an upload up to the end of the header, which come before all others.
DataSteps == {"rawdata", "height", "width", "encoding", "class", "data", "seconds", "nanos",
              "frame_id", "seq"}

\* The write that is next: of a message, and in a dataset by the holder of the mutex.
FieldAt(m, i) == IF i \in DOMAIN Steps(m) THEN Steps(m)[i] ELSE "none"
NextField(k) ==
  IF mutex # None /\ KeyOf(Current(mutex)) = k THEN FieldAt(Current(mutex), at[mutex]) ELSE "none"

\* Only the holder of the mutex writes, and nobody does anything after a failed startup.
Locks ==
  /\ \A h \in Handlers : pc[h] = "write" <=> mutex = h
  /\ ~serving => \A h \in Handlers : pc[h] = "idle"

\* What is true of a field after a message has written it.
WrittenField(m, f) ==
  /\ file[KeyOf(m)][f] = Written(m, f)
  /\ f \in {"rawdata", "data"} => file[KeyOf(m)]["rawdata"] # None
  /\ f = "data" => file[KeyOf(m)]["rawdata"].size = m.size

\* What the writer has passed is written.
Progress ==
  mutex # None =>
    \A i \in DOMAIN Steps(Current(mutex)) :
      i < at[mutex] => WrittenField(Current(mutex), Steps(Current(mutex))[i])

\* A field holds a message for its own dataset, and the data one that is an upload.
FromKey(k) ==
  \A f \in Fields : file[k][f] # None =>
    /\ KeyOf(file[k][f]) = k
    /\ f \in DataSteps => file[k][f].call \in Uploads

\* The lists of labels are written in their order, ...
LabelOrder(k) ==
  /\ file[k]["labelBBInstances"] # None => file[k]["labelBBBoxes"] # None
  /\ file[k]["labelBBBoxes"] # None => file[k]["labelBB"] # None
  /\ file[k]["labelGeneralInstances"] # None => file[k]["labelGeneral"] # None
  /\ file[k]["labelGeneral"] # None => file[k]["rawdata"] # None

\* ... so a writer that is half way finds the rest of a list missing.
AtLabels(k) ==
  /\ NextField(k) = "labelBBBoxes" =>
       file[k]["labelBBBoxes"] = None /\ file[k]["labelBBInstances"] = None
  /\ NextField(k) = "labelBBInstances" => file[k]["labelBBInstances"] = None
  /\ NextField(k) = "labelGeneralInstances" => file[k]["labelGeneralInstances"] = None

DataInv(k) ==
  \/ NextField(k) \in DataSteps
  \/ <<k, "data">> \in torn
  \/ \E m \in Messages \cup {None} : DataFrom(k, m)

WholeBB(k) ==
  /\ file[k]["labelBBBoxes"] = file[k]["labelBB"]
  /\ file[k]["labelBBInstances"] = file[k]["labelBB"]
WholeGeneral(k) == file[k]["labelGeneralInstances"] = file[k]["labelGeneral"]

LabelsInv(k) ==
  \/ <<k, "labels">> \in torn
  \/ /\ WholeBB(k) \/ NextField(k) \in {"labelBBBoxes", "labelBBInstances"}
     /\ WholeGeneral(k) \/ NextField(k) = "labelGeneralInstances"

\* A process that serves has passed its startup: a dataset that did not end it has its
\* header and whole labels, and one that is new has them when its writer is done.
HasHead(k) == \A f \in {"frame_id", "seconds", "nanos"} : file[k][f] # None

ServingInv(k) ==
  serving =>
    /\ file[k]["rawdata"] # None =>
         HasHead(k) \/ (NextField(k) \in DataSteps /\ file[k]["rawdata"] = Current(mutex))
    /\ file[k]["labelGeneral"] # None =>
         file[k]["labelGeneralInstances"] # None \/ NextField(k) = "labelGeneralInstances"

DatasetInv ==
  \A k \in Keys : /\ FromKey(k) /\ LabelOrder(k) /\ AtLabels(k)
                  /\ DataInv(k) /\ LabelsInv(k) /\ ServingInv(k)

\* What the index names is in the file.
FirstField(kind) == IF kind = "bb" THEN "labelBB" ELSE "labelGeneral"

IndexInv ==
  \A g \in Groups :
    /\ \A e \in index[g] : Group(e.frame_id) = g =>
         file[<<g, e.uuid>>]["rawdata"] # None /\ file[<<g, e.uuid>>]["frame_id"] # None
    /\ \A l \in labelled[g] : Group(l[2]) = g =>
         file[<<g, l[1]>>][FirstField(l[3])] # None

\* The writes of an upload leave this in the file for good: the data, and the first list
\* of its labels, which no later message replaces.
Stored(m) ==
  /\ m.call # "fbBoxes" =>
       file[KeyOf(m)]["rawdata"] # None /\ file[KeyOf(m)]["frame_id"] # None
  /\ m.bb => file[KeyOf(m)]["labelBB"] = m
  /\ m.general => file[KeyOf(m)]["labelGeneral"] = m

Indexed(m) ==
  m.call # "fbBoxes" =>
    /\ \E g \in Groups : \E e \in index[g] : e.uuid = m.uuid
    /\ LabelsOf(m) \subseteq labelled["images"] \cup labelled["points"]

\* What a handler has passed of its stream is stored and indexed, unless its answer
\* says otherwise.
Local(h) ==
  /\ pc[h] \in {"idle", "fetch"} => stream[h] = <<>> /\ pos[h] = 1
  /\ pc[h] \in {"idle", "fetch", "read", "lock"} => at[h] = 1
  /\ answer[h] = "everything stored!" =>
       \A i \in DOMAIN stream[h] : i < pos[h] /\ stream[h][i].call # "fbAttributes" =>
         Stored(stream[h][i]) /\ Indexed(stream[h][i])
  /\ pc[h] = "index" => Current(h).call # "fbAttributes" /\ Stored(Current(h))

KeptInv ==
  \A m \in acked : m.call # "fbAttributes" => Stored(m) /\ (serving => Indexed(m))

\* The datasets that end a startup, or will when they get their data.
HalfBB(k) == file[k]["labelBB"] # None /\ file[k]["labelBBInstances"] = None

Broken ==
  {k \in Keys : \/ HalfBB(k) /\ NextField(k) \notin {"labelBBBoxes", "labelBBInstances"}
                \/ NextField(k) = "none" /\ Fatal(k)}

BrokenInv == IsFiniteSet(Broken) /\ restarts \in Nat /\ Cardinality(Broken) <= restarts

IInv ==
  /\ TypeOK /\ Locks /\ Progress /\ DatasetInv
  /\ IndexInv /\ KeptInv /\ (\A h \in Handlers : Local(h))
  /\ IndexCurrent /\ BrokenInv

-----------------------------------------------------------------------------
(* What is written for a message, place by place.                          *)

LEMMA FieldsAre ==
  /\ LabelFields = {"labelBB", "labelBBBoxes", "labelBBInstances", "labelGeneral",
                    "labelGeneralInstances"}
  /\ Fields = {"height", "width", "encoding", "seconds", "nanos", "frame_id", "seq", "rawdata",
               "class", "data", "attributes"} \cup LabelFields
<1>1. ASSUME NEW s, DOMAIN s = 1..5
      PROVE  InSeq(s) = {s[1], s[2], s[3], s[4], s[5]}
  BY <1>1 DEF InSeq
<1>2. ASSUME NEW s, DOMAIN s = 1..7
      PROVE  InSeq(s) = {s[1], s[2], s[3], s[4], s[5], s[6], s[7]}
  BY <1>2 DEF InSeq
<1> DEFINE s == BoundingBoxes \o LabelsGeneral
           t == Layout \o Header
<1>3. /\ DOMAIN s = 1..5 /\ s[1] = "labelBB" /\ s[2] = "labelBBBoxes"
      /\ s[3] = "labelBBInstances" /\ s[4] = "labelGeneral" /\ s[5] = "labelGeneralInstances"
  BY DEF BoundingBoxes, LabelsGeneral
<1>4. /\ DOMAIN t = 1..7 /\ t[1] = "height" /\ t[2] = "width" /\ t[3] = "encoding"
      /\ t[4] = "seconds" /\ t[5] = "nanos" /\ t[6] = "frame_id" /\ t[7] = "seq"
  BY DEF Layout, Header
<1> HIDE DEF s, t
<1>5. InSeq(s) = {"labelBB", "labelBBBoxes", "labelBBInstances", "labelGeneral",
                  "labelGeneralInstances"}
  BY <1>1, <1>3
<1>6. InSeq(t) = {"height", "width", "encoding", "seconds", "nanos", "frame_id", "seq"}
  BY <1>2, <1>4
<1> QED BY <1>5, <1>6 DEF s, t, LabelFields, Fields

LEMMA ConcatPlaces ==
  ASSUME NEW S, NEW s \in Seq(S), NEW t \in Seq(S)
  PROVE  /\ s \o t \in Seq(S) /\ Len(s \o t) = Len(s) + Len(t)
         /\ \A i \in 1..Len(s) : (s \o t)[i] = s[i]
         /\ \A i \in 1..Len(t) : (s \o t)[Len(s) + i] = t[i]
OBVIOUS

\* The places of the labels of a message.
LEMMA LabelPlaces ==
  ASSUME NEW m, m.bb \in BOOLEAN, m.general \in BOOLEAN
  PROVE  /\ Labels(m) \in Seq(LabelFields)
         /\ Len(Labels(m)) = (IF m.bb THEN 3 ELSE 0) + (IF m.general THEN 2 ELSE 0)
         /\ m.bb => /\ Labels(m)[1] = "labelBB" /\ Labels(m)[2] = "labelBBBoxes"
                    /\ Labels(m)[3] = "labelBBInstances"
                    /\ m.general => /\ Labels(m)[4] = "labelGeneral"
                                    /\ Labels(m)[5] = "labelGeneralInstances"
         /\ ~m.bb /\ m.general => /\ Labels(m)[1] = "labelGeneral"
                                  /\ Labels(m)[2] = "labelGeneralInstances"
<1>1. BoundingBoxes \in Seq(LabelFields) /\ LabelsGeneral \in Seq(LabelFields) /\ <<>> \in Seq(LabelFields)
  BY FieldsAre DEF BoundingBoxes, LabelsGeneral
<1>2. Labels(m) \in Seq(LabelFields)
  BY <1>1 DEF Labels
<1>3. CASE m.bb /\ m.general
  BY <1>2, <1>3 DEF Labels, BoundingBoxes, LabelsGeneral
<1>4. CASE m.bb /\ ~m.general
  BY <1>2, <1>4 DEF Labels, BoundingBoxes, LabelsGeneral
<1>5. CASE ~m.bb /\ m.general
  BY <1>2, <1>5 DEF Labels, BoundingBoxes, LabelsGeneral
<1>6. CASE ~m.bb /\ ~m.general
  BY <1>2, <1>6 DEF Labels, BoundingBoxes, LabelsGeneral
<1> QED BY <1>3, <1>4, <1>5, <1>6

\* The places of the writes of an image and of a point.
LEMMA ImagePlaces ==
  ASSUME NEW m \in Messages, m.call \in {"fbImage", "pbImage"}
  PROVE  /\ Steps(m) \in Seq(Fields) /\ Len(Steps(m)) = 10 + Len(Labels(m))
         /\ Steps(m)[1] = "rawdata" /\ Steps(m)[2] = "height" /\ Steps(m)[3] = "width"
         /\ Steps(m)[4] = "encoding" /\ Steps(m)[5] = "class" /\ Steps(m)[6] = "data"
         /\ Steps(m)[7] = "seconds" /\ Steps(m)[8] = "nanos" /\ Steps(m)[9] = "frame_id"
         /\ Steps(m)[10] = "seq"
         /\ \A i \in 1..Len(Labels(m)) : Steps(m)[10 + i] = Labels(m)[i]
<1> DEFINE l == Labels(m)
           s == <<"rawdata">> \o Layout \o <<"class", "data">> \o Header
<1>1. m.bb \in BOOLEAN /\ m.general \in BOOLEAN
  BY ConstantsAssumption DEF MessageType
<1>2. l \in Seq(Fields)
  BY <1>1, LabelPlaces, FieldsAre
<1>3. Steps(m) = s \o l
  BY DEF Steps, WriteImage, WriteImagePb
<1>4. s \in Seq(Fields)
  BY FieldsAre DEF Layout, Header
<1>5. /\ Len(s) = 10 /\ s[1] = "rawdata" /\ s[2] = "height" /\ s[3] = "width"
      /\ s[4] = "encoding" /\ s[5] = "class" /\ s[6] = "data"
  BY DEF Layout, Header
<1>6. s[7] = "seconds" /\ s[8] = "nanos" /\ s[9] = "frame_id" /\ s[10] = "seq"
  BY DEF Layout, Header
<1> HIDE DEF s, l
<1>7. /\ s \o l \in Seq(Fields) /\ Len(s \o l) = Len(s) + Len(l)
      /\ \A i \in 1..Len(s) : (s \o l)[i] = s[i]
      /\ \A i \in 1..Len(l) : (s \o l)[Len(s) + i] = l[i]
  BY <1>2, <1>4, ConcatPlaces
<1>8. \A i \in 1..10 : Steps(m)[i] = s[i]
  BY <1>3, <1>5, <1>7
<1>9. /\ Steps(m) \in Seq(Fields) /\ Len(Steps(m)) = 10 + Len(l)
      /\ \A i \in 1..Len(l) : Steps(m)[10 + i] = l[i]
  BY <1>3, <1>5, <1>7
<1> QED BY <1>5, <1>6, <1>8, <1>9 DEF l

LEMMA PointPlaces ==
  ASSUME NEW m \in Messages, m.call = "fbPoint"
  PROVE  /\ Steps(m) \in Seq(Fields)
         /\ Len(Steps(m)) = 6 + Len(Attributes(m)) + Len(Labels(m))
         /\ Steps(m)[1] = "rawdata" /\ Steps(m)[2] = "data" /\ Steps(m)[3] = "seconds"
         /\ Steps(m)[4] = "nanos" /\ Steps(m)[5] = "frame_id" /\ Steps(m)[6] = "seq"
         /\ Len(Attributes(m)) \in 0..1 
         /\ Len(Attributes(m)) = 1 => Steps(m)[7] = "attributes"
         /\ \A i \in 1..Len(Labels(m)) : Steps(m)[6 + Len(Attributes(m)) + i] = Labels(m)[i]
<1> DEFINE l == Labels(m)
           a == Attributes(m)
           s == <<"rawdata", "data">> \o Header
<1>1. m.bb \in BOOLEAN /\ m.general \in BOOLEAN
  BY ConstantsAssumption DEF MessageType
<1>2. l \in Seq(Fields)
  BY <1>1, LabelPlaces, FieldsAre
<1>3. Steps(m) = (s \o a) \o l
  BY DEF Steps, WritePoint
<1>4. s \in Seq(Fields)
  BY FieldsAre DEF Header
<1>5. a \in Seq(Fields) /\ Len(a) \in 0..1 /\ (Len(a) = 1 => a[1] = "attributes")
  <2>1. "attributes" \in Fields
    BY FieldsAre
  <2>2. CASE m.attributes = "none"
    BY <2>2 DEF Attributes
  <2>3. CASE m.attributes # "none"
    BY <2>1, <2>3 DEF Attributes
  <2> QED BY <2>2, <2>3
<1>6. /\ Len(s) = 6 /\ s[1] = "rawdata" /\ s[2] = "data" /\ s[3] = "seconds"
      /\ s[4] = "nanos" /\ s[5] = "frame_id" /\ s[6] = "seq"
  BY DEF Header
<1> HIDE DEF s, l, a
<1>7. /\ s \o a \in Seq(Fields) /\ Len(s \o a) = Len(s) + Len(a)
      /\ \A i \in 1..Len(s) : (s \o a)[i] = s[i]
      /\ \A i \in 1..Len(a) : (s \o a)[Len(s) + i] = a[i]
  BY <1>4, <1>5, ConcatPlaces
<1> DEFINE t == s \o a
<1>8. t \in Seq(Fields)
  BY <1>7
<1> HIDE DEF t
<1>9. /\ t \o l \in Seq(Fields) /\ Len(t \o l) = Len(t) + Len(l)
      /\ \A i \in 1..Len(t) : (t \o l)[i] = t[i]
      /\ \A i \in 1..Len(l) : (t \o l)[Len(t) + i] = l[i]
  BY <1>2, <1>8, ConcatPlaces
<1>10. Len(t) = 6 + Len(a) /\ (\A i \in 1..6 : t[i] = s[i]) /\ (Len(a) = 1 => t[7] = "attributes")
  BY <1>5, <1>6, <1>7 DEF t
<1>11. Steps(m) = t \o l
  BY <1>3 DEF t
<1>12. (\A i \in 1..6 : Steps(m)[i] = s[i]) /\ (Len(a) = 1 => Steps(m)[7] = "attributes")
  BY <1>5, <1>9, <1>10, <1>11
<1>13. /\ Steps(m) \in Seq(Fields) /\ Len(Steps(m)) = 6 + Len(a) + Len(l)
      /\ \A i \in 1..Len(l) : Steps(m)[6 + Len(a) + i] = l[i]
  BY <1>5, <1>9, <1>10, <1>11
<1> QED BY <1>5, <1>6, <1>12, <1>13 DEF l, a

LEMMA OtherPlaces ==
  ASSUME NEW m \in Messages
  PROVE  /\ m.call = "fbBoxes" =>
              /\ Steps(m) \in Seq(Fields) /\ Len(Steps(m)) = IF m.bb THEN 3 ELSE 0
              /\ m.bb => /\ Steps(m)[1] = "labelBB" /\ Steps(m)[2] = "labelBBBoxes"
                         /\ Steps(m)[3] = "labelBBInstances"
         /\ m.call = "fbAttributes" =>
              /\ Steps(m) \in Seq(Fields) /\ Len(Steps(m)) \in 0..1
              /\ Len(Steps(m)) = 1 => Steps(m)[1] = "attributes"
<1>1. "attributes" \in Fields /\ {"labelBB", "labelBBBoxes", "labelBBInstances"} \subseteq Fields
  BY FieldsAre
<1>2. ASSUME m.call = "fbBoxes"
      PROVE  /\ Steps(m) \in Seq(Fields) /\ Len(Steps(m)) = IF m.bb THEN 3 ELSE 0
             /\ m.bb => /\ Steps(m)[1] = "labelBB" /\ Steps(m)[2] = "labelBBBoxes"
                        /\ Steps(m)[3] = "labelBBInstances"
  <2>1. m.bb \in BOOLEAN /\ Steps(m) = IF m.bb THEN BoundingBoxes ELSE <<>>
    BY <1>2, ConstantsAssumption DEF Steps, MessageType
  <2> QED BY <1>1, <2>1 DEF BoundingBoxes
<1>3. ASSUME m.call = "fbAttributes"
      PROVE  /\ Steps(m) \in Seq(Fields) /\ Len(Steps(m)) \in 0..1
             /\ Len(Steps(m)) = 1 => Steps(m)[1] = "attributes"
  <2>1. Steps(m) = IF file[KeyOf(m)]["rawdata"] = None THEN <<>> ELSE Attributes(m)
    BY <1>3 DEF Steps
  <2> QED BY <1>1, <2>1 DEF Attributes
<1> QED BY <1>2, <1>3

\* The list of them all: where a field can be.
LEMMA LabelList ==
  ASSUME NEW m, m.bb \in BOOLEAN, m.general \in BOOLEAN, NEW i \in DOMAIN Labels(m)
  PROVE  \/ m.bb /\ i = 1 /\ Labels(m)[i] = "labelBB"
         \/ m.bb /\ i = 2 /\ Labels(m)[i] = "labelBBBoxes"
         \/ m.bb /\ i = 3 /\ Labels(m)[i] = "labelBBInstances"
         \/ m.general /\ m.bb /\ i = 4 /\ Labels(m)[i] = "labelGeneral"
         \/ m.general /\ m.bb /\ i = 5 /\ Labels(m)[i] = "labelGeneralInstances"
         \/ m.general /\ ~m.bb /\ i = 1 /\ Labels(m)[i] = "labelGeneral"
         \/ m.general /\ ~m.bb /\ i = 2 /\ Labels(m)[i] = "labelGeneralInstances"
<1>1. /\ i \in 1..Len(Labels(m))
      /\ Len(Labels(m)) = (IF m.bb THEN 3 ELSE 0) + (IF m.general THEN 2 ELSE 0)
      /\ m.bb => /\ Labels(m)[1] = "labelBB" /\ Labels(m)[2] = "labelBBBoxes"
                 /\ Labels(m)[3] = "labelBBInstances"
      /\ m.bb /\ m.general => /\ Labels(m)[4] = "labelGeneral"
                              /\ Labels(m)[5] = "labelGeneralInstances"
      /\ ~m.bb /\ m.general => /\ Labels(m)[1] = "labelGeneral"
                               /\ Labels(m)[2] = "labelGeneralInstances"
  BY LabelPlaces
<1>2. CASE m.bb /\ m.general
  <2>1. i = 1 \/ i = 2 \/ i = 3 \/ i = 4 \/ i = 5
    BY <1>1, <1>2
  <2> QED BY <1>1, <1>2, <2>1
<1>3. CASE m.bb /\ ~m.general
  <2>1. i = 1 \/ i = 2 \/ i = 3
    BY <1>1, <1>3
  <2> QED BY <1>1, <1>3, <2>1
<1>4. CASE ~m.bb /\ m.general
  <2>1. i = 1 \/ i = 2
    BY <1>1, <1>4
  <2> QED BY <1>1, <1>4, <2>1
<1>5. CASE ~m.bb /\ ~m.general
  BY <1>1, <1>5
<1> QED BY <1>2, <1>3, <1>4, <1>5

\* The number of writes before the labels, and the place of each field.
Base(m) ==
  CASE m.call \in {"fbImage", "pbImage"} -> 10
    [] m.call = "fbPoint" -> 6 + Len(Attributes(m))
    [] OTHER -> 0

Place(m, f) ==
  LET image == m.call \in {"fbImage", "pbImage"}
  IN CASE f = "rawdata" -> 1
       [] f = "height" -> 2
       [] f = "width" -> 3
       [] f = "encoding" -> 4
       [] f = "class" -> 5
       [] f = "data" -> IF image THEN 6 ELSE 2
       [] f = "seconds" -> IF image THEN 7 ELSE 3
       [] f = "nanos" -> IF image THEN 8 ELSE 4
       [] f = "frame_id" -> IF image THEN 9 ELSE 5
       [] f = "seq" -> IF image THEN 10 ELSE 6
       [] f = "attributes" -> IF m.call = "fbPoint" THEN 7 ELSE 1
       [] f = "labelBB" -> Base(m) + 1
       [] f = "labelBBBoxes" -> Base(m) + 2
       [] f = "labelBBInstances" -> Base(m) + 3
       [] f = "labelGeneral" -> Base(m) + (IF m.bb THEN 4 ELSE 1)
       [] f = "labelGeneralInstances" -> Base(m) + (IF m.bb THEN 5 ELSE 2)

\* The fields a message writes.
Writes(m) ==
  IF m.call = "fbAttributes" THEN InSeq(Steps(m))
  ELSE (IF m.call \in Uploads
        THEN DataSteps \ (IF m.call = "fbPoint" THEN {"height", "width", "encoding", "class"} ELSE {})
        ELSE {})
       \cup (IF m.call = "fbPoint" /\ m.attributes # "none" THEN {"attributes"} ELSE {})
       \cup (IF m.bb THEN {"labelBB", "labelBBBoxes", "labelBBInstances"} ELSE {})
       \cup (IF m.general THEN {"labelGeneral", "labelGeneralInstances"} ELSE {})

LEMMA PlacesImage ==
  ASSUME NEW m \in Messages, m.call \in {"fbImage", "pbImage"}
  PROVE  /\ \A i \in DOMAIN Steps(m) : Steps(m)[i] \in Writes(m) /\ i = Place(m, Steps(m)[i])
         /\ \A f \in Writes(m) : Place(m, f) \in DOMAIN Steps(m) /\ Steps(m)[Place(m, f)] = f
<1>1. m.bb \in BOOLEAN /\ m.general \in BOOLEAN
  BY ConstantsAssumption DEF MessageType
<1>2. /\ Base(m) = 10 
      /\ Writes(m) = DataSteps \cup (IF m.bb THEN {"labelBB", "labelBBBoxes", "labelBBInstances"} ELSE {})
                       \cup (IF m.general THEN {"labelGeneral", "labelGeneralInstances"} ELSE {})
  BY DEF Base, Writes, Uploads
<1>3. /\ Steps(m)[1] = "rawdata" /\ Steps(m)[2] = "height" /\ Steps(m)[3] = "width"
      /\ Steps(m)[4] = "encoding" /\ Steps(m)[5] = "class" /\ Steps(m)[6] = "data"
      /\ Steps(m)[7] = "seconds" /\ Steps(m)[8] = "nanos" /\ Steps(m)[9] = "frame_id"
      /\ Steps(m)[10] = "seq"
  BY ImagePlaces
<1>4. /\ Place(m, "rawdata") = 1 /\ Place(m, "height") = 2 /\ Place(m, "width") = 3
      /\ Place(m, "encoding") = 4 /\ Place(m, "class") = 5 /\ Place(m, "data") = 6
      /\ Place(m, "seconds") = 7 /\ Place(m, "nanos") = 8 /\ Place(m, "frame_id") = 9
      /\ Place(m, "seq") = 10
  BY DEF Place
<1>5. /\ Place(m, "labelBB") = 11 /\ Place(m, "labelBBBoxes") = 12
      /\ Place(m, "labelBBInstances") = 13
      /\ Place(m, "labelGeneral") = IF m.bb THEN 14 ELSE 11
      /\ Place(m, "labelGeneralInstances") = IF m.bb THEN 15 ELSE 12
  BY <1>2 DEF Place
<1>6. ASSUME NEW i \in DOMAIN Steps(m)
      PROVE  Steps(m)[i] \in Writes(m) /\ i = Place(m, Steps(m)[i])
  <2>1. i \in 1..(10 + Len(Labels(m))) /\ Len(Labels(m)) \in Nat
    BY <1>1, ImagePlaces, LabelPlaces
  <2>2. CASE i \in 1..10
    <3>1. i = 1 \/ i = 2 \/ i = 3 \/ i = 4 \/ i = 5 \/ i = 6 \/ i = 7 \/ i = 8 \/ i = 9 \/ i = 10
      BY <2>2
    <3> QED BY <1>2, <1>3, <1>4, <3>1 DEF DataSteps
  <2>3. CASE i > 10
    <3> DEFINE j == i - 10
    <3>1. j \in 1..Len(Labels(m)) /\ i = 10 + j
      BY <2>1, <2>3
    <3>2. j \in DOMAIN Labels(m) /\ Steps(m)[i] = Labels(m)[j]
      BY <1>1, <3>1, ImagePlaces, LabelPlaces
    <3> HIDE DEF j
    <3> QED BY <1>1, <1>2, <3>1, <3>2, LabelList DEF Place
  <2> QED BY <2>1, <2>2, <2>3
<1>7. ASSUME NEW f \in Writes(m)
      PROVE  Place(m, f) \in DOMAIN Steps(m) /\ Steps(m)[Place(m, f)] = f
  <2>1. DOMAIN Steps(m) = 1..(10 + Len(Labels(m))) /\ Len(Labels(m)) \in Nat
    BY <1>1, ImagePlaces, LabelPlaces
  <2>2. CASE f \in DataSteps
    BY <1>3, <1>4, <2>1, <2>2 DEF DataSteps
  <2>3. CASE f \notin DataSteps
    <3> DEFINE j == Place(m, f) - 10
    <3>1. j \in 1..Len(Labels(m)) /\ Labels(m)[j] = f /\ Place(m, f) = 10 + j
      BY <1>1, <1>2, <1>5, <2>3, LabelPlaces
    <3> HIDE DEF j
    <3> QED BY <2>1, <3>1, ImagePlaces
  <2> QED BY <2>2, <2>3
<1> QED BY <1>6, <1>7

LEMMA PlacesPoint ==
  ASSUME NEW m \in Messages, m.call = "fbPoint"
  PROVE  /\ \A i \in DOMAIN Steps(m) : Steps(m)[i] \in Writes(m) /\ i = Place(m, Steps(m)[i])
         /\ \A f \in Writes(m) : Place(m, f) \in DOMAIN Steps(m) /\ Steps(m)[Place(m, f)] = f
<1> DEFINE b == 6 + Len(Attributes(m))
<1>1. m.bb \in BOOLEAN /\ m.general \in BOOLEAN
  BY ConstantsAssumption DEF MessageType
<1>2. Len(Attributes(m)) = IF m.attributes = "none" THEN 0 ELSE 1
  BY DEF Attributes
<1>3. /\ Base(m) = b
      /\ Writes(m) = {"rawdata", "data", "seconds", "nanos", "frame_id", "seq"}
                       \cup (IF m.attributes # "none" THEN {"attributes"} ELSE {})
                       \cup (IF m.bb THEN {"labelBB", "labelBBBoxes", "labelBBInstances"} ELSE {})
                       \cup (IF m.general THEN {"labelGeneral", "labelGeneralInstances"} ELSE {})
  BY DEF Base, Writes, Uploads, DataSteps
<1>4. b \in {6, 7} /\ (b = 7 <=> m.attributes # "none")
  BY <1>2
<1>5. /\ Steps(m)[1] = "rawdata" /\ Steps(m)[2] = "data" /\ Steps(m)[3] = "seconds"
      /\ Steps(m)[4] = "nanos" /\ Steps(m)[5] = "frame_id" /\ Steps(m)[6] = "seq"
  BY PointPlaces
<1>6. /\ Place(m, "rawdata") = 1 /\ Place(m, "data") = 2 /\ Place(m, "seconds") = 3
      /\ Place(m, "nanos") = 4 /\ Place(m, "frame_id") = 5 /\ Place(m, "seq") = 6
  BY DEF Place
<1>7. /\ Place(m, "labelBB") = b + 1 /\ Place(m, "labelBBBoxes") = b + 2
       /\ Place(m, "labelBBInstances") = b + 3
       /\ Place(m, "labelGeneral") = b + (IF m.bb THEN 4 ELSE 1)
       /\ Place(m, "labelGeneralInstances") = b + (IF m.bb THEN 5 ELSE 2)
  BY <1>3 DEF Place
<1>8. /\ DOMAIN Steps(m) = 1..(b + Len(Labels(m))) /\ Len(Labels(m)) \in Nat
      /\ \A i \in 1..Len(Labels(m)) : Steps(m)[b + i] = Labels(m)[i]
      /\ b = 7 => Steps(m)[7] = "attributes"
  BY <1>1, PointPlaces, LabelPlaces
<1> HIDE DEF b
<1>9. ASSUME NEW i \in DOMAIN Steps(m)
      PROVE  Steps(m)[i] \in Writes(m) /\ i = Place(m, Steps(m)[i])
  <2>1. CASE i \in 1..6
    <3>1. i = 1 \/ i = 2 \/ i = 3 \/ i = 4 \/ i = 5 \/ i = 6
      BY <2>1
    <3> QED BY <1>3, <3>1, PointPlaces DEF Place
  <2>2. CASE i = 7 /\ b = 7
    BY <1>3, <1>4, <1>8, <2>2 DEF Place
  <2>3. CASE i > b
    <3> DEFINE j == i - b
    <3>1. j \in 1..Len(Labels(m)) /\ i = b + j
      BY <1>4, <1>8, <2>3
    <3>2. j \in DOMAIN Labels(m) /\ Steps(m)[i] = Labels(m)[j]
      BY <1>1, <1>8, <3>1, LabelPlaces
    <3> HIDE DEF j
    <3> QED BY <1>1, <1>3, <1>4, <3>1, <3>2, LabelList DEF Place
  <2> QED BY <1>4, <1>8, <2>1, <2>2, <2>3
<1>10. ASSUME NEW f \in Writes(m)
      PROVE  Place(m, f) \in DOMAIN Steps(m) /\ Steps(m)[Place(m, f)] = f
  <2>1. CASE f \in {"rawdata", "data", "seconds", "nanos", "frame_id", "seq"}
    BY <1>4, <1>5, <1>6, <1>8, <2>1
  <2>2. CASE f = "attributes"
    BY <1>3, <1>4, <1>8, <2>2 DEF Place
  <2>3. CASE f \in LabelFields
    <3> DEFINE j == Place(m, f) - b
    <3>1. j \in 1..Len(Labels(m)) /\ Labels(m)[j] = f /\ Place(m, f) = b + j
      <4>1. \/ m.bb /\ f \in {"labelBB", "labelBBBoxes", "labelBBInstances"}
            \/ m.general /\ f \in {"labelGeneral", "labelGeneralInstances"}
        BY <1>3, <2>3, FieldsAre
      <4>2. /\ Len(Labels(m)) = (IF m.bb THEN 3 ELSE 0) + (IF m.general THEN 2 ELSE 0)
            /\ m.bb => /\ Labels(m)[1] = "labelBB" /\ Labels(m)[2] = "labelBBBoxes"
                       /\ Labels(m)[3] = "labelBBInstances"
            /\ m.bb /\ m.general => /\ Labels(m)[4] = "labelGeneral"
                                    /\ Labels(m)[5] = "labelGeneralInstances"
            /\ ~m.bb /\ m.general => /\ Labels(m)[1] = "labelGeneral"
                                     /\ Labels(m)[2] = "labelGeneralInstances"
        BY <1>1, LabelPlaces
      <4>3. b \in Int
        BY <1>4
      <4>4. CASE m.bb /\ f \in {"labelBB", "labelBBBoxes", "labelBBInstances"}
        BY <1>1, <1>7, <4>2, <4>3, <4>4
      <4>5. CASE m.general /\ f \in {"labelGeneral", "labelGeneralInstances"}
        BY <1>1, <1>7, <4>2, <4>3, <4>5
      <4> QED BY <4>1, <4>4, <4>5
    <3> HIDE DEF j
    <3> QED BY <1>4, <1>8, <3>1
  <2> QED BY <1>3, <2>1, <2>2, <2>3, FieldsAre
<1> QED BY <1>9, <1>10

LEMMA PlacesOther ==
  ASSUME NEW m \in Messages, m.call \in {"fbBoxes", "fbAttributes"}
  PROVE  /\ \A i \in DOMAIN Steps(m) : Steps(m)[i] \in Writes(m) /\ i = Place(m, Steps(m)[i])
         /\ \A f \in Writes(m) : Place(m, f) \in DOMAIN Steps(m) /\ Steps(m)[Place(m, f)] = f
<1>1. m.bb \in BOOLEAN /\ m.general \in BOOLEAN /\ Base(m) = 0
      /\ (m.call = "fbBoxes" => ~m.general)
  BY ConstantsAssumption DEF MessageType, Base
<1>2. CASE m.call = "fbBoxes"
  <2>1. Writes(m) = IF m.bb THEN {"labelBB", "labelBBBoxes", "labelBBInstances"} ELSE {}
    BY <1>1, <1>2 DEF Writes, Uploads
  <2>2. CASE m.bb
    <3>1. DOMAIN Steps(m) = 1..3
      BY <1>2, <2>2, OtherPlaces
    <3> QED BY <1>1, <1>2, <2>1, <2>2, <3>1, OtherPlaces DEF Place
  <2>3. CASE ~m.bb
    BY <1>2, <2>1, <2>3, OtherPlaces
  <2> QED BY <1>1, <2>2, <2>3
<1>3. CASE m.call = "fbAttributes"
  <2>1. Writes(m) = InSeq(Steps(m))
    BY <1>3 DEF Writes
  <2>2. DOMAIN Steps(m) \subseteq {1} /\ \A i \in DOMAIN Steps(m) : Steps(m)[i] = "attributes"
    BY <1>3, OtherPlaces
  <2> QED BY <1>3, <2>1, <2>2 DEF Place, InSeq
<1> QED BY <1>2, <1>3

\* Each message writes its fields once, at their places.
LEMMA Places ==
  ASSUME NEW m \in Messages
  PROVE  /\ Steps(m) \in Seq(Fields)
         /\ \A i \in DOMAIN Steps(m) : Steps(m)[i] \in Writes(m) /\ i = Place(m, Steps(m)[i])
         /\ \A f \in Writes(m) : Place(m, f) \in DOMAIN Steps(m) /\ Steps(m)[Place(m, f)] = f
<1>1. m.call \in Calls
  BY ConstantsAssumption DEF MessageType
<1> QED BY <1>1, ImagePlaces, PointPlaces, OtherPlaces, PlacesImage, PlacesPoint, PlacesOther DEF Calls

LEMMA PlaceValues ==
  ASSUME NEW m \in Messages
  PROVE  /\ m.call \in Uploads =>
              /\ Place(m, "rawdata") = 1
              /\ Place(m, "seq") = IF m.call = "fbPoint" THEN 6 ELSE 10
              /\ \A f \in DataSteps : Place(m, f) \in 1..Place(m, "seq")
              /\ Base(m) >= Place(m, "seq") /\ Base(m) \in Nat
              /\ m.call = "fbPoint" => Place(m, "attributes") = 7
         /\ m.call \notin Uploads => Base(m) = 0
         /\ /\ Place(m, "labelBB") = Base(m) + 1 /\ Place(m, "labelBBBoxes") = Base(m) + 2
            /\ Place(m, "labelBBInstances") = Base(m) + 3
            /\ Place(m, "labelGeneral") = Base(m) + (IF m.bb THEN 4 ELSE 1)
            /\ Place(m, "labelGeneralInstances") = Base(m) + (IF m.bb THEN 5 ELSE 2)
<1>1. /\ Place(m, "labelBB") = Base(m) + 1 /\ Place(m, "labelBBBoxes") = Base(m) + 2
      /\ Place(m, "labelBBInstances") = Base(m) + 3
      /\ Place(m, "labelGeneral") = Base(m) + (IF m.bb THEN 4 ELSE 1)
      /\ Place(m, "labelGeneralInstances") = Base(m) + (IF m.bb THEN 5 ELSE 2)
  BY DEF Place
<1>2. m.call \notin Uploads => Base(m) = 0
  BY DEF Base, Uploads
<1>3. CASE m.call \in {"fbImage", "pbImage"}
  <2>1. Base(m) = 10 /\ Place(m, "rawdata") = 1 /\ Place(m, "seq") = 10
    BY <1>3 DEF Base, Place
  <2>2. \A f \in DataSteps : Place(m, f) \in 1..10
    BY <1>3 DEF Place, DataSteps
  <2> QED BY <1>1, <1>2, <1>3, <2>1, <2>2
<1>4. CASE m.call = "fbPoint"
  <2>1. Base(m) = 6 + Len(Attributes(m)) /\ Len(Attributes(m)) \in 0..1
    BY <1>4, PointPlaces DEF Base
  <2>2. Place(m, "rawdata") = 1 /\ Place(m, "seq") = 6 /\ Place(m, "attributes") = 7
    BY <1>4 DEF Place
  <2>3. \A f \in DataSteps : Place(m, f) \in 1..6
    BY <1>4 DEF Place, DataSteps
  <2> QED BY <1>1, <1>2, <1>4, <2>1, <2>2, <2>3
<1>5. CASE m.call \notin Uploads
  BY <1>1, <1>2, <1>5
<1> QED BY <1>3, <1>4, <1>5 DEF Uploads

\* Which messages write what.
LEMMA WhoWrites ==
  ASSUME NEW m \in Messages
  PROVE  /\ Writes(m) \subseteq Fields
         /\ \A f \in Writes(m) : f \in DataSteps \cup {"labelGeneral", "labelGeneralInstances"} =>
              m.call \in Uploads
         /\ m.call \in Uploads =>
              /\ {"rawdata", "data", "seconds", "nanos", "frame_id", "seq"} \subseteq Writes(m)
              /\ m.call # "fbPoint" => DataSteps \subseteq Writes(m)
         /\ m.call # "fbAttributes" =>
              /\ m.bb => {"labelBB", "labelBBBoxes", "labelBBInstances"} \subseteq Writes(m)
              /\ m.general => {"labelGeneral", "labelGeneralInstances"} \subseteq Writes(m)
              /\ ~m.bb => {"labelBB", "labelBBBoxes", "labelBBInstances"} \cap Writes(m) = {}
              /\ ~m.general => {"labelGeneral", "labelGeneralInstances"} \cap Writes(m) = {}
         /\ m.call = "fbAttributes" => Writes(m) \subseteq {"attributes"}
         /\ m.call \in Calls
<1>1. /\ m.bb \in BOOLEAN /\ m.general \in BOOLEAN /\ m.call \in Calls
      /\ m.call = "fbBoxes" => ~m.general
  BY ConstantsAssumption DEF MessageType
<1>2. CASE m.call = "fbAttributes"
  <2>1. \A i \in DOMAIN Steps(m) : Steps(m)[i] = "attributes"
    BY <1>2, OtherPlaces
  <2> QED BY <1>1, <1>2, <2>1, FieldsAre DEF Writes, InSeq, Uploads, DataSteps
<1>3. CASE m.call # "fbAttributes"
  <2> DEFINE d == IF m.call \in Uploads
                  THEN DataSteps \ (IF m.call = "fbPoint"
                                    THEN {"height", "width", "encoding", "class"} ELSE {})
                  ELSE {}
             a == IF m.call = "fbPoint" /\ m.attributes # "none" THEN {"attributes"} ELSE {}
             b == IF m.bb THEN {"labelBB", "labelBBBoxes", "labelBBInstances"} ELSE {}
             g == IF m.general THEN {"labelGeneral", "labelGeneralInstances"} ELSE {}
  <2>1. Writes(m) = d \cup a \cup b \cup g
    BY <1>3 DEF Writes
  <2>2. a \subseteq {"attributes"} /\ d \subseteq DataSteps /\ (m.call \notin Uploads => d = {})
    OBVIOUS
  <2>3. m.call \in Uploads =>
          /\ {"rawdata", "data", "seconds", "nanos", "frame_id", "seq"} \subseteq d
          /\ m.call # "fbPoint" => d = DataSteps
    BY DEF DataSteps
  <2>4. /\ m.bb => b = {"labelBB", "labelBBBoxes", "labelBBInstances"}
        /\ ~m.bb => b = {}
        /\ m.general => g = {"labelGeneral", "labelGeneralInstances"}
        /\ ~m.general => g = {}
    OBVIOUS
  <2>5. m.general => m.call \in Uploads
    BY <1>1, <1>3 DEF Calls, Uploads
  <2> HIDE DEF d, a, b, g
  <2>6. Writes(m) \subseteq Fields
    BY <1>1, <2>1, <2>2, <2>4, FieldsAre DEF DataSteps
  <2>7. \A f \in Writes(m) : f \in DataSteps \cup {"labelGeneral", "labelGeneralInstances"} =>
          m.call \in Uploads
    BY <1>1, <2>1, <2>2, <2>4, <2>5 DEF DataSteps
  <2>8. /\ m.bb => {"labelBB", "labelBBBoxes", "labelBBInstances"} \subseteq Writes(m)
        /\ m.general => {"labelGeneral", "labelGeneralInstances"} \subseteq Writes(m)
    BY <2>1, <2>4
  <2>9. ~m.bb => {"labelBB", "labelBBBoxes", "labelBBInstances"} \cap Writes(m) = {}
    BY <1>1, <2>1, <2>2, <2>4 DEF DataSteps
  <2>10. ~m.general => {"labelGeneral", "labelGeneralInstances"} \cap Writes(m) = {}
    BY <1>1, <2>1, <2>2, <2>4 DEF DataSteps
  <2> QED BY <1>1, <1>3, <2>1, <2>3, <2>6, <2>7, <2>8, <2>9, <2>10
<1> QED BY <1>2, <1>3

\* What comes before and after a write.
LEMMA FirstStep ==
  ASSUME NEW m \in Messages
  PROVE  FieldAt(m, 1) \in {"none", "rawdata", "labelBB", "attributes"}
<1>1. m.call \in Calls
  BY WhoWrites
<1>2. CASE m.call \in {"fbImage", "pbImage"}
  BY <1>2, ImagePlaces DEF FieldAt
<1>3. CASE m.call = "fbPoint"
  BY <1>3, PointPlaces DEF FieldAt
<1>4. CASE m.call = "fbBoxes"
  BY <1>4, OtherPlaces DEF FieldAt
<1>5. CASE m.call = "fbAttributes"
  <2>1. \A i \in DOMAIN Steps(m) : Steps(m)[i] = "attributes"
    BY <1>5, OtherPlaces
  <2> QED BY <2>1 DEF FieldAt
<1> QED BY <1>1, <1>2, <1>3, <1>4, <1>5 DEF Calls

LEMMA LabelSteps ==
  ASSUME NEW m \in Messages, NEW i \in DOMAIN Steps(m)
  PROVE  /\ i \in Nat \ {0} 
         /\ Steps(m)[i] = "labelBB" <=> FieldAt(m, i + 1) = "labelBBBoxes"
         /\ Steps(m)[i] = "labelBBBoxes" <=> FieldAt(m, i + 1) = "labelBBInstances"
         /\ Steps(m)[i] = "labelGeneral" <=> FieldAt(m, i + 1) = "labelGeneralInstances"
         /\ Steps(m)[i] = "labelBBBoxes" => i - 1 \in DOMAIN Steps(m) /\ Steps(m)[i - 1] = "labelBB"
         /\ Steps(m)[i] = "labelBBInstances" =>
              /\ i - 1 \in DOMAIN Steps(m) /\ Steps(m)[i - 1] = "labelBBBoxes"
              /\ i - 2 \in DOMAIN Steps(m) /\ Steps(m)[i - 2] = "labelBB"
         /\ Steps(m)[i] = "labelGeneralInstances" =>
              i - 1 \in DOMAIN Steps(m) /\ Steps(m)[i - 1] = "labelGeneral"
<1>1. Steps(m) \in Seq(Fields) /\ i \in 1..Len(Steps(m)) /\ Base(m) \in Nat
  BY Places, PlaceValues
<1>2. /\ Place(m, "labelBB") = Base(m) + 1 /\ Place(m, "labelBBBoxes") = Base(m) + 2
      /\ Place(m, "labelBBInstances") = Base(m) + 3
      /\ Place(m, "labelGeneralInstances") = Place(m, "labelGeneral") + 1
      /\ Place(m, "labelGeneral") \in Nat
  BY <1>1, PlaceValues
<1>3. /\ \A j \in DOMAIN Steps(m) : Steps(m)[j] \in Writes(m) /\ j = Place(m, Steps(m)[j])
      /\ \A f \in Writes(m) : Place(m, f) \in DOMAIN Steps(m) /\ Steps(m)[Place(m, f)] = f
  BY Places
<1>4. /\ "labelBB" \in Writes(m) <=> "labelBBBoxes" \in Writes(m)
      /\ "labelBBBoxes" \in Writes(m) <=> "labelBBInstances" \in Writes(m)
      /\ "labelGeneral" \in Writes(m) <=> "labelGeneralInstances" \in Writes(m)
  <2>1. CASE m.call = "fbAttributes"
    BY <2>1, WhoWrites
  <2>2. CASE m.call # "fbAttributes"
    BY <2>2, WhoWrites
  <2> QED BY <2>1, <2>2
<1>5. Steps(m)[i] = "labelBB" <=> FieldAt(m, i + 1) = "labelBBBoxes"
  BY <1>1, <1>2, <1>3, <1>4 DEF FieldAt
<1>6. Steps(m)[i] = "labelBBBoxes" <=> FieldAt(m, i + 1) = "labelBBInstances"
  BY <1>1, <1>2, <1>3, <1>4 DEF FieldAt
<1>7. Steps(m)[i] = "labelGeneral" <=> FieldAt(m, i + 1) = "labelGeneralInstances"
  BY <1>1, <1>2, <1>3, <1>4 DEF FieldAt
<1>8. Steps(m)[i] = "labelBBBoxes" => i - 1 \in DOMAIN Steps(m) /\ Steps(m)[i - 1] = "labelBB"
  BY <1>1, <1>2, <1>3, <1>4
<1>9. Steps(m)[i] = "labelBBInstances" =>
        /\ i - 1 \in DOMAIN Steps(m) /\ Steps(m)[i - 1] = "labelBBBoxes"
        /\ i - 2 \in DOMAIN Steps(m) /\ Steps(m)[i - 2] = "labelBB"
  BY <1>1, <1>2, <1>3, <1>4
<1>10. Steps(m)[i] = "labelGeneralInstances" =>
         i - 1 \in DOMAIN Steps(m) /\ Steps(m)[i - 1] = "labelGeneral"
  BY <1>1, <1>2, <1>3, <1>4
<1> QED BY <1>1, <1>5, <1>6, <1>7, <1>8, <1>9, <1>10

LEMMA DataStepsFirst ==
  ASSUME NEW m \in Messages, NEW i \in DOMAIN Steps(m)
  PROVE  /\ FieldAt(m, i + 1) \in DataSteps <=> Steps(m)[i] \in DataSteps \ {"seq"}
         /\ Steps(m)[i] \in DataSteps \cup {"labelGeneral", "labelGeneralInstances"} =>
              m.call \in Uploads
         /\ Steps(m)[i] # "rawdata" /\ m.call \in Uploads =>
              1 \in DOMAIN Steps(m) /\ Steps(m)[1] = "rawdata" /\ 1 < i
         /\ Steps(m)[i] = "seq" =>
              \A f \in Writes(m) \cap DataSteps :
                f = "seq" \/ \E j \in DOMAIN Steps(m) : j < i /\ Steps(m)[j] = f
<1>1. Steps(m) \in Seq(Fields) /\ i \in 1..Len(Steps(m))
  BY Places
<1>2. /\ \A j \in DOMAIN Steps(m) : Steps(m)[j] \in Writes(m) /\ j = Place(m, Steps(m)[j])
      /\ \A f \in Writes(m) : Place(m, f) \in DOMAIN Steps(m) /\ Steps(m)[Place(m, f)] = f
  BY Places
<1>3. Steps(m)[i] \in DataSteps \cup {"labelGeneral", "labelGeneralInstances"} => m.call \in Uploads
  BY <1>2, WhoWrites
<1>4. CASE m.call \notin Uploads
  <2>1. \A j \in DOMAIN Steps(m) : Steps(m)[j] \notin DataSteps
    BY <1>2, <1>4, WhoWrites
  <2>2. "none" \notin DataSteps /\ "seq" \in DataSteps
    BY DEF DataSteps
  <2> QED BY <1>3, <1>4, <2>1, <2>2 DEF FieldAt
<1>5. CASE m.call \in Uploads
  <2> DEFINE n == Place(m, "seq")
  <2>1. n \in Nat /\ n >= 6 /\ Place(m, "rawdata") = 1 /\ (\A f \in DataSteps : Place(m, f) \in 1..n)
    BY <1>5, PlaceValues
  <2>2. "rawdata" \in Writes(m) /\ "seq" \in Writes(m) /\ "seq" \in DataSteps /\ "none" \notin DataSteps
    BY <1>5, WhoWrites DEF DataSteps
  <2>3. n \in DOMAIN Steps(m) /\ Steps(m)[n] = "seq" /\ 1 \in DOMAIN Steps(m) /\ Steps(m)[1] = "rawdata"
    BY <1>2, <2>1, <2>2
  <2>4. \A j \in DOMAIN Steps(m) : j <= n <=> Steps(m)[j] \in DataSteps
    <3> SUFFICES ASSUME NEW j \in DOMAIN Steps(m), Steps(m)[j] \notin DataSteps
                 PROVE  j > n
      BY <1>1, <1>2, <2>1
    <3>1. Steps(m)[j] \in {"attributes"} \cup LabelFields
      BY <1>2, WhoWrites, FieldsAre DEF DataSteps
    <3>2. Base(m) >= n /\ Base(m) \in Nat
      BY <1>5, PlaceValues
    <3>3. CASE Steps(m)[j] \in LabelFields
      BY <1>2, <2>1, <3>2, <3>3, FieldsAre, PlaceValues
    <3>4. CASE Steps(m)[j] = "attributes"
      <4>1. m.call = "fbPoint"
        BY <1>2, <1>5, <3>4 DEF Writes, DataSteps, Uploads
      <4> QED BY <1>2, <1>5, <3>4, <4>1, PlaceValues
    <3> QED BY <3>1, <3>3, <3>4
  <2>5. Steps(m)[i] = "seq" <=> i = n
    BY <1>2, <2>3
  <2> HIDE DEF n
  <2>6. FieldAt(m, i + 1) \in DataSteps <=> Steps(m)[i] \in DataSteps \ {"seq"}
    BY <1>1, <2>1, <2>2, <2>3, <2>4, <2>5 DEF FieldAt
  <2>7. Steps(m)[i] # "rawdata" => 1 < i
    BY <1>1, <2>3
  <2>8. ASSUME Steps(m)[i] = "seq", NEW f \in Writes(m) \cap DataSteps, f # "seq"
        PROVE  \E j \in DOMAIN Steps(m) : j < i /\ Steps(m)[j] = f
    <3>1. Place(m, f) \in DOMAIN Steps(m) /\ Steps(m)[Place(m, f)] = f /\ Place(m, f) \in 1..n
      BY <1>2, <2>1, <2>8
    <3>2. Place(m, f) # n
      BY <2>3, <2>8, <3>1
    <3> QED BY <2>1, <2>5, <2>8, <3>1, <3>2
  <2> QED BY <1>3, <2>3, <2>6, <2>7, <2>8
<1> QED BY <1>4, <1>5

-----------------------------------------------------------------------------
(* Types.                                                                  *)

LEMMA MessageKey ==
  ASSUME NEW m \in Messages
  PROVE  /\ KeyOf(m) \in Keys /\ KeyOf(m)[1] = Group(m) /\ KeyOf(m)[2] = m.uuid
         /\ Group(m) \in Groups /\ m.uuid \in Uuids /\ m # None
         /\ m.bb \in BOOLEAN /\ m.general \in BOOLEAN /\ m.truecolor \in BOOLEAN /\ m.size \in Nat
         /\ m.call \in Calls
BY ConstantsAssumption DEF MessageType, KeyOf, Keys, Group, Groups

LEMMA Streaming ==
  ASSUME TypeOK, NEW h \in Handlers
  PROVE  /\ stream[h] \in Seq(Messages)
         /\ pos[h] \in Nat \ {0} /\ at[h] \in Nat \ {0}
         /\ pos[h] \in DOMAIN stream[h] => Current(h) \in Messages
         /\ pc[h] \in {"lock", "write", "index"} => pos[h] \in DOMAIN stream[h]
         /\ pos[h] <= Len(stream[h]) => pos[h] \in DOMAIN stream[h]
<1>1. stream[h] \in Streams \cup {<<>>}
  BY DEF TypeOK
<1>2. stream[h] \in Seq(Messages)
  <2>1. <<>> \in Seq(Messages)
    OBVIOUS
  <2> QED BY <1>1, <2>1, ConstantsAssumption
<1>3. /\ pos[h] \in Nat \ {0} /\ at[h] \in Nat \ {0}
      /\ pc[h] \in {"lock", "write", "index"} => pos[h] \in DOMAIN stream[h]
  BY DEF TypeOK
<1> QED BY <1>2, <1>3 DEF Current

LEMMA CounterTypes ==
  ASSUME NEW S, NEW f \in [S -> Nat \ {0}], NEW x \in S
  PROVE  /\ [f EXCEPT ![x] = 1] \in [S -> Nat \ {0}]
         /\ [f EXCEPT ![x] = @ + 1] \in [S -> Nat \ {0}]
<1>1. [f EXCEPT ![x] = 1] \in [S -> Nat \ {0}]
  OBVIOUS
<1>2. [f EXCEPT ![x] = @ + 1] \in [S -> Nat \ {0}]
  OBVIOUS
<1> QED BY <1>1, <1>2

\* The types of what belongs to a handler, and of the rest.
HandlerTypes ==
  /\ pc \in [Handlers -> {"idle", "read", "lock", "write", "index", "fetch"}]
  /\ stream \in [Handlers -> Streams \cup {<<>>}]
  /\ \A h \in Handlers : pc[h] \in {"lock", "write", "index"} => pos[h] \in DOMAIN stream[h]
  /\ pos \in [Handlers -> Nat \ {0}]
  /\ at \in [Handlers -> Nat \ {0}]
  /\ answer \in [Handlers -> {"everything stored!", "a msg had no project uuid!"}]

StoreTypes ==
  /\ file \in [Keys -> [Fields -> Messages \cup {None}]]
  /\ mutex \in Handlers \cup {None}
  /\ acked \subseteq Messages /\ failed \subseteq Messages
  /\ torn \subseteq Keys \X {"data", "labels"}

IndexTypes ==
  /\ index \in [Groups -> SUBSET [uuid : Uuids, seconds : Messages, nanos : Messages,
                                  frame_id : Messages]]
  /\ labelled \in [Groups -> SUBSET (Uuids \X Messages \X {"bb", "general"})]
  /\ serving \in BOOLEAN

QueryTypes ==
  /\ query \in [Handlers -> Queries \cup {None}]
  /\ todo \in [Handlers -> SUBSET Uuids]

LEMMA TypeParts ==
  /\ TypeOK <=> HandlerTypes /\ StoreTypes /\ IndexTypes /\ QueryTypes
  /\ TypeOK' <=> HandlerTypes' /\ StoreTypes' /\ IndexTypes' /\ QueryTypes'
BY DEF TypeOK, HandlerTypes, StoreTypes, IndexTypes, QueryTypes

LEMMA TypeInit == Init => TypeOK /\ Locks
<1> SUFFICES ASSUME Init PROVE TypeOK /\ Locks
  OBVIOUS
<1>1. HandlerTypes
  <2>1. pos = [h \in Handlers |-> 1] /\ at = [h \in Handlers |-> 1]
    BY DEF Init
  <2>2. pos \in [Handlers -> Nat \ {0}]
    BY <2>1
  <2>3. at \in [Handlers -> Nat \ {0}]
    BY <2>1
  <2> QED BY <2>2, <2>3 DEF Init, HandlerTypes
<1>2. StoreTypes
  BY DEF Init, StoreTypes
<1>3. IndexTypes /\ QueryTypes
  BY DEF Init, IndexTypes, QueryTypes
<1>4. Locks
  BY ConstantsAssumption DEF Init, Locks
<1> QED BY <1>1, <1>2, <1>3, <1>4, TypeParts

LEMMA LeaveTypes ==
  ASSUME HandlerTypes, NEW h \in Handlers, Leave(h)
  PROVE  HandlerTypes'
<1>1. /\ pc' = [pc EXCEPT ![h] = "idle"] /\ stream' = [stream EXCEPT ![h] = <<>>]
      /\ pos' = [pos EXCEPT ![h] = 1] /\ at' = [at EXCEPT ![h] = 1]
      /\ answer' = [answer EXCEPT ![h] = "everything stored!"]
  BY DEF Leave, Goto
<1>2. pos' \in [Handlers -> Nat \ {0}]
  <2>1. pos \in [Handlers -> Nat \ {0}]
    BY DEF HandlerTypes
  <2> QED BY <1>1, <2>1, CounterTypes
<1>3. at' \in [Handlers -> Nat \ {0}]
  <2>1. at \in [Handlers -> Nat \ {0}]
    BY DEF HandlerTypes
  <2> QED BY <1>1, <2>1, CounterTypes
<1>4. /\ pc' \in [Handlers -> {"idle", "read", "lock", "write", "index", "fetch"}]
      /\ stream' \in [Handlers -> Streams \cup {<<>>}]
      /\ answer' \in [Handlers -> {"everything stored!", "a msg had no project uuid!"}]
  BY <1>1 DEF HandlerTypes
<1>5. \A i \in Handlers : pc'[i] \in {"lock", "write", "index"} => pos'[i] \in DOMAIN stream'[i]
  BY <1>1 DEF HandlerTypes
<1> QED BY <1>2, <1>3, <1>4, <1>5 DEF HandlerTypes

LEMMA NextInStreamTypes ==
  ASSUME HandlerTypes, NEW h \in Handlers, NextInStream(h)
  PROVE  HandlerTypes'
<1>1. /\ pc' = [pc EXCEPT ![h] = "read"] /\ stream' = stream /\ answer' = answer
      /\ pos' = [pos EXCEPT ![h] = @ + 1] /\ at' = [at EXCEPT ![h] = 1]
  BY DEF NextInStream, Goto
<1>2. pos' \in [Handlers -> Nat \ {0}]
  <2>1. pos \in [Handlers -> Nat \ {0}]
    BY DEF HandlerTypes
  <2> QED BY <1>1, <2>1, CounterTypes
<1>3. at' \in [Handlers -> Nat \ {0}]
  <2>1. at \in [Handlers -> Nat \ {0}]
    BY DEF HandlerTypes
  <2> QED BY <1>1, <2>1, CounterTypes
<1>4. pc' \in [Handlers -> {"idle", "read", "lock", "write", "index", "fetch"}]
  BY <1>1 DEF HandlerTypes
<1>5. \A i \in Handlers : pc'[i] \in {"lock", "write", "index"} => pos'[i] \in DOMAIN stream'[i]
  BY <1>1 DEF HandlerTypes
<1> QED BY <1>1, <1>2, <1>3, <1>4, <1>5 DEF HandlerTypes

\* A handler that passes by the mutex, and one that releases it.
LEMMA PassBy ==
  ASSUME TypeOK, Locks, NEW h \in Handlers, NEW c, c # "write", pc[h] # "write",
         pc' = [pc EXCEPT ![h] = c], mutex' = mutex, serving' = serving,
         pc[h] # "idle" \/ serving
  PROVE  Locks'
<1>1. pc \in [Handlers -> {"idle", "read", "lock", "write", "index", "fetch"}]
  BY DEF TypeOK
<1>2. \A i \in Handlers : pc'[i] = "write" <=> mutex' = i
  BY <1>1 DEF Locks
<1>3. serving
  BY DEF Locks
<1> QED BY <1>2, <1>3 DEF Locks

LEMMA Release ==
  ASSUME TypeOK, Locks, NEW h \in Handlers, NEW c, c # "write", pc[h] = "write",
         pc' = [pc EXCEPT ![h] = c], mutex' = None, serving' = serving
  PROVE  Locks'
<1>1. pc \in [Handlers -> {"idle", "read", "lock", "write", "index", "fetch"}]
  BY DEF TypeOK
<1>2. \A i \in Handlers : pc'[i] = "write" <=> mutex' = i
  BY <1>1, ConstantsAssumption DEF Locks
<1>3. serving
  BY DEF Locks
<1> QED BY <1>2, <1>3 DEF Locks

LEMMA WriteTypes ==
  ASSUME TypeOK, Locks, NEW h \in Handlers, Write(h)
  PROVE  /\ file' \in [Keys -> [Fields -> Messages \cup {None}]]
         /\ torn' \subseteq Keys \X {"data", "labels"}
         /\ at' \in [Handlers -> Nat \ {0}]
<1> DEFINE m == Current(h)
           f == Steps(m)[at[h]]
<1>1. m \in Messages /\ at[h] \in DOMAIN Steps(m)
  <2>1. m \in Messages /\ at[h] \in Nat \ {0}
    BY Streaming DEF Write
  <2>2. Steps(m) \in Seq(Fields)
    BY <2>1, Places
  <2> QED BY <2>1, <2>2 DEF Write
<1>2. f \in Fields
  BY <1>1, Places
<1>3. /\ file' = [file EXCEPT ![KeyOf(m)][f] = Written(m, f)]
      /\ torn' = IF f = "seq" THEN torn \ {<<KeyOf(m), "data">>} ELSE torn
      /\ at' = [at EXCEPT ![h] = @ + 1]
  BY DEF Write
<1> HIDE DEF m, f
<1>4. KeyOf(m) \in Keys
  BY <1>1, MessageKey
<1>5. file \in [Keys -> [Fields -> Messages \cup {None}]]
  BY DEF TypeOK
<1>6. Written(m, f) \in Messages \cup {None}
  <2>1. file[KeyOf(m)]["rawdata"] \in Messages \cup {None}
    BY <1>4, <1>5, FieldsAre
  <2> QED BY <1>1, <2>1 DEF Written
<1>7. file' \in [Keys -> [Fields -> Messages \cup {None}]]
  BY <1>2, <1>3, <1>4, <1>5, <1>6
<1>8. torn' \subseteq Keys \X {"data", "labels"}
  BY <1>3 DEF TypeOK
<1>9. at' \in [Handlers -> Nat \ {0}]
  <2>1. at \in [Handlers -> Nat \ {0}]
    BY DEF TypeOK
  <2> QED BY <1>3, <2>1, CounterTypes
<1> QED BY <1>7, <1>8, <1>9

LEMMA RestartTypes ==
  ASSUME TypeOK, Locks, Restart
  PROVE  TypeOK' /\ Locks'
<1>1. torn' \subseteq Keys \X {"data", "labels"}
  <2>1. ASSUME NEW h \in Handlers, pc[h] = "write"
        PROVE  CutPart(h) \subseteq Keys \X {"data", "labels"}
    <3>1. Current(h) \in Messages
      BY <2>1, Streaming
    <3> QED BY <3>1, MessageKey DEF CutPart
  <2>2. torn' = torn \cup UNION {CutPart(h) : h \in {h \in Handlers : pc[h] = "write"}}
    BY DEF Restart
  <2>3. torn \subseteq Keys \X {"data", "labels"}
    BY DEF TypeOK
  <2> QED BY <2>1, <2>2, <2>3
<1>2. file' = file /\ file \in [Keys -> [Fields -> Messages \cup {None}]]
  BY DEF Restart, TypeOK
<1>3. /\ serving' = ~\E k \in Keys : Fatal(k)
      /\ index' = [g \in Groups |-> IF serving' THEN {StoredHead(k) : k \in ReadDatasets(g)} ELSE {}]
      /\ labelled' = [g \in Groups |->
                        IF serving' THEN UNION {StoredLabels(k) : k \in ReadDatasets(g)} ELSE {}]
  BY DEF Restart
<1>4. ASSUME serving', NEW g \in Groups, NEW k \in ReadDatasets(g)
      PROVE  /\ StoredHead(k) \in [uuid : Uuids, seconds : Messages, nanos : Messages, frame_id : Messages]
             /\ StoredLabels(k) \subseteq Uuids \X Messages \X {"bb", "general"}
  <2>1. k \in Keys /\ k[2] \in Uuids /\ Has(k, <<"rawdata">>) /\ ~Fatal(k)
    BY <1>3, <1>4 DEF ReadDatasets, Keys
  <2>2. \A f \in Fields : file[k][f] \in Messages \cup {None}
    BY <1>2, <2>1
  <2>3. Has(k, <<"frame_id", "seconds", "nanos">>)
    BY <2>1 DEF Fatal
  <2>4. file[k]["frame_id"] # None /\ file[k]["seconds"] # None /\ file[k]["nanos"] # None
    BY <2>3 DEF Has
  <2>5. {"frame_id", "seconds", "nanos", "labelBB", "labelGeneral"} \subseteq Fields
    BY FieldsAre
  <2>6. StoredHead(k) \in [uuid : Uuids, seconds : Messages, nanos : Messages, frame_id : Messages]
    BY <2>1, <2>2, <2>4, <2>5 DEF StoredHead
  <2>7. Has(k, <<"labelBB">>) => file[k]["labelBB"] \in Messages
    BY <2>2, <2>5 DEF Has
  <2>8. Has(k, <<"labelGeneral">>) => file[k]["labelGeneral"] \in Messages
    BY <2>2, <2>5 DEF Has
  <2> QED BY <2>1, <2>6, <2>7, <2>8 DEF StoredLabels
<1>5. index' \in [Groups -> SUBSET [uuid : Uuids, seconds : Messages, nanos : Messages,
                                    frame_id : Messages]]
  BY <1>3, <1>4
<1>6. labelled' \in [Groups -> SUBSET (Uuids \X Messages \X {"bb", "general"})]
  BY <1>3, <1>4
<1>7. serving' \in BOOLEAN
  BY <1>3
<1>8. Locks'
  BY ConstantsAssumption DEF Restart, Locks
<1>9. HandlerTypes'
  <2>1. /\ pc' = [h \in Handlers |-> "idle"] /\ stream' = [h \in Handlers |-> <<>>]
        /\ pos' = [h \in Handlers |-> 1] /\ at' = [h \in Handlers |-> 1]
        /\ answer' = [h \in Handlers |-> "everything stored!"]
    BY DEF Restart
  <2>2. [h \in Handlers |-> 1] \in [Handlers -> Nat \ {0}]
    OBVIOUS
  <2>3. pos' \in [Handlers -> Nat \ {0}] /\ at' \in [Handlers -> Nat \ {0}]
    BY <2>1, <2>2, Zenon
  <2> QED BY <2>1, <2>3 DEF HandlerTypes
<1>10. StoreTypes'
  BY <1>1, <1>2 DEF Restart, StoreTypes, TypeOK
<1>11. QueryTypes'
  BY DEF Restart, QueryTypes
<1> QED BY <1>5, <1>6, <1>7, <1>8, <1>9, <1>10, <1>11, TypeParts DEF IndexTypes

LEMMA UploadTypes ==
  ASSUME TypeOK, Locks, NEW h \in Handlers, UploadStep(h)
  PROVE  TypeOK' /\ Locks'
<1>1. /\ UNCHANGED <<query, todo, serving>>
      /\ QueryTypes' /\ HandlerTypes /\ StoreTypes /\ IndexTypes
  BY TypeParts DEF UploadStep, queryVars, QueryTypes
<1>2. CASE NextMessage(h)
  <2>1. pos[h] \in DOMAIN stream[h] /\ pc[h] = "read"
    BY <1>2, Streaming DEF NextMessage
  <2>2. StoreTypes' /\ IndexTypes' /\ mutex' = mutex
    BY <1>1, <1>2 DEF NextMessage, indexVars, history, StoreTypes, IndexTypes
  <2>3. CASE Goto(h, "lock") /\ UNCHANGED <<stream, pos, at, answer>>
    <3>1. pc' = [pc EXCEPT ![h] = "lock"] /\ UNCHANGED <<stream, pos, at, answer>>
      BY <2>3 DEF Goto
    <3>2. /\ pc' \in [Handlers -> {"idle", "read", "lock", "write", "index", "fetch"}]
          /\ \A i \in Handlers : pc'[i] \in {"lock", "write", "index"} => pos'[i] \in DOMAIN stream'[i]
      BY <1>1, <2>1, <3>1 DEF HandlerTypes
    <3>3. HandlerTypes'
      <4>1. /\ stream' \in [Handlers -> Streams \cup {<<>>}]
            /\ answer' \in [Handlers -> {"everything stored!", "a msg had no project uuid!"}]
        BY <1>1, <3>1 DEF HandlerTypes
      <4>2. pos' \in [Handlers -> Nat \ {0}]
        BY <1>1, <3>1 DEF HandlerTypes
      <4>3. at' \in [Handlers -> Nat \ {0}]
        BY <1>1, <3>1 DEF HandlerTypes
      <4> QED BY <3>2, <4>1, <4>2, <4>3 DEF HandlerTypes
    <3> QED BY <1>1, <2>1, <2>2, <2>3, <3>3, PassBy, TypeParts DEF Goto
  <2>4. CASE /\ answer' = [answer EXCEPT ![h] = "a msg had no project uuid!"]
             /\ pos' = [pos EXCEPT ![h] = @ + 1]
             /\ UNCHANGED <<pc, stream, at>>
    <3>1. answer' \in [Handlers -> {"everything stored!", "a msg had no project uuid!"}]
      BY <1>1, <2>4 DEF HandlerTypes
    <3>2. pos' \in [Handlers -> Nat \ {0}]
      <4>1. pos \in [Handlers -> Nat \ {0}]
        BY <1>1 DEF HandlerTypes
      <4> QED BY <2>4, <4>1, CounterTypes
    <3>3. \A i \in Handlers : pc'[i] \in {"lock", "write", "index"} => pos'[i] \in DOMAIN stream'[i]
      BY <1>1, <2>1, <2>4 DEF HandlerTypes
    <3>4. HandlerTypes'
      BY <1>1, <2>4, <3>1, <3>2, <3>3 DEF HandlerTypes
    <3>5. Locks'
      BY <1>1, <2>2, <2>4 DEF Locks
    <3> QED BY <1>1, <2>2, <3>4, <3>5, TypeParts
  <2>5. CASE Leave(h)
    BY <1>1, <2>1, <2>2, <2>5, LeaveTypes, PassBy, TypeParts DEF Leave, Goto
  <2> QED BY <1>2, <2>3, <2>4, <2>5 DEF NextMessage
<1>3. CASE EndStream(h)
  <2>1. Leave(h) /\ mutex' = mutex /\ pc[h] = "read" /\ IndexTypes'
    BY <1>1, <1>3 DEF EndStream, indexVars, IndexTypes
  <2>2. InSeq(stream[h]) \subseteq Messages
    BY Streaming DEF InSeq
  <2>3. StoreTypes'
    BY <1>1, <1>3, <2>2 DEF EndStream, StoreTypes
  <2> QED BY <1>1, <2>1, <2>3, LeaveTypes, PassBy, TypeParts DEF Leave, Goto
<1>4. CASE Lock(h)
  <2>1. IndexTypes' /\ StoreTypes'
    BY <1>1, <1>4 DEF Lock, indexVars, history, IndexTypes, StoreTypes
  <2>2. HandlerTypes'
    BY <1>1, <1>4 DEF Lock, Goto, HandlerTypes
  <2>3. pc' = [pc EXCEPT ![h] = "write"] /\ pc[h] = "lock" /\ mutex = None /\ mutex' = h
    BY <1>4 DEF Lock, Goto
  <2>4. \A i \in Handlers : pc'[i] = "write" <=> mutex' = i
    BY <1>1, <2>3, ConstantsAssumption DEF Locks, HandlerTypes
  <2>5. serving
    BY <2>3 DEF Locks
  <2>6. Locks'
    BY <1>1, <2>4, <2>5 DEF Locks
  <2> QED BY <1>1, <2>1, <2>2, <2>6, TypeParts
<1>5. CASE Write(h)
  <2>1. UNCHANGED <<mutex, pc, stream, pos, answer, index, labelled, acked, failed>>
    BY <1>5 DEF Write, indexVars
  <2>2. Locks'
    BY <1>1, <2>1 DEF Locks
  <2>3. HandlerTypes' /\ StoreTypes' /\ IndexTypes'
    BY <1>1, <1>5, <2>1, WriteTypes DEF HandlerTypes, StoreTypes, IndexTypes
  <2> QED BY <1>1, <2>2, <2>3, TypeParts
<1>6. CASE Fail(h)
  <2>1. IndexTypes' /\ mutex' = None /\ file' = file /\ acked' = acked /\ pc[h] = "write"
    BY <1>1, <1>6 DEF Fail, indexVars, IndexTypes
  <2>2. Current(h) \in Messages
    BY <2>1, Streaming
  <2>3. KeyOf(Current(h)) \in Keys
    BY <2>2, MessageKey
  <2>4. StoreTypes'
    BY <1>1, <1>6, <2>1, <2>2, <2>3 DEF Fail, StoreTypes
  <2>5. Leave(h) \/ NextInStream(h)
    BY <1>6 DEF Fail
  <2>6. HandlerTypes'
    BY <1>1, <2>5, LeaveTypes, NextInStreamTypes
  <2>7. pc' = [pc EXCEPT ![h] = "idle"] \/ pc' = [pc EXCEPT ![h] = "read"]
    BY <2>5 DEF Leave, NextInStream, Goto
  <2> QED BY <1>1, <2>1, <2>4, <2>6, <2>7, Release, TypeParts
<1>7. CASE Unlock(h)
  <2>1. IndexTypes' /\ StoreTypes' /\ mutex' = None /\ pc[h] = "write"
    BY <1>1, <1>7 DEF Unlock, indexVars, history, IndexTypes, StoreTypes
  <2>2. CASE NextInStream(h)
    BY <1>1, <2>1, <2>2, NextInStreamTypes, Release, TypeParts DEF NextInStream, Goto
  <2>3. CASE Goto(h, "index") /\ UNCHANGED <<stream, pos, at, answer>>
    <3>1. HandlerTypes'
      BY <1>1, <2>1, <2>3 DEF Goto, HandlerTypes
    <3> QED BY <1>1, <2>1, <2>3, <3>1, Release, TypeParts DEF Goto
  <2> QED BY <1>7, <2>2, <2>3 DEF Unlock
<1>8. CASE AddDataset(h)
  <2>1. StoreTypes' /\ NextInStream(h) /\ pc[h] = "index" /\ mutex' = mutex
    BY <1>1, <1>8 DEF AddDataset, history, StoreTypes
  <2> DEFINE m == Current(h)
  <2>2. m \in Messages
    BY <2>1, Streaming
  <2>3. /\ index' = IF m.call = "fbBoxes" THEN index
                    ELSE [index EXCEPT !["images"] = @ \cup {HeadOf(m)}]
        /\ labelled' = [labelled EXCEPT !["images"] = @ \cup LabelsOf(m)]
    BY <1>8 DEF AddDataset, DatatypeOf
  <2> HIDE DEF m
  <2>4. /\ HeadOf(m) \in [uuid : Uuids, seconds : Messages, nanos : Messages, frame_id : Messages]
        /\ LabelsOf(m) \subseteq Uuids \X Messages \X {"bb", "general"}
    BY <2>2, MessageKey DEF HeadOf, LabelsOf
  <2>5. "images" \in Groups
    BY DEF Groups
  <2>6. index' \in [Groups -> SUBSET [uuid : Uuids, seconds : Messages, nanos : Messages,
                                      frame_id : Messages]]
    BY <1>1, <2>3, <2>4, <2>5 DEF IndexTypes
  <2>7. labelled' \in [Groups -> SUBSET (Uuids \X Messages \X {"bb", "general"})]
    BY <1>1, <2>3, <2>4, <2>5 DEF IndexTypes
  <2>8. IndexTypes'
    BY <1>1, <2>6, <2>7 DEF IndexTypes
  <2> QED BY <1>1, <2>1, <2>8, NextInStreamTypes, PassBy, TypeParts DEF NextInStream, Goto
<1> QED BY <1>2, <1>3, <1>4, <1>5, <1>6, <1>7, <1>8 DEF UploadStep

LEMMA QueryStepTypes ==
  ASSUME TypeOK, Locks, NEW h \in Handlers, QueryStep(h)
  PROVE  TypeOK' /\ Locks'
<1>1. /\ HandlerTypes /\ QueryTypes /\ StoreTypes' /\ IndexTypes'
      /\ UNCHANGED <<mutex, stream, pos, at, answer, serving>>
  BY TypeParts DEF QueryStep, indexVars, history, StoreTypes, IndexTypes
<1>2. /\ pc[h] = "fetch"
      /\ \/ UNCHANGED <<pc, query>> /\ \E u \in todo[h] : todo' = [todo EXCEPT ![h] = @ \ {u}]
         \/ pc' = [pc EXCEPT ![h] = "idle"] /\ query' = [query EXCEPT ![h] = None]
            /\ (todo' = todo \/ todo' = [todo EXCEPT ![h] = {}])
  BY DEF QueryStep, ReadDataset, EndQuery, FailQuery, Goto
<1>3. QueryTypes'
  BY <1>1, <1>2 DEF QueryTypes
<1>4. HandlerTypes'
  BY <1>1, <1>2 DEF HandlerTypes
<1>5. Locks'
  <2>1. CASE pc' = pc
    BY <1>1, <2>1 DEF Locks
  <2> QED BY <1>1, <1>2, <2>1, PassBy
<1> QED BY <1>1, <1>3, <1>4, <1>5, TypeParts

LEMMA ReceiveTypes ==
  ASSUME TypeOK, Locks, NEW h \in Handlers, NEW s \in Streams, Receive(h, s)
  PROVE  TypeOK' /\ Locks'
<1>1. HandlerTypes /\ StoreTypes' /\ IndexTypes' /\ QueryTypes' /\ mutex' = mutex
  BY TypeParts DEF Receive, queryVars, indexVars, history, StoreTypes, IndexTypes, QueryTypes
<1>2. /\ serving /\ serving' = serving /\ pc[h] = "idle" /\ pc' = [pc EXCEPT ![h] = "read"]
      /\ stream' = [stream EXCEPT ![h] = s] /\ UNCHANGED <<pos, at, answer>>
  BY DEF Receive, Goto
<1>3. HandlerTypes'
  BY <1>1, <1>2 DEF HandlerTypes
<1> QED BY <1>1, <1>2, <1>3, PassBy, TypeParts

LEMMA GetDataTypes ==
  ASSUME TypeOK, Locks, NEW h \in Handlers, NEW q \in Sent, GetData(h, q)
  PROVE  TypeOK' /\ Locks'
<1> DEFINE us == IF q.filter = "none" THEN {e.uuid : e \in index[GroupRead(q)]}
                 ELSE {l[1] : l \in labelled[GroupRead(q)]}
<1>1. /\ HandlerTypes /\ StoreTypes' /\ IndexTypes' /\ IndexTypes /\ QueryTypes
      /\ UNCHANGED <<mutex, stream, pos, at, answer>>
  BY TypeParts DEF GetData, indexVars, history, StoreTypes, IndexTypes
<1>2. /\ serving /\ serving' = serving /\ pc[h] = "idle" /\ pc' = [pc EXCEPT ![h] = "fetch"]
      /\ query' = [query EXCEPT ![h] = q] /\ todo' = [todo EXCEPT ![h] = us]
  BY DEF GetData, Goto
<1>3. us \subseteq Uuids
  <2>1. GroupRead(q) \in Groups
    BY DEF GroupRead, Groups
  <2>2. \A e \in index[GroupRead(q)] : e.uuid \in Uuids
    BY <1>1, <2>1 DEF IndexTypes
  <2>3. \A l \in labelled[GroupRead(q)] : l[1] \in Uuids
    BY <1>1, <2>1 DEF IndexTypes
  <2> QED BY <2>2, <2>3
<1> HIDE DEF us
<1>4. q \in Queries
  BY ConstantsAssumption
<1>5. QueryTypes'
  BY <1>1, <1>2, <1>3, <1>4 DEF QueryTypes
<1>6. HandlerTypes'
  BY <1>1, <1>2 DEF HandlerTypes
<1> QED BY <1>1, <1>2, <1>5, <1>6, PassBy, TypeParts

LEMMA TypeNext == TypeOK /\ Locks /\ [Next]_vars => TypeOK' /\ Locks'
<1> SUFFICES ASSUME TypeOK, Locks, [Next]_vars PROVE TypeOK' /\ Locks'
  OBVIOUS
<1>1. CASE UNCHANGED vars
  BY <1>1 DEF vars, TypeOK, Locks
<1> QED BY <1>1, RestartTypes, UploadTypes, QueryStepTypes, ReceiveTypes, GetDataTypes DEF Next

\* In every behaviour of the store each variable has its type, with the header of every
\* entry of the index in the file and never empty.
THEOREM TypeCorrect == Spec => []TypeOK
<1>1. Spec => [](TypeOK /\ Locks)
  BY TypeInit, TypeNext, PTL DEF Spec
<1> QED BY <1>1, PTL

-----------------------------------------------------------------------------
(* Which write is next, before and after a step.                           *)

LEMMA StepsFrame ==
  ASSUME NEW m, NEW i, file'[KeyOf(m)]["rawdata"] = None <=> file[KeyOf(m)]["rawdata"] = None
  PROVE  Steps(m)' = Steps(m) /\ FieldAt(m, i)' = FieldAt(m, i)
<1>1. Steps(m)' = Steps(m)
  BY DEF Steps, KeyOf, Group, WriteImage, WriteImagePb, WritePoint, Layout, Header, Labels,
         BoundingBoxes, LabelsGeneral, Attributes
<1> QED BY <1>1 DEF FieldAt

\* What an upload writes depends on nothing but the message.
LEMMA StepsConstant ==
  ASSUME NEW m, m.call # "fbAttributes", NEW i
  PROVE  Steps(m)' = Steps(m) /\ FieldAt(m, i)' = FieldAt(m, i)
<1>1. Steps(m)' = Steps(m)
  BY DEF Steps, KeyOf, Group, WriteImage, WriteImagePb, WritePoint, Layout, Header, Labels,
         BoundingBoxes, LabelsGeneral, Attributes
<1> QED BY <1>1 DEF FieldAt

LEMMA WriterFacts ==
  ASSUME TypeOK, Locks, mutex # None
  PROVE  /\ mutex \in Handlers /\ pc[mutex] = "write" /\ serving
         /\ Current(mutex) \in Messages /\ at[mutex] \in Nat \ {0}
<1>1. mutex \in Handlers
  BY DEF TypeOK
<1>2. pc[mutex] = "write" /\ serving
  BY <1>1 DEF Locks
<1> QED BY <1>1, <1>2, Streaming

LEMMA NothingNext ==
  /\ mutex = None => \A k : NextField(k) = "none"
  /\ mutex' = None => \A k : NextField(k)' = "none"
BY DEF NextField

\* A step of a handler that does not hold the mutex, while the file stays as it is.
LEMMA NextFieldFrame ==
  ASSUME TypeOK, Locks, UNCHANGED <<file, mutex>>,
         mutex # None => UNCHANGED <<Current(mutex), at[mutex]>>
  PROVE  /\ \A k : NextField(k)' = NextField(k)
         /\ mutex # None => /\ Current(mutex)' = Current(mutex) /\ at'[mutex'] = at[mutex]
                            /\ Steps(Current(mutex))' = Steps(Current(mutex))
<1>1. CASE mutex = None
  BY <1>1, NothingNext
<1>2. CASE mutex # None
  <2>1. PICK m \in Messages : m = Current(mutex)
    BY <1>2, WriterFacts
  <2>2. PICK i \in Nat \ {0} : i = at[mutex]
    BY <1>2, WriterFacts
  <2>3. Current(mutex)' = m /\ at'[mutex'] = i /\ mutex' = mutex
    BY <1>2, <2>1, <2>2
  <2>4. Steps(m)' = Steps(m) /\ FieldAt(m, i)' = FieldAt(m, i)
    BY StepsFrame
  <2>5. \A k : NextField(k)' = NextField(k)
    BY <1>2, <2>1, <2>2, <2>3, <2>4 DEF NextField
  <2> QED BY <2>1, <2>2, <2>3, <2>4, <2>5
<1> QED BY <1>1, <1>2

LEMMA WriteContext ==
  ASSUME TypeOK, Locks, NEW h \in Handlers, Write(h),
         NEW m, NEW i, NEW f, m = Current(h), i = at[h], f = Steps(m)[i]
  PROVE  /\ mutex = h /\ mutex' = h /\ serving /\ pc' = pc /\ pc[h] = "write"
         /\ m \in Messages /\ KeyOf(m) \in Keys /\ i \in Nat \ {0} /\ i \in DOMAIN Steps(m)
         /\ f \in Fields /\ f \in Writes(m) /\ ~Throws(m, f) /\ FieldAt(m, i) = f
         /\ file'[KeyOf(m)][f] = Written(m, f)
         /\ \A k \in Keys : \A g \in Fields :
              k # KeyOf(m) \/ g # f => file'[k][g] = file[k][g]
         /\ torn' = IF f = "seq" THEN torn \ {<<KeyOf(m), "data">>} ELSE torn
         /\ Current(h)' = m /\ at'[h] = i + 1 /\ Steps(m)' = Steps(m)
         /\ \A k : NextField(k) = IF k = KeyOf(m) THEN f ELSE "none"
         /\ \A k : NextField(k)' = IF k = KeyOf(m) THEN FieldAt(m, i + 1) ELSE "none"
<1>1. /\ pc[h] = "write" /\ i <= Len(Steps(m)) /\ ~Throws(m, f)
      /\ file' = [file EXCEPT ![KeyOf(m)][f] = Written(m, f)]
      /\ torn' = IF f = "seq" THEN torn \ {<<KeyOf(m), "data">>} ELSE torn
      /\ at' = [at EXCEPT ![h] = @ + 1] /\ UNCHANGED <<mutex, pc, stream, pos>>
  BY DEF Write
<1>2. m \in Messages /\ i \in Nat \ {0}
  BY <1>1, Streaming
<1>3. KeyOf(m) \in Keys
  BY <1>2, MessageKey
<1>4. i \in DOMAIN Steps(m)
  BY <1>1, <1>2, Places
<1>5. f \in Fields /\ f \in Writes(m)
  BY <1>2, <1>4, Places
<1>6. mutex = h /\ mutex' = h /\ serving /\ h # None
  BY <1>1, ConstantsAssumption DEF Locks
<1>7. /\ file \in [Keys -> [Fields -> Messages \cup {None}]]
      /\ at \in [Handlers -> Nat \ {0}]
  BY DEF TypeOK
<1>8. file'[KeyOf(m)][f] = Written(m, f)
  BY <1>1, <1>3, <1>5, <1>7
<1>9. \A k \in Keys : \A g \in Fields :
        k # KeyOf(m) \/ g # f => file'[k][g] = file[k][g]
  BY <1>1, <1>3, <1>5, <1>7
<1>10. Current(h)' = m /\ at'[h] = i + 1
  <2>1. Current(h)' = m
    BY <1>1 DEF Current
  <2> QED BY <1>1, <1>7, <2>1
<1>11. Steps(m)' = Steps(m) /\ FieldAt(m, i + 1)' = FieldAt(m, i + 1)
  <2>1. CASE m.call # "fbAttributes"
    BY <2>1, StepsConstant
  <2>2. CASE m.call = "fbAttributes"
    <3>1. f = "attributes"
      BY <1>2, <1>5, <2>2, WhoWrites
    <3>2. file'[KeyOf(m)]["rawdata"] = file[KeyOf(m)]["rawdata"]
      BY <1>3, <1>9, <3>1, FieldsAre
    <3> QED BY <3>2, StepsFrame
  <2> QED BY <2>1, <2>2
<1>12. FieldAt(m, i) = f
  BY <1>4 DEF FieldAt
<1>13. \A k : NextField(k) = IF k = KeyOf(m) THEN f ELSE "none"
  BY <1>6, <1>12 DEF NextField
<1>14. \A k : NextField(k)' = IF k = KeyOf(m) THEN FieldAt(m, i + 1) ELSE "none"
  <2>1. PICK j : j = i + 1
    OBVIOUS
  <2>2. at'[h] = j /\ FieldAt(m, j)' = FieldAt(m, j) /\ FieldAt(m, j) = FieldAt(m, i + 1)
    BY <1>10, <1>11, <2>1
  <2>3. \A k : NextField(k)' = IF k = KeyOf(m) THEN FieldAt(m, j)' ELSE "none"
    BY <1>6, <1>10, <2>2 DEF NextField
  <2> QED BY <2>2, <2>3
<1> QED BY <1>1, <1>2, <1>3, <1>4, <1>5, <1>6, <1>8, <1>9, <1>10, <1>11, <1>12, <1>13, <1>14

\* What a message writes is itself, but for rawdata, which stays, and class.
LEMMA WrittenIs ==
  ASSUME NEW m \in Messages, NEW f
  PROVE  /\ f \notin {"rawdata", "class"} => Written(m, f) = m
         /\ f = "rawdata" =>
              Written(m, f) = IF file[KeyOf(m)]["rawdata"] # None THEN file[KeyOf(m)]["rawdata"] ELSE m
         /\ f = "class" => Written(m, f) = IF m.truecolor THEN m ELSE None
BY MessageKey DEF Written

-----------------------------------------------------------------------------
(* What the invariant says of one dataset.                                 *)

LEMMA DataFieldsAre ==
  ASSUME NEW k
  PROVE  DataFields(k) = {"seconds", "nanos", "frame_id", "seq", "data"}
                           \cup IF k[1] = "images" THEN {"height", "width", "encoding"} ELSE {}
<1>1. ASSUME NEW s, DOMAIN s = 1..3
      PROVE  InSeq(s) = {s[1], s[2], s[3]}
  BY <1>1 DEF InSeq
<1>2. ASSUME NEW s, DOMAIN s = 1..4
      PROVE  InSeq(s) = {s[1], s[2], s[3], s[4]}
  BY <1>2 DEF InSeq
<1>3. /\ DOMAIN Layout = 1..3 /\ Layout[1] = "height" /\ Layout[2] = "width"
      /\ Layout[3] = "encoding"
  BY DEF Layout
<1>4. /\ DOMAIN Header = 1..4 /\ Header[1] = "seconds" /\ Header[2] = "nanos"
      /\ Header[3] = "frame_id" /\ Header[4] = "seq"
  BY DEF Header
<1>5. InSeq(Layout) = {"height", "width", "encoding"}
  BY <1>1, <1>3
<1>6. InSeq(Header) = {"seconds", "nanos", "frame_id", "seq"}
  BY <1>2, <1>4
<1> QED BY <1>5, <1>6 DEF DataFields

LEMMA DataFieldsPlain ==
  ASSUME NEW k
  PROVE  /\ DataFields(k) \subseteq Fields /\ DataFields(k) \subseteq DataSteps
         /\ {"seconds", "nanos", "frame_id", "seq", "data"} \subseteq DataFields(k)
         /\ "rawdata" \notin DataFields(k) /\ "class" \notin DataFields(k)
         /\ DataSteps \subseteq Fields
BY DataFieldsAre, FieldsAre DEF DataSteps

\* What ends a startup, field by field.
LEMMA FatalIs ==
  /\ \A k : Fatal(k) <=> /\ file[k]["rawdata"] # None
                         /\ \/ ~HasHead(k) \/ HalfBB(k)
                            \/ /\ file[k]["labelGeneral"] # None
                               /\ file[k]["labelGeneralInstances"] = None
  /\ \A k : (Fatal(k) <=> /\ file[k]["rawdata"] # None
                          /\ \/ ~HasHead(k) \/ HalfBB(k)
                             \/ /\ file[k]["labelGeneral"] # None
                                /\ file[k]["labelGeneralInstances"] = None)'
<1>1. ASSUME NEW k, NEW f
      PROVE  /\ Has(k, <<f>>) <=> file[k][f] # None
             /\ Has(k, <<f>>)' <=> file'[k][f] # None
  BY DEF Has
<1>2. ASSUME NEW k
      PROVE  /\ Has(k, <<"frame_id", "seconds", "nanos">>) <=> HasHead(k)
             /\ Has(k, <<"frame_id", "seconds", "nanos">>)' <=> HasHead(k)'
  <2>1. DOMAIN <<"frame_id", "seconds", "nanos">> = 1..3
    OBVIOUS
  <2> QED BY <2>1 DEF Has, HasHead
<1> QED BY <1>1, <1>2 DEF Fatal, HalfBB

\* A dataset whose fields and next write stay as they are.
LEMMA DatasetFrame ==
  ASSUME NEW k \in Keys, DatasetInv, \A f \in Fields : file'[k][f] = file[k][f],
         NextField(k)' = NextField(k), serving' = serving,
         NextField(k) \in DataSteps => Current(mutex)' = Current(mutex),
         \A p : <<k, p>> \in torn => <<k, p>> \in torn'
  PROVE  (FromKey(k) /\ LabelOrder(k) /\ AtLabels(k) /\ DataInv(k) /\ LabelsInv(k) /\ ServingInv(k))'
<1>1. FromKey(k) /\ LabelOrder(k) /\ AtLabels(k) /\ DataInv(k) /\ LabelsInv(k) /\ ServingInv(k)
  BY DEF DatasetInv
<1>2. /\ file'[k]["rawdata"] = file[k]["rawdata"] /\ file'[k]["class"] = file[k]["class"]
      /\ file'[k]["labelBB"] = file[k]["labelBB"]
      /\ file'[k]["labelBBBoxes"] = file[k]["labelBBBoxes"]
      /\ file'[k]["labelBBInstances"] = file[k]["labelBBInstances"]
      /\ file'[k]["labelGeneral"] = file[k]["labelGeneral"]
      /\ file'[k]["labelGeneralInstances"] = file[k]["labelGeneralInstances"]
      /\ file'[k]["frame_id"] = file[k]["frame_id"] /\ file'[k]["seconds"] = file[k]["seconds"]
      /\ file'[k]["nanos"] = file[k]["nanos"]
  BY FieldsAre
<1>3. FromKey(k)'
  BY <1>1, MessageKey DEF FromKey, KeyOf, Group
<1>4. LabelOrder(k)'
  BY <1>1, <1>2 DEF LabelOrder
<1>5. AtLabels(k)'
  BY <1>1, <1>2 DEF AtLabels
<1>6. DataInv(k)'
  <2>1. ASSUME NEW m, DataFrom(k, m)
        PROVE  DataFrom(k, m)'
    <3>1. \A f \in DataFields(k) : file'[k][f] = m
      BY <2>1, DataFieldsPlain DEF DataFrom
    <3>2. DataFields(k)' = DataFields(k)
      BY DEF DataFields, InSeq, Header, Layout
    <3> QED BY <1>2, <2>1, <3>1, <3>2 DEF DataFrom
  <2> QED BY <1>1, <2>1 DEF DataInv
<1>7. LabelsInv(k)'
  BY <1>1, <1>2 DEF LabelsInv, WholeBB, WholeGeneral
<1>8. ServingInv(k)'
  <2>1. HasHead(k)' <=> HasHead(k)
    BY <1>2 DEF HasHead
  <2> QED BY <1>1, <1>2, <2>1 DEF ServingInv
<1> QED BY <1>3, <1>4, <1>5, <1>6, <1>7, <1>8

-----------------------------------------------------------------------------
(* A write.                                                                *)

\* No write empties a field, but for class, and rawdata stays what it is.
LEMMA WriteKeeps ==
  ASSUME TypeOK, Locks, NEW h \in Handlers, Write(h),
         NEW m, NEW i, NEW f, m = Current(h), i = at[h], f = Steps(m)[i]
  PROVE  /\ \A k \in Keys : \A g \in Fields \ {"class"} : file[k][g] # None => file'[k][g] # None
         /\ \A k \in Keys : file[k]["rawdata"] # None => file'[k]["rawdata"] = file[k]["rawdata"]
         /\ f # "rawdata" => file'[KeyOf(m)]["rawdata"] = file[KeyOf(m)]["rawdata"]
         /\ f \notin {"rawdata", "class"} => file'[KeyOf(m)][f] = m
         /\ \A k \in Keys : \A g \in LabelFields : file[k][g] # None => file'[k][g] = file[k][g]
<1>1. /\ m \in Messages /\ m # None /\ KeyOf(m) \in Keys /\ f \in Fields /\ ~Throws(m, f)
      /\ file'[KeyOf(m)][f] = Written(m, f)
      /\ \A k \in Keys : \A g \in Fields : k # KeyOf(m) \/ g # f => file'[k][g] = file[k][g]
  BY WriteContext, MessageKey
<1>2. f \notin {"rawdata", "class"} => file'[KeyOf(m)][f] = m
  BY <1>1, WrittenIs
<1>3. "rawdata" \in Fields /\ LabelFields \subseteq Fields
  BY FieldsAre
<1>4. f # "rawdata" => file'[KeyOf(m)]["rawdata"] = file[KeyOf(m)]["rawdata"]
  BY <1>1, <1>3
<1>5. f = "rawdata" => /\ file[KeyOf(m)]["rawdata"] # None =>
                            file'[KeyOf(m)]["rawdata"] = file[KeyOf(m)]["rawdata"]
                       /\ file'[KeyOf(m)]["rawdata"] # None
  BY <1>1, WrittenIs
<1>6. \A k \in Keys : file[k]["rawdata"] # None => file'[k]["rawdata"] = file[k]["rawdata"]
  BY <1>1, <1>3, <1>5
<1>7. \A k \in Keys : \A g \in Fields \ {"class"} : file[k][g] # None => file'[k][g] # None
  BY <1>1, <1>2, <1>5
<1>8. \A k \in Keys : \A g \in LabelFields : file[k][g] # None => file'[k][g] = file[k][g]
  BY <1>1, <1>3 DEF Throws
<1> QED BY <1>2, <1>4, <1>6, <1>7, <1>8

\* What the writer has passed: the pixels of an upload, and the lists of labels so far.
LEMMA Passed ==
  ASSUME TypeOK, Locks, Progress, NEW h \in Handlers, Write(h),
         NEW m, NEW i, NEW f, m = Current(h), i = at[h], f = Steps(m)[i]
  PROVE  /\ \A j \in DOMAIN Steps(m) : j < i => WrittenField(m, Steps(m)[j])
         /\ m.call \in Uploads /\ f # "rawdata" => file[KeyOf(m)]["rawdata"] # None
         /\ f \in {"labelBBBoxes", "labelBBInstances"} => file[KeyOf(m)]["labelBB"] = m
         /\ f = "labelBBInstances" => file[KeyOf(m)]["labelBBBoxes"] = m
         /\ f = "labelGeneralInstances" => file[KeyOf(m)]["labelGeneral"] = m
<1>1. mutex = h /\ h # None /\ m \in Messages /\ i \in DOMAIN Steps(m) /\ i \in Nat \ {0}
  BY WriteContext, ConstantsAssumption
<1>2. \A j \in DOMAIN Steps(m) : j < i => WrittenField(m, Steps(m)[j])
  BY <1>1 DEF Progress
<1>3. ASSUME NEW j \in DOMAIN Steps(m), j < i, Steps(m)[j] \notin {"rawdata", "class"}
      PROVE  file[KeyOf(m)][Steps(m)[j]] = m
  BY <1>1, <1>2, <1>3, WrittenIs DEF WrittenField
<1>4. m.call \in Uploads /\ f # "rawdata" => file[KeyOf(m)]["rawdata"] # None
  BY <1>1, <1>2, DataStepsFirst DEF WrittenField
<1>5. f \in {"labelBBBoxes", "labelBBInstances"} => file[KeyOf(m)]["labelBB"] = m
  <2>1. f = "labelBBBoxes" => i - 1 \in DOMAIN Steps(m) /\ Steps(m)[i - 1] = "labelBB"
    BY <1>1, LabelSteps
  <2>2. f = "labelBBInstances" => i - 2 \in DOMAIN Steps(m) /\ Steps(m)[i - 2] = "labelBB"
    BY <1>1, LabelSteps
  <2>3. i - 1 < i /\ i - 2 < i
    BY <1>1
  <2> QED BY <1>3, <2>1, <2>2, <2>3
<1>6. f = "labelBBInstances" => file[KeyOf(m)]["labelBBBoxes"] = m
  <2>1. f = "labelBBInstances" => i - 1 \in DOMAIN Steps(m) /\ Steps(m)[i - 1] = "labelBBBoxes"
    BY <1>1, LabelSteps
  <2>2. i - 1 < i
    BY <1>1
  <2> QED BY <1>3, <2>1, <2>2
<1>7. f = "labelGeneralInstances" => file[KeyOf(m)]["labelGeneral"] = m
  <2>1. f = "labelGeneralInstances" =>
          i - 1 \in DOMAIN Steps(m) /\ Steps(m)[i - 1] = "labelGeneral"
    BY <1>1, LabelSteps
  <2>2. i - 1 < i
    BY <1>1
  <2> QED BY <1>3, <2>1, <2>2
<1> QED BY <1>2, <1>4, <1>5, <1>6, <1>7

LEMMA WrittenHolds ==
  ASSUME TypeOK, Locks, Progress, NEW h \in Handlers, Write(h),
         NEW m, NEW i, NEW f, NEW s, m = Current(h), i = at[h], s = Steps(m), f = s[i]
  PROVE  \A j \in DOMAIN s : j < i + 1 => WrittenField(m, s[j])'
<1>1. /\ mutex = h /\ mutex' = h /\ m \in Messages /\ m # None /\ i \in Nat \ {0}
      /\ i \in DOMAIN s /\ ~Throws(m, f) /\ file'[KeyOf(m)][f] = Written(m, f)
      /\ KeyOf(m) \in Keys
      /\ \A g \in Fields : g # f => file'[KeyOf(m)][g] = file[KeyOf(m)][g]
  BY WriteContext, MessageKey
<1>2. /\ \A j \in DOMAIN s : j < i => WrittenField(m, s[j])
      /\ m.call \in Uploads /\ f # "rawdata" => file[KeyOf(m)]["rawdata"] # None
  BY Passed
<1>3. /\ file[KeyOf(m)]["rawdata"] # None => file'[KeyOf(m)]["rawdata"] = file[KeyOf(m)]["rawdata"]
      /\ f # "rawdata" => file'[KeyOf(m)]["rawdata"] = file[KeyOf(m)]["rawdata"]
  BY <1>1, WriteKeeps
<1>4. ASSUME NEW g
      PROVE  Written(m, g)' = IF g = "rawdata" /\ file'[KeyOf(m)]["rawdata"] # None
                              THEN file'[KeyOf(m)]["rawdata"]
                              ELSE IF g = "class" /\ ~m.truecolor THEN None ELSE m
  BY DEF Written, KeyOf, Group
<1>5. ASSUME NEW g
      PROVE  Written(m, g) = IF g = "rawdata" /\ file[KeyOf(m)]["rawdata"] # None
                             THEN file[KeyOf(m)]["rawdata"]
                             ELSE IF g = "class" /\ ~m.truecolor THEN None ELSE m
  BY DEF Written
<1>6. ASSUME NEW g
      PROVE  WrittenField(m, g)' <=>
               /\ file'[KeyOf(m)][g] = Written(m, g)'
               /\ g \in {"rawdata", "data"} => file'[KeyOf(m)]["rawdata"] # None
               /\ g = "data" => file'[KeyOf(m)]["rawdata"].size = m.size
  BY DEF WrittenField, KeyOf, Group
<1>7. WrittenField(m, f)'
  <2>1. file'[KeyOf(m)][f] = Written(m, f)'
    BY <1>1, <1>3, <1>4, <1>5
  <2>2. f = "rawdata" => file'[KeyOf(m)]["rawdata"] # None
    BY <1>1, <1>5
  <2>3. f = "data" => /\ file'[KeyOf(m)]["rawdata"] # None
                      /\ file'[KeyOf(m)]["rawdata"].size = m.size
    <3>1. f = "data" => m.call \in Uploads
      BY <1>1, DataStepsFirst DEF DataSteps
    <3> QED BY <1>1, <1>2, <1>3, <3>1 DEF Throws
  <2> QED BY <1>6, <2>1, <2>2, <2>3
<1>8. ASSUME NEW j \in DOMAIN s, j < i
      PROVE  WrittenField(m, s[j])'
  <2>1. PICK g : g = s[j]
    OBVIOUS
  <2>2. g # f /\ g \in Fields
    <3>1. j = Place(m, g) /\ i = Place(m, f) /\ g \in Writes(m)
      BY <1>1, <2>1, Places
    <3>2. j # i
      BY <1>1, <1>8
    <3> QED BY <1>1, <3>1, <3>2, WhoWrites
  <2>3. WrittenField(m, g)
    BY <1>2, <1>8, <2>1
  <2>4. /\ file[KeyOf(m)][g] = Written(m, g)
        /\ g \in {"rawdata", "data"} => file[KeyOf(m)]["rawdata"] # None
        /\ g = "data" => file[KeyOf(m)]["rawdata"].size = m.size
    BY <2>3 DEF WrittenField
  <2>5. file'[KeyOf(m)][g] = file[KeyOf(m)][g]
    BY <1>1, <2>2
  <2>6. Written(m, g)' = Written(m, g)
    BY <1>3, <1>4, <1>5, <2>4
  <2>7. WrittenField(m, g)'
    BY <1>3, <1>6, <2>4, <2>5, <2>6
  <2> QED BY <2>1, <2>7
<1>9. \A j \in DOMAIN s : j < i + 1 => j = i \/ j < i
  <2>1. DOMAIN s \subseteq Nat
    BY <1>1, Places
  <2> QED BY <1>1, <2>1
<1> QED BY <1>7, <1>8, <1>9

LEMMA WriteProgress ==
  ASSUME TypeOK, Locks, Progress, NEW h \in Handlers, Write(h)
  PROVE  Progress'
<1>1. PICK m : m = Current(h)
  OBVIOUS
<1>2. PICK i : i = at[h]
  OBVIOUS
<1>3. PICK s : s = Steps(m)
  OBVIOUS
<1>4. PICK f : f = s[i]
  OBVIOUS
<1>5. \A j \in DOMAIN s : j < i + 1 => WrittenField(m, s[j])'
  BY <1>1, <1>2, <1>3, <1>4, WrittenHolds
<1>6. mutex' = h /\ Current(h)' = m /\ at'[h] = i + 1 /\ Steps(m)' = Steps(m)
  BY <1>1, <1>2, <1>3, <1>4, WriteContext
<1>7. Steps(Current(mutex))' = s /\ at'[mutex'] = i + 1 /\ Current(mutex)' = m
  BY <1>3, <1>6
<1> QED BY <1>5, <1>7 DEF Progress

\* The dataset that is written keeps every part of the invariant.
LEMMA WriteFromKey ==
  ASSUME TypeOK, Locks, Progress, NEW h \in Handlers, Write(h),
         NEW m, NEW i, NEW f, m = Current(h), i = at[h], f = Steps(m)[i], FromKey(KeyOf(m))
  PROVE  FromKey(KeyOf(m))'
<1> DEFINE K == KeyOf(m)
<1>1. /\ m \in Messages /\ f \in Writes(m) /\ file'[K][f] = Written(m, f)
      /\ \A g \in Fields : g # f => file'[K][g] = file[K][g]
      /\ K \in Keys
  BY WriteContext
<1>2. \A g \in Fields : file[K][g] # None =>
        KeyOf(file[K][g]) = K /\ (g \in DataSteps => file[K][g].call \in Uploads)
  BY DEF FromKey
<1>3. f \in DataSteps => m.call \in Uploads
  BY <1>1, WhoWrites
<1>4. Written(m, f) = m \/ Written(m, f) = None
      \/ (f = "rawdata" /\ file[K]["rawdata"] # None /\ Written(m, f) = file[K]["rawdata"])
  BY DEF Written
<1>5. file'[K][f] # None =>
        KeyOf(file'[K][f]) = K /\ (f \in DataSteps => file'[K][f].call \in Uploads)
  BY <1>1, <1>2, <1>3, <1>4, FieldsAre
<1>6. \A g \in Fields : file'[K][g] # None =>
        KeyOf(file'[K][g]) = K /\ (g \in DataSteps => file'[K][g].call \in Uploads)
  BY <1>1, <1>2, <1>5
<1> QED BY <1>6 DEF FromKey, KeyOf, Group

LEMMA WriteLabels ==
  ASSUME TypeOK, Locks, Progress, NEW h \in Handlers, Write(h),
         NEW m, NEW i, NEW f, m = Current(h), i = at[h], f = Steps(m)[i],
         LabelOrder(KeyOf(m)), AtLabels(KeyOf(m)), LabelsInv(KeyOf(m))
  PROVE  LabelOrder(KeyOf(m))' /\ AtLabels(KeyOf(m))' /\ LabelsInv(KeyOf(m))'
<1> DEFINE K == KeyOf(m)
           bb == file[K]["labelBB"]
           bo == file[K]["labelBBBoxes"]
           bi == file[K]["labelBBInstances"]
           ge == file[K]["labelGeneral"]
           gi == file[K]["labelGeneralInstances"]
           bb1 == file'[K]["labelBB"]
           bo1 == file'[K]["labelBBBoxes"]
           bi1 == file'[K]["labelBBInstances"]
           ge1 == file'[K]["labelGeneral"]
           gi1 == file'[K]["labelGeneralInstances"]
           n1 == FieldAt(m, i + 1)
<1>1. /\ m \in Messages /\ m # None /\ i \in DOMAIN Steps(m) /\ f \in Writes(m) /\ ~Throws(m, f)
      /\ NextField(K) = f /\ NextField(K)' = n1 /\ K' = K
      /\ torn' = IF f = "seq" THEN torn \ {<<K, "data">>} ELSE torn
      /\ \A g \in Fields : g # f => file'[K][g] = file[K][g]
      /\ K \in Keys
  BY WriteContext, MessageKey DEF KeyOf, Group
<1>2. /\ f # "labelBB" => bb1 = bb
      /\ f # "labelBBBoxes" => bo1 = bo
      /\ f # "labelBBInstances" => bi1 = bi
      /\ f # "labelGeneral" => ge1 = ge
      /\ f # "labelGeneralInstances" => gi1 = gi
  BY <1>1, FieldsAre
<1>3. /\ f = "labelBB" => bb1 = m
      /\ f = "labelBBBoxes" => bo1 = m
      /\ f = "labelBBInstances" => bi1 = m
      /\ f = "labelGeneral" => ge1 = m
      /\ f = "labelGeneralInstances" => gi1 = m
  BY WriteKeeps
<1>4. /\ f = "labelBB" => bb = None
      /\ f = "labelBBBoxes" => bo = None
      /\ f = "labelGeneral" => ge = None
  BY <1>1, FieldsAre DEF Throws
<1>5. /\ f \in {"labelBBBoxes", "labelBBInstances"} => bb = m
      /\ f = "labelBBInstances" => bo = m
      /\ f = "labelGeneralInstances" => ge = m
  BY Passed
<1>6. /\ n1 = "labelBBBoxes" <=> f = "labelBB"
      /\ n1 = "labelBBInstances" <=> f = "labelBBBoxes"
      /\ n1 = "labelGeneralInstances" <=> f = "labelGeneral"
  BY <1>1, LabelSteps
<1>7. /\ bi # None => bo # None
      /\ bo # None => bb # None
      /\ gi # None => ge # None
      /\ ge # None => file[K]["rawdata"] # None
  BY DEF LabelOrder
<1>8. f = "labelGeneral" => file[K]["rawdata"] # None
  <2>1. f = "labelGeneral" => m.call \in Uploads
    BY <1>1, WhoWrites
  <2>2. m.call \in Uploads /\ f # "rawdata" => file[K]["rawdata"] # None
    BY Passed
  <2> QED BY <2>1, <2>2
<1>9. file[K]["rawdata"] # None => file'[K]["rawdata"] # None
  BY <1>1, WriteKeeps, FieldsAre
<1>10. LabelsInv(K)
  OBVIOUS
<1>11. \/ <<K, "labels">> \in torn
       \/ /\ (bo = bb /\ bi = bb) \/ f \in {"labelBBBoxes", "labelBBInstances"}
          /\ gi = ge \/ f = "labelGeneralInstances"
  BY <1>1, <1>10 DEF LabelsInv, WholeBB, WholeGeneral
<1>12. <<K, "labels">> \in torn => <<K, "labels">> \in torn'
  BY <1>1
<1>13. /\ LabelOrder(K)' <=> /\ bi1 # None => bo1 # None
                             /\ bo1 # None => bb1 # None
                             /\ gi1 # None => ge1 # None
                             /\ ge1 # None => file'[K]["rawdata"] # None
       /\ AtLabels(K)' <=> /\ n1 = "labelBBBoxes" => bo1 = None /\ bi1 = None
                           /\ n1 = "labelBBInstances" => bi1 = None
                           /\ n1 = "labelGeneralInstances" => gi1 = None
  BY <1>1 DEF LabelOrder, AtLabels
<1>14. LabelsInv(K)' <=> \/ <<K, "labels">> \in torn'
                         \/ /\ (bo1 = bb1 /\ bi1 = bb1) \/ n1 \in {"labelBBBoxes", "labelBBInstances"}
                            /\ gi1 = ge1 \/ n1 = "labelGeneralInstances"
  BY <1>1 DEF LabelsInv, WholeBB, WholeGeneral
<1> HIDE DEF K, bb, bo, bi, ge, gi, bb1, bo1, bi1, ge1, gi1, n1
<1>15. LabelOrder(K)'
  BY <1>1, <1>2, <1>3, <1>5, <1>7, <1>8, <1>9, <1>13
<1>16. AtLabels(K)'
  BY <1>2, <1>4, <1>6, <1>7, <1>13
<1>17. LabelsInv(K)'
  <2>1. CASE <<K, "labels">> \in torn
    BY <1>12, <1>14, <2>1
  <2>2. CASE <<K, "labels">> \notin torn
    <3>1. (bo1 = bb1 /\ bi1 = bb1) \/ n1 \in {"labelBBBoxes", "labelBBInstances"}
      BY <1>2, <1>3, <1>5, <1>6, <1>11, <2>2
    <3>2. gi1 = ge1 \/ n1 = "labelGeneralInstances"
      BY <1>2, <1>3, <1>5, <1>6, <1>11, <2>2
    <3> QED BY <1>14, <3>1, <3>2
  <2> QED BY <2>1, <2>2
<1> QED BY <1>15, <1>16, <1>17 DEF K

LEMMA WriteData ==
  ASSUME TypeOK, Locks, Progress, NEW h \in Handlers, Write(h),
         NEW m, NEW i, NEW f, m = Current(h), i = at[h], f = Steps(m)[i],
         DataInv(KeyOf(m))
  PROVE  /\ DataInv(KeyOf(m))'
         /\ f = "seq" => DataFrom(KeyOf(m), m)'
<1> DEFINE K == KeyOf(m)
           n1 == FieldAt(m, i + 1)
<1>1. /\ m \in Messages /\ m # None /\ i \in DOMAIN Steps(m) /\ f \in Writes(m) /\ i \in Nat
      /\ NextField(K) = f /\ NextField(K)' = n1 /\ K' = K /\ K[1] = Group(m)
      /\ torn' = IF f = "seq" THEN torn \ {<<K, "data">>} ELSE torn
      /\ \A g \in Fields : g # f => file'[K][g] = file[K][g]
      /\ K \in Keys
  BY WriteContext, MessageKey DEF KeyOf, Group
<1>2. ASSUME NEW x
      PROVE  DataFrom(K, x)' <=>
               /\ \A g \in DataFields(K) : file'[K][g] = x
               /\ x # None => /\ file'[K]["rawdata"] # None
                              /\ file'[K]["rawdata"].size = x.size
                              /\ K[1] = "images" => file'[K]["class"] = IF x.truecolor THEN x ELSE None
  BY <1>1 DEF DataFrom, DataFields, InSeq, Header, Layout
<1>3. n1 \in DataSteps <=> f \in DataSteps \ {"seq"}
  BY <1>1, DataStepsFirst
<1>4. CASE f \in DataSteps \ {"seq"}
  BY <1>1, <1>3, <1>4 DEF DataInv
<1>5. CASE f = "seq"
  <2>1. m.call \in Uploads
    <3>1. f \in DataSteps
      BY <1>5 DEF DataSteps
    <3> QED BY <1>1, <3>1, WhoWrites
  <2>2. PICK s : s = Steps(m)
    OBVIOUS
  <2>3. \A j \in DOMAIN s : j < i + 1 => WrittenField(m, s[j])'
    BY <2>2, WrittenHolds
  <2>4. ASSUME NEW g \in Writes(m) \cap DataSteps
        PROVE  WrittenField(m, g)'
    <3>1. PICK j \in DOMAIN s : j < i + 1 /\ s[j] = g
      <4>1. CASE g = "seq"
        <5>1. i < i + 1
          BY <1>1
        <5> QED BY <1>1, <1>5, <2>2, <4>1, <5>1
      <4>2. CASE g # "seq"
        <5>1. PICK j \in DOMAIN s : j < i /\ s[j] = g
          <6>1. i \in DOMAIN Steps(m) /\ m \in Messages
            BY <1>1
          <6>2. Steps(m)[i] = "seq" => \A e \in Writes(m) \cap DataSteps :
                  e = "seq" \/ \E j \in DOMAIN Steps(m) : j < i /\ Steps(m)[j] = e
            BY <6>1, DataStepsFirst
          <6> QED BY <1>5, <2>2, <2>4, <4>2, <6>2
        <5>2. j < i + 1
          <6>1. j \in Nat
            BY <1>1, <2>2, Places
          <6> QED BY <1>1, <5>1, <6>1
        <5> QED BY <5>1, <5>2
      <4> QED BY <4>1, <4>2
    <3> QED BY <2>3, <3>1
  <2>5. ASSUME NEW g
        PROVE  WrittenField(m, g)' <=>
                 /\ file'[KeyOf(m)][g] = Written(m, g)'
                 /\ g \in {"rawdata", "data"} => file'[KeyOf(m)]["rawdata"] # None
                 /\ g = "data" => file'[KeyOf(m)]["rawdata"].size = m.size
    BY DEF WrittenField, KeyOf, Group
  <2>6. ASSUME NEW g
        PROVE  Written(m, g)' = IF g = "rawdata" /\ file'[KeyOf(m)]["rawdata"] # None
                                THEN file'[KeyOf(m)]["rawdata"]
                                ELSE IF g = "class" /\ ~m.truecolor THEN None ELSE m
    BY DEF Written, KeyOf, Group
  <2>7. /\ {"data", "seconds", "nanos", "frame_id", "seq"} \subseteq Writes(m) \cap DataSteps
        /\ m.call # "fbPoint" => DataSteps \subseteq Writes(m)
    BY <1>1, <2>1, WhoWrites DEF DataSteps
  <2>8. K[1] = "images" => m.call # "fbPoint"
    BY <1>1 DEF Group
  <2>9. DataFields(K) \subseteq Writes(m)
    <3>1. DataFields(K) = {"seconds", "nanos", "frame_id", "seq", "data"}
                           \cup IF K[1] = "images" THEN {"height", "width", "encoding"} ELSE {}
      BY DataFieldsAre
    <3>2. {"height", "width", "encoding"} \subseteq DataSteps
      BY DEF DataSteps
    <3> QED BY <2>7, <2>8, <3>1, <3>2
  <2>10. DataFields(K) \subseteq DataSteps /\ "rawdata" \notin DataFields(K) /\ "class" \notin DataFields(K)
    BY DataFieldsPlain
  <2>11. \A g \in DataFields(K) : file'[K][g] = m
    BY <2>4, <2>5, <2>6, <2>9, <2>10
  <2>12. file'[K]["rawdata"] # None /\ file'[K]["rawdata"].size = m.size
    BY <2>4, <2>5, <2>7
  <2>13. K[1] = "images" => file'[K]["class"] = IF m.truecolor THEN m ELSE None
    <3>1. K[1] = "images" => "class" \in Writes(m) \cap DataSteps
      BY <2>7, <2>8 DEF DataSteps
    <3>2. K[1] = "images" => file'[K]["class"] = Written(m, "class")'
      BY <2>4, <2>5, <3>1
    <3> QED BY <2>6, <3>2
  <2>14. DataFrom(K, m)'
    BY <1>2, <2>11, <2>12, <2>13
  <2> QED BY <1>1, <2>14 DEF DataInv
<1>6. CASE f \notin DataSteps
  <2>1. f # "seq" /\ f # "rawdata" /\ f # "class"
    BY <1>6 DEF DataSteps
  <2>2. ASSUME NEW x, DataFrom(K, x)
        PROVE  DataFrom(K, x)'
    <3>1. \A g \in DataFields(K) : file'[K][g] = x
      BY <1>1, <1>6, <2>2, DataFieldsPlain DEF DataFrom
    <3>2. file'[K]["rawdata"] = file[K]["rawdata"] /\ file'[K]["class"] = file[K]["class"]
      BY <1>1, <2>1, FieldsAre
    <3> QED BY <1>2, <2>2, <3>1, <3>2 DEF DataFrom
  <2>3. DataInv(K)
    OBVIOUS
  <2> QED BY <1>1, <1>6, <2>1, <2>2, <2>3 DEF DataInv
<1>7. "seq" \in DataSteps
  BY DEF DataSteps
<1> QED BY <1>4, <1>5, <1>6, <1>7

LEMMA WriteServing ==
  ASSUME TypeOK, Locks, Progress, NEW h \in Handlers, Write(h),
         NEW m, NEW i, NEW f, m = Current(h), i = at[h], f = Steps(m)[i],
         DataInv(KeyOf(m)), ServingInv(KeyOf(m))
  PROVE  ServingInv(KeyOf(m))'
<1> DEFINE K == KeyOf(m)
           n1 == FieldAt(m, i + 1)
<1>1. /\ m \in Messages /\ m # None /\ i \in DOMAIN Steps(m) /\ f \in Writes(m)
      /\ NextField(K) = f /\ NextField(K)' = n1 /\ K' = K /\ serving
      /\ mutex = h /\ mutex' = h /\ Current(h)' = m
      /\ file'[K][f] = Written(m, f)
      /\ \A g \in Fields : g # f => file'[K][g] = file[K][g]
      /\ K \in Keys
  BY WriteContext, MessageKey DEF KeyOf, Group
<1>2. Current(mutex)' = m
  BY <1>1
<1>3. n1 \in DataSteps <=> f \in DataSteps \ {"seq"}
  BY <1>1, DataStepsFirst
<1>4. /\ file[K]["rawdata"] # None => HasHead(K) \/ (f \in DataSteps /\ file[K]["rawdata"] = m)
      /\ file[K]["labelGeneral"] # None =>
           file[K]["labelGeneralInstances"] # None \/ f = "labelGeneralInstances"
  BY <1>1 DEF ServingInv
<1>5. HasHead(K) => HasHead(K)'
  <2>1. \A g \in Fields \ {"class"} : file[K][g] # None => file'[K][g] # None
    BY <1>1, WriteKeeps
  <2>2. {"frame_id", "seconds", "nanos"} \subseteq Fields \ {"class"}
    BY FieldsAre
  <2> QED BY <1>1, <2>1, <2>2 DEF HasHead
<1>6. file'[K]["rawdata"] # None =>
        HasHead(K)' \/ (n1 \in DataSteps /\ file'[K]["rawdata"] = m)
  <2>1. CASE f = "seq"
    <3>1. DataFrom(K, m)'
      BY <2>1, WriteData
    <3>2. \A g \in {"frame_id", "seconds", "nanos"} : file'[K][g] = m
      BY <1>1, <3>1, DataFieldsAre DEF DataFrom, DataFields, InSeq, Header, Layout
    <3>3. HasHead(K)'
      BY <1>1, <3>2 DEF HasHead
    <3> QED BY <3>3
  <2>2. CASE f = "rawdata"
    <3>1. n1 \in DataSteps
      BY <1>3, <2>2 DEF DataSteps
    <3>2. file[K]["rawdata"] = None => file'[K]["rawdata"] = m
      BY <1>1, <2>2, WrittenIs
    <3>3. file[K]["rawdata"] # None => file'[K]["rawdata"] = file[K]["rawdata"]
      BY <1>1, WriteKeeps
    <3> QED BY <1>4, <1>5, <3>1, <3>2, <3>3
  <2>3. CASE f \notin {"seq", "rawdata"}
    <3>1. file'[K]["rawdata"] = file[K]["rawdata"]
      BY <1>1, <2>3, FieldsAre
    <3> QED BY <1>3, <1>4, <1>5, <2>3, <3>1
  <2> QED BY <2>1, <2>2, <2>3
<1>7. file'[K]["labelGeneral"] # None =>
        file'[K]["labelGeneralInstances"] # None \/ n1 = "labelGeneralInstances"
  <2>1. CASE f = "labelGeneral"
    <3>1. f = "labelGeneral" <=> n1 = "labelGeneralInstances"
      BY <1>1, LabelSteps
    <3> QED BY <2>1, <3>1
  <2>2. CASE f = "labelGeneralInstances"
    <3>1. f \notin {"rawdata", "class"} => file'[K][f] = m
      BY WriteKeeps
    <3> QED BY <1>1, <2>2, <3>1
  <2>3. CASE f \notin {"labelGeneral", "labelGeneralInstances"}
    BY <1>1, <1>4, <2>3, FieldsAre
  <2> QED BY <2>1, <2>2, <2>3
<1> QED BY <1>1, <1>2, <1>6, <1>7 DEF ServingInv

LEMMA WriteDataset ==
  ASSUME TypeOK, Locks, Progress, DatasetInv, NEW h \in Handlers, Write(h), serving' = serving
  PROVE  DatasetInv'
<1>1. PICK m : m = Current(h)
  OBVIOUS
<1>2. PICK i : i = at[h]
  OBVIOUS
<1>3. PICK f : f = Steps(m)[i]
  OBVIOUS
<1>4. PICK K \in Keys : K = KeyOf(m)
  BY <1>1, <1>2, <1>3, WriteContext
<1>5. ASSUME NEW k \in Keys
      PROVE  (FromKey(k) /\ LabelOrder(k) /\ AtLabels(k) /\ DataInv(k) /\ LabelsInv(k) /\ ServingInv(k))'
  <2>1. CASE k = K
    <3>1. FromKey(K) /\ LabelOrder(K) /\ AtLabels(K) /\ DataInv(K) /\ LabelsInv(K) /\ ServingInv(K)
      BY DEF DatasetInv
    <3>2. K' = K /\ KeyOf(m)' = K
      BY <1>4 DEF KeyOf, Group
    <3>3. FromKey(K)'
      BY <1>1, <1>2, <1>3, <1>4, <3>1, <3>2, WriteFromKey
    <3>4. LabelOrder(K)' /\ AtLabels(K)' /\ LabelsInv(K)'
      BY <1>1, <1>2, <1>3, <1>4, <3>1, <3>2, WriteLabels
    <3>5. DataInv(K)'
      BY <1>1, <1>2, <1>3, <1>4, <3>1, <3>2, WriteData
    <3>6. ServingInv(K)'
      BY <1>1, <1>2, <1>3, <1>4, <3>1, <3>2, WriteServing
    <3> QED BY <2>1, <3>3, <3>4, <3>5, <3>6
  <2>2. CASE k # K
    <3>1. /\ \A g \in Fields : file'[k][g] = file[k][g]
          /\ NextField(k)' = "none" /\ NextField(k) = "none"
          /\ torn' = IF f = "seq" THEN torn \ {<<K, "data">>} ELSE torn
      BY <1>1, <1>2, <1>3, <1>4, <2>2, WriteContext
    <3>2. \A p : <<k, p>> \in torn => <<k, p>> \in torn'
      BY <2>2, <3>1
    <3>3. "none" \notin DataSteps
      BY DEF DataSteps
    <3> QED BY <3>1, <3>2, <3>3, DatasetFrame
  <2> QED BY <2>1, <2>2
<1> QED BY <1>5 DEF DatasetInv

\* What is stored and indexed stays so while the labels that are there and the index do.
LEMMA StoredStays ==
  ASSUME NEW x \in Messages, Stored(x),
         \A g \in Fields \ {"class"} : file[KeyOf(x)][g] # None => file'[KeyOf(x)][g] # None,
         \A g \in LabelFields : file[KeyOf(x)][g] # None => file'[KeyOf(x)][g] = file[KeyOf(x)][g]
  PROVE  Stored(x)'
<1>1. x # None
  BY MessageKey
<1>2. x.call # "fbBoxes" =>
        file'[KeyOf(x)]["rawdata"] # None /\ file'[KeyOf(x)]["frame_id"] # None
  BY FieldsAre DEF Stored
<1>3. x.bb => file'[KeyOf(x)]["labelBB"] = x
  BY <1>1, FieldsAre DEF Stored
<1>4. x.general => file'[KeyOf(x)]["labelGeneral"] = x
  BY <1>1, FieldsAre DEF Stored
<1> QED BY <1>2, <1>3, <1>4 DEF Stored, KeyOf, Group

LEMMA LocalFrame ==
  ASSUME TypeOK, NEW g \in Handlers, Local(g), stream'[g] = stream[g], pos'[g] = pos[g],
         answer'[g] = answer[g], pc'[g] = pc[g], pc[g] # "write" => at'[g] = at[g],
         \A x \in Messages : Stored(x) => Stored(x)',
         \A x \in Messages : Indexed(x) => Indexed(x)'
  PROVE  Local(g)'
<1>1. PICK s \in Seq(Messages) : s = stream[g]
  BY Streaming
<1>2. PICK p \in Nat \ {0} : p = pos[g]
  BY Streaming
<1>3. /\ pc[g] \in {"idle", "fetch"} => s = <<>> /\ p = 1
      /\ pc[g] \in {"idle", "fetch", "read", "lock"} => at[g] = 1
      /\ answer[g] = "everything stored!" =>
           \A i \in DOMAIN s : i < p /\ s[i].call # "fbAttributes" => Stored(s[i]) /\ Indexed(s[i])
      /\ pc[g] = "index" => s[p].call # "fbAttributes" /\ Stored(s[p])
  BY <1>1, <1>2 DEF Local, Current
<1>4. \A i \in DOMAIN s : s[i] \in Messages
  BY <1>1
<1>5. pc[g] = "index" => p \in DOMAIN s
  BY <1>1, <1>2, Streaming
<1>6. Local(g)' <=>
        /\ pc'[g] \in {"idle", "fetch"} => s = <<>> /\ p = 1
        /\ pc'[g] \in {"idle", "fetch", "read", "lock"} => at'[g] = 1
        /\ answer'[g] = "everything stored!" =>
             \A i \in DOMAIN s : i < p /\ s[i].call # "fbAttributes" => Stored(s[i])' /\ Indexed(s[i])'
        /\ pc'[g] = "index" => s[p].call # "fbAttributes" /\ Stored(s[p])'
  <2>1. stream'[g] = s /\ pos'[g] = p /\ Current(g)' = s[p]
    BY <1>1, <1>2 DEF Current
  <2> QED BY <2>1 DEF Local
<1> QED BY <1>3, <1>4, <1>5, <1>6

LEMMA KeptFrame ==
  ASSUME TypeOK, KeptInv, acked' = acked, serving' => serving,
         \A x \in Messages : Stored(x) => Stored(x)',
         \A x \in Messages : Indexed(x) => Indexed(x)'
  PROVE  KeptInv'
<1>1. acked \subseteq Messages
  BY DEF TypeOK
<1> QED BY <1>1 DEF KeptInv

LEMMA IndexFrame ==
  ASSUME TypeOK, IndexInv, UNCHANGED indexVars,
         \A k \in Keys : \A g \in Fields \ {"class"} : file[k][g] # None => file'[k][g] # None
  PROVE  IndexInv'
<1>1. /\ index \in [Groups -> SUBSET [uuid : Uuids, seconds : Messages, nanos : Messages,
                                      frame_id : Messages]]
      /\ labelled \in [Groups -> SUBSET (Uuids \X Messages \X {"bb", "general"})]
      /\ index' = index /\ labelled' = labelled
  BY DEF TypeOK, indexVars
<1>2. ASSUME NEW g \in Groups, NEW e \in index[g], Group(e.frame_id) = g
      PROVE  file'[<<g, e.uuid>>]["rawdata"] # None /\ file'[<<g, e.uuid>>]["frame_id"] # None
  <2>1. <<g, e.uuid>> \in Keys
    BY <1>1, <1>2 DEF Keys
  <2> QED BY <1>2, <2>1, FieldsAre DEF IndexInv
<1>3. ASSUME NEW g \in Groups, NEW l \in labelled[g], Group(l[2]) = g
      PROVE  file'[<<g, l[1]>>][FirstField(l[3])] # None
  <2>1. <<g, l[1]>> \in Keys
    BY <1>1, <1>3 DEF Keys
  <2>2. FirstField(l[3]) \in Fields \ {"class"}
    BY FieldsAre DEF FirstField
  <2> QED BY <1>3, <2>1, <2>2 DEF IndexInv
<1> QED BY <1>1, <1>2, <1>3 DEF IndexInv, Group, FirstField

LEMMA WriteCurrent ==
  ASSUME TypeOK, Locks, Progress, DatasetInv, IndexCurrent, NEW h \in Handlers, Write(h),
         serving' = serving
  PROVE  IndexCurrent'
<1>1. PICK m : m = Current(h)
  OBVIOUS
<1>2. PICK i : i = at[h]
  OBVIOUS
<1>3. PICK f : f = Steps(m)[i]
  OBVIOUS
<1>4. PICK K \in Keys : K = KeyOf(m)
  BY <1>1, <1>2, <1>3, WriteContext
<1>5. /\ pc' = pc /\ pc[h] = "write" /\ Current(h)' = m /\ m \in Messages /\ serving
      /\ UNCHANGED <<index, failed, stream, pos>>
      /\ torn' = IF f = "seq" THEN torn \ {<<K, "data">>} ELSE torn
      /\ \A k \in Keys : \A g \in Fields : k # K \/ g # f => file'[k][g] = file[k][g]
      /\ f \in Fields
  <2>1. UNCHANGED <<index, failed, stream, pos>>
    BY DEF Write, indexVars
  <2>2. /\ pc' = pc /\ pc[h] = "write" /\ Current(h)' = m /\ m \in Messages /\ serving
        /\ torn' = IF f = "seq" THEN torn \ {<<K, "data">>} ELSE torn
        /\ \A k \in Keys : \A g \in Fields : k # K \/ g # f => file'[k][g] = file[k][g]
        /\ f \in Fields
    BY <1>1, <1>2, <1>3, <1>4, WriteContext
  <2> QED BY <2>1, <2>2
<1>6. SUFFICES ASSUME NEW k \in Keys, NEW x \in Messages,
                      \A g \in {"seconds", "nanos", "frame_id"} : file'[k][g] = x,
                      <<k, "data">> \notin torn'
               PROVE  \/ x \in failed'
                      \/ \E g \in Handlers : pc'[g] \in {"write", "index"} /\ Current(g)' = x
                      \/ \E g \in Groups : HeadOf(x) \in index'[g]
  BY DEF IndexCurrent, HeadOf
<1>7. CASE x = m
  BY <1>5, <1>7
<1>8. CASE x # m
  <2>1. <<k, "data">> \notin torn
    <3>1. CASE k = K /\ f = "seq"
      <4>1. KeyOf(m)' = K
        BY <1>4 DEF KeyOf, Group
      <4>2. DataFrom(K, m)'
        <5>1. DataInv(KeyOf(m))
          BY <1>4 DEF DatasetInv
        <5> QED BY <1>1, <1>2, <1>3, <1>4, <3>1, <4>1, <5>1, WriteData
      <4>3. "seconds" \in DataFields(K)'
        BY DataFieldsAre DEF DataFields, InSeq, Header, Layout
      <4>4. file'[K]["seconds"] = m
        BY <4>2, <4>3 DEF DataFrom
      <4> QED BY <1>6, <1>8, <3>1, <4>4
    <3>2. CASE k # K \/ f # "seq"
      BY <1>5, <1>6, <3>2
    <3> QED BY <3>1, <3>2
  <2>2. \A g \in {"seconds", "nanos", "frame_id"} : file[k][g] = x
    <3>1. {"seconds", "nanos", "frame_id"} \subseteq Fields
      BY FieldsAre
    <3>2. f \in {"seconds", "nanos", "frame_id"} => file'[K][f] = m
      BY <1>1, <1>2, <1>3, <1>4, WriteKeeps
    <3> QED BY <1>5, <1>6, <1>8, <3>1, <3>2
  <2>3. \/ x \in failed
        \/ \E g \in Handlers : pc[g] \in {"write", "index"} /\ Current(g) = x
        \/ \E g \in Groups : HeadOf(x) \in index[g]
    BY <1>5, <2>1, <2>2 DEF IndexCurrent
  <2>4. \A g \in Handlers : Current(g)' = Current(g)
    BY <1>5 DEF Current
  <2> QED BY <1>5, <2>3, <2>4
<1> QED BY <1>7, <1>8

LEMMA WriteBroken ==
  ASSUME TypeOK, Locks, Progress, DatasetInv, NEW h \in Handlers, Write(h), serving' = serving
  PROVE  Broken' \subseteq Broken
<1>1. PICK m : m = Current(h)
  OBVIOUS
<1>2. PICK i : i = at[h]
  OBVIOUS
<1>3. PICK f : f = Steps(m)[i]
  OBVIOUS
<1>4. PICK K \in Keys : K = KeyOf(m)
  BY <1>1, <1>2, <1>3, WriteContext
<1>5. /\ m \in Messages /\ m # None /\ serving /\ i \in DOMAIN Steps(m)
      /\ \A k \in Keys : \A g \in Fields : k # K \/ g # f => file'[k][g] = file[k][g]
      /\ \A k : NextField(k) = IF k = K THEN f ELSE "none"
      /\ \A k : NextField(k)' = IF k = K THEN FieldAt(m, i + 1) ELSE "none"
      /\ f \notin {"rawdata", "class"} => file'[K][f] = m
  BY <1>1, <1>2, <1>3, <1>4, WriteContext, WriteKeeps, MessageKey
<1>6. DatasetInv'
  BY WriteDataset
<1>7. SUFFICES ASSUME NEW k \in Keys, k \in Broken' PROVE k \in Broken
  BY DEF Broken, Keys
<1>8. \/ HalfBB(k)' /\ NextField(k)' \notin {"labelBBBoxes", "labelBBInstances"}
      \/ NextField(k)' = "none" /\ Fatal(k)'
  BY <1>7 DEF Broken
<1>9. HalfBB(k)' <=> file'[k]["labelBB"] # None /\ file'[k]["labelBBInstances"] = None
  BY DEF HalfBB
<1>10. CASE k # K
  <2>1. /\ \A g \in Fields : file'[k][g] = file[k][g]
        /\ NextField(k) = "none"
    BY <1>5, <1>10
  <2>2. /\ file'[k]["rawdata"] = file[k]["rawdata"] /\ file'[k]["labelBB"] = file[k]["labelBB"]
        /\ file'[k]["labelBBInstances"] = file[k]["labelBBInstances"]
        /\ file'[k]["labelGeneral"] = file[k]["labelGeneral"]
        /\ file'[k]["labelGeneralInstances"] = file[k]["labelGeneralInstances"]
        /\ file'[k]["frame_id"] = file[k]["frame_id"] /\ file'[k]["seconds"] = file[k]["seconds"]
        /\ file'[k]["nanos"] = file[k]["nanos"]
    BY <2>1, FieldsAre
  <2>3. HalfBB(k)' <=> HalfBB(k)
    BY <1>9, <2>2 DEF HalfBB
  <2>4. HasHead(k)' <=> HasHead(k)
    BY <2>2 DEF HasHead
  <2>5. Fatal(k)' => Fatal(k)
    BY <2>2, <2>3, <2>4, FatalIs
  <2> QED BY <1>8, <2>1, <2>3, <2>5 DEF Broken
<1>11. CASE k = K
  <2>1. HalfBB(k)'
    <3>1. CASE NextField(k)' = "none" /\ Fatal(k)'
      <4>1. ServingInv(k)' /\ serving'
        BY <1>5, <1>6 DEF DatasetInv
      <4>2. "none" \notin DataSteps
        BY DEF DataSteps
      <4>3. /\ file'[k]["rawdata"] # None => HasHead(k)'
            /\ file'[k]["labelGeneral"] # None => file'[k]["labelGeneralInstances"] # None
        BY <3>1, <4>1, <4>2 DEF ServingInv
      <4> QED BY <3>1, <4>3, FatalIs
    <3> QED BY <1>8, <3>1
  <2>2. FieldAt(m, i + 1) \notin {"labelBBBoxes", "labelBBInstances"}
    BY <1>5, <1>8, <1>11
  <2>3. f \notin {"labelBB", "labelBBBoxes"}
    BY <1>3, <1>5, <2>2, LabelSteps
  <2>4. f # "labelBBInstances"
    BY <1>5, <1>9, <1>11, <2>1
  <2>5. file'[k]["labelBB"] = file[k]["labelBB"]
        /\ file'[k]["labelBBInstances"] = file[k]["labelBBInstances"]
    BY <1>5, <2>3, <2>4, FieldsAre
  <2>6. HalfBB(k)
    BY <1>9, <2>1, <2>5 DEF HalfBB
  <2> QED BY <1>5, <1>11, <2>3, <2>4, <2>6 DEF Broken
<1> QED BY <1>10, <1>11

LEMMA BrokenStays ==
  ASSUME BrokenInv, Broken' \subseteq Broken, restarts' = restarts
  PROVE  BrokenInv'
<1>1. PICK S : S = Broken
  OBVIOUS
<1>2. PICK T : T = Broken'
  OBVIOUS
<1>3. IsFiniteSet(S) /\ T \subseteq S
  BY <1>1, <1>2 DEF BrokenInv
<1>4. /\ IsFiniteSet(T) /\ Cardinality(T) <= Cardinality(S)
      /\ Cardinality(T) \in Nat /\ Cardinality(S) \in Nat
  BY <1>3, FS_Subset, FS_CardinalityType
<1> QED BY <1>1, <1>2, <1>4 DEF BrokenInv

LEMMA WriteInv ==
  ASSUME IInv, NEW h \in Handlers, Write(h), UNCHANGED <<queryVars, serving, bounds>>
  PROVE  /\ Progress' /\ DatasetInv' /\ IndexInv' /\ KeptInv' /\ (\A g \in Handlers : Local(g)')
         /\ IndexCurrent' /\ BrokenInv'
<1>1. /\ TypeOK /\ Locks /\ Progress /\ DatasetInv /\ IndexInv /\ KeptInv
      /\ (\A g \in Handlers : Local(g)) /\ IndexCurrent /\ BrokenInv
      /\ serving' = serving /\ restarts' = restarts
  BY DEF IInv, bounds
<1>2. /\ pc[h] = "write" /\ UNCHANGED <<pc, stream, pos, answer, index, labelled, acked>>
      /\ at' = [at EXCEPT ![h] = @ + 1] /\ UNCHANGED indexVars
  BY DEF Write, indexVars
<1>3. Progress' /\ DatasetInv'
  BY <1>1, WriteProgress, WriteDataset
<1>4. /\ \A k \in Keys : \A g \in Fields \ {"class"} : file[k][g] # None => file'[k][g] # None
      /\ \A k \in Keys : \A g \in LabelFields : file[k][g] # None => file'[k][g] = file[k][g]
  BY <1>1, WriteKeeps
<1>5. IndexInv'
  BY <1>1, <1>2, <1>4, IndexFrame
<1>6. \A x \in Messages : Stored(x) => Stored(x)'
  BY <1>4, StoredStays, MessageKey
<1>7. \A x \in Messages : Indexed(x) => Indexed(x)'
  BY <1>2 DEF Indexed, LabelsOf
<1>8. KeptInv'
  BY <1>1, <1>2, <1>6, <1>7, KeptFrame
<1>9. ASSUME NEW g \in Handlers
      PROVE  Local(g)'
  <2>1. pc[g] # "write" => at'[g] = at[g]
    BY <1>1, <1>2 DEF TypeOK
  <2> QED BY <1>1, <1>2, <1>6, <1>7, <2>1, LocalFrame
<1>10. IndexCurrent'
  BY <1>1, WriteCurrent
<1>11. BrokenInv'
  BY <1>1, WriteBroken, BrokenStays
<1> QED BY <1>3, <1>5, <1>8, <1>9, <1>10, <1>11

-----------------------------------------------------------------------------
(* Steps that leave the file as it is.                                     *)

LEMMA NotWriter ==
  ASSUME TypeOK, Locks, NEW h \in Handlers, pc[h] # "write", mutex' = mutex,
         \A g \in Handlers \ {h} :
           stream'[g] = stream[g] /\ pos'[g] = pos[g] /\ at'[g] = at[g]
  PROVE  mutex # None => /\ mutex \in Handlers \ {h}
                         /\ UNCHANGED <<Current(mutex), at[mutex]>>
<1> SUFFICES ASSUME mutex # None
             PROVE  mutex \in Handlers \ {h} /\ UNCHANGED <<Current(mutex), at[mutex]>>
  OBVIOUS
<1>1. mutex \in Handlers \ {h}
  BY DEF TypeOK, Locks
<1>2. PICK g \in Handlers \ {h} : g = mutex
  BY <1>1
<1>3. stream'[g] = stream[g] /\ pos'[g] = pos[g] /\ at'[g] = at[g] /\ mutex' = g
  BY <1>2
<1>4. Current(mutex)' = Current(g) /\ at'[mutex'] = at[g]
  BY <1>3 DEF Current
<1> QED BY <1>1, <1>2, <1>4

LEMMA BrokenFrame ==
  ASSUME file' = file, NEW k \in Keys, k \in Broken', NextField(k) = NextField(k)'
  PROVE  k \in Broken
<1>1. HalfBB(k)' <=> HalfBB(k)
  BY DEF HalfBB
<1>2. HasHead(k)' <=> HasHead(k)
  BY DEF HasHead
<1>3. Fatal(k)' => Fatal(k)
  BY <1>1, <1>2, FatalIs
<1> QED BY <1>1, <1>3 DEF Broken

LEMMA QuietData ==
  ASSUME TypeOK, Locks, Progress, DatasetInv, BrokenInv,
         UNCHANGED <<file, mutex, serving, torn, restarts>>,
         mutex # None => UNCHANGED <<Current(mutex), at[mutex]>>
  PROVE  Progress' /\ DatasetInv' /\ BrokenInv'
<1>1. \A k : NextField(k)' = NextField(k)
  BY NextFieldFrame
<1>2. Progress'
  <2>1. CASE mutex = None
    BY <2>1 DEF Progress
  <2>2. CASE mutex # None
    <3>1. PICK m \in Messages : m = Current(mutex)
      BY <2>2, WriterFacts
    <3>2. PICK i \in Nat \ {0} : i = at[mutex]
      BY <2>2, WriterFacts
    <3>3. PICK s : s = Steps(Current(mutex))
      OBVIOUS
    <3>4. Current(mutex)' = m /\ at'[mutex'] = i /\ Steps(Current(mutex))' = s
      BY <2>2, <3>1, <3>2, <3>3, NextFieldFrame
    <3>5. \A j \in DOMAIN s : j < i => WrittenField(m, s[j])
      BY <2>2, <3>1, <3>2, <3>3 DEF Progress
    <3>6. ASSUME NEW g, WrittenField(m, g)
          PROVE  WrittenField(m, g)'
      BY <3>6 DEF WrittenField, Written, KeyOf, Group
    <3>7. \A j \in DOMAIN s : j < i => WrittenField(m, s[j])'
      BY <3>5, <3>6
    <3> QED BY <3>4, <3>7 DEF Progress
  <2> QED BY <2>1, <2>2
<1>3. DatasetInv'
  <2>1. ASSUME NEW k \in Keys
        PROVE  (FromKey(k) /\ LabelOrder(k) /\ AtLabels(k) /\ DataInv(k) /\ LabelsInv(k) /\ ServingInv(k))'
    <3>1. NextField(k) \in DataSteps => Current(mutex)' = Current(mutex)
      <4>1. "none" \notin DataSteps
        BY DEF DataSteps
      <4> QED BY <4>1, NothingNext
    <3> QED BY <1>1, <3>1, DatasetFrame
  <2> QED BY <2>1 DEF DatasetInv
<1>4. Broken' \subseteq Broken
  <2>1. SUFFICES ASSUME NEW k \in Keys, k \in Broken' PROVE k \in Broken
    BY DEF Broken, Keys
  <2>2. NextField(k) = NextField(k)'
    BY <1>1
  <2> QED BY <2>1, <2>2, BrokenFrame
<1>5. BrokenInv'
  BY <1>4, BrokenStays
<1> QED BY <1>2, <1>3, <1>5

\* With the file as it is and nothing taken from the index, what is known stays known.
LEMMA QuietKnown ==
  ASSUME file' = file,
         \A g \in Groups : index[g] \subseteq index'[g] /\ labelled[g] \subseteq labelled'[g]
  PROVE  /\ \A x \in Messages : Stored(x) => Stored(x)'
         /\ \A x \in Messages : Indexed(x) => Indexed(x)'
<1>1. ASSUME NEW x \in Messages, Stored(x)
      PROVE  Stored(x)'
  BY <1>1, StoredStays
<1>2. ASSUME NEW x \in Messages, Indexed(x)
      PROVE  Indexed(x)'
  <2>1. "images" \in Groups /\ "points" \in Groups
    BY DEF Groups
  <2>2. LabelsOf(x)' = LabelsOf(x)
    BY DEF LabelsOf
  <2> QED BY <1>2, <2>1, <2>2 DEF Indexed
<1> QED BY <1>1, <1>2

\* The header in the file is known of in one of the three ways after a step in which
\* every upload that has written one stays under way, fails or gets into the index.
LEMMA CurrentFrame ==
  ASSUME DatasetInv, IndexCurrent, file' = file, serving' = serving,
         torn \subseteq torn', failed \subseteq failed',
         \A g \in Groups : index[g] \subseteq index'[g],
         \A g \in Handlers : pc[g] \in {"write", "index"} =>
           \/ pc'[g] \in {"write", "index"} /\ Current(g)' = Current(g)
           \/ Current(g) \in failed'
           \/ Current(g).call \notin Uploads
           \/ \E d \in Groups : HeadOf(Current(g)) \in index'[d]
  PROVE  IndexCurrent'
<1> SUFFICES ASSUME serving, NEW k \in Keys, NEW x \in Messages,
                    \A f \in {"seconds", "nanos", "frame_id"} : file[k][f] = x,
                    <<k, "data">> \notin torn'
             PROVE  \/ x \in failed'
                    \/ \E g \in Handlers : pc'[g] \in {"write", "index"} /\ Current(g)' = x
                    \/ \E g \in Groups : HeadOf(x) \in index'[g]
  BY DEF IndexCurrent, HeadOf
<1>1. \/ x \in failed
      \/ \E g \in Handlers : pc[g] \in {"write", "index"} /\ Current(g) = x
      \/ \E g \in Groups : HeadOf(x) \in index[g]
  BY DEF IndexCurrent
<1>2. x.call \in Uploads
  <2>1. FromKey(k) /\ x # None
    BY MessageKey DEF DatasetInv
  <2>2. "seconds" \in Fields /\ "seconds" \in DataSteps
    BY FieldsAre DEF DataSteps
  <2> QED BY <2>1, <2>2 DEF FromKey
<1>3. CASE \E g \in Handlers : pc[g] \in {"write", "index"} /\ Current(g) = x
  <2>1. PICK g \in Handlers : pc[g] \in {"write", "index"} /\ Current(g) = x
    BY <1>3
  <2>2. \/ pc'[g] \in {"write", "index"} /\ Current(g)' = x
        \/ x \in failed'
        \/ \E d \in Groups : HeadOf(x) \in index'[d]
    BY <1>2, <2>1
  <2> QED BY <2>2
<1> QED BY <1>1, <1>3

\* The steps of a handler that does not hold the mutex and adds nothing to the index.
LEMMA QuietStep ==
  ASSUME IInv, NEW h \in Handlers, pc[h] \notin {"write", "index"},
         UNCHANGED <<file, mutex, serving, torn, failed, index, labelled, restarts>>,
         acked' = acked \/ KeptInv',
         \A g \in Handlers \ {h} :
           /\ stream'[g] = stream[g] /\ pos'[g] = pos[g] /\ at'[g] = at[g]
           /\ answer'[g] = answer[g] /\ pc'[g] = pc[g],
         Local(h)'
  PROVE  /\ Progress' /\ DatasetInv' /\ IndexInv' /\ KeptInv' /\ (\A g \in Handlers : Local(g)')
         /\ IndexCurrent' /\ BrokenInv'
<1>1. /\ TypeOK /\ Locks /\ Progress /\ DatasetInv /\ IndexInv /\ KeptInv
      /\ (\A g \in Handlers : Local(g)) /\ IndexCurrent /\ BrokenInv
  BY DEF IInv
<1>2. Progress' /\ DatasetInv' /\ BrokenInv'
  <2>1. mutex # None => UNCHANGED <<Current(mutex), at[mutex]>>
    BY <1>1, NotWriter
  <2> QED BY <1>1, <2>1, QuietData
<1>3. /\ \A x \in Messages : Stored(x) => Stored(x)'
      /\ \A x \in Messages : Indexed(x) => Indexed(x)'
  BY QuietKnown
<1>4. IndexInv' /\ KeptInv'
  <2>1. UNCHANGED indexVars
    BY DEF indexVars
  <2>2. IndexInv'
    BY <1>1, <2>1, IndexFrame
  <2>3. acked' = acked => KeptInv'
    BY <1>1, <1>3, KeptFrame
  <2> QED BY <2>2, <2>3
<1>5. \A g \in Handlers : Local(g)'
  BY <1>1, <1>3, LocalFrame
<1>6. IndexCurrent'
  <2>1. ASSUME NEW g \in Handlers, pc[g] \in {"write", "index"}
        PROVE  pc'[g] \in {"write", "index"} /\ Current(g)' = Current(g)
    BY <2>1 DEF Current
  <2> QED BY <1>1, <2>1, CurrentFrame
<1> QED BY <1>2, <1>4, <1>5, <1>6

\* A handler that goes on with what it has, that leaves its call, that takes the next
\* message, and that skips one.
LEMMA LocalSame ==
  ASSUME TypeOK, NEW g \in Handlers, Local(g), stream'[g] = stream[g], pos'[g] = pos[g],
         answer'[g] = answer[g], at'[g] = at[g], pc'[g] # "index",
         pc'[g] \in {"idle", "fetch"} => pc[g] \in {"idle", "fetch"},
         pc'[g] \in {"read", "lock"} => at[g] = 1,
         \A x \in Messages : Stored(x) => Stored(x)',
         \A x \in Messages : Indexed(x) => Indexed(x)'
  PROVE  Local(g)'
<1>1. PICK s \in Seq(Messages) : s = stream[g]
  BY Streaming
<1>2. PICK p \in Nat \ {0} : p = pos[g]
  BY Streaming
<1>3. /\ pc[g] \in {"idle", "fetch"} => s = <<>> /\ p = 1 /\ at[g] = 1
      /\ answer[g] = "everything stored!" =>
           \A i \in DOMAIN s : i < p /\ s[i].call # "fbAttributes" => Stored(s[i]) /\ Indexed(s[i])
  BY <1>1, <1>2 DEF Local
<1>4. \A i \in DOMAIN s : s[i] \in Messages
  BY <1>1
<1>5. Local(g)' <=>
        /\ pc'[g] \in {"idle", "fetch"} => s = <<>> /\ p = 1
        /\ pc'[g] \in {"idle", "fetch", "read", "lock"} => at'[g] = 1
        /\ answer'[g] = "everything stored!" =>
             \A i \in DOMAIN s : i < p /\ s[i].call # "fbAttributes" => Stored(s[i])' /\ Indexed(s[i])'
        /\ pc'[g] = "index" => s[p].call # "fbAttributes" /\ Stored(s[p])'
  <2>1. stream'[g] = s /\ pos'[g] = p /\ Current(g)' = s[p]
    BY <1>1, <1>2 DEF Current
  <2> QED BY <2>1 DEF Local
<1> QED BY <1>3, <1>4, <1>5

LEMMA LocalLeft ==
  ASSUME TypeOK, NEW g \in Handlers, Leave(g)
  PROVE  /\ Local(g)'
         /\ \A e \in Handlers \ {g} :
              /\ stream'[e] = stream[e] /\ pos'[e] = pos[e] /\ at'[e] = at[e]
              /\ answer'[e] = answer[e] /\ pc'[e] = pc[e]
<1>1. /\ pc' = [pc EXCEPT ![g] = "idle"] /\ stream' = [stream EXCEPT ![g] = <<>>]
      /\ pos' = [pos EXCEPT ![g] = 1] /\ at' = [at EXCEPT ![g] = 1]
      /\ answer' = [answer EXCEPT ![g] = "everything stored!"]
  BY DEF Leave, Goto
<1>2. pc'[g] = "idle" /\ stream'[g] = <<>> /\ pos'[g] = 1 /\ at'[g] = 1
  BY <1>1 DEF TypeOK
<1>3. DOMAIN <<>> = {}
  OBVIOUS
<1>4. Local(g)'
  BY <1>2, <1>3 DEF Local
<1>5. \A e \in Handlers \ {g} :
        /\ stream'[e] = stream[e] /\ pos'[e] = pos[e] /\ at'[e] = at[e]
        /\ answer'[e] = answer[e] /\ pc'[e] = pc[e]
  BY <1>1 DEF TypeOK
<1> QED BY <1>4, <1>5

LEMMA LocalNext ==
  ASSUME TypeOK, NEW g \in Handlers, Local(g), NextInStream(g), pos[g] \in DOMAIN stream[g],
         \A x \in Messages : Stored(x) => Stored(x)',
         \A x \in Messages : Indexed(x) => Indexed(x)',
         \A x \in Messages : x = Current(g) /\ x.call # "fbAttributes" => Stored(x)' /\ Indexed(x)'
  PROVE  /\ Local(g)'
         /\ \A e \in Handlers \ {g} :
              /\ stream'[e] = stream[e] /\ pos'[e] = pos[e] /\ at'[e] = at[e]
              /\ answer'[e] = answer[e] /\ pc'[e] = pc[e]
<1>1. /\ pc' = [pc EXCEPT ![g] = "read"] /\ stream' = stream /\ answer' = answer
      /\ pos' = [pos EXCEPT ![g] = @ + 1] /\ at' = [at EXCEPT ![g] = 1]
  BY DEF NextInStream, Goto
<1>2. PICK s \in Seq(Messages) : s = stream[g]
  BY Streaming
<1>3. PICK p \in Nat \ {0} : p = pos[g]
  BY Streaming
<1>4. pc'[g] = "read" /\ stream'[g] = s /\ pos'[g] = p + 1 /\ at'[g] = 1 /\ answer'[g] = answer[g]
  BY <1>1, <1>2, <1>3 DEF TypeOK
<1>5. answer[g] = "everything stored!" =>
        \A i \in DOMAIN s : i < p /\ s[i].call # "fbAttributes" => Stored(s[i]) /\ Indexed(s[i])
  BY <1>2, <1>3 DEF Local
<1>6. ASSUME answer[g] = "everything stored!", NEW i \in DOMAIN s, i < p + 1,
             s[i].call # "fbAttributes"
      PROVE  Stored(s[i])' /\ Indexed(s[i])'
  <2>1. s[i] \in Messages /\ i \in Nat
    BY <1>2
  <2>2. CASE i < p
    BY <1>5, <1>6, <2>1, <2>2
  <2>3. CASE i = p
    <3>1. s[i] = Current(g)
      BY <1>2, <1>3, <2>3 DEF Current
    <3> QED BY <1>6, <2>1, <3>1
  <2>4. i < p \/ i = p
    <3>1. p \in Nat /\ i \in Nat
      BY <1>3, <2>1
    <3>2. i < p + 1
      BY <1>6
    <3> QED BY <3>1, <3>2
  <2> QED BY <2>2, <2>3, <2>4
<1>7. Local(g)'
  BY <1>4, <1>6 DEF Local
<1>8. \A e \in Handlers \ {g} :
        /\ stream'[e] = stream[e] /\ pos'[e] = pos[e] /\ at'[e] = at[e]
        /\ answer'[e] = answer[e] /\ pc'[e] = pc[e]
  BY <1>1 DEF TypeOK
<1> QED BY <1>7, <1>8

LEMMA ReceiveInv ==
  ASSUME IInv, NEW h \in Handlers, NEW s \in Streams, Receive(h, s)
  PROVE  /\ Progress' /\ DatasetInv' /\ IndexInv' /\ KeptInv' /\ (\A g \in Handlers : Local(g)')
         /\ IndexCurrent' /\ BrokenInv'
<1>1. /\ pc[h] = "idle" /\ pc' = [pc EXCEPT ![h] = "read"] /\ stream' = [stream EXCEPT ![h] = s]
      /\ UNCHANGED <<pos, at, answer>>
      /\ UNCHANGED <<file, mutex, serving, torn, failed, index, labelled, acked, restarts>>
  BY DEF Receive, Goto, indexVars, history
<1>2. TypeOK /\ Local(h)
  BY DEF IInv
<1>3. pos[h] = 1 /\ at[h] = 1
  BY <1>1, <1>2 DEF Local
<1>4. Local(h)'
  <2>1. pc'[h] = "read" /\ stream'[h] = s /\ pos'[h] = 1 /\ at'[h] = 1
    BY <1>1, <1>2, <1>3 DEF TypeOK
  <2>2. \A i \in DOMAIN s : ~(i < 1)
    <3>1. s \in Seq(Messages)
      BY ConstantsAssumption
    <3> QED BY <3>1
  <2> QED BY <2>1, <2>2 DEF Local
<1>5. \A g \in Handlers \ {h} :
        /\ stream'[g] = stream[g] /\ pos'[g] = pos[g] /\ at'[g] = at[g]
        /\ answer'[g] = answer[g] /\ pc'[g] = pc[g]
  BY <1>1, <1>2 DEF TypeOK
<1> QED BY <1>1, <1>4, <1>5, QuietStep

LEMMA QueryInv ==
  ASSUME IInv, NEW h \in Handlers, QueryStep(h) \/ \E q \in Sent : GetData(h, q)
  PROVE  /\ Progress' /\ DatasetInv' /\ IndexInv' /\ KeptInv' /\ (\A g \in Handlers : Local(g)')
         /\ IndexCurrent' /\ BrokenInv'
<1>1. /\ pc[h] \in {"idle", "fetch"}
      /\ pc' = pc \/ pc' = [pc EXCEPT ![h] = "idle"] \/ pc' = [pc EXCEPT ![h] = "fetch"]
  BY DEF QueryStep, ReadDataset, EndQuery, FailQuery, GetData, Goto
<1>2. /\ UNCHANGED <<stream, pos, at, answer>>
      /\ UNCHANGED <<file, mutex, serving, torn, failed, index, labelled, acked, restarts>>
  BY DEF QueryStep, GetData, indexVars, history, bounds
<1>3. TypeOK /\ Local(h)
  BY DEF IInv
<1>4. pc'[h] \in {"idle", "fetch"} /\ \A g \in Handlers \ {h} : pc'[g] = pc[g]
  BY <1>1, <1>3 DEF TypeOK
<1>5. /\ \A x \in Messages : Stored(x) => Stored(x)'
      /\ \A x \in Messages : Indexed(x) => Indexed(x)'
  BY <1>2, QuietKnown
<1>6. Local(h)'
  BY <1>1, <1>2, <1>3, <1>4, <1>5, LocalSame
<1> QED BY <1>1, <1>2, <1>4, <1>6, QuietStep

LEMMA NextMessageInv ==
  ASSUME IInv, NEW h \in Handlers, NextMessage(h), UNCHANGED <<queryVars, serving, bounds>>
  PROVE  /\ Progress' /\ DatasetInv' /\ IndexInv' /\ KeptInv' /\ (\A g \in Handlers : Local(g)')
         /\ IndexCurrent' /\ BrokenInv'
<1>1. /\ pc[h] = "read"
      /\ UNCHANGED <<file, mutex, serving, torn, failed, index, labelled, acked, restarts>>
  BY DEF NextMessage, indexVars, history, bounds
<1>2. TypeOK /\ Local(h) /\ at[h] = 1
  BY <1>1 DEF IInv, Local
<1>3. /\ \A x \in Messages : Stored(x) => Stored(x)'
      /\ \A x \in Messages : Indexed(x) => Indexed(x)'
  BY <1>1, QuietKnown
<1>4. CASE Goto(h, "lock") /\ UNCHANGED <<stream, pos, at, answer>>
  <2>1. pc'[h] = "lock" /\ \A g \in Handlers \ {h} : pc'[g] = pc[g]
    BY <1>2, <1>4 DEF Goto, TypeOK
  <2>2. Local(h)'
    BY <1>2, <1>3, <1>4, <2>1, LocalSame
  <2> QED BY <1>1, <1>4, <2>1, <2>2, QuietStep
<1>5. CASE /\ answer' = [answer EXCEPT ![h] = "a msg had no project uuid!"]
           /\ pos' = [pos EXCEPT ![h] = @ + 1]
           /\ UNCHANGED <<pc, stream, at>>
  <2>1. answer'[h] = "a msg had no project uuid!" /\ pc'[h] = "read" /\ at'[h] = 1
    BY <1>1, <1>2, <1>5 DEF TypeOK
  <2>2. Local(h)'
    BY <2>1 DEF Local
  <2>3. \A g \in Handlers \ {h} :
          /\ stream'[g] = stream[g] /\ pos'[g] = pos[g] /\ at'[g] = at[g]
          /\ answer'[g] = answer[g] /\ pc'[g] = pc[g]
    BY <1>2, <1>5 DEF TypeOK
  <2> QED BY <1>1, <2>2, <2>3, QuietStep
<1>6. CASE Leave(h)
  <2>1. /\ Local(h)'
        /\ \A e \in Handlers \ {h} :
             /\ stream'[e] = stream[e] /\ pos'[e] = pos[e] /\ at'[e] = at[e]
             /\ answer'[e] = answer[e] /\ pc'[e] = pc[e]
    BY <1>2, <1>6, LocalLeft
  <2> QED BY <1>1, <2>1, QuietStep
<1> QED BY <1>4, <1>5, <1>6 DEF NextMessage

LEMMA EndStreamInv ==
  ASSUME IInv, NEW h \in Handlers, EndStream(h), UNCHANGED <<queryVars, serving, bounds>>
  PROVE  /\ Progress' /\ DatasetInv' /\ IndexInv' /\ KeptInv' /\ (\A g \in Handlers : Local(g)')
         /\ IndexCurrent' /\ BrokenInv'
<1>1. /\ pc[h] = "read" /\ pos[h] > Len(stream[h]) /\ Leave(h)
      /\ acked' = IF answer[h] = "everything stored!" THEN acked \cup InSeq(stream[h]) ELSE acked
      /\ UNCHANGED <<file, mutex, serving, torn, failed, index, labelled, restarts>>
  BY DEF EndStream, indexVars, bounds
<1>2. TypeOK /\ Local(h) /\ KeptInv
  BY DEF IInv
<1>3. serving
  BY <1>1 DEF IInv, Locks
<1>4. /\ Local(h)'
      /\ \A e \in Handlers \ {h} :
           /\ stream'[e] = stream[e] /\ pos'[e] = pos[e] /\ at'[e] = at[e]
           /\ answer'[e] = answer[e] /\ pc'[e] = pc[e]
  BY <1>1, <1>2, LocalLeft
<1>5. /\ \A x \in Messages : Stored(x) => Stored(x)'
      /\ \A x \in Messages : Indexed(x) => Indexed(x)'
  BY <1>1, QuietKnown
<1>6. KeptInv'
  <2>1. ASSUME NEW x \in acked, x.call # "fbAttributes"
        PROVE  Stored(x)' /\ (serving' => Indexed(x)')
    <3>1. x \in Messages
      BY <1>2 DEF TypeOK
    <3>2. Stored(x) /\ Indexed(x)
      BY <1>2, <1>3, <2>1 DEF KeptInv
    <3> QED BY <1>5, <3>1, <3>2
  <2>2. ASSUME answer[h] = "everything stored!", NEW x \in InSeq(stream[h]), x.call # "fbAttributes"
        PROVE  Stored(x)' /\ (serving' => Indexed(x)')
    <3>1. stream[h] \in Seq(Messages) /\ pos[h] \in Nat
      BY <1>2, Streaming
    <3>2. PICK i \in DOMAIN stream[h] : x = stream[h][i]
      BY <2>2 DEF InSeq
    <3>3. i < pos[h] /\ x \in Messages
      <4>1. PICK s \in Seq(Messages) : s = stream[h]
        BY <3>1
      <4>2. PICK p \in Nat : p = pos[h]
        BY <3>1
      <4>3. i \in 1..Len(s) /\ p > Len(s) /\ x = s[i]
        <5>1. pos[h] > Len(stream[h])
          BY <1>1
        <5> QED BY <3>2, <4>1, <4>2, <5>1
      <4> QED BY <4>1, <4>2, <4>3
    <3>4. Stored(x) /\ Indexed(x)
      BY <1>2, <2>2, <3>2, <3>3 DEF Local
    <3> QED BY <1>5, <3>3, <3>4
  <2> QED BY <1>1, <2>1, <2>2 DEF KeptInv
<1> QED BY <1>1, <1>4, <1>6, QuietStep

-----------------------------------------------------------------------------
(* The mutex taken and released.                                           *)

Continuing == {"labelBBBoxes", "labelBBInstances", "labelGeneralInstances"}

\* A dataset whose writer comes or goes: the parts it leaves half done are torn.
LEMMA DatasetHandOver ==
  ASSUME NEW k \in Keys, DatasetInv, file' = file,
         \A p : <<k, p>> \in torn => <<k, p>> \in torn',
         NextField(k)' \notin Continuing,
         NextField(k) \in DataSteps => <<k, "data">> \in torn',
         NextField(k) \in Continuing => <<k, "labels">> \in torn',
         serving' => /\ file[k]["rawdata"] # None => HasHead(k)
                     /\ file[k]["labelGeneral"] # None => file[k]["labelGeneralInstances"] # None
  PROVE  (FromKey(k) /\ LabelOrder(k) /\ AtLabels(k) /\ DataInv(k) /\ LabelsInv(k) /\ ServingInv(k))'
<1>1. FromKey(k) /\ LabelOrder(k) /\ DataInv(k) /\ LabelsInv(k)
  BY DEF DatasetInv
<1>2. FromKey(k)'
  BY <1>1 DEF FromKey, KeyOf, Group
<1>3. LabelOrder(k)'
  BY <1>1 DEF LabelOrder
<1>4. AtLabels(k)'
  BY DEF AtLabels, Continuing
<1>5. DataInv(k)'
  <2>1. ASSUME NEW x, DataFrom(k, x)
        PROVE  DataFrom(k, x)'
    BY <2>1 DEF DataFrom, DataFields, InSeq, Header, Layout
  <2> QED BY <1>1, <2>1 DEF DataInv
<1>6. LabelsInv(k)'
  BY <1>1 DEF LabelsInv, WholeBB, WholeGeneral, Continuing
<1>7. ServingInv(k)'
  <2>1. HasHead(k)' <=> HasHead(k)
    BY DEF HasHead
  <2> QED BY <2>1 DEF ServingInv
<1> QED BY <1>2, <1>3, <1>4, <1>5, <1>6, <1>7

\* While the server serves, a dataset nobody writes to has its header and whole labels.
LEMMA AtRest ==
  ASSUME DatasetInv, serving, NEW k \in Keys,
         NextField(k) \notin DataSteps, NextField(k) # "labelGeneralInstances"
  PROVE  /\ file[k]["rawdata"] # None => HasHead(k)
         /\ file[k]["labelGeneral"] # None => file[k]["labelGeneralInstances"] # None
         /\ Fatal(k) => HalfBB(k)
<1>1. ServingInv(k)
  BY DEF DatasetInv
<1>2. /\ file[k]["rawdata"] # None => HasHead(k)
      /\ file[k]["labelGeneral"] # None => file[k]["labelGeneralInstances"] # None
  BY <1>1 DEF ServingInv
<1> QED BY <1>2, FatalIs

LEMMA NoneIsNoField ==
  "none" \notin DataSteps /\ "none" \notin Continuing /\ "none" # "labelGeneralInstances"
BY DEF DataSteps, Continuing

LEMMA LockInv ==
  ASSUME IInv, NEW h \in Handlers, Lock(h), UNCHANGED <<queryVars, serving, bounds>>
  PROVE  /\ Progress' /\ DatasetInv' /\ IndexInv' /\ KeptInv' /\ (\A g \in Handlers : Local(g)')
         /\ IndexCurrent' /\ BrokenInv'
<1>1. /\ pc[h] = "lock" /\ mutex = None /\ mutex' = h /\ pc' = [pc EXCEPT ![h] = "write"]
      /\ UNCHANGED <<stream, pos, at, answer>>
      /\ UNCHANGED <<file, serving, torn, failed, index, labelled, acked, restarts>>
  BY DEF Lock, Goto, indexVars, history, bounds
<1>2. /\ TypeOK /\ Locks /\ DatasetInv /\ IndexInv /\ KeptInv
      /\ (\A g \in Handlers : Local(g)) /\ IndexCurrent /\ BrokenInv
  BY DEF IInv
<1>3. serving
  BY <1>1, <1>2 DEF Locks
<1>4. PICK m \in Messages : m = Current(h)
  BY <1>1, <1>2, Streaming
<1>5. at[h] = 1 /\ Current(h)' = m
  BY <1>1, <1>2, <1>4 DEF Local, Current
<1>6. Steps(m)' = Steps(m) /\ FieldAt(m, 1)' = FieldAt(m, 1)
  BY <1>1, StepsFrame
<1>7. Progress'
  <2>1. PICK s : s = Steps(m)
    OBVIOUS
  <2>2. mutex' = h /\ at'[h] = 1 /\ Steps(m)' = s /\ Current(h)' = m
    BY <1>1, <1>5, <1>6, <2>1
  <2>3. Steps(Current(mutex))' = s /\ at'[mutex'] = 1
    BY <2>2
  <2>4. s \in Seq(Fields)
    BY <1>4, <2>1, Places
  <2>5. \A j \in DOMAIN s : ~(j < 1)
    BY <2>4
  <2> QED BY <2>3, <2>5 DEF Progress
<1>8. ASSUME NEW k \in Keys
      PROVE  /\ NextField(k) = "none"
             /\ NextField(k)' \in {"none", "rawdata", "labelBB", "attributes"}
  <2>1. mutex' = h /\ at'[h] = 1 /\ Current(h)' = m /\ FieldAt(m, 1)' = FieldAt(m, 1)
    BY <1>1, <1>5, <1>6
  <2>2. FieldAt(Current(h), at[h])' = FieldAt(m, 1)
    BY <2>1
  <2>3. NextField(k)' \in {"none", FieldAt(m, 1)}
    BY <2>1, <2>2 DEF NextField
  <2> QED BY <1>1, <2>3, FirstStep, NothingNext
<1>9. DatasetInv'
  <2>1. ASSUME NEW k \in Keys
        PROVE  (FromKey(k) /\ LabelOrder(k) /\ AtLabels(k) /\ DataInv(k) /\ LabelsInv(k) /\ ServingInv(k))'
    <3>1. NextField(k)' \notin Continuing
      BY <1>8 DEF Continuing
    <3>2. NextField(k) = "none"
      BY <1>8
    <3>3. /\ file[k]["rawdata"] # None => HasHead(k)
          /\ file[k]["labelGeneral"] # None => file[k]["labelGeneralInstances"] # None
      BY <1>2, <1>3, <3>2, AtRest, NoneIsNoField
    <3> QED BY <1>1, <1>2, <3>1, <3>2, <3>3, NoneIsNoField, DatasetHandOver
  <2> QED BY <2>1 DEF DatasetInv
<1>10. BrokenInv'
  <2>1. SUFFICES ASSUME NEW k \in Keys, k \in Broken' PROVE k \in Broken
    <3>1. SUFFICES Broken' \subseteq Broken
      BY <1>1, <1>2, BrokenStays
    <3> QED BY DEF Broken, Keys
  <2>2. HalfBB(k)' <=> HalfBB(k)
    BY <1>1 DEF HalfBB
  <2>3. HasHead(k)' <=> HasHead(k)
    BY <1>1 DEF HasHead
  <2>4. Fatal(k)' => Fatal(k)
    BY <1>1, <2>2, <2>3, FatalIs
  <2>5. NextField(k) = "none"
    BY <1>8
  <2> QED BY <2>1, <2>2, <2>4, <2>5 DEF Broken
<1>11. /\ \A x \in Messages : Stored(x) => Stored(x)'
       /\ \A x \in Messages : Indexed(x) => Indexed(x)'
  BY <1>1, QuietKnown
<1>12. IndexInv'
  BY <1>1, <1>2, IndexFrame DEF indexVars
<1>13. KeptInv'
  <2>1. serving' => serving
    BY <1>3
  <2> QED BY <1>1, <1>2, <1>11, <2>1, KeptFrame
<1>14. ASSUME NEW g \in Handlers
       PROVE  Local(g)'
  <2>1. CASE g = h
    <3>1. pc'[h] = "write"
      BY <1>1, <1>2 DEF TypeOK
    <3> QED BY <1>1, <1>2, <1>11, <2>1, <3>1, LocalSame
  <2>2. CASE g # h
    <3>1. pc'[g] = pc[g]
      BY <1>1, <1>2, <2>2 DEF TypeOK
    <3> QED BY <1>1, <1>2, <1>11, <3>1, LocalFrame
  <2> QED BY <2>1, <2>2
<1>15. IndexCurrent'
  <2>1. ASSUME NEW g \in Handlers, pc[g] \in {"write", "index"}
        PROVE  pc'[g] \in {"write", "index"} /\ Current(g)' = Current(g)
    BY <1>1, <1>2, <2>1 DEF TypeOK, Current
  <2> QED BY <1>1, <1>2, <2>1, CurrentFrame
<1> QED BY <1>7, <1>9, <1>10, <1>12, <1>13, <1>14, <1>15

\* What is true when the writer releases the mutex, with the file as it is.
LEMMA ReleaseData ==
  ASSUME IInv, NEW h \in Handlers, pc[h] = "write", NEW m, m = Current(h),
         mutex' = None, file' = file, serving' = serving, torn \subseteq torn', restarts' = restarts,
         FieldAt(m, at[h]) \notin Continuing,
         FieldAt(m, at[h]) \in DataSteps =>
           /\ <<KeyOf(m), "data">> \in torn'
           /\ file[KeyOf(m)]["rawdata"] # None => HasHead(KeyOf(m))
  PROVE  Progress' /\ DatasetInv' /\ BrokenInv'
<1>1. TypeOK /\ Locks /\ DatasetInv /\ BrokenInv
  BY DEF IInv
<1>2. mutex = h /\ h # None /\ serving
  BY <1>1, ConstantsAssumption DEF Locks
<1>3. \A k : NextField(k) = IF k = KeyOf(m) THEN FieldAt(m, at[h]) ELSE "none"
  BY <1>2 DEF NextField
<1>4. \A k : NextField(k)' = "none"
  BY NothingNext
<1>5. ASSUME NEW k \in Keys
      PROVE  /\ NextField(k) \notin Continuing /\ NextField(k)' = "none"
             /\ NextField(k) \in DataSteps => <<k, "data">> \in torn'
             /\ file[k]["rawdata"] # None => HasHead(k)
             /\ file[k]["labelGeneral"] # None => file[k]["labelGeneralInstances"] # None
             /\ Fatal(k) => HalfBB(k)
  <2>1. ServingInv(k)
    BY <1>1 DEF DatasetInv
  <2>2. NextField(k) \notin Continuing
    BY <1>3, NoneIsNoField
  <2>3. NextField(k) \in DataSteps => <<k, "data">> \in torn'
    BY <1>3, NoneIsNoField
  <2>4. file[k]["rawdata"] # None => HasHead(k)
    <3>1. CASE NextField(k) \in DataSteps
      BY <1>3, <3>1, NoneIsNoField
    <3>2. CASE NextField(k) \notin DataSteps
      BY <1>2, <2>1, <3>2 DEF ServingInv
    <3> QED BY <3>1, <3>2
  <2>5. file[k]["labelGeneral"] # None => file[k]["labelGeneralInstances"] # None
    BY <1>2, <2>1, <2>2 DEF ServingInv, Continuing
  <2> QED BY <1>4, <2>2, <2>3, <2>4, <2>5, FatalIs
<1>6. DatasetInv'
  <2>1. ASSUME NEW k \in Keys
        PROVE  (FromKey(k) /\ LabelOrder(k) /\ AtLabels(k) /\ DataInv(k) /\ LabelsInv(k) /\ ServingInv(k))'
    BY <1>1, <1>5, NoneIsNoField, DatasetHandOver
  <2> QED BY <2>1 DEF DatasetInv
<1>7. BrokenInv'
  <2>1. SUFFICES ASSUME NEW k \in Keys, k \in Broken' PROVE k \in Broken
    <3>1. SUFFICES Broken' \subseteq Broken
      BY <1>1, BrokenStays
    <3> QED BY DEF Broken, Keys
  <2>2. HalfBB(k)' <=> HalfBB(k)
    BY DEF HalfBB
  <2>3. HasHead(k)' <=> HasHead(k)
    BY DEF HasHead
  <2>4. Fatal(k)' => Fatal(k)
    BY <2>2, <2>3, FatalIs
  <2>5. HalfBB(k) /\ NextField(k) \notin Continuing
    BY <1>5, <2>1, <2>2, <2>4 DEF Broken
  <2> QED BY <2>5 DEF Broken, Continuing
<1>8. Progress'
  BY DEF Progress
<1> QED BY <1>6, <1>7, <1>8

\* An exception comes from a list of labels that is there already, from pixels that do
\* not fit, or from an attribute without a value.
LEMMA WhatThrows ==
  ASSUME TypeOK, Locks, Progress, DatasetInv, NEW h \in Handlers, Fail(h),
         NEW m, NEW f, m = Current(h), f = Steps(m)[at[h]]
  PROVE  /\ m \in Messages /\ FieldAt(m, at[h]) = f /\ f \notin Continuing
         /\ f \in DataSteps =>
              f = "data" /\ (file[KeyOf(m)]["rawdata"] # None => HasHead(KeyOf(m)))
<1>1. pc[h] = "write" /\ at[h] <= Len(Steps(m)) /\ Throws(m, f)
  BY DEF Fail
<1>2. m \in Messages /\ at[h] \in Nat \ {0} /\ KeyOf(m) \in Keys
  BY <1>1, Streaming, MessageKey
<1>3. at[h] \in DOMAIN Steps(m)
  BY <1>1, <1>2, Places
<1>4. FieldAt(m, at[h]) = f
  BY <1>3 DEF FieldAt
<1>5. mutex = h /\ h # None /\ serving
  BY <1>1, ConstantsAssumption DEF Locks
<1>6. NextField(KeyOf(m)) = f
  BY <1>4, <1>5 DEF NextField
<1>7. AtLabels(KeyOf(m)) /\ ServingInv(KeyOf(m))
  BY <1>2 DEF DatasetInv
<1>8. f \notin Continuing
  BY <1>1, <1>6, <1>7, FieldsAre DEF AtLabels, Continuing, Throws
<1>9. f \in DataSteps => f = "data"
  BY <1>1, FieldsAre DEF Throws, DataSteps
<1>10. f = "data" /\ file[KeyOf(m)]["rawdata"] # None => HasHead(KeyOf(m))
  <2>1. f = "data" => file[KeyOf(m)]["rawdata"].size # m.size
    BY <1>1, FieldsAre DEF Throws
  <2>2. file[KeyOf(m)]["rawdata"] # None => HasHead(KeyOf(m)) \/ file[KeyOf(m)]["rawdata"] = m
    BY <1>5, <1>7 DEF ServingInv
  <2> QED BY <2>1, <2>2
<1> QED BY <1>2, <1>4, <1>8, <1>9, <1>10

LEMMA FailInv ==
  ASSUME IInv, NEW h \in Handlers, Fail(h), UNCHANGED <<queryVars, serving, bounds>>
  PROVE  /\ Progress' /\ DatasetInv' /\ IndexInv' /\ KeptInv' /\ (\A g \in Handlers : Local(g)')
         /\ IndexCurrent' /\ BrokenInv'
<1>1. /\ TypeOK /\ Locks /\ Progress /\ DatasetInv /\ IndexInv /\ KeptInv
      /\ (\A g \in Handlers : Local(g)) /\ IndexCurrent /\ BrokenInv
  BY DEF IInv
<1>2. PICK m : m = Current(h)
  OBVIOUS
<1>3. PICK f : f = Steps(m)[at[h]]
  OBVIOUS
<1>4. /\ pc[h] = "write" /\ mutex' = None /\ failed' = failed \cup {m}
      /\ torn' = IF f = "data" THEN torn \cup {<<KeyOf(m), "data">>} ELSE torn
      /\ (m.call = "fbAttributes" /\ NextInStream(h)) \/ Leave(h)
      /\ UNCHANGED <<file, serving, index, labelled, acked, restarts>>
  BY <1>2, <1>3 DEF Fail, indexVars, bounds
<1>5. /\ m \in Messages /\ FieldAt(m, at[h]) = f /\ f \notin Continuing
      /\ f \in DataSteps =>
           f = "data" /\ (file[KeyOf(m)]["rawdata"] # None => HasHead(KeyOf(m)))
  BY <1>1, <1>2, <1>3, WhatThrows
<1>6. Progress' /\ DatasetInv' /\ BrokenInv'
  <2>1. torn \subseteq torn'
    BY <1>4
  <2>2. f \in DataSteps => <<KeyOf(m), "data">> \in torn'
    BY <1>4, <1>5
  <2> QED BY <1>2, <1>4, <1>5, <2>1, <2>2, ReleaseData
<1>7. /\ \A x \in Messages : Stored(x) => Stored(x)'
      /\ \A x \in Messages : Indexed(x) => Indexed(x)'
  BY <1>4, QuietKnown
<1>8. IndexInv'
  BY <1>1, <1>4, IndexFrame DEF indexVars
<1>9. KeptInv'
  <2>1. serving
    BY <1>1, <1>4 DEF Locks
  <2> QED BY <1>1, <1>4, <1>7, <2>1, KeptFrame
<1>10. /\ Local(h)'
       /\ \A e \in Handlers \ {h} :
            /\ stream'[e] = stream[e] /\ pos'[e] = pos[e] /\ at'[e] = at[e]
            /\ answer'[e] = answer[e] /\ pc'[e] = pc[e]
  <2>1. CASE Leave(h)
    BY <1>1, <2>1, LocalLeft
  <2>2. CASE m.call = "fbAttributes" /\ NextInStream(h)
    <3>1. pos[h] \in DOMAIN stream[h]
      BY <1>1, <1>4, Streaming
    <3>2. \A x \in Messages : x = Current(h) /\ x.call # "fbAttributes" => Stored(x)' /\ Indexed(x)'
      BY <1>2, <2>2
    <3> QED BY <1>1, <1>7, <2>2, <3>1, <3>2, LocalNext
  <2> QED BY <1>4, <2>1, <2>2
<1>11. \A g \in Handlers : Local(g)'
  BY <1>1, <1>7, <1>10, LocalFrame
<1>12. IndexCurrent'
  <2>1. ASSUME NEW g \in Handlers, pc[g] \in {"write", "index"}
        PROVE  \/ pc'[g] \in {"write", "index"} /\ Current(g)' = Current(g)
               \/ Current(g) \in failed'
    BY <1>2, <1>4, <1>10, <2>1 DEF Current
  <2>2. torn \subseteq torn' /\ failed \subseteq failed' /\ \A g \in Groups : index[g] \subseteq index'[g]
    BY <1>4
  <2> QED BY <1>1, <1>4, <2>1, <2>2, CurrentFrame
<1> QED BY <1>6, <1>8, <1>9, <1>11, <1>12

LEMMA UnlockInv ==
  ASSUME IInv, NEW h \in Handlers, Unlock(h), UNCHANGED <<queryVars, serving, bounds>>
  PROVE  /\ Progress' /\ DatasetInv' /\ IndexInv' /\ KeptInv' /\ (\A g \in Handlers : Local(g)')
         /\ IndexCurrent' /\ BrokenInv'
<1>1. /\ TypeOK /\ Locks /\ Progress /\ DatasetInv /\ IndexInv /\ KeptInv
      /\ (\A g \in Handlers : Local(g)) /\ IndexCurrent /\ BrokenInv
  BY DEF IInv
<1>2. PICK m : m = Current(h)
  OBVIOUS
<1>3. /\ pc[h] = "write" /\ at[h] > Len(Steps(m)) /\ mutex' = None
      /\ \/ m.call = "fbAttributes" /\ NextInStream(h)
         \/ /\ m.call # "fbAttributes" /\ pc' = [pc EXCEPT ![h] = "index"]
            /\ UNCHANGED <<stream, pos, at, answer>>
      /\ UNCHANGED <<file, serving, torn, failed, index, labelled, acked, restarts>>
  BY <1>2 DEF Unlock, Goto, indexVars, history, bounds
<1>4. m \in Messages /\ at[h] \in Nat \ {0} /\ pos[h] \in DOMAIN stream[h] /\ mutex = h /\ h # None
  BY <1>1, <1>2, <1>3, Streaming, ConstantsAssumption DEF Locks
<1>5. PICK s \in Seq(Fields) : s = Steps(m)
  BY <1>4, Places
<1>6. \A j \in DOMAIN s : j < at[h]
  <2>1. PICK n \in Nat \ {0} : n = at[h]
    BY <1>4
  <2>2. n > Len(s)
    BY <1>3, <1>5, <2>1
  <2> QED BY <1>5, <2>1, <2>2
<1>7. Progress' /\ DatasetInv' /\ BrokenInv'
  <2>1. at[h] \notin DOMAIN Steps(m)
    BY <1>4, <1>5, <1>6
  <2>2. FieldAt(m, at[h]) = "none"
    BY <2>1 DEF FieldAt
  <2> QED BY <1>2, <1>3, <2>2, NoneIsNoField, ReleaseData
<1>8. /\ \A x \in Messages : Stored(x) => Stored(x)'
      /\ \A x \in Messages : Indexed(x) => Indexed(x)'
  BY <1>3, QuietKnown
<1>9. IndexInv'
  BY <1>1, <1>3, IndexFrame DEF indexVars
<1>10. KeptInv'
  <2>1. serving
    BY <1>1, <1>3 DEF Locks
  <2> QED BY <1>1, <1>3, <1>8, <2>1, KeptFrame
<1>11. m.call # "fbAttributes" => Stored(m)
  <2>1. ASSUME NEW f \in Writes(m)
        PROVE  WrittenField(m, f)
    <3>1. Place(m, f) \in DOMAIN s /\ s[Place(m, f)] = f
      BY <1>4, <1>5, Places
    <3>2. \A j \in DOMAIN s : j < at[h] => WrittenField(m, s[j])
      BY <1>1, <1>2, <1>4, <1>5 DEF Progress
    <3> QED BY <1>6, <3>1, <3>2
  <2>2. ASSUME NEW f \in Writes(m), f \notin {"rawdata", "class"}
        PROVE  file[KeyOf(m)][f] = m
    BY <1>4, <2>1, <2>2, WrittenIs DEF WrittenField
  <2>3. ASSUME m.call # "fbAttributes"
        PROVE  Stored(m)
    <3>1. m.call # "fbBoxes" => m.call \in Uploads
      BY <1>4, <2>3, WhoWrites DEF Calls, Uploads
    <3>2. m.call # "fbBoxes" => "rawdata" \in Writes(m) /\ "frame_id" \in Writes(m)
      BY <1>4, <3>1, WhoWrites
    <3>3. m.call # "fbBoxes" => file[KeyOf(m)]["rawdata"] # None
      BY <2>1, <3>2 DEF WrittenField
    <3>4. m.call # "fbBoxes" => file[KeyOf(m)]["frame_id"] # None
      BY <1>4, <2>2, <3>2, MessageKey
    <3>5. m.bb => "labelBB" \in Writes(m)
      BY <1>4, <2>3, WhoWrites
    <3>6. m.general => "labelGeneral" \in Writes(m)
      BY <1>4, <2>3, WhoWrites
    <3> QED BY <2>2, <3>3, <3>4, <3>5, <3>6 DEF Stored
  <2> QED BY <2>3
<1>12. /\ Local(h)'
       /\ \A e \in Handlers \ {h} :
            /\ stream'[e] = stream[e] /\ pos'[e] = pos[e] /\ at'[e] = at[e]
            /\ answer'[e] = answer[e] /\ pc'[e] = pc[e]
  <2>1. CASE /\ m.call # "fbAttributes" /\ pc' = [pc EXCEPT ![h] = "index"]
             /\ UNCHANGED <<stream, pos, at, answer>>
    <3>1. pc'[h] = "index" /\ Current(h)' = m
      BY <1>1, <1>2, <2>1 DEF TypeOK, Current
    <3>2. Stored(m)'
      BY <1>4, <1>8, <1>11, <2>1
    <3>3. answer[h] = "everything stored!" =>
            \A i \in DOMAIN stream[h] : i < pos[h] /\ stream[h][i].call # "fbAttributes" =>
              Stored(stream[h][i]) /\ Indexed(stream[h][i])
      BY <1>1 DEF Local
    <3>4. PICK t \in Seq(Messages) : t = stream[h]
      BY <1>1, Streaming
    <3>5. PICK p : p = pos[h]
      OBVIOUS
    <3>6. answer[h] = "everything stored!" =>
            \A i \in DOMAIN t : i < p /\ t[i].call # "fbAttributes" => Stored(t[i])' /\ Indexed(t[i])'
      <4>1. \A i \in DOMAIN t : t[i] \in Messages
        BY <3>4
      <4> QED BY <1>8, <3>3, <3>4, <3>5, <4>1
    <3>7. stream'[h] = t /\ pos'[h] = p /\ answer'[h] = answer[h]
      BY <2>1, <3>4, <3>5
    <3>8. Local(h)'
      BY <2>1, <3>1, <3>2, <3>6, <3>7 DEF Local
    <3>9. \A e \in Handlers \ {h} : pc'[e] = pc[e]
      BY <1>1, <2>1 DEF TypeOK
    <3> QED BY <2>1, <3>8, <3>9
  <2>2. CASE m.call = "fbAttributes" /\ NextInStream(h)
    <3>1. \A x \in Messages : x = Current(h) /\ x.call # "fbAttributes" => Stored(x)' /\ Indexed(x)'
      BY <1>2, <2>2
    <3> QED BY <1>1, <1>4, <1>8, <2>2, <3>1, LocalNext
  <2> QED BY <1>3, <2>1, <2>2
<1>13. \A g \in Handlers : Local(g)'
  BY <1>1, <1>8, <1>12, LocalFrame
<1>14. IndexCurrent'
  <2>1. ASSUME NEW g \in Handlers, pc[g] \in {"write", "index"}
        PROVE  \/ pc'[g] \in {"write", "index"} /\ Current(g)' = Current(g)
               \/ Current(g).call \notin Uploads
    <3>1. CASE g # h
      BY <1>12, <2>1, <3>1 DEF Current
    <3>2. CASE g = h /\ m.call = "fbAttributes"
      BY <1>2, <3>2 DEF Uploads
    <3>3. CASE g = h /\ m.call # "fbAttributes"
      <4>1. pc' = [pc EXCEPT ![h] = "index"] /\ UNCHANGED <<stream, pos>>
        BY <1>3, <3>3
      <4> QED BY <1>1, <3>3, <4>1 DEF TypeOK, Current
    <3> QED BY <3>1, <3>2, <3>3
  <2> QED BY <1>1, <1>3, <2>1, CurrentFrame
<1> QED BY <1>7, <1>9, <1>10, <1>13, <1>14

-----------------------------------------------------------------------------
(* The index hears of a dataset.                                           *)

LEMMA AddDatasetInv ==
  ASSUME IInv, NEW h \in Handlers, AddDataset(h), UNCHANGED <<queryVars, serving, bounds>>
  PROVE  /\ Progress' /\ DatasetInv' /\ IndexInv' /\ KeptInv' /\ (\A g \in Handlers : Local(g)')
         /\ IndexCurrent' /\ BrokenInv'
<1>1. /\ TypeOK /\ Locks /\ Progress /\ DatasetInv /\ IndexInv /\ KeptInv
      /\ (\A g \in Handlers : Local(g)) /\ IndexCurrent /\ BrokenInv
  BY DEF IInv
<1>2. PICK m : m = Current(h)
  OBVIOUS
<1>3. /\ pc[h] = "index" /\ NextInStream(h)
      /\ index' = IF m.call = "fbBoxes" THEN index
                  ELSE [index EXCEPT !["images"] = @ \cup {HeadOf(m)}]
      /\ labelled' = [labelled EXCEPT !["images"] = @ \cup LabelsOf(m)]
      /\ UNCHANGED <<file, mutex, serving, torn, failed, acked, restarts>>
  BY <1>2 DEF AddDataset, DatatypeOf, history, bounds
<1>4. m \in Messages /\ pos[h] \in DOMAIN stream[h]
  BY <1>1, <1>2, <1>3, Streaming
<1>5. m.call # "fbAttributes" /\ Stored(m)
  BY <1>1, <1>2, <1>3 DEF Local
<1>6. /\ index \in [Groups -> SUBSET [uuid : Uuids, seconds : Messages, nanos : Messages,
                                      frame_id : Messages]]
      /\ labelled \in [Groups -> SUBSET (Uuids \X Messages \X {"bb", "general"})]
      /\ "images" \in Groups
  BY <1>1 DEF TypeOK, Groups
<1>7. /\ \A g \in Groups : index[g] \subseteq index'[g] /\ labelled[g] \subseteq labelled'[g]
      /\ m.call # "fbBoxes" => HeadOf(m) \in index'["images"]
      /\ LabelsOf(m) \subseteq labelled'["images"]
  BY <1>3, <1>6
<1>8. /\ \A x \in Messages : Stored(x) => Stored(x)'
      /\ \A x \in Messages : Indexed(x) => Indexed(x)'
  BY <1>3, <1>7, QuietKnown
<1>9. Indexed(m)'
  <2>1. LabelsOf(m)' = LabelsOf(m) /\ HeadOf(m).uuid = m.uuid
    BY DEF LabelsOf, HeadOf
  <2> QED BY <1>6, <1>7, <2>1 DEF Indexed
<1>10. /\ Local(h)'
       /\ \A e \in Handlers \ {h} :
            /\ stream'[e] = stream[e] /\ pos'[e] = pos[e] /\ at'[e] = at[e]
            /\ answer'[e] = answer[e] /\ pc'[e] = pc[e]
  <2>1. \A x \in Messages : x = Current(h) /\ x.call # "fbAttributes" => Stored(x)' /\ Indexed(x)'
    <3>1. Stored(m)'
      BY <1>4, <1>5, <1>8
    <3> QED BY <1>2, <1>9, <3>1
  <2> QED BY <1>1, <1>3, <1>4, <1>8, <2>1, LocalNext
<1>11. \A g \in Handlers : Local(g)'
  BY <1>1, <1>8, <1>10, LocalFrame
<1>12. Progress' /\ DatasetInv' /\ BrokenInv'
  <2>1. mutex # None => UNCHANGED <<Current(mutex), at[mutex]>>
    BY <1>1, <1>3, <1>10, NotWriter
  <2> QED BY <1>1, <1>3, <2>1, QuietData
<1>13. IndexInv'
  <2>1. ASSUME NEW g \in Groups, NEW e \in index'[g], Group(e.frame_id) = g
        PROVE  file[<<g, e.uuid>>]["rawdata"] # None /\ file[<<g, e.uuid>>]["frame_id"] # None
    <3>1. CASE e \in index[g]
      BY <1>1, <2>1, <3>1 DEF IndexInv
    <3>2. CASE e \notin index[g]
      <4>1. m.call # "fbBoxes" /\ g = "images" /\ e = HeadOf(m)
        BY <1>3, <1>6, <2>1, <3>2
      <4>2. e.uuid = m.uuid /\ e.frame_id = m
        BY <4>1 DEF HeadOf
      <4>3. <<g, e.uuid>> = KeyOf(m)
        BY <2>1, <4>2 DEF KeyOf
      <4> QED BY <1>5, <4>1, <4>3 DEF Stored
    <3> QED BY <3>1, <3>2
  <2>2. ASSUME NEW g \in Groups, NEW l \in labelled'[g], Group(l[2]) = g
        PROVE  file[<<g, l[1]>>][FirstField(l[3])] # None
    <3>1. CASE l \in labelled[g]
      BY <1>1, <2>2, <3>1 DEF IndexInv
    <3>2. CASE l \notin labelled[g]
      <4>1. g = "images" /\ l \in LabelsOf(m)
        BY <1>3, <1>6, <2>2, <3>2
      <4>2. /\ l[1] = m.uuid /\ l[2] = m
            /\ (m.bb /\ l[3] = "bb") \/ (m.general /\ l[3] = "general")
        BY <4>1 DEF LabelsOf
      <4>3. <<g, l[1]>> = KeyOf(m)
        BY <2>2, <4>2 DEF KeyOf
      <4> QED BY <1>4, <1>5, <4>2, <4>3, MessageKey DEF Stored, FirstField
    <3> QED BY <3>1, <3>2
  <2> QED BY <1>3, <2>1, <2>2 DEF IndexInv, Group, FirstField
<1>14. KeptInv'
  <2>1. serving
    BY <1>1, <1>3 DEF Locks
  <2> QED BY <1>1, <1>3, <1>8, <2>1, KeptFrame
<1>15. IndexCurrent'
  <2>1. ASSUME NEW g \in Handlers, pc[g] \in {"write", "index"}
        PROVE  \/ pc'[g] \in {"write", "index"} /\ Current(g)' = Current(g)
               \/ Current(g).call \notin Uploads
               \/ \E d \in Groups : HeadOf(Current(g)) \in index'[d]
    <3>1. CASE g # h
      BY <1>10, <2>1, <3>1 DEF Current
    <3>2. CASE g = h /\ m.call = "fbBoxes"
      BY <1>2, <3>2 DEF Uploads
    <3>3. CASE g = h /\ m.call # "fbBoxes"
      BY <1>2, <1>6, <1>7, <3>3
    <3> QED BY <3>1, <3>2, <3>3
  <2> QED BY <1>1, <1>3, <1>7, <2>1, CurrentFrame
<1> QED BY <1>11, <1>12, <1>13, <1>14, <1>15

-----------------------------------------------------------------------------
(* A stop and the startup.                                                 *)

\* The part of the dataset that is being written, if there is one, is torn.
LEMMA Stopped ==
  ASSUME TypeOK, Locks, Restart, NEW k \in Keys
  PROVE  /\ NextField(k) \in DataSteps => <<k, "data">> \in torn'
         /\ NextField(k) \in Continuing => <<k, "labels">> \in torn'
<1>1. torn' = torn \cup UNION {CutPart(h) : h \in {h \in Handlers : pc[h] = "write"}}
  BY DEF Restart
<1>2. CASE mutex = None \/ KeyOf(Current(mutex)) # k
  BY <1>2, NoneIsNoField DEF NextField
<1>3. CASE mutex # None /\ KeyOf(Current(mutex)) = k
  <2>1. PICK h \in Handlers : h = mutex /\ pc[h] = "write"
    BY <1>3, WriterFacts
  <2>2. PICK m \in Messages : m = Current(h)
    BY <1>3, <2>1, WriterFacts
  <2>3. CutPart(h) \subseteq torn'
    BY <1>1, <2>1
  <2>4. NextField(k) = FieldAt(m, at[h])
    BY <1>3, <2>1, <2>2 DEF NextField
  <2>5. CASE at[h] \notin DOMAIN Steps(m)
    BY <2>4, <2>5, NoneIsNoField DEF FieldAt
  <2>6. CASE at[h] \in DOMAIN Steps(m)
    <3>1. NextField(k) = Steps(m)[at[h]]
      BY <2>4, <2>6 DEF FieldAt
    <3>2. ~(at[h] > Len(Steps(m)))
      <4>1. PICK s \in Seq(Fields) : s = Steps(m)
        BY Places
      <4> QED BY <2>6, <4>1
    <3>3. Steps(m)[at[h]] # "attributes" =>
            <<k, IF Steps(m)[at[h]] \in LabelFields THEN "labels" ELSE "data">> \in CutPart(h)
      BY <1>3, <2>1, <2>2, <3>2 DEF CutPart
    <3>4. /\ \A f \in DataSteps : f # "attributes" /\ f \notin LabelFields
          /\ \A f \in Continuing : f # "attributes" /\ f \in LabelFields
      BY FieldsAre DEF DataSteps, Continuing
    <3> QED BY <2>3, <3>1, <3>3, <3>4
  <2> QED BY <2>5, <2>6
<1> QED BY <1>2, <1>3

LEMMA RestartData ==
  ASSUME TypeOK, Locks, Progress, DatasetInv, Restart
  PROVE  /\ Progress' /\ DatasetInv'
         /\ \A k \in Keys : NextField(k)' = "none"
         /\ serving' => \A k \in Keys : ~Fatal(k)
<1>1. /\ mutex' = None /\ file' = file /\ torn \subseteq torn'
      /\ serving' <=> ~\E k \in Keys : Fatal(k)
  BY DEF Restart
<1>2. \A k : NextField(k)' = "none"
  BY <1>1, NothingNext
<1>3. ASSUME NEW k \in Keys
      PROVE  (FromKey(k) /\ LabelOrder(k) /\ AtLabels(k) /\ DataInv(k) /\ LabelsInv(k) /\ ServingInv(k))'
  <2>1. /\ NextField(k) \in DataSteps => <<k, "data">> \in torn'
        /\ NextField(k) \in Continuing => <<k, "labels">> \in torn'
    BY Stopped
  <2>2. serving' => /\ file[k]["rawdata"] # None => HasHead(k)
                    /\ file[k]["labelGeneral"] # None => file[k]["labelGeneralInstances"] # None
    <3>1. serving' => ~Fatal(k)
      BY <1>1
    <3>2. file[k]["labelGeneral"] # None => file[k]["rawdata"] # None
      BY DEF DatasetInv, LabelOrder
    <3> QED BY <3>1, <3>2, FatalIs
  <2>3. NextField(k)' \notin Continuing
    BY <1>2, NoneIsNoField
  <2> QED BY <1>1, <2>1, <2>2, <2>3, DatasetHandOver
<1> QED BY <1>1, <1>2, <1>3 DEF DatasetInv, Progress

LEMMA RestartBroken ==
  ASSUME TypeOK, Locks, BrokenInv, Restart
  PROVE  BrokenInv'
<1>1. mutex' = None /\ file' = file /\ restarts' = restarts + 1
  BY DEF Restart
<1>2. PICK K : K = KeyOf(Current(mutex))
  OBVIOUS
<1>3. ASSUME NEW k \in Keys, k \in Broken', k # K
      PROVE  k \in Broken
  <2>1. NextField(k) = "none"
    BY <1>2, <1>3 DEF NextField
  <2>2. NextField(k)' = "none"
    BY <1>1, NothingNext
  <2>3. NextField(k) = NextField(k)'
    BY <2>1, <2>2
  <2> QED BY <1>1, <1>3, <2>3, BrokenFrame
<1>4. Broken' \subseteq Broken \cup {K}
  <2>1. Broken' \subseteq Keys
    BY DEF Broken, Keys
  <2> QED BY <1>3, <2>1
<1>5. PICK S : S = Broken
  OBVIOUS
<1>6. PICK T : T = Broken'
  OBVIOUS
<1>7. IsFiniteSet(S) /\ restarts \in Nat /\ Cardinality(S) <= restarts
  BY <1>5 DEF BrokenInv
<1>8. IsFiniteSet(S \cup {K}) /\ Cardinality(S) \in Nat
      /\ Cardinality(S \cup {K}) \in {Cardinality(S), Cardinality(S) + 1}
  BY <1>7, FS_AddElement, FS_CardinalityType
<1>9. IsFiniteSet(T) /\ Cardinality(T) <= Cardinality(S \cup {K})
  <2>1. T \subseteq S \cup {K}
    BY <1>4, <1>5, <1>6
  <2> QED BY <1>8, <2>1, FS_Subset
<1>10. Cardinality(T) \in Nat
  BY <1>9, FS_CardinalityType
<1>11. Cardinality(T) <= restarts + 1 /\ restarts + 1 \in Nat
  BY <1>7, <1>8, <1>9, <1>10
<1> QED BY <1>1, <1>6, <1>9, <1>11 DEF BrokenInv

\* What the startup puts into the index.
LEMMA RestartIndex ==
  ASSUME TypeOK, Restart, NEW g \in Groups
  PROVE  /\ index'[g] = IF serving' THEN {StoredHead(k) : k \in ReadDatasets(g)} ELSE {}
         /\ labelled'[g] = IF serving' THEN UNION {StoredLabels(k) : k \in ReadDatasets(g)} ELSE {}
         /\ \A k \in ReadDatasets(g) : k \in Keys /\ k = <<g, k[2]>> /\ file[k]["rawdata"] # None
         /\ \A k \in Keys : k[1] = g /\ file[k]["rawdata"] # None => k \in ReadDatasets(g)
<1>1. /\ index'[g] = IF serving' THEN {StoredHead(k) : k \in ReadDatasets(g)} ELSE {}
      /\ labelled'[g] = IF serving' THEN UNION {StoredLabels(k) : k \in ReadDatasets(g)} ELSE {}
  BY DEF Restart
<1>2. \A k : Has(k, <<"rawdata">>) <=> file[k]["rawdata"] # None
  BY DEF Has
<1>3. /\ \A k \in ReadDatasets(g) : k \in Keys /\ k = <<g, k[2]>> /\ file[k]["rawdata"] # None
      /\ \A k \in Keys : k[1] = g /\ file[k]["rawdata"] # None => k \in ReadDatasets(g)
  BY <1>2 DEF ReadDatasets, Keys
<1> QED BY <1>1, <1>3

LEMMA StoredLabelsAre ==
  ASSUME NEW k, NEW l
  PROVE  l \in StoredLabels(k) <=>
           \/ file[k]["labelBB"] # None /\ l = <<k[2], file[k]["labelBB"], "bb">>
           \/ file[k]["labelGeneral"] # None /\ l = <<k[2], file[k]["labelGeneral"], "general">>
BY DEF StoredLabels, Has

LEMMA RestartIndexInv ==
  ASSUME TypeOK, Locks, Progress, DatasetInv, Restart
  PROVE  IndexInv'
<1>1. file' = file
  BY DEF Restart
<1>2. ASSUME NEW g \in Groups, NEW e \in index'[g]
      PROVE  file[<<g, e.uuid>>]["rawdata"] # None /\ file[<<g, e.uuid>>]["frame_id"] # None
  <2>1. serving' /\ \E k \in ReadDatasets(g) : e = StoredHead(k)
    BY <1>2, RestartIndex
  <2>2. PICK k \in ReadDatasets(g) : e = StoredHead(k)
    BY <2>1
  <2>3. k \in Keys /\ k = <<g, k[2]>> /\ file[k]["rawdata"] # None /\ e.uuid = k[2]
    BY <2>2, RestartIndex DEF StoredHead
  <2>4. ~Fatal(k)
    BY <2>1, <2>3, RestartData
  <2>5. file[k]["frame_id"] # None
    BY <2>3, <2>4, FatalIs DEF HasHead
  <2> QED BY <2>3, <2>5
<1>3. ASSUME NEW g \in Groups, NEW l \in labelled'[g]
      PROVE  file[<<g, l[1]>>][FirstField(l[3])] # None
  <2>1. PICK k \in ReadDatasets(g) : l \in StoredLabels(k)
    <3>1. labelled'[g] = IF serving' THEN UNION {StoredLabels(k) : k \in ReadDatasets(g)} ELSE {}
      BY RestartIndex
    <3>2. l \in UNION {StoredLabels(k) : k \in ReadDatasets(g)}
      BY <1>3, <3>1
    <3> QED BY <3>2
  <2>2. k = <<g, k[2]>>
    BY <2>1, RestartIndex
  <2> QED BY <2>1, <2>2, StoredLabelsAre DEF FirstField
<1> QED BY <1>1, <1>2, <1>3 DEF IndexInv, Group, FirstField

LEMMA RestartKept ==
  ASSUME TypeOK, KeptInv, Restart
  PROVE  KeptInv'
<1>1. file' = file /\ acked' = acked
  BY DEF Restart
<1>2. ASSUME NEW x \in Messages, Stored(x), x.call # "fbAttributes", serving'
      PROVE  Indexed(x)'
  <2> SUFFICES ASSUME x.call # "fbBoxes"
               PROVE  /\ \E g \in Groups : \E e \in index'[g] : e.uuid = x.uuid
                      /\ LabelsOf(x) \subseteq labelled'["images"] \cup labelled'["points"]
    BY DEF Indexed, LabelsOf
  <2>1. PICK k \in Keys : k = KeyOf(x) /\ k[1] = Group(x) /\ k[2] = x.uuid
    BY MessageKey
  <2>2. PICK g \in Groups : g = Group(x)
    BY MessageKey
  <2>3. file[k]["rawdata"] # None
    BY <1>2, <2>1 DEF Stored
  <2>4. k \in ReadDatasets(g)
    BY <2>1, <2>2, <2>3, RestartIndex
  <2>5. StoredHead(k) \in index'[g] /\ StoredHead(k).uuid = x.uuid
    BY <1>2, <2>1, <2>4, RestartIndex DEF StoredHead
  <2>6. StoredLabels(k) \subseteq labelled'[g]
    BY <1>2, <2>4, RestartIndex
  <2>7. LabelsOf(x) \subseteq StoredLabels(k)
    <3>1. x # None
      BY MessageKey
    <3>2. ASSUME NEW l \in LabelsOf(x)
          PROVE  l \in StoredLabels(k)
      <4>1. (x.bb /\ l = <<x.uuid, x, "bb">>) \/ (x.general /\ l = <<x.uuid, x, "general">>)
        BY <3>2 DEF LabelsOf
      <4>2. x.bb => file[k]["labelBB"] = x
        BY <1>2, <2>1 DEF Stored
      <4>3. x.general => file[k]["labelGeneral"] = x
        BY <1>2, <2>1 DEF Stored
      <4> QED BY <2>1, <3>1, <4>1, <4>2, <4>3, StoredLabelsAre
    <3> QED BY <3>2
  <2>8. g \in {"images", "points"}
    BY DEF Groups
  <2> QED BY <2>5, <2>6, <2>7, <2>8
<1>3. ASSUME NEW x \in Messages, Stored(x)
      PROVE  Stored(x)'
  BY <1>1, <1>3, StoredStays
<1>4. ASSUME NEW x \in acked, x.call # "fbAttributes"
      PROVE  Stored(x)' /\ (serving' => Indexed(x)')
  <2>1. x \in Messages
    BY DEF TypeOK
  <2>2. Stored(x)
    BY <1>4 DEF KeptInv
  <2> QED BY <1>2, <1>3, <1>4, <2>1, <2>2
<1> QED BY <1>1, <1>4 DEF KeptInv

LEMMA RestartCurrent ==
  ASSUME TypeOK, Locks, Progress, DatasetInv, Restart
  PROVE  IndexCurrent'
<1>1. file' = file /\ DatasetInv' /\ \A k \in Keys : NextField(k)' = "none"
  BY RestartData DEF Restart
<1> SUFFICES ASSUME serving', NEW k \in Keys, NEW x \in Messages,
                    \A f \in {"seconds", "nanos", "frame_id"} : file[k][f] = x,
                    <<k, "data">> \notin torn'
             PROVE  \E g \in Groups : HeadOf(x) \in index'[g]
  BY <1>1 DEF IndexCurrent, HeadOf
<1>2. DataInv(k)' /\ FromKey(k)
  BY <1>1 DEF DatasetInv
<1>3. PICK y \in Messages \cup {None} : DataFrom(k, y)'
  BY <1>1, <1>2, NoneIsNoField DEF DataInv
<1>4. "seconds" \in DataFields(k)'
  BY DataFieldsAre DEF DataFields, InSeq, Header, Layout
<1>5. y = x /\ x # None
  BY <1>1, <1>3, <1>4, MessageKey DEF DataFrom
<1>6. file[k]["rawdata"] # None
  BY <1>1, <1>3, <1>5 DEF DataFrom
<1>7. KeyOf(x) = k
  BY <1>2, <1>5, FieldsAre DEF FromKey
<1>8. k[1] \in Groups /\ k[2] = x.uuid
  BY <1>7, MessageKey
<1>9. StoredHead(k) = HeadOf(x)
  BY <1>8 DEF StoredHead, HeadOf
<1>10. StoredHead(k) \in index'[k[1]]
  BY <1>6, <1>8, RestartIndex
<1> QED BY <1>8, <1>9, <1>10

LEMMA RestartInv ==
  ASSUME IInv, Restart
  PROVE  /\ Progress' /\ DatasetInv' /\ IndexInv' /\ KeptInv' /\ (\A g \in Handlers : Local(g)')
         /\ IndexCurrent' /\ BrokenInv'
<1>1. TypeOK /\ Locks /\ Progress /\ DatasetInv /\ KeptInv /\ BrokenInv
  BY DEF IInv
<1>2. ASSUME NEW g \in Handlers
      PROVE  Local(g)'
  <2>1. pc'[g] = "idle" /\ stream'[g] = <<>> /\ pos'[g] = 1 /\ at'[g] = 1
    BY DEF Restart
  <2>2. DOMAIN <<>> = {}
    OBVIOUS
  <2> QED BY <2>1, <2>2 DEF Local
<1> QED BY <1>1, <1>2, RestartData, RestartIndexInv, RestartKept, RestartCurrent, RestartBroken

-----------------------------------------------------------------------------
(* The invariant holds, and what it says.                                  *)

LEMMA InitInv == Init => IInv
<1> SUFFICES ASSUME Init PROVE IInv
  OBVIOUS
<1>1. TypeOK /\ Locks
  BY TypeInit
<1>2. /\ file = [k \in Keys |-> [f \in Fields |-> None]] /\ mutex = None
      /\ stream = [h \in Handlers |-> <<>>] /\ pos = [h \in Handlers |-> 1]
      /\ at = [h \in Handlers |-> 1] /\ pc = [h \in Handlers |-> "idle"]
      /\ index = [d \in Groups |-> {}] /\ labelled = [d \in Groups |-> {}]
      /\ acked = {} /\ restarts = 0
  BY DEF Init
<1>3. Progress
  BY <1>2 DEF Progress
<1>4. ASSUME NEW k \in Keys
      PROVE  /\ NextField(k) = "none" /\ \A f \in Fields : file[k][f] = None
             /\ file[k]["rawdata"] = None /\ file[k]["labelBB"] = None
             /\ file[k]["labelBBBoxes"] = None /\ file[k]["labelBBInstances"] = None
             /\ file[k]["labelGeneral"] = None /\ file[k]["labelGeneralInstances"] = None
  BY <1>2, NothingNext, FieldsAre
<1>5. DatasetInv
  <2>1. ASSUME NEW k \in Keys
        PROVE  FromKey(k) /\ LabelOrder(k) /\ AtLabels(k) /\ DataInv(k) /\ LabelsInv(k) /\ ServingInv(k)
    <3>1. FromKey(k) /\ LabelOrder(k) /\ AtLabels(k)
      BY <1>4 DEF FromKey, LabelOrder, AtLabels
    <3>2. DataInv(k)
      <4>1. DataFrom(k, None)
        BY <1>4, DataFieldsPlain DEF DataFrom
      <4> QED BY <4>1 DEF DataInv
    <3>3. LabelsInv(k) /\ ServingInv(k)
      BY <1>4 DEF LabelsInv, WholeBB, WholeGeneral, ServingInv
    <3> QED BY <3>1, <3>2, <3>3
  <2> QED BY <2>1 DEF DatasetInv
<1>6. IndexInv /\ KeptInv
  BY <1>2 DEF IndexInv, KeptInv
<1>7. \A h \in Handlers : Local(h)
  <2>1. DOMAIN <<>> = {}
    OBVIOUS
  <2> QED BY <1>2, <2>1 DEF Local
<1>8. IndexCurrent
  <2>1. ASSUME NEW k \in Keys, NEW x \in Messages
        PROVE  file[k]["seconds"] # x
    BY <1>4, FieldsAre, MessageKey
  <2> QED BY <2>1 DEF IndexCurrent
<1>9. BrokenInv
  <2>1. Broken = {}
    BY <1>4, FatalIs DEF Broken, HalfBB
  <2> QED BY <1>2, <2>1, FS_EmptySet DEF BrokenInv
<1> QED BY <1>1, <1>3, <1>5, <1>6, <1>7, <1>8, <1>9 DEF IInv

LEMMA StutterInv ==
  ASSUME IInv, UNCHANGED vars
  PROVE  /\ Progress' /\ DatasetInv' /\ IndexInv' /\ KeptInv' /\ (\A g \in Handlers : Local(g)')
         /\ IndexCurrent' /\ BrokenInv'
<1>1. /\ TypeOK /\ Locks /\ Progress /\ DatasetInv /\ IndexInv /\ KeptInv
      /\ (\A g \in Handlers : Local(g)) /\ IndexCurrent /\ BrokenInv
  BY DEF IInv
<1>2. /\ UNCHANGED <<pc, stream, pos, at, answer>>
      /\ UNCHANGED <<file, mutex, serving, torn, failed, index, labelled, acked, restarts>>
  BY DEF vars
<1>3. Progress' /\ DatasetInv' /\ BrokenInv'
  BY <1>1, <1>2, QuietData DEF Current
<1>4. /\ \A x \in Messages : Stored(x) => Stored(x)'
      /\ \A x \in Messages : Indexed(x) => Indexed(x)'
  BY <1>2, QuietKnown
<1>5. IndexInv'
  BY <1>1, <1>2, IndexFrame DEF indexVars
<1>6. KeptInv'
  <2>1. CASE serving
    BY <1>1, <1>2, <1>4, <2>1, KeptFrame
  <2>2. CASE ~serving
    <3>1. ~serving'
      BY <1>2, <2>2
    <3> QED BY <1>1, <1>2, <1>4, <3>1, KeptFrame
  <2> QED BY <2>1, <2>2
<1>7. \A g \in Handlers : Local(g)'
  BY <1>1, <1>2, <1>4, LocalFrame
<1>8. IndexCurrent'
  BY <1>1, <1>2, CurrentFrame DEF Current
<1> QED BY <1>3, <1>5, <1>6, <1>7, <1>8

LEMMA NextInv == IInv /\ [Next]_vars => IInv'
<1> SUFFICES ASSUME IInv, [Next]_vars PROVE IInv'
  OBVIOUS
<1>1. TypeOK' /\ Locks'
  BY TypeNext DEF IInv
<1> DEFINE R == /\ Progress' /\ DatasetInv' /\ IndexInv' /\ KeptInv'
                /\ (\A g \in Handlers : Local(g)') /\ IndexCurrent' /\ BrokenInv'
<1>2. R => IInv'
  BY <1>1 DEF IInv
<1>3. ASSUME NEW h \in Handlers, UploadStep(h)
      PROVE  R
  <2>1. UNCHANGED <<queryVars, serving, bounds>>
    BY <1>3 DEF UploadStep
  <2> QED BY <1>3, <2>1, NextMessageInv, EndStreamInv, LockInv, WriteInv, FailInv, UnlockInv,
             AddDatasetInv DEF UploadStep
<1>4. CASE UNCHANGED vars
  BY <1>2, <1>4, StutterInv
<1>5. CASE Restart
  BY <1>2, <1>5, RestartInv
<1>6. ASSUME NEW h \in Handlers,
             \/ \E s \in Streams : Receive(h, s)
             \/ \E q \in Sent : GetData(h, q)
             \/ QueryStep(h)
      PROVE  R
  BY <1>6, ReceiveInv, QueryInv
<1> HIDE DEF R
<1> QED BY <1>2, <1>3, <1>4, <1>5, <1>6 DEF Next

LEMMA Invariance == Spec => []IInv
BY InitInv, NextInv, PTL DEF Spec

\* The readers, field by field.
LEMMA HasIs ==
  ASSUME NEW k
  PROVE  /\ \A f : Has(k, <<f>>) <=> file[k][f] # None
         /\ Has(k, <<"rawdata">> \o Layout) <=>
              /\ file[k]["rawdata"] # None /\ file[k]["height"] # None
              /\ file[k]["width"] # None /\ file[k]["encoding"] # None
         /\ Has(k, Header) <=>
              /\ file[k]["seconds"] # None /\ file[k]["nanos"] # None
              /\ file[k]["frame_id"] # None /\ file[k]["seq"] # None
         /\ Has(k, BoundingBoxes) <=>
              /\ file[k]["labelBB"] # None /\ file[k]["labelBBBoxes"] # None
              /\ file[k]["labelBBInstances"] # None
         /\ Has(k, LabelsGeneral) <=>
              file[k]["labelGeneral"] # None /\ file[k]["labelGeneralInstances"] # None
<1>1. \A f : Has(k, <<f>>) <=> file[k][f] # None
  BY DEF Has
<1>2. ASSUME NEW s, DOMAIN s = 1..2
      PROVE  Has(k, s) <=> file[k][s[1]] # None /\ file[k][s[2]] # None
  BY <1>2 DEF Has
<1>3. ASSUME NEW s, DOMAIN s = 1..3
      PROVE  Has(k, s) <=> file[k][s[1]] # None /\ file[k][s[2]] # None /\ file[k][s[3]] # None
  BY <1>3 DEF Has
<1>4. ASSUME NEW s, DOMAIN s = 1..4
      PROVE  Has(k, s) <=> /\ file[k][s[1]] # None /\ file[k][s[2]] # None
                           /\ file[k][s[3]] # None /\ file[k][s[4]] # None
  BY <1>4 DEF Has
<1>5. /\ DOMAIN LabelsGeneral = 1..2
      /\ LabelsGeneral[1] = "labelGeneral" /\ LabelsGeneral[2] = "labelGeneralInstances"
  BY DEF LabelsGeneral
<1>6. /\ DOMAIN BoundingBoxes = 1..3 /\ BoundingBoxes[1] = "labelBB"
      /\ BoundingBoxes[2] = "labelBBBoxes" /\ BoundingBoxes[3] = "labelBBInstances"
  BY DEF BoundingBoxes
<1>7. /\ DOMAIN Header = 1..4 /\ Header[1] = "seconds" /\ Header[2] = "nanos"
      /\ Header[3] = "frame_id" /\ Header[4] = "seq"
  BY DEF Header
<1> DEFINE s == <<"rawdata">> \o Layout
<1>8. /\ DOMAIN s = 1..4 /\ s[1] = "rawdata" /\ s[2] = "height" /\ s[3] = "width"
      /\ s[4] = "encoding"
  BY DEF Layout
<1> HIDE DEF s
<1>9. Has(k, LabelsGeneral) <=>
        file[k]["labelGeneral"] # None /\ file[k]["labelGeneralInstances"] # None
  BY <1>2, <1>5
<1>10. Has(k, BoundingBoxes) <=>
         /\ file[k]["labelBB"] # None /\ file[k]["labelBBBoxes"] # None
         /\ file[k]["labelBBInstances"] # None
  BY <1>3, <1>6
<1>11. Has(k, Header) <=>
         /\ file[k]["seconds"] # None /\ file[k]["nanos"] # None
         /\ file[k]["frame_id"] # None /\ file[k]["seq"] # None
  BY <1>4, <1>7
<1>12. Has(k, s) <=>
         /\ file[k]["rawdata"] # None /\ file[k]["height"] # None
         /\ file[k]["width"] # None /\ file[k]["encoding"] # None
  BY <1>4, <1>8
<1> QED BY <1>1, <1>9, <1>10, <1>11, <1>12 DEF s

\* A dataset with the data of one message and whole labels is read by every reader.
LEMMA Readable ==
  ASSUME NEW k \in Keys, NEW x \in Messages, DataFrom(k, x), NEW q \in Queries,
         GroupRead(q) = k[1],
         file[k]["labelGeneral"] # None => file[k]["labelGeneralInstances"] # None
  PROVE  ReadData(q, k[2]) = "dataset"
<1>1. k = <<k[1], k[2]>> /\ x # None /\ x.size \in Nat
  BY MessageKey DEF Keys
<1>2. /\ file[k]["rawdata"] # None /\ file[k]["rawdata"].size = x.size
      /\ file[k]["seconds"] = x /\ file[k]["nanos"] = x /\ file[k]["frame_id"] = x
      /\ file[k]["seq"] = x
      /\ k[1] = "images" => /\ file[k]["height"] = x /\ file[k]["width"] = x
                            /\ file[k]["encoding"] = x
  BY <1>1, DataFieldsAre DEF DataFrom
<1>3. HasHeader(k)
  BY <1>1, <1>2, HasIs DEF HasHeader
<1>4. ~(Has(k, <<"labelGeneral">>) /\ ~Has(k, <<"labelGeneralInstances">>))
  BY HasIs
<1>5. k[1] = "images" => Has(k, <<"rawdata">> \o Layout)
  BY <1>1, <1>2, HasIs
<1>6. k[1] = "images" => ~PixelsMissing(k)
  BY <1>1, <1>2 DEF PixelsMissing
<1>7. Has(k, <<"rawdata">>)
  BY <1>2, HasIs
<1>8. CASE q.reader = "fbImage"
  <2>1. k[1] = "images"
    BY <1>8 DEF GroupRead
  <2>2. ReadImageFb(k, q.withoutData) = "dataset"
    BY <1>3, <1>4, <1>5, <1>6, <2>1 DEF ReadImageFb
  <2> QED BY <1>1, <1>8, <2>1, <2>2 DEF ReadData
<1>9. CASE q.reader = "pbImage"
  <2>1. k[1] = "images"
    BY <1>9 DEF GroupRead
  <2>2. ReadImagePb(k) = "dataset"
    BY <1>3, <1>5, <1>6, <2>1 DEF ReadImagePb
  <2> QED BY <1>1, <1>9, <2>1, <2>2 DEF ReadData
<1>10. CASE q.reader = "fbPoint"
  <2>1. k[1] = "points"
    BY <1>10 DEF GroupRead
  <2>2. ReadPoint(k) = "dataset"
    BY <1>3, <1>4, <1>7 DEF ReadPoint
  <2> QED BY <1>1, <1>10, <2>1, <2>2 DEF ReadData
<1> QED BY <1>8, <1>9, <1>10 DEF Queries

LEMMA InvWhole == IInv => WholeUnlessTorn
<1> SUFFICES ASSUME IInv, NEW k \in Keys, ~Writing(k)
             PROVE  /\ <<k, "data">> \notin torn => \E m \in Messages \cup {None} : DataFrom(k, m)
                    /\ <<k, "labels">> \notin torn => LabelsWhole(k)
  BY DEF WholeUnlessTorn
<1>1. TypeOK /\ Locks /\ DataInv(k) /\ LabelsInv(k)
  BY DEF IInv, DatasetInv
<1>2. NextField(k) = "none"
  <2>1. mutex # None => KeyOf(Current(mutex)) # k
    BY <1>1, WriterFacts DEF Writing
  <2> QED BY <2>1 DEF NextField
<1>3. <<k, "data">> \notin torn => \E m \in Messages \cup {None} : DataFrom(k, m)
  BY <1>1, <1>2, NoneIsNoField DEF DataInv
<1>4. <<k, "labels">> \notin torn => LabelsWhole(k)
  <2>1. <<k, "labels">> \notin torn => WholeBB(k) /\ WholeGeneral(k)
    BY <1>1, <1>2 DEF LabelsInv
  <2>2. ASSUME NEW s, DOMAIN s = 1..3
        PROVE  InSeq(s) = {s[1], s[2], s[3]}
    BY <2>2 DEF InSeq
  <2>3. ASSUME NEW s, DOMAIN s = 1..2
        PROVE  InSeq(s) = {s[1], s[2]}
    BY <2>3 DEF InSeq
  <2>4. /\ DOMAIN BoundingBoxes = 1..3 /\ BoundingBoxes[1] = "labelBB"
        /\ BoundingBoxes[2] = "labelBBBoxes" /\ BoundingBoxes[3] = "labelBBInstances"
        /\ DOMAIN LabelsGeneral = 1..2
        /\ LabelsGeneral[1] = "labelGeneral" /\ LabelsGeneral[2] = "labelGeneralInstances"
    BY DEF BoundingBoxes, LabelsGeneral
  <2>5. /\ InSeq(BoundingBoxes) = {"labelBB", "labelBBBoxes", "labelBBInstances"}
        /\ InSeq(LabelsGeneral) = {"labelGeneral", "labelGeneralInstances"}
    BY <2>2, <2>3, <2>4
  <2> QED BY <2>1, <2>5 DEF LabelsWhole, WholeBB, WholeGeneral
<1> QED BY <1>3, <1>4

LEMMA InvReadable == IInv => IndexedReadable
<1> SUFFICES ASSUME IInv, serving, mutex = None, NEW g \in Groups
             PROVE  /\ \A e \in index[g] : Group(e.frame_id) = g /\ <<<<g, e.uuid>>, "data">> \notin torn =>
                         \A q \in Queries : GroupRead(q) = g => ReadData(q, e.uuid) = "dataset"
                    /\ \A l \in labelled[g] : Group(l[2]) = g /\ <<<<g, l[1]>>, "labels">> \notin torn =>
                         l[3] \in ReadBoundingBox2DLabeled(<<g, l[1]>>) \cup ReadLabelsGeneral(<<g, l[1]>>)
  BY DEF IndexedReadable
<1>1. /\ TypeOK /\ Locks /\ DatasetInv /\ IndexInv
      /\ index[g] \subseteq [uuid : Uuids, seconds : Messages, nanos : Messages, frame_id : Messages]
      /\ labelled[g] \subseteq Uuids \X Messages \X {"bb", "general"}
  BY DEF IInv, TypeOK
<1>2. \A k : NextField(k) = "none"
  BY NothingNext
<1>3. ASSUME NEW e \in index[g], Group(e.frame_id) = g, <<<<g, e.uuid>>, "data">> \notin torn,
             NEW q \in Queries, GroupRead(q) = g
      PROVE  ReadData(q, e.uuid) = "dataset"
  <2>1. PICK k \in Keys : k = <<g, e.uuid>>
    BY <1>1 DEF Keys
  <2>2. file[k]["rawdata"] # None /\ file[k]["frame_id"] # None
    BY <1>1, <1>3, <2>1 DEF IndexInv
  <2>3. DataInv(k)
    BY <1>1 DEF DatasetInv
  <2>4. PICK x \in Messages \cup {None} : DataFrom(k, x)
    BY <1>2, <1>3, <2>1, <2>3, NoneIsNoField DEF DataInv
  <2>5. x \in Messages
    BY <2>2, <2>4, DataFieldsAre DEF DataFrom
  <2>6. file[k]["labelGeneral"] # None => file[k]["labelGeneralInstances"] # None
    BY <1>1, <1>2, AtRest, NoneIsNoField
  <2>7. ReadData(q, k[2]) = "dataset"
    BY <1>3, <2>1, <2>4, <2>5, <2>6, Readable
  <2> QED BY <2>1, <2>7
<1>4. ASSUME NEW l \in labelled[g], Group(l[2]) = g, <<<<g, l[1]>>, "labels">> \notin torn
      PROVE  l[3] \in ReadBoundingBox2DLabeled(<<g, l[1]>>) \cup ReadLabelsGeneral(<<g, l[1]>>)
  <2>1. l[1] \in Uuids /\ l[3] \in {"bb", "general"}
    BY <1>1
  <2>2. PICK k \in Keys : k = <<g, l[1]>>
    BY <2>1 DEF Keys
  <2>3. file[k][FirstField(l[3])] # None
    BY <1>1, <1>4, <2>2 DEF IndexInv
  <2>4. LabelsInv(k)
    BY <1>1 DEF DatasetInv
  <2>5. WholeBB(k) /\ WholeGeneral(k)
    BY <1>2, <1>4, <2>2, <2>4 DEF LabelsInv
  <2>6. CASE l[3] = "bb"
    <3>1. Has(k, BoundingBoxes)
      BY <2>3, <2>5, <2>6, HasIs DEF WholeBB, FirstField
    <3> QED BY <2>2, <2>6, <3>1 DEF ReadBoundingBox2DLabeled
  <2>7. CASE l[3] = "general"
    <3>1. Has(k, LabelsGeneral)
      BY <2>3, <2>5, <2>7, HasIs DEF WholeGeneral, FirstField
    <3> QED BY <2>2, <2>7, <3>1 DEF ReadLabelsGeneral
  <2> QED BY <2>1, <2>6, <2>7
<1> QED BY <1>3, <1>4

LEMMA InvKept == IInv => AckedKept
<1> SUFFICES ASSUME IInv, serving, NEW m \in acked
             PROVE  /\ m.call = "fbBoxes" /\ m.bb => file[KeyOf(m)]["labelBB"] = m
                    /\ m.call \notin {"fbBoxes", "fbAttributes"} =>
                         /\ \E g \in Groups : \E e \in index[g] : e.uuid = m.uuid
                         /\ LabelsOf(m) \subseteq labelled["images"] \cup labelled["points"]
  BY DEF AckedKept
<1>1. m.call # "fbAttributes" => Stored(m) /\ Indexed(m)
  BY DEF IInv, KeptInv
<1> QED BY <1>1 DEF Stored, Indexed

LEMMA InvFatal == IInv => FatalBounded
<1> SUFFICES ASSUME IInv, mutex = None
             PROVE  Cardinality({k \in Keys : Fatal(k)}) <= restarts
  BY DEF FatalBounded
<1>1. {k \in Keys : Fatal(k)} \subseteq Broken
  BY NothingNext DEF Broken
<1>2. PICK S : S = Broken
  OBVIOUS
<1>3. PICK T : T = {k \in Keys : Fatal(k)}
  OBVIOUS
<1>4. IsFiniteSet(S) /\ restarts \in Nat /\ Cardinality(S) <= restarts /\ T \subseteq S
  BY <1>1, <1>2, <1>3 DEF IInv, BrokenInv
<1>5. /\ IsFiniteSet(T) /\ Cardinality(T) <= Cardinality(S)
      /\ Cardinality(T) \in Nat /\ Cardinality(S) \in Nat
  BY <1>4, FS_Subset, FS_CardinalityType
<1> QED BY <1>3, <1>4, <1>5

\* Between the writes of two services and any number of handlers, and after exceptions and
\* stops, a dataset nobody writes to holds the pixels, layout and header of one message and
\* whole lists of labels, unless a part of it was torn by a stop or an extent that changed.
THEOREM DatasetsWhole == Spec => []WholeUnlessTorn
<1>1. Spec => []IInv
  BY Invariance
<1>2. IInv => WholeUnlessTorn
  BY InvWhole
<1> QED BY <1>1, <1>2, PTL

\* Whatever the index names can be read from the file by each service, with the labels the
\* index finds it by.
THEOREM IndexReadable == Spec => []IndexedReadable
<1>1. Spec => []IInv
  BY Invariance
<1>2. IInv => IndexedReadable
  BY InvReadable
<1> QED BY <1>1, <1>2, PTL

\* An upload that was answered with success stays in the index, with its labels, through
\* later uploads of the same uuid, their failures, and restarts.
THEOREM AcknowledgedKept == Spec => []AckedKept
<1>1. Spec => []IInv
  BY Invariance
<1>2. IInv => AckedKept
  BY InvKept
<1> QED BY <1>1, <1>2, PTL

\* A header in the file is in the index, or its upload is still under way or has failed,
\* although no lock is held around both.
THEOREM IndexFollowsFile == Spec => []IndexCurrent
<1>1. Spec => []IInv
  BY Invariance
<1>2. IInv => IndexCurrent
  BY DEF IInv
<1> QED BY <1>1, <1>2, PTL

\* There are never more datasets that end the startup than the server was stopped times.
THEOREM FatalByStops == Spec => []FatalBounded
<1>1. Spec => []IInv
  BY Invariance
<1>2. IInv => FatalBounded
  BY InvFatal
<1> QED BY <1>1, <1>2, PTL

=============================================================================
