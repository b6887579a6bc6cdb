-------------------------- MODULE PointCloudProofs --------------------------
(***************************************************************************)
(* Proofs about PointCloud: the layout and the shape of a message survive  *)
(* every change of it, what the server reads of one is inside its data and *)
(* is its own, what is stored under a uuid is one message with its box,    *)
(* and the index knows the box that is in the file.                        *)
(***************************************************************************)
EXTENDS PointCloud, FiniteSetTheorems, WellFoundedInduction, TLAPS

-----------------------------------------------------------------------------
(* Induction over the natural numbers, by the smallest number that is not  *)
(* in a set.                                                               *)

LEMMA Induction ==
  ASSUME NEW P, 0 \in P, \A n \in Nat : n \in P => n + 1 \in P
  PROVE  Nat \subseteq P
<1> SUFFICES ASSUME NEW k \in Nat, k \notin P PROVE FALSE
  OBVIOUS
<1> DEFINE R == {ss \in Nat \X Nat : ss[1] < ss[2]}
           T == Nat \ P
<1>1. IsWellFoundedOn(R, Nat)
  BY NatLessThanWellFounded, Zenon DEF OpToRel
<1>2. T \subseteq Nat /\ k \in T /\ 0 \notin T /\ \A n \in Nat : n + 1 \in T => n \in T
  OBVIOUS
<1> HIDE DEF T
<1>3. PICK x \in T : \A y \in T : ~(<<y, x>> \in R)
  <2> HIDE DEF R
  <2> QED BY <1>1, <1>2, WFMin, Zenon
<1>4. x \in Nat /\ x # 0
  BY <1>2
<1>5. x - 1 \in Nat /\ (x - 1) + 1 = x
  BY <1>4
<1>6. x - 1 \in T
  BY <1>2, <1>5
<1>7. <<x - 1, x>> \in R
  BY <1>4, <1>5
<1> QED BY <1>3, <1>6, <1>7

-----------------------------------------------------------------------------
(* The fields of a message one after the other.                            *)

\* A field with the offset it was given.
StoredField ==
  [name : Names, count : Nat \ {0}, datatype : Datatypes \cup {"UNSET"}, offset : Nat]

\* The bytes of all its elements.
Bytes(f) == f.count * SizeOfPointField[f.datatype]

\* Each field ends before the next one begins, and the last one before the point does.
LaidOut(fields, step) ==
  /\ \A i \in DOMAIN fields : /\ fields[i].datatype \in Datatypes
                              /\ fields[i].offset + Bytes(fields[i]) <= step
  /\ \A i, j \in DOMAIN fields : i < j => fields[i].offset + Bytes(fields[i]) <= fields[j].offset

\* What a call that sets the fields returns.
Layouts == {a \in [fields : Seq(StoredField), offset : Nat, threw : BOOLEAN] :
              ~a.threw => LaidOut(a.fields, a.offset)}

LEMMA SizesAre ==
  /\ SizeOfPointField \in [Datatypes -> {1, 2, 4, 8}]
  /\ "FLOAT32" \in Datatypes /\ SizeOfPointField["FLOAT32"] = 4
BY DEF SizeOfPointField, Datatypes

LEMMA BytesAre ==
  ASSUME NEW f \in StoredField, f.datatype \in Datatypes
  PROVE  /\ Bytes(f) \in Nat \ {0} /\ SizeOfPointField[f.datatype] \in Nat \ {0}
         /\ SizeOfPointField[f.datatype] <= Bytes(f)
<1>1. f.count \in Nat \ {0} /\ SizeOfPointField[f.datatype] \in {1, 2, 4, 8}
  BY SizesAre DEF StoredField
<1>2. PICK n \in Nat \ {0} : n = f.count
  BY <1>1
<1>3. PICK b \in {1, 2, 4, 8} : b = SizeOfPointField[f.datatype]
  BY <1>1
<1>4. n * b \in Nat \ {0} /\ b <= n * b
  BY <1>2, <1>3
<1> QED BY <1>2, <1>3, <1>4 DEF Bytes

LEMMA NoFieldsLaidOut == NoFields \in Layouts
BY DEF NoFields, Layouts, LaidOut

\* A field more is put behind the others.
LEMMA AddKeepsLayout ==
  ASSUME NEW a \in Layouts, NEW f \in FieldType
  PROVE  AddPointField(a, f) \in Layouts
<1>1. CASE a.threw
  BY <1>1 DEF AddPointField
<1>2. CASE ~a.threw
  <2>1. PICK fields \in Seq(StoredField) : fields = a.fields
    BY DEF Layouts
  <2>2. PICK step \in Nat : step = a.offset
    BY DEF Layouts
  <2>3. LaidOut(fields, step)
    BY <1>2, <2>1, <2>2 DEF Layouts
  <2> DEFINE new == [name |-> f.name, count |-> f.count, datatype |-> f.datatype, offset |-> step]
  <2>4. new \in StoredField
    BY DEF FieldType, StoredField
  <2>5. PICK e \in StoredField : e = new
    BY <2>4
  <2>6. e.offset = step /\ e.datatype = f.datatype /\ e.count = f.count
    BY <2>5
  <2> HIDE DEF new
  <2>7. Append(fields, e) \in Seq(StoredField)
    OBVIOUS
  <2>8. PICK fields2 \in Seq(StoredField) : fields2 = Append(fields, e)
    BY <2>7
  <2>9. CASE f.datatype \in Datatypes
    <3>1. AddPointField(a, f) = [fields |-> fields2, offset |-> step + Bytes(e), threw |-> FALSE]
      BY <1>2, <2>1, <2>2, <2>5, <2>6, <2>8, <2>9 DEF AddPointField, Bytes, new
    <3>2. Bytes(e) \in Nat \ {0}
      BY <2>6, <2>9, BytesAre
    <3>3. LaidOut(fields2, step + Bytes(e))
      <4>1. /\ DOMAIN fields2 = 1 .. Len(fields) + 1 /\ DOMAIN fields = 1 .. Len(fields)
            /\ \A i \in DOMAIN fields : fields2[i] = fields[i]
            /\ fields2[Len(fields) + 1] = e /\ Len(fields) \in Nat
        BY <2>8
      <4>2. \A i \in DOMAIN fields : Bytes(fields[i]) \in Nat /\ fields[i].offset \in Nat
        <5> SUFFICES ASSUME NEW i \in DOMAIN fields
                     PROVE  Bytes(fields[i]) \in Nat /\ fields[i].offset \in Nat
          OBVIOUS
        <5>1. fields[i] \in StoredField /\ fields[i].datatype \in Datatypes
          BY <2>3 DEF LaidOut
        <5> QED BY <5>1, BytesAre DEF StoredField
      <4>3. \A i \in DOMAIN fields2 : /\ fields2[i].datatype \in Datatypes
                                      /\ fields2[i].offset + Bytes(fields2[i]) <= step + Bytes(e)
        BY <2>3, <2>6, <2>9, <3>2, <4>1, <4>2 DEF LaidOut
      <4>4. ASSUME NEW i \in DOMAIN fields2, NEW j \in DOMAIN fields2, i < j
            PROVE  fields2[i].offset + Bytes(fields2[i]) <= fields2[j].offset
        <5>1. i \in DOMAIN fields /\ fields2[i] = fields[i]
          BY <4>1, <4>4
        <5>2. CASE j \in DOMAIN fields
          BY <2>3, <4>1, <4>4, <5>1, <5>2 DEF LaidOut
        <5>3. CASE j \notin DOMAIN fields
          <6>1. fields2[j].offset = step
            BY <2>6, <4>1, <5>3
          <6> QED BY <2>3, <5>1, <6>1 DEF LaidOut
        <5> QED BY <5>2, <5>3
      <4> QED BY <4>3, <4>4 DEF LaidOut
    <3> QED BY <3>1, <3>2, <3>3 DEF Layouts
  <2>10. CASE f.datatype \notin Datatypes
    <3>1. step + 0 = step
      OBVIOUS
    <3>2. AddPointField(a, f) = [fields |-> fields2, offset |-> step, threw |-> TRUE]
      BY <1>2, <2>1, <2>2, <2>5, <2>8, <2>10, <3>1 DEF AddPointField, new
    <3> QED BY <3>2 DEF Layouts
  <2> QED BY <2>9, <2>10
<1> QED BY <1>1, <1>2 DEF Layouts

\* So are the fields a name stands for, with their padding.
LEMMA AddByStringKeepsLayout ==
  ASSUME NEW a \in Layouts, NEW name
  PROVE  AddByString(a, name) \in Layouts
<1>1. \A n \in Names : Float(n) \in FieldType
  <2>1. "FLOAT32" \in Datatypes
    BY SizesAre
  <2>2. 1 \in Nat \ {0}
    OBVIOUS
  <2> QED BY <2>1, <2>2 DEF Float, FieldType
<1>2. ASSUME NEW b \in Layouts, NEW k \in Nat
      PROVE  Pad(b, k) \in Layouts
  <2>1. PICK step \in Nat : step = b.offset
    BY DEF Layouts
  <2>2. Pad(b, k) = [b EXCEPT !.offset = step + k * 4]
    BY <2>1, SizesAre DEF Pad
  <2>3. PICK more \in Nat : more = step + k * 4 /\ step <= more
    OBVIOUS
  <2>4. b \in [fields : Seq(StoredField), offset : Nat, threw : BOOLEAN]
    BY DEF Layouts
  <2>5. /\ Pad(b, k) \in [fields : Seq(StoredField), offset : Nat, threw : BOOLEAN]
        /\ Pad(b, k).offset = more /\ Pad(b, k).fields = b.fields /\ Pad(b, k).threw = b.threw
    BY <2>2, <2>3, <2>4
  <2>6. ASSUME LaidOut(b.fields, step) PROVE LaidOut(b.fields, more)
    <3>1. \A i \in DOMAIN b.fields : b.fields[i].offset + Bytes(b.fields[i]) \in Nat
      <4> SUFFICES ASSUME NEW i \in DOMAIN b.fields
                   PROVE  b.fields[i].offset + Bytes(b.fields[i]) \in Nat
        OBVIOUS
      <4>1. b.fields[i] \in StoredField /\ b.fields[i].datatype \in Datatypes
        BY <2>4, <2>6 DEF LaidOut
      <4> QED BY <4>1, BytesAre DEF StoredField
    <3> QED BY <2>3, <2>6, <3>1 DEF LaidOut
  <2> QED BY <2>1, <2>5, <2>6 DEF Layouts
<1>3. {"x", "y", "z", "rgb", "rgba"} \subseteq Names
  BY DEF Names
<1>4. CASE a.threw
  BY <1>4 DEF AddByString
<1>5. CASE ~a.threw /\ name = "xyz"
  <2>1. PICK b \in Layouts : b = AddPointField(a, Float("x"))
    BY <1>1, <1>3, AddKeepsLayout
  <2>2. PICK c \in Layouts : c = AddPointField(b, Float("y"))
    BY <1>1, <1>3, AddKeepsLayout
  <2>3. PICK d \in Layouts : d = AddPointField(c, Float("z"))
    BY <1>1, <1>3, AddKeepsLayout
  <2>4. AddByString(a, name) = Pad(d, 1)
    BY <1>5, <2>1, <2>2, <2>3 DEF AddByString
  <2> QED BY <1>2, <2>4
<1>6. CASE ~a.threw /\ name \in {"rgb", "rgba"}
  <2>1. PICK b \in Layouts : b = AddPointField(a, Float(name))
    BY <1>1, <1>3, <1>6, AddKeepsLayout
  <2>2. AddByString(a, name) = Pad(b, 3)
    BY <1>6, <2>1 DEF AddByString
  <2> QED BY <1>2, <2>2
<1>7. CASE ~a.threw /\ name \notin {"xyz", "rgb", "rgba"}
  <2>1. AddByString(a, name) = [a EXCEPT !.threw = TRUE]
    BY <1>7 DEF AddByString
  <2> QED BY <2>1 DEF Layouts
<1> QED BY <1>4, <1>5, <1>6, <1>7 DEF Layouts
-----------------------------------------------------------------------------
(* Fields that are set one by one are laid out.                             *)

\* By induction over the fields.
LEMMA AddFieldsLaysOut ==
  ASSUME NEW fs \in Seq(FieldType)
  PROVE  AddFields(fs) \in Layouts
<1> DEFINE Added(g, n) ==
             /\ DOMAIN g = 0 .. n /\ g[0] = NoFields
             /\ \A i \in 1 .. n : g[i] = AddPointField(g[i - 1], fs[i])
           P == {n \in Nat : n <= Len(fs) => \E g : Added(g, n) /\ g[n] \in Layouts}
           added[i \in 0 .. Len(fs)] ==
             IF i = 0 THEN NoFields ELSE AddPointField(added[i - 1], fs[i])
           IsAdded(g) == g = [i \in 0 .. Len(fs) |->
                                IF i = 0 THEN NoFields ELSE AddPointField(g[i - 1], fs[i])]
<1>1. Len(fs) \in Nat
  OBVIOUS
<1>2. 0 \in P
  <2>1. Added([i \in 0 .. 0 |-> NoFields], 0)
    OBVIOUS
  <2> QED BY <2>1, NoFieldsLaidOut
<1>3. ASSUME NEW n \in Nat, n \in P PROVE n + 1 \in P
  <2> SUFFICES ASSUME n + 1 <= Len(fs) PROVE \E g : Added(g, n + 1) /\ g[n + 1] \in Layouts
    OBVIOUS
  <2>1. PICK g : Added(g, n) /\ g[n] \in Layouts
    BY <1>1, <1>3
  <2>2. fs[n + 1] \in FieldType
    BY <1>1
  <2> DEFINE h == [i \in 0 .. n + 1 |-> IF i <= n THEN g[i] ELSE AddPointField(g[n], fs[n + 1])]
  <2>3. Added(h, n + 1) /\ h[n + 1] = AddPointField(g[n], fs[n + 1])
    BY <2>1
  <2>4. h[n + 1] \in Layouts
    <3> HIDE DEF h
    <3> QED BY <2>1, <2>2, <2>3, AddKeepsLayout
  <2> QED BY <2>3, <2>4
<1>4. Len(fs) \in P
  <2> HIDE DEF P
  <2> QED BY <1>1, <1>2, <1>3, Induction
<1>5. PICK g : Added(g, Len(fs)) /\ g[Len(fs)] \in Layouts
  BY <1>4
<1>6. IsAdded([i \in 0 .. Len(fs) |-> g[i]])
  BY <1>5
<1>7. IsAdded(added)
  BY <1>6
<1>8. AddFields(fs) = added[Len(fs)]
  BY DEF AddFields
<1>9. \A i \in 0 .. Len(fs) : added[i] = g[i]
  <2> DEFINE Q == {n \in Nat : n <= Len(fs) => added[n] = g[n]}
  <2> HIDE DEF added
  <2>1. 0 \in Q
    BY <1>1, <1>5, <1>7
  <2>2. ASSUME NEW n \in Nat, n \in Q PROVE n + 1 \in Q
    BY <1>1, <1>5, <1>7, <2>2
  <2>3. Nat \subseteq Q
    <3> HIDE DEF Q
    <3> QED BY <2>1, <2>2, Induction
  <2> QED BY <1>1, <2>3
<1> QED
  <2> HIDE DEF added
  <2> QED BY <1>1, <1>5, <1>8, <1>9

LEMMA AddFieldsByStringLaysOut ==
  ASSUME NEW names \in Seq(STRING)
  PROVE  AddFieldsByString(names) \in Layouts
<1> DEFINE Added(g, n) ==
             /\ DOMAIN g = 0 .. n /\ g[0] = NoFields
             /\ \A i \in 1 .. n : g[i] = AddByString(g[i - 1], names[i])
           P == {n \in Nat : n <= Len(names) => \E g : Added(g, n) /\ g[n] \in Layouts}
           added[i \in 0 .. Len(names)] ==
             IF i = 0 THEN NoFields ELSE AddByString(added[i - 1], names[i])
           IsAdded(g) == g = [i \in 0 .. Len(names) |->
                                IF i = 0 THEN NoFields ELSE AddByString(g[i - 1], names[i])]
<1>1. Len(names) \in Nat
  OBVIOUS
<1>2. 0 \in P
  <2>1. Added([i \in 0 .. 0 |-> NoFields], 0)
    OBVIOUS
  <2> QED BY <2>1, NoFieldsLaidOut
<1>3. ASSUME NEW n \in Nat, n \in P PROVE n + 1 \in P
  <2> SUFFICES ASSUME n + 1 <= Len(names) PROVE \E g : Added(g, n + 1) /\ g[n + 1] \in Layouts
    OBVIOUS
  <2>1. PICK g : Added(g, n) /\ g[n] \in Layouts
    BY <1>1, <1>3
  <2> DEFINE h == [i \in 0 .. n + 1 |-> IF i <= n THEN g[i] ELSE AddByString(g[n], names[n + 1])]
  <2>2. Added(h, n + 1) /\ h[n + 1] = AddByString(g[n], names[n + 1])
    BY <2>1
  <2>3. h[n + 1] \in Layouts
    <3> HIDE DEF h
    <3> QED BY <2>1, <2>2, AddByStringKeepsLayout
  <2> QED BY <2>2, <2>3
<1>4. Len(names) \in P
  <2> HIDE DEF P
  <2> QED BY <1>1, <1>2, <1>3, Induction
<1>5. PICK g : Added(g, Len(names)) /\ g[Len(names)] \in Layouts
  BY <1>4
<1>6. IsAdded([i \in 0 .. Len(names) |-> g[i]])
  BY <1>5
<1>7. IsAdded(added)
  BY <1>6
<1>8. AddFieldsByString(names) = added[Len(names)]
  BY DEF AddFieldsByString
<1>9. \A i \in 0 .. Len(names) : added[i] = g[i]
  <2> DEFINE Q == {n \in Nat : n <= Len(names) => added[n] = g[n]}
  <2> HIDE DEF added
  <2>1. 0 \in Q
    BY <1>1, <1>5, <1>7
  <2>2. ASSUME NEW n \in Nat, n \in Q PROVE n + 1 \in Q
    BY <1>1, <1>5, <1>7, <2>2
  <2>3. Nat \subseteq Q
    <3> HIDE DEF Q
    <3> QED BY <2>1, <2>2, Induction
  <2> QED BY <1>1, <2>3
<1> QED
  <2> HIDE DEF added
  <2> QED BY <1>1, <1>5, <1>8, <1>9
-----------------------------------------------------------------------------
(* What is read of a point is inside it.                                    *)

\* Numbers have a smallest one; numbers up to n a largest.
LEMMA SmallestNumber ==
  ASSUME NEW S \in SUBSET Nat, S # {}
  PROVE  Min(S) \in S /\ \A y \in S : Min(S) <= y
<1> DEFINE R == {ss \in Nat \X Nat : ss[1] < ss[2]}
<1>1. IsWellFoundedOn(R, Nat)
  BY NatLessThanWellFounded, Zenon DEF OpToRel
<1>2. PICK x \in S : \A y \in S : ~(<<y, x>> \in R)
  <2> HIDE DEF R
  <2> QED BY <1>1, WFMin, Zenon
<1>3. \A y \in S : x <= y
  <2> SUFFICES ASSUME NEW y \in S, y < x PROVE FALSE
    OBVIOUS
  <2>1. <<y, x>> \in R
    OBVIOUS
  <2> QED BY <1>2, <2>1
<1> QED BY <1>3 DEF Min

LEMMA LargestNumber ==
  ASSUME NEW n \in Nat, NEW S \in SUBSET (1 .. n), S # {}
  PROVE  Max(S) \in S /\ \A y \in S : y <= Max(S)
<1> DEFINE T == {n - i : i \in S}
<1>1. \A i \in S : n - i \in Nat
  OBVIOUS
<1>2. T \in SUBSET Nat /\ T # {}
  BY <1>1
<1>3. PICK m \in T : \A y \in T : m <= y
  <2> HIDE DEF T
  <2> QED BY <1>2, SmallestNumber
<1>4. PICK i \in S : m = n - i
  BY <1>3
<1>5. \A j \in S : j <= i
  <2> SUFFICES ASSUME NEW j \in S PROVE j <= i
    OBVIOUS
  <2>1. n - j \in T
    OBVIOUS
  <2> QED BY <1>3, <1>4, <2>1
<1> QED BY <1>5 DEF Max

\* What a message is, and that its fields are laid out when the last call did not throw.
MessageType ==
  [fields : Seq(StoredField), height : Nat, width : Nat, is_bigendian : BOOLEAN,
   point_step : Nat, row_step : Nat, size : Nat]

LayoutInv ==
  /\ cloud \in MessageType /\ threw \in BOOLEAN
  /\ ~threw => LaidOut(cloud.fields, cloud.point_step)

\* The fields the writer picks are fields of the message.
LEMMA FirstFieldIs ==
  ASSUME NEW c \in MessageType, NEW names, NEW k \in DOMAIN c.fields, c.fields[k].name \in names
  PROVE  \E i \in DOMAIN c.fields : /\ FirstField(c, names) = c.fields[i]
                                    /\ c.fields[i].name \in names /\ i <= k
<1> DEFINE S == {i \in DOMAIN c.fields : c.fields[i].name \in names}
<1>1. DOMAIN c.fields \subseteq Nat
  BY DEF MessageType
<1>2. S \in SUBSET Nat /\ k \in S
  BY <1>1
<1>3. Min(S) \in S /\ \A y \in S : Min(S) <= y
  <2> HIDE DEF S
  <2> QED BY <1>2, SmallestNumber
<1> QED BY <1>2, <1>3 DEF FirstField

LEMMA OtherFieldIs ==
  ASSUME NEW c \in MessageType, NEW k \in DOMAIN c.fields
  PROVE  \E i \in DOMAIN c.fields : /\ OtherField(c, c.fields[k].name) = c.fields[i]
                                    /\ c.fields[i].name = c.fields[k].name /\ k <= i
<1> DEFINE S == {i \in DOMAIN c.fields : c.fields[i].name = c.fields[k].name}
<1>1. Len(c.fields) \in Nat /\ DOMAIN c.fields = 1 .. Len(c.fields)
  BY DEF MessageType
<1>2. S \in SUBSET (1 .. Len(c.fields)) /\ k \in S
  BY <1>1
<1>3. Max(S) \in S /\ \A y \in S : y <= Max(S)
  <2> HIDE DEF S
  <2> QED BY <1>1, <1>2, LargestNumber
<1> QED BY <1>2, <1>3 DEF OtherField

LEMMA FieldFacts ==
  ASSUME NEW c \in MessageType, NEW i \in DOMAIN c.fields, LaidOut(c.fields, c.point_step)
  PROVE  /\ c.fields[i] \in StoredField /\ c.fields[i].offset \in Nat
         /\ c.fields[i].count \in Nat \ {0}
         /\ c.fields[i].datatype \in Datatypes
         /\ SizeOfPointField[c.fields[i].datatype] \in Nat \ {0}
         /\ Bytes(c.fields[i]) \in Nat
         /\ SizeOfPointField[c.fields[i].datatype] <= Bytes(c.fields[i])
         /\ c.fields[i].offset + Bytes(c.fields[i]) <= c.point_step
<1>1. c.fields[i] \in StoredField
  BY DEF MessageType
<1>2. c.fields[i].datatype \in Datatypes /\ c.fields[i].offset + Bytes(c.fields[i]) <= c.point_step
  BY DEF LaidOut
<1>3. c.fields[i].offset \in Nat /\ c.fields[i].count \in Nat \ {0}
  BY <1>1 DEF StoredField
<1> QED BY <1>1, <1>2, <1>3, BytesAre

Channels == {"r", "g", "b", "a"}
Colour(c) == FirstField(c, {"rgb", "rgba"})

LEMMA NoChannelIsAName == Channels \cap Names = {}
BY ConstantsAssumption DEF Channels, Names

LEMMA NamesOf ==
  ASSUME NEW c \in MessageType
  PROVE  FieldNames(c) \subseteq Names
<1> SUFFICES ASSUME NEW i \in DOMAIN c.fields PROVE c.fields[i].name \in Names
  BY DEF FieldNames
<1>1. c.fields \in Seq(StoredField)
  BY DEF MessageType
<1>2. c.fields[i] \in StoredField
  BY <1>1
<1> QED BY <1>2 DEF StoredField

LEMMA ColourIs ==
  ASSUME NEW c \in MessageType, HasRgb(c) \/ HasRgba(c)
  PROVE  /\ \E i \in DOMAIN c.fields : /\ c.fields[i].name \in {"rgb", "rgba"}
                                       /\ Colour(c) = c.fields[i]
         /\ \A ch \in Channels : SetField(c, ch) = Colour(c).offset + Shift(c.is_bigendian, ch)
<1>1. PICK k \in DOMAIN c.fields : c.fields[k].name \in {"rgb", "rgba"}
  BY DEF HasRgb, HasRgba, FieldNames
<1>2. \E i \in DOMAIN c.fields : c.fields[i].name \in {"rgb", "rgba"} /\ Colour(c) = c.fields[i]
  BY <1>1, FirstFieldIs DEF Colour
<1>3. \A ch \in Channels : ch \notin FieldNames(c)
  BY NamesOf, NoChannelIsAName
<1> QED BY <1>2, <1>3 DEF SetField, Colour

\* A channel is one of the four bytes of its field, whatever the order of the bytes.
LEMMA ShiftIs ==
  /\ \A big \in BOOLEAN, ch \in Channels : Shift(big, ch) \in 0 .. 3
  /\ \A big \in BOOLEAN, ch, d \in Channels : ch # d => Shift(big, ch) # Shift(big, d)
  /\ \A big \in BOOLEAN, j \in 1 .. 4 :
       PackedOrder(big)[j] \in Channels /\ Shift(big, PackedOrder(big)[j]) = j - 1
<1>1. ASSUME NEW big \in BOOLEAN
      PROVE  /\ \A ch \in Channels : Shift(big, ch) \in 0 .. 3
             /\ \A ch, d \in Channels : ch # d => Shift(big, ch) # Shift(big, d)
             /\ \A j \in 1 .. 4 :
                  PackedOrder(big)[j] \in Channels /\ Shift(big, PackedOrder(big)[j]) = j - 1
  <2>1. CASE big
    <3>1. Shift(big, "r") = 1 /\ Shift(big, "g") = 2 /\ Shift(big, "b") = 3 /\ Shift(big, "a") = 0
      BY <2>1 DEF Shift
    <3>2. PackedOrder(big) = <<"a", "r", "g", "b">>
      BY <2>1 DEF PackedOrder
    <3> QED BY <3>1, <3>2 DEF Channels
  <2>2. CASE ~big
    <3>1. Shift(big, "r") = 2 /\ Shift(big, "g") = 1 /\ Shift(big, "b") = 0 /\ Shift(big, "a") = 3
      BY <2>2 DEF Shift
    <3>2. PackedOrder(big) = <<"b", "g", "r", "a">>
      BY <2>2 DEF PackedOrder
    <3> QED BY <3>1, <3>2 DEF Channels
  <2> QED BY <2>1, <2>2
<1> QED BY <1>1

\* Where a read is: a coordinate in the first field of its name, a channel in the colour,
\* and another field at its first occurrence, with the size of the last.
CoordinateRead(c, r) ==
  /\ r[1] \in {"x", "y", "z"} /\ r[2] = 4 /\ r[3] = c.height * c.width
  /\ \E i \in DOMAIN c.fields : c.fields[i].name = r[1] /\ SetField(c, r[1]) = c.fields[i].offset
ChannelRead(c, r) ==
  /\ r[1] \in Channels /\ r[2] = 1 /\ r[3] = c.height * c.width
  /\ HasRgb(c) \/ HasRgba(c)
OtherRead(c, r) ==
  /\ r[1] \in OtherNames
  /\ \E i, j \in DOMAIN c.fields :
       /\ i <= j /\ c.fields[i].name = r[1] /\ c.fields[j].name = r[1]
       /\ SetField(c, r[1]) = c.fields[i].offset
       /\ c.fields[j].datatype \in Datatypes
       /\ r[2] = SizeOfPointField[c.fields[j].datatype] /\ r[3] = c.fields[j].count

\* A read is of a coordinate, of a channel or of another field.
LEMMA ReadIs ==
  ASSUME NEW c \in MessageType, NEW r \in Reads(c)
  PROVE  CoordinateRead(c, r) \/ ChannelRead(c, r) \/ OtherRead(c, r)
<1>1. ASSUME NEW n \in FieldNames(c)
      PROVE  \E i \in DOMAIN c.fields :
                c.fields[i].name = n /\ SetField(c, n) = c.fields[i].offset
                                        /\ \A k \in DOMAIN c.fields : c.fields[k].name = n => i <= k
  <2>1. PICK k \in DOMAIN c.fields : c.fields[k].name = n
    BY DEF FieldNames
  <2> DEFINE S == {i \in DOMAIN c.fields : c.fields[i].name \in {n}}
  <2>2. S \in SUBSET Nat /\ k \in S
    BY <2>1 DEF MessageType
  <2>3. Min(S) \in S /\ \A y \in S : Min(S) <= y
    <3> HIDE DEF S
    <3> QED BY <2>2, SmallestNumber
  <2>4. SetField(c, n) = c.fields[Min(S)].offset
    BY DEF SetField, FirstField
  <2> QED BY <2>3, <2>4
<1>2. CASE HasPoints(c) /\ r \in {"x", "y", "z"} \X {4} \X {c.height * c.width}
  <2>1. r[1] \in {"x", "y", "z"} /\ r[2] = 4 /\ r[3] = c.height * c.width
    BY <1>2
  <2>2. r[1] \in FieldNames(c)
    BY <1>2, <2>1 DEF HasPoints
  <2> QED BY <1>1, <2>1, <2>2 DEF CoordinateRead
<1>3. CASE \/ HasRgb(c) /\ r \in {"r", "g", "b"} \X {1} \X {c.height * c.width}
           \/ HasRgba(c) /\ r \in {"r", "g", "b", "a"} \X {1} \X {c.height * c.width}
  BY <1>3 DEF ChannelRead, Channels
<1>4. ASSUME NEW name \in OtherFields(c), OtherField(c, name).datatype \in Datatypes,
             r = <<name, SizeOfPointField[OtherField(c, name).datatype], OtherField(c, name).count>>
      PROVE  OtherRead(c, r)
  <2>1. name \in FieldNames(c) /\ name \in OtherNames
    BY <1>4 DEF OtherFields
  <2>2. PICK i \in DOMAIN c.fields :
          c.fields[i].name = name /\ SetField(c, name) = c.fields[i].offset
                                     /\ \A k \in DOMAIN c.fields : c.fields[k].name = name => i <= k
    BY <1>1, <2>1
  <2>3. PICK j \in DOMAIN c.fields : OtherField(c, name) = c.fields[j] /\ c.fields[j].name = name
    BY <2>2, OtherFieldIs
  <2>4. r[1] = name /\ r[2] = SizeOfPointField[c.fields[j].datatype] /\ r[3] = c.fields[j].count
    BY <1>4, <2>3
  <2> QED BY <1>4, <2>1, <2>2, <2>3, <2>4 DEF OtherRead
<1>5. \/ HasPoints(c) /\ r \in {"x", "y", "z"} \X {4} \X {c.height * c.width}
      \/ HasRgb(c) /\ r \in {"r", "g", "b"} \X {1} \X {c.height * c.width}
      \/ HasRgba(c) /\ r \in {"r", "g", "b", "a"} \X {1} \X {c.height * c.width}
      \/ \E name \in OtherFields(c) :
           /\ OtherField(c, name).datatype \in Datatypes
           /\ r = <<name, SizeOfPointField[OtherField(c, name).datatype],
                   OtherField(c, name).count>>
  BY DEF Reads
<1> QED BY <1>2, <1>3, <1>4, <1>5

\* What is read of a point ends before the next point.
LEMMA ReadInPoint ==
  ASSUME NEW c \in MessageType, LaidOut(c.fields, c.point_step), FourBytes(c), NEW r \in Reads(c)
  PROVE  /\ SetField(c, r[1]) \in Nat /\ r[2] \in Nat \ {0} /\ r[3] \in Nat
         /\ SetField(c, r[1]) + r[2] <= c.point_step
<1>1. c.height \in Nat /\ c.width \in Nat /\ c.height * c.width \in Nat /\ c.point_step \in Nat
      /\ c.is_bigendian \in BOOLEAN
  BY DEF MessageType
<1>2. CASE CoordinateRead(c, r)
  <2>1. PICK i \in DOMAIN c.fields :
          c.fields[i].name = r[1] /\ SetField(c, r[1]) = c.fields[i].offset
    BY <1>2 DEF CoordinateRead
  <2>2. SizeOfPointField[c.fields[i].datatype] >= 4
    BY <1>2, <2>1 DEF CoordinateRead, FourBytes
  <2>3. /\ c.fields[i].offset \in Nat /\ SizeOfPointField[c.fields[i].datatype] \in Nat
        /\ Bytes(c.fields[i]) \in Nat
        /\ SizeOfPointField[c.fields[i].datatype] <= Bytes(c.fields[i])
        /\ c.fields[i].offset + Bytes(c.fields[i]) <= c.point_step
    BY FieldFacts
  <2> QED BY <1>1, <1>2, <2>1, <2>2, <2>3 DEF CoordinateRead
<1>3. CASE ChannelRead(c, r)
  <2>1. PICK i \in DOMAIN c.fields : c.fields[i].name \in {"rgb", "rgba"} /\ Colour(c) = c.fields[i]
    BY <1>3, ColourIs DEF ChannelRead
  <2>2. SizeOfPointField[c.fields[i].datatype] >= 4
    BY <2>1 DEF FourBytes
  <2>3. /\ c.fields[i].offset \in Nat /\ SizeOfPointField[c.fields[i].datatype] \in Nat
        /\ Bytes(c.fields[i]) \in Nat
        /\ SizeOfPointField[c.fields[i].datatype] <= Bytes(c.fields[i])
        /\ c.fields[i].offset + Bytes(c.fields[i]) <= c.point_step
    BY FieldFacts
  <2>4. /\ SetField(c, r[1]) = c.fields[i].offset + Shift(c.is_bigendian, r[1])
        /\ Shift(c.is_bigendian, r[1]) \in 0 .. 3
    BY <1>1, <1>3, <2>1, ColourIs, ShiftIs DEF ChannelRead
  <2> QED BY <1>1, <1>3, <2>2, <2>3, <2>4 DEF ChannelRead
<1>4. CASE OtherRead(c, r)
  <2>1. PICK i, j \in DOMAIN c.fields :
          /\ i <= j /\ SetField(c, r[1]) = c.fields[i].offset
          /\ r[2] = SizeOfPointField[c.fields[j].datatype] /\ r[3] = c.fields[j].count
    BY <1>4 DEF OtherRead
  <2>2. /\ c.fields[j].offset \in Nat /\ SizeOfPointField[c.fields[j].datatype] \in Nat \ {0}
        /\ Bytes(c.fields[j]) \in Nat /\ c.fields[j].count \in Nat
        /\ SizeOfPointField[c.fields[j].datatype] <= Bytes(c.fields[j])
        /\ c.fields[j].offset + Bytes(c.fields[j]) <= c.point_step
    BY FieldFacts
  <2>3. c.fields[i].offset \in Nat /\ Bytes(c.fields[i]) \in Nat
    BY FieldFacts
  <2>4. i \in Nat /\ j \in Nat
    BY DEF MessageType
  <2>5. c.fields[i].offset <= c.fields[j].offset
    <3>1. CASE i = j
      BY <2>3, <3>1
    <3>2. CASE i < j
      BY <2>2, <2>3, <3>2 DEF LaidOut
    <3> QED BY <2>1, <2>4, <3>1, <3>2
  <2> QED BY <1>1, <2>1, <2>2, <2>3, <2>5
<1> QED BY <1>2, <1>3, <1>4, ReadIs

-----------------------------------------------------------------------------
(* The shape of a message.                                                 *)

\* The row step is right at all times, modulo the size of an unsigned int; the size
\* of the data as long as it can be computed.
ShapeOf(c) ==
  /\ c.height \in Nat /\ c.width \in Nat /\ c.point_step \in Nat
  /\ c.row_step = RowStep(c.width, c.point_step)
  /\ Fits(c) => c.size = c.height * c.width * c.point_step

\* A message has these parts, whatever its fields are.
IsMessage(c) ==
  /\ c = [p \in DOMAIN c |-> c[p]]
  /\ DOMAIN c = {"fields", "height", "width", "is_bigendian", "point_step", "row_step", "size"}

LEMMA ProductMonotone ==
  ASSUME NEW h \in Nat \ {0}, NEW a \in Nat
  PROVE a <= h * a
<1>1. PICK k \in Nat : h = k + 1
  BY SMT
<1>2. h * a = k * a + a
  BY <1>1, SMT
<1>3. k * a \in Nat
  BY <1>1, SMT
<1> QED
  BY <1>2, <1>3, SMT

LEMMA SmallModulo ==
  ASSUME NEW a \in Nat, NEW b \in Nat \ {0}, a < b
  PROVE a % b = a
BY SMT

\* What can be counted for all rows can be counted for one.
LEMMA RowFits ==
  ASSUME NEW h \in Nat \ {0}, NEW w \in Nat, NEW s \in Nat, h * w * s < UIntSize
  PROVE RowStep(w, s) = w * s
<1>1. w * s \in Nat /\ h * w * s = h * (w * s)
  BY SMT
<1>2. w * s < UIntSize
  BY <1>1, ProductMonotone, ConstantsAssumption, SMT
<1> QED
  BY <1>1, <1>2, SmallModulo, ConstantsAssumption DEF RowStep

LEMMA FieldsKeepShape ==
  ASSUME NEW c, NEW a, IsMessage(c), ShapeOf(c), a.offset \in Nat
  PROVE IsMessage(WithFields(c, a)) /\ ShapeOf(WithFields(c, a))
<1> DEFINE d == WithFields(c, a)
<1>1. CASE a.threw
  <2>1. d = [c EXCEPT !.fields = a.fields]
    BY <1>1 DEF WithFields
  <2>2. /\ d.height = c.height /\ d.width = c.width /\ d.point_step = c.point_step
        /\ d.row_step = c.row_step /\ d.size = c.size /\ IsMessage(d)
    BY <2>1 DEF IsMessage
  <2> QED
    BY <2>2 DEF ShapeOf, Fits
<1>2. CASE ~a.threw
  <2>1. d = [c EXCEPT !.fields = a.fields, !.point_step = a.offset,
                      !.row_step = RowStep(c.width, a.offset),
                      !.size = (c.height * RowStep(c.width, a.offset)) % UIntSize]
    BY <1>2 DEF WithFields
  <2>2. /\ d.height = c.height /\ d.width = c.width /\ d.point_step = a.offset
        /\ d.row_step = RowStep(c.width, a.offset)
        /\ d.size = (c.height * RowStep(c.width, a.offset)) % UIntSize
        /\ IsMessage(d)
    BY <2>1 DEF IsMessage
  <2>3. ASSUME Fits(d) PROVE d.size = d.height * d.width * d.point_step
    <3>1. CASE c.height = 0
      <4>1. RowStep(c.width, a.offset) \in Nat
        BY ConstantsAssumption, SMT DEF RowStep, ShapeOf
      <4>2. d.size = 0
        BY <2>2, <3>1, <4>1, SmallModulo, ConstantsAssumption
      <4> QED
        BY <2>2, <3>1, <4>2 DEF ShapeOf
    <3>2. CASE c.height # 0
      <4>1. RowStep(c.width, a.offset) = c.width * a.offset
        BY <2>2, <2>3, <3>2, RowFits DEF ShapeOf, Fits
      <4>2. c.height * (c.width * a.offset) = c.height * c.width * a.offset
        BY SMT DEF ShapeOf
      <4>3. c.height * c.width * a.offset \in Nat
        BY SMT DEF ShapeOf
      <4> QED
        BY <2>2, <2>3, <4>1, <4>2, <4>3, SmallModulo, ConstantsAssumption DEF Fits
    <3> QED
      BY <3>1, <3>2
  <2> QED
    BY <2>2, <2>3 DEF ShapeOf
<1> QED
  BY <1>1, <1>2

LEMMA ResizedKeepsShape ==
  ASSUME NEW c, NEW n \in Nat, IsMessage(c), ShapeOf(c)
  PROVE IsMessage(Resized(c, n)) /\ ShapeOf(Resized(c, n))
<1> DEFINE d == Resized(c, n)
<1>1. CASE c.height # 1 /\ c.width = 1
  <2>1. d = [c EXCEPT !.height = n, !.size = n * c.point_step]
    BY <1>1 DEF Resized
  <2>2. /\ d.height = n /\ d.width = 1 /\ d.point_step = c.point_step
        /\ d.row_step = c.row_step /\ d.size = n * c.point_step /\ IsMessage(d)
    BY <1>1, <2>1 DEF IsMessage
  <2>3. d.size = d.height * d.width * d.point_step
    BY <2>2, SMT DEF ShapeOf
  <2> QED
    BY <1>1, <2>2, <2>3 DEF ShapeOf
<1>2. CASE ~(c.height # 1 /\ c.width = 1)
  <2>1. d = [c EXCEPT !.height = 1, !.width = n, !.size = n * c.point_step,
                      !.row_step = RowStep(n, c.point_step)]
    BY <1>2 DEF Resized
  <2>2. /\ d.height = 1 /\ d.width = n /\ d.point_step = c.point_step
        /\ d.row_step = RowStep(n, c.point_step) /\ d.size = n * c.point_step /\ IsMessage(d)
    BY <2>1 DEF IsMessage
  <2>3. d.size = d.height * d.width * d.point_step
    BY <2>2, SMT DEF ShapeOf
  <2> QED
    BY <2>2, <2>3 DEF ShapeOf
<1> QED
  BY <1>1, <1>2

LEMMA ClearedKeepsShape ==
  ASSUME NEW c, IsMessage(c), ShapeOf(c)
  PROVE IsMessage(Cleared(c)) /\ ShapeOf(Cleared(c))
<1> DEFINE d == Cleared(c)
<1>1. \A s \in Nat : RowStep(0, s) = 0
  <2> SUFFICES ASSUME NEW s \in Nat PROVE RowStep(0, s) = 0
    OBVIOUS
  <2>1. 0 * s = 0
    BY SMT
  <2> QED
    BY <2>1, SmallModulo, ConstantsAssumption DEF RowStep
<1>2. CASE c.height # 1 /\ c.width = 1
  <2>1. d = [c EXCEPT !.size = 0, !.height = 0]
    BY <1>2 DEF Cleared
  <2>2. /\ d.height = 0 /\ d.width = 1 /\ d.point_step = c.point_step
        /\ d.row_step = c.row_step /\ d.size = 0 /\ IsMessage(d)
    BY <1>2, <2>1 DEF IsMessage
  <2> QED
    BY <1>2, <2>2 DEF ShapeOf
<1>3. CASE ~(c.height # 1 /\ c.width = 1)
  <2>1. \/ d = [c EXCEPT !.size = 0, !.row_step = 0, !.width = 0]
        \/ d = [c EXCEPT !.size = 0, !.row_step = 0, !.width = 0, !.height = 0]
    BY <1>3 DEF Cleared
  <2>2. /\ d.height \in Nat /\ d.width = 0 /\ d.point_step = c.point_step
        /\ d.row_step = 0 /\ d.size = 0 /\ IsMessage(d)
    <3>1. CASE d = [c EXCEPT !.size = 0, !.row_step = 0, !.width = 0]
      <4>1. /\ d.height = c.height /\ d.width = 0 /\ d.point_step = c.point_step
            /\ d.row_step = 0 /\ d.size = 0 /\ IsMessage(d)
        BY <3>1 DEF IsMessage
      <4> QED
        BY <4>1 DEF ShapeOf
    <3>2. CASE d = [c EXCEPT !.size = 0, !.row_step = 0, !.width = 0, !.height = 0]
      <4>1. /\ d.height = 0 /\ d.width = 0 /\ d.point_step = c.point_step
            /\ d.row_step = 0 /\ d.size = 0 /\ IsMessage(d)
        BY <3>2 DEF IsMessage
      <4> QED
        BY <4>1
    <3> QED
      BY <2>1, <3>1, <3>2
  <2>3. d.height * d.width * d.point_step = 0
    BY <2>2, SMT DEF ShapeOf
  <2> QED
    BY <1>1, <2>2, <2>3 DEF ShapeOf
<1> QED
  BY <1>2, <1>3

\* The shape of a message, as far as it is to be kept by each step.
ShapeInv == IsMessage(cloud) /\ ShapeOf(cloud)

LEMMA ShapeInvKept == ShapeInv /\ [Next]_vars => ShapeInv'
<1> SUFFICES ASSUME ShapeInv, [Next]_vars PROVE ShapeInv'
  OBVIOUS
<1>1. CASE ClientStep
  <2>1. ASSUME NEW fs \in FieldLists, SetPointCloud2Fields(fs) PROVE ShapeInv'
    <3>1. AddFields(fs).offset \in Nat
      BY AddFieldsLaysOut, ConstantsAssumption DEF Layouts
    <3> QED BY <2>1, <3>1, FieldsKeepShape DEF SetPointCloud2Fields, ShapeInv
  <2>2. ASSUME NEW names \in NameLists, SetPointCloud2FieldsByString(names) PROVE ShapeInv'
    <3>1. AddFieldsByString(names).offset \in Nat
      BY AddFieldsByStringLaysOut, ConstantsAssumption DEF Layouts
    <3> QED BY <2>2, <3>1, FieldsKeepShape DEF SetPointCloud2FieldsByString, ShapeInv
  <2>3. ASSUME NEW n \in Sizes, Resize(n) PROVE ShapeInv'
    BY <2>3, ResizedKeepsShape, ConstantsAssumption DEF Resize, ShapeInv
  <2>4. CASE Clear
    BY <2>4, ClearedKeepsShape DEF Clear, ShapeInv
  <2> QED
    BY <1>1, <2>1, <2>2, <2>3, <2>4 DEF ClientStep
<1>2. CASE UNCHANGED cloud
  BY <1>2 DEF ShapeInv
<1>3. ASSUME NEW h \in Handlers, NEW u \in Uuids, NEW content \in Contents,
             Transfer(h, u, content)
      PROVE UNCHANGED cloud
  BY <1>3 DEF Transfer, clientVars
<1>4. ASSUME NEW h \in Handlers, UploadStep(h) PROVE UNCHANGED cloud
  BY <1>4 DEF UploadStep, clientVars
<1>5. Restart => UNCHANGED cloud
  BY DEF Restart, clientVars
<1>6. UNCHANGED vars => UNCHANGED cloud
  BY DEF vars
<1> QED
  BY <1>1, <1>2, <1>3, <1>4, <1>5, <1>6 DEF Next

LEMMA ShapeInvAtFirst == Init => ShapeInv
<1> SUFFICES ASSUME Init PROVE ShapeInv
  OBVIOUS
<1>1. PICK s \in Starts :
        cloud = [fields |-> <<>>, height |-> s[1], width |-> s[2], is_bigendian |-> s[3],
                 point_step |-> 0, row_step |-> 0, size |-> 0]
  BY DEF Init
<1>2. s[1] \in Nat /\ s[2] \in Nat
  BY ConstantsAssumption
<1>3. s[2] * 0 = 0 /\ s[1] * s[2] * 0 = 0
  BY <1>2, SMT
<1>4. RowStep(s[2], 0) = 0
  BY <1>3, SmallModulo, ConstantsAssumption DEF RowStep
<1> QED
  BY <1>1, <1>2, <1>3, <1>4 DEF ShapeInv, IsMessage, ShapeOf

\* Whatever sequence of calls of PointCloud2Modifier a message goes through, with any
\* fields and sizes, its data is that of its rows and its rows that of their points,
\* as long as its bytes can be counted in an unsigned int.
THEOREM MessageShape == Spec => []ShapeKept
<1>1. ShapeInv => ShapeKept
  <2> SUFFICES ASSUME ShapeInv, Fits(cloud), cloud.height > 0
               PROVE cloud.row_step = cloud.width * cloud.point_step
    BY DEF ShapeInv, ShapeOf, ShapeKept
  <2>1. /\ cloud.height \in Nat \ {0} /\ cloud.width \in Nat /\ cloud.point_step \in Nat
        /\ cloud.row_step = RowStep(cloud.width, cloud.point_step)
    BY DEF ShapeInv, ShapeOf
  <2>2. cloud.height * cloud.width * cloud.point_step < UIntSize
    BY DEF Fits
  <2>3. RowStep(cloud.width, cloud.point_step) = cloud.width * cloud.point_step
    BY <2>1, <2>2, RowFits
  <2> QED
    BY <2>1, <2>3
<1> QED
  BY <1>1, ShapeInvAtFirst, ShapeInvKept, PTL DEF Spec

-----------------------------------------------------------------------------
(* The box the index knows a cloud by.                                     *)

Labels == {"idle", "lock", "write", "box", "add"}
IsSequence(s) == \E S : s \in Seq(S)

\* An upload has one handler, which is not done with it before it is answered.
Handling ==
  /\ IsSequence(uploads) /\ Len(uploads) \in Nat
  /\ \A n \in 1 .. Len(uploads) : uploads[n].uuid \in Uuids
  /\ pc \in [Handlers -> Labels]
  /\ job \in [Handlers -> 0 .. Len(uploads)]
  /\ DOMAIN box = Handlers
  /\ \A h \in Handlers : pc[h] # "idle" => job[h] # 0
  /\ \A h, g \in Handlers : job[h] = job[g] /\ job[h] # 0 => h = g
  /\ acked \subseteq 1 .. Len(uploads)
  /\ \A h \in Handlers : job[h] \notin acked

\* A bounding box in the file was sent under the uuid it is stored under.
BoxSent ==
  /\ file \in [Uuids -> [Parts -> Nat]]
  /\ \A u \in Uuids : file[u]["boundingbox"] # 0 =>
       /\ file[u]["boundingbox"] \in 1 .. Len(uploads)
       /\ uploads[file[u]["boundingbox"]].uuid = u

\* A handler that finds its own box in the file has read it.
BoxRead ==
  \A h \in Handlers :
    pc[h] = "add" /\ file[Upload(h).uuid]["boundingbox"] = job[h] => box[h] = job[h]

IndexInv == Handling /\ BoxSent /\ BoxRead /\ BoxIndexed

LEMMA PartsHaveBox == "boundingbox" \in Parts
BY DEF Parts, CloudParts

\* What a longer sequence of uploads keeps.
LEMMA UploadsAppended ==
  ASSUME NEW S, NEW s \in Seq(S), NEW e
  PROVE /\ Append(s, e) \in Seq(S \cup {e})
        /\ Len(s) \in Nat /\ Len(Append(s, e)) = Len(s) + 1
        /\ Append(s, e)[Len(s) + 1] = e
        /\ \A n \in 1 .. Len(s) : Append(s, e)[n] = s[n]
<1>1. s \in Seq(S \cup {e})
  OBVIOUS
<1> QED
  BY <1>1, SMT

LEMMA InitIndex == Init => IndexInv
<1> SUFFICES ASSUME Init PROVE IndexInv
  OBVIOUS
<1>1. IsSequence(uploads) /\ Len(uploads) = 0
  <2>1. uploads \in Seq({}) /\ Len(uploads) = 0
    BY DEF Init
  <2> QED
    BY <2>1 DEF IsSequence
<1>2. Handling
  BY <1>1 DEF Init, Handling, Labels
<1>3. file \in [Uuids -> [Parts -> Nat]] /\ \A u \in Uuids : file[u]["boundingbox"] = 0
  BY PartsHaveBox DEF Init
<1> QED
  BY <1>2, <1>3 DEF Init, IndexInv, BoxSent, BoxRead, BoxIndexed

\* One lemma per step: it keeps the invariant.
LEMMA IdleTransfer ==
  ASSUME IndexInv, NEW h \in Handlers, NEW u \in Uuids, NEW content \in Contents,
         Transfer(h, u, content)
  PROVE IndexInv'
<1> DEFINE e == [cloud |-> cloud, uuid |-> u, general |-> content[1], bb |-> content[2],
                 coordinates |-> content[3]]
<1>1. PICK S : uploads \in Seq(S)
  BY DEF IndexInv, Handling, IsSequence
<1>2. uploads' = Append(uploads, e) /\ e.uuid = u
  BY DEF Transfer
<1>3. /\ Len(uploads) \in Nat /\ Len(uploads') = Len(uploads) + 1
      /\ uploads'[Len(uploads) + 1].uuid = u
      /\ \A n \in 1 .. Len(uploads) : uploads'[n] = uploads[n]
      /\ IsSequence(uploads')
  <2>1. /\ uploads' \in Seq(S \cup {e})
        /\ Len(uploads) \in Nat /\ Len(uploads') = Len(uploads) + 1
        /\ uploads'[Len(uploads) + 1] = e
        /\ \A n \in 1 .. Len(uploads) : uploads'[n] = uploads[n]
    <3> HIDE DEF e
    <3> QED
      BY <1>1, <1>2, UploadsAppended
  <2>2. IsSequence(uploads')
    <3> HIDE DEF e
    <3> QED
      BY <2>1 DEF IsSequence
  <2> QED
    BY <1>2, <2>1, <2>2
<1>4. /\ pc[h] = "idle" /\ pc' = [pc EXCEPT ![h] = "lock"]
      /\ job' = [job EXCEPT ![h] = Len(uploads) + 1]
      /\ UNCHANGED <<box, file, index, acked>>
  BY DEF Transfer, Goto, fileVars
<1>5. Handling'
  <2>1. \A n \in 1 .. Len(uploads') : uploads'[n].uuid \in Uuids
    BY <1>3 DEF IndexInv, Handling
  <2>2. pc' \in [Handlers -> Labels] /\ job' \in [Handlers -> 0 .. Len(uploads')]
    BY <1>3, <1>4 DEF IndexInv, Handling, Labels
  <2>3. \A g \in Handlers : pc'[g] # "idle" => job'[g] # 0
    BY <1>3, <1>4 DEF IndexInv, Handling
  <2>4. \A f, g \in Handlers : job'[f] = job'[g] /\ job'[f] # 0 => f = g
    BY <1>3, <1>4 DEF IndexInv, Handling
  <2>5. acked' \subseteq 1 .. Len(uploads') /\ \A g \in Handlers : job'[g] \notin acked'
    BY <1>3, <1>4 DEF IndexInv, Handling
  <2> QED
    BY <1>3, <1>4, <2>1, <2>2, <2>3, <2>4, <2>5 DEF IndexInv, Handling
<1>6. BoxSent'
  BY <1>3, <1>4 DEF IndexInv, BoxSent
<1>7. BoxRead'
  <2> SUFFICES ASSUME NEW g \in Handlers, pc'[g] = "add",
                      file'[uploads'[job'[g]].uuid]["boundingbox"] = job'[g]
               PROVE box'[g] = job'[g]
    BY DEF BoxRead, Upload
  <2>1. g # h /\ pc[g] = "add" /\ job'[g] = job[g]
    BY <1>4 DEF IndexInv, Handling
  <2>2. job[g] \in 1 .. Len(uploads)
    BY <1>3, <2>1 DEF IndexInv, Handling
  <2> QED
    BY <1>3, <1>4, <2>1, <2>2 DEF IndexInv, BoxRead, Upload
<1>8. BoxIndexed'
  BY <1>4 DEF IndexInv, BoxIndexed
<1> QED
  BY <1>5, <1>6, <1>7, <1>8 DEF IndexInv

\* The steps of an upload that leave file, index and answers alone.
LEMMA QuietStep ==
  ASSUME IndexInv, NEW h \in Handlers, NEW label \in Labels \ {"add"},
         \/ pc' = [pc EXCEPT ![h] = label] /\ pc[h] # "idle" /\ UNCHANGED <<job, box>>
         \/ Leave(h),
         UNCHANGED <<uploads, file, index, acked>>
  PROVE IndexInv'
<1>1. /\ pc' \in [Handlers -> Labels] /\ DOMAIN box' = Handlers
      /\ \A g \in Handlers : pc'[g] = "add" =>
           pc[g] = "add" /\ job'[g] = job[g] /\ box'[g] = box[g]
  BY DEF IndexInv, Handling, Leave, Goto, Labels
<1>2. /\ job' \in [Handlers -> 0 .. Len(uploads)]
      /\ \A g \in Handlers : job'[g] \in {job[g], 0}
      /\ \A g \in Handlers : pc'[g] # "idle" => job'[g] # 0
  <2>1. Len(uploads) \in Nat
    BY DEF IndexInv, Handling
  <2> QED
    BY <2>1 DEF IndexInv, Handling, Leave, Goto
<1>3. Handling'
  <2>1. \A f, g \in Handlers : job'[f] = job'[g] /\ job'[f] # 0 => f = g
    BY <1>2 DEF IndexInv, Handling
  <2>2. \A g \in Handlers : job'[g] \notin acked
    BY <1>2 DEF IndexInv, Handling
  <2> QED
    BY <1>1, <1>2, <2>1, <2>2 DEF IndexInv, Handling
<1>4. BoxSent' /\ BoxIndexed'
  BY DEF IndexInv, BoxSent, BoxIndexed
<1>5. BoxRead'
  BY <1>1 DEF IndexInv, BoxRead, Upload
<1> QED
  BY <1>3, <1>4, <1>5 DEF IndexInv

LEMMA WriteKeepsIndex ==
  ASSUME IndexInv, NEW h \in Handlers, Write(h), UNCHANGED uploads
  PROVE IndexInv'
<1> DEFINE c == Head(calls[h])
           u == Upload(h).uuid
<1>1. /\ pc[h] = "write" /\ UNCHANGED <<pc, job, box, index, acked>>
      /\ file' = file \/ file' = [file EXCEPT ![u][c.part] = job[h]]
  BY DEF Write
<1>2. Len(uploads) \in Nat /\ job[h] \in 1 .. Len(uploads) /\ u \in Uuids
  BY <1>1 DEF IndexInv, Handling, Upload
<1>3. /\ file' \in [Uuids -> [Parts -> Nat]]
      /\ \A v \in Uuids : \/ file'[v]["boundingbox"] = file[v]["boundingbox"]
                          \/ v = u /\ file'[v]["boundingbox"] = job[h]
  <2>1. file \in [Uuids -> [Parts -> Nat]] /\ job[h] \in Nat
    BY <1>2 DEF IndexInv, BoxSent
  <2>2. CASE file' = file
    BY <2>1, <2>2
  <2>3. CASE file' = [file EXCEPT ![u][c.part] = job[h]]
    <3> HIDE DEF c, u
    <3>1. file' = [file EXCEPT ![u] = [file[u] EXCEPT ![c.part] = job[h]]]
      BY <2>3
    <3>2. [file[u] EXCEPT ![c.part] = job[h]] \in [Parts -> Nat]
      BY <1>2, <2>1
    <3>3. \/ file'[u]["boundingbox"] = file[u]["boundingbox"]
          \/ file'[u]["boundingbox"] = job[h]
      BY <1>2, <2>1, <3>1, PartsHaveBox
    <3> QED
      BY <1>2, <2>1, <3>1, <3>2, <3>3
  <2> QED
    BY <1>1, <2>2, <2>3
<1>4. Handling'
  BY <1>1 DEF IndexInv, Handling
<1>5. BoxSent'
  BY <1>2, <1>3 DEF IndexInv, BoxSent, Upload
<1>6. BoxRead'
  <2> SUFFICES ASSUME NEW g \in Handlers, pc[g] = "add",
                      file'[Upload(g).uuid]["boundingbox"] = job[g]
               PROVE box[g] = job[g]
    BY <1>1 DEF BoxRead, Upload
  <2>1. job[g] \in 1 .. Len(uploads) /\ job[g] # job[h]
    BY <1>1, <1>2 DEF IndexInv, Handling
  <2>2. Upload(g).uuid \in Uuids
    BY <2>1 DEF IndexInv, Handling, Upload
  <2> QED
    BY <1>3, <2>1, <2>2 DEF IndexInv, BoxRead
<1>7. BoxIndexed'
  BY <1>1, <1>3 DEF IndexInv, Handling, BoxIndexed
<1> QED
  BY <1>4, <1>5, <1>6, <1>7 DEF IndexInv

LEMMA LoadKeepsIndex ==
  ASSUME IndexInv, NEW h \in Handlers, LoadBoundingBox(h), UNCHANGED uploads
  PROVE IndexInv'
<1>1. /\ pc[h] = "box" /\ pc' = [pc EXCEPT ![h] = "add"]
      /\ box' = [box EXCEPT ![h] = file[Upload(h).uuid]["boundingbox"]]
      /\ UNCHANGED <<job, file, index, acked>>
  BY DEF LoadBoundingBox, Goto, fileVars
<1>2. Handling'
  <2>1. pc' \in [Handlers -> Labels] /\ DOMAIN box' = Handlers
    BY <1>1 DEF IndexInv, Handling, Labels
  <2>2. \A g \in Handlers : pc'[g] # "idle" => job'[g] # 0
    BY <1>1 DEF IndexInv, Handling
  <2> QED
    BY <1>1, <2>1, <2>2 DEF IndexInv, Handling
<1>3. BoxRead'
  BY <1>1 DEF IndexInv, Handling, BoxRead, Upload
<1> QED
  BY <1>1, <1>2, <1>3 DEF IndexInv, BoxSent, BoxIndexed

LEMMA AddKeepsIndex ==
  ASSUME IndexInv, NEW h \in Handlers, AddDataset(h), UNCHANGED uploads
  PROVE IndexInv'
<1> DEFINE entry == [uuid |-> Upload(h).uuid, header |-> job[h], box |-> box[h]]
<1>1. /\ pc[h] = "add" /\ index' = index \cup {entry} /\ acked' = acked \cup {job[h]}
      /\ pc' = [pc EXCEPT ![h] = "idle"] /\ job' = [job EXCEPT ![h] = 0]
      /\ box' = [box EXCEPT ![h] = 0] /\ UNCHANGED file
  BY DEF AddDataset, Leave, Goto, fileVars
<1>2. Len(uploads) \in Nat /\ job[h] \in 1 .. Len(uploads)
  BY <1>1 DEF IndexInv, Handling
<1>3. Handling'
  <2>1. /\ pc' \in [Handlers -> Labels] /\ job' \in [Handlers -> 0 .. Len(uploads)]
        /\ DOMAIN box' = Handlers /\ acked' \subseteq 1 .. Len(uploads)
    <3>1. pc' \in [Handlers -> Labels]
      BY <1>1 DEF IndexInv, Handling, Labels
    <3>2. job' \in [Handlers -> 0 .. Len(uploads)]
      BY <1>1, <1>2 DEF IndexInv, Handling
    <3>3. DOMAIN box' = Handlers /\ acked' \subseteq 1 .. Len(uploads)
      BY <1>1, <1>2 DEF IndexInv, Handling
    <3> QED
      BY <3>1, <3>2, <3>3
  <2>2. \A g \in Handlers : g # h => pc'[g] = pc[g] /\ job'[g] = job[g] /\ job[g] # job[h]
    BY <1>1, <1>2 DEF IndexInv, Handling
  <2>3. job'[h] = 0 /\ pc'[h] = "idle"
    BY <1>1 DEF IndexInv, Handling
  <2>4. \A g \in Handlers : job'[g] \notin acked'
    BY <1>1, <1>2, <2>1, <2>2, <2>3 DEF IndexInv, Handling
  <2> QED
    BY <2>1, <2>2, <2>3, <2>4 DEF IndexInv, Handling
<1>4. BoxRead'
  BY <1>1 DEF IndexInv, Handling, BoxRead, Upload
<1>5. BoxIndexed'
  <2> SUFFICES ASSUME NEW u \in Uuids, file[u]["boundingbox"] \in acked'
               PROVE \E e \in index' : e.uuid = u /\ e.box = file[u]["boundingbox"]
    BY <1>1 DEF BoxIndexed
  <2>1. CASE file[u]["boundingbox"] \in acked
    BY <1>1, <2>1 DEF IndexInv, BoxIndexed
  <2>2. CASE file[u]["boundingbox"] = job[h]
    <3>1. Upload(h).uuid = u
      BY <1>2, <2>2 DEF IndexInv, BoxSent, Upload
    <3>2. box[h] = job[h]
      BY <1>1, <2>2, <3>1 DEF IndexInv, BoxRead
    <3>3. entry \in index' /\ entry.uuid = u /\ entry.box = file[u]["boundingbox"]
      BY <1>1, <2>2, <3>1, <3>2
    <3> QED
      BY <3>3
  <2> QED
    BY <1>1, <2>1, <2>2
<1> QED
  BY <1>1, <1>3, <1>4, <1>5 DEF IndexInv, BoxSent

LEMMA RestartKeepsIndex == IndexInv /\ Restart => IndexInv'
<1> SUFFICES ASSUME IndexInv, Restart PROVE IndexInv'
  OBVIOUS
<1>1. /\ pc' = [h \in Handlers |-> "idle"] /\ job' = [h \in Handlers |-> 0]
      /\ box' = [h \in Handlers |-> 0] /\ index' = {} /\ acked' = {}
      /\ UNCHANGED <<uploads, file>>
  BY DEF Restart, fileVars
<1>2. Len(uploads) \in Nat
  BY DEF IndexInv, Handling
<1>3. Handling'
  BY <1>1, <1>2 DEF IndexInv, Handling, Labels
<1> QED
  BY <1>1, <1>3 DEF IndexInv, BoxSent, BoxRead, BoxIndexed

LEMMA IndexInvKept == IndexInv /\ [Next]_vars => IndexInv'
<1> SUFFICES ASSUME IndexInv, [Next]_vars PROVE IndexInv'
  OBVIOUS
<1>1. CASE UNCHANGED <<uploads, pc, job, box, file, index, acked>>
  BY <1>1 DEF IndexInv, Handling, BoxSent, BoxRead, BoxIndexed, Upload
<1>2. ClientStep => UNCHANGED <<uploads, pc, job, box, file, index, acked>>
  BY DEF ClientStep, SetPointCloud2Fields, SetPointCloud2FieldsByString, Resize, Clear, Edit,
         fileVars
<1>3. ASSUME NEW h \in Handlers, NEW u \in Uuids, NEW content \in Contents,
             Transfer(h, u, content)
      PROVE IndexInv'
  BY <1>3, IdleTransfer
<1>4. ASSUME NEW h \in Handlers, UploadStep(h) PROVE IndexInv'
  <2>1. UNCHANGED uploads
    BY <1>4 DEF UploadStep
  <2>2. CASE Lock(h)
    <3>1. /\ pc' = [pc EXCEPT ![h] = "write"] /\ pc[h] # "idle"
          /\ UNCHANGED <<uploads, job, box, file, index, acked>>
      BY <2>1, <2>2 DEF Lock, Goto, fileVars
    <3>2. "write" \in Labels \ {"add"}
      BY DEF Labels
    <3> QED
      BY <3>1, <3>2, QuietStep
  <2>3. CASE Write(h)
    BY <2>1, <2>3, WriteKeepsIndex
  <2>4. CASE Fail(h)
    BY <2>1, <2>4, QuietStep DEF Fail, fileVars, Labels
  <2>5. CASE Unlock(h)
    <3>1. /\ pc' = [pc EXCEPT ![h] = "box"] /\ pc[h] # "idle"
          /\ UNCHANGED <<uploads, job, box, file, index, acked>>
      BY <2>1, <2>5 DEF Unlock, Goto, fileVars
    <3>2. "box" \in Labels \ {"add"}
      BY DEF Labels
    <3> QED
      BY <3>1, <3>2, QuietStep
  <2>6. CASE LoadBoundingBox(h)
    BY <2>1, <2>6, LoadKeepsIndex
  <2>7. CASE NoBoundingBox(h)
    BY <2>1, <2>7, QuietStep DEF NoBoundingBox, fileVars, Labels
  <2>8. CASE AddDataset(h)
    BY <2>1, <2>8, AddKeepsIndex
  <2> QED
    BY <1>4, <2>2, <2>3, <2>4, <2>5, <2>6, <2>7, <2>8 DEF UploadStep
<1>5. UNCHANGED vars => UNCHANGED <<uploads, pc, job, box, file, index, acked>>
  BY DEF vars
<1> QED
  BY <1>1, <1>2, <1>3, <1>4, <1>5, RestartKeepsIndex DEF Next

\* However uploads interleave between the write to the file, the read of the box and
\* the index, and whatever stops: the box in the file is in the index, once the upload
\* that wrote it is answered.
THEOREM BoxOfTheIndex == Spec => []BoxIndexed
<1>1. IndexInv => BoxIndexed
  BY DEF IndexInv
<1> QED
  BY <1>1, InitIndex, IndexInvKept, PTL DEF Spec
-----------------------------------------------------------------------------
(* No call of the client breaks the layout.                                 *)

LEMMA RowStepType ==
  ASSUME NEW w \in Nat, NEW s \in Nat
  PROVE  RowStep(w, s) \in Nat
<1>1. w * s \in Nat
  OBVIOUS
<1> QED BY <1>1, ConstantsAssumption DEF RowStep

\* Fields that were set without an exception are laid out in the new point step.
LEMMA SetFieldsKeepsLayout ==
  ASSUME LayoutInv, NEW a \in Layouts, cloud' = WithFields(cloud, a), threw' = a.threw
  PROVE  LayoutInv'
<1>1. /\ a.fields \in Seq(StoredField) /\ a.offset \in Nat /\ a.threw \in BOOLEAN
      /\ ~a.threw => LaidOut(a.fields, a.offset)
  BY DEF Layouts
<1>2. CASE a.threw
  <2>1. cloud' = [cloud EXCEPT !.fields = a.fields]
    BY <1>2 DEF WithFields
  <2>2. cloud' \in MessageType
    BY <1>1, <2>1 DEF LayoutInv, MessageType
  <2> QED BY <1>1, <1>2, <2>2 DEF LayoutInv
<1>3. CASE ~a.threw
  <2>1. PICK row \in Nat : row = RowStep(cloud.width, a.offset)
    BY <1>1, RowStepType DEF LayoutInv, MessageType
  <2>2. (cloud.height * row) % UIntSize \in Nat
    <3>1. cloud.height \in Nat
      BY DEF LayoutInv, MessageType
    <3>2. cloud.height * row \in Nat
      BY <3>1
    <3> QED BY <3>2, ConstantsAssumption
  <2>3. PICK size \in Nat : size = (cloud.height * row) % UIntSize
    BY <2>2
  <2>4. cloud' = [cloud EXCEPT !.fields = a.fields, !.point_step = a.offset,
                               !.row_step = row, !.size = size]
    BY <1>3, <2>1, <2>3 DEF WithFields
  <2>5. cloud' \in MessageType /\ cloud'.fields = a.fields /\ cloud'.point_step = a.offset
    BY <1>1, <2>4 DEF LayoutInv, MessageType
  <2> QED BY <1>1, <2>5 DEF LayoutInv
<1> QED BY <1>1, <1>2, <1>3

\* What resize and clear make of a message, with the fields and the step of a point as
\* they are.
LEMMA SameLayout ==
  ASSUME NEW c \in MessageType, NEW n \in Nat
  PROVE  /\ Resized(c, n) \in MessageType /\ Cleared(c) \in MessageType
         /\ Resized(c, n).fields = c.fields /\ Resized(c, n).point_step = c.point_step
         /\ Cleared(c).fields = c.fields /\ Cleared(c).point_step = c.point_step
<1>1. PICK step \in Nat : step = c.point_step
  BY DEF MessageType
<1>2. PICK row \in Nat : row = RowStep(n, step)
  BY RowStepType
<1>3. PICK size \in Nat : size = n * step
  OBVIOUS
<1>4. ASSUME NEW d, \/ d = [c EXCEPT !.height = n, !.size = size]
                    \/ d = [c EXCEPT !.height = 1, !.width = n, !.size = size, !.row_step = row]
      PROVE  d \in MessageType /\ d.fields = c.fields /\ d.point_step = c.point_step
  <2>1. CASE d = [c EXCEPT !.height = n, !.size = size]
    BY <2>1 DEF MessageType
  <2>2. CASE d = [c EXCEPT !.height = 1, !.width = n, !.size = size, !.row_step = row]
    BY <2>2 DEF MessageType
  <2> QED BY <1>4, <2>1, <2>2
<1>5. ASSUME NEW d, \/ d = [c EXCEPT !.size = 0, !.row_step = 0, !.width = 0]
                    \/ d = [c EXCEPT !.size = 0, !.height = 0]
                    \/ d = [c EXCEPT !.size = 0, !.row_step = 0, !.width = 0, !.height = 0]
      PROVE  d \in MessageType /\ d.fields = c.fields /\ d.point_step = c.point_step
  <2>1. CASE d = [c EXCEPT !.size = 0, !.row_step = 0, !.width = 0]
    BY <2>1 DEF MessageType
  <2>2. CASE d = [c EXCEPT !.size = 0, !.height = 0]
    BY <2>2 DEF MessageType
  <2>3. CASE d = [c EXCEPT !.size = 0, !.row_step = 0, !.width = 0, !.height = 0]
    BY <2>3 DEF MessageType
  <2> QED BY <1>5, <2>1, <2>2, <2>3
<1>6. \/ Resized(c, n) = [c EXCEPT !.height = n, !.size = size]
      \/ Resized(c, n) = [c EXCEPT !.height = 1, !.width = n, !.size = size, !.row_step = row]
  BY <1>1, <1>2, <1>3 DEF Resized
<1>7. \/ Cleared(c) = [c EXCEPT !.size = 0, !.row_step = 0, !.width = 0]
      \/ Cleared(c) = [c EXCEPT !.size = 0, !.height = 0]
      \/ Cleared(c) = [c EXCEPT !.size = 0, !.row_step = 0, !.width = 0, !.height = 0]
  BY DEF Cleared
<1>8. PICK d : d = Resized(c, n)
  OBVIOUS
<1>9. PICK e : e = Cleared(c)
  OBVIOUS
<1>10. d \in MessageType /\ d.fields = c.fields /\ d.point_step = c.point_step
  BY <1>4, <1>6, <1>8
<1>11. e \in MessageType /\ e.fields = c.fields /\ e.point_step = c.point_step
  BY <1>5, <1>7, <1>9
<1> QED BY <1>8, <1>9, <1>10, <1>11

LEMMA UploadLeavesCloud ==
  ASSUME \/ \E h \in Handlers : \/ \E u \in Uuids, content \in Contents : Transfer(h, u, content)
                                \/ UploadStep(h)
         \/ Restart
  PROVE  UNCHANGED <<cloud, threw>>
BY DEF Transfer, UploadStep, Restart, clientVars

\* The layout holds in every state.
LEMMA LayoutInvHolds == Spec => []LayoutInv
<1>1. Init => LayoutInv
  <2> SUFFICES ASSUME Init PROVE LayoutInv
    OBVIOUS
  <2>1. PICK s \in Starts :
          cloud = [fields |-> <<>>, height |-> s[1], width |-> s[2], is_bigendian |-> s[3],
                   point_step |-> 0, row_step |-> 0, size |-> 0]
    BY DEF Init
  <2>2. s[1] \in Nat /\ s[2] \in Nat /\ s[3] \in BOOLEAN
    BY ConstantsAssumption
  <2>3. <<>> \in Seq(StoredField) /\ LaidOut(<<>>, 0)
    BY DEF LaidOut
  <2> QED BY <2>1, <2>2, <2>3 DEF Init, LayoutInv, MessageType
<1>2. LayoutInv /\ [Next]_vars => LayoutInv'
  <2> SUFFICES ASSUME LayoutInv, [Next]_vars PROVE LayoutInv'
    OBVIOUS
  <2>1. ASSUME NEW fs \in FieldLists, SetPointCloud2Fields(fs) PROVE LayoutInv'
    <3>1. AddFields(fs) \in Layouts
      BY AddFieldsLaysOut, ConstantsAssumption
    <3> QED BY <2>1, <3>1, SetFieldsKeepsLayout DEF SetPointCloud2Fields
  <2>2. ASSUME NEW names \in NameLists, SetPointCloud2FieldsByString(names) PROVE LayoutInv'
    <3>1. AddFieldsByString(names) \in Layouts
      BY AddFieldsByStringLaysOut, ConstantsAssumption
    <3> QED BY <2>2, <3>1, SetFieldsKeepsLayout DEF SetPointCloud2FieldsByString
  <2>3. ASSUME NEW n \in Sizes, Resize(n) PROVE LayoutInv'
    BY <2>3, SameLayout, ConstantsAssumption DEF Resize, LayoutInv
  <2>4. CASE Clear
    BY <2>4, SameLayout DEF Clear, LayoutInv
  <2>5. CASE UNCHANGED <<cloud, threw>>
    BY <2>5 DEF LayoutInv
  <2>6. UNCHANGED vars => UNCHANGED <<cloud, threw>>
    BY DEF vars
  <2> QED BY <2>1, <2>2, <2>3, <2>4, <2>5, <2>6, UploadLeavesCloud DEF Next, ClientStep
<1> QED BY <1>1, <1>2, PTL DEF Spec

\* Points before the last leave room for one more.
LEMMA PointsInside ==
  ASSUME NEW n \in Nat, NEW step \in Nat, NEW k \in 0 .. n - 1
  PROVE  k * step + step <= n * step
<1>1. PICK m \in Nat : n = k + 1 + m
  <2>1. n - 1 - k \in Nat /\ n = k + 1 + (n - 1 - k)
    OBVIOUS
  <2> QED BY <2>1
<1>2. n * step = k * step + step + m * step
  BY <1>1, SMT
<1>3. m * step \in Nat /\ k * step \in Nat
  OBVIOUS
<1> QED BY <1>2, <1>3

\* However a message was resized, cleared and given fields before it is sent: every byte
\* the server reads of it is inside its data, with the bounds of ReadsInside.
THEOREM ReadsStayInside == Spec => []ReadsInside
<1>1. Spec => []ShapeInv
  <2>1. Init => ShapeInv
    BY ShapeInvAtFirst
  <2> QED BY <2>1, ShapeInvKept, PTL DEF Spec
<1>2. LayoutInv /\ ShapeInv => ReadsInside
  <2> SUFFICES ASSUME LayoutInv, ShapeInv, ~threw, Fits(cloud), FourBytes(cloud),
                      NEW r \in Reads(cloud), r[3] <= cloud.height * cloud.width
               PROVE  /\ \A k \in 0 .. r[3] - 1 : IteratorAt(cloud, r[1], k) + r[2] <= cloud.size
                      /\ IteratorAt(cloud, r[1], cloud.height * cloud.width)
                           = IteratorEnd(cloud, r[1])
    BY DEF ReadsInside
  <2>1. PICK at \in Nat : at = SetField(cloud, r[1])
    BY ReadInPoint DEF LayoutInv
  <2>2. /\ r[2] \in Nat \ {0} /\ r[3] \in Nat /\ at + r[2] <= cloud.point_step
    BY <2>1, ReadInPoint DEF LayoutInv
  <2>3. PICK n \in Nat, step \in Nat : n = cloud.height * cloud.width /\ step = cloud.point_step
    BY DEF LayoutInv, MessageType
  <2>4. cloud.size = n * step
    BY <2>3 DEF ShapeInv, ShapeOf
  <2>5. ASSUME NEW k \in 0 .. r[3] - 1 PROVE at + k * step + r[2] <= n * step
    <3>1. k \in 0 .. n - 1
      BY <2>2, <2>3
    <3>2. k * step + step <= n * step
      BY <3>1, PointsInside
    <3>3. k * step \in Nat /\ n * step \in Nat
      OBVIOUS
    <3> QED BY <2>2, <2>3, <3>2, <3>3
  <2> QED BY <2>1, <2>3, <2>4, <2>5 DEF IteratorAt, IteratorEnd
<1> QED BY <1>1, <1>2, LayoutInvHolds, PTL
-----------------------------------------------------------------------------
(* No two channels share a byte.                                            *)

\* Where a read is inside the field it belongs to.
Home(c, r, i) ==
  /\ r[1] \in {"x", "y", "z"} \cup OtherNames => c.fields[i].name = r[1]
  /\ r[1] \in Channels => c.fields[i] = Colour(c) /\ c.fields[i].name \in {"rgb", "rgba"}
  /\ c.fields[i].offset <= SetField(c, r[1])
  /\ SetField(c, r[1]) + r[2] <= c.fields[i].offset + Bytes(c.fields[i])

\* Every read is inside one field, its home.
LEMMA ReadHome ==
  ASSUME NEW c \in MessageType, LaidOut(c.fields, c.point_step), FourBytes(c), NamesDiffer(c),
         NEW r \in Reads(c)
  PROVE  \E i \in DOMAIN c.fields : Home(c, r, i)
<1>1. /\ "x" \notin Channels /\ "y" \notin Channels /\ "z" \notin Channels
      /\ {"x", "y", "z"} \cap OtherNames = {} /\ OtherNames \cap Channels = {}
  BY ConstantsAssumption DEF Channels
<1>2. CASE CoordinateRead(c, r)
  <2>1. PICK i \in DOMAIN c.fields :
          c.fields[i].name = r[1] /\ SetField(c, r[1]) = c.fields[i].offset
    BY <1>2 DEF CoordinateRead
  <2>2. SizeOfPointField[c.fields[i].datatype] >= 4
    BY <1>2, <2>1 DEF CoordinateRead, FourBytes
  <2>3. /\ c.fields[i].offset \in Nat /\ SizeOfPointField[c.fields[i].datatype] \in Nat
        /\ Bytes(c.fields[i]) \in Nat
        /\ SizeOfPointField[c.fields[i].datatype] <= Bytes(c.fields[i])
    BY FieldFacts
  <2>4. r[1] \notin Channels /\ r[2] = 4
    BY <1>1, <1>2 DEF CoordinateRead
  <2>5. c.fields[i].offset + 4 <= c.fields[i].offset + Bytes(c.fields[i])
    BY <2>2, <2>3
  <2> QED BY <2>1, <2>3, <2>4, <2>5 DEF Home
<1>3. CASE ChannelRead(c, r)
  <2>1. PICK i \in DOMAIN c.fields : c.fields[i].name \in {"rgb", "rgba"} /\ Colour(c) = c.fields[i]
    BY <1>3, ColourIs DEF ChannelRead
  <2>2. SizeOfPointField[c.fields[i].datatype] >= 4
    BY <2>1 DEF FourBytes
  <2>3. /\ c.fields[i].offset \in Nat /\ SizeOfPointField[c.fields[i].datatype] \in Nat
        /\ Bytes(c.fields[i]) \in Nat
        /\ SizeOfPointField[c.fields[i].datatype] <= Bytes(c.fields[i])
    BY FieldFacts
  <2>4. c.is_bigendian \in BOOLEAN
    BY DEF MessageType
  <2>5. PICK k \in 0 .. 3 : k = Shift(c.is_bigendian, r[1])
    BY <1>3, <2>4, ShiftIs DEF ChannelRead
  <2>6. SetField(c, r[1]) = c.fields[i].offset + k
    BY <1>3, <2>1, <2>5, ColourIs DEF ChannelRead
  <2>7. r[1] \in Channels /\ r[2] = 1 /\ r[1] \notin {"x", "y", "z"} \cup OtherNames
    BY <1>1, <1>3 DEF ChannelRead
  <2>8. /\ c.fields[i].offset <= c.fields[i].offset + k
        /\ c.fields[i].offset + k + 1 <= c.fields[i].offset + Bytes(c.fields[i])
    BY <2>2, <2>3
  <2> QED BY <2>1, <2>6, <2>7, <2>8 DEF Home
<1>4. CASE OtherRead(c, r)
  <2>1. PICK i \in DOMAIN c.fields :
          /\ c.fields[i].name = r[1] /\ SetField(c, r[1]) = c.fields[i].offset
          /\ r[2] = SizeOfPointField[c.fields[i].datatype]
    BY <1>4 DEF OtherRead, NamesDiffer
  <2>2. /\ c.fields[i].offset \in Nat /\ SizeOfPointField[c.fields[i].datatype] \in Nat
        /\ Bytes(c.fields[i]) \in Nat
        /\ SizeOfPointField[c.fields[i].datatype] <= Bytes(c.fields[i])
    BY FieldFacts
  <2>3. r[1] \notin Channels
    BY <1>1, <1>4 DEF OtherRead
  <2> QED BY <2>1, <2>2, <2>3 DEF Home
<1> QED BY <1>2, <1>3, <1>4, ReadIs

\* Of two reads with different names one ends before the other begins.
LEMMA ReadsApart ==
  ASSUME NEW c \in MessageType, LaidOut(c.fields, c.point_step), FourBytes(c), NamesDiffer(c),
         NEW r \in Reads(c), NEW s \in Reads(c), r[1] # s[1]
  PROVE  \/ SetField(c, r[1]) + r[2] <= SetField(c, s[1])
         \/ SetField(c, s[1]) + s[2] <= SetField(c, r[1])
<1>1. /\ SetField(c, r[1]) \in Nat /\ r[2] \in Nat /\ SetField(c, s[1]) \in Nat /\ s[2] \in Nat
  BY ReadInPoint
<1>2. PICK i \in DOMAIN c.fields : Home(c, r, i)
  BY ReadHome
<1>3. PICK j \in DOMAIN c.fields : Home(c, s, j)
  BY ReadHome
<1>4. i \in Nat /\ j \in Nat
  BY DEF MessageType
<1>5. /\ c.fields[i].offset \in Nat /\ Bytes(c.fields[i]) \in Nat
      /\ c.fields[j].offset \in Nat /\ Bytes(c.fields[j]) \in Nat
  BY FieldFacts
<1>6. CASE i < j
  <2>1. c.fields[i].offset + Bytes(c.fields[i]) <= c.fields[j].offset
    BY <1>6 DEF LaidOut
  <2> QED BY <1>1, <1>2, <1>3, <1>5, <2>1 DEF Home
<1>7. CASE j < i
  <2>1. c.fields[j].offset + Bytes(c.fields[j]) <= c.fields[i].offset
    BY <1>7 DEF LaidOut
  <2> QED BY <1>1, <1>2, <1>3, <1>5, <2>1 DEF Home
<1>8. CASE i = j
  <2>1. /\ {"rgb", "rgba"} \cap ({"x", "y", "z"} \cup OtherNames) = {}
        /\ Channels \cap ({"x", "y", "z"} \cup OtherNames) = {}
    BY ConstantsAssumption DEF Channels
  <2>2. /\ r[1] \in Channels \/ r[1] \in {"x", "y", "z"} \cup OtherNames
        /\ s[1] \in Channels \/ s[1] \in {"x", "y", "z"} \cup OtherNames
    BY ReadIs DEF CoordinateRead, ChannelRead, OtherRead
  <2>3. r[1] \in Channels /\ s[1] \in Channels
    BY <1>2, <1>3, <1>8, <2>1, <2>2 DEF Home
  <2>4. ChannelRead(c, r) /\ ChannelRead(c, s)
    BY <2>1, <2>3, ReadIs DEF CoordinateRead, OtherRead
  <2>5. r[2] = 1 /\ s[2] = 1 /\ (HasRgb(c) \/ HasRgba(c))
    BY <2>4 DEF ChannelRead
  <2>6. c.is_bigendian \in BOOLEAN
    BY DEF MessageType
  <2>7. PICK m \in 0 .. 3 : m = Shift(c.is_bigendian, r[1])
    BY <2>3, <2>6, ShiftIs
  <2>8. PICK n \in 0 .. 3 : n = Shift(c.is_bigendian, s[1])
    BY <2>3, <2>6, ShiftIs
  <2>9. m # n
    BY <2>3, <2>6, <2>7, <2>8, ShiftIs
  <2>10. SetField(c, r[1]) = c.fields[i].offset + m /\ SetField(c, s[1]) = c.fields[i].offset + n
    <3>1. Colour(c) = c.fields[i]
      BY <1>2, <2>3 DEF Home
    <3> QED BY <2>3, <2>5, <2>7, <2>8, <3>1, ColourIs
  <2> QED BY <1>5, <2>5, <2>9, <2>10
<1> QED BY <1>4, <1>6, <1>7, <1>8

\* However the fields of a message were set: the channels of a colour are the bytes of one
\* field in the order the message says, and no two channels are read from one byte.
THEOREM ColoursOrdered == Spec => []ColoursInOrder
<1>1. ASSUME LayoutInv, ~threw, HasRgb(cloud) \/ HasRgba(cloud)
      PROVE  \E i \in DOMAIN cloud.fields :
               /\ cloud.fields[i].name \in {"rgb", "rgba"}
               /\ \A j \in 1 .. 4 : SetField(cloud, PackedOrder(cloud.is_bigendian)[j])
                                      = cloud.fields[i].offset + j - 1
  <2>1. cloud \in MessageType /\ cloud.is_bigendian \in BOOLEAN
    BY <1>1 DEF LayoutInv, MessageType
  <2>2. PICK i \in DOMAIN cloud.fields :
          cloud.fields[i].name \in {"rgb", "rgba"} /\ Colour(cloud) = cloud.fields[i]
    BY <1>1, <2>1, ColourIs
  <2>3. ASSUME NEW j \in 1 .. 4
        PROVE  SetField(cloud, PackedOrder(cloud.is_bigendian)[j]) = cloud.fields[i].offset + j - 1
    <3>1. PICK ch \in Channels :
            ch = PackedOrder(cloud.is_bigendian)[j] /\ Shift(cloud.is_bigendian, ch) = j - 1
      BY <2>1, ShiftIs
    <3>2. SetField(cloud, ch) = cloud.fields[i].offset + (j - 1)
      BY <1>1, <2>1, <2>2, <3>1, ColourIs
    <3>3. PICK at \in Nat : at = cloud.fields[i].offset
      <4>1. LaidOut(cloud.fields, cloud.point_step)
        BY <1>1 DEF LayoutInv
      <4> QED BY <2>1, <4>1, FieldFacts
    <3>4. at + (j - 1) = at + j - 1
      OBVIOUS
    <3> QED BY <3>1, <3>2, <3>3, <3>4
  <2> QED BY <2>2, <2>3
<1>2. ASSUME LayoutInv, ~threw, FourBytes(cloud), NamesDiffer(cloud),
             NEW r \in Reads(cloud), NEW s \in Reads(cloud), r[1] # s[1]
      PROVE  {SetField(cloud, r[1]), SetField(cloud, r[1]) + r[2] - 1}
               \cap SetField(cloud, s[1]) .. SetField(cloud, s[1]) + s[2] - 1 = {}
  <2>1. cloud \in MessageType /\ LaidOut(cloud.fields, cloud.point_step)
    BY <1>2 DEF LayoutInv
  <2>2. \/ SetField(cloud, r[1]) + r[2] <= SetField(cloud, s[1])
        \/ SetField(cloud, s[1]) + s[2] <= SetField(cloud, r[1])
    BY <1>2, <2>1, ReadsApart
  <2>3. /\ SetField(cloud, r[1]) \in Nat /\ r[2] \in Nat \ {0}
        /\ SetField(cloud, s[1]) \in Nat /\ s[2] \in Nat \ {0}
    BY <1>2, <2>1, ReadInPoint
  <2> QED BY <2>2, <2>3
<1>3. LayoutInv => ColoursInOrder
  BY <1>1, <1>2 DEF ColoursInOrder
<1> QED BY <1>3, LayoutInvHolds, PTL
-----------------------------------------------------------------------------
(* The calls of a writer.                                                  *)

UploadType ==
  [cloud : MessageType, uuid : Uuids, general : BOOLEAN, bb : BOOLEAN,
   coordinates : Seq(Int \cup {NaN}) \ {<<>>}]

CallType ==
  {c \in [kind : {"group", "layout", "attribute", "label", "create", "data", "values"},
          part : Parts, of : Seq(Nat)] : c.kind = "create" => c.part \in DataSets}

\* What is in a sequence made of two.
LEMMA ToSetJoin ==
  ASSUME NEW S, NEW s \in Seq(S), NEW t \in Seq(S)
  PROVE  ToSet(s \o t) = ToSet(s) \cup ToSet(t)
<1>1. /\ s \o t \in Seq(S) /\ DOMAIN s = 1 .. Len(s) /\ DOMAIN t = 1 .. Len(t)
      /\ DOMAIN (s \o t) = 1 .. Len(s) + Len(t)
      /\ \A i \in 1 .. Len(s) : (s \o t)[i] = s[i]
      /\ \A i \in 1 .. Len(t) : (s \o t)[Len(s) + i] = t[i]
      /\ Len(s) \in Nat /\ Len(t) \in Nat
  OBVIOUS
<1>2. \A i \in DOMAIN (s \o t) :
        \/ i \in 1 .. Len(s)
        \/ i - Len(s) \in 1 .. Len(t) /\ i = Len(s) + (i - Len(s))
  BY <1>1
<1>3. \A i \in 1 .. Len(t) : Len(s) + i \in DOMAIN (s \o t)
  BY <1>1
<1>4. \A i \in 1 .. Len(s) : i \in DOMAIN (s \o t)
  BY <1>1
<1>5. ToSet(s \o t) \subseteq ToSet(s) \cup ToSet(t)
  <2> SUFFICES ASSUME NEW i \in DOMAIN (s \o t) PROVE (s \o t)[i] \in ToSet(s) \cup ToSet(t)
    BY DEF ToSet
  <2>1. CASE i \in 1 .. Len(s)
    BY <1>1, <2>1 DEF ToSet
  <2>2. CASE i - Len(s) \in 1 .. Len(t) /\ i = Len(s) + (i - Len(s))
    <3>1. PICK j \in 1 .. Len(t) : i = Len(s) + j
      BY <2>2
    <3> QED BY <1>1, <3>1 DEF ToSet
  <2> QED BY <1>2, <2>1, <2>2
<1>6. ToSet(s) \cup ToSet(t) \subseteq ToSet(s \o t)
  <2>1. \A i \in DOMAIN s : s[i] \in ToSet(s \o t)
    <3> SUFFICES ASSUME NEW i \in DOMAIN s PROVE s[i] \in ToSet(s \o t)
      OBVIOUS
    <3>1. i \in DOMAIN (s \o t) /\ (s \o t)[i] = s[i]
      BY <1>1, <1>4
    <3> QED BY <3>1 DEF ToSet
  <2>2. \A i \in DOMAIN t : t[i] \in ToSet(s \o t)
    <3> SUFFICES ASSUME NEW i \in DOMAIN t PROVE t[i] \in ToSet(s \o t)
      OBVIOUS
    <3>1. Len(s) + i \in DOMAIN (s \o t) /\ (s \o t)[Len(s) + i] = t[i]
      BY <1>1, <1>3
    <3> QED BY <3>1 DEF ToSet
  <2> QED BY <2>1, <2>2 DEF ToSet
<1> QED BY <1>5, <1>6

LEMMA IsSeq ==
  ASSUME NEW S, NEW n \in Nat, NEW f \in [1 .. n -> S]
  PROVE  f \in Seq(S) /\ Len(f) = n
OBVIOUS

\* The parts by name.
LEMMA PartsAre ==
  /\ ToSet(Layout) = {"height", "is_dense"}
  /\ LabelFields = {"labelGeneral", "labelGeneralInstances", "labelBB", "labelBBInstances"}
  /\ CloudParts = {"group", "fields", "header", "boundingbox", "points", "colors", "height",
                   "is_dense", "labelGeneral", "labelGeneralInstances", "labelBB",
                   "labelBBInstances"}
<1>1. ToSet(Layout) = {"height", "is_dense"}
  <2>1. DOMAIN Layout = 1 .. 2 /\ Layout[1] = "height" /\ Layout[2] = "is_dense"
    BY DEF Layout
  <2> QED BY <2>1 DEF ToSet
<1>2. LabelFields = {"labelGeneral", "labelGeneralInstances", "labelBB", "labelBBInstances"}
  <2>1. /\ DOMAIN LabelsGeneral = 1 .. 2 /\ DOMAIN BoundingBoxLabeled = 1 .. 2
        /\ LabelsGeneral[1] = "labelGeneral" /\ LabelsGeneral[2] = "labelGeneralInstances"
        /\ BoundingBoxLabeled[1] = "labelBB" /\ BoundingBoxLabeled[2] = "labelBBInstances"
    BY DEF LabelsGeneral, BoundingBoxLabeled
  <2> DEFINE S == {"labelGeneral", "labelGeneralInstances", "labelBB", "labelBBInstances"}
  <2>2. LabelsGeneral \in Seq(S) /\ BoundingBoxLabeled \in Seq(S)
    BY DEF LabelsGeneral, BoundingBoxLabeled
  <2>3. LabelFields = ToSet(LabelsGeneral) \cup ToSet(BoundingBoxLabeled)
    <3> HIDE DEF S
    <3> QED BY <2>2, ToSetJoin DEF LabelFields
  <2>4. /\ ToSet(LabelsGeneral) = {"labelGeneral", "labelGeneralInstances"}
        /\ ToSet(BoundingBoxLabeled) = {"labelBB", "labelBBInstances"}
    BY <2>1 DEF ToSet
  <2> QED BY <2>3, <2>4
<1>3. CloudParts = {"group", "fields", "header", "boundingbox", "points", "colors"}
                     \cup ToSet(Layout) \cup LabelFields
  BY DEF CloudParts
<1> QED BY <1>1, <1>2, <1>3

LEMMA CallIs ==
  ASSUME NEW kind \in {"group", "layout", "attribute", "label", "create", "data", "values"},
         NEW part \in Parts, NEW of \in Seq(Nat), kind = "create" => part \in DataSets
  PROVE  /\ Call(kind, part, of) \in CallType
         /\ Call(kind, part, of).kind = kind /\ Call(kind, part, of).part = part
BY DEF Call, CallType

\* The calls that are one kind with some parts.
LEMMA CallsAre ==
  ASSUME NEW kind \in {"group", "layout", "attribute", "label"},
         NEW parts \in Seq(Parts)
  PROVE  /\ Calls(kind, parts) \in Seq(CallType)
         /\ \A c \in ToSet(Calls(kind, parts)) : c.part \in ToSet(parts)
         /\ \A p \in ToSet(parts) : Call(kind, p, <<>>) \in ToSet(Calls(kind, parts))
<1>1. \A i \in DOMAIN parts : /\ Call(kind, parts[i], <<>>) \in CallType
                              /\ Call(kind, parts[i], <<>>).part = parts[i]
  <2> SUFFICES ASSUME NEW i \in DOMAIN parts
               PROVE  /\ Call(kind, parts[i], <<>>) \in CallType
                      /\ Call(kind, parts[i], <<>>).part = parts[i]
    OBVIOUS
  <2>1. parts[i] \in Parts /\ <<>> \in Seq(Nat) /\ kind # "create"
    OBVIOUS
  <2>2. kind \in {"group", "layout", "attribute", "label", "create", "data", "values"}
    OBVIOUS
  <2>3. PICK k \in {"group", "layout", "attribute", "label", "create", "data", "values"} :
          k = kind
    BY <2>2
  <2>4. PICK p \in Parts : p = parts[i]
    BY <2>1
  <2>5. PICK of \in Seq(Nat) : of = <<>>
    BY <2>1
  <2>6. k = "create" => p \in DataSets
    BY <2>1, <2>3
  <2>7. Call(k, p, of) \in CallType /\ Call(k, p, of).part = p
    BY <2>6, CallIs
  <2> QED BY <2>3, <2>4, <2>5, <2>7
<1>2. DOMAIN parts = 1 .. Len(parts) /\ Len(parts) \in Nat
  OBVIOUS
<1>3. Calls(kind, parts) \in [1 .. Len(parts) -> CallType]
  BY <1>1, <1>2 DEF Calls
<1>4. Calls(kind, parts) \in Seq(CallType)
  BY <1>2, <1>3, IsSeq
<1>5. /\ DOMAIN Calls(kind, parts) = DOMAIN parts
      /\ \A i \in DOMAIN parts : Calls(kind, parts)[i] = Call(kind, parts[i], <<>>)
  BY DEF Calls
<1> QED BY <1>1, <1>4, <1>5 DEF ToSet

LEMMA FieldNamesFinite ==
  ASSUME NEW c \in MessageType
  PROVE  IsFiniteSet(FieldNames(c))
<1> DEFINE f == [i \in 1 .. Len(c.fields) |-> c.fields[i].name]
<1>1. Len(c.fields) \in Nat /\ DOMAIN c.fields = 1 .. Len(c.fields)
  BY DEF MessageType
<1>2. f \in Surjection(1 .. Len(c.fields), FieldNames(c))
  BY <1>1 DEF Surjection, FieldNames
<1>3. IsFiniteSet(1 .. Len(c.fields))
  BY <1>1, FS_Interval
<1> QED
  <2> HIDE DEF f
  <2> QED BY <1>2, <1>3, FS_Surjection

\* A sequence of a finite set has just its elements.
LEMMA SetToSeqIs ==
  ASSUME NEW S, IsFiniteSet(S)
  PROVE  Cardinality(S) \in Nat /\ SetToSeq(S) \in [1 .. Cardinality(S) -> S]
<1>1. Cardinality(S) \in Nat /\ ExistsBijection(1 .. Cardinality(S), S)
  BY FS_CardinalityType
<1>2. \E f \in [1 .. Cardinality(S) -> S] : IsInjective(f)
  BY <1>1 DEF ExistsBijection, Bijection, Injection
<1> QED BY <1>1, <1>2 DEF SetToSeq

\* The calls for the other fields are for data sets of those names.
LEMMA OtherFieldsAre ==
  ASSUME NEW m \in UploadType
  PROVE  /\ WriteOtherFields(m) \in Seq(CallType)
         /\ \A c \in ToSet(WriteOtherFields(m)) : c.part \in OtherNames
<1> DEFINE known == {n \in OtherFields(m.cloud) : OtherField(m.cloud, n).datatype \in Datatypes}
           Name(i) == SetToSeq(known)[(i + 1) \div 2]
           CallAt(i) == IF i % 2 = 1
                        THEN Call("create", Name(i), <<OtherField(m.cloud, Name(i)).count>>)
                        ELSE Call("values", Name(i), <<>>)
<1>1. m.cloud \in MessageType
  BY DEF UploadType
<1>2. known \subseteq FieldNames(m.cloud) /\ known \subseteq OtherNames
  BY DEF OtherFields
<1>3. IsFiniteSet(known)
  BY <1>1, <1>2, FieldNamesFinite, FS_Subset
<1>4. PICK n \in Nat : n = Cardinality(known)
  BY <1>3, FS_CardinalityType
<1>5. SetToSeq(known) \in [1 .. n -> known]
  <2> HIDE DEF known
  <2> QED BY <1>3, <1>4, SetToSeqIs
<1>6. ASSUME NEW i \in 1 .. 2 * n PROVE Name(i) \in known
  <2>1. (i + 1) \div 2 \in 1 .. n
    OBVIOUS
  <2> QED BY <1>5, <2>1
<1>7. ASSUME NEW name \in known
      PROVE  /\ Call("create", name, <<OtherField(m.cloud, name).count>>) \in CallType
             /\ Call("values", name, <<>>) \in CallType
             /\ Call("create", name, <<OtherField(m.cloud, name).count>>).part = name
             /\ Call("values", name, <<>>).part = name
  <2>1. name \in Parts /\ name \in DataSets
    BY <1>2, <1>7 DEF Parts, DataSets
  <2>2. PICK k \in DOMAIN m.cloud.fields : m.cloud.fields[k].name = name
    BY <1>2, <1>7 DEF FieldNames
  <2>3. PICK j \in DOMAIN m.cloud.fields : OtherField(m.cloud, name) = m.cloud.fields[j]
    BY <1>1, <2>2, OtherFieldIs
  <2>4. m.cloud.fields[j] \in StoredField
    BY <1>1 DEF MessageType
  <2>5. OtherField(m.cloud, name).count \in Nat
    BY <2>3, <2>4 DEF StoredField
  <2>6. <<OtherField(m.cloud, name).count>> \in Seq(Nat) /\ <<>> \in Seq(Nat)
    BY <2>5
  <2> HIDE DEF known
  <2>7. PICK of \in Seq(Nat) : of = <<OtherField(m.cloud, name).count>>
    BY <2>6
  <2>8. Call("create", name, of) \in CallType /\ Call("create", name, of).part = name
    BY <2>1, CallIs
  <2>9. /\ Call("create", name, <<OtherField(m.cloud, name).count>>) \in CallType
        /\ Call("create", name, <<OtherField(m.cloud, name).count>>).part = name
    BY <2>7, <2>8
  <2>10. Call("values", name, <<>>) \in CallType /\ Call("values", name, <<>>).part = name
    BY <2>1, <2>6, CallIs
  <2> QED BY <2>9, <2>10
<1>8. \A i \in 1 .. 2 * n : CallAt(i) \in CallType /\ CallAt(i).part \in OtherNames
  <2> HIDE DEF known, Name
  <2> QED BY <1>2, <1>6, <1>7
<1>9. WriteOtherFields(m) = [i \in 1 .. 2 * n |-> CallAt(i)]
  BY <1>4 DEF WriteOtherFields
<1>10. 2 * n \in Nat
  OBVIOUS
<1> QED
  <2> HIDE DEF CallAt
  <2>1. WriteOtherFields(m) \in [1 .. 2 * n -> CallType]
    BY <1>8, <1>9
  <2>2. WriteOtherFields(m) \in Seq(CallType)
    BY <1>10, <2>1, IsSeq
  <2>3. \A c \in ToSet(WriteOtherFields(m)) : \E i \in 1 .. 2 * n : c = CallAt(i)
    BY <1>9 DEF ToSet
  <2> QED BY <1>8, <2>2, <2>3

\* A call that stores the coordinates.  The bounding box is stored ahead of it.
IsPoints(c) == c.kind = "data" /\ c.part = "points"
BoxFirst(s) ==
  \A i \in DOMAIN s : s[i].part = "boundingbox" =>
    \E j \in DOMAIN s : i < j /\ IsPoints(s[j])

\* Calls that may be made for a message.
CallsFor(m) ==
  {s \in Seq(CallType) :
     /\ BoxFirst(s)
     /\ \A c \in ToSet(s) :
          c.part = "points" => c.kind \in {"create", "data"} /\ HasPoints(m.cloud)}

LEMMA CallsJoin ==
  ASSUME NEW m, NEW s \in CallsFor(m), NEW t \in CallsFor(m)
  PROVE  /\ s \o t \in CallsFor(m)
         /\ ToSet(s \o t) = ToSet(s) \cup ToSet(t)
<1>1. s \in Seq(CallType) /\ t \in Seq(CallType)
  BY DEF CallsFor
<1>2. /\ s \o t \in Seq(CallType) /\ DOMAIN s = 1 .. Len(s) /\ DOMAIN t = 1 .. Len(t)
      /\ DOMAIN (s \o t) = 1 .. Len(s) + Len(t)
      /\ \A i \in 1 .. Len(s) : (s \o t)[i] = s[i]
      /\ \A i \in 1 .. Len(t) : (s \o t)[Len(s) + i] = t[i]
      /\ Len(s) \in Nat /\ Len(t) \in Nat
  BY <1>1
<1>3. ToSet(s \o t) = ToSet(s) \cup ToSet(t)
  BY <1>1, ToSetJoin
<1>4. ASSUME NEW i \in DOMAIN (s \o t), (s \o t)[i].part = "boundingbox"
      PROVE  \E j \in DOMAIN (s \o t) : i < j /\ IsPoints((s \o t)[j])
  <2>1. CASE i \in 1 .. Len(s)
    <3>1. PICK j \in DOMAIN s : i < j /\ IsPoints(s[j])
      BY <1>2, <1>4, <2>1 DEF CallsFor, BoxFirst
    <3>2. j \in DOMAIN (s \o t) /\ (s \o t)[j] = s[j]
      BY <1>2
    <3> QED BY <3>1, <3>2
  <2>2. CASE i \notin 1 .. Len(s)
    <3>1. PICK k \in 1 .. Len(t) : i = Len(s) + k
      <4>1. i - Len(s) \in 1 .. Len(t) /\ i = Len(s) + (i - Len(s))
        BY <1>2, <2>2
      <4> QED BY <4>1
    <3>2. t[k].part = "boundingbox"
      BY <1>2, <1>4, <3>1
    <3>3. PICK j \in DOMAIN t : k < j /\ IsPoints(t[j])
      BY <1>2, <3>1, <3>2 DEF CallsFor, BoxFirst
    <3>4. Len(s) + j \in DOMAIN (s \o t) /\ (s \o t)[Len(s) + j] = t[j] /\ i < Len(s) + j
      BY <1>2, <3>1, <3>3
    <3> QED BY <3>3, <3>4
  <2> QED BY <2>1, <2>2
<1>5. \A c \in ToSet(s \o t) :
        c.part = "points" => c.kind \in {"create", "data"} /\ HasPoints(m.cloud)
  BY <1>3 DEF CallsFor
<1>6. BoxFirst(s \o t)
  BY <1>4 DEF BoxFirst
<1> QED BY <1>2, <1>3, <1>5, <1>6 DEF CallsFor

\* Calls for other parts than the box and the points may always be made.
LEMMA PlainCalls ==
  ASSUME NEW m, NEW s \in Seq(CallType),
         \A c \in ToSet(s) : c.part \notin {"boundingbox", "points"}
  PROVE  s \in CallsFor(m)
<1>1. \A i \in DOMAIN s : s[i] \in ToSet(s)
  BY DEF ToSet
<1> QED BY <1>1 DEF CallsFor, BoxFirst, IsPoints

LEMMA NoCalls ==
  ASSUME NEW m
  PROVE  <<>> \in CallsFor(m) /\ ToSet(<<>>) = {}
<1>1. <<>> \in Seq(CallType) /\ DOMAIN <<>> = {}
  OBVIOUS
<1>2. ToSet(<<>>) = {}
  BY <1>1 DEF ToSet
<1> QED BY <1>1, <1>2, PlainCalls

\* Two calls, and three.
LEMMA TwoCalls ==
  ASSUME NEW c \in CallType, NEW d \in CallType
  PROVE  <<c, d>> \in Seq(CallType) /\ ToSet(<<c, d>>) = {c, d}
<1>1. /\ <<c, d>> \in Seq(CallType) /\ DOMAIN <<c, d>> = 1 .. 2
      /\ <<c, d>>[1] = c /\ <<c, d>>[2] = d
  OBVIOUS
<1>2. ToSet(<<c, d>>) = {c, d}
  BY <1>1 DEF ToSet
<1> QED BY <1>1, <1>2

LEMMA ThreeCalls ==
  ASSUME NEW c \in CallType, NEW d \in CallType, NEW e \in CallType
  PROVE  \E s \in Seq(CallType) : /\ s = <<c, d, e>> /\ ToSet(s) = {c, d, e}
                                  /\ DOMAIN s = 1 .. 3
<1>1. /\ <<c, d, e>> \in Seq(CallType) /\ DOMAIN <<c, d, e>> = 1 .. 3
      /\ <<c, d, e>>[1] = c /\ <<c, d, e>>[2] = d /\ <<c, d, e>>[3] = e
  OBVIOUS
<1>2. 1 .. 3 = {1, 2, 3}
  OBVIOUS
<1>3. ToSet(<<c, d, e>>) = {c, d, e}
  BY <1>1, <1>2 DEF ToSet
<1> QED BY <1>1, <1>3

LEMMA ExtentIs ==
  ASSUME NEW m \in UploadType
  PROVE  ExtentOf(m, 3) \in Seq(Nat) /\ ExtentOf(m, 4) \in Seq(Nat)
<1>1. PICK height, width \in Nat : height = m.cloud.height /\ width = m.cloud.width
  BY DEF UploadType, MessageType
<1>2. <<height, width, 3>> \in Seq(Nat) /\ <<height, width, 4>> \in Seq(Nat)
  OBVIOUS
<1> QED BY <1>1, <1>2 DEF ExtentOf

LEMMA WritePointsIs ==
  ASSUME NEW m \in UploadType, HasPoints(m.cloud)
  PROVE  /\ WritePoints(m) \in CallsFor(m)
         /\ Call("attribute", "boundingbox", <<>>) \in ToSet(WritePoints(m))
         /\ Call("data", "points", ExtentOf(m, 3)) \in ToSet(WritePoints(m))
<1>1. PICK of \in Seq(Nat) : of = ExtentOf(m, 3)
  BY ExtentIs
<1>2. PICK none \in Seq(Nat) : none = <<>>
  <2>1. <<>> \in Seq(Nat)
    OBVIOUS
  <2> QED BY <2>1
<1>3. "points" \in DataSets /\ "points" \in Parts /\ "boundingbox" \in Parts
  BY DEF DataSets, Parts, CloudParts
<1>4. /\ Call("create", "points", of) \in CallType
      /\ Call("create", "points", of).part = "points"
      /\ Call("create", "points", of).kind = "create"
  BY <1>3, CallIs
<1>5. /\ Call("attribute", "boundingbox", none) \in CallType
      /\ Call("attribute", "boundingbox", none).part = "boundingbox"
  BY <1>3, CallIs
<1>6. /\ Call("data", "points", of) \in CallType
      /\ Call("data", "points", of).kind = "data"
      /\ Call("data", "points", of).part = "points"
  BY <1>3, CallIs
<1>7. PICK c, d, e \in CallType : /\ c = Call("create", "points", of)
                                  /\ d = Call("attribute", "boundingbox", none)
                                  /\ e = Call("data", "points", of)
  BY <1>4, <1>5, <1>6
<1>8. PICK s \in Seq(CallType) : /\ s = <<c, d, e>> /\ ToSet(s) = {c, d, e}
                                  /\ DOMAIN s = 1 .. 3
  BY ThreeCalls
<1>9. WritePoints(m) = s
  BY <1>1, <1>2, <1>7, <1>8 DEF WritePoints
<1>10. c.kind = "create" /\ d.part = "boundingbox" /\ IsPoints(e)
  BY <1>4, <1>5, <1>6, <1>7 DEF IsPoints
<1>11. e.part = "points" /\ e.kind = "data"
  BY <1>10 DEF IsPoints
<1>12. BoxFirst(s)
  <2> SUFFICES ASSUME NEW i \in 1 .. 3, s[i].part = "boundingbox"
               PROVE  \E j \in 1 .. 3 : i < j /\ IsPoints(s[j])
    BY <1>8 DEF BoxFirst
  <2>1. s[3] = e
    BY <1>8
  <2>2. i < 3
    <3>1. CASE i = 3
      BY <1>11, <2>1, <3>1
    <3> QED BY <3>1
  <2> QED BY <1>10, <2>1, <2>2
<1> QED BY <1>1, <1>2, <1>7, <1>8, <1>9, <1>10, <1>11, <1>12 DEF CallsFor

LEMMA WriteColorsIs ==
  ASSUME NEW m \in UploadType
  PROVE  WriteColorsRGB(m) \in CallsFor(m) /\ WriteColorsRGBA(m) \in CallsFor(m)
<1>1. ASSUME NEW of \in Seq(Nat)
      PROVE  <<Call("create", "colors", of), Call("data", "colors", of)>> \in CallsFor(m)
  <2>1. "colors" \in DataSets /\ "colors" \in Parts
    BY DEF DataSets, Parts, CloudParts
  <2>2. /\ Call("create", "colors", of) \in CallType
        /\ Call("create", "colors", of).part = "colors"
    BY <2>1, CallIs
  <2>3. /\ Call("data", "colors", of) \in CallType
        /\ Call("data", "colors", of).part = "colors"
    BY <2>1, CallIs
  <2>4. PICK c, d \in CallType : /\ c = Call("create", "colors", of)
                                 /\ d = Call("data", "colors", of)
    BY <2>2, <2>3
  <2>5. <<c, d>> \in Seq(CallType) /\ ToSet(<<c, d>>) = {c, d}
    BY TwoCalls
  <2>6. c.part = "colors" /\ d.part = "colors"
    BY <2>2, <2>3, <2>4
  <2> QED BY <2>4, <2>5, <2>6, PlainCalls
<1> QED BY <1>1, ExtentIs DEF WriteColorsRGB, WriteColorsRGBA

\* What a writer calls for a message.
LEMMA WriteIs ==
  ASSUME NEW m \in UploadType
  PROVE  /\ WritePointCloud2(m) \in CallsFor(m)
         /\ \A p \in ToSet(Layout) : Call("layout", p, <<>>) \in ToSet(WritePointCloud2(m))
         /\ \A p \in {"fields", "header"} :
              Call("attribute", p, <<>>) \in ToSet(WritePointCloud2(m))
         /\ HasPoints(m.cloud) =>
              /\ Call("attribute", "boundingbox", <<>>) \in ToSet(WritePointCloud2(m))
              /\ Call("data", "points", ExtentOf(m, 3)) \in ToSet(WritePointCloud2(m))
<1>1. ASSUME NEW kind \in {"group", "layout", "attribute", "label"}, NEW parts \in Seq(Parts),
             {"boundingbox", "points"} \cap ToSet(parts) = {}
      PROVE  /\ Calls(kind, parts) \in CallsFor(m)
             /\ \A p \in ToSet(parts) : Call(kind, p, <<>>) \in ToSet(Calls(kind, parts))
  <2>1. /\ Calls(kind, parts) \in Seq(CallType)
        /\ \A c \in ToSet(Calls(kind, parts)) : c.part \in ToSet(parts)
        /\ \A p \in ToSet(parts) : Call(kind, p, <<>>) \in ToSet(Calls(kind, parts))
    BY CallsAre
  <2>2. \A c \in ToSet(Calls(kind, parts)) : c.part \notin {"boundingbox", "points"}
    BY <1>1, <2>1
  <2> QED BY <2>1, <2>2, PlainCalls
<1>2. ASSUME NEW s \in CallsFor(m), NEW b
      PROVE  When(b, s) \in CallsFor(m) /\ (b => When(b, s) = s)
  BY NoCalls DEF When
<1>3. PICK g \in CallsFor(m) : g = Calls("group", <<"group">>)
  <2>1. <<"group">> \in Seq(Parts) /\ DOMAIN <<"group">> = {1} /\ <<"group">>[1] = "group"
    BY DEF Parts, CloudParts
  <2>2. {"boundingbox", "points"} \cap ToSet(<<"group">>) = {}
    BY <2>1 DEF ToSet
  <2> QED BY <1>1, <2>1, <2>2
<1>4. PICK l \in CallsFor(m) : /\ l = Calls("layout", Layout)
                               /\ \A p \in ToSet(Layout) : Call("layout", p, <<>>) \in ToSet(l)
  <2>1. Layout \in Seq(Parts)
    BY DEF Layout, Parts, CloudParts, ToSet
  <2>2. {"boundingbox", "points"} \cap ToSet(Layout) = {}
    BY PartsAre
  <2> QED BY <1>1, <2>1, <2>2
<1>5. PICK a \in CallsFor(m) :
        /\ a = Calls("attribute", <<"fields", "header">>)
        /\ \A p \in {"fields", "header"} : Call("attribute", p, <<>>) \in ToSet(a)
  <2>1. /\ <<"fields", "header">> \in Seq(Parts) /\ DOMAIN <<"fields", "header">> = 1 .. 2
        /\ <<"fields", "header">>[1] = "fields" /\ <<"fields", "header">>[2] = "header"
    BY DEF Parts, CloudParts
  <2>2. ToSet(<<"fields", "header">>) = {"fields", "header"}
    BY <2>1 DEF ToSet
  <2>3. {"boundingbox", "points"} \cap ToSet(<<"fields", "header">>) = {}
    BY <2>2
  <2> QED BY <1>1, <2>1, <2>2, <2>3
<1>6. /\ LabelsGeneral \in Seq(Parts) /\ BoundingBoxLabeled \in Seq(Parts)
      /\ {"boundingbox", "points"} \cap ToSet(LabelsGeneral) = {}
      /\ {"boundingbox", "points"} \cap ToSet(BoundingBoxLabeled) = {}
  <2>1. /\ DOMAIN LabelsGeneral = 1 .. 2 /\ DOMAIN BoundingBoxLabeled = 1 .. 2
        /\ LabelsGeneral[1] = "labelGeneral" /\ LabelsGeneral[2] = "labelGeneralInstances"
        /\ BoundingBoxLabeled[1] = "labelBB" /\ BoundingBoxLabeled[2] = "labelBBInstances"
    BY DEF LabelsGeneral, BoundingBoxLabeled
  <2>2. {"labelGeneral", "labelGeneralInstances", "labelBB", "labelBBInstances"} \subseteq Parts
    BY PartsAre DEF Parts
  <2>3. LabelsGeneral \in Seq(Parts) /\ BoundingBoxLabeled \in Seq(Parts)
    BY <2>2 DEF LabelsGeneral, BoundingBoxLabeled
  <2>4. /\ ToSet(LabelsGeneral) = {"labelGeneral", "labelGeneralInstances"}
        /\ ToSet(BoundingBoxLabeled) = {"labelBB", "labelBBInstances"}
    BY <2>1 DEF ToSet
  <2> QED BY <2>3, <2>4
<1>7. PICK i \in CallsFor(m) : i = When(m.general, Calls("label", LabelsGeneral))
  BY <1>1, <1>2, <1>6
<1>8. PICK b \in CallsFor(m) : b = When(m.bb, Calls("label", BoundingBoxLabeled))
  BY <1>1, <1>2, <1>6
<1>9. PICK p \in CallsFor(m) :
        /\ p = When(HasPoints(m.cloud), WritePoints(m))
        /\ HasPoints(m.cloud) =>
             /\ Call("attribute", "boundingbox", <<>>) \in ToSet(p)
             /\ Call("data", "points", ExtentOf(m, 3)) \in ToSet(p)
  BY NoCalls, WritePointsIs DEF When
<1>10. PICK r \in CallsFor(m) : r = When(HasRgb(m.cloud), WriteColorsRGB(m))
  BY <1>2, WriteColorsIs
<1>11. PICK q \in CallsFor(m) : q = When(HasRgba(m.cloud), WriteColorsRGBA(m))
  BY <1>2, WriteColorsIs
<1>12. PICK o \in CallsFor(m) : o = WriteOtherFields(m)
  <2>1. /\ WriteOtherFields(m) \in Seq(CallType)
        /\ \A c \in ToSet(WriteOtherFields(m)) : c.part \in OtherNames
    BY OtherFieldsAre
  <2>2. {"boundingbox", "points"} \cap OtherNames = {}
    BY PartsAssumption DEF CloudParts
  <2> QED BY <2>1, <2>2, PlainCalls
<1>13. \A s, t \in CallsFor(m) : \E u \in CallsFor(m) :
          u = s \o t /\ ToSet(u) = ToSet(s) \cup ToSet(t)
  <2> SUFFICES ASSUME NEW s \in CallsFor(m), NEW t \in CallsFor(m)
               PROVE  \E u \in CallsFor(m) : u = s \o t /\ ToSet(u) = ToSet(s) \cup ToSet(t)
    OBVIOUS
  <2>1. s \o t \in CallsFor(m) /\ ToSet(s \o t) = ToSet(s) \cup ToSet(t)
    BY CallsJoin
  <2> QED BY <2>1
<1>14. PICK t1 \in CallsFor(m) : t1 = g \o l /\ ToSet(t1) = ToSet(g) \cup ToSet(l)
  BY <1>13, Zenon
<1>15. PICK t2 \in CallsFor(m) : t2 = t1 \o a /\ ToSet(t2) = ToSet(t1) \cup ToSet(a)
  BY <1>13, Zenon
<1>16. PICK t3 \in CallsFor(m) : t3 = t2 \o i /\ ToSet(t3) = ToSet(t2) \cup ToSet(i)
  BY <1>13, Zenon
<1>17. PICK t4 \in CallsFor(m) : t4 = t3 \o b /\ ToSet(t4) = ToSet(t3) \cup ToSet(b)
  BY <1>13, Zenon
<1>18. PICK t5 \in CallsFor(m) : t5 = t4 \o p /\ ToSet(t5) = ToSet(t4) \cup ToSet(p)
  BY <1>13, Zenon
<1>19. PICK t6 \in CallsFor(m) : t6 = t5 \o r /\ ToSet(t6) = ToSet(t5) \cup ToSet(r)
  BY <1>13, Zenon
<1>20. PICK t7 \in CallsFor(m) : t7 = t6 \o q /\ ToSet(t7) = ToSet(t6) \cup ToSet(q)
  BY <1>13, Zenon
<1>21. PICK t8 \in CallsFor(m) : t8 = t7 \o o /\ ToSet(t8) = ToSet(t7) \cup ToSet(o)
  BY <1>13, Zenon
<1>22. WritePointCloud2(m) = t8
  BY <1>3, <1>4, <1>5, <1>7, <1>8, <1>9, <1>10, <1>11, <1>12, <1>14, <1>15, <1>16, <1>17,
     <1>18, <1>19, <1>20, <1>21 DEF WritePointCloud2
<1>23. ToSet(l) \cup ToSet(a) \cup ToSet(p) \subseteq ToSet(t8)
  BY <1>14, <1>15, <1>16, <1>17, <1>18, <1>19, <1>20, <1>21
<1> QED BY <1>4, <1>5, <1>9, <1>22, <1>23

-----------------------------------------------------------------------------
(* The bounding box of a message.                                          *)

\* Finitely many numbers, one of them given, have a smallest and a largest.
LEMMA FirstValues ==
  ASSUME NEW f \in [Nat -> Int \cup {NaN}], NEW x \in Int, NEW n \in Nat
  PROVE  LET S == ({f[k] : k \in 0 .. n - 1} \ {NaN}) \cup {x}
         IN /\ S \subseteq Int
            /\ \A v \in S : Min(S) <= v /\ v <= Max(S)
<1> DEFINE First(i) == ({f[k] : k \in 0 .. i - 1} \ {NaN}) \cup {x}
           P == {i \in Nat : \E lo, hi \in First(i) : \A v \in First(i) : lo <= v /\ v <= hi}
<1>1. \A i \in Nat : First(i) \subseteq Int
  OBVIOUS
<1>2. 0 \in P
  <2>1. First(0) = {x}
    OBVIOUS
  <2>2. \E lo, hi \in First(0) : \A v \in First(0) : lo <= v /\ v <= hi
    <3> HIDE DEF First
    <3> QED BY <2>1
  <2> QED BY <2>2
<1>3. ASSUME NEW i \in Nat, i \in P PROVE i + 1 \in P
  <2>1. First(i + 1) = First(i) \cup ({f[i]} \ {NaN})
    <3>1. 0 .. (i + 1) - 1 = (0 .. i - 1) \cup {i}
      OBVIOUS
    <3> QED BY <3>1
  <2>2. PICK lo, hi \in First(i) : \A v \in First(i) : lo <= v /\ v <= hi
    BY <1>3
  <2>3. First(i) \subseteq Int
    BY <1>1
  <2>4. \E l, h \in First(i + 1) : \A v \in First(i + 1) : l <= v /\ v <= h
    <3> HIDE DEF First
    <3>1. CASE f[i] = NaN
      BY <2>1, <2>2, <3>1
    <3>2. CASE f[i] # NaN
      <4>1. PICK a \in Int : a = f[i]
        BY <3>2
      <4>2. First(i + 1) = First(i) \cup {a}
        BY <2>1, <3>2, <4>1
      <4> DEFINE l == IF a < lo THEN a ELSE lo
                 h == IF hi < a THEN a ELSE hi
      <4>3. l \in First(i + 1) /\ h \in First(i + 1)
        BY <2>2, <4>2
      <4>4. \A v \in First(i + 1) : l <= v /\ v <= h
        BY <2>2, <2>3, <4>1, <4>2
      <4> QED BY <4>3, <4>4
    <3> QED BY <3>1, <3>2
  <2> QED BY <2>4
<1>4. n \in P
  <2> HIDE DEF P
  <2> QED BY <1>2, <1>3, Induction
<1> DEFINE S == First(n)
<1>5. PICK lo, hi \in S : \A v \in S : lo <= v /\ v <= hi
  BY <1>4
<1>6. S \subseteq Int
  BY <1>1
<1>7. \A v \in S : Min(S) <= v /\ v <= Max(S)
  <2> HIDE DEF S
  <2>1. Min(S) \in S /\ \A v \in S : Min(S) <= v
    BY <1>5 DEF Min
  <2>2. Max(S) \in S /\ \A v \in S : Max(S) >= v
    BY <1>5, <1>6 DEF Max
  <2> QED BY <1>6, <2>1, <2>2
<1> QED BY <1>6, <1>7

\* A message is inside its bounding box.
LEMMA InsideBox ==
  ASSUME NEW m \in UploadType, NEW k \in Points(m.cloud), Value(m, k) # NaN
  PROVE  BoundingBox(m)[1] <= Value(m, k) /\ Value(m, k) <= BoundingBox(m)[2]
<1>1. PICK n \in Nat : n = m.cloud.height * m.cloud.width
  BY DEF UploadType, MessageType
<1>2. PICK f : f = [i \in Nat |-> Value(m, i)]
  OBVIOUS
<1>3. f \in [Nat -> Int \cup {NaN}]
  <2> SUFFICES ASSUME NEW i \in Nat PROVE Value(m, i) \in Int \cup {NaN}
    BY <1>2
  <2>1. m.coordinates \in Seq(Int \cup {NaN}) \ {<<>>}
    BY DEF UploadType
  <2>2. PICK s \in Seq(Int \cup {NaN}) : s = m.coordinates /\ Len(s) \in Nat \ {0}
    BY <2>1
  <2>3. PICK l \in Nat \ {0} : l = Len(s)
    BY <2>2
  <2>4. (i % l) + 1 \in 1 .. l
    BY <2>3
  <2>5. s[(i % l) + 1] \in Int \cup {NaN}
    BY <2>2, <2>3, <2>4
  <2> QED BY <2>2, <2>3, <2>5 DEF Value
<1> DEFINE v == {Value(m, i) : i \in Points(m.cloud)} \ {NaN}
           From(x) == ({f[i] : i \in 0 .. n - 1} \ {NaN}) \cup {x}
<1>4. \A x : From(x) = v \cup {x}
  BY <1>1, <1>2 DEF Points
<1>5. Largest \in Int /\ Smallest \in Int
  BY DEF Largest, Smallest
<1>6. ASSUME NEW x \in Int
      PROVE  \A y \in v \cup {x} : Min(v \cup {x}) <= y /\ y <= Max(v \cup {x})
  <2>1. \A y \in From(x) : Min(From(x)) <= y /\ y <= Max(From(x))
    BY <1>3, FirstValues
  <2> HIDE DEF v, From
  <2> QED BY <1>4, <2>1
<1>7. Value(m, k) \in v
  OBVIOUS
<1>8. BoundingBox(m)[1] = Min(v \cup {Largest}) /\ BoundingBox(m)[2] = Max(v \cup {Smallest})
  BY DEF BoundingBox
<1> HIDE DEF v
<1> QED BY <1>5, <1>6, <1>7, <1>8

-----------------------------------------------------------------------------
(* What is stored under a uuid.                                            *)

\* The writer holds the lock.
WriterTypes ==
  /\ uploads \in Seq(UploadType)
  /\ calls \in [Handlers -> Seq(CallType)]
  /\ \A h \in Handlers : pc[h] = "write" <=> mutex = h

\* What a message has to store, but for what a call creates.
Stores(m) == {c \in ToSet(WritePointCloud2(m)) : c.kind \notin {"group", "create"}}

\* What a writer does not have in the file it has still to write.
StillToWrite ==
  \A h \in Handlers : pc[h] = "write" =>
    /\ calls[h] \in CallsFor(Upload(h))
    /\ \A c \in Stores(Upload(h)) :
         file[Upload(h).uuid][c.part] = job[h] \/ c \in ToSet(calls[h])

\* Points and bounding box are from one upload, but while the points are to be written.
BoxWithPoints ==
  \A u \in Uuids : \/ u \in spoiled
                   \/ file[u]["points"] = file[u]["boundingbox"]
                   \/ \E h \in Handlers : /\ pc[h] = "write" /\ Upload(h).uuid = u
                                          /\ \E c \in ToSet(calls[h]) : IsPoints(c)

StoreInv == WriterTypes /\ StillToWrite /\ BoxWithPoints /\ WholeUnlessSpoiled

LEMMA UploadIs ==
  ASSUME IndexInv, uploads \in Seq(UploadType), NEW h \in Handlers, pc[h] # "idle"
  PROVE  /\ job[h] \in 1 .. Len(uploads) /\ job[h] \in Nat \ {0}
         /\ Upload(h) \in UploadType /\ Upload(h).uuid \in Uuids
<1>1. job[h] \in 1 .. Len(uploads) /\ Len(uploads) \in Nat
  BY DEF IndexInv, Handling
<1>2. uploads[job[h]] \in UploadType
  BY <1>1
<1> QED BY <1>1, <1>2 DEF Upload, UploadType

\* Whoever stops writing spoils its uuid, nobody starts to write, and the file is left alone.
LEMMA FileLeftAlone ==
  ASSUME IndexInv, StoreInv,
         uploads' \in Seq(UploadType), Len(uploads) <= Len(uploads'),
         \A n \in 1 .. Len(uploads) : uploads'[n] = uploads[n],
         calls' \in [Handlers -> Seq(CallType)], file' = file, spoiled \subseteq spoiled',
         \A h \in Handlers : pc'[h] = "write" <=> mutex' = h,
         \A h \in Handlers : pc'[h] = "write" =>
           pc[h] = "write" /\ job'[h] = job[h] /\ calls'[h] = calls[h],
         \A h \in Handlers : pc[h] = "write" =>
           pc'[h] = "write" \/ Upload(h).uuid \in spoiled'
  PROVE  StoreInv'
<1>1. \A h \in Handlers : pc[h] = "write" =>
        job[h] \in 1 .. Len(uploads) /\ uploads'[job[h]] = uploads[job[h]]
  BY UploadIs DEF StoreInv, WriterTypes
<1>2. \A h \in Handlers : pc'[h] = "write" => Upload(h)' = Upload(h)
  BY <1>1 DEF Upload
<1>3. WriterTypes'
  BY DEF WriterTypes
<1>4. StillToWrite'
  BY <1>2 DEF StillToWrite, StoreInv
<1>5. BoxWithPoints'
  <2> SUFFICES ASSUME NEW u \in Uuids, u \notin spoiled'
               PROVE  \/ file[u]["points"] = file[u]["boundingbox"]
                      \/ \E h \in Handlers : /\ pc'[h] = "write" /\ Upload(h)'.uuid = u
                                             /\ \E c \in ToSet(calls'[h]) : IsPoints(c)
    BY DEF BoxWithPoints
  <2>1. CASE file[u]["points"] = file[u]["boundingbox"]
    BY <2>1
  <2>2. ASSUME NEW h \in Handlers, pc[h] = "write", Upload(h).uuid = u,
               \E c \in ToSet(calls[h]) : IsPoints(c)
        PROVE  /\ pc'[h] = "write" /\ Upload(h)'.uuid = u
               /\ \E c \in ToSet(calls'[h]) : IsPoints(c)
    BY <1>2, <2>2
  <2> QED BY <2>1, <2>2 DEF StoreInv, BoxWithPoints
<1>6. WholeUnlessSpoiled'
  <2> SUFFICES ASSUME NEW u \in Uuids, ~Writing(u)', u \notin spoiled'
               PROVE  \E n \in 0 .. Len(uploads') :
                        /\ \A p \in ToSet(Layout) \cup {"fields", "header"} : file[u][p] = n
                        /\ n # 0 => \A c \in ToSet(WritePointCloud2(uploads'[n])) :
                                      c.kind \notin {"group", "create"} => file[u][c.part] = n
    BY DEF WholeUnlessSpoiled
  <2>1. ~Writing(u)
    BY <1>2 DEF Writing
  <2>2. PICK n \in 0 .. Len(uploads) :
          /\ \A p \in ToSet(Layout) \cup {"fields", "header"} : file[u][p] = n
          /\ n # 0 => \A c \in ToSet(WritePointCloud2(uploads[n])) :
                        c.kind \notin {"group", "create"} => file[u][c.part] = n
    BY <2>1 DEF StoreInv, WholeUnlessSpoiled
  <2>3. Len(uploads) \in Nat /\ Len(uploads') \in Nat
    BY DEF IndexInv, Handling
  <2>4. n \in 0 .. Len(uploads') /\ (n # 0 => uploads'[n] = uploads[n])
    BY <2>2, <2>3
  <2> QED BY <2>2, <2>4
<1> QED BY <1>3, <1>4, <1>5, <1>6 DEF StoreInv

LEMMA TransferKeepsStore ==
  ASSUME IndexInv, StoreInv, LayoutInv, NEW h \in Handlers, NEW u \in Uuids,
         NEW content \in Contents, Transfer(h, u, content)
  PROVE  StoreInv'
<1> DEFINE e == [cloud |-> cloud, uuid |-> u, general |-> content[1], bb |-> content[2],
                 coordinates |-> content[3]]
<1>1. e \in UploadType
  BY ConstantsAssumption DEF UploadType, LayoutInv
<1>2. uploads \in Seq(UploadType) /\ uploads' = Append(uploads, e)
  BY DEF Transfer, StoreInv, WriterTypes
<1>3. /\ uploads' \in Seq(UploadType) /\ Len(uploads) \in Nat
      /\ Len(uploads') = Len(uploads) + 1
      /\ \A n \in 1 .. Len(uploads) : uploads'[n] = uploads[n]
  <2> HIDE DEF e
  <2> QED BY <1>1, <1>2
<1>4. /\ pc[h] = "idle" /\ pc' = [pc EXCEPT ![h] = "lock"]
      /\ job' = [job EXCEPT ![h] = Len(uploads) + 1]
      /\ UNCHANGED <<calls, mutex, file, spoiled>>
  BY DEF Transfer, Goto, fileVars
<1>5. pc \in [Handlers -> Labels] /\ job \in [Handlers -> 0 .. Len(uploads)]
  BY DEF IndexInv, Handling
<1>6. \A g \in Handlers : /\ pc'[g] = "write" <=> pc[g] = "write"
                          /\ pc'[g] = "write" => job'[g] = job[g]
  BY <1>4, <1>5
<1> QED BY <1>3, <1>4, <1>6, FileLeftAlone DEF StoreInv, WriterTypes

\* Steps of an upload that is not being written, and the end of one that failed.
LEMMA NotWriting ==
  ASSUME IndexInv, StoreInv, NEW h \in Handlers, UNCHANGED uploads,
         \/ LoadBoundingBox(h) \/ NoBoundingBox(h) \/ AddDataset(h) \/ Fail(h)
  PROVE  StoreInv'
<1>1. pc \in [Handlers -> Labels] /\ job \in [Handlers -> 0 .. Len(uploads)]
  BY DEF IndexInv, Handling
<1>2. WriterTypes
  BY DEF StoreInv
<1>3. <<>> \in Seq(CallType)
  OBVIOUS
<1>4. /\ file' = file /\ spoiled \subseteq spoiled' /\ calls' \in [Handlers -> Seq(CallType)]
      /\ pc'[h] # "write"
      /\ \A g \in Handlers \ {h} :
           pc'[g] = pc[g] /\ job'[g] = job[g] /\ calls'[g] = calls[g]
      /\ \/ pc[h] # "write" /\ mutex' = mutex
         \/ pc[h] = "write" /\ mutex' = None /\ Upload(h).uuid \in spoiled'
  <2>1. CASE LoadBoundingBox(h)
    BY <1>1, <1>2, <2>1 DEF LoadBoundingBox, Goto, fileVars, WriterTypes
  <2>2. CASE NoBoundingBox(h)
    BY <1>1, <1>2, <1>3, <2>2 DEF NoBoundingBox, Leave, Goto, fileVars, WriterTypes
  <2>3. CASE AddDataset(h)
    BY <1>1, <1>2, <1>3, <2>3 DEF AddDataset, Leave, Goto, fileVars, WriterTypes
  <2>4. CASE Fail(h)
    BY <1>1, <1>2, <1>3, <2>4 DEF Fail, Leave, Goto, fileVars, WriterTypes
  <2> QED BY <2>1, <2>2, <2>3, <2>4
<1>5. \A g \in Handlers : pc'[g] = "write" <=> mutex' = g
  BY <1>2, <1>4, ConstantsAssumption DEF WriterTypes
<1>6. Len(uploads) \in Nat
  BY DEF IndexInv, Handling
<1> QED BY <1>2, <1>4, <1>5, <1>6, FileLeftAlone DEF WriterTypes

\* A writer starts with all its calls to make.
LEMMA LockKeepsStore ==
  ASSUME IndexInv, StoreInv, NEW h \in Handlers, Lock(h), UNCHANGED uploads
  PROVE  StoreInv'
<1>1. pc \in [Handlers -> Labels] /\ WriterTypes
  BY DEF IndexInv, Handling, StoreInv
<1>2. /\ pc[h] = "lock" /\ mutex = None /\ pc' = [pc EXCEPT ![h] = "write"] /\ mutex' = h
      /\ calls' = [calls EXCEPT ![h] = WritePointCloud2(Upload(h))]
      /\ UNCHANGED <<uploads, job, file, spoiled>>
  BY DEF Lock, Goto, fileVars
<1>3. Upload(h) \in UploadType /\ Upload(h)' = Upload(h)
  BY <1>1, <1>2, UploadIs DEF Upload, WriterTypes
<1>4. WritePointCloud2(Upload(h)) \in CallsFor(Upload(h))
  BY <1>3, WriteIs
<1>5. \A g \in Handlers : pc[g] # "write" /\ (pc'[g] = "write" <=> g = h)
  BY <1>1, <1>2, ConstantsAssumption DEF WriterTypes
<1>6. calls'[h] = WritePointCloud2(Upload(h)) /\ calls' \in [Handlers -> Seq(CallType)]
  BY <1>1, <1>2, <1>4 DEF WriterTypes, CallsFor
<1>7. WriterTypes'
  BY <1>1, <1>2, <1>5, <1>6 DEF WriterTypes
<1>8. StillToWrite'
  BY <1>3, <1>4, <1>5, <1>6 DEF StillToWrite, Stores
<1>9. BoxWithPoints'
  BY <1>2, <1>5 DEF StoreInv, BoxWithPoints
<1>10. WholeUnlessSpoiled'
  BY <1>2, <1>5 DEF StoreInv, WholeUnlessSpoiled, Writing
<1> QED BY <1>7, <1>8, <1>9, <1>10 DEF StoreInv

\* What is left of the calls of a writer after the first one.
LEMMA RestOfCalls ==
  ASSUME NEW m, NEW s \in CallsFor(m), s # <<>>
  PROVE  /\ Head(s) \in CallType /\ Tail(s) \in CallsFor(m)
         /\ \A c \in ToSet(s) : c = Head(s) \/ c \in ToSet(Tail(s))
         /\ Head(s).part = "boundingbox" => \E c \in ToSet(Tail(s)) : IsPoints(c)
         /\ \A b \in ToSet(Tail(s)) : b.part = "boundingbox" =>
              \E c \in ToSet(Tail(s)) : IsPoints(c)
         /\ Head(s).part = "points" => Head(s).kind \in {"create", "data"} /\ HasPoints(m.cloud)
<1>1. s \in Seq(CallType) /\ BoxFirst(s)
  BY DEF CallsFor
<1>2. PICK n \in Nat : n + 1 = Len(s)
  <2>1. Len(s) - 1 \in Nat /\ (Len(s) - 1) + 1 = Len(s)
    BY <1>1
  <2> QED BY <2>1
<1>3. PICK t \in Seq(CallType) : t = Tail(s)
  <2>1. Tail(s) \in Seq(CallType)
    BY <1>1
  <2> QED BY <2>1
<1>4. /\ Head(s) = s[1] /\ s[1] \in CallType /\ DOMAIN s = 1 .. n + 1
      /\ DOMAIN t = 1 .. n /\ \A i \in 1 .. n : t[i] = s[i + 1]
  BY <1>1, <1>2, <1>3
<1>5. \A i \in 1 .. n + 1 : i = 1 \/ (i - 1 \in 1 .. n /\ s[i] = t[i - 1])
  <2> SUFFICES ASSUME NEW i \in 1 .. n + 1, i # 1
               PROVE  i - 1 \in 1 .. n /\ s[i] = t[i - 1]
    OBVIOUS
  <2>1. i - 1 \in 1 .. n /\ (i - 1) + 1 = i
    OBVIOUS
  <2> QED BY <1>4, <2>1
<1>6. \A c \in ToSet(s) : c = Head(s) \/ c \in ToSet(t)
  <2> SUFFICES ASSUME NEW i \in 1 .. n + 1, i # 1 PROVE s[i] \in ToSet(t)
    BY <1>4 DEF ToSet
  <2> QED BY <1>4, <1>5 DEF ToSet
<1>7. ToSet(t) \subseteq ToSet(s) /\ Head(s) \in ToSet(s)
  <2>1. \A i \in 1 .. n : i + 1 \in 1 .. n + 1 /\ 1 \in 1 .. n + 1
    OBVIOUS
  <2>2. 1 \in 1 .. n + 1
    OBVIOUS
  <2> QED BY <1>4, <2>1, <2>2 DEF ToSet
<1>8. ASSUME NEW i \in 1 .. n, t[i].part = "boundingbox"
      PROVE  \E j \in 1 .. n : i < j /\ IsPoints(t[j])
  <2>1. i + 1 \in DOMAIN s /\ s[i + 1].part = "boundingbox"
    BY <1>4, <1>8
  <2>2. PICK k \in 1 .. n + 1 : i + 1 < k /\ IsPoints(s[k])
    BY <1>1, <1>4, <2>1 DEF BoxFirst
  <2>3. k - 1 \in 1 .. n /\ i < k - 1 /\ IsPoints(t[k - 1])
    BY <1>5, <2>2
  <2> QED BY <2>3
<1>9. BoxFirst(t)
  BY <1>4, <1>8 DEF BoxFirst
<1>10. \A i \in 1 .. n : t[i] \in ToSet(t)
  BY <1>4 DEF ToSet
<1>11. Head(s).part = "boundingbox" => \E c \in ToSet(t) : IsPoints(c)
  <2> SUFFICES ASSUME s[1].part = "boundingbox" PROVE \E c \in ToSet(t) : IsPoints(c)
    BY <1>4
  <2>1. 1 \in DOMAIN s
    BY <1>4
  <2>2. PICK k \in 1 .. n + 1 : 1 < k /\ IsPoints(s[k])
    BY <1>1, <1>4, <2>1 DEF BoxFirst
  <2>3. k - 1 \in 1 .. n /\ IsPoints(t[k - 1])
    BY <1>5, <2>2
  <2> QED BY <1>10, <2>3
<1>12. \A b \in ToSet(t) : b.part = "boundingbox" => \E c \in ToSet(t) : IsPoints(c)
  BY <1>4, <1>8, <1>10 DEF ToSet
<1>13. Tail(s) \in CallsFor(m)
  BY <1>3, <1>7, <1>9 DEF CallsFor
<1> QED BY <1>3, <1>4, <1>6, <1>7, <1>11, <1>12, <1>13 DEF CallsFor

\* A call stores a part or leaves it to the rest of the calls.
LEMMA WriteKeepsStore ==
  ASSUME IndexInv, StoreInv, NEW h \in Handlers, Write(h), UNCHANGED uploads
  PROVE  StoreInv'
<1>1. /\ pc \in [Handlers -> Labels] /\ WriterTypes
      /\ file \in [Uuids -> [Parts -> Nat]]
  BY DEF IndexInv, Handling, StoreInv, BoxSent
<1>2. PICK m \in UploadType : m = Upload(h)
  BY <1>1, UploadIs DEF Write, WriterTypes
<1>3. PICK u \in Uuids : u = m.uuid
  BY <1>2 DEF UploadType
<1>4. PICK n \in Nat \ {0} : n = job[h]
  BY <1>1, UploadIs DEF Write, WriterTypes
<1>5. PICK s \in CallsFor(m) : s = calls[h] /\ s # <<>>
  BY <1>2 DEF Write, StoreInv, StillToWrite
<1>6. PICK c \in CallType : c = Head(s)
  BY <1>5, RestOfCalls
<1>7. PICK t \in CallsFor(m) : t = Tail(s)
  BY <1>5, RestOfCalls
<1>8. /\ pc[h] = "write" /\ calls' = [calls EXCEPT ![h] = t]
      /\ UNCHANGED <<uploads, pc, job, mutex, spoiled>>
      /\ \/ file' = file /\ c.kind \in {"group", "create"}
         \/ file' = [file EXCEPT ![u] = [file[u] EXCEPT ![c.part] = n]] /\ c.kind # "create"
  BY <1>2, <1>3, <1>4, <1>5, <1>6, <1>7 DEF Write
<1>9. c.part \in Parts /\ \A d \in CallType : d.part \in Parts
  BY DEF CallType
<1>10. /\ \A v \in Uuids \ {u} : file'[v] = file[v]
       /\ \A p \in Parts \ {c.part} : file'[u][p] = file[u][p]
       /\ file'[u][c.part] \in {file[u][c.part], n}
       /\ c.kind \notin {"group", "create"} => file'[u][c.part] = n
       /\ c.kind = "create" => file'[u][c.part] = file[u][c.part]
  BY <1>1, <1>8, <1>9
<1>11. /\ calls'[h] = t /\ \A g \in Handlers \ {h} : calls'[g] = calls[g]
       /\ calls' \in [Handlers -> Seq(CallType)]
  BY <1>1, <1>7, <1>8 DEF WriterTypes, CallsFor
<1>12. \A g \in Handlers : pc[g] = "write" <=> g = h
  BY <1>1, <1>8 DEF WriterTypes
<1>13. WriterTypes'
  BY <1>1, <1>8, <1>11 DEF WriterTypes
<1>14. \A d \in Stores(m) : d \in CallType
  <2>1. WritePointCloud2(m) \in Seq(CallType)
    BY WriteIs DEF CallsFor
  <2> QED BY <2>1 DEF Stores, ToSet
<1>15. \A d \in Stores(m) : file[u][d.part] = n \/ d \in ToSet(s)
  BY <1>2, <1>3, <1>4, <1>5, <1>8 DEF StoreInv, StillToWrite
<1>16. /\ \A d \in ToSet(s) : d = c \/ d \in ToSet(t)
       /\ c.part = "boundingbox" => \E d \in ToSet(t) : IsPoints(d)
       /\ \A b \in ToSet(t) : b.part = "boundingbox" => \E d \in ToSet(t) : IsPoints(d)
       /\ c.part = "points" => c.kind \in {"create", "data"} /\ HasPoints(m.cloud)
  BY <1>5, <1>6, <1>7, RestOfCalls
<1>17. \A d \in Stores(m) : file'[u][d.part] = n \/ d \in ToSet(t)
  <2> SUFFICES ASSUME NEW d \in Stores(m), d \notin ToSet(t) PROVE file'[u][d.part] = n
    OBVIOUS
  <2>1. d.part \in Parts /\ d.kind \notin {"group", "create"}
    BY <1>9, <1>14 DEF Stores
  <2>2. CASE d = c
    BY <1>10, <2>1, <2>2
  <2>3. CASE file[u][d.part] = n
    BY <1>10, <2>1, <2>3
  <2> QED BY <1>15, <1>16, <2>2, <2>3
<1>18. Upload(h)' = m /\ \A g \in Handlers : Upload(g)' = Upload(g)
  BY <1>2, <1>8 DEF Upload
<1>19. StillToWrite'
  BY <1>3, <1>4, <1>7, <1>8, <1>11, <1>12, <1>17, <1>18 DEF StillToWrite
<1>20. "points" \in Parts /\ "boundingbox" \in Parts
  BY DEF Parts, CloudParts
<1>21. \/ u \in spoiled
       \/ file'[u]["points"] = file'[u]["boundingbox"]
       \/ \E d \in ToSet(t) : IsPoints(d)
  <2>1. CASE c.part = "boundingbox"
    BY <1>16, <2>1
  <2>2. CASE c.part = "points" /\ c.kind = "data"
    <3>1. PICK b \in Stores(m) : b.part = "boundingbox"
      <4>1. Call("attribute", "boundingbox", <<>>) \in ToSet(WritePointCloud2(m))
        BY <1>16, <2>2, WriteIs
      <4>2. /\ Call("attribute", "boundingbox", <<>>).kind = "attribute"
            /\ Call("attribute", "boundingbox", <<>>).part = "boundingbox"
        BY DEF Call
      <4> QED BY <4>1, <4>2 DEF Stores
    <3>2. CASE file'[u]["boundingbox"] = n
      BY <1>10, <2>2, <3>2
    <3>3. CASE b \in ToSet(t)
      BY <1>16, <3>1, <3>3
    <3> QED BY <1>17, <3>1, <3>2, <3>3
  <2>3. CASE c.part # "boundingbox" /\ ~(c.part = "points" /\ c.kind = "data")
    <3>1. /\ file'[u]["points"] = file[u]["points"]
          /\ file'[u]["boundingbox"] = file[u]["boundingbox"]
      BY <1>10, <1>16, <1>20, <2>3
    <3>2. \A d \in ToSet(s) : IsPoints(d) => d \in ToSet(t)
      BY <1>16, <2>3 DEF IsPoints
    <3>3. \/ u \in spoiled
          \/ file[u]["points"] = file[u]["boundingbox"]
          \/ \E d \in ToSet(s) : IsPoints(d)
      BY <1>5, <1>12 DEF StoreInv, BoxWithPoints
    <3> QED BY <3>1, <3>2, <3>3
  <2> QED BY <2>1, <2>2, <2>3
<1>22. BoxWithPoints'
  <2> SUFFICES ASSUME NEW v \in Uuids, v \notin spoiled
               PROVE  \/ file'[v]["points"] = file'[v]["boundingbox"]
                      \/ \E g \in Handlers : /\ pc'[g] = "write" /\ Upload(g)'.uuid = v
                                             /\ \E d \in ToSet(calls'[g]) : IsPoints(d)
    BY <1>8 DEF BoxWithPoints
  <2>1. CASE v = u
    BY <1>3, <1>8, <1>11, <1>18, <1>21, <2>1
  <2>2. CASE v # u
    BY <1>2, <1>3, <1>10, <1>12, <2>2 DEF StoreInv, BoxWithPoints
  <2> QED BY <2>1, <2>2
<1>23. WholeUnlessSpoiled'
  <2> SUFFICES ASSUME NEW v \in Uuids, ~Writing(v)', v \notin spoiled
               PROVE  \E k \in 0 .. Len(uploads) :
                        /\ \A p \in ToSet(Layout) \cup {"fields", "header"} : file'[v][p] = k
                        /\ k # 0 => \A d \in ToSet(WritePointCloud2(uploads[k])) :
                                      d.kind \notin {"group", "create"} => file'[v][d.part] = k
    BY <1>8 DEF WholeUnlessSpoiled
  <2>1. ~Writing(v)
    BY <1>8, <1>18 DEF Writing
  <2>2. v # u
    BY <1>2, <1>3, <1>8, <2>1 DEF Writing
  <2>3. file'[v] = file[v]
    BY <1>10, <2>2
  <2> QED BY <2>1, <2>3 DEF StoreInv, WholeUnlessSpoiled
<1> QED BY <1>13, <1>19, <1>22, <1>23 DEF StoreInv

\* A writer without calls has stored all that its message has.
LEMMA UnlockKeepsStore ==
  ASSUME IndexInv, StoreInv, NEW h \in Handlers, Unlock(h), UNCHANGED uploads
  PROVE  StoreInv'
<1>1. /\ pc \in [Handlers -> Labels] /\ WriterTypes
  BY DEF IndexInv, Handling, StoreInv
<1>2. PICK m \in UploadType : m = Upload(h)
  BY <1>1, UploadIs DEF Unlock, WriterTypes
<1>3. PICK u \in Uuids : u = m.uuid
  BY <1>2 DEF UploadType
<1>4. PICK n \in Nat \ {0} : n = job[h] /\ n \in 1 .. Len(uploads)
  BY <1>1, UploadIs DEF Unlock, WriterTypes
<1>5. /\ pc[h] = "write" /\ calls[h] = <<>> /\ mutex' = None
      /\ pc' = [pc EXCEPT ![h] = "box"]
      /\ spoiled' = IF HasPoints(m.cloud) THEN spoiled \ {u} ELSE spoiled
      /\ UNCHANGED <<uploads, job, calls, file>>
  BY <1>2, <1>3 DEF Unlock, Goto, fileVars
<1>6. \A g \in Handlers : (pc[g] = "write" <=> g = h) /\ pc'[g] # "write"
  BY <1>1, <1>5 DEF WriterTypes
<1>7. WriterTypes'
  BY <1>1, <1>5, <1>6, ConstantsAssumption DEF WriterTypes
<1>8. StillToWrite'
  BY <1>6 DEF StillToWrite
<1>9. ToSet(calls[h]) = {}
  BY <1>5, NoCalls
<1>10. \A d \in Stores(m) : file[u][d.part] = n
  BY <1>2, <1>3, <1>4, <1>5, <1>9 DEF StoreInv, StillToWrite
<1>11. HasPoints(m.cloud) => file[u]["points"] = file[u]["boundingbox"]
  <2> SUFFICES ASSUME HasPoints(m.cloud) PROVE file[u]["points"] = file[u]["boundingbox"]
    OBVIOUS
  <2>1. PICK b \in Stores(m) : b.part = "boundingbox"
    <3>1. Call("attribute", "boundingbox", <<>>) \in ToSet(WritePointCloud2(m))
      BY WriteIs
    <3>2. /\ Call("attribute", "boundingbox", <<>>).kind = "attribute"
          /\ Call("attribute", "boundingbox", <<>>).part = "boundingbox"
      BY DEF Call
    <3> QED BY <3>1, <3>2 DEF Stores
  <2>2. PICK d \in Stores(m) : d.part = "points"
    <3>1. Call("data", "points", ExtentOf(m, 3)) \in ToSet(WritePointCloud2(m))
      BY WriteIs
    <3>2. /\ Call("data", "points", ExtentOf(m, 3)).kind = "data"
          /\ Call("data", "points", ExtentOf(m, 3)).part = "points"
      BY DEF Call
    <3> QED BY <3>1, <3>2 DEF Stores
  <2> QED BY <1>10, <2>1, <2>2
<1>12. BoxWithPoints'
  <2> SUFFICES ASSUME NEW v \in Uuids, v \notin spoiled'
               PROVE  file[v]["points"] = file[v]["boundingbox"]
    BY <1>5 DEF BoxWithPoints
  <2>1. CASE v \in spoiled
    BY <1>5, <1>11, <2>1
  <2>2. CASE v \notin spoiled
    BY <1>6, <1>9, <2>2 DEF StoreInv, BoxWithPoints
  <2> QED BY <2>1, <2>2
<1>13. /\ \A p \in ToSet(Layout) \cup {"fields", "header"} : file[u][p] = n
       /\ \A d \in ToSet(WritePointCloud2(uploads[n])) :
            d.kind \notin {"group", "create"} => file[u][d.part] = n
  <2>1. uploads[n] = m
    BY <1>2, <1>4 DEF Upload
  <2>2. ASSUME NEW p \in ToSet(Layout) PROVE file[u][p] = n
    <3>1. Call("layout", p, <<>>) \in ToSet(WritePointCloud2(m))
      BY WriteIs
    <3>2. Call("layout", p, <<>>).kind = "layout" /\ Call("layout", p, <<>>).part = p
      BY DEF Call
    <3>3. Call("layout", p, <<>>) \in Stores(m)
      BY <3>1, <3>2 DEF Stores
    <3> QED BY <1>10, <3>2, <3>3
  <2>3. ASSUME NEW p \in {"fields", "header"} PROVE file[u][p] = n
    <3>1. Call("attribute", p, <<>>) \in ToSet(WritePointCloud2(m))
      BY WriteIs
    <3>2. Call("attribute", p, <<>>).kind = "attribute" /\ Call("attribute", p, <<>>).part = p
      BY DEF Call
    <3>3. Call("attribute", p, <<>>) \in Stores(m)
      BY <3>1, <3>2 DEF Stores
    <3> QED BY <1>10, <3>2, <3>3
  <2> QED BY <1>10, <2>1, <2>2, <2>3 DEF Stores
<1>14. WholeUnlessSpoiled'
  <2> SUFFICES ASSUME NEW v \in Uuids, v \notin spoiled'
               PROVE  \E k \in 0 .. Len(uploads) :
                        /\ \A p \in ToSet(Layout) \cup {"fields", "header"} : file[v][p] = k
                        /\ k # 0 => \A d \in ToSet(WritePointCloud2(uploads[k])) :
                                      d.kind \notin {"group", "create"} => file[v][d.part] = k
    BY <1>5 DEF WholeUnlessSpoiled
  <2>1. CASE v = u
    <3>1. n \in 0 .. Len(uploads)
      BY <1>4
    <3> QED BY <1>13, <2>1, <3>1
  <2>2. CASE v # u
    <3>1. v \notin spoiled /\ ~Writing(v)
      BY <1>2, <1>3, <1>5, <1>6, <2>2 DEF Writing
    <3> QED BY <3>1 DEF StoreInv, WholeUnlessSpoiled
  <2> QED BY <2>1, <2>2
<1> QED BY <1>7, <1>8, <1>12, <1>14 DEF StoreInv

LEMMA InitStore == Init => StoreInv
<1> SUFFICES ASSUME Init PROVE StoreInv
  OBVIOUS
<1>1. uploads \in Seq(UploadType) /\ Len(uploads) = 0
  BY DEF Init
<1>2. WriterTypes
  <2>1. <<>> \in Seq(CallType)
    OBVIOUS
  <2> QED BY <1>1, <2>1, ConstantsAssumption DEF Init, WriterTypes
<1>3. StillToWrite
  BY DEF Init, StillToWrite
<1>4. "points" \in Parts /\ "boundingbox" \in Parts
  BY DEF Parts, CloudParts
<1>5. BoxWithPoints
  BY <1>4 DEF Init, BoxWithPoints
<1>6. WholeUnlessSpoiled
  <2>1. ToSet(Layout) \cup {"fields", "header"} \subseteq Parts
    BY PartsAre DEF Parts
  <2>2. 0 \in 0 .. Len(uploads)
    BY <1>1
  <2>3. \A u \in Uuids : \A p \in ToSet(Layout) \cup {"fields", "header"} : file[u][p] = 0
    BY <2>1 DEF Init
  <2> QED BY <2>2, <2>3 DEF WholeUnlessSpoiled
<1> QED BY <1>2, <1>3, <1>5, <1>6 DEF StoreInv

\* No step breaks the invariant.
LEMMA StoreInvKept ==
  IndexInv /\ LayoutInv /\ StoreInv /\ [Next]_vars => StoreInv'
<1> SUFFICES ASSUME IndexInv, LayoutInv, StoreInv, [Next]_vars PROVE StoreInv'
  OBVIOUS
<1>1. CASE UNCHANGED <<uploads, pc, job, calls, mutex, file, spoiled>>
  <2>1. uploads \in Seq(UploadType) /\ Len(uploads) \in Nat
    BY DEF StoreInv, WriterTypes, IndexInv, Handling
  <2> QED BY <1>1, <2>1, FileLeftAlone DEF StoreInv, WriterTypes
<1>2. ClientStep => UNCHANGED <<uploads, pc, job, calls, mutex, file, spoiled>>
  BY DEF ClientStep, SetPointCloud2Fields, SetPointCloud2FieldsByString, Resize, Clear, Edit,
         fileVars
<1>3. ASSUME NEW h \in Handlers, NEW u \in Uuids, NEW content \in Contents,
             Transfer(h, u, content)
      PROVE StoreInv'
  BY <1>3, TransferKeepsStore
<1>4. ASSUME NEW h \in Handlers, UploadStep(h) PROVE StoreInv'
  <2>1. UNCHANGED uploads
    BY <1>4 DEF UploadStep
  <2>2. CASE Lock(h)
    BY <2>1, <2>2, LockKeepsStore
  <2>3. CASE Write(h)
    BY <2>1, <2>3, WriteKeepsStore
  <2>4. CASE Unlock(h)
    BY <2>1, <2>4, UnlockKeepsStore
  <2>5. CASE LoadBoundingBox(h) \/ NoBoundingBox(h) \/ AddDataset(h) \/ Fail(h)
    BY <2>1, <2>5, NotWriting
  <2> QED BY <1>4, <2>2, <2>3, <2>4, <2>5 DEF UploadStep
<1>5. CASE Restart
  <2>1. /\ pc' = [h \in Handlers |-> "idle"] /\ calls' = [h \in Handlers |-> <<>>]
        /\ mutex' = None /\ UNCHANGED <<uploads, file>>
        /\ spoiled' = spoiled \cup {Upload(h).uuid : h \in {g \in Handlers : pc[g] = "write"}}
    BY <1>5 DEF Restart, fileVars
  <2>2. \A h \in Handlers : pc'[h] # "write" /\ mutex' # h
    BY <2>1, ConstantsAssumption
  <2>3. calls' \in [Handlers -> Seq(CallType)]
    <3>1. <<>> \in Seq(CallType)
      OBVIOUS
    <3> QED BY <2>1, <3>1
  <2>4. uploads \in Seq(UploadType) /\ Len(uploads) \in Nat
    BY DEF StoreInv, WriterTypes, IndexInv, Handling
  <2>5. \A h \in Handlers : pc[h] = "write" => Upload(h).uuid \in spoiled'
    BY <2>1
  <2> QED BY <2>1, <2>2, <2>3, <2>4, <2>5, FileLeftAlone
<1>6. UNCHANGED vars => UNCHANGED <<uploads, pc, job, calls, mutex, file, spoiled>>
  BY DEF vars, fileVars
<1> QED BY <1>1, <1>2, <1>3, <1>4, <1>5, <1>6 DEF Next

LEMMA StoreInvHolds == Spec => [](IndexInv /\ StoreInv)
<1>1. Spec => []IndexInv
  BY InitIndex, IndexInvKept, PTL DEF Spec
<1>2. Spec => []StoreInv
  BY <1>1, LayoutInvHolds, InitStore, StoreInvKept, PTL DEF Spec
<1> QED BY <1>1, <1>2, PTL

\* However two uploads under one uuid interleave, and whatever throws or stops on the way:
\* what is stored when nobody writes is all that one message has to store, but at a uuid at
\* which a write was not carried through.
THEOREM StoredWhole == Spec => []WholeUnlessSpoiled
<1>1. StoreInv => WholeUnlessSpoiled
  BY DEF StoreInv
<1> QED BY <1>1, StoreInvHolds, PTL

\* The bounding box in the file contains the points in the file, whatever coordinates the
\* messages have and whichever of them were sent under the uuid.
THEOREM BoxesCover == Spec => []BoxCovers
<1>1. IndexInv /\ StoreInv => BoxCovers
  <2> SUFFICES ASSUME IndexInv, StoreInv, NEW u \in Uuids, ~Writing(u), u \notin spoiled,
                      file[u]["points"] # 0,
                      NEW k \in Points(uploads[file[u]["points"]].cloud),
                      Value(uploads[file[u]["points"]], k) # NaN
               PROVE  LET m == uploads[file[u]["points"]]
                          b == BoundingBox(uploads[file[u]["boundingbox"]])
                      IN b[1] <= Value(m, k) /\ Value(m, k) <= b[2]
    BY DEF BoxCovers
  <2>1. file[u]["points"] = file[u]["boundingbox"]
    BY DEF StoreInv, BoxWithPoints, Writing
  <2>2. file[u]["points"] \in 1 .. Len(uploads)
    BY <2>1 DEF IndexInv, BoxSent
  <2>3. uploads[file[u]["points"]] \in UploadType
    BY <2>2 DEF StoreInv, WriterTypes
  <2> QED BY <2>1, <2>3, InsideBox
<1> QED BY <1>1, StoreInvHolds, PTL

-----------------------------------------------------------------------------
(* Types.                                                                  *)

\* The rest of the types: what TypeOK says of the handlers, the file and the index.
Counted ==
  /\ \A h \in Handlers : pc[h] = "idle" => job[h] = 0
  /\ box \in [Handlers -> 0 .. Len(uploads)]
  /\ \A h \in Handlers : pc[h] = "add" => box[h] # 0
  /\ mutex \in Handlers \cup {None}
  /\ file \in [Uuids -> [Parts -> 0 .. Len(uploads)]]
  /\ DOMAIN extent = Uuids /\ \A u \in Uuids : DOMAIN extent[u] = DataSets
  /\ \A e \in index : e.uuid \in Uuids /\ {e.header, e.box} \subseteq 1 .. Len(uploads)
  /\ spoiled \subseteq Uuids

LEMMA CountedKept ==
  IndexInv /\ StoreInv /\ Counted /\ [Next]_vars => Counted'
<1> SUFFICES ASSUME IndexInv, StoreInv, Counted, [Next]_vars PROVE Counted'
  OBVIOUS
<1>1. /\ Len(uploads) \in Nat /\ pc \in [Handlers -> Labels]
      /\ job \in [Handlers -> 0 .. Len(uploads)] /\ uploads \in Seq(UploadType)
      /\ "boundingbox" \in Parts
  BY PartsHaveBox DEF IndexInv, Handling, StoreInv, WriterTypes
<1>2. ClientStep \/ UNCHANGED vars =>
        UNCHANGED <<uploads, pc, job, box, mutex, file, extent, index, spoiled>>
  BY DEF ClientStep, SetPointCloud2Fields, SetPointCloud2FieldsByString, Resize, Clear, Edit,
         fileVars, vars
<1>3. CASE UNCHANGED <<uploads, pc, job, box, mutex, file, extent, index, spoiled>>
  BY <1>3 DEF Counted
<1>4. ASSUME NEW h \in Handlers, NEW u \in Uuids, NEW content \in Contents,
             Transfer(h, u, content)
      PROVE Counted'
  <2>1. PICK e : uploads' = Append(uploads, e)
    BY <1>4 DEF Transfer
  <2>2. Len(uploads') = Len(uploads) + 1
    BY <1>1, <2>1, UploadsAppended
  <2>3. /\ 0 .. Len(uploads) \subseteq 0 .. Len(uploads')
        /\ 1 .. Len(uploads) \subseteq 1 .. Len(uploads')
    BY <1>1, <2>2
  <2>4. /\ pc[h] = "idle" /\ pc' = [pc EXCEPT ![h] = "lock"]
        /\ job' = [job EXCEPT ![h] = Len(uploads) + 1]
        /\ UNCHANGED <<box, mutex, file, extent, index, spoiled>>
    BY <1>4 DEF Transfer, Goto, fileVars
  <2>5. \A g \in Handlers : /\ pc'[g] = "idle" => job'[g] = 0
                            /\ pc'[g] = "add" => box'[g] # 0
    BY <1>1, <2>4 DEF Counted
  <2>6. file' \in [Uuids -> [Parts -> 0 .. Len(uploads')]]
    BY <2>3, <2>4 DEF Counted
  <2>7. box' \in [Handlers -> 0 .. Len(uploads')]
    BY <2>3, <2>4 DEF Counted
  <2>8. \A e1 \in index' : e1.uuid \in Uuids /\ {e1.header, e1.box} \subseteq 1 .. Len(uploads')
    BY <2>3, <2>4 DEF Counted
  <2> QED BY <2>4, <2>5, <2>6, <2>7, <2>8 DEF Counted
<1>5. ASSUME NEW h \in Handlers, UNCHANGED uploads, UNCHANGED <<file, extent, index>>,
             spoiled' \subseteq Uuids, mutex' \in Handlers \cup {None},
             \/ Leave(h)
             \/ \E l \in {"write", "box"} :
                  pc' = [pc EXCEPT ![h] = l] /\ pc[h] # "idle" /\ UNCHANGED <<job, box>>
      PROVE  Counted'
  <2>1. \A g \in Handlers : /\ pc'[g] = "idle" => job'[g] = 0
                            /\ pc'[g] = "add" => box'[g] # 0
    BY <1>1, <1>5 DEF Leave, Goto, Counted
  <2>2. box' \in [Handlers -> 0 .. Len(uploads)]
    <3>1. 0 \in 0 .. Len(uploads) /\ box \in [Handlers -> 0 .. Len(uploads)]
      BY <1>1 DEF Counted
    <3>2. box' = box \/ box' = [box EXCEPT ![h] = 0]
      BY <1>5 DEF Leave
    <3> QED BY <3>1, <3>2
  <2> QED BY <1>5, <2>1, <2>2 DEF Counted
<1>6. ASSUME NEW h \in Handlers, UploadStep(h) PROVE Counted'
  <2>1. UNCHANGED uploads
    BY <1>6 DEF UploadStep
  <2>2. pc[h] # "idle" => /\ job[h] \in 1 .. Len(uploads)
                          /\ Upload(h) \in UploadType /\ Upload(h).uuid \in Uuids
    BY <1>1, UploadIs
  <2>3. mutex \in Handlers \cup {None} /\ spoiled \subseteq Uuids
    BY DEF Counted
  <2>4. CASE Lock(h)
    <3>1. /\ pc' = [pc EXCEPT ![h] = "write"] /\ pc[h] # "idle" /\ mutex' = h
          /\ UNCHANGED <<job, box, file, extent, index, spoiled>>
      BY <2>4 DEF Lock, Goto, fileVars
    <3> QED BY <1>5, <2>1, <2>3, <3>1
  <2>5. CASE Write(h)
    <3>1. pc[h] # "idle" /\ UNCHANGED <<pc, job, box, mutex, index, spoiled>>
      BY <2>5 DEF Write
    <3>2. PICK u \in Uuids, n \in 0 .. Len(uploads) : u = Upload(h).uuid /\ n = job[h]
      BY <1>1, <2>2, <3>1
    <3>3. PICK p : \/ file' = file
                   \/ file' = [file EXCEPT ![u] = [file[u] EXCEPT ![p] = n]]
      BY <2>5, <3>2 DEF Write
    <3>4. PICK d, of : \/ extent' = extent
                       \/ extent' = [extent EXCEPT ![u] = [extent[u] EXCEPT ![d] = of]]
      BY <2>5, <3>2 DEF Write
    <3>5. file' \in [Uuids -> [Parts -> 0 .. Len(uploads)]]
      <4>1. [file[u] EXCEPT ![p] = n] \in [Parts -> 0 .. Len(uploads)]
        BY <3>2 DEF Counted
      <4> QED BY <3>3, <4>1 DEF Counted
    <3>6. DOMAIN extent' = Uuids /\ \A v \in Uuids : DOMAIN extent'[v] = DataSets
      BY <3>4 DEF Counted
    <3> QED BY <2>1, <3>1, <3>5, <3>6 DEF Counted
  <2>6. CASE Fail(h)
    <3>1. /\ Leave(h) /\ mutex' = None /\ UNCHANGED <<file, extent, index>>
          /\ pc[h] = "write" /\ spoiled' = spoiled \cup {Upload(h).uuid}
      BY <2>6 DEF Fail, fileVars
    <3>2. spoiled' \subseteq Uuids
      BY <2>2, <2>3, <3>1
    <3> QED BY <1>5, <2>1, <3>1, <3>2
  <2>7. CASE Unlock(h)
    <3>1. /\ pc' = [pc EXCEPT ![h] = "box"] /\ pc[h] # "idle" /\ mutex' = None
          /\ UNCHANGED <<job, box, file, extent, index>>
      BY <2>7 DEF Unlock, Goto, fileVars
    <3>2. spoiled' \subseteq Uuids
      BY <2>3, <2>7 DEF Unlock
    <3> QED BY <1>5, <2>1, <3>1, <3>2
  <2>8. CASE LoadBoundingBox(h)
    <3>1. /\ pc[h] = "box" /\ pc' = [pc EXCEPT ![h] = "add"]
          /\ file[Upload(h).uuid]["boundingbox"] # 0
          /\ box' = [box EXCEPT ![h] = file[Upload(h).uuid]["boundingbox"]]
          /\ UNCHANGED <<job, mutex, file, extent, index, spoiled>>
      BY <2>8 DEF LoadBoundingBox, Goto, fileVars
    <3>2. PICK b \in 1 .. Len(uploads) : b = file[Upload(h).uuid]["boundingbox"]
      BY <1>1, <2>2, <3>1 DEF Counted
    <3>3. /\ box' \in [Handlers -> 0 .. Len(uploads)]
          /\ \A g \in Handlers : pc'[g] = "add" => box'[g] # 0
      BY <1>1, <3>1, <3>2 DEF Counted
    <3>4. \A g \in Handlers : pc'[g] = "idle" => job'[g] = 0
      BY <1>1, <3>1 DEF Counted
    <3> QED BY <2>1, <3>1, <3>3, <3>4 DEF Counted
  <2>9. CASE NoBoundingBox(h)
    <3>1. Leave(h) /\ UNCHANGED <<mutex, file, extent, index, spoiled>>
      BY <2>9 DEF NoBoundingBox, fileVars
    <3> QED BY <1>5, <2>1, <2>3, <3>1
  <2>10. CASE AddDataset(h)
    <3> DEFINE entry == [uuid |-> Upload(h).uuid, header |-> job[h], box |-> box[h]]
    <3>1. /\ pc[h] = "add" /\ Leave(h) /\ UNCHANGED <<mutex, file, extent, spoiled>>
          /\ index' = index \cup {entry}
      BY <2>10 DEF AddDataset, fileVars
    <3>2. box[h] \in 1 .. Len(uploads) /\ job[h] \in 1 .. Len(uploads) /\ Upload(h).uuid \in Uuids
      BY <1>1, <2>2, <3>1 DEF Counted
    <3>3. entry.uuid \in Uuids /\ {entry.header, entry.box} \subseteq 1 .. Len(uploads)
      BY <3>2
    <3>4. \A e \in index' : e.uuid \in Uuids /\ {e.header, e.box} \subseteq 1 .. Len(uploads)
      <4> HIDE DEF entry
      <4> QED BY <3>1, <3>3 DEF Counted
    <3>5. \A g \in Handlers : /\ pc'[g] = "idle" => job'[g] = 0
                              /\ pc'[g] = "add" => box'[g] # 0
      BY <1>1, <3>1 DEF Leave, Goto, Counted
    <3>6. box' \in [Handlers -> 0 .. Len(uploads)]
      BY <1>1, <3>1 DEF Leave, Counted
    <3> QED BY <2>1, <3>1, <3>4, <3>5, <3>6 DEF Counted
  <2> QED BY <1>6, <2>4, <2>5, <2>6, <2>7, <2>8, <2>9, <2>10 DEF UploadStep
<1>7. CASE Restart
  <2>1. /\ pc' = [h \in Handlers |-> "idle"] /\ job' = [h \in Handlers |-> 0]
        /\ box' = [h \in Handlers |-> 0] /\ mutex' = None /\ index' = {}
        /\ spoiled' = spoiled \cup {Upload(h).uuid : h \in {g \in Handlers : pc[g] = "write"}}
        /\ UNCHANGED <<uploads, file, extent>>
    BY <1>7 DEF Restart, fileVars
  <2>2. \A h \in Handlers : pc[h] = "write" => Upload(h).uuid \in Uuids
    BY <1>1, UploadIs
  <2>3. spoiled' \subseteq Uuids
    BY <2>1, <2>2 DEF Counted
  <2> QED BY <1>1, <2>1, <2>3 DEF Counted
<1> QED BY <1>2, <1>3, <1>4, <1>6, <1>7 DEF Next

\* Every variable has its type: the message its layout, a handler an upload just while it
\* is not idle, and the index only boxes that were read.
THEOREM TypeCorrect == Spec => []TypeOK
<1>1. Init => Counted
  <2> SUFFICES ASSUME Init PROVE Counted
    OBVIOUS
  <2>1. Len(uploads) = 0 /\ 0 \in 0 .. Len(uploads)
    BY DEF Init
  <2> QED BY <2>1 DEF Init, Counted
<1>2. Spec => []Counted
  BY <1>1, CountedKept, StoreInvHolds, PTL DEF Spec
<1>3. LayoutInv /\ IndexInv /\ Counted => TypeOK
  <2> SUFFICES ASSUME LayoutInv, IndexInv, Counted PROVE TypeOK
    OBVIOUS
  <2>1. /\ {cloud.height, cloud.width, cloud.point_step, cloud.row_step, cloud.size} \subseteq Nat
        /\ cloud.is_bigendian \in BOOLEAN /\ threw \in BOOLEAN
    BY DEF LayoutInv, MessageType
  <2>2. \A i \in DOMAIN cloud.fields :
          cloud.fields[i].name \in Names /\ cloud.fields[i].offset \in Nat
    <3> SUFFICES ASSUME NEW i \in DOMAIN cloud.fields
                 PROVE  cloud.fields[i].name \in Names /\ cloud.fields[i].offset \in Nat
      OBVIOUS
    <3>1. cloud.fields[i] \in StoredField
      BY DEF LayoutInv, MessageType
    <3> QED BY <3>1 DEF StoredField
  <2>3. /\ pc \in [Handlers -> {"idle", "lock", "write", "box", "add"}]
        /\ job \in [Handlers -> 0 .. Len(uploads)]
        /\ \A h \in Handlers : (pc[h] = "idle") <=> (job[h] = 0)
        /\ acked \subseteq 1 .. Len(uploads)
    BY DEF IndexInv, Handling, Counted, Labels
  <2> QED BY <2>1, <2>2, <2>3 DEF Counted, TypeOK
<1> QED BY <1>2, <1>3, LayoutInvHolds, StoreInvHolds, PTL

=============================================================================
