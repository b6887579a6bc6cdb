---------------------------- MODULE Hdf5TfProofs ----------------------------
(***************************************************************************)
(* Proofs about Hdf5Tf when every thread that stores transforms takes the  *)
(* mutex, for every number of threads, frame pairs, transforms, requests   *)
(* and crashes: the file implements the log of TfLog.                      *)
(*                                                                         *)
(* The inductive invariant says that one thread at a time is between two   *)
(* calls (Exclusion), how far it has come in its group (Progress), that    *)
(* no column is shorter than "size", also after a crash (FileOK), and that *)
(* what was answered is in the log (Stored).  The part before the last     *)
(* counts what crashes damage; the last one is about threads that do not   *)
(* take the mutex, too.                                                    *)
(***************************************************************************)
EXTENDS Hdf5Tf, SequenceTheorems, FiniteSetTheorems, TLAPS

Exclusion == \A w \in Writers : pc[w] \in InFile <=> mutex = w

FileOK ==
  \A g \in Groups :
    /\ frames[g] = None => size[g] = None
    /\ size[g] # None => \A k \in Columns : Len(rows[g][k]) >= size[g]

\* The columns before j have n rows.
Grown(g, j, n) == \A k \in Columns : k < j => Len(rows[g][k]) = n
\* The cells before column j of row n are those of row r.
Filled(g, j, n, r) == \A k \in Columns : k < j => rows[g][k][n] = r[k]

Progress(w) ==
  LET g == GroupOf(w)
  IN  /\ pc[w] = "createGroup" => frames[g] = None
      /\ pc[w] \in {"create", "resize", "write", "size"} => frames[g] # None
      /\ pc[w] = "create" => /\ size[g] = None /\ got[w] = 0
                             /\ Grown(g, col[w], 1)
      /\ pc[w] = "resize" => /\ size[g] = got[w]
                             /\ Grown(g, col[w], got[w] + 1)
      /\ pc[w] = "write" => /\ size[g] = got[w] \/ (size[g] = None /\ got[w] = 0)
                            /\ Grown(g, 4, got[w] + 1)
                            /\ Filled(g, col[w], got[w] + 1, RowOf(w))
      /\ pc[w] = "size" => /\ size[g] = got[w] \/ (size[g] = None /\ got[w] = 0)
                           /\ Grown(g, 4, got[w] + 1)
                           /\ Filled(g, 4, got[w] + 1, RowOf(w))
      /\ pc[w] = "flush" => /\ size[g] = got[w] + 1
                            /\ Grown(g, 4, got[w] + 1)
                            /\ Filled(g, 4, got[w] + 1, RowOf(w))
      /\ pc[w] # "idle" => req[w] \in Messages

InLog(m) == \E i \in DOMAIN Log(Group(m[1])) : Log(Group(m[1]))[i] = m[2]
Stored ==
  /\ \A m \in answered : InLog(m)
  /\ \A w \in Writers : pc[w] = "addTF" => InLog(req[w])

IInv ==
  /\ TypeOK
  /\ Exclusion
  /\ FileOK
  /\ \A w \in Writers : Progress(w)
  /\ Stored

-----------------------------------------------------------------------------
(* The columns and the log.                                                *)

\* One column of one group is replaced.
LEMMA ColumnUpdate ==
  ASSUME rows \in [Groups -> [Columns -> Seq(Values)]],
         NEW g \in Groups, NEW k \in Columns, NEW v \in Seq(Values),
         rows' = [rows EXCEPT ![g][k] = v]
  PROVE  /\ rows' \in [Groups -> [Columns -> Seq(Values)]]
         /\ rows'[g][k] = v
         /\ \A h \in Groups, j \in Columns : h # g \/ j # k => rows'[h][j] = rows[h][j]
OBVIOUS

\* The log of a group stays when "size" stays and no row it covers is touched.
LEMMA LogKept ==
  ASSUME TypeOK, NEW g \in Groups, size'[g] = size[g],
         size[g] # None => \A k \in Columns : \A i \in 1 .. size[g] : rows'[g][k][i] = rows[g][k][i]
  PROVE  Log(g)' = Log(g)
<1>1. CASE size[g] = None
  BY <1>1 DEF Log, Row
<1>2. CASE size[g] # None
  <2>1. \A i \in 1 .. size[g] : Row(g, i)' = Row(g, i)
    BY <1>2 DEF Row
  <2> QED BY <1>2, <2>1 DEF Log
<1> QED BY <1>1, <1>2

\* The file is as it was.
LEMMA FileKept ==
  ASSUME UNCHANGED file
  PROVE  \A g \in Groups : Log(g)' = Log(g)
BY DEF file, Log, Row

\* What is in the log stays there as long as it only grows.
LEMMA InLogKept ==
  ASSUME NEW m \in Messages, InLog(m),
         \A i \in DOMAIN Log(Group(m[1])) :
            i \in DOMAIN Log(Group(m[1]))' /\ Log(Group(m[1]))'[i] = Log(Group(m[1]))[i]
  PROVE  InLog(m)'
BY DEF InLog

\* The group of a message is a group.
LEMMA MessageGroup ==
  ASSUME NEW m \in Messages
  PROVE  Group(m[1]) \in Groups /\ m[2] \in Rows /\ m[1] \in Pairs /\ m = <<m[1], m[2]>>
BY DEF Messages, Groups

\* While a thread is between two calls, no other is.
LEMMA OneInFile ==
  ASSUME Exclusion, NEW w \in Writers, pc[w] \in InFile, NEW v \in Writers, v # w
  PROVE  pc[v] \notin InFile
BY DEF Exclusion

\* A thread that is not in the file and does not move makes no progress to state.
LEMMA OthersProgress ==
  ASSUME NEW v \in Writers, Progress(v), pc[v] \notin InFile, pc'[v] = pc[v], req'[v] = req[v]
  PROVE  Progress(v)'
BY DEF Progress, InFile

\* Where the log stays and nothing is answered, Stored is about the threads that
\* come to the answer.
LEMMA StoredKept ==
  ASSUME TypeOK, Stored, \A w \in Writers : Progress(w),
         \A g \in Groups : \A i \in DOMAIN Log(g) : i \in DOMAIN Log(g)' /\ Log(g)'[i] = Log(g)[i],
         answered' = answered,
         \A w \in Writers : pc'[w] = "addTF" => pc[w] = "addTF" /\ req'[w] = req[w]
  PROVE  Stored'
<1>1. ASSUME NEW m \in Messages, InLog(m) PROVE InLog(m)'
  <2>1. Group(m[1]) \in Groups
    BY MessageGroup
  <2> QED BY <1>1, <2>1, InLogKept
<1>2. \A m \in answered' : InLog(m)'
  BY <1>1 DEF TypeOK, Stored
<1>3. ASSUME NEW w \in Writers, pc'[w] = "addTF" PROVE InLog(req[w])'
  <2>1. pc[w] = "addTF" /\ req'[w] = req[w]
    BY <1>3
  <2>2. req[w] \in Messages /\ InLog(req[w])
    BY <2>1 DEF Progress, Stored
  <2> QED BY <1>1, <2>1, <2>2 DEF InLog
<1> QED BY <1>2, <1>3 DEF Stored

-----------------------------------------------------------------------------
(* The steps that leave the file as it is.                                 *)

Quiet == UNCHANGED <<buffer, serving, answered, requests, restarts>>

\* The state of the file, and what says so, survives a step that leaves it.
LEMMA FileOKKept ==
  ASSUME FileOK, UNCHANGED file
  PROVE  FileOK'
BY DEF FileOK, file

\* A request comes in.
LEMMA ReceiveStep ==
  ASSUME IInv, Locked = Writers, NEW w \in Writers, NEW pair \in Pairs, NEW row \in Rows,
         Receive(w, pair, row)
  PROVE  IInv'
<1> USE DEF Receive, Goto
<1>1. TypeOK'
  BY ConstantsAssumption DEF IInv, TypeOK, InFile, file, Messages
<1>2. Exclusion'
  BY DEF IInv, TypeOK, Exclusion, InFile
<1>3. FileOK'
  BY FileOKKept DEF IInv
<1>4. ASSUME NEW v \in Writers PROVE Progress(v)'
  <2>1. CASE v = w
    BY <2>1 DEF IInv, TypeOK, Progress, Messages
  <2>2. CASE v # w
    BY <2>2 DEF IInv, TypeOK, Progress, file, GroupOf, RowOf, Grown, Filled
  <2> QED BY <2>1, <2>2
<1>5. Stored'
  BY StoredKept, FileKept DEF IInv, TypeOK
<1> QED BY <1>1, <1>2, <1>3, <1>4, <1>5 DEF IInv

\* The thread takes the mutex.
LEMMA LockStep ==
  ASSUME IInv, Locked = Writers, NEW w \in Writers, Lock(w), Quiet
  PROVE  IInv'
<1> USE DEF Lock, Goto, Quiet
<1>1. TypeOK'
  BY DEF IInv, TypeOK, InFile, file
<1>2. Exclusion'
  BY ConstantsAssumption DEF IInv, TypeOK, Exclusion, InFile
<1>3. FileOK'
  BY FileOKKept DEF IInv
<1>4. ASSUME NEW v \in Writers PROVE Progress(v)'
  <2>1. CASE v = w
    BY <2>1 DEF IInv, TypeOK, Progress
  <2>2. CASE v # w
    <3>1. pc[v] \notin InFile
      BY ConstantsAssumption DEF IInv, Exclusion
    <3> QED BY <2>2, <3>1, OthersProgress DEF IInv, TypeOK
  <2> QED BY <2>1, <2>2
<1>5. Stored'
  BY StoredKept, FileKept DEF IInv, TypeOK
<1> QED BY <1>1, <1>2, <1>3, <1>4, <1>5 DEF IInv

\* The library throws.
LEMMA FailStep ==
  ASSUME IInv, Locked = Writers, NEW w \in Writers, pc[w] \in InFile, Fail(w), Quiet
  PROVE  IInv'
<1> USE DEF Fail, Unlock, Goto, Quiet
<1>1. TypeOK'
  BY DEF IInv, TypeOK, InFile, file
<1>2. Exclusion'
  BY ConstantsAssumption, OneInFile DEF IInv, TypeOK, Exclusion, InFile
<1>3. FileOK'
  BY FileOKKept DEF IInv
<1>4. ASSUME NEW v \in Writers PROVE Progress(v)'
  <2>1. CASE v = w
    BY <2>1 DEF IInv, TypeOK, Progress
  <2>2. CASE v # w
    BY <2>2, OneInFile, OthersProgress DEF IInv, TypeOK
  <2> QED BY <2>1, <2>2
<1>5. Stored'
  BY StoredKept, FileKept DEF IInv, TypeOK
<1> QED BY <1>1, <1>2, <1>3, <1>4, <1>5 DEF IInv

\* The thread looks for the group.
LEMMA FindStep ==
  ASSUME IInv, Locked = Writers, NEW w \in Writers, Find(w), Quiet
  PROVE  IInv'
<1> USE DEF Find, Goto, Quiet
<1>0. pc[w] \in InFile
  BY DEF InFile
<1>1. TypeOK'
  BY DEF IInv, TypeOK, InFile, file
<1>2. Exclusion'
  BY DEF IInv, TypeOK, Exclusion, InFile
<1>3. FileOK'
  BY FileOKKept DEF IInv
<1>4. ASSUME NEW v \in Writers PROVE Progress(v)'
  <2>1. CASE v = w
    BY <2>1 DEF IInv, TypeOK, Progress, file, GroupOf
  <2>2. CASE v # w
    BY <1>0, <2>2, OneInFile, OthersProgress DEF IInv, TypeOK
  <2> QED BY <2>1, <2>2
<1>5. Stored'
  BY StoredKept, FileKept DEF IInv, TypeOK
<1> QED BY <1>1, <1>2, <1>3, <1>4, <1>5 DEF IInv

\* The thread opens the data sets and reads "size".
LEMMA OpenStep ==
  ASSUME IInv, Locked = Writers, NEW w \in Writers, Open(w), Quiet
  PROVE  IInv'
<1> DEFINE g == GroupOf(w)
<1>0. pc[w] = "open" /\ pc[w] \in InFile /\ req[w] \in Messages /\ g \in Groups
  BY MessageGroup DEF Open, InFile, IInv, Progress, GroupOf
<1>a. CASE Fail(w)
  BY <1>0, <1>a, FailStep
<1>b. CASE /\ size[g] # None
           /\ got' = [got EXCEPT ![w] = size[g]] /\ col' = [col EXCEPT ![w] = 1]
           /\ pc' = [pc EXCEPT ![w] = "resize"] /\ UNCHANGED <<file, mutex, req>>
  <2> USE <1>0, <1>b DEF Quiet
  <2>1. TypeOK'
    BY <1>0 DEF IInv, TypeOK, InFile, file, Columns
  <2>2. Exclusion'
    BY DEF IInv, TypeOK, Exclusion, InFile
  <2>3. FileOK'
    BY FileOKKept DEF IInv
  <2>4. ASSUME NEW v \in Writers PROVE Progress(v)'
    <3>1. CASE v = w
      <4>1. /\ pc'[w] = "resize" /\ col'[w] = 1 /\ got'[w] = size'[g] /\ req'[w] \in Messages
            /\ frames'[g] # None
        BY DEF IInv, TypeOK, FileOK, file
      <4>2. GroupOf(w)' = g
        BY DEF GroupOf
      <4>3. Grown(GroupOf(w), col[w], got[w] + 1)'
        BY <4>1 DEF Grown, Columns
      <4> QED BY <3>1, <4>1, <4>2, <4>3 DEF Progress
    <3>2. CASE v # w
      BY <1>0, <3>2, OneInFile, OthersProgress DEF IInv, TypeOK
    <3> QED BY <3>1, <3>2
  <2>5. Stored'
    BY StoredKept, FileKept DEF IInv, TypeOK
  <2> QED BY <2>1, <2>2, <2>3, <2>4, <2>5 DEF IInv
<1> QED BY <1>a, <1>b DEF Open, Goto

\* What the holder of the mutex finds in its group before it flushes.
LEMMA FlushedRow ==
  ASSUME TypeOK, NEW w \in Writers, Progress(w), pc[w] = "flush"
  PROVE  /\ GroupOf(w) \in Groups /\ RowOf(w) \in Rows
         /\ size[GroupOf(w)] = got[w] + 1
         /\ \A k \in Columns : Len(rows[GroupOf(w)][k]) = size[GroupOf(w)]
         /\ Row(GroupOf(w), size[GroupOf(w)]) = RowOf(w)
<1> DEFINE g == GroupOf(w)
<1>1. req[w] \in Messages /\ g \in Groups /\ RowOf(w) \in Rows
  BY MessageGroup DEF Progress, GroupOf, RowOf
<1>2. /\ size[g] = got[w] + 1
      /\ Grown(g, 4, got[w] + 1)
      /\ Filled(g, 4, got[w] + 1, RowOf(w))
  BY DEF Progress
<1>3. \A k \in Columns : k < 4 /\ Len(rows[g][k]) = size[g] /\ rows[g][k][size[g]] = RowOf(w)[k]
  BY <1>2 DEF Columns, Grown, Filled
<1>4. RowOf(w) = [k \in Columns |-> RowOf(w)[k]]
  BY <1>1, ConstantsAssumption
<1>5. Row(g, size[g]) = RowOf(w)
  BY <1>3, <1>4 DEF Row
<1> QED BY <1>1, <1>2, <1>3, <1>5

\* Its transform is in the log.
LEMMA FlushedInLog ==
  ASSUME TypeOK, NEW w \in Writers, Progress(w), pc[w] = "flush"
  PROVE  InLog(req[w])
<1> DEFINE g == GroupOf(w)
<1>1. g \in Groups /\ size[g] \in Nat \ {0} /\ Row(g, size[g]) = RowOf(w)
  BY FlushedRow DEF TypeOK
<1>2. size[g] # None
  BY <1>1, ConstantsAssumption
<1>3. size[g] \in DOMAIN Log(g) /\ Log(g)[size[g]] = RowOf(w)
  BY <1>1, <1>2 DEF Log
<1> QED BY <1>3 DEF InLog, GroupOf, RowOf

\* The thread flushes the file and releases the mutex.
LEMMA FlushStep ==
  ASSUME IInv, Locked = Writers, NEW w \in Writers, Flush(w), Quiet
  PROVE  IInv'
<1> USE DEF Flush, Unlock, Goto, Quiet
<1>0. pc[w] \in InFile
  BY DEF InFile
<1>1. TypeOK'
  BY DEF IInv, TypeOK, InFile, file
<1>2. Exclusion'
  BY <1>0, ConstantsAssumption, OneInFile DEF IInv, TypeOK, Exclusion, InFile
<1>3. FileOK'
  BY FileOKKept DEF IInv
<1>4. ASSUME NEW v \in Writers PROVE Progress(v)'
  <2>1. CASE v = w
    BY <2>1 DEF IInv, TypeOK, Progress
  <2>2. CASE v # w
    BY <1>0, <2>2, OneInFile, OthersProgress DEF IInv, TypeOK
  <2> QED BY <2>1, <2>2
<1>5. Stored'
  <2>1. \A g \in Groups : Log(g)' = Log(g)
    BY FileKept
  <2>2. ASSUME NEW m \in Messages, InLog(m) PROVE InLog(m)'
    BY <2>1, <2>2, MessageGroup, InLogKept
  <2>3. \A m \in answered' : InLog(m)'
    BY <2>2 DEF IInv, TypeOK, Stored
  <2>4. ASSUME NEW v \in Writers, pc'[v] = "addTF" PROVE InLog(req[v])'
    <3>1. req[v] \in Messages /\ InLog(req[v]) /\ req'[v] = req[v]
      <4>1. CASE v = w
        BY <4>1, FlushedInLog DEF IInv, Progress
      <4>2. CASE v # w
        BY <2>4, <4>2 DEF IInv, TypeOK, Stored, Progress
      <4> QED BY <4>1, <4>2
    <3> QED BY <2>2, <3>1 DEF InLog
  <2> QED BY <2>3, <2>4 DEF Stored
<1> QED BY <1>1, <1>2, <1>3, <1>4, <1>5 DEF IInv

\* The transform goes to the buffer and the sender gets its answer.
LEMMA AddTFStep ==
  ASSUME IInv, Locked = Writers, NEW w \in Writers, AddTF(w), UNCHANGED <<serving, requests, restarts>>
  PROVE  IInv'
<1> USE DEF AddTF, Goto
<1>0. req[w] \in Messages /\ InLog(req[w])
  BY DEF IInv, Progress, Stored
<1>1. TypeOK'
  <2>1. req[w] \in Pairs \X [Columns -> Values]
    BY <1>0, ConstantsAssumption DEF Messages
  <2> QED BY <1>0, <2>1 DEF IInv, TypeOK, InFile, file
<1>2. Exclusion'
  BY DEF IInv, TypeOK, Exclusion, InFile
<1>3. FileOK'
  BY FileOKKept DEF IInv
<1>4. ASSUME NEW v \in Writers PROVE Progress(v)'
  <2>1. CASE v = w
    BY <2>1 DEF IInv, TypeOK, Progress
  <2>2. CASE v # w
    BY <2>2 DEF IInv, TypeOK, Progress, file, GroupOf, RowOf, Grown, Filled
  <2> QED BY <2>1, <2>2
<1>5. Stored'
  <2>1. \A g \in Groups : Log(g)' = Log(g)
    BY FileKept
  <2>2. ASSUME NEW m \in Messages, InLog(m) PROVE InLog(m)'
    BY <2>1, <2>2, MessageGroup, InLogKept
  <2>3. \A m \in answered : InLog(m)'
    BY <2>2 DEF IInv, TypeOK, Stored
  <2>4. ASSUME NEW m, m = req[w] PROVE InLog(m)'
    BY <1>0, <2>2, <2>4
  <2>5. \A m \in answered' : InLog(m)'
    BY <2>3, <2>4
  <2>6. ASSUME NEW v \in Writers, pc'[v] = "addTF" PROVE InLog(req[v])'
    <3>1. req[v] \in Messages /\ InLog(req[v]) /\ req'[v] = req[v]
      BY <2>6 DEF IInv, TypeOK, Stored, Progress
    <3> QED BY <2>2, <3>1 DEF InLog
  <2> QED BY <2>5, <2>6 DEF Stored
<1> QED BY <1>1, <1>2, <1>3, <1>4, <1>5 DEF IInv

\* The server goes down and comes up, or does not.
LEMMA RestartStep ==
  ASSUME IInv, Restart
  PROVE  IInv'
<1> USE DEF Restart
<1>1. TypeOK'
  <2>1. ASSUME NEW g \in Groups PROVE Loaded(g) \in SUBSET (Pairs \X [Columns -> Values])
    <3>1. CASE Loadable(g)
      <4>1. frames[g] \in Pairs
        BY <3>1, ConstantsAssumption DEF Loadable, IInv, FileOK, TypeOK
      <4>2. size[g] \in Nat /\ \A k \in Columns : rows[g][k] \in Seq(Values) /\ Len(rows[g][k]) = size[g]
        BY <3>1 DEF Loadable, IInv, TypeOK
      <4>3. \A i \in 1 .. size[g] : \A k \in Columns : rows[g][k][i] \in Values
        BY <4>2
      <4> QED BY <4>1, <4>3 DEF Loaded
    <3>2. CASE ~Loadable(g)
      BY <3>2 DEF Loaded
    <3> QED BY <3>1, <3>2
  <2>2. buffer' \in SUBSET (Pairs \X [Columns -> Values])
    BY <2>1
  <2>3. serving' \in BOOLEAN
    OBVIOUS
  <2>4. /\ UNCHANGED <<frames, rows, size, col, got, req, answered, requests>>
        /\ mutex' = None
        /\ pc' = [w \in Writers |-> "idle"]
        /\ restarts < MaxRestarts /\ restarts' = restarts + 1
    BY DEF file
  <2> HIDE DEF Restart
  <2> QED BY <2>2, <2>3, <2>4, ConstantsAssumption DEF IInv, TypeOK
<1>2. Exclusion'
  BY ConstantsAssumption DEF IInv, TypeOK, Exclusion, InFile
<1>3. FileOK'
  BY FileOKKept DEF IInv
<1>4. ASSUME NEW v \in Writers PROVE Progress(v)'
  BY DEF IInv, TypeOK, Progress
<1>5. Stored'
  BY StoredKept, FileKept DEF IInv, TypeOK
<1> QED BY <1>1, <1>2, <1>3, <1>4, <1>5 DEF IInv

-----------------------------------------------------------------------------
(* The steps that change the file.  They are those of the thread that      *)
(* holds the mutex.                                                        *)

\* What the proofs of these steps share: only thread w moves, it stays in the
\* file, and the logs only grow.
LEMMA InFileStep ==
  ASSUME IInv, NEW w \in Writers, pc[w] \in InFile, TypeOK', FileOK', Progress(w)',
         pc'[w] \in InFile, \A v \in Writers \ {w} : pc'[v] = pc[v],
         UNCHANGED <<mutex, req, answered>>,
         \A g \in Groups : \A i \in DOMAIN Log(g) : i \in DOMAIN Log(g)' /\ Log(g)'[i] = Log(g)[i]
  PROVE  IInv'
<1>1. Exclusion'
  <2> SUFFICES ASSUME NEW v \in Writers PROVE pc'[v] \in InFile <=> mutex' = v
    BY DEF Exclusion, InFile
  <2> QED BY DEF IInv, Exclusion
<1>2. ASSUME NEW v \in Writers PROVE Progress(v)'
  BY OneInFile, OthersProgress DEF IInv
<1>3. Stored'
  BY StoredKept DEF IInv, InFile
<1> QED BY <1>1, <1>2, <1>3 DEF IInv

\* The thread creates the group.
LEMMA CreateGroupStep ==
  ASSUME IInv, Locked = Writers, NEW w \in Writers, CreateGroup(w), Quiet
  PROVE  IInv'
<1> DEFINE g == GroupOf(w)
<1>0. /\ pc[w] = "createGroup" /\ pc[w] \in InFile /\ req[w] \in Messages /\ g \in Groups
      /\ frames[g] = None /\ size[g] = None /\ req[w][1] \in Pairs
  BY MessageGroup DEF CreateGroup, InFile, IInv, Progress, GroupOf, FileOK
<1>a. /\ frames' = [frames EXCEPT ![g] = req[w][1]]
      /\ got' = [got EXCEPT ![w] = 0] /\ col' = [col EXCEPT ![w] = 1]
      /\ pc' = [pc EXCEPT ![w] = "create"] /\ UNCHANGED <<rows, size, mutex, req>>
  BY <1>0 DEF CreateGroup, Goto
<1> USE <1>0, <1>a DEF Quiet
<1>1. TypeOK'
  <2>1. /\ frames' \in [Groups -> Pairs \cup {None}]
        /\ got' \in [Writers -> Nat]
        /\ col' \in [Writers -> Columns]
    BY DEF IInv, TypeOK, Columns
  <2>2. pc' \in [Writers -> {"idle", "lock", "addTF"} \cup InFile]
    BY DEF IInv, TypeOK, InFile
  <2> QED  BY <2>1, <2>2 DEF IInv, TypeOK
<1>2. FileOK'
  BY DEF IInv, TypeOK, FileOK
<1>3. Progress(w)'
  <2>1. /\ pc'[w] = "create" /\ col'[w] = 1 /\ got'[w] = 0 /\ size'[g] = None /\ req'[w] \in Messages
        /\ frames'[g] # None
    BY ConstantsAssumption DEF IInv, TypeOK
  <2>2. GroupOf(w)' = g
    BY DEF GroupOf
  <2>3. Grown(GroupOf(w), col[w], 1)'
    BY <2>1 DEF Grown, Columns
  <2> QED BY <2>1, <2>2, <2>3 DEF Progress
<1>4. \A h \in Groups : Log(h)' = Log(h)
  BY LogKept DEF IInv
<1>5. pc'[w] \in InFile /\ \A v \in Writers \ {w} : pc'[v] = pc[v]
  BY DEF IInv, TypeOK, InFile
<1> QED BY <1>1, <1>2, <1>3, <1>4, <1>5, InFileStep

\* The loop over the columns.
LEMMA NextColumnStep ==
  ASSUME TypeOK, NEW w \in Writers, NEW label, NextColumn(w, label)
  PROVE  /\ col' \in [Writers -> Columns]
         /\ \A v \in Writers \ {w} : pc'[v] = pc[v]
         /\ \/ col[w] \in 1 .. 2 /\ col'[w] = col[w] + 1 /\ pc' = pc
            \/ col[w] = 3 /\ col'[w] = 1 /\ pc' = [pc EXCEPT ![w] = label]
BY DEF TypeOK, NextColumn, Goto, Columns

\* The thread creates a data set.
LEMMA CreateDataSetStep ==
  ASSUME IInv, Locked = Writers, NEW w \in Writers, CreateDataSet(w), Quiet
  PROVE  IInv'
<1> DEFINE g == GroupOf(w)  k == col[w]
<1>0. /\ pc[w] = "create" /\ pc[w] \in InFile /\ req[w] \in Messages /\ g \in Groups
      /\ size[g] = None /\ got[w] = 0 /\ Grown(g, k, 1) /\ k \in Columns
      /\ frames[g] # None
  BY MessageGroup DEF CreateDataSet, InFile, IInv, TypeOK, Progress, GroupOf
<1>a. /\ rows' = [rows EXCEPT ![g][k] = <<Zero>>]
      /\ UNCHANGED <<frames, size, mutex, got, req>>
  BY DEF CreateDataSet
<1>b. /\ col' \in [Writers -> Columns]
      /\ \A v \in Writers \ {w} : pc'[v] = pc[v]
      /\ \/ k \in 1 .. 2 /\ col'[w] = k + 1 /\ pc' = pc
         \/ k = 3 /\ col'[w] = 1 /\ pc' = [pc EXCEPT ![w] = "write"]
  BY NextColumnStep DEF CreateDataSet, IInv
<1>c. /\ rows' \in [Groups -> [Columns -> Seq(Values)]]
      /\ Len(rows'[g][k]) = 1
      /\ \A h \in Groups, j \in Columns : h # g \/ j # k => rows'[h][j] = rows[h][j]
  <2>1. <<Zero>> \in Seq(Values) /\ Len(<<Zero>>) = 1
    BY ConstantsAssumption
  <2>2. rows'[g][k] = <<Zero>>
    BY <1>0, <1>a, <2>1, ColumnUpdate DEF IInv, TypeOK
  <2> QED BY <1>0, <1>a, <2>1, <2>2, ColumnUpdate DEF IInv, TypeOK
<1> HIDE DEF g, k
<1>1. TypeOK'
  BY <1>0, <1>a, <1>b, <1>c DEF IInv, TypeOK, InFile, Quiet
<1>2. FileOK'
  BY <1>0, <1>a, <1>c DEF IInv, TypeOK, FileOK
<1>3. Progress(w)'
  <2>1. GroupOf(w)' = g /\ req'[w] \in Messages /\ size'[g] = None /\ got'[w] = 0 /\ frames'[g] # None
    BY <1>0, <1>a DEF GroupOf, g
  <2>2. \A j \in Columns : j < k + 1 => Len(rows'[g][j]) = 1
    <3>1. \A j \in Columns : j < k + 1 => j < k \/ j = k
      BY <1>0 DEF Columns
    <3> QED BY <1>0, <1>c, <3>1 DEF Grown
  <2>3. CASE k \in 1 .. 2 /\ col'[w] = k + 1 /\ pc' = pc
    <3>1. Grown(GroupOf(w), col[w], 1)'
      BY <2>1, <2>2, <2>3 DEF Grown
    <3> QED BY <1>0, <2>1, <2>3, <3>1 DEF Progress
  <2>4. CASE k = 3 /\ col'[w] = 1 /\ pc' = [pc EXCEPT ![w] = "write"]
    <3>1. Grown(GroupOf(w), 4, got[w] + 1)'
      BY <2>1, <2>2, <2>4 DEF Grown
    <3>2. Filled(GroupOf(w), col[w], got[w] + 1, RowOf(w))'
      BY <2>4 DEF Filled, Columns
    <3>3. pc'[w] = "write"
      BY <2>4 DEF IInv, TypeOK
    <3> QED BY <2>1, <3>1, <3>2, <3>3 DEF Progress
  <2> QED BY <1>b, <2>3, <2>4
<1>4. \A h \in Groups : Log(h)' = Log(h)
  <2>1. ASSUME NEW h \in Groups PROVE Log(h)' = Log(h)
    <3>1. size[h] # None => h # g
      BY <1>0
    <3> QED BY <1>a, <1>c, <3>1, LogKept DEF IInv
  <2> QED BY <2>1
<1>5. pc'[w] \in InFile
  BY <1>0, <1>b DEF IInv, TypeOK, InFile
<1> QED BY <1>0, <1>a, <1>b, <1>1, <1>2, <1>3, <1>4, <1>5, InFileStep DEF Quiet

\* What resize leaves.
LEMMA ResizedCells ==
  ASSUME NEW cells \in Seq(Values), NEW n \in Nat
  PROVE  /\ Resized(cells, n) \in Seq(Values)
         /\ Len(Resized(cells, n)) = n
         /\ \A i \in 1 .. n : i <= Len(cells) => Resized(cells, n)[i] = cells[i]
<1>1. \A i \in 1 .. n : (IF i <= Len(cells) THEN cells[i] ELSE Zero) \in Values
  <2> SUFFICES ASSUME NEW i \in 1 .. n, i <= Len(cells) PROVE cells[i] \in Values
    BY ConstantsAssumption
  <2>1. i \in 1 .. Len(cells)
    BY LenProperties
  <2> QED BY <2>1
<1>2. Resized(cells, n) \in [1 .. n -> Values]
  BY <1>1 DEF Resized
<1>3. Resized(cells, n) \in Seq(Values)
  BY <1>2
<1> QED BY <1>2, <1>3, LenProperties DEF Resized

\* The thread makes room in a column.
LEMMA ResizeStep ==
  ASSUME IInv, Locked = Writers, NEW w \in Writers, Resize(w), Quiet
  PROVE  IInv'
<1> DEFINE g == GroupOf(w)  k == col[w]  n == got[w] + 1
<1>0. /\ pc[w] = "resize" /\ pc[w] \in InFile /\ req[w] \in Messages /\ g \in Groups
      /\ size[g] = got[w] /\ got[w] \in Nat /\ n \in Nat /\ Grown(g, k, n) /\ k \in Columns
      /\ frames[g] # None
  BY MessageGroup DEF Resize, InFile, IInv, TypeOK, Progress, GroupOf
<1>a. /\ rows' = [rows EXCEPT ![g][k] = Resized(rows[g][k], n)]
      /\ UNCHANGED <<frames, size, mutex, got, req>>
  BY DEF Resize
<1>b. /\ col' \in [Writers -> Columns]
      /\ \A v \in Writers \ {w} : pc'[v] = pc[v]
      /\ \/ k \in 1 .. 2 /\ col'[w] = k + 1 /\ pc' = pc
         \/ k = 3 /\ col'[w] = 1 /\ pc' = [pc EXCEPT ![w] = "write"]
  BY NextColumnStep DEF Resize, IInv
<1>c. /\ rows' \in [Groups -> [Columns -> Seq(Values)]]
      /\ Len(rows'[g][k]) = n
      /\ \A i \in 1 .. n : i <= Len(rows[g][k]) => rows'[g][k][i] = rows[g][k][i]
      /\ \A h \in Groups, j \in Columns : h # g \/ j # k => rows'[h][j] = rows[h][j]
  <2>1. rows[g][k] \in Seq(Values)
    BY <1>0 DEF IInv, TypeOK
  <2>2. Resized(rows[g][k], n) \in Seq(Values)
    BY <1>0, <2>1, ResizedCells
  <2>3. rows'[g][k] = Resized(rows[g][k], n)
    BY <1>0, <1>a, <2>2, ColumnUpdate DEF IInv, TypeOK
  <2>4. /\ rows' \in [Groups -> [Columns -> Seq(Values)]]
        /\ \A h \in Groups, j \in Columns : h # g \/ j # k => rows'[h][j] = rows[h][j]
    BY <1>0, <1>a, <2>2, ColumnUpdate DEF IInv, TypeOK
  <2>5. /\ Len(Resized(rows[g][k], n)) = n
        /\ \A i \in 1 .. n : i <= Len(rows[g][k]) => Resized(rows[g][k], n)[i] = rows[g][k][i]
    BY <1>0, <2>1, ResizedCells
  <2> HIDE DEF n
  <2> QED BY <2>3, <2>4, <2>5
<1>d. size[g] # None /\ \A j \in Columns : Len(rows[g][j]) >= got[w]
  BY <1>0, ConstantsAssumption DEF IInv, FileOK
<1>e. n = got[w] + 1
  OBVIOUS
<1> HIDE DEF g, k, n
<1>1. TypeOK'
  BY <1>0, <1>a, <1>b, <1>c DEF IInv, TypeOK, InFile, Quiet
<1>2. FileOK'
  <2> SUFFICES ASSUME NEW h \in Groups
               PROVE  /\ frames'[h] = None => size'[h] = None
                      /\ size'[h] # None => \A j \in Columns : Len(rows'[h][j]) >= size'[h]
    BY DEF FileOK
  <2>1. frames'[h] = None => size'[h] = None
    BY <1>a DEF IInv, FileOK
  <2>2. ASSUME NEW j \in Columns, size'[h] # None PROVE Len(rows'[h][j]) >= size'[h]
    <3>1. CASE h = g /\ j = k
      BY <1>0, <1>a, <1>c, <1>e, <3>1
    <3>2. CASE h # g \/ j # k
      BY <1>a, <1>c, <2>2, <3>2 DEF IInv, FileOK
    <3> QED BY <3>1, <3>2
  <2> QED BY <2>1, <2>2
<1>3. Progress(w)'
  <2>1. GroupOf(w)' = g /\ req'[w] \in Messages /\ size'[g] = got'[w] /\ got'[w] + 1 = n /\ frames'[g] # None
    BY <1>0, <1>a, <1>e DEF GroupOf, g
  <2>2. \A j \in Columns : j < k + 1 => Len(rows'[g][j]) = n
    <3>1. \A j \in Columns : j < k + 1 => (j < k /\ j # k) \/ j = k
      BY <1>0 DEF Columns
    <3>2. \A j \in Columns : j < k => Len(rows[g][j]) = n
      BY <1>0 DEF Grown
    <3> QED BY <1>0, <1>c, <3>1, <3>2
  <2>3. CASE k \in 1 .. 2 /\ col'[w] = k + 1 /\ pc' = pc
    <3>1. Grown(GroupOf(w), col[w], got[w] + 1)'
      BY <2>1, <2>2, <2>3 DEF Grown
    <3> QED BY <1>0, <2>1, <2>3, <3>1 DEF Progress
  <2>4. CASE k = 3 /\ col'[w] = 1 /\ pc' = [pc EXCEPT ![w] = "write"]
    <3>1. Grown(GroupOf(w), 4, got[w] + 1)'
      BY <2>1, <2>2, <2>4 DEF Grown
    <3>2. Filled(GroupOf(w), col[w], got[w] + 1, RowOf(w))'
      BY <2>4 DEF Filled, Columns
    <3>3. pc'[w] = "write"
      BY <2>4 DEF IInv, TypeOK
    <3> QED BY <2>1, <3>1, <3>2, <3>3 DEF Progress
  <2> QED BY <1>b, <2>3, <2>4
<1>4. \A h \in Groups : Log(h)' = Log(h)
  <2>1. ASSUME NEW h \in Groups PROVE Log(h)' = Log(h)
    <3>1. ASSUME size[h] # None, NEW j \in Columns, NEW i \in 1 .. size[h]
          PROVE  rows'[h][j][i] = rows[h][j][i]
      <4>1. CASE h = g /\ j = k
        <5>1. i \in 1 .. n /\ i <= Len(rows[g][k])
          <6>1. i \in Int /\ 1 <= i /\ i <= got[w]
            BY <1>0, <3>1, <4>1
          <6>2. Len(rows[g][k]) \in Nat /\ Len(rows[g][k]) >= got[w]
            BY <1>0, <1>d DEF IInv, TypeOK
          <6> QED BY <1>0, <1>e, <6>1, <6>2
        <5> QED BY <1>c, <4>1, <5>1
      <4>2. CASE h # g \/ j # k
        BY <1>c, <4>2
      <4> QED BY <4>1, <4>2
    <3> QED BY <1>a, <3>1, LogKept DEF IInv
  <2> QED BY <2>1
<1>5. pc'[w] \in InFile
  BY <1>0, <1>b DEF IInv, TypeOK, InFile
<1> QED BY <1>0, <1>a, <1>b, <1>1, <1>2, <1>3, <1>4, <1>5, InFileStep DEF Quiet

\* One cell of one column of one group is replaced.
LEMMA CellUpdate ==
  ASSUME rows \in [Groups -> [Columns -> Seq(Values)]],
         NEW g \in Groups, NEW k \in Columns, NEW n \in 1 .. Len(rows[g][k]), NEW v \in Values,
         rows' = [rows EXCEPT ![g][k][n] = v]
  PROVE  /\ rows' \in [Groups -> [Columns -> Seq(Values)]]
         /\ Len(rows'[g][k]) = Len(rows[g][k])
         /\ rows'[g][k][n] = v
         /\ \A i \in 1 .. Len(rows[g][k]) : i # n => rows'[g][k][i] = rows[g][k][i]
         /\ \A h \in Groups, j \in Columns : h # g \/ j # k => rows'[h][j] = rows[h][j]
<1> DEFINE cells == rows[g][k]
           cells2 == [cells EXCEPT ![n] = v]
<1>1. cells \in Seq(Values)
  OBVIOUS
<1>2. rows' = [rows EXCEPT ![g][k] = cells2]
  OBVIOUS
<1>3. /\ cells2 \in Seq(Values) /\ Len(cells2) = Len(cells) /\ cells2[n] = v
      /\ \A i \in 1 .. Len(cells) : i # n => cells2[i] = cells[i]
  <2> HIDE DEF cells
  <2> QED BY <1>1 DEF cells
<1> HIDE DEF cells2
<1>4. rows'[g][k] = cells2
  BY <1>2, <1>3, ColumnUpdate
<1>5. /\ rows' \in [Groups -> [Columns -> Seq(Values)]]
      /\ \A h \in Groups, j \in Columns : h # g \/ j # k => rows'[h][j] = rows[h][j]
  BY <1>2, <1>3, ColumnUpdate
<1> QED BY <1>3, <1>4, <1>5

\* The thread writes its row in a column.
LEMMA WriteRowStep ==
  ASSUME IInv, Locked = Writers, NEW w \in Writers, WriteRow(w), Quiet
  PROVE  IInv'
<1> DEFINE g == GroupOf(w)  k == col[w]  n == got[w] + 1  r == RowOf(w)
<1>0. /\ pc[w] = "write" /\ pc[w] \in InFile /\ req[w] \in Messages /\ g \in Groups
      /\ got[w] \in Nat /\ k \in Columns
      /\ size[g] = got[w] \/ (size[g] = None /\ got[w] = 0)
      /\ Grown(g, 4, n) /\ Filled(g, k, n, r)
      /\ frames[g] # None
  BY MessageGroup DEF WriteRow, InFile, IInv, TypeOK, Progress, GroupOf
<1>l. \A j \in Columns : Len(rows[g][j]) = n
  BY <1>0 DEF Grown, Columns
<1>a. /\ rows' = [rows EXCEPT ![g][k][n] = r[k]] /\ NextColumn(w, "size")
      /\ UNCHANGED <<frames, size, mutex, got, req>>
  BY <1>0, <1>l DEF WriteRow
<1>b. /\ col' \in [Writers -> Columns]
      /\ \A v \in Writers \ {w} : pc'[v] = pc[v]
      /\ \/ k \in 1 .. 2 /\ col'[w] = k + 1 /\ pc' = pc
         \/ k = 3 /\ col'[w] = 1 /\ pc' = [pc EXCEPT ![w] = "size"]
  BY <1>a, NextColumnStep DEF IInv
<1>c. r[k] \in Values /\ n \in 1 .. Len(rows[g][k]) /\ n \in Nat
  <2>1. r \in Rows
    BY <1>0, MessageGroup DEF RowOf
  <2> QED BY <1>0, <1>l, <2>1, ConstantsAssumption
<1>e. n = got[w] + 1
  OBVIOUS
<1> HIDE DEF g, k, n, r
<1>d. /\ rows' \in [Groups -> [Columns -> Seq(Values)]]
      /\ Len(rows'[g][k]) = n
      /\ rows'[g][k][n] = r[k]
      /\ \A i \in 1 .. n : i # n => rows'[g][k][i] = rows[g][k][i]
      /\ \A h \in Groups, j \in Columns : h # g \/ j # k => rows'[h][j] = rows[h][j]
  <2>1. Len(rows[g][k]) = n
    BY <1>0, <1>l
  <2> QED BY <1>0, <1>a, <1>c, <2>1, CellUpdate DEF IInv, TypeOK
<1>f. \A h \in Groups, j \in Columns : Len(rows'[h][j]) = Len(rows[h][j])
  BY <1>0, <1>l, <1>d
<1>1. TypeOK'
  BY <1>0, <1>a, <1>b, <1>d DEF IInv, TypeOK, InFile, Quiet
<1>2. FileOK'
  BY <1>a, <1>f DEF IInv, FileOK
<1>3. Progress(w)'
  <2>1. /\ GroupOf(w)' = g /\ RowOf(w)' = r /\ req'[w] \in Messages /\ got'[w] + 1 = n
        /\ size'[g] = got'[w] \/ (size'[g] = None /\ got'[w] = 0)
        /\ frames'[g] # None
    BY <1>0, <1>a, <1>e DEF GroupOf, RowOf, g, r
  <2>2. Grown(GroupOf(w), 4, got[w] + 1)'
    BY <1>0, <1>l, <1>f, <2>1 DEF Grown
  <2>3. \A j \in Columns : j < k + 1 => rows'[g][j][n] = r[j]
    <3>1. \A j \in Columns : j < k + 1 => (j < k /\ j # k) \/ j = k
      BY <1>0 DEF Columns
    <3>2. \A j \in Columns : j < k => rows[g][j][n] = r[j]
      BY <1>0 DEF Filled
    <3> QED BY <1>0, <1>d, <3>1, <3>2
  <2>4. CASE k \in 1 .. 2 /\ col'[w] = k + 1 /\ pc' = pc
    <3>1. Filled(GroupOf(w), col[w], got[w] + 1, RowOf(w))'
      BY <2>1, <2>3, <2>4 DEF Filled
    <3> QED BY <1>0, <2>1, <2>2, <2>4, <3>1 DEF Progress
  <2>5. CASE k = 3 /\ col'[w] = 1 /\ pc' = [pc EXCEPT ![w] = "size"]
    <3>1. Filled(GroupOf(w), 4, got[w] + 1, RowOf(w))'
      BY <2>1, <2>3, <2>5 DEF Filled
    <3>2. pc'[w] = "size"
      BY <2>5 DEF IInv, TypeOK
    <3> QED BY <2>1, <2>2, <3>1, <3>2 DEF Progress
  <2> QED BY <1>b, <2>4, <2>5
<1>4. \A h \in Groups : Log(h)' = Log(h)
  <2>1. ASSUME NEW h \in Groups PROVE Log(h)' = Log(h)
    <3>1. ASSUME size[h] # None, NEW j \in Columns, NEW i \in 1 .. size[h]
          PROVE  rows'[h][j][i] = rows[h][j][i]
      <4>1. CASE h = g /\ j = k
        <5>1. i \in 1 .. n /\ i # n
          BY <1>0, <1>e, <3>1, <4>1
        <5> QED BY <1>d, <4>1, <5>1
      <4>2. CASE h # g \/ j # k
        BY <1>d, <4>2
      <4> QED BY <4>1, <4>2
    <3> QED BY <1>a, <3>1, LogKept DEF IInv
  <2> QED BY <2>1
<1>5. pc'[w] \in InFile
  BY <1>0, <1>b DEF IInv, TypeOK, InFile
<1> QED BY <1>0, <1>a, <1>b, <1>1, <1>2, <1>3, <1>4, <1>5, InFileStep DEF Quiet

\* The thread writes "size": the row it filled joins the log.
LEMMA WriteSizeStep ==
  ASSUME IInv, Locked = Writers, NEW w \in Writers, WriteSize(w), Quiet
  PROVE  /\ IInv'
         /\ \E g \in Groups, r \in Rows :
              /\ Log(g)' = Append(Log(g), r)
              /\ \A h \in Groups \ {g} : Log(h)' = Log(h)
<1>p. PICK g \in Groups, r \in Rows, n \in Nat : g = GroupOf(w) /\ r = RowOf(w) /\ n = got[w] + 1
  <2>1. req[w] \in Messages /\ got[w] \in Nat
    BY DEF WriteSize, IInv, TypeOK, Progress
  <2> QED BY <2>1, MessageGroup DEF GroupOf, RowOf
<1>0. /\ pc[w] = "size" /\ pc[w] \in InFile /\ req[w] \in Messages /\ g \in Groups /\ r \in Rows
      /\ got[w] \in Nat
      /\ size[g] = got[w] \/ (size[g] = None /\ got[w] = 0)
      /\ Grown(g, 4, n) /\ Filled(g, 4, n, r)
      /\ frames[g] # None
  BY <1>p DEF WriteSize, InFile, IInv, TypeOK, Progress
<1>a. /\ size' = [size EXCEPT ![g] = n]
      /\ pc' = [pc EXCEPT ![w] = "flush"]
      /\ UNCHANGED <<frames, rows, mutex, col, got, req>>
  BY <1>p DEF WriteSize, Goto
<1>b. n = got[w] + 1 /\ n \in Nat /\ n # None
  BY <1>p, <1>0, ConstantsAssumption
<1>c. \A j \in Columns : Len(rows[g][j]) = n /\ rows[g][j][n] = r[j]
  BY <1>0 DEF Grown, Filled, Columns
<1>d. r = [j \in Columns |-> r[j]]
  BY <1>0, ConstantsAssumption
<1>e. r \in [Columns -> Values]
  BY <1>0, ConstantsAssumption
<1>g. GroupOf(w)' = g /\ RowOf(w)' = r
  BY <1>p, <1>a DEF GroupOf, RowOf
<1>1. TypeOK'
  BY <1>0, <1>a, <1>b DEF IInv, TypeOK, InFile, Quiet
<1>2. FileOK'
  <2> SUFFICES ASSUME NEW h \in Groups
               PROVE  /\ frames'[h] = None => size'[h] = None
                      /\ size'[h] # None => \A j \in Columns : Len(rows'[h][j]) >= size'[h]
    BY DEF FileOK
  <2>1. CASE h = g
    BY <1>0, <1>a, <1>b, <1>c, <2>1 DEF IInv, TypeOK
  <2>2. CASE h # g
    BY <1>a, <2>2 DEF IInv, TypeOK, FileOK
  <2> QED BY <2>1, <2>2
<1>3. Progress(w)'
  <2>1. pc'[w] = "flush" /\ size'[g] = got'[w] + 1 /\ req'[w] \in Messages
    BY <1>0, <1>a, <1>b DEF IInv, TypeOK
  <2>2. Grown(GroupOf(w), 4, got[w] + 1)'
    BY <1>a, <1>b, <1>c, <1>g DEF Grown
  <2>3. Filled(GroupOf(w), 4, got[w] + 1, RowOf(w))'
    BY <1>a, <1>b, <1>c, <1>g DEF Filled
  <2> QED BY <1>g, <2>1, <2>2, <2>3 DEF Progress
<1>4. Log(g)' = Append(Log(g), r)
  <2>1. Log(g) = [i \in 1 .. got[w] |-> Row(g, i)]
    BY <1>0, ConstantsAssumption DEF Log
  <2>2. size'[g] = n
    BY <1>0, <1>a DEF IInv, TypeOK
  <2>3. \A i : Row(g, i)' = Row(g, i)
    BY <1>a DEF Row
  <2>4. Log(g)' = [i \in 1 .. n |-> Row(g, i)]
    BY <1>b, <2>2, <2>3 DEF Log
  <2>5. Row(g, n) = r
    BY <1>c, <1>d DEF Row
  <2>6. Log(g) \in Seq([Columns -> Values])
    <3>1. ASSUME NEW i \in 1 .. got[w] PROVE Row(g, i) \in [Columns -> Values]
      <4>1. ASSUME NEW j \in Columns PROVE rows[g][j][i] \in Values
        <5>1. rows[g][j] \in Seq(Values) /\ i \in 1 .. Len(rows[g][j])
          BY <1>0, <1>b, <1>c DEF IInv, TypeOK
        <5> QED BY <5>1
      <4> QED BY <4>1 DEF Row
    <3> QED BY <1>0, <2>1, <3>1
  <2>7. Len(Log(g)) = got[w]
    BY <1>0, <2>1
  <2>8. Append(Log(g), r) = [i \in 1 .. n |-> IF i = n THEN r ELSE Log(g)[i]]
    <3> DEFINE S == [Columns -> Values]
    <3>1. Append(Log(g), r) \in Seq(S)
      BY <1>e, <2>6, AppendProperties
    <3>2. Len(Append(Log(g), r)) = n
      BY <1>b, <1>0, <1>e, <2>6, <2>7, AppendProperties
    <3>3. /\ Append(Log(g), r)[n] = r
          /\ \A i \in 1 .. n : i # n => Append(Log(g), r)[i] = Log(g)[i]
      <4>1. \A i \in 1 .. n : i # n => i \in 1 .. Len(Log(g))
        BY <1>b, <1>0, <2>7
      <4>2. n = Len(Log(g)) + 1
        BY <1>b, <2>7
      <4> QED BY <1>e, <2>6, <4>1, <4>2, AppendProperties
    <3>4. Append(Log(g), r) = [i \in 1 .. n |-> Append(Log(g), r)[i]]
      BY <3>1, <3>2, LenProperties
    <3> QED BY <3>3, <3>4
  <2>9. \A i \in 1 .. n : i # n => Log(g)[i] = Row(g, i)
    BY <1>0, <1>b, <2>1
  <2> QED BY <2>4, <2>5, <2>8, <2>9
<1>5. ASSUME NEW h \in Groups \ {g} PROVE Log(h)' = Log(h)
  BY <1>a, <1>5, LogKept DEF IInv, TypeOK
<1>6. pc'[w] \in InFile /\ \A v \in Writers \ {w} : pc'[v] = pc[v]
  BY <1>0, <1>a DEF IInv, TypeOK, InFile
<1>7. \A h \in Groups : \A i \in DOMAIN Log(h) : i \in DOMAIN Log(h)' /\ Log(h)'[i] = Log(h)[i]
  <2>1. ASSUME NEW i \in DOMAIN Log(g) PROVE i \in DOMAIN Log(g)' /\ Log(g)'[i] = Log(g)[i]
    <3>1. size'[g] = n /\ \A j : Row(g, j)' = Row(g, j)
      BY <1>0, <1>a DEF IInv, TypeOK, Row
    <3>2. Log(g)' = [j \in 1 .. n |-> Row(g, j)]
      BY <1>b, <3>1 DEF Log
    <3>3. Log(g) = [j \in 1 .. got[w] |-> Row(g, j)]
      BY <1>0, ConstantsAssumption DEF Log
    <3> QED BY <1>0, <1>b, <2>1, <3>2, <3>3
  <2> QED BY <1>5, <2>1
<1>8. IInv'
  BY <1>0, <1>a, <1>1, <1>2, <1>3, <1>6, <1>7, InFileStep DEF Quiet
<1> QED BY <1>4, <1>5, <1>8

-----------------------------------------------------------------------------
(* The theorems.                                                           *)

LEMMA InitInvariant == Init => IInv
<1> SUFFICES ASSUME Init PROVE IInv
  OBVIOUS
<1>1. TypeOK
  BY ConstantsAssumption DEF Init, TypeOK, Columns
<1>2. Exclusion
  BY ConstantsAssumption DEF Init, Exclusion, InFile
<1>3. FileOK /\ Stored /\ \A w \in Writers : Progress(w)
  BY DEF Init, FileOK, Stored, Progress
<1> QED BY <1>1, <1>2, <1>3 DEF IInv

\* A step either leaves every log as it is or appends one transform to one.
LogStep ==
  \/ \A g \in Groups : Log(g)' = Log(g)
  \/ \E g \in Groups, r \in Rows :
       /\ Log(g)' = Append(Log(g), r)
       /\ \A h \in Groups \ {g} : Log(h)' = Log(h)

\* Steps that change no "size" and no row below it leave the logs.
LEMMA SizeKept ==
  ASSUME IInv, IInv', Locked = Writers, NEW w \in Writers,
         CreateGroup(w) \/ CreateDataSet(w) \/ Resize(w) \/ WriteRow(w)
  PROVE  \A g \in Groups : Log(g)' = Log(g)
<1> SUFFICES ASSUME NEW g \in Groups PROVE Log(g)' = Log(g)
  OBVIOUS
<1>1. size' = size
  BY DEF CreateGroup, CreateDataSet, Resize, WriteRow, Fail, file
<1>2. CASE CreateGroup(w)
  BY <1>1, <1>2, LogKept DEF CreateGroup, Fail, file, IInv
<1>3. ASSUME size[g] # None, NEW k \in Columns, NEW i \in 1 .. size[g],
             CreateDataSet(w) \/ Resize(w) \/ WriteRow(w)
      PROVE  rows'[g][k][i] = rows[g][k][i]
  <2>0. /\ size[g] \in Nat /\ rows[g][k] \in Seq(Values) /\ Len(rows[g][k]) >= size[g]
        /\ Len(rows[g][k]) \in Nat /\ i \in 1 .. Len(rows[g][k])
    BY <1>3 DEF IInv, TypeOK, FileOK
  <2>1. CASE g # GroupOf(w) \/ k # col[w]
    <3>1. rows[g] \in [Columns -> Seq(Values)] /\ rows \in [Groups -> [Columns -> Seq(Values)]]
      BY DEF IInv, TypeOK
    <3>2. CASE CreateDataSet(w)
      BY <2>1, <3>1, <3>2 DEF CreateDataSet
    <3>3. CASE Resize(w)
      <4> DEFINE v == Resized(rows[GroupOf(w)][col[w]], got[w] + 1)
      <4>1. rows' = [rows EXCEPT ![GroupOf(w)][col[w]] = v]
        BY <3>3 DEF Resize
      <4> HIDE DEF v
      <4> QED BY <2>1, <3>1, <4>1
    <3>4. CASE WriteRow(w)
      BY <2>1, <3>1, <3>4 DEF WriteRow, Fail, file
    <3> QED BY <1>3, <3>2, <3>3, <3>4
  <2>2. CASE CreateDataSet(w) /\ g = GroupOf(w)
    BY <1>3, <2>2 DEF CreateDataSet, IInv, Progress
  <2>3. CASE Resize(w) /\ g = GroupOf(w) /\ k = col[w]
    <3>1. rows'[g][k] = Resized(rows[g][k], got[w] + 1) /\ size[g] = got[w]
      BY <2>3 DEF Resize, IInv, TypeOK, Progress
    <3>2. i \in 1 .. got[w] + 1
      BY <2>0, <1>3, <3>1
    <3> QED BY <2>0, <3>1, <3>2 DEF Resized
  <2>4. CASE WriteRow(w) /\ g = GroupOf(w) /\ k = col[w]
    <3>1. size[g] = got[w] /\ got[w] \in Nat
      BY <1>3, <2>4 DEF WriteRow, IInv, TypeOK, Progress
    <3>2. i # got[w] + 1
      BY <1>3, <3>1
    <3> QED BY <2>0, <2>4, <3>2 DEF WriteRow, Fail, file, IInv, TypeOK
  <2> QED BY <1>3, <2>1, <2>2, <2>3, <2>4
<1> QED BY <1>1, <1>2, <1>3, LogKept DEF IInv

\* Every step keeps the invariant and moves the logs as the abstract log does.
LEMMA NextInvariant ==
  ASSUME IInv, [Next]_vars, Locked = Writers
  PROVE  IInv' /\ LogStep
<1>1. ASSUME NEW w \in Writers, NEW pair \in Pairs, NEW row \in Rows, Receive(w, pair, row)
      PROVE  IInv' /\ LogStep
  BY <1>1, ReceiveStep, FileKept DEF Receive, LogStep
<1>2. ASSUME NEW w \in Writers, WriteStep(w), Quiet
      PROVE  IInv' /\ LogStep
  <2>1. CASE Lock(w)
    BY <1>2, <2>1, LockStep, FileKept DEF Lock, LogStep
  <2>2. CASE Find(w)
    BY <1>2, <2>2, FindStep, FileKept DEF Find, LogStep
  <2>3. CASE CreateGroup(w)
    BY <1>2, <2>3, CreateGroupStep, SizeKept DEF LogStep
  <2>4. CASE CreateDataSet(w)
    BY <1>2, <2>4, CreateDataSetStep, SizeKept DEF LogStep
  <2>5. CASE Open(w)
    BY <1>2, <2>5, OpenStep, FileKept DEF Open, Fail, LogStep
  <2>6. CASE Resize(w)
    BY <1>2, <2>6, ResizeStep, SizeKept DEF LogStep
  <2>7. CASE WriteRow(w)
    BY <1>2, <2>7, WriteRowStep, SizeKept DEF LogStep
  <2>8. CASE WriteSize(w)
    BY <1>2, <2>8, WriteSizeStep DEF LogStep
  <2>9. CASE Flush(w)
    BY <1>2, <2>9, FlushStep, FileKept DEF Flush, LogStep
  <2> QED BY <1>2, <2>1, <2>2, <2>3, <2>4, <2>5, <2>6, <2>7, <2>8, <2>9 DEF WriteStep
<1>3. ASSUME NEW w \in Writers, AddTF(w), UNCHANGED <<serving, requests, restarts>>
      PROVE  IInv' /\ LogStep
  BY <1>3, AddTFStep, FileKept DEF AddTF, LogStep
<1>4. CASE Restart
  BY <1>4, RestartStep, FileKept DEF Restart, LogStep
<1>5. CASE UNCHANGED vars
  <2> USE <1>5 DEF vars
  <2>1. TypeOK' /\ Exclusion' /\ FileOK'
    BY DEF IInv, TypeOK, Exclusion, FileOK
  <2>2. ASSUME NEW w \in Writers PROVE Progress(w)'
    BY DEF IInv, Progress, GroupOf, RowOf, Grown, Filled
  <2>3. \A g \in Groups : Log(g)' = Log(g)
    BY FileKept DEF file
  <2>4. Stored'
    BY <2>3, StoredKept DEF IInv
  <2> QED BY <2>1, <2>2, <2>3, <2>4 DEF IInv, LogStep
<1> QED BY <1>1, <1>2, <1>3, <1>4, <1>5 DEF Next, Step, Quiet

\* The invariant holds when every thread takes the mutex.
THEOREM Invariance ==
  ASSUME Locked = Writers
  PROVE  Spec => []IInv
<1>1. IInv /\ [Next]_vars => IInv'
  BY NextInvariant
<1> QED BY <1>1, InitInvariant, PTL DEF Spec

\* A transform that was stored leaves its group loadable, whatever a crash left.
THEOREM StoredIsLoadable ==
  ASSUME Locked = Writers
  PROVE  Spec => StoredLoadable
<1>1. IInv => \A w \in Writers : Flush(w) =>
                 /\ Loadable(GroupOf(w))
                 /\ Row(GroupOf(w), size[GroupOf(w)]) = RowOf(w)
  <2> SUFFICES ASSUME IInv, NEW w \in Writers, Flush(w)
               PROVE  /\ Loadable(GroupOf(w))
                      /\ Row(GroupOf(w), size[GroupOf(w)]) = RowOf(w)
    OBVIOUS
  <2>1. /\ GroupOf(w) \in Groups /\ size[GroupOf(w)] = got[w] + 1 /\ got[w] \in Nat
        /\ \A k \in Columns : Len(rows[GroupOf(w)][k]) = size[GroupOf(w)]
        /\ Row(GroupOf(w), size[GroupOf(w)]) = RowOf(w)
    BY FlushedRow DEF Flush, IInv, TypeOK
  <2>2. size[GroupOf(w)] # None /\ size[GroupOf(w)] # 0
    BY <2>1, ConstantsAssumption
  <2>3. HasDataSets(GroupOf(w))
    <3>1. \A k \in Columns : rows[GroupOf(w)][k] \in Seq(Values) /\ Len(rows[GroupOf(w)][k]) # 0
      BY <2>1, <2>2 DEF IInv, TypeOK
    <3> QED BY <3>1 DEF HasDataSets
  <2> QED BY <2>1, <2>2, <2>3 DEF Loadable
<1>2. IInv /\ [Next]_vars => \A w \in Writers : Flush(w) =>
                 /\ Loadable(GroupOf(w))
                 /\ Row(GroupOf(w), size[GroupOf(w)]) = RowOf(w)
  BY <1>1
<1> QED BY <1>2, Invariance, PTL DEF Spec, StoredLoadable

\* When the server comes up again, queries see every answered transform of an
\* intact frame pair.
THEOREM RestartKeepsAnswered ==
  ASSUME Locked = Writers
  PROVE  Spec => RestartServes
<1>1. IInv /\ [Next]_vars =>
        (restarts' = restarts + 1 /\ serving' =>
           \A m \in answered :
             Group(m[1]) \in Damaged \/ <<frames[Group(m[1])], m[2]>> \in buffer')
  <2> SUFFICES ASSUME IInv, [Next]_vars, restarts' = restarts + 1, serving', NEW m \in answered,
                      Group(m[1]) \notin Damaged
               PROVE  <<frames[Group(m[1])], m[2]>> \in buffer'
    OBVIOUS
  <2> DEFINE g == Group(m[1])
  <2>1. Restart
    <3>1. restarts' # restarts
      BY DEF IInv, TypeOK
    <3> QED BY <3>1 DEF Next, Step, Receive, vars
  <2>2. m \in Messages /\ g \in Groups /\ InLog(m)
    BY MessageGroup DEF IInv, TypeOK, Stored
  <2>3. size[g] # None /\ \E i \in 1 .. size[g] : Row(g, i) = m[2]
    BY <2>2 DEF InLog, Log
  <2>4. Loadable(g)
    BY <2>2, <2>3 DEF Damaged, IInv, FileOK
  <2>5. <<frames[g], m[2]>> \in Loaded(g)
    BY <2>3, <2>4 DEF Loaded, Row
  <2> QED BY <2>1, <2>2, <2>5 DEF Restart
<1> QED BY <1>1, Invariance, PTL DEF Spec, RestartServes

\* The calls of the library implement the log: stores are atomic, in order and
\* for good, and no answer promises a transform the log does not hold.
THEOREM LogImplemented ==
  ASSUME Locked = Writers
  PROVE  Spec => ImplementsLog
<1> DEFINE logs == [g \in Groups |-> Log(g)]
           acked == {<<Group(m[1]), m[2]>> : m \in answered}
<1>1. Init => Promise!Init
  <2> SUFFICES ASSUME Init PROVE logs = [g \in Groups |-> <<>>] /\ acked = {}
    BY DEF Promise!Init
  <2>1. \A g \in Groups : Log(g) = <<>>
    BY DEF Init, Log
  <2> QED BY <2>1 DEF Init
<1>2. IInv /\ [Next]_vars => [Promise!Next]_<<logs, acked>>
  <2> SUFFICES ASSUME IInv, [Next]_vars PROVE [Promise!Next]_<<logs, acked>>
    OBVIOUS
  <2>1. CASE \E w \in Writers : AddTF(w)
    <3>1. PICK w \in Writers : AddTF(w)
      BY <2>1
    <3>2. req[w] \in Messages /\ InLog(req[w])
      BY <3>1 DEF AddTF, IInv, Progress, Stored
    <3>3. PICK g \in Groups, r \in Rows : g = Group(req[w][1]) /\ r = req[w][2]
      BY <3>2, MessageGroup
    <3>4. acked' = acked \cup {<<g, r>>}
      <4>1. answered' = answered \cup {req[w]}
        BY <3>1 DEF AddTF
      <4> QED BY <3>3, <4>1
    <3>5. logs' = logs
      BY <3>1, FileKept DEF AddTF
    <3>6. \E i \in DOMAIN logs[g] : logs[g][i] = r
      BY <3>2, <3>3 DEF InLog
    <3> QED BY <3>3, <3>4, <3>5, <3>6 DEF Promise!Next, Promise!Answer
  <2>2. CASE ~\E w \in Writers : AddTF(w)
    <3>1. acked' = acked
      BY <2>2 DEF Next, Step, Receive, Restart, vars
    <3>2. CASE \A g \in Groups : Log(g)' = Log(g)
      BY <3>1, <3>2
    <3>3. CASE \E g \in Groups, r \in Rows :
                 /\ Log(g)' = Append(Log(g), r)
                 /\ \A h \in Groups \ {g} : Log(h)' = Log(h)
      <4>1. PICK g \in Groups, r \in Rows :
              /\ Log(g)' = Append(Log(g), r)
              /\ \A h \in Groups \ {g} : Log(h)' = Log(h)
        BY <3>3
      <4>2. logs' = [logs EXCEPT ![g] = Append(@, r)]
        BY <4>1
      <4> QED BY <3>1, <4>2 DEF Promise!Next, Promise!Store
    <3> QED BY <3>2, <3>3, NextInvariant DEF LogStep
  <2> QED BY <2>1, <2>2
<1> QED BY <1>1, <1>2, Invariance, PTL DEF Spec, ImplementsLog, Promise!Spec

-----------------------------------------------------------------------------
(* How much the crashes damage.                                            *)

\* Between the creation of a data set and the write of "size" a thread has its
\* group in pieces.
InPieces == {"create", "resize", "write", "size"}
Held == {GroupOf(w) : w \in {v \in Writers : pc[v] \in InPieces}}

\* The groups that cannot be loaded, but for the one that is being written, are
\* no more than the crashes.
DamageInv ==
  /\ IsFiniteSet(Damaged \ Held)
  /\ Cardinality(Damaged \ Held) <= restarts

\* A thread that is not in its group any more has left it loadable, or as it was.
LEMMA DamageKept ==
  ASSUME IInv, IInv', DamageInv, restarts' = restarts,
         \A g \in Groups : g \in Damaged' \ Held' => g \in Damaged \ Held
  PROVE  DamageInv'
<1>1. Damaged' \ Held' \subseteq Damaged \ Held
  BY DEF Damaged
<1>2. PICK S : S = Damaged \ Held
  OBVIOUS
<1>3. PICK R : R = Damaged' \ Held'
  OBVIOUS
<1>4. IsFiniteSet(S) /\ R \subseteq S /\ Cardinality(S) <= restarts
  BY <1>1, <1>2, <1>3 DEF DamageInv
<1>5. IsFiniteSet(R) /\ Cardinality(R) <= Cardinality(S)
  BY <1>4, FS_Subset
<1>6. Cardinality(R) \in Nat /\ Cardinality(S) \in Nat /\ restarts \in Nat
  BY <1>4, <1>5, FS_CardinalityType DEF IInv, TypeOK
<1> QED  BY <1>3, <1>4, <1>5, <1>6 DEF DamageInv

\* A step that leaves the file and no thread's place in its group.
LEMMA UntouchedDamage ==
  ASSUME IInv, IInv', DamageInv, restarts' = restarts, UNCHANGED file,
         \A w \in Writers : pc[w] \in InPieces => pc'[w] \in InPieces /\ req'[w] = req[w]
  PROVE  DamageInv'
<1>1. Damaged' = Damaged
  BY DEF Damaged, Loadable, HasDataSets, file
<1>2. Held \subseteq Held'
  BY DEF Held, GroupOf
<1> QED  BY <1>1, <1>2, DamageKept

\* A step in a group that is in pieces, or comes to be.
LEMMA HeldDamage ==
  ASSUME IInv, IInv', DamageInv, restarts' = restarts, req' = req,
         NEW w \in Writers, pc'[w] \in InPieces,
         \A v \in Writers \ {w} : pc'[v] = pc[v],
         \A g \in Groups \ {GroupOf(w)} :
           frames'[g] = frames[g] /\ rows'[g] = rows[g] /\ size'[g] = size[g]
  PROVE  DamageInv'
<1>1. ASSUME NEW g \in Groups, g \in Damaged' \ Held' PROVE g \in Damaged \ Held
  <2>1. g # GroupOf(w)
    BY <1>1 DEF Held, GroupOf
  <2>2. g \in Damaged
    BY <1>1, <2>1 DEF Damaged, Loadable, HasDataSets
  <2>3. g \notin Held
    <3> SUFFICES ASSUME NEW v \in Writers, pc[v] \in InPieces, g = GroupOf(v) PROVE FALSE
      BY DEF Held
    <3>1. v # w /\ pc'[v] \in InPieces /\ GroupOf(v)' = g
      BY <2>1 DEF GroupOf
    <3> QED  BY <1>1, <3>1 DEF Held
  <2> QED  BY <2>2, <2>3
<1> QED  BY <1>1, DamageKept

\* A thread that is done with its group has it whole again: "size" is written
\* last, when the columns are cut or filled to that length.
LEMMA WriteSizeDamage ==
  ASSUME IInv, IInv', DamageInv, NEW w \in Writers, WriteSize(w), Quiet
  PROVE  DamageInv'
<1>0. PICK g : g = GroupOf(w)
  OBVIOUS
<1>1. /\ pc[w] = "size" /\ req' = req /\ rows' = rows /\ frames' = frames
      /\ pc' = [pc EXCEPT ![w] = "flush"]
      /\ size' = [size EXCEPT ![g] = got[w] + 1]
  BY <1>0 DEF WriteSize, Goto
<1>2. /\ g \in Groups /\ got[w] \in Nat /\ Grown(g, 4, got[w] + 1)
  BY <1>0, <1>1, MessageGroup DEF IInv, TypeOK, Progress, GroupOf
<1>3. Loadable(g)'
  <2>1. size'[g] = got[w] + 1 /\ size'[g] # None /\ size'[g] # 0
    <3>1. size'[g] = got[w] + 1
      BY <1>1, <1>2 DEF IInv, TypeOK
    <3>2. got[w] + 1 \in Nat /\ got[w] + 1 # 0 /\ None \notin Nat
      BY <1>2, ConstantsAssumption
    <3> QED  BY <3>1, <3>2
  <2>2. \A k \in Columns : Len(rows'[g][k]) = got[w] + 1
    BY <1>1, <1>2 DEF Grown, Columns
  <2>3. \A k \in Columns : rows'[g][k] \in Seq(Values)
    BY <1>1, <1>2 DEF IInv, TypeOK
  <2>4. HasDataSets(g)'
    <3>1. \A k \in Columns : rows'[g][k] \in Seq(Values) /\ Len(rows'[g][k]) # 0
      BY <1>2, <2>2, <2>3
    <3> QED  BY <3>1 DEF HasDataSets
  <2> QED  BY <2>1, <2>2, <2>4 DEF Loadable
<1>4. ASSUME NEW h \in Groups, h \in Damaged' \ Held' PROVE h \in Damaged \ Held
  <2>1. h # g
    BY <1>3, <1>4 DEF Damaged
  <2>2. h \in Damaged
    BY <1>1, <1>4, <2>1 DEF Damaged, Loadable, HasDataSets, IInv, TypeOK
  <2>3. h \notin Held
    <3> SUFFICES ASSUME NEW v \in Writers, pc[v] \in InPieces, h = GroupOf(v) PROVE FALSE
      BY DEF Held
    <3>1. v # w
      BY <1>0, <2>1
    <3>2. pc'[v] \in InPieces /\ GroupOf(v)' = h
      BY <1>1, <3>1 DEF IInv, TypeOK, GroupOf
    <3> QED  BY <1>4, <3>2 DEF Held
  <2> QED  BY <2>2, <2>3
<1> QED  BY <1>4, DamageKept DEF Quiet

\* The thread that holds the mutex is the only one with a group in pieces.
LEMMA OneHeld ==
  ASSUME IInv
  PROVE  \E g : Held \subseteq {g}
<1>1. \A v, w \in Writers : pc[v] \in InPieces /\ pc[w] \in InPieces => v = w
  BY DEF IInv, Exclusion, InPieces, InFile
<1> QED  BY <1>1 DEF Held

\* A crash adds the group of that thread, and nothing else.
LEMMA RestartDamage ==
  ASSUME IInv, DamageInv, Restart
  PROVE  /\ DamageInv'
         /\ Cardinality(Damaged) <= restarts'
<1>1. PICK g : Held \subseteq {g}
  BY OneHeld
<1>2. PICK S : S = Damaged \ Held
  OBVIOUS
<1>3. IsFiniteSet(S) /\ Cardinality(S) \in Nat /\ Cardinality(S) <= restarts /\ restarts \in Nat
  BY <1>2, FS_CardinalityType DEF DamageInv, IInv, TypeOK
<1>4. /\ IsFiniteSet(S \cup {g})
      /\ Cardinality(S \cup {g}) = IF g \in S THEN Cardinality(S) ELSE Cardinality(S) + 1
  BY <1>3, FS_AddElement
<1>5. PICK D : D = Damaged
  OBVIOUS
<1>6. D \subseteq S \cup {g}
  BY <1>1, <1>2, <1>5
<1>7. IsFiniteSet(D) /\ Cardinality(D) <= Cardinality(S \cup {g})
  BY <1>4, <1>6, FS_Subset
<1>8. Cardinality(D) \in Nat /\ Cardinality(S \cup {g}) \in Nat
  BY <1>4, <1>7, FS_CardinalityType
<1>9. restarts' = restarts + 1
  BY DEF Restart
<1>10. Cardinality(D) <= restarts'
  BY <1>3, <1>4, <1>7, <1>8, <1>9
<1>11. Damaged' = D /\ Held' = {}
  <2>1. Damaged' = Damaged
    BY DEF Restart, file, Damaged, Loadable, HasDataSets
  <2>2. \A w \in Writers : pc'[w] \notin InPieces
    BY DEF Restart, InPieces
  <2> QED  BY <1>5, <2>1, <2>2 DEF Held
<1>12. D \ {} = D
  OBVIOUS
<1> QED  BY <1>5, <1>7, <1>10, <1>11, <1>12 DEF DamageInv

\* A thread that fails was not in the middle of its group: whoever holds the
\* mutex finds the group as it left it.
LEMMA FailsWhole ==
  ASSUME IInv, NEW w \in Writers
  PROVE  /\ CreateGroup(w) => frames[GroupOf(w)] = None
         /\ WriteRow(w) => got[w] + 1 <= Len(rows[GroupOf(w)][col[w]])
<1>1. CreateGroup(w) => frames[GroupOf(w)] = None
  BY DEF CreateGroup, IInv, Progress
<1>2. ASSUME WriteRow(w) PROVE got[w] + 1 <= Len(rows[GroupOf(w)][col[w]])
  <2>1. col[w] \in Columns /\ col[w] < 4 /\ got[w] \in Nat
    BY DEF IInv, TypeOK, Columns
  <2>2. Grown(GroupOf(w), 4, got[w] + 1)
    BY <1>2 DEF WriteRow, IInv, Progress
  <2>3. Len(rows[GroupOf(w)][col[w]]) = got[w] + 1
    BY <2>1, <2>2 DEF Grown
  <2> QED  BY <2>1, <2>3
<1> QED  BY <1>1, <1>2

\* Writing in its group, a thread keeps it held.
LEMMA GroupDamage ==
  ASSUME IInv, IInv', DamageInv, Quiet, NEW w \in Writers,
         CreateGroup(w) \/ CreateDataSet(w) \/ Resize(w)
  PROVE  DamageInv'
<1>1. GroupOf(w) \in Groups
  <2>1. pc[w] # "idle"
    BY DEF CreateGroup, CreateDataSet, Resize
  <2> QED  BY <2>1, MessageGroup DEF IInv, Progress, GroupOf
<1>2. restarts' = restarts /\ req' = req
  BY FailsWhole DEF Quiet, CreateGroup, CreateDataSet, Resize
<1>3. pc'[w] \in InPieces /\ \A v \in Writers \ {w} : pc'[v] = pc[v]
  <2>1. CASE CreateGroup(w)
    BY <2>1, FailsWhole DEF CreateGroup, Goto, InPieces, IInv, TypeOK
  <2>2. CASE CreateDataSet(w)
    BY <2>2 DEF CreateDataSet, NextColumn, Goto, InPieces, IInv, TypeOK
  <2>3. CASE Resize(w)
    BY <2>3 DEF Resize, NextColumn, Goto, InPieces, IInv, TypeOK
  <2> QED  BY <2>1, <2>2, <2>3
<1>4. \A g \in Groups \ {GroupOf(w)} :
        frames'[g] = frames[g] /\ rows'[g] = rows[g] /\ size'[g] = size[g]
  <2>1. CASE CreateGroup(w)
    BY <2>1, FailsWhole DEF CreateGroup, IInv, TypeOK
  <2>2. CASE CreateDataSet(w)
    BY <2>2 DEF CreateDataSet, IInv, TypeOK
  <2>3. CASE Resize(w)
    <3>1. PICK cells : cells = Resized(rows[GroupOf(w)][col[w]], got[w] + 1)
      OBVIOUS
    <3>2. rows' = [rows EXCEPT ![GroupOf(w)][col[w]] = cells]
      BY <2>3, <3>1 DEF Resize
    <3> QED  BY <2>3, <3>2 DEF Resize, IInv, TypeOK
  <2> QED  BY <2>1, <2>2, <2>3
<1> QED  BY <1>1, <1>2, <1>3, <1>4, HeldDamage

\* Also when it writes its row.
LEMMA WriteRowDamage ==
  ASSUME IInv, IInv', DamageInv, Quiet, NEW w \in Writers, WriteRow(w)
  PROVE  DamageInv'
<1> DEFINE g == GroupOf(w)
<1>1. /\ rows' = [rows EXCEPT ![g][col[w]][got[w] + 1] = RowOf(w)[col[w]]]
      /\ NextColumn(w, "size")
      /\ UNCHANGED <<frames, size, mutex, got, req>>
  <2>1. got[w] \in Nat /\ Len(rows[GroupOf(w)][col[w]]) \in Nat
    <3>1. pc[w] # "idle"
      BY DEF WriteRow
    <3> QED  BY <3>1, MessageGroup DEF IInv, TypeOK, Progress, GroupOf
  <2>2. ~(got[w] + 1 > Len(rows[GroupOf(w)][col[w]]))
    BY <2>1, FailsWhole
  <2> QED  BY <2>2 DEF WriteRow
<1>2. pc[w] = "write"
  BY DEF WriteRow
<1>3. pc'[w] \in InPieces /\ \A v \in Writers \ {w} : pc'[v] = pc[v]
  BY <1>1, <1>2 DEF NextColumn, Goto, InPieces, IInv, TypeOK
<1>4. \A h \in Groups \ {g} : frames'[h] = frames[h] /\ rows'[h] = rows[h] /\ size'[h] = size[h]
  BY <1>1 DEF IInv, TypeOK
<1> QED  BY <1>1, <1>3, <1>4, HeldDamage DEF Quiet

\* Every step.
LEMMA DamageStep ==
  ASSUME IInv, IInv', DamageInv, [Next]_vars, Locked = Writers
  PROVE  DamageInv' /\ (restarts' = restarts + 1 => Cardinality(Damaged) <= restarts')
<1>0. restarts \in Nat
  BY DEF IInv, TypeOK
<1>1. CASE Restart
  BY <1>1, RestartDamage
<1>2. ASSUME NEW w \in Writers, NEW pair \in Pairs, NEW row \in Rows, Receive(w, pair, row)
      PROVE  DamageInv' /\ restarts' = restarts
  <2>1. UNCHANGED file /\ restarts' = restarts /\ pc[w] = "idle"
    BY <1>2 DEF Receive
  <2>2. \A v \in Writers : pc[v] \in InPieces => pc'[v] = pc[v] /\ req'[v] = req[v]
    BY <1>2, <2>1 DEF Receive, Goto, InPieces, IInv, TypeOK
  <2> QED  BY <2>1, <2>2, UntouchedDamage
<1>3. ASSUME NEW w \in Writers, WriteStep(w), Quiet
      PROVE  DamageInv' /\ restarts' = restarts
  <2>1. CASE CreateGroup(w) \/ CreateDataSet(w) \/ Resize(w)
    BY <1>3, <2>1, GroupDamage DEF Quiet
  <2>2. CASE WriteRow(w)
    BY <1>3, <2>2, WriteRowDamage DEF Quiet
  <2>3. CASE WriteSize(w)
    BY <1>3, <2>3, WriteSizeDamage DEF Quiet
  <2>4. CASE Lock(w) \/ Find(w) \/ Open(w) \/ Flush(w)
    <3>1. /\ UNCHANGED file /\ req' = req /\ pc[w] \notin InPieces
          /\ \A v \in Writers \ {w} : pc'[v] = pc[v]
      BY <2>4 DEF Lock, Find, Open, Flush, Fail, Goto, InPieces, IInv, TypeOK
    <3> QED  BY <1>3, <3>1, UntouchedDamage DEF Quiet
  <2> QED  BY <1>3, <2>1, <2>2, <2>3, <2>4 DEF WriteStep
<1>4. ASSUME NEW w \in Writers, AddTF(w), UNCHANGED <<serving, requests, restarts>>
      PROVE  DamageInv' /\ restarts' = restarts
  <2>1. UNCHANGED file /\ req' = req /\ pc[w] \notin InPieces
    BY <1>4 DEF AddTF, InPieces
  <2>2. \A v \in Writers \ {w} : pc'[v] = pc[v]
    BY <1>4 DEF AddTF, Goto, IInv, TypeOK
  <2> QED  BY <1>4, <2>1, <2>2, UntouchedDamage
<1>5. CASE UNCHANGED vars
  <2>1. UNCHANGED file /\ req' = req /\ pc' = pc /\ restarts' = restarts
    BY <1>5 DEF vars, file
  <2> QED  BY <1>0, <2>1, UntouchedDamage
<1> QED  BY <1>0, <1>1, <1>2, <1>3, <1>4, <1>5 DEF Next, Step, Quiet

\* However many threads and frame pairs there are, the groups that cannot be
\* loaded are no more than the crashes, since a thread leaves the mutex only with
\* its group whole or as it found it.
THEOREM CrashesBoundDamage ==
  ASSUME Locked = Writers
  PROVE  Spec => DamageBounded
<1>1. Init => DamageInv
  <2> SUFFICES ASSUME Init PROVE DamageInv
    OBVIOUS
  <2>1. Damaged \ Held = {}
    BY DEF Init, Damaged
  <2>2. restarts = 0 /\ IsFiniteSet({}) /\ Cardinality({}) = 0
    BY FS_EmptySet DEF Init
  <2> QED  BY <2>1, <2>2 DEF DamageInv
<1>2. IInv /\ IInv' /\ DamageInv /\ [Next]_vars => DamageInv'
  BY DamageStep
<1>3. IInv /\ IInv' /\ DamageInv /\ [Next]_vars
        => (restarts' = restarts + 1 => Cardinality(Damaged) <= restarts')
  BY DamageStep
<1> QED  BY <1>1, <1>2, <1>3, Invariance, PTL DEF Spec, DamageBounded

-----------------------------------------------------------------------------
(* With threads that do not take the mutex.  Two threads in one group may  *)
(* cut off or overwrite each other's rows; the types need only that a      *)
(* thread has a request, and a group its frames before it has a "size".    *)

Begun == {"open", "create", "resize", "write", "size"}

Handling(w) ==
  /\ pc[w] # "idle" => req[w] \in Messages
  /\ pc[w] = "lock" => w \in Locked
  /\ pc[w] \in Begun => frames[GroupOf(w)] # None

MixedInv ==
  /\ TypeOK
  /\ \A w \in Writers : Handling(w)
  /\ \A g \in Groups : size[g] # None => frames[g] # None

\* A thread that is not idle has a group, and the cells of its row are values.
LEMMA HandlingGroup ==
  ASSUME MixedInv, NEW w \in Writers, pc[w] # "idle"
  PROVE  /\ req[w] \in Messages /\ GroupOf(w) \in Groups /\ req[w][1] \in Pairs
         /\ \A k \in Columns : RowOf(w)[k] \in Values
         /\ req[w] \in Pairs \X [Columns -> Values]
<1>1. req[w] \in Messages
  BY DEF MixedInv, Handling
<1>2. GroupOf(w) \in Groups /\ RowOf(w) \in Rows /\ req[w] = <<req[w][1], RowOf(w)>> /\ req[w][1] \in Pairs
  BY <1>1, MessageGroup DEF GroupOf, RowOf
<1>3. RowOf(w) \in [Columns -> Values]
  BY <1>2, ConstantsAssumption
<1>4. req[w] \in Pairs \X [Columns -> Values]
  BY <1>2, <1>3
<1> QED  BY <1>1, <1>2, <1>3, <1>4

\* The other threads stay as they are while groups keep their frames.
LEMMA OthersHandling ==
  ASSUME NEW w \in Writers, NEW v \in Writers, Handling(v), pc'[v] = pc[v], req'[v] = req[v],
         pc[v] \in Begun => frames'[GroupOf(v)] # None
  PROVE  Handling(v)'
<1>1. req'[v] = req[v] => GroupOf(v)' = GroupOf(v)
  BY DEF GroupOf
<1> QED  BY <1>1 DEF Handling

\* A request comes in.
LEMMA MixedReceive ==
  ASSUME MixedInv, NEW w \in Writers, NEW pair \in Pairs, NEW row \in Rows, Receive(w, pair, row)
  PROVE  MixedInv'
<1>1. TypeOK'
  BY ConstantsAssumption DEF Receive, Goto, MixedInv, TypeOK, InFile, file, Messages
<1>2. ASSUME NEW v \in Writers PROVE Handling(v)'
  BY DEF Receive, Goto, file, MixedInv, TypeOK, Handling, Messages, Begun, GroupOf
<1> QED  BY <1>1, <1>2 DEF MixedInv, Receive, file

\* A thread waits, looks, opens, fails or flushes.
LEMMA MixedCalls ==
  ASSUME MixedInv, NEW w \in Writers, Lock(w) \/ Find(w) \/ Open(w) \/ Flush(w), Quiet
  PROVE  MixedInv'
<1>1. UNCHANGED <<file, req>>
  BY DEF Lock, Find, Open, Flush, Fail
<1>2. PICK label : /\ pc' = [pc EXCEPT ![w] = label]
                   /\ label \in {"idle", "addTF"} \cup InFile
                   /\ label \in Begun => frames[GroupOf(w)] # None
                   /\ pc[w] # "idle"
  <2>1. CASE Lock(w) \/ Flush(w)
    BY <2>1 DEF Lock, Flush, Goto, InFile, Begun
  <2>2. CASE Find(w)
    BY <2>2 DEF Find, Goto, InFile, Begun
  <2>3. CASE Open(w)
    BY <2>3 DEF Open, Fail, Goto, InFile, MixedInv, Handling, Begun
  <2> QED  BY <2>1, <2>2, <2>3
<1>3. mutex' \in Locked \cup {None}
  <2>1. CASE Lock(w)
    BY <2>1 DEF Lock, MixedInv, Handling
  <2>2. CASE Find(w)
    BY <2>2 DEF Find, MixedInv, TypeOK
  <2>3. CASE Open(w) \/ Flush(w)
    BY <2>3 DEF Open, Flush, Fail, Unlock, MixedInv, TypeOK
  <2> QED  BY <2>1, <2>2, <2>3
<1>4. col' \in [Writers -> Columns] /\ got' \in [Writers -> Nat]
  <2>1. CASE Lock(w) \/ Find(w) \/ Flush(w)
    BY <2>1 DEF Lock, Find, Flush, MixedInv, TypeOK
  <2>2. CASE Open(w)
    <3>1. pc[w] # "idle"
      BY <2>2 DEF Open
    <3>2. size[GroupOf(w)] \in Nat \cup {None}
      BY <3>1, HandlingGroup DEF MixedInv, TypeOK
    <3>3. \/ got' = got /\ col' = col
          \/ /\ size[GroupOf(w)] # None
             /\ got' = [got EXCEPT ![w] = size[GroupOf(w)]] /\ col' = [col EXCEPT ![w] = 1]
      BY <2>2 DEF Open, Fail
    <3>4. got \in [Writers -> Nat] /\ col \in [Writers -> Columns] /\ 1 \in Columns
      BY DEF MixedInv, TypeOK, Columns
    <3>5. col' \in [Writers -> Columns]
      BY <3>3, <3>4
    <3>6. size[GroupOf(w)] # None => size[GroupOf(w)] \in Nat
      BY <3>2
    <3>7. got' \in [Writers -> Nat]
      BY <3>3, <3>4, <3>6
    <3> QED  BY <3>5, <3>7
  <2> QED  BY <2>1, <2>2
<1>5. TypeOK'
  BY <1>1, <1>2, <1>3, <1>4 DEF MixedInv, TypeOK, Quiet, file
<1>6. ASSUME NEW v \in Writers PROVE Handling(v)'
  <2>1. CASE v = w
    <3>1. pc'[v] = label /\ GroupOf(v)' = GroupOf(v) /\ frames' = frames
      BY <1>1, <1>2, <2>1 DEF MixedInv, TypeOK, file, GroupOf
    <3>2. label # "lock"
      BY <1>2 DEF InFile
    <3> QED  BY <1>1, <1>2, <2>1, <3>1, <3>2 DEF MixedInv, Handling
  <2>2. CASE v # w
    BY <1>1, <1>2, <2>2, OthersHandling DEF MixedInv, Handling, TypeOK, file
  <2> QED  BY <2>1, <2>2
<1> QED  BY <1>1, <1>5, <1>6 DEF MixedInv, file

\* The transform goes to the buffer.
LEMMA MixedAddTF ==
  ASSUME MixedInv, NEW w \in Writers, AddTF(w), UNCHANGED <<serving, requests, restarts>>
  PROVE  MixedInv'
<1>1. req[w] \in Messages /\ req[w] \in Pairs \X [Columns -> Values]
  BY HandlingGroup DEF AddTF
<1>2. TypeOK'
  BY <1>1 DEF AddTF, Goto, MixedInv, TypeOK, InFile, file
<1>3. ASSUME NEW v \in Writers PROVE Handling(v)'
  BY DEF AddTF, Goto, file, MixedInv, TypeOK, Handling, Begun, GroupOf
<1> QED  BY <1>2, <1>3 DEF MixedInv, AddTF, file

\* The steps that write in a group: it keeps its frames.
LEMMA MixedWrites ==
  ASSUME MixedInv, NEW w \in Writers, Quiet,
         CreateGroup(w) \/ CreateDataSet(w) \/ Resize(w) \/ WriteRow(w) \/ WriteSize(w)
  PROVE  MixedInv'
<1>1. PICK g, k : g = GroupOf(w) /\ k = col[w]
  OBVIOUS
<1>2. /\ g \in Groups /\ k \in Columns /\ got[w] \in Nat /\ req[w] \in Messages
      /\ req[w][1] \in Pairs /\ req[w][1] # None /\ pc[w] \in InFile
      /\ RowOf(w)[k] \in Values
  <2>1. pc[w] # "idle" /\ pc[w] \in InFile
    BY DEF CreateGroup, CreateDataSet, Resize, WriteRow, WriteSize, InFile
  <2>2. None \notin Pairs
    BY ConstantsAssumption
  <2> QED  BY <1>1, <2>1, <2>2, HandlingGroup DEF MixedInv, TypeOK
<1>3. req' = req
  BY DEF CreateGroup, CreateDataSet, Resize, WriteRow, WriteSize, Fail
<1>4. /\ frames' \in [Groups -> Pairs \cup {None}]
      /\ \A h \in Groups : frames[h] # None => frames'[h] # None
  <2>1. frames' = frames \/ frames' = [frames EXCEPT ![g] = req[w][1]]
    BY <1>1 DEF CreateGroup, CreateDataSet, Resize, WriteRow, WriteSize, Fail, file
  <2> QED  BY <1>2, <2>1 DEF MixedInv, TypeOK
<1>5. rows' \in [Groups -> [Columns -> Seq(Values)]]
  <2>1. CASE rows' = rows
    BY <2>1 DEF MixedInv, TypeOK
  <2>2. CASE CreateDataSet(w)
    <3>0. <<Zero>> \in Seq(Values)
      BY ConstantsAssumption
    <3>1. PICK cells \in Seq(Values) : cells = <<Zero>>
      BY <3>0
    <3> QED  BY <1>1, <1>2, <2>2, <3>1, ColumnUpdate DEF CreateDataSet, MixedInv, TypeOK
  <2>3. CASE Resize(w)
    <3>1. rows[g][k] \in Seq(Values)
      BY <1>2 DEF MixedInv, TypeOK
    <3>2. Resized(rows[g][k], got[w] + 1) \in Seq(Values)
      BY <1>2, <3>1, ResizedCells
    <3>3. PICK cells \in Seq(Values) : cells = Resized(rows[g][k], got[w] + 1)
      BY <3>2
    <3>4. rows' = [rows EXCEPT ![g][k] = cells]
      BY <1>1, <2>3, <3>3 DEF Resize
    <3> QED  BY <1>2, <3>4, ColumnUpdate DEF MixedInv, TypeOK
  <2>4. CASE WriteRow(w)
    <3>1. CASE Fail(w)
      BY <2>1, <3>1 DEF Fail, file
    <3>2. CASE got[w] + 1 <= Len(rows[g][k]) /\ rows' = [rows EXCEPT ![g][k][got[w] + 1] = RowOf(w)[k]]
      <4>1. Len(rows[g][k]) \in Nat
        BY <1>2 DEF MixedInv, TypeOK
      <4>2. PICK n \in 1 .. Len(rows[g][k]) : n = got[w] + 1
        BY <1>2, <3>2, <4>1
      <4>3. PICK x \in Values : x = RowOf(w)[k]
        BY <1>2
      <4>4. rows' = [rows EXCEPT ![g][k][n] = x]
        BY <3>2, <4>2, <4>3
      <4> QED  BY <1>2, <4>4, CellUpdate DEF MixedInv, TypeOK
    <3> QED  BY <1>1, <2>4, <3>1, <3>2 DEF WriteRow
  <2>5. CASE CreateGroup(w) \/ WriteSize(w)
    BY <2>1, <2>5 DEF CreateGroup, WriteSize, Fail, file
  <2> QED  BY <2>2, <2>3, <2>4, <2>5
<1>6. /\ size' \in [Groups -> Nat \cup {None}]
      /\ \A h \in Groups : size'[h] # None => frames'[h] # None
  <2>1. CASE size' = size
    BY <1>4, <2>1 DEF MixedInv, TypeOK
  <2>2. CASE WriteSize(w)
    <3>1. frames[g] # None
      BY <1>1, <2>2 DEF WriteSize, MixedInv, Handling, Begun
    <3> QED  BY <1>1, <1>2, <1>4, <2>2, <3>1 DEF WriteSize, MixedInv, TypeOK
  <2> QED  BY <2>1, <2>2 DEF CreateGroup, CreateDataSet, Resize, WriteRow, Fail, file
<1>7. col' \in [Writers -> Columns] /\ got' \in [Writers -> Nat] /\ mutex' \in Locked \cup {None}
  <2>1. mutex' \in {mutex, None}
    BY DEF CreateGroup, CreateDataSet, Resize, WriteRow, WriteSize, Fail, Unlock
  <2>2. got' = got \/ got' = [got EXCEPT ![w] = 0]
    BY DEF CreateGroup, CreateDataSet, Resize, WriteRow, WriteSize, Fail
  <2>3. \/ col' = col \/ col' = [col EXCEPT ![w] = 1]
        \/ k < 3 /\ col' = [col EXCEPT ![w] = k + 1]
    BY <1>1 DEF CreateGroup, CreateDataSet, Resize, WriteRow, WriteSize, Fail, NextColumn,
       MixedInv, TypeOK
  <2>4. k < 3 => k + 1 \in Columns
    BY <1>2 DEF Columns
  <2>5. /\ col \in [Writers -> Columns] /\ got \in [Writers -> Nat] /\ mutex \in Locked \cup {None}
        /\ 1 \in Columns
    BY DEF MixedInv, TypeOK, Columns
  <2>6. mutex' \in Locked \cup {None}
    BY <2>1, <2>5
  <2>7. got' \in [Writers -> Nat]
    BY <2>2, <2>5
  <2>8. col' \in [Writers -> Columns]
    BY <2>3, <2>4, <2>5
  <2> QED  BY <2>6, <2>7, <2>8
<1>8. PICK label : /\ pc' = [pc EXCEPT ![w] = label] /\ label \in {"idle"} \cup InFile
                   /\ label \in Begun => frames'[g] # None
  <2>1. pc = [pc EXCEPT ![w] = pc[w]]
    BY DEF MixedInv, TypeOK
  <2>2. pc[w] \in Begun => frames'[g] # None
    BY <1>1, <1>2, <1>4 DEF MixedInv, Handling
  <2>3. CASE CreateGroup(w)
    <3>1. CASE Fail(w)
      <4>1. pc' = [pc EXCEPT ![w] = "idle"] /\ "idle" \notin Begun
        BY <3>1 DEF Fail, Goto, Begun
      <4> QED  BY <4>1
    <3>2. CASE frames' = [frames EXCEPT ![g] = req[w][1]] /\ pc' = [pc EXCEPT ![w] = "create"]
      <4>1. frames'[g] # None
        BY <1>2, <3>2 DEF MixedInv, TypeOK
      <4> QED  BY <3>2, <4>1 DEF InFile
    <3> QED  BY <1>1, <2>3, <3>1, <3>2 DEF CreateGroup, Goto
  <2>4. CASE CreateDataSet(w) \/ Resize(w)
    <3>1. pc' = pc \/ pc' = [pc EXCEPT ![w] = "write"]
      BY <2>4 DEF CreateDataSet, Resize, NextColumn, Goto
    <3>2. frames'[g] # None
      BY <2>2, <2>4 DEF CreateDataSet, Resize, Begun
    <3> QED  BY <1>2, <2>1, <3>1, <3>2 DEF InFile
  <2>5. CASE WriteRow(w)
    <3>1. pc' = pc \/ pc' = [pc EXCEPT ![w] = "size"] \/ pc' = [pc EXCEPT ![w] = "idle"]
      BY <2>5 DEF WriteRow, Fail, NextColumn, Goto
    <3>2. frames'[g] # None
      BY <2>2, <2>5 DEF WriteRow, Begun
    <3>3. "size" \in InFile /\ pc[w] \in InFile
      BY <1>2 DEF InFile
    <3>4. CASE pc' = [pc EXCEPT ![w] = "idle"]
      <4>1. "idle" \notin Begun
        BY DEF Begun
      <4> QED  BY <3>4, <4>1
    <3>5. CASE pc' = [pc EXCEPT ![w] = "size"]
      BY <3>2, <3>3, <3>5
    <3>6. CASE pc' = pc
      BY <2>1, <3>2, <3>3, <3>6
    <3> QED  BY <3>1, <3>4, <3>5, <3>6
  <2>6. CASE WriteSize(w)
    <3>1. pc' = [pc EXCEPT ![w] = "flush"]
      BY <2>6 DEF WriteSize, Goto
    <3>2. "flush" \in InFile /\ "flush" \notin Begun
      BY DEF InFile, Begun
    <3> QED  BY <3>1, <3>2
  <2> QED  BY <2>3, <2>4, <2>5, <2>6
<1>9. TypeOK'
  BY <1>3, <1>4, <1>5, <1>6, <1>7, <1>8 DEF MixedInv, TypeOK, Quiet
<1>10. ASSUME NEW v \in Writers PROVE Handling(v)'
  <2>1. CASE v = w
    <3>1. pc'[v] = label /\ GroupOf(v)' = g
      BY <1>1, <1>3, <1>8, <2>1 DEF MixedInv, TypeOK, GroupOf
    <3>2. label # "lock"
      BY <1>8 DEF InFile
    <3> QED  BY <1>2, <1>3, <1>8, <2>1, <3>1, <3>2 DEF Handling
  <2>2. CASE v # w
    <3>1. pc'[v] = pc[v] /\ req'[v] = req[v] /\ Handling(v)
      BY <1>3, <1>8, <2>2 DEF MixedInv, TypeOK
    <3>2. pc[v] \in Begun => frames'[GroupOf(v)] # None
      <4>1. pc[v] \in Begun => pc[v] # "idle" /\ frames[GroupOf(v)] # None
        BY <3>1 DEF Handling, Begun
      <4> QED  BY <1>4, <4>1, HandlingGroup
    <3> QED  BY <3>1, <3>2, OthersHandling
  <2> QED  BY <2>1, <2>2
<1> QED  BY <1>6, <1>9, <1>10 DEF MixedInv

\* The startup loads cells and frames of the file.
LEMMA MixedRestart ==
  ASSUME MixedInv, Restart
  PROVE  MixedInv'
<1>1. ASSUME NEW g \in Groups PROVE Loaded(g) \in SUBSET (Pairs \X [Columns -> Values])
  <2>1. CASE Loadable(g)
    <3>1. frames[g] \in Pairs
      BY <2>1 DEF Loadable, MixedInv, TypeOK
    <3>2. size[g] \in Nat /\ \A k \in Columns : rows[g][k] \in Seq(Values) /\ Len(rows[g][k]) = size[g]
      BY <2>1 DEF Loadable, MixedInv, TypeOK
    <3>3. \A i \in 1 .. size[g] : \A k \in Columns : rows[g][k][i] \in Values
      BY <3>2
    <3> QED  BY <3>1, <3>3 DEF Loaded
  <2>2. CASE ~Loadable(g)
    BY <2>2 DEF Loaded
  <2> QED  BY <2>1, <2>2
<1>2. buffer' \in SUBSET (Pairs \X [Columns -> Values]) /\ serving' \in BOOLEAN
  BY <1>1 DEF Restart
<1>3. /\ UNCHANGED <<frames, rows, size, col, got, req, answered, requests>>
      /\ mutex' = None
      /\ pc' = [w \in Writers |-> "idle"]
      /\ restarts < MaxRestarts /\ restarts' = restarts + 1
  BY DEF Restart, file
<1>4. TypeOK'
  BY <1>2, <1>3, ConstantsAssumption DEF MixedInv, TypeOK
<1> QED  BY <1>3, <1>4 DEF MixedInv, Handling, Begun

\* Every variable keeps its type, whichever threads take the mutex; no cell is
\* left without a value, and no thread writes past the end of a column.
THEOREM TypeCorrect == Spec => []TypeOK
<1>1. Init => MixedInv
  <2> SUFFICES ASSUME Init PROVE MixedInv
    OBVIOUS
  <2>1. TypeOK
    BY ConstantsAssumption DEF Init, TypeOK, Columns
  <2> QED  BY <2>1 DEF Init, MixedInv, Handling, Begun
<1>2. ASSUME MixedInv, [Next]_vars PROVE MixedInv'
  <2>1. ASSUME NEW w \in Writers, Step(w) PROVE MixedInv'
    BY <1>2, <2>1, MixedCalls, MixedWrites, MixedAddTF DEF Step, WriteStep, Quiet
  <2>2. CASE UNCHANGED vars
    BY <1>2, <2>2 DEF vars, MixedInv, TypeOK, Handling, GroupOf
  <2> QED  BY <1>2, <2>1, <2>2, MixedReceive, MixedRestart DEF Next
<1> QED  BY <1>1, <1>2, PTL DEF Spec, MixedInv

=============================================================================
