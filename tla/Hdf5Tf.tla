------------------------------- MODULE Hdf5Tf -------------------------------
(***************************************************************************)
(* How transforms reach the HDF5 file of a project and the tf buffer, one  *)
(* call of the HDF5 library at a time: Hdf5FbTf and Hdf5PbTf               *)
(* (writeTransformStamped), which are the same but for the mutex that only *)
(* the first one takes, and CoreTf, which loads the file at startup.       *)
(*                                                                         *)
(* The server may go down between any two calls: the handler of SIGINT     *)
(* calls exit() whatever the handler threads are doing, and the library    *)
(* closes the file as it is.                                               *)
(*                                                                         *)
(* A frame pair is stored as one group with three data sets, the columns   *)
(* time, translation and rotation, that grow row by row, and the attribute *)
(* "size".  A row is the function from the columns to what it holds there. *)
(***************************************************************************)
EXTENDS Integers, Sequences, FiniteSets

CONSTANTS
  Writers,      \* the handler threads that store transforms
  Locked,       \* those of the flatbuffer service, which hold the mutex of the file
  Pairs,        \* <<parent, child>>; a frame name is the sequence of its parts between the "_"
  Values,       \* what one cell of a column may hold
  Zero,         \* the value a new cell is filled with
  Rows,         \* the transforms that are sent, without their frames
  None,         \* no value
  MaxRequests,  \* bound on the requests
  MaxRestarts   \* bound on the restarts

Columns == 1 .. 3   \* time, translation, rotation

\* The name of the group: the two frame names with a "_" between them.
Group(pair) == pair[1] \o pair[2]
Groups == {Group(pair) : pair \in Pairs}

ASSUME ConstantsAssumption ==
  /\ Locked \subseteq Writers
  /\ None \notin Writers /\ None \notin Pairs /\ None \notin Nat /\ None \notin Pairs \X Rows
  /\ Zero \in Values
  /\ Rows \subseteq [Columns -> Values]
  /\ \A pair \in Pairs : pair[1] # pair[2]   \* tf2 refuses a frame relative to itself
  /\ MaxRequests \in Nat /\ MaxRestarts \in Nat

VARIABLES
  \* the file
  frames,    \* per group: the attributes PARENT_FRAME and CHILD_FRAME, None without the group
  rows,      \* per group and column: the cells; <<>> when there is no such data set
  size,      \* per group: the attribute "size", None when it was never written
  \* the handler threads
  mutex,     \* the thread that holds m_write_mtx, or None
  pc,        \* per thread: the call it makes next
  col,       \* per thread: the column it is at
  got,       \* per thread: the local variable size
  req,       \* per thread: the transform it stores, <<pair, row>>; None before the first
  \* CoreTf
  buffer,    \* the transforms in the tf buffer
  serving,   \* FALSE: an exception left the startup and ended the process
  \* what the senders know
  answered,  \* the transforms whose request was answered with success
  requests, restarts

file == <<frames, rows, size>>
threads == <<mutex, pc, col, got, req>>
vars == <<frames, rows, size, mutex, pc, col, got, req, buffer, serving, answered, requests, restarts>>

GroupOf(w) == Group(req[w][1])
RowOf(w) == req[w][2]

Init ==
  /\ frames = [g \in Groups |-> None]
  /\ rows = [g \in Groups |-> [k \in Columns |-> <<>>]]
  /\ size = [g \in Groups |-> None]
  /\ mutex = None
  /\ pc = [w \in Writers |-> "idle"]
  /\ col = [w \in Writers |-> 1]
  /\ got = [w \in Writers |-> 0]
  /\ req = [w \in Writers |-> None]
  /\ buffer = {}
  /\ serving = TRUE
  /\ answered = {}
  /\ requests = 0
  /\ restarts = 0

-----------------------------------------------------------------------------
(* writeTransformStamped.                                                  *)

Goto(w, label) == pc' = [pc EXCEPT ![w] = label]

\* From one column to the next, and after the last one to label.
NextColumn(w, label) ==
  \/ /\ col[w] < 3
     /\ col' = [col EXCEPT ![w] = @ + 1]
     /\ UNCHANGED pc
  \/ /\ col[w] = 3
     /\ col' = [col EXCEPT ![w] = 1]
     /\ Goto(w, label)

Receive(w, pair, row) ==
  /\ serving
  /\ pc[w] = "idle"
  /\ requests < MaxRequests
  /\ requests' = requests + 1
  /\ req' = [req EXCEPT ![w] = <<pair, row>>]
  /\ Goto(w, IF w \in Locked THEN "lock" ELSE "find")
  /\ UNCHANGED <<file, mutex, col, got, buffer, serving, answered, restarts>>

\* Wrong on purpose, as every definition named Wrong...: the mutex is not waited for.
WrongLock(w) ==
  /\ pc[w] = "lock"
  /\ mutex' = w
  /\ Goto(w, "find")
  /\ UNCHANGED <<file, col, got, req>>

Lock(w) ==
  /\ pc[w] = "lock"
  /\ mutex = None
  /\ mutex' = w
  /\ Goto(w, "find")
  /\ UNCHANGED <<file, col, got, req>>

\* The scoped_lock goes out of scope.
Unlock(w) == mutex' = IF w \in Locked THEN None ELSE mutex

\* Wrong: the exception keeps the mutex.
WrongFail(w) ==
  /\ Goto(w, "idle")
  /\ UNCHANGED <<file, mutex, col, got, req>>

\* The library throws; the request is answered with an error.
Fail(w) ==
  /\ Goto(w, "idle")
  /\ Unlock(w)
  /\ UNCHANGED <<file, col, got, req>>

Find(w) ==
  /\ pc[w] = "find"
  /\ Goto(w, IF frames[GroupOf(w)] = None THEN "createGroup" ELSE "open")
  /\ UNCHANGED <<file, mutex, col, got, req>>

\* createGroup throws when the group is there; the attributes of a group
\* without data sets are never looked at
CreateGroup(w) ==
  /\ pc[w] = "createGroup"
  /\ \/ /\ frames[GroupOf(w)] = None
        /\ frames' = [frames EXCEPT ![GroupOf(w)] = req[w][1]]
        /\ got' = [got EXCEPT ![w] = 0]
        /\ col' = [col EXCEPT ![w] = 1]
        /\ Goto(w, "create")
        /\ UNCHANGED <<rows, size, mutex, req>>
     \/ frames[GroupOf(w)] # None /\ Fail(w)

CreateDataSet(w) ==
  /\ pc[w] = "create"
  /\ rows' = [rows EXCEPT ![GroupOf(w)][col[w]] = <<Zero>>]
  /\ NextColumn(w, "write")
  /\ UNCHANGED <<frames, size, mutex, got, req>>

HasDataSets(g) == \A k \in Columns : rows[g][k] # <<>>

\* getDataSet and getAttribute throw when there is none
Open(w) ==
  /\ pc[w] = "open"
  /\ \/ /\ HasDataSets(GroupOf(w)) /\ size[GroupOf(w)] # None
        /\ got' = [got EXCEPT ![w] = size[GroupOf(w)]]
        /\ col' = [col EXCEPT ![w] = 1]
        /\ Goto(w, "resize")
        /\ UNCHANGED <<file, mutex, req>>
     \/ /\ ~HasDataSets(GroupOf(w)) \/ size[GroupOf(w)] = None
        /\ Fail(w)

\* Wrong: the cells resize adds are not filled.
WrongResized(cells, n) == [i \in 1 .. n |-> IF i <= Len(cells) THEN cells[i] ELSE None]

\* resize cuts or fills up
Resized(cells, n) == [i \in 1 .. n |-> IF i <= Len(cells) THEN cells[i] ELSE Zero]

\* Wrong: grows the data set by a row instead of to the row after the last.
WrongResize(w) ==
  /\ pc[w] = "resize"
  /\ rows' = [rows EXCEPT ![GroupOf(w)][col[w]] = Append(@, Zero)]
  /\ NextColumn(w, "write")
  /\ UNCHANGED <<frames, size, mutex, got, req>>

Resize(w) ==
  /\ pc[w] = "resize"
  /\ rows' = [rows EXCEPT ![GroupOf(w)][col[w]] = Resized(@, got[w] + 1)]
  /\ NextColumn(w, "write")
  /\ UNCHANGED <<frames, size, mutex, got, req>>

\* The row after the last; the library throws when another thread cut it off.
WriteRow(w) ==
  LET g == GroupOf(w)  k == col[w]
  IN  /\ pc[w] = "write"
      /\ \/ /\ got[w] + 1 <= Len(rows[g][k])
            /\ rows' = [rows EXCEPT ![g][k][got[w] + 1] = RowOf(w)[k]]
            /\ NextColumn(w, "size")
            /\ UNCHANGED <<frames, size, mutex, got, req>>
         \/ got[w] + 1 > Len(rows[g][k]) /\ Fail(w)

\* Wrong: the size is written as it was read.
WrongWriteSize(w) ==
  /\ pc[w] = "size"
  /\ size' = [size EXCEPT ![GroupOf(w)] = got[w]]
  /\ Goto(w, "flush")
  /\ UNCHANGED <<frames, rows, mutex, col, got, req>>

WriteSize(w) ==
  /\ pc[w] = "size"
  /\ size' = [size EXCEPT ![GroupOf(w)] = got[w] + 1]
  /\ Goto(w, "flush")
  /\ UNCHANGED <<frames, rows, mutex, col, got, req>>

Flush(w) ==
  /\ pc[w] = "flush"
  /\ Goto(w, "addTF")
  /\ Unlock(w)
  /\ UNCHANGED <<file, col, got, req>>

\* Core::addTF, and the answer to the sender
AddTF(w) ==
  /\ pc[w] = "addTF"
  /\ buffer' = buffer \cup {req[w]}
  /\ answered' = answered \cup {req[w]}
  /\ Goto(w, "idle")
  /\ UNCHANGED <<file, mutex, col, got, req>>

-----------------------------------------------------------------------------
(* The startup: CoreTf::recreateDatasets.                                  *)

\* convertToTfs wants every column to have size rows
Loadable(g) ==
  /\ HasDataSets(g)
  /\ size[g] # None
  /\ size[g] # 0
  /\ \A k \in Columns : Len(rows[g][k]) = size[g]

\* Wrong: the last row is not loaded.
WrongLoaded(g) ==
  IF Loadable(g)
  THEN {<<frames[g], [k \in Columns |-> rows[g][k][i]]>> : i \in 1 .. size[g] - 1}
  ELSE {}

Loaded(g) ==
  IF Loadable(g)
  THEN {<<frames[g], [k \in Columns |-> rows[g][k][i]]>> : i \in 1 .. size[g]}
  ELSE {}

\* An attribute that is missing throws what neither recreateDatasets nor
\* recreateProjects catches.
Terminates(g) == HasDataSets(g) /\ size[g] = None

Restart ==
  /\ restarts < MaxRestarts
  /\ restarts' = restarts + 1
  /\ serving' = \A g \in Groups : ~Terminates(g)
  /\ buffer' = IF serving' THEN UNION {Loaded(g) : g \in Groups} ELSE {}
  /\ mutex' = None
  /\ pc' = [w \in Writers |-> "idle"]
  /\ UNCHANGED <<file, col, got, req, answered, requests>>

-----------------------------------------------------------------------------

WriteStep(w) ==
  \/ Lock(w)
  \/ Find(w)
  \/ CreateGroup(w)
  \/ CreateDataSet(w)
  \/ Open(w)
  \/ Resize(w)
  \/ WriteRow(w)
  \/ WriteSize(w)
  \/ Flush(w)

Step(w) ==
  \/ WriteStep(w) /\ UNCHANGED <<buffer, serving, answered, requests, restarts>>
  \/ AddTF(w) /\ UNCHANGED <<serving, requests, restarts>>

Next ==
  \/ \E w \in Writers, pair \in Pairs, row \in Rows : Receive(w, pair, row)
  \/ \E w \in Writers : Step(w)
  \/ Restart

\* A thread that is in a handler runs on.
Spec == Init /\ [][Next]_vars /\ \A w \in Writers : WF_vars(Step(w))

-----------------------------------------------------------------------------
(* Properties.                                                             *)

InFile == {"find", "createGroup", "create", "open", "resize", "write", "size", "flush"}
Messages == Pairs \X Rows

TypeOK ==
  /\ frames \in [Groups -> Pairs \cup {None}]
  /\ rows \in [Groups -> [Columns -> Seq(Values)]]
  /\ size \in [Groups -> Nat \cup {None}]
  /\ mutex \in Locked \cup {None}
  /\ pc \in [Writers -> {"idle", "lock", "addTF"} \cup InFile]
  /\ col \in [Writers -> Columns]
  /\ got \in [Writers -> Nat]
  /\ req \in [Writers -> Messages \cup {None}]
  /\ buffer \in SUBSET (Pairs \X [Columns -> Values])
  /\ serving \in BOOLEAN
  /\ answered \in SUBSET Messages
  /\ requests \in 0 .. MaxRequests
  /\ restarts \in 0 .. MaxRestarts

\* The transforms that count: the rows the attribute "size" covers.
Row(g, i) == [k \in Columns |-> rows[g][k][i]]
Log(g) == [i \in 1 .. (IF size[g] = None THEN 0 ELSE size[g]) |-> Row(g, i)]

Promise == INSTANCE TfLog WITH
  Rows <- Rows,
  log <- [g \in Groups |-> Log(g)],
  acked <- {<<Group(m[1]), m[2]>> : m \in answered}

\* Whatever calls of the library the threads have made, and wherever a crash cut
\* them short, the rows below "size" are a log of whole transforms that only
\* grows, and every answered transform is in it: the columns and "size" are
\* written apart, "size" last (hdf5-fb-tf.cpp:63-102).
ImplementsLog == Promise!Spec

\* A transform that was stored leaves its group loadable, with the transform as
\* its last row, also when a crash had left the columns longer than "size".
StoredLoadable ==
  [][\A w \in Writers : Flush(w) =>
       /\ Loadable(GroupOf(w))
       /\ Row(GroupOf(w), size[GroupOf(w)]) = RowOf(w)]_vars

\* A crash damages one frame pair at most, the one the holder of the mutex was
\* writing: no restart finds more groups it cannot load than there were crashes.
Damaged == {g \in Groups : frames[g] # None /\ ~Loadable(g)}
DamageBounded ==
  [][restarts' = restarts + 1 => Cardinality(Damaged) <= restarts']_vars

\* When the server comes up again, queries see every transform that was answered,
\* unless its frame pair is one a crash damaged: a pair that cannot be loaded
\* costs no other, and no row of an intact one is left out.
RestartServes ==
  [][restarts' = restarts + 1 /\ serving' =>
       \A m \in answered :
         Group(m[1]) \in Damaged \/ <<frames[Group(m[1])], m[2]>> \in buffer']_vars

\* Every request ends, with success or an error: a thread that throws gives the
\* mutex back, so that the others get it.
EveryRequestEnds == \A w \in Writers : pc[w] # "idle" ~> pc[w] = "idle"

-----------------------------------------------------------------------------
(* What a comment of the code says and the code does not do. *)

\* core-fb-tf.h:51 "The tf is stored in the hdf5 file": an answered transform is
\* a row of its group.  A protobuf request at the same time takes it away.
AnsweredStored ==
  \A m \in answered : \E i \in DOMAIN Log(Group(m[1])) : Row(Group(m[1]), i) = m[2]

=============================================================================
