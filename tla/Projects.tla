------------------------------ MODULE Projects ------------------------------
(***************************************************************************)
(* The projects of a server: the folder with one file per project, the map *)
(* of Core, the accessors the services keep per project, and what handler  *)
(* threads do to all three at the same time without a lock: create         *)
(* projects, list them, send data to them and ask for it.  The server may  *)
(* stop anywhere, also while it starts.                                    *)
(*                                                                         *)
(* One step is one visit of one container or one write to a file.  That    *)
(* two threads are not inside one container at the same moment is taken    *)
(* for granted here, although nothing in the code sees to it.              *)
(*                                                                         *)
(* The content of a file is a set of datasets, written and read in one     *)
(* step under its mutex; ImageStore looks inside that step.                *)
(***************************************************************************)
EXTENDS Integers, Sequences, FiniteSets

CONSTANTS
  Handlers,     \* the handler threads
  Uuids,        \* what the random generator may draw for a new project
  Unknown,      \* a uuid no project of this server ever has
  Foreign,      \* files in the folder whose name is no uuid
  Services,     \* the services that keep accessors, in the order they are made
  Data,         \* datasets
  None,         \* no value
  Buckets,      \* inserting one more project than this rehashes the map
  MaxCalls,     \* bound on the calls
  MaxRestarts   \* bound on the restarts

InSeq(s) == {s[i] : i \in DOMAIN s}
Service == InSeq(Services)
Targets == Uuids \cup {Unknown}

ASSUME ConstantsAssumption ==
  /\ Unknown \notin Uuids /\ None \notin Targets \cup Handlers \cup Service \cup Data
  /\ None \notin {"create", "list", "query", "upload"}
  /\ Foreign \cap Uuids = {}
  /\ Services \in Seq(Service)
  /\ Buckets \in Nat /\ MaxCalls \in Nat /\ MaxRestarts \in Nat

VARIABLES
  \* the folder
  files,      \* uuids with a file
  named,      \* those whose file has the attribute projectname
  framed,     \* those whose file has the attribute frameid
  stored,     \* per project: the datasets in its file
  \* the process
  phase,      \* load, services, serve, or down: ended by an exception or a signal
  unread,     \* entries of the folder the startup has not looked at
  made,       \* how many services are made
  projects,   \* m_projects: the list behind the hash map, in the order of iteration
  info,       \* per project in memory: are its name and its frame known
  indexed,    \* per project in memory: its index
  accessors,  \* m_hdf5IoMap per service: per project None or file and mutex
  mutex,      \* per project: the handler that holds m_write_mtx, or None
  handler,    \* per handler thread: its locals
  \* history
  drawn,      \* uuids the random generator gave out
  created,    \* projects whose creation was answered
  told,       \* projects some answer named
  cut,        \* projects whose creation a stop or an exception ended
  kept,       \* <<project, dataset>>, the uploads that were answered with success
  calls, restarts

folder == <<files, named, framed, stored>>
memory == <<projects, info, indexed, accessors, mutex>>
startup == <<phase, unread, made>>
history == <<drawn, created, told, cut, kept>>
vars == <<files, named, framed, stored, phase, unread, made, projects, info, indexed,
          accessors, mutex, handler, drawn, created, told, cut, kept, calls, restarts>>

-----------------------------------------------------------------------------

\* target: the project it is at; cursor: the node the iterator is at; seen: what the
\* iteration has passed; found: the datasets of the answer; file: what getHdf5File gave;
\* before: the projects there were when the iteration began; rehashed: has the list
\* been relinked since.
Idle == [pc |-> "idle", call |-> None, service |-> None, target |-> None, data |-> None,
         cursor |-> None, seen |-> <<>>, found |-> {}, file |-> None, before |-> {},
         rehashed |-> FALSE]

\* make_shared with what Core has for a project, or with null pointers.
Accessor(file, mtx) == [file |-> file, mutex |-> mtx]

Init ==
  /\ files = {} /\ named = {} /\ framed = {}
  /\ stored = [u \in Uuids |-> {}]
  /\ phase = "load" /\ unread = Foreign /\ made = 0
  /\ projects = <<>>
  /\ info = [u \in Uuids |-> [name |-> FALSE, frame |-> FALSE]]
  /\ indexed = [u \in Uuids |-> {}]
  /\ accessors = [s \in Service |-> [u \in Targets |-> None]]
  /\ mutex = [u \in Uuids |-> None]
  /\ handler = [h \in Handlers |-> Idle]
  /\ drawn = {} /\ created = {} /\ told = {} /\ cut = {} /\ kept = {}
  /\ calls = 0 /\ restarts = 0

Known == InSeq(projects)

\* Wrong on purpose, as every definition named Wrong...: Core is not asked whether it
\* has the project.
WrongHdf5Of(u) == u

\* What getHdf5File and getHdf5FileMutex give: they catch the exception of findProject
\* and return a null pointer.
Hdf5Of(u) == IF u \in Known THEN u ELSE None

\* m_projects.insert: a new node may come anywhere in the list; a rehash relinks it.
Inserted(u) ==
  IF u \in Known THEN {projects}
  ELSE IF Len(projects) < Buckets
  THEN {SubSeq(projects, 1, i) \o <<u>> \o SubSeq(projects, i + 1, Len(projects)) :
          i \in 0..Len(projects)}
  ELSE {p \in [1..(Len(projects) + 1) -> Known \cup {u}] : InSeq(p) = Known \cup {u}}

\* it++
After(u) ==
  LET i == CHOOSE i \in DOMAIN projects : projects[i] = u
  IN IF i < Len(projects) THEN projects[i + 1] ELSE None
Begin == IF projects = <<>> THEN None ELSE projects[1]

Set(h, locals) == handler' = [handler EXCEPT ![h] = locals]
Goto(h, label) == Set(h, [handler[h] EXCEPT !.pc = label])

At(h, label) == phase = "serve" /\ handler[h].pc = label

Begins(h, locals) ==
  /\ At(h, "idle") /\ calls < MaxCalls
  /\ calls' = calls + 1
  /\ Set(h, locals)

-----------------------------------------------------------------------------
(* Creating a project: file, name, frame, map, answer.                     *)

CreateProject(h) ==
  \E u \in Uuids \ drawn :
    /\ Begins(h, [Idle EXCEPT !.pc = "createFile", !.call = "create", !.target = u])
    /\ drawn' = drawn \cup {u}
    /\ UNCHANGED <<folder, memory, startup, created, told, cut, kept, restarts>>

CreateFile(h) ==
  /\ At(h, "createFile")
  /\ files' = files \cup {handler[h].target}
  /\ Goto(h, "writeName")
  /\ UNCHANGED <<named, framed, stored, memory, startup, history, calls, restarts>>

WriteProjectname(h) ==
  /\ At(h, "writeName")
  /\ named' = named \cup {handler[h].target}
  /\ Goto(h, "writeFrame")
  /\ UNCHANGED <<files, framed, stored, memory, startup, history, calls, restarts>>

WriteProjectFrameId(h) ==
  /\ At(h, "writeFrame")
  /\ framed' = framed \cup {handler[h].target}
  /\ Goto(h, "insert")
  /\ UNCHANGED <<files, named, stored, memory, startup, history, calls, restarts>>

\* Any of the three may throw, which no one catches before the call has ended.
FailCreation(h) ==
  /\ \E label \in {"createFile", "writeName", "writeFrame"} : At(h, label)
  /\ cut' = cut \cup {handler[h].target}
  /\ Set(h, Idle)
  /\ UNCHANGED <<folder, memory, startup, drawn, created, told, kept, calls, restarts>>

\* The name and the frame in memory are those of the request.  The answer gives the
\* uuid to the client.
InsertProject(h) ==
  /\ At(h, "insert")
  /\ LET u == handler[h].target
         rehash == Len(projects) >= Buckets
     IN /\ projects' \in Inserted(u)
        /\ info' = [info EXCEPT ![u] = [name |-> TRUE, frame |-> TRUE]]
        /\ created' = created \cup {u}
        /\ told' = told \cup {u}
        /\ handler' = [g \in Handlers |->
                         IF g = h THEN Idle
                         ELSE [handler[g] EXCEPT !.rehashed = @ \/ rehash]]
  /\ UNCHANGED <<folder, indexed, accessors, mutex, startup, drawn, cut, kept, calls, restarts>>

CreationStep(h) ==
  \/ CreateFile(h) \/ WriteProjectname(h) \/ WriteProjectFrameId(h) \/ FailCreation(h)
  \/ InsertProject(h)

-----------------------------------------------------------------------------
(* Iterating over the map: listing the projects, and a query over all.     *)

GetProjects(h) ==
  /\ Begins(h, [Idle EXCEPT !.pc = "visit", !.call = "list", !.cursor = Begin, !.before = Known])
  /\ UNCHANGED <<folder, memory, startup, history, restarts>>

GetDatasetFromAllProjects(h, s) ==
  /\ Begins(h, [Idle EXCEPT !.pc = "visit", !.call = "query", !.service = s, !.cursor = Begin,
                            !.before = Known])
  /\ UNCHANGED <<folder, memory, startup, history, restarts>>

\* Wrong: the iterator is a position, not a node.
WrongVisit(h) ==
  /\ At(h, "visit") /\ handler[h].cursor # None
  /\ LET u == handler[h].cursor
         i == Len(handler[h].seen) + 2
     IN Set(h, [handler[h] EXCEPT
                  !.cursor = IF i <= Len(projects) THEN projects[i] ELSE None,
                  !.seen = Append(@, u)])
  /\ UNCHANGED <<folder, memory, startup, history, calls, restarts>>

Visit(h) ==
  /\ At(h, "visit") /\ handler[h].cursor # None
  /\ LET u == handler[h].cursor
     IN Set(h, [handler[h] EXCEPT
                  !.cursor = After(u),
                  !.seen = Append(@, u),
                  !.found = IF handler[h].call = "query"
                            THEN @ \cup ({u} \X indexed[u]) ELSE @])
  /\ UNCHANGED <<folder, memory, startup, history, calls, restarts>>

EndVisit(h) ==
  /\ At(h, "visit") /\ handler[h].cursor = None
  /\ \/ /\ handler[h].call = "list"
        /\ told' = told \cup InSeq(handler[h].seen)
        /\ Set(h, Idle)
     \/ /\ handler[h].call = "query"
        /\ Goto(h, "next")
        /\ UNCHANGED told
  /\ UNCHANGED <<folder, memory, startup, drawn, created, cut, kept, calls, restarts>>

\* A query for one project: findProject throws when there is none, and the answer is
\* the error.
GetDatasetFromSpecificProjects(h, s, u) ==
  /\ IF u \in Known
     THEN Begins(h, [Idle EXCEPT !.pc = "next", !.call = "query", !.service = s,
                                 !.found = {u} \X indexed[u]])
     ELSE Begins(h, Idle)
  /\ UNCHANGED <<folder, memory, startup, history, restarts>>

-----------------------------------------------------------------------------
(* Finding the accessor of a project: getHdf5.                             *)

Upload(h, s, u, d) ==
  /\ Begins(h, [Idle EXCEPT !.pc = "find", !.call = "upload", !.service = s, !.target = u,
                            !.data = d])
  /\ UNCHANGED <<folder, memory, startup, history, restarts>>

\* The loop over the result of a query.
NextDataset(h) ==
  /\ At(h, "next")
  /\ IF handler[h].found = {} THEN Set(h, Idle)
     ELSE \E f \in handler[h].found :
            Set(h, [handler[h] EXCEPT !.pc = "find", !.target = f[1], !.data = f[2],
                                      !.found = @ \ {f}])
  /\ UNCHANGED <<folder, memory, startup, history, calls, restarts>>

FindAccessor(h) ==
  /\ At(h, "find")
  /\ Goto(h, IF accessors[handler[h].service][handler[h].target] # None THEN "lock" ELSE "askFile")
  /\ UNCHANGED <<folder, memory, startup, history, calls, restarts>>

WrongGetHdf5File(h) ==
  /\ At(h, "askFile")
  /\ Set(h, [handler[h] EXCEPT !.pc = "askMutex", !.file = Begin])
  /\ UNCHANGED <<folder, memory, startup, history, calls, restarts>>

GetHdf5File(h) ==
  /\ At(h, "askFile")
  /\ Set(h, [handler[h] EXCEPT !.pc = "askMutex", !.file = Hdf5Of(handler[h].target)])
  /\ UNCHANGED <<folder, memory, startup, history, calls, restarts>>

\* insert leaves an accessor alone that another handler has put there in between.
GetHdf5FileMutex(h) ==
  /\ At(h, "askMutex")
  /\ LET s == handler[h].service
         u == handler[h].target
     IN accessors' = IF accessors[s][u] # None THEN accessors
                     ELSE [accessors EXCEPT ![s][u] = Accessor(handler[h].file, Hdf5Of(u))]
  /\ Goto(h, "lock")
  /\ UNCHANGED <<folder, projects, info, indexed, mutex, startup, history, calls, restarts>>

-----------------------------------------------------------------------------
(* Using the accessor.                                                     *)

AccessorOf(h) == accessors[handler[h].service][handler[h].target]

WrongLock(h) ==
  /\ At(h, "lock") /\ AccessorOf(h).mutex # None
  /\ mutex' = [mutex EXCEPT ![AccessorOf(h).mutex] = h]
  /\ Goto(h, "use")
  /\ UNCHANGED <<folder, projects, info, indexed, accessors, startup, history, calls, restarts>>

Lock(h) ==
  /\ At(h, "lock") /\ AccessorOf(h).mutex # None
  /\ mutex[AccessorOf(h).mutex] = None
  /\ mutex' = [mutex EXCEPT ![AccessorOf(h).mutex] = h]
  /\ Goto(h, "use")
  /\ UNCHANGED <<folder, projects, info, indexed, accessors, startup, history, calls, restarts>>

\* The null pointer is dereferenced, whatever the call wanted.
LockNothing(h) ==
  /\ At(h, "lock") /\ AccessorOf(h).mutex = None
  /\ phase' = "down"
  /\ UNCHANGED <<folder, memory, handler, unread, made, history, calls, restarts>>

\* The file is read or written and the lock goes out of scope.
UseFile(h) ==
  /\ At(h, "use")
  /\ mutex' = [mutex EXCEPT ![AccessorOf(h).mutex] = None]
  /\ \/ /\ handler[h].call = "upload"
        /\ stored' = [stored EXCEPT ![AccessorOf(h).file] = @ \cup {handler[h].data}]
        /\ Goto(h, "addDataset")
     \/ /\ handler[h].call = "query"
        /\ Goto(h, "next")
        /\ UNCHANGED stored
  /\ UNCHANGED <<files, named, framed, projects, info, indexed, accessors, startup, history,
                 calls, restarts>>

\* Core::addDataset finds the project, since its file was found, and the call is
\* answered.
AddDataset(h) ==
  /\ At(h, "addDataset") /\ handler[h].target \in Known
  /\ indexed' = [indexed EXCEPT ![handler[h].target] = @ \cup {handler[h].data}]
  /\ kept' = kept \cup {<<handler[h].target, handler[h].data>>}
  /\ Set(h, Idle)
  /\ UNCHANGED <<folder, projects, info, accessors, mutex, startup, drawn, created, told, cut,
                 calls, restarts>>

AccessStep(h) ==
  \/ NextDataset(h) \/ FindAccessor(h) \/ GetHdf5File(h) \/ GetHdf5FileMutex(h) \/ Lock(h)
  \/ LockNothing(h) \/ UseFile(h) \/ AddDataset(h)

-----------------------------------------------------------------------------
(* A stop at any time, and the startup.                                    *)

\* SIGINT ends the process, or it has ended itself; it is started again.
Restart ==
  /\ restarts < MaxRestarts
  /\ restarts' = restarts + 1
  /\ cut' = cut \cup {handler[h].target : h \in {h \in Handlers : handler[h].call = "create"}}
  /\ phase' = "load"
  /\ unread' = files \cup Foreign
  /\ made' = 0
  /\ projects' = <<>>
  /\ info' = [u \in Uuids |-> [name |-> FALSE, frame |-> FALSE]]
  /\ indexed' = [u \in Uuids |-> {}]
  /\ accessors' = [s \in Service |-> [u \in Targets |-> None]]
  /\ mutex' = [u \in Uuids |-> None]
  /\ handler' = [h \in Handlers |-> Idle]
  /\ UNCHANGED <<folder, drawn, created, told, kept, calls>>

\* An attribute that is missing reads as the empty text.
ReadProjectname(f) == f \in named
ReadProjectFrameId(f) == f \in framed

\* recreateProjects: what is not named after a uuid is skipped with a line in the log.
WrongRecreateProject ==
  /\ phase = "load"
  /\ \E f \in unread :
       /\ unread' = unread \ {f}
       /\ IF f \in Foreign THEN UNCHANGED <<projects, info, indexed>>
          ELSE /\ projects' \in Inserted(f)
               /\ indexed' = [indexed EXCEPT ![f] = stored[f]]
               /\ UNCHANGED info
  /\ UNCHANGED <<folder, phase, made, accessors, mutex, handler, history, calls, restarts>>

RecreateProject ==
  /\ phase = "load"
  /\ \E f \in unread :
       /\ unread' = unread \ {f}
       /\ IF f \in Foreign THEN UNCHANGED <<projects, info, indexed>>
          ELSE /\ projects' \in Inserted(f)
               /\ info' = [info EXCEPT ![f] = [name |-> ReadProjectname(f), frame |-> ReadProjectFrameId(f)]]
               /\ indexed' = [indexed EXCEPT ![f] = stored[f]]
  /\ UNCHANGED <<folder, phase, made, accessors, mutex, handler, history, calls, restarts>>

EndLoading ==
  /\ phase = "load" /\ unread = {}
  /\ phase' = "services"
  /\ UNCHANGED <<folder, memory, handler, unread, made, history, calls, restarts>>

AllFileAccessors == [u \in Targets |-> IF u \in Known THEN Accessor(u, u) ELSE None]

\* A service is made with an accessor for each project there is.
MakeService ==
  /\ phase = "services" /\ made < Len(Services)
  /\ made' = made + 1
  /\ accessors' = [accessors EXCEPT ![Services[made + 1]] = AllFileAccessors]
  /\ UNCHANGED <<folder, phase, unread, projects, info, indexed, mutex, handler, history, calls,
                 restarts>>

BuildAndStart ==
  /\ phase = "services" /\ made = Len(Services)
  /\ phase' = "serve"
  /\ UNCHANGED <<folder, memory, handler, unread, made, history, calls, restarts>>

StartupStep == RecreateProject \/ EndLoading \/ MakeService \/ BuildAndStart

-----------------------------------------------------------------------------

\* A client sends what an answer told it, or something else.
Next ==
  \/ \E h \in Handlers :
       \/ CreateProject(h)
       \/ GetProjects(h)
       \/ \E s \in Service :
            \/ GetDatasetFromAllProjects(h, s)
            \/ \E u \in told \cup {Unknown} :
                 \/ GetDatasetFromSpecificProjects(h, s, u)
                 \/ \E d \in Data : Upload(h, s, u, d)
       \/ CreationStep(h)
       \/ Visit(h)
       \/ EndVisit(h)
       \/ AccessStep(h)
  \/ Restart
  \/ StartupStep

Spec == Init /\ [][Next]_vars

-----------------------------------------------------------------------------
(* Properties.                                                             *)

Locals ==
  [pc : {"idle", "createFile", "writeName", "writeFrame", "insert", "visit", "next", "find",
         "askFile", "askMutex", "lock", "use", "addDataset"},
   call : {"create", "list", "query", "upload", None}, service : Service \cup {None},
   target : Targets \cup {None}, data : Data \cup {None}, cursor : Uuids \cup {None},
   seen : Seq(Uuids), found : SUBSET (Uuids \X Data), file : Uuids \cup {None},
   before : SUBSET Uuids, rehashed : BOOLEAN]

TypeOK ==
  /\ files \subseteq Uuids /\ named \subseteq Uuids /\ framed \subseteq Uuids
  /\ stored \in [Uuids -> SUBSET Data] /\ indexed \in [Uuids -> SUBSET Data]
  /\ phase \in {"load", "services", "serve", "down"}
  /\ unread \subseteq Uuids \cup Foreign /\ made \in 0..Len(Services)
  /\ projects \in Seq(Uuids)
  /\ info \in [Uuids -> [name : BOOLEAN, frame : BOOLEAN]]
  /\ accessors \in [Service -> [Targets ->
       [file : Uuids \cup {None}, mutex : Uuids \cup {None}] \cup {None}]]
  /\ mutex \in [Uuids -> Handlers \cup {None}]
  /\ handler \in [Handlers -> Locals]
  /\ drawn \subseteq Uuids /\ created \subseteq Uuids /\ told \subseteq Uuids /\ cut \subseteq Uuids
  /\ kept \subseteq Uuids \X Data

Creating == {handler[h].target : h \in {h \in Handlers : handler[h].call = "create"}}

\* A project whose creation was answered is served under its name and in its frame,
\* and again after every restart.  A file in the folder is served too, unless its
\* creation is under way or has failed, and only one whose creation failed or was
\* stopped half way comes back without a name or without a frame.
CreatedServed ==
  /\ \A u \in files \ named : u \notin framed
  /\ phase = "serve" =>
       /\ created \subseteq Known
       /\ files \subseteq Known \cup Creating \cup cut
       /\ \A u \in Known : info[u] = [name |-> TRUE, frame |-> TRUE] \/ u \in cut \ created

\* What the iterator has still to pass.
Ahead(h) == {projects[j] : j \in {j \in DOMAIN projects :
  \E i \in 1..j : projects[i] = handler[h].cursor}}

\* The iteration of GetProjects and of a query over all projects has passed or has
\* still to pass every project there was when it began, none of them twice, while
\* other handlers insert into the map; as long as the map is not rehashed meanwhile.
IterationComplete ==
  \A h \in Handlers : At(h, "visit") /\ ~handler[h].rehashed =>
    /\ handler[h].before \subseteq InSeq(handler[h].seen) \cup Ahead(h)
    /\ InSeq(handler[h].seen) \cap Ahead(h) = {}
    /\ Cardinality(InSeq(handler[h].seen)) = Len(handler[h].seen)

\* All services that have found an accessor for a project use one mutex, the one of
\* the project, and only for a project Core does not have it is made of null pointers:
\* whichever way two handlers of any service came to it, they are never in one file at
\* the same time.
OneUserPerFile ==
  /\ \A s \in Service : \A u \in Targets : accessors[s][u] # None =>
       accessors[s][u] = IF u \in Known THEN Accessor(u, u) ELSE Accessor(None, None)
  /\ \A g, h \in Handlers : At(g, "use") /\ At(h, "use") /\ g # h =>
       AccessorOf(g).file # AccessorOf(h).file

\* What was answered with success is in the file of the project it was sent to, and
\* in its index whenever the server serves, however the accessor was found and
\* whatever restarts came between; the index names nothing the file does not have, and
\* a dataset that was written to a file has a project to be indexed in.
KeptServed ==
  /\ \A k \in kept : k[2] \in stored[k[1]]
  /\ phase = "serve" => \A k \in kept : k[2] \in indexed[k[1]]
  /\ \A u \in Uuids : indexed[u] \subseteq stored[u]
  /\ \A h \in Handlers : At(h, "addDataset") => handler[h].target \in Known

\* The comment at getHdf5 says of what it does next: "this throws an exeption if core
\* has no project with the uuid".  Then no accessor would be kept for such a uuid.
NoAccessorWithoutProject ==
  \A s \in Service : \A u \in Targets : accessors[s][u] # None => u \in Known

=============================================================================
