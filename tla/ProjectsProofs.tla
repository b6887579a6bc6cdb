--------------------------- MODULE ProjectsProofs ---------------------------
(***************************************************************************)
(* Proofs about Projects: what is answered stays served, and whoever finds *)
(* the accessor of a project, and how, finds the mutex of its file.  Both  *)
(* follow from one invariant, for any number of handlers, services,        *)
(* projects and restarts.  A second one, on top of it, says that an        *)
(* iteration over the map passes every project once while others insert.   *)
(***************************************************************************)
EXTENDS Projects, FiniteSetTheorems, FunctionTheorems, SequenceTheorems, TLAPS

-----------------------------------------------------------------------------
(* The invariant.                                                          *)

\* What a service may keep for a project.
AccessorFor(u) == IF u \in Known THEN Accessor(u, u) ELSE Accessor(None, None)

Whole == [name |-> TRUE, frame |-> TRUE]

\* Each step of a creation has what the one before it wrote.  Who looks for an accessor
\* looks for that of a project there is, or of the one there never is, so that what Core
\* said of it is still true when the accessor is made.
Local(h) ==
  LET r == handler[h]
  IN /\ r.pc \in {"createFile", "writeName", "writeFrame", "insert"} <=> r.call = "create"
     /\ r.call = "create" => r.target \in Uuids
     /\ r.pc \in {"writeName", "writeFrame", "insert"} => r.target \in files
     /\ r.pc \in {"writeFrame", "insert"} => r.target \in named
     /\ r.pc = "insert" => r.target \in framed
     /\ r.cursor \in Known \cup {None} /\ InSeq(r.seen) \subseteq Known
     /\ r.found \subseteq Known \X Data
     /\ r.pc \in {"visit", "next"} /\ r.call = "query" => r.service \in Service
     /\ r.pc = "next" => r.call = "query"
     /\ r.pc \in {"find", "askFile", "askMutex", "lock", "use", "addDataset"} =>
          /\ r.service \in Service /\ r.target \in Known \cup {Unknown}
          /\ r.call \in {"query", "upload"} /\ (r.call = "upload" => r.data \in Data)
     /\ r.pc = "askMutex" => r.file = Hdf5Of(r.target)
     /\ r.pc \in {"lock", "use"} => accessors[r.service][r.target] = AccessorFor(r.target)
     /\ r.pc = "use" => r.target \in Known /\ mutex[r.target] = h
     /\ r.pc = "addDataset" =>
          r.call = "upload" /\ r.target \in Known /\ r.data \in stored[r.target]

FolderInv ==
  /\ framed \subseteq named /\ named \subseteq files
  /\ Known \subseteq files /\ told \subseteq files /\ created \subseteq framed
  /\ files \subseteq framed \cup cut \cup Creating
  /\ \A k \in kept : k[1] \in files /\ k[2] \in stored[k[1]]
  /\ \A u \in Uuids : indexed[u] \subseteq stored[u]

MemoryInv ==
  /\ \A k \in kept : k[1] \in Known => k[2] \in indexed[k[1]]
  /\ phase # "load" =>
       /\ told \subseteq Known /\ created \subseteq Known
       /\ files \subseteq Known \cup Creating \cup cut
       /\ \A k \in kept : k[1] \in Known
       /\ \A u \in Known : info[u] = Whole \/ u \in cut \ created

StartupInv ==
  /\ phase \in {"load", "services"} => \A h \in Handlers : handler[h] = Idle
  /\ phase = "load" =>
       /\ unread \subseteq files \cup Foreign /\ files \subseteq Known \cup unread
       /\ \A u \in Known : info[u] = [name |-> u \in named, frame |-> u \in framed]
       /\ \A s \in Service : \A u \in Targets : accessors[s][u] = None

AccessorsInv ==
  \A s \in Service : \A u \in Targets : accessors[s][u] # None =>
    u \in Known \cup {Unknown} /\ accessors[s][u] = AccessorFor(u)

IInv ==
  /\ TypeOK /\ FolderInv /\ MemoryInv /\ StartupInv /\ AccessorsInv
  /\ \A h \in Handlers : Local(h)

-----------------------------------------------------------------------------
(* Lemmas.                                                                 *)

LEMMA SetHandler ==
  ASSUME TypeOK, NEW h \in Handlers, NEW l \in Locals, Set(h, l)
  PROVE  /\ handler' \in [Handlers -> Locals]
         /\ handler'[h] = l
         /\ \A g \in Handlers : g # h => handler'[g] = handler[g]
BY DEF TypeOK, Set

LEMMA IdleIsLocal == Idle \in Locals /\ Idle.pc = "idle" /\ Idle.call = None /\ Idle.seen = <<>>
                       /\ Idle.found = {} /\ Idle.cursor = None
BY DEF Idle, Locals

LEMMA KnownIsUuid ==
  ASSUME TypeOK
  PROVE  Known \subseteq Uuids /\ Unknown \notin Known /\ None \notin Known
BY ConstantsAssumption DEF TypeOK, Known, InSeq, Targets

LEMMA InSeqConcat ==
  ASSUME NEW s \in Seq(Uuids), NEW t \in Seq(Uuids)
  PROVE  s \o t \in Seq(Uuids) /\ InSeq(s \o t) = InSeq(s) \cup InSeq(t)
<1>1. \A v : InSeq(v) = Range(v)
  BY DEF InSeq, Range
<1> QED BY <1>1, ConcatProperties, RangeConcatenation

LEMMA InSeqSingle == \A u \in Uuids : <<u>> \in Seq(Uuids) /\ InSeq(<<u>>) = {u}
BY DEF InSeq

\* A new project comes somewhere into the list.
LEMMA InsertedSeq ==
  ASSUME projects \in Seq(Uuids), NEW u \in Uuids, NEW p \in Inserted(u)
  PROVE  p \in Seq(Uuids) /\ InSeq(p) = Known \cup {u}
<1>1. CASE u \in Known
  BY <1>1 DEF Inserted, Known
<1>2. CASE u \notin Known /\ Len(projects) < Buckets
  <2>1. PICK i \in 0 .. Len(projects) :
          p = SubSeq(projects, 1, i) \o <<u>> \o SubSeq(projects, i + 1, Len(projects))
    BY <1>2 DEF Inserted
  <2> DEFINE a == SubSeq(projects, 1, i)
             b == SubSeq(projects, i + 1, Len(projects))
  <2>2. a \in Seq(Uuids) /\ b \in Seq(Uuids)
    OBVIOUS
  <2>3. a \o b = projects
    <3>1. /\ 1 \in 1 .. Len(projects) + 1 /\ i \in 1 - 1 .. Len(projects)
          /\ Len(projects) \in i .. Len(projects)
      OBVIOUS
    <3>2. a \o b = SubSeq(projects, 1, Len(projects))
      BY <3>1, ConcatAdjacentSubSeq
    <3> QED BY <3>2, SubSeqFull
  <2>4. InSeq(a) \cup InSeq(b) = Known
    BY <2>2, <2>3, InSeqConcat DEF Known
  <2> HIDE DEF a, b
  <2>5. a \o <<u>> \in Seq(Uuids) /\ InSeq(a \o <<u>>) = InSeq(a) \cup {u}
    <3>1. <<u>> \in Seq(Uuids) /\ InSeq(<<u>>) = {u}
      BY InSeqSingle
    <3>2. PICK t : t = <<u>>
      OBVIOUS
    <3>3. a \o t \in Seq(Uuids) /\ InSeq(a \o t) = InSeq(a) \cup InSeq(t)
      BY <2>2, <3>1, <3>2, InSeqConcat
    <3> QED BY <3>1, <3>2, <3>3
  <2> DEFINE c == a \o <<u>>
  <2> HIDE DEF c
  <2>6. c \in Seq(Uuids) /\ InSeq(c) = InSeq(a) \cup {u} /\ p = c \o b
    BY <2>1, <2>5 DEF a, b, c
  <2> QED BY <2>2, <2>4, <2>6, InSeqConcat
<1>3. CASE u \notin Known /\ ~(Len(projects) < Buckets)
  <2>1. p \in [1 .. Len(projects) + 1 -> Known \cup {u}] /\ InSeq(p) = Known \cup {u}
    BY <1>3 DEF Inserted
  <2>2. Known \cup {u} \subseteq Uuids
    BY DEF Known, InSeq
  <2>3. p \in [1 .. Len(projects) + 1 -> Uuids]
    BY <2>1, <2>2
  <2>4. Len(projects) + 1 \in Nat
    OBVIOUS
  <2>5. p \in Seq(Uuids)
    BY <2>3, <2>4, SeqDef, Zenon
  <2> QED BY <2>1, <2>5
<1> QED BY <1>1, <1>2, <1>3

\* The iterator moves on to another node of the list, or to its end.
LEMMA AfterKnown ==
  ASSUME TypeOK, NEW u \in Known
  PROVE  After(u) \in Known \cup {None}
<1> DEFINE i == CHOOSE i \in DOMAIN projects : projects[i] = u
<1>1. i \in DOMAIN projects
  BY DEF Known, InSeq
<1>2. i \in 1 .. Len(projects)
  BY <1>1 DEF TypeOK
<1>3. i < Len(projects) => i + 1 \in DOMAIN projects
  BY <1>2 DEF TypeOK
<1> HIDE DEF i
<1>4. i < Len(projects) => projects[i + 1] \in Known
  BY <1>3 DEF Known, InSeq
<1>5. After(u) = IF i < Len(projects) THEN projects[i + 1] ELSE None
  BY DEF After, i
<1> QED BY <1>4, <1>5

LEMMA BeginKnown ==
  ASSUME TypeOK
  PROVE  Begin \in Known \cup {None}
<1>1. projects # <<>> => 1 \in DOMAIN projects
  BY DEF TypeOK
<1> QED BY <1>1 DEF Begin, Known, InSeq

\* What a step of another handler leaves of what a handler knows.
LEMMA OthersLocal ==
  ASSUME TypeOK, NEW h \in Handlers, Local(h), NEW r, NEW q, handler[h] = r, handler'[h] = q,
         q = r \/ q = [r EXCEPT !.rehashed = TRUE],
         Known \subseteq Known', Unknown \notin Known', Unknown \notin Known,
         files \subseteq files', named \subseteq named', framed \subseteq framed',
         \A u \in Uuids : stored[u] \subseteq stored'[u],
         \A s \in Service : \A u \in Targets :
           accessors[s][u] = AccessorFor(u) /\ u \in Known \cup {Unknown} =>
             accessors'[s][u] = accessors[s][u],
         \A u \in Uuids : mutex[u] = h => mutex'[u] = h
  PROVE  Local(h)'
<1>0. r \in Locals /\ Known \subseteq Uuids
  BY KnownIsUuid DEF TypeOK
<1>1. \A u \in Known \cup {Unknown} : AccessorFor(u)' = AccessorFor(u) /\ Hdf5Of(u)' = Hdf5Of(u)
  BY DEF AccessorFor, Hdf5Of, Accessor
<1>2. /\ q.pc = r.pc /\ q.call = r.call /\ q.service = r.service /\ q.target = r.target
      /\ q.data = r.data /\ q.cursor = r.cursor /\ q.seen = r.seen /\ q.found = r.found
      /\ q.file = r.file
  BY <1>0 DEF Locals
<1>3. /\ r.pc \in {"createFile", "writeName", "writeFrame", "insert"} <=> r.call = "create"
      /\ r.call = "create" => r.target \in Uuids
      /\ r.pc \in {"writeName", "writeFrame", "insert"} => r.target \in files'
      /\ r.pc \in {"writeFrame", "insert"} => r.target \in named'
      /\ r.pc = "insert" => r.target \in framed'
      /\ r.cursor \in Known' \cup {None} /\ InSeq(r.seen) \subseteq Known'
      /\ r.found \subseteq Known' \X Data
      /\ r.pc \in {"visit", "next"} /\ r.call = "query" => r.service \in Service
      /\ r.pc = "next" => r.call = "query"
      /\ r.pc \in {"find", "askFile", "askMutex", "lock", "use", "addDataset"} =>
           /\ r.service \in Service /\ r.target \in Known' \cup {Unknown}
           /\ r.call \in {"query", "upload"} /\ (r.call = "upload" => r.data \in Data)
  BY DEF Local
<1>4. r.pc = "askMutex" => r.file = Hdf5Of(r.target)'
  BY <1>1 DEF Local
<1>5. r.pc \in {"lock", "use"} => accessors'[r.service][r.target] = AccessorFor(r.target)'
  BY <1>1, <1>0 DEF Local, Targets
<1>6. r.pc = "use" => r.target \in Known' /\ mutex'[r.target] = h
  BY <1>0 DEF Local
<1>7. r.pc = "addDataset" =>
        r.call = "upload" /\ r.target \in Known' /\ r.data \in stored'[r.target]
  BY <1>0 DEF Local
<1> HIDE DEF AccessorFor, Hdf5Of
<1> QED
  BY <1>2, <1>3, <1>4, <1>5, <1>6, <1>7 DEF Local

\* A step of one handler.
LEMMA OthersKeep ==
  ASSUME IInv, NEW h \in Handlers, NEW l \in Locals, Set(h, l), TypeOK',
         Known \subseteq Known',
         files \subseteq files', named \subseteq named', framed \subseteq framed',
         \A u \in Uuids : stored[u] \subseteq stored'[u],
         \A s \in Service : \A u \in Targets :
           accessors[s][u] = AccessorFor(u) /\ u \in Known \cup {Unknown} =>
             accessors'[s][u] = accessors[s][u],
         \A u \in Uuids : \A g \in Handlers \ {h} : mutex[u] = g => mutex'[u] = g
  PROVE  \A g \in Handlers \ {h} : Local(g)'
<1>1. TypeOK /\ (\A g \in Handlers : Local(g))
  BY DEF IInv
<1>2. Unknown \notin Known /\ Unknown \notin Known'
  <2>1. Known' \subseteq Uuids
    BY DEF TypeOK, Known, InSeq
  <2> QED BY <1>1, <2>1, KnownIsUuid, ConstantsAssumption
<1>3. ASSUME NEW g \in Handlers \ {h} PROVE handler'[g] = handler[g] /\ Local(g)
  BY <1>1, <1>3, SetHandler
<1> QED BY <1>1, <1>2, <1>3, OthersLocal

-----------------------------------------------------------------------------
(* Creating a project.                                                     *)

\* Steps that change what one handler does, and of the rest of the state only history
\* that no other part speaks of.
LEMMA HandlerStep ==
  ASSUME IInv, NEW h \in Handlers, NEW l \in Locals, Set(h, l),
         phase \notin {"load", "services"},
         UNCHANGED <<folder, memory, startup, created, cut, kept>>,
         told' \subseteq Known, drawn' \subseteq Uuids,
         handler[h].call = "create" => l.call = "create" /\ l.target = handler[h].target,
         Local(h)'
  PROVE  IInv'
<1> USE DEF folder, memory, startup
<1>1. TypeOK /\ (\A g \in Handlers : Local(g))
  BY DEF IInv
<1>2. /\ handler' \in [Handlers -> Locals] /\ handler'[h] = l
      /\ \A g \in Handlers : g # h => handler'[g] = handler[g]
  BY <1>1, SetHandler
<1>3. TypeOK'
  BY <1>1, <1>2, KnownIsUuid DEF TypeOK
<1>4. Known' = Known /\ Known \subseteq files
  BY DEF Known, IInv, FolderInv
<1>5. \A u \in files : u \in Creating => u \in Creating'
  BY <1>2 DEF Creating
<1>6. FolderInv'
  BY <1>4, <1>5 DEF IInv, FolderInv
<1>7. MemoryInv'
  BY <1>4, <1>5 DEF IInv, FolderInv, MemoryInv
<1>8. StartupInv'
  BY DEF StartupInv
<1>9. AccessorsInv'
  BY <1>4 DEF IInv, AccessorsInv, AccessorFor
<1>10. \A g \in Handlers \ {h} : Local(g)'
  BY <1>3, <1>4, OthersKeep
<1> QED BY <1>3, <1>6, <1>7, <1>8, <1>9, <1>10 DEF IInv

\* A step within a call: what it changes of the locals of its handler.
LEMMA WithinCall ==
  ASSUME IInv, NEW h \in Handlers, NEW l \in Locals, Set(h, l), phase = "serve",
         l.call = handler[h].call, l.target = handler[h].target \/ l.call # "create",
         UNCHANGED <<folder, memory, startup, history>>, Local(h)'
  PROVE  IInv'
<1>1. told' \subseteq Known /\ drawn' \subseteq Uuids
  BY DEF IInv, MemoryInv, TypeOK, history
<1> QED BY <1>1, HandlerStep DEF history

LEMMA BeginCall ==
  ASSUME IInv, NEW h \in Handlers, NEW l \in Locals, Begins(h, l),
         UNCHANGED <<folder, memory, startup, created, told, cut, kept>>,
         drawn' \subseteq Uuids, Local(h)'
  PROVE  IInv'
<1>1. phase = "serve" /\ Set(h, l) /\ handler[h].pc = "idle"
  BY DEF Begins, At
<1>2. told' \subseteq Known
  BY <1>1 DEF IInv, MemoryInv
<1>3. handler[h].call # "create"
  BY <1>1 DEF IInv, Local
<1> QED BY <1>1, <1>2, <1>3, HandlerStep

\* Calls that begin.
LEMMA CreateProjectKeeps ==
  ASSUME IInv, NEW h \in Handlers, CreateProject(h)
  PROVE  IInv'
<1>1. PICK u \in Uuids \ drawn :
        /\ Begins(h, [Idle EXCEPT !.pc = "createFile", !.call = "create", !.target = u])
        /\ drawn' = drawn \cup {u}
        /\ UNCHANGED <<folder, memory, startup, created, told, cut, kept, restarts>>
  BY DEF CreateProject
<1> DEFINE l == [Idle EXCEPT !.pc = "createFile", !.call = "create", !.target = u]
<1>2. l \in Locals /\ l.pc = "createFile" /\ l.call = "create" /\ l.target = u
      /\ l.cursor = None /\ l.seen = <<>> /\ l.found = {}
  BY IdleIsLocal DEF Locals, Targets
<1> HIDE DEF l
<1>3. Begins(h, l)
  BY <1>1 DEF l
<1>4. handler'[h] = l
  BY <1>2, <1>3, SetHandler DEF Begins, IInv
<1>5. Local(h)'
  BY <1>2, <1>4 DEF Local, InSeq
<1>6. drawn' \subseteq Uuids
  BY <1>1 DEF IInv, TypeOK
<1> QED BY <1>1, <1>2, <1>3, <1>5, <1>6, BeginCall

LEMMA GetProjectsKeeps ==
  ASSUME IInv, NEW h \in Handlers, GetProjects(h)
  PROVE  IInv'
<1> DEFINE l == [Idle EXCEPT !.pc = "visit", !.call = "list", !.cursor = Begin, !.before = Known]
<1>1. Begin \in Known \cup {None} /\ Known \subseteq Uuids
  BY BeginKnown, KnownIsUuid DEF IInv
<1>2. l \in Locals /\ l.pc = "visit" /\ l.call = "list"
      /\ l.cursor = Begin /\ l.seen = <<>> /\ l.found = {}
  BY <1>1, IdleIsLocal DEF Locals
<1> HIDE DEF l
<1>3. Begins(h, l) /\ UNCHANGED <<folder, memory, startup, history, restarts>>
  BY DEF GetProjects, l
<1>4. handler'[h] = l /\ Known' = Known
  BY <1>2, <1>3, SetHandler DEF Begins, IInv, Known, memory
<1>5. Local(h)'
  BY <1>1, <1>2, <1>4 DEF Local, InSeq
<1>6. drawn' \subseteq Uuids
  BY <1>3 DEF IInv, TypeOK, history
<1> QED BY <1>2, <1>3, <1>5, <1>6, BeginCall DEF history

LEMMA GetDatasetFromAllProjectsKeeps ==
  ASSUME IInv, NEW h \in Handlers, NEW s \in Service, GetDatasetFromAllProjects(h, s)
  PROVE  IInv'
<1> DEFINE l == [Idle EXCEPT !.pc = "visit", !.call = "query", !.service = s, !.cursor = Begin,
                             !.before = Known]
<1>1. Begin \in Known \cup {None} /\ Known \subseteq Uuids
  BY BeginKnown, KnownIsUuid DEF IInv
<1>2. l \in Locals /\ l.pc = "visit" /\ l.call = "query" /\ l.service = s
      /\ l.cursor = Begin /\ l.seen = <<>> /\ l.found = {}
  BY <1>1, IdleIsLocal DEF Locals
<1> HIDE DEF l
<1>3. Begins(h, l) /\ UNCHANGED <<folder, memory, startup, history, restarts>>
  BY DEF GetDatasetFromAllProjects, l
<1>4. handler'[h] = l /\ Known' = Known
  BY <1>2, <1>3, SetHandler DEF Begins, IInv, Known, memory
<1>5. Local(h)'
  BY <1>1, <1>2, <1>4 DEF Local, InSeq
<1>6. drawn' \subseteq Uuids
  BY <1>3 DEF IInv, TypeOK, history
<1> QED BY <1>2, <1>3, <1>5, <1>6, BeginCall DEF history

LEMMA GetDatasetFromSpecificProjectsKeeps ==
  ASSUME IInv, NEW h \in Handlers, NEW s \in Service, NEW u,
         GetDatasetFromSpecificProjects(h, s, u)
  PROVE  IInv'
<1> DEFINE l == IF u \in Known
                THEN [Idle EXCEPT !.pc = "next", !.call = "query", !.service = s,
                                  !.found = {u} \X indexed[u]]
                ELSE Idle
<1>1. Known \subseteq Uuids /\ (u \in Known => {u} \X indexed[u] \subseteq Known \X Data)
  BY KnownIsUuid DEF IInv, TypeOK
<1>2. /\ l \in Locals /\ l.pc \in {"next", "idle"} /\ l.call \in {"query", None}
      /\ l.pc = "next" => l.call = "query" /\ l.service = s
      /\ l.cursor = None /\ l.seen = <<>> /\ l.found \subseteq Known \X Data
      /\ l.call # "create"
  <2>1. CASE u \in Known
    <3>1. l = [Idle EXCEPT !.pc = "next", !.call = "query", !.service = s,
                           !.found = {u} \X indexed[u]]
      BY <2>1
    <3>2. {u} \X indexed[u] \in SUBSET (Uuids \X Data)
      BY <1>1, <2>1
    <3> HIDE DEF l
    <3>3. /\ l \in Locals /\ l.pc = "next" /\ l.call = "query" /\ l.service = s
          /\ l.cursor = None /\ l.seen = <<>> /\ l.found = {u} \X indexed[u]
      BY <3>1, <3>2, IdleIsLocal DEF Locals
    <3> QED BY <1>1, <2>1, <3>3
  <2>2. CASE u \notin Known
    BY <2>2, IdleIsLocal, ConstantsAssumption
  <2> QED BY <2>1, <2>2
<1> HIDE DEF l
<1>3. Begins(h, l) /\ UNCHANGED <<folder, memory, startup, history, restarts>>
  BY DEF GetDatasetFromSpecificProjects, l
<1>4. handler'[h] = l /\ Known' = Known
  BY <1>2, <1>3, SetHandler DEF Begins, IInv, Known, memory
<1>5. Local(h)'
  BY <1>1, <1>2, <1>4 DEF Local, InSeq
<1>6. drawn' \subseteq Uuids
  BY <1>3 DEF IInv, TypeOK, history
<1> QED BY <1>2, <1>3, <1>5, <1>6, BeginCall DEF history

LEMMA UploadKeeps ==
  ASSUME IInv, NEW h \in Handlers, NEW s \in Service, NEW u \in told \cup {Unknown},
         NEW d \in Data, Upload(h, s, u, d)
  PROVE  IInv'
<1> DEFINE l == [Idle EXCEPT !.pc = "find", !.call = "upload", !.service = s, !.target = u,
                             !.data = d]
<1>1. u \in Known \cup {Unknown} /\ Known \subseteq Uuids
  BY KnownIsUuid DEF IInv, MemoryInv, Upload, Begins, At
<1>2. l \in Locals /\ l.pc = "find" /\ l.call = "upload" /\ l.service = s /\ l.target = u
      /\ l.data = d /\ l.cursor = None /\ l.seen = <<>> /\ l.found = {}
  BY <1>1, IdleIsLocal DEF Locals, Targets
<1> HIDE DEF l
<1>3. Begins(h, l) /\ UNCHANGED <<folder, memory, startup, history, restarts>>
  BY DEF Upload, l
<1>4. handler'[h] = l /\ Known' = Known
  BY <1>2, <1>3, SetHandler DEF Begins, IInv, Known, memory
<1>5. Local(h)'
  BY <1>1, <1>2, <1>4 DEF Local, InSeq
<1>6. drawn' \subseteq Uuids
  BY <1>3 DEF IInv, TypeOK, history
<1> QED BY <1>2, <1>3, <1>5, <1>6, BeginCall DEF history

-----------------------------------------------------------------------------
(* Creating a project: what is in the folder only grows.                   *)

LEMMA CreationStepKeeps ==
  ASSUME IInv, NEW h \in Handlers, NEW label, Goto(h, label), phase = "serve",
         label \in {"writeName", "writeFrame", "insert"}, handler[h].call = "create",
         UNCHANGED <<stored, memory, startup, history>>,
         files' = files \cup {handler[h].target}, named \subseteq named', framed \subseteq framed',
         framed' \subseteq named', named' \subseteq files',
         label \in {"writeFrame", "insert"} => handler[h].target \in named',
         label = "insert" => handler[h].target \in framed'
  PROVE  IInv'
<1> USE DEF memory, startup, history
<1> DEFINE u == handler[h].target
           l == [handler[h] EXCEPT !.pc = label]
<1>1. TypeOK /\ Local(h) /\ handler[h] \in Locals /\ u \in Uuids
  BY DEF IInv, TypeOK, Local
<1>2. /\ l \in Locals /\ l.pc = label /\ l.call = "create" /\ l.target = u
      /\ l.cursor = handler[h].cursor /\ l.seen = handler[h].seen /\ l.found = handler[h].found
  BY <1>1 DEF Locals
<1>3. Set(h, l)
  BY DEF Goto
<1> HIDE DEF l
<1>4. /\ handler' \in [Handlers -> Locals] /\ handler'[h] = l
      /\ \A g \in Handlers : g # h => handler'[g] = handler[g]
  BY <1>1, <1>2, <1>3, SetHandler
<1>5. TypeOK'
  BY <1>1, <1>4 DEF TypeOK
<1>6. Known' = Known /\ Creating' = Creating /\ u \in Creating
  <2>1. \A g \in Handlers : handler'[g].call = "create" <=> handler[g].call = "create"
    BY <1>2, <1>4
  <2>2. \A g \in Handlers : handler'[g].target = handler[g].target
    BY <1>2, <1>4
  <2> QED BY <2>1, <2>2 DEF Known, Creating
<1>7. FolderInv' /\ MemoryInv' /\ StartupInv' /\ AccessorsInv'
  BY <1>6 DEF IInv, FolderInv, MemoryInv, StartupInv, AccessorsInv, AccessorFor
<1>8. \A g \in Handlers \ {h} : Local(g)'
  BY <1>2, <1>3, <1>5, <1>6, OthersKeep
<1>9. Local(h)'
  BY <1>1, <1>2, <1>4, <1>6 DEF Local
<1> QED BY <1>5, <1>7, <1>8, <1>9 DEF IInv

LEMMA CreatingFilesKeep ==
  ASSUME IInv, NEW h \in Handlers, CreateFile(h) \/ WriteProjectname(h) \/ WriteProjectFrameId(h)
  PROVE  IInv'
<1>1. Local(h) /\ FolderInv
  BY DEF IInv
<1>2. CASE CreateFile(h)
  <2>1. phase = "serve" /\ handler[h].call = "create"
    BY <1>1, <1>2 DEF CreateFile, At, Local
  <2> QED BY <1>1, <1>2, <2>1, CreationStepKeeps DEF CreateFile, FolderInv
<1>3. CASE WriteProjectname(h)
  <2>1. phase = "serve" /\ handler[h].call = "create" /\ handler[h].target \in files
    BY <1>1, <1>3 DEF WriteProjectname, At, Local
  <2> QED BY <1>1, <1>3, <2>1, CreationStepKeeps DEF WriteProjectname, FolderInv
<1>4. CASE WriteProjectFrameId(h)
  <2>1. /\ phase = "serve" /\ handler[h].call = "create" /\ handler[h].target \in files
        /\ handler[h].target \in named
    BY <1>1, <1>4 DEF WriteProjectFrameId, At, Local
  <2> QED BY <1>1, <1>4, <2>1, CreationStepKeeps DEF WriteProjectFrameId, FolderInv
<1> QED BY <1>2, <1>3, <1>4

LEMMA FailCreationKeeps ==
  ASSUME IInv, NEW h \in Handlers, FailCreation(h)
  PROVE  IInv'
<1> USE DEF folder, memory, startup
<1> DEFINE u == handler[h].target
<1>1. TypeOK /\ Local(h) /\ phase = "serve" /\ handler[h].call = "create" /\ u \in Uuids
  BY DEF IInv, FailCreation, At, Local
<1>2. Set(h, Idle) /\ Idle \in Locals
  BY IdleIsLocal DEF FailCreation
<1>3. /\ handler' \in [Handlers -> Locals] /\ handler'[h] = Idle
      /\ \A g \in Handlers : g # h => handler'[g] = handler[g]
  BY <1>1, <1>2, SetHandler
<1>4. TypeOK'
  BY <1>1, <1>3 DEF TypeOK, FailCreation
<1>5. Creating \subseteq Creating' \cup {u} /\ cut' = cut \cup {u}
  BY <1>3 DEF Creating, FailCreation
<1>6. Known' = Known
  BY DEF Known, FailCreation
<1>7. FolderInv' /\ MemoryInv' /\ StartupInv' /\ AccessorsInv'
  BY <1>1, <1>5, <1>6 DEF IInv, FolderInv, MemoryInv, StartupInv, AccessorsInv, AccessorFor, FailCreation
<1>8. \A g \in Handlers \ {h} : Local(g)'
  BY <1>2, <1>4, <1>6, OthersKeep DEF FailCreation
<1>9. Local(h)'
  BY <1>3, IdleIsLocal, ConstantsAssumption DEF Local, InSeq
<1> QED BY <1>4, <1>7, <1>8, <1>9 DEF IInv

LEMMA InsertProjectKeeps ==
  ASSUME IInv, NEW h \in Handlers, InsertProject(h)
  PROVE  IInv'
<1> USE DEF folder, startup
<1> DEFINE u == handler[h].target
           rehash == Len(projects) >= Buckets
<1>1. /\ TypeOK /\ Local(h) /\ phase = "serve" /\ u \in Uuids
      /\ u \in framed /\ u \in named /\ u \in files
  BY DEF IInv, InsertProject, At, Local
<1>2. projects' \in Seq(Uuids) /\ Known' = Known \cup {u}
  BY <1>1, InsertedSeq DEF InsertProject, TypeOK, Known
<1>3. Known \subseteq Uuids /\ Unknown \notin Known /\ Unknown \notin Known'
  BY <1>1, <1>2, KnownIsUuid, ConstantsAssumption DEF Targets
<1>4. /\ handler'[h] = Idle
      /\ \A g \in Handlers : g # h => handler'[g] = [handler[g] EXCEPT !.rehashed = @ \/ rehash]
  BY DEF InsertProject
<1>5. \A g \in Handlers : g # h =>
        /\ handler'[g] \in Locals
        /\ handler'[g] = handler[g] \/ handler'[g] = [handler[g] EXCEPT !.rehashed = TRUE]
  <2> SUFFICES ASSUME NEW g \in Handlers, g # h
               PROVE  /\ handler'[g] \in Locals
                      /\ \/ handler'[g] = handler[g]
                         \/ handler'[g] = [handler[g] EXCEPT !.rehashed = TRUE]
    OBVIOUS
  <2>1. handler[g] \in Locals /\ handler[g].rehashed \in BOOLEAN /\ rehash \in BOOLEAN
    BY <1>1 DEF TypeOK, Locals
  <2>2. handler'[g] = [handler[g] EXCEPT !.rehashed = handler[g].rehashed \/ rehash]
    BY <1>4
  <2> HIDE DEF rehash
  <2>3. (handler[g].rehashed \/ rehash) = TRUE \/ (handler[g].rehashed \/ rehash) = handler[g].rehashed
    BY <2>1
  <2>4. [handler[g] EXCEPT !.rehashed = handler[g].rehashed] = handler[g]
    BY <2>1 DEF Locals
  <2>5. [handler[g] EXCEPT !.rehashed = TRUE] \in Locals
    BY <2>1 DEF Locals
  <2> QED BY <2>1, <2>2, <2>3, <2>4, <2>5
<1>6. handler' \in [Handlers -> Locals]
  <2>1. handler' = [g \in Handlers |-> handler'[g]]
    BY DEF InsertProject
  <2> QED BY <1>4, <1>5, <2>1, IdleIsLocal
<1>7. info' \in [Uuids -> [name : BOOLEAN, frame : BOOLEAN]] /\ info'[u] = Whole
      /\ \A v \in Uuids : v # u => info'[v] = info[v]
  BY <1>1 DEF TypeOK, InsertProject, Whole
<1>8. TypeOK'
  BY <1>1, <1>2, <1>6, <1>7 DEF TypeOK, InsertProject
<1>9. Creating \subseteq Creating' \cup {u}
  <2>1. ASSUME NEW g \in Handlers, g # h
        PROVE  handler'[g].call = handler[g].call /\ handler'[g].target = handler[g].target
    <3>1. PICK s : s = handler[g] /\ s \in Locals
      BY <1>1 DEF TypeOK
    <3>2. handler'[g] = s \/ handler'[g] = [s EXCEPT !.rehashed = TRUE]
      BY <1>5, <2>1, <3>1
    <3> QED BY <3>1, <3>2 DEF Locals
  <2> QED BY <2>1 DEF Creating
<1>10. created' = created \cup {u} /\ told' = told \cup {u}
  BY DEF InsertProject
<1>11. FolderInv'
  BY <1>1, <1>2, <1>9, <1>10 DEF IInv, FolderInv, InsertProject
<1>12. MemoryInv'
  <2>1. MemoryInv /\ FolderInv
    BY DEF IInv
  <2>2. phase' # "load" /\ told' \subseteq Known' /\ created' \subseteq Known'
        /\ files' \subseteq Known' \cup Creating' \cup cut'
        /\ (\A k \in kept : k[1] \in Known)
    BY <1>1, <1>2, <1>9, <1>10, <2>1 DEF MemoryInv, InsertProject
  <2>3. \A v \in Known' : info'[v] = Whole \/ v \in cut' \ created'
    <3>1. ASSUME NEW v \in Known', v # u PROVE info'[v] = Whole \/ v \in cut' \ created'
      BY <1>1, <1>2, <1>3, <1>7, <1>10, <2>1, <3>1 DEF MemoryInv, InsertProject
    <3> QED BY <1>7, <3>1
  <2> QED BY <1>2, <2>1, <2>2, <2>3 DEF MemoryInv, InsertProject
<1>13. StartupInv'
  BY <1>1 DEF StartupInv, InsertProject
<1>14. AccessorsInv'
  BY <1>2, <1>3 DEF IInv, AccessorsInv, AccessorFor, InsertProject
<1>15. ASSUME NEW g \in Handlers, g # h PROVE Local(g)'
  BY <1>1, <1>2, <1>3, <1>5, <1>15, OthersLocal DEF InsertProject, IInv
<1>16. Local(h)'
  BY <1>4, IdleIsLocal, ConstantsAssumption DEF Local, InSeq
<1> QED BY <1>8, <1>11, <1>12, <1>13, <1>14, <1>15, <1>16 DEF IInv

-----------------------------------------------------------------------------
(* Iterating over the map.                                                 *)

LEMMA VisitKeeps ==
  ASSUME IInv, NEW h \in Handlers, Visit(h)
  PROVE  IInv'
<1> DEFINE u == handler[h].cursor
           r == handler[h]
           found == IF r.call = "query" THEN r.found \cup ({u} \X indexed[u]) ELSE r.found
           l == [r EXCEPT !.cursor = After(u), !.seen = Append(r.seen, u), !.found = found]
<1>1. /\ TypeOK /\ Local(h) /\ phase = "serve" /\ r \in Locals /\ r.pc = "visit" /\ u \in Known
  BY DEF IInv, Visit, At, Local, TypeOK
<1>2. Known \subseteq Uuids /\ After(u) \in Known \cup {None}
  BY <1>1, KnownIsUuid, AfterKnown
<1>3. /\ Append(r.seen, u) \in Seq(Uuids)
      /\ InSeq(Append(r.seen, u)) \subseteq Known
  <2>1. r.seen \in Seq(Uuids) /\ InSeq(r.seen) \subseteq Known
    BY <1>1 DEF Locals, Local
  <2>2. Append(r.seen, u) = r.seen \o <<u>>
    BY <1>1, <1>2, <2>1, AppendIsConcat
  <2>3. u \in Known /\ <<u>> \in Seq(Uuids) /\ InSeq(<<u>>) = {u}
    BY <1>1, <1>2, InSeqSingle
  <2> HIDE DEF u, r
  <2>4. r.seen \o <<u>> \in Seq(Uuids) /\ InSeq(r.seen \o <<u>>) = InSeq(r.seen) \cup InSeq(<<u>>)
    BY <2>1, <2>3, InSeqConcat
  <2> QED BY <2>1, <2>2, <2>3, <2>4
<1>4. found \subseteq Known \X Data
  BY <1>1, <1>2 DEF Local, TypeOK
<1> HIDE DEF found
<1>5. /\ l \in Locals /\ l.pc = "visit" /\ l.call = r.call /\ l.service = r.service
      /\ l.target = r.target /\ l.cursor = After(u) /\ l.seen = Append(r.seen, u) /\ l.found = found
  <2>1. PICK s, c, f : s = Append(r.seen, u) /\ c = After(u) /\ f = found
    OBVIOUS
  <2>2. s \in Seq(Uuids) /\ c \in Uuids \cup {None} /\ f \in SUBSET (Uuids \X Data)
    BY <1>2, <1>3, <1>4, <2>1
  <2>3. l = [r EXCEPT !.cursor = c, !.seen = s, !.found = f]
    BY <2>1
  <2>4. r \in Locals /\ r.pc = "visit"
    BY <1>1
  <2> HIDE DEF l, r, u
  <2>5. /\ l \in Locals /\ l.pc = "visit" /\ l.call = r.call /\ l.service = r.service
        /\ l.target = r.target /\ l.cursor = c /\ l.seen = s /\ l.found = f
    BY <2>2, <2>3, <2>4 DEF Locals
  <2> QED BY <2>1, <2>5
<1>6. Set(h, l) /\ UNCHANGED <<folder, memory, startup, history>>
  BY DEF Visit, found
<1> HIDE DEF l
<1>7. handler'[h] = l /\ Known' = Known
  BY <1>1, <1>5, <1>6, SetHandler DEF Known, memory
<1>8. Local(h)'
  BY <1>1, <1>2, <1>3, <1>4, <1>5, <1>7 DEF Local
<1> QED BY <1>1, <1>5, <1>6, <1>8, WithinCall

LEMMA EndVisitKeeps ==
  ASSUME IInv, NEW h \in Handlers, EndVisit(h)
  PROVE  IInv'
<1> DEFINE r == handler[h]
<1>1. /\ TypeOK /\ Local(h) /\ phase = "serve" /\ r \in Locals /\ r.pc = "visit"
      /\ told \subseteq Known /\ drawn \subseteq Uuids
  BY DEF IInv, EndVisit, At, TypeOK, MemoryInv
<1>2. InSeq(r.seen) \subseteq Known
  BY <1>1 DEF Local
<1>3. UNCHANGED <<folder, memory, startup, created, cut, kept>> /\ drawn' = drawn /\ Known' = Known
  BY DEF EndVisit, Known, memory
<1>4. CASE Set(h, Idle) /\ r.call = "list" /\ told' = told \cup InSeq(r.seen)
  <2>1. handler'[h] = Idle
    BY <1>1, <1>4, IdleIsLocal, SetHandler
  <2>2. Local(h)'
    BY <2>1, IdleIsLocal, ConstantsAssumption DEF Local, InSeq
  <2> QED BY <1>1, <1>2, <1>3, <1>4, <2>2, IdleIsLocal, HandlerStep
<1>5. CASE Goto(h, "next") /\ r.call = "query" /\ told' = told
  <2> DEFINE l == [r EXCEPT !.pc = "next"]
  <2>1. /\ l \in Locals /\ l.pc = "next" /\ l.call = "query" /\ l.service = r.service
        /\ l.cursor = r.cursor /\ l.seen = r.seen /\ l.found = r.found
    BY <1>1, <1>5 DEF Locals
  <2>2. Set(h, l)
    BY <1>5 DEF Goto
  <2> HIDE DEF l
  <2>3. handler'[h] = l
    BY <1>1, <2>1, <2>2, SetHandler
  <2>4. Local(h)'
    BY <1>1, <1>3, <1>5, <2>1, <2>3 DEF Local
  <2> QED BY <1>1, <1>3, <1>5, <2>1, <2>2, <2>4, HandlerStep
<1> QED BY <1>4, <1>5 DEF EndVisit

-----------------------------------------------------------------------------
(* Finding the accessor of a project.                                      *)

LEMMA NextDatasetKeeps ==
  ASSUME IInv, NEW h \in Handlers, NextDataset(h)
  PROVE  IInv'
<1> DEFINE r == handler[h]
<1>1. TypeOK /\ Local(h) /\ phase = "serve" /\ r \in Locals /\ r.pc = "next" /\ r.call = "query"
  BY DEF IInv, NextDataset, At, TypeOK, Local
<1>2. UNCHANGED <<folder, memory, startup, history>> /\ Known' = Known
  BY DEF NextDataset, Known, memory
<1>3. CASE Set(h, Idle)
  <2>1. handler'[h] = Idle
    BY <1>1, <1>3, IdleIsLocal, SetHandler
  <2>2. Local(h)'
    BY <2>1, IdleIsLocal, ConstantsAssumption DEF Local, InSeq
  <2>3. told' \subseteq Known /\ drawn' \subseteq Uuids
    BY <1>1, <1>2 DEF IInv, MemoryInv, TypeOK, history
  <2> QED BY <1>1, <1>2, <1>3, <2>2, <2>3, IdleIsLocal, HandlerStep DEF history
<1>4. ASSUME NEW f \in r.found,
             Set(h, [r EXCEPT !.pc = "find", !.target = f[1], !.data = f[2], !.found = r.found \ {f}])
      PROVE  IInv'
  <2> DEFINE l == [r EXCEPT !.pc = "find", !.target = f[1], !.data = f[2], !.found = r.found \ {f}]
  <2>1. r.found \subseteq Known \X Data /\ Known \subseteq Uuids
    BY <1>1, KnownIsUuid DEF Local
  <2>2. f[1] \in Known /\ f[2] \in Data
    BY <2>1
  <2>3. /\ l \in Locals /\ l.pc = "find" /\ l.call = "query" /\ l.service = r.service
        /\ l.target = f[1] /\ l.data = f[2] /\ l.cursor = r.cursor /\ l.seen = r.seen
        /\ l.found = r.found \ {f}
    BY <1>1, <2>1, <2>2 DEF Locals, Targets
  <2>4. Set(h, l)
    BY <1>4
  <2> HIDE DEF l
  <2>5. handler'[h] = l
    BY <1>1, <2>3, <2>4, SetHandler
  <2>6. Local(h)'
    BY <1>1, <1>2, <2>1, <2>2, <2>3, <2>5 DEF Local
  <2> QED BY <1>1, <1>2, <2>3, <2>4, <2>6, WithinCall
<1> QED BY <1>3, <1>4 DEF NextDataset

LEMMA FindAccessorKeeps ==
  ASSUME IInv, NEW h \in Handlers, FindAccessor(h)
  PROVE  IInv'
<1> DEFINE r == handler[h]
           label == IF accessors[r.service][r.target] # None THEN "lock" ELSE "askFile"
           l == [r EXCEPT !.pc = label]
<1>1. /\ TypeOK /\ Local(h) /\ phase = "serve" /\ r \in Locals /\ r.pc = "find"
      /\ r.service \in Service /\ r.target \in Known \cup {Unknown}
      /\ r.call \in {"query", "upload"} /\ (r.call = "upload" => r.data \in Data)
  <2>1. TypeOK /\ Local(h) /\ phase = "serve" /\ r \in Locals /\ r.pc = "find"
    BY DEF IInv, FindAccessor, At, TypeOK
  <2>2. r.pc \in {"find", "askFile", "askMutex", "lock", "use", "addDataset"}
    BY <2>1
  <2> QED BY <2>1, <2>2 DEF Local
<1>2. UNCHANGED <<folder, memory, startup, history>> /\ Known' = Known
      /\ (\A v : AccessorFor(v)' = AccessorFor(v)) /\ accessors' = accessors
  BY DEF FindAccessor, Known, memory, AccessorFor
<1>3. label \in {"lock", "askFile"} /\ (label = "lock" => accessors[r.service][r.target] # None)
  OBVIOUS
<1>4. r.target \in Targets
  BY <1>1, KnownIsUuid DEF Targets
<1>5. label = "lock" => accessors[r.service][r.target] = AccessorFor(r.target)
  BY <1>1, <1>3, <1>4 DEF IInv, AccessorsInv
<1>6. Set(h, l)
  BY DEF FindAccessor, Goto
<1> HIDE DEF label
<1>7. /\ l \in Locals /\ l.pc = label /\ l.call = r.call /\ l.service = r.service
      /\ l.target = r.target /\ l.data = r.data /\ l.cursor = r.cursor /\ l.seen = r.seen
      /\ l.found = r.found
  BY <1>1, <1>3 DEF Locals
<1> HIDE DEF l
<1>8. handler'[h] = l
  BY <1>1, <1>6, <1>7, SetHandler
<1>9. Local(h)'
  BY <1>1, <1>2, <1>3, <1>5, <1>7, <1>8 DEF Local
<1> QED BY <1>1, <1>2, <1>6, <1>7, <1>9, WithinCall

LEMMA GetHdf5FileKeeps ==
  ASSUME IInv, NEW h \in Handlers, GetHdf5File(h)
  PROVE  IInv'
<1> DEFINE r == handler[h]
           l == [r EXCEPT !.pc = "askMutex", !.file = Hdf5Of(r.target)]
<1>1. /\ TypeOK /\ Local(h) /\ phase = "serve" /\ r \in Locals /\ r.pc = "askFile"
      /\ r.service \in Service /\ r.target \in Known \cup {Unknown}
      /\ r.call \in {"query", "upload"} /\ (r.call = "upload" => r.data \in Data)
  <2>1. TypeOK /\ Local(h) /\ phase = "serve" /\ r \in Locals /\ r.pc = "askFile"
    BY DEF IInv, GetHdf5File, At, TypeOK
  <2>2. r.pc \in {"find", "askFile", "askMutex", "lock", "use", "addDataset"}
    BY <2>1
  <2> QED BY <2>1, <2>2 DEF Local
<1>2. UNCHANGED <<folder, memory, startup, history>> /\ Known' = Known
      /\ \A v : Hdf5Of(v)' = Hdf5Of(v)
  BY DEF GetHdf5File, Known, memory, Hdf5Of
<1>3. Hdf5Of(r.target) \in Uuids \cup {None}
  BY <1>1, KnownIsUuid DEF Hdf5Of
<1>4. Set(h, l)
  BY DEF GetHdf5File
<1>5. /\ l \in Locals /\ l.pc = "askMutex" /\ l.call = r.call /\ l.service = r.service
      /\ l.target = r.target /\ l.data = r.data /\ l.cursor = r.cursor /\ l.seen = r.seen
      /\ l.found = r.found /\ l.file = Hdf5Of(r.target)
  BY <1>1, <1>3 DEF Locals
<1> HIDE DEF l
<1>6. handler'[h] = l
  BY <1>1, <1>4, <1>5, SetHandler
<1>7. Local(h)'
  BY <1>1, <1>2, <1>5, <1>6 DEF Local
<1> QED BY <1>1, <1>2, <1>4, <1>5, <1>7, WithinCall

LEMMA GetHdf5FileMutexKeeps ==
  ASSUME IInv, NEW h \in Handlers, GetHdf5FileMutex(h)
  PROVE  IInv'
<1> USE DEF folder, startup, history
<1> DEFINE r == handler[h]
           s == r.service
           u == r.target
           l == [r EXCEPT !.pc = "lock"]
<1>1. /\ TypeOK /\ Local(h) /\ phase = "serve" /\ r \in Locals /\ r.pc = "askMutex"
      /\ s \in Service /\ u \in Known \cup {Unknown} /\ r.file = Hdf5Of(u)
      /\ r.call \in {"query", "upload"} /\ (r.call = "upload" => r.data \in Data)
  <2>1. TypeOK /\ Local(h) /\ phase = "serve" /\ r \in Locals /\ r.pc = "askMutex"
    BY DEF IInv, GetHdf5FileMutex, At, TypeOK
  <2> QED BY <2>1 DEF Local
<1>2. Known \subseteq Uuids /\ Unknown \notin Known /\ u \in Targets
  BY <1>1, KnownIsUuid DEF Targets
<1>3. Known' = Known /\ (\A v : AccessorFor(v)' = AccessorFor(v))
  BY DEF GetHdf5FileMutex, Known, AccessorFor
<1>4. Accessor(r.file, Hdf5Of(u)) = AccessorFor(u)
  BY <1>1 DEF Hdf5Of, AccessorFor
<1>5. AccessorFor(u) \in [file : Uuids \cup {None}, mutex : Uuids \cup {None}]
  BY <1>2 DEF AccessorFor, Accessor
<1>6. accessors[s][u] # None => accessors[s][u] = AccessorFor(u)
  BY <1>1, <1>2 DEF IInv, AccessorsInv
<1>7. /\ accessors' \in [Service -> [Targets ->
            [file : Uuids \cup {None}, mutex : Uuids \cup {None}] \cup {None}]]
      /\ accessors'[s][u] = AccessorFor(u)
      /\ \A t \in Service : \A v \in Targets : accessors'[t][v] = accessors[t][v] \/ (t = s /\ v = u)
  <2>1. CASE accessors[s][u] # None
    BY <1>1, <1>6, <2>1 DEF GetHdf5FileMutex, TypeOK
  <2>2. CASE accessors[s][u] = None
    <3>1. accessors' = [accessors EXCEPT ![s][u] = AccessorFor(u)]
      BY <1>4, <2>2 DEF GetHdf5FileMutex
    <3> HIDE DEF s, u, r
    <3> QED BY <1>1, <1>2, <1>5, <3>1 DEF TypeOK
  <2> QED BY <2>1, <2>2
<1>8. /\ l \in Locals /\ l.pc = "lock" /\ l.call = r.call /\ l.service = s
      /\ l.target = u /\ l.data = r.data /\ l.cursor = r.cursor /\ l.seen = r.seen
      /\ l.found = r.found
  BY <1>1 DEF Locals
<1>9. Set(h, l)
  BY DEF GetHdf5FileMutex, Goto
<1> HIDE DEF l
<1>10. handler' \in [Handlers -> Locals] /\ handler'[h] = l
       /\ \A g \in Handlers : g # h => handler'[g] = handler[g]
  BY <1>1, <1>8, <1>9, SetHandler
<1>11. TypeOK'
  BY <1>1, <1>7, <1>10 DEF TypeOK, GetHdf5FileMutex
<1>12. Creating' = Creating
  BY <1>1, <1>8, <1>10 DEF Creating
<1>13. FolderInv' /\ MemoryInv' /\ StartupInv'
  BY <1>1, <1>3, <1>12 DEF IInv, FolderInv, MemoryInv, StartupInv, GetHdf5FileMutex
<1>14. AccessorsInv'
  BY <1>1, <1>2, <1>3, <1>7 DEF IInv, AccessorsInv
<1>15. \A t \in Service : \A v \in Targets :
         accessors[t][v] = AccessorFor(v) /\ v \in Known \cup {Unknown} =>
           accessors'[t][v] = accessors[t][v]
  BY <1>7
<1>16. \A g \in Handlers \ {h} : Local(g)'
  BY <1>3, <1>8, <1>9, <1>11, <1>15, OthersKeep DEF GetHdf5FileMutex
<1>17. Local(h)'
  BY <1>1, <1>3, <1>7, <1>8, <1>10 DEF Local
<1> QED BY <1>11, <1>13, <1>14, <1>16, <1>17 DEF IInv

-----------------------------------------------------------------------------
(* Using the accessor.                                                     *)

LEMMA LockKeeps ==
  ASSUME IInv, NEW h \in Handlers, Lock(h)
  PROVE  IInv'
<1> USE DEF folder, startup, history
<1> DEFINE r == handler[h]
           u == r.target
           l == [r EXCEPT !.pc = "use"]
<1>1. /\ TypeOK /\ Local(h) /\ phase = "serve" /\ r \in Locals /\ r.pc = "lock"
      /\ r.service \in Service /\ u \in Known \cup {Unknown}
      /\ r.call \in {"query", "upload"} /\ (r.call = "upload" => r.data \in Data)
      /\ accessors[r.service][u] = AccessorFor(u)
  <2>1. TypeOK /\ Local(h) /\ phase = "serve" /\ r \in Locals /\ r.pc = "lock"
    BY DEF IInv, Lock, At, TypeOK
  <2> QED BY <2>1 DEF Local
<1>2. Known' = Known /\ (\A v : AccessorFor(v)' = AccessorFor(v)) /\ accessors' = accessors
  BY DEF Lock, Known, AccessorFor
<1>3. u \in Known /\ AccessorOf(h).mutex = u
  <2>1. AccessorOf(h) = AccessorFor(u) /\ AccessorOf(h).mutex # None
    BY <1>1 DEF Lock, AccessorOf
  <2>2. u \in Known
    BY <2>1 DEF AccessorFor, Accessor
  <2> QED BY <2>1, <2>2 DEF AccessorFor, Accessor
<1>4. mutex[u] = None /\ mutex' = [mutex EXCEPT ![u] = h] /\ u \in Uuids
  BY <1>1, <1>3, KnownIsUuid DEF Lock
<1>5. /\ l \in Locals /\ l.pc = "use" /\ l.call = r.call /\ l.service = r.service
      /\ l.target = u /\ l.data = r.data /\ l.cursor = r.cursor /\ l.seen = r.seen
      /\ l.found = r.found
  BY <1>1 DEF Locals
<1>6. Set(h, l)
  BY DEF Lock, Goto
<1> HIDE DEF l
<1>7. handler' \in [Handlers -> Locals] /\ handler'[h] = l
       /\ \A g \in Handlers : g # h => handler'[g] = handler[g]
  BY <1>1, <1>5, <1>6, SetHandler
<1>8. TypeOK'
  <2>1. UNCHANGED <<folder, projects, info, indexed, accessors, startup, history>>
    BY DEF Lock
  <2>2. mutex' \in [Uuids -> Handlers \cup {None}]
    BY <1>1, <1>4 DEF TypeOK
  <2> QED BY <1>1, <1>7, <2>1, <2>2 DEF TypeOK
<1>9. Creating' = Creating
  BY <1>1, <1>5, <1>7 DEF Creating
<1>10. FolderInv' /\ MemoryInv' /\ StartupInv' /\ AccessorsInv'
  BY <1>1, <1>2, <1>9 DEF IInv, FolderInv, MemoryInv, StartupInv, AccessorsInv, Lock
<1>11. \A v \in Uuids : \A g \in Handlers \ {h} : mutex[v] = g => mutex'[v] = g
  BY <1>1, <1>4, ConstantsAssumption DEF TypeOK
<1>12. \A g \in Handlers \ {h} : Local(g)'
  BY <1>2, <1>5, <1>6, <1>8, <1>11, OthersKeep DEF Lock
<1>13. mutex'[u] = h
  BY <1>1, <1>4 DEF TypeOK
<1>14. Local(h)'
  BY <1>1, <1>2, <1>3, <1>5, <1>7, <1>13 DEF Local
<1> QED BY <1>8, <1>10, <1>12, <1>14 DEF IInv

LEMMA LockNothingKeeps ==
  ASSUME IInv, NEW h \in Handlers, LockNothing(h)
  PROVE  IInv'
<1> USE DEF folder, memory, history
<1>1. /\ UNCHANGED <<folder, memory, handler, unread, made, history>>
      /\ phase = "serve" /\ phase' = "down"
  BY DEF LockNothing, At
<1>2. Known' = Known /\ Creating' = Creating
      /\ \A v : AccessorFor(v)' = AccessorFor(v) /\ Hdf5Of(v)' = Hdf5Of(v)
  BY <1>1 DEF Known, Creating, AccessorFor, Hdf5Of
<1>3. TypeOK'
  BY <1>1 DEF IInv, TypeOK
<1>4. FolderInv' /\ MemoryInv' /\ StartupInv' /\ AccessorsInv'
  BY <1>1, <1>2 DEF IInv, FolderInv, MemoryInv, StartupInv, AccessorsInv
<1>5. \A g \in Handlers : Local(g)'
  BY <1>1, <1>2 DEF IInv, Local
<1> QED BY <1>3, <1>4, <1>5 DEF IInv

\* What a handler in the file knows of it.
LEMMA InFile ==
  ASSUME IInv, NEW h \in Handlers, handler[h].pc = "use"
  PROVE  /\ handler[h].target \in Known /\ handler[h].target \in Uuids
         /\ AccessorOf(h).file = handler[h].target /\ AccessorOf(h).mutex = handler[h].target
         /\ mutex[handler[h].target] = h /\ handler[h].service \in Service
         /\ handler[h].call \in {"query", "upload"}
         /\ handler[h].call = "upload" => handler[h].data \in Data
<1>1. Local(h) /\ Known \subseteq Uuids
  BY KnownIsUuid DEF IInv
<1>2. /\ accessors[handler[h].service][handler[h].target] = AccessorFor(handler[h].target)
      /\ handler[h].target \in Known
  BY <1>1 DEF Local
<1>3. AccessorOf(h) = Accessor(handler[h].target, handler[h].target)
  BY <1>2 DEF AccessorOf, AccessorFor
<1> QED BY <1>1, <1>2, <1>3 DEF Local, Accessor

LEMMA UseFileKeeps ==
  ASSUME IInv, NEW h \in Handlers, UseFile(h)
  PROVE  IInv'
<1> USE DEF folder, startup, history
<1> DEFINE r == handler[h]
           u == r.target
<1>1. TypeOK /\ Local(h) /\ phase = "serve" /\ r \in Locals /\ r.pc = "use"
  BY DEF IInv, UseFile, At, TypeOK
<1>2. /\ u \in Known /\ u \in Uuids /\ mutex[u] = h /\ r.service \in Service
      /\ AccessorOf(h).file = u /\ AccessorOf(h).mutex = u
      /\ r.call \in {"query", "upload"} /\ (r.call = "upload" => r.data \in Data)
  BY <1>1, InFile
<1>3. Known' = Known /\ (\A v : AccessorFor(v)' = AccessorFor(v)) /\ accessors' = accessors
  BY DEF UseFile, Known, AccessorFor
<1>4. mutex' = [mutex EXCEPT ![u] = None]
  BY <1>2 DEF UseFile
<1>5. PICK label \in {"next", "addDataset"} :
        /\ Goto(h, label) /\ (label = "next" <=> r.call = "query")
        /\ stored' = IF label = "next" THEN stored
                     ELSE [stored EXCEPT ![u] = @ \cup {r.data}]
  BY <1>2 DEF UseFile
<1>6. /\ stored' \in [Uuids -> SUBSET Data]
      /\ \A v \in Uuids : stored[v] \subseteq stored'[v]
      /\ label = "addDataset" => r.data \in stored'[u]
  <2>1. CASE label = "next"
    BY <1>1, <1>5, <2>1 DEF TypeOK
  <2>2. CASE label = "addDataset"
    <3>1. stored' = [stored EXCEPT ![u] = stored[u] \cup {r.data}] /\ r.data \in Data
      BY <1>2, <1>5, <2>2
    <3> QED BY <1>1, <1>2, <2>2, <3>1 DEF TypeOK
  <2> QED BY <2>1, <2>2
<1> DEFINE l == [r EXCEPT !.pc = label]
<1>7. /\ l \in Locals /\ l.pc = label /\ l.call = r.call /\ l.service = r.service
      /\ l.target = u /\ l.data = r.data /\ l.cursor = r.cursor /\ l.seen = r.seen
      /\ l.found = r.found
  BY <1>1 DEF Locals
<1>8. Set(h, l)
  BY <1>5 DEF Goto
<1> HIDE DEF l
<1>9. handler' \in [Handlers -> Locals] /\ handler'[h] = l
       /\ \A g \in Handlers : g # h => handler'[g] = handler[g]
  BY <1>1, <1>7, <1>8, SetHandler
<1>10. TypeOK'
  BY <1>1, <1>4, <1>6, <1>9 DEF TypeOK, UseFile
<1>11. Creating' = Creating
  BY <1>1, <1>7, <1>9 DEF Creating
<1>12. UNCHANGED <<files, named, framed, projects, info, indexed, accessors, startup, history>>
  BY DEF UseFile
<1>13. FolderInv'
  <2>1. \A k \in kept : k[1] \in Uuids
    BY <1>1 DEF TypeOK
  <2> QED BY <1>1, <1>3, <1>6, <1>11, <1>12, <2>1 DEF IInv, FolderInv
<1>14. MemoryInv' /\ StartupInv' /\ AccessorsInv'
  BY <1>1, <1>3, <1>11, <1>12 DEF IInv, MemoryInv, StartupInv, AccessorsInv
<1>15. \A v \in Uuids : \A g \in Handlers \ {h} : mutex[v] = g => mutex'[v] = g
  BY <1>1, <1>2, <1>4 DEF TypeOK
<1>16. \A g \in Handlers \ {h} : Local(g)'
  BY <1>3, <1>6, <1>7, <1>8, <1>10, <1>12, <1>15, OthersKeep
<1>17. Local(h)'
  BY <1>1, <1>2, <1>3, <1>5, <1>6, <1>7, <1>9 DEF Local
<1> QED BY <1>10, <1>13, <1>14, <1>16, <1>17 DEF IInv

LEMMA AddDatasetKeeps ==
  ASSUME IInv, NEW h \in Handlers, AddDataset(h)
  PROVE  IInv'
<1> USE DEF folder, startup
<1> DEFINE u == handler[h].target
           d == handler[h].data
<1>1. /\ TypeOK /\ Local(h) /\ phase = "serve" /\ handler[h].pc = "addDataset"
      /\ u \in Known /\ u \in Uuids /\ d \in stored[u] /\ d \in Data
  <2>1. /\ TypeOK /\ Local(h) /\ phase = "serve" /\ handler[h].pc = "addDataset"
        /\ Known \subseteq Uuids
    BY KnownIsUuid DEF IInv, AddDataset, At
  <2> QED BY <2>1 DEF Local, TypeOK
<1>2. /\ indexed' = [indexed EXCEPT ![u] = indexed[u] \cup {d}]
      /\ kept' = kept \cup {<<u, d>>} /\ Set(h, Idle)
      /\ UNCHANGED <<folder, projects, info, accessors, mutex, startup, drawn, created, told, cut>>
  BY DEF AddDataset
<1>3. /\ handler' \in [Handlers -> Locals] /\ handler'[h] = Idle
      /\ \A g \in Handlers : g # h => handler'[g] = handler[g]
  BY <1>1, <1>2, IdleIsLocal, SetHandler
<1>4. Known' = Known /\ (\A v : AccessorFor(v)' = AccessorFor(v))
  BY <1>2 DEF Known, AccessorFor
<1>5. /\ indexed' \in [Uuids -> SUBSET Data] /\ d \in indexed'[u]
      /\ \A v \in Uuids : indexed[v] \subseteq indexed'[v]
      /\ \A v \in Uuids : indexed'[v] \subseteq stored[v] \/ ~(indexed[v] \subseteq stored[v])
  BY <1>1, <1>2 DEF TypeOK
<1> HIDE DEF u, d
<1>6. TypeOK'
  BY <1>1, <1>2, <1>3, <1>5 DEF TypeOK
<1>7. Creating' = Creating
  <2>1. handler[h].call # "create"
    BY <1>1 DEF Local
  <2> QED BY <1>3, <2>1, IdleIsLocal, ConstantsAssumption DEF Creating
<1>8. \A k \in kept' : k \in kept \/ (k[1] = u /\ k[2] = d)
  BY <1>2
<1>9. \A k \in kept : k[1] \in Uuids
  BY <1>1 DEF TypeOK
<1>10. FolderInv'
  <2>1. FolderInv /\ u \in files
    BY <1>1 DEF IInv, FolderInv
  <2>2. \A k \in kept' : k[1] \in files /\ k[2] \in stored[k[1]]
    BY <1>1, <1>8, <2>1 DEF FolderInv
  <2> QED BY <1>2, <1>4, <1>5, <1>7, <2>1, <2>2 DEF FolderInv
<1>11. MemoryInv'
  <2>1. MemoryInv
    BY DEF IInv
  <2>2. \A k \in kept' : k[1] \in Known /\ k[2] \in indexed'[k[1]]
    BY <1>1, <1>5, <1>8, <1>9, <2>1 DEF MemoryInv
  <2> QED BY <1>1, <1>2, <1>4, <1>7, <2>1, <2>2 DEF MemoryInv
<1>12. StartupInv' /\ AccessorsInv'
  BY <1>1, <1>2, <1>4 DEF IInv, StartupInv, AccessorsInv
<1>13. \A g \in Handlers \ {h} : Local(g)'
  BY <1>2, <1>4, <1>6, IdleIsLocal, OthersKeep
<1>14. Local(h)'
  BY <1>3, IdleIsLocal, ConstantsAssumption DEF Local, InSeq
<1> QED BY <1>6, <1>10, <1>11, <1>12, <1>13, <1>14 DEF IInv

-----------------------------------------------------------------------------
(* A stop, and the startup.                                                *)

LEMMA IdleLocal ==
  ASSUME NEW h \in Handlers, handler[h] = Idle
  PROVE  Local(h)
BY IdleIsLocal, ConstantsAssumption DEF Local, InSeq

LEMMA InitIInv == Init => IInv
<1> SUFFICES ASSUME Init PROVE IInv
  OBVIOUS
<1>1. Known = {} /\ projects \in Seq(Uuids)
  BY DEF Init, Known, InSeq
<1>2. Len(Services) \in Nat
  BY ConstantsAssumption
<1>3. TypeOK
  BY <1>1, <1>2, IdleIsLocal DEF Init, TypeOK
<1>4. FolderInv /\ MemoryInv /\ AccessorsInv
  BY <1>1 DEF Init, FolderInv, MemoryInv, AccessorsInv
<1>5. StartupInv
  BY <1>1 DEF Init, StartupInv
<1>6. \A h \in Handlers : Local(h)
  BY IdleLocal DEF Init
<1> QED BY <1>3, <1>4, <1>5, <1>6 DEF IInv

LEMMA RestartKeeps ==
  ASSUME IInv, Restart
  PROVE  IInv'
<1> USE DEF folder
<1>1. TypeOK /\ FolderInv
  BY DEF IInv
<1>2. Known' = {} /\ projects' \in Seq(Uuids)
  BY DEF Restart, Known, InSeq
<1>3. cut' = cut \cup Creating /\ Creating \subseteq Uuids
  BY DEF Restart, Creating, IInv, Local
<1>4. Len(Services) \in Nat
  BY ConstantsAssumption
<1>5. \A h \in Handlers : handler'[h] = Idle
  BY DEF Restart
<1>6. TypeOK'
  BY <1>1, <1>2, <1>3, <1>4, IdleIsLocal DEF Restart, TypeOK
<1>7. FolderInv'
  BY <1>1, <1>2, <1>3 DEF Restart, FolderInv
<1>8. MemoryInv' /\ AccessorsInv'
  BY <1>2 DEF Restart, MemoryInv, AccessorsInv
<1>9. StartupInv'
  BY <1>2, <1>5 DEF Restart, StartupInv
<1>10. \A h \in Handlers : Local(h)'
  BY <1>5, IdleIsLocal, ConstantsAssumption DEF Local, InSeq
<1> QED BY <1>6, <1>7, <1>8, <1>9, <1>10 DEF IInv

LEMMA RecreateProjectKeeps ==
  ASSUME IInv, RecreateProject
  PROVE  IInv'
<1> USE DEF folder, history
<1>1. /\ TypeOK /\ FolderInv /\ MemoryInv /\ StartupInv /\ AccessorsInv /\ phase = "load"
      /\ \A h \in Handlers : handler[h] = Idle
  BY DEF IInv, StartupInv, RecreateProject
<1>2. PICK f \in unread :
        /\ unread' = unread \ {f}
        /\ IF f \in Foreign THEN UNCHANGED <<projects, info, indexed>>
           ELSE /\ projects' \in Inserted(f)
                /\ info' = [info EXCEPT ![f] = [name |-> ReadProjectname(f), frame |-> ReadProjectFrameId(f)]]
                /\ indexed' = [indexed EXCEPT ![f] = stored[f]]
  BY DEF RecreateProject
<1>3. UNCHANGED <<folder, phase, made, accessors, mutex, handler, history>>
  BY DEF RecreateProject
<1>4. Creating' = Creating
  BY <1>3 DEF Creating
<1>5. \A h \in Handlers : Local(h)'
  <2>1. \A h \in Handlers : handler'[h] = Idle
    BY <1>1, <1>3
  <2> QED BY <2>1, IdleIsLocal, ConstantsAssumption DEF Local, InSeq
<1>6. CASE f \in Foreign
  <2>1. Known' = Known /\ UNCHANGED <<projects, info, indexed>>
    BY <1>2, <1>6 DEF Known
  <2>2. f \notin files
    BY <1>1, <1>6, ConstantsAssumption DEF TypeOK
  <2>3. TypeOK'
    BY <1>1, <1>2, <1>3, <2>1 DEF TypeOK
  <2>4. FolderInv' /\ MemoryInv' /\ AccessorsInv'
    BY <1>1, <1>3, <1>4, <2>1 DEF FolderInv, MemoryInv, AccessorsInv, AccessorFor
  <2>5. StartupInv'
    BY <1>1, <1>2, <1>3, <2>1, <2>2 DEF StartupInv
  <2> QED BY <1>5, <2>3, <2>4, <2>5 DEF IInv
<1>7. CASE f \notin Foreign
  <2>1. f \in files /\ f \in Uuids
    BY <1>1, <1>7 DEF StartupInv, TypeOK
  <2>2. projects' \in Seq(Uuids) /\ Known' = Known \cup {f}
    BY <1>1, <1>2, <1>7, <2>1, InsertedSeq DEF TypeOK, Known
  <2>3. Known \subseteq Uuids /\ Unknown \notin Known'
    BY <1>1, <2>1, <2>2, KnownIsUuid, ConstantsAssumption DEF Targets
  <2>4. /\ info' \in [Uuids -> [name : BOOLEAN, frame : BOOLEAN]]
        /\ info'[f] = [name |-> f \in named, frame |-> f \in framed]
        /\ \A v \in Uuids : v # f => info'[v] = info[v]
    <3>1. [name |-> f \in named, frame |-> f \in framed] \in [name : BOOLEAN, frame : BOOLEAN]
      OBVIOUS
    <3>2. info' = [info EXCEPT ![f] = [name |-> f \in named, frame |-> f \in framed]]
      BY <1>2, <1>7 DEF ReadProjectname, ReadProjectFrameId
    <3> DEFINE i == [name |-> f \in named, frame |-> f \in framed]
    <3> HIDE DEF i
    <3>3. i \in [name : BOOLEAN, frame : BOOLEAN] /\ info' = [info EXCEPT ![f] = i]
      BY <3>1, <3>2 DEF i
    <3>4. /\ info' \in [Uuids -> [name : BOOLEAN, frame : BOOLEAN]] /\ info'[f] = i
          /\ \A v \in Uuids : v # f => info'[v] = info[v]
      BY <1>1, <2>1, <3>3 DEF TypeOK
    <3> QED BY <3>4 DEF i
  <2>5. /\ indexed' \in [Uuids -> SUBSET Data] /\ indexed'[f] = stored[f]
        /\ \A v \in Uuids : v # f => indexed'[v] = indexed[v]
    BY <1>1, <1>2, <1>7, <2>1 DEF TypeOK
  <2>6. TypeOK'
    BY <1>1, <1>2, <1>3, <2>2, <2>4, <2>5 DEF TypeOK
  <2>7. FolderInv'
    BY <1>1, <1>3, <1>4, <2>1, <2>2, <2>5 DEF FolderInv
  <2>8. MemoryInv'
    <3>1. ASSUME NEW k \in kept, k[1] \in Known' PROVE k[2] \in indexed'[k[1]]
      <4>1. k[1] \in Uuids /\ k[2] \in stored[k[1]] /\ (k[1] \in Known => k[2] \in indexed[k[1]])
        BY <1>1 DEF TypeOK, FolderInv, MemoryInv
      <4> QED BY <2>2, <2>5, <3>1, <4>1
    <3> QED BY <1>1, <1>3, <3>1 DEF MemoryInv
  <2>9. StartupInv'
    <3>1. unread' \subseteq files \cup Foreign /\ files \subseteq Known' \cup unread'
      BY <1>1, <1>2, <2>2 DEF StartupInv
    <3>2. \A v \in Known : info[v] = [name |-> v \in named, frame |-> v \in framed]
      BY <1>1 DEF StartupInv
    <3>3. ASSUME NEW v \in Known' PROVE info'[v] = [name |-> v \in named, frame |-> v \in framed]
      BY <2>2, <2>3, <2>4, <3>2
    <3>4. \A s \in Service : \A v \in Targets : accessors'[s][v] = None
      BY <1>1, <1>3 DEF StartupInv
    <3> QED BY <1>1, <1>3, <3>1, <3>3, <3>4 DEF StartupInv
  <2>10. AccessorsInv'
    BY <1>1, <1>3 DEF StartupInv, AccessorsInv
  <2> QED BY <1>5, <2>6, <2>7, <2>8, <2>9, <2>10 DEF IInv
<1> QED BY <1>6, <1>7

LEMMA EndLoadingKeeps ==
  ASSUME IInv, EndLoading
  PROVE  IInv'
<1> USE DEF folder, memory, history
<1>1. /\ TypeOK /\ FolderInv /\ MemoryInv /\ StartupInv /\ AccessorsInv
      /\ phase = "load" /\ unread = {} /\ \A h \in Handlers : handler[h] = Idle
  BY DEF IInv, StartupInv, EndLoading
<1>2. UNCHANGED <<folder, memory, handler, unread, made, history>> /\ phase' = "services"
  BY DEF EndLoading
<1>3. /\ Known' = Known /\ Creating' = Creating
      /\ \A v : AccessorFor(v)' = AccessorFor(v) /\ Hdf5Of(v)' = Hdf5Of(v)
  BY <1>2 DEF Known, Creating, AccessorFor, Hdf5Of
<1>4. Creating = {}
  BY <1>1, IdleIsLocal, ConstantsAssumption DEF Creating
<1>5. files \subseteq Known
  BY <1>1 DEF StartupInv
<1>6. ASSUME NEW u \in Known PROVE info[u] = Whole \/ u \in cut \ created
  <2>1. info[u] = [name |-> u \in named, frame |-> u \in framed]
    BY <1>1 DEF StartupInv
  <2>2. CASE u \in framed
    BY <1>1, <2>1, <2>2 DEF FolderInv, Whole
  <2>3. CASE u \notin framed
    BY <1>1, <1>4, <2>3 DEF FolderInv
  <2> QED BY <2>2, <2>3
<1>7. TypeOK' /\ FolderInv' /\ AccessorsInv' /\ StartupInv'
  BY <1>1, <1>2, <1>3 DEF TypeOK, FolderInv, AccessorsInv, StartupInv
<1>8. MemoryInv'
  BY <1>1, <1>2, <1>3, <1>5, <1>6 DEF MemoryInv, FolderInv
<1>9. \A h \in Handlers : Local(h)'
  BY <1>2, <1>3 DEF IInv, Local
<1> QED BY <1>7, <1>8, <1>9 DEF IInv

LEMMA MakeServiceKeeps ==
  ASSUME IInv, MakeService
  PROVE  IInv'
<1> USE DEF folder, history
<1>1. /\ TypeOK /\ FolderInv /\ MemoryInv /\ StartupInv /\ AccessorsInv
      /\ phase = "services" /\ \A h \in Handlers : handler[h] = Idle
  BY DEF IInv, StartupInv, MakeService
<1>2. /\ UNCHANGED <<folder, phase, unread, projects, info, indexed, mutex, handler, history>>
      /\ made < Len(Services) /\ made' = made + 1
      /\ accessors' = [accessors EXCEPT ![Services[made + 1]] = AllFileAccessors]
  BY DEF MakeService
<1>3. Known' = Known /\ Creating' = Creating /\ (\A v : AccessorFor(v)' = AccessorFor(v))
  BY <1>2 DEF Known, Creating, AccessorFor
<1>4. Known \subseteq Uuids /\ Len(Services) \in Nat
  BY <1>1, KnownIsUuid, ConstantsAssumption
<1>5. /\ AllFileAccessors \in [Targets ->
            [file : Uuids \cup {None}, mutex : Uuids \cup {None}] \cup {None}]
      /\ \A u \in Targets : AllFileAccessors[u] # None =>
           u \in Known /\ AllFileAccessors[u] = AccessorFor(u)
  BY <1>4 DEF AllFileAccessors, Accessor, AccessorFor
<1>6. TypeOK'
  <2>1. made' \in 0..Len(Services)
    BY <1>1, <1>2, <1>4 DEF TypeOK
  <2> QED BY <1>1, <1>2, <1>5, <2>1 DEF TypeOK
<1>7. FolderInv' /\ MemoryInv' /\ StartupInv'
  BY <1>1, <1>2, <1>3 DEF FolderInv, MemoryInv, StartupInv
<1>8. AccessorsInv'
  <2>1. \A s \in Service : accessors'[s] = accessors[s] \/ accessors'[s] = AllFileAccessors
    BY <1>1, <1>2 DEF TypeOK
  <2> QED BY <1>1, <1>3, <1>5, <2>1 DEF AccessorsInv
<1>9. \A h \in Handlers : Local(h)'
  <2>1. \A h \in Handlers : handler'[h] = Idle
    BY <1>1, <1>2
  <2> QED BY <2>1, IdleIsLocal, ConstantsAssumption DEF Local, InSeq
<1> QED BY <1>6, <1>7, <1>8, <1>9 DEF IInv

LEMMA BuildAndStartKeeps ==
  ASSUME IInv, BuildAndStart
  PROVE  IInv'
<1> USE DEF folder, memory, history
<1>1. UNCHANGED <<folder, memory, handler, unread, made, history>>
      /\ phase = "services" /\ phase' = "serve"
  BY DEF BuildAndStart
<1>2. Known' = Known /\ Creating' = Creating
      /\ \A v : AccessorFor(v)' = AccessorFor(v) /\ Hdf5Of(v)' = Hdf5Of(v)
  BY <1>1 DEF Known, Creating, AccessorFor, Hdf5Of
<1>3. TypeOK' /\ FolderInv' /\ MemoryInv' /\ StartupInv' /\ AccessorsInv'
  BY <1>1, <1>2 DEF IInv, TypeOK, FolderInv, MemoryInv, StartupInv, AccessorsInv
<1>4. \A h \in Handlers : Local(h)'
  BY <1>1, <1>2 DEF IInv, Local
<1> QED BY <1>3, <1>4 DEF IInv

LEMMA NextKeeps ==
  ASSUME IInv, [Next]_vars
  PROVE  IInv'
<1>1. CASE UNCHANGED vars
  <2>1. /\ UNCHANGED <<files, named, framed, stored, phase, unread, made, projects, info, indexed>>
        /\ UNCHANGED <<accessors, mutex, handler, drawn, created, told, cut, kept>>
    BY <1>1 DEF vars
  <2>2. Known' = Known /\ Creating' = Creating
        /\ \A v : AccessorFor(v)' = AccessorFor(v) /\ Hdf5Of(v)' = Hdf5Of(v)
    BY <2>1 DEF Known, Creating, AccessorFor, Hdf5Of
  <2>3. TypeOK' /\ FolderInv' /\ MemoryInv' /\ StartupInv' /\ AccessorsInv'
    BY <2>1, <2>2 DEF IInv, TypeOK, FolderInv, MemoryInv, StartupInv, AccessorsInv
  <2>4. \A h \in Handlers : Local(h)'
    BY <2>1, <2>2 DEF IInv, Local
  <2> QED BY <2>3, <2>4 DEF IInv
<1>2. ASSUME NEW h \in Handlers, CreateProject(h) \/ GetProjects(h) PROVE IInv'
  BY <1>2, CreateProjectKeeps, GetProjectsKeeps
<1>3. ASSUME NEW h \in Handlers, NEW s \in Service,
             \/ GetDatasetFromAllProjects(h, s)
             \/ \E u \in told \cup {Unknown} :
                  \/ GetDatasetFromSpecificProjects(h, s, u)
                  \/ \E d \in Data : Upload(h, s, u, d)
      PROVE  IInv'
  BY <1>3, GetDatasetFromAllProjectsKeeps, GetDatasetFromSpecificProjectsKeeps, UploadKeeps
<1>4. ASSUME NEW h \in Handlers, CreationStep(h) PROVE IInv'
  BY <1>4, CreatingFilesKeep, FailCreationKeeps, InsertProjectKeeps DEF CreationStep
<1>5. ASSUME NEW h \in Handlers, Visit(h) \/ EndVisit(h) PROVE IInv'
  BY <1>5, VisitKeeps, EndVisitKeeps
<1>6. ASSUME NEW h \in Handlers, AccessStep(h) PROVE IInv'
  BY <1>6, NextDatasetKeeps, FindAccessorKeeps, GetHdf5FileKeeps, GetHdf5FileMutexKeeps,
     LockKeeps, LockNothingKeeps, UseFileKeeps, AddDatasetKeeps DEF AccessStep
<1>7. CASE Restart
  BY <1>7, RestartKeeps
<1>8. CASE StartupStep
  BY <1>8, RecreateProjectKeeps, EndLoadingKeeps, MakeServiceKeeps, BuildAndStartKeeps
     DEF StartupStep
<1> QED BY <1>1, <1>2, <1>3, <1>4, <1>5, <1>6, <1>7, <1>8 DEF Next

LEMMA Invariance == Spec => []IInv
<1>1. Init => IInv
  BY InitIInv
<1>2. IInv /\ [Next]_vars => IInv'
  BY NextKeeps
<1> QED BY <1>1, <1>2, PTL DEF Spec

-----------------------------------------------------------------------------
(* What follows.                                                           *)

\* The variables keep their types, for any number of handlers, services and projects.
THEOREM TypeCorrect == Spec => []TypeOK
<1>1. IInv => TypeOK
  BY DEF IInv
<1> QED BY <1>1, Invariance, PTL

\* getHdf5 and getHdf5FileMutex: whichever service looks for the accessor of a project,
\* and whether it was made with the service, by an earlier call or by two calls at once,
\* it is the file of the project with the mutex of the file, and two handlers are never
\* in one file.
THEOREM OneUser == Spec => []OneUserPerFile
<1>1. IInv => OneUserPerFile
  <2> SUFFICES ASSUME IInv PROVE OneUserPerFile
    OBVIOUS
  <2>1. \A s \in Service : \A u \in Targets : accessors[s][u] # None =>
          accessors[s][u] = IF u \in Known THEN Accessor(u, u) ELSE Accessor(None, None)
    BY DEF IInv, AccessorsInv, AccessorFor
  <2>2. ASSUME NEW g \in Handlers, NEW h \in Handlers, At(g, "use"), At(h, "use"), g # h
        PROVE  AccessorOf(g).file # AccessorOf(h).file
    BY <2>2, InFile DEF At
  <2> QED BY <2>1, <2>2 DEF OneUserPerFile
<1> QED BY <1>1, Invariance, PTL

\* createProject, recreateProjects: a project whose creation was answered is served
\* with its name and its frame, whatever was stopped or failed around it.
THEOREM Served == Spec => []CreatedServed
<1>1. IInv => CreatedServed
  <2> SUFFICES ASSUME IInv PROVE CreatedServed
    OBVIOUS
  <2>1. FolderInv /\ MemoryInv
    BY DEF IInv
  <2> QED BY <2>1 DEF FolderInv, MemoryInv, CreatedServed, Whole
<1> QED BY <1>1, Invariance, PTL

\* addDataset: what was answered with success is in the file of its project and in the
\* index of the serving process, for any number of restarts.
THEOREM Kept == Spec => []KeptServed
<1>1. IInv => KeptServed
  <2> SUFFICES ASSUME IInv PROVE KeptServed
    OBVIOUS
  <2>1. FolderInv /\ MemoryInv /\ (\A h \in Handlers : Local(h))
    BY DEF IInv
  <2>2. phase = "serve" => \A k \in kept : k[2] \in indexed[k[1]]
    BY <2>1 DEF MemoryInv
  <2>3. \A h \in Handlers : At(h, "addDataset") => handler[h].target \in Known
    BY <2>1 DEF At, Local
  <2> QED BY <2>1, <2>2, <2>3 DEF FolderInv, KeptServed
<1> QED BY <1>1, Invariance, PTL

-----------------------------------------------------------------------------
(* Iterating over the map while others insert into it.                     *)

\* No project is in the list twice.
NoneTwice(s) == \A i, j \in DOMAIN s : s[i] = s[j] => i = j

\* What an iteration has passed and what it has still to pass, apart from each other and
\* together all there was.
Iterating(h) ==
  At(h, "visit") /\ ~handler[h].rehashed =>
    /\ handler[h].before \subseteq InSeq(handler[h].seen) \cup Ahead(h)
    /\ InSeq(handler[h].seen) \cap Ahead(h) = {}
    /\ NoneTwice(handler[h].seen)

IterationInv == NoneTwice(projects) /\ \A h \in Handlers : Iterating(h)

\* Such a list is as long as the set of its members is large.
LEMMA LengthCounts ==
  ASSUME NEW s \in Seq(Uuids), NoneTwice(s)
  PROVE  IsFiniteSet(InSeq(s)) /\ Cardinality(InSeq(s)) = Len(s)
<1>1. Len(s) \in Nat /\ DOMAIN s = 1 .. Len(s) /\ s \in [1 .. Len(s) -> InSeq(s)]
  BY DEF InSeq
<1>2. \A a, b \in 1 .. Len(s) : s[a] = s[b] => a = b
  BY <1>1 DEF NoneTwice
<1>3. \A t \in InSeq(s) : \E i \in 1 .. Len(s) : s[i] = t
  BY <1>1 DEF InSeq
<1>4. s \in Bijection(1 .. Len(s), InSeq(s))
  BY <1>1, <1>2, <1>3, Fun_IsBij
<1>5. IsFiniteSet(1 .. Len(s)) /\ Cardinality(1 .. Len(s)) = Len(s)
  <2>1. PICK n \in Nat : n = Len(s)
    BY <1>1
  <2>2. /\ IsFiniteSet(1 .. n)
        /\ Cardinality(1 .. n) = IF 1 > n THEN 0 ELSE n - 1 + 1
    BY FS_Interval
  <2> QED  BY <2>1, <2>2
<1> QED  BY <1>4, <1>5, FS_Bijection DEF ExistsBijection

\* Where a new project comes when the list is not relinked.
LEMMA InsertedAt ==
  ASSUME projects \in Seq(Uuids), NEW u \in Uuids, u \notin Known, Len(projects) < Buckets,
         NEW p \in Inserted(u)
  PROVE  \E i \in 0 .. Len(projects) :
           /\ DOMAIN p = 1 .. (Len(projects) + 1) /\ p[i + 1] = u
           /\ \A j \in 1 .. i : p[j] = projects[j]
           /\ \A j \in (i + 1) .. Len(projects) : p[j + 1] = projects[j]
<1>1. PICK n \in Nat : n = Len(projects)
  OBVIOUS
<1>2. PICK i \in 0 .. n :
        p = SubSeq(projects, 1, i) \o <<u>> \o SubSeq(projects, i + 1, n)
  BY <1>1 DEF Inserted
<1>3. PICK a : a = SubSeq(projects, 1, i)
  OBVIOUS
<1>4. PICK b : b = SubSeq(projects, i + 1, n)
  OBVIOUS
<1>5. \A j \in 1 .. n : projects[j] \in Uuids
  BY <1>1
<1>6. a \in Seq(Uuids) /\ Len(a) = i /\ \A j \in 1 .. i : a[j] = projects[j]
  <2>1. \A j \in 1 .. i : projects[j] \in Uuids
    BY <1>1, <1>5
  <2>2. /\ SubSeq(projects, 1, i) \in Seq(Uuids)
        /\ Len(SubSeq(projects, 1, i)) = IF 1 <= i THEN i - 1 + 1 ELSE 0
        /\ \A j \in 1 .. i - 1 + 1 : SubSeq(projects, 1, i)[j] = projects[1 + j - 1]
    BY <1>1, <2>1, SubSeqProperties
  <2> QED  BY <1>1, <1>3, <2>2
<1>7. b \in Seq(Uuids) /\ Len(b) = n - i /\ \A j \in 1 .. (n - i) : b[j] = projects[i + j]
  <2>1. \A j \in i + 1 .. n : projects[j] \in Uuids
    BY <1>1, <1>5
  <2>2. /\ SubSeq(projects, i + 1, n) \in Seq(Uuids)
        /\ Len(SubSeq(projects, i + 1, n)) = IF i + 1 <= n THEN n - (i + 1) + 1 ELSE 0
        /\ \A j \in 1 .. n - (i + 1) + 1 :
             SubSeq(projects, i + 1, n)[j] = projects[(i + 1) + j - 1]
    BY <1>1, <2>1, SubSeqProperties
  <2> QED  BY <1>1, <1>4, <2>2
<1>8. PICK c : c = Append(a, u)
  OBVIOUS
<1>9. /\ c \in Seq(Uuids) /\ Len(c) = i + 1 /\ c[i + 1] = u
      /\ \A j \in 1 .. i : c[j] = projects[j]
  BY <1>6, <1>8, AppendProperties
<1>10. p = c \o b
  BY <1>2, <1>3, <1>4, <1>6, <1>8, AppendIsConcat
<1>11. /\ p \in Seq(Uuids) /\ Len(p) = n + 1
       /\ \A j \in 1 .. (n + 1) : p[j] = IF j <= i + 1 THEN c[j] ELSE b[j - (i + 1)]
  <2>1. /\ c \o b \in Seq(Uuids) /\ Len(c \o b) = Len(c) + Len(b)
        /\ \A j \in 1 .. Len(c) + Len(b) :
             (c \o b)[j] = IF j <= Len(c) THEN c[j] ELSE b[j - Len(c)]
    BY <1>7, <1>9, ConcatProperties
  <2>2. Len(c) = i + 1 /\ Len(c) + Len(b) = n + 1
    BY <1>7, <1>9
  <2> QED  BY <1>10, <2>1, <2>2
<1>12. DOMAIN p = 1 .. (n + 1) /\ p[i + 1] = u
  BY <1>1, <1>9, <1>11
<1>13. \A j \in 1 .. i : p[j] = projects[j]
  BY <1>1, <1>9, <1>11
<1>14. ASSUME NEW j \in (i + 1) .. n
       PROVE  p[j + 1] = projects[j]
  <2>1. j - i \in 1 .. (n - i) /\ i + (j - i) = j /\ j + 1 \in 1 .. (n + 1) /\ ~(j + 1 <= i + 1)
        /\ (j + 1) - (i + 1) = j - i
    BY <1>1
  <2>2. p[j + 1] = b[j - i]
    BY <1>11, <2>1
  <2> QED  BY <1>7, <2>1, <2>2
<1> QED  BY <1>1, <1>12, <1>13, <1>14

\* An insertion puts no project in the list twice, relinked or not.
LEMMA InsertedOnce ==
  ASSUME projects \in Seq(Uuids), NoneTwice(projects), NEW u \in Uuids, NEW p \in Inserted(u)
  PROVE  NoneTwice(p)
<1>1. CASE u \in Known
  BY <1>1 DEF Inserted
<1>2. CASE u \notin Known /\ Len(projects) < Buckets
  <2>1. PICK n \in Nat : n = Len(projects)
    OBVIOUS
  <2>2. PICK i \in 0 .. n :
          /\ DOMAIN p = 1 .. (n + 1) /\ p[i + 1] = u
          /\ \A j \in 1 .. i : p[j] = projects[j]
          /\ \A j \in (i + 1) .. n : p[j + 1] = projects[j]
    <3>1. \E i \in 0 .. Len(projects) :
            /\ DOMAIN p = 1 .. (Len(projects) + 1) /\ p[i + 1] = u
            /\ \A j \in 1 .. i : p[j] = projects[j]
            /\ \A j \in (i + 1) .. Len(projects) : p[j + 1] = projects[j]
      BY <1>2, InsertedAt
    <3> QED  BY <2>1, <3>1
  <2>3. \A j \in 1 .. n : projects[j] # u
    BY <1>2, <2>1 DEF Known, InSeq
  <2>4. \A j, k \in 1 .. n : projects[j] = projects[k] => j = k
    BY <2>1 DEF NoneTwice
  <2>5. ASSUME NEW j \in 1 .. (n + 1)
        PROVE  \/ j = i + 1
               \/ j \in 1 .. n /\ j <= i /\ p[j] = projects[j]
               \/ j - 1 \in 1 .. n /\ j > i + 1 /\ p[j] = projects[j - 1]
    <3>1. j > i + 1 => j - 1 \in (i + 1) .. n /\ (j - 1) + 1 = j
      BY <2>1, <2>2
    <3> QED  BY <2>1, <2>2, <3>1
  <2> SUFFICES ASSUME NEW j \in 1 .. (n + 1), NEW k \in 1 .. (n + 1), p[j] = p[k]
               PROVE  j = k
    BY <2>2 DEF NoneTwice
  <2>6. \/ j = i + 1
        \/ j \in 1 .. n /\ j <= i /\ p[j] = projects[j]
        \/ j - 1 \in 1 .. n /\ j > i + 1 /\ p[j] = projects[j - 1]
    BY <2>5
  <2>7. \/ k = i + 1
        \/ k \in 1 .. n /\ k <= i /\ p[k] = projects[k]
        \/ k - 1 \in 1 .. n /\ k > i + 1 /\ p[k] = projects[k - 1]
    BY <2>5
  <2>8. CASE j = i + 1
    <3>1. p[k] = u
      BY <2>2, <2>8
    <3>2. k = i + 1
      BY <2>3, <2>7, <3>1
    <3> QED  BY <2>8, <3>2
  <2>9. CASE k = i + 1
    <3>1. p[j] = u
      BY <2>2, <2>9
    <3>2. j = i + 1
      BY <2>3, <2>6, <3>1
    <3> QED  BY <2>9, <3>2
  <2>10. CASE j <= i /\ j \in 1 .. n /\ p[j] = projects[j]
    <3>1. CASE k <= i /\ k \in 1 .. n /\ p[k] = projects[k]
      BY <2>4, <2>10, <3>1
    <3>2. CASE k - 1 \in 1 .. n /\ k > i + 1 /\ p[k] = projects[k - 1]
      <4>1. j = k - 1
        BY <2>4, <2>10, <3>2
      <4> QED  BY <2>1, <2>2, <2>10, <3>2, <4>1
    <3> QED  BY <2>7, <2>9, <3>1, <3>2
  <2>11. CASE j - 1 \in 1 .. n /\ j > i + 1 /\ p[j] = projects[j - 1]
    <3>1. CASE k <= i /\ k \in 1 .. n /\ p[k] = projects[k]
      <4>1. j - 1 = k
        BY <2>4, <2>11, <3>1
      <4> QED  BY <2>1, <2>2, <2>11, <3>1, <4>1
    <3>2. CASE k - 1 \in 1 .. n /\ k > i + 1 /\ p[k] = projects[k - 1]
      <4>1. j - 1 = k - 1
        BY <2>4, <2>11, <3>2
      <4> QED  BY <4>1
    <3> QED  BY <2>7, <2>9, <3>1, <3>2
  <2> QED  BY <2>6, <2>8, <2>10, <2>11
<1>3. CASE u \notin Known /\ ~(Len(projects) < Buckets)
  <2>1. p \in [1 .. Len(projects) + 1 -> Known \cup {u}] /\ InSeq(p) = Known \cup {u}
    BY <1>3 DEF Inserted
  <2>2. IsFiniteSet(Known) /\ Cardinality(Known) = Len(projects) /\ Len(projects) \in Nat
    BY LengthCounts DEF Known
  <2>3. Cardinality(Known \cup {u}) = Len(projects) + 1
    BY <1>3, <2>2, FS_AddElement
  <2>4. IsFiniteSet(1 .. Len(projects) + 1)
        /\ Cardinality(1 .. Len(projects) + 1) = Len(projects) + 1
    BY <2>2, FS_Interval
  <2>5. \A t \in Known \cup {u} : \E i \in 1 .. Len(projects) + 1 : p[i] = t
    BY <2>1 DEF InSeq
  <2>6. p \in Surjection(1 .. Len(projects) + 1, Known \cup {u})
    BY <2>1, <2>5, Fun_IsSurj
  <2>7. p \in Injection(1 .. Len(projects) + 1, Known \cup {u})
    BY <2>3, <2>4, <2>6, FS_SurjSameCardinalityImpliesInj
  <2>8. \A j, k \in 1 .. Len(projects) + 1 : p[j] = p[k] => j = k
    BY <2>7, Fun_InjectionProperties
  <2>9. DOMAIN p = 1 .. Len(projects) + 1
    BY <2>1
  <2> QED  BY <2>8, <2>9 DEF NoneTwice
<1> QED  BY <1>1, <1>2, <1>3

\* What is ahead of an iterator, after an insertion that does not relink the list: the
\* new project, or nothing more.
LEMMA AheadGrows ==
  ASSUME projects \in Seq(Uuids), NEW u \in Uuids, NEW h \in Handlers,
         u \in Known \/ Len(projects) < Buckets, projects' \in Inserted(u),
         handler'[h].cursor = handler[h].cursor, handler[h].cursor \in Known \cup {None}
  PROVE  Ahead(h) \subseteq Ahead(h)' /\ Ahead(h)' \subseteq Ahead(h) \cup ({u} \ Known)
<1>1. CASE u \in Known
  <2>1. projects' = projects
    BY <1>1 DEF Inserted
  <2> QED  BY <2>1 DEF Ahead
<1>2. CASE u \notin Known
  <2>0. PICK n \in Nat : n = Len(projects)
    OBVIOUS
  <2>1. PICK q, c : n = Len(projects) /\ q = projects' /\ c = handler[h].cursor
    BY <2>0
  <2>2. PICK i \in 0 .. n :
          /\ DOMAIN q = 1 .. (n + 1) /\ q[i + 1] = u
          /\ \A j \in 1 .. i : q[j] = projects[j]
          /\ \A j \in (i + 1) .. n : q[j + 1] = projects[j]
    BY <1>2, <2>1, InsertedAt
  <2>3. c # u
    BY <1>2, <2>1, ConstantsAssumption DEF Targets
  <2>4. DOMAIN projects = 1 .. n
    BY <2>1
  <2>5. ASSUME NEW x \in Ahead(h)
        PROVE  x \in Ahead(h)'
    <3>1. PICK j \in 1 .. n, k \in 1 .. n : k <= j /\ x = projects[j] /\ projects[k] = c
      BY <2>1, <2>4, <2>5 DEF Ahead
    <3>2. \E l \in 1 .. (n + 1) : /\ q[l] = projects[k]
                                  /\ l = IF k <= i THEN k ELSE k + 1
      <4>1. CASE k <= i
        BY <2>2, <3>1, <4>1
      <4>2. CASE k > i
        <5>1. k \in (i + 1) .. n
          BY <3>1, <4>2
        <5> QED  BY <2>2, <4>2, <5>1
      <4> QED  BY <4>1, <4>2
    <3>3. \E l \in 1 .. (n + 1) : /\ q[l] = projects[j]
                                  /\ l = IF j <= i THEN j ELSE j + 1
      <4>1. CASE j <= i
        BY <2>2, <3>1, <4>1
      <4>2. CASE j > i
        <5>1. j \in (i + 1) .. n
          BY <3>1, <4>2
        <5> QED  BY <2>2, <4>2, <5>1
      <4> QED  BY <4>1, <4>2
    <3>4. PICK a \in 1 .. (n + 1) : q[a] = c /\ a = IF k <= i THEN k ELSE k + 1
      BY <3>1, <3>2
    <3>5. PICK b \in 1 .. (n + 1) : q[b] = x /\ b = IF j <= i THEN j ELSE j + 1
      BY <3>1, <3>3
    <3>6. a \in 1 .. b
      BY <3>1, <3>4, <3>5
    <3>7. b \in DOMAIN q /\ \E l \in 1 .. b : q[l] = c
      BY <2>2, <3>4, <3>5, <3>6
    <3> QED  BY <2>1, <3>5, <3>7 DEF Ahead
  <2>6. ASSUME NEW x \in Ahead(h)', x # u
        PROVE  x \in Ahead(h)
    <3>1. PICK b \in 1 .. (n + 1), a \in 1 .. (n + 1) : a <= b /\ x = q[b] /\ q[a] = c
      BY <2>1, <2>2, <2>6 DEF Ahead
    <3>2. ASSUME NEW d \in 1 .. (n + 1), q[d] # u
          PROVE  \E j \in 1 .. n : projects[j] = q[d] /\ j = IF d <= i THEN d ELSE d - 1
      <4>1. CASE d <= i
        BY <2>2, <4>1
      <4>2. CASE d > i + 1
        <5>1. d - 1 \in (i + 1) .. n /\ (d - 1) + 1 = d
          BY <4>2
        <5> QED  BY <2>2, <4>2, <5>1
      <4> QED  BY <2>2, <3>2, <4>1, <4>2
    <3>3. PICK j \in 1 .. n : projects[j] = x /\ j = IF b <= i THEN b ELSE b - 1
      BY <2>6, <3>1, <3>2
    <3>4. PICK k \in 1 .. n : projects[k] = c /\ k = IF a <= i THEN a ELSE a - 1
      BY <2>3, <3>1, <3>2
    <3>5. b # i + 1 /\ a # i + 1
      BY <2>2, <2>3, <2>6, <3>1
    <3>6. k \in 1 .. j
      BY <3>1, <3>3, <3>4, <3>5
    <3> QED  BY <2>1, <2>4, <3>3, <3>4, <3>6 DEF Ahead
  <2> QED  BY <1>2, <2>5, <2>6
<1> QED  BY <1>1, <1>2

\* An iterator at its first node has all before it.
LEMMA AheadAtBegin ==
  ASSUME TypeOK, NEW h \in Handlers, UNCHANGED projects, handler'[h].cursor = Begin
  PROVE  Ahead(h)' = Known
<1>1. CASE projects = <<>>
  BY <1>1 DEF Ahead, Known, InSeq
<1>2. CASE projects # <<>>
  <2>1. 1 \in DOMAIN projects /\ \A j \in DOMAIN projects : 1 \in 1 .. j
    BY <1>2 DEF TypeOK
  <2>2. handler'[h].cursor = projects[1]
    BY <1>2 DEF Begin
  <2> QED  BY <2>1, <2>2 DEF Ahead, Known, InSeq
<1> QED  BY <1>1, <1>2

\* it++ leaves behind the node it was at, and no other.
LEMMA AheadMovesOn ==
  ASSUME TypeOK, NoneTwice(projects), NEW h \in Handlers, UNCHANGED projects,
         handler[h].cursor \in Known, handler'[h].cursor = After(handler[h].cursor)
  PROVE  /\ handler[h].cursor \in Ahead(h)
         /\ Ahead(h)' = Ahead(h) \ {handler[h].cursor}
<1>0. PICK n \in Nat : n = Len(projects)
  BY DEF TypeOK
<1>1. PICK u, q : n = Len(projects) /\ u = handler[h].cursor /\ q = projects
  BY <1>0
<1>2. DOMAIN q = 1 .. n /\ \A j, k \in 1 .. n : q[j] = q[k] => j = k
  BY <1>1 DEF TypeOK, NoneTwice
<1>3. PICK i \in 1 .. n : q[i] = u
  BY <1>1, <1>2 DEF Known, InSeq
<1>4. (CHOOSE k \in DOMAIN q : q[k] = u) = i
  BY <1>2, <1>3
<1>5. After(u) = IF i < n THEN q[i + 1] ELSE None
  BY <1>1, <1>4 DEF After
<1>6. \A j \in 1 .. n : q[j] # None
  BY <1>1, <1>2, KnownIsUuid DEF Known, InSeq
<1>7. Ahead(h) = {q[j] : j \in {j \in 1 .. n : i <= j}}
  <2>1. \A j \in 1 .. n : (\E k \in 1 .. j : q[k] = u) <=> i <= j
    BY <1>2, <1>3
  <2> QED  BY <1>1, <1>2, <2>1 DEF Ahead
<1>8. Ahead(h)' = {q[j] : j \in {j \in 1 .. n : i + 1 <= j}}
  <2>1. CASE i < n
    <3>1. \A j \in 1 .. n : (\E k \in 1 .. j : q[k] = q[i + 1]) <=> i + 1 <= j
      BY <1>2, <1>3, <2>1
    <3>2. handler'[h].cursor = q[i + 1]
      BY <1>1, <1>5, <2>1
    <3> QED  BY <1>1, <1>2, <3>1, <3>2 DEF Ahead
  <2>2. CASE ~(i < n)
    <3>1. handler'[h].cursor = None
      BY <1>1, <1>5, <2>2
    <3>2. \A j \in 1 .. n : ~ \E k \in 1 .. j : q[k] = None
      BY <1>6
    <3>3. \A j \in 1 .. n : ~(i + 1 <= j)
      BY <1>3, <2>2
    <3> QED  BY <1>1, <1>2, <3>1, <3>2, <3>3 DEF Ahead
  <2> QED  BY <2>1, <2>2
<1>9. u \in Ahead(h)
  BY <1>3, <1>7
<1>10. Ahead(h)' = Ahead(h) \ {u}
  BY <1>2, <1>3, <1>7, <1>8
<1> QED  BY <1>1, <1>9, <1>10

\* Steps that leave an iteration alone, or are none of its own.
LEMMA IterationStays ==
  ASSUME NEW h \in Handlers, Iterating(h), UNCHANGED projects,
         \/ handler'[h].pc # "visit"
         \/ handler'[h] = handler[h] /\ (phase' = phase \/ phase' # "serve")
  PROVE  Iterating(h)'
BY DEF Iterating, At, Ahead, InSeq, NoneTwice

\* An iteration that begins has everything before it.
LEMMA IterationBegins ==
  ASSUME IInv, NEW h \in Handlers, UNCHANGED projects,
         handler'[h].cursor = Begin, handler'[h].seen = <<>>, handler'[h].before = Known
  PROVE  Iterating(h)'
<1>1. Ahead(h)' = Known
  BY AheadAtBegin DEF IInv
<1>2. InSeq(handler'[h].seen) = {} /\ NoneTwice(handler'[h].seen)
  BY DEF InSeq, NoneTwice
<1> QED  BY <1>1, <1>2 DEF Iterating, InSeq, NoneTwice

\* A visit moves a project from those ahead to those passed.
LEMMA VisitIterates ==
  ASSUME IInv, IterationInv, NEW h \in Handlers, Visit(h)
  PROVE  Iterating(h)'
<1>1. PICK r, q, u : r = handler[h] /\ q = handler'[h] /\ u = r.cursor
  OBVIOUS
<1>2. /\ TypeOK /\ Local(h) /\ At(h, "visit") /\ r \in Locals /\ u \in Known /\ UNCHANGED projects
      /\ NoneTwice(projects) /\ Iterating(h)
  BY <1>1 DEF IInv, IterationInv, Visit, At, Local, TypeOK, memory
<1>3. /\ q.cursor = After(u) /\ q.seen = Append(r.seen, u)
      /\ q.before = r.before /\ q.rehashed = r.rehashed
  BY <1>1, <1>2 DEF Visit, Set, TypeOK, Locals
<1>4. u \in Ahead(h) /\ Ahead(h)' = Ahead(h) \ {u}
  BY <1>1, <1>2, <1>3, AheadMovesOn
<1>5. r.seen \in Seq(Uuids) /\ u \in Uuids
  BY <1>2, KnownIsUuid DEF Locals
<1>6. PICK s, n, t : s = r.seen /\ n = Len(s) /\ t = q.seen
  OBVIOUS
<1>7. /\ n \in Nat /\ DOMAIN s = 1 .. n /\ DOMAIN t = 1 .. (n + 1) /\ t[n + 1] = u
      /\ \A j \in 1 .. n : t[j] = s[j]
  BY <1>3, <1>5, <1>6
<1>8. InSeq(t) = InSeq(s) \cup {u}
  BY <1>7 DEF InSeq
<1>9. CASE ~r.rehashed
  <2>1. /\ r.before \subseteq InSeq(s) \cup Ahead(h) /\ InSeq(s) \cap Ahead(h) = {}
        /\ NoneTwice(s)
    BY <1>1, <1>2, <1>6, <1>9 DEF Iterating
  <2>2. u \notin InSeq(s)
    BY <1>4, <2>1
  <2>3. NoneTwice(t)
    BY <1>7, <2>1, <2>2 DEF NoneTwice, InSeq
  <2>4. q.before \subseteq InSeq(t) \cup Ahead(h)' /\ InSeq(t) \cap Ahead(h)' = {}
    BY <1>3, <1>4, <1>8, <2>1, <2>2
  <2> QED  BY <1>1, <1>6, <2>3, <2>4 DEF Iterating, InSeq, NoneTwice
<1>10. CASE r.rehashed
  BY <1>1, <1>3, <1>10 DEF Iterating
<1> QED  BY <1>2, <1>9, <1>10 DEF Locals

\* Another handler inserts a project.
LEMMA InsertIterates ==
  ASSUME IInv, IterationInv, NEW h \in Handlers, InsertProject(h)
  PROVE  IterationInv'
<1>1. PICK u \in Uuids : u = handler[h].target /\ projects' \in Inserted(u)
  BY DEF InsertProject, IInv, At, Local
<1>2. NoneTwice(projects)'
  <2>1. NoneTwice(projects')
    BY <1>1, InsertedOnce DEF IInv, TypeOK, IterationInv
  <2> QED  BY <2>1 DEF NoneTwice
<1>3. ASSUME NEW g \in Handlers
      PROVE  Iterating(g)'
  <2>1. CASE g = h
    <3>1. handler'[g].pc = "idle"
      BY <2>1, IdleIsLocal DEF InsertProject
    <3> QED  BY <3>1 DEF Iterating, At
  <2>2. CASE g # h
    <3>1. PICK r, q : r = handler[g] /\ q = handler'[g]
      OBVIOUS
    <3>2. r \in Locals /\ Iterating(g) /\ Local(g) /\ phase = "serve" /\ UNCHANGED phase
      BY <3>1 DEF IInv, TypeOK, IterationInv, InsertProject, At, startup
    <3>3. q = [r EXCEPT !.rehashed = r.rehashed \/ Len(projects) >= Buckets]
      BY <2>2, <3>1 DEF InsertProject
    <3>4. /\ q.pc = r.pc /\ q.cursor = r.cursor /\ q.seen = r.seen /\ q.before = r.before
          /\ q.rehashed = (r.rehashed \/ Len(projects) >= Buckets)
      BY <3>2, <3>3 DEF Locals
    <3>5. CASE At(g, "visit") /\ ~q.rehashed
      <4>1. ~r.rehashed /\ Len(projects) < Buckets
        <5>1. ~(r.rehashed \/ Len(projects) >= Buckets)
          BY <3>4, <3>5, Zenon
        <5>2. Len(projects) \in Nat /\ Buckets \in Nat
          BY ConstantsAssumption DEF IInv, TypeOK
        <5> QED  BY <5>1, <5>2
      <4>2. Ahead(g) \subseteq Ahead(g)' /\ Ahead(g)' \subseteq Ahead(g) \cup ({u} \ Known)
        BY <1>1, <3>1, <3>2, <3>4, <4>1, AheadGrows DEF IInv, TypeOK, Local
      <4>3. InSeq(r.seen) \subseteq Known
        BY <3>1, <3>2 DEF Local
      <4>4. /\ r.before \subseteq InSeq(r.seen) \cup Ahead(g) /\ InSeq(r.seen) \cap Ahead(g) = {}
            /\ NoneTwice(r.seen)
        BY <3>1, <3>2, <3>5, <4>1 DEF Iterating
      <4>5. r.before \subseteq InSeq(r.seen) \cup Ahead(g)' /\ InSeq(r.seen) \cap Ahead(g)' = {}
        BY <4>2, <4>3, <4>4
      <4> QED  BY <3>1, <3>4, <4>4, <4>5 DEF Iterating, InSeq, NoneTwice
    <3>6. CASE ~(At(g, "visit") /\ ~q.rehashed)
      BY <3>1, <3>2, <3>4, <3>6 DEF Iterating, At
    <3> QED  BY <3>5, <3>6
  <2> QED  BY <2>1, <2>2
<1> QED  BY <1>2, <1>3 DEF IterationInv

\* What one handler does when it does not insert: the others go on as they were.
LEMMA HandlerIterates ==
  ASSUME IInv, IterationInv, NEW h \in Handlers, NEW l, Set(h, l), UNCHANGED <<projects, phase>>,
         l.pc # "visit" \/ Iterating(h)'
  PROVE  IterationInv'
<1>1. handler'[h] = l /\ \A g \in Handlers \ {h} : handler'[g] = handler[g]
  BY DEF IInv, TypeOK, Set
<1>2. ASSUME NEW g \in Handlers
      PROVE  Iterating(g)'
  BY <1>1, IterationStays DEF IterationInv
<1>3. NoneTwice(projects)'
  BY DEF IterationInv, NoneTwice
<1> QED  BY <1>2, <1>3 DEF IterationInv

\* The calls that begin.
LEMMA CallIterates ==
  ASSUME IInv, IterationInv, NEW h \in Handlers,
         \/ CreateProject(h) \/ GetProjects(h)
         \/ \E s \in Service : GetDatasetFromAllProjects(h, s)
         \/ \E s \in Service, u \in told \cup {Unknown} : GetDatasetFromSpecificProjects(h, s, u)
         \/ \E s \in Service, u \in told \cup {Unknown}, d \in Data : Upload(h, s, u, d)
  PROVE  IterationInv'
<1> USE DEF memory, startup
<1>1. /\ Idle \in Locals /\ Idle.seen = <<>> /\ Idle.pc = "idle" /\ DOMAIN handler = Handlers
      /\ UNCHANGED <<projects, phase>>
  BY IdleIsLocal DEF IInv, TypeOK, CreateProject, GetProjects, GetDatasetFromAllProjects,
     GetDatasetFromSpecificProjects, Upload
<1>2. CASE CreateProject(h)
  <2>1. PICK u : Begins(h, [Idle EXCEPT !.pc = "createFile", !.call = "create", !.target = u])
    BY <1>2 DEF CreateProject
  <2>2. [Idle EXCEPT !.pc = "createFile", !.call = "create", !.target = u].pc = "createFile"
    BY <1>1 DEF Idle
  <2> QED  BY <1>1, <2>1, <2>2, HandlerIterates DEF Begins
<1>3. CASE GetProjects(h)
  <2>1. PICK l : l = [Idle EXCEPT !.pc = "visit", !.call = "list", !.cursor = Begin,
                                  !.before = Known]
    OBVIOUS
  <2>2. Set(h, l) /\ l.cursor = Begin /\ l.seen = <<>> /\ l.before = Known
    BY <1>3, <2>1 DEF GetProjects, Begins, Idle
  <2>3. handler'[h] = l
    BY <1>1, <2>2 DEF Set
  <2>4. Iterating(h)'
    BY <1>1, <2>2, <2>3, IterationBegins
  <2> QED  BY <1>1, <2>2, <2>4, HandlerIterates
<1>4. ASSUME NEW s \in Service, GetDatasetFromAllProjects(h, s)
      PROVE  IterationInv'
  <2>1. PICK l : l = [Idle EXCEPT !.pc = "visit", !.call = "query", !.service = s,
                                  !.cursor = Begin, !.before = Known]
    OBVIOUS
  <2>2. Set(h, l) /\ l.cursor = Begin /\ l.seen = <<>> /\ l.before = Known
    BY <1>4, <2>1 DEF GetDatasetFromAllProjects, Begins, Idle
  <2>3. handler'[h] = l
    BY <1>1, <2>2 DEF Set
  <2>4. Iterating(h)'
    BY <1>1, <2>2, <2>3, IterationBegins
  <2> QED  BY <1>1, <2>2, <2>4, HandlerIterates
<1>5. ASSUME NEW s \in Service, NEW u, GetDatasetFromSpecificProjects(h, s, u)
      PROVE  IterationInv'
  <2>1. CASE u \in Known
    <3>1. PICK l : l = [Idle EXCEPT !.pc = "next", !.call = "query", !.service = s,
                                    !.found = {u} \X indexed[u]]
      OBVIOUS
    <3>2. l.pc = "next"
      BY <3>1 DEF Idle
    <3>3. Begins(h, l)
      BY <1>5, <2>1, <3>1 DEF GetDatasetFromSpecificProjects
    <3> QED  BY <1>1, <3>2, <3>3, HandlerIterates DEF Begins
  <2>2. CASE u \notin Known
    BY <1>1, <1>5, <2>2, HandlerIterates DEF GetDatasetFromSpecificProjects, Begins
  <2> QED  BY <2>1, <2>2
<1>6. ASSUME NEW s \in Service, NEW u, NEW d \in Data, Upload(h, s, u, d)
      PROVE  IterationInv'
  <2>1. PICK l : l = [Idle EXCEPT !.pc = "find", !.call = "upload", !.service = s,
                                  !.target = u, !.data = d]
    OBVIOUS
  <2>2. l.pc = "find"
    BY <2>1 DEF Idle
  <2>3. Begins(h, l)
    BY <1>6, <2>1 DEF Upload
  <2> QED  BY <1>1, <2>2, <2>3, HandlerIterates DEF Begins
<1> QED  BY <1>2, <1>3, <1>4, <1>5, <1>6

\* The steps within a call, which go on to another label of it.
LEMMA StepIterates ==
  ASSUME IInv, IterationInv, NEW h \in Handlers,
         \/ CreateFile(h) \/ WriteProjectname(h) \/ WriteProjectFrameId(h) \/ FailCreation(h)
         \/ EndVisit(h)
         \/ NextDataset(h) \/ FindAccessor(h) \/ GetHdf5File(h) \/ GetHdf5FileMutex(h)
         \/ Lock(h) \/ UseFile(h) \/ AddDataset(h)
  PROVE  IterationInv'
<1>1. UNCHANGED <<projects, phase>>
  BY DEF CreateFile, WriteProjectname, WriteProjectFrameId, FailCreation, EndVisit, NextDataset,
     FindAccessor, GetHdf5File, GetHdf5FileMutex, Lock, UseFile, AddDataset, memory, startup
<1>2. handler[h] \in Locals /\ Idle.pc = "idle"
  BY IdleIsLocal DEF IInv, TypeOK
<1>3. \E l : Set(h, l) /\ l.pc # "visit"
  <2>1. CASE CreateFile(h) \/ WriteProjectname(h) \/ WriteProjectFrameId(h)
    BY <1>2, <2>1 DEF CreateFile, WriteProjectname, WriteProjectFrameId, Goto, Locals
  <2>2. CASE FailCreation(h) \/ EndVisit(h)
    BY <1>2, <2>2 DEF FailCreation, EndVisit, Goto, Locals
  <2>3. CASE NextDataset(h)
    <3>1. CASE handler[h].found = {}
      BY <1>2, <2>3, <3>1 DEF NextDataset
    <3>2. CASE handler[h].found # {}
      <4>1. PICK f : Set(h, [handler[h] EXCEPT !.pc = "find", !.target = f[1], !.data = f[2],
                                               !.found = @ \ {f}])
        BY <2>3, <3>2 DEF NextDataset
      <4>2. [handler[h] EXCEPT !.pc = "find", !.target = f[1], !.data = f[2],
                               !.found = @ \ {f}].pc = "find"
        BY <1>2 DEF Locals
      <4> QED  BY <4>1, <4>2
    <3> QED  BY <3>1, <3>2
  <2>4. CASE FindAccessor(h)
    BY <1>2, <2>4 DEF FindAccessor, Goto, Locals
  <2>5. CASE GetHdf5File(h)
    <3>1. PICK l : l = [handler[h] EXCEPT !.pc = "askMutex", !.file = Hdf5Of(handler[h].target)]
      OBVIOUS
    <3>2. l.pc = "askMutex"
      BY <1>2, <3>1 DEF Locals
    <3> QED  BY <2>5, <3>1, <3>2 DEF GetHdf5File
  <2>6. CASE GetHdf5FileMutex(h)
    BY <1>2, <2>6 DEF GetHdf5FileMutex, Goto, Locals
  <2>7. CASE Lock(h)
    BY <1>2, <2>7 DEF Lock, Goto, Locals
  <2>8. CASE UseFile(h)
    BY <1>2, <2>8 DEF UseFile, Goto, Locals
  <2>9. CASE AddDataset(h)
    BY <1>2, <2>9 DEF AddDataset
  <2> QED  BY <2>1, <2>2, <2>3, <2>4, <2>5, <2>6, <2>7, <2>8, <2>9
<1> QED  BY <1>1, <1>3, HandlerIterates

\* No handler iterates while there is no server.
LEMMA NobodyIterates ==
  ASSUME NoneTwice(projects'), \A h \in Handlers : handler'[h].pc # "visit" \/ phase' # "serve"
  PROVE  IterationInv'
BY DEF IterationInv, Iterating, At, NoneTwice

LEMMA StartupIterates ==
  ASSUME IInv, IterationInv, Restart \/ StartupStep \/ (\E h \in Handlers : LockNothing(h))
  PROVE  IterationInv'
<1> USE DEF memory, startup
<1>1. CASE Restart
  <2>1. NoneTwice(projects') /\ phase' = "load"
    BY <1>1 DEF Restart, NoneTwice
  <2> QED  BY <2>1, NobodyIterates
<1>2. CASE RecreateProject
  <2>1. phase' = "load"
    BY <1>2 DEF RecreateProject
  <2>2. NoneTwice(projects')
    <3>1. CASE UNCHANGED projects
      BY <3>1 DEF IterationInv
    <3>2. CASE ~UNCHANGED projects
      <4>1. PICK f \in unread : f \notin Foreign /\ projects' \in Inserted(f)
        BY <1>2, <3>2 DEF RecreateProject
      <4>2. f \in Uuids
        BY <4>1 DEF IInv, TypeOK
      <4> QED  BY <4>1, <4>2, InsertedOnce DEF IterationInv, IInv, TypeOK
    <3> QED  BY <3>1, <3>2
  <2> QED  BY <2>1, <2>2, NobodyIterates
<1>3. CASE EndLoading \/ MakeService \/ BuildAndStart
  <2>1. UNCHANGED <<projects, handler>> /\ phase \in {"load", "services"}
    BY <1>3 DEF EndLoading, MakeService, BuildAndStart
  <2>2. \A h \in Handlers : handler'[h].pc # "visit"
    BY <2>1, IdleIsLocal DEF IInv, StartupInv
  <2> QED  BY <2>1, <2>2, NobodyIterates DEF IterationInv
<1>4. ASSUME NEW h \in Handlers, LockNothing(h)
      PROVE  IterationInv'
  <2>1. UNCHANGED projects /\ phase' = "down"
    BY <1>4 DEF LockNothing
  <2> QED  BY <2>1, NobodyIterates DEF IterationInv
<1> QED  BY <1>1, <1>2, <1>3, <1>4 DEF StartupStep

LEMMA IterationHolds == Spec => []IterationInv
<1>1. Init => IterationInv
  <2> SUFFICES ASSUME Init PROVE IterationInv
    OBVIOUS
  <2>1. NoneTwice(projects) /\ \A h \in Handlers : ~At(h, "visit")
    BY DEF Init, NoneTwice, At
  <2> QED  BY <2>1 DEF IterationInv, Iterating
<1>2. IInv /\ IterationInv /\ [Next]_vars => IterationInv'
  <2> SUFFICES ASSUME IInv, IterationInv, [Next]_vars PROVE IterationInv'
    OBVIOUS
  <2>1. CASE UNCHANGED vars
    <3>1. UNCHANGED <<projects, handler, phase>>
      BY <2>1 DEF vars
    <3>2. \A h \in Handlers : Iterating(h)'
      BY <3>1, IterationStays DEF IterationInv
    <3> QED  BY <3>1, <3>2 DEF IterationInv, NoneTwice
  <2>2. ASSUME NEW h \in Handlers, Visit(h)
        PROVE  IterationInv'
    <3>1. PICK l : Set(h, l)
      BY <2>2 DEF Visit
    <3>2. UNCHANGED <<projects, phase>>
      BY <2>2 DEF Visit, memory, startup
    <3> QED  BY <2>2, <3>1, <3>2, VisitIterates, HandlerIterates
  <2>3. CASE Restart \/ StartupStep
    BY <2>3, StartupIterates
  <2>4. ASSUME NEW h \in Handlers, CreationStep(h) \/ EndVisit(h) \/ AccessStep(h)
        PROVE  IterationInv'
    BY <2>4, InsertIterates, StepIterates, StartupIterates DEF CreationStep, AccessStep
  <2>5. ASSUME NEW h \in Handlers,
               \/ CreateProject(h) \/ GetProjects(h)
               \/ \E s \in Service :
                    \/ GetDatasetFromAllProjects(h, s)
                    \/ \E u \in told \cup {Unknown} :
                         \/ GetDatasetFromSpecificProjects(h, s, u)
                         \/ \E d \in Data : Upload(h, s, u, d)
        PROVE  IterationInv'
    BY <2>5, CallIterates
  <2> QED  BY <2>1, <2>2, <2>3, <2>4, <2>5 DEF Next
<1> QED  BY <1>1, <1>2, Invariance, PTL DEF Spec

\* GetProjects and a query over all projects pass every project there was when they
\* began, once, while other handlers insert into the map, for any number of projects and
\* handlers, as long as nothing relinks the list (Core::getProjects, Core::getDataset).
THEOREM Iteration == Spec => []IterationComplete
<1>1. IInv /\ IterationInv => IterationComplete
  <2> SUFFICES ASSUME IInv, IterationInv,
                      NEW h \in Handlers, At(h, "visit"), ~handler[h].rehashed
               PROVE  /\ handler[h].before \subseteq InSeq(handler[h].seen) \cup Ahead(h)
                      /\ InSeq(handler[h].seen) \cap Ahead(h) = {}
                      /\ Cardinality(InSeq(handler[h].seen)) = Len(handler[h].seen)
    BY DEF IterationComplete
  <2>1. /\ handler[h].before \subseteq InSeq(handler[h].seen) \cup Ahead(h)
        /\ InSeq(handler[h].seen) \cap Ahead(h) = {} /\ NoneTwice(handler[h].seen)
    BY DEF IterationInv, Iterating
  <2>2. handler[h].seen \in Seq(Uuids)
    BY DEF IInv, TypeOK, Locals
  <2> QED  BY <2>1, <2>2, LengthCounts
<1> QED  BY <1>1, Invariance, IterationHolds, PTL

=============================================================================
