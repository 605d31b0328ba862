--------------------------- MODULE DatabaseProofs ---------------------------
(***************************************************************************)
(* The theorems about Database, for every set of owners, keys, values and   *)
(* tasks, every number of revisions and every backup.                       *)
(***************************************************************************)
EXTENDS Database, TLAPS

Memory == [Owners -> Copies \cup {Absent}]
Heap == [Owners -> [Copies -> Dict]]
Task == [phase : {"idle", "sleeping", "writing", "written", "failed"}, box : Kept]

(* At most one task saves, the one save knows of; a file needs none.        *)
OneTask ==
    /\ \A t \in Tasks : t # current => tasks[t].phase = "idle"
    /\ current # 0 => tasks[current].phase # "idle"
    /\ ~redis => current = 0
    /\ ~up => lastSave = "none"

(* How far a change that save has accepted has come.                        *)
OnTheWay ==
    up /\ lastSave = "ok" /\ ~missed =>
        /\ current = 0 \/ tasks[current].phase = "written"
              => stored.content = ContentOf(mem, heap)
        /\ current # 0 /\ tasks[current].phase = "writing"
              => tasks[current].box.content = ContentOf(mem, heap)

(* What is being written is not older than what is stored.                  *)
InOrder ==
    /\ stored.at <= saves
    /\ \A t \in Tasks : tasks[t].phase = "writing" =>
          stored.at <= tasks[t].box.at /\ tasks[t].box.at <= saves

IInv == TypeOK /\ OneTask /\ OnTheWay /\ InOrder

-----------------------------------------------------------------------------
(* Types.                                                                   *)

LEMMA ContentType ==
    ASSUME NEW m \in Memory, NEW h \in Heap
    PROVE  ContentOf(m, h) \in Content
<1>1. \A o \in Owners : m[o] # Absent => h[o][m[o]] \in Dict
  BY DEF Memory, Heap
<1> QED
  BY <1>1 DEF ContentOf, Content

LEMMA KeptRead ==
    ASSUME NEW b \in Kept
    PROVE  b.content \in Content \cup {TORN} /\ b.at \in 0..MaxSaves
BY DEF Kept

LEMMA KeptMade ==
    ASSUME NEW c \in Content \cup {TORN}, NEW n \in 0..MaxSaves
    PROVE  [content |-> c, at |-> n] \in Kept
BY DEF Kept

LEMMA KeptTorn ==
    ASSUME NEW b \in Kept
    PROVE  /\ [b EXCEPT !.content = TORN] \in Kept
           /\ [b EXCEPT !.content = TORN].at = b.at
BY DEF Kept

LEMMA EmptyTypes ==
    /\ Nothing \in Memory
    /\ NoKeys \in Dict
    /\ [o \in Owners |-> [n \in Copies |-> NoKeys]] \in Heap
    /\ NoBox \in Kept
    /\ NoTasks \in [Tasks -> Task]
    /\ \A t \in Tasks : NoTasks[t].phase = "idle"
<1>1. NoKeys \in Dict
  BY DEF NoKeys, Dict
<1>2. Nothing \in Memory /\ Nothing \in Content
  BY DEF Nothing, Memory, Content
<1>3. NoBox \in Kept
  BY <1>2, SavesAssumption DEF NoBox, Kept
<1> QED
  BY <1>1, <1>2, <1>3 DEF Heap, NoTasks, Task

LEMMA TaskMoves ==
    ASSUME NEW ts \in [Tasks -> Task], NEW t \in Tasks,
           NEW p \in {"idle", "sleeping", "writing", "written", "failed"}
    PROVE  /\ [ts EXCEPT ![t].phase = p] \in [Tasks -> Task]
           /\ [ts EXCEPT ![t].phase = p][t].phase = p
           /\ [ts EXCEPT ![t].phase = p][t].box = ts[t].box
           /\ \A u \in Tasks : u # t => [ts EXCEPT ![t].phase = p][u] = ts[u]
BY Zenon DEF Task

LEMMA TaskSet ==
    ASSUME NEW ts \in [Tasks -> Task], NEW t \in Tasks, NEW b \in Kept,
           NEW p \in {"idle", "sleeping", "writing", "written", "failed"}
    PROVE  /\ [ts EXCEPT ![t] = [phase |-> p, box |-> b]] \in [Tasks -> Task]
           /\ [ts EXCEPT ![t] = [phase |-> p, box |-> b]][t] = [phase |-> p, box |-> b]
           /\ \A u \in Tasks : u # t =>
                 [ts EXCEPT ![t] = [phase |-> p, box |-> b]][u] = ts[u]
BY Zenon DEF Task

(* What save leaves behind.                                                 *)
MemoryTypes ==
    /\ heap \in Heap
    /\ mem \in Memory
    /\ revs \in Seq(Memory)
    /\ Len(revs) <= MaxRevisions
    /\ due \in BOOLEAN

SavingTypes ==
    /\ tasks \in [Tasks -> Task]
    /\ current \in Tasks \cup {0}
    /\ stored \in Kept
    /\ saves \in 0..MaxSaves
    /\ lastSave \in {"none", "ok", "false", "raised"}
    /\ missed \in BOOLEAN

LEMMA TypeParts ==
    TypeOK <=> /\ redis \in BOOLEAN /\ up \in BOOLEAN /\ broken \subseteq Values
               /\ MemoryTypes /\ SavingTypes
BY DEF TypeOK, MemoryTypes, SavingTypes, Heap, Memory, Task

LEMMA SaveMemoryTypes ==
    ASSUME TypeOK, NEW m \in Memory, NEW h \in Heap, Save(m, h)
    PROVE  MemoryTypes'
<1> USE RevisionsAssumption
<1>0. MemoryTypes
  BY TypeParts
<1>1. heap' \in Heap
  <2>1. heap' = Collected(h)
    BY DEF Save
  <2> QED
    BY <2>1, EmptyTypes DEF Collected, Heap
<1>2. CASE Serializable(m, h)
  <2>1. mem' = m /\ Revise(m)
    BY <1>2 DEF Save
  <2>2. due' \in BOOLEAN
    BY <2>1 DEF Revise
  <2>3. revs' \in Seq(Memory) /\ Len(revs') <= MaxRevisions
    BY <1>0, <2>1 DEF Revise, MemoryTypes
  <2> QED
    BY <1>1, <2>1, <2>2, <2>3 DEF MemoryTypes
<1>3. CASE ~Serializable(m, h)
  <2>1. Rescue(m, h)
    BY <1>3 DEF Save
  <2>2. due' \in BOOLEAN
    BY <1>0, <2>1 DEF Rescue, MemoryTypes
  <2>3. CASE mem' = m /\ revs' = <<>>
    BY <1>1, <2>2, <2>3 DEF MemoryTypes
  <2>4. ASSUME NEW i \in DOMAIN revs, mem' = revs[i], revs' = SubSeq(revs, 1, i - 1)
        PROVE  MemoryTypes'
    <3>1. i \in 1..Len(revs)
      BY <1>0, <2>4 DEF MemoryTypes
    <3>2. revs' \in Seq(Memory) /\ Len(revs') = i - 1 /\ mem' \in Memory
      BY <1>0, <2>4, <3>1 DEF MemoryTypes
    <3> QED
      BY <1>0, <1>1, <2>2, <3>1, <3>2 DEF MemoryTypes
  <2> QED
    BY <2>1, <2>3, <2>4 DEF Rescue
<1> QED
  BY <1>2, <1>3

(* save, as far as storing goes: what it does to a file, to the task, to    *)
(* nothing.                                                                 *)
LEMMA SaveEnds ==
    ASSUME TypeOK, NEW m \in Memory, NEW h \in Heap, Save(m, h)
    PROVE  \/ /\ ~redis /\ lastSave' = "ok" /\ mem' = m
              /\ stored' = [content |-> ContentOf(m, h), at |-> saves + 1]
              /\ saves' = saves + 1 /\ tasks' = tasks /\ current' = current
              /\ missed' = missed
           \/ /\ lastSave' \in {"false", "raised"} /\ saves' = saves
              /\ stored' \in {stored, [stored EXCEPT !.content = TORN]}
              /\ tasks' = tasks /\ current' = current /\ missed' = missed
           \/ /\ redis /\ lastSave' = "ok" /\ mem' = m
              /\ saves' = saves + 1 /\ stored' = stored
              /\ current # 0 /\ tasks' = tasks /\ current' = current
              /\ missed' = (tasks[current].phase # "sleeping")
           \/ /\ redis /\ lastSave' = "ok" /\ mem' = m
              /\ saves' = saves + 1 /\ stored' = stored
              /\ current = 0 /\ missed' = FALSE
              /\ \E t \in Tasks : StartTask(t)
BY DEF Save, SaveToFile, SaveToRedis, Returns, Rescue, saving

LEMMA SaveSavingTypes ==
    ASSUME TypeOK, NEW m \in Memory, NEW h \in Heap, Save(m, h)
    PROVE  SavingTypes'
<1> USE SavesAssumption
<1>0. SavingTypes /\ saves < MaxSaves
  BY TypeParts DEF Save
<1>1. saves + 1 \in 0..MaxSaves
  BY <1>0 DEF SavingTypes
<1>2. [content |-> ContentOf(m, h), at |-> saves + 1] \in Kept
  BY <1>1, ContentType, KeptMade
<1>3. [stored EXCEPT !.content = TORN] \in Kept
  BY <1>0, KeptTorn DEF SavingTypes
<1>4. stored' \in Kept /\ saves' \in 0..MaxSaves
      /\ lastSave' \in {"none", "ok", "false", "raised"}
  BY <1>0, <1>1, <1>2, <1>3, SaveEnds DEF SavingTypes
<1>5. missed' \in BOOLEAN
  BY <1>0, SaveEnds DEF SavingTypes
<1>6. tasks' \in [Tasks -> Task] /\ current' \in Tasks \cup {0}
  <2>1. CASE tasks' = tasks /\ current' = current
    BY <1>0, <2>1 DEF SavingTypes
  <2>2. ASSUME NEW t \in Tasks, StartTask(t)
        PROVE  tasks' \in [Tasks -> Task] /\ current' \in Tasks \cup {0}
    <3>1. tasks' = [tasks EXCEPT ![t].phase = "sleeping"] /\ current' = t
      BY <2>2 DEF StartTask
    <3>2. tasks' \in [Tasks -> Task]
      BY <1>0, <3>1, TaskMoves DEF SavingTypes
    <3> QED
      BY <3>1, <3>2
  <2> QED
    BY <2>1, <2>2, SaveEnds
<1> QED
  BY <1>4, <1>5, <1>6 DEF SavingTypes

(* Whatever a module does to the database is a save of some memory.         *)
LEMMA ChangesSave ==
    ASSUME TypeOK,
           \/ \E o \in Owners, k \in Keys, v \in Values : Set(o, k, v)
           \/ \E o \in Owners : Forget(o)
           \/ \E c \in Backups : Replace(c)
    PROVE  /\ up /\ redis' = redis /\ up' = up /\ broken' = broken
           /\ \E m \in Memory, h \in Heap : Save(m, h)
<1>0. mem \in Memory /\ heap \in Heap /\ NoKeys \in Dict
  BY TypeParts, EmptyTypes DEF MemoryTypes
<1>1. ASSUME NEW o \in Owners, NEW k \in Keys, NEW v \in Values, Set(o, k, v)
      PROVE  \E m \in Memory, h \in Heap : Save(m, h)
  <2>1. CASE mem[o] # Absent /\ Save(mem, [heap EXCEPT ![o][mem[o]][k] = v])
    <3>1. heap[o][mem[o]] \in Dict /\ mem[o] \in Copies
      BY <1>0, <2>1 DEF Memory, Heap
    <3>2. [heap EXCEPT ![o][mem[o]][k] = v] \in Heap
      BY <1>0, <3>1 DEF Heap, Dict
    <3> QED
      BY <1>0, <2>1, <3>2
  <2>2. ASSUME NEW n \in Copies,
               Save([mem EXCEPT ![o] = n],
                    [heap EXCEPT ![o][n] = [NoKeys EXCEPT ![k] = v]])
        PROVE  \E m \in Memory, h \in Heap : Save(m, h)
    <3>1. [NoKeys EXCEPT ![k] = v] \in Dict
      BY <1>0 DEF Dict
    <3>2. /\ [mem EXCEPT ![o] = n] \in Memory
          /\ [heap EXCEPT ![o][n] = [NoKeys EXCEPT ![k] = v]] \in Heap
      BY <1>0, <3>1 DEF Memory, Heap
    <3> QED
      BY <2>2, <3>2
  <2> QED
    BY <1>1, <2>1, <2>2 DEF Set
<1>2. ASSUME NEW o \in Owners, Forget(o)
      PROVE  \E m \in Memory, h \in Heap : Save(m, h)
  <2>1. [mem EXCEPT ![o] = Absent] \in Memory
    BY <1>0 DEF Memory
  <2> QED
    BY <1>0, <1>2, <2>1 DEF Forget
<1>3. ASSUME NEW c \in Backups, Replace(c)
      PROVE  \E m \in Memory, h \in Heap : Save(m, h)
  <2>1. PICK new \in [Owners -> Copies] :
          Save([o \in Owners |-> IF c[o] = Absent THEN Absent ELSE new[o]],
               [o \in Owners |-> IF c[o] = Absent THEN heap[o]
                                 ELSE [heap[o] EXCEPT ![new[o]] = c[o]]])
    BY <1>3 DEF Replace
  <2>2. c \in Content
    BY BackupsAssumption
  <2>3. [o \in Owners |-> IF c[o] = Absent THEN Absent ELSE new[o]] \in Memory
    BY DEF Memory
  <2>4. ASSUME NEW o \in Owners
        PROVE  (IF c[o] = Absent THEN heap[o]
                ELSE [heap[o] EXCEPT ![new[o]] = c[o]]) \in [Copies -> Dict]
    BY <1>0, <2>2 DEF Heap, Content
  <2>5. [o \in Owners |-> IF c[o] = Absent THEN heap[o]
                          ELSE [heap[o] EXCEPT ![new[o]] = c[o]]] \in Heap
    BY <2>4 DEF Heap
  <2> QED
    BY <2>1, <2>3, <2>5
<1>4. up /\ redis' = redis /\ up' = up /\ broken' = broken
  BY DEF Set, Forget, Replace
<1> QED
  BY <1>1, <1>2, <1>3, <1>4

LEMMA TypeStep ==
    ASSUME TypeOK, [Next]_vars
    PROVE  TypeOK'
<1>0. /\ redis \in BOOLEAN /\ up \in BOOLEAN /\ broken \subseteq Values
      /\ MemoryTypes /\ SavingTypes
  BY TypeParts
<1>1. CASE \/ \E o \in Owners, k \in Keys, v \in Values : Set(o, k, v)
           \/ \E o \in Owners : Forget(o)
           \/ \E c \in Backups : Replace(c)
  BY <1>0, <1>1, ChangesSave, SaveMemoryTypes, SaveSavingTypes DEF TypeOK, MemoryTypes,
     SavingTypes, Heap, Memory, Task
<1>2. CASE UNCHANGED <<redis, up, saving, stored, saves, lastSave, missed>>
           /\ (UNCHANGED <<heap, mem, revs>> /\ broken' \subseteq Values
               /\ due' \in BOOLEAN)
  BY <1>0, <1>2 DEF TypeOK, MemoryTypes, SavingTypes, Heap, Memory, Task, saving
<1>3. ASSUME NEW v \in Values, Spoil(v) \/ Mend(v)
      PROVE  TypeOK'
  BY <1>0, <1>2, <1>3 DEF Spoil, Mend, persistent, MemoryTypes
<1>4. CASE RevisionDue
  BY <1>0, <1>2, <1>4 DEF RevisionDue, persistent
<1>5. ASSUME NEW t \in Tasks, Snapshot(t)
      PROVE  TypeOK'
  <2>1. tasks' \in [Tasks -> Task]
    <3>1. PICK b \in Kept : b = [content |-> ContentOf(mem, heap), at |-> saves]
      BY <1>0, ContentType, KeptMade DEF MemoryTypes, SavingTypes
    <3>2. CASE tasks' = [tasks EXCEPT ![t].phase = "failed"]
      BY <1>0, <3>2, TaskMoves DEF SavingTypes
    <3>3. CASE tasks' = [tasks EXCEPT ![t] = [phase |-> "writing", box |-> b]]
      BY <1>0, <3>3, TaskSet DEF SavingTypes
    <3> QED
      BY <1>5, <3>1, <3>2, <3>3 DEF Snapshot
  <2>2. missed' \in BOOLEAN
    BY <1>0, <1>5 DEF Snapshot, SavingTypes
  <2> QED
    BY <1>0, <1>5, <2>1, <2>2 DEF Snapshot, TypeOK, MemoryTypes, SavingTypes, Heap,
       Memory, Task, persistent, memory
<1>6. ASSUME NEW t \in Tasks, Publish(t)
      PROVE  TypeOK'
  <2>1. tasks' \in [Tasks -> Task]
    <3>1. PICK p \in {"written", "failed"} :
            tasks' = [tasks EXCEPT ![t] = [phase |-> p, box |-> NoBox]]
      BY <1>6 DEF Publish
    <3> QED
      BY <1>0, <3>1, EmptyTypes, TaskSet DEF SavingTypes
  <2>2. stored' \in Kept
    BY <1>0, <1>6 DEF Publish, SavingTypes, Task
  <2> QED
    BY <1>0, <1>6, <2>1, <2>2 DEF Publish, TypeOK, MemoryTypes, SavingTypes, Heap,
       Memory, Task, memory
<1>7. ASSUME NEW t \in Tasks, SaveDone(t)
      PROVE  TypeOK'
  <2>1. tasks' \in [Tasks -> Task]
    BY <1>0, <1>7, TaskMoves DEF SaveDone, SavingTypes
  <2> QED
    BY <1>0, <1>7, <2>1 DEF SaveDone, TypeOK, MemoryTypes, SavingTypes, Heap,
       Memory, Task, memory, persistent
<1>8. CASE Crash
  <2>1. stored' \in Kept
    BY <1>0, <1>8, KeptTorn DEF Crash, SavingTypes
  <2>2. MemoryTypes'
    BY <1>8, EmptyTypes, RevisionsAssumption DEF Crash, EmptyMemory, MemoryTypes
  <2>3. broken' = {} /\ up' \in BOOLEAN /\ redis' \in BOOLEAN
    BY <1>0, <1>8 DEF Crash, EmptyMemory
  <2>4. SavingTypes'
    BY <1>0, <1>8, <2>1, EmptyTypes DEF Crash, SavingTypes
  <2> QED
    BY <2>2, <2>3, <2>4 DEF TypeOK, MemoryTypes, SavingTypes, Heap, Memory, Task
<1>9. CASE Restart
  <2>1. ASSUME NEW c \in Content, Loads(c)
        PROVE  heap' \in Heap /\ mem' \in Memory
    <3>1. \A o \in Owners : c[o] # Absent => c[o] \in Dict
      BY DEF Content
    <3> QED
      BY <2>1, <3>1, EmptyTypes, CopiesAssumption DEF Loads, Heap, Memory
  <2>2. Nothing \in Content
    BY DEF Nothing, Content
  <2>3. stored.content # TORN => stored.content \in Content
    BY <1>0, KeptRead DEF SavingTypes
  <2>4. heap' \in Heap /\ mem' \in Memory
    BY <1>9, <2>1, <2>2, <2>3 DEF Restart
  <2>5. up' \in BOOLEAN
    BY <1>9 DEF Restart
  <2> QED
    BY <1>0, <1>9, <2>4, <2>5 DEF Restart, TypeOK, MemoryTypes, SavingTypes, Heap,
       Memory, Task, persistent, saving
<1>10. CASE UNCHANGED vars
  BY <1>0, <1>2, <1>10 DEF vars, saving, MemoryTypes
<1> QED
  BY <1>1, <1>3, <1>4, <1>5, <1>6, <1>7, <1>8, <1>9, <1>10 DEF Next, RedisTask

-----------------------------------------------------------------------------
(* The task, and what it writes.                                            *)

(* A step of the task: from which phase, to which, with which box.          *)
LEMMA TaskSteps ==
    ASSUME TypeOK, NEW t \in Tasks, Snapshot(t) \/ Publish(t) \/ SaveDone(t)
    PROVE  /\ up /\ up' = up /\ redis' = redis /\ saves' = saves
           /\ heap' = heap /\ mem' = mem /\ lastSave' = lastSave
           /\ \A u \in Tasks : u # t => tasks'[u] = tasks[u]
           /\ \/ /\ tasks[t].phase = "sleeping" /\ tasks'[t].phase = "writing"
                 /\ tasks'[t].box.content = ContentOf(mem, heap)
                 /\ tasks'[t].box.at = saves
                 /\ stored' = stored /\ current' = current
              \/ /\ tasks[t].phase \in {"sleeping", "writing"}
                 /\ tasks'[t].phase = "failed"
                 /\ stored' = stored /\ current' = current /\ missed' = missed
              \/ /\ tasks[t].phase = "writing" /\ tasks'[t].phase = "written"
                 /\ stored' = tasks[t].box /\ current' = current /\ missed' = missed
              \/ /\ tasks[t].phase = "written" /\ tasks'[t].phase = "idle"
                 /\ stored' = stored /\ current' = 0 /\ missed' = missed
<1>0. tasks \in [Tasks -> Task]
  BY TypeParts DEF SavingTypes
<1>1. /\ up /\ up' = up /\ redis' = redis /\ saves' = saves
      /\ heap' = heap /\ mem' = mem /\ lastSave' = lastSave
  BY DEF Snapshot, Publish, SaveDone, persistent, memory
<1>2. CASE Snapshot(t)
  <2>1. stored' = stored /\ current' = current /\ tasks[t].phase = "sleeping"
    BY <1>2 DEF Snapshot, persistent
  <2>2. CASE tasks' = [tasks EXCEPT ![t].phase = "failed"] /\ missed' = missed
    BY <1>0, <1>1, <2>1, <2>2, TaskMoves
  <2>3. CASE tasks' = [tasks EXCEPT
            ![t] = [phase |-> "writing",
                    box |-> [content |-> ContentOf(mem, heap), at |-> saves]]]
    <3>1. tasks'[t] = [phase |-> "writing",
                       box |-> [content |-> ContentOf(mem, heap), at |-> saves]]
          /\ \A u \in Tasks : u # t => tasks'[u] = tasks[u]
      BY <1>0, <2>3
    <3> QED
      BY <1>1, <2>1, <3>1
  <2> QED
    BY <1>2, <2>2, <2>3 DEF Snapshot
<1>3. CASE Publish(t)
  <2>1. current' = current /\ missed' = missed /\ tasks[t].phase = "writing"
    BY <1>3 DEF Publish
  <2>2. PICK p \in {"written", "failed"} :
          /\ tasks' = [tasks EXCEPT ![t] = [phase |-> p, box |-> NoBox]]
          /\ stored' = IF p = "written" THEN tasks[t].box ELSE stored
    BY <1>3 DEF Publish
  <2>3. tasks'[t].phase = p /\ \A u \in Tasks : u # t => tasks'[u] = tasks[u]
    BY <1>0, <2>2
  <2> QED
    BY <1>1, <2>1, <2>2, <2>3
<1>4. CASE SaveDone(t)
  BY <1>0, <1>1, <1>4, TaskMoves DEF SaveDone, persistent
<1> QED
  BY <1>2, <1>3, <1>4

(* Starting the task.                                                       *)
LEMMA TaskStarts ==
    ASSUME TypeOK, NEW t \in Tasks, StartTask(t)
    PROVE  /\ current' = t /\ tasks[t].phase = "idle" /\ tasks'[t].phase = "sleeping"
           /\ \A u \in Tasks : u # t => tasks'[u] = tasks[u]
<1>0. tasks \in [Tasks -> Task]
  BY TypeParts DEF SavingTypes
<1> QED
  BY <1>0, TaskMoves DEF StartTask, FirstIdle

(* The collection of dicts nobody names leaves the memory alone.            *)
LEMMA CollectedKeeps ==
    ASSUME NEW m \in Memory, NEW h \in Heap, mem' = m, heap' = Collected(h)
    PROVE  ContentOf(mem', heap') = ContentOf(m, h)
<1>1. ASSUME NEW o \in Owners, m[o] # Absent
      PROVE  heap'[o][m[o]] = h[o][m[o]]
  BY <1>1 DEF Collected, Memory
<1> QED
  BY <1>1 DEF ContentOf

Changes ==
    \/ \E o \in Owners, k \in Keys, v \in Values : Set(o, k, v)
    \/ \E o \in Owners : Forget(o)
    \/ \E c \in Backups : Replace(c)

LEMMA OneTaskStep ==
    ASSUME TypeOK, OneTask, [Next]_vars
    PROVE  OneTask'
<1>0. 0 \notin Tasks /\ current \in Tasks \cup {0}
  BY TasksAssumption, TypeParts DEF SavingTypes
<1>1. CASE Changes
  <2>1. up /\ redis' = redis /\ up' = up
    BY <1>1, ChangesSave DEF Changes
  <2>2. PICK m \in Memory, h \in Heap : Save(m, h)
    BY <1>1, ChangesSave DEF Changes
  <2>3. CASE tasks' = tasks /\ current' = current
    BY <2>1, <2>3 DEF OneTask
  <2>4. ASSUME redis, current = 0, NEW t \in Tasks, StartTask(t)
        PROVE  OneTask'
    BY <1>0, <2>1, <2>4, TaskStarts DEF OneTask
  <2> QED
    BY <2>2, <2>3, <2>4, SaveEnds
<1>2. ASSUME NEW t \in Tasks, Snapshot(t) \/ Publish(t) \/ SaveDone(t)
      PROVE  OneTask'
  <2>1. t = current
    BY <1>2 DEF OneTask, Snapshot, Publish, SaveDone
  <2> QED
    BY <1>0, <1>2, <2>1, TaskSteps DEF OneTask
<1>3. CASE Crash
  BY <1>3, EmptyTypes DEF Crash, OneTask
<1>4. CASE UNCHANGED <<redis, tasks, current, lastSave>> /\ (up' = up \/ up')
  BY <1>4 DEF OneTask
<1>5. ASSUME NEW v \in Values, Spoil(v) \/ Mend(v)
      PROVE  OneTask'
  BY <1>4, <1>5 DEF Spoil, Mend, persistent, saving
<1>6. CASE RevisionDue \/ Restart
  BY <1>4, <1>6 DEF RevisionDue, Restart, persistent, saving
<1>7. CASE UNCHANGED vars
  BY <1>4, <1>7 DEF vars
<1> QED
  BY <1>1, <1>2, <1>3, <1>5, <1>6, <1>7 DEF Next, RedisTask, Changes

LEMMA OnTheWayStep ==
    ASSUME TypeOK, OneTask, OnTheWay, [Next]_vars
    PROVE  OnTheWay'
<1>0. 0 \notin Tasks /\ current \in Tasks \cup {0}
  BY TasksAssumption, TypeParts DEF SavingTypes
<1>1. CASE Changes
  <2>1. up /\ redis' = redis /\ up' = up
    BY <1>1, ChangesSave DEF Changes
  <2>2. PICK m \in Memory, h \in Heap : Save(m, h)
    BY <1>1, ChangesSave DEF Changes
  <2>3. mem' = m => ContentOf(mem', heap') = ContentOf(m, h)
    BY <2>2, CollectedKeeps DEF Save
  <2>4. CASE ~redis /\ lastSave' = "ok" /\ mem' = m
             /\ stored' = [content |-> ContentOf(m, h), at |-> saves + 1]
             /\ current' = current
    BY <2>3, <2>4 DEF OneTask, OnTheWay
  <2>5. CASE lastSave' \in {"false", "raised"}
    BY <2>5 DEF OnTheWay
  <2>6. CASE current # 0 /\ tasks' = tasks /\ current' = current
             /\ missed' = (tasks[current].phase # "sleeping")
    BY <2>6 DEF OnTheWay
  <2>7. ASSUME NEW t \in Tasks, StartTask(t)
        PROVE  OnTheWay'
    BY <1>0, <2>7, TaskStarts DEF OnTheWay
  <2> QED
    BY <2>2, <2>4, <2>5, <2>6, <2>7, SaveEnds
<1>2. ASSUME NEW t \in Tasks, Snapshot(t) \/ Publish(t) \/ SaveDone(t)
      PROVE  OnTheWay'
  <2>1. t = current
    BY <1>2 DEF OneTask, Snapshot, Publish, SaveDone
  <2> QED
    BY <1>0, <1>2, <2>1, TaskSteps DEF OnTheWay
<1>3. CASE Crash
  BY <1>3 DEF Crash, OnTheWay
<1>4. CASE UNCHANGED <<tasks, current, lastSave, missed, stored, heap, mem, up>>
  BY <1>4 DEF OnTheWay
<1>5. ASSUME NEW v \in Values, Spoil(v) \/ Mend(v)
      PROVE  OnTheWay'
  BY <1>4, <1>5 DEF Spoil, Mend, persistent, saving
<1>6. CASE RevisionDue
  BY <1>4, <1>6 DEF RevisionDue, persistent, saving
<1>7. CASE Restart
  BY <1>7 DEF Restart, OneTask, OnTheWay
<1>8. CASE UNCHANGED vars
  BY <1>4, <1>8 DEF vars
<1> QED
  BY <1>1, <1>2, <1>3, <1>5, <1>6, <1>7, <1>8 DEF Next, RedisTask, Changes

LEMMA InOrderStep ==
    ASSUME TypeOK, OneTask, InOrder, [Next]_vars
    PROVE  InOrder' /\ stored'.at >= stored.at
<1>0. /\ 0 \notin Tasks /\ saves \in 0..MaxSaves
      /\ stored.at \in 0..MaxSaves
      /\ \A t \in Tasks : tasks[t].box.at \in 0..MaxSaves
      /\ [stored EXCEPT !.content = TORN].at = stored.at
  BY TasksAssumption, TypeParts, KeptRead, KeptTorn DEF SavingTypes, Task
<1>00. /\ saves \in Nat /\ stored.at \in Nat
       /\ \A t \in Tasks : tasks[t].box.at \in Nat
  BY <1>0, SavesAssumption
<1>1. CASE Changes
  <2>1. PICK m \in Memory, h \in Heap : Save(m, h)
    BY <1>1, ChangesSave DEF Changes
  <2>2. CASE ~redis /\ stored' = [content |-> ContentOf(m, h), at |-> saves + 1]
             /\ saves' = saves + 1 /\ tasks' = tasks
    <3>1. \A t \in Tasks : tasks[t].phase = "idle"
      BY <1>0, <2>2 DEF OneTask
    <3>2. stored'.at = saves + 1
      BY <2>2
    <3> QED
      BY <1>00, <2>2, <3>1, <3>2 DEF InOrder
  <2>3. CASE /\ saves' = saves /\ tasks' = tasks
             /\ stored' \in {stored, [stored EXCEPT !.content = TORN]}
    <3>1. stored'.at = stored.at
      BY <1>0, <2>3
    <3> QED
      BY <1>00, <2>3, <3>1 DEF InOrder
  <2>4. CASE saves' = saves + 1 /\ stored' = stored /\ tasks' = tasks
    BY <1>00, <2>4 DEF InOrder
  <2>5. ASSUME NEW t \in Tasks, StartTask(t), saves' = saves + 1, stored' = stored
        PROVE  InOrder' /\ stored'.at >= stored.at
    BY <1>00, <2>5, TaskStarts DEF InOrder
  <2> QED
    BY <2>1, <2>2, <2>3, <2>4, <2>5, SaveEnds
<1>2. ASSUME NEW t \in Tasks, Snapshot(t) \/ Publish(t) \/ SaveDone(t)
      PROVE  InOrder' /\ stored'.at >= stored.at
  <2>1. \A u \in Tasks : u # t => tasks[u].phase = "idle" /\ tasks'[u] = tasks[u]
    BY <1>2, TaskSteps DEF OneTask, Snapshot, Publish, SaveDone
  <2> QED
    BY <1>00, <1>2, <2>1, TaskSteps DEF InOrder
<1>3. CASE Crash
  <2>1. stored'.at = stored.at /\ saves' = saves
    BY <1>0, <1>3 DEF Crash
  <2>2. \A t \in Tasks : tasks'[t].phase = "idle"
    BY <1>3, EmptyTypes DEF Crash
  <2> QED
    BY <1>00, <2>1, <2>2 DEF InOrder
<1>4. CASE UNCHANGED <<tasks, stored, saves>>
  BY <1>00, <1>4 DEF InOrder
<1>5. ASSUME NEW v \in Values, Spoil(v) \/ Mend(v)
      PROVE  InOrder' /\ stored'.at >= stored.at
  BY <1>4, <1>5 DEF Spoil, Mend, persistent, saving
<1>6. CASE RevisionDue \/ Restart
  BY <1>4, <1>6 DEF RevisionDue, Restart, persistent, saving
<1>7. CASE UNCHANGED vars
  BY <1>4, <1>7 DEF vars
<1> QED
  BY <1>1, <1>2, <1>3, <1>5, <1>6, <1>7 DEF Next, RedisTask, Changes

LEMMA Invariance == Spec => []IInv
<1>1. Init => IInv
  <2> SUFFICES ASSUME Init
               PROVE  IInv
    OBVIOUS
  <2>1. MemoryTypes
    BY EmptyTypes, RevisionsAssumption DEF Init, MemoryTypes
  <2>2. SavingTypes
    <3>1. missed \in BOOLEAN
      BY DEF Init
    <3> QED
      BY <3>1, EmptyTypes, SavesAssumption DEF Init, SavingTypes
  <2>3. redis \in BOOLEAN /\ up \in BOOLEAN /\ broken \subseteq Values
    BY DEF Init
  <2>4. OneTask /\ OnTheWay
    BY EmptyTypes DEF Init, OneTask, OnTheWay
  <2>5. stored.at = 0 /\ saves = 0 /\ \A t \in Tasks : tasks[t].phase = "idle"
    BY EmptyTypes DEF Init, NoBox
  <2>6. InOrder
    BY <2>5 DEF InOrder
  <2> QED
    BY <2>1, <2>2, <2>3, <2>4, <2>6, TypeParts DEF IInv
<1>2. IInv /\ [Next]_vars => IInv'
  BY TypeStep, OneTaskStep, OnTheWayStep, InOrderStep DEF IInv
<1> QED
  BY <1>1, <1>2, PTL DEF Spec

-----------------------------------------------------------------------------
\* Whatever is saved, every variable stays in its type: above all there are
\* never more than MaxRevisions revisions.
THEOREM TypeCorrect == Spec => []TypeOK
<1>1. IInv => TypeOK
  BY DEF IInv
<1> QED
  BY <1>1, Invariance, PTL

\* When save has returned True and nothing is on its way, file or Redis hold
\* what the memory holds, but for a save that fell into the gap of the task.
THEOREM SavedIsStored == Spec => []InStep
<1>1. IInv => InStep
  BY DEF IInv, OnTheWay, InStep
<1> QED
  BY <1>1, Invariance, PTL

\* What is stored never gives way to something older, failures of the file,
\* of Redis and of the process included.
THEOREM NeverStoredBack == Spec => StoredForward
<1>1. IInv /\ [Next]_vars => [stored'.at >= stored.at]_vars
  BY InOrderStep DEF IInv
<1> QED
  BY <1>1, Invariance, PTL DEF Spec, StoredForward

(* A save that raises rescues.                                              *)
LEMMA RaisedRescues ==
    ASSUME TypeOK, NEW m \in Memory, NEW h \in Heap, Save(m, h), lastSave' = "raised",
           NEW o \in Owners, Established(o)
    PROVE  /\ ~Serializable(m, h)
           /\ mem'[o] = mem[o] \/ (mem' = m /\ revs' = <<>>)
<1>1. ~Serializable(m, h)
  BY DEF Save, SaveToFile, SaveToRedis, Returns
<1>2. Rescue(m, h)
  BY <1>1 DEF Save
<1> QED
  BY <1>1, <1>2 DEF Rescue, Established

(* What is replaced can be written.                                         *)
LEMMA ReplacedSerializable ==
    ASSUME TypeOK, NEW c \in Backups, Replace(c)
    PROVE  \E m \in Memory, h \in Heap : Save(m, h) /\ Serializable(m, h)
<1>0. heap \in Heap /\ c \in Content
  BY TypeParts, BackupsAssumption DEF MemoryTypes
<1>1. PICK new \in [Owners -> Copies] :
        Save([o \in Owners |-> IF c[o] = Absent THEN Absent ELSE new[o]],
             [o \in Owners |-> IF c[o] = Absent THEN heap[o]
                               ELSE [heap[o] EXCEPT ![new[o]] = c[o]]])
  BY DEF Replace
<1> DEFINE m == [o \in Owners |-> IF c[o] = Absent THEN Absent ELSE new[o]]
           h == [o \in Owners |-> IF c[o] = Absent THEN heap[o]
                                  ELSE [heap[o] EXCEPT ![new[o]] = c[o]]]
<1>2. m \in Memory
  BY DEF Memory
<1>3. ASSUME NEW o \in Owners
      PROVE  /\ h[o] \in [Copies -> Dict]
             /\ m[o] # Absent => c[o] # Absent /\ h[o][m[o]] = c[o]
  <2>1. CASE c[o] = Absent
    BY <1>0, <2>1 DEF Heap
  <2>2. CASE c[o] # Absent
    <3>1. c[o] \in Dict /\ heap[o] \in [Copies -> Dict]
      BY <1>0, <2>2 DEF Content, Heap
    <3>2. m[o] = new[o] /\ h[o] = [heap[o] EXCEPT ![new[o]] = c[o]]
      BY <2>2
    <3> QED
      BY <2>2, <3>1, <3>2
  <2> QED
    BY <2>1, <2>2
<1>4. h \in Heap
  BY <1>3 DEF Heap
<1>5. \A o \in Owners : c[o] # Absent => \A k \in Keys : c[o][k] \notin broken
  BY DEF Replace
<1>6. Serializable(m, h)
  <2> HIDE DEF m, h
  <2> QED
    BY <1>3, <1>5 DEF Serializable
<1> QED
  BY <1>1, <1>2, <1>4, <1>6

\* A rescue never takes an owner that all revisions know, nor exchanges its
\* dict: what goes wrong with one owner's values costs the others nothing.
THEOREM RescueTakesNothing == Spec => RescueKeeps
<1> DEFINE Keeps(o) == \/ mem'[o] = mem[o]
                       \/ mem' = [mem EXCEPT ![o] = Absent] /\ revs' = <<>>
<1>1. ASSUME IInv, Next, lastSave' = "raised", NEW o \in Owners, Established(o)
      PROVE  Keeps(o)
  <2>0. TypeOK /\ OneTask /\ mem \in Memory /\ heap \in Heap /\ NoKeys \in Dict
    BY <1>1, TypeParts, EmptyTypes DEF IInv, MemoryTypes
  <2>1. ASSUME NEW p \in Owners, NEW k \in Keys, NEW v \in Values, Set(p, k, v)
        PROVE  Keeps(o)
    <3>1. CASE mem[p] # Absent /\ Save(mem, [heap EXCEPT ![p][mem[p]][k] = v])
      <4>1. heap[p][mem[p]] \in Dict /\ mem[p] \in Copies
        BY <2>0, <3>1 DEF Memory, Heap
      <4>2. [heap EXCEPT ![p][mem[p]][k] = v] \in Heap
        BY <2>0, <4>1 DEF Heap, Dict
      <4>3. mem'[o] = mem[o] \/ mem' = mem
        BY <1>1, <2>0, <3>1, <4>2, RaisedRescues
      <4> QED
        BY <4>3
    <3>2. ASSUME mem[p] = Absent, NEW n \in Copies,
                 Save([mem EXCEPT ![p] = n],
                      [heap EXCEPT ![p][n] = [NoKeys EXCEPT ![k] = v]])
          PROVE  Keeps(o)
      <4>1. [NoKeys EXCEPT ![k] = v] \in Dict
        BY <2>0 DEF Dict
      <4>2. /\ [mem EXCEPT ![p] = n] \in Memory
            /\ [heap EXCEPT ![p][n] = [NoKeys EXCEPT ![k] = v]] \in Heap
        BY <2>0, <4>1 DEF Memory, Heap
      <4>3. mem'[o] = mem[o] \/ mem' = [mem EXCEPT ![p] = n]
        BY <1>1, <2>0, <3>2, <4>2, RaisedRescues
      <4>4. o # p
        BY <1>1, <3>2 DEF Established
      <4> QED
        BY <2>0, <4>3, <4>4 DEF Memory
    <3> QED
      BY <2>1, <3>1, <3>2 DEF Set
  <2>2. ASSUME NEW p \in Owners, Forget(p)
        PROVE  Keeps(o)
    <3>1. [mem EXCEPT ![p] = Absent] \in Memory
      BY <2>0 DEF Memory
    <3>2. Save([mem EXCEPT ![p] = Absent], heap)
      BY <2>2 DEF Forget
    <3>3. \/ mem'[o] = mem[o]
          \/ mem' = [mem EXCEPT ![p] = Absent] /\ revs' = <<>>
      BY <1>1, <2>0, <3>1, <3>2, RaisedRescues
    <3> QED
      BY <2>0, <3>3 DEF Memory
  <2>3. ASSUME NEW c \in Backups, Replace(c)
        PROVE  FALSE
    BY <1>1, <2>0, <2>3, ReplacedSerializable, RaisedRescues
       DEF Save, SaveToFile, SaveToRedis, Returns
  <2>4. ASSUME NEW v \in Values, Spoil(v) \/ Mend(v)
        PROVE  Keeps(o)
    BY <2>4 DEF Spoil, Mend
  <2>5. ASSUME NEW t \in Tasks, Snapshot(t) \/ Publish(t) \/ SaveDone(t)
        PROVE  Keeps(o)
    BY <2>0, <2>5, TaskSteps
  <2>6. CASE RevisionDue
    BY <2>6 DEF RevisionDue
  <2>7. ~Crash /\ ~Restart
    BY <1>1, <2>0 DEF Crash, Restart, OneTask
  <2> QED
    BY <1>1, <2>1, <2>2, <2>3, <2>4, <2>5, <2>6, <2>7 DEF Next, RedisTask
<1>2. IInv /\ [Next]_vars =>
        [lastSave' = "raised" => \A o \in Owners : Established(o) => Keeps(o)]_vars
  BY <1>1
<1> QED
  BY <1>2, Invariance, PTL DEF Spec, RescueKeeps
=============================================================================
