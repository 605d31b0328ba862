------------------------------ MODULE Database ------------------------------
(***************************************************************************)
(* The database of Boka: a mapping of owners to dicts of keys, kept in      *)
(* memory and saved whole, to a file or to Redis, after every change.       *)
(* Translated from src/boka/database.py.                                    *)
(*                                                                         *)
(* A dict of the program is an object: the n-th dict of owner o is          *)
(* heap[o][n], and memory and revisions name it, so that a revision, which  *)
(* is a shallow copy, shares the dicts of its owners with the memory.  A    *)
(* value is an object too; whoever stored it may change it later into       *)
(* something json cannot write (broken).  Serialisation is abstracted to    *)
(* that one question.  remote_force_save is left out: nothing calls it.     *)
(***************************************************************************)
EXTENDS Naturals, Sequences

CONSTANTS
    Owners, Keys, Values,
    Mutable,        \* the values that are lists or dicts
    Absent,         \* no such owner, no such key
    TORN,           \* a file whose writing was cut off
    MaxRevisions,   \* 15 in the code
    Copies,         \* identities of the dicts of one owner, numbers
    Tasks,          \* identities of tasks that save to Redis, numbers from 1
    Backups,        \* the contents a restore may bring
    MaxSaves        \* bound of the model: calls of save that return True

ASSUME AbsentAssumption == Absent \notin Values \cup Copies
ASSUME MutableAssumption == Mutable \subseteq Values
ASSUME RevisionsAssumption == MaxRevisions \in Nat \ {0}
ASSUME CopiesAssumption == Copies \subseteq Nat /\ 1 \in Copies
ASSUME TasksAssumption == Tasks \subseteq Nat \ {0}
ASSUME SavesAssumption == MaxSaves \in Nat

Dict == [Keys -> Values \cup {Absent}]
Content == [Owners -> Dict \cup {Absent}]

ASSUME TornAssumption == TORN \notin Content
ASSUME BackupsAssumption == Backups \subseteq Content

VARIABLES
    redis,      \* does it save to Redis, or to a file
    up,         \* is the process running
    heap,       \* the dicts
    mem,        \* the database itself: the dict of each owner
    broken,     \* values json cannot write
    revs,       \* _revisions
    due,        \* is _next_revision_call over
    tasks,      \* the tasks that save to Redis: phase and what they write
    current,    \* _saving_task, 0 for None
    stored,     \* what the file or Redis holds, and after how many saves
    saves,      \* history: how often save has returned True
    lastSave,   \* history: how the last call of save ended
    missed      \* history: the last save found a task past its snapshot

persistent == <<redis, stored, saves>>
memory == <<heap, mem, broken, revs, due>>
saving == <<tasks, current>>
vars == <<redis, up, heap, mem, broken, revs, due, tasks, current, stored,
          saves, lastSave, missed>>

Kept == [content : Content \cup {TORN}, at : 0..MaxSaves]

TypeOK ==
    /\ redis \in BOOLEAN
    /\ up \in BOOLEAN
    /\ heap \in [Owners -> [Copies -> Dict]]
    /\ mem \in [Owners -> Copies \cup {Absent}]
    /\ broken \subseteq Values
    /\ revs \in Seq([Owners -> Copies \cup {Absent}])
    /\ Len(revs) <= MaxRevisions
    /\ due \in BOOLEAN
    /\ tasks \in [Tasks -> [phase : {"idle", "sleeping", "writing", "written",
                                     "failed"},
                            box : Kept]]
    /\ current \in Tasks \cup {0}
    /\ stored \in Kept
    /\ saves \in 0..MaxSaves
    /\ lastSave \in {"none", "ok", "false", "raised"}
    /\ missed \in BOOLEAN

NoKeys == [k \in Keys |-> Absent]
Nothing == [o \in Owners |-> Absent]
NoBox == [content |-> Nothing, at |-> 0]

\* What the owners of m and their dicts in h amount to.
ContentOf(m, h) ==
    [o \in Owners |-> IF m[o] = Absent THEN Absent ELSE h[o][m[o]]]

\* process_db_autofix finds nothing json cannot write.
Serializable(m, h) ==
    \A o \in Owners : m[o] # Absent => \A k \in Keys : h[o][m[o]][k] \notin broken

\* A dict of o that neither the memory nor a revision names.
Fresh(o, n) ==
    /\ n # mem[o]
    /\ \A i \in DOMAIN revs : revs[i][o] # n

-----------------------------------------------------------------------------
(* save, called with the memory m and the dicts h the caller has made.      *)

\* Mutant: revisions are never thrown away.
ReviseUnbounded(m) ==
    /\ due' = FALSE
    /\ revs' = IF due THEN Append(revs, m) ELSE revs

\* A revision every three seconds; the newest goes when there are too many.
Revise(m) ==
    /\ due' = FALSE
    /\ revs' = IF due /\ Len(revs) < MaxRevisions THEN Append(revs, m) ELSE revs

Returns(outcome) ==
    /\ lastSave' = outcome
    /\ saves' = IF outcome = "ok" THEN saves + 1 ELSE saves

\* Mutant: a failure to write is not reported.
SaveToFileAnyway(m, h) ==
    /\ stored' \in {stored, [content |-> ContentOf(m, h), at |-> saves + 1]}
    /\ Returns("ok")
    /\ UNCHANGED <<tasks, current, missed>>

\* The file is truncated before it is written: a failure may leave it torn.
SaveToFile(m, h) ==
    /\ \/ /\ stored' = [content |-> ContentOf(m, h), at |-> saves + 1]
          /\ Returns("ok")
       \/ /\ stored' \in {stored, [stored EXCEPT !.content = TORN]}
          /\ Returns("false")
    /\ UNCHANGED <<tasks, current, missed>>

FirstIdle(t) ==
    /\ tasks[t].phase = "idle"
    /\ \A u \in Tasks : tasks[u].phase = "idle" => t <= u

StartTask(t) ==
    /\ FirstIdle(t)
    /\ tasks' = [tasks EXCEPT ![t].phase = "sleeping"]
    /\ current' = t

\* Mutant: every save starts a task.
SaveToRedisAgain ==
    /\ \E t \in Tasks : StartTask(t)
    /\ missed' = FALSE
    /\ Returns("ok")
    /\ UNCHANGED stored

SaveToRedis ==
    /\ IF current = 0 THEN \E t \in Tasks : StartTask(t)
                      ELSE UNCHANGED saving
    /\ missed' = (current # 0 /\ tasks[current].phase # "sleeping")
    /\ Returns("ok")
    /\ UNCHANGED stored

\* Mutant: a memory that cannot be written is dropped.
RescueNothing(m, h) ==
    /\ mem' = Nothing
    /\ revs' = <<>>
    /\ Returns("raised")
    /\ UNCHANGED <<due, tasks, current, stored, missed>>

\* The newest revision that can be written takes the place of the memory, and
\* it and those that followed it are gone; the caller gets a RuntimeError.
Rescue(m, h) ==
    LET good == {i \in DOMAIN revs : Serializable(revs[i], h)}
    IN  /\ \/ /\ good = {}
              /\ mem' = m
              /\ revs' = <<>>
           \/ \E i \in good :
                 /\ \A j \in good : j <= i
                 /\ mem' = revs[i]
                 /\ revs' = SubSeq(revs, 1, i - 1)
        /\ Returns("raised")
        /\ UNCHANGED <<due, tasks, current, stored, missed>>

\* A dict that nothing names any more is gone.
Collected(h) ==
    [o \in Owners |-> [n \in Copies |->
        IF n = mem'[o] \/ \E i \in DOMAIN revs' : revs'[i][o] = n
        THEN h[o][n] ELSE NoKeys]]

Save(m, h) ==
    /\ saves < MaxSaves
    /\ IF Serializable(m, h)
       THEN /\ mem' = m
            /\ Revise(m)
            /\ IF redis THEN SaveToRedis ELSE SaveToFile(m, h)
       ELSE Rescue(m, h)
    /\ heap' = Collected(h)

-----------------------------------------------------------------------------
(* What modules do.                                                         *)

\* set; a value that cannot be written is refused before anything happens.
Set(o, k, v) ==
    /\ up
    /\ v \notin broken
    /\ \/ /\ mem[o] # Absent
          /\ Save(mem, [heap EXCEPT ![o][mem[o]][k] = v])
       \/ /\ mem[o] = Absent
          /\ \E n \in Copies :
                /\ Fresh(o, n)
                /\ \A c \in Copies : Fresh(o, c) => n <= c
                /\ Save([mem EXCEPT ![o] = n],
                        [heap EXCEPT ![o][n] = [NoKeys EXCEPT ![k] = v]])
    /\ UNCHANGED <<redis, up, broken>>

\* del db[o] and save: clearing the data of a module.
Forget(o) ==
    /\ up
    /\ mem[o] # Absent
    /\ Save([mem EXCEPT ![o] = Absent], heap)
    /\ UNCHANGED <<redis, up, broken>>

\* clear, update with the content of a backup, and save.  What comes from a
\* backup are new objects, which json has just read.
Replace(c) ==
    /\ up
    /\ \A o \in Owners : c[o] # Absent => \A k \in Keys : c[o][k] \notin broken
    /\ \E new \in [Owners -> Copies] :
          /\ \A o \in Owners : /\ Fresh(o, new[o])
                               /\ \A n \in Copies : Fresh(o, n) => new[o] <= n
          /\ Save([o \in Owners |-> IF c[o] = Absent THEN Absent ELSE new[o]],
                  [o \in Owners |-> IF c[o] = Absent THEN heap[o]
                                    ELSE [heap[o] EXCEPT ![new[o]] = c[o]]])
    /\ UNCHANGED <<redis, up, broken>>

\* Whoever holds a stored value changes it in place.
Spoil(v) ==
    /\ up
    /\ v \in Mutable
    /\ v \notin broken
    /\ broken' = broken \cup {v}
    /\ UNCHANGED <<persistent, up, heap, mem, revs, due, saving, lastSave, missed>>

Mend(v) ==
    /\ up
    /\ v \in broken
    /\ broken' = broken \ {v}
    /\ UNCHANGED <<persistent, up, heap, mem, revs, due, saving, lastSave, missed>>

\* Three seconds since the last revision have passed.
RevisionDue ==
    /\ up
    /\ ~due
    /\ due' = TRUE
    /\ UNCHANGED <<persistent, up, heap, mem, broken, revs, saving, lastSave, missed>>

-----------------------------------------------------------------------------
(* _redis_save: sleep, write in another thread, forget the task.            *)

\* The thread serialises what the memory holds now, or raises.
Snapshot(t) ==
    /\ up
    /\ tasks[t].phase = "sleeping"
    /\ \/ /\ Serializable(mem, heap)
          /\ tasks' = [tasks EXCEPT
                ![t] = [phase |-> "writing",
                        box |-> [content |-> ContentOf(mem, heap), at |-> saves]]]
          /\ missed' = FALSE
       \/ /\ ~Serializable(mem, heap)
          /\ tasks' = [tasks EXCEPT ![t].phase = "failed"]
          /\ UNCHANGED missed
    /\ UNCHANGED <<persistent, up, memory, current, lastSave>>

\* Mutant: a failing connection is passed over.
PublishAnyway(t) ==
    /\ up
    /\ tasks[t].phase = "writing"
    /\ stored' \in {stored, tasks[t].box}
    /\ tasks' = [tasks EXCEPT ![t] = [phase |-> "written", box |-> NoBox]]
    /\ UNCHANGED <<redis, saves, up, memory, current, lastSave, missed>>

\* Redis takes it, or the connection fails.
Publish(t) ==
    /\ up
    /\ tasks[t].phase = "writing"
    /\ \/ /\ stored' = tasks[t].box
          /\ tasks' = [tasks EXCEPT ![t] = [phase |-> "written", box |-> NoBox]]
       \/ /\ tasks' = [tasks EXCEPT ![t] = [phase |-> "failed", box |-> NoBox]]
          /\ UNCHANGED stored
    /\ UNCHANGED <<redis, saves, up, memory, current, lastSave, missed>>

\* The coroutine goes on; one that has raised never comes here.
SaveDone(t) ==
    /\ up
    /\ tasks[t].phase = "written"
    /\ tasks' = [tasks EXCEPT ![t].phase = "idle"]
    /\ current' = 0
    /\ UNCHANGED <<persistent, up, memory, lastSave, missed>>

-----------------------------------------------------------------------------
(* The process stops at any point, a write to the file included, and reads  *)
(* what is left when it starts again.                                       *)

NoTasks == [t \in Tasks |-> [phase |-> "idle", box |-> NoBox]]

EmptyMemory ==
    /\ heap' = [o \in Owners |-> [n \in Copies |-> NoKeys]]
    /\ mem' = Nothing
    /\ broken' = {}
    /\ revs' = <<>>
    /\ due' = TRUE

Crash ==
    /\ up
    /\ up' = FALSE
    /\ stored' \in {stored} \cup
                   (IF redis THEN {} ELSE {[stored EXCEPT !.content = TORN]})
    /\ tasks' = NoTasks
    /\ current' = 0
    /\ lastSave' = "none"
    /\ missed' = FALSE
    /\ EmptyMemory
    /\ UNCHANGED <<redis, saves>>

\* read: what cannot be read counts as an empty database.
Loads(c) ==
    /\ mem' = [o \in Owners |-> IF c[o] = Absent THEN Absent ELSE 1]
    /\ heap' = [o \in Owners |-> [n \in Copies |->
                   IF n = 1 /\ c[o] # Absent THEN c[o] ELSE NoKeys]]

Restart ==
    /\ ~up
    /\ up' = TRUE
    /\ \/ /\ stored.content # TORN
          /\ Loads(stored.content)
       \/ /\ redis \/ stored.content = TORN
          /\ Loads(Nothing)
    /\ UNCHANGED <<persistent, broken, revs, due, saving, lastSave, missed>>

-----------------------------------------------------------------------------
Init ==
    /\ redis \in BOOLEAN
    /\ up = TRUE
    /\ heap = [o \in Owners |-> [n \in Copies |-> NoKeys]]
    /\ mem = Nothing
    /\ broken = {}
    /\ revs = <<>>
    /\ due = TRUE
    /\ tasks = NoTasks
    /\ current = 0
    /\ stored = NoBox
    /\ saves = 0
    /\ lastSave = "none"
    /\ missed = FALSE

RedisTask == \E t \in Tasks : Snapshot(t) \/ Publish(t) \/ SaveDone(t)

Next ==
    \/ \E o \in Owners, k \in Keys, v \in Values : Set(o, k, v)
    \/ \E o \in Owners : Forget(o)
    \/ \E c \in Backups : Replace(c)
    \/ \E v \in Values : Spoil(v) \/ Mend(v)
    \/ RevisionDue
    \/ RedisTask
    \/ Crash
    \/ Restart

Spec == Init /\ [][Next]_vars

\* The event loop wakes the saving task, its thread is answered or fails.
FairSpec == Spec /\ WF_vars(RedisTask)

-----------------------------------------------------------------------------
(* Properties.                                                              *)

\* When save has returned True and no save to Redis is in hand, file or Redis
\* hold what the memory holds -- unless that save came while the task had
\* taken its snapshot but was not yet forgotten (save, _redis_save).
InStep ==
    up /\ lastSave = "ok" /\ current = 0 /\ ~missed
        => stored.content = ContentOf(mem, heap)

\* What is stored never gives way to something older: at most one task saves,
\* and what it writes was in memory after what is stored (_saving_task).
StoredForward == [][stored'.at >= stored.at]_vars

\* A rescue does not take an owner whose dict is in every revision, nor does
\* it give that owner another dict; only who asked to delete it may do so, when
\* no revision can be written (save, the loop over _revisions).
Established(o) ==
    /\ mem[o] # Absent
    /\ revs # <<>>
    /\ \A i \in DOMAIN revs : revs[i][o] = mem[o]

RescueKeeps ==
    [][lastSave' = "raised" =>
          \A o \in Owners : Established(o) =>
             \/ mem'[o] = mem[o]
             \/ mem' = [mem EXCEPT ![o] = Absent] /\ revs' = <<>>]_vars

\* A change that save has accepted before the running task took its snapshot
\* reaches Redis at last, unless saving fails or the process stops.
Stuck == current # 0 /\ tasks[current].phase = "failed"

Flushed ==
    \A n \in 1..MaxSaves :
        (redis /\ saves = n /\ lastSave = "ok" /\ ~missed)
            ~> (stored.at >= n \/ Stuck \/ ~up)
=============================================================================
