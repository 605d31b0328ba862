--------------------------- MODULE RegistryProofs ---------------------------
(***************************************************************************)
(* The theorems about Registry, for every set of instances, classes,        *)
(* commands and unload commands.                                            *)
(***************************************************************************)
EXTENDS Registry, FiniteSetTheorems, SequenceTheorems,
        WellFoundedInduction, TLAPS

Task == [at : {"idle", "overtaking", "unloading", "done"}, class : Classes \cup {None},
         pos : Nat, victim : Mods \cup {None}]

(* The types the proofs need.                                               *)
Types ==
    /\ modules \in Seq(Mods)
    /\ coreCommands \subseteq Names
    /\ commands \in [Names -> Mods \cup {None}]
    /\ stage \in [Mods -> Stages]
    /\ task \in [Tasks -> Task]
    /\ running \subseteq Mods
    /\ early \in [Mods -> SUBSET Names]
    /\ unloaded \subseteq Mods

(* A task in the midst of its iteration has a victim, not of the core; the  *)
(* load of an instance has not appended it, and never will if it unloads.   *)
TasksOK ==
    /\ \A t \in Tasks : task[t].at \in {"overtaking", "unloading"} =>
          task[t].pos > 0 /\ task[t].victim \in Mods \ Core
          /\ stage[task[t].victim] # "new"
    /\ \A t \in Tasks : task[t].at = "overtaking" =>
          t \in Mods /\ stage[t] = "new" /\ ClassOf[task[t].victim] = ClassOf[t]
    /\ \A t \in Tasks : task[t].at = "unloading" =>
          /\ ~Loaded(task[t].victim)
          /\ t \in Mods => stage[t] = "gone"

(* What the stage of an instance says; an instance that is unloaded is      *)
(* loaded no more; what was accepted had its commands before the core.      *)
StagesOK ==
    /\ \A m \in Mods : Loaded(m) => stage[m] \notin {"new", "refused"} /\ m \notin unloaded
    /\ \A m \in unloaded : stage[m] # "new"
    /\ \A m \in Mods \ Core : stage[m] = "ready" => ToSet(Commands[m]) \subseteq early[m]
    /\ \A m \in running :
          stage[m] \in {"ready", "refused"} /\ (m \in unloaded => m \in late)

IInv == Types /\ TasksOK /\ StagesOK /\ OneOfEach /\ LoopsLeft /\ CoreKept

-----------------------------------------------------------------------------
(* Smallest and largest elements, and the removal of one.                   *)

LEMMA Smallest ==
    ASSUME NEW S \in SUBSET Nat, S # {}
    PROVE  \E n \in S : \A x \in S : n <= x
<1> DEFINE R == OpToRel(<, Nat)
<1>1. \A x, y \in Nat : x < y => <<x, y>> \in R
  BY DEF OpToRel
<1>2. IsWellFoundedOn(R, Nat)
  BY NatLessThanWellFounded
<1> HIDE DEF R
<1>3. PICK n \in S : \A x \in S : ~(<<x, n>> \in R)
  BY <1>2, WFMin
<1>4. \A x \in S : ~(x < n)
  BY <1>1, <1>3
<1> QED
  BY <1>4

LEMMA MinFacts ==
    ASSUME NEW S \in SUBSET Nat, S # {}
    PROVE  Min(S) \in S /\ \A x \in S : Min(S) <= x
<1>1. \E n \in S : \A x \in S : n <= x
  BY Smallest
<1> QED
  BY <1>1 DEF Min

LEMMA MaxFacts ==
    ASSUME NEW n \in Nat, NEW S \in SUBSET (1..n), S # {}
    PROVE  Max(S) \in S
<1> DEFINE R == {n - x : x \in S}
<1>1. R \in SUBSET Nat /\ R # {}
  <2>1. \A x \in S : x \in Nat /\ x <= n
    OBVIOUS
  <2>2. \A x \in S : n - x \in Nat
    BY <2>1
  <2> QED
    BY <2>2
<1>2. PICK r \in R : \A y \in R : r <= y
  BY <1>1, Smallest
<1>3. PICK x \in S : r = n - x
  OBVIOUS
<1>4. ASSUME NEW y \in S
      PROVE  x >= y
  <2>1. n - x <= n - y
    BY <1>2, <1>3
  <2>2. x \in Int /\ y \in Int
    OBVIOUS
  <2> QED
    BY <2>1, <2>2
<1> QED
  BY <1>4 DEF Max

LEMMA NextOfFacts ==
    ASSUME NEW list \in Seq(Mods), NEW those, NEW pos \in Nat \ {0}
    PROVE  /\ NextOf(list, those, pos) = 0
                 => \A j \in pos..Len(list) : list[j] \notin those
           /\ NextOf(list, those, pos) # 0 =>
                 /\ NextOf(list, those, pos) \in pos..Len(list)
                 /\ list[NextOf(list, those, pos)] \in those
<1> DEFINE found == {i \in pos..Len(list) : list[i] \in those}
<1>1. found \in SUBSET Nat
  OBVIOUS
<1>2. found # {} => Min(found) \in found
  BY <1>1, MinFacts
<1>3. NextOf(list, those, pos) = IF found = {} THEN 0 ELSE Min(found)
  BY DEF NextOf
<1> QED
  BY <1>2, <1>3

LEMMA WithoutFacts ==
    ASSUME NEW list \in Seq(Mods), NEW m, \E i \in 1..Len(list) : list[i] = m
    PROVE  /\ Without(list, m) \in Seq(Mods)
           /\ \E k \in 1..Len(list) :
                 /\ list[k] = m
                 /\ Len(Without(list, m)) = Len(list) - 1
                 /\ \A j \in 1..(Len(list) - 1) :
                       Without(list, m)[j] = list[IF j < k THEN j ELSE j + 1]
<1> DEFINE k == CHOOSE i \in 1..Len(list) : list[i] = m
<1>1. k \in 1..Len(list) /\ list[k] = m
  OBVIOUS
<1> HIDE DEF k
<1> DEFINE a == SubSeq(list, 1, k - 1)
           b == SubSeq(list, k + 1, Len(list))
<1>2. /\ a \in Seq(Mods) /\ Len(a) = k - 1
      /\ \A j \in 1..(k - 1) : a[j] = list[j]
  BY <1>1, SubSeqProperties
<1>3. /\ b \in Seq(Mods) /\ Len(b) = Len(list) - k
      /\ \A j \in 1..(Len(list) - k) : b[j] = list[j + k]
  <2>1. \A i \in (k + 1)..Len(list) : list[i] \in Mods
    BY <1>1
  <2>2. /\ b \in Seq(Mods)
        /\ Len(b) = IF k + 1 <= Len(list) THEN Len(list) - (k + 1) + 1 ELSE 0
        /\ \A j \in 1..(Len(list) - (k + 1) + 1) : b[j] = list[(k + 1) + j - 1]
    BY <1>1, <2>1, SubSeqProperties
  <2> QED
    BY <1>1, <2>2
<1> HIDE DEF a, b
<1>4. /\ a \o b \in Seq(Mods) /\ Len(a \o b) = Len(a) + Len(b)
      /\ \A j \in 1..(Len(a) + Len(b)) :
            (a \o b)[j] = IF j <= Len(a) THEN a[j] ELSE b[j - Len(a)]
  BY <1>2, <1>3, ConcatProperties
<1>5. Len(a \o b) = Len(list) - 1
  BY <1>1, <1>2, <1>3, <1>4
<1>6. ASSUME NEW j \in 1..(Len(list) - 1)
      PROVE  (a \o b)[j] = list[IF j < k THEN j ELSE j + 1]
  <2>1. CASE j < k
    <3>1. j <= Len(a) /\ j \in 1..(k - 1) /\ j \in 1..(Len(a) + Len(b))
      BY <1>1, <1>2, <1>3, <2>1
    <3> QED
      BY <1>2, <1>4, <2>1, <3>1
  <2>2. CASE j >= k
    <3>1. /\ ~(j <= Len(a)) /\ j - Len(a) = j - k + 1
          /\ j - k + 1 \in 1..(Len(list) - k) /\ j \in 1..(Len(a) + Len(b))
          /\ (j - k + 1) + k = j + 1
      BY <1>1, <1>2, <1>3, <2>2
    <3>2. (a \o b)[j] = b[j - k + 1]
      BY <1>4, <3>1
    <3>3. b[j - k + 1] = list[j + 1]
      BY <1>3, <3>1
    <3> QED
      BY <1>1, <2>2, <3>2, <3>3
  <2>3. j < k \/ j >= k
    BY <1>1
  <2> QED
    BY <2>1, <2>2, <2>3
<1>7. Without(list, m) = a \o b
  BY DEF Without, RemoveAt, k, a, b
<1> QED
  BY <1>1, <1>4, <1>5, <1>6, <1>7

(* Lists in which no class comes twice.                                     *)
In(list, m) == \E i \in 1..Len(list) : list[i] = m
Single(list) ==
    \A i, j \in 1..Len(list) : ClassOf[list[i]] = ClassOf[list[j]] => i = j

LEMMA WithoutSingle ==
    ASSUME NEW list \in Seq(Mods), Single(list), NEW m, In(list, m)
    PROVE  /\ Without(list, m) \in Seq(Mods) /\ Single(Without(list, m))
           /\ \A n : In(Without(list, m), n) <=> In(list, n) /\ n # m
           /\ \A n : In(Without(list, m), n) => ClassOf[n] # ClassOf[m]
<1>1. PICK k \in 1..Len(list) :
        /\ list[k] = m
        /\ Len(Without(list, m)) = Len(list) - 1
        /\ \A j \in 1..(Len(list) - 1) :
              Without(list, m)[j] = list[IF j < k THEN j ELSE j + 1]
  BY WithoutFacts DEF In
<1>2. Without(list, m) \in Seq(Mods)
  BY WithoutFacts DEF In
<1> DEFINE w == Without(list, m)
           at(j) == IF j < k THEN j ELSE j + 1
<1>3. \A j \in 1..Len(w) : at(j) \in 1..Len(list) /\ at(j) # k /\ w[j] = list[at(j)]
  BY <1>1
<1>4. Single(w)
  <2> SUFFICES ASSUME NEW i \in 1..Len(w), NEW j \in 1..Len(w),
                      ClassOf[w[i]] = ClassOf[w[j]]
               PROVE  i = j
    BY DEF Single
  <2>1. /\ at(i) \in 1..Len(list) /\ w[i] = list[at(i)]
        /\ at(j) \in 1..Len(list) /\ w[j] = list[at(j)]
    BY <1>3
  <2>2. at(i) = at(j)
    <3> HIDE DEF at
    <3> QED
      BY <2>1 DEF Single
  <2>3. i \in Nat /\ j \in Nat /\ k \in Nat
    BY <1>1
  <2> QED
    BY <2>2, <2>3
<1>5. ASSUME NEW n, In(w, n)
      PROVE  In(list, n) /\ ClassOf[n] # ClassOf[m]
  <2>1. PICK j \in 1..Len(w) : w[j] = n
    BY <1>5 DEF In
  <2>2. list[at(j)] = n /\ at(j) \in 1..Len(list) /\ at(j) # k
    BY <1>3, <2>1
  <2> QED
    BY <1>1, <2>2 DEF In, Single
<1>6. ASSUME NEW n, In(list, n), n # m
      PROVE  In(w, n)
  <2>1. PICK i \in 1..Len(list) : list[i] = n
    BY <1>6 DEF In
  <2>2. i # k
    BY <1>1, <1>6, <2>1
  <2>3. CASE i < k
    <3>1. i \in 1..Len(w) /\ w[i] = n
      BY <1>1, <2>1, <2>3
    <3> QED
      BY <3>1 DEF In
  <2>4. CASE i > k
    <3>1. i - 1 \in 1..Len(w) /\ w[i - 1] = n
      BY <1>1, <2>1, <2>4
    <3> QED
      BY <3>1 DEF In
  <2> QED
    BY <2>2, <2>3, <2>4
<1> QED
  BY <1>2, <1>4, <1>5, <1>6

LEMMA AppendSingle ==
    ASSUME NEW list \in Seq(Mods), Single(list), NEW m \in Mods,
           \A n : In(list, n) => ClassOf[n] # ClassOf[m]
    PROVE  /\ Append(list, m) \in Seq(Mods) /\ Single(Append(list, m))
           /\ \A n : In(Append(list, m), n) <=> In(list, n) \/ n = m
<1> DEFINE w == Append(list, m)
<1>1. /\ w \in Seq(Mods) /\ Len(w) = Len(list) + 1 /\ w[Len(list) + 1] = m
      /\ \A j \in 1..Len(list) : w[j] = list[j]
  OBVIOUS
<1> HIDE DEF w
<1>2. \A i \in 1..Len(w) : i \in 1..Len(list) \/ i = Len(list) + 1
  BY <1>1
<1>3. Single(w)
  BY <1>1, <1>2 DEF Single, In
<1>4. \A n : In(w, n) <=> In(list, n) \/ n = m
  BY <1>1, <1>2 DEF In
<1> QED
  BY <1>1, <1>3, <1>4 DEF w

-----------------------------------------------------------------------------
(* The iteration of a load.                                                 *)

LEMMA TaskSet ==
    ASSUME NEW t \in Tasks, NEW r \in Task, task \in [Tasks -> Task],
           task' = [task EXCEPT ![t] = r]
    PROVE  /\ task' \in [Tasks -> Task] /\ task'[t] = r
           /\ \A u \in Tasks : u # t => task'[u] = task[u]
BY Zenon

LEMMA IdleType == Idle \in Task /\ [Idle EXCEPT !.at = "done"] \in Task
                  /\ Idle.at = "idle" /\ [Idle EXCEPT !.at = "done"].at = "done"
BY DEF Idle, Task

LEMMA ScanFacts ==
    ASSUME Types, NEW m \in Mods, NEW list \in Seq(Mods), NEW pos \in Nat \ {0},
           pos = 1 \/ \A n : In(list, n) => ClassOf[n] # ClassOf[m],
           Scan(m, list, pos)
    PROVE  /\ task' \in [Tasks -> Task]
           /\ \A t \in Tasks : t # m => task'[t] = task[t]
           /\ \/ /\ modules' = Append(list, m)
                 /\ \A n : In(list, n) => ClassOf[n] # ClassOf[m]
                 /\ stage' = [stage EXCEPT ![m] = "waiting"] /\ task'[m].at = "idle"
              \/ /\ modules' = list
                 /\ stage' = [stage EXCEPT ![m] = "gone"] /\ task'[m].at = "idle"
              \/ /\ modules' = list /\ stage' = stage
                 /\ task'[m].at = "overtaking" /\ task'[m].pos > 0
                 /\ task'[m].victim \in Mods \ Core /\ In(list, task'[m].victim)
                 /\ ClassOf[task'[m].victim] = ClassOf[m]
<1> DEFINE i == NextOf(list, Versions(m), pos)
<1>0. m \in Tasks /\ ClassOf[m] \in Classes
  BY ClassAssumption DEF Tasks
<1>1. /\ i = 0 => \A j \in pos..Len(list) : ClassOf[list[j]] # ClassOf[m]
      /\ i # 0 => i \in pos..Len(list) /\ ClassOf[list[i]] = ClassOf[m]
  <2>1. /\ i = 0 => \A j \in pos..Len(list) : list[j] \notin Versions(m)
        /\ i # 0 => i \in pos..Len(list) /\ list[i] \in Versions(m)
    BY NextOfFacts
  <2>2. \A j \in pos..Len(list) : list[j] \in Mods
    OBVIOUS
  <2> HIDE DEF i
  <2> QED
    BY <2>1, <2>2 DEF Versions
<1> HIDE DEF i
<1>2. CASE /\ i = 0
           /\ modules' = Append(list, m)
           /\ stage' = [stage EXCEPT ![m] = "waiting"]
           /\ task' = [task EXCEPT ![m] = Idle]
  <2>1. \A n : In(list, n) => ClassOf[n] # ClassOf[m]
    BY <1>1, <1>2 DEF In
  <2> QED
    BY <1>0, <1>2, <2>1, TaskSet, IdleType DEF Types
<1>3. CASE /\ modules' = list
           /\ stage' = [stage EXCEPT ![m] = "gone"]
           /\ task' = [task EXCEPT ![m] = Idle]
  BY <1>0, <1>3, TaskSet, IdleType DEF Types
<1>4. CASE /\ i # 0
           /\ list[i] \notin Core
           /\ modules' = list
           /\ task' = [task EXCEPT ![m] = [at |-> "overtaking", class |-> ClassOf[m],
                                           pos |-> i + 1, victim |-> list[i]]]
           /\ UNCHANGED stage
  <2>1. i \in 1..Len(list) /\ list[i] \in Mods
    BY <1>1, <1>4
  <2> DEFINE r == [at |-> "overtaking", class |-> ClassOf[m], pos |-> i + 1,
                   victim |-> list[i]]
  <2>2. r \in Task
    BY <1>0, <2>1 DEF Task
  <2>3. /\ task' \in [Tasks -> Task] /\ task'[m] = r
        /\ \A u \in Tasks : u # m => task'[u] = task[u]
    BY <1>0, <1>4, <2>2, TaskSet DEF Types
  <2>4. In(list, list[i])
    BY <2>1 DEF In
  <2> QED
    BY <1>1, <1>4, <2>1, <2>3, <2>4
<1> QED
  BY <1>2, <1>3, <1>4 DEF Scan, i

(* Scanning what is left of the modules keeps the invariant.                *)
LEMMA ScanKeeps ==
    ASSUME IInv, NEW m \in Mods, NEW list \in Seq(Mods), NEW pos \in Nat \ {0},
           pos = 1 \/ \A n : In(list, n) => ClassOf[n] # ClassOf[m],
           Scan(m, list, pos), Single(list),
           \A n : In(list, n) => Loaded(n),
           \A n : Loaded(n) /\ ~In(list, n) => n \notin running',
           stage[m] = "new", task[m].at \in {"idle", "overtaking"},
           running' \subseteq running, coreCommands' = coreCommands,
           commands' = commands, histories' = histories
    PROVE  IInv'
<1> USE DEF IInv
<1>0. /\ m \in Tasks /\ m \notin running /\ ~Loaded(m) /\ m \notin unloaded
      /\ early' = early /\ late' = late /\ unloaded' = unloaded /\ raised' = raised
  BY DEF Tasks, StagesOK, histories
<1>1. /\ task' \in [Tasks -> Task]
      /\ \A t \in Tasks : t # m => task'[t] = task[t]
      /\ \/ /\ modules' = Append(list, m)
            /\ \A n : In(list, n) => ClassOf[n] # ClassOf[m]
            /\ stage' = [stage EXCEPT ![m] = "waiting"] /\ task'[m].at = "idle"
         \/ /\ modules' = list
            /\ stage' = [stage EXCEPT ![m] = "gone"] /\ task'[m].at = "idle"
         \/ /\ modules' = list /\ stage' = stage
            /\ task'[m].at = "overtaking" /\ task'[m].pos > 0
            /\ task'[m].victim \in Mods \ Core /\ In(list, task'[m].victim)
            /\ ClassOf[task'[m].victim] = ClassOf[m]
  BY ScanFacts
<1>2. /\ modules' \in Seq(Mods) /\ Single(modules')
      /\ \A n : In(list, n) => In(modules', n)
      /\ \A n : In(modules', n) => In(list, n) \/ (n = m /\ stage'[m] = "waiting")
  <2>1. CASE /\ modules' = Append(list, m)
             /\ \A n : In(list, n) => ClassOf[n] # ClassOf[m]
             /\ stage' = [stage EXCEPT ![m] = "waiting"]
    <3>1. /\ modules' \in Seq(Mods) /\ Single(modules')
          /\ \A n : In(modules', n) <=> In(list, n) \/ n = m
      BY <2>1, AppendSingle
    <3>2. stage'[m] = "waiting"
      BY <2>1 DEF Types
    <3> QED
      BY <3>1, <3>2
  <2>2. CASE modules' = list
    BY <2>2
  <2> QED
    BY <1>1, <2>1, <2>2
<1>3. /\ stage' \in [Mods -> Stages]
      /\ \A n \in Mods : n # m => stage'[n] = stage[n]
      /\ stage'[m] \in {"new", "waiting", "gone"}
  <2>1. {"new", "waiting", "gone"} \subseteq Stages
    BY DEF Stages
  <2> QED
    BY <1>1, <2>1 DEF Types
<1>4. \A n : Loaded(n)' <=> In(modules', n)
  BY DEF Loaded, In
<1>5. \A n : In(list, n) =>
              n \in Mods /\ stage[n] \notin {"new", "refused"} /\ n \notin unloaded
  BY DEF StagesOK, In
<1>6. Types'
  BY <1>0, <1>1, <1>2, <1>3 DEF Types
<1>7. TasksOK'
  <2>1. ASSUME NEW t \in Tasks, t # m, task[t].at \in {"overtaking", "unloading"}
        PROVE  /\ task[t].victim # m
               /\ stage'[task[t].victim] = stage[task[t].victim]
    BY <1>3, <2>1 DEF TasksOK
  <2>2. ASSUME NEW t \in Tasks, task[t].at = "unloading"
        PROVE  ~In(modules', task[t].victim)
    <3>1. ~Loaded(task[t].victim) /\ task[t].victim # m
      BY <2>2 DEF TasksOK
    <3> QED
      BY <1>2, <3>1
  <2>3. ASSUME NEW t \in Tasks, t # m
        PROVE  /\ task'[t].at \in {"overtaking", "unloading"} =>
                    task'[t].pos > 0 /\ task'[t].victim \in Mods \ Core
                    /\ stage'[task'[t].victim] # "new"
               /\ task'[t].at = "overtaking" =>
                    t \in Mods /\ stage'[t] = "new"
                    /\ ClassOf[task'[t].victim] = ClassOf[t]
               /\ task'[t].at = "unloading" =>
                    /\ ~In(modules', task'[t].victim)
                    /\ t \in Mods => stage'[t] = "gone"
    BY <1>1, <1>3, <2>1, <2>2, <2>3 DEF TasksOK
  <2>4. task'[m].at = "overtaking" =>
          /\ task'[m].pos > 0 /\ task'[m].victim \in Mods \ Core
          /\ stage'[task'[m].victim] # "new" /\ stage'[m] = "new"
          /\ ClassOf[task'[m].victim] = ClassOf[m]
    BY <1>1, <1>5
  <2>5. task'[m].at \in {"idle", "overtaking"}
    BY <1>1
  <2> QED
    BY <2>3, <2>4, <2>5 DEF TasksOK, Loaded, In
<1>8. StagesOK'
  <2>1. ASSUME NEW n \in Mods, In(modules', n)
        PROVE  stage'[n] \notin {"new", "refused"} /\ n \notin unloaded'
    BY <1>0, <1>2, <1>3, <1>5, <2>1
  <2>2. \A n \in unloaded' : stage'[n] # "new"
    BY <1>0, <1>3 DEF StagesOK, Types
  <2>3. \A n \in Mods \ Core : stage'[n] = "ready" => ToSet(Commands[n]) \subseteq early'[n]
    BY <1>0, <1>3 DEF StagesOK
  <2>4. \A n \in running' :
           stage'[n] \in {"ready", "refused"} /\ (n \in unloaded' => n \in late')
    BY <1>0, <1>3 DEF StagesOK, Types
  <2> QED
    BY <1>4, <2>1, <2>2, <2>3, <2>4 DEF StagesOK
<1>9. OneOfEach'
  BY <1>2 DEF OneOfEach, Single
<1>10. LoopsLeft'
  <2> SUFFICES ASSUME NEW n \in running'
               PROVE  (\/ Loaded(n)
                       \/ \E t \in Tasks : task[t].at = "unloading" /\ task[t].victim = n
                       \/ n \in raised
                       \/ n \in late
                       \/ stage[n] = "refused")'
    BY DEF LoopsLeft
  <2>1. n \in running /\ n \in Mods /\ n # m
    BY <1>0 DEF Types
  <2>2. CASE Loaded(n)
    BY <1>2, <1>4, <2>2
  <2>3. ASSUME NEW t \in Tasks, task[t].at = "unloading", task[t].victim = n
        PROVE  task'[t] = task[t]
    BY <1>1, <2>3
  <2>4. stage'[n] = stage[n]
    BY <1>3, <2>1
  <2> QED
    BY <1>0, <2>1, <2>2, <2>3, <2>4 DEF LoopsLeft
<1>11. CoreKept'
  BY <1>0, <1>3 DEF CoreKept
<1> QED
  BY <1>6, <1>7, <1>8, <1>9, <1>10, <1>11

LEMMA LoadKeeps ==
    ASSUME IInv, NEW m \in Mods, Load(m) \/ Overtake(m)
    PROVE  IInv'
<1> USE DEF IInv
<1>0. modules \in Seq(Mods) /\ Single(modules) /\ \A n : In(modules, n) <=> Loaded(n)
  BY DEF Types, OneOfEach, Single, In, Loaded
<1>1. CASE Load(m)
  BY <1>0, <1>1, ScanKeeps DEF Load, registered
<1>2. CASE Overtake(m)
  <2>1. PICK v \in Mods : v = task[m].victim
    BY <1>2 DEF Overtake, TasksOK, Tasks
  <2>2. task[m].at = "overtaking" /\ m \in Tasks
    BY <1>2 DEF Overtake, Tasks
  <2>3. stage[m] = "new" /\ ClassOf[v] = ClassOf[m] /\ task[m].pos \in Nat \ {0}
    BY <2>1, <2>2 DEF TasksOK, Types, Task
  <2>4. /\ Without(modules, v) \in Seq(Mods) /\ Single(Without(modules, v))
        /\ \A n : In(Without(modules, v), n) <=> In(modules, n) /\ n # v
        /\ \A n : In(Without(modules, v), n) => ClassOf[n] # ClassOf[v]
    BY <1>0, <1>2, <2>1, WithoutSingle DEF Overtake
  <2>5. /\ Scan(m, Without(modules, v), task[m].pos)
        /\ running' = running \ {v}
        /\ commands' = commands /\ coreCommands' = coreCommands /\ histories' = histories
    BY <1>2, <2>1 DEF Overtake, registered
  <2> QED
    BY <1>0, <2>2, <2>3, <2>4, <2>5, ScanKeeps
<1> QED
  BY <1>1, <1>2

-----------------------------------------------------------------------------
(* The iteration of an unload.                                              *)

LEMMA UnloadNextFacts ==
    ASSUME Types, NEW list \in Seq(Mods), Single(list), NEW t \in Tasks,
           NEW name \in Classes \cup {None}, NEW pos \in Nat \ {0},
           UnloadNext(t, name, list, pos) \/ Leave(t, list)
    PROVE  /\ task' \in [Tasks -> Task]
           /\ \A u \in Tasks : u # t => task'[u] = task[u]
           /\ modules' \in Seq(Mods) /\ Single(modules')
           /\ \/ /\ task'[t].at = "done"
                 /\ \A n : In(modules', n) => In(list, n)
                 /\ \A n : In(list, n) => In(modules', n) \/ (n = t /\ t \in Mods)
              \/ /\ task'[t].at = "unloading" /\ task'[t].pos > 0
                 /\ task'[t].victim \in Mods \ Core /\ In(list, task'[t].victim)
                 /\ \A n : In(modules', n) <=> In(list, n) /\ n # task'[t].victim
<1> DEFINE i == NextOf(list, Called(name), pos)
<1>1. i # 0 => i \in pos..Len(list)
  BY NextOfFacts
<1> HIDE DEF i
<1>2. CASE Leave(t, list)
  <2>1. task' = [task EXCEPT ![t] = [Idle EXCEPT !.at = "done"]]
    BY <1>2 DEF Leave
  <2>2. /\ task' \in [Tasks -> Task] /\ task'[t].at = "done"
        /\ \A u \in Tasks : u # t => task'[u] = task[u]
    BY <2>1, TaskSet, IdleType DEF Types
  <2>3. \/ modules' = list
        \/ t \in Mods /\ In(list, t) /\ modules' = Without(list, t)
    BY <1>2 DEF Leave, In
  <2> QED
    BY <2>2, <2>3, WithoutSingle
<1>3. CASE /\ i # 0 /\ list[i] \notin Core
           /\ modules' = Without(list, list[i])
           /\ task' = [task EXCEPT ![t] = [at |-> "unloading", class |-> name,
                                           pos |-> i + 1, victim |-> list[i]]]
  <2>1. i \in 1..Len(list) /\ list[i] \in Mods
    BY <1>1, <1>3
  <2> DEFINE r == [at |-> "unloading", class |-> name, pos |-> i + 1,
                   victim |-> list[i]]
  <2>2. r \in Task
    BY <2>1 DEF Task
  <2>3. /\ task' \in [Tasks -> Task] /\ task'[t] = r
        /\ \A u \in Tasks : u # t => task'[u] = task[u]
    BY <1>3, <2>2, TaskSet DEF Types
  <2>4. In(list, list[i])
    BY <2>1 DEF In
  <2>5. /\ modules' \in Seq(Mods) /\ Single(modules')
        /\ \A n : In(modules', n) <=> In(list, n) /\ n # list[i]
    BY <1>3, <2>4, WithoutSingle
  <2> QED
    BY <1>3, <2>1, <2>3, <2>4, <2>5
<1> QED
  BY <1>2, <1>3 DEF UnloadNext, i

(* Going on with it keeps the invariant: the instance it had is through.    *)
LEMMA UnloadKeeps ==
    ASSUME IInv, NEW list \in Seq(Mods), Single(list),
           NEW t \in Tasks, NEW name \in Classes \cup {None},
           NEW pos \in Nat \ {0},
           UnloadNext(t, name, list, pos) \/ Leave(t, list),
           \A n : In(list, n) => Loaded(n),
           \A n : Loaded(n) => In(list, n) \/ (n = t /\ t \in Mods),
           task[t].at \in {"idle", "unloading"},
           stage' \in [Mods -> Stages],
           \A n \in Mods :
              \/ stage'[n] = stage[n]
              \/ n = t /\ stage[n] = "waiting" /\ stage'[n] = "gone",
           t \in Mods => stage'[t] = "gone",
           running' \subseteq running, coreCommands' = coreCommands,
           task[t].at = "unloading" /\ task[t].victim \in running'
              => task[t].victim \in raised',
           raised \subseteq raised', early' = early,
           \A n \in running' : n \in late => n \in late',
           \/ unloaded' = unloaded
           \/ /\ task[t].at = "unloading" /\ task[t].victim \notin running'
              /\ unloaded' = unloaded \cup {task[t].victim},
           commands' \in [Names -> Mods \cup {None}],
           \A n \in Names : commands'[n] \in {commands[n], None}
    PROVE  IInv'
<1> USE DEF IInv
<1>0. /\ \A n : In(modules, n) <=> Loaded(n)
      /\ \A n : Loaded(n) => n \in Mods
  BY DEF Types, In, Loaded
<1>1. /\ task' \in [Tasks -> Task]
      /\ \A u \in Tasks : u # t => task'[u] = task[u]
      /\ modules' \in Seq(Mods) /\ Single(modules')
      /\ \/ /\ task'[t].at = "done"
            /\ \A n : In(modules', n) => In(list, n)
            /\ \A n : In(list, n) => In(modules', n) \/ (n = t /\ t \in Mods)
         \/ /\ task'[t].at = "unloading" /\ task'[t].pos > 0
            /\ task'[t].victim \in Mods \ Core /\ In(list, task'[t].victim)
            /\ \A n : In(modules', n) <=> In(list, n) /\ n # task'[t].victim
  BY UnloadNextFacts
<1>2. \A n : Loaded(n)' <=> In(modules', n)
  BY DEF Loaded, In
<1>3. \A n : In(modules', n) => In(list, n) /\ Loaded(n)
  BY <1>1
<1>4. task[t].at = "unloading" =>
        /\ task[t].victim \in Mods \ Core
        /\ ~Loaded(task[t].victim) /\ stage[task[t].victim] # "new"
  BY DEF TasksOK
<1>5. \A n \in Mods : /\ stage[n] = "new" <=> stage'[n] = "new"
                      /\ stage[n] = "gone" => stage'[n] = "gone"
  BY <1>4
<1>6. Types'
  BY <1>1, <1>4 DEF Types
<1>7. TasksOK'
  <2>1. ASSUME NEW u \in Tasks, u # t
        PROVE  /\ task'[u].at \in {"overtaking", "unloading"} =>
                    task'[u].pos > 0 /\ task'[u].victim \in Mods \ Core
                    /\ stage'[task'[u].victim] # "new"
               /\ task'[u].at = "overtaking" =>
                    u \in Mods /\ stage'[u] = "new"
                    /\ ClassOf[task'[u].victim] = ClassOf[u]
               /\ task'[u].at = "unloading" =>
                    /\ ~In(modules', task'[u].victim)
                    /\ u \in Mods => stage'[u] = "gone"
    BY <1>0, <1>1, <1>3, <1>5, <2>1 DEF TasksOK
  <2>2. task'[t].at \in {"overtaking", "unloading"} =>
          /\ task'[t].at = "unloading"
          /\ task'[t].pos > 0 /\ task'[t].victim \in Mods \ Core
          /\ stage'[task'[t].victim] # "new"
          /\ ~In(modules', task'[t].victim)
          /\ t \in Mods => stage'[t] = "gone"
    BY <1>0, <1>1, <1>5 DEF StagesOK
  <2> QED
    BY <1>2, <2>1, <2>2 DEF TasksOK
<1>8. StagesOK'
  <2>1. ASSUME NEW n \in Mods, In(modules', n)
        PROVE  stage'[n] \notin {"new", "refused"} /\ n \notin unloaded'
    BY <1>3, <1>4, <2>1 DEF StagesOK
  <2>2. \A n \in unloaded' : stage'[n] # "new"
    BY <1>4, <1>5 DEF StagesOK, Types
  <2>3. \A n \in Mods \ Core : stage'[n] = "ready" => ToSet(Commands[n]) \subseteq early'[n]
    BY DEF StagesOK
  <2>4. \A n \in running' :
           stage'[n] \in {"ready", "refused"} /\ (n \in unloaded' => n \in late')
    BY DEF StagesOK, Types
  <2> QED
    BY <1>2, <2>1, <2>2, <2>3, <2>4 DEF StagesOK
<1>9. OneOfEach'
  BY <1>1 DEF OneOfEach, Single
<1>10. LoopsLeft'
  <2> SUFFICES ASSUME NEW n \in running'
               PROVE  (\/ Loaded(n)
                       \/ \E u \in Tasks : task[u].at = "unloading" /\ task[u].victim = n
                       \/ n \in raised
                       \/ n \in late
                       \/ stage[n] = "refused")'
    BY DEF LoopsLeft
  <2>1. n \in running /\ n \in Mods /\ stage'[n] \in {"ready", "refused"}
    BY <1>8 DEF Types, StagesOK
  <2>2. n # t
    BY <2>1
  <2>3. CASE Loaded(n)
    BY <1>0, <1>1, <1>2, <2>2, <2>3
  <2>4. ASSUME NEW u \in Tasks, task[u].at = "unloading", task[u].victim = n
        PROVE  task'[u] = task[u] \/ n \in raised'
    BY <1>1, <2>4
  <2>5. stage'[n] = stage[n]
    BY <2>1
  <2> QED
    BY <2>1, <2>3, <2>4, <2>5 DEF LoopsLeft
<1>11. CoreKept'
  <2> SUFFICES ASSUME NEW n \in coreCommands, commands'[n] \in Mods \ Core
               PROVE  \/ stage'[commands'[n]] \in {"waiting", "suspended", "gone"}
                      \/ stage'[commands'[n]] = "ready" /\ n \in early'[commands'[n]]
    BY DEF CoreKept
  <2>1. n \in Names /\ None \notin Mods
    BY ModsAssumption DEF Types
  <2>2. commands'[n] = commands[n]
    BY <2>1
  <2> QED
    BY <2>2 DEF CoreKept
<1> QED
  BY <1>6, <1>7, <1>8, <1>9, <1>10, <1>11

LEMMA UnloadStepKeeps ==
    ASSUME IInv, NEW t \in Tasks,
           \/ \E name \in Classes : t \in Unloads /\ Unload(t, name)
           \/ t \in Mods /\ (SelfUnload(t) \/ FailChecks(t))
           \/ Unloaded(t) \/ UnloadFails(t)
    PROVE  IInv'
<1> USE DEF IInv
<1>0. /\ commands \in [Names -> Mods \cup {None}] /\ stage \in [Mods -> Stages]
      /\ task[t] \in Task /\ "gone" \in Stages
      /\ modules \in Seq(Mods) /\ Single(modules)
      /\ \A n : In(modules, n) <=> Loaded(n)
  BY DEF Types, Stages, OneOfEach, Single, In, Loaded
<1>1. ASSUME NEW name \in Classes, t \in Unloads, Unload(t, name)
      PROVE  IInv'
  BY <1>0, <1>1, UnloadKeeps, UnloadsAssumption DEF Unload, registered, histories
<1>2. ASSUME NEW list \in Seq(Mods), Single(list), t \in Mods, Withdraw(t, list),
             \A n : In(list, n) => Loaded(n),
             \A n : Loaded(n) => In(list, n) \/ n = t
      PROVE  IInv'
  <2>1. /\ stage[t] = "waiting" /\ task[t].at = "idle"
        /\ stage' = [stage EXCEPT ![t] = "gone"]
        /\ UnloadNext(t, ClassOf[t], list, 1)
        /\ commands' = commands /\ running' = running /\ coreCommands' = coreCommands
        /\ early' = early /\ late' = late /\ unloaded' = unloaded /\ raised' = raised
    BY <1>2 DEF Withdraw, registered, histories
  <2>2. /\ stage' \in [Mods -> Stages] /\ stage'[t] = "gone"
        /\ \A n \in Mods : n # t => stage'[n] = stage[n]
    BY <1>0, <1>2, <2>1
  <2>3. ClassOf[t] \in Classes
    BY <1>2, ClassAssumption
  <2> QED
    BY <1>0, <1>2, <2>1, <2>2, <2>3, UnloadKeeps
<1>3. CASE t \in Mods /\ SelfUnload(t)
  BY <1>0, <1>2, <1>3 DEF SelfUnload
<1>4. CASE t \in Mods /\ FailChecks(t)
  <2>1. /\ Without(modules, t) \in Seq(Mods) /\ Single(Without(modules, t))
        /\ \A n : In(Without(modules, t), n) <=> In(modules, n) /\ n # t
    BY <1>0, <1>4, WithoutSingle DEF FailChecks
  <2> QED
    BY <1>0, <1>2, <1>4, <2>1 DEF FailChecks
<1>5. CASE Unloaded(t)
  <2>1. PICK v \in Mods : v = task[t].victim
    BY <1>5 DEF Unloaded, TasksOK
  <2>2. /\ task[t].at = "unloading" /\ running' = running \ {v}
        /\ commands' = Unregistered(ClassOf[v])
        /\ stage' = stage /\ coreCommands' = coreCommands /\ early' = early
        /\ unloaded' = unloaded \cup {v} /\ late' = late \ {v} /\ raised' = raised
        /\ UnloadNext(t, task[t].class, modules, task[t].pos)
    BY <1>5, <2>1 DEF Unloaded
  <2>3. /\ commands' \in [Names -> Mods \cup {None}]
        /\ \A n \in Names : commands'[n] \in {commands[n], None}
    BY <1>0, <2>2, ModsAssumption DEF Unregistered
  <2>4. task[t].class \in Classes \cup {None} /\ task[t].pos \in Nat \ {0}
    BY <1>0, <2>2 DEF TasksOK, Task
  <2>5. t \in Mods => stage'[t] = "gone"
    BY <2>2 DEF TasksOK
  <2> QED
    BY <1>0, <2>1, <2>2, <2>3, <2>4, <2>5, UnloadKeeps
<1>6. CASE UnloadFails(t)
  <2>1. /\ task[t].at = "unloading" /\ raised' = raised \cup {task[t].victim}
        /\ Leave(t, modules) /\ commands' = commands /\ running' = running
        /\ stage' = stage /\ coreCommands' = coreCommands
        /\ early' = early /\ late' = late /\ unloaded' = unloaded
    BY <1>6 DEF UnloadFails, registered
  <2>2. t \in Mods => stage'[t] = "gone"
    BY <2>1 DEF TasksOK
  <2>3. 1 \in Nat \ {0} /\ None \in Classes \cup {None}
    OBVIOUS
  <2> QED
    BY <1>0, <2>1, <2>2, <2>3, UnloadKeeps
<1> QED
  BY <1>1, <1>3, <1>4, <1>5, <1>6

-----------------------------------------------------------------------------
(* The end of a registration.                                               *)

LEMMA RefusedAtFacts ==
    ASSUME NEW m \in Mods \ Core
    PROVE  /\ \A n \in Enabled(m) : n \notin coreCommands
           /\ RefusedAt(m) = 0 => Enabled(m) = ToSet(Commands[m])
           /\ Enabled(m) \subseteq Names
<1> DEFINE found == {i \in 1..Len(Commands[m]) : Commands[m][i] \in coreCommands}
<1>0. Commands[m] \in Seq(Names)
  BY CommandsAssumption
<1>1. found \in SUBSET Nat /\ found \subseteq 1..Len(Commands[m])
  BY <1>0
<1>2. RefusedAt(m) = IF found = {} THEN 0 ELSE Min(found)
  BY DEF RefusedAt
<1>3. found # {} => Min(found) \in found /\ \A x \in found : Min(found) <= x
  BY <1>1, MinFacts
<1> DEFINE upto == IF RefusedAt(m) = 0 THEN Len(Commands[m]) ELSE RefusedAt(m) - 1
<1>4. upto \in Nat /\ upto <= Len(Commands[m]) /\ \A i \in 1..upto : i \notin found
  <2>1. CASE RefusedAt(m) = 0
    <3>1. found = {}
      BY <1>1, <1>2, <1>3, <2>1
    <3> QED
      BY <1>0, <2>1, <3>1
  <2>2. CASE RefusedAt(m) # 0
    <3> DEFINE r == RefusedAt(m)
    <3>1. r \in found /\ \A x \in found : r <= x
      BY <1>2, <1>3, <2>2
    <3>2. r \in 1..Len(Commands[m]) /\ upto = r - 1 /\ Len(Commands[m]) \in Nat
      BY <1>0, <1>1, <2>2, <3>1
    <3> HIDE DEF r, upto, found
    <3> QED
      BY <3>1, <3>2
  <2> QED
    BY <2>1, <2>2
<1>5. Enabled(m) = {Commands[m][i] : i \in 1..upto}
  BY DEF Enabled
<1> HIDE DEF upto
<1>6. \A i \in 1..upto : i \in 1..Len(Commands[m])
  BY <1>0, <1>4
<1>7. \A i \in 1..upto : Commands[m][i] \in Names /\ Commands[m][i] \notin coreCommands
  BY <1>0, <1>4, <1>6
<1>8. RefusedAt(m) = 0 => upto = Len(Commands[m])
  BY DEF upto
<1>9. ToSet(Commands[m]) = {Commands[m][i] : i \in 1..Len(Commands[m])}
  BY <1>0 DEF ToSet
<1> QED
  BY <1>5, <1>7, <1>8, <1>9

LEMMA ReadyKeeps ==
    ASSUME IInv, NEW m \in Mods, Ready(m)
    PROVE  IInv'
<1> USE DEF IInv
<1>0. /\ modules \in Seq(Mods) /\ Single(modules)
      /\ \A n : In(modules, n) <=> Loaded(n)
      /\ \A n : Loaded(n)' <=> In(modules', n)
      /\ stage \in [Mods -> Stages] /\ {"ready", "refused"} \subseteq Stages
  BY DEF Types, OneOfEach, Single, In, Loaded, Stages
<1>1. /\ stage[m] = "waiting" /\ task[m].at = "idle"
      /\ running' = running \cup Autostarted(m)
      /\ late' = late \cup (IF Loaded(m) THEN {} ELSE {m})
      /\ coreCommands' = coreCommands \cup (IF m \in Core THEN ToSet(Commands[m]) ELSE {})
      /\ early' = [early EXCEPT ![m] = Enabled(m) \ coreCommands]
      /\ task' = task /\ raised' = raised /\ unloaded' = unloaded
      /\ commands' = [n \in Names |-> IF n \in Enabled(m) THEN m
                                       ELSE Unregistered(ClassOf[m])[n]]
  BY DEF Ready
<1>2. \/ /\ RefusedAt(m) = 0 /\ modules' = modules
         /\ stage' = [stage EXCEPT ![m] = "ready"]
      \/ /\ stage' = [stage EXCEPT ![m] = "refused"]
         /\ modules' = IF Loaded(m) THEN Without(modules, m) ELSE modules
  BY DEF Ready
<1>3. /\ stage' \in [Mods -> Stages]
      /\ \A n \in Mods : n # m => stage'[n] = stage[n]
      /\ (stage'[m] = "ready" /\ RefusedAt(m) = 0) \/ stage'[m] = "refused"
  BY <1>0, <1>2
<1>4. /\ modules' \in Seq(Mods) /\ Single(modules')
      /\ \A n : In(modules', n) => In(modules, n) /\ (n = m => stage'[m] = "ready")
      /\ \A n : In(modules, n) => In(modules', n) \/ n = m
      /\ stage'[m] = "ready" => modules' = modules
  <2>1. CASE modules' = modules /\ stage'[m] = "ready"
    BY <1>0, <2>1
  <2>2. CASE stage'[m] = "refused" /\ In(modules, m) /\ modules' = Without(modules, m)
    BY <1>0, <2>2, WithoutSingle
  <2>3. CASE stage'[m] = "refused" /\ ~In(modules, m) /\ modules' = modules
    BY <1>0, <2>3
  <2> QED
    BY <1>0, <1>2, <2>1, <2>2, <2>3
<1>5. running' \subseteq running \cup {m}
  BY <1>1 DEF Autostarted
<1> DEFINE own == ToSet(Commands[m])
<1>5a. own \subseteq Names /\ Enabled(m) \subseteq Names
  <2>1. Commands[m] \in Seq(Names)
    BY CommandsAssumption
  <2>2. own \subseteq Names
    BY <2>1 DEF ToSet
  <2>3. RefusedAt(m) = 0 => Enabled(m) = own
    BY <2>1 DEF Enabled, ToSet
  <2>4. m \in Core => RefusedAt(m) = 0
    BY DEF RefusedAt
  <2> QED
    BY <2>2, <2>3, <2>4, RefusedAtFacts
<1>5b. early' \in [Mods -> SUBSET Names] /\ early'[m] = Enabled(m) \ coreCommands
        /\ \A n \in Mods : n # m => early'[n] = early[n]
  BY <1>1, <1>5a DEF Types
<1>6. Types'
  <2>1. commands' \in [Names -> Mods \cup {None}]
    <3>1. Unregistered(ClassOf[m]) \in [Names -> Mods \cup {None}]
      BY DEF Unregistered, Types
    <3> QED
      BY <1>1, <3>1
  <2> QED
    BY <1>1, <1>3, <1>4, <1>5, <1>5a, <1>5b, <2>1 DEF Types
<1>7. TasksOK'
  <2>1. ASSUME NEW t \in Tasks, task[t].at \in {"overtaking", "unloading"}
        PROVE  t # m /\ stage'[task[t].victim] # "new"
    BY <1>1, <1>3, <2>1 DEF TasksOK
  <2>2. ASSUME NEW t \in Tasks, task[t].at \in {"overtaking", "unloading"}
        PROVE  t \in Mods => stage'[t] = stage[t]
    BY <1>3, <2>1, <2>2
  <2> QED
    BY <1>0, <1>1, <1>4, <2>1, <2>2 DEF TasksOK
<1>8. StagesOK'
  <2>1. ASSUME NEW n \in Mods, In(modules', n)
        PROVE  stage'[n] \notin {"new", "refused"} /\ n \notin unloaded'
    BY <1>0, <1>1, <1>3, <1>4, <2>1 DEF StagesOK
  <2>2. \A n \in unloaded' : stage'[n] # "new"
    BY <1>1, <1>3 DEF StagesOK, Types
  <2>3. ASSUME NEW n \in Mods \ Core, stage'[n] = "ready"
        PROVE  ToSet(Commands[n]) \subseteq early'[n]
    <3>1. CASE n # m
      BY <1>3, <1>5b, <2>3, <3>1 DEF StagesOK
    <3>2. CASE n = m
      BY <1>3, <1>5b, <2>3, <3>2, RefusedAtFacts
    <3> QED
      BY <3>1, <3>2
  <2>4. ASSUME NEW n \in running'
        PROVE  stage'[n] \in {"ready", "refused"} /\ (n \in unloaded' => n \in late')
    <3>1. m \in unloaded => ~Loaded(m)
      BY DEF StagesOK
    <3> QED
      BY <1>1, <1>3, <1>5, <3>1 DEF StagesOK, Types
  <2> QED
    BY <1>0, <2>1, <2>2, <2>3, <2>4 DEF StagesOK
<1>9. OneOfEach'
  BY <1>4 DEF OneOfEach, Single
<1>10. LoopsLeft'
  <2> SUFFICES ASSUME NEW n \in running'
               PROVE  (\/ Loaded(n)
                       \/ \E t \in Tasks : task[t].at = "unloading" /\ task[t].victim = n
                       \/ n \in raised
                       \/ n \in late
                       \/ stage[n] = "refused")'
    BY DEF LoopsLeft
  <2>1. CASE n = m
    BY <1>0, <1>1, <1>3, <1>4, <2>1
  <2>2. CASE n # m
    <3>1. n \in running /\ n \in Mods /\ stage'[n] = stage[n]
      BY <1>3, <1>5, <2>2 DEF Types
    <3>2. Loaded(n) => Loaded(n)'
      BY <1>0, <1>4, <2>2
    <3> QED
      BY <1>1, <3>1, <3>2 DEF LoopsLeft
  <2> QED
    BY <2>1, <2>2
<1>11. CoreKept'
  <2> SUFFICES ASSUME NEW n \in coreCommands', commands'[n] \in Mods \ Core
               PROVE  \/ stage'[commands'[n]] \in {"waiting", "suspended", "gone"}
                      \/ stage'[commands'[n]] = "ready" /\ n \in early'[commands'[n]]
    BY DEF CoreKept
  <2>0. n \in Names /\ None \notin Mods
    BY <1>1, <1>5a, ModsAssumption DEF Types
  <2>1. n \notin Enabled(m)
    <3>1. CASE m \in Core
      BY <1>1, <2>0, <3>1
    <3>2. CASE m \notin Core
      <4>1. n \in coreCommands
        BY <1>1, <3>2
      <4> QED
        BY <3>2, <4>1, RefusedAtFacts
    <3> QED
      BY <3>1, <3>2
  <2>2. n \in coreCommands
    <3>1. m \in Core => RefusedAt(m) = 0 /\ Enabled(m) = own
      <4>1. Commands[m] \in Seq(Names)
        BY CommandsAssumption
      <4> QED
        BY <4>1 DEF RefusedAt, Enabled, ToSet
    <3> QED
      BY <1>1, <2>1, <3>1
  <2>3. commands'[n] = commands[n] /\ ClassOf[commands[n]] # ClassOf[m]
    BY <1>1, <2>0, <2>1 DEF Unregistered
  <2>4. commands[n] # m /\ stage'[commands[n]] = stage[commands[n]]
        /\ early'[commands[n]] = early[commands[n]]
    BY <1>3, <1>5b, <2>3
  <2> QED
    BY <2>2, <2>3, <2>4 DEF CoreKept
<1> QED
  BY <1>6, <1>7, <1>8, <1>9, <1>10, <1>11

LEMMA SuspendKeeps ==
    ASSUME IInv, NEW m \in Mods, Suspend(m) \/ Fail(m) \/ OvertakeFails(m)
    PROVE  IInv'
<1> USE DEF IInv
<1>0. /\ modules \in Seq(Mods) /\ Single(modules)
      /\ \A n : In(modules, n) <=> Loaded(n)
      /\ \A n : Loaded(n)' <=> In(modules', n)
      /\ stage \in [Mods -> Stages] /\ {"suspended", "gone"} \subseteq Stages
      /\ m \in Tasks
  BY DEF Types, OneOfEach, Single, In, Loaded, Stages, Tasks
<1>1. /\ stage[m] \in {"waiting", "new"}
      /\ stage[m] = "new" => task[m].at = "overtaking"
      /\ commands' = commands /\ running' = running /\ coreCommands' = coreCommands
      /\ early' = early /\ late' = late /\ unloaded' = unloaded /\ raised' = raised
      /\ \E s \in {"suspended", "gone"} : stage' = [stage EXCEPT ![m] = s]
      /\ task' = task \/ task' = [task EXCEPT ![m] = Idle]
      /\ modules' = modules \/ (In(modules, m) /\ modules' = Without(modules, m))
  <2>1. CASE Suspend(m)
    BY <2>1 DEF Suspend, registered, histories
  <2>2. CASE Fail(m)
    BY <1>0, <2>2 DEF Fail, registered, histories
  <2>3. CASE OvertakeFails(m)
    <3>1. stage[m] = "new" /\ task[m].at = "overtaking"
      BY <1>0, <2>3 DEF OvertakeFails, TasksOK
    <3> QED
      BY <2>3, <3>1 DEF OvertakeFails, registered, histories
  <2> QED
    BY <2>1, <2>2, <2>3
<1>2. /\ task' \in [Tasks -> Task]
      /\ \A t \in Tasks : t # m => task'[t] = task[t]
      /\ task'[m] = task[m] \/ task'[m].at = "idle"
      /\ stage[m] = "new" => task'[m].at = "idle"
  <2>1. CASE task' = [task EXCEPT ![m] = Idle]
    BY <1>0, <2>1, TaskSet, IdleType DEF Types
  <2>2. CASE task' = task
    BY <1>0, <2>2 DEF Types, Suspend, Fail, OvertakeFails, Idle
  <2> QED
    BY <1>1, <2>1, <2>2
<1>3. /\ stage' \in [Mods -> Stages]
      /\ \A n \in Mods : n # m => stage'[n] = stage[n]
      /\ stage'[m] \in {"suspended", "gone"}
  BY <1>0, <1>1
<1>4. /\ modules' \in Seq(Mods) /\ Single(modules')
      /\ \A n : In(modules', n) => In(modules, n)
      /\ \A n : In(modules, n) => In(modules', n) \/ n = m
  BY <1>0, <1>1, WithoutSingle
<1>5. m \notin running
  BY <1>1 DEF StagesOK
<1>6. Types'
  BY <1>1, <1>2, <1>3, <1>4 DEF Types
<1>7. TasksOK'
  <2>1. ASSUME NEW t \in Tasks
        PROVE  /\ task'[t].at \in {"overtaking", "unloading"} =>
                    task'[t].pos > 0 /\ task'[t].victim \in Mods \ Core
                    /\ stage'[task'[t].victim] # "new"
               /\ task'[t].at = "overtaking" =>
                    t \in Mods /\ stage'[t] = "new"
                    /\ ClassOf[task'[t].victim] = ClassOf[t]
               /\ task'[t].at = "unloading" =>
                    /\ ~In(modules', task'[t].victim)
                    /\ t \in Mods => stage'[t] = "gone"
    <3>1. CASE t = m
      BY <1>0, <1>1, <1>2, <3>1 DEF TasksOK
    <3>2. CASE t # m
      <4>1. task'[t] = task[t] /\ (t \in Mods => stage'[t] = stage[t])
        BY <1>2, <1>3, <3>2
      <4> QED
        BY <1>0, <1>3, <1>4, <4>1 DEF TasksOK
    <3> QED
      BY <3>1, <3>2
  <2> QED
    BY <1>0, <2>1 DEF TasksOK
<1>8. StagesOK'
  <2>1. ASSUME NEW n \in Mods, In(modules', n)
        PROVE  stage'[n] \notin {"new", "refused"} /\ n \notin unloaded'
    BY <1>0, <1>1, <1>3, <1>4, <2>1 DEF StagesOK
  <2>2. \A n \in unloaded' : stage'[n] # "new"
    BY <1>1, <1>3 DEF StagesOK, Types
  <2>3. \A n \in Mods \ Core : stage'[n] = "ready" => ToSet(Commands[n]) \subseteq early'[n]
    BY <1>1, <1>3 DEF StagesOK
  <2>4. \A n \in running' :
           stage'[n] \in {"ready", "refused"} /\ (n \in unloaded' => n \in late')
    BY <1>1, <1>3, <1>5 DEF StagesOK, Types
  <2> QED
    BY <1>0, <2>1, <2>2, <2>3, <2>4 DEF StagesOK
<1>9. OneOfEach'
  BY <1>4 DEF OneOfEach, Single
<1>10. LoopsLeft'
  <2> SUFFICES ASSUME NEW n \in running'
               PROVE  (\/ Loaded(n)
                       \/ \E t \in Tasks : task[t].at = "unloading" /\ task[t].victim = n
                       \/ n \in raised
                       \/ n \in late
                       \/ stage[n] = "refused")'
    BY DEF LoopsLeft
  <2>1. n \in running /\ n \in Mods /\ n # m /\ stage'[n] = stage[n]
    BY <1>1, <1>3, <1>5 DEF Types
  <2>2. Loaded(n) => Loaded(n)'
    BY <1>0, <1>4, <2>1
  <2>3. ASSUME NEW t \in Tasks, task[t].at = "unloading"
        PROVE  task'[t] = task[t]
    BY <1>1, <1>2, <2>3 DEF TasksOK, Suspend, Fail, OvertakeFails
  <2> QED
    BY <1>1, <2>1, <2>2, <2>3 DEF LoopsLeft
<1>11. CoreKept'
  BY <1>1, <1>3 DEF CoreKept
<1> QED
  BY <1>6, <1>7, <1>8, <1>9, <1>10, <1>11

-----------------------------------------------------------------------------
(* The collector, and the start.                                            *)

LEMMA CollectedFacts ==
    ASSUME NEW list \in Seq(Mods), NEW n \in Names
    PROVE  \/ Collected(list)[n] = None
           \/ /\ In(list, Collected(list)[n]) /\ Collected(list)[n] \in Mods
              /\ n \in ToSet(Commands[Collected(list)[n]])
<1> DEFINE holders == {i \in 1..Len(list) : n \in ToSet(Commands[list[i]])}
<1>1. holders # {} => Max(holders) \in holders
  <2>1. Len(list) \in Nat /\ holders \in SUBSET (1..Len(list))
    OBVIOUS
  <2> HIDE DEF holders
  <2> QED
    BY <2>1, MaxFacts
<1>2. Collected(list)[n] = IF holders = {} THEN None ELSE list[Max(holders)]
  BY DEF Collected
<1>3. ASSUME NEW i \in holders
      PROVE  In(list, list[i]) /\ list[i] \in Mods /\ n \in ToSet(Commands[list[i]])
  BY DEF In
<1> HIDE DEF holders
<1> QED
  BY <1>1, <1>2, <1>3

LEMMA CollectedType ==
    ASSUME NEW list \in Seq(Mods)
    PROVE  Collected(list) \in [Names -> Mods \cup {None}]
<1>1. \A n \in Names : Collected(list)[n] \in Mods \cup {None}
  BY CollectedFacts
<1>2. Collected(list) = [n \in Names |-> Collected(list)[n]]
  BY DEF Collected
<1> QED
  BY <1>1, <1>2

LEMMA CollectKeeps ==
    ASSUME IInv, Collect
    PROVE  IInv'
<1> USE DEF IInv
<1>0. /\ modules' = modules /\ running' = running /\ stage' = stage /\ task' = task
      /\ commands' = Collected(modules) /\ coreCommands' = coreCommands
      /\ early' = early /\ late' = late /\ unloaded' = unloaded /\ raised' = raised
      /\ modules \in Seq(Mods)
      /\ \A n : In(modules, n) <=> Loaded(n)
      /\ \A n : Loaded(n)' <=> Loaded(n)
  BY DEF Collect, Types, In, Loaded, histories
<1>1. Types'
  BY <1>0, CollectedType DEF Types
<1>2. TasksOK' /\ StagesOK' /\ OneOfEach' /\ LoopsLeft'
  BY <1>0 DEF TasksOK, StagesOK, OneOfEach, LoopsLeft
<1>3. CoreKept'
  <2> SUFFICES ASSUME NEW n \in coreCommands, NEW m \in Mods \ Core, commands'[n] = m
               PROVE  \/ stage[m] \in {"waiting", "suspended", "gone"}
                      \/ stage[m] = "ready" /\ n \in early[m]
    BY <1>0 DEF CoreKept
  <2>1. n \in Names /\ None \notin Mods
    BY ModsAssumption DEF Types
  <2>2. Loaded(m) /\ n \in ToSet(Commands[m])
    BY <1>0, <2>1, CollectedFacts
  <2>3. stage[m] \in Stages \ {"new", "refused"}
    BY <2>2 DEF StagesOK, Types
  <2> QED
    BY <2>2, <2>3 DEF Stages, StagesOK
<1> QED
  BY <1>1, <1>2, <1>3

LEMMA ConcatIn ==
    ASSUME NEW X, NEW s \in Seq(X), NEW r \in Seq(X)
    PROVE  /\ s \o r \in Seq(X)
           /\ \A x : In(s \o r, x) <=> In(s, x) \/ In(r, x)
<1> DEFINE w == s \o r
<1>1. /\ w \in Seq(X) /\ Len(w) = Len(s) + Len(r)
      /\ \A i \in 1..(Len(s) + Len(r)) :
            w[i] = IF i <= Len(s) THEN s[i] ELSE r[i - Len(s)]
  BY ConcatProperties
<1>2. Len(s) \in Nat /\ Len(r) \in Nat
  OBVIOUS
<1> HIDE DEF w
<1>3. ASSUME NEW x, In(w, x)
      PROVE  In(s, x) \/ In(r, x)
  <2>1. PICK i \in 1..Len(w) : w[i] = x
    BY <1>3 DEF In
  <2>2. CASE i <= Len(s)
    <3>1. i \in 1..Len(s) /\ s[i] = x
      BY <1>1, <1>2, <2>1, <2>2
    <3> QED
      BY <3>1 DEF In
  <2>3. CASE ~(i <= Len(s))
    <3>1. i - Len(s) \in 1..Len(r) /\ r[i - Len(s)] = x
      BY <1>1, <1>2, <2>1, <2>3
    <3> QED
      BY <3>1 DEF In
  <2> QED
    BY <2>2, <2>3
<1>4. ASSUME NEW x, In(s, x)
      PROVE  In(w, x)
  <2>1. PICK i \in 1..Len(s) : s[i] = x
    BY <1>4 DEF In
  <2>2. i \in 1..Len(w) /\ w[i] = x
    BY <1>1, <1>2, <2>1
  <2> QED
    BY <2>2 DEF In
<1>5. ASSUME NEW x, In(r, x)
      PROVE  In(w, x)
  <2>1. PICK i \in 1..Len(r) : r[i] = x
    BY <1>5 DEF In
  <2>2. /\ i + Len(s) \in 1..(Len(s) + Len(r)) /\ ~(i + Len(s) <= Len(s))
        /\ (i + Len(s)) - Len(s) = i
    BY <1>2
  <2>3. i + Len(s) \in 1..Len(w) /\ w[i + Len(s)] = x
    BY <1>1, <2>1, <2>2
  <2> QED
    BY <2>3 DEF In
<1> QED
  BY <1>1, <1>3, <1>4, <1>5 DEF w

(* What is loaded at start-up comes from the core and then from files.       *)
LEMMA SetListed ==
    ASSUME NEW S \in SUBSET (Core \cup Files), IsFiniteSet(S)
    PROVE  /\ SetToSeq(S) \in Seq(Mods)
           /\ \A m : In(SetToSeq(S), m) <=> m \in S
           /\ Single(SetToSeq(S))
<1> DEFINE n == Cardinality(S)
           s == SetToSeq(S)
<1>0. S \subseteq Mods
  BY ModsAssumption
<1>1. n \in Nat /\ ExistsBijection(1..n, S)
  BY FS_CardinalityType
<1>2. \E f \in [1..n -> S] : IsInjective(f)
  BY <1>1 DEF ExistsBijection, Bijection, Injection
<1>3. s \in [1..n -> S] /\ IsInjective(s)
  BY <1>2 DEF SetToSeq
<1> HIDE DEF s
<1>4. s \in Surjection(1..n, S)
  <2>1. s \in Injection(1..n, S)
    BY <1>3 DEF Injection
  <2>2. Cardinality(1..n) = n
    BY <1>1, FS_Interval
  <2> QED
    BY <2>1, <2>2, FS_Injection
<1>5. s \in Seq(Mods) /\ Len(s) = n
  BY <1>0, <1>1, <1>3
<1>6. \A m : In(s, m) <=> m \in S
  BY <1>3, <1>4, <1>5 DEF In, Surjection
<1>7. Single(s)
  <2> SUFFICES ASSUME NEW i \in 1..n, NEW j \in 1..n, ClassOf[s[i]] = ClassOf[s[j]]
               PROVE  i = j
    BY <1>5 DEF Single
  <2>1. s[i] \in S /\ s[j] \in S
    BY <1>3
  <2>2. s[i] = s[j]
    BY <2>1, ClassAssumption
  <2> QED
    BY <1>3, <2>2 DEF IsInjective
<1> QED
  BY <1>5, <1>6, <1>7 DEF s

LEMMA StartListed ==
    LET list == SetToSeq(Core) \o SetToSeq(Files)
    IN  /\ list \in Seq(Mods) /\ Single(list)
        /\ \A m : In(list, m) <=> m \in Core \cup Files
<1> DEFINE s == SetToSeq(Core)
           r == SetToSeq(Files)
           w == s \o r
<1>1. /\ s \in Seq(Mods) /\ Single(s) /\ \A m : In(s, m) <=> m \in Core
      /\ r \in Seq(Mods) /\ Single(r) /\ \A m : In(r, m) <=> m \in Files
  BY SetListed, ModsAssumption
<1> HIDE DEF s, r
<1>2. /\ w \in Seq(Mods) /\ Len(w) = Len(s) + Len(r)
      /\ \A i \in 1..(Len(s) + Len(r)) :
            w[i] = IF i <= Len(s) THEN s[i] ELSE r[i - Len(s)]
  BY <1>1, ConcatProperties
<1>3. Len(s) \in Nat /\ Len(r) \in Nat
  BY <1>1
<1>4. \A m : In(w, m) <=> m \in Core \cup Files
  BY <1>1, ConcatIn
<1> HIDE DEF w
<1>5. ASSUME NEW i \in 1..Len(w)
      PROVE  \/ i \in 1..Len(s) /\ w[i] = s[i] /\ w[i] \in Core
             \/ /\ i - Len(s) \in 1..Len(r) /\ w[i] = r[i - Len(s)]
                /\ w[i] \in Files
  <2>1. CASE i <= Len(s)
    <3>1. i \in 1..Len(s) /\ w[i] = s[i]
      BY <1>2, <1>3, <2>1
    <3> QED
      BY <1>1, <3>1 DEF In
  <2>2. CASE ~(i <= Len(s))
    <3>1. i - Len(s) \in 1..Len(r) /\ w[i] = r[i - Len(s)]
      BY <1>2, <1>3, <2>2
    <3> QED
      BY <1>1, <3>1 DEF In
  <2> QED
    BY <2>1, <2>2
<1>6. Single(w)
  <2> SUFFICES ASSUME NEW i \in 1..Len(w), NEW j \in 1..Len(w),
                      ClassOf[w[i]] = ClassOf[w[j]]
               PROVE  i = j
    BY DEF Single
  <2>1. w[i] = w[j]
    BY <1>5, ClassAssumption
  <2>2. CASE w[i] \in Core
    <3>1. /\ i \in 1..Len(s) /\ w[i] = s[i]
          /\ j \in 1..Len(s) /\ w[j] = s[j]
      BY <1>5, <2>1, <2>2, ModsAssumption
    <3> QED
      BY <1>1, <2>1, <3>1 DEF Single
  <2>3. CASE w[i] \notin Core
    <3>1. /\ i - Len(s) \in 1..Len(r) /\ w[i] = r[i - Len(s)]
          /\ j - Len(s) \in 1..Len(r) /\ w[j] = r[j - Len(s)]
      BY <1>5, <2>1, <2>3
    <3>2. i - Len(s) = j - Len(s)
      BY <1>1, <2>1, <3>1 DEF Single
    <3>3. i \in Nat /\ j \in Nat
      OBVIOUS
    <3> QED
      BY <1>3, <3>2, <3>3
  <2> QED
    BY <2>2, <2>3
<1> QED
  BY <1>2, <1>4, <1>6 DEF w, s, r

LEMMA InitInv ==
    ASSUME Init
    PROVE  IInv
<1>0. /\ modules \in Seq(Mods) /\ Single(modules)
      /\ \A m : In(modules, m) <=> m \in Core \cup Files
      /\ \A m : Loaded(m) <=> In(modules, m)
  BY StartListed DEF Init, Loaded, In
<1>1. task \in [Tasks -> Task] /\ \A t \in Tasks : task[t].at = "idle"
  BY IdleType DEF Init
<1>2. Types
  BY <1>0, <1>1 DEF Types, Stages, Init
<1>3. TasksOK
  BY <1>1 DEF TasksOK
<1>4. StagesOK
  BY <1>0 DEF StagesOK, Init
<1>5. OneOfEach /\ LoopsLeft /\ CoreKept
  BY <1>0 DEF OneOfEach, LoopsLeft, CoreKept, Single, Init
<1> QED
  BY <1>2, <1>3, <1>4, <1>5 DEF IInv

LEMMA Invariance == Spec => []IInv
<1>1. IInv /\ [Next]_vars => IInv'
  <2> SUFFICES ASSUME IInv, [Next]_vars
               PROVE  IInv'
    OBVIOUS
  <2>1. CASE UNCHANGED vars
    BY <2>1 DEF vars, registered, histories, IInv, Types, TasksOK, StagesOK, OneOfEach,
       LoopsLeft, CoreKept, Loaded
  <2>2. ASSUME NEW m \in Mods, Load(m) \/ Overtake(m) \/ OvertakeFails(m)
        PROVE  IInv'
    BY <2>2, LoadKeeps, SuspendKeeps
  <2>3. ASSUME NEW m \in Mods, Ready(m) \/ Suspend(m) \/ Fail(m)
                               \/ SelfUnload(m) \/ FailChecks(m)
        PROVE  IInv'
    BY <2>3, ReadyKeeps, SuspendKeeps, UnloadStepKeeps DEF Tasks
  <2>4. ASSUME NEW t \in Unloads, NEW name \in Classes, Unload(t, name)
        PROVE  IInv'
    BY <2>4, UnloadStepKeeps DEF Tasks
  <2>5. ASSUME NEW t \in Tasks, Unloaded(t) \/ UnloadFails(t)
        PROVE  IInv'
    BY <2>5, UnloadStepKeeps
  <2> QED
    BY <2>1, <2>2, <2>3, <2>4, <2>5, CollectKeeps DEF Next
<1> QED
  BY <1>1, InitInv, PTL DEF Spec

-----------------------------------------------------------------------------
(* What FlattenSeq makes of the parts of a list, and the operators of the    *)
(* registry that are built from it.                                          *)

(* A set of numbers with 0 and the successors of its members has them all.  *)
LEMMA Induction ==
    ASSUME NEW T, T \subseteq Nat, 0 \in T, \A n \in T : n + 1 \in T
    PROVE  T = Nat
<1> DEFINE U == Nat \ T
<1> SUFFICES ASSUME U # {} PROVE FALSE
  OBVIOUS
<1>1. PICK x \in U : \A y \in U : x <= y
  BY Smallest
<1>2. x # 0 /\ x - 1 \in Nat /\ ~(x <= x - 1)
  BY <1>1
<1>3. x - 1 \in T
  BY <1>1, <1>2
<1> QED
  BY <1>1, <1>2, <1>3

(* f is flatten of FlattenSeq(seqs), up to n.                               *)
Flattens(f, seqs, n) ==
    f = [k \in 1..n |-> IF k = 1 THEN seqs[k] ELSE f[k - 1] \o seqs[k]]

LEMMA FlattensExists ==
    ASSUME NEW seqs, NEW N \in Nat
    PROVE  \E f : Flattens(f, seqs, N)
<1> DEFINE T == {n \in Nat : \E f : Flattens(f, seqs, n)}
<1>1. 0 \in T
  <2> DEFINE f == [k \in 1..0 |-> <<>>]
  <2>1. Flattens(f, seqs, 0)
    BY DEF Flattens
  <2> QED
    BY <2>1
<1>2. ASSUME NEW n \in T PROVE n + 1 \in T
  <2>1. PICK f : Flattens(f, seqs, n)
    OBVIOUS
  <2> DEFINE last == IF n = 0 THEN seqs[n + 1] ELSE f[n] \o seqs[n + 1]
             g == [k \in 1..(n + 1) |-> IF k = n + 1 THEN last ELSE f[k]]
  <2>2. n \in Nat
    OBVIOUS
  <2>3. \A k \in 1..n : f[k] = IF k = 1 THEN seqs[k] ELSE f[k - 1] \o seqs[k]
    BY <2>1 DEF Flattens
  <2>4. \A k \in 1..n : g[k] = f[k]
    BY <2>2
  <2>5. g[n + 1] = last
    BY <2>2
  <2> HIDE DEF last
  <2>6. ASSUME NEW k \in 1..(n + 1)
        PROVE  g[k] = IF k = 1 THEN seqs[k] ELSE g[k - 1] \o seqs[k]
    <3>1. CASE k = n + 1
      <4>1. k = 1 <=> n = 0
        BY <2>2, <3>1
      <4>2. n # 0 => k - 1 = n /\ g[k - 1] = f[n]
        BY <2>2, <2>4, <3>1
      <4> HIDE DEF g
      <4> QED
        BY <2>5, <3>1, <4>1, <4>2 DEF last
    <3>2. CASE k # n + 1
      <4>1. k \in 1..n /\ g[k] = f[k] /\ (k # 1 => k - 1 \in 1..n /\ g[k - 1] = f[k - 1])
        BY <2>2, <2>4, <3>2
      <4> HIDE DEF g
      <4> QED
        BY <2>3, <4>1
    <3> QED
      BY <3>1, <3>2
  <2>7. Flattens(g, seqs, n + 1)
    BY <2>6 DEF Flattens
  <2> QED
    BY <2>2, <2>7
<1> HIDE DEF T
<1>3. T = Nat
  BY <1>1, <1>2, Induction DEF T
<1> QED
  BY <1>3 DEF T

LEMMA FlattenFlattens ==
    ASSUME NEW seqs, Len(seqs) \in Nat \ {0}
    PROVE  \E f : Flattens(f, seqs, Len(seqs)) /\ FlattenSeq(seqs) = f[Len(seqs)]
<1>1. \E f : Flattens(f, seqs, Len(seqs))
  BY FlattensExists
<1>2. Len(seqs) # 0
  OBVIOUS
<1> QED
  BY <1>1, <1>2, Zenon DEF Flattens, FlattenSeq

(* Parts of a list in which no class comes twice.                           *)
Apart(seqs, N) ==
    /\ \A i \in 1..N : Len(seqs[i]) <= 1
    /\ \A i, j \in 1..N : \A a, b : 
          In(seqs[i], a) /\ In(seqs[j], b) /\ ClassOf[a] = ClassOf[b] => i = j

LEMMA ConcatSingle ==
    ASSUME NEW s \in Seq(Mods), NEW r \in Seq(Mods), Single(s), Len(r) <= 1,
           \A a, b : In(s, a) /\ In(r, b) => ClassOf[a] # ClassOf[b]
    PROVE  Single(s \o r)
<1> DEFINE w == s \o r
<1>1. /\ w \in Seq(Mods) /\ Len(w) = Len(s) + Len(r)
      /\ \A i \in 1..(Len(s) + Len(r)) :
            w[i] = IF i <= Len(s) THEN s[i] ELSE r[i - Len(s)]
  BY ConcatProperties
<1>2. Len(s) \in Nat /\ Len(r) \in Nat
  OBVIOUS
<1> HIDE DEF w
<1>3. ASSUME NEW i \in 1..Len(w), i <= Len(s)
      PROVE  i \in 1..Len(s) /\ w[i] = s[i]
  BY <1>1, <1>2, <1>3
<1>4. ASSUME NEW i \in 1..Len(w), ~(i <= Len(s))
      PROVE  i = Len(s) + 1 /\ 1 \in 1..Len(r) /\ w[i] = r[1]
  <2>1. i - Len(s) \in 1..Len(r)
    BY <1>1, <1>2, <1>4
  <2>2. i - Len(s) = 1
    BY <1>2, <2>1
  <2> QED
    BY <1>1, <1>2, <1>4, <2>1, <2>2
<1> SUFFICES ASSUME NEW i \in 1..Len(w), NEW j \in 1..Len(w),
                    ClassOf[w[i]] = ClassOf[w[j]]
             PROVE  i = j
  BY DEF Single, w
<1>5. CASE i <= Len(s) /\ j <= Len(s)
  BY <1>3, <1>5 DEF Single
<1>6. CASE ~(i <= Len(s)) /\ ~(j <= Len(s))
  BY <1>4, <1>6
<1>7. CASE i <= Len(s) /\ ~(j <= Len(s))
  BY <1>3, <1>4, <1>7 DEF In
<1>8. CASE ~(i <= Len(s)) /\ j <= Len(s)
  BY <1>3, <1>4, <1>8 DEF In
<1> QED
  BY <1>5, <1>6, <1>7, <1>8

(* What FlattenSeq makes of parts of a list.                                *)
LEMMA FlattenFacts ==
    ASSUME NEW N \in Nat, NEW seqs \in [1..N -> Seq(Mods)]
    PROVE  /\ FlattenSeq(seqs) \in Seq(Mods)
           /\ \A x : In(FlattenSeq(seqs), x) <=> \E i \in 1..N : In(seqs[i], x)
           /\ Apart(seqs, N) => Single(FlattenSeq(seqs))
<1>1. seqs \in Seq(Seq(Mods)) /\ Len(seqs) = N
  OBVIOUS
<1>2. CASE N = 0
  <2>1. FlattenSeq(seqs) = seqs /\ seqs = <<>>
    BY <1>1, <1>2 DEF FlattenSeq
  <2> QED
    BY <1>2, <2>1 DEF In, Single
<1>3. CASE N # 0
  <2>1. PICK f : Flattens(f, seqs, N) /\ FlattenSeq(seqs) = f[N]
    BY <1>1, <1>3, FlattenFlattens
  <2>2. \A k \in 1..N : f[k] = IF k = 1 THEN seqs[k] ELSE f[k - 1] \o seqs[k]
    BY <2>1 DEF Flattens
  <2> DEFINE Good(n) ==
        /\ f[n] \in Seq(Mods)
        /\ \A x : In(f[n], x) <=> \E i \in 1..n : In(seqs[i], x)
        /\ Apart(seqs, N) => Single(f[n])
             T == {n \in Nat : n \in 1..N => Good(n)}
  <2>3. 0 \in T
    OBVIOUS
  <2>4. ASSUME NEW n \in T PROVE n + 1 \in T
    <3> SUFFICES ASSUME n + 1 \in 1..N PROVE Good(n + 1)
      OBVIOUS
    <3>0. n \in Nat /\ seqs[n + 1] \in Seq(Mods)
      OBVIOUS
    <3>1. CASE n = 0
      <4>1. f[n + 1] = seqs[1] /\ 1..(n + 1) = {1} /\ 1 \in 1..N /\ n + 1 = 1
        BY <2>2, <3>1
      <4>2. Apart(seqs, N) => Single(seqs[1])
        <5>1. ASSUME Apart(seqs, N) PROVE Len(seqs[1]) <= 1
          BY <4>1, <5>1 DEF Apart
        <5>2. Len(seqs[1]) \in Nat
          BY <4>1
        <5>3. Len(seqs[1]) <= 1 => \A i, j \in 1..Len(seqs[1]) : i = j
          BY <5>2
        <5> QED
          BY <5>1, <5>3 DEF Single
      <4> QED
        BY <3>0, <4>1, <4>2
    <3>2. CASE n # 0
      <4>1. n \in 1..N /\ f[n + 1] = f[n] \o seqs[n + 1] /\ Good(n)
        <5>1. n \in 1..N /\ n + 1 # 1 /\ (n + 1) - 1 = n
          BY <3>0, <3>2
        <5> QED
          BY <2>2, <5>1
      <4>2. /\ f[n + 1] \in Seq(Mods)
            /\ \A x : In(f[n + 1], x) <=> In(f[n], x) \/ In(seqs[n + 1], x)
        <5>1. f[n] \in Seq(Mods)
          BY <4>1
        <5> QED
          BY <3>0, <4>1, <5>1, ConcatIn
      <4>3. 1..(n + 1) = (1..n) \cup {n + 1}
        BY <3>0
      <4>4. \A x : In(f[n + 1], x) <=> \E i \in 1..(n + 1) : In(seqs[i], x)
        BY <4>1, <4>2, <4>3
      <4>5. ASSUME Apart(seqs, N) PROVE Single(f[n + 1])
        <5>1. Len(seqs[n + 1]) <= 1
          BY <4>5 DEF Apart
        <5>2. ASSUME NEW a, NEW b, In(f[n], a), In(seqs[n + 1], b)
              PROVE  ClassOf[a] # ClassOf[b]
          <6>1. PICK i \in 1..n : In(seqs[i], a)
            BY <4>1, <5>2
          <6>2. i \in 1..N /\ i # n + 1
            BY <4>1
          <6> QED
            BY <4>5, <5>2, <6>1, <6>2 DEF Apart
        <5>3. f[n] \in Seq(Mods) /\ Single(f[n])
          BY <4>1, <4>5
        <5> HIDE DEF Good, T
        <5> QED
          BY <3>0, <4>1, <5>1, <5>2, <5>3, ConcatSingle
      <4> QED
        BY <4>2, <4>4, <4>5
    <3> QED
      BY <3>1, <3>2
  <2>5. T = Nat
    <3>1. T \subseteq Nat
      OBVIOUS
    <3> HIDE DEF T
    <3> QED
      BY <2>3, <2>4, <3>1, Induction
  <2>6. Good(N)
    <3>1. N \in T
      <4> HIDE DEF T
      <4> QED
        BY <2>5
    <3>2. N \in 1..N
      BY <1>3
    <3> QED
      BY <3>1, <3>2
  <2> QED
    BY <2>1, <2>6
<1> QED
  BY <1>2, <1>3

LEMMA InShort ==
    ASSUME NEW m
    PROVE  /\ \A x : ~In(<<>>, x)
           /\ \A x : In(<<m>>, x) <=> x = m
BY DEF In

LEMMA KeptFacts ==
    ASSUME NEW list \in Seq(Mods), NEW removed
    PROVE  /\ Kept(list, removed) \in Seq(Mods)
           /\ \A x : In(Kept(list, removed), x)
                        <=> \E i \in 1..Len(list) : i \notin removed /\ list[i] = x
           /\ Single(list) => Single(Kept(list, removed))
<1> DEFINE N == Len(list)
           seqs == [i \in 1..N |-> IF i \in removed THEN <<>> ELSE <<list[i]>>]
<1>1. N \in Nat /\ \A i \in 1..N : list[i] \in Mods
  OBVIOUS
<1>2. Kept(list, removed) = FlattenSeq(seqs)
  BY DEF Kept
<1>3. \A i \in 1..N : seqs[i] = IF i \in removed THEN <<>> ELSE <<list[i]>>
  OBVIOUS
<1>4. seqs \in [1..N -> Seq(Mods)]
  <2>1. ASSUME NEW i \in 1..N
        PROVE  (IF i \in removed THEN <<>> ELSE <<list[i]>>) \in Seq(Mods)
    BY <1>1
  <2> QED
    BY <2>1
<1>5. ASSUME NEW i \in 1..N, NEW x
      PROVE  In(seqs[i], x) <=> i \notin removed /\ list[i] = x
  <2>1. CASE i \in removed
    <3>1. seqs[i] = <<>>
      BY <1>3, <2>1
    <3> HIDE DEF seqs
    <3> QED
      BY <2>1, <3>1, InShort
  <2>2. CASE i \notin removed
    <3>1. seqs[i] = <<list[i]>>
      BY <1>3, <2>2
    <3> HIDE DEF seqs
    <3>2. In(<<list[i]>>, x) <=> x = list[i]
      BY InShort
    <3> QED
      BY <2>2, <3>1, <3>2
  <2> QED
    BY <2>1, <2>2
<1>6. Single(list) => Apart(seqs, N)
  <2>1. ASSUME NEW i \in 1..N PROVE Len(seqs[i]) <= 1
    <3>1. Len(<<>>) <= 1 /\ Len(<<list[i]>>) <= 1
      OBVIOUS
    <3> QED
      BY <1>3, <3>1
  <2> HIDE DEF seqs
  <2> QED
    BY <1>5, <2>1 DEF Apart, Single
<1> HIDE DEF seqs
<1>7. /\ FlattenSeq(seqs) \in Seq(Mods)
      /\ \A x : In(FlattenSeq(seqs), x) <=> \E i \in 1..N : In(seqs[i], x)
      /\ Apart(seqs, N) => Single(FlattenSeq(seqs))
  <2> HIDE DEF N
  <2> QED
    BY <1>1, <1>4, FlattenFacts
<1>8. \A x : (\E i \in 1..N : In(seqs[i], x))
                <=> \E i \in 1..N : i \notin removed /\ list[i] = x
  BY <1>5
<1> QED
  BY <1>2, <1>6, <1>7, <1>8

LEMMA FilteredFacts ==
    ASSUME NEW list \in Seq(Mods), NEW class
    PROVE  /\ Filtered(list, class) \in Seq(Mods)
           /\ \A x : In(Filtered(list, class), x) <=> In(list, x) /\ ClassOf[x] # class
<1> DEFINE removed == {i \in 1..Len(list) : ClassOf[list[i]] = class}
<1>1. Filtered(list, class) = Kept(list, removed)
  BY DEF Filtered
<1>2. \A i \in 1..Len(list) : i \in removed <=> ClassOf[list[i]] = class
  OBVIOUS
<1> HIDE DEF removed
<1>3. /\ Kept(list, removed) \in Seq(Mods)
      /\ \A x : In(Kept(list, removed), x)
                   <=> \E i \in 1..Len(list) : i \notin removed /\ list[i] = x
  BY KeptFacts
<1> QED
  BY <1>1, <1>2, <1>3 DEF In

(* h says which elements the iteration of unregister_raw_handlers removes.  *)
Hits(h, list, class, n) ==
    h = [i \in 0..n |-> i # 0 /\ ClassOf[list[i]] = class /\ ~h[i - 1]]

LEMMA HitsExists ==
    ASSUME NEW list, NEW class, NEW N \in Nat
    PROVE  \E h : Hits(h, list, class, N)
<1> DEFINE T == {n \in Nat : \E h : Hits(h, list, class, n)}
<1>1. 0 \in T
  <2> DEFINE h == [i \in 0..0 |-> FALSE]
  <2>1. \A i \in 0..0 : i = 0
    OBVIOUS
  <2>2. Hits(h, list, class, 0)
    BY <2>1 DEF Hits
  <2> QED
    BY <2>2
<1>2. ASSUME NEW n \in T PROVE n + 1 \in T
  <2>1. PICK h : Hits(h, list, class, n)
    OBVIOUS
  <2> DEFINE last == n + 1 # 0 /\ ClassOf[list[n + 1]] = class /\ ~h[n]
             g == [i \in 0..(n + 1) |-> IF i = n + 1 THEN last ELSE h[i]]
  <2>2. n \in Nat
    OBVIOUS
  <2>3. \A i \in 0..n : h[i] = (i # 0 /\ ClassOf[list[i]] = class /\ ~h[i - 1])
    BY <2>1, Zenon DEF Hits
  <2>4. \A i \in 0..n : i # n + 1 /\ i \in 0..(n + 1)
    BY <2>2
  <2>5. \A i \in 0..n : g[i] = h[i]
    BY <2>4, Zenon
  <2>6. n + 1 \in 0..(n + 1)
    BY <2>2
  <2>7. g[n + 1] = last
    BY <2>6, Zenon
  <2> HIDE DEF g
  <2>8. ASSUME NEW i \in 0..(n + 1)
        PROVE  g[i] = (i # 0 /\ ClassOf[list[i]] = class /\ ~g[i - 1])
    <3>1. CASE i = n + 1
      <4>1. i - 1 = n /\ n \in 0..n
        BY <2>2, <3>1
      <4>2. g[i - 1] = h[n]
        BY <2>5, <4>1, Zenon
      <4> QED
        BY <2>7, <3>1, <4>2, Zenon
    <3>2. CASE i # n + 1
      <4>1. i \in 0..n /\ (i # 0 => i - 1 \in 0..n)
        BY <2>2, <3>2
      <4>2. i # 0 => g[i - 1] = h[i - 1]
        BY <2>5, <4>1, Zenon
      <4> QED
        BY <2>3, <2>5, <4>1, <4>2, Zenon
    <3> QED
      BY <3>1, <3>2, Zenon
  <2>9. g = [i \in 0..(n + 1) |-> g[i]]
    BY Zenon DEF g
  <2>10. Hits(g, list, class, n + 1)
    BY <2>8, <2>9, Zenon DEF Hits
  <2>11. n + 1 \in Nat
    BY <2>2
  <2> QED
    BY <2>10, <2>11, Zenon
<1> HIDE DEF T
<1>3. T = Nat
  BY <1>1, <1>2, Induction DEF T
<1> QED
  BY <1>3 DEF T

(* Nothing of another class goes; of a class that comes once, nothing stays. *)
LEMMA SkimmedFacts ==
    ASSUME NEW list \in Seq(Mods), NEW class
    PROVE  /\ Skimmed(list, class) \in Seq(Mods)
           /\ \A x : In(Skimmed(list, class), x) => In(list, x)
           /\ \A x : In(list, x) /\ ClassOf[x] # class => In(Skimmed(list, class), x)
           /\ Single(list) =>
                 /\ Single(Skimmed(list, class))
                 /\ \A x : In(Skimmed(list, class), x) => ClassOf[x] # class
<1> DEFINE N == Len(list)
<1>0. N \in Nat
  OBVIOUS
<1>1. \E h : Hits(h, list, class, N)
  BY <1>0, HitsExists
<1>2. PICK h : /\ Hits(h, list, class, N)
               /\ Skimmed(list, class) = Kept(list, {i \in 1..N : h[i]})
  BY <1>1, Zenon DEF Hits, Skimmed
<1> DEFINE removed == {i \in 1..N : h[i]}
<1>3. \A i \in 0..N : h[i] = (i # 0 /\ ClassOf[list[i]] = class /\ ~h[i - 1])
  BY <1>2, Zenon DEF Hits
<1>4. ASSUME NEW i \in 1..N
      PROVE  i \in removed <=> ClassOf[list[i]] = class /\ ~(i - 1 \in removed)
  <2>1. i \in 0..N /\ i # 0 /\ (i - 1 \in 1..N \/ i - 1 = 0) /\ i - 1 \in 0..N
    BY <1>0
  <2>2. h[i] <=> ClassOf[list[i]] = class /\ ~h[i - 1]
    BY <1>3, <2>1, Zenon
  <2>3. i - 1 = 0 => ~h[i - 1]
    BY <1>3, <2>1, Zenon
  <2>4. 0 \notin 1..N
    BY <1>0
  <2> QED
    BY <2>1, <2>2, <2>3, <2>4, Zenon
<1>5. Skimmed(list, class) = Kept(list, removed)
  BY <1>2
<1>6. removed \subseteq 1..N
  OBVIOUS
<1> HIDE DEF removed
<1>7. /\ Kept(list, removed) \in Seq(Mods)
      /\ \A x : In(Kept(list, removed), x)
                   <=> \E i \in 1..N : i \notin removed /\ list[i] = x
      /\ Single(list) => Single(Kept(list, removed))
  BY KeptFacts
<1>8. ASSUME Single(list), NEW i \in 1..N, ClassOf[list[i]] = class
      PROVE  i \in removed
  <2>1. i - 1 \in 1..N => ClassOf[list[i - 1]] # class
    <3>1. i # i - 1
      BY <1>0
    <3> QED
      BY <1>8, <3>1 DEF Single
  <2>2. i - 1 \notin removed
    BY <1>4, <1>6, <2>1
  <2> QED
    BY <1>4, <1>8, <2>2
<1>9. \A i \in 1..N : In(list, list[i])
  BY DEF In
<1>10. ASSUME NEW x, In(list, x), ClassOf[x] # class
       PROVE  \E i \in 1..N : i \notin removed /\ list[i] = x
  BY <1>4, <1>10 DEF In
<1> HIDE DEF N
<1> QED
  BY <1>5, <1>7, <1>8, <1>9, <1>10

LEMMA CopiesFacts ==
    ASSUME NEW m \in Mods, NEW n \in Nat
    PROVE  /\ Copies(m, n) \in Seq(Mods) /\ Len(Copies(m, n)) = n
           /\ \A x : In(Copies(m, n), x) => x = m
           /\ n <= 1 => Single(Copies(m, n))
<1>1. Copies(m, n) \in Seq(Mods) /\ Len(Copies(m, n)) = n
  BY DEF Copies
<1>2. \A i \in 1..n : Copies(m, n)[i] = m
  BY DEF Copies
<1>3. n <= 1 => \A i, j \in 1..n : i = j
  OBVIOUS
<1> QED
  BY <1>1, <1>2, <1>3 DEF In, Single

(* Watching: nothing but what is in the list watches.                        *)
LEMMA WatchingFacts ==
    ASSUME NEW list \in Seq(Mods)
    PROVE  /\ Watching(list) \in Seq(Mods)
           /\ \A x : In(Watching(list), x) => In(list, x)
<1> DEFINE N == Len(list)
           seqs == [i \in 1..N |-> Copies(list[i], Watchers[list[i]])]
<1>1. N \in Nat /\ \A i \in 1..N : list[i] \in Mods
  OBVIOUS
<1>2. ASSUME NEW i \in 1..N
      PROVE  /\ seqs[i] \in Seq(Mods) /\ Len(seqs[i]) = Watchers[list[i]]
             /\ \A x : In(seqs[i], x) => x = list[i]
  <2>1. seqs[i] = Copies(list[i], Watchers[list[i]])
    OBVIOUS
  <2>2. list[i] \in Mods /\ Watchers[list[i]] \in Nat
    BY <1>1, CommandsAssumption
  <2> HIDE DEF seqs
  <2> QED
    BY <2>1, <2>2, CopiesFacts
<1>3. seqs \in [1..N -> Seq(Mods)]
  <2>1. seqs = [i \in 1..N |-> seqs[i]]
    OBVIOUS
  <2> HIDE DEF seqs
  <2> QED
    BY <1>2, <2>1
<1> HIDE DEF seqs
<1>4. /\ FlattenSeq(seqs) \in Seq(Mods)
      /\ \A x : In(FlattenSeq(seqs), x) <=> \E i \in 1..N : In(seqs[i], x)
      /\ Apart(seqs, N) => Single(FlattenSeq(seqs))
  <2> HIDE DEF N
  <2> QED
    BY <1>1, <1>3, FlattenFacts
<1>5. \A x : In(FlattenSeq(seqs), x) => In(list, x)
  BY <1>2, <1>4 DEF In
<1> QED
  BY <1>4, <1>5 DEF seqs, Watching

-----------------------------------------------------------------------------
(* What is registered: its types, and whose it can be.                      *)

Lists ==
    /\ watchers \in Seq(Mods) /\ raw \in Seq(Mods)
    /\ running \subseteq Looping
    /\ late \subseteq Mods /\ raised \subseteq Mods

(* What is registered for an instance that unload_module is through with was *)
(* registered by its own late client_ready.                                  *)
Registrations ==
    /\ \A m \in unloaded : In(watchers, m) => m \in late
    /\ \A n \in Names : commands[n] \in unloaded => commands[n] \in late

(* No instance has two raw handlers.                                        *)
OneHandler == \A m \in Mods : RawHandlers[m] <= 1

RawOnce ==
    OneHandler => Single(raw) /\ \A m \in unloaded : In(raw, m) => m \in late

RInv == Lists /\ Registrations /\ RawOnce

(* A step that registers nothing, and is through with no instance.          *)
LEMMA QuietKeeps ==
    ASSUME RInv, registered' = registered, running' \subseteq Looping,
           late' = late, unloaded' = unloaded, raised' \subseteq Mods
    PROVE  RInv'
<1>1. watchers' = watchers /\ raw' = raw /\ commands' = commands
  BY DEF registered
<1>2. Lists'
  BY <1>1 DEF RInv, Lists
<1>3. Registrations'
  BY <1>1 DEF RInv, Registrations
<1>4. RawOnce'
  BY <1>1 DEF RInv, RawOnce, OneHandler
<1> QED
  BY <1>2, <1>3, <1>4 DEF RInv

LEMMA QuietSteps ==
    ASSUME IInv, RInv,
           \/ \E m \in Mods : \/ Load(m) \/ Overtake(m) \/ OvertakeFails(m)
                              \/ Suspend(m) \/ Fail(m) \/ SelfUnload(m) \/ FailChecks(m)
           \/ \E t \in Unloads : \E name \in Classes : Unload(t, name)
           \/ \E t \in Tasks : UnloadFails(t)
    PROVE  RInv'
<1>0. running \subseteq Looping /\ raised \subseteq Mods
  BY DEF RInv, Lists
<1>1. ASSUME NEW m \in Mods, Load(m) \/ Overtake(m)
      PROVE  RInv'
  BY <1>0, <1>1, QuietKeeps DEF Load, Overtake, histories
<1>2. ASSUME NEW m \in Mods, OvertakeFails(m) \/ Suspend(m) \/ Fail(m)
      PROVE  RInv'
  BY <1>0, <1>2, QuietKeeps DEF OvertakeFails, Suspend, Fail, histories
<1>3. ASSUME NEW m \in Mods, SelfUnload(m) \/ FailChecks(m)
      PROVE  RInv'
  BY <1>0, <1>3, QuietKeeps DEF SelfUnload, FailChecks, Withdraw, histories
<1>4. ASSUME NEW t \in Unloads, NEW name \in Classes, Unload(t, name)
      PROVE  RInv'
  BY <1>0, <1>4, QuietKeeps DEF Unload, histories
<1>5. ASSUME NEW t \in Tasks, UnloadFails(t)
      PROVE  RInv'
  <2>1. task[t].victim \in Mods
    BY <1>5 DEF UnloadFails, IInv, TasksOK
  <2> QED
    BY <1>0, <1>5, <2>1, QuietKeeps DEF UnloadFails
<1> QED
  BY <1>1, <1>2, <1>3, <1>4, <1>5

(* on_unload returns: what is registered for the class of the victim goes.  *)
LEMMA UnloadedRegistered ==
    ASSUME IInv, RInv, NEW t \in Tasks, Unloaded(t)
    PROVE  RInv'
<1>1. PICK v \in Mods : v = task[t].victim
  BY DEF Unloaded, IInv, TasksOK
<1>2. /\ raw' = Skimmed(raw, ClassOf[v]) /\ running' = running \ {v}
      /\ commands' = Unregistered(ClassOf[v])
      /\ watchers' = Filtered(watchers, ClassOf[v])
      /\ unloaded' = unloaded \cup {v} /\ late' = late \ {v} /\ raised' = raised
      /\ raw \in Seq(Mods) /\ watchers \in Seq(Mods)
  BY <1>1 DEF Unloaded, RInv, Lists
<1>3. /\ raw' \in Seq(Mods) /\ \A m : In(raw', m) => In(raw, m)
      /\ Single(raw) => Single(raw') /\ \A m : In(raw', m) => ClassOf[m] # ClassOf[v]
  BY <1>2, SkimmedFacts
<1>4. watchers' \in Seq(Mods) /\ \A m : In(watchers', m) => In(watchers, m) /\ m # v
  BY <1>2, FilteredFacts
<1>5. ASSUME NEW n \in Names, commands'[n] \in Mods
      PROVE  commands'[n] = commands[n] /\ commands'[n] # v
  BY <1>2, <1>5, ModsAssumption DEF Unregistered
<1>6. Lists'
  BY <1>2, <1>3, <1>4 DEF RInv, Lists
<1>7. unloaded' \subseteq Mods
  BY <1>2 DEF IInv, Types
<1>8. Registrations'
  BY <1>2, <1>4, <1>5, <1>7 DEF RInv, Registrations
<1>9. RawOnce'
  BY <1>2, <1>3 DEF RInv, RawOnce, OneHandler
<1> QED
  BY <1>6, <1>8, <1>9 DEF RInv

(* client_ready returns: the instance registers what it has.                *)
LEMMA ReadyRegistered ==
    ASSUME IInv, RInv, NEW m \in Mods, Ready(m)
    PROVE  RInv'
<1>1. /\ running' = running \cup Autostarted(m)
      /\ late' = late \cup (IF Loaded(m) THEN {} ELSE {m})
      /\ raised' = raised /\ unloaded' = unloaded
      /\ commands' = [n \in Names |-> IF n \in Enabled(m) THEN m
                                       ELSE Unregistered(ClassOf[m])[n]]
      /\ raw \in Seq(Mods) /\ watchers \in Seq(Mods)
      /\ running \subseteq Looping /\ late \subseteq Mods /\ raised \subseteq Mods
      /\ unloaded \subseteq Mods
  BY DEF Ready, IInv, Types, RInv, Lists
<1>2. m \in unloaded => m \in late'
  BY <1>1 DEF IInv, StagesOK
<1> DEFINE r == Skimmed(raw, ClassOf[m])
           w == Skimmed(watchers, ClassOf[m])
           c == Copies(m, RawHandlers[m])
           d == Copies(m, Watchers[m])
<1>3. \/ watchers' = w \o d /\ raw' = r \o c
      \/ watchers' = watchers /\ raw' = r
  BY DEF Ready
<1>4. /\ r \in Seq(Mods) /\ \A x : In(r, x) => In(raw, x)
      /\ Single(raw) => Single(r) /\ \A x : In(r, x) => ClassOf[x] # ClassOf[m]
      /\ w \in Seq(Mods) /\ \A x : In(w, x) => In(watchers, x)
  BY <1>1, SkimmedFacts
<1>5. RawHandlers[m] \in Nat /\ Watchers[m] \in Nat
  BY CommandsAssumption
<1>6. /\ c \in Seq(Mods) /\ Len(c) = RawHandlers[m] /\ \A x : In(c, x) => x = m
      /\ d \in Seq(Mods) /\ \A x : In(d, x) => x = m
  BY <1>5, CopiesFacts
<1> HIDE DEF r, w, c, d
<1>7. /\ r \o c \in Seq(Mods) /\ \A x : In(r \o c, x) => In(r, x) \/ x = m
      /\ w \o d \in Seq(Mods) /\ \A x : In(w \o d, x) => In(w, x) \/ x = m
  BY <1>4, <1>6, ConcatIn
<1>8. /\ raw' \in Seq(Mods) /\ watchers' \in Seq(Mods)
      /\ \A x : In(raw', x) => In(raw, x) \/ x = m
      /\ \A x : In(watchers', x) => In(watchers, x) \/ x = m
  BY <1>1, <1>3, <1>4, <1>7
<1>9. Lists'
  BY <1>1, <1>8 DEF Lists, Autostarted
<1>10. ASSUME NEW n \in Names, commands'[n] \in Mods
       PROVE  commands'[n] = m \/ commands'[n] = commands[n]
  BY <1>1, <1>10, ModsAssumption DEF Unregistered
<1>11. Registrations'
  BY <1>1, <1>2, <1>8, <1>10 DEF RInv, Registrations
<1>12. ASSUME OneHandler
       PROVE  Single(raw') /\ \A x \in unloaded' : In(raw', x) => x \in late'
  <2>1. Single(raw) /\ \A x \in unloaded : In(raw, x) => x \in late
    BY <1>12 DEF RInv, RawOnce
  <2>2. Single(r) /\ \A x : In(r, x) => ClassOf[x] # ClassOf[m]
    BY <1>4, <2>1
  <2>3. Len(c) <= 1
    BY <1>6, <1>12 DEF OneHandler
  <2>4. Single(r \o c)
    BY <1>4, <1>6, <2>2, <2>3, ConcatSingle
  <2> QED
    BY <1>1, <1>2, <1>3, <1>8, <2>1, <2>2, <2>4
<1>13. RawOnce'
  BY <1>12 DEF RawOnce, OneHandler
<1> QED
  BY <1>9, <1>11, <1>13 DEF RInv

(* The collector takes nothing that is not loaded.                          *)
LEMMA CollectRegistered ==
    ASSUME IInv, RInv, Collect
    PROVE  RInv'
<1>1. /\ commands' = Collected(modules) /\ watchers' = Watching(modules)
      /\ modules \in Seq(Mods) /\ raw' = raw /\ running' = running
      /\ late' = late /\ unloaded' = unloaded /\ raised' = raised
      /\ unloaded \subseteq Mods
  BY DEF Collect, histories, IInv, Types
<1>2. watchers' \in Seq(Mods) /\ \A x : In(watchers', x) => In(modules, x)
  BY <1>1, WatchingFacts
<1>3. \A x \in unloaded : ~In(modules, x)
  BY <1>1 DEF IInv, StagesOK, Loaded, In
<1>4. ASSUME NEW n \in Names, commands'[n] \in Mods
      PROVE  In(modules, commands'[n])
  BY <1>1, <1>4, CollectedFacts, ModsAssumption
<1>5. Lists'
  BY <1>1, <1>2 DEF RInv, Lists
<1>6. Registrations'
  BY <1>1, <1>2, <1>3, <1>4 DEF Registrations
<1>7. RawOnce'
  BY <1>1 DEF RInv, RawOnce, OneHandler
<1> QED
  BY <1>5, <1>6, <1>7 DEF RInv

LEMMA InitRegistered ==
    ASSUME Init
    PROVE  RInv
<1>1. /\ watchers = <<>> /\ raw = <<>> /\ running = {}
      /\ late = {} /\ unloaded = {} /\ raised = {}
  BY DEF Init
<1>2. Lists
  BY <1>1 DEF Lists
<1>3. Registrations
  BY <1>1 DEF Registrations
<1>4. RawOnce
  BY <1>1 DEF RawOnce, Single
<1> QED
  BY <1>2, <1>3, <1>4 DEF RInv

LEMMA RegisteredInvariance == Spec => [](IInv /\ RInv)
<1>1. IInv /\ RInv /\ [Next]_vars => RInv'
  <2> SUFFICES ASSUME IInv, RInv, [Next]_vars
               PROVE  RInv'
    OBVIOUS
  <2>1. CASE UNCHANGED vars
    BY <2>1, QuietKeeps DEF vars, histories, RInv, Lists
  <2>2. ASSUME NEW m \in Mods, Ready(m)
        PROVE  RInv'
    BY <2>2, ReadyRegistered
  <2>3. ASSUME NEW t \in Tasks, Unloaded(t)
        PROVE  RInv'
    BY <2>3, UnloadedRegistered
  <2> QED
    BY <2>1, <2>2, <2>3, QuietSteps, CollectRegistered DEF Next
<1>2. Init => RInv
  BY InitRegistered
<1> QED
  BY <1>1, <1>2, Invariance, PTL DEF Spec

-----------------------------------------------------------------------------
\* Never are two versions of a module loaded, for any number of loads and
\* unloads of any number of versions.
THEOREM NeverTwice == Spec => []OneOfEach
<1>1. IInv => OneOfEach
  BY DEF IInv
<1> QED
  BY <1>1, Invariance, PTL

\* A loop outlives its module in the four cases LoopsLeft names and no other.
THEOREM NoOtherLoopLeft == Spec => []LoopsLeft
<1>1. IInv => LoopsLeft
  BY DEF IInv
<1> QED
  BY <1>1, Invariance, PTL

\* A command that a module of the core has registered goes to nobody whom
\* register_commands asked thereafter: who has it instead was accepted before, or
\* has never got that far.
THEOREM CoreCommandsKept == Spec => []CoreKept
<1>1. IInv => CoreKept
  BY DEF IInv
<1> QED
  BY <1>1, Invariance, PTL

\* Every list, table and task of the registry holds what it is meant to hold, in
\* every state: no None among the modules, the watchers or the raw handlers, and no
\* loop of a module that has none.
THEOREM TypeCorrect == Spec => []TypeOK
<1>1. IInv /\ RInv => TypeOK
  BY DEF IInv, RInv, Types, Lists, TypeOK, Task
<1> QED
  BY <1>1, RegisteredInvariance, PTL

LEMMA Listed ==
    ASSUME NEW list \in Seq(Mods)
    PROVE  \A m : m \in ToSet(list) <=> In(list, m)
BY DEF ToSet, In

\* Once unload_module is through with an instance no command, no watcher and no
\* loop of it is left, and none comes back, unless its own client_ready returns
\* only then.
THEOREM CommandsAndWatchersGo == Spec => []StuffRemoved
<1>1. IInv /\ RInv => StuffRemoved
  <2> SUFFICES ASSUME IInv, RInv, NEW m \in unloaded \ late
               PROVE  /\ m \notin ToSet(watchers) \cup running
                      /\ \A n \in Names : commands[n] # m
    BY DEF StuffRemoved
  <2>1. m \notin ToSet(watchers)
    BY Listed DEF RInv, Lists, Registrations
  <2>2. m \notin running
    BY DEF IInv, StagesOK
  <2> QED
    BY <2>1, <2>2 DEF RInv, Registrations
<1> QED
  BY <1>1, RegisteredInvariance, PTL

\* Where no module has two raw handlers, "Remove module and all stuff from it" is
\* true of every instance whose client_ready does not return after unload_module:
\* the iteration that skips an element then never meets two of a class.
THEOREM OneHandlerGoes == OneHandler => (Spec => []AllStuffRemoved)
<1> SUFFICES ASSUME OneHandler
             PROVE  Spec => []AllStuffRemoved
  OBVIOUS
<1>1. IInv /\ RInv => AllStuffRemoved
  <2> SUFFICES ASSUME IInv, RInv, NEW m \in unloaded \ late
               PROVE  /\ m \notin ToSet(raw) \cup ToSet(watchers) \cup running
                      /\ \A n \in Names : commands[n] # m
    BY DEF AllStuffRemoved
  <2>1. m \notin ToSet(watchers)
    BY Listed DEF RInv, Lists, Registrations
  <2>2. m \notin running
    BY DEF IInv, StagesOK
  <2>3. m \notin ToSet(raw)
    BY Listed DEF RInv, Lists, RawOnce
  <2> QED
    BY <2>1, <2>2, <2>3 DEF RInv, Registrations
<1> QED
  BY <1>1, RegisteredInvariance, PTL
=============================================================================
