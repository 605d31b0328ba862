---------------------------- MODULE ClientProofs ----------------------------
(***************************************************************************)
(* For any events, senders, tasks and bounds: which updates a client may    *)
(* lose or handle twice, when its saved position goes back, that a sender   *)
(* it lends is counted and left connected, and that a disconnect leaves     *)
(* none open.                                                              *)
(***************************************************************************)
EXTENDS Client, FiniteSetTheorems, TLAPS

(* What is committed is not ahead of what is written, nor that of the       *)
(* position; where the position is 0, nothing waits for a commit.           *)
PositionsOK ==
    /\ committed <= written
    /\ pos # 0 => written <= pos
    /\ pos = 0 => committed = written /\ (LoopRuns => written = 0)
    /\ keepalive # "off" => pos # 0

(* OnlyExposedLost, for the positions a connect may load as well.           *)
CoverOK ==
    /\ OnlyExposedLost
    /\ \A e \in 1..written : e \in finished \cup running \cup exposed \cup jumped
    /\ \A e \in 1..committed : e \in finished \cup exposed \cup jumped

(* What was given and is ahead of the position was left behind by a reset,  *)
(* unless nothing is loaded and what will be loaded is past it.             *)
AgainOK ==
    /\ TwiceOnlyAfterReset
    /\ \A e \in given : e > pos /\ e \notin reset =>
          pos = 0 /\ ~LoopRuns /\ (written = 0 \/ ~catchUp \/ e <= written)

(* Who holds the lock, and what the keepalive does with it.                 *)
LockOK ==
    /\ \A t \in Borrowers :
          task[t].at \in {"creating", "exporting", "connecting"} <=> lock = t
    /\ lock = "disconnect" <=> main = "clearing"
    /\ closing # None => lock = "keepalive"

Exporting(i) == \E t \in Borrowers : task[t].at = "exporting" /\ task[t].sender = i

(* A sender is in the table at most once, and not while it is being made.   *)
TableOK ==
    /\ main \in {"off", "cleared"} => \A d \in Dcs : table[d] = None
    /\ \A d \in Dcs : table[d] # None => table[d] \in made /\ ~Exporting(table[d])
    /\ \A d, e \in Dcs : table[d] = table[e] /\ table[d] # None => d = e
    /\ \A t \in Borrowers : task[t].at = "exporting" => task[t].sender \in made
    /\ \A t \in Borrowers : task[t].at = "connecting" => table[task[t].dc] # None
    /\ \A t \in Borrowers :
          task[t].at \in {"creating", "exporting"} => table[task[t].dc] = None

(* One that is not in use yet has no users; one in the table is counted.    *)
CountOK ==
    /\ \A i \in Senders : i \notin made \/ Exporting(i) => count[i] = 0 /\ Users(i) = {}
    /\ ~misreturned => \A d \in Dcs, i \in Senders :
          table[d] = i => count[i] = Cardinality(Users(i))
    /\ \A t \in Borrowers, d \in Dcs :
          /\ task[t].at \in {"using", "returning"}
          /\ table[d] = task[t].sender
          /\ table[d] # None
          => d = task[t].dc

(* While a client is connected nobody disconnects what is lent.             *)
LinkOK ==
    /\ \A i \in Senders : Exporting(i) => link[i] # "down"
    /\ main \in {"on", "dropped"} /\ ~misreturned =>
          \A d \in Dcs, i \in Senders : table[d] = i =>
              /\ Users(i) # {} => flagged[i] /\ closing # i
              /\ flagged[i] /\ closing # i => link[i] # "down"

(* A connected sender is one disconnect will find, or nobody knows.         *)
LeftOK ==
    \A i \in Senders : link[i] = "up" =>
        \/ i \in orphans
        \/ Exporting(i)
        \/ \E d \in Dcs : /\ table[d] = i
                          /\ main \notin {"off", "cleared"}
                          /\ main = "clearing" => d \in todo

-----------------------------------------------------------------------------
(* The position.                                                            *)

(* Of all steps only these are about it.                                    *)
LEMMA SavedSteps ==
    ASSUME [Next]_vars
    PROVE  \/ Connect \/ LeaveStart \/ LeaveEnd \/ Crash \/ KeepaliveSaves \/ UpdateStep
           \/ /\ UNCHANGED savedVars
              /\ keepalive' = keepalive \/ (keepalive # "off" /\ keepalive' # "off")
                 \/ keepalive' = "off"
BY DEF Next, vars, lifeVars, Drop, ClosesStart, ClosesEnd, ClosesOne, KeepaliveWakes,
       KeepaliveLocks, KeepaliveVisits, FallsSilent, Pong, BorrowerStep, SenderStep

LEMMA LoopTypeStep ==
    ASSUME SavedTypeOK, [Next]_vars
    PROVE  loop' \in BOOLEAN
<1>1. loop \in BOOLEAN
  BY DEF SavedTypeOK
<1> QED
  BY <1>1, SavedSteps DEF Connect, LoadAndRun, LoadInVain, LeaveStart, CancelLoop,
     LeaveEnd, CancelAndClose, Crash, Lose, KeepaliveSaves, SavePeriodically, savedVars,
     UpdateStep, NewEvent, Take, TakeInVain, EndInVain, LoopEnds, HandlersEnd,
     FlushStates, Commit

LEMMA LoadTypes ==
    ASSUME SavedTypeOK, NEW p \in 0..log, Load(p), loop' \in BOOLEAN, strays' \in Nat
    PROVE  SavedTypeOK'
<1> USE MaxEventsAssumption DEF SavedTypeOK, Load
<1>1. reset' \subseteq 1..log'
  <2>1. {e \in 1..pos : e > p} \subseteq 1..log
    OBVIOUS
  <2> QED
    BY <2>1
<1>2. jumped' \subseteq 1..log'
  <2>1. {e \in 1..p : e > pos /\ e > written} \subseteq 1..log
    OBVIOUS
  <2> QED
    BY <2>1
<1>3. exposed' \subseteq 1..log'
  OBVIOUS
<1> QED
  BY <1>1, <1>2, <1>3

LEMMA SavedTypeStep ==
    ASSUME SavedTypeOK, [Next]_vars
    PROVE  SavedTypeOK'
<1> USE MaxEventsAssumption DEF SavedTypeOK, LoopRuns
<1>0. loop' \in BOOLEAN
  BY LoopTypeStep
<1>1. CASE Connect
  <2>1. CASE LoadAndRun
    <3>1. PICK p \in 0..log : Load(p)
      BY <2>1 DEF LoadAndRun, Loaded
    <3>2. strays' \in Nat
      BY <2>1 DEF LoadAndRun
    <3> QED
      BY <1>0, <3>1, <3>2, LoadTypes
  <2>2. CASE LoadInVain
    <3>1. PICK p \in 0..log : Load(p)
      BY <2>2 DEF LoadInVain, Loaded
    <3> QED
      BY <1>0, <2>2, <3>1, LoadTypes DEF LoadInVain
  <2> QED
    BY <1>1, <2>1, <2>2 DEF Connect
<1>2. CASE LeaveStart
  BY <1>2 DEF LeaveStart, CancelLoop, history
<1>3. CASE LeaveEnd
  BY <1>3 DEF LeaveEnd, CancelAndClose, SaveStates
<1>4. CASE Crash
  <2>1. reset' \subseteq 1..log'
    <3>1. {e \in 1..pos : e > committed} \subseteq 1..log
      OBVIOUS
    <3> QED
      BY <1>4, <3>1 DEF Crash, Lose
  <2> QED
    BY <1>0, <1>4, <2>1 DEF Crash, Lose
<1>5. CASE KeepaliveSaves
  BY <1>5 DEF KeepaliveSaves, SavePeriodically, SaveStates, savedVars, history
<1>6. CASE UpdateStep
  <2>1. CASE NewEvent
    BY <2>1 DEF NewEvent, history
  <2>2. ASSUME NEW p \in Events, Take(p)
        PROVE  SavedTypeOK'
    BY <2>2 DEF Take, Moves, Events
  <2>3. ASSUME NEW p \in Events, TakeInVain(p)
        PROVE  SavedTypeOK'
    BY <1>0, <2>3 DEF TakeInVain, Moves, Events, LoopEnds
  <2>4. CASE EndInVain
    BY <1>0, <2>4 DEF EndInVain, LoopEnds, history
  <2>5. ASSUME NEW e \in Events, HandlersEnd(e)
        PROVE  SavedTypeOK'
    BY <2>5 DEF HandlersEnd
  <2>6. CASE FlushStates \/ Commit
    BY <2>6 DEF FlushStates, Commit, history
  <2> QED
    BY <1>6, <2>1, <2>2, <2>3, <2>4, <2>5, <2>6 DEF UpdateStep
<1>7. CASE UNCHANGED savedVars
  BY <1>7 DEF savedVars, history
<1> QED
  BY <1>1, <1>2, <1>3, <1>4, <1>5, <1>6, <1>7, SavedSteps

LEMMA PositionsStep ==
    ASSUME SavedTypeOK, PositionsOK, [Next]_vars
    PROVE  PositionsOK'
<1> USE MaxEventsAssumption DEF SavedTypeOK, PositionsOK, LoopRuns
<1>1. CASE Connect
  <2>1. PICK p \in 0..log : Load(p) /\ (p = Loaded \/ p = log)
    BY <1>1 DEF Connect, LoadAndRun, LoadInVain, Loaded
  <2>2. p = 0 => Loaded = 0 /\ LoadInVain
    BY <1>1, <2>1 DEF Connect, LoadAndRun, Load
  <2>3. committed' = written /\ written' = written /\ pos' = p
    BY <2>1 DEF Load
  <2>4. p # 0 => written <= p
    BY <2>1 DEF Loaded
  <2>5. p = 0 => ((loop' \/ strays' > 0) => written' = 0)
    BY <2>2, <2>3 DEF LoadInVain, Loaded
  <2>6. keepalive' # "off" => p # 0
    BY <1>1, <2>1, <2>2 DEF Connect, LoadAndRun, LoadInVain, Load
  <2> QED
    BY <2>3, <2>4, <2>5, <2>6
<1>2. CASE LeaveStart
  BY <1>2 DEF LeaveStart, CancelLoop, history
<1>3. CASE LeaveEnd
  BY <1>3 DEF LeaveEnd, CancelAndClose, SaveStates
<1>4. CASE Crash
  BY <1>4 DEF Crash, Lose
<1>5. CASE KeepaliveSaves
  BY <1>5 DEF KeepaliveSaves, SavePeriodically, SaveStates, savedVars, history
<1>6. CASE UpdateStep
  BY <1>6 DEF UpdateStep, NewEvent, Take, Moves, TakeInVain, EndInVain, LoopEnds,
     HandlersEnd, FlushStates, Commit, lifeVars, history, Events
<1>7. CASE /\ UNCHANGED savedVars
           /\ keepalive' = keepalive \/ (keepalive # "off" /\ keepalive' # "off")
              \/ keepalive' = "off"
  BY <1>7 DEF savedVars, history
<1> QED
  BY <1>1, <1>2, <1>3, <1>4, <1>5, <1>6, <1>7, SavedSteps

LEMMA CoverStep ==
    ASSUME SavedTypeOK, PositionsOK, CoverOK, [Next]_vars
    PROVE  CoverOK'
<1> USE MaxEventsAssumption DEF SavedTypeOK, CoverOK, OnlyExposedLost
<1>1. CASE Connect
  <2>1. PICK p \in 0..log : Load(p)
    BY <1>1 DEF Connect, LoadAndRun, LoadInVain, Loaded
  <2>2. \A e \in 1..p : e \in finished \cup running \cup exposed' \cup jumped'
    <3>1. TAKE e \in 1..p
    <3>2. CASE e <= pos \/ e <= written
      BY <2>1, <3>2 DEF Load
    <3>3. CASE e > pos /\ e > written
      BY <2>1, <3>3 DEF Load
    <3> QED
      BY <3>2, <3>3
  <2>3. \A e \in 1..written : e \in finished \cup exposed' \cup jumped'
    BY <2>1 DEF Load
  <2> QED
    BY <2>1, <2>2, <2>3 DEF Load
<1>2. CASE LeaveStart
  BY <1>2 DEF LeaveStart, CancelLoop, history
<1>3. CASE LeaveEnd
  BY <1>3 DEF LeaveEnd, CancelAndClose, SaveStates
<1>4. CASE Crash
  BY <1>4 DEF Crash, Lose
<1>5. CASE KeepaliveSaves
  BY <1>5 DEF KeepaliveSaves, SavePeriodically, SaveStates, savedVars, history
<1>6. CASE UpdateStep
  <2>1. CASE NewEvent \/ EndInVain
    BY <2>1 DEF NewEvent, EndInVain, history
  <2>2. ASSUME NEW p \in Events, Take(p)
        PROVE  CoverOK'
    BY <2>2 DEF Take, Moves, Events
  <2>3. ASSUME NEW p \in Events, TakeInVain(p)
        PROVE  CoverOK'
    BY <2>3 DEF TakeInVain, Moves, Events
  <2>4. ASSUME NEW e \in Events, HandlersEnd(e)
        PROVE  CoverOK'
    BY <2>4 DEF HandlersEnd
  <2>5. CASE FlushStates \/ Commit
    BY <2>5 DEF FlushStates, Commit, history
  <2> QED
    BY <1>6, <2>1, <2>2, <2>3, <2>4, <2>5 DEF UpdateStep
<1>7. CASE UNCHANGED savedVars
  BY <1>7 DEF savedVars, history
<1> QED
  BY <1>1, <1>2, <1>3, <1>4, <1>5, <1>6, <1>7, SavedSteps

LEMMA AgainStep ==
    ASSUME SavedTypeOK, PositionsOK, AgainOK, [Next]_vars
    PROVE  AgainOK'
<1> USE MaxEventsAssumption DEF SavedTypeOK, AgainOK, TwiceOnlyAfterReset, LoopRuns
<1>1. CASE Connect
  <2>1. PICK p \in 0..log : /\ Load(p)
                            /\ \/ LoadAndRun /\ p = IF Loaded = 0 THEN log ELSE Loaded
                               \/ LoadInVain /\ p = Loaded
    BY <1>1 DEF Connect, LoadAndRun, LoadInVain, Loaded
  <2>2. twice' \subseteq reset'
    BY <2>1 DEF Load
  <2>3. ASSUME NEW e \in given', e > pos', e \notin reset'
        PROVE  pos' = 0 /\ ~LoopRuns' /\ (written' = 0 \/ ~catchUp' \/ e <= written')
    <3>1. e \in given /\ e > p /\ e \notin reset /\ e > pos /\ e <= log
      BY <2>1, <2>3 DEF Load
    <3>2. pos = 0 /\ ~LoopRuns /\ (written = 0 \/ ~catchUp \/ e <= written)
      BY <3>1
    <3>3. LoadInVain /\ p = Loaded
      BY <2>1, <3>1, <3>2 DEF Loaded
    <3> QED
      BY <2>1, <3>1, <3>2, <3>3 DEF LoadInVain, Load, Loaded
  <2> QED
    BY <2>2, <2>3
<1>2. CASE LeaveStart
  BY <1>2 DEF LeaveStart, CancelLoop, history
<1>3. CASE LeaveEnd
  BY <1>3 DEF LeaveEnd, CancelAndClose, SaveStates
<1>4. CASE Crash
  BY <1>4 DEF Crash, Lose, PositionsOK
<1>5. CASE KeepaliveSaves
  <2>1. CASE SavePeriodically
    <3>1. \A e \in given : e > pos => e \in reset \/ (pos = 0 /\ ~LoopRuns)
      OBVIOUS
    <3> QED
      BY <2>1, <3>1 DEF SavePeriodically, SaveStates
  <2>2. CASE UNCHANGED savedVars
    BY <2>2 DEF savedVars, history
  <2> QED
    BY <1>5, <2>1, <2>2 DEF KeepaliveSaves
<1>6. CASE UpdateStep
  <2>1. CASE NewEvent
    BY <2>1 DEF NewEvent, history
  <2>2. CASE EndInVain
    BY <2>2 DEF EndInVain, LoopEnds, history
  <2>3. ASSUME NEW p \in Events, Take(p)
        PROVE  AgainOK'
    BY <2>3 DEF Take, Moves, Events
  <2>4. ASSUME NEW p \in Events, TakeInVain(p)
        PROVE  AgainOK'
    BY <2>4 DEF TakeInVain, Moves, Events
  <2>5. ASSUME NEW e \in Events, HandlersEnd(e)
        PROVE  AgainOK'
    BY <2>5 DEF HandlersEnd
  <2>6. CASE FlushStates
    <3>1. \A e \in given : e > pos => e \in reset
      BY <2>6 DEF FlushStates
    <3> QED
      BY <2>6, <3>1 DEF FlushStates, history
  <2>7. CASE Commit
    BY <2>7 DEF Commit
  <2> QED
    BY <1>6, <2>1, <2>2, <2>3, <2>4, <2>5, <2>6, <2>7 DEF UpdateStep
<1>7. CASE UNCHANGED savedVars
  BY <1>7 DEF savedVars, history
<1> QED
  BY <1>1, <1>2, <1>3, <1>4, <1>5, <1>6, <1>7, SavedSteps

(* What a step may do to the positions of the session.                      *)
Forward ==
    /\ committed' < committed => main = "cleared" /\ pos = 0
    /\ written' < written => (main = "cleared" /\ pos = 0) \/ crashes' > crashes

LEMMA ForwardStep ==
    ASSUME TypeOK, PositionsOK, [Next]_vars
    PROVE  Forward
<1> USE MaxEventsAssumption, CrashesAssumption
    DEF TypeOK, SavedTypeOK, PositionsOK, Forward, LoopRuns
<1>1. CASE Connect
  BY <1>1 DEF Connect, LoadAndRun, LoadInVain, Load
<1>2. CASE LeaveStart
  BY <1>2 DEF LeaveStart, CancelLoop
<1>3. CASE LeaveEnd
  BY <1>3 DEF LeaveEnd, CancelAndClose, SaveStates
<1>4. CASE Crash
  BY <1>4 DEF Crash, Lose
<1>5. CASE KeepaliveSaves
  BY <1>5 DEF KeepaliveSaves, SavePeriodically, SaveStates, savedVars
<1>6. CASE UpdateStep
  BY <1>6 DEF UpdateStep, NewEvent, Take, Moves, TakeInVain, EndInVain, HandlersEnd,
     FlushStates, Commit
<1>7. CASE UNCHANGED savedVars
  BY <1>7 DEF savedVars
<1> QED
  BY <1>1, <1>2, <1>3, <1>4, <1>5, <1>6, <1>7, SavedSteps

-----------------------------------------------------------------------------
(* The senders.                                                             *)

LEMMA ExportSteps ==
    ASSUME [Next]_vars
    PROVE  \/ LeaveStart \/ ClosesStart \/ ClosesEnd \/ Crash
           \/ \E d \in Dcs : ClosesOne(d)
           \/ KeepaliveLocks \/ KeepaliveVisits \/ KeepaliveSaves
           \/ \E t \in Borrowers : BorrowerStep(t)
           \/ \E i \in Senders : SenderStep(i)
           \/ UNCHANGED exportVars
BY DEF Next, vars, Connect, Drop, LeaveEnd, KeepaliveWakes, FallsSilent, Pong, UpdateStep

Task == [at : Stages, dc : Dcs \cup {None}, sender : Senders \cup {None}]

LEMMA TaskTypes ==
    ASSUME NEW x \in Task, NEW a \in Stages, NEW i \in Senders \cup {None}
    PROVE  /\ [x EXCEPT !.at = a] \in Task
           /\ [x EXCEPT !.sender = i] \in Task
BY Zenon DEF Task

LEMMA TaskMoves ==
    ASSUME ExportTypeOK, NEW t \in Borrowers, NEW a \in Stages,
           NEW i \in Senders \cup {None}
    PROVE  /\ [task EXCEPT ![t].at = a] \in [Borrowers -> Task]
           /\ [task EXCEPT ![t].at = a, ![t].sender = i] \in [Borrowers -> Task]
           /\ [task EXCEPT ![t] = Idle] \in [Borrowers -> Task]
<1>1. task \in [Borrowers -> Task]
  BY DEF ExportTypeOK, Task
<1>2. [task[t] EXCEPT !.at = a] \in Task
  BY <1>1, TaskTypes
<1>3. [task EXCEPT ![t].at = a] \in [Borrowers -> Task]
  BY <1>1, <1>2
<1>4. [[task EXCEPT ![t].at = a][t] EXCEPT !.sender = i] \in Task
  BY <1>3, TaskTypes
<1>5. [[task EXCEPT ![t].at = a] EXCEPT ![t].sender = i] \in [Borrowers -> Task]
  BY <1>3, <1>4
<1>6. Idle \in Task
  BY DEF Idle, Task, Stages
<1> QED
  BY <1>1, <1>3, <1>5, <1>6

LEMMA FlagTypes ==
    ASSUME NEW f \in [Senders -> BOOLEAN], NEW i, NEW b \in BOOLEAN
    PROVE  [f EXCEPT ![i] = b] \in [Senders -> BOOLEAN]
OBVIOUS

LEMMA LendTypes ==
    ASSUME ExportTypeOK, NEW t \in Borrowers, NEW i \in Senders \cup {None}, Lend(t, i)
    PROVE  /\ count' \in [Senders -> Int]
           /\ flagged' \in [Senders -> BOOLEAN]
           /\ task' \in [Borrowers -> Task]
<1>1. count' \in [Senders -> Int]
  <2>1. count \in [Senders -> Int] /\ count' = [count EXCEPT ![i] = count[i] + 1]
    BY DEF Lend, ExportTypeOK
  <2>2. CASE i \in Senders
    <3>1. count[i] + 1 \in Int
      BY <2>1, <2>2
    <3> QED
      BY <2>1, <3>1
  <2>3. CASE i \notin Senders
    BY <2>1, <2>3
  <2> QED
    BY <2>2, <2>3
<1>2. flagged' \in [Senders -> BOOLEAN]
  <2>1. [flagged EXCEPT ![i] = TRUE] \in [Senders -> BOOLEAN]
    BY FlagTypes DEF ExportTypeOK
  <2> QED
    BY <2>1 DEF Lend
<1>3. "using" \in Stages
  BY DEF Stages
<1>4. task' \in [Borrowers -> Task]
  BY <1>3, TaskMoves DEF Lend
<1> QED
  BY <1>1, <1>2, <1>4

LEMMA BorrowerTypes ==
    ASSUME ExportTypeOK, TableOK, NEW t \in Borrowers, BorrowerStep(t)
    PROVE  ExportTypeOK'
<1> DEFINE i == table[task[t].dc]
<1> USE DEF ExportTypeOK
<1>0. task \in [Borrowers -> Task] /\ Task =
        [at : Stages, dc : Dcs \cup {None}, sender : Senders \cup {None}]
  BY DEF Task
<1>0a. task[t].dc \in Dcs \cup {None} /\ task[t].sender \in Senders \cup {None}
  BY <1>0
<1>0b. \A a \in Stages :
          /\ [task EXCEPT ![t].at = a] \in [Borrowers -> Task]
          /\ \A s \in Senders \cup {None} :
                [task EXCEPT ![t].at = a, ![t].sender = s] \in [Borrowers -> Task]
          /\ [task EXCEPT ![t] = Idle] \in [Borrowers -> Task]
  BY TaskMoves
<1>0c. {"idle", "creating", "exporting", "connecting", "using", "returning"} \subseteq Stages
  BY DEF Stages
\* The second conjunct about tasks.
<1>0d. ASSUME task' \in [Borrowers -> Task],
              \A u \in Borrowers : u # t => task'[u] = task[u],
              task'[t].at = "idle" \/ task'[t].dc \in Dcs
       PROVE  \A u \in Borrowers : task'[u].at # "idle" => task'[u].dc \in Dcs
  BY <1>0d
<1>0e. task[t].at # "idle" => task[t].dc \in Dcs /\ i \in Senders \cup {None}
  OBVIOUS
<1>0f. ASSUME NEW s, Lend(t, s)
       PROVE  /\ \A u \in Borrowers : u # t => task'[u] = task[u]
              /\ task'[t].dc = task[t].dc
  BY <1>0, <1>0f DEF Lend, Task
<1> HIDE DEF i
<1>1. ASSUME NEW d \in Dcs, Ask(t, d)
      PROVE  ExportTypeOK'
  BY <1>1 DEF Ask, Stages
<1>2. CASE Borrow(t)
  <2>1. Lend(t, i) /\ i \in Senders \cup {None} /\ task[t].dc \in Dcs
    BY <1>2, <1>0e DEF Borrow, i
  <2>2. count' \in [Senders -> Int] /\ flagged' \in [Senders -> BOOLEAN]
        /\ task' \in [Borrowers -> Task]
    BY <2>1, LendTypes
  <2>3. \A u \in Borrowers : task'[u].at # "idle" => task'[u].dc \in Dcs
    BY <2>1, <2>2, <1>0d, <1>0f
  <2> QED
    BY <1>0, <1>2, <2>2, <2>3 DEF Borrow
<1>3. CASE BorrowWaits(t)
  BY <1>3 DEF BorrowWaits, Stages
<1>4. CASE Made(t)
  <2>1. PICK s \in Senders \ made :
          /\ made' = made \cup {s}
          /\ link' = [link EXCEPT ![s] = "up"]
          /\ task' = [task EXCEPT ![t].at = "exporting", ![t].sender = s]
    BY <1>4 DEF Made
  <2>2. task' \in [Borrowers -> Task]
    BY <2>1, <1>0b, <1>0c
  <2>3. \A u \in Borrowers : task'[u].at # "idle" => task'[u].dc \in Dcs
    BY <1>0, <1>4, <2>1 DEF Made, Task
  <2> QED
    BY <1>0, <1>4, <2>1, <2>2, <2>3 DEF Made
<1>5. CASE Exported(t)
  <2>1. Lend(t, task[t].sender) /\ task[t].dc \in Dcs
    BY <1>5 DEF Exported
  <2>2. count' \in [Senders -> Int] /\ flagged' \in [Senders -> BOOLEAN]
        /\ task' \in [Borrowers -> Task]
    BY <2>1, <1>0a, LendTypes
  <2>3. \A u \in Borrowers : task'[u].at # "idle" => task'[u].dc \in Dcs
    BY <2>1, <2>2, <1>0d, <1>0f
  <2> QED
    BY <1>0, <1>0a, <1>5, <2>2, <2>3 DEF Exported
<1>6. CASE ExportFails(t)
  <2>1. task' \in [Borrowers -> Task]
    BY <1>0b, <1>0c, <1>6 DEF ExportFails
  <2>2. \A u \in Borrowers : task'[u].at # "idle" => task'[u].dc \in Dcs
    BY <1>0, <1>6 DEF ExportFails, Idle
  <2>3. orphans' \subseteq made
    BY <1>6 DEF ExportFails, TableOK
  <2> QED
    BY <1>0, <1>6, <2>1, <2>2, <2>3 DEF ExportFails
<1>7. CASE Connected(t)
  <2>1. Lend(t, i) /\ i \in Senders \cup {None} /\ task[t].dc \in Dcs
    BY <1>7, <1>0e DEF Connected, i
  <2>2. count' \in [Senders -> Int] /\ flagged' \in [Senders -> BOOLEAN]
        /\ task' \in [Borrowers -> Task]
    BY <2>1, LendTypes
  <2>3. \A u \in Borrowers : task'[u].at # "idle" => task'[u].dc \in Dcs
    BY <2>1, <2>2, <1>0d, <1>0f
  <2> QED
    BY <1>0, <1>7, <2>2, <2>3 DEF Connected
<1>8. CASE ConnectFails(t)
  <2>1. task' \in [Borrowers -> Task]
    BY <1>0b, <1>0c, <1>8 DEF ConnectFails
  <2>2. \A u \in Borrowers : task'[u].at # "idle" => task'[u].dc \in Dcs
    BY <1>0, <1>8 DEF ConnectFails, Idle
  <2> QED
    BY <1>0, <1>8, <2>1, <2>2 DEF ConnectFails
<1>9. CASE Return(t)
  BY <1>9 DEF Return, Stages
<1>10. CASE Returned(t)
  <2>1. task' \in [Borrowers -> Task]
    BY <1>0b, <1>0c, <1>10 DEF Returned
  <2>2. old' \in [Senders -> BOOLEAN]
    BY <1>10, FlagTypes DEF Returned
  <2>3. misreturned' \in BOOLEAN
    BY <1>10 DEF Returned
  <2>4. count' \in [Senders -> Int]
    BY <1>10 DEF Returned
  <2>5. \A u \in Borrowers : task'[u].at # "idle" => task'[u].dc \in Dcs
    BY <1>0, <1>10 DEF Returned, Idle
  <2> QED
    BY <1>0, <1>10, <2>1, <2>2, <2>3, <2>4, <2>5 DEF Returned
<1> QED
  BY <1>1, <1>2, <1>3, <1>4, <1>5, <1>6, <1>7, <1>8, <1>9, <1>10
     DEF BorrowerStep, ExportEnds

LEMMA ExportTypeStep ==
    ASSUME ExportTypeOK, TableOK, [Next]_vars
    PROVE  ExportTypeOK'
<1> USE DEF ExportTypeOK
<1>1. CASE LeaveStart
  BY <1>1 DEF LeaveStart, CleanCancelled
<1>2. CASE ClosesStart
  BY <1>2 DEF ClosesStart, CloseStart
<1>3. CASE ClosesEnd
  BY <1>3 DEF ClosesEnd, CloseEnd
<1>4. CASE Crash
  <2>1. Idle \in Task
    BY DEF Idle, Task, Stages
  <2>2. task' \in [Borrowers -> Task] /\ \A t \in Borrowers : task'[t].at = "idle"
    BY <1>4, <2>1 DEF Crash, NoSenders, Idle
  <2>3. /\ table' \in [Dcs -> Senders \cup {None}]
        /\ count' \in [Senders -> Int]
        /\ link' \in [Senders -> {"down", "up", "lost"}]
    BY <1>4 DEF Crash, NoSenders
  <2>4. flagged' \in [Senders -> BOOLEAN] /\ old' \in [Senders -> BOOLEAN]
    BY <1>4 DEF Crash, NoSenders
  <2> QED
    BY <1>4, <2>2, <2>3, <2>4 DEF Crash, NoSenders, Task
<1>5. ASSUME NEW d \in Dcs, ClosesOne(d)
      PROVE  ExportTypeOK'
  BY <1>5 DEF ClosesOne, CloseOne
<1>6. CASE KeepaliveLocks
  BY <1>6 DEF KeepaliveLocks, CleanStart
<1>7. CASE KeepaliveVisits
  <2>1. ASSUME NEW d \in Dcs, CleanVisit(d)
        PROVE  ExportTypeOK'
    BY <2>1 DEF CleanVisit
  <2>2. CASE CleanMark
    BY <2>2 DEF CleanMark
  <2> QED
    BY <1>7, <2>1, <2>2 DEF KeepaliveVisits
<1>8. CASE KeepaliveSaves
  BY <1>8 DEF KeepaliveSaves, CleanEnd
<1>9. ASSUME NEW t \in Borrowers, BorrowerStep(t)
      PROVE  ExportTypeOK'
  BY <1>9, BorrowerTypes
<1>10. ASSUME NEW i \in Senders, SenderStep(i)
       PROVE  ExportTypeOK'
  BY <1>10 DEF SenderStep, Ages, LinkDrops
<1>11. CASE UNCHANGED exportVars
  BY <1>11 DEF exportVars
<1> QED
  BY <1>1, <1>2, <1>3, <1>4, <1>5, <1>6, <1>7, <1>8, <1>9, <1>10, <1>11, ExportSteps

(* A step of a borrower leaves the tasks of the others alone.               *)
LEMMA OthersStay ==
    ASSUME ExportTypeOK, NEW t \in Borrowers, BorrowerStep(t)
    PROVE  \A u \in Borrowers : u # t => task'[u] = task[u]
BY DEF ExportTypeOK, BorrowerStep, ExportEnds, Ask, Borrow, Lend, BorrowWaits, Made,
       Exported, ExportFails, Connected, ConnectFails, Return, Returned

(* Where the step leaves the task itself, and the lock.                     *)
LEMMA BorrowerMoves ==
    ASSUME ExportTypeOK, NEW t \in Borrowers, BorrowerStep(t)
    PROVE  \/ /\ task[t].at \in {"idle", "asking", "using", "returning"}
              /\ task'[t].at \in {"idle", "asking", "using", "returning"}
              /\ lock' = lock
           \/ /\ task[t].at = "asking" /\ lock = None
              /\ task'[t].at \in {"creating", "connecting"}
              /\ lock' = t
           \/ /\ task[t].at = "creating" /\ task'[t].at = "exporting"
              /\ lock' = lock
           \/ /\ task[t].at \in {"creating", "exporting", "connecting"}
              /\ task'[t].at \in {"idle", "using"}
              /\ lock' = None
<1> DEFINE Goal ==
           \/ /\ task[t].at \in {"idle", "asking", "using", "returning"}
              /\ task'[t].at \in {"idle", "asking", "using", "returning"}
              /\ lock' = lock
           \/ /\ task[t].at = "asking" /\ lock = None
              /\ task'[t].at \in {"creating", "connecting"}
              /\ lock' = t
           \/ /\ task[t].at = "creating" /\ task'[t].at = "exporting"
              /\ lock' = lock
           \/ /\ task[t].at \in {"creating", "exporting", "connecting"}
              /\ task'[t].at \in {"idle", "using"}
              /\ lock' = None
<1>0. task \in [Borrowers -> Task] /\ Task =
        [at : Stages, dc : Dcs \cup {None}, sender : Senders \cup {None}]
  BY DEF Task, ExportTypeOK
<1>1. ASSUME NEW d \in Dcs, Ask(t, d)
      PROVE  Goal
  BY <1>0, <1>1 DEF Ask
<1>2. ASSUME NEW i, Lend(t, i)
      PROVE  task'[t].at = "using"
  BY <1>0, <1>2 DEF Lend
<1>3. CASE Borrow(t)
  BY <1>2, <1>3 DEF Borrow
<1>4. CASE BorrowWaits(t)
  BY <1>0, <1>4 DEF BorrowWaits
<1>5. CASE Made(t)
  BY <1>0, <1>5 DEF Made
<1>6. CASE Exported(t)
  BY <1>2, <1>6 DEF Exported
<1>7. CASE ExportFails(t)
  BY <1>0, <1>7 DEF ExportFails, Idle
<1>8. CASE Connected(t)
  BY <1>2, <1>8 DEF Connected
<1>9. CASE ConnectFails(t)
  BY <1>0, <1>9 DEF ConnectFails, Idle
<1>10. CASE Return(t)
  BY <1>0, <1>10 DEF Return
<1>11. CASE Returned(t)
  BY <1>0, <1>11 DEF Returned, Idle
<1> QED
  BY <1>1, <1>3, <1>4, <1>5, <1>6, <1>7, <1>8, <1>9, <1>10, <1>11
     DEF BorrowerStep, ExportEnds

LEMMA LockStep ==
    ASSUME TypeOK, LockOK, [Next]_vars
    PROVE  LockOK'
<1> USE NoneAssumption, HoldersAssumption DEF TypeOK, ExportTypeOK, LockOK
<1>1. CASE LeaveStart
  BY <1>1 DEF LeaveStart, CleanCancelled
<1>2. CASE ClosesStart
  BY <1>2 DEF ClosesStart, CloseStart
<1>3. CASE ClosesEnd
  BY <1>3 DEF ClosesEnd, CloseEnd
<1>4. CASE Crash
  BY <1>4 DEF Crash, NoSenders, Idle
<1>5. ASSUME NEW d \in Dcs, ClosesOne(d)
      PROVE  LockOK'
  BY <1>5 DEF ClosesOne, CloseOne, lifeVars
<1>6. CASE KeepaliveLocks
  BY <1>6 DEF KeepaliveLocks, CleanStart
<1>7. CASE KeepaliveVisits
  BY <1>7 DEF KeepaliveVisits, CleanVisit, CleanMark, lifeVars
<1>8. CASE KeepaliveSaves
  BY <1>8 DEF KeepaliveSaves, CleanEnd
<1>9. ASSUME NEW t \in Borrowers, BorrowerStep(t)
      PROVE  LockOK'
  <2>1. main' = main /\ closing' = closing
    BY <1>9 DEF BorrowerStep, ExportEnds, Ask, Borrow, BorrowWaits, Made,
       Exported, ExportFails, Connected, ConnectFails, Return, Returned, lifeVars
  <2>2. \A u \in Borrowers : u # t => task'[u] = task[u]
    BY <1>9, OthersStay
  <2> QED
    BY <1>9, <2>1, <2>2, BorrowerMoves
<1>10. ASSUME NEW i \in Senders, SenderStep(i)
       PROVE  LockOK'
  BY <1>10 DEF SenderStep, Ages, LinkDrops, lifeVars
<1>11. CASE UNCHANGED exportVars
  <2>1. main' = main \/ (main # "clearing" /\ main' # "clearing")
    BY <1>11, HoldersAssumption DEF exportVars, LockOK, Next, vars, lifeVars, Connect, Drop,
       LeaveStart, ClosesStart, ClosesEnd, LeaveEnd, Crash, ClosesOne, KeepaliveWakes,
       KeepaliveLocks, KeepaliveVisits, KeepaliveSaves, FallsSilent, Pong, BorrowerStep,
       SenderStep, UpdateStep, CloseStart, CloseEnd, NoSenders
  <2> QED
    BY <1>11, <2>1 DEF exportVars
<1> QED
  BY <1>1, <1>2, <1>3, <1>4, <1>5, <1>6, <1>7, <1>8, <1>9, <1>10, <1>11, ExportSteps

LEMMA OneHolder ==
    ASSUME LockOK, NEW t \in Borrowers, NEW u \in Borrowers,
           task[t].at \in {"creating", "exporting", "connecting"},
           task[u].at \in {"creating", "exporting", "connecting"}
    PROVE  t = u
BY DEF LockOK

(* Only a client that is connected takes a sender up.                       *)
LEMMA BorrowerMain ==
    ASSUME NEW t \in Borrowers, BorrowerStep(t), table' # table
    PROVE  main = "on"
BY DEF BorrowerStep, ExportEnds, Ask, Borrow, BorrowWaits, Made, ExportFails, Connected,
       ConnectFails, Return, Returned

LEMMA BorrowerTable ==
    ASSUME TypeOK, LockOK, TableOK, NEW t \in Borrowers, BorrowerStep(t)
    PROVE  TableOK'
<1> USE NoneAssumption DEF TypeOK, TableOK, Exporting
<1>0. task \in [Borrowers -> Task] /\ Task =
        [at : Stages, dc : Dcs \cup {None}, sender : Senders \cup {None}]
      /\ table \in [Dcs -> Senders \cup {None}] /\ made \subseteq Senders
      /\ \A u \in Borrowers : task[u].at # "idle" => task[u].dc \in Dcs
  BY DEF Task, ExportTypeOK
<1>1. main' = main
  BY DEF BorrowerStep, lifeVars
<1>2. \A u \in Borrowers : u # t => task'[u] = task[u]
  BY OthersStay
\* A step that makes no sender and leaves the table alone.
<1>3. ASSUME table' = table, made' = made, task'[t].at # "exporting",
             task'[t].at = "connecting" => table[task'[t].dc] # None,
             task'[t].at = "creating" => table[task'[t].dc] = None
      PROVE  TableOK'
  <2>1. \A i : Exporting(i)' => Exporting(i)
    BY <1>2, <1>3
  <2> QED
    BY <1>1, <1>2, <1>3, <2>1
<1>4. ASSUME NEW d \in Dcs, Ask(t, d)
      PROVE  TableOK'
  BY <1>0, <1>3, <1>4 DEF Ask
<1>5. CASE Borrow(t)
  BY <1>0, <1>3, <1>5 DEF Borrow, Lend
<1>6. CASE BorrowWaits(t)
  BY <1>0, <1>3, <1>6 DEF BorrowWaits
<1>7. CASE Made(t)
  <2>1. PICK s \in Senders \ made :
          /\ made' = made \cup {s}
          /\ task' = [task EXCEPT ![t].at = "exporting", ![t].sender = s]
    BY <1>7 DEF Made
  <2>2. /\ task'[t].at = "exporting" /\ task'[t].sender = s /\ task'[t].dc = task[t].dc
        /\ table[task[t].dc] = None
    BY <1>0, <1>7, <2>1 DEF Made
  <2>3. \A i : Exporting(i)' => Exporting(i) \/ i = s
    BY <1>2, <2>2
  <2>4. table' = table
    BY <1>7 DEF Made
  <2> QED
    BY <1>0, <1>1, <1>2, <2>1, <2>2, <2>3, <2>4
<1>8. CASE Exported(t)
  <2> DEFINE i == task[t].sender
  <2>1. /\ task[t].at = "exporting" /\ task[t].dc \in Dcs /\ i \in made
        /\ table' = [table EXCEPT ![task[t].dc] = i] /\ made' = made
    BY <1>0, <1>8 DEF Exported
  <2>2. task'[t].at = "using"
    BY <1>0, <1>8 DEF Exported, Lend
  <2>3. \A u \in Borrowers : task[u].at \in {"creating", "exporting", "connecting"} => u = t
    BY <2>1, OneHolder
  <2>4. \A s : ~Exporting(s)'
    BY <1>2, <2>2, <2>3
  <2>5. ASSUME NEW d \in Dcs
        PROVE  table[d] # i
    <3>1. Exporting(i) /\ i # None
      BY <1>0, <2>1
    <3> QED
      BY <3>1
  <2>6. main = "on"
    BY <2>1, <1>0, <1>8, BorrowerMain
  <2> QED
    BY <1>0, <1>1, <1>2, <2>1, <2>2, <2>3, <2>4, <2>5, <2>6
<1>9. CASE ExportFails(t)
  BY <1>0, <1>3, <1>9 DEF ExportFails, Idle
<1>10. CASE Connected(t)
  BY <1>0, <1>3, <1>10 DEF Connected, Lend
<1>11. CASE ConnectFails(t)
  BY <1>0, <1>3, <1>11 DEF ConnectFails, Idle
<1>12. CASE Return(t)
  BY <1>0, <1>3, <1>12 DEF Return
<1>13. CASE Returned(t)
  BY <1>0, <1>3, <1>13 DEF Returned, Idle
<1> QED
  BY <1>4, <1>5, <1>6, <1>7, <1>8, <1>9, <1>10, <1>11, <1>12, <1>13
     DEF BorrowerStep, ExportEnds

LEMMA TableStep ==
    ASSUME TypeOK, LockOK, TableOK, [Next]_vars
    PROVE  TableOK'
<1> USE NoneAssumption, HoldersAssumption DEF TypeOK, ExportTypeOK, TableOK, Exporting
<1>1. CASE LeaveStart
  BY <1>1 DEF LeaveStart, CleanCancelled
<1>2. CASE ClosesStart
  BY <1>2 DEF ClosesStart, CloseStart
<1>3. CASE ClosesEnd
  BY <1>3 DEF ClosesEnd, CloseEnd, LockOK
<1>4. CASE Crash
  BY <1>4 DEF Crash, NoSenders, Idle
<1>5. ASSUME NEW d \in Dcs, ClosesOne(d)
      PROVE  TableOK'
  BY <1>5 DEF ClosesOne, CloseOne, lifeVars
<1>6. CASE KeepaliveLocks
  BY <1>6 DEF KeepaliveLocks, CleanStart
<1>7. CASE KeepaliveVisits
  BY <1>7 DEF KeepaliveVisits, CleanVisit, CleanMark, lifeVars
<1>8. CASE KeepaliveSaves
  BY <1>8 DEF KeepaliveSaves, CleanEnd
<1>9. ASSUME NEW t \in Borrowers, BorrowerStep(t)
      PROVE  TableOK'
  BY <1>9, BorrowerTable
<1>10. ASSUME NEW i \in Senders, SenderStep(i)
       PROVE  TableOK'
  BY <1>10 DEF SenderStep, Ages, LinkDrops, lifeVars
<1>11. CASE UNCHANGED exportVars
  <2>1. main' \in {"off", "cleared"} => \A d \in Dcs : table[d] = None
    BY <1>11 DEF exportVars, Next, vars, lifeVars, Connect, Drop, LeaveStart, ClosesStart,
       ClosesEnd, LeaveEnd, Crash, ClosesOne, KeepaliveWakes, KeepaliveLocks,
       KeepaliveVisits, KeepaliveSaves, FallsSilent, Pong, BorrowerStep, SenderStep,
       UpdateStep, CloseStart, CloseEnd, NoSenders
  <2> QED
    BY <1>11, <2>1 DEF exportVars
<1> QED
  BY <1>1, <1>2, <1>3, <1>4, <1>5, <1>6, <1>7, <1>8, <1>9, <1>10, <1>11, ExportSteps

LEMMA UsersFinite ==
    ASSUME NEW i
    PROVE  IsFiniteSet(Users(i))
BY BorrowersAssumption, FS_Subset DEF Users

LEMMA LendFacts ==
    ASSUME ExportTypeOK, NEW t \in Borrowers, NEW i \in Senders, Lend(t, i),
           task[t].at \notin {"using", "returning"}
    PROVE  /\ \A j : j # i => Users(j)' = Users(j)
           /\ Users(i)' = Users(i) \cup {t} /\ t \notin Users(i)
           /\ Cardinality(Users(i)') = Cardinality(Users(i)) + 1
           /\ count'[i] = count[i] + 1
           /\ \A j \in Senders : j # i => count'[j] = count[j]
           /\ task'[t].at = "using" /\ task'[t].sender = i /\ task'[t].dc = task[t].dc
<1>0. task \in [Borrowers -> Task] /\ Task =
        [at : Stages, dc : Dcs \cup {None}, sender : Senders \cup {None}]
  BY DEF Task, ExportTypeOK
<1>1. task'[t].at = "using" /\ task'[t].sender = i /\ task'[t].dc = task[t].dc
  BY <1>0 DEF Lend
<1>2. \A u \in Borrowers : u # t => task'[u] = task[u]
  BY <1>0 DEF Lend
<1>3. \A j : j # i => Users(j)' = Users(j)
  BY <1>1, <1>2 DEF Users
<1>4. Users(i)' = Users(i) \cup {t} /\ t \notin Users(i)
  BY <1>1, <1>2 DEF Users
<1>5. Cardinality(Users(i) \cup {t}) = Cardinality(Users(i)) + 1
  BY <1>4, UsersFinite, FS_AddElement
<1>6. count'[i] = count[i] + 1 /\ \A j \in Senders : j # i => count'[j] = count[j]
  BY DEF Lend, ExportTypeOK
<1> QED
  BY <1>1, <1>3, <1>4, <1>5, <1>6

LEMMA LendCount ==
    ASSUME TypeOK, TableOK, TableOK', CountOK,
           NEW t \in Borrowers, NEW i \in Senders, Lend(t, i),
           task[t].at \in {"asking", "exporting", "connecting"},
           \A s : Exporting(s)' => Exporting(s),
           made' = made, misreturned' = misreturned,
           \/ table' = table /\ table[task[t].dc] = i
           \/ Exporting(i) /\ table' = [table EXCEPT ![task[t].dc] = i]
    PROVE  CountOK'
<1> USE NoneAssumption DEF TypeOK, ExportTypeOK
<1> DEFINE d == task[t].dc
<1>0. d \in Dcs /\ i # None
  OBVIOUS
<1>1. /\ \A j : j # i => Users(j)' = Users(j)
      /\ Users(i)' = Users(i) \cup {t} /\ t \notin Users(i)
      /\ Cardinality(Users(i)') = Cardinality(Users(i)) + 1
      /\ count'[i] = count[i] + 1
      /\ \A j \in Senders : j # i => count'[j] = count[j]
      /\ task'[t].at = "using" /\ task'[t].sender = i /\ task'[t].dc = d
  BY LendFacts
<1>2. table'[d] = i /\ \A e \in Dcs : e # d => table'[e] = table[e] /\ table'[e] # i
  BY <1>0 DEF TableOK
<1>3. i \in made' /\ ~Exporting(i)'
  BY <1>0, <1>2 DEF TableOK
<1>4. ASSUME NEW j \in Senders, j \notin made' \/ Exporting(j)'
      PROVE  count'[j] = 0 /\ Users(j)' = {}
  BY <1>1, <1>3, <1>4 DEF CountOK
<1>5. ASSUME ~misreturned', NEW e \in Dcs, NEW j \in Senders, table'[e] = j
      PROVE  count'[j] = Cardinality(Users(j)')
  <2>1. CASE e # d
    <3>1. j # i /\ table[e] = j
      BY <1>2, <1>5, <2>1
    <3>2. count[j] = Cardinality(Users(j))
      BY <1>5, <3>1 DEF CountOK
    <3> QED
      BY <1>1, <3>1, <3>2
  <2>2. CASE e = d
    <3>0. j = i
      BY <1>2, <1>5, <2>2
    <3>1. CASE table[d] = i
      <4>1. count[i] = Cardinality(Users(i))
        BY <1>0, <1>5, <3>1 DEF CountOK
      <4> QED
        BY <1>1, <3>0, <4>1
    <3>2. CASE Exporting(i)
      <4>1. count[i] = 0 /\ Users(i) = {}
        BY <3>2 DEF CountOK
      <4>2. Cardinality(Users(i)) = 0
        BY <4>1, FS_EmptySet
      <4> QED
        BY <1>1, <3>0, <4>1, <4>2
    <3> QED
      BY <3>1, <3>2
  <2> QED
    BY <2>1, <2>2
<1>6. ASSUME NEW u \in Borrowers, NEW e \in Dcs, task'[u].at \in {"using", "returning"},
             table'[e] = task'[u].sender, table'[e] # None
      PROVE  e = task'[u].dc
  <2>1. CASE u = t
    BY <1>1, <1>2, <1>6, <2>1
  <2>2. CASE u # t
    <3>1. task'[u] = task[u]
      BY <2>2 DEF Lend
    <3>2. CASE table'[e] = table[e]
      BY <1>6, <3>1, <3>2 DEF CountOK
    <3>3. CASE table'[e] # table[e]
      <4>1. e = d /\ Exporting(i) /\ task[u].sender = i
        BY <1>2, <1>6, <3>1, <3>3
      <4>2. u \in Users(i)
        BY <1>6, <3>1, <4>1 DEF Users
      <4> QED
        BY <4>1, <4>2 DEF CountOK
    <3> QED
      BY <3>2, <3>3
  <2> QED
    BY <2>1, <2>2
<1> QED
  BY <1>4, <1>5, <1>6 DEF CountOK

(* The steps of a borrower that lend nothing and return nothing.            *)
LEMMA UsersStay ==
    ASSUME ExportTypeOK, NEW t \in Borrowers,
           \/ \E d \in Dcs : Ask(t, d)
           \/ BorrowWaits(t) \/ Made(t) \/ ExportFails(t) \/ ConnectFails(t) \/ Return(t)
    PROVE  /\ \A j : Users(j)' = Users(j)
           /\ count' = count /\ table' = table /\ misreturned' = misreturned
           /\ \A u \in Borrowers : task'[u].at \in {"using", "returning"} =>
                 /\ task[u].at \in {"using", "returning"}
                 /\ task'[u].sender = task[u].sender
                 /\ task'[u].dc = task[u].dc
<1>0. task \in [Borrowers -> Task] /\ Task =
        [at : Stages, dc : Dcs \cup {None}, sender : Senders \cup {None}]
  BY DEF Task, ExportTypeOK
<1>1. \A u \in Borrowers : u # t => task'[u] = task[u]
  BY <1>0 DEF Ask, BorrowWaits, Made, ExportFails, ConnectFails, Return
<1>2. \/ /\ task[t].at \notin {"using", "returning"}
         /\ task'[t].at \notin {"using", "returning"}
      \/ /\ task[t].at = "using" /\ task'[t].at = "returning"
         /\ task'[t].sender = task[t].sender /\ task'[t].dc = task[t].dc
  <2>1. CASE \E d \in Dcs : Ask(t, d)
    BY <1>0, <2>1 DEF Ask
  <2>2. CASE BorrowWaits(t)
    BY <1>0, <2>2 DEF BorrowWaits
  <2>3. CASE Made(t)
    BY <1>0, <2>3 DEF Made
  <2>4. CASE ExportFails(t) \/ ConnectFails(t)
    BY <1>0, <2>4 DEF ExportFails, ConnectFails, Idle
  <2>5. CASE Return(t)
    BY <1>0, <2>5 DEF Return
  <2> QED
    BY <2>1, <2>2, <2>3, <2>4, <2>5
<1>3. \A j : Users(j)' = Users(j)
  BY <1>1, <1>2 DEF Users
<1>4. count' = count /\ table' = table /\ misreturned' = misreturned
  BY DEF Ask, BorrowWaits, Made, ExportFails, ConnectFails, Return
<1> QED
  BY <1>1, <1>2, <1>3, <1>4

LEMMA ReturnCount ==
    ASSUME TypeOK, TableOK, CountOK, NEW t \in Borrowers, Returned(t)
    PROVE  CountOK'
<1> USE NoneAssumption DEF TypeOK, ExportTypeOK
<1>a. PICK i, s : i = table[task[t].dc] /\ s = task[t].sender
  OBVIOUS
<1>0. task[t].at = "returning" /\ task[t].dc \in Dcs /\ i \in Senders \cup {None}
  BY <1>a DEF Returned
<1>1. task'[t].at = "idle" /\ \A u \in Borrowers : u # t => task'[u] = task[u]
  BY DEF Returned, Idle
<1>2. /\ \A j : j # s => Users(j)' = Users(j)
      /\ Users(s)' = Users(s) \ {t} /\ t \in Users(s)
  BY <1>a, <1>0, <1>1 DEF Users
<1>3. Cardinality(Users(s)') = Cardinality(Users(s)) - 1
  BY <1>2, UsersFinite, FS_RemoveElement
<1>4. /\ table' = table /\ made' = made
      /\ \A j : Exporting(j)' => Exporting(j)
  BY <1>1 DEF Returned, Exporting
<1>5. /\ \A j \in Senders : j # i => count'[j] = count[j]
      /\ i # None => count'[i] = count[i] - 1
      /\ misreturned' = (misreturned \/ (i # None /\ i # s))
  <2>1. CASE i = None
    BY <1>a, <2>1 DEF Returned
  <2>2. CASE i # None
    <3>1. count' = [count EXCEPT ![i] = count[i] - 1] /\ i \in Senders
      BY <1>a, <1>0, <2>2 DEF Returned
    <3> QED
      BY <1>a, <2>2, <3>1 DEF Returned
  <2> QED
    BY <2>1, <2>2
<1>6. ASSUME NEW j \in Senders, j \notin made' \/ Exporting(j)'
      PROVE  count'[j] = 0 /\ Users(j)' = {}
  <2>1. count[j] = 0 /\ Users(j) = {}
    BY <1>4, <1>6 DEF CountOK
  <2>2. j # s
    BY <1>2, <2>1
  <2>3. j # i
    BY <1>a, <1>0, <1>4, <1>6 DEF TableOK
  <2> QED
    BY <1>2, <1>5, <2>1, <2>2, <2>3
<1>7. ASSUME ~misreturned', NEW e \in Dcs, NEW j \in Senders, table'[e] = j
      PROVE  count'[j] = Cardinality(Users(j)')
  <2>1. count[j] = Cardinality(Users(j)) /\ table[e] = j
    BY <1>4, <1>5, <1>7 DEF CountOK
  <2>2. CASE j = i
    <3>1. j = s /\ i # None
      BY <1>5, <1>7, <2>2
    <3> QED
      BY <1>3, <1>5, <2>1, <2>2, <3>1
  <2>3. CASE j # i
    <3>1. j # s
      BY <1>a, <1>0, <2>1, <2>3 DEF CountOK
    <3> QED
      BY <1>2, <1>5, <2>1, <2>3, <3>1
  <2> QED
    BY <2>2, <2>3
<1>8. ASSUME NEW u \in Borrowers, NEW e \in Dcs, task'[u].at \in {"using", "returning"},
             table'[e] = task'[u].sender, table'[e] # None
      PROVE  e = task'[u].dc
  BY <1>1, <1>4, <1>8 DEF CountOK
<1> QED
  BY <1>6, <1>7, <1>8 DEF CountOK

LEMMA BorrowerCount ==
    ASSUME TypeOK, LockOK, TableOK, TableOK', CountOK,
           NEW t \in Borrowers, BorrowerStep(t)
    PROVE  CountOK'
<1> USE NoneAssumption DEF TypeOK, ExportTypeOK
<1>0. \A u \in Borrowers : u # t => task'[u] = task[u]
  BY OthersStay
<1>1. CASE \/ \E d \in Dcs : Ask(t, d)
           \/ BorrowWaits(t) \/ Made(t) \/ ExportFails(t) \/ ConnectFails(t) \/ Return(t)
  <2>1. /\ \A j : Users(j)' = Users(j)
        /\ count' = count /\ table' = table /\ misreturned' = misreturned
        /\ \A u \in Borrowers : task'[u].at \in {"using", "returning"} =>
              /\ task[u].at \in {"using", "returning"}
              /\ task'[u].sender = task[u].sender
              /\ task'[u].dc = task[u].dc
    BY <1>1, UsersStay
  <2>2. ASSUME NEW j \in Senders, j \notin made' \/ Exporting(j)'
        PROVE  j \notin made \/ Exporting(j)
    <3>1. CASE Made(t)
      <4>1. PICK s \in Senders \ made :
              /\ made' = made \cup {s}
              /\ task' = [task EXCEPT ![t].at = "exporting", ![t].sender = s]
        BY <3>1 DEF Made
      <4>2. task'[t].sender = s
        BY <4>1
      <4> QED
        BY <1>0, <2>2, <4>1, <4>2 DEF Exporting
    <3>2. CASE ~Made(t)
      <4>1. made' = made
        BY <1>1, <3>2 DEF Ask, BorrowWaits, ExportFails, ConnectFails, Return
      <4>2. task'[t].at # "exporting"
        BY <1>1, <3>2 DEF Ask, BorrowWaits, ExportFails, ConnectFails, Return, Idle
      <4> QED
        BY <1>0, <2>2, <4>1, <4>2 DEF Exporting
    <3> QED
      BY <3>1, <3>2
  <2> QED
    BY <2>1, <2>2 DEF CountOK
<1>2. CASE Borrow(t) \/ Connected(t)
  <2>0. PICK i \in Senders : i = table[task[t].dc]
    BY <1>2 DEF Borrow, Connected, TableOK
  <2>1. /\ Lend(t, i)
        /\ task[t].at \in {"asking", "connecting"}
        /\ made' = made /\ misreturned' = misreturned /\ table' = table
    BY <1>2, <2>0 DEF Borrow, Connected
  <2>2. \A s : Exporting(s)' => Exporting(s)
    BY <1>0, <2>1, LendFacts DEF Exporting
  <2> QED
    BY <2>0, <2>1, <2>2, LendCount
<1>3. CASE Exported(t)
  <2>0. PICK i \in Senders : i = task[t].sender
    BY <1>3 DEF Exported, TableOK
  <2>1. /\ Lend(t, i) /\ task[t].at = "exporting" /\ Exporting(i)
        /\ made' = made /\ misreturned' = misreturned
        /\ table' = [table EXCEPT ![task[t].dc] = i]
    BY <1>3, <2>0 DEF Exported, Exporting
  <2>2. \A s : Exporting(s)' => Exporting(s)
    BY <1>0, <2>1, LendFacts DEF Exporting
  <2> QED
    BY <2>1, <2>2, LendCount
<1>4. CASE Returned(t)
  BY <1>4, ReturnCount
<1> QED
  BY <1>1, <1>2, <1>3, <1>4 DEF BorrowerStep, ExportEnds

LEMMA CountStep ==
    ASSUME TypeOK, LockOK, TableOK, TableOK', CountOK, [Next]_vars
    PROVE  CountOK'
<1> USE NoneAssumption DEF TypeOK, ExportTypeOK
<1>1. CASE ClosesEnd
  BY <1>1 DEF ClosesEnd, CloseEnd, CountOK, Users, Exporting
<1>2. CASE Crash
  BY <1>2 DEF Crash, NoSenders, Idle, CountOK, Users, Exporting
<1>3. ASSUME NEW t \in Borrowers, BorrowerStep(t)
      PROVE  CountOK'
  BY <1>3, BorrowerCount
<1>4. CASE UNCHANGED <<table, count, made, task, misreturned>>
  BY <1>4 DEF CountOK, Users, Exporting
<1>5. \/ ClosesEnd \/ Crash \/ UNCHANGED <<table, count, made, task, misreturned>>
      \/ \E t \in Borrowers : BorrowerStep(t)
  BY ExportSteps DEF LeaveStart, CleanCancelled, ClosesStart, CloseStart, ClosesOne,
     CloseOne, KeepaliveLocks, CleanStart, KeepaliveVisits, CleanVisit, CleanMark,
     KeepaliveSaves, CleanEnd, SenderStep, Ages, LinkDrops, exportVars
<1> QED
  BY <1>1, <1>2, <1>3, <1>4, <1>5

LEMMA BorrowerLink ==
    ASSUME TypeOK, LockOK, TableOK, CountOK, LinkOK,
           NEW t \in Borrowers, BorrowerStep(t)
    PROVE  LinkOK'
<1> USE NoneAssumption, HoldersAssumption DEF TypeOK, ExportTypeOK
<1>0. \A u \in Borrowers : u # t => task'[u] = task[u]
  BY OthersStay
<1>a. main' = main /\ closing' = closing
  BY DEF BorrowerStep, lifeVars, ExportEnds, Ask, Borrow, BorrowWaits, Made, Exported,
     ExportFails, Connected, ConnectFails, Return, Returned
<1>1. CASE \/ \E d \in Dcs : Ask(t, d)
           \/ BorrowWaits(t) \/ ExportFails(t) \/ ConnectFails(t) \/ Return(t)
  <2>1. /\ \A j : Users(j)' = Users(j)
        /\ table' = table /\ misreturned' = misreturned
    BY <1>1, UsersStay
  <2>2. flagged' = flagged /\ link' = link /\ task'[t].at # "exporting"
    BY <1>1 DEF Ask, BorrowWaits, ExportFails, ConnectFails, Return, Idle
  <2> QED
    BY <1>0, <1>a, <2>1, <2>2 DEF LinkOK, Exporting
<1>2. CASE Made(t)
  <2>1. /\ \A j : Users(j)' = Users(j)
        /\ table' = table /\ misreturned' = misreturned
    BY <1>2, UsersStay
  <2>2. PICK s \in Senders \ made :
          /\ link' = [link EXCEPT ![s] = "up"]
          /\ task' = [task EXCEPT ![t].at = "exporting", ![t].sender = s]
    BY <1>2 DEF Made
  <2>3. /\ flagged' = flagged /\ link'[s] = "up" /\ task'[t].sender = s
        /\ \A j \in Senders : j # s => link'[j] = link[j]
    BY <1>2, <2>2 DEF Made
  <2>4. \A d \in Dcs : table[d] # s
    BY DEF TableOK
  <2> QED
    BY <1>0, <1>a, <2>1, <2>3, <2>4 DEF LinkOK, Exporting
<1>3. ASSUME NEW i \in Senders, Lend(t, i), task[t].at \notin {"using", "returning"},
             lock \in {None, t}, misreturned' = misreturned,
             \A j \in Senders : j # i => link'[j] = link[j],
             link'[i] # "down" \/ main \notin {"on", "dropped"} \/ misreturned,
             \A j : Exporting(j) /\ link[j] # "down" => link'[j] # "down",
             \A d \in Dcs, j \in Senders : table'[d] = j => j = i \/ table[d] = j
      PROVE  LinkOK'
  <2>1. /\ \A j : j # i => Users(j)' = Users(j)
        /\ task'[t].at = "using"
    BY <1>3, LendFacts
  <2>2. closing = None
    BY <1>3 DEF LockOK
  <2>3. flagged'[i] = TRUE /\ \A j \in Senders : j # i => flagged'[j] = flagged[j]
    BY <1>3 DEF Lend
  <2>4. \A j : Exporting(j)' => Exporting(j)
    BY <1>0, <2>1 DEF Exporting
  <2> QED
    BY <1>a, <1>3, <2>1, <2>2, <2>3, <2>4 DEF LinkOK
<1>4. CASE Borrow(t)
  <2>1. PICK i \in Senders : i = table[task[t].dc] /\ task[t].dc \in Dcs
    BY <1>4 DEF Borrow
  <2>2. /\ Lend(t, i) /\ task[t].at = "asking" /\ lock = None /\ flagged[i] /\ link' = link
        /\ misreturned' = misreturned /\ table' = table
    BY <1>4, <2>1 DEF Borrow
  <2>3. closing = None
    BY <2>2 DEF LockOK
  <2>4. link'[i] # "down" \/ main \notin {"on", "dropped"} \/ misreturned
    BY <2>1, <2>2, <2>3 DEF LinkOK
  <2> QED
    BY <1>3, <2>1, <2>2, <2>4
<1>5. CASE Connected(t)
  <2>1. PICK i \in Senders : i = table[task[t].dc] /\ task[t].dc \in Dcs
    BY <1>5 DEF Connected, TableOK
  <2>2. /\ Lend(t, i) /\ task[t].at = "connecting" /\ link' = [link EXCEPT ![i] = "up"]
        /\ misreturned' = misreturned /\ table' = table
    BY <1>5, <2>1 DEF Connected
  <2>3. lock = t
    BY <2>2 DEF LockOK
  <2>4. link'[i] = "up" /\ \A j \in Senders : j # i => link'[j] = link[j]
    BY <2>2
  <2>5. \A j : Exporting(j) => j \in Senders
    BY DEF Exporting, TableOK
  <2> QED
    BY <1>3, <2>1, <2>2, <2>3, <2>4, <2>5
<1>6. CASE Exported(t)
  <2>1. PICK i \in Senders : i = task[t].sender
    BY <1>6 DEF Exported, TableOK
  <2>2. /\ Lend(t, i) /\ task[t].at = "exporting" /\ link' = link
        /\ misreturned' = misreturned
        /\ table' = [table EXCEPT ![task[t].dc] = i]
    BY <1>6, <2>1 DEF Exported
  <2>3. lock = t /\ Exporting(i)
    BY <2>1, <2>2 DEF LockOK, Exporting
  <2>4. link[i] # "down"
    BY <2>3 DEF LinkOK
  <2> QED
    BY <1>3, <2>2, <2>3, <2>4
<1>7. CASE Returned(t)
  <2>1. task'[t].at = "idle"
    BY <1>7 DEF Returned, Idle
  <2>2. \A j : Users(j)' \subseteq Users(j) /\ (Exporting(j)' => Exporting(j))
    BY <1>0, <2>1 DEF Users, Exporting
  <2>3. flagged' = flagged /\ link' = link /\ table' = table /\ (misreturned => misreturned')
    BY <1>7 DEF Returned
  <2> QED
    BY <1>a, <2>2, <2>3 DEF LinkOK
<1> QED
  BY <1>1, <1>2, <1>4, <1>5, <1>6, <1>7 DEF BorrowerStep, ExportEnds

LEMMA LinkStep ==
    ASSUME TypeOK, LockOK, TableOK, CountOK, LinkOK, [Next]_vars
    PROVE  LinkOK'
<1> USE NoneAssumption, HoldersAssumption DEF TypeOK, ExportTypeOK
<1>1. CASE LeaveStart
  BY <1>1 DEF LeaveStart, CleanCancelled, LinkOK, Exporting
<1>2. CASE ClosesStart
  BY <1>2 DEF ClosesStart, CloseStart, LinkOK, Exporting
<1>3. CASE ClosesEnd
  BY <1>3 DEF ClosesEnd, CloseEnd, LinkOK, Exporting
<1>4. CASE Crash
  BY <1>4 DEF Crash, NoSenders, Idle, LinkOK, Exporting
<1>5. ASSUME NEW d \in Dcs, ClosesOne(d)
      PROVE  LinkOK'
  <2>1. main' = "clearing" /\ task' = task
        /\ \A i \in Senders : i # table[d] => link'[i] = link[i]
    BY <1>5 DEF ClosesOne, CloseOne, lifeVars
  <2>2. ~Exporting(table[d]) \/ table[d] = None
    BY DEF TableOK
  <2> QED
    BY <2>1, <2>2 DEF LinkOK, Exporting
<1>6. CASE KeepaliveLocks
  BY <1>6 DEF KeepaliveLocks, CleanStart, LinkOK, Exporting, Users
<1>7. CASE KeepaliveVisits
  <2>1. main' = main /\ task' = task /\ table' = table /\ misreturned' = misreturned
    BY <1>7 DEF KeepaliveVisits, CleanVisit, CleanMark, lifeVars
  <2>2. \A j : Users(j)' = Users(j) /\ (Exporting(j)' => Exporting(j))
    BY <2>1 DEF Users, Exporting
  <2>3. ASSUME NEW d \in Dcs, CleanVisit(d), ShouldDisconnect(table[d]), table[d] \in Senders
        PROVE  LinkOK'
    <3>1. PICK c \in Senders : c = table[d]
      BY <2>3
    <3>2. /\ closing = None /\ closing' = c /\ link'[c] = "down" /\ flagged' = flagged
          /\ \A i \in Senders : i # c => link'[i] = link[i]
      BY <2>3, <3>1 DEF CleanVisit
    <3>3. ~misreturned => Users(c) = {}
      <4>1. HAVE ~misreturned
      <4>2. Cardinality(Users(c)) = 0
        BY <2>3, <3>1, <4>1 DEF CountOK, ShouldDisconnect
      <4> QED
        BY <4>2, UsersFinite, FS_EmptySet
    <3>4. ~Exporting(c)
      BY <3>1 DEF TableOK
    <3> QED
      BY <2>1, <2>2, <3>2, <3>3, <3>4 DEF LinkOK
  <2>4. ASSUME NEW d \in Dcs, CleanVisit(d), ~(ShouldDisconnect(table[d]) /\ table[d] \in Senders)
        PROVE  LinkOK'
    <3>1. /\ flagged' = flagged /\ closing' = closing
          /\ \A i \in Senders : link'[i] = link[i]
      BY <2>4 DEF CleanVisit
    <3> QED
      BY <2>1, <2>2, <3>1 DEF LinkOK
  <2>5. CASE CleanMark
    <3>1. PICK c \in Senders : c = closing
      BY <2>5 DEF CleanMark
    <3>2. /\ closing' = None /\ link' = link /\ flagged'[c] = FALSE
          /\ \A i \in Senders : i # c => flagged'[i] = flagged[i]
      BY <2>5, <3>1 DEF CleanMark
    <3> QED
      BY <2>1, <2>2, <3>1, <3>2 DEF LinkOK
  <2> QED
    BY <1>7, <2>3, <2>4, <2>5 DEF KeepaliveVisits
<1>8. CASE KeepaliveSaves
  BY <1>8 DEF KeepaliveSaves, CleanEnd, LinkOK, Exporting, Users
<1>9. ASSUME NEW t \in Borrowers, BorrowerStep(t)
      PROVE  LinkOK'
  BY <1>9, BorrowerLink
<1>10. ASSUME NEW i \in Senders, SenderStep(i)
       PROVE  LinkOK'
  <2>1. /\ main' = main /\ task' = task /\ table' = table /\ misreturned' = misreturned
        /\ flagged' = flagged /\ closing' = closing
        /\ \A j \in Senders : link[j] # "down" => link'[j] # "down"
    BY <1>10 DEF SenderStep, Ages, LinkDrops, lifeVars
  <2>2. \A j : Users(j)' = Users(j) /\ (Exporting(j)' => Exporting(j))
    BY <2>1 DEF Users, Exporting
  <2> QED
    BY <2>1, <2>2 DEF LinkOK
<1>11. CASE UNCHANGED exportVars
  <2>1. \/ main' \notin {"on", "dropped"}
        \/ main \in {"on", "dropped"}
        \/ main = "off"
    BY <1>11, HoldersAssumption DEF exportVars, LockOK, Next, vars, lifeVars, Connect, Drop,
       LeaveStart, ClosesStart, ClosesEnd, LeaveEnd, Crash, ClosesOne, KeepaliveWakes,
       KeepaliveLocks, KeepaliveVisits, KeepaliveSaves, FallsSilent, Pong, BorrowerStep,
       SenderStep, UpdateStep, CloseStart, CloseEnd, NoSenders
  <2>2. \A j : Users(j)' = Users(j) /\ (Exporting(j)' => Exporting(j))
    BY <1>11 DEF Users, Exporting, exportVars
  <2>3. main = "off" => \A d \in Dcs : table[d] = None
    BY DEF TableOK
  <2> QED
    BY <1>11, <2>1, <2>2, <2>3 DEF LinkOK, exportVars
<1> QED
  BY <1>1, <1>2, <1>3, <1>4, <1>5, <1>6, <1>7, <1>8, <1>9, <1>10, <1>11, ExportSteps

LEMMA BorrowerLeft ==
    ASSUME TypeOK, LockOK, TableOK, LeftOK, NEW t \in Borrowers, BorrowerStep(t)
    PROVE  LeftOK'
<1> USE NoneAssumption, HoldersAssumption DEF TypeOK, ExportTypeOK
<1>0. \A u \in Borrowers : u # t => task'[u] = task[u]
  BY OthersStay
<1>1. main' = main /\ todo' = todo
  BY DEF BorrowerStep, lifeVars, ExportEnds, Ask, Borrow, BorrowWaits, Made, Exported,
     ExportFails, Connected, ConnectFails, Return, Returned
<1>2. CASE Made(t)
  <2>1. PICK s \in Senders \ made :
          /\ link' = [link EXCEPT ![s] = "up"]
          /\ task' = [task EXCEPT ![t].at = "exporting", ![t].sender = s]
    BY <1>2 DEF Made
  <2>2. /\ task'[t].at = "exporting" /\ task'[t].sender = s /\ task[t].at = "creating"
        /\ table' = table /\ orphans' = orphans
        /\ \A j \in Senders : j # s => link'[j] = link[j]
    BY <1>2, <2>1 DEF Made
  <2>3. Exporting(s)' /\ \A j : Exporting(j) => Exporting(j)'
    BY <1>0, <2>2 DEF Exporting
  <2> QED
    BY <1>1, <2>2, <2>3 DEF LeftOK
<1>3. CASE Exported(t)
  <2>1. PICK i \in Senders : i = task[t].sender
    BY <1>3 DEF Exported, TableOK
  <2>2. /\ task[t].at = "exporting" /\ task[t].dc \in Dcs /\ link' = link /\ orphans' = orphans
        /\ table' = [table EXCEPT ![task[t].dc] = i]
    BY <1>3, <2>1 DEF Exported
  <2>3. main = "on"
    <3>1. Exporting(i)
      BY <2>1, <2>2 DEF Exporting
    <3>2. table[task[t].dc] # i
      BY <2>2, <3>1 DEF TableOK
    <3>3. table' # table
      BY <2>2, <3>2
    <3> QED
      BY <3>3, BorrowerMain
  <2>4. table[task[t].dc] = None
    BY <2>2 DEF TableOK
  <2>5. \A j : Exporting(j) => Exporting(j)' \/ j = i
    BY <1>0, <2>1 DEF Exporting
  <2>6. table'[task[t].dc] = i
        /\ \A d \in Dcs : table[d] # None => table'[d] = table[d]
    BY <2>2, <2>4
  <2> QED
    BY <1>1, <2>2, <2>3, <2>5, <2>6 DEF LeftOK
<1>4. CASE ExportFails(t)
  <2>1. PICK i \in Senders : i = task[t].sender
    BY <1>4 DEF ExportFails, TableOK
  <2>2. table' = table /\ link' = link /\ orphans' = orphans \cup {i}
    BY <1>4, <2>1 DEF ExportFails
  <2>3. \A j : Exporting(j) => Exporting(j)' \/ j = i
    BY <1>0, <2>1 DEF Exporting
  <2> QED
    BY <1>1, <2>2, <2>3 DEF LeftOK
<1>5. CASE Connected(t)
  <2>1. PICK i \in Senders : i = table[task[t].dc] /\ task[t].dc \in Dcs
    BY <1>5 DEF Connected, TableOK
  <2>2. /\ task[t].at = "connecting" /\ orphans' = orphans /\ table' = table
        /\ \A j \in Senders : j # i => link'[j] = link[j]
    BY <1>5, <2>1 DEF Connected
  <2>3. main \notin {"off", "cleared", "clearing"}
    <3>1. lock = t
      BY <2>2 DEF LockOK
    <3>2. lock # "disconnect"
      BY <3>1
    <3> QED
      BY <2>1, <3>2 DEF TableOK, LockOK
  <2>4. \A j : Exporting(j) => Exporting(j)'
    BY <1>0, <2>2 DEF Exporting
  <2> QED
    BY <1>1, <2>1, <2>2, <2>3, <2>4 DEF LeftOK
<1>6. CASE \/ \E d \in Dcs : Ask(t, d)
           \/ Borrow(t) \/ BorrowWaits(t) \/ ConnectFails(t) \/ Return(t) \/ Returned(t)
  <2>1. link' = link /\ orphans' = orphans /\ table' = table /\ task[t].at # "exporting"
    BY <1>6 DEF Ask, Borrow, BorrowWaits, ConnectFails, Return, Returned
  <2>2. \A j : Exporting(j) => Exporting(j)'
    BY <1>0, <2>1 DEF Exporting
  <2> QED
    BY <1>1, <2>1, <2>2 DEF LeftOK
<1> QED
  BY <1>2, <1>3, <1>4, <1>5, <1>6 DEF BorrowerStep, ExportEnds

LEMMA LeftStep ==
    ASSUME TypeOK, LockOK, TableOK, LeftOK, [Next]_vars
    PROVE  LeftOK'
<1> USE NoneAssumption, HoldersAssumption DEF TypeOK, ExportTypeOK
<1>1. CASE LeaveStart
  BY <1>1 DEF LeaveStart, CleanCancelled, LeftOK, Exporting
<1>2. CASE ClosesStart
  BY <1>2 DEF ClosesStart, CloseStart, LeftOK, Exporting
<1>3. CASE ClosesEnd
  BY <1>3 DEF ClosesEnd, CloseEnd, LeftOK, Exporting
<1>4. CASE Crash
  BY <1>4 DEF Crash, NoSenders, LeftOK
<1>5. ASSUME NEW d \in Dcs, ClosesOne(d)
      PROVE  LeftOK'
  <2>1. /\ main' = main /\ task' = task /\ table' = table /\ orphans' = orphans
        /\ todo' = todo \ {d} /\ link' = [link EXCEPT ![table[d]] = "down"]
    BY <1>5 DEF ClosesOne, CloseOne, lifeVars
  <2>2. \A i \in Senders : link'[i] = "up" => link[i] = "up" /\ i # table[d]
    BY <2>1
  <2>3. \A i : Exporting(i) => Exporting(i)'
    BY <2>1 DEF Exporting
  <2> QED
    BY <2>1, <2>2, <2>3 DEF LeftOK
<1>6. CASE KeepaliveLocks
  BY <1>6 DEF KeepaliveLocks, CleanStart, LeftOK, Exporting, LockOK
<1>7. CASE KeepaliveVisits
  <2>1. /\ main' = main /\ task' = task /\ table' = table /\ orphans' = orphans
        /\ \A i \in Senders : link'[i] = "up" => link[i] = "up"
        /\ main # "clearing"
    BY <1>7 DEF KeepaliveVisits, CleanVisit, CleanMark, lifeVars, LockOK
  <2>2. \A i : Exporting(i) => Exporting(i)'
    BY <2>1 DEF Exporting
  <2> QED
    BY <2>1, <2>2 DEF LeftOK
<1>8. CASE KeepaliveSaves
  BY <1>8 DEF KeepaliveSaves, CleanEnd, LeftOK, Exporting
<1>9. ASSUME NEW t \in Borrowers, BorrowerStep(t)
      PROVE  LeftOK'
  BY <1>9, BorrowerLeft
<1>10. ASSUME NEW i \in Senders, SenderStep(i)
       PROVE  LeftOK'
  BY <1>10 DEF SenderStep, Ages, LinkDrops, lifeVars, LeftOK, Exporting
<1>11. CASE UNCHANGED exportVars
  <2>1. \/ main' \in {"on", "dropped", "leaving"}
        \/ main' = main
        \/ \A d \in Dcs : table[d] = None
    BY <1>11 DEF exportVars, LockOK, TableOK, Next, vars, lifeVars, Connect, Drop,
       LeaveStart, ClosesStart, ClosesEnd, LeaveEnd, Crash, ClosesOne, KeepaliveWakes,
       KeepaliveLocks, KeepaliveVisits, KeepaliveSaves, FallsSilent, Pong, BorrowerStep,
       SenderStep, UpdateStep, CloseStart, CloseEnd, NoSenders
  <2>2. \A j : Exporting(j) => Exporting(j)'
    BY <1>11 DEF Exporting, exportVars
  <2> QED
    BY <1>11, <2>1, <2>2 DEF LeftOK, exportVars
<1> QED
  BY <1>1, <1>2, <1>3, <1>4, <1>5, <1>6, <1>7, <1>8, <1>9, <1>10, <1>11, ExportSteps

-----------------------------------------------------------------------------
(* The inductive invariant, and what follows from it.                       *)

IInv ==
    /\ TypeOK /\ PositionsOK /\ CoverOK /\ AgainOK
    /\ LockOK /\ TableOK /\ CountOK /\ LinkOK /\ LeftOK

LEMMA InitInv ==
    ASSUME Init
    PROVE  IInv
<1> USE NoneAssumption, HoldersAssumption, MaxEventsAssumption, ConnectsAssumption,
        CrashesAssumption
    DEF Init, ExportInit, SavedInit
<1>1. SavedTypeOK
  <2>1. catchUp \in CatchUps /\ loop \in BOOLEAN
    OBVIOUS
  <2>2. /\ log \in 1..MaxEvents /\ pos \in 0..log /\ strays \in Nat
        /\ written \in 0..log /\ committed \in 0..log
    BY DEF Events
  <2>3. /\ running \subseteq given /\ given \subseteq 1..log /\ twice \subseteq given
        /\ finished \subseteq given /\ exposed \subseteq 1..log
        /\ jumped \subseteq 1..log /\ reset \subseteq 1..log
    OBVIOUS
  <2> QED
    BY <2>1, <2>2, <2>3 DEF SavedTypeOK
<1>2. ExportTypeOK
  <2>1. task \in [Borrowers -> Task] /\ \A t \in Borrowers : task[t].at = "idle"
    BY DEF Idle, Task, Stages
  <2>2. flagged \in [Senders -> BOOLEAN] /\ old \in [Senders -> BOOLEAN]
    OBVIOUS
  <2>3. table \in [Dcs -> Senders \cup {None}] /\ count \in [Senders -> Int]
        /\ link \in [Senders -> {"down", "up", "lost"}]
    OBVIOUS
  <2>4. made \subseteq Senders /\ orphans \subseteq made /\ todo \subseteq Dcs
    OBVIOUS
  <2>5. lock \in Borrowers \cup {None, "keepalive", "disconnect"}
        /\ closing \in Senders \cup {None}
    OBVIOUS
  <2>6. misreturned \in BOOLEAN
    OBVIOUS
  <2> QED
    BY <2>1, <2>2, <2>3, <2>4, <2>5, <2>6 DEF ExportTypeOK, Task
<1>3. TypeOK
  <2>1. silent \in BOOLEAN /\ ping \in BOOLEAN
    OBVIOUS
  <2>2. connects \in 0..MaxConnects /\ crashes \in 0..MaxCrashes
    OBVIOUS
  <2>3. /\ main \in {"off", "on", "dropped", "leaving", "clearing", "cleared"}
        /\ keepalive \in {"off", "sleeping", "asking", "cleaning"}
    OBVIOUS
  <2> QED
    BY <1>1, <1>2, <2>1, <2>2, <2>3 DEF TypeOK
<1>4. PositionsOK /\ CoverOK /\ AgainOK
  BY DEF PositionsOK, CoverOK, AgainOK, LoopRuns, OnlyExposedLost, TwiceOnlyAfterReset
<1>5. \A i : ~Exporting(i) /\ Users(i) = {}
  BY DEF Exporting, Users, Idle
<1>6. LockOK /\ TableOK
  BY <1>5 DEF LockOK, TableOK, Idle
<1>7. CountOK /\ LinkOK /\ LeftOK
  BY <1>5 DEF CountOK, LinkOK, LeftOK, Idle
<1> QED
  BY <1>3, <1>4, <1>6, <1>7 DEF IInv

LEMMA LifeTypeStep ==
    ASSUME TypeOK, [Next]_vars
    PROVE  /\ main' \in {"off", "on", "dropped", "leaving", "clearing", "cleared"}
           /\ keepalive' \in {"off", "sleeping", "asking", "cleaning"}
           /\ silent' \in BOOLEAN /\ ping' \in BOOLEAN
           /\ connects' \in 0..MaxConnects /\ crashes' \in 0..MaxCrashes
<1> USE ConnectsAssumption, CrashesAssumption
    DEF TypeOK, Next, vars, lifeVars, Connect, Drop, LeaveStart, ClosesStart, ClosesEnd,
        LeaveEnd, Crash, ClosesOne, KeepaliveWakes, KeepaliveLocks, KeepaliveVisits,
        KeepaliveSaves, FallsSilent, Pong, BorrowerStep, SenderStep, UpdateStep, Heard, Pings
<1>1. main' \in {"off", "on", "dropped", "leaving", "clearing", "cleared"}
  OBVIOUS
<1>2. keepalive' \in {"off", "sleeping", "asking", "cleaning"}
  OBVIOUS
<1>3. silent' \in BOOLEAN
  OBVIOUS
<1>4. ping' \in BOOLEAN
  OBVIOUS
<1>5. connects' \in 0..MaxConnects
  OBVIOUS
<1>6. crashes' \in 0..MaxCrashes
  OBVIOUS
<1> QED
  BY <1>1, <1>2, <1>3, <1>4, <1>5, <1>6

LEMMA InvStep ==
    ASSUME IInv, [Next]_vars
    PROVE  IInv'
<1> USE DEF IInv
<1>1. SavedTypeOK /\ ExportTypeOK
  BY DEF TypeOK
<1>2. TypeOK'
  BY <1>1, SavedTypeStep, ExportTypeStep, LifeTypeStep DEF TypeOK
<1>3. PositionsOK' /\ CoverOK' /\ AgainOK'
  BY <1>1, PositionsStep, CoverStep, AgainStep
<1>4. LockOK' /\ TableOK'
  BY LockStep, TableStep
<1> QED
  BY <1>2, <1>3, <1>4, CountStep, LinkStep, LeftStep

LEMMA Invariance == Spec => []IInv
BY InitInv, InvStep, PTL DEF Spec

(* Every variable of the client keeps its type: connect, _disconnect_coro,  *)
(* the borrowed senders and the saved position.                             *)
THEOREM TypeCorrect == Spec => []TypeOK
BY Invariance, PTL DEF IInv

(* However connects, disconnects, saves and crashes interleave with the     *)
(* update loop, an update the position has passed is handled, in hand, or   *)
(* one of those the code exposes.                                           *)
THEOREM NothingElseLost == Spec => []OnlyExposedLost
BY Invariance, PTL DEF IInv, CoverOK

(* No update reaches the handlers twice unless the position was set back    *)
(* behind it (connect with catch_up, a crash).                              *)
THEOREM NothingElseTwice == Spec => []TwiceOnlyAfterReset
BY Invariance, PTL DEF IInv, AgainOK

(* The position in the session and the one committed go forward, but for    *)
(* the zeros of a client that knows no position, and a crash.               *)
THEOREM NeverSavedBack == Spec => SavedForward
<1>1. IInv /\ [Next]_vars =>
        [/\ committed' < committed => main = "cleared" /\ pos = 0
         /\ written' < written => \/ main = "cleared" /\ pos = 0
                                 \/ crashes' > crashes]_vars
  BY ForwardStep DEF Forward, IInv
<1> QED
  BY <1>1, Invariance, PTL DEF Spec, SavedForward

(* A sender is counted as often as it is lent, and nobody disconnects one   *)
(* that is lent while the client is connected (_ExportState, the lock).     *)
THEOREM CountedAndKept == Spec => []Lent
<1>1. IInv => Lent
  <2> SUFFICES ASSUME IInv, ~misreturned, NEW d \in Dcs, table[d] # None
               PROVE  /\ count[table[d]] = Cardinality(Users(table[d]))
                      /\ Users(table[d]) # {} /\ main \in {"on", "dropped"}
                            => flagged[table[d]] /\ link[table[d]] # "down"
    BY DEF Lent
  <2>1. table[d] \in Senders
    BY DEF IInv, TypeOK, ExportTypeOK
  <2> QED
    BY <2>1 DEF IInv, CountOK, LinkOK
<1> QED
  BY <1>1, Invariance, PTL

(* A client that was disconnected has no connected sender left but the      *)
(* orphans of failed authorizations (_disconnect_coro).                     *)
THEOREM NothingLeftOpen == Spec => []LeftClean
<1>1. IInv => LeftClean
  BY DEF IInv, LeftOK, LeftClean, Exporting
<1> QED
  BY <1>1, Invariance, PTL
=============================================================================
