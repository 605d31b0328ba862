------------------------------- MODULE Registry -------------------------------
(***************************************************************************)
(* The modules a client has loaded, the commands, watchers and raw handlers *)
(* they have registered, and the collector that rebuilds the registrations. *)
(* Translated from class Modules and class InfiniteLoop of                  *)
(* src/boka/loader.py and load_module of src/boka/modules/loader.py.        *)
(*                                                                         *)
(* Two versions of a module are two instances of a class of one name.  The  *)
(* first state is the one in which send_ready has started client_ready of   *)
(* the core and of the modules from files.  The core is protected           *)
(* (remove_core_protection is off).  Aliases, inline and bot handlers,      *)
(* togglemod and the reload of the core are left out.                       *)
(***************************************************************************)
EXTENDS Integers, SequencesExt

CONSTANTS
    Mods,       \* instances of modules
    Core,       \* those of the core
    Files,      \* and those from files, loaded at start-up too
    Classes,    \* names of classes and modules
    ClassOf,    \* the class of an instance
    NameOf,     \* name: what its module calls itself
    Names,      \* names of commands
    Commands,   \* boka_commands: the names of an instance, in order
    Watchers,   \* how many watchers an instance has
    RawHandlers,\* and how many raw handlers
    Looping,    \* instances with a loop that starts by itself
    Unloads,    \* bound of the model: unload commands
    MaxLoads,   \* bound of the model: instances loaded, those of the start included
    None

ASSUME ModsAssumption ==
    /\ Core \subseteq Mods /\ IsFiniteSet(Core)
    /\ Files \subseteq Mods \ Core /\ IsFiniteSet(Files)
    /\ Looping \subseteq Mods
    /\ None \notin Mods
ASSUME ClassAssumption ==
    /\ ClassOf \in [Mods -> Classes]
    /\ NameOf \in [Mods -> Classes]
    /\ \A m, n \in Core \cup Files : ClassOf[m] = ClassOf[n] => m = n
ASSUME CommandsAssumption ==
    /\ Commands \in [Mods -> Seq(Names)]
    /\ Watchers \in [Mods -> Nat]
    /\ RawHandlers \in [Mods -> Nat]
ASSUME UnloadsAssumption == Unloads \cap Mods = {}

\* A load is the task of its instance.
Tasks == Mods \cup Unloads

VARIABLES
    modules,    \* Modules.modules
    coreCommands, \* Modules._core_commands
    commands,   \* Modules.commands
    watchers,   \* Modules.watchers, each as the instance it is bound to
    raw,        \* dispatcher.raw_handlers, likewise
    running,    \* instances whose loop runs
    stage,      \* how far the registration of an instance has come
    task,       \* where a task awaits on_unload in the midst of its iteration
    early,      \* history: commands an instance had registered before the core had
    late,       \* history: instances that became ready out of modules, and were
                \* not unloaded thereafter
    unloaded,   \* history: instances unload_module is through with
    raised      \* history: instances whose on_unload raised when unloaded

registered == <<commands, watchers, raw>>
histories == <<early, late, unloaded, raised>>
vars == <<modules, coreCommands, registered, running, stage, task, histories>>

Stages == {"new", "waiting", "ready", "suspended", "refused", "gone"}
Idle == [at |-> "idle", class |-> None, pos |-> 0, victim |-> None]

TypeOK ==
    /\ modules \in Seq(Mods)
    /\ coreCommands \subseteq Names
    /\ commands \in [Names -> Mods \cup {None}]
    /\ watchers \in Seq(Mods)
    /\ raw \in Seq(Mods)
    /\ running \subseteq Looping
    /\ stage \in [Mods -> Stages]
    /\ task \in [Tasks -> [at : {"idle", "overtaking", "unloading", "done"},
                           class : Classes \cup {None}, pos : Nat,
                           victim : Mods \cup {None}]]
    /\ early \in [Mods -> SUBSET Names]
    /\ late \subseteq Mods
    /\ unloaded \subseteq Mods
    /\ raised \subseteq Mods

-----------------------------------------------------------------------------
(* The collections.                                                         *)

Loaded(m) == \E i \in 1..Len(modules) : modules[i] = m

Copies(m, n) == [i \in 1..n |-> m]

\* list.remove, of an element that is there.
Without(list, m) == RemoveAt(list, CHOOSE i \in 1..Len(list) : list[i] = m)

\* What list.remove leaves, called for the elements at these positions.
Kept(list, removed) ==
    FlattenSeq([i \in 1..Len(list) |-> IF i \in removed THEN <<>> ELSE <<list[i]>>])

\* `for h in list: if ...: list.remove(h)`: the iteration skips the element
\* behind one it has removed.
Skimmed(list, class) ==
    LET hit[i \in 0..Len(list)] == i # 0 /\ ClassOf[list[i]] = class /\ ~hit[i - 1]
    IN  Kept(list, {i \in 1..Len(list) : hit[i]})

\* Mutant: the copy is forgotten.
FilteredInPlace(list, class) == Skimmed(list, class)

\* `for w in list.copy(): if ...: list.remove(w)` skips nothing.
Filtered(list, class) == Kept(list, {i \in 1..Len(list) : ClassOf[list[i]] = class})

\* unregister_commands.
Unregistered(class) ==
    [n \in Names |-> IF commands[n] \in Mods /\ ClassOf[commands[n]] = class
                     THEN None ELSE commands[n]]

\* What _junk_collector makes of the modules: the last one has a command.
Collected(list) ==
    [n \in Names |->
        LET holders == {i \in 1..Len(list) : n \in ToSet(Commands[list[i]])}
        IN  IF holders = {} THEN None ELSE list[Max(holders)]]
Watching(list) ==
    FlattenSeq([i \in 1..Len(list) |-> Copies(list[i], Watchers[list[i]])])

Init ==
    /\ modules = SetToSeq(Core) \o SetToSeq(Files)
    /\ coreCommands = {}
    /\ commands = [n \in Names |-> None]
    /\ watchers = <<>>
    /\ raw = <<>>
    /\ running = {}
    /\ stage = [m \in Mods |-> IF m \in Core \cup Files THEN "waiting" ELSE "new"]
    /\ task = [t \in Tasks |-> Idle]
    /\ early = [m \in Mods |-> {}]
    /\ late = {}
    /\ unloaded = {}
    /\ raised = {}

-----------------------------------------------------------------------------
(* complete_registration: instances of the class are unloaded and removed,  *)
(* one after the other, and the instance is appended.                       *)

\* The next element from pos on that is one of those; 0 for none.
NextOf(list, those, pos) ==
    LET found == {i \in pos..Len(list) : list[i] \in those}
    IN  IF found = {} THEN 0 ELSE Min(found)

Versions(m) == {n \in Mods : ClassOf[n] = ClassOf[m]}

Scan(m, list, pos) ==
    LET i == NextOf(list, Versions(m), pos)
    IN  \/ /\ i = 0
           /\ modules' = Append(list, m)
           /\ stage' = [stage EXCEPT ![m] = "waiting"]
           /\ task' = [task EXCEPT ![m] = Idle]
        \/ /\ i # 0
           /\ list[i] \in Core                      \* CoreOverwriteError
           /\ modules' = list
           /\ stage' = [stage EXCEPT ![m] = "gone"]
           /\ task' = [task EXCEPT ![m] = Idle]
        \/ /\ i # 0
           /\ list[i] \notin Core
           /\ modules' = list
           /\ task' = [task EXCEPT ![m] = [at |-> "overtaking", class |-> ClassOf[m],
                                           pos |-> i + 1, victim |-> list[i]]]
           /\ UNCHANGED stage

Started == {m \in Mods : stage[m] # "new" \/ task[m].at = "overtaking"}

Load(m) ==
    /\ stage[m] = "new"
    /\ task[m].at = "idle"
    /\ Cardinality(Started) < MaxLoads
    /\ Scan(m, modules, 1)
    /\ UNCHANGED <<coreCommands, registered, running, histories>>

\* Mutant: a victim that has left meanwhile is no error.
OvertakeAnyway(m) ==
    LET v == task[m].victim
    IN  /\ task[m].at = "overtaking"
        /\ Scan(m, IF Loaded(v) THEN Without(modules, v) ELSE modules, task[m].pos)
        /\ running' = running \ {v}
        /\ UNCHANGED <<coreCommands, registered, histories>>

\* on_unload of the victim returns; the iteration goes on behind it.
Overtake(m) ==
    LET v == task[m].victim
    IN  /\ task[m].at = "overtaking"
        /\ Loaded(v)
        /\ Scan(m, Without(modules, v), task[m].pos)
        /\ running' = running \ {v}
        /\ UNCHANGED <<coreCommands, registered, histories>>

\* The victim has left meanwhile (ValueError), or its on_unload raises.
OvertakeFails(m) ==
    /\ task[m].at = "overtaking"
    /\ stage' = [stage EXCEPT ![m] = "gone"]
    /\ task' = [task EXCEPT ![m] = Idle]
    /\ UNCHANGED <<modules, coreCommands, registered, running, histories>>

-----------------------------------------------------------------------------
(* send_ready_one: client_ready of the instance returns or raises.          *)

\* Mutant: a core command may be registered again.
RefusedAtNone(m) == 0

\* register_commands stops at a command a module of the core has registered.
RefusedAt(m) ==
    LET found == {i \in 1..Len(Commands[m]) : Commands[m][i] \in coreCommands}
    IN  IF m \in Core \/ found = {} THEN 0 ELSE Min(found)

Enabled(m) ==
    LET upto == IF RefusedAt(m) = 0 THEN Len(Commands[m]) ELSE RefusedAt(m) - 1
    IN  {Commands[m][i] : i \in 1..upto}

\* Mutant: loops are started whether they start by themselves or not.
AutostartedAll(m) == {m}

Autostarted(m) == {m} \cap Looping

Ready(m) ==
    /\ stage[m] = "waiting"
    /\ task[m].at = "idle"
    /\ running' = running \cup Autostarted(m)
    /\ coreCommands' = coreCommands \cup (IF m \in Core THEN ToSet(Commands[m]) ELSE {})
    /\ early' = [early EXCEPT ![m] = Enabled(m) \ coreCommands]
    /\ late' = late \cup (IF Loaded(m) THEN {} ELSE {m})
    /\ commands' = [n \in Names |-> IF n \in Enabled(m) THEN m
                                    ELSE Unregistered(ClassOf[m])[n]]
    /\ IF RefusedAt(m) = 0
       THEN /\ stage' = [stage EXCEPT ![m] = "ready"]
            /\ watchers' = Skimmed(watchers, ClassOf[m]) \o Copies(m, Watchers[m])
            /\ raw' = Skimmed(raw, ClassOf[m]) \o Copies(m, RawHandlers[m])
            /\ UNCHANGED modules
       ELSE /\ stage' = [stage EXCEPT ![m] = "refused"]
            /\ raw' = Skimmed(raw, ClassOf[m])
            /\ modules' = IF Loaded(m) THEN Without(modules, m) ELSE modules
            /\ UNCHANGED watchers
    /\ UNCHANGED <<task, unloaded, raised>>

\* SelfSuspend.
Suspend(m) ==
    /\ stage[m] = "waiting"
    /\ task[m].at = "idle"
    /\ stage' = [stage EXCEPT ![m] = "suspended"]
    /\ UNCHANGED <<modules, coreCommands, registered, running, task, histories>>

\* Another exception: of a load, none of those below; at start-up, any.
Fail(m) ==
    /\ stage[m] = "waiting"
    /\ task[m].at = "idle"
    /\ stage' = [stage EXCEPT ![m] = "gone"]
    /\ modules' = IF Loaded(m) THEN Without(modules, m) ELSE modules
    /\ UNCHANGED <<coreCommands, registered, running, task, histories>>

-----------------------------------------------------------------------------
(* unload_module: by an unload command, or by the load of an instance whose *)
(* client_ready raised SelfUnload, LoadError or ScamDetectionError.         *)

\* unload_module returns or raises; a load then removes its own instance.
Leave(t, list) ==
    /\ modules' = IF t \in Mods /\ \E i \in 1..Len(list) : list[i] = t
                  THEN Without(list, t) ELSE list
    /\ task' = [task EXCEPT ![t] = [Idle EXCEPT !.at = "done"]]

Called(name) == {m \in Mods : name \in {NameOf[m], ClassOf[m]}}

UnloadNext(t, name, list, pos) ==
    LET i == NextOf(list, Called(name), pos)
        through == IF i = 0 THEN TRUE ELSE list[i] \in Core    \* CoreUnloadError
    IN  \/ /\ through
           /\ Leave(t, list)
        \/ /\ ~through
           /\ modules' = Without(list, list[i])
           /\ task' = [task EXCEPT ![t] = [at |-> "unloading", class |-> name,
                                           pos |-> i + 1, victim |-> list[i]]]

\* A command to unload a module that is there.
Unload(t, name) ==
    /\ task[t].at = "idle"
    /\ NextOf(modules, Called(name), 1) # 0
    /\ UnloadNext(t, name, modules, 1)
    /\ UNCHANGED <<coreCommands, registered, running, stage, histories>>

\* The instance a load has, when its client_ready raises one of the three.
\* send_ready_one removes it on the last two, and raises ValueError if it is gone.
Withdraw(m, list) ==
    /\ stage[m] = "waiting" /\ m \notin Core \cup Files
    /\ task[m].at = "idle"
    /\ stage' = [stage EXCEPT ![m] = "gone"]
    /\ UnloadNext(m, ClassOf[m], list, 1)
    /\ UNCHANGED <<coreCommands, registered, running, histories>>

SelfUnload(m) == Withdraw(m, modules)

FailChecks(m) == Loaded(m) /\ Withdraw(m, Without(modules, m))

\* Mutant: the loops are left alone.
UnloadedWithoutLoops(t) ==
    LET v == task[t].victim
    IN  /\ task[t].at = "unloading"
        /\ raw' = Skimmed(raw, ClassOf[v])
        /\ commands' = Unregistered(ClassOf[v])
        /\ watchers' = Filtered(watchers, ClassOf[v])
        /\ unloaded' = unloaded \cup {v}
        /\ late' = late \ {v}
        /\ UnloadNext(t, task[t].class, modules, task[t].pos)
        /\ UNCHANGED <<coreCommands, running, stage, early, raised>>

\* on_unload of the victim returns.
Unloaded(t) ==
    LET v == task[t].victim
    IN  /\ task[t].at = "unloading"
        /\ raw' = Skimmed(raw, ClassOf[v])
        /\ running' = running \ {v}
        /\ commands' = Unregistered(ClassOf[v])
        /\ watchers' = Filtered(watchers, ClassOf[v])
        /\ unloaded' = unloaded \cup {v}
        /\ late' = late \ {v}
        /\ UnloadNext(t, task[t].class, modules, task[t].pos)
        /\ UNCHANGED <<coreCommands, stage, early, raised>>

UnloadFails(t) ==
    /\ task[t].at = "unloading"
    /\ raised' = raised \cup {task[t].victim}
    /\ Leave(t, modules)
    /\ UNCHANGED <<coreCommands, registered, running, stage, early, late, unloaded>>

-----------------------------------------------------------------------------
(* The collector.                                                           *)

\* Mutant: what is registered stays unless a module has it.
CollectMore ==
    /\ commands' = [n \in Names |-> IF Collected(modules)[n] = None THEN commands[n]
                                    ELSE Collected(modules)[n]]
    /\ watchers' = Watching(modules)
    /\ UNCHANGED <<modules, coreCommands, raw, running, stage, task, histories>>

\* Every 30 seconds.
Collect ==
    /\ commands' = Collected(modules)
    /\ watchers' = Watching(modules)
    /\ UNCHANGED <<modules, coreCommands, raw, running, stage, task, histories>>

Next ==
    \/ \E m \in Mods : Load(m) \/ Overtake(m) \/ OvertakeFails(m)
    \/ \E m \in Mods : Ready(m) \/ Suspend(m) \/ Fail(m)
    \/ \E m \in Mods : SelfUnload(m) \/ FailChecks(m)
    \/ \E t \in Unloads : \E name \in Classes : Unload(t, name)
    \/ \E t \in Tasks : Unloaded(t) \/ UnloadFails(t)
    \/ Collect

Spec == Init /\ [][Next]_vars

\* The collector sleeps and goes on for ever.
FairSpec == Spec /\ WF_vars(Collect)

-----------------------------------------------------------------------------
(* Properties.                                                              *)

\* Never are two versions of a module loaded, however loads and unloads
\* interleave at the on_unload they await: complete_registration removes what
\* it has found before it appends, and fails when another task was faster.
OneOfEach ==
    \A i, j \in 1..Len(modules) :
        ClassOf[modules[i]] = ClassOf[modules[j]] => i = j

\* The loop of an instance that is out of modules runs in four cases only: its
\* unload still awaits on_unload, its on_unload raised, it was overtaken or
\* unloaded before client_ready returned (send_ready_one then starts the loops all
\* the same), or register_commands has refused it (after its loops were started).
LoopsLeft ==
    \A m \in running :
        \/ Loaded(m)
        \/ \E t \in Tasks : task[t].at = "unloading" /\ task[t].victim = m
        \/ m \in raised
        \/ m \in late
        \/ stage[m] = "refused"

\* A command that a module of the core has registered runs a module of the core,
\* or for a while nothing.  Only two kinds of instances can stand in for it, by
\* the collector, which asks nobody: one that register_commands has never seen
\* (waiting, suspended, or failed), and one that it accepted with that command
\* before the module of the core was ready, as _core_commands did not have it yet.
CoreKept ==
    \A n \in coreCommands :
        commands[n] \in Mods \ Core =>
            \/ stage[commands[n]] \in {"waiting", "suspended", "gone"}
            \/ stage[commands[n]] = "ready" /\ n \in early[commands[n]]

\* Whatever was loaded, overtaken, refused and unloaded, in the end every
\* command and watcher is one of the modules that are loaded, and every module
\* that is loaded has its watchers and its commands, unless a later one has
\* them (the collector is there "to prevent zombie handlers").
Settles == <>[](commands = Collected(modules) /\ watchers = Watching(modules))

\* Once unload_module is through with an instance no command, no watcher and no
\* loop of it is left, and none comes back, neither by the collector nor by an
\* unload, a load or an update of another version.  Only its own load can bring
\* them back: when its client_ready returns after unload_module is through (late),
\* send_ready_one registers everything and starts the loops.
StuffRemoved ==
    \A m \in unloaded \ late :
        /\ m \notin ToSet(watchers) \cup running
        /\ \A n \in Names : commands[n] # m

\* "Remove module and all stuff from it": once unload_module is through with an
\* instance nothing is registered for it, unless its client_ready returns only then.
\* Violated: of two raw handlers the iteration skips the second.
AllStuffRemoved ==
    \A m \in unloaded \ late :
        /\ m \notin ToSet(raw) \cup ToSet(watchers) \cup running
        /\ \A n \in Names : commands[n] # m
=============================================================================
