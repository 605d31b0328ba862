-------------------------- MODULE ExportedSenders --------------------------
(***************************************************************************)
(* The senders a client keeps for other data centers: tasks borrow and      *)
(* return them, the keepalive disconnects the ones nobody has used for a    *)
(* minute, disconnect closes them all.  Everybody does so under one lock,   *)
(* and awaits while holding it.                                             *)
(* Translated from src/boka_tl/client/telegrambaseclient.py.                *)
(*                                                                         *)
(* A sender and its _ExportState are made together and are one object here. *)
(* The module is open: Client says when its actions may happen.             *)
(***************************************************************************)
EXTENDS Integers, FiniteSets

CONSTANTS
    Dcs,        \* data centers
    Borrowers,  \* tasks that borrow
    Senders,    \* identities of senders; bound of the model
    None

ASSUME NoneAssumption == None \notin Senders \cup Dcs
ASSUME HoldersAssumption ==
    /\ None \notin Borrowers
    /\ \A h \in Borrowers \cup {None} : h \notin {"keepalive", "disconnect"}
ASSUME BorrowersAssumption == IsFiniteSet(Borrowers)

VARIABLES
    table,      \* _borrowed_senders
    count,      \* _n of the state of a sender
    flagged,    \* its _connected
    old,        \* has _zero_ts passed a minute ago
    link,       \* the sender itself: connected, not, or given up by itself
    made,       \* senders that exist
    orphans,    \* connected, but their creation failed afterwards
    lock,       \* _borrow_sender_lock: who holds it
    todo,       \* what the loop under the lock has not visited
    closing,    \* the sender the keepalive is disconnecting
    task,       \* what each borrower does, for which data center, with which sender
    misreturned \* history: a return reached the state of another sender

exportVars == <<table, count, flagged, old, link, made, orphans, lock, todo,
                closing, task, misreturned>>

Stages == {"idle", "asking", "creating", "exporting", "connecting", "using", "returning"}
Idle == [at |-> "idle", dc |-> None, sender |-> None]

ExportTypeOK ==
    /\ table \in [Dcs -> Senders \cup {None}]
    /\ count \in [Senders -> Int]
    /\ flagged \in [Senders -> BOOLEAN]
    /\ old \in [Senders -> BOOLEAN]
    /\ link \in [Senders -> {"down", "up", "lost"}]
    /\ made \subseteq Senders
    /\ orphans \subseteq made
    /\ lock \in Borrowers \cup {None, "keepalive", "disconnect"}
    /\ todo \subseteq Dcs
    /\ closing \in Senders \cup {None}
    /\ task \in [Borrowers -> [at : Stages, dc : Dcs \cup {None},
                               sender : Senders \cup {None}]]
    /\ \A t \in Borrowers : task[t].at # "idle" => task[t].dc \in Dcs
    /\ misreturned \in BOOLEAN

NoSenders ==
    /\ table' = [d \in Dcs |-> None]
    /\ count' = [i \in Senders |-> 0]
    /\ flagged' = [i \in Senders |-> FALSE]
    /\ old' = [i \in Senders |-> FALSE]
    /\ link' = [i \in Senders |-> "down"]
    /\ made' = {}
    /\ orphans' = {}
    /\ lock' = None
    /\ todo' = {}
    /\ closing' = None
    /\ task' = [t \in Borrowers |-> Idle]
    /\ misreturned' = FALSE

ExportInit ==
    /\ table = [d \in Dcs |-> None]
    /\ count = [i \in Senders |-> 0]
    /\ flagged = [i \in Senders |-> FALSE]
    /\ old = [i \in Senders |-> FALSE]
    /\ link = [i \in Senders |-> "down"]
    /\ made = {}
    /\ orphans = {}
    /\ lock = None
    /\ todo = {}
    /\ closing = None
    /\ task = [t \in Borrowers |-> Idle]
    /\ misreturned = FALSE

-----------------------------------------------------------------------------
(* Borrowing.                                                               *)

Ask(t, d) ==
    /\ task[t].at = "idle"
    /\ task' = [task EXCEPT ![t] = [at |-> "asking", dc |-> d, sender |-> None]]
    /\ UNCHANGED <<table, count, flagged, old, link, made, orphans, lock, todo,
                   closing, misreturned>>

\* add_borrow on sender i, which t has now.
Lend(t, i) ==
    /\ count' = [count EXCEPT ![i] = @ + 1]
    /\ flagged' = [flagged EXCEPT ![i] = TRUE]
    /\ task' = [task EXCEPT ![t].at = "using", ![t].sender = i]

\* Mutant: it does not wait for the lock.
BorrowUnlocked(t) ==
    LET i == table[task[t].dc]
    IN  /\ task[t].at = "asking"
        /\ i # None
        /\ flagged[i]
        /\ Lend(t, i)
        /\ UNCHANGED <<table, old, link, made, orphans, lock, todo, closing,
                       misreturned>>

\* The sender is there and connected: no await under the lock.
Borrow(t) ==
    LET i == table[task[t].dc]
    IN  /\ task[t].at = "asking"
        /\ lock = None
        /\ i # None
        /\ flagged[i]
        /\ Lend(t, i)
        /\ UNCHANGED <<table, old, link, made, orphans, lock, todo, closing,
                       misreturned>>

\* It has to be created or connected, with the lock held.
BorrowWaits(t) ==
    LET i == table[task[t].dc]
    IN  /\ task[t].at = "asking"
        /\ lock = None
        /\ lock' = t
        /\ \/ /\ i = None
              /\ task' = [task EXCEPT ![t].at = "creating"]
           \/ /\ i # None
              /\ ~flagged[i]
              /\ task' = [task EXCEPT ![t].at = "connecting"]
        /\ UNCHANGED <<table, count, flagged, old, link, made, orphans, todo,
                       closing, misreturned>>

\* The new sender is connected; next its authorization comes over the main one.
Made(t) ==
    /\ task[t].at = "creating"
    /\ \E i \in Senders \ made :
          /\ made' = made \cup {i}
          /\ link' = [link EXCEPT ![i] = "up"]
          /\ task' = [task EXCEPT ![t].at = "exporting", ![t].sender = i]
    /\ UNCHANGED <<table, count, flagged, old, orphans, lock, todo, closing,
                   misreturned>>

Exported(t) ==
    LET i == task[t].sender
    IN  /\ task[t].at = "exporting"
        /\ table' = [table EXCEPT ![task[t].dc] = i]
        /\ Lend(t, i)
        /\ lock' = None
        /\ UNCHANGED <<old, link, made, orphans, todo, closing, misreturned>>

\* Then the sender is connected and nobody knows it.
ExportFails(t) ==
    /\ task[t].at = "exporting"
    /\ orphans' = orphans \cup {task[t].sender}
    /\ task' = [task EXCEPT ![t] = Idle]
    /\ lock' = None
    /\ UNCHANGED <<table, count, flagged, old, link, made, todo, closing, misreturned>>

Connected(t) ==
    LET i == table[task[t].dc]
    IN  /\ task[t].at = "connecting"
        /\ link' = [link EXCEPT ![i] = "up"]
        /\ Lend(t, i)
        /\ lock' = None
        /\ UNCHANGED <<table, old, made, orphans, todo, closing, misreturned>>

ConnectFails(t) ==
    /\ task[t].at \in {"creating", "connecting"}
    /\ task' = [task EXCEPT ![t] = Idle]
    /\ lock' = None
    /\ UNCHANGED <<table, count, flagged, old, link, made, orphans, todo,
                   closing, misreturned>>

Return(t) ==
    /\ task[t].at = "using"
    /\ task' = [task EXCEPT ![t].at = "returning"]
    /\ UNCHANGED <<table, count, flagged, old, link, made, orphans, lock, todo,
                   closing, misreturned>>

\* The state is looked up by data center: it may belong to another sender by
\* now, or to none, which is a KeyError.
Returned(t) ==
    LET i == table[task[t].dc]
    IN  /\ task[t].at = "returning"
        /\ lock = None
        /\ \/ /\ i = None
              /\ UNCHANGED <<count, old, misreturned>>
           \/ /\ i # None
              /\ count' = [count EXCEPT ![i] = @ - 1]
              /\ old' = IF count'[i] = 0 THEN [old EXCEPT ![i] = FALSE] ELSE old
              /\ misreturned' = (misreturned \/ i # task[t].sender)
        /\ task' = [task EXCEPT ![t] = Idle]
        /\ UNCHANGED <<table, flagged, link, made, orphans, lock, todo, closing>>

\* A minute has passed since _zero_ts.
Ages(i) ==
    /\ i \in made
    /\ count[i] = 0
    /\ flagged[i]
    /\ ~old[i]
    /\ old' = [old EXCEPT ![i] = TRUE]
    /\ UNCHANGED <<table, count, flagged, link, made, orphans, lock, todo,
                   closing, task, misreturned>>

\* Its reconnection failed for good: nothing tells the state.
LinkDrops(i) ==
    /\ link[i] = "up"
    /\ link' = [link EXCEPT ![i] = "lost"]
    /\ UNCHANGED <<table, count, flagged, old, made, orphans, lock, todo, closing,
                   task, misreturned>>

-----------------------------------------------------------------------------
(* _clean_exported_senders, called by the keepalive.                        *)

ShouldDisconnect(i) == count[i] = 0 /\ flagged[i] /\ old[i]

CleanStart ==
    /\ lock = None
    /\ lock' = "keepalive"
    /\ todo' = {d \in Dcs : table[d] # None}
    /\ UNCHANGED <<table, count, flagged, old, link, made, orphans, closing, task,
                   misreturned>>

CleanVisit(d) ==
    /\ lock = "keepalive"
    /\ closing = None
    /\ d \in todo
    /\ IF ShouldDisconnect(table[d])
       THEN /\ closing' = table[d]
            /\ link' = [link EXCEPT ![table[d]] = "down"]
       ELSE UNCHANGED <<closing, link>>
    /\ todo' = todo \ {d}
    /\ UNCHANGED <<table, count, flagged, old, made, orphans, lock, task,
                   misreturned>>

\* Mutant: it is not marked.
CleanNoMark ==
    /\ closing # None
    /\ closing' = None
    /\ UNCHANGED <<table, count, flagged, old, link, made, orphans, lock, todo, task,
                   misreturned>>

\* mark_disconnected, once disconnect of the sender has been awaited.
CleanMark ==
    /\ closing # None
    /\ flagged' = [flagged EXCEPT ![closing] = FALSE]
    /\ closing' = None
    /\ UNCHANGED <<table, count, old, link, made, orphans, lock, todo, task,
                   misreturned>>

CleanEnd ==
    /\ lock = "keepalive"
    /\ closing = None
    /\ todo = {}
    /\ lock' = None
    /\ UNCHANGED <<table, count, flagged, old, link, made, orphans, todo, closing,
                   task, misreturned>>

\* The keepalive is cancelled at whatever it awaits.
CleanCancelled ==
    /\ lock' = IF lock = "keepalive" THEN None ELSE lock
    /\ todo' = IF lock = "keepalive" THEN {} ELSE todo
    /\ closing' = None
    /\ UNCHANGED <<table, count, flagged, old, link, made, orphans, task,
                   misreturned>>

-----------------------------------------------------------------------------
(* The part of _disconnect_coro that is about them.                         *)

\* Mutant: only the senders that nobody has borrowed are closed.
CloseStartIdle ==
    /\ lock = None
    /\ lock' = "disconnect"
    /\ todo' = {d \in Dcs : table[d] # None /\ count[table[d]] = 0}
    /\ UNCHANGED <<table, count, flagged, old, link, made, orphans, closing, task,
                   misreturned>>

CloseStart ==
    /\ lock = None
    /\ lock' = "disconnect"
    /\ todo' = {d \in Dcs : table[d] # None}
    /\ UNCHANGED <<table, count, flagged, old, link, made, orphans, closing, task,
                   misreturned>>

CloseOne(d) ==
    /\ lock = "disconnect"
    /\ d \in todo
    /\ link' = [link EXCEPT ![table[d]] = "down"]
    /\ flagged' = [flagged EXCEPT ![table[d]] = FALSE]
    /\ todo' = todo \ {d}
    /\ UNCHANGED <<table, count, old, made, orphans, lock, closing, task,
                   misreturned>>

CloseEnd ==
    /\ lock = "disconnect"
    /\ todo = {}
    /\ table' = [d \in Dcs |-> None]
    /\ lock' = None
    /\ UNCHANGED <<count, flagged, old, link, made, orphans, todo, closing, task,
                   misreturned>>
=============================================================================
