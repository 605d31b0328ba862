----------------------------- MODULE SavedState -----------------------------
(***************************************************************************)
(* What becomes of updates when a client stops: the position of the message *)
(* box is saved now and then, the updates it has passed are with the        *)
(* handlers.  Translated from src/boka_tl/client/updates.py,                *)
(* src/boka_tl/client/telegrambaseclient.py and                             *)
(* src/boka_tl/sessions/sqlite.py.                                          *)
(*                                                                         *)
(* The message box itself, which MessageBox models in full, is one position *)
(* here: events are numbered and taken in order, number 1 is older than the *)
(* session.  Handlers run as tasks (sequential_updates is off, as in Boka). *)
(* The module is open: Client says when its actions may happen.             *)
(***************************************************************************)
EXTENDS Naturals

CONSTANTS
    CatchUps,   \* what catch_up may be set to
    MaxEvents   \* bound of the model: events of the server

ASSUME CatchUpsAssumption == CatchUps \subseteq BOOLEAN
ASSUME MaxEventsAssumption == MaxEvents \in Nat \ {0}

Events == 1..MaxEvents

VARIABLES
    catchUp,    \* _catch_up
    log,        \* how many events the server has numbered
    pos,        \* position of the message box, 0 while it is empty
    loop,       \* does the update loop of _updates_handle run
    strays,     \* update loops of earlier connections that still run
    running,    \* events whose handlers run: _event_handler_tasks
    written,    \* the position in the session, 0 for none
    committed,  \* the position in its file
    given,      \* history: events given to the handlers
    twice,      \* history: events given to them again
    finished,   \* history: events whose handlers have ended by themselves
    exposed,    \* history: events that a loop took after the connection was
                \* gone, or that handlers had when a position was committed
    jumped,     \* history: events a login has skipped
    reset       \* history: events the position went back behind

history == <<given, twice, finished, exposed, jumped, reset>>
savedVars == <<catchUp, log, pos, loop, strays, running, written, committed, history>>

SavedTypeOK ==
    /\ catchUp \in CatchUps
    /\ log \in 1..MaxEvents
    /\ pos \in 0..log
    /\ loop \in BOOLEAN
    /\ strays \in Nat
    /\ running \subseteq given
    /\ written \in 0..log
    /\ committed \in 0..log
    /\ given \subseteq 1..log
    /\ twice \subseteq given
    /\ finished \subseteq given
    /\ exposed \subseteq 1..log
    /\ jumped \subseteq 1..log
    /\ reset \subseteq 1..log

SavedInit ==
    /\ catchUp \in CatchUps
    /\ log = 1
    /\ pos = 0
    /\ loop = FALSE
    /\ strays = 0
    /\ running = {}
    /\ written = 0
    /\ committed = 0
    /\ given = {}
    /\ twice = {}
    /\ finished = {}
    /\ exposed = {}
    /\ jumped = {}
    /\ reset = {}

-----------------------------------------------------------------------------
NewEvent ==
    /\ log < MaxEvents
    /\ log' = log + 1
    /\ UNCHANGED <<catchUp, pos, loop, strays, running, written, committed, history>>

LoopRuns == loop \/ strays > 0

\* Mutant: it moves past what the server has sent.
MovesAhead(p) == LoopRuns /\ pos < p /\ pos' = p

\* A loop processes updates or a difference up to p.
Moves(p) ==
    /\ LoopRuns
    /\ pos < p /\ p <= log
    /\ pos' = p

\* Mutants: only the last update is dispatched; the one before is again.
TakeLast(p) ==
    /\ Moves(p)
    /\ running' = running \cup {p}
    /\ given' = given \cup {p}
    /\ twice' = twice \cup (given \cap {p})
    /\ UNCHANGED <<catchUp, log, loop, strays, written, committed, finished, exposed,
                   jumped, reset>>
TakeAgain(p) ==
    /\ Moves(p)
    /\ running' = running \cup pos..p
    /\ given' = given \cup pos..p
    /\ twice' = twice \cup (given \cap pos..p)
    /\ UNCHANGED <<catchUp, log, loop, strays, written, committed, finished, exposed,
                   jumped, reset>>

\* Connected, it gives what it took to the handlers: one task for each.
Take(p) ==
    /\ Moves(p)
    /\ running' = running \cup (pos + 1)..p
    /\ given' = given \cup (pos + 1)..p
    /\ twice' = twice \cup (given \cap (pos + 1)..p)
    /\ UNCHANGED <<catchUp, log, loop, strays, written, committed, finished, exposed,
                   jumped, reset>>

\* One of the loops ends.
LoopEnds ==
    \/ loop /\ loop' = FALSE /\ UNCHANGED strays
    \/ strays > 0 /\ strays' = strays - 1 /\ UNCHANGED loop

\* It woke after the connection was gone: it takes what was in the queue, looks
\* whether it is connected, and ends with the updates in hand.
TakeInVain(p) ==
    /\ Moves(p)
    /\ exposed' = exposed \cup (pos + 1)..p
    /\ LoopEnds
    /\ UNCHANGED <<catchUp, log, running, written, committed, given, twice, finished,
                   jumped, reset>>

\* It woke with nothing to take, and ends.
EndInVain ==
    /\ LoopEnds
    /\ UNCHANGED <<catchUp, log, pos, running, written, committed, history>>

HandlersEnd(e) ==
    /\ e \in running
    /\ running' = running \ {e}
    /\ finished' = finished \cup {e}
    /\ UNCHANGED <<catchUp, log, pos, loop, strays, written, committed, given, twice,
                   exposed, jumped, reset>>

\* The entity cache is full: states are written, but not committed.
FlushStates ==
    /\ LoopRuns
    /\ written' = pos
    /\ UNCHANGED <<catchUp, log, pos, loop, strays, running, committed, history>>

\* session.save, of what was written before: a new authorization key.
Commit ==
    /\ committed' = written
    /\ exposed' = exposed \cup running
    /\ UNCHANGED <<catchUp, log, pos, loop, strays, running, written, given, twice,
                   finished, jumped, reset>>

\* _save_states_and_entities and a commit.
SaveStates ==
    /\ written' = pos
    /\ committed' = pos
    /\ exposed' = exposed \cup running

\* The keepalive does so.
SavePeriodically ==
    /\ SaveStates
    /\ UNCHANGED <<catchUp, log, pos, loop, strays, running, given, twice, finished,
                   jumped, reset>>

\* _disconnect cancels the update loop it has a handle of.
CancelLoop ==
    /\ loop' = FALSE
    /\ UNCHANGED <<catchUp, log, pos, strays, running, written, committed, history>>

\* The end of _disconnect_coro: handlers are cancelled, states saved, whether
\* there is a position or not.
CancelAndClose ==
    /\ running' = {}
    /\ SaveStates
    /\ UNCHANGED <<catchUp, log, pos, loop, strays, given, twice, finished, jumped,
                   reset>>

-----------------------------------------------------------------------------
(* connect.  The message box starts from the session, from what it holds,   *)
(* or from what the server says at a login.                                 *)

\* Mutant: the state is read from what was committed before.
LoadedStale == IF catchUp THEN committed ELSE pos

Loaded == IF catchUp THEN written ELSE pos

\* It commits the session before it loads anything.
Load(p) ==
    /\ committed' = written
    /\ exposed' = exposed \cup running
    /\ pos' = p
    /\ reset' = reset \cup {e \in 1..pos : e > p}
    /\ jumped' = jumped \cup {e \in 1..p : e > pos /\ e > written}
    /\ UNCHANGED <<catchUp, log, running, written, given, twice, finished>>

LoadAndRun ==
    /\ Load(IF Loaded = 0 THEN log ELSE Loaded)
    /\ loop' = TRUE
    /\ strays' = IF loop THEN strays + 1 ELSE strays

\* A request of connect fails once the sender is connected: no loop is started.
LoadInVain ==
    /\ Load(Loaded)
    /\ UNCHANGED <<loop, strays>>

\* The process ends: what is not committed is gone, and where it starts again
\* may be behind what was given to the handlers.
Lose ==
    /\ pos' = 0
    /\ loop' = FALSE
    /\ strays' = 0
    /\ running' = {}
    /\ written' = committed
    /\ reset' = reset \cup {e \in 1..pos : e > committed}
    /\ UNCHANGED <<catchUp, log, committed, given, twice, finished, exposed, jumped>>

-----------------------------------------------------------------------------
\* Of the events the position has passed, only those are lost that a loop took
\* when the connection was gone, those with the handlers when a position was
\* committed, and those a login skips (_update_loop, _disconnect_coro, connect).
OnlyExposedLost ==
    \A e \in 1..pos : e \in finished \cup running \cup exposed \cup jumped

\* An event reaches the handlers a second time only if the position went back
\* behind it, in a crash or in a connect that loads an older state.
TwiceOnlyAfterReset == twice \subseteq reset
=============================================================================
