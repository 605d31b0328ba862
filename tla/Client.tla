------------------------------- MODULE Client -------------------------------
(***************************************************************************)
(* The life of a client: connect, the keepalive, disconnect, a connection   *)
(* given up, a crash -- over the senders it lends (ExportedSenders) and the *)
(* position of its updates (SavedState).                                    *)
(* Translated from src/boka_tl/client/telegrambaseclient.py and             *)
(* src/boka_tl/client/updates.py.                                           *)
(*                                                                         *)
(* Nobody connects while a disconnect is under way, or before the keepalive *)
(* has seen that the connection was given up.  _switch_dc is left out.      *)
(***************************************************************************)
EXTENDS ExportedSenders, SavedState

CONSTANTS
    MaxConnects,    \* bound of the model: calls of connect
    MaxCrashes      \* bound of the model: crashes and restarts of the process

ASSUME ConnectsAssumption == MaxConnects \in Nat
ASSUME CrashesAssumption == MaxCrashes \in Nat

VARIABLES
    main,       \* the main sender, and how far _disconnect_coro has come
    keepalive,  \* what the keepalive loop does
    silent,     \* is the main connection dead without an error
    ping,       \* _ping: was the last keepalive ping not answered
    connects, crashes

lifeVars == <<main, keepalive, silent, ping, connects, crashes>>
vars == <<exportVars, savedVars, lifeVars>>

TypeOK ==
    /\ ExportTypeOK
    /\ SavedTypeOK
    /\ main \in {"off", "on", "dropped", "leaving", "clearing", "cleared"}
    /\ keepalive \in {"off", "sleeping", "asking", "cleaning"}
    /\ silent \in BOOLEAN
    /\ ping \in BOOLEAN
    /\ connects \in 0..MaxConnects
    /\ crashes \in 0..MaxCrashes

Init ==
    /\ ExportInit
    /\ SavedInit
    /\ main = "off"
    /\ keepalive = "off"
    /\ silent = FALSE
    /\ ping = FALSE
    /\ connects = 0
    /\ crashes = 0

-----------------------------------------------------------------------------
(* connect, and the end of a connection.                                    *)

Heard == silent' = FALSE /\ ping' = FALSE

Connect ==
    /\ main \in {"off", "dropped"}
    /\ keepalive = "off"
    /\ connects < MaxConnects
    /\ connects' = connects + 1
    /\ main' = "on"
    /\ \/ /\ LoadAndRun
          /\ keepalive' = "sleeping"
       \/ /\ LoadInVain
          /\ UNCHANGED keepalive
    /\ UNCHANGED <<exportVars, silent, ping, crashes>>

\* The main sender gives up.
Drop ==
    /\ main = "on"
    /\ main' = "dropped"
    /\ Heard
    /\ UNCHANGED <<exportVars, savedVars, keepalive, connects, crashes>>

\* _disconnect: it stops the main sender, then cancels the loops.
LeaveStart ==
    /\ main \in {"off", "on", "dropped"}
    /\ main' = "leaving"
    /\ keepalive' = "off"
    /\ CancelLoop
    /\ CleanCancelled
    /\ Heard
    /\ UNCHANGED <<connects, crashes>>

ClosesStart ==
    /\ main = "leaving"
    /\ CloseStart
    /\ main' = "clearing"
    /\ UNCHANGED <<savedVars, keepalive, silent, ping, connects, crashes>>

ClosesOne(d) == main = "clearing" /\ CloseOne(d) /\ UNCHANGED <<savedVars, lifeVars>>

ClosesEnd ==
    /\ main = "clearing"
    /\ CloseEnd
    /\ main' = "cleared"
    /\ UNCHANGED <<savedVars, keepalive, silent, ping, connects, crashes>>

LeaveEnd ==
    /\ main = "cleared"
    /\ main' = "off"
    /\ CancelAndClose
    /\ UNCHANGED <<exportVars, keepalive, silent, ping, connects, crashes>>

\* The process ends, in a crash or by the execl of a restart of Boka.
Crash ==
    /\ main # "off"
    /\ crashes < MaxCrashes
    /\ crashes' = crashes + 1
    /\ main' = "off"
    /\ keepalive' = "off"
    /\ NoSenders
    /\ Lose
    /\ Heard
    /\ UNCHANGED connects

-----------------------------------------------------------------------------
(* _keepalive_loop.  A minute after it began to sleep it cleans, then saves *)
(* if the transport is connected.                                           *)

KeepaliveWakes ==
    /\ keepalive = "sleeping"
    /\ keepalive' = IF main = "on" THEN "asking" ELSE "off"
    /\ UNCHANGED <<exportVars, savedVars, main, silent, ping, connects, crashes>>

KeepaliveLocks ==
    /\ keepalive = "asking"
    /\ CleanStart
    /\ keepalive' = "cleaning"
    /\ UNCHANGED <<savedVars, main, silent, ping, connects, crashes>>

KeepaliveVisits ==
    /\ keepalive = "cleaning"
    /\ \/ \E d \in Dcs : CleanVisit(d)
       \/ CleanMark
    /\ UNCHANGED <<savedVars, lifeVars>>

\* Mutant: an unanswered ping is sent again.
PingsAgain == ping' = TRUE /\ UNCHANGED silent

\* A ping that finds the last one unanswered makes the sender reconnect.
Pings ==
    /\ ping' = ~ping
    /\ silent' = (silent /\ ~ping)

\* The ping and the save follow without an await; both are left out when the
\* transport is between two connections.
KeepaliveSaves ==
    /\ keepalive = "cleaning"
    /\ CleanEnd
    /\ keepalive' = IF main = "on" THEN "sleeping" ELSE "off"
    /\ \/ main = "on" /\ Pings /\ SavePeriodically
       \/ (main # "on" \/ ~silent) /\ UNCHANGED <<savedVars, silent, ping>>
    /\ UNCHANGED <<main, connects, crashes>>

\* The connection dies and nobody is told.
FallsSilent ==
    /\ main = "on"
    /\ ~silent
    /\ silent' = TRUE
    /\ UNCHANGED <<exportVars, savedVars, main, keepalive, ping, connects, crashes>>

Pong ==
    /\ ping
    /\ ~silent
    /\ ping' = FALSE
    /\ UNCHANGED <<exportVars, savedVars, main, keepalive, silent, connects, crashes>>

-----------------------------------------------------------------------------
(* What goes on next to them.                                               *)

\* The authorization comes over the main sender: it answers, with an error
\* perhaps, or fails the request when it is or gets disconnected; while the
\* connection is silent it does neither.
ExportEnds(t) ==
    \/ main = "on" /\ ~silent /\ Exported(t)
    \/ ~silent /\ ExportFails(t)

BorrowerStep(t) ==
    /\ \/ \E d \in Dcs : Ask(t, d)
       \/ Borrow(t)
       \/ BorrowWaits(t)
       \/ Made(t)
       \/ ExportEnds(t)
       \/ Connected(t)
       \/ ConnectFails(t)
       \/ Return(t)
       \/ Returned(t)
    /\ UNCHANGED <<savedVars, lifeVars>>

SenderStep(i) == (Ages(i) \/ LinkDrops(i)) /\ UNCHANGED <<savedVars, lifeVars>>

UpdateStep ==
    /\ \/ NewEvent
       \/ \E p \in Events : main = "on" /\ Take(p)
       \/ \E p \in Events : main # "on" /\ TakeInVain(p)
       \/ main # "on" /\ EndInVain
       \/ \E e \in Events : HandlersEnd(e)
       \/ main = "on" /\ FlushStates
       \/ main = "on" /\ Commit
    /\ UNCHANGED <<exportVars, lifeVars>>

Next ==
    \/ Connect \/ Drop \/ LeaveStart \/ ClosesStart \/ ClosesEnd \/ LeaveEnd \/ Crash
    \/ \E d \in Dcs : ClosesOne(d)
    \/ KeepaliveWakes \/ KeepaliveLocks \/ KeepaliveVisits \/ KeepaliveSaves
    \/ FallsSilent \/ Pong
    \/ \E t \in Borrowers : BorrowerStep(t)
    \/ \E i \in Senders : SenderStep(i)
    \/ UpdateStep

Spec == Init /\ [][Next]_vars

\* The clock goes on and the keepalive with it; what awaits a server with the
\* lock held is answered or times out, but for a silent main connection; the
\* lock is first come, first served, so the keepalive gets it at last.
FairSpec ==
    /\ Spec
    /\ WF_vars(KeepaliveWakes)
    /\ SF_vars(KeepaliveLocks)
    /\ WF_vars(KeepaliveVisits)
    /\ WF_vars(KeepaliveSaves)
    /\ WF_vars(\E d \in Dcs : ClosesOne(d))
    /\ WF_vars(ClosesEnd)
    /\ \A t \in Borrowers :
          WF_vars(/\ Made(t) \/ ExportEnds(t) \/ Connected(t) \/ ConnectFails(t)
                  /\ UNCHANGED <<savedVars, lifeVars>>)
    /\ \A i \in Senders : WF_vars(Ages(i) /\ UNCHANGED <<savedVars, lifeVars>>)

-----------------------------------------------------------------------------
(* Properties.                                                              *)

Users(i) == {t \in Borrowers : task[t].sender = i /\ task[t].at \in {"using", "returning"}}

\* A sender is counted as often as it is lent, and until a disconnect begins one
\* that is lent has been disconnected by nobody -- as long as no return came for
\* a sender that disconnect had closed (_ExportState, _borrow_sender_lock).
Lent ==
    ~misreturned =>
        \A d \in Dcs : table[d] # None =>
            LET i == table[d]
            IN  /\ count[i] = Cardinality(Users(i))
                /\ Users(i) # {} /\ main \in {"on", "dropped"}
                      => flagged[i] /\ link[i] # "down"

\* After a disconnect no lent sender is connected but those whose creation
\* failed halfway (_disconnect_coro, _create_exported_sender).
LeftClean ==
    main = "off" => \A i \in Senders : link[i] = "up" =>
        \/ i \in orphans
        \/ \E t \in Borrowers : task[t].at = "exporting" /\ task[t].sender = i

\* The saved position goes back only when a client that knows no position is
\* disconnected, or in a crash to what was committed (_disconnect_coro).
SavedForward ==
    [][/\ committed' < committed => main = "cleared" /\ pos = 0
       /\ written' < written => \/ main = "cleared" /\ pos = 0
                               \/ crashes' > crashes]_vars

\* While a client stays connected, a sender nobody borrows is disconnected
\* (_keepalive_loop, _clean_exported_senders) -- unless a task creates a
\* sender over a silent connection: it holds the lock and nobody pings.
Blocked == silent /\ \E t \in Borrowers : task[t].at = "exporting"

IdleClosed ==
    \A d \in Dcs :
        (main = "on" /\ keepalive # "off" /\ table[d] # None /\ ~misreturned
            /\ flagged[table[d]] /\ count[table[d]] = 0)
        ~> (main # "on" \/ Blocked \/ misreturned \/ table[d] = None
            \/ ~flagged[table[d]] \/ count[table[d]] > 0)

\* A silent main connection is noticed by the keepalive's pings, with the same
\* exception.
SilenceNoticed == (silent /\ keepalive # "off") ~> (~silent \/ Blocked)
=============================================================================
