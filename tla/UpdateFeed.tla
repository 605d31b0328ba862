----------------------------- MODULE UpdateFeed -----------------------------
(***************************************************************************)
(* What the message box promises the event handlers, with no gap, deadline *)
(* or request in sight: for every entry (the account, the secret chats, a  *)
(* channel) a reader stands at a position of the server's log of events    *)
(* and only moves forward, past every message on the way exactly once,     *)
(* unless the server tells it to skip ahead or takes the entry away.       *)
(***************************************************************************)
EXTENDS Integers

CONSTANTS Entries

VARIABLES
  log,        \* every event the server has numbered so far
  end,        \* end[e]: the server's own position, the pts of its last event
  known,      \* entries the reader follows
  pos,        \* pos[e]: the reader's position
  base,       \* base[e]: where the reader (re)started: it owes nothing before
  delivered   \* events handed over since their entry was last taken up

vars == <<log, end, known, pos, base, delivered>>

(* An event takes the positions of the half-open range (pts - cnt, pts].   *)
(* "msg" events come back from a difference as new messages, the "other"   *)
(* ones (edits, deletions) as numbered updates.                            *)
Event == [entry : Entries, pts : Nat, cnt : Nat \ {0}, body : {"msg", "other"}]

Init ==
  /\ log = {}
  /\ end \in [Entries -> Nat]
  /\ known \in SUBSET Entries
  /\ pos \in [Entries -> Nat]
  /\ \A e \in Entries : pos[e] <= end[e]
  /\ base = pos
  /\ delivered = {}

(* The server numbers one more event. *)
Produce ==
  /\ \E ev \in log' :
       /\ ev \in Event
       /\ ev.pts = end[ev.entry] + ev.cnt
       /\ log' = log \cup {ev}
       /\ end' = [end EXCEPT ![ev.entry] = ev.pts]
  /\ UNCHANGED <<known, pos, base, delivered>>

(* Where a move past the events of e starts. *)
From(e) == IF e \in known THEN pos[e] ELSE base'[e]

Passed == {ev \in log : /\ ev.entry \in known'
                        /\ From(ev.entry) < ev.pts
                        /\ ev.pts <= pos'[ev.entry]}

(* The reader moves forward on some entries, possibly taking up new ones,  *)
(* and delivers every message it passes.                                   *)
Move ==
  /\ UNCHANGED <<log, end>>
  /\ known \subseteq known' /\ known' \subseteq Entries
  /\ pos' \in [Entries -> Nat]
  /\ base' \in [Entries -> Nat]
  /\ \A e \in Entries :
       /\ pos'[e] <= end[e]
       /\ e \in known => base'[e] = base[e] /\ pos[e] <= pos'[e]
       /\ e \notin known => base'[e] <= pos'[e]
  /\ delivered \subseteq delivered'
  /\ delivered' \ delivered \subseteq Passed
  /\ {ev \in Passed : ev.body = "msg"} \subseteq delivered'

(* The server answers that too much happened: the reader jumps. *)
Skip ==
  \E e \in known :
    /\ pos' \in [Entries -> Nat]
    /\ pos[e] <= pos'[e] /\ pos'[e] <= end[e]
    /\ pos' = [pos EXCEPT ![e] = pos'[e]]
    /\ base' = [base EXCEPT ![e] = pos'[e]]
    /\ UNCHANGED <<log, end, known, delivered>>

(* The reader gives an entry up, and with it the memory of what it read. *)
Forget ==
  \E e \in known :
    /\ known' = known \ {e}
    /\ pos' = [pos EXCEPT ![e] = 0]
    /\ base' = [base EXCEPT ![e] = 0]
    /\ delivered' = {ev \in delivered : ev.entry # e}
    /\ UNCHANGED <<log, end>>

Next == Produce \/ Move \/ Skip \/ Forget

Spec == Init /\ [][Next]_vars

-----------------------------------------------------------------------------
TypeOK ==
  /\ log \subseteq Event
  /\ end \in [Entries -> Nat]
  /\ known \subseteq Entries
  /\ pos \in [Entries -> Nat]
  /\ base \in [Entries -> Nat]
  /\ delivered \subseteq log

(* No message between the place where an entry was taken up and the place  *)
(* the reader has reached is missing.                                      *)
NoLoss ==
  \A ev \in log :
    ( /\ ev.entry \in known
      /\ ev.body = "msg"
      /\ base[ev.entry] < ev.pts
      /\ ev.pts <= pos[ev.entry] ) => ev \in delivered

(* Everything delivered lies behind the reader, so no later move can hand  *)
(* the same event over again.                                              *)
Behind ==
  \A ev \in delivered : ev.entry \in known /\ ev.pts <= pos[ev.entry]
=============================================================================
