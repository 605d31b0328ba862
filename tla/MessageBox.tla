----------------------------- MODULE MessageBox -----------------------------
(***************************************************************************)
(* The update engine of boka_tl: the MessageBox of _updates/messagebox.py  *)
(* and the loop of client/updates.py that drives it.  One task runs the    *)
(* loop; it gives way to other tasks only where it awaits (pc "wait",      *)
(* "acc" and "chan").  process_updates is unrolled into one step per call  *)
(* of apply_pts_info, and nothing else runs in between.                    *)
(*                                                                         *)
(* The server is external: it numbers events, pushes any of them in any    *)
(* container, late, twice or never, and answers differences truthfully.    *)
(* Time is counted down in ticks: a deadline of 0 has expired.             *)
(***************************************************************************)
EXTENDS Integers, FiniteSets

CONSTANTS
  ACCOUNT, SECRET,    \* ENTRY_ACCOUNT, ENTRY_SECRET
  Channels,           \* channel ids
  Down,               \* "no request in flight"
  NoUpdatesTimeout,   \* NO_UPDATES_TIMEOUT, in ticks
  GapTimeout,         \* POSSIBLE_GAP_TIMEOUT, in ticks
  StartPts,           \* StartPts[e]: the server's position when the run starts
  MaxPts,             \* bound: MaxPts[e] is the last position the server reaches
  MaxSeq,             \* bound: the last container number of the server
  Counts,             \* the values of pts_count of events
  Bodies,             \* the kinds of events, among "msg" and "other"
  MaxBatch            \* bound: how many updates one container carries

Entries == Channels \cup {ACCOUNT, SECRET}

ASSUME EntriesAssumption ==
  /\ ACCOUNT # SECRET
  /\ ACCOUNT \notin Channels /\ SECRET \notin Channels
  /\ Down \notin Entries
ASSUME TimeoutAssumption ==
  /\ NoUpdatesTimeout \in Nat \ {0}
  /\ GapTimeout \in 1..NoUpdatesTimeout
ASSUME ServerAssumption ==
  /\ StartPts \in [Entries -> Nat]
  /\ MaxPts \in [Entries -> Nat]
  /\ StartPts[ACCOUNT] # 0
  /\ MaxSeq \in Nat /\ MaxBatch \in Nat
  /\ Counts \subseteq Nat \ {0}
  /\ Bodies \subseteq {"msg", "other"}

NoSeq == 0            \* NO_SEQ

VARIABLES
  \* the server
  srv,        \* srv[e]: pts of its last event of e
  log,        \* its events
  srvSeq,     \* number of its last container
  \* MessageBox
  known,      \* the keys of map
  pts,        \* map[e].pts, 0 when e is not a key
  dl,         \* map[e].deadline, ticks left
  gap,        \* possible_gaps[e].updates, {} when e is not a key
  gapDl,      \* possible_gaps[e].deadline
  getting,    \* getting_diff_for
  nextDl,     \* next_deadline
  seq,        \* seq
  hashes,     \* channels whose access hash is in the entity cache
  \* the update loop
  pc,         \* where the loop stands
  wait,       \* ticks left of asyncio.wait_for
  req,        \* channel of the request in flight
  call,       \* the running process_updates: who called it, container number
  work,       \* its updates not looked at yet
  retry,      \* its gap updates not looked at again yet
  out,        \* its result so far
  \* history
  base,       \* base[e]: the position where e was last taken up
  applied,    \* events handed to the dispatcher since then
  twice       \* events handed over a second time

server == <<srv, log, srvSeq>>
gaps == <<gap, gapDl>>
deadlines == <<dl, nextDl>>
box == <<known, pts, dl, gap, gapDl, getting, nextDl, seq>>
running == <<call, work, retry>>
history == <<base, applied, twice>>
vars == <<srv, log, srvSeq, known, pts, dl, gap, gapDl, getting, nextDl, seq,
          hashes, pc, wait, req, call, work, retry, out, base, applied, twice>>

-----------------------------------------------------------------------------
(* Updates, as PtsInfo.from_update reads them.                             *)
Event == [entry : Entries, pts : Nat, cnt : Nat \ {0}, body : {"msg", "other"}]
Update == [entry : Entries, pts : Nat, cnt : Nat,
           body : {"msg", "other", "read", "tooLong", "free"}]

(* An update that only repeats a position (pts without pts_count). *)
Read(e, p) == [entry |-> e, pts |-> p, cnt |-> 0, body |-> "read"]
(* updateChannelTooLong *)
TooLong(c) == [entry |-> c, pts |-> 0, cnt |-> 0, body |-> "tooLong"]
(* An update with neither pts nor qts. *)
Free == [entry |-> ACCOUNT, pts |-> 0, cnt |-> 0, body |-> "free"]

Numbered(u) == u.body \in {"msg", "other", "read"}

(* _sort_gaps: updates are looked at in the order of where they start. *)
SortKey(u) == u.pts - u.cnt
FirstOf(us) == {u \in us : \A v \in us : SortKey(u) <= SortKey(v)}

Reads == UNION {{Read(e, p) : p \in 1..srv[e]} : e \in Channels \cup {ACCOUNT}}
Pushable == log \cup Reads \cup {TooLong(c) : c \in Channels} \cup {Free}

(* Containers of at most MaxBatch updates taken from S. *)
Batches(S) == {us \in SUBSET S : Cardinality(us) <= MaxBatch}

(* The server's events of e after its position p, up to q. *)
Between(e, p, q) == {ev \in log : ev.entry = e /\ p < ev.pts /\ ev.pts <= q}
Messages(evs) == {ev \in evs : ev.body = "msg"}
Others(evs) == {ev \in evs : ev.body = "other"}

(* Where a difference of e may stop. *)
Stops(e) == {pts[e]} \cup {ev.pts : ev \in Between(e, pts[e], srv[e])}

(* Handed to the dispatcher, or about to be. *)
Delivered == applied \cup (out \cap log)

With(f, S, v) == [e \in DOMAIN f |-> IF e \in S THEN v ELSE f[e]]

-----------------------------------------------------------------------------
(* Deadlines *)

Least(S) == {x \in S : \A y \in S : x <= y}

(* The keys of map whose deadline is the earliest, when d are the deadlines *)
(* once those of S were set; those just set came last.                     *)
Earliest(S, d) ==
  LET m == {e \in known : d[e] \in Least({d[f] : f \in known})}
  IN IF m \subseteq S THEN m ELSE m \ S

(* What next_deadline may become when the deadlines of S are set to t: it  *)
(* moves when it was one of S, or when t is earlier than its deadline.     *)
NextDeadline(S, t) ==
  IF nextDl \in S THEN Earliest(S, With(dl, S, t))
  ELSE IF nextDl \in known /\ S # {} /\ t < dl[nextDl] THEN S
  ELSE {nextDl}

ResetDeadlines(S, t) == dl' = With(dl, S, t) /\ nextDl' \in NextDeadline(S, t)

-----------------------------------------------------------------------------
(* Gaps and differences *)

(* The keys of possible_gaps: the code drops a key whose list went empty   *)
(* before anything looks at it again.                                      *)
Gapped == {e \in Entries : gap[e] # {}}

ClearGaps(S) == gap' = With(gap, S, {}) /\ gapDl' = With(gapDl, S, 0)

TryBeginGetDiff(e) ==
  /\ getting' = getting \cup ({e} \cap known)
  /\ ClearGaps({e} \cap known)

(* end_get_diff, of each entry of S. *)
EndGetDiff(S) == getting' = getting \ S /\ ResetDeadlines(S, NoUpdatesTimeout)

Pair == {ACCOUNT, SECRET}
EndDifference == EndGetDiff(getting \cap Pair)

(* The difference of c ends and its key leaves map. *)
Forget(c) ==
  /\ getting' = getting \ {c}
  /\ nextDl' \in NextDeadline({c}, NoUpdatesTimeout)
  /\ known' = known \ {c}
  /\ pts' = With(pts, {c}, 0)
  /\ dl' = With(dl, {c}, 0)
  /\ base' = With(base, {c}, 0)
  /\ applied' = {u \in applied : u.entry # c}

(* The result of process_updates grows. *)
Hand(us) == out' = out \cup us /\ twice' = twice \cup (us \cap Delivered)

(* EntityCache.extend, for the channels the server described in full. *)
ExtendCache == \E H \in SUBSET Channels : hashes' = hashes \cup H

-----------------------------------------------------------------------------
Idle == [from |-> "socket", seq |-> NoSeq]

(* load: the positions of the session are the server's of the start. *)
Init ==
  /\ srv = StartPts /\ log = {} /\ srvSeq = NoSeq
  /\ known \in {K \in SUBSET Entries : /\ ACCOUNT \in K
                                       /\ SECRET \in K <=> StartPts[SECRET] # 0
                                       /\ \A c \in K : StartPts[c] # 0}
  /\ pts = [e \in Entries |-> IF e \in known THEN StartPts[e] ELSE 0]
  /\ dl = [e \in Entries |-> IF e \in known THEN NoUpdatesTimeout ELSE 0]
  /\ gap = [e \in Entries |-> {}] /\ gapDl = [e \in Entries |-> 0]
  /\ getting = {} /\ nextDl = ACCOUNT /\ seq = NoSeq
  /\ hashes \in SUBSET Channels
  /\ pc = "top" /\ wait = 0 /\ req = Down
  /\ call = Idle /\ work = {} /\ retry = {} /\ out = {}
  /\ base = pts /\ applied = {} /\ twice = {}

-----------------------------------------------------------------------------
(* The environment: the server, the clock and the client's other tasks.    *)
(* They step while the loop awaits: until it does, it neither receives     *)
(* anything nor gives way.                                                 *)
Awaiting == pc \in {"wait", "acc", "chan"}

ServerEvent ==
  /\ Awaiting
  /\ \E e \in Entries, n \in Counts, b \in Bodies :
       /\ srv[e] + n <= MaxPts[e]
       /\ e = SECRET => n = 1 /\ b = "msg"
       /\ srv' = [srv EXCEPT ![e] = @ + n]
       /\ log' = log \cup {[entry |-> e, pts |-> srv[e] + n, cnt |-> n, body |-> b]}
  /\ UNCHANGED <<srvSeq, box, hashes, pc, wait, req, running, out, history>>

ServerContainer ==
  /\ Awaiting /\ srvSeq < MaxSeq /\ srvSeq' = srvSeq + 1
  /\ UNCHANGED <<srv, log, box, hashes, pc, wait, req, running, out, history>>

Less(f) == [e \in DOMAIN f |-> IF f[e] = 0 THEN 0 ELSE f[e] - 1]

Tick ==
  /\ Awaiting
  /\ dl' = Less(dl) /\ gapDl' = Less(gapDl)
  /\ wait' = IF wait = 0 THEN 0 ELSE wait - 1
  /\ UNCHANGED <<server, known, pts, gap, getting, nextDl, seq, hashes, pc, req,
                 running, out, history>>

(* iter_dialogs, in another task, meets a channel the box does not follow. *)
TrySetChannelState ==
  /\ Awaiting
  /\ \E c \in Channels \ known :
       \E p \in ({StartPts[c]} \cup {ev.pts : ev \in Between(c, 0, srv[c])}) \ {0} :
         /\ known' = known \cup {c}
         /\ pts' = [pts EXCEPT ![c] = p] /\ base' = [base EXCEPT ![c] = p]
         /\ dl' = [dl EXCEPT ![c] = NoUpdatesTimeout]
  /\ ExtendCache
  /\ UNCHANGED <<server, gaps, getting, nextDl, seq, pc, wait, req, running, out,
                 applied, twice>>

-----------------------------------------------------------------------------
(* The head of the loop *)

FlushEntityCache ==
  /\ pc = "top"
  /\ hashes' = hashes \cap known /\ hashes' # hashes
  /\ UNCHANGED <<server, box, pc, wait, req, running, out, history>>

GetDifference ==
  /\ pc = "top" /\ getting \cap Pair # {}
  /\ pc' = "acc"
  /\ UNCHANGED <<server, box, hashes, wait, req, running, out, history>>

GetChannelDifference ==
  /\ pc = "top" /\ getting \cap Pair = {}
  /\ \E c \in getting \cap hashes : req' = c
  /\ pc' = "chan"
  /\ UNCHANGED <<server, box, hashes, wait, running, out, history>>

(* Mutant: the difference is not ended. *)
DropChannelGetting ==
  /\ pc = "top" /\ getting \cap Pair = {}
  /\ \E c \in getting \ hashes :
       /\ known' = known \ {c} /\ pts' = With(pts, {c}, 0)
       /\ dl' = With(dl, {c}, 0) /\ base' = With(base, {c}, 0)
       /\ applied' = {u \in applied : u.entry # c}
  /\ UNCHANGED <<server, gaps, getting, nextDl, seq, hashes, pc, wait, req, running,
                 out, twice>>

(* get_channel_difference of a channel whose access hash is not at hand. *)
DropChannel ==
  /\ pc = "top" /\ getting \cap Pair = {}
  /\ \E c \in getting \ hashes : Forget(c)
  /\ UNCHANGED <<server, gaps, seq, hashes, pc, wait, req, running, out, twice>>

(* The deadline check_deadlines settles for, with no difference pending. *)
Deadline ==
  IF Gapped # {} THEN Least({gapDl[e] : e \in Gapped})
  ELSE IF nextDl \in known THEN {dl[nextDl]} ELSE {NoUpdatesTimeout}

(* Mutant: only the deadlines of map are looked at. *)
MarkExpiredMap ==
  /\ pc = "top" /\ getting = {} /\ 0 \in Deadline
  /\ getting' = {e \in known : dl[e] = 0}
  /\ ClearGaps(getting')
  /\ UNCHANGED <<server, known, pts, deadlines, seq, hashes, pc, wait, req,
                 running, out, history>>

MarkExpired ==
  /\ pc = "top" /\ getting = {} /\ 0 \in Deadline
  /\ getting' = {e \in Gapped : gapDl[e] = 0} \cup {e \in known : dl[e] = 0}
  /\ ClearGaps(getting')
  /\ UNCHANGED <<server, known, pts, deadlines, seq, hashes, pc, wait, req,
                 running, out, history>>

StartWaiting ==
  /\ pc = "top" /\ getting = {}
  /\ pc' = "wait" /\ wait' \in Deadline \ {0}
  /\ UNCHANGED <<server, box, hashes, req, running, out, history>>

Timeout ==
  /\ pc = "wait" /\ wait = 0 /\ pc' = "top"
  /\ UNCHANGED <<server, box, hashes, wait, req, running, out, history>>

-----------------------------------------------------------------------------
(* Containers from the queue of updates *)

Received == pc = "wait" /\ wait' = 0

(* A container the server did not number, or the next one in its order. *)
Receive ==
  /\ Received
  /\ work' \in Batches(Pushable) \ {{}}
  /\ \E last \in seq + 1 .. srvSeq \cup {NoSeq} :
       call' = [from |-> "socket", seq |-> last]
  /\ pc' = "work"
  /\ UNCHANGED <<server, box, hashes, req, retry, out, history>>

(* seq_start <= self.seq: seen before. *)
SkipContainer ==
  /\ Received /\ seq # NoSeq /\ srvSeq # NoSeq
  /\ ExtendCache
  /\ pc' = "top"
  /\ UNCHANGED <<server, box, req, running, out, history>>

(* seq_start > self.seq + 1, or updatesTooLong (catch_up queues one too):  *)
(* GapError, the container is given up.                                    *)
LoseContainer ==
  /\ Received
  /\ TryBeginGetDiff(ACCOUNT)
  /\ pc' = "top"
  /\ UNCHANGED <<server, known, pts, deadlines, seq, hashes, req, running, out,
                 history>>

-----------------------------------------------------------------------------
(* process_updates and apply_pts_info *)

(* Mutant: updates are processed although their difference is on the way. *)
FetchingIgnored(u) == FALSE

(* The difference of its entry, which will tell it again, is on the way. *)
Fetching(u) == u.entry \in getting

(* Mutants: pts_count is forgotten; the position is. *)
StaleNoCount(u) == Fetching(u) \/ (u.entry \in known /\ pts[u.entry] > u.pts)
StaleNoPts(u) == Fetching(u)

(* To be told again, or handled before. *)
Stale(u) == Fetching(u) \/ (u.entry \in known /\ pts[u.entry] + u.cnt > u.pts)

(* Mutant: a gap of one position is let through. *)
AheadOffByOne(u) ==
  ~ Fetching(u) /\ u.entry \in known /\ pts[u.entry] + u.cnt + 1 < u.pts

(* Updates are missing before it. *)
Ahead(u) ==
  ~ Fetching(u) /\ u.entry \in known /\ pts[u.entry] + u.cnt < u.pts

(* Mutant: the gap waits as long as an entry without updates. *)
HoldLong(u) ==
  /\ gap' = [gap EXCEPT ![u.entry] = @ \cup {u}]
  /\ gapDl' = [gapDl EXCEPT ![u.entry] = IF gap[u.entry] = {} THEN NoUpdatesTimeout ELSE @]

Hold(u) ==
  /\ gap' = [gap EXCEPT ![u.entry] = @ \cup {u}]
  /\ gapDl' = [gapDl EXCEPT ![u.entry] = IF gap[u.entry] = {} THEN GapTimeout ELSE @]

(* A gap update leaves its list. *)
Release(u) ==
  /\ gap' = [gap EXCEPT ![u.entry] = @ \ {u}]
  /\ gapDl' = [gapDl EXCEPT ![u.entry] = IF gap[u.entry] = {u} THEN 0 ELSE @]

(* The next update of an entry. *)
Advance(u) ==
  /\ ~ Stale(u) /\ ~ Ahead(u) /\ u.entry \in known
  /\ pts' = [pts EXCEPT ![u.entry] = u.pts]
  /\ Hand({u})
  /\ UNCHANGED <<known, dl, base>>

(* The first update seen of an entry: one that only repeats a position may *)
(* have come before the event of that position, so it counts for less.     *)
FirstPts(u) ==
  IF u.cnt # 0 THEN u.pts ELSE IF u.pts = 1 THEN 1 ELSE u.pts - 1

(* Events up to there are not owed (position 1 is where channels start). *)
StartOf(u) == IF u.cnt = 0 /\ u.pts > 1 THEN u.pts - 1 ELSE u.pts - u.cnt

TakeUp(u) ==
  LET e == u.entry IN
  /\ ~ Fetching(u) /\ e \notin known
  /\ known' = known \cup {e}
  /\ pts' = [pts EXCEPT ![e] = FirstPts(u)]
  /\ dl' = [dl EXCEPT ![e] = NoUpdatesTimeout]
  /\ base' = [base EXCEPT ![e] = StartOf(u)]
  /\ Hand({u})

ProcessUpdate ==
  /\ pc = "work"
  /\ \E u \in FirstOf(work) :
       /\ work' = work \ {u}
       /\ \/ /\ u.body = "tooLong" /\ TryBeginGetDiff(u.entry)
             /\ UNCHANGED <<known, pts, dl, base, out, twice>>
          \/ /\ u.body = "free" /\ Hand({u})
             /\ UNCHANGED <<known, pts, dl, gaps, getting, base>>
          \/ /\ Numbered(u) /\ Stale(u)
             /\ UNCHANGED <<known, pts, dl, gaps, getting, base, out, twice>>
          \/ /\ Numbered(u) /\ Ahead(u) /\ Hold(u)
             /\ UNCHANGED <<known, pts, dl, getting, base, out, twice>>
          \/ /\ Numbered(u) /\ (Advance(u) \/ TakeUp(u))
             /\ UNCHANGED <<gaps, getting>>
  /\ UNCHANGED <<server, nextDl, seq, hashes, pc, wait, req, call, retry, applied>>

(* All updates were looked at: those of the gaps get another chance. *)
StartRetry ==
  /\ pc = "work" /\ work = {}
  /\ pc' = "gaps" /\ retry' = UNION {gap[e] : e \in Entries}
  /\ UNCHANGED <<server, box, hashes, wait, req, call, work, out, history>>

(* The gaps of different entries do not touch each other, so one order of  *)
(* the entries stands for all.                                             *)
RetryGap ==
  /\ pc = "gaps"
  /\ \E u \in FirstOf(retry) :
       /\ retry' = retry \ {u}
       /\ \/ Ahead(u) /\ UNCHANGED <<known, pts, dl, gaps, base, out, twice>>
          \/ /\ Stale(u) /\ Release(u)
             /\ UNCHANGED <<known, pts, dl, base, out, twice>>
          \/ (Advance(u) \/ TakeUp(u)) /\ Release(u)
  /\ UNCHANGED <<server, getting, nextDl, seq, hashes, pc, wait, req, call, work,
                 applied>>

(* process_updates returns, its caller ends the difference it was applying *)
(* and the loop hands the updates to the dispatcher.                       *)
FinishProcess ==
  LET ended == IF call.from = "final" THEN getting \cap Pair ELSE {}
      postponed == IF call.from = "chan" THEN {req} ELSE ended
  IN /\ pc = "gaps" /\ retry = {}
     /\ seq' = IF out # {} /\ Gapped = {} /\ call.seq # NoSeq THEN call.seq ELSE seq
     /\ getting' = getting \ ended
     /\ ResetDeadlines(postponed, NoUpdatesTimeout)
     /\ applied' = Delivered /\ out' = {}
     /\ ExtendCache
     /\ pc' = "top" /\ req' = Down /\ call' = Idle
     /\ UNCHANGED <<server, known, pts, gaps, wait, work, retry, base, twice>>

-----------------------------------------------------------------------------
(* Answers to updates.getDifference                                        *)

Answered(from) == pc = from /\ pc' = "top"

(* What both kinds of request leave alone when no update comes back. *)
NoResult == UNCHANGED <<server, known, hashes, wait, running, out, twice>>

AccEmpty ==
  /\ Answered("acc")
  /\ \A e \in Pair : Between(e, pts[e], srv[e]) = {}
  /\ seq' = srvSeq
  /\ EndDifference
  /\ NoResult /\ UNCHANGED <<pts, gaps, req, base, applied>>

(* apply_difference_type: the state comes first, then the other updates    *)
(* are processed, and the new messages join the result.                    *)
AccDifference(from, p, q, s) ==
  LET evs == Between(ACCOUNT, pts[ACCOUNT], p) \cup Between(SECRET, pts[SECRET], q)
  IN /\ pc = "acc"
     /\ known' = known \cup Pair
     /\ pts' = [pts EXCEPT ![ACCOUNT] = p, ![SECRET] = q]
     /\ dl' = With(dl, Pair, NoUpdatesTimeout)
     /\ seq' = s
     /\ Hand(Messages(evs))
     /\ \E us \in Batches({u \in Pushable : u.entry \in Channels}) :
          work' = Others(evs) \cup us
     /\ call' = [from |-> from, seq |-> NoSeq]
     /\ pc' = "work"
     /\ UNCHANGED <<server, gaps, getting, nextDl, hashes, wait, req, retry, base,
                    applied>>

AccDiff ==
  /\ \E e \in Pair : Between(e, pts[e], srv[e]) # {}
  /\ AccDifference("final", srv[ACCOUNT], srv[SECRET], srvSeq)

AccSlice ==
  \E p \in Stops(ACCOUNT), q \in Stops(SECRET), s \in seq..srvSeq :
    /\ p # pts[ACCOUNT] \/ q # pts[SECRET]
    /\ AccDifference("slice", p, q, s)

AccTooLong ==
  /\ Answered("acc")
  /\ pts' = [pts EXCEPT ![ACCOUNT] = srv[ACCOUNT]]
  /\ base' = [base EXCEPT ![ACCOUNT] = srv[ACCOUNT]]
  /\ EndDifference
  /\ NoResult /\ UNCHANGED <<gaps, seq, req, applied>>

(* The server has issues: end_difference, to try again at the next deadline. *)
AccError ==
  /\ Answered("acc")
  /\ EndDifference
  /\ NoResult /\ UNCHANGED <<pts, gaps, seq, req, base, applied>>

(* Not logged in, or an unknown type: the client also disconnects. *)
AccFatal ==
  /\ pc = "acc" /\ pc' = "down"
  /\ EndDifference
  /\ NoResult /\ UNCHANGED <<pts, gaps, seq, req, base, applied>>

(* The network is down: the same request is made again. *)
AccOSError ==
  /\ Answered("acc")
  /\ NoResult
  /\ UNCHANGED <<pts, deadlines, gaps, getting, seq, req, base, applied>>

-----------------------------------------------------------------------------
(* Answers to updates.getChannelDifference, of channel req                 *)

ChanEmpty ==
  /\ Answered("chan") /\ req' = Down
  /\ Between(req, pts[req], srv[req]) = {}
  /\ ClearGaps({req}) /\ EndGetDiff({req})
  /\ pts' = [pts EXCEPT ![req] = srv[req]]
  /\ NoResult /\ UNCHANGED <<seq, base, applied>>

(* The position jumps, and the difference is asked for once more. *)
ChanTooLong ==
  /\ Answered("chan") /\ req' = Down
  /\ ClearGaps({req})
  /\ pts' = [pts EXCEPT ![req] = srv[req]]
  /\ base' = [base EXCEPT ![req] = srv[req]]
  /\ \E t \in 1..NoUpdatesTimeout : ResetDeadlines({req}, t)
  /\ ExtendCache
  /\ UNCHANGED <<server, known, getting, seq, wait, running, out, applied, twice>>

(* Mutant: the position of the difference is not stored. *)
ChanDifferenceKeepsPts(p) ==
  LET evs == Between(req, pts[req], p)
  IN /\ pc = "chan"
     /\ ClearGaps({req})
     /\ Hand(Messages(evs))
     /\ work' = Others(evs)
     /\ call' = [from |-> "chan", seq |-> NoSeq]
     /\ pc' = "work"
     /\ UNCHANGED <<server, known, pts, seq, hashes, wait, req, retry, base, applied>>

ChanDifference(p) ==
  LET evs == Between(req, pts[req], p)
  IN /\ pc = "chan"
     /\ ClearGaps({req})
     /\ pts' = [pts EXCEPT ![req] = p]
     /\ Hand(Messages(evs))
     /\ work' = Others(evs)
     /\ call' = [from |-> "chan", seq |-> NoSeq]
     /\ pc' = "work"
     /\ UNCHANGED <<server, known, seq, hashes, wait, req, retry, base, applied>>

ChanDiff ==
  /\ pc = "chan" /\ Between(req, pts[req], srv[req]) # {}
  /\ ChanDifference(srv[req])
  /\ EndGetDiff({req})

(* Not final: the difference goes on from where it stopped. *)
ChanSlice ==
  /\ pc = "chan"
  /\ \E p \in Stops(req) \ {pts[req]} : ChanDifference(p)
  /\ UNCHANGED <<getting, deadlines>>

ChanError ==
  /\ Answered("chan") /\ req' = Down
  /\ ClearGaps({req}) /\ EndGetDiff({req})
  /\ NoResult /\ UNCHANGED <<pts, seq, base, applied>>

ChanBanned ==
  /\ Answered("chan") /\ req' = Down
  /\ ClearGaps({req}) /\ Forget(req)
  /\ UNCHANGED <<server, seq, hashes, wait, running, out, twice>>

ChanFatal ==
  /\ pc = "chan" /\ pc' = "down" /\ req' = Down
  /\ ClearGaps({req}) /\ EndGetDiff({req})
  /\ NoResult /\ UNCHANGED <<pts, seq, base, applied>>

ChanOSError ==
  /\ Answered("chan") /\ req' = Down
  /\ NoResult
  /\ UNCHANGED <<pts, deadlines, gaps, getting, seq, base, applied>>

(* The user connects again: a new loop takes over the same box. *)
Reconnect ==
  /\ pc = "down" /\ pc' = "top"
  /\ UNCHANGED <<server, box, hashes, wait, req, running, out, history>>

-----------------------------------------------------------------------------
Environment == ServerEvent \/ ServerContainer \/ Tick \/ TrySetChannelState

Head == \/ FlushEntityCache \/ GetDifference \/ GetChannelDifference
        \/ DropChannel \/ MarkExpired \/ StartWaiting

Process == ProcessUpdate \/ StartRetry \/ RetryGap \/ FinishProcess

Queue == Receive \/ SkipContainer \/ LoseContainer \/ Timeout

AccAnswer == \/ AccEmpty \/ AccDiff \/ AccSlice \/ AccTooLong \/ AccError
             \/ AccFatal \/ AccOSError

ChanAnswer == \/ ChanEmpty \/ ChanTooLong \/ ChanDiff \/ ChanSlice \/ ChanError
              \/ ChanBanned \/ ChanFatal \/ ChanOSError

Next == \/ Environment \/ Head \/ Process \/ Queue \/ AccAnswer \/ ChanAnswer
        \/ Reconnect

Spec == Init /\ [][Next]_vars

(* The event loop runs the task of the updates whenever it can, time       *)
(* passes, and a server asked again and again answers in full at last.     *)
Fairness ==
  /\ WF_vars(GetDifference \/ GetChannelDifference \/ DropChannel)
  /\ WF_vars(MarkExpired \/ StartWaiting)
  /\ WF_vars(Process) /\ WF_vars(Timeout) /\ WF_vars(Reconnect)
  /\ SF_vars(Tick)
  /\ WF_vars(AccAnswer) /\ SF_vars(AccEmpty \/ AccDiff)
  /\ WF_vars(ChanAnswer) /\ SF_vars(ChanEmpty \/ ChanDiff \/ ChanBanned)

FairSpec == Spec /\ Fairness

-----------------------------------------------------------------------------
Calls == [from : {"socket", "final", "slice", "chan"}, seq : Nat]

TypeOK ==
  /\ srv \in [Entries -> Nat] /\ log \subseteq Event /\ srvSeq \in Nat
  /\ known \subseteq Entries /\ pts \in [Entries -> Nat]
  /\ dl \in [Entries -> 0..NoUpdatesTimeout]
  /\ gap \in [Entries -> SUBSET Update] /\ gapDl \in [Entries -> 0..GapTimeout]
  /\ getting \subseteq Entries /\ nextDl \in Entries /\ seq \in Nat
  /\ hashes \subseteq Channels
  /\ pc \in {"top", "wait", "acc", "chan", "work", "gaps", "down"}
  /\ wait \in 0..NoUpdatesTimeout /\ req \in Channels \cup {Down}
  /\ call \in Calls /\ work \subseteq Update /\ retry \subseteq Update
  /\ out \subseteq Update
  /\ base \in [Entries -> Nat] /\ applied \subseteq Event /\ twice \subseteq Event

(* None of the errors and assertions of the message box can be raised: a   *)
(* difference is only asked for, applied or ended for an entry with a      *)
(* state, which is marked as getting it and has no gap (lines 334, 407,    *)
(* 433, 437, 706, 763, 824 and 859), and map[next_deadline] exists.        *)
NoRaise ==
  /\ getting \subseteq known
  /\ Gapped \subseteq known /\ Gapped \cap getting = {}
  /\ nextDl \in known /\ ACCOUNT \in known
  /\ pc = "acc" => getting \cap Pair # {}
  /\ pc = "chan" => req \in getting \cap known
  /\ call.from = "final" => getting \cap Pair # {}
  /\ call.from = "chan" => req \in known

(* The entries whose updates come in order so far owe the dispatcher no    *)
(* message up to their position, whatever was lost on the way.             *)
NoLoss ==
  \A ev \in log : ( /\ ev.entry \in known /\ ev.body = "msg"
                    /\ base[ev.entry] < ev.pts /\ ev.pts <= pts[ev.entry] )
                  => ev \in Delivered

(* No event is handed to the dispatcher twice, although containers and     *)
(* differences overlap.                                                    *)
AtMostOnce == twice = {}

(* A position never moves backwards while its entry is followed: an answer *)
(* or an update that came late is not applied over newer ones.             *)
Monotone == [][\A e \in known \cap known' : pts[e] <= pts'[e]]_vars

Feed == INSTANCE UpdateFeed WITH
          end <- srv, pos <- pts, delivered <- Delivered

(* The message box is a feed of the server's events.                       *)
ImplementsFeed == Feed!Spec

(* A gap does not last: it resolves on its own or its difference is asked  *)
(* for (POSSIBLE_GAP_TIMEOUT).                                             *)
GapResolved == \A e \in Entries : (gap[e] # {}) ~> (gap[e] = {})

(* A difference that was begun is completed, or given up.                  *)
DiffEnds == \A e \in Entries : (e \in getting) ~> (e \notin getting)

(* What a caught-up client owes its handlers: every event, edits and       *)
(* deletions included, not only messages.  The code documents the          *)
(* difference as "the set of updates that the client should know by now    *)
(* minus the set of updates that it actually knows" (line 3).              *)
CatchUpComplete ==
  Awaiting =>
    \A ev \in log : ( /\ ev.entry \in known
                      /\ base[ev.entry] < ev.pts /\ ev.pts <= pts[ev.entry] )
                    => ev \in Delivered
=============================================================================
