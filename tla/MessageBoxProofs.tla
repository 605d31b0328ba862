------------------------- MODULE MessageBoxProofs -------------------------
(***************************************************************************)
(* The message box never raises, never goes back, hands nothing over twice *)
(* and implements UpdateFeed, for any entries, timeouts, bounds and        *)
(* containers.  IInv is inductive: it says that what waits in a queue came *)
(* from the server, that no position is ahead of the server's, and that    *)
(* what was handed over lies behind the position.                          *)
(***************************************************************************)
EXTENDS MessageBox, TLAPS

(* An update the server did send: an event of its log, a repetition of a   *)
(* position it reached, or an update without a number.                     *)
Genuine(u) ==
  \/ u \in log
  \/ u \in Update /\ u.body = "read" /\ u.cnt = 0 /\ u.pts \in 1..srv[u.entry]
  \/ u \in Update /\ u.body \in {"tooLong", "free"}

Queued ==
  /\ \A u \in work : Genuine(u)
  /\ \A u \in retry : Genuine(u) /\ Numbered(u)
  /\ \A e \in Entries : \A u \in gap[e] : Genuine(u) /\ Numbered(u) /\ u.entry = e

(* The ranges of the events of an entry lie one after the other. *)
ServerOK ==
  /\ \A e \in Entries : StartPts[e] <= srv[e]
  /\ \A ev \in log : ev.cnt <= ev.pts /\ ev.pts <= srv[ev.entry]
  /\ \A ev, fv \in log :
       ev.entry = fv.entry => \/ ev = fv
                              \/ ev.pts <= fv.pts - fv.cnt
                              \/ fv.pts <= ev.pts - ev.cnt

Positions ==
  /\ \A e \in Entries : pts[e] <= srv[e]
  /\ \A e \in Entries \ known : pts[e] = 0 /\ base[e] = 0

(* Outside of process_updates nothing is left of it. *)
IdleOK ==
  /\ pc # "work" => work = {}
  /\ pc \notin {"work", "gaps"} =>
       call.from = "socket" /\ retry = {} /\ out = {}

Handed ==
  /\ applied \subseteq log
  /\ \A ev \in Delivered : ev.entry \in known /\ ev.pts <= pts[ev.entry]
  /\ twice = {}

IInv == TypeOK /\ Queued /\ ServerOK /\ Positions /\ IdleOK /\ NoRaise /\ Handed

-----------------------------------------------------------------------------
(* Facts about the operators *)

LEMMA EntriesFact == /\ Pair \subseteq Entries /\ Channels \subseteq Entries
                     /\ ACCOUNT \in Entries /\ SECRET \in Entries
                     /\ ACCOUNT # SECRET /\ Down \notin Entries
                     /\ Channels \cap Pair = {}
                     /\ NoUpdatesTimeout \in Nat \ {0} /\ GapTimeout \in Nat
                     /\ GapTimeout <= NoUpdatesTimeout
                     /\ 0 \in 0..NoUpdatesTimeout /\ 0 \in 0..GapTimeout
                     /\ NoUpdatesTimeout \in 0..NoUpdatesTimeout
                     /\ GapTimeout \in 0..GapTimeout
  BY EntriesAssumption, TimeoutAssumption DEF Entries, Pair

(* Whatever update came from the server has a place in map. *)
LEMMA GenuineFact ==
  ASSUME TypeOK, ServerOK, NEW u, Genuine(u)
  PROVE  /\ u \in Update /\ u.entry \in Entries /\ u.pts \in Nat /\ u.cnt \in Nat
         /\ Numbered(u) => /\ u.cnt <= u.pts /\ u.pts <= srv[u.entry]
                           /\ u.cnt = 0 => 1 <= u.pts
         /\ u \in log => u \in Event /\ Numbered(u) /\ u.cnt # 0
  BY DEF TypeOK, ServerOK, Genuine, Update, Event, Numbered

LEMMA PushableFact ==
  ASSUME TypeOK, NEW u \in Pushable
  PROVE  Genuine(u)
  <1>1. CASE u \in log
    BY <1>1 DEF Genuine
  <1>2. CASE u \in Reads
    BY <1>2, EntriesFact DEF Reads, Read, Genuine, Update, TypeOK
  <1>3. CASE \E c \in Channels : u = TooLong(c)
    BY <1>3, EntriesFact DEF TooLong, Genuine, Update
  <1>4. CASE u = Free
    BY <1>4, EntriesFact DEF Free, Genuine, Update
  <1> QED  BY <1>1, <1>2, <1>3, <1>4 DEF Pushable

(* next_deadline stays a key of map when keys of map are postponed. *)
LEMMA NextDeadlineFact ==
  ASSUME NEW S, S \subseteq known, NEW t
  PROVE  NextDeadline(S, t) \subseteq known \cup {nextDl}
         /\ (nextDl \in known => NextDeadline(S, t) \subseteq known)
  BY DEF NextDeadline, Earliest

LEMMA BetweenFact ==
  ASSUME TypeOK, NEW e \in Entries, NEW p, NEW q
  PROVE  /\ Between(e, p, q) \subseteq log
         /\ \A ev \in Between(e, p, q) : ev.entry = e /\ p < ev.pts /\ ev.pts <= q
         /\ Messages(Between(e, p, q)) \subseteq Between(e, p, q)
         /\ Others(Between(e, p, q)) \subseteq Between(e, p, q)
  BY DEF Between, Messages, Others

LEMMA StopsFact ==
  ASSUME TypeOK, Positions, NEW e \in Entries, NEW p \in Stops(e)
  PROVE  p \in Nat /\ pts[e] <= p /\ p <= srv[e]
  BY DEF Stops, Between, TypeOK, Event, Positions

LEMMA ResetFact ==
  ASSUME TypeOK, nextDl \in known, NEW S, S \subseteq known,
         NEW t \in 0..NoUpdatesTimeout, ResetDeadlines(S, t)
  PROVE  dl' \in [Entries -> 0..NoUpdatesTimeout] /\ nextDl' \in known
  <1>1. dl' \in [Entries -> 0..NoUpdatesTimeout]
    BY DEF ResetDeadlines, TypeOK, With
  <1>2. nextDl' \in known
    BY NextDeadlineFact DEF ResetDeadlines
  <1> QED  BY <1>1, <1>2

LEMMA ClearFact ==
  ASSUME TypeOK, NEW S, ClearGaps(S)
  PROVE  /\ gap' \in [Entries -> SUBSET Update]
         /\ gapDl' \in [Entries -> 0..GapTimeout]
         /\ \A e \in Entries : gap'[e] = IF e \in S THEN {} ELSE gap[e]
  <1>1. {} \in SUBSET Update
    OBVIOUS
  <1>2. gap' \in [Entries -> SUBSET Update]
        /\ \A e \in Entries : gap'[e] = IF e \in S THEN {} ELSE gap[e]
    BY <1>1 DEF ClearGaps, TypeOK, With
  <1>3. gapDl' \in [Entries -> 0..GapTimeout]
    BY EntriesFact DEF ClearGaps, TypeOK, With
  <1> QED  BY <1>2, <1>3

(* When the difference of c ends and c leaves map, next_deadline moves to  *)
(* another key: the deadline of c was set last and no other is later.      *)
LEMMA ForgetFact ==
  ASSUME TypeOK, NoRaise, NEW c \in Channels \cap known, Forget(c)
  PROVE  /\ dl' \in [Entries -> 0..NoUpdatesTimeout]
         /\ nextDl' \in known' /\ nextDl' # c
         /\ known' = known \ {c} /\ getting' = getting \ {c}
         /\ pts' \in [Entries -> Nat] /\ base' \in [Entries -> Nat]
         /\ \A e \in Entries : pts'[e] = IF e = c THEN 0 ELSE pts[e]
         /\ \A e \in Entries : base'[e] = IF e = c THEN 0 ELSE base[e]
         /\ applied' = {u \in applied : u.entry # c}
  <1>1. dl' \in [Entries -> 0..NoUpdatesTimeout]
    BY EntriesFact DEF Forget, TypeOK, With
  <1>2. /\ pts' \in [Entries -> Nat] /\ base' \in [Entries -> Nat]
        /\ \A e \in Entries : pts'[e] = IF e = c THEN 0 ELSE pts[e]
        /\ \A e \in Entries : base'[e] = IF e = c THEN 0 ELSE base[e]
    <2>1. 0 \in Nat  OBVIOUS
    <2> QED  BY <2>1 DEF Forget, TypeOK, With
  <1>3. nextDl' \in known /\ nextDl' # c
    <2> DEFINE d == With(dl, {c}, NoUpdatesTimeout)
    <2>1. /\ d \in [Entries -> 0..NoUpdatesTimeout] /\ d[c] = NoUpdatesTimeout
          /\ c \in Entries /\ c # ACCOUNT /\ known \subseteq Entries
      BY EntriesFact DEF TypeOK, Pair, With
    <2>2. nextDl \in known /\ nextDl' \in NextDeadline({c}, NoUpdatesTimeout)
      BY DEF NoRaise, Forget
    <2>3. CASE nextDl = c
      <3>1. nextDl' \in Earliest({c}, d)
        BY <2>2, <2>3 DEF NextDeadline
      <3> DEFINE m == {e \in known : d[e] \in Least({d[f] : f \in known})}
      <3>2. nextDl' \in (IF m \subseteq {c} THEN m ELSE m \ {c})
        BY <3>1 DEF Earliest
      <3> HIDE DEF d
      <3>3. c \in m => ACCOUNT \in m
        <4> SUFFICES ASSUME c \in m PROVE ACCOUNT \in m  OBVIOUS
        <4>1. \A f \in known : d[c] <= d[f]
          BY DEF Least
        <4>2. d[ACCOUNT] = d[c]
          BY <2>1, <4>1, EntriesFact DEF NoRaise
        <4> QED  BY <4>2 DEF NoRaise
      <3>4. ACCOUNT # c  BY <2>1
      <3> QED  BY <3>2, <3>3, <3>4
    <2>4. CASE nextDl # c
      <3>1. dl[nextDl] \in 0..NoUpdatesTimeout
        BY <2>1, <2>2 DEF TypeOK
      <3>2. ~ NoUpdatesTimeout < dl[nextDl]
        BY <3>1, EntriesFact
      <3> QED  BY <2>2, <2>4, <3>2 DEF NextDeadline
    <2> QED  BY <2>3, <2>4
  <1> QED  BY <1>1, <1>2, <1>3 DEF Forget

-----------------------------------------------------------------------------
(* Types *)

LEMMA EnvironmentType == IInv /\ Environment => TypeOK'
  <1> SUFFICES ASSUME IInv, Environment PROVE TypeOK'  OBVIOUS
  <1> USE DEF IInv, server, box, gaps, running, history
  <1>1. CASE ServerEvent
    <2>1. PICK e \in Entries, n \in Counts, b \in Bodies :
            /\ srv' = [srv EXCEPT ![e] = @ + n]
            /\ log' = log \cup
                 {[entry |-> e, pts |-> srv[e] + n, cnt |-> n, body |-> b]}
      BY <1>1 DEF ServerEvent
    <2>2. n \in Nat \ {0} /\ b \in {"msg", "other"}
      BY ServerAssumption
    <2>3. log' \subseteq Event /\ srv' \in [Entries -> Nat]
      BY <2>1, <2>2 DEF TypeOK, Event
    <2> QED  BY <1>1, <2>3 DEF ServerEvent, TypeOK
  <1>2. CASE ServerContainer
    BY <1>2 DEF ServerContainer, TypeOK
  <1>3. CASE Tick
    <2>1. dl' \in [Entries -> 0..NoUpdatesTimeout]
      BY <1>3, EntriesFact DEF Tick, Less, TypeOK
    <2>2. gapDl' \in [Entries -> 0..GapTimeout]
      BY <1>3, EntriesFact DEF Tick, Less, TypeOK
    <2>3. wait' \in 0..NoUpdatesTimeout
      BY <1>3, EntriesFact DEF Tick, TypeOK
    <2> QED  BY <1>3, <2>1, <2>2, <2>3 DEF Tick, TypeOK
  <1>4. CASE TrySetChannelState
    <2>1. PICK c \in Channels \ known :
            \E p \in ({StartPts[c]} \cup {ev.pts : ev \in Between(c, 0, srv[c])}) \ {0} :
              /\ known' = known \cup {c}
              /\ pts' = [pts EXCEPT ![c] = p] /\ base' = [base EXCEPT ![c] = p]
              /\ dl' = [dl EXCEPT ![c] = NoUpdatesTimeout]
      BY <1>4 DEF TrySetChannelState
    <2>2. PICK p \in {StartPts[c]} \cup {ev.pts : ev \in Between(c, 0, srv[c])} :
              /\ known' = known \cup {c}
              /\ pts' = [pts EXCEPT ![c] = p] /\ base' = [base EXCEPT ![c] = p]
              /\ dl' = [dl EXCEPT ![c] = NoUpdatesTimeout]
      BY <2>1
    <2>3. c \in Entries
      BY EntriesFact
    <2>4. \A ev \in Between(c, 0, srv[c]) : ev.pts \in Nat
      BY DEF Between, TypeOK, Event
    <2>5. p \in Nat
      BY <2>3, <2>4, ServerAssumption
    <2>6. /\ known' \subseteq Entries
          /\ pts' \in [Entries -> Nat] /\ base' \in [Entries -> Nat]
          /\ dl' \in [Entries -> 0..NoUpdatesTimeout]
          /\ hashes' \subseteq Channels
      BY <1>4, <2>2, <2>3, <2>5, EntriesFact DEF TypeOK, TrySetChannelState, ExtendCache
    <2> QED  BY <1>4, <2>6 DEF TrySetChannelState, TypeOK
  <1> QED  BY <1>1, <1>2, <1>3, <1>4 DEF Environment

LEMMA HeadType == IInv /\ Head => TypeOK'
  <1> SUFFICES ASSUME IInv, Head PROVE TypeOK'  OBVIOUS
  <1> USE DEF IInv, server, box, gaps, deadlines, running, history
  <1>1. CASE FlushEntityCache
    BY <1>1 DEF FlushEntityCache, TypeOK
  <1>2. CASE GetDifference
    BY <1>2 DEF GetDifference, TypeOK
  <1>3. CASE GetChannelDifference
    BY <1>3 DEF GetChannelDifference, TypeOK
  <1>4. CASE DropChannel
    <2>1. PICK c \in getting \ hashes : Forget(c)
      BY <1>4 DEF DropChannel
    <2>2. c \in Channels \cap known
      BY <1>4, <2>1 DEF DropChannel, NoRaise, TypeOK, Entries, Pair
    <2>3. /\ dl' \in [Entries -> 0..NoUpdatesTimeout]
          /\ nextDl' \in known' /\ known' \subseteq known /\ getting' \subseteq getting
          /\ pts' \in [Entries -> Nat] /\ base' \in [Entries -> Nat]
          /\ applied' \subseteq applied
      BY <2>1, <2>2, ForgetFact
    <2> QED  BY <1>4, <2>3 DEF DropChannel, TypeOK
  <1>5. CASE MarkExpired
    <2>1. /\ gap' \in [Entries -> SUBSET Update] /\ gapDl' \in [Entries -> 0..GapTimeout]
      BY <1>5, ClearFact DEF MarkExpired
    <2>2. getting' \subseteq Entries
      BY <1>5 DEF MarkExpired, Gapped, TypeOK
    <2> QED  BY <1>5, <2>1, <2>2 DEF MarkExpired, TypeOK
  <1>6. CASE StartWaiting
    <2>1. wait' \in 0..NoUpdatesTimeout
      BY <1>6, EntriesFact DEF StartWaiting, Deadline, Least, Gapped, TypeOK
    <2> QED  BY <1>6, <2>1 DEF StartWaiting, TypeOK
  <1> QED  BY <1>1, <1>2, <1>3, <1>4, <1>5, <1>6 DEF Head

LEMMA QueueType == IInv /\ Queue => TypeOK'
  <1> SUFFICES ASSUME IInv, Queue PROVE TypeOK'  OBVIOUS
  <1> USE DEF IInv, Received, server, box, gaps, deadlines, running, history
  <1>1. CASE Receive
    <2>1. work' \subseteq Update
      BY <1>1, PushableFact, GenuineFact DEF Receive, Batches
    <2>2. call' \in Calls
      BY <1>1 DEF Receive, Calls, NoSeq, TypeOK
    <2> QED  BY <1>1, <2>1, <2>2, EntriesFact DEF Receive, TypeOK
  <1>2. CASE SkipContainer
    BY <1>2, EntriesFact DEF SkipContainer, ExtendCache, TypeOK
  <1>3. CASE LoseContainer
    <2>1. /\ gap' \in [Entries -> SUBSET Update] /\ gapDl' \in [Entries -> 0..GapTimeout]
          /\ getting' \subseteq Entries
      BY <1>3, ClearFact DEF LoseContainer, TryBeginGetDiff, TypeOK
    <2> QED  BY <1>3, <2>1, EntriesFact DEF LoseContainer, TypeOK
  <1>4. CASE Timeout
    BY <1>4 DEF Timeout, TypeOK
  <1> QED  BY <1>1, <1>2, <1>3, <1>4 DEF Queue

(* What one update may do to the variables it touches. *)
LEMMA HoldType ==
  ASSUME TypeOK, NEW u \in Update, Hold(u)
  PROVE  gap' \in [Entries -> SUBSET Update] /\ gapDl' \in [Entries -> 0..GapTimeout]
  BY EntriesFact DEF Hold, TypeOK, Update

LEMMA ReleaseType ==
  ASSUME TypeOK, NEW u \in Update, Release(u)
  PROVE  gap' \in [Entries -> SUBSET Update] /\ gapDl' \in [Entries -> 0..GapTimeout]
  BY EntriesFact DEF Release, TypeOK, Update

LEMMA HandType ==
  ASSUME TypeOK, NEW us \in SUBSET Update, Hand(us)
  PROVE  out' \subseteq Update /\ twice' \subseteq Event
  BY DEF Hand, Delivered, TypeOK

LEMMA TakeType ==
  ASSUME TypeOK, ServerOK, NEW u, Genuine(u), Numbered(u), Advance(u) \/ TakeUp(u)
  PROVE  /\ known' \subseteq Entries /\ pts' \in [Entries -> Nat]
         /\ dl' \in [Entries -> 0..NoUpdatesTimeout] /\ base' \in [Entries -> Nat]
         /\ out' \subseteq Update /\ twice' \subseteq Event
  <1>1. /\ u \in Update /\ u.entry \in Entries /\ u.pts \in Nat /\ u.cnt \in Nat
        /\ u.cnt <= u.pts /\ (u.cnt = 0 => 1 <= u.pts)
    BY GenuineFact
  <1>2. FirstPts(u) \in Nat /\ StartOf(u) \in Nat
    BY <1>1 DEF FirstPts, StartOf
  <1>3. CASE Advance(u)
    BY <1>1, <1>3, HandType DEF Advance, TypeOK
  <1>4. CASE TakeUp(u)
    BY <1>1, <1>2, <1>4, HandType, EntriesFact DEF TakeUp, TypeOK
  <1> QED  BY <1>3, <1>4

LEMMA ProcessType == IInv /\ Process => TypeOK'
  <1> SUFFICES ASSUME IInv, Process PROVE TypeOK'  OBVIOUS
  <1> USE DEF IInv, server, box, gaps, deadlines, running, history
  <1>1. CASE ProcessUpdate
    <2>1. PICK u \in FirstOf(work) :
            /\ work' = work \ {u}
            /\ \/ /\ u.body = "tooLong" /\ TryBeginGetDiff(u.entry)
                  /\ UNCHANGED <<known, pts, dl, base, out, twice>>
               \/ /\ u.body = "free" /\ Hand({u})
                  /\ UNCHANGED <<known, pts, dl, gaps, getting, base>>
               \/ /\ Numbered(u) /\ Stale(u)
                  /\ UNCHANGED <<known, pts, dl, gaps, getting, base, out, twice>>
               \/ /\ Numbered(u) /\ Ahead(u) /\ Hold(u)
                  /\ UNCHANGED <<known, pts, dl, getting, base, out, twice>>
               \/ /\ Numbered(u) /\ (Advance(u) \/ TakeUp(u))
                  /\ UNCHANGED <<gaps, getting>>
      BY <1>1 DEF ProcessUpdate
    <2>2. u \in Update /\ Genuine(u) /\ work' \subseteq Update
      BY <2>1 DEF FirstOf, Queued, TypeOK
    <2>3. UNCHANGED <<server, nextDl, seq, hashes, pc, wait, req, call, retry, applied>>
      BY <1>1 DEF ProcessUpdate
    <2>4. CASE u.body = "tooLong" /\ TryBeginGetDiff(u.entry)
               /\ UNCHANGED <<known, pts, dl, base, out, twice>>
      <3>1. /\ gap' \in [Entries -> SUBSET Update]
            /\ gapDl' \in [Entries -> 0..GapTimeout] /\ getting' \subseteq Entries
        BY <2>4, ClearFact DEF TryBeginGetDiff, TypeOK
      <3> QED  BY <2>2, <2>3, <2>4, <3>1 DEF TypeOK
    <2>5. CASE Hand({u}) /\ UNCHANGED <<known, pts, dl, gaps, getting, base>>
      <3>1. out' \subseteq Update /\ twice' \subseteq Event
        BY <2>2, <2>5, HandType
      <3> QED  BY <2>2, <2>3, <2>5, <3>1 DEF TypeOK
    <2>6. CASE UNCHANGED <<known, pts, dl, gaps, getting, base, out, twice>>
      BY <2>2, <2>3, <2>6 DEF TypeOK
    <2>7. CASE Hold(u) /\ UNCHANGED <<known, pts, dl, getting, base, out, twice>>
      BY <2>2, <2>3, <2>7, HoldType DEF TypeOK
    <2>8. CASE Numbered(u) /\ (Advance(u) \/ TakeUp(u)) /\ UNCHANGED <<gaps, getting>>
      BY <2>2, <2>3, <2>8, TakeType DEF TypeOK
    <2> QED  BY <2>1, <2>4, <2>5, <2>6, <2>7, <2>8
  <1>2. CASE StartRetry
    BY <1>2 DEF StartRetry, TypeOK
  <1>3. CASE RetryGap
    <2>1. PICK u \in FirstOf(retry) :
            /\ retry' = retry \ {u}
            /\ \/ Ahead(u) /\ UNCHANGED <<known, pts, dl, gaps, base, out, twice>>
               \/ /\ Stale(u) /\ Release(u)
                  /\ UNCHANGED <<known, pts, dl, base, out, twice>>
               \/ (Advance(u) \/ TakeUp(u)) /\ Release(u)
      BY <1>3 DEF RetryGap
    <2>2. u \in Update /\ Genuine(u) /\ Numbered(u) /\ retry' \subseteq Update
      BY <2>1 DEF FirstOf, Queued, TypeOK
    <2>3. UNCHANGED <<server, getting, nextDl, seq, hashes, pc, wait, req, call, work,
                      applied>>
      BY <1>3 DEF RetryGap
    <2>4. CASE UNCHANGED <<known, pts, dl, gaps, base, out, twice>>
      BY <2>2, <2>3, <2>4 DEF TypeOK
    <2>5. CASE Release(u) /\ UNCHANGED <<known, pts, dl, base, out, twice>>
      BY <2>2, <2>3, <2>5, ReleaseType DEF TypeOK
    <2>6. CASE (Advance(u) \/ TakeUp(u)) /\ Release(u)
      BY <2>2, <2>3, <2>6, ReleaseType, TakeType DEF TypeOK
    <2> QED  BY <2>1, <2>4, <2>5, <2>6
  <1>4. CASE FinishProcess
    <2> DEFINE ended == IF call.from = "final" THEN getting \cap Pair ELSE {}
               postponed == IF call.from = "chan" THEN {req} ELSE ended
    <2>1. postponed \subseteq known /\ nextDl \in known
      BY DEF NoRaise
    <2>2. ResetDeadlines(postponed, NoUpdatesTimeout)
      BY <1>4 DEF FinishProcess
    <2>3. dl' \in [Entries -> 0..NoUpdatesTimeout] /\ nextDl' \in known
      BY <2>1, <2>2, ResetFact, EntriesFact
    <2>4. /\ seq' \in Nat /\ getting' \subseteq Entries /\ hashes' \subseteq Channels
          /\ applied' \subseteq Event /\ call' \in Calls
      BY <1>4 DEF FinishProcess, TypeOK, ExtendCache, Delivered, Calls, Idle, NoSeq
    <2> QED  BY <1>4, <2>3, <2>4 DEF FinishProcess, TypeOK
  <1> QED  BY <1>1, <1>2, <1>3, <1>4 DEF Process

(* end_get_diff, of entries whose difference is pending. *)
LEMMA EndType ==
  ASSUME IInv, NEW S, S \subseteq getting, EndGetDiff(S)
  PROVE  /\ dl' \in [Entries -> 0..NoUpdatesTimeout] /\ nextDl' \in known
         /\ getting' \subseteq getting /\ nextDl' \in Entries
  <1>1. S \subseteq known /\ nextDl \in known /\ known \subseteq Entries
    BY DEF IInv, NoRaise, TypeOK
  <1>2. dl' \in [Entries -> 0..NoUpdatesTimeout] /\ nextDl' \in known
    BY <1>1, ResetFact, EntriesFact DEF IInv, EndGetDiff
  <1> QED  BY <1>1, <1>2 DEF EndGetDiff

LEMMA AccDifferenceType ==
  ASSUME IInv, NEW from \in {"final", "slice"}, NEW p \in Nat, NEW q \in Nat,
         NEW s \in Nat, AccDifference(from, p, q, s)
  PROVE  TypeOK'
  <1> DEFINE evs == Between(ACCOUNT, pts[ACCOUNT], p) \cup Between(SECRET, pts[SECRET], q)
  <1>1. evs \subseteq Update /\ Messages(evs) \subseteq Update /\ Others(evs) \subseteq Update
    BY DEF IInv, TypeOK, Between, Messages, Others, Event, Update
  <1>2. out' \subseteq Update /\ twice' \subseteq Event
    BY <1>1, HandType DEF AccDifference, IInv
  <1>3. work' \subseteq Update
    BY <1>1, PushableFact, GenuineFact DEF AccDifference, Batches, IInv
  <1>4. dl' \in [Entries -> 0..NoUpdatesTimeout] /\ known' \subseteq Entries
    BY EntriesFact DEF AccDifference, With, IInv, TypeOK
  <1>5. pts' \in [Entries -> Nat] /\ call' \in Calls
    BY DEF AccDifference, IInv, TypeOK, Calls, NoSeq
  <1> QED
    BY <1>2, <1>3, <1>4, <1>5
    DEF AccDifference, IInv, TypeOK, server, gaps

LEMMA AccAnswerType == IInv /\ AccAnswer => TypeOK'
  <1> SUFFICES ASSUME IInv, AccAnswer PROVE TypeOK'  OBVIOUS
  <1> USE DEF IInv, Answered, NoResult, server, gaps, deadlines, running
  <1>1. getting \cap Pair \subseteq getting  OBVIOUS
  <1>2. EndDifference => /\ dl' \in [Entries -> 0..NoUpdatesTimeout]
                         /\ getting' \subseteq getting /\ nextDl' \in Entries
    BY <1>1, EndType DEF EndDifference
  <1>3. srv[ACCOUNT] \in Nat /\ srv[SECRET] \in Nat
    BY EntriesFact DEF TypeOK
  <1>4. CASE AccEmpty
    BY <1>2, <1>4 DEF AccEmpty, TypeOK
  <1>5. CASE AccDiff
    BY <1>3, <1>5, AccDifferenceType DEF AccDiff, TypeOK
  <1>6. CASE AccSlice
    <2>1. PICK p \in Stops(ACCOUNT), q \in Stops(SECRET), s \in seq..srvSeq :
            AccDifference("slice", p, q, s)
      BY <1>6 DEF AccSlice
    <2>2. p \in Nat /\ q \in Nat /\ s \in Nat
      BY EntriesFact, StopsFact DEF TypeOK
    <2> QED  BY <2>1, <2>2, AccDifferenceType
  <1>7. CASE AccTooLong
    BY <1>2, <1>3, <1>7 DEF AccTooLong, TypeOK
  <1>8. CASE AccError
    BY <1>2, <1>8 DEF AccError, TypeOK
  <1>9. CASE AccFatal
    BY <1>2, <1>9 DEF AccFatal, TypeOK
  <1>10. CASE AccOSError
    BY <1>10 DEF AccOSError, TypeOK
  <1> QED  BY <1>4, <1>5, <1>6, <1>7, <1>8, <1>9, <1>10 DEF AccAnswer

(* The channel of the request in flight is followed. *)
LEMMA ReqFact == ASSUME IInv, pc = "chan"
                 PROVE  /\ req \in Channels /\ req \in Entries
                        /\ req \in getting /\ req \in known
  BY EntriesFact DEF IInv, NoRaise, TypeOK

LEMMA ChanDifferenceType ==
  ASSUME IInv, NEW p \in Nat, ChanDifference(p)
  PROVE  /\ gap' \in [Entries -> SUBSET Update] /\ gapDl' \in [Entries -> 0..GapTimeout]
         /\ pts' \in [Entries -> Nat] /\ call' \in Calls
         /\ out' \subseteq Update /\ twice' \subseteq Event /\ work' \subseteq Update
  <1> DEFINE evs == Between(req, pts[req], p)
  <1>1. Messages(evs) \subseteq Update /\ Others(evs) \subseteq Update
    BY DEF IInv, TypeOK, Between, Messages, Others, Event, Update
  <1>2. gap' \in [Entries -> SUBSET Update] /\ gapDl' \in [Entries -> 0..GapTimeout]
    BY ClearFact DEF ChanDifference, IInv
  <1>3. out' \subseteq Update /\ twice' \subseteq Event /\ work' \subseteq Update
    BY <1>1, HandType DEF ChanDifference, IInv
  <1>4. pts' \in [Entries -> Nat] /\ call' \in Calls
    BY DEF ChanDifference, IInv, TypeOK, Calls, NoSeq
  <1> QED  BY <1>2, <1>3, <1>4

LEMMA ChanAnswerType == IInv /\ ChanAnswer => TypeOK'
  <1> SUFFICES ASSUME IInv, ChanAnswer PROVE TypeOK'  OBVIOUS
  <1> USE DEF Answered, NoResult, server, gaps, deadlines, running
  <1>0. TypeOK  BY DEF IInv
  <1>1. pc = "chan"
    BY DEF ChanAnswer, ChanEmpty, ChanTooLong, ChanDiff, ChanSlice, ChanError,
           ChanBanned, ChanFatal, ChanOSError
  <1>2. /\ req \in Channels /\ req \in Entries /\ {req} \subseteq getting /\ req \in known
        /\ srv[req] \in Nat
    BY <1>0, <1>1, ReqFact DEF TypeOK
  <1>3. EndGetDiff({req}) => /\ dl' \in [Entries -> 0..NoUpdatesTimeout]
                             /\ getting' \subseteq getting /\ nextDl' \in Entries
    BY <1>2, EndType
  <1>4. ClearGaps({req}) => /\ gap' \in [Entries -> SUBSET Update]
                            /\ gapDl' \in [Entries -> 0..GapTimeout]
    BY <1>0, ClearFact
  <1>5. CASE ChanEmpty
    BY <1>0, <1>2, <1>3, <1>4, <1>5 DEF ChanEmpty, TypeOK
  <1>6. CASE ChanTooLong
    <2>1. PICK t \in 1..NoUpdatesTimeout : ResetDeadlines({req}, t)
      BY <1>6 DEF ChanTooLong
    <2>2. t \in 0..NoUpdatesTimeout /\ {req} \subseteq known /\ nextDl \in known
      BY <1>2, EntriesFact DEF IInv, NoRaise
    <2>3. dl' \in [Entries -> 0..NoUpdatesTimeout] /\ nextDl' \in Entries
      BY <1>0, <2>1, <2>2, ResetFact DEF TypeOK
    <2> QED  BY <1>0, <1>2, <1>4, <1>6, <2>3 DEF ChanTooLong, TypeOK, ExtendCache
  <1>7. CASE ChanDiff
    <2>1. ChanDifference(srv[req]) /\ EndGetDiff({req})
      BY <1>7 DEF ChanDiff
    <2> QED
      BY <1>0, <1>2, <1>3, <2>1, ChanDifferenceType DEF ChanDifference, TypeOK
  <1>8. CASE ChanSlice
    <2>1. PICK p \in Stops(req) : ChanDifference(p)
      BY <1>8 DEF ChanSlice
    <2>2. p \in Nat
      BY <1>2, StopsFact DEF IInv
    <2> QED
      BY <1>0, <1>8, <2>1, <2>2, ChanDifferenceType DEF ChanDifference, ChanSlice, TypeOK
  <1>9. CASE ChanError
    BY <1>0, <1>3, <1>4, <1>9 DEF ChanError, TypeOK
  <1>10. CASE ChanBanned
    <2>1. /\ dl' \in [Entries -> 0..NoUpdatesTimeout]
          /\ nextDl' \in known' /\ known' \subseteq known /\ getting' \subseteq getting
          /\ pts' \in [Entries -> Nat] /\ base' \in [Entries -> Nat]
          /\ applied' \subseteq applied
      BY <1>2, <1>10, ForgetFact DEF ChanBanned, IInv
    <2> QED  BY <1>0, <1>4, <1>10, <2>1 DEF ChanBanned, TypeOK
  <1>11. CASE ChanFatal
    BY <1>0, <1>3, <1>4, <1>11 DEF ChanFatal, TypeOK
  <1>12. CASE ChanOSError
    BY <1>0, <1>12 DEF ChanOSError, TypeOK
  <1> QED
    BY <1>5, <1>6, <1>7, <1>8, <1>9, <1>10, <1>11, <1>12 DEF ChanAnswer

LEMMA TypeStep == IInv /\ [Next]_vars => TypeOK'
  <1>1. IInv /\ Reconnect => TypeOK'
    BY DEF IInv, Reconnect, TypeOK, server, box, running, history
  <1>2. IInv /\ UNCHANGED vars => TypeOK'
    BY DEF IInv, vars, TypeOK
  <1> QED
    BY <1>1, <1>2, EnvironmentType, HeadType, QueueType, ProcessType, AccAnswerType,
       ChanAnswerType DEF Next

-----------------------------------------------------------------------------
(* The server *)

LEMMA ServerFrame == Next => ServerEvent \/ UNCHANGED <<srv, log>>
  <1> USE DEF server
  <1>1. Environment => ServerEvent \/ UNCHANGED <<srv, log>>
    BY DEF Environment, ServerContainer, Tick, TrySetChannelState
  <1>2. Head => UNCHANGED <<srv, log>>
    BY DEF Head, FlushEntityCache, GetDifference, GetChannelDifference, DropChannel,
           MarkExpired, StartWaiting
  <1>3. Queue => UNCHANGED <<srv, log>>
    BY DEF Queue, Receive, SkipContainer, LoseContainer, Timeout
  <1>4. Process => UNCHANGED <<srv, log>>
    BY DEF Process, ProcessUpdate, StartRetry, RetryGap, FinishProcess
  <1>5. AccAnswer => UNCHANGED <<srv, log>>
    BY DEF AccAnswer, AccEmpty, AccDiff, AccSlice, AccDifference, AccTooLong, AccError,
           AccFatal, AccOSError, NoResult
  <1>6. ChanAnswer => UNCHANGED <<srv, log>>
    BY DEF ChanAnswer, ChanEmpty, ChanTooLong, ChanDiff, ChanSlice, ChanDifference,
           ChanError, ChanBanned, ChanFatal, ChanOSError, NoResult
  <1>7. Reconnect => UNCHANGED <<srv, log>>
    BY DEF Reconnect
  <1> QED  BY <1>1, <1>2, <1>3, <1>4, <1>5, <1>6, <1>7 DEF Next

(* The new event starts where the last one of its entry ended. *)
LEMMA ServerEventFact ==
  ASSUME IInv, ServerEvent
  PROVE  \E ev \in log' :
           /\ ev \in Event /\ ev.pts = srv[ev.entry] + ev.cnt
           /\ log' = log \cup {ev} /\ srv' = [srv EXCEPT ![ev.entry] = ev.pts]
  <1>1. PICK e \in Entries, n \in Counts, b \in Bodies :
          /\ srv' = [srv EXCEPT ![e] = @ + n]
          /\ log' = log \cup
               {[entry |-> e, pts |-> srv[e] + n, cnt |-> n, body |-> b]}
    BY DEF ServerEvent
  <1> DEFINE ev == [entry |-> e, pts |-> srv[e] + n, cnt |-> n, body |-> b]
  <1>2. n \in Nat \ {0} /\ b \in {"msg", "other"} /\ srv[e] \in Nat
    BY ServerAssumption DEF IInv, TypeOK
  <1>3. ev \in Event
    BY <1>2 DEF Event
  <1>4. ev \in log' /\ log' = log \cup {ev}
    BY <1>1
  <1>5. ev.pts = srv[ev.entry] + ev.cnt /\ srv' = [srv EXCEPT ![ev.entry] = ev.pts]
    BY <1>1, <1>2
  <1> HIDE DEF ev
  <1> QED  BY <1>3, <1>4, <1>5

LEMMA ServerStep == IInv /\ [Next]_vars => ServerOK'
  <1> SUFFICES ASSUME IInv, [Next]_vars PROVE ServerOK'  OBVIOUS
  <1>1. CASE ServerEvent
    <2>1. PICK ev \in log' :
            /\ ev \in Event /\ ev.pts = srv[ev.entry] + ev.cnt
            /\ log' = log \cup {ev} /\ srv' = [srv EXCEPT ![ev.entry] = ev.pts]
      BY <1>1, ServerEventFact
    <2>2. /\ ev.entry \in Entries /\ ev.pts \in Nat /\ ev.cnt \in Nat \ {0}
          /\ srv[ev.entry] \in Nat /\ srv \in [Entries -> Nat]
      BY <2>1 DEF Event, IInv, TypeOK
    <2>3. \A fv \in log : fv.entry \in Entries /\ fv.pts \in Nat /\ fv.cnt \in Nat
      BY DEF IInv, TypeOK, Event
    <2>4. \A e \in Entries : StartPts[e] <= srv'[e]
      BY <2>1, <2>2, ServerAssumption DEF IInv, ServerOK
    <2>5. \A fv \in log' : fv.cnt <= fv.pts /\ fv.pts <= srv'[fv.entry]
      BY <2>1, <2>2, <2>3 DEF IInv, ServerOK
    <2>6. \A fv \in log : fv.entry = ev.entry => fv.pts <= ev.pts - ev.cnt
      BY <2>1, <2>2, <2>3 DEF IInv, ServerOK
    <2>7. \A fv, gv \in log' :
            fv.entry = gv.entry => \/ fv = gv
                                   \/ fv.pts <= gv.pts - gv.cnt
                                   \/ gv.pts <= fv.pts - fv.cnt
      BY <2>1, <2>6 DEF IInv, ServerOK
    <2> QED  BY <2>4, <2>5, <2>7 DEF ServerOK
  <1>2. CASE UNCHANGED <<srv, log>>
    BY <1>2 DEF IInv, ServerOK
  <1> QED  BY <1>1, <1>2, ServerFrame DEF vars

(* What the server once sent, it still has. *)
LEMMA GenuineKept ==
  ASSUME IInv, [Next]_vars, NEW u, Genuine(u)
  PROVE  Genuine(u)'
  <1>1. CASE ServerEvent
    <2>1. PICK ev \in log' :
            /\ ev \in Event /\ ev.pts = srv[ev.entry] + ev.cnt
            /\ log' = log \cup {ev} /\ srv' = [srv EXCEPT ![ev.entry] = ev.pts]
      BY <1>1, ServerEventFact
    <2>2. \A e \in Entries : srv[e] \in Nat /\ srv'[e] \in Nat /\ srv[e] <= srv'[e]
      BY <2>1 DEF Event, IInv, TypeOK
    <2>3. u.entry \in Entries /\ u.pts \in Nat
      BY GenuineFact DEF IInv
    <2> QED  BY <2>1, <2>2, <2>3 DEF Genuine
  <1>2. CASE UNCHANGED <<srv, log>>
    BY <1>2 DEF Genuine
  <1> QED  BY <1>1, <1>2, ServerFrame DEF vars

-----------------------------------------------------------------------------
(* What waits in a queue came from the server *)

(* The gaps of an entry are dropped as a whole, or left alone. *)
LEMMA ClearShrinks ==
  ASSUME TypeOK, NEW S, ClearGaps(S)
  PROVE  \A e \in Entries : gap'[e] \subseteq gap[e]
  BY ClearFact

LEMMA QueueFrame ==
  ASSUME IInv, Next, ~ Receive, ~ ProcessUpdate, ~ StartRetry, ~ RetryGap,
         ~ AccDiff, ~ AccSlice, ~ ChanDiff, ~ ChanSlice
  PROVE  work' = work /\ retry' = retry /\ \A e \in Entries : gap'[e] \subseteq gap[e]
  <1> USE DEF server, box, gaps, running
  <1>0. TypeOK  BY DEF IInv
  <1>1. CASE Environment
    BY <1>1 DEF Environment, ServerEvent, ServerContainer, Tick, TrySetChannelState
  <1>2. CASE Head
    BY <1>0, <1>2, ClearShrinks
    DEF Head, FlushEntityCache, GetDifference, GetChannelDifference, DropChannel,
        MarkExpired, StartWaiting
  <1>3. CASE Queue
    BY <1>0, <1>3, ClearShrinks
    DEF Queue, SkipContainer, LoseContainer, TryBeginGetDiff, Timeout
  <1>4. CASE Process
    BY <1>4 DEF Process, FinishProcess
  <1>5. CASE AccAnswer
    BY <1>5 DEF AccAnswer, AccEmpty, AccTooLong, AccError, AccFatal, AccOSError, NoResult
  <1>6. CASE ChanAnswer
    BY <1>0, <1>6, ClearShrinks
    DEF ChanAnswer, ChanEmpty, ChanTooLong, ChanError, ChanBanned, ChanFatal,
        ChanOSError, NoResult
  <1>7. CASE Reconnect
    BY <1>7 DEF Reconnect
  <1> QED  BY <1>1, <1>2, <1>3, <1>4, <1>5, <1>6, <1>7 DEF Next

LEMMA EventGenuine ==
  ASSUME IInv, NEW u \in log
  PROVE  Genuine(u) /\ Numbered(u)
  BY DEF Genuine, Numbered, IInv, TypeOK, Event

(* What a step adds to a queue, the server sent. *)
LEMMA QueueGrowth ==
  ASSUME IInv, Next
  PROVE  /\ \A u \in work' : u \in work \/ Genuine(u)
         /\ \A u \in retry' : u \in retry \/ (Genuine(u) /\ Numbered(u))
         /\ \A e \in Entries : \A u \in gap'[e] :
              u \in gap[e] \/ (Genuine(u) /\ Numbered(u) /\ u.entry = e)
  <1> DEFINE Goal == /\ \A u \in work' : u \in work \/ Genuine(u)
                     /\ \A u \in retry' : u \in retry \/ (Genuine(u) /\ Numbered(u))
                     /\ \A e \in Entries : \A u \in gap'[e] :
                          u \in gap[e] \/ (Genuine(u) /\ Numbered(u) /\ u.entry = e)
  <1> USE DEF server, box, gaps, running
  <1>0. TypeOK  BY DEF IInv
  <1>1. CASE Receive
    BY <1>0, <1>1, PushableFact DEF Receive, Batches
  <1>2. CASE ProcessUpdate
    <2>1. PICK u \in FirstOf(work) :
            /\ work' = work \ {u}
            /\ \/ /\ u.body = "tooLong" /\ TryBeginGetDiff(u.entry)
                  /\ UNCHANGED <<known, pts, dl, base, out, twice>>
               \/ /\ u.body = "free" /\ Hand({u})
                  /\ UNCHANGED <<known, pts, dl, gaps, getting, base>>
               \/ /\ Numbered(u) /\ Stale(u)
                  /\ UNCHANGED <<known, pts, dl, gaps, getting, base, out, twice>>
               \/ /\ Numbered(u) /\ Ahead(u) /\ Hold(u)
                  /\ UNCHANGED <<known, pts, dl, getting, base, out, twice>>
               \/ /\ Numbered(u) /\ (Advance(u) \/ TakeUp(u))
                  /\ UNCHANGED <<gaps, getting>>
      BY <1>2 DEF ProcessUpdate
    <2>2. Genuine(u) /\ retry' = retry
      BY <1>2, <2>1 DEF FirstOf, IInv, Queued, ProcessUpdate
    <2>3. CASE TryBeginGetDiff(u.entry)
      BY <1>0, <2>1, <2>2, <2>3, ClearShrinks DEF TryBeginGetDiff
    <2>4. CASE Numbered(u) /\ Hold(u)
      BY <1>0, <2>1, <2>2, <2>4 DEF Hold, TypeOK
    <2>5. CASE UNCHANGED gap
      BY <2>1, <2>2, <2>5
    <2> QED  BY <2>1, <2>3, <2>4, <2>5
  <1>3. CASE StartRetry
    BY <1>3 DEF StartRetry, IInv, Queued
  <1>4. CASE RetryGap
    <2>1. PICK u \in FirstOf(retry) : retry' = retry \ {u} /\ (UNCHANGED gaps \/ Release(u))
      BY <1>4 DEF RetryGap
    <2>2. \A e \in Entries : gap'[e] \subseteq gap[e]
      BY <1>0, <2>1 DEF Release, TypeOK
    <2> QED  BY <1>4, <2>1, <2>2 DEF RetryGap
  <1>5. ASSUME NEW from, NEW p, NEW q, NEW s, AccDifference(from, p, q, s)
        PROVE  Goal
    <2>1. \A u \in work' : Genuine(u)
      BY <1>0, <1>5, PushableFact, EventGenuine
      DEF AccDifference, Batches, Others, Between
    <2> QED  BY <1>5, <2>1 DEF AccDifference
  <1>6. CASE AccDiff \/ AccSlice
    BY <1>5, <1>6 DEF AccDiff, AccSlice
  <1>7. ASSUME NEW p, ChanDifference(p)
        PROVE  Goal
    <2>1. \A u \in work' : Genuine(u)
      BY <1>7, EventGenuine DEF ChanDifference, Others, Between
    <2> QED  BY <1>0, <1>7, <2>1, ClearShrinks DEF ChanDifference
  <1>8. CASE ChanDiff \/ ChanSlice
    BY <1>7, <1>8 DEF ChanDiff, ChanSlice
  <1>9. CASE ~ (Receive \/ ProcessUpdate \/ StartRetry \/ RetryGap \/ AccDiff
                \/ AccSlice \/ ChanDiff \/ ChanSlice)
    BY <1>9, QueueFrame
  <1> QED  BY <1>1, <1>2, <1>3, <1>4, <1>6, <1>8, <1>9

LEMMA QueuedStep == IInv /\ [Next]_vars => Queued'
  <1> SUFFICES ASSUME IInv, [Next]_vars PROVE Queued'  OBVIOUS
  <1>1. CASE Next
    <2>1. \A u : Genuine(u) => Genuine(u)'
      BY GenuineKept
    <2>2. \A u \in work' : Genuine(u)
      BY <1>1, QueueGrowth DEF IInv, Queued
    <2>3. \A u \in retry' : Genuine(u) /\ Numbered(u)
      BY <1>1, QueueGrowth DEF IInv, Queued
    <2>4. \A e \in Entries : \A u \in gap'[e] : Genuine(u) /\ Numbered(u) /\ u.entry = e
      BY <1>1, QueueGrowth DEF IInv, Queued
    <2> QED  BY <2>1, <2>2, <2>3, <2>4 DEF Queued, Numbered
  <1>2. CASE UNCHANGED vars
    BY <1>2 DEF vars, IInv, Queued, Genuine
  <1> QED  BY <1>1, <1>2

-----------------------------------------------------------------------------
(* Outside of process_updates nothing is left of it *)

LEMMA IdleStep == IInv /\ [Next]_vars => IdleOK'
  <1> SUFFICES ASSUME IInv, [Next]_vars PROVE IdleOK'  OBVIOUS
  <1> USE DEF IdleOK, server, box, gaps, deadlines, running, history
  <1>0. IdleOK  BY DEF IInv
  <1>1. CASE Environment
    BY <1>0, <1>1 DEF Environment, ServerEvent, ServerContainer, Tick, TrySetChannelState
  <1>2. CASE Head
    BY <1>0, <1>2
    DEF Head, FlushEntityCache, GetDifference, GetChannelDifference, DropChannel,
        MarkExpired, StartWaiting
  <1>3. CASE Queue
    BY <1>0, <1>3
    DEF Queue, Received, Receive, SkipContainer, LoseContainer, TryBeginGetDiff, Timeout
  <1>4. CASE Process
    <2>1. CASE ProcessUpdate \/ RetryGap
      BY <1>0, <2>1 DEF ProcessUpdate, RetryGap
    <2>2. CASE StartRetry
      BY <1>0, <2>2 DEF StartRetry
    <2>3. CASE FinishProcess
      BY <1>0, <2>3 DEF FinishProcess, Idle
    <2> QED  BY <1>4, <2>1, <2>2, <2>3 DEF Process
  <1>5. CASE AccAnswer
    BY <1>0, <1>5
    DEF AccAnswer, AccEmpty, AccDiff, AccSlice, AccDifference, AccTooLong, AccError,
        AccFatal, AccOSError, NoResult, Answered
  <1>6. CASE ChanAnswer
    BY <1>0, <1>6
    DEF ChanAnswer, ChanEmpty, ChanTooLong, ChanDiff, ChanSlice, ChanDifference,
        ChanError, ChanBanned, ChanFatal, ChanOSError, NoResult, Answered
  <1>7. CASE Reconnect
    BY <1>0, <1>7 DEF Reconnect
  <1>8. CASE UNCHANGED vars
    BY <1>0, <1>8 DEF vars
  <1> QED  BY <1>1, <1>2, <1>3, <1>4, <1>5, <1>6, <1>7, <1>8 DEF Next

-----------------------------------------------------------------------------
(* Nothing raises *)

LEMMA EnvironmentNoRaise == IInv /\ Environment => NoRaise'
  <1> USE DEF server, box, gaps, deadlines, running, history
  <1> QED
    BY DEF IInv, NoRaise, Gapped, Environment, ServerEvent, ServerContainer, Tick,
           TrySetChannelState

(* A difference that is begun leaves no gap behind. *)
LEMMA TryBeginFact ==
  ASSUME IInv, NEW e \in Entries, TryBeginGetDiff(e), known' = known
  PROVE  /\ getting \subseteq getting' /\ getting' \subseteq known
         /\ Gapped' \subseteq known /\ Gapped' \cap getting' = {}
  <1>1. \A f \in Entries : gap'[f] = IF f \in {e} \cap known THEN {} ELSE gap[f]
    BY ClearFact DEF IInv, TryBeginGetDiff
  <1>2. getting' = getting \cup ({e} \cap known)
    BY DEF TryBeginGetDiff
  <1> QED  BY <1>1, <1>2 DEF IInv, NoRaise, Gapped, TypeOK

LEMMA HeadNoRaise == IInv /\ Head => NoRaise'
  <1> SUFFICES ASSUME IInv, Head PROVE NoRaise'  OBVIOUS
  <1> USE DEF server, box, gaps, deadlines, running, history
  <1>0. NoRaise /\ TypeOK /\ call.from = "socket"
    BY DEF IInv, IdleOK, Head, FlushEntityCache, GetDifference, GetChannelDifference,
           DropChannel, MarkExpired, StartWaiting
  <1>1. CASE FlushEntityCache
    BY <1>0, <1>1 DEF FlushEntityCache, NoRaise, Gapped
  <1>2. CASE GetDifference
    BY <1>0, <1>2 DEF GetDifference, NoRaise, Gapped
  <1>3. CASE GetChannelDifference
    BY <1>0, <1>3 DEF GetChannelDifference, NoRaise, Gapped
  <1>4. CASE DropChannel
    <2>1. PICK c \in getting \ hashes : Forget(c)
      BY <1>4 DEF DropChannel
    <2>2. c \in Channels \cap known /\ c # ACCOUNT
      BY <1>0, <1>4, <2>1, EntriesFact DEF DropChannel, NoRaise, TypeOK, Entries, Pair
    <2>3. /\ nextDl' \in known' /\ known' = known \ {c} /\ getting' = getting \ {c}
      BY <1>0, <2>1, <2>2, ForgetFact
    <2>4. gap' = gap /\ pc' = "top" /\ pc' = pc /\ call' = call
      BY <1>4 DEF DropChannel
    <2>5. c \notin Gapped
      BY <1>0, <2>1 DEF NoRaise
    <2> QED  BY <1>0, <2>2, <2>3, <2>4, <2>5 DEF NoRaise, Gapped
  <1>5. CASE MarkExpired
    <2>1. getting' \subseteq known
      BY <1>0, <1>5 DEF MarkExpired, NoRaise
    <2>2. \A e \in Entries : gap'[e] = IF e \in getting' THEN {} ELSE gap[e]
      BY <1>0, <1>5, ClearFact DEF MarkExpired
    <2> QED  BY <1>0, <1>5, <2>1, <2>2 DEF MarkExpired, NoRaise, Gapped
  <1>6. CASE StartWaiting
    BY <1>0, <1>6 DEF StartWaiting, NoRaise, Gapped
  <1> QED  BY <1>1, <1>2, <1>3, <1>4, <1>5, <1>6 DEF Head

LEMMA QueueNoRaise == IInv /\ Queue => NoRaise'
  <1> SUFFICES ASSUME IInv, Queue PROVE NoRaise'  OBVIOUS
  <1> USE DEF server, box, gaps, deadlines, running, history, Received
  <1>0. NoRaise /\ TypeOK /\ call.from = "socket"
    BY DEF IInv, IdleOK, Queue, Receive, SkipContainer, LoseContainer, Timeout
  <1>1. CASE Receive
    BY <1>0, <1>1 DEF Receive, NoRaise, Gapped
  <1>2. CASE SkipContainer
    BY <1>0, <1>2 DEF SkipContainer, NoRaise, Gapped
  <1>3. CASE LoseContainer
    <2>1. /\ getting' \subseteq known /\ Gapped' \subseteq known
          /\ Gapped' \cap getting' = {}
      BY <1>3, TryBeginFact, EntriesFact DEF LoseContainer
    <2> QED  BY <1>0, <1>3, <2>1 DEF LoseContainer, NoRaise
  <1>4. CASE Timeout
    BY <1>0, <1>4 DEF Timeout, NoRaise, Gapped
  <1> QED  BY <1>1, <1>2, <1>3, <1>4 DEF Queue

(* What one update does to the gaps. *)
LEMMA UpdateGaps ==
  ASSUME IInv, NEW u, u.entry \in Entries,
         (Ahead(u) /\ Hold(u)) \/ Release(u) \/ UNCHANGED gaps
  PROVE  Gapped' \subseteq known /\ Gapped' \cap getting = {}
  BY DEF IInv, NoRaise, Gapped, Hold, Release, Ahead, Fetching, gaps, TypeOK

LEMMA ProcessNoRaise == IInv /\ Process => NoRaise'
  <1> SUFFICES ASSUME IInv, Process PROVE NoRaise'  OBVIOUS
  <1> USE DEF server, box, gaps, deadlines, running, history
  <1>0. NoRaise /\ TypeOK
    BY DEF IInv
  <1>1. CASE ProcessUpdate
    <2>1. PICK u \in FirstOf(work) :
            /\ work' = work \ {u}
            /\ \/ /\ u.body = "tooLong" /\ TryBeginGetDiff(u.entry)
                  /\ UNCHANGED <<known, pts, dl, base, out, twice>>
               \/ /\ u.body = "free" /\ Hand({u})
                  /\ UNCHANGED <<known, pts, dl, gaps, getting, base>>
               \/ /\ Numbered(u) /\ Stale(u)
                  /\ UNCHANGED <<known, pts, dl, gaps, getting, base, out, twice>>
               \/ /\ Numbered(u) /\ Ahead(u) /\ Hold(u)
                  /\ UNCHANGED <<known, pts, dl, getting, base, out, twice>>
               \/ /\ Numbered(u) /\ (Advance(u) \/ TakeUp(u))
                  /\ UNCHANGED <<gaps, getting>>
      BY <1>1 DEF ProcessUpdate
    <2>2. u.entry \in Entries
      BY <1>0, <2>1 DEF FirstOf, TypeOK, Update
    <2>3. UNCHANGED <<nextDl, pc, req, call>> /\ pc = "work"
      BY <1>1 DEF ProcessUpdate
    <2>4. known \subseteq known'
      BY <2>1 DEF Advance, TakeUp
    <2>5. /\ getting \subseteq getting' /\ getting' \subseteq known'
          /\ Gapped' \subseteq known' /\ Gapped' \cap getting' = {}
      <3>1. CASE TryBeginGetDiff(u.entry) /\ known' = known
        BY <2>2, <3>1, TryBeginFact
      <3>2. CASE getting' = getting /\ ((Ahead(u) /\ Hold(u)) \/ UNCHANGED gaps)
        BY <1>0, <2>2, <2>4, <3>2, UpdateGaps DEF NoRaise
      <3> QED  BY <2>1, <3>1, <3>2
    <2> QED  BY <1>0, <2>3, <2>4, <2>5 DEF NoRaise
  <1>2. CASE StartRetry
    BY <1>0, <1>2 DEF StartRetry, NoRaise, Gapped
  <1>3. CASE RetryGap
    <2>1. PICK u \in FirstOf(retry) :
            \/ Ahead(u) /\ UNCHANGED <<known, pts, dl, gaps, base, out, twice>>
            \/ /\ Stale(u) /\ Release(u)
               /\ UNCHANGED <<known, pts, dl, base, out, twice>>
            \/ (Advance(u) \/ TakeUp(u)) /\ Release(u)
      BY <1>3 DEF RetryGap
    <2>2. u.entry \in Entries
      BY <1>0, <2>1 DEF FirstOf, TypeOK, Update
    <2>3. known \subseteq known'
      BY <2>1 DEF Advance, TakeUp
    <2>4. Gapped' \subseteq known /\ Gapped' \cap getting = {}
      BY <2>1, <2>2, UpdateGaps
    <2>5. UNCHANGED <<getting, nextDl, pc, req, call>> /\ pc = "gaps"
      BY <1>3 DEF RetryGap
    <2> QED  BY <1>0, <2>3, <2>4, <2>5 DEF NoRaise
  <1>4. CASE FinishProcess
    <2> DEFINE ended == IF call.from = "final" THEN getting \cap Pair ELSE {}
               postponed == IF call.from = "chan" THEN {req} ELSE ended
    <2>1. postponed \subseteq known /\ nextDl \in known
      BY <1>0 DEF NoRaise
    <2>2. ResetDeadlines(postponed, NoUpdatesTimeout)
      BY <1>4 DEF FinishProcess
    <2>3. nextDl' \in known
      BY <1>0, <2>1, <2>2, ResetFact, EntriesFact
    <2>4. /\ getting' \subseteq getting /\ gap' = gap /\ known' = known
          /\ pc' = "top" /\ call' = Idle
      BY <1>4 DEF FinishProcess
    <2> QED  BY <1>0, <2>3, <2>4 DEF NoRaise, Gapped, Idle
  <1> QED  BY <1>1, <1>2, <1>3, <1>4 DEF Process

LEMMA AccAnswerNoRaise == IInv /\ AccAnswer => NoRaise'
  <1> SUFFICES ASSUME IInv, AccAnswer PROVE NoRaise'  OBVIOUS
  <1> USE DEF Answered, NoResult, server, gaps, deadlines, running
  <1>0. NoRaise /\ TypeOK /\ pc = "acc" /\ call.from = "socket"
    BY DEF IInv, IdleOK, AccAnswer, AccEmpty, AccDiff, AccSlice, AccDifference,
           AccTooLong, AccError, AccFatal, AccOSError
  <1>1. EndDifference => nextDl' \in known /\ getting' \subseteq getting
    BY EndType DEF EndDifference
  <1>2. ASSUME NEW from, NEW p, NEW q, NEW s, AccDifference(from, p, q, s),
               from \in {"final", "slice"}
        PROVE  NoRaise'
    BY <1>0, <1>2 DEF AccDifference, NoRaise, Gapped
  <1>3. CASE AccDiff \/ AccSlice
    BY <1>2, <1>3 DEF AccDiff, AccSlice
  <1>4. CASE AccEmpty \/ AccTooLong \/ AccError \/ AccFatal
    <2>1. EndDifference /\ UNCHANGED <<gap, known, call>> /\ pc' \in {"top", "down"}
      BY <1>4 DEF AccEmpty, AccTooLong, AccError, AccFatal
    <2> QED  BY <1>0, <1>1, <2>1 DEF NoRaise, Gapped
  <1>5. CASE AccOSError
    BY <1>0, <1>5 DEF AccOSError, NoRaise, Gapped
  <1> QED  BY <1>3, <1>4, <1>5 DEF AccAnswer

LEMMA ChanAnswerNoRaise == IInv /\ ChanAnswer => NoRaise'
  <1> SUFFICES ASSUME IInv, ChanAnswer PROVE NoRaise'  OBVIOUS
  <1> USE DEF Answered, NoResult, server, gaps, deadlines, running
  <1>0. NoRaise /\ TypeOK /\ pc = "chan" /\ call.from = "socket"
    BY DEF IInv, IdleOK, ChanAnswer, ChanEmpty, ChanTooLong, ChanDiff, ChanSlice,
           ChanDifference, ChanError, ChanBanned, ChanFatal, ChanOSError
  <1>1. req \in Channels /\ {req} \subseteq getting /\ {req} \subseteq known
    BY <1>0, ReqFact
  <1>2. EndGetDiff({req}) => nextDl' \in known /\ getting' \subseteq getting
    BY <1>1, EndType
  <1>3. ClearGaps({req}) => Gapped' \subseteq Gapped
    BY <1>0, ClearFact DEF Gapped
  <1>4. CASE ChanEmpty \/ ChanError \/ ChanFatal
    <2>1. EndGetDiff({req}) /\ ClearGaps({req}) /\ UNCHANGED <<known, call>>
          /\ pc' \in {"top", "down"}
      BY <1>4 DEF ChanEmpty, ChanError, ChanFatal
    <2> QED  BY <1>0, <1>2, <1>3, <2>1 DEF NoRaise
  <1>5. CASE ChanTooLong
    <2>1. PICK t \in 1..NoUpdatesTimeout : ResetDeadlines({req}, t)
      BY <1>5 DEF ChanTooLong
    <2>2. t \in 0..NoUpdatesTimeout /\ nextDl \in known
      BY <1>0, EntriesFact DEF NoRaise
    <2>3. nextDl' \in known
      BY <1>0, <1>1, <2>1, <2>2, ResetFact
    <2> QED  BY <1>0, <1>3, <1>5, <2>3 DEF ChanTooLong, NoRaise
  <1>6. CASE ChanDiff
    <2>1. /\ ClearGaps({req}) /\ EndGetDiff({req}) /\ known' = known /\ pc' = "work"
          /\ req' = req /\ call'.from = "chan"
      BY <1>6 DEF ChanDiff, ChanDifference
    <2> QED  BY <1>0, <1>1, <1>2, <1>3, <2>1 DEF NoRaise
  <1>7. CASE ChanSlice
    <2>1. /\ ClearGaps({req}) /\ UNCHANGED <<known, req, getting, nextDl>>
          /\ pc' = "work" /\ call'.from = "chan"
      BY <1>7 DEF ChanSlice, ChanDifference
    <2> QED  BY <1>0, <1>1, <1>3, <2>1 DEF NoRaise
  <1>8. CASE ChanBanned
    <2>1. nextDl' \in known' /\ known' = known \ {req} /\ getting' = getting \ {req}
      BY <1>0, <1>1, <1>8, ForgetFact DEF ChanBanned
    <2>2. ClearGaps({req}) /\ call' = call /\ pc' = "top"
      BY <1>8 DEF ChanBanned
    <2>3. req \notin Gapped /\ req # ACCOUNT
      BY <1>0, <1>1, EntriesFact DEF NoRaise, Pair
    <2> QED  BY <1>0, <1>3, <2>1, <2>2, <2>3 DEF NoRaise
  <1>9. CASE ChanOSError
    BY <1>0, <1>9 DEF ChanOSError, NoRaise, Gapped
  <1> QED  BY <1>4, <1>5, <1>6, <1>7, <1>8, <1>9 DEF ChanAnswer

LEMMA NoRaiseStep == IInv /\ [Next]_vars => NoRaise'
  <1>1. IInv /\ Reconnect => NoRaise'
    BY DEF IInv, IdleOK, Reconnect, NoRaise, Gapped, box, running
  <1>2. IInv /\ UNCHANGED vars => NoRaise'
    BY DEF IInv, vars, NoRaise, Gapped
  <1> QED
    BY <1>1, <1>2, EnvironmentNoRaise, HeadNoRaise, QueueNoRaise, ProcessNoRaise,
       AccAnswerNoRaise, ChanAnswerNoRaise DEF Next

-----------------------------------------------------------------------------
(* Positions, deliveries and the feed *)

(* What a step keeps, in the terms of the feed it implements. *)
Kept ==
  /\ Positions' /\ Handed'
  /\ [Feed!Next]_(Feed!vars)
  /\ \A e \in known \cap known' : pts[e] <= pts'[e]

LEMMA DeliveredFact ==
  ASSUME IInv
  PROVE  /\ Delivered \subseteq log
         /\ \A ev \in Delivered : ev \in Event /\ ev.entry \in Entries
                                  /\ ev.entry \in known /\ ev.pts <= pts[ev.entry]
         /\ pts \in [Entries -> Nat] /\ base \in [Entries -> Nat]
         /\ \A e \in Entries : pts[e] \in Nat /\ base[e] \in Nat /\ srv[e] \in Nat
         /\ \A ev \in log : ev \in Event /\ ev.entry \in Entries /\ ev.pts \in Nat
                            /\ ev.cnt \in Nat \ {0}
                            /\ ev.cnt <= ev.pts /\ ev.pts <= srv[ev.entry]
  BY DEF IInv, Handed, Delivered, TypeOK, Event, ServerOK

(* A step the feed does not see. *)
LEMMA QuietKept ==
  ASSUME IInv, UNCHANGED <<srv, log, known, pts, base, twice>>,
         Delivered' = Delivered, applied' \subseteq log
  PROVE  Kept
  <1>1. Positions' /\ Handed'
    BY DEF IInv, Positions, Handed
  <1>2. UNCHANGED Feed!vars
    BY DEF Feed!vars
  <1>3. \A e \in known \cap known' : pts[e] <= pts'[e]
    BY DeliveredFact DEF IInv, TypeOK
  <1> QED  BY <1>1, <1>2, <1>3 DEF Kept

(* Entries move on, and us goes to the dispatcher: exactly what is passed. *)
LEMMA MoveKept ==
  ASSUME IInv, TypeOK', UNCHANGED <<srv, log, applied>>, NEW us,
         out' = out \cup us, twice' = twice \cup (us \cap Delivered),
         known \subseteq known',
         \A e \in Entries : /\ pts'[e] <= srv[e]
                            /\ e \in known => base'[e] = base[e] /\ pts[e] <= pts'[e]
                            /\ e \notin known => base'[e] <= pts'[e]
                            /\ e \notin known' => pts'[e] = 0 /\ base'[e] = 0,
         us \cap log \subseteq Feed!Passed,
         {ev \in Feed!Passed : ev.body = "msg"} \subseteq us
  PROVE  Kept
  <1>1. Delivered' = Delivered \cup (us \cap log)
    BY DEF Delivered
  <1>2. us \cap Delivered = {}
    <2> SUFFICES ASSUME NEW ev \in us \cap Delivered PROVE FALSE  OBVIOUS
    <2>1. ev \in Feed!Passed
      BY DeliveredFact
    <2>2. ev.entry \in known /\ pts[ev.entry] < ev.pts
      BY <2>1, DeliveredFact DEF Feed!Passed, Feed!From
    <2> QED  BY <2>2, DeliveredFact
  <1>3. Positions'
    BY DEF Positions
  <1>4. Handed'
    <2>1. \A ev \in Delivered' : ev.entry \in known' /\ ev.pts <= pts'[ev.entry]
      <3> SUFFICES ASSUME NEW ev \in Delivered'
                   PROVE  ev.entry \in known' /\ ev.pts <= pts'[ev.entry]
        OBVIOUS
      <3>1. CASE ev \in Delivered
        BY <3>1, DeliveredFact DEF TypeOK
      <3>2. CASE ev \in us \cap log
        BY <3>2 DEF Feed!Passed
      <3> QED  BY <1>1, <3>1, <3>2
    <2> QED  BY <1>2, <2>1 DEF IInv, Handed
  <1>5. Feed!Move
    <2>1. known' \subseteq Entries /\ pts' \in [Entries -> Nat] /\ base' \in [Entries -> Nat]
      BY DEF TypeOK
    <2>2. Feed!Passed \subseteq log
      BY DEF Feed!Passed
    <2>3. /\ Delivered \subseteq Delivered' /\ Delivered' \ Delivered \subseteq Feed!Passed
          /\ {ev \in Feed!Passed : ev.body = "msg"} \subseteq Delivered'
      BY <1>1, <2>2
    <2> QED  BY <2>1, <2>3 DEF Feed!Move
  <1> QED  BY <1>3, <1>4, <1>5, DeliveredFact DEF Kept, Feed!Next, TypeOK

(* The server tells that too much happened, and e goes on from its end. *)
LEMMA SkipKept ==
  ASSUME IInv, NEW e \in known, UNCHANGED <<srv, log, known, applied, out, twice>>,
         pts' = [pts EXCEPT ![e] = srv[e]], base' = [base EXCEPT ![e] = srv[e]]
  PROVE  Kept
  <1>1. Delivered' = Delivered
    BY DEF Delivered
  <1>2. e \in Entries /\ pts[e] <= srv[e] /\ srv[e] \in Nat
    BY DEF IInv, TypeOK, Positions
  <1>3. /\ \A f \in Entries : pts'[f] = IF f = e THEN srv[e] ELSE pts[f]
        /\ \A f \in Entries : base'[f] = IF f = e THEN srv[e] ELSE base[f]
        /\ pts' \in [Entries -> Nat]
    BY <1>2, DeliveredFact
  <1>4. Positions'
    BY <1>2, <1>3, DeliveredFact DEF IInv, Positions
  <1>5. Handed'
    BY <1>1, <1>2, <1>3, DeliveredFact DEF IInv, Handed
  <1>6. Feed!Skip
    <2>1. pts'[e] = srv[e] /\ pts' = [pts EXCEPT ![e] = pts'[e]]
          /\ base' = [base EXCEPT ![e] = pts'[e]]
      BY <1>2, <1>3
    <2>2. UNCHANGED <<log, srv, known, Delivered>>
      BY <1>1
    <2>3. pts' \in [Entries -> Nat] /\ pts[e] <= pts'[e] /\ pts'[e] <= srv[e]
      BY <1>2, <1>3
    <2> QED  BY ONLY <2>1, <2>2, <2>3, e \in known DEF Feed!Skip
  <1>7. \A f \in known \cap known' : pts[f] <= pts'[f]
    BY <1>2, <1>3, DeliveredFact DEF IInv, TypeOK
  <1> QED  BY <1>4, <1>5, <1>6, <1>7 DEF Kept, Feed!Next

(* A channel leaves map. *)
LEMMA ForgetKept ==
  ASSUME IInv, NEW c \in Channels \cap known, Forget(c), out = {},
         UNCHANGED <<srv, log, out, twice>>
  PROVE  Kept
  <1>1. /\ known' = known \ {c} /\ c \in known /\ c \in Entries
        /\ pts' \in [Entries -> Nat] /\ base' \in [Entries -> Nat]
        /\ \A e \in Entries : pts'[e] = IF e = c THEN 0 ELSE pts[e]
        /\ \A e \in Entries : base'[e] = IF e = c THEN 0 ELSE base[e]
        /\ applied' = {u \in applied : u.entry # c}
    BY ForgetFact, EntriesFact DEF IInv
  <1>2. Delivered' = {ev \in Delivered : ev.entry # c}
    BY <1>1 DEF Delivered
  <1>3. Positions'
    BY <1>1, DeliveredFact DEF IInv, Positions
  <1>4. Handed'
    BY <1>1, <1>2, DeliveredFact DEF IInv, Handed
  <1>5. Feed!Forget
    <2>1. pts' = [pts EXCEPT ![c] = 0] /\ base' = [base EXCEPT ![c] = 0]
      BY <1>1, DeliveredFact
    <2> QED  BY <1>1, <1>2, <2>1 DEF Feed!Forget
  <1>6. \A e \in known \cap known' : pts[e] <= pts'[e]
    BY <1>1, DeliveredFact DEF IInv, TypeOK
  <1> QED  BY <1>3, <1>4, <1>5, <1>6 DEF Kept, Feed!Next

LEMMA EnvironmentKept == IInv /\ TypeOK' /\ Environment => Kept
  <1> SUFFICES ASSUME IInv, TypeOK', Environment PROVE Kept  OBVIOUS
  <1> USE DEF server, box, gaps, deadlines, running, history
  <1>0. out = {}
    BY DEF IInv, IdleOK, Environment, Awaiting, ServerEvent, ServerContainer, Tick,
           TrySetChannelState
  <1>1. CASE ServerEvent
    <2>1. PICK ev \in log' :
            /\ ev \in Event /\ ev.pts = srv[ev.entry] + ev.cnt
            /\ log' = log \cup {ev} /\ srv' = [srv EXCEPT ![ev.entry] = ev.pts]
      BY <1>1, ServerEventFact
    <2>2. UNCHANGED <<known, pts, base, applied, twice, out>>
      BY <1>1 DEF ServerEvent
    <2>3. Delivered' = Delivered
      BY <1>0, <2>2 DEF Delivered
    <2>4. ev.entry \in Entries /\ ev.pts \in Nat /\ ev.cnt \in Nat
      BY <2>1 DEF Event
    <2>5. Positions'
      BY <2>1, <2>2, <2>4, DeliveredFact DEF IInv, Positions
    <2>6. Handed'
      BY <2>1, <2>2, <2>3 DEF IInv, Handed
    <2>7. Feed!Produce
      BY <2>1, <2>2, <2>3 DEF Feed!Produce, Event, Feed!Event
    <2>8. \A e \in known \cap known' : pts[e] <= pts'[e]
      BY <2>2, DeliveredFact DEF IInv, TypeOK
    <2> QED  BY <2>5, <2>6, <2>7, <2>8 DEF Kept, Feed!Next
  <1>2. CASE ServerContainer \/ Tick
    <2>1. UNCHANGED <<srv, log, known, pts, base, applied, twice, out>>
      BY <1>2 DEF ServerContainer, Tick
    <2> QED  BY <2>1, QuietKept DEF Delivered, IInv, Handed
  <1>3. CASE TrySetChannelState
    <2>1. PICK c \in Channels \ known :
            \E p \in ({StartPts[c]} \cup {ev.pts : ev \in Between(c, 0, srv[c])}) \ {0} :
              /\ known' = known \cup {c}
              /\ pts' = [pts EXCEPT ![c] = p] /\ base' = [base EXCEPT ![c] = p]
      BY <1>3 DEF TrySetChannelState
    <2>2. PICK p \in {StartPts[c]} \cup {ev.pts : ev \in Between(c, 0, srv[c])} :
              /\ known' = known \cup {c}
              /\ pts' = [pts EXCEPT ![c] = p] /\ base' = [base EXCEPT ![c] = p]
      BY <2>1
    <2>3. c \in Entries
      BY EntriesFact
    <2>4. p \in Nat /\ p <= srv[c]
      BY <2>3, ServerAssumption DEF IInv, ServerOK, Between, TypeOK, Event
    <2>5. /\ \A e \in Entries : pts'[e] = IF e = c THEN p ELSE pts[e]
          /\ \A e \in Entries : base'[e] = IF e = c THEN p ELSE base[e]
      BY <2>2, DeliveredFact
    <2>6. Feed!Passed = {}
      BY <2>2, <2>4, <2>5, DeliveredFact DEF Feed!Passed, Feed!From
    <2>7. UNCHANGED <<srv, log, applied, out, twice>>
      BY <1>3 DEF TrySetChannelState
    <2>8. \A e \in Entries : /\ pts'[e] <= srv[e]
                             /\ e \in known => base'[e] = base[e] /\ pts[e] <= pts'[e]
                             /\ e \notin known => base'[e] <= pts'[e]
                             /\ e \notin known' => pts'[e] = 0 /\ base'[e] = 0
      BY <2>2, <2>4, <2>5, DeliveredFact DEF IInv, Positions
    <2>9. known \subseteq known' /\ out' = out \cup {} /\ twice' = twice \cup ({} \cap Delivered)
      BY <2>2, <2>7
    <2> QED  BY <2>6, <2>7, <2>8, <2>9, MoveKept
  <1> QED  BY <1>1, <1>2, <1>3 DEF Environment

LEMMA HeadKept == IInv /\ Head => Kept
  <1> SUFFICES ASSUME IInv, Head PROVE Kept  OBVIOUS
  <1> USE DEF server, box, gaps, deadlines, running, history
  <1>1. CASE DropChannel
    <2>1. PICK c \in getting \ hashes : Forget(c)
      BY <1>1 DEF DropChannel
    <2>2. c \in Channels \cap known
      BY <1>1, <2>1 DEF DropChannel, IInv, NoRaise, TypeOK, Entries, Pair
    <2>3. out = {} /\ UNCHANGED <<srv, log, out, twice>>
      BY <1>1 DEF DropChannel, IInv, IdleOK
    <2> QED  BY <2>1, <2>2, <2>3, ForgetKept
  <1>2. CASE ~ DropChannel
    <2>1. UNCHANGED <<srv, log, known, pts, base, applied, twice, out>>
      BY <1>2 DEF Head, FlushEntityCache, GetDifference, GetChannelDifference,
                  MarkExpired, StartWaiting
    <2> QED  BY <2>1, QuietKept DEF Delivered, IInv, Handed
  <1> QED  BY <1>1, <1>2

LEMMA QueueKept == IInv /\ Queue => Kept
  <1> SUFFICES ASSUME IInv, Queue PROVE Kept  OBVIOUS
  <1>1. UNCHANGED <<srv, log, known, pts, base, applied, twice, out>>
    BY DEF Queue, Receive, SkipContainer, LoseContainer, Timeout,
           server, box, gaps, deadlines, running, history
  <1> QED  BY <1>1, QuietKept DEF Delivered, IInv, Handed

(* The update that follows the position passes itself and nothing else. *)
LEMMA TakeKept ==
  ASSUME IInv, TypeOK', NEW u, Genuine(u), Numbered(u), Advance(u) \/ TakeUp(u),
         UNCHANGED <<srv, log, applied>>
  PROVE  Kept
  <1>1. /\ u.entry \in Entries /\ u.pts \in Nat /\ u.cnt \in Nat
        /\ u.cnt <= u.pts /\ u.pts <= srv[u.entry]
        /\ (u.cnt = 0 => 1 <= u.pts)
        /\ (u \in log => u.cnt # 0)
    BY GenuineFact DEF IInv
  <1>2. u \notin log => u.cnt = 0
    BY DEF Genuine, Numbered
  <1>3. u \in log => \A ev \in log : ev.entry = u.entry =>
                       \/ ev = u \/ ev.pts <= u.pts - u.cnt \/ u.pts <= ev.pts - ev.cnt
    BY DEF IInv, ServerOK
  <1>4. out' = out \cup {u} /\ twice' = twice \cup ({u} \cap Delivered)
    BY DEF Advance, TakeUp, Hand
  <1>5. CASE Advance(u)
    <2>1. /\ known' = known /\ base' = base /\ u.entry \in known
          /\ \A e \in Entries : pts'[e] = IF e = u.entry THEN u.pts ELSE pts[e]
      BY <1>5, DeliveredFact DEF Advance
    <2>2. pts[u.entry] + u.cnt = u.pts
      BY <1>1, <1>5, DeliveredFact DEF Advance, Stale, Ahead
    <2>3. Feed!Passed = {ev \in log : ev.entry = u.entry /\ pts[u.entry] < ev.pts
                                      /\ ev.pts <= u.pts}
      BY <2>1, DeliveredFact DEF Feed!Passed, Feed!From
    <2>4. Feed!Passed \subseteq {u}
      BY <1>1, <1>2, <1>3, <2>2, <2>3, DeliveredFact
    <2>5. {u} \cap log \subseteq Feed!Passed
      BY <1>1, <2>2, <2>3, DeliveredFact
    <2>6. \A e \in Entries : /\ pts'[e] <= srv[e]
                             /\ e \in known => base'[e] = base[e] /\ pts[e] <= pts'[e]
                             /\ e \notin known => base'[e] <= pts'[e]
                             /\ e \notin known' => pts'[e] = 0 /\ base'[e] = 0
      BY <1>1, <2>1, <2>2, DeliveredFact DEF IInv, Positions
    <2> QED  BY <1>4, <2>1, <2>4, <2>5, <2>6, MoveKept
  <1>6. CASE TakeUp(u)
    <2>1. /\ known' = known \cup {u.entry} /\ u.entry \notin known
          /\ \A e \in Entries : pts'[e] = IF e = u.entry THEN FirstPts(u) ELSE pts[e]
          /\ \A e \in Entries : base'[e] = IF e = u.entry THEN StartOf(u) ELSE base[e]
      BY <1>6, DeliveredFact DEF TakeUp
    <2>2. /\ FirstPts(u) \in Nat /\ StartOf(u) \in Nat
          /\ FirstPts(u) <= u.pts /\ StartOf(u) <= FirstPts(u)
          /\ (u.cnt # 0 => FirstPts(u) = u.pts /\ StartOf(u) = u.pts - u.cnt)
          /\ (u.cnt = 0 => FirstPts(u) = StartOf(u))
      BY <1>1 DEF FirstPts, StartOf
    <2>3. Feed!Passed = {ev \in log : ev.entry = u.entry /\ StartOf(u) < ev.pts
                                      /\ ev.pts <= FirstPts(u)}
      BY <1>1, <2>1, DeliveredFact DEF Feed!Passed, Feed!From
    <2>4. Feed!Passed \subseteq {u}
      BY <1>1, <1>2, <1>3, <2>2, <2>3, DeliveredFact
    <2>5. {u} \cap log \subseteq Feed!Passed
      BY <1>1, <2>2, <2>3, DeliveredFact
    <2>6. \A e \in Entries : /\ pts'[e] <= srv[e]
                             /\ e \in known => base'[e] = base[e] /\ pts[e] <= pts'[e]
                             /\ e \notin known => base'[e] <= pts'[e]
                             /\ e \notin known' => pts'[e] = 0 /\ base'[e] = 0
      BY <1>1, <2>1, <2>2, DeliveredFact DEF IInv, Positions
    <2> QED  BY <1>4, <2>1, <2>4, <2>5, <2>6, MoveKept
  <1> QED  BY <1>5, <1>6

LEMMA ProcessKept == IInv /\ TypeOK' /\ Process => Kept
  <1> SUFFICES ASSUME IInv, TypeOK', Process PROVE Kept  OBVIOUS
  <1> USE DEF server, box, gaps, deadlines, running, history
  <1>1. UNCHANGED <<srv, log>>
    BY DEF Process, ProcessUpdate, StartRetry, RetryGap, FinishProcess
  <1>2. ASSUME UNCHANGED <<known, pts, base, out, twice, applied>> PROVE Kept
    BY <1>1, <1>2, QuietKept DEF Delivered, IInv, Handed
  <1>3. CASE ProcessUpdate
    <2>1. PICK u \in FirstOf(work) :
            \/ UNCHANGED <<known, pts, base, out, twice>>
            \/ u.body = "free" /\ Hand({u}) /\ UNCHANGED <<known, pts, base>>
            \/ Numbered(u) /\ (Advance(u) \/ TakeUp(u))
      BY <1>3 DEF ProcessUpdate
    <2>2. Genuine(u) /\ UNCHANGED applied
      BY <1>3, <2>1 DEF FirstOf, IInv, Queued, ProcessUpdate
    <2>3. CASE u.body = "free" /\ Hand({u}) /\ UNCHANGED <<known, pts, base>>
      <3>1. u \notin log
        BY <2>3 DEF IInv, TypeOK, Event
      <3>2. Delivered' = Delivered /\ twice' = twice
        BY <1>1, <2>2, <2>3, <3>1, DeliveredFact DEF Delivered, Hand
      <3> QED  BY <1>1, <2>2, <2>3, <3>2, QuietKept DEF IInv, Handed
    <2>4. CASE Numbered(u) /\ (Advance(u) \/ TakeUp(u))
      BY <1>1, <2>2, <2>4, TakeKept
    <2> QED  BY <1>2, <2>1, <2>2, <2>3, <2>4
  <1>4. CASE StartRetry
    BY <1>2, <1>4 DEF StartRetry
  <1>5. CASE RetryGap
    <2>1. PICK u \in FirstOf(retry) :
            \/ UNCHANGED <<known, pts, base, out, twice>>
            \/ Advance(u) \/ TakeUp(u)
      BY <1>5 DEF RetryGap
    <2>2. Genuine(u) /\ Numbered(u) /\ UNCHANGED applied
      BY <1>5, <2>1 DEF FirstOf, IInv, Queued, RetryGap
    <2> QED  BY <1>1, <1>2, <2>1, <2>2, TakeKept
  <1>6. CASE FinishProcess
    <2>1. /\ UNCHANGED <<known, pts, base, twice>>
          /\ applied' = Delivered /\ out' = {}
      BY <1>6 DEF FinishProcess
    <2>2. Delivered' = Delivered
      BY <2>1 DEF Delivered
    <2> QED  BY <1>1, <2>1, <2>2, DeliveredFact, QuietKept
  <1> QED  BY <1>3, <1>4, <1>5, <1>6 DEF Process

LEMMA AccDifferenceKept ==
  ASSUME IInv, TypeOK', NEW from, NEW p \in Nat, NEW q \in Nat, NEW s,
         pts[ACCOUNT] <= p, p <= srv[ACCOUNT], pts[SECRET] <= q, q <= srv[SECRET],
         AccDifference(from, p, q, s)
  PROVE  Kept
  <1> DEFINE evs == Between(ACCOUNT, pts[ACCOUNT], p) \cup Between(SECRET, pts[SECRET], q)
             us == Messages(evs)
  <1>1. /\ UNCHANGED <<srv, log, applied, base>> /\ known' = known \cup Pair
        /\ pts' = [pts EXCEPT ![ACCOUNT] = p, ![SECRET] = q]
        /\ out' = out \cup us /\ twice' = twice \cup (us \cap Delivered)
    BY DEF AccDifference, Hand, server
  <1>2. \A e \in Entries : pts'[e] = IF e = ACCOUNT THEN p
                                     ELSE IF e = SECRET THEN q ELSE pts[e]
    BY <1>1, EntriesFact, DeliveredFact
  <1>3. \A e \in Entries : /\ pts'[e] <= srv[e]
                           /\ e \in known => base'[e] = base[e] /\ pts[e] <= pts'[e]
                           /\ e \notin known => base'[e] <= pts'[e]
                           /\ e \notin known' => pts'[e] = 0 /\ base'[e] = 0
    BY <1>1, <1>2, DeliveredFact DEF IInv, Positions, Pair
  <1>4. ACCOUNT \in known /\ (SECRET \notin known => base[SECRET] = 0 /\ pts[SECRET] = 0)
    BY EntriesFact DEF IInv, NoRaise, Positions
  <1>5. Feed!Passed = evs
    <2>1. ASSUME NEW ev \in log
          PROVE  ev \in Feed!Passed <=> ev \in evs
      <3>1. CASE ev.entry = ACCOUNT
        BY <1>1, <1>2, <1>4, <3>1, EntriesFact DEF Feed!Passed, Feed!From, Between, Pair
      <3>2. CASE ev.entry = SECRET
        BY <1>1, <1>2, <1>4, <3>2, EntriesFact DEF Feed!Passed, Feed!From, Between, Pair
      <3>3. CASE ev.entry \notin Pair
        BY <1>1, <1>2, <3>3, DeliveredFact DEF Feed!Passed, Feed!From, Between, Pair
      <3> QED  BY <3>1, <3>2, <3>3 DEF Pair
    <2>2. Feed!Passed \subseteq log /\ evs \subseteq log
      BY DEF Feed!Passed, Between
    <2> QED  BY <2>1, <2>2
  <1>6. us \cap log \subseteq Feed!Passed /\ {ev \in Feed!Passed : ev.body = "msg"} \subseteq us
    BY <1>5 DEF Messages
  <1>7. known \subseteq known'
    BY <1>1
  <1> HIDE DEF us
  <1> QED  BY <1>1, <1>3, <1>6, <1>7, MoveKept

LEMMA AccAnswerKept == IInv /\ TypeOK' /\ AccAnswer => Kept
  <1> SUFFICES ASSUME IInv, TypeOK', AccAnswer PROVE Kept  OBVIOUS
  <1> USE DEF NoResult, server, gaps, deadlines, running
  <1>1. ACCOUNT \in Entries /\ SECRET \in Entries
    BY EntriesFact
  <1>2. CASE AccDiff
    <2>1. AccDifference("final", srv[ACCOUNT], srv[SECRET], srvSeq)
      BY <1>2 DEF AccDiff
    <2>2. /\ pts[ACCOUNT] <= srv[ACCOUNT] /\ pts[SECRET] <= srv[SECRET]
          /\ srv[ACCOUNT] \in Nat /\ srv[SECRET] \in Nat
      BY <1>1, DeliveredFact DEF IInv, Positions
    <2> QED  BY <2>1, <2>2, AccDifferenceKept
  <1>3. CASE AccSlice
    <2>1. PICK p \in Stops(ACCOUNT), q \in Stops(SECRET), s \in seq..srvSeq :
            AccDifference("slice", p, q, s)
      BY <1>3 DEF AccSlice
    <2>2. /\ p \in Nat /\ q \in Nat
          /\ pts[ACCOUNT] <= p /\ p <= srv[ACCOUNT] /\ pts[SECRET] <= q /\ q <= srv[SECRET]
      BY <1>1, StopsFact DEF IInv
    <2> QED  BY <2>1, <2>2, AccDifferenceKept
  <1>4. CASE AccTooLong
    BY <1>4, SkipKept DEF AccTooLong, IInv, NoRaise
  <1>5. CASE AccEmpty \/ AccError \/ AccFatal \/ AccOSError
    <2>1. UNCHANGED <<srv, log, known, pts, base, applied, twice, out>>
      BY <1>5 DEF AccEmpty, AccError, AccFatal, AccOSError
    <2> QED  BY <2>1, QuietKept DEF Delivered, IInv, Handed
  <1> QED  BY <1>2, <1>3, <1>4, <1>5 DEF AccAnswer

LEMMA ChanMoveKept ==
  ASSUME IInv, TypeOK', pc = "chan", NEW p \in Nat, pts[req] <= p, p <= srv[req],
         UNCHANGED <<srv, log, applied, known, base>>, NEW us,
         pts' = [pts EXCEPT ![req] = p],
         us = Messages(Between(req, pts[req], p)),
         out' = out \cup us, twice' = twice \cup (us \cap Delivered)
  PROVE  Kept
  <1>1. req \in known /\ req \in Entries
    BY ReqFact
  <1>2. \A e \in Entries : pts'[e] = IF e = req THEN p ELSE pts[e]
    BY <1>1, DeliveredFact
  <1>3. \A e \in Entries : /\ pts'[e] <= srv[e]
                           /\ e \in known => base'[e] = base[e] /\ pts[e] <= pts'[e]
                           /\ e \notin known => base'[e] <= pts'[e]
                           /\ e \notin known' => pts'[e] = 0 /\ base'[e] = 0
    BY <1>1, <1>2, DeliveredFact DEF IInv, Positions
  <1>4. Feed!Passed = Between(req, pts[req], p)
    BY <1>1, <1>2, DeliveredFact DEF Feed!Passed, Feed!From, Between
  <1>5. us \cap log \subseteq Feed!Passed /\ {ev \in Feed!Passed : ev.body = "msg"} \subseteq us
    BY <1>4 DEF Messages
  <1> QED  BY <1>3, <1>5, MoveKept

LEMMA ChanAnswerKept == IInv /\ TypeOK' /\ ChanAnswer => Kept
  <1> SUFFICES ASSUME IInv, TypeOK', ChanAnswer PROVE Kept  OBVIOUS
  <1> USE DEF NoResult, server, gaps, deadlines, running, Answered
  <1>0. pc = "chan" /\ out = {}
    BY DEF IInv, IdleOK, ChanAnswer, ChanEmpty, ChanTooLong, ChanDiff, ChanSlice,
           ChanDifference, ChanError, ChanBanned, ChanFatal, ChanOSError
  <1>1. /\ req \in known /\ req \in Entries /\ req \in Channels
        /\ srv[req] \in Nat /\ pts[req] <= srv[req]
    BY <1>0, ReqFact, DeliveredFact DEF IInv, Positions
  <1>2. CASE ChanEmpty
    <2> SUFFICES ASSUME NEW p, p = srv[req] PROVE Kept
      OBVIOUS
    <2> DEFINE us == Messages(Between(req, pts[req], p))
    <2>1. us = {}
      BY <1>2 DEF ChanEmpty, Messages
    <2>2. /\ UNCHANGED <<srv, log, applied, known, base>>
          /\ pts' = [pts EXCEPT ![req] = p]
          /\ out' = out \cup us /\ twice' = twice \cup (us \cap Delivered)
      BY <1>2, <2>1 DEF ChanEmpty
    <2>3. p \in Nat /\ pts[req] <= p /\ p <= srv[req]
      BY <1>1
    <2> QED  BY <1>0, <2>2, <2>3, ChanMoveKept
  <1>3. CASE ChanTooLong
    BY <1>1, <1>3, SkipKept DEF ChanTooLong
  <1>4. ASSUME NEW p \in Nat, pts[req] <= p, p <= srv[req], ChanDifference(p)
        PROVE  Kept
    <2> DEFINE us == Messages(Between(req, pts[req], p))
    <2>1. /\ UNCHANGED <<srv, log, applied, known, base>>
          /\ pts' = [pts EXCEPT ![req] = p]
          /\ out' = out \cup us /\ twice' = twice \cup (us \cap Delivered)
      BY <1>4 DEF ChanDifference, Hand
    <2> QED  BY <1>0, <1>4, <2>1, ChanMoveKept
  <1>5. CASE ChanDiff
    BY <1>1, <1>4, <1>5 DEF ChanDiff
  <1>6. CASE ChanSlice
    <2>1. PICK p \in Stops(req) : ChanDifference(p)
      BY <1>6 DEF ChanSlice
    <2>2. p \in Nat /\ pts[req] <= p /\ p <= srv[req]
      BY <1>1, StopsFact DEF IInv
    <2> QED  BY <1>4, <2>1, <2>2
  <1>7. CASE ChanBanned
    BY <1>0, <1>1, <1>7, ForgetKept DEF ChanBanned
  <1>8. CASE ChanError \/ ChanFatal \/ ChanOSError
    <2>1. UNCHANGED <<srv, log, known, pts, base, applied, twice, out>>
      BY <1>8 DEF ChanError, ChanFatal, ChanOSError
    <2> QED  BY <2>1, QuietKept DEF Delivered, IInv, Handed
  <1> QED  BY <1>2, <1>3, <1>5, <1>6, <1>7, <1>8 DEF ChanAnswer

LEMMA KeptStep == IInv /\ [Next]_vars => Kept
  <1> SUFFICES ASSUME IInv, [Next]_vars PROVE Kept  OBVIOUS
  <1>1. TypeOK'
    BY TypeStep
  <1>2. CASE Reconnect \/ UNCHANGED vars
    <2>1. UNCHANGED <<srv, log, known, pts, base, applied, twice, out>>
      BY <1>2 DEF Reconnect, vars, server, box, history
    <2> QED  BY <2>1, QuietKept DEF Delivered, IInv, Handed
  <1> QED
    BY <1>1, <1>2, EnvironmentKept, HeadKept, QueueKept, ProcessKept, AccAnswerKept,
       ChanAnswerKept DEF Next

-----------------------------------------------------------------------------
(* Theorems *)

LEMMA InitIInv == Init => IInv
  <1> SUFFICES ASSUME Init PROVE IInv  OBVIOUS
  <1>1. /\ known \subseteq Entries /\ ACCOUNT \in known
        /\ StartPts \in [Entries -> Nat]
    BY ServerAssumption DEF Init
  <1>2. pts \in [Entries -> Nat] /\ base \in [Entries -> Nat]
    BY <1>1 DEF Init
  <1>3. /\ dl \in [Entries -> 0..NoUpdatesTimeout]
        /\ gap \in [Entries -> SUBSET Update] /\ gapDl \in [Entries -> 0..GapTimeout]
    BY EntriesFact DEF Init
  <1>4. TypeOK
    BY <1>1, <1>2, <1>3, EntriesFact DEF Init, TypeOK, Calls, Idle, NoSeq
  <1>5. Queued /\ IdleOK
    BY DEF Init, Queued, IdleOK, Idle
  <1>6. ServerOK /\ Positions
    BY <1>1 DEF Init, ServerOK, Positions
  <1>7. NoRaise
    BY <1>1 DEF Init, NoRaise, Gapped, Idle
  <1>8. Handed
    BY DEF Init, Handed, Delivered
  <1> QED  BY <1>4, <1>5, <1>6, <1>7, <1>8 DEF IInv

LEMMA NextIInv == IInv /\ [Next]_vars => IInv'
  BY TypeStep, QueuedStep, ServerStep, IdleStep, NoRaiseStep, KeptStep DEF Kept, IInv

LEMMA Invariance == Spec => []IInv
  BY InitIInv, NextIInv, PTL DEF Spec

(* Every variable keeps its type. *)
THEOREM TypeCorrect == Spec => []TypeOK
  <1>1. IInv => TypeOK
    BY DEF IInv
  <1> QED  BY Invariance, <1>1, PTL

(* No order of updates, gaps, expired deadlines, server errors and bans    *)
(* makes the message box raise: no difference is asked for, applied or     *)
(* ended for an entry it does not follow, nor with a gap left over, and    *)
(* next_deadline always names an entry of map.                             *)
THEOREM NeverRaises == Spec => []NoRaise
  <1>1. IInv => NoRaise
    BY DEF IInv
  <1> QED  BY Invariance, <1>1, PTL

(* However containers, gaps and differences overlap, no event reaches the  *)
(* dispatcher twice while its entry is followed.                           *)
THEOREM HandedOnce == Spec => []AtMostOnce
  <1>1. IInv => AtMostOnce
    BY DEF IInv, Handed, AtMostOnce
  <1> QED  BY Invariance, <1>1, PTL

(* No late answer or update moves a position back. *)
THEOREM NeverBack == Spec => Monotone
  <1>1. IInv /\ [Next]_vars => [\A e \in known \cap known' : pts[e] <= pts'[e]]_vars
    BY KeptStep DEF Kept
  <1> QED  BY Invariance, <1>1, PTL DEF Spec, Monotone

(* Every step of the message box is a step of the feed, or one that the    *)
(* feed does not see.                                                      *)
THEOREM Refinement == Spec => ImplementsFeed
  <1>1. Init => Feed!Init
    <2> SUFFICES ASSUME Init PROVE Feed!Init  OBVIOUS
    <2>1. IInv
      BY InitIInv
    <2>2. /\ log = {} /\ base = pts /\ Delivered = {}
      BY DEF Init, Delivered
    <2>3. /\ srv \in [Entries -> Nat] /\ pts \in [Entries -> Nat] /\ known \in SUBSET Entries
          /\ \A e \in Entries : pts[e] <= srv[e]
      BY <2>1 DEF IInv, TypeOK, Positions
    <2> QED  BY <2>2, <2>3 DEF Feed!Init
  <1>2. IInv /\ [Next]_vars => [Feed!Next]_(Feed!vars)
    BY KeptStep DEF Kept
  <1> QED  BY Invariance, <1>1, <1>2, PTL DEF Spec, ImplementsFeed, Feed!Spec

FeedProofs == INSTANCE UpdateFeedProofs WITH
                end <- srv, pos <- pts, delivered <- Delivered

(* An entry that is followed owes the dispatcher no message up to its      *)
(* position: what the feed guarantees, its implementation inherits.        *)
THEOREM NothingLost == Spec => []NoLoss
  <1>1. FeedProofs!Spec => [](FeedProofs!TypeOK /\ FeedProofs!Within
                              /\ FeedProofs!NoLoss /\ FeedProofs!Behind)
    BY FeedProofs!FeedCorrect
  <1>2. Feed!Init => FeedProofs!Init
    BY DEF Feed!Init, FeedProofs!Init
  <1>3. [Feed!Next]_(Feed!vars) => [FeedProofs!Next]_(FeedProofs!vars)
    BY DEF Feed!Next, Feed!Produce, Feed!Move, Feed!Skip, Feed!Forget, Feed!Passed,
           Feed!From, Feed!Event, Feed!vars,
           FeedProofs!Next, FeedProofs!Produce, FeedProofs!Move, FeedProofs!Skip,
           FeedProofs!Forget, FeedProofs!Passed, FeedProofs!From, FeedProofs!Event,
           FeedProofs!vars
  <1>4. FeedProofs!NoLoss <=> NoLoss
    BY DEF FeedProofs!NoLoss, NoLoss
  <1> QED
    BY Refinement, <1>1, <1>2, <1>3, <1>4, PTL
    DEF ImplementsFeed, Feed!Spec, FeedProofs!Spec
=============================================================================
