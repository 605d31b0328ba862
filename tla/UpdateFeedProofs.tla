------------------------- MODULE UpdateFeedProofs -------------------------
(* What every implementation of the feed inherits. *)
EXTENDS UpdateFeed, TLAPS

(* The reader never runs ahead of the server, and owes nothing of an entry *)
(* it does not follow.                                                     *)
Within ==
  /\ \A ev \in log : ev.pts <= end[ev.entry]
  /\ \A e \in Entries : pos[e] <= end[e]

IInv == TypeOK /\ Within /\ NoLoss /\ Behind

LEMMA InitIInv == Init => IInv
  BY DEF Init, IInv, TypeOK, Within, NoLoss, Behind

LEMMA ProduceIInv == IInv /\ Produce => IInv'
  <1> SUFFICES ASSUME IInv, Produce PROVE IInv'  OBVIOUS
  <1> USE DEF IInv
  <1>1. PICK ev \in log' : /\ ev \in Event
                           /\ ev.pts = end[ev.entry] + ev.cnt
                           /\ log' = log \cup {ev}
                           /\ end' = [end EXCEPT ![ev.entry] = ev.pts]
    BY DEF Produce
  <1>2. /\ ev.entry \in Entries /\ ev.pts \in Nat /\ ev.cnt \in Nat \ {0}
        /\ end \in [Entries -> Nat] /\ pos \in [Entries -> Nat]
        /\ UNCHANGED <<known, pos, base, delivered>>
    BY <1>1 DEF Produce, Event, TypeOK
  <1>3. \A fv \in log : fv.entry \in Entries /\ fv.pts \in Nat
    BY DEF TypeOK, Event
  <1>4. TypeOK'
    BY <1>1, <1>2 DEF TypeOK
  <1>5. Within'
    BY <1>1, <1>2, <1>3 DEF Within
  <1>6. NoLoss'
    <2>1. ~ ev.pts <= pos[ev.entry]
      BY <1>1, <1>2 DEF Within
    <2> QED  BY <1>1, <1>2, <2>1 DEF NoLoss
  <1>7. Behind'
    BY <1>2 DEF Behind
  <1> QED  BY <1>4, <1>5, <1>6, <1>7

LEMMA MoveIInv == IInv /\ Move => IInv'
  <1> SUFFICES ASSUME IInv, Move PROVE IInv'  OBVIOUS
  <1> USE DEF IInv
  <1>1. \A ev \in log : ev.entry \in Entries /\ ev.pts \in Nat
    BY DEF TypeOK, Event
  <1>2. TypeOK'
    BY DEF TypeOK, Move, Passed
  <1>3. Within'
    BY DEF Within, Move
  <1>4. NoLoss'
    <2> SUFFICES ASSUME NEW ev \in log, ev.entry \in known', ev.body = "msg",
                        base'[ev.entry] < ev.pts, ev.pts <= pos'[ev.entry]
                 PROVE  ev \in delivered'
      BY DEF NoLoss, Move
    <2>1. CASE ev.entry \in known /\ ev.pts <= pos[ev.entry]
      BY <1>1, <2>1 DEF NoLoss, Move
    <2>2. CASE ev.entry \in known /\ ~ ev.pts <= pos[ev.entry]
      BY <1>1, <2>2 DEF Move, Passed, From, TypeOK
    <2>3. CASE ev.entry \notin known
      BY <2>3 DEF Move, Passed, From
    <2> QED  BY <2>1, <2>2, <2>3
  <1>5. Behind'
    <2> SUFFICES ASSUME NEW ev \in delivered'
                 PROVE  ev.entry \in known' /\ ev.pts <= pos'[ev.entry]
      BY DEF Behind
    <2>1. CASE ev \in delivered
      BY <1>1, <2>1 DEF Behind, Move, TypeOK
    <2>2. CASE ev \notin delivered
      BY <2>2 DEF Move, Passed
    <2> QED  BY <2>1, <2>2
  <1> QED  BY <1>2, <1>3, <1>4, <1>5

LEMMA SkipIInv == IInv /\ Skip => IInv'
  <1> SUFFICES ASSUME IInv, Skip PROVE IInv'  OBVIOUS
  <1> USE DEF IInv
  <1>1. PICK e \in known :
          /\ pos' \in [Entries -> Nat]
          /\ pos[e] <= pos'[e] /\ pos'[e] <= end[e]
          /\ pos' = [pos EXCEPT ![e] = pos'[e]]
          /\ base' = [base EXCEPT ![e] = pos'[e]]
          /\ UNCHANGED <<log, end, known, delivered>>
    BY DEF Skip
  <1>2. \A ev \in log : ev.entry \in Entries /\ ev.pts \in Nat
    BY DEF TypeOK, Event
  <1>3. TypeOK'
    BY <1>1 DEF TypeOK
  <1>4. Within'
    BY <1>1 DEF Within, TypeOK
  <1>5. NoLoss'
    BY <1>1, <1>2 DEF NoLoss, TypeOK
  <1>6. Behind'
    BY <1>1, <1>2 DEF Behind, TypeOK
  <1> QED  BY <1>3, <1>4, <1>5, <1>6

LEMMA ForgetIInv == IInv /\ Forget => IInv'
  <1> SUFFICES ASSUME IInv, Forget PROVE IInv'  OBVIOUS
  <1> USE DEF IInv
  <1>1. \A ev \in log : ev.entry \in Entries /\ ev.pts \in Nat
    BY DEF TypeOK, Event
  <1>2. TypeOK'
    BY DEF TypeOK, Forget
  <1>3. Within'
    BY DEF Within, Forget, TypeOK
  <1>4. NoLoss'
    BY <1>1 DEF NoLoss, Forget, TypeOK
  <1>5. Behind'
    BY <1>1 DEF Behind, Forget, TypeOK
  <1> QED  BY <1>2, <1>3, <1>4, <1>5

(* The feed keeps its promise: nothing owed is missing, and what was       *)
(* handed over stays behind the reader.                                    *)
THEOREM FeedCorrect == Spec => [](TypeOK /\ Within /\ NoLoss /\ Behind)
  <1>1. IInv /\ UNCHANGED vars => IInv'
    BY DEF IInv, vars, TypeOK, Within, NoLoss, Behind
  <1>2. IInv /\ [Next]_vars => IInv'
    BY <1>1, ProduceIInv, MoveIInv, SkipIInv, ForgetIInv DEF Next
  <1>3. IInv => TypeOK /\ Within /\ NoLoss /\ Behind
    BY DEF IInv
  <1> QED  BY InitIInv, <1>2, <1>3, PTL DEF Spec
=============================================================================
