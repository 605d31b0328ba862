---------------------------- MODULE SenderProofs ----------------------------
(***************************************************************************)
(* For any requests, calls and bounds: the sender's state has its types, a *)
(* disconnection leaves nothing behind, a sender that nobody disconnects   *)
(* does not lose its loops, and no request that somebody waits for is      *)
(* forgotten but behind a cancelled one in a refused container.            *)
(***************************************************************************)
EXTENDS Sender, SequenceTheorems, WellFoundedInduction, NaturalsInduction, TLAPS

(* Where the reconnection stands tells what is left of the connection. *)
ReconnectionOK ==
  /\ rt \in {"start", "closing", "stopping"} => reconnecting
  /\ rt \in {"closing", "stopping", "trying"} => ~ connected
  /\ rt = "stopping" => sendLoop = "off"
  /\ rt = "trying" => /\ user /\ ~ reconnecting /\ sendLoop = "off" /\ recvLoop = "off"
                     /\ dis \in {"off", "await"}

(* So does where a disconnection stands. *)
DisconnectionOK ==
  /\ dis \in {"closing", "stopping"} => ~ user
  /\ dis = "stopping" => pending = <<>> /\ sendLoop = "off"
  /\ dis = "go" => rt \in {"off", "start"}

(* Once the user has left and nobody is at work on it, nothing remains. *)
LeftOK ==
  ~ user /\ dis \notin {"closing", "stopping"} =>
    /\ sendLoop = "off" /\ recvLoop = "off" /\ pending = <<>> /\ ended /\ ~ conn

ControlInv == ReconnectionOK /\ DisconnectionOK /\ LeftOK

(* A sender nobody disconnects during a reconnection is only without a     *)
(* loop while it reconnects or is left, and has its flag set exactly as    *)
(* long as the loops are told to end.                                      *)
StayingOK ==
  ~ (Leaves /\ Hasty) =>
    /\ dis \in {"off", "closing", "stopping"}
    /\ rt \in {"off", "trying"} => ~ reconnecting
    /\ user /\ rt = "off" => sendLoop # "off" /\ recvLoop # "off"

(* A server that refuses nothing for good tells nobody that it did. *)
NothingBad == ~ Rejects => \A i \in DOMAIN inq : inq[i].kind # "bad"

-----------------------------------------------------------------------------
(* Without.  The induction theorems of the library take an operator; this  *)
(* one takes a set, and follows from the well-foundedness of <.            *)

(* A set of numbers has a least one. *)
LEMMA LeastMember ==
  ASSUME NEW U, U \subseteq Nat, U # {}
  PROVE  \E x \in U : \A y \in U : ~ (y < x)
<1> DEFINE R == OpToRel(<, Nat)
<1>1. IsWellFoundedOn(R, Nat)
  BY NatLessThanWellFounded
<1>2. \A x, y \in Nat : y < x => <<y, x>> \in R
  BY DEF OpToRel
<1> HIDE DEF R
<1>3. PICK x \in U : \A y \in U : ~ (<<y, x>> \in R)
  BY <1>1, WFMin
<1> QED
  BY <1>2, <1>3

(* A set of numbers with 0 and the successors of its members has them all. *)
LEMMA Induction ==
  ASSUME NEW T, T \subseteq Nat, 0 \in T, \A n \in T : n + 1 \in T
  PROVE  T = Nat
<1> DEFINE U == Nat \ T
<1> SUFFICES ASSUME U # {} PROVE FALSE
  OBVIOUS
<1>1. PICK x \in U : \A y \in U : ~ (y < x)
  BY LeastMember
<1>2. x # 0 /\ x - 1 \in Nat /\ x - 1 < x
  BY <1>1
<1>3. x - 1 \in T
  BY <1>1, <1>2
<1> QED
  BY <1>1, <1>2, <1>3

(* f is kept of Without(s, S), up to n. *)
Keeps(f, s, S, n) ==
  f = [k \in 0..n |-> IF k = 0 THEN <<>>
                      ELSE IF s[k] \in S THEN f[k - 1] ELSE Append(f[k - 1], s[k])]

(* The function that Without defines by recursion exists. *)
LEMMA KeepsExists ==
  ASSUME NEW s, NEW S, NEW N \in Nat
  PROVE  \E f : Keeps(f, s, S, N)
<1> DEFINE T == {n \in Nat : \E f : Keeps(f, s, S, n)}
<1>1. 0 \in T
  <2> DEFINE f == [k \in 0..0 |-> <<>>]
  <2>1. Keeps(f, s, S, 0)
    BY DEF Keeps
  <2> QED
    BY <2>1
<1>2. ASSUME NEW n \in T PROVE n + 1 \in T
  <2>1. PICK f : Keeps(f, s, S, n)
    OBVIOUS
  <2> DEFINE last == IF s[n + 1] \in S THEN f[n] ELSE Append(f[n], s[n + 1])
             g == [k \in 0..(n + 1) |-> IF k = n + 1 THEN last ELSE f[k]]
  <2>2. n \in Nat
    OBVIOUS
  <2>3. \A k \in 0..n : f[k] = IF k = 0 THEN <<>>
                               ELSE IF s[k] \in S THEN f[k - 1]
                               ELSE Append(f[k - 1], s[k])
    BY <2>1 DEF Keeps
  <2>4. \A k \in 0..n : g[k] = f[k]
    BY <2>2
  <2>5. g[n + 1] = last
    BY <2>2
  <2> HIDE DEF last
  <2>6. ASSUME NEW k \in 0..(n + 1)
        PROVE  g[k] = IF k = 0 THEN <<>>
                      ELSE IF s[k] \in S THEN g[k - 1] ELSE Append(g[k - 1], s[k])
    <3>1. CASE k = n + 1
      <4>1. k # 0 /\ k - 1 = n /\ g[k - 1] = f[n]
        BY <2>2, <2>4, <3>1
      <4> HIDE DEF g
      <4> QED
        BY <2>5, <3>1, <4>1 DEF last
    <3>2. CASE k # n + 1
      <4>1. k \in 0..n /\ g[k] = f[k] /\ (k # 0 => k - 1 \in 0..n /\ g[k - 1] = f[k - 1])
        BY <2>2, <2>4, <3>2
      <4> HIDE DEF g
      <4> QED
        BY <2>3, <4>1
    <3> QED
      BY <3>1, <3>2
  <2>7. Keeps(g, s, S, n + 1)
    BY <2>6 DEF Keeps
  <2> QED
    BY <2>2, <2>7
<1> HIDE DEF T
<1>3. T = Nat
  BY <1>1, <1>2, Induction DEF T
<1> QED
  BY <1>3 DEF T

(* Without is the last value of that function. *)
LEMMA WithoutKeeps ==
  ASSUME NEW s, NEW S, Len(s) \in Nat
  PROVE  \E f : Keeps(f, s, S, Len(s)) /\ Without(s, S) = f[Len(s)]
<1>1. \E f : Keeps(f, s, S, Len(s))
  BY KeepsExists
<1> QED
  BY <1>1, Zenon DEF Keeps, Without

(* Without leaves a sequence of the elements that are not in S. *)
LEMMA WithoutFacts ==
  ASSUME NEW X, NEW s \in Seq(X), NEW S
  PROVE  /\ Without(s, S) \in Seq(X)
         /\ Range(Without(s, S)) = Range(s) \ S
         /\ Without(<<>>, S) = <<>>
<1>1. Len(s) \in Nat /\ DOMAIN s = 1..Len(s) /\ \A k \in 1..Len(s) : s[k] \in X
  BY LenProperties, ElementOfSeq
<1>2. PICK f : Keeps(f, s, S, Len(s)) /\ Without(s, S) = f[Len(s)]
  BY <1>1, WithoutKeeps
<1>3. \A k \in 0..Len(s) : f[k] = IF k = 0 THEN <<>>
                                  ELSE IF s[k] \in S THEN f[k - 1]
                                  ELSE Append(f[k - 1], s[k])
  BY <1>2 DEF Keeps
<1> DEFINE Good(n) == f[n] \in Seq(X) /\ Range(f[n]) = {s[k] : k \in 1..n} \ S
           T == {n \in Nat : n <= Len(s) => Good(n)}
<1>4. 0 \in T
  <2>1. f[0] = <<>>
    BY <1>1, <1>3
  <2>2. Range(<<>>) = {} /\ 1..0 = {} /\ <<>> \in Seq(X)
    BY DEF Range
  <2>3. {s[k] : k \in 1..0} = {}
    BY <2>2
  <2>4. Good(0)
    BY <2>1, <2>2, <2>3
  <2> QED
    BY <2>4
<1>5. ASSUME NEW n \in T PROVE n + 1 \in T
  <2> SUFFICES ASSUME n + 1 <= Len(s) PROVE Good(n + 1)
    OBVIOUS
  <2>1. n \in Nat /\ n \in 0..Len(s) /\ n + 1 \in 1..Len(s) /\ Good(n)
    BY <1>1
  <2>2. {s[k] : k \in 1..(n + 1)} = {s[k] : k \in 1..n} \cup {s[n + 1]}
    BY <2>1
  <2>3. s[n + 1] \in X
    BY <1>1, <2>1
  <2>a. f[n + 1] = IF s[n + 1] \in S THEN f[n] ELSE Append(f[n], s[n + 1])
    BY <1>3, <2>1
  <2>4. CASE s[n + 1] \in S
    BY <2>1, <2>2, <2>4, <2>a
  <2>5. CASE s[n + 1] \notin S
    <3>1. f[n + 1] = Append(f[n], s[n + 1])
      BY <2>5, <2>a
    <3>2. f[n + 1] = f[n] \o <<s[n + 1]>> /\ f[n + 1] \in Seq(X)
      BY <2>1, <2>3, <3>1, AppendIsConcat, AppendProperties
    <3>3. Range(<<s[n + 1]>>) = {s[n + 1]} /\ <<s[n + 1]>> \in Seq(X)
      BY <2>3 DEF Range
    <3>4. f[n] \in Seq(X)
      BY <2>1
    <3>5. Range(f[n] \o <<s[n + 1]>>) = Range(f[n]) \cup Range(<<s[n + 1]>>)
      <4>1. \A a, b \in Seq(X) : Range(a \o b) = Range(a) \cup Range(b)
        BY RangeConcatenation
      <4> HIDE DEF Good, T
      <4> QED
        BY <3>3, <3>4, <4>1
    <3> QED
      BY <2>1, <2>2, <2>5, <3>2, <3>3, <3>5
  <2> QED
    BY <2>4, <2>5
<1>6. T = Nat
  <2> HIDE DEF Good
  <2>1. T \subseteq Nat
    OBVIOUS
  <2> HIDE DEF T
  <2> QED
    BY <1>4, <1>5, <2>1, Induction
<1>7. Good(Len(s))
  <2>0. Len(s) \in T
    <3> HIDE DEF T
    <3> QED
      BY <1>1, <1>6
  <2>1. Len(s) \in T /\ Len(s) <= Len(s)
    BY <1>1, <2>0
  <2> QED
    BY <2>1
<1>8. Range(s) = {s[k] : k \in 1..Len(s)}
  BY RangeEquality
<1>9. Without(<<>>, S) = <<>>
  <2>1. Len(<<>>) = 0
    OBVIOUS
  <2>2. PICK g : Keeps(g, <<>>, S, 0) /\ Without(<<>>, S) = g[0]
    BY <2>1, WithoutKeeps
  <2> QED
    BY <2>2 DEF Keeps
<1> QED
  BY <1>2, <1>7, <1>8, <1>9

-----------------------------------------------------------------------------
(* Types                                                                   *)

(* What the assumptions say of the parameters. *)
LEMMA ParameterFact ==
  /\ None \notin Items /\ Ping \in Items /\ Ping # None /\ Requests \subseteq Items
  /\ Ping \notin Requests
  /\ \A call \in Calls : call \in Seq(Requests) /\ call \in Seq(Items)
  /\ MaxConnects \in Nat /\ MaxBreaks \in Nat /\ MaxRefusals \in Nat
BY ItemsAssumption, BoundsAssumption, SeqMonotonic DEF Items

FutType == [Requests -> {"none", "pending", "done", "failed", "cancelled"}]

(* The initial state has its types. *)
LEMMA TypeInit == Init => TypeOK
<1> SUFFICES ASSUME Init PROVE TypeOK
  OBVIOUS
<1>1. fut \in FutType
  BY DEF Init, FutType
<1>2. mid \in [Items -> Nat] /\ cont \in [Items -> SUBSET Messages]
  BY DEF Init
<1>3. queue \in Seq(Items) /\ pending \in Seq(Items)
  BY DEF Init
<1>4. 0 \in 0..MaxConnects /\ 0 \in 0..MaxBreaks /\ 0 \in 0..MaxRefusals
  BY ParameterFact
<1>5. AtMostOne(outq, Packets) /\ AtMostOne(held, Packets) /\ AtMostOne(inq, Answers)
  BY DEF Init, AtMostOne
<1> QED
  BY <1>1, <1>2, <1>3, <1>4, <1>5 DEF Init, TypeOK, FutType

(* A sequence that is cut in two has the elements of both parts (SendBatch). *)
LEMMA Split ==
  ASSUME NEW X, NEW s \in Seq(X), NEW k \in 1..Len(s)
  PROVE  /\ SubSeq(s, 1, k) \in Seq(X) /\ SubSeq(s, k + 1, Len(s)) \in Seq(X)
         /\ Range(SubSeq(s, 1, k)) \subseteq X
         /\ Range(s) = Range(SubSeq(s, 1, k)) \cup Range(SubSeq(s, k + 1, Len(s)))
<1>1. Len(s) \in Nat /\ \A i \in 1..Len(s) : s[i] \in X
  BY LenProperties, ElementOfSeq
<1> DEFINE a == SubSeq(s, 1, k)
           b == SubSeq(s, k + 1, Len(s))
<1>2. a \in Seq(X) /\ Len(a) = k /\ \A i \in 1..k : a[i] = s[i]
  BY <1>1, SubSeqProperties
<1>3. /\ b \in Seq(X) /\ Len(b) = Len(s) - k
      /\ \A i \in 1..(Len(s) - k) : b[i] = s[k + i]
  BY <1>1, SubSeqProperties
<1> HIDE DEF a, b
<1>4. /\ Range(a) = {a[i] : i \in 1..k} /\ Range(b) = {b[i] : i \in 1..(Len(s) - k)}
      /\ Range(s) = {s[i] : i \in 1..Len(s)}
  <2>1. \A x \in Seq(X) : Range(x) = {x[i] : i \in 1..Len(x)}
    BY RangeEquality
  <2>2. Range(a) = {a[i] : i \in 1..k}
    BY <1>2, <2>1, Zenon
  <2>3. Range(b) = {b[i] : i \in 1..(Len(s) - k)}
    BY <1>3, <2>1, Zenon
  <2>4. Range(s) = {s[i] : i \in 1..Len(s)}
    BY <2>1, Zenon
  <2> QED
    BY <2>2, <2>3, <2>4
<1>5. Range(a) \subseteq X
  BY <1>2, RangeOfSeq
<1>6. Range(s) = Range(a) \cup Range(b)
  <2>1. ASSUME NEW i \in 1..Len(s) PROVE s[i] \in Range(a) \cup Range(b)
    <3>1. CASE i <= k
      BY <1>2, <1>4, <3>1
    <3>2. CASE i > k
      <4>1. i - k \in 1..(Len(s) - k) /\ s[i] = b[i - k]
        BY <1>1, <1>3, <3>2
      <4> QED
        BY <1>4, <4>1
    <3> QED
      BY <3>1, <3>2
  <2>2. Range(a) \subseteq Range(s)
    BY <1>1, <1>2, <1>4
  <2>3. ASSUME NEW i \in 1..(Len(s) - k) PROVE b[i] \in Range(s)
    <3>1. k + i \in 1..Len(s) /\ b[i] = s[k + i]
      BY <1>1, <1>3
    <3> QED
      BY <1>4, <3>1
  <2> QED
    BY <1>4, <2>1, <2>2, <2>3
<1> QED
  BY <1>2, <1>3, <1>5, <1>6 DEF a, b

(* Resolving changes the futures that wait, and only them. *)
LEMMA ResolveFact ==
  ASSUME NEW S, NEW outcome \in {"done", "failed", "cancelled"},
         fut \in FutType, Resolve(S, outcome)
  PROVE  /\ fut' \in FutType
         /\ \A r \in Requests :
              fut'[r] = IF r \in S /\ fut[r] = "pending" THEN outcome ELSE fut[r]
BY DEF Resolve, FutType

(* A packet of an earlier session is a packet. *)
LEMMA OldPacket == \A p \in Packets : [p EXCEPT !.old = TRUE] \in Packets
BY Zenon DEF Packets

(* An answer of an earlier session is an answer. *)
LEMMA OldAnswer == \A a \in Answers : [a EXCEPT !.old = TRUE] \in Answers
BY Zenon DEF Answers

(* A new session keeps the types of what is under way. *)
LEMMA AgedFact ==
  ASSUME NEW S, NEW q, AtMostOne(q, S), \A x \in S : [x EXCEPT !.old = TRUE] \in S
  PROVE  AtMostOne(Aged(q), S)
<1>1. CASE q = <<>>
  BY <1>1 DEF AtMostOne, Aged
<1>2. CASE q # <<>>
  <2>1. q[1] \in S
    BY <1>2 DEF AtMostOne
  <2>2. [q[1] EXCEPT !.old = TRUE] \in S
    BY <2>1, Zenon
  <2>3. Aged(q) = <<[q[1] EXCEPT !.old = TRUE]>>
    BY <1>2, Zenon DEF Aged
  <2>4. PICK a : a = [q[1] EXCEPT !.old = TRUE]
    BY Zenon
  <2>5. a \in S /\ Aged(q) = <<a>>
    BY <2>2, <2>3, <2>4, Zenon
  <2> QED
    BY <2>5 DEF AtMostOne
<1> QED
  BY <1>1, <1>2

(* Every step keeps the types. *)
LEMMA TypeStep == TypeOK /\ [Next]_vars => TypeOK'
<1> SUFFICES ASSUME TypeOK, [Next]_vars PROVE TypeOK'
  OBVIOUS
<1> USE ParameterFact DEF TypeOK, AtMostOne, flags, states, tasks, transport, world, counters
<1>1. CASE UNCHANGED vars
  BY <1>1 DEF vars
<1>2. ASSUME NEW call \in Calls, Send(call) PROVE TypeOK'
  <2>1. queue \o call \in Seq(Items)
    BY ConcatProperties
  <2> QED
    BY <1>2, <2>1 DEF Send
<1>3. CASE GiveUp
  <2>1. fut' \in FutType
    BY <1>3 DEF GiveUp, FutType
  <2> QED
    BY <1>3, <2>1 DEF GiveUp, FutType
<1>4. CASE Keepalive
  <2>1. queue' \in Seq(Items)
    <3>1. Append(queue, Ping) \in Seq(Items)
      BY AppendProperties
    <3> QED
      BY <1>4, <3>1 DEF Keepalive
  <2>2. ping' \in {None, Ping} /\ reconnecting' \in BOOLEAN /\ rt' \in {rt, "start"}
    BY <1>4 DEF Keepalive, StartReconnect
  <2> QED
    BY <1>4, <2>1, <2>2 DEF Keepalive
<1>5. CASE Connect
  <2>1. connects' \in 0..MaxConnects
    BY <1>5 DEF Connect
  <2> QED
    BY <1>5, <2>1 DEF Connect, NewConnection, StartLoops
<1>6. CASE CancelReconnect
  BY <1>6 DEF CancelReconnect
<1>7. CASE CloseConnection
  <2>1. user' \in BOOLEAN /\ connected' \in BOOLEAN
    BY <1>7 DEF CloseConnection
  <2> QED
    BY <1>7, <2>1 DEF CloseConnection
<1>8. CASE CancelPending
  <2>1. fut' \in FutType
    BY <1>8, ResolveFact DEF CancelPending, DropPending, FutType
  <2>2. pending' \in Seq(Items) /\ AtMostOne(held', Packets)
    BY <1>8 DEF CancelPending, DropPending
  <2>3. dis' = "stopping" /\ sendLoop' = "off" /\ user' = FALSE
    BY <1>8 DEF CancelPending
  <2>4. user' \in BOOLEAN
    BY <2>3
  <2> QED
    BY <1>8, <2>1, <2>2, <2>3, <2>4 DEF CancelPending, FutType
<1>9. CASE Disconnected
  <2>1. conn' \in BOOLEAN /\ ended' \in BOOLEAN
    BY <1>9 DEF Disconnected
  <2> QED
    BY <1>9, <2>1 DEF Disconnected
<1>10. CASE NotConnected
  BY <1>10 DEF NotConnected
<1>11. CASE ReconnectStart
  <2>1. connected' \in BOOLEAN
    BY <1>11 DEF ReconnectStart
  <2> QED
    BY <1>11, <2>1 DEF ReconnectStart
<1>12. CASE ReconnectClosed
  BY <1>12 DEF ReconnectClosed
<1>13. CASE ReconnectStopped
  <2>0. fut' \in FutType
    BY <1>13, ResolveFact DEF ReconnectStopped, DropPending, FutType
  <2>1. pending' \in Seq(Items)
    <3>1. pending' = pending \/ pending' = <<>>
      BY <1>13 DEF ReconnectStopped, DropPending
    <3>2. <<>> \in Seq(Items)
      OBVIOUS
    <3> QED
      BY <3>1, <3>2, Zenon
  <2>2. AtMostOne(outq', Packets) /\ AtMostOne(inq', Answers)
    BY <1>13, AgedFact, OldPacket, OldAnswer DEF ReconnectStopped, ResetState
  <2>3. mid' \in [Items -> Nat] /\ execs' = {} /\ refused' = {}
    BY <1>13 DEF ReconnectStopped, ResetState
  <2>4. /\ user' \in BOOLEAN /\ reconnecting' \in BOOLEAN /\ conn' \in BOOLEAN
        /\ ended' \in BOOLEAN /\ connected' \in BOOLEAN
    BY <1>13 DEF ReconnectStopped, AllowLoops
  <2>5. rt' \in {"off", "trying"} /\ dis' \in {"off", "await", "go", "closing", "stopping"}
    BY <1>13 DEF ReconnectStopped, WakeDisconnect
  <2> QED
    BY <1>13, <2>0, <2>1, <2>2, <2>3, <2>4, <2>5 DEF ReconnectStopped, FutType
<1>14. CASE Reconnected
  <2>1. queue \o pending \in Seq(Items)
    BY ConcatProperties
  <2> QED
    BY <1>14, <2>1 DEF Reconnected, StartLoops, Requeue, WakeDisconnect
<1>15. CASE ReconnectFailed
  <2>1. fut' \in FutType
    BY <1>15, ResolveFact DEF ReconnectFailed, DropPending, FutType
  <2>2. pending' \in Seq(Items)
    BY <1>15 DEF ReconnectFailed, DropPending
  <2>3. dis' \in {dis, "go"}
    BY <1>15 DEF ReconnectFailed, WakeDisconnect
  <2>4. user' \in BOOLEAN /\ conn' \in BOOLEAN /\ ended' \in BOOLEAN
    BY <1>15 DEF ReconnectFailed
  <2> QED
    BY <1>15, <2>1, <2>2, <2>3, <2>4 DEF ReconnectFailed, FutType
<1>16. CASE SendLoopEnds
  BY <1>16 DEF SendLoopEnds
<1>17. CASE SendLoopWaits
  BY <1>17 DEF SendLoopWaits
<1>18. CASE SendBatch
  <2>1. PICK k \in 1..Len(queue) :
          LET batch == SubSeq(queue, 1, k)
              packet == [msgs |-> {<<i, NextId(i)>> : i \in Range(batch)}, old |-> FALSE]
          IN /\ queue' = SubSeq(queue, k + 1, Len(queue))
             /\ AddPending(batch)
             /\ \/ /\ ~ connected /\ StartReconnect /\ sendLoop' = "off"
                   /\ UNCHANGED <<outq, held>>
                \/ /\ connected /\ outq = <<>> /\ outq' = <<packet>> /\ sendLoop' = "top"
                   /\ UNCHANGED <<reconnecting, rt, held>>
                \/ /\ connected /\ outq # <<>> /\ held' = <<packet>> /\ sendLoop' = "full"
                   /\ UNCHANGED <<reconnecting, rt, outq>>
    BY <1>18 DEF SendBatch
  <2> DEFINE batch == SubSeq(queue, 1, k)
             packet == [msgs |-> {<<i, NextId(i)>> : i \in Range(batch)}, old |-> FALSE]
  <2>2. /\ batch \in Seq(Items) /\ SubSeq(queue, k + 1, Len(queue)) \in Seq(Items)
        /\ Range(batch) \subseteq Items
    BY Split
  <2>3. \A i \in Items : NextId(i) \in Nat
    BY DEF NextId
  <2>4. \A i \in Range(batch) : <<i, NextId(i)>> \in Messages
    BY <2>2, <2>3 DEF Messages
  <2>5. packet \in Packets
    BY <2>4 DEF Packets
  <2>6. queue' \in Seq(Items)
    BY <2>1, <2>2
  <2> HIDE DEF packet
  <2>7. pending' \in Seq(Items) /\ mid' \in [Items -> Nat]
    <3>1. pending \o batch \in Seq(Items)
      BY <2>2, ConcatProperties
    <3> QED
      BY <2>1, <2>3, <3>1 DEF AddPending
  <2>8. cont' \in [Items -> SUBSET Messages]
    <3>1. {<<j, NextId(j)>> : j \in Range(batch)} \subseteq Messages
      BY <2>4
    <3> QED
      BY <2>1, <3>1 DEF AddPending
  <2> HIDE DEF batch
  <2>9. AtMostOne(outq', Packets) /\ AtMostOne(held', Packets)
    <3>1. \/ outq' = outq /\ held' = held
          \/ outq' = <<packet>> /\ held' = held
          \/ outq' = outq /\ held' = <<packet>>
      BY <2>1, Zenon DEF packet, batch
    <3>2. AtMostOne(<<packet>>, Packets)
      BY <2>5
    <3> QED
      BY <3>1, <3>2
  <2>10. /\ sendLoop' \in {"off", "top", "full"} /\ reconnecting' \in BOOLEAN
         /\ rt' \in {rt, "start"}
    BY <2>1 DEF StartReconnect
  <2> QED
    <3>1. UNCHANGED <<user, conn, ended, fut, ping, recvLoop, dis, connected, inq, world,
                      counters>>
      BY <1>18, Zenon DEF SendBatch
    <3> QED
      BY <2>6, <2>7, <2>8, <2>9, <2>10, <3>1
<1>19. CASE SendHeld
  BY <1>19 DEF SendHeld
<1>20. CASE Transmit
  <2>1. outq[1] \in Packets /\ outq[1].msgs \subseteq Messages
    BY <1>20 DEF Transmit, Packets
  <2>2. execs' \subseteq Messages /\ refused' \subseteq SUBSET Messages
    <3>1. \A S \in {outq[1].msgs} \cup {{m} : m \in outq[1].msgs} : S \subseteq Messages
      BY <2>1
    <3> QED
      BY <1>20, <2>1, <3>1 DEF Transmit
  <2>3. refusals' \in 0..MaxRefusals /\ AtMostOne(outq', Packets)
    BY <1>20 DEF Transmit
  <2> QED
    BY <1>20, <2>2, <2>3 DEF Transmit
<1>21. ASSUME NEW r \in Requests, Answer(r) PROVE TypeOK'
  BY <1>21 DEF Answer, Incoming, Answers
<1>22. CASE Pong
  BY <1>22 DEF Pong, Incoming, Answers
<1>23. CASE Refuse
  BY <1>23 DEF Refuse, Incoming, Answers
<1>24. CASE Break
  BY <1>24 DEF Break
<1>25. CASE Notice
  <2>1. [kind |-> "lost", id |-> {}, old |-> FALSE] \in Answers
    BY DEF Answers
  <2>2. AtMostOne(inq', Answers)
    BY <1>25, <2>1 DEF Notice
  <2>3. connected' \in BOOLEAN
    BY <1>25 DEF Notice
  <2> QED
    BY <1>25, <2>2, <2>3 DEF Notice
<1>26. CASE WriteFails
  <2>1. connected' \in BOOLEAN
    BY <1>26 DEF WriteFails
  <2> QED
    BY <1>26, <2>1 DEF WriteFails
<1>27. CASE Garbled
  BY <1>27 DEF Garbled, Incoming, Answers
<1>28. CASE RecvLoopEnds
  BY <1>28 DEF RecvLoopEnds
<1>29. CASE RecvLoopWaits
  BY <1>29 DEF RecvLoopWaits
<1>30. CASE RecvLoopFails
  BY <1>30 DEF RecvLoopFails, StartReconnect
<1>31. CASE ConnectionLost
  <2>1. reconnecting' \in BOOLEAN
    BY <1>31 DEF ConnectionLost, StartReconnect
  <2> QED
    BY <1>31, <2>1 DEF ConnectionLost, StartReconnect
<1>32. CASE HandleOld
  BY <1>32 DEF HandleOld, Handling
<1>a. \A S : Without(pending, S) \in Seq(Items)
  BY WithoutFacts
<1>33. CASE HandleResult
  BY <1>33, <1>a DEF HandleResult, Handling, Resolve
<1>34. CASE HandlePong
  BY <1>34, <1>a DEF HandlePong, Handling, PongReceived
<1>35. CASE HandleAgain
  <2>1. \A S : queue \o Without(pending, S) \in Seq(Items)
    BY <1>a, ConcatProperties
  <2> QED
    BY <1>35, <1>a, <2>1 DEF HandleAgain, Handling, Retry
<1>36. CASE HandleBad
  BY <1>36, <1>a DEF HandleBad, Handling, Resolve
<1> QED
  BY <1>1, <1>2, <1>3, <1>4, <1>5, <1>6, <1>7, <1>8, <1>9, <1>10, <1>11, <1>12, <1>13,
     <1>14, <1>15, <1>16, <1>17, <1>18, <1>19, <1>20, <1>21, <1>22, <1>23, <1>24,
     <1>25, <1>26, <1>27, <1>28, <1>29, <1>30, <1>31, <1>32, <1>33, <1>34, <1>35, <1>36
  DEF Next, Callers, Disconnecting, Reconnecting, Sending, Network, Receiving

-----------------------------------------------------------------------------
(* Control                                                                 *)

(* Every step keeps where the tasks stand consistent with the flags. *)
LEMMA ControlStep == TypeOK /\ ControlInv /\ [Next]_vars => ControlInv'
<1> SUFFICES ASSUME TypeOK, ControlInv, [Next]_vars PROVE ControlInv'
  OBVIOUS
<1> USE DEF ControlInv, ReconnectionOK, DisconnectionOK, LeftOK,
            flags, states, tasks, transport, world, counters
<1>a. ASSUME NEW S PROVE Without(<<>>, S) = <<>>
  <2>1. <<>> \in Seq(Items)
    OBVIOUS
  <2> QED
    BY <2>1, WithoutFacts
<1>1. CASE UNCHANGED vars
  BY <1>1 DEF vars
<1>2. ASSUME NEW call \in Calls, Send(call) PROVE ControlInv'
  BY <1>2 DEF Send
<1>3. CASE GiveUp
  BY <1>3 DEF GiveUp
<1>4. CASE Keepalive
  BY <1>4 DEF Keepalive, StartReconnect, Running
<1>5. CASE Connect
  BY <1>5 DEF Connect, NewConnection, StartLoops
<1>6. CASE CancelReconnect
  BY <1>6 DEF CancelReconnect
<1>7. CASE CloseConnection
  BY <1>7 DEF CloseConnection, Leaving
<1>8. CASE CancelPending
  BY <1>8 DEF CancelPending, Leaving, DropPending
<1>9. CASE Disconnected
  BY <1>9 DEF Disconnected
<1>10. CASE NotConnected
  BY <1>10 DEF NotConnected
<1>11. CASE ReconnectStart
  BY <1>11 DEF ReconnectStart
<1>12. CASE ReconnectClosed
  BY <1>12 DEF ReconnectClosed
<1>13. CASE ReconnectStopped
  <2>1. CASE user
    <3>1. dis \in {"off", "await"}
      BY <1>13, <2>1 DEF ReconnectStopped, TypeOK
    <3> QED
      BY <1>13, <2>1, <3>1 DEF ReconnectStopped, AllowLoops
  <2>2. CASE ~ user
    <3>1. pending' = <<>> /\ ~ conn' /\ ended' /\ rt' = "off" /\ recvLoop' = "off"
      BY <1>13, <2>2 DEF ReconnectStopped, DropPending
    <3>2. dis' = dis \/ (dis = "await" /\ dis' = "go")
      BY <1>13, <2>2 DEF ReconnectStopped, WakeDisconnect
    <3> QED
      BY <1>13, <2>2, <3>1, <3>2 DEF ReconnectStopped
  <2> QED
    BY <2>1, <2>2
<1>14. CASE Reconnected
  BY <1>14 DEF Reconnected, StartLoops, Requeue, WakeDisconnect
<1>15. CASE ReconnectFailed
  BY <1>15 DEF ReconnectFailed, DropPending, WakeDisconnect
<1>16. CASE SendLoopEnds
  BY <1>16 DEF SendLoopEnds, Running
<1>17. CASE SendLoopWaits
  BY <1>17 DEF SendLoopWaits
<1>18. CASE SendBatch
  BY <1>18 DEF SendBatch, Getting, StartReconnect, Running
<1>19. CASE SendHeld
  BY <1>19 DEF SendHeld
<1>20. CASE Transmit
  BY <1>20 DEF Transmit
<1>21. ASSUME NEW r \in Requests, Answer(r) PROVE ControlInv'
  BY <1>21 DEF Answer, Incoming
<1>22. CASE Pong
  BY <1>22 DEF Pong, Incoming
<1>23. CASE Refuse
  BY <1>23 DEF Refuse, Incoming
<1>24. CASE Break
  BY <1>24 DEF Break
<1>25. CASE Notice
  BY <1>25 DEF Notice
<1>26. CASE WriteFails
  BY <1>26 DEF WriteFails
<1>27. CASE Garbled
  BY <1>27 DEF Garbled, Incoming
<1>28. CASE RecvLoopEnds
  BY <1>28 DEF RecvLoopEnds, Running
<1>29. CASE RecvLoopWaits
  BY <1>29 DEF RecvLoopWaits
<1>30. CASE RecvLoopFails
  BY <1>30 DEF RecvLoopFails, StartReconnect, Running
<1>31. CASE ConnectionLost
  BY <1>31 DEF ConnectionLost, StartReconnect, Running
<1>32. CASE HandleOld
  BY <1>32 DEF HandleOld, Handling
<1>33. CASE HandleResult
  BY <1>33, <1>a DEF HandleResult, Handling
<1>34. CASE HandlePong
  BY <1>34, <1>a DEF HandlePong, Handling, PongReceived
<1>35. CASE HandleAgain
  BY <1>35, <1>a DEF HandleAgain, Handling, Retry
<1>36. CASE HandleBad
  BY <1>36, <1>a DEF HandleBad, Handling
<1> QED
  BY <1>1, <1>2, <1>3, <1>4, <1>5, <1>6, <1>7, <1>8, <1>9, <1>10, <1>11, <1>12, <1>13,
     <1>14, <1>15, <1>16, <1>17, <1>18, <1>19, <1>20, <1>21, <1>22, <1>23, <1>24,
     <1>25, <1>26, <1>27, <1>28, <1>29, <1>30, <1>31, <1>32, <1>33, <1>34, <1>35, <1>36
  DEF Next, Callers, Disconnecting, Reconnecting, Sending, Network, Receiving

(* Every step keeps the loops of a sender nobody disconnects in a hurry. *)
LEMMA StayingStep == TypeOK /\ ControlInv /\ StayingOK /\ [Next]_vars => StayingOK'
<1> SUFFICES ASSUME TypeOK, ControlInv, StayingOK, ~ (Leaves /\ Hasty), [Next]_vars
             PROVE  StayingOK'
  BY DEF StayingOK
<1>d. dis \in {"closing", "stopping"} => ~ user
  BY DEF ControlInv, DisconnectionOK
<1> USE <1>d DEF StayingOK, flags, states, tasks, transport, world, counters
<1>1. CASE UNCHANGED vars
  BY <1>1 DEF vars
<1>2. ASSUME NEW call \in Calls, Send(call) PROVE StayingOK'
  BY <1>2 DEF Send
<1>3. CASE GiveUp
  BY <1>3 DEF GiveUp
<1>4. CASE Keepalive
  BY <1>4 DEF Keepalive, StartReconnect, Running
<1>5. CASE Connect
  BY <1>5 DEF Connect, NewConnection, StartLoops
<1>6. CASE CancelReconnect
  BY <1>6 DEF CancelReconnect
<1>7. CASE CloseConnection
  BY <1>7 DEF CloseConnection, Leaving
<1>8. CASE CancelPending
  BY <1>8 DEF CancelPending, Leaving, DropPending
<1>9. CASE Disconnected
  BY <1>9 DEF Disconnected
<1>10. CASE NotConnected
  BY <1>10 DEF NotConnected
<1>11. CASE ReconnectStart
  BY <1>11 DEF ReconnectStart
<1>12. CASE ReconnectClosed
  BY <1>12 DEF ReconnectClosed
<1>13. CASE ReconnectStopped
  BY <1>13 DEF ReconnectStopped, AllowLoops, DropPending, WakeDisconnect
<1>14. CASE Reconnected
  BY <1>14 DEF Reconnected, StartLoops, Requeue, WakeDisconnect
<1>15. CASE ReconnectFailed
  BY <1>15 DEF ReconnectFailed, DropPending, WakeDisconnect
<1>16. CASE SendLoopEnds
  BY <1>16 DEF SendLoopEnds, Running
<1>17. CASE SendLoopWaits
  BY <1>17 DEF SendLoopWaits
<1>18. CASE SendBatch
  BY <1>18 DEF SendBatch, Getting, StartReconnect, Running
<1>19. CASE SendHeld
  BY <1>19 DEF SendHeld
<1>20. CASE Transmit
  BY <1>20 DEF Transmit
<1>21. ASSUME NEW r \in Requests, Answer(r) PROVE StayingOK'
  BY <1>21 DEF Answer, Incoming
<1>22. CASE Pong
  BY <1>22 DEF Pong, Incoming
<1>23. CASE Refuse
  BY <1>23 DEF Refuse, Incoming
<1>24. CASE Break
  BY <1>24 DEF Break
<1>25. CASE Notice
  BY <1>25 DEF Notice
<1>26. CASE WriteFails
  BY <1>26 DEF WriteFails
<1>27. CASE Garbled
  BY <1>27 DEF Garbled, Incoming
<1>28. CASE RecvLoopEnds
  BY <1>28 DEF RecvLoopEnds, Running
<1>29. CASE RecvLoopWaits
  BY <1>29 DEF RecvLoopWaits
<1>30. CASE RecvLoopFails
  BY <1>30 DEF RecvLoopFails, StartReconnect, Running
<1>31. CASE ConnectionLost
  BY <1>31 DEF ConnectionLost, StartReconnect, Running
<1>32. CASE HandleOld
  BY <1>32 DEF HandleOld, Handling
<1>33. CASE HandleResult
  BY <1>33 DEF HandleResult, Handling
<1>34. CASE HandlePong
  BY <1>34 DEF HandlePong, Handling, PongReceived
<1>35. CASE HandleAgain
  BY <1>35 DEF HandleAgain, Handling, Retry
<1>36. CASE HandleBad
  BY <1>36 DEF HandleBad, Handling
<1> QED
  BY <1>1, <1>2, <1>3, <1>4, <1>5, <1>6, <1>7, <1>8, <1>9, <1>10, <1>11, <1>12, <1>13,
     <1>14, <1>15, <1>16, <1>17, <1>18, <1>19, <1>20, <1>21, <1>22, <1>23, <1>24,
     <1>25, <1>26, <1>27, <1>28, <1>29, <1>30, <1>31, <1>32, <1>33, <1>34, <1>35, <1>36
  DEF Next, Callers, Disconnecting, Reconnecting, Sending, Network, Receiving

-----------------------------------------------------------------------------
(* What is kept                                                            *)

(* No step brings about an answer the server does not give. *)
LEMMA NothingBadStep == TypeOK /\ NothingBad /\ [Next]_vars => NothingBad'
<1> SUFFICES ASSUME TypeOK, NothingBad, ~ Rejects, [Next]_vars PROVE NothingBad'
  BY DEF NothingBad
<1> USE DEF NothingBad, flags, states, tasks, transport, world, counters
<1>1. CASE inq' = inq
  BY <1>1
<1>2. CASE inq' = <<>>
  BY <1>2
<1>3. ASSUME NEW a, a.kind # "bad", inq' = <<a>> PROVE NothingBad'
  BY <1>3
<1>4. CASE ReconnectStopped
  <2>1. inq' = Aged(inq)
    BY <1>4 DEF ReconnectStopped, ResetState
  <2>2. CASE inq = <<>>
    BY <1>2, <2>1, <2>2 DEF Aged
  <2>3. CASE inq # <<>>
    <3>0. inq[1] \in Answers /\ inq[1].kind # "bad"
      BY <2>3 DEF TypeOK, AtMostOne
    <3>1. inq' = <<[inq[1] EXCEPT !.old = TRUE]>>
      BY <2>1, <2>3, Zenon DEF Aged
    <3>2. \A a \in Answers : [a EXCEPT !.old = TRUE].kind = a.kind
      BY Zenon DEF Answers
    <3> QED
      BY <1>3, <3>0, <3>1, <3>2, Zenon
  <2> QED
    BY <2>2, <2>3
<1>5. ASSUME NEW r \in Requests, Answer(r) PROVE NothingBad'
  BY <1>5, <1>3 DEF Answer, Incoming
<1>6. CASE Pong
  BY <1>6, <1>3 DEF Pong, Incoming
<1>7. CASE Refuse
  BY <1>7, <1>3 DEF Refuse, Incoming
<1>8. CASE Notice \/ Garbled
  BY <1>8, <1>3 DEF Notice, Garbled, Incoming
<1>9. CASE Receiving
  BY <1>9, <1>1, <1>2
  DEF Receiving, RecvLoopEnds, RecvLoopWaits, RecvLoopFails, ConnectionLost, HandleOld,
      HandleResult, HandlePong, HandleAgain, HandleBad, Handling
<1>10. CASE Callers \/ Disconnecting
  BY <1>10, <1>1, <1>2
  DEF Callers, Send, GiveUp, Connect, NewConnection, CancelReconnect, Disconnecting,
      CloseConnection, CancelPending, Disconnected, NotConnected
<1>11. CASE Keepalive \/ Sending
  BY <1>11, <1>1
  DEF Keepalive, Sending, SendLoopEnds, SendLoopWaits, SendBatch, SendHeld
<1>12. CASE ReconnectStart \/ ReconnectClosed \/ Reconnected \/ ReconnectFailed
  BY <1>12, <1>1 DEF ReconnectStart, ReconnectClosed, Reconnected, ReconnectFailed
<1>13. CASE Transmit \/ Break \/ WriteFails
  BY <1>13, <1>1 DEF Transmit, Break, WriteFails
<1>14. CASE UNCHANGED vars
  BY <1>14, <1>1 DEF vars
<1> QED
  BY <1>4, <1>5, <1>6, <1>7, <1>8, <1>9, <1>10, <1>11, <1>12, <1>13, <1>14
  DEF Next, Reconnecting, Network

(* Who is left without an answer by a refusal, and what a step may forget. *)
Unheard(r) == /\ recvLoop = "recv" /\ inq # <<>> /\ inq[1].kind = "bad"
              /\ r \in Untold(States(inq[1].id))

StepForgets == \A r \in Requests : Forgotten(r)' /\ ~ Forgotten(r) => Unheard(r)

(* Every step keeps the requests that are waited for, but for those. *)
LEMMA ForgottenStep ==
  ASSUME TypeOK, [Next]_vars
  PROVE  StepForgets
<1> USE DEF flags, states, tasks, transport, world, counters
<1>t. fut \in FutType /\ queue \in Seq(Items) /\ pending \in Seq(Items)
  BY DEF TypeOK, FutType
<1>s. ASSUME UNCHANGED <<fut, queue, pending>> PROVE StepForgets
  BY <1>s DEF StepForgets, Forgotten, Kept
(* What is resolved may go. *)
<1>r. ASSUME NEW S, NEW outcome \in {"done", "failed", "cancelled"},
             Resolve(S, outcome), Kept \ S \subseteq Kept'
      PROVE  StepForgets
  BY <1>t, <1>r, ResolveFact DEF StepForgets, Forgotten
(* And nothing else. *)
<1>k. ASSUME UNCHANGED fut, Kept \subseteq Kept' PROVE StepForgets
  BY <1>k DEF StepForgets, Forgotten
<1>c. \A a, b \in Seq(Items) : Range(a \o b) = Range(a) \cup Range(b)
  BY RangeConcatenation
<1>w. ASSUME NEW S PROVE /\ Range(Without(pending, S)) = Range(pending) \ S
                         /\ Without(pending, S) \in Seq(Items)
  BY <1>t, WithoutFacts
<1>d. ASSUME NEW outcome \in {"done", "failed", "cancelled"}, DropPending(outcome),
             UNCHANGED queue
      PROVE  StepForgets
  <2>1. Kept \ Range(pending) \subseteq Kept'
    BY <1>d DEF Kept
  <2> QED
    BY <1>d, <1>r, <2>1 DEF DropPending
<1>1. ASSUME NEW call \in Calls, Send(call) PROVE StepForgets
  <2>1. call \in Seq(Items)
    BY ParameterFact
  <2>2. Range(queue') = Range(queue) \cup Range(call) /\ pending' = pending
    BY <1>t, <1>c, <1>1, <2>1 DEF Send
  <2>3. \A r \in Requests : fut'[r] = "pending" => r \in Range(call) \/ fut[r] = "pending"
    BY <1>1 DEF Send
  <2> QED
    BY <2>2, <2>3 DEF StepForgets, Forgotten, Kept
<1>2. CASE GiveUp
  BY <1>2, <1>t DEF GiveUp, StepForgets, Forgotten, Kept, FutType
<1>3. CASE Keepalive
  <2>1. Append(queue, Ping) = queue \o <<Ping>> /\ <<Ping>> \in Seq(Items)
    BY <1>t, ParameterFact, AppendIsConcat
  <2>2. pending' = pending /\ fut' = fut /\ queue' \in {queue, Append(queue, Ping)}
    BY <1>3 DEF Keepalive
  <2>3. Range(queue) \subseteq Range(queue')
    <3>1. Range(queue \o <<Ping>>) = Range(queue) \cup Range(<<Ping>>)
      BY <1>t, <1>c, <2>1
    <3>2. queue' = queue \/ queue' = queue \o <<Ping>>
      BY <2>1, <2>2, Zenon
    <3> QED
      BY <3>1, <3>2, Zenon
  <2> QED
    BY <1>k, <2>2, <2>3 DEF Kept
<1>4. CASE Connect \/ CancelReconnect \/ CloseConnection \/ Disconnected \/ NotConnected
  BY <1>4, <1>s DEF Connect, CancelReconnect, CloseConnection, Disconnected, NotConnected
<1>5. CASE CancelPending
  BY <1>5, <1>d DEF CancelPending
<1>6. CASE ReconnectStart \/ ReconnectClosed
  BY <1>6, <1>s DEF ReconnectStart, ReconnectClosed
<1>7. CASE ReconnectStopped
  BY <1>7, <1>d, <1>s DEF ReconnectStopped
<1>8. CASE Reconnected
  <2>1. Range(queue') = Range(queue) \cup Range(pending) /\ fut' = fut
    BY <1>8, <1>t, <1>c DEF Reconnected, Requeue
  <2> QED
    BY <1>k, <2>1 DEF Kept
<1>9. CASE ReconnectFailed
  BY <1>9, <1>d DEF ReconnectFailed
<1>10. CASE SendLoopEnds \/ SendLoopWaits \/ SendHeld
  BY <1>10, <1>s DEF SendLoopEnds, SendLoopWaits, SendHeld
<1>11. CASE SendBatch
  <2>1. PICK k \in 1..Len(queue) : /\ queue' = SubSeq(queue, k + 1, Len(queue))
                                   /\ AddPending(SubSeq(queue, 1, k))
    BY <1>11 DEF SendBatch
  <2>2. fut' = fut
    BY <1>11 DEF SendBatch
  <2>3. /\ SubSeq(queue, 1, k) \in Seq(Items)
        /\ Range(queue) = Range(SubSeq(queue, 1, k)) \cup Range(queue')
    BY <1>t, <2>1, Split
  <2>4. Range(pending') = Range(pending) \cup Range(SubSeq(queue, 1, k))
    BY <1>t, <1>c, <2>1, <2>3 DEF AddPending
  <2> QED
    BY <1>k, <2>2, <2>3, <2>4 DEF Kept
<1>12. CASE Network
  BY <1>12, <1>s DEF Network, Transmit, Answer, Pong, Refuse, Break, Notice, WriteFails,
                     Garbled, Incoming
<1>13. CASE RecvLoopEnds \/ RecvLoopWaits \/ RecvLoopFails \/ ConnectionLost \/ HandleOld
  BY <1>13, <1>s DEF RecvLoopEnds, RecvLoopWaits, RecvLoopFails, ConnectionLost, HandleOld
<1>14. CASE HandleResult
  <2>1. PICK S : /\ pending' = Without(pending, S) /\ queue' = queue
                 /\ Resolve(S, IF inq[1].kind = "result" THEN "done" ELSE "failed")
    BY <1>14 DEF HandleResult
  <2>2. Kept \ S \subseteq Kept'
    BY <1>w, <2>1 DEF Kept
  <2> QED
    BY <1>r, <2>1, <2>2
<1>15. CASE HandlePong
  <2>1. pending' \in {pending, Without(pending, {Ping})} /\ UNCHANGED <<queue, fut>>
    BY <1>15 DEF HandlePong
  <2>2. \A r \in Requests : r \in Kept => r \in Kept'
    BY <1>w, <2>1, ParameterFact DEF Kept
  <2> QED
    BY <2>1, <2>2 DEF StepForgets, Forgotten
<1>16. CASE HandleAgain
  <2>1. PICK S : /\ pending' = Without(pending, S) /\ fut' = fut
                 /\ queue' = queue \o Without(pending, Items \ S)
    BY <1>16 DEF HandleAgain, Retry
  <2>2. Range(queue') = Range(queue) \cup (Range(pending) \ (Items \ S))
    BY <1>t, <1>c, <1>w, <2>1
  <2>3. Range(pending) \subseteq Items /\ Range(pending') = Range(pending) \ S
    BY <1>t, <1>w, <2>1, RangeOfSeq
  <2> QED
    BY <1>k, <2>1, <2>2, <2>3 DEF Kept
<1>17. CASE HandleBad
  <2> DEFINE S == States(inq[1].id)
  <2>1. /\ recvLoop = "recv" /\ inq # <<>> /\ inq[1].kind = "bad"
        /\ pending' = Without(pending, S) /\ queue' = queue
        /\ Resolve(S \ Untold(S), "failed")
    BY <1>17 DEF HandleBad, Handling
  <2>2. Kept \ S \subseteq Kept'
    BY <1>w, <2>1 DEF Kept
  <2>3. ASSUME NEW r \in Requests, Forgotten(r)', ~ Forgotten(r) PROVE r \in Untold(S)
    <3>1. fut[r] = "pending" /\ r \notin S \ Untold(S)
      BY <1>t, <2>1, <2>3, ResolveFact DEF Forgotten
    <3>2. r \in S
      BY <2>2, <2>3, <3>1 DEF Forgotten
    <3> QED
      BY <3>1, <3>2
  <2> QED
    BY <2>1, <2>3 DEF StepForgets, Unheard
<1>18. CASE UNCHANGED vars
  BY <1>18, <1>s DEF vars
<1> QED
  BY <1>1, <1>2, <1>3, <1>4, <1>5, <1>6, <1>7, <1>8, <1>9, <1>10, <1>11, <1>12, <1>13,
     <1>14, <1>15, <1>16, <1>17, <1>18
  DEF Next, Callers, Disconnecting, Reconnecting, Sending, Receiving

-----------------------------------------------------------------------------
(* The theorems *)

(* Every variable keeps its type; no queue of the connection holds more    *)
(* than one packet.                                                        *)
THEOREM TypeCorrect == Spec => []TypeOK
<1> QED
  BY TypeInit, TypeStep, PTL DEF Spec

(* Whatever runs beside a disconnection, it ends with no loop, no pending  *)
(* state and no connection (_disconnect, disconnect).                      *)
THEOREM EndsClean == Spec => []CleanEnd
<1>1. Init => ControlInv
  BY DEF Init, ControlInv, ReconnectionOK, DisconnectionOK, LeftOK
<1>2. ControlInv => CleanEnd
  BY DEF ControlInv, LeftOK, CleanEnd
<1> QED
  BY <1>1, <1>2, TypeCorrect, ControlStep, PTL DEF Spec

(* A connected sender that is not reconnecting has both loops, unless      *)
(* disconnect was called during a reconnection: that leaves _reconnecting  *)
(* set, and the loops of the next connection end (_reconnect, disconnect). *)
THEOREM StaysOperational ==
  ASSUME ~ (Leaves /\ Hasty)
  PROVE  Spec => []Operational
<1>1. Init => ControlInv /\ StayingOK
  BY DEF Init, ControlInv, ReconnectionOK, DisconnectionOK, LeftOK, StayingOK
<1>2. StayingOK => Operational
  BY DEF StayingOK, Operational
<1> QED
  BY <1>1, <1>2, TypeCorrect, ControlStep, StayingStep, PTL DEF Spec

(* Whatever breaks, is refused, retried or given up: a request is         *)
(* forgotten only by the final refusal of a container, and only behind one *)
(* whose future was cancelled (_handle_bad_notification).                  *)
THEOREM OnlyUntold == Spec => OnlyUntoldForgotten
<1>1. TypeOK /\ [Next]_vars =>
        [\A r \in Requests : Forgotten(r)' /\ ~ Forgotten(r) => Unheard(r)]_vars
  BY ForgottenStep DEF StepForgets
<1> QED
  BY <1>1, TypeCorrect, PTL DEF Spec, OnlyUntoldForgotten, Unheard
=============================================================================
