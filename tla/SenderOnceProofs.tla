-------------------------- MODULE SenderOnceProofs --------------------------
(***************************************************************************)
(* For any requests, calls and bounds: a request is kept in one place of   *)
(* the sender, once, and one session of the server executes it once.       *)
(***************************************************************************)
EXTENDS SenderProofs

(* The messages of a packet, as long as its session lasts. *)
Live(q) == IF q = <<>> THEN {} ELSE IF q[1].old THEN {} ELSE q[1].msgs

(* The messages an answer settles for good, before it is read. *)
Told == IF inq = <<>> THEN {}
        ELSE IF inq[1].old \/ inq[1].kind \notin {"pong", "again", "bad"} THEN {}
        ELSE inq[1].id

(* Where a message may be that was written in this session and whose item  *)
(* the sender may not write again yet.                                     *)
Written == Live(outq)
Waiting == Live(held)
Denied == UNION refused
Placed == Written \cup Waiting \cup Told \cup Denied \cup execs

(* No message is in two of those places. *)
Apart(A, B, C, D, E) ==
  /\ A \cap B = {} /\ A \cap C = {} /\ A \cap D = {} /\ A \cap E = {}
  /\ B \cap C = {} /\ B \cap D = {} /\ B \cap E = {}
  /\ C \cap D = {} /\ C \cap E = {}
  /\ D \cap E = {}

(* A message is in one place, an item has one message, and none while it   *)
(* is queued.                                                              *)
PlacesOK ==
  /\ Apart(Written, Waiting, Told, Denied, execs)
  /\ \A m, n \in Placed : m[1] = n[1] => m = n
  /\ \A m \in Placed : m[1] \notin Range(queue)

(* A message was refused in one set only; nothing empty is written, refused *)
(* or told.                                                                 *)
RefusedOK ==
  /\ \A S, T \in refused : S \cap T # {} => S = T
  /\ {} \notin refused
  /\ outq # <<>> => outq[1].msgs # {}
  /\ held # <<>> => held[1].msgs # {}
  /\ inq # <<>> /\ inq[1].kind \in {"again", "bad"} => inq[1].id # {}

(* The container of an item holds a message of it; the send loop waits for *)
(* room exactly when it has a packet.                                      *)
ContOK ==
  /\ \A i \in Items : cont[i] # {} => \E m \in cont[i] : m[1] = i
  /\ sendLoop # "full" => held = <<>>

(* What was written was asked for; a new session knows nothing. *)
AskedOK ==
  /\ \A m \in Placed : m[1] \in Requests => fut[m[1]] # "none"
  /\ rt = "trying" => Placed = {}

(* KeptOnce, of the two collections. *)
KeptOK ==
  /\ IsInjective(queue) /\ IsInjective(pending) /\ Range(queue) \cap Range(pending) = {}
  /\ \A r \in Requests : r \in Kept => fut[r] \in {"pending", "cancelled"}

(* There is no ping where none is awaited, and its number is always 1. *)
PingOK ==
  /\ ping = None => Ping \notin Kept /\ \A m \in Placed : m[1] # Ping
  /\ \A m \in Placed : m[1] = Ping => m[2] = 1
  /\ Ping \in Range(pending) /\ recvLoop # "off" => mid[Ping] = 1
  /\ inq # <<>> /\ inq[1].kind = "pong" => \E m \in inq[1].id : m[1] = Ping

OnceInv == PlacesOK /\ RefusedOK /\ ContOK /\ AskedOK /\ KeptOK /\ PingOK

-----------------------------------------------------------------------------
(* Sequences without repetitions.                                          *)

(* A concatenation repeats nothing when its parts do not and share nothing. *)
LEMMA ConcatInjective ==
  ASSUME NEW X, NEW s \in Seq(X), NEW t \in Seq(X)
  PROVE  IsInjective(s \o t) <=>
           IsInjective(s) /\ IsInjective(t) /\ Range(s) \cap Range(t) = {}
<1> DEFINE c == s \o t
           m == Len(s)
           n == Len(t)
<1>1. m \in Nat /\ n \in Nat /\ DOMAIN s = 1..m /\ DOMAIN t = 1..n
  BY LenProperties
<1>2. /\ c \in Seq(X) /\ Len(c) = m + n
      /\ \A i \in 1..(m + n) : c[i] = IF i <= m THEN s[i] ELSE t[i - m]
  BY ConcatProperties
<1>3. DOMAIN c = 1..(m + n)
  BY <1>2, LenProperties
<1>4. Range(s) = {s[i] : i \in 1..m} /\ Range(t) = {t[i] : i \in 1..n}
  BY RangeEquality
<1> HIDE DEF c, m, n
<1>a. \A i \in 1..m : i \in 1..(m + n) /\ c[i] = s[i]
  BY <1>1, <1>2
<1>b. \A i \in 1..n : m + i \in 1..(m + n) /\ c[m + i] = t[i]
  BY <1>1, <1>2
<1>5. ASSUME IsInjective(c)
      PROVE  IsInjective(s) /\ IsInjective(t) /\ Range(s) \cap Range(t) = {}
  <2>0. \A i, j \in 1..(m + n) : c[i] = c[j] => i = j
    BY <1>3, <1>5 DEF IsInjective
  <2>1. IsInjective(s)
    BY <1>1, <1>a, <2>0 DEF IsInjective
  <2>2. ASSUME NEW i \in 1..n, NEW j \in 1..n, t[i] = t[j] PROVE i = j
    <3>1. m + i = m + j
      BY <1>b, <2>0, <2>2
    <3> QED
      BY <1>1, <3>1
  <2>3. ASSUME NEW i \in 1..m, NEW j \in 1..n, s[i] = t[j] PROVE FALSE
    <3>1. i = m + j
      BY <1>a, <1>b, <2>0, <2>3
    <3> QED
      BY <1>1, <3>1
  <2> QED
    BY <1>1, <1>4, <2>1, <2>2, <2>3 DEF IsInjective
<1>6. ASSUME IsInjective(s), IsInjective(t), Range(s) \cap Range(t) = {}
      PROVE  IsInjective(c)
  <2> SUFFICES ASSUME NEW i \in 1..(m + n), NEW j \in 1..(m + n), c[i] = c[j]
               PROVE  i = j
    BY <1>3 DEF IsInjective
  <2>1. \A k \in 1..(m + n) : (k <= m => k \in 1..m) /\ (~ (k <= m) => k - m \in 1..n)
    BY <1>1
  <2>2. CASE i <= m /\ j <= m
    BY <1>1, <1>2, <1>6, <2>1, <2>2 DEF IsInjective
  <2>3. CASE ~ (i <= m) /\ ~ (j <= m)
    <3>1. i - m \in 1..n /\ j - m \in 1..n /\ t[i - m] = t[j - m]
      BY <1>2, <2>1, <2>3
    <3>2. i - m = j - m
      BY <1>1, <1>6, <3>1 DEF IsInjective
    <3> QED
      BY <1>1, <3>2
  <2>4. CASE i <= m /\ ~ (j <= m)
    <3>1. i \in 1..m /\ j - m \in 1..n /\ s[i] = t[j - m]
      BY <1>2, <2>1, <2>4
    <3> QED
      BY <1>4, <1>6, <3>1
  <2>5. CASE ~ (i <= m) /\ j <= m
    <3>1. j \in 1..m /\ i - m \in 1..n /\ s[j] = t[i - m]
      BY <1>2, <2>1, <2>5
    <3> QED
      BY <1>4, <1>6, <3>1
  <2> QED
    BY <2>2, <2>3, <2>4, <2>5
<1> QED
  BY <1>5, <1>6 DEF c

(* The two parts of a sequence without repetitions share nothing (SendBatch). *)
LEMMA CutInjective ==
  ASSUME NEW X, NEW s \in Seq(X), IsInjective(s), NEW k \in 1..Len(s)
  PROVE  LET a == SubSeq(s, 1, k)
             b == SubSeq(s, k + 1, Len(s))
         IN  IsInjective(a) /\ IsInjective(b) /\ Range(a) \cap Range(b) = {}
<1>1. Len(s) \in Nat /\ DOMAIN s = 1..Len(s) /\ \A i \in 1..Len(s) : s[i] \in X
  BY LenProperties, ElementOfSeq
<1> DEFINE a == SubSeq(s, 1, k)
           b == SubSeq(s, k + 1, Len(s))
<1>2. a \in Seq(X) /\ Len(a) = k /\ \A i \in 1..k : a[i] = s[i]
  BY <1>1, SubSeqProperties
<1>3. /\ b \in Seq(X) /\ Len(b) = Len(s) - k
      /\ \A i \in 1..(Len(s) - k) : b[i] = s[k + i]
  <2>1. k + 1 \in 1..(Len(s) + 1) /\ Len(s) \in k..Len(s) /\ k \in Nat
    BY <1>1
  <2>2. b \in Seq(X) /\ Len(b) = IF k + 1 <= Len(s) THEN Len(s) - (k + 1) + 1 ELSE 0
    BY <1>1, <2>1, SubSeqProperties
  <2>3. \A i \in 1..(Len(s) - (k + 1) + 1) : b[i] = s[k + 1 + i - 1]
    BY <1>1, <2>1, SubSeqProperties
  <2> HIDE DEF b
  <2>4. Len(s) - (k + 1) + 1 = Len(s) - k /\ \A i \in Int : k + 1 + i - 1 = k + i
    BY <1>1
  <2>5. Len(b) = Len(s) - k
    <3>1. CASE k + 1 <= Len(s)
      BY <2>2, <2>4, <3>1
    <3>2. CASE ~ (k + 1 <= Len(s))
      <4>1. \A n \in Nat : \A i \in 1..n : ~ (i + 1 <= n) => n - i = 0
        OBVIOUS
      <4>2. Len(s) - k = 0
        BY <1>1, <3>2, <4>1
      <4> QED
        BY <2>2, <3>2, <4>2
    <3> QED
      BY <3>1, <3>2
  <2>6. ASSUME NEW i \in 1..(Len(s) - k) PROVE b[i] = s[k + i]
    <3>1. i \in 1..(Len(s) - (k + 1) + 1) /\ i \in Int
      BY <1>1, <2>4
    <3>2. b[i] = s[k + 1 + i - 1]
      BY <2>3, <3>1
    <3> QED
      BY <2>4, <3>1, <3>2
  <2> QED
    BY <2>2, <2>5, <2>6
<1> HIDE DEF a, b
<1>4. \A i, j \in 1..Len(s) : s[i] = s[j] => i = j
  BY <1>1 DEF IsInjective
<1>5. DOMAIN a = 1..k /\ DOMAIN b = 1..(Len(s) - k)
  BY <1>2, <1>3, LenProperties
<1>6. Range(a) = {a[i] : i \in 1..k} /\ Range(b) = {b[i] : i \in 1..(Len(s) - k)}
  BY <1>5 DEF Range
<1>7. /\ \A i \in 1..k : i \in 1..Len(s)
      /\ \A i \in 1..(Len(s) - k) : k + i \in 1..Len(s)
  BY <1>1
<1>8. IsInjective(a)
  BY <1>2, <1>4, <1>5, <1>7 DEF IsInjective
<1>9. IsInjective(b)
  <2>1. ASSUME NEW i \in 1..(Len(s) - k), NEW j \in 1..(Len(s) - k), b[i] = b[j]
        PROVE  i = j
    <3>1. k + i = k + j
      BY <1>3, <1>4, <1>7, <2>1
    <3> QED
      BY <1>1, <3>1
  <2> QED
    BY <1>5, <2>1 DEF IsInjective
<1>10. ASSUME NEW i \in 1..k, NEW j \in 1..(Len(s) - k), a[i] = b[j] PROVE FALSE
  <2>1. i = k + j
    BY <1>2, <1>3, <1>4, <1>7, <1>10
  <2> QED
    BY <1>1, <2>1
<1> QED
  BY <1>6, <1>8, <1>9, <1>10 DEF a, b

(* Leaving elements out repeats none. *)
LEMMA WithoutInjective ==
  ASSUME NEW X, NEW s \in Seq(X), IsInjective(s), NEW S
  PROVE  IsInjective(Without(s, S))
<1>1. Len(s) \in Nat /\ DOMAIN s = 1..Len(s) /\ \A k \in 1..Len(s) : s[k] \in X
  BY LenProperties, ElementOfSeq
<1>2. PICK f : Keeps(f, s, S, Len(s)) /\ Without(s, S) = f[Len(s)]
  BY <1>1, WithoutKeeps
<1>3. \A k \in 0..Len(s) : f[k] = IF k = 0 THEN <<>>
                                  ELSE IF s[k] \in S THEN f[k - 1]
                                  ELSE Append(f[k - 1], s[k])
  BY <1>2 DEF Keeps
<1> DEFINE Good(n) == /\ f[n] \in Seq(X) /\ IsInjective(f[n])
                      /\ Range(f[n]) \subseteq {s[k] : k \in 1..n}
           T == {n \in Nat : n <= Len(s) => Good(n)}
<1>4. 0 \in T
  <2>1. f[0] = <<>>
    BY <1>1, <1>3
  <2>2. Range(<<>>) = {} /\ <<>> \in Seq(X) /\ IsInjective(<<>>)
    BY DEF Range, IsInjective
  <2>3. Good(0)
    BY <2>1, <2>2
  <2> QED
    BY <2>3
<1>5. ASSUME NEW n \in T PROVE n + 1 \in T
  <2> SUFFICES ASSUME n + 1 <= Len(s) PROVE Good(n + 1)
    OBVIOUS
  <2>1. n \in Nat /\ n \in 0..Len(s) /\ n + 1 \in 1..Len(s) /\ Good(n)
    BY <1>1
  <2>2. {s[k] : k \in 1..(n + 1)} = {s[k] : k \in 1..n} \cup {s[n + 1]}
    BY <2>1
  <2>3. s[n + 1] \in X
    BY <1>1, <2>1
  <2>a. f[n + 1] = IF s[n + 1] \in S THEN f[n] ELSE Append(f[n], s[n + 1])
    BY <1>3, <2>1
  <2>4. CASE s[n + 1] \in S
    BY <2>1, <2>2, <2>4, <2>a
  <2>5. CASE s[n + 1] \notin S
    <3>1. f[n + 1] = Append(f[n], s[n + 1])
      BY <2>5, <2>a
    <3>2. f[n + 1] = f[n] \o <<s[n + 1]>> /\ f[n + 1] \in Seq(X)
      BY <2>1, <2>3, <3>1, AppendIsConcat, AppendProperties
    <3>3. /\ Range(<<s[n + 1]>>) = {s[n + 1]} /\ <<s[n + 1]>> \in Seq(X)
          /\ IsInjective(<<s[n + 1]>>)
      BY <2>3 DEF Range, IsInjective
    <3>4. s[n + 1] \notin {s[k] : k \in 1..n}
      <4>1. ASSUME NEW k \in 1..n, s[k] = s[n + 1] PROVE FALSE
        <5>1. k \in 1..Len(s) /\ k # n + 1
          BY <1>1, <2>1
        <5> QED
          BY <1>1, <2>1, <4>1, <5>1 DEF IsInjective
      <4> QED
        BY <4>1
    <3>5. f[n] \in Seq(X) /\ IsInjective(f[n]) /\ Range(f[n]) \subseteq {s[k] : k \in 1..n}
      BY <2>1
    <3> HIDE DEF Good, T
    <3>6. Range(f[n] \o <<s[n + 1]>>) = Range(f[n]) \cup Range(<<s[n + 1]>>)
      <4>1. \A a, b \in Seq(X) : Range(a \o b) = Range(a) \cup Range(b)
        BY RangeConcatenation
      <4> QED
        BY <3>3, <3>5, <4>1
    <3>7. Range(f[n]) \cap Range(<<s[n + 1]>>) = {}
      BY <3>3, <3>4, <3>5
    <3>8. IsInjective(f[n] \o <<s[n + 1]>>)
      BY <3>3, <3>5, <3>7, ConcatInjective
    <3>9. Range(f[n + 1]) \subseteq {s[k] : k \in 1..(n + 1)}
      BY <2>2, <3>2, <3>3, <3>5, <3>6
    <3> QED
      BY <3>2, <3>8, <3>9 DEF Good
  <2> QED
    BY <2>4, <2>5
<1>6. T = Nat
  <2> HIDE DEF Good
  <2>1. T \subseteq Nat
    OBVIOUS
  <2> HIDE DEF T
  <2> QED
    BY <1>4, <1>5, <2>1, Induction
<1>7. Good(Len(s))
  <2>0. Len(s) \in T
    <3> HIDE DEF T
    <3> QED
      BY <1>1, <1>6
  <2>1. Len(s) \in T /\ Len(s) <= Len(s)
    BY <1>1, <2>0
  <2> QED
    BY <2>1
<1> QED
  BY <1>2, <1>7

-----------------------------------------------------------------------------
(* Places.                                                                 *)

(* What Live is of no packet and of one. *)
LEMMA LiveFacts ==
  /\ Live(<<>>) = {}
  /\ \A p : Live(<<p>>) = IF p.old THEN {} ELSE p.msgs
  /\ \A q : q # <<>> => Live(q) = IF q[1].old THEN {} ELSE q[1].msgs
<1>1. \A p : <<p>> # <<>> /\ <<p>>[1] = p
  OBVIOUS
<1> QED
  BY <1>1 DEF Live

(* Nothing of a session that was reset is under way. *)
LEMMA AgedFacts ==
  ASSUME NEW q, NEW S \in {Packets, Answers}, AtMostOne(q, S)
  PROVE  /\ (q = <<>>) <=> (Aged(q) = <<>>)
         /\ q # <<>> => /\ Aged(q)[1] = [q[1] EXCEPT !.old = TRUE]
                        /\ q[1] \in S /\ Aged(q)[1].old
<1>1. CASE q = <<>>
  BY <1>1 DEF Aged
<1>2. CASE q # <<>>
  <2>1. q[1] \in S
    BY <1>2 DEF AtMostOne
  <2>2. Aged(q) = <<[q[1] EXCEPT !.old = TRUE]>>
    BY <1>2, Zenon DEF Aged
  <2>3. \A a \in S : [a EXCEPT !.old = TRUE].old = TRUE
    <3>1. \A a \in Packets : [a EXCEPT !.old = TRUE].old = TRUE
      BY DEF Packets
    <3>2. \A a \in Answers : [a EXCEPT !.old = TRUE].old = TRUE
      BY DEF Answers
    <3> QED
      BY <3>1, <3>2
  <2>4. PICK a : a = [q[1] EXCEPT !.old = TRUE]
    BY Zenon
  <2>5. a.old = TRUE
    BY <2>1, <2>3, <2>4, Zenon
  <2>6. Aged(q) = <<a>>
    BY <2>2, <2>4, Zenon
  <2>7. Aged(q) # <<>> /\ Aged(q)[1] = a
    BY <2>6
  <2> QED
    BY <1>2, <2>1, <2>4, <2>5, <2>7, Zenon
<1> QED
  BY <1>1, <1>2

(* The fields that reset leaves alone. *)
LEMMA AgedFields ==
  /\ \A p \in Packets : [p EXCEPT !.old = TRUE].msgs = p.msgs
  /\ \A a \in Answers : /\ [a EXCEPT !.old = TRUE].kind = a.kind
                        /\ [a EXCEPT !.old = TRUE].id = a.id
BY DEF Packets, Answers

(* A new session knows no message of this one (MTProtoState.reset). *)
LEMMA NothingPlaced ==
  ASSUME TypeOK, ResetState, UNCHANGED held, held = <<>>
  PROVE  Placed' = {}
<1>1. Live(Aged(outq)) = {}
  <2>1. CASE outq = <<>>
    BY <2>1, LiveFacts DEF Aged
  <2>2. CASE outq # <<>>
    <3>1. Aged(outq) # <<>> /\ Aged(outq)[1].old
      BY <2>2, AgedFacts DEF TypeOK
    <3> QED
      BY <3>1, LiveFacts
  <2> QED
    BY <2>1, <2>2
<1>2. Told' = {}
  <2>1. CASE inq = <<>>
    BY <2>1 DEF Told, ResetState, Aged
  <2>2. CASE inq # <<>>
    <3>1. Aged(inq) # <<>> /\ Aged(inq)[1].old
      BY <2>2, AgedFacts DEF TypeOK
    <3>2. inq' = Aged(inq)
      BY DEF ResetState
    <3> QED
      BY <3>1, <3>2 DEF Told
  <2> QED
    BY <2>1, <2>2
<1>3. Written' = {} /\ Waiting' = {} /\ Denied' = {} /\ execs' = {}
  BY <1>1, LiveFacts DEF ResetState, Written, Waiting, Denied
<1> QED
  BY <1>2, <1>3 DEF Placed

(* A step that places no message and moves none twice. *)
LEMMA Moves ==
  ASSUME PlacesOK, Placed' \subseteq Placed, Range(queue)' \subseteq Range(queue),
         Apart(Written', Waiting', Told', Denied', execs')
  PROVE  PlacesOK'
BY DEF PlacesOK

(* Where places only lose messages, none is in two of them. *)
LEMMA Fewer ==
  ASSUME PlacesOK, Written' \subseteq Written, Waiting' \subseteq Waiting,
         Told' \subseteq Told, Denied' \subseteq Denied, execs' \subseteq execs
  PROVE  /\ Placed' \subseteq Placed
         /\ Apart(Written', Waiting', Told', Denied', execs')
         /\ Range(queue)' \subseteq Range(queue) => PlacesOK'
<1>1. Placed' \subseteq Placed
  BY DEF Placed
<1>2. Apart(Written', Waiting', Told', Denied', execs')
  BY DEF PlacesOK, Apart
<1> QED
  BY <1>1, <1>2, Moves

(* A message that is placed after a step was so before, or is written by it. *)
Known(m) == m \in Placed \/ (SendBatch /\ m[1] \in Range(queue) /\ m[2] = NextId(m[1]))

(* A step that places no message, whatever it queues. *)
LEMMA Moved ==
  ASSUME PlacesOK, Placed' \subseteq Placed,
         \A m \in Placed' : m[1] \notin Range(queue)',
         Apart(Written', Waiting', Told', Denied', execs')
  PROVE  PlacesOK' /\ \A m \in Placed' : Known(m)
BY DEF PlacesOK, Known

(* New messages are placed, of items that leave the queue. *)
LEMMA Added ==
  ASSUME PlacesOK, SendBatch, NEW P, Placed' \subseteq Placed \cup P,
         \A m \in P : /\ m[1] \in Range(queue) /\ m[1] \notin Range(queue)'
                      /\ m[2] = NextId(m[1]),
         \A m, n \in P : m[1] = n[1] => m = n,
         Range(queue)' \subseteq Range(queue),
         Apart(Written', Waiting', Told', Denied', execs')
  PROVE  PlacesOK' /\ \A m \in Placed' : Known(m)
<1>1. ASSUME NEW m \in Placed', NEW n \in Placed', m[1] = n[1] PROVE m = n
  <2>1. \A a \in P, b \in Placed : a[1] # b[1]
    BY DEF PlacesOK
  <2>2. \A a, b \in Placed : a[1] = b[1] => a = b
    BY DEF PlacesOK
  <2>3. m \in Placed \cup P /\ n \in Placed \cup P
    OBVIOUS
  <2> QED
    BY <1>1, <2>1, <2>2, <2>3
<1>2. \A m \in Placed' : m[1] \notin Range(queue)'
  BY DEF PlacesOK
<1>3. \A m \in Placed' : Known(m)
  BY DEF Known
<1> QED
  BY <1>1, <1>2, <1>3 DEF PlacesOK

(* What one action does to the places, action by action. *)
PlaceGoal == PlacesOK' /\ \A m \in Placed' : Known(m)

(* Messages that vanish free nothing but their own items. *)
LEMMA FewerGoal ==
  ASSUME PlacesOK, Written' \subseteq Written, Waiting' \subseteq Waiting,
         Told' \subseteq Told, Denied' \subseteq Denied, execs' \subseteq execs,
         \A m \in Placed' : m[1] \notin Range(queue)'
  PROVE  PlaceGoal
BY Fewer, Moved DEF PlaceGoal

(* So does a step that only drops packets and answers. *)
LEMMA QuietGoal ==
  ASSUME PlacesOK, outq' \in {outq, <<>>}, held' \in {held, <<>>}, inq' \in {inq, <<>>},
         UNCHANGED <<refused, execs>>, Range(queue)' \subseteq Range(queue)
  PROVE  PlaceGoal
<1>1. Written' \subseteq Written
  BY LiveFacts DEF Written
<1>2. Waiting' \subseteq Waiting
  BY LiveFacts DEF Waiting
<1>3. Told' \subseteq Told
  BY DEF Told
<1>4. Denied' = Denied /\ execs' = execs
  BY DEF Denied
<1>5. Placed' \subseteq Placed
  BY <1>1, <1>2, <1>3, <1>4, Fewer
<1>6. \A m \in Placed' : m[1] \notin Range(queue)'
  BY <1>5 DEF PlacesOK
<1> QED
  BY <1>1, <1>2, <1>3, <1>4, <1>6, FewerGoal

(* The send loop takes a batch. *)
LEMMA BatchPlaces ==
  ASSUME TypeOK, PlacesOK, ContOK, KeptOK, SendBatch
  PROVE  PlaceGoal
<1> DEFINE P(b) == {<<i, NextId(i)>> : i \in Range(b)}
           packet(b) == [msgs |-> P(b), old |-> FALSE]
<1>1. PICK k \in 1..Len(queue) :
        /\ queue' = SubSeq(queue, k + 1, Len(queue))
        /\ LET b == SubSeq(queue, 1, k)
           IN  \/ UNCHANGED <<outq, held>>
               \/ outq = <<>> /\ outq' = <<packet(b)>> /\ UNCHANGED held
               \/ outq # <<>> /\ held' = <<packet(b)>> /\ UNCHANGED outq
  BY DEF SendBatch
<1> DEFINE batch == SubSeq(queue, 1, k)
<1>2. /\ Range(queue) = Range(batch) \cup Range(queue')
      /\ Range(batch) \cap Range(queue') = {}
  BY <1>1, Split, CutInjective DEF TypeOK, KeptOK
<1>3. UNCHANGED <<inq, refused, execs>> /\ held = <<>>
  BY DEF SendBatch, world, Getting, ContOK
<1>4. Told' = Told /\ Denied' = Denied /\ execs' = execs
  BY <1>3 DEF Told, Denied
<1>5. Waiting = {}
  BY <1>3, LiveFacts DEF Waiting
<1>6. PICK Q : Q = P(batch)
  OBVIOUS
<1> DEFINE full == [msgs |-> Q, old |-> FALSE]
<1>7. \/ UNCHANGED <<outq, held>>
      \/ outq = <<>> /\ outq' = <<full>> /\ UNCHANGED held
      \/ outq # <<>> /\ held' = <<full>> /\ UNCHANGED outq
  BY <1>1, <1>6
<1>8. Live(<<full>>) = Q
  BY LiveFacts
<1>9. /\ \A m \in Q : /\ m[1] \in Range(queue) /\ m[1] \notin Range(queue)'
                      /\ m[2] = NextId(m[1])
      /\ \A m, n \in Q : m[1] = n[1] => m = n
  BY <1>2, <1>6
<1> HIDE DEF batch, P, packet
<1>10. Q \cap Placed = {}
  BY <1>9 DEF PlacesOK
<1>11. CASE UNCHANGED <<outq, held>>
  <2>1. Range(queue)' \subseteq Range(queue)
    BY <1>2
  <2> QED
    BY <1>3, <1>11, <2>1, QuietGoal
<1>12. CASE outq = <<>> /\ outq' = <<full>> /\ UNCHANGED held
  <2>1. Written = {} /\ Written' = Q /\ Waiting' = {}
    BY <1>3, <1>8, <1>12, LiveFacts DEF Written, Waiting
  <2>2. Placed' = Placed \cup Q
    BY <1>4, <1>5, <2>1 DEF Placed
  <2>3. Apart(Written', Waiting', Told', Denied', execs')
    BY <1>4, <1>5, <1>10, <2>1 DEF PlacesOK, Apart, Placed
  <2> QED
    BY <1>2, <1>9, <2>2, <2>3, Added DEF PlaceGoal
<1>13. CASE outq # <<>> /\ held' = <<full>> /\ UNCHANGED outq
  <2>1. Written' = Written /\ Waiting' = Q
    BY <1>8, <1>13 DEF Written, Waiting
  <2>2. Placed' = Placed \cup Q
    BY <1>4, <1>5, <2>1 DEF Placed
  <2>3. Apart(Written', Waiting', Told', Denied', execs')
    BY <1>4, <1>5, <1>10, <2>1 DEF PlacesOK, Apart, Placed
  <2> QED
    BY <1>2, <1>9, <2>2, <2>3, Added DEF PlaceGoal
<1> QED
  BY <1>7, <1>11, <1>12, <1>13

(* A packet reaches the server. *)
LEMMA TransmitPlaces ==
  ASSUME TypeOK, PlacesOK, RefusedOK, Transmit
  PROVE  PlaceGoal
<1> DEFINE p == outq[1]
<1>0. outq # <<>> /\ outq' = <<>> /\ UNCHANGED <<held, inq, queue>>
  BY DEF Transmit, states
<1>1. Written' = {} /\ Waiting' = Waiting /\ Told' = Told
  BY <1>0, LiveFacts DEF Written, Waiting, Told
<1>2. CASE UNCHANGED <<execs, refused>>
  BY <1>0, <1>2, QuietGoal
<1>3. CASE ~ p.old /\ execs' = execs \cup p.msgs /\ refused' = refused
  <2>1. Written = p.msgs
    BY <1>0, <1>3, LiveFacts DEF Written
  <2>2. Denied' = Denied /\ execs' = execs \cup Written
    BY <1>3, <2>1 DEF Denied
  <2>3. Placed' = Placed
    BY <1>1, <2>2 DEF Placed
  <2>4. Apart(Written', Waiting', Told', Denied', execs')
    BY <1>1, <2>2 DEF PlacesOK, Apart
  <2> QED
    BY <1>0, <2>3, <2>4, Moves DEF PlaceGoal, Known
<1>4. ASSUME ~ p.old,
             NEW S \in {p.msgs} \cup {{m} : m \in p.msgs},
             refused' = refused \cup {S}, execs' = execs \cup (p.msgs \ S)
      PROVE  PlaceGoal
  <2>1. Written = p.msgs
    BY <1>0, <1>4, LiveFacts DEF Written
  <2>2. Denied' = Denied \cup S /\ execs' = execs \cup (Written \ S) /\ S \subseteq Written
    BY <1>4, <2>1 DEF Denied
  <2>3. Placed' = Placed
    BY <1>1, <2>2 DEF Placed
  <2>4. Apart(Written', Waiting', Told', Denied', execs')
    BY <1>1, <2>2 DEF PlacesOK, Apart
  <2> QED
    BY <1>0, <2>3, <2>4, Moves DEF PlaceGoal, Known
<1> QED
  BY <1>2, <1>3, <1>4 DEF Transmit
(* The connection reads an answer; what it tells moves out of the server. *)
LEMMA IncomingTold ==
  ASSUME NEW kind, NEW id, Incoming([kind |-> kind, id |-> id, old |-> FALSE])
  PROVE  /\ Told = {} /\ Told' = IF kind \in {"pong", "again", "bad"} THEN id ELSE {}
         /\ Written' = Written /\ Waiting' = Waiting /\ queue' = queue
<1> DEFINE a == [kind |-> kind, id |-> id, old |-> FALSE]
<1>1. inq = <<>> /\ inq' = <<a>> /\ UNCHANGED <<outq, held, queue>>
  BY DEF Incoming, states
<1>2. inq' # <<>> /\ inq'[1].kind = kind /\ inq'[1].id = id /\ inq'[1].old = FALSE
  BY <1>1
<1>3. Told = {} /\ Told' = IF kind \in {"pong", "again", "bad"} THEN id ELSE {}
  <2>1. Told' = IF inq'[1].kind \notin {"pong", "again", "bad"} THEN {} ELSE inq'[1].id
    BY <1>2 DEF Told
  <2> QED
    BY <1>1, <1>2, <2>1 DEF Told
<1> QED
  BY <1>1, <1>3 DEF Written, Waiting

(* What the connection reads was at the server before. *)
LEMMA IncomingPlaces ==
  ASSUME PlacesOK, RefusedOK, (\E r \in Requests : Answer(r)) \/ Garbled \/ Pong \/ Refuse
  PROVE  PlaceGoal
<1>1. ASSUME NEW kind \in {"result", "error", "lost"}, NEW id,
             Incoming([kind |-> kind, id |-> id, old |-> FALSE]),
             UNCHANGED <<execs, refused>>
      PROVE  PlaceGoal
  <2>1. Told' = {} /\ Written' = Written /\ Waiting' = Waiting /\ queue' = queue
    BY <1>1, IncomingTold
  <2>2. Denied' = Denied /\ execs' = execs
    BY <1>1 DEF Denied
  <2>3. Placed' \subseteq Placed
    BY <2>1, <2>2 DEF Placed
  <2> QED
    BY <2>1, <2>2, <2>3, FewerGoal DEF PlacesOK
<1>2. CASE Pong
  <2>1. PICK m \in execs : /\ Incoming([kind |-> "pong", id |-> {m}, old |-> FALSE])
                           /\ execs' = execs \ {m}
    BY <1>2 DEF Pong
  <2>2. /\ Told = {} /\ Told' = {m}
        /\ Written' = Written /\ Waiting' = Waiting /\ queue' = queue
    BY <2>1, IncomingTold
  <2>3. Denied' = Denied
    BY <1>2 DEF Pong, Denied
  <2>4. Placed' \subseteq Placed
    BY <2>1, <2>2, <2>3 DEF Placed
  <2>5. Apart(Written', Waiting', Told', Denied', execs')
    BY <2>1, <2>2, <2>3 DEF PlacesOK, Apart
  <2> QED
    BY <2>2, <2>4, <2>5, Moves DEF PlaceGoal, Known
<1>3. CASE Refuse
  <2>1. PICK S \in refused : /\ \E kind \in {"again", "bad"} :
                                  Incoming([kind |-> kind, id |-> S, old |-> FALSE])
                             /\ refused' = refused \ {S}
    BY <1>3 DEF Refuse
  <2>2. /\ Told = {} /\ Told' = S
        /\ Written' = Written /\ Waiting' = Waiting /\ queue' = queue
    BY <2>1, IncomingTold
  <2>3. Denied' = Denied \ S /\ S \subseteq Denied
    BY <2>1 DEF Denied, RefusedOK
  <2>4. execs' = execs
    BY <1>3 DEF Refuse
  <2>5. Placed' \subseteq Placed
    BY <2>2, <2>3, <2>4 DEF Placed
  <2>6. Apart(Written', Waiting', Told', Denied', execs')
    BY <2>2, <2>3, <2>4 DEF PlacesOK, Apart
  <2> QED
    BY <2>2, <2>5, <2>6, Moves DEF PlaceGoal, Known
<1>4. CASE Garbled
  <2>1. /\ Incoming([kind |-> "lost", id |-> {}, old |-> FALSE])
        /\ UNCHANGED <<execs, refused>>
    BY <1>4 DEF Garbled
  <2> QED
    BY <1>1, <2>1
<1>5. ASSUME NEW r \in Requests, Answer(r) PROVE PlaceGoal
  <2>1. PICK m \in execs, kind \in {"result", "error"} :
          Incoming([kind |-> kind, id |-> {m}, old |-> FALSE])
    BY <1>5 DEF Answer
  <2>2. UNCHANGED <<execs, refused>>
    BY <1>5 DEF Answer
  <2> QED
    BY <1>1, <2>1, <2>2
<1> QED
  BY <1>2, <1>3, <1>4, <1>5

(* A refused message is queued again when nothing else is left of its item. *)
LEMMA AgainPlaces ==
  ASSUME TypeOK, PlacesOK, RefusedOK, ContOK, HandleAgain
  PROVE  PlaceGoal
<1>1. /\ inq # <<>> /\ inq[1].kind = "again" /\ ~ inq[1].old /\ inq' = <<>>
      /\ UNCHANGED <<outq, held, refused, execs>>
  BY DEF HandleAgain, Handling, world
<1>2. PICK S : S = States(inq[1].id)
  OBVIOUS
<1>3. queue' = queue \o Without(pending, Items \ S)
  BY <1>2 DEF HandleAgain, Retry
<1>4. S \subseteq Items
  BY <1>2, RangeOfSeq DEF States, TypeOK
<1>5. /\ Range(Without(pending, Items \ S)) = Range(pending) \ (Items \ S)
      /\ Without(pending, Items \ S) \in Seq(Items)
  BY WithoutFacts DEF TypeOK
<1>6. Range(queue') \subseteq Range(queue) \cup S
  <2>1. Range(queue \o Without(pending, Items \ S))
          = Range(queue) \cup Range(Without(pending, Items \ S))
    <3>1. \A a, b \in Seq(Items) : Range(a \o b) = Range(a) \cup Range(b)
      BY RangeConcatenation
    <3> QED
      BY <1>5, <3>1 DEF TypeOK
  <2>2. Range(pending) \subseteq Items
    BY RangeOfSeq DEF TypeOK
  <2> QED
    BY <1>3, <1>5, <2>1, <2>2
<1>7. Told = inq[1].id /\ Told' = {}
  BY <1>1 DEF Told
<1>8. Written' = Written /\ Waiting' = Waiting /\ Denied' = Denied /\ execs' = execs
  BY <1>1 DEF Written, Waiting, Denied
<1>9. ASSUME NEW i \in S PROVE \E m \in Told : m[1] = i
  <2>1. i \in Items /\ (inq[1].id = {<<i, mid[i]>>} \/ inq[1].id = cont[i])
    BY <1>2, <1>4, <1>9 DEF States
  <2>2. CASE inq[1].id = {<<i, mid[i]>>}
    BY <1>7, <2>2
  <2>3. CASE inq[1].id = cont[i]
    <3>1. inq[1].id # {}
      BY <1>1 DEF RefusedOK
    <3> QED
      BY <1>7, <2>1, <2>3, <3>1 DEF ContOK
  <2> QED
    BY <2>1, <2>2, <2>3
<1>10. Placed' \subseteq Placed /\ Placed' \cap Told = {} /\ Told \subseteq Placed
  BY <1>7, <1>8 DEF Placed, PlacesOK, Apart
<1>11. ASSUME NEW m \in Placed' PROVE m[1] \notin Range(queue)'
  <2>1. m[1] \notin Range(queue)
    BY <1>10 DEF PlacesOK
  <2>2. m[1] \notin S
    <3> SUFFICES ASSUME m[1] \in S PROVE FALSE
      OBVIOUS
    <3>1. PICK n \in Told : n[1] = m[1]
      BY <1>9
    <3>2. m = n
      BY <1>10, <3>1 DEF PlacesOK
    <3> QED
      BY <1>10, <3>1, <3>2
  <2> QED
    BY <1>6, <2>1, <2>2
<1> QED
  BY <1>7, <1>8, <1>11, FewerGoal

(* A queue grows by items that have no message placed. *)
LEMMA Longer ==
  ASSUME TypeOK, PlacesOK, UNCHANGED <<outq, held, inq, refused, execs>>,
         NEW s \in Seq(Items), queue' = queue \o s,
         \A m \in Placed : m[1] \notin Range(s)
  PROVE  PlaceGoal
<1>1. Range(queue') = Range(queue) \cup Range(s)
  <2>1. \A a, b \in Seq(Items) : Range(a \o b) = Range(a) \cup Range(b)
    BY RangeConcatenation
  <2> QED
    BY <2>1 DEF TypeOK
<1>2. Written' = Written /\ Waiting' = Waiting /\ Told' = Told /\ Denied' = Denied
      /\ execs' = execs
  BY DEF Written, Waiting, Told, Denied
<1>3. Placed' = Placed
  BY <1>2 DEF Placed
<1>4. \A m \in Placed' : m[1] \notin Range(queue)'
  BY <1>1, <1>3 DEF PlacesOK
<1> QED
  BY <1>2, <1>4, FewerGoal

(* Every step keeps a message in one place, and an item to one message. *)
LEMMA PlaceStep ==
  ASSUME TypeOK, ControlInv, OnceInv, [Next]_vars
  PROVE  PlaceGoal
<1> USE DEF flags, states, tasks, transport, world
<1>a. PlacesOK /\ RefusedOK /\ ContOK /\ AskedOK /\ KeptOK /\ PingOK
  BY DEF OnceInv
<1>q. ASSUME UNCHANGED <<refused, execs, queue>>,
             outq' \in {outq, <<>>}, held' \in {held, <<>>}, inq' \in {inq, <<>>}
      PROVE  PlaceGoal
  BY <1>a, <1>q, QuietGoal
<1>1. ASSUME NEW call \in Calls, Send(call) PROVE PlaceGoal
  <2>1. call \in Seq(Items) /\ Range(call) \subseteq Requests
    BY ParameterFact, RangeOfSeq
  <2>2. \A m \in Placed : m[1] \notin Range(call)
    BY <1>1, <1>a, <2>1 DEF Send, AskedOK
  <2> QED
    BY <1>1, <1>a, <2>1, <2>2, Longer DEF Send
<1>2. CASE Keepalive
  <2>1. CASE UNCHANGED queue
    BY <1>2, <1>q, <2>1 DEF Keepalive
  <2>2. CASE ping = None /\ queue' = Append(queue, Ping)
    <3>1. queue' = queue \o <<Ping>> /\ <<Ping>> \in Seq(Items) /\ Range(<<Ping>>) = {Ping}
      BY <2>2, ParameterFact, AppendIsConcat DEF TypeOK, Range
    <3>2. \A m \in Placed : m[1] # Ping
      BY <1>a, <2>2 DEF PingOK
    <3>3. UNCHANGED <<outq, held, inq, refused, execs>>
      BY <1>2 DEF Keepalive
    <3> QED
      BY <1>a, <3>1, <3>2, <3>3, Longer
  <2> QED
    BY <1>2, <2>1, <2>2 DEF Keepalive
<1>3. CASE GiveUp \/ Connect \/ CancelReconnect
  BY <1>3, <1>q DEF GiveUp, Connect, NewConnection, CancelReconnect
<1>4. CASE Disconnecting
  BY <1>4, <1>q DEF Disconnecting, CloseConnection, CancelPending, DropPending,
                    Disconnected, NotConnected
<1>5. CASE ReconnectStart \/ ReconnectClosed \/ ReconnectFailed
  BY <1>5, <1>q DEF ReconnectStart, ReconnectClosed, ReconnectFailed, DropPending
<1>6. CASE ReconnectStopped
  <2>1. held = <<>> /\ UNCHANGED <<held, queue>> /\ ResetState
    BY <1>6, <1>a DEF ReconnectStopped, ControlInv, ReconnectionOK, ContOK
  <2>2. Placed' = {}
    BY <2>1, NothingPlaced
  <2>3. Written' = {} /\ Waiting' = {} /\ Told' = {} /\ Denied' = {} /\ execs' = {}
    BY <2>2 DEF Placed
  <2> QED
    BY <1>a, <2>2, <2>3, FewerGoal
<1>7. CASE Reconnected
  <2>1. UNCHANGED <<outq, held, inq, refused, execs>> /\ queue' = queue \o pending
    BY <1>7 DEF Reconnected, Requeue
  <2>2. Placed = {}
    BY <1>7, <1>a DEF Reconnected, AskedOK
  <2>3. pending \in Seq(Items)
    BY DEF TypeOK
  <2> QED
    BY <1>a, <2>1, <2>2, <2>3, Longer
<1>8. CASE SendLoopEnds \/ SendLoopWaits
  BY <1>8, <1>q DEF SendLoopEnds, SendLoopWaits
<1>9. CASE SendBatch
  BY <1>9, <1>a, BatchPlaces
<1>10. CASE SendHeld
  <2>1. /\ outq = <<>> /\ outq' = held /\ held' = <<>>
        /\ UNCHANGED <<inq, queue, refused, execs>>
    BY <1>10 DEF SendHeld
  <2>2. Written = {} /\ Written' = Waiting /\ Waiting' = {}
    BY <2>1, LiveFacts DEF Written, Waiting
  <2>3. Told' = Told /\ Denied' = Denied /\ execs' = execs /\ queue' = queue
    BY <2>1 DEF Told, Denied
  <2>4. Placed' \subseteq Placed
    BY <2>2, <2>3 DEF Placed
  <2>5. Apart(Written', Waiting', Told', Denied', execs')
    BY <1>a, <2>2, <2>3 DEF PlacesOK, Apart
  <2> QED
    BY <1>a, <2>3, <2>4, <2>5, Moves DEF PlaceGoal, Known
<1>11. CASE Transmit
  BY <1>11, <1>a, TransmitPlaces
<1>12. CASE (\E r \in Requests : Answer(r)) \/ Garbled \/ Pong \/ Refuse
  BY <1>12, <1>a, IncomingPlaces
<1>13. CASE Break \/ WriteFails
  BY <1>13, <1>q DEF Break, WriteFails
<1>14. CASE Notice
  <2>1. Told' = {}
    BY <1>14 DEF Notice, Told
  <2>2. Written' = Written /\ Waiting' = Waiting /\ Denied' = Denied /\ execs' = execs
    BY <1>14 DEF Notice, Written, Waiting, Denied
  <2>3. Placed' \subseteq Placed /\ queue' = queue
    BY <1>14, <2>1, <2>2 DEF Notice, Placed
  <2> QED
    BY <1>a, <2>1, <2>2, <2>3, FewerGoal DEF PlacesOK
<1>15. CASE RecvLoopEnds \/ RecvLoopWaits \/ RecvLoopFails \/ ConnectionLost
  BY <1>15, <1>q DEF RecvLoopEnds, RecvLoopWaits, RecvLoopFails, ConnectionLost
<1>16. CASE HandleOld \/ HandleResult \/ HandlePong \/ HandleBad
  BY <1>16, <1>q DEF HandleOld, HandleResult, HandlePong, HandleBad, Handling
<1>17. CASE HandleAgain
  BY <1>17, <1>a, AgainPlaces
<1>18. CASE UNCHANGED vars
  BY <1>18, <1>q DEF vars
<1> QED
  BY <1>1, <1>2, <1>3, <1>4, <1>5, <1>6, <1>7, <1>8, <1>9, <1>10, <1>11, <1>12, <1>13,
     <1>14, <1>15, <1>16, <1>17, <1>18
  DEF Next, Callers, Reconnecting, Sending, Network, Receiving

-----------------------------------------------------------------------------
(* Refusals, containers and futures.                                       *)

(* No message is refused twice, and no refusal is empty. *)
LEMMA RefusedStep ==
  ASSUME TypeOK, ControlInv, OnceInv, [Next]_vars
  PROVE  RefusedOK'
<1> USE DEF flags, states, tasks, transport, world
<1>a. PlacesOK /\ RefusedOK /\ ContOK
  BY DEF OnceInv
<1>q. ASSUME refused' \subseteq refused,
             outq' \in {outq, held, <<>>}, held' \in {held, <<>>}, inq' \in {inq, <<>>}
      PROVE  RefusedOK'
  BY <1>a, <1>q DEF RefusedOK
<1>i. ASSUME NEW kind, NEW id, Incoming([kind |-> kind, id |-> id, old |-> FALSE]),
             kind \in {"again", "bad"} => id # {}, refused' \subseteq refused
      PROVE  RefusedOK'
  <2>1. /\ inq' = <<[kind |-> kind, id |-> id, old |-> FALSE]>>
        /\ UNCHANGED <<outq, held>>
    BY <1>i DEF Incoming
  <2>2. inq'[1].kind = kind /\ inq'[1].id = id
    BY <2>1
  <2>3. inq' # <<>> /\ inq'[1].kind \in {"again", "bad"} => inq'[1].id # {}
    BY <1>i, <2>2
  <2> QED
    BY <1>a, <1>i, <2>1, <2>3 DEF RefusedOK
<1>1. CASE Callers
  BY <1>1, <1>q DEF Callers, Send, GiveUp, Connect, NewConnection, CancelReconnect
<1>2. CASE Keepalive
  BY <1>2, <1>q DEF Keepalive
<1>3. CASE Disconnecting
  BY <1>3, <1>q DEF Disconnecting, CloseConnection, CancelPending, Disconnected,
                    NotConnected
<1>4. CASE ReconnectStart \/ ReconnectClosed \/ Reconnected \/ ReconnectFailed
  BY <1>4, <1>q DEF ReconnectStart, ReconnectClosed, Reconnected, ReconnectFailed
<1>5. CASE ReconnectStopped
  <2>1. held' = held /\ refused' = {} /\ outq' = Aged(outq) /\ inq' = Aged(inq)
    BY <1>5 DEF ReconnectStopped, ResetState
  <2>2. AtMostOne(outq, Packets) /\ AtMostOne(inq, Answers)
    BY DEF TypeOK
  <2>3. outq' # <<>> => outq'[1].msgs # {}
    <3> SUFFICES ASSUME outq' # <<>> PROVE outq'[1].msgs # {}
      OBVIOUS
    <3>1. outq # <<>> /\ outq'[1] = [outq[1] EXCEPT !.old = TRUE] /\ outq[1] \in Packets
      BY <2>1, <2>2, AgedFacts
    <3>2. outq'[1].msgs = outq[1].msgs
      BY <3>1, AgedFields
    <3> QED
      BY <1>a, <3>1, <3>2 DEF RefusedOK
  <2>4. inq' # <<>> /\ inq'[1].kind \in {"again", "bad"} => inq'[1].id # {}
    <3> SUFFICES ASSUME inq' # <<>>, inq'[1].kind \in {"again", "bad"}
                 PROVE  inq'[1].id # {}
      OBVIOUS
    <3>1. inq # <<>> /\ inq'[1] = [inq[1] EXCEPT !.old = TRUE] /\ inq[1] \in Answers
      BY <2>1, <2>2, AgedFacts
    <3>2. inq'[1].kind = inq[1].kind /\ inq'[1].id = inq[1].id
      BY <3>1, AgedFields
    <3> QED
      BY <1>a, <3>1, <3>2 DEF RefusedOK
  <2> QED
    BY <1>a, <2>1, <2>3, <2>4 DEF RefusedOK
<1>6. CASE SendLoopEnds \/ SendLoopWaits \/ SendHeld
  BY <1>6, <1>q DEF SendLoopEnds, SendLoopWaits, SendHeld
<1>7. CASE SendBatch
  <2>1. PICK k \in 1..Len(queue) :
          LET b == SubSeq(queue, 1, k)
              packet == [msgs |-> {<<i, NextId(i)>> : i \in Range(b)}, old |-> FALSE]
          IN  outq' \in {outq, <<packet>>} /\ held' \in {held, <<packet>>}
    BY <1>7 DEF SendBatch
  <2>2. UNCHANGED <<inq, refused>>
    BY <1>7 DEF SendBatch
  <2>3. PICK Q : Q = {<<i, NextId(i)>> : i \in Range(SubSeq(queue, 1, k))}
    OBVIOUS
  <2>4. Q # {}
    <3>1. Len(queue) \in Nat /\ queue \in Seq(Items)
      BY LenProperties DEF TypeOK
    <3>2. Len(SubSeq(queue, 1, k)) = k /\ SubSeq(queue, 1, k) \in Seq(Items)
      BY <3>1, SubSeqProperties
    <3>3. SubSeq(queue, 1, k)[1] \in Range(SubSeq(queue, 1, k))
      BY <3>1, <3>2, LenProperties DEF Range
    <3> QED
      BY <2>3, <3>3
  <2>5. /\ outq' \in {outq, <<[msgs |-> Q, old |-> FALSE]>>}
        /\ held' \in {held, <<[msgs |-> Q, old |-> FALSE]>>}
    BY <2>1, <2>3
  <2> QED
    BY <1>a, <2>2, <2>4, <2>5 DEF RefusedOK
<1>8. CASE Transmit
  <2>1. outq # <<>> /\ outq' = <<>> /\ UNCHANGED <<held, inq>>
    BY <1>8 DEF Transmit
  <2>2. CASE UNCHANGED refused
    BY <2>1, <2>2, <1>q
  <2>3. ASSUME NEW S \in {outq[1].msgs} \cup {{m} : m \in outq[1].msgs},
               ~ outq[1].old, refused' = refused \cup {S}
        PROVE  RefusedOK'
    <3>1. Written = outq[1].msgs
      BY <2>1, <2>3, LiveFacts DEF Written
    <3>2. S # {} /\ S \subseteq Written
      BY <1>a, <2>1, <2>3, <3>1 DEF RefusedOK
    <3>3. \A T \in refused : S \cap T = {}
      BY <1>a, <3>2 DEF PlacesOK, Apart, Denied
    <3> QED
      BY <1>a, <2>1, <2>3, <3>2, <3>3 DEF RefusedOK
  <2> QED
    BY <1>8, <2>2, <2>3 DEF Transmit
<1>9. ASSUME NEW r \in Requests, Answer(r) PROVE RefusedOK'
  <2>1. PICK m \in execs, kind \in {"result", "error"} :
          Incoming([kind |-> kind, id |-> {m}, old |-> FALSE])
    BY <1>9 DEF Answer
  <2>2. refused' \subseteq refused
    BY <1>9 DEF Answer
  <2> QED
    BY <2>1, <2>2, <1>i
<1>10. CASE Pong
  <2>1. PICK m \in execs : Incoming([kind |-> "pong", id |-> {m}, old |-> FALSE])
    BY <1>10 DEF Pong
  <2>2. refused' \subseteq refused
    BY <1>10 DEF Pong
  <2> QED
    BY <2>1, <2>2, <1>i
<1>11. CASE Refuse
  <2>1. PICK S \in refused : /\ \E kind \in {"again", "bad"} :
                                  Incoming([kind |-> kind, id |-> S, old |-> FALSE])
                             /\ refused' = refused \ {S}
    BY <1>11 DEF Refuse
  <2>2. S # {} /\ refused' \subseteq refused
    BY <1>a, <2>1 DEF RefusedOK
  <2> QED
    BY <2>1, <2>2, <1>i
<1>12. CASE Garbled
  <2>1. Incoming([kind |-> "lost", id |-> {}, old |-> FALSE]) /\ refused' \subseteq refused
    BY <1>12 DEF Garbled
  <2> QED
    BY <2>1, <1>i
<1>13. CASE Break \/ WriteFails
  BY <1>13, <1>q DEF Break, WriteFails
<1>14. CASE Notice
  <2>1. inq'[1].kind = "lost" /\ UNCHANGED <<outq, held, refused>>
    BY <1>14 DEF Notice
  <2> QED
    BY <1>a, <2>1 DEF RefusedOK
<1>15. CASE Receiving
  BY <1>15, <1>q DEF Receiving, RecvLoopEnds, RecvLoopWaits, RecvLoopFails, ConnectionLost,
                     HandleOld, HandleResult, HandlePong, HandleAgain, HandleBad, Handling
<1>16. CASE UNCHANGED vars
  BY <1>16, <1>q DEF vars
<1> QED
  BY <1>1, <1>2, <1>3, <1>4, <1>5, <1>6, <1>7, <1>8, <1>9, <1>10, <1>11, <1>12, <1>13,
     <1>14, <1>15, <1>16
  DEF Next, Reconnecting, Sending, Network

(* The container of an item keeps a message of it. *)
LEMMA ContStep ==
  ASSUME TypeOK, ControlInv, OnceInv, [Next]_vars
  PROVE  ContOK'
<1> USE DEF flags, states, tasks, transport, world
<1>a. ContOK
  BY DEF OnceInv
<1>q. ASSUME UNCHANGED cont, sendLoop' # "full" => held' = <<>> PROVE ContOK'
  BY <1>a, <1>q DEF ContOK
<1>1. CASE Callers \/ Keepalive
  BY <1>1, <1>a, <1>q DEF ContOK, Callers, Send, GiveUp, Connect, NewConnection,
                          CancelReconnect, Keepalive
<1>2. CASE Disconnecting
  BY <1>2, <1>a, <1>q DEF ContOK, Disconnecting, CloseConnection, CancelPending,
                          Disconnected, NotConnected
<1>3. CASE Reconnecting
  BY <1>3, <1>a, <1>q DEF ContOK, Reconnecting, ReconnectStart, ReconnectClosed,
       ReconnectStopped, Reconnected, ReconnectFailed, ControlInv, ReconnectionOK
<1>4. CASE SendLoopEnds \/ SendLoopWaits \/ SendHeld
  BY <1>4, <1>a, <1>q DEF ContOK, SendLoopEnds, SendLoopWaits, SendHeld
<1>5. CASE SendBatch
  <2>1. sendLoop' # "full" => held' = <<>>
    BY <1>5, <1>a DEF SendBatch, Getting, ContOK
  <2>2. PICK k \in 1..Len(queue) : AddPending(SubSeq(queue, 1, k))
    BY <1>5 DEF SendBatch
  <2>3. PICK B : B = Range(SubSeq(queue, 1, k))
    OBVIOUS
  <2>4. \/ cont' = cont
        \/ cont' = [i \in Items |-> IF i \in B THEN {<<j, NextId(j)>> : j \in B} ELSE cont[i]]
    BY <2>2, <2>3 DEF AddPending
  <2>5. ASSUME NEW i \in Items, cont'[i] # {} PROVE \E m \in cont'[i] : m[1] = i
    <3>1. CASE cont'[i] = cont[i]
      BY <1>a, <2>5, <3>1 DEF ContOK
    <3>2. CASE i \in B /\ cont'[i] = {<<j, NextId(j)>> : j \in B}
      <4>1. PICK n : n = NextId(i)
        OBVIOUS
      <4>2. <<i, n>> \in cont'[i] /\ <<i, n>>[1] = i
        BY <3>2, <4>1
      <4> QED
        BY <4>2
    <3> QED
      BY <2>4, <3>1, <3>2
  <2> QED
    BY <2>1, <2>5 DEF ContOK
<1>6. CASE Network
  BY <1>6, <1>a, <1>q DEF ContOK, Network, Transmit, Answer, Pong, Refuse, Break, Notice,
                          WriteFails, Garbled, Incoming
<1>7. CASE Receiving
  BY <1>7, <1>a, <1>q DEF ContOK, Receiving, RecvLoopEnds, RecvLoopWaits, RecvLoopFails,
       ConnectionLost, HandleOld, HandleResult, HandlePong, HandleAgain, HandleBad,
       Handling, Retry, PongReceived
<1>8. CASE UNCHANGED vars
  BY <1>8, <1>a, <1>q DEF ContOK, vars
<1> QED
  BY <1>1, <1>2, <1>3, <1>4, <1>5, <1>6, <1>7, <1>8 DEF Next, Sending

(* A future that was handed out stays one. *)
LEMMA FutureStep ==
  ASSUME TypeOK, [Next]_vars
  PROVE  \A r \in Requests : fut[r] # "none" => fut'[r] # "none"
<1> USE DEF flags, states, tasks, transport, world
<1>a. fut \in FutType
  BY DEF TypeOK, FutType
<1>d. ASSUME NEW S, NEW outcome \in {"done", "failed", "cancelled"}, Resolve(S, outcome)
      PROVE  \A r \in Requests : fut[r] # "none" => fut'[r] # "none"
  BY <1>a, <1>d, ResolveFact
<1>1. ASSUME NEW call \in Calls, Send(call)
      PROVE  \A r \in Requests : fut[r] # "none" => fut'[r] # "none"
  BY <1>1 DEF Send
<1>2. CASE GiveUp
  BY <1>a, <1>2 DEF GiveUp, FutType
<1>3. CASE Connect \/ CancelReconnect \/ Keepalive
  BY <1>3 DEF Connect, CancelReconnect, Keepalive
<1>4. CASE CloseConnection \/ Disconnected \/ NotConnected
  BY <1>4 DEF CloseConnection, Disconnected, NotConnected
<1>5. CASE CancelPending
  BY <1>5, <1>d DEF CancelPending, DropPending
<1>6. CASE Reconnecting
  BY <1>6, <1>d DEF Reconnecting, ReconnectStart, ReconnectClosed, ReconnectStopped,
                    Reconnected, ReconnectFailed, DropPending
<1>7. CASE Sending
  BY <1>7 DEF Sending, SendLoopEnds, SendLoopWaits, SendBatch, SendHeld
<1>8. CASE Network
  BY <1>8 DEF Network, Transmit, Answer, Pong, Refuse, Break, Notice, WriteFails,
              Garbled, Incoming
<1>9. CASE RecvLoopEnds \/ RecvLoopWaits \/ RecvLoopFails \/ ConnectionLost \/ HandleOld
  BY <1>9 DEF RecvLoopEnds, RecvLoopWaits, RecvLoopFails, ConnectionLost, HandleOld
<1>10. CASE HandlePong \/ HandleAgain
  BY <1>10 DEF HandlePong, HandleAgain
<1>11. CASE HandleResult
  <2>1. PICK S : Resolve(S, IF inq[1].kind = "result" THEN "done" ELSE "failed")
    BY <1>11 DEF HandleResult
  <2> QED
    BY <1>d, <2>1
<1>12. CASE HandleBad
  <2>1. PICK S : Resolve(S, "failed")
    BY <1>12 DEF HandleBad
  <2> QED
    BY <1>d, <2>1
<1>13. CASE UNCHANGED vars
  BY <1>13 DEF vars
<1> QED
  BY <1>1, <1>2, <1>3, <1>4, <1>5, <1>6, <1>7, <1>8, <1>9, <1>10, <1>11, <1>12, <1>13
  DEF Next, Callers, Disconnecting, Receiving

(* What is placed was asked for, in this session. *)
LEMMA AskedStep ==
  ASSUME TypeOK, ControlInv, OnceInv, [Next]_vars
  PROVE  AskedOK'
<1> USE DEF flags, states, tasks, transport, world
<1>a. AskedOK /\ KeptOK /\ ContOK
  BY DEF OnceInv
<1>k. \A m \in Placed' : Known(m)
  BY PlaceStep DEF PlaceGoal
<1>1. ASSUME NEW m \in Placed', m[1] \in Requests PROVE fut'[m[1]] # "none"
  <2>1. fut[m[1]] # "none"
    BY <1>1, <1>a, <1>k DEF Known, AskedOK, KeptOK, Kept
  <2> QED
    BY <1>1, <2>1, FutureStep
<1>2. ASSUME rt' = "trying" PROVE Placed' = {}
  <2>1. CASE ReconnectStopped
    <3>1. held = <<>> /\ UNCHANGED <<held, queue>> /\ ResetState
      BY <1>a, <2>1 DEF ReconnectStopped, ControlInv, ReconnectionOK, ContOK
    <3> QED
      BY <3>1, NothingPlaced
  <2>2. CASE ~ ReconnectStopped
    <3>1. rt = "trying"
      <4>1. CASE Callers \/ Keepalive
        BY <1>2, <4>1 DEF Callers, Send, GiveUp, Connect, CancelReconnect, Keepalive,
                          StartReconnect
      <4>2. CASE Disconnecting
        BY <1>2, <4>2 DEF Disconnecting, CloseConnection, CancelPending, Disconnected,
                          NotConnected
      <4>3. CASE Reconnecting
        BY <1>2, <2>2, <4>3 DEF Reconnecting, ReconnectStart, ReconnectClosed, Reconnected,
                                ReconnectFailed
      <4>4. CASE Sending
        BY <1>2, <4>4 DEF Sending, SendLoopEnds, SendLoopWaits, SendBatch, SendHeld,
                          StartReconnect
      <4>5. CASE Network
        BY <1>2, <4>5 DEF Network, Transmit, Answer, Pong, Refuse, Break, Notice,
                          WriteFails, Garbled, Incoming
      <4>6. CASE Receiving
        BY <1>2, <4>6 DEF Receiving, RecvLoopEnds, RecvLoopWaits, RecvLoopFails,
             ConnectionLost, HandleOld, HandleResult, HandlePong, HandleAgain, HandleBad,
             Handling, StartReconnect
      <4>7. CASE UNCHANGED vars
        BY <1>2, <4>7 DEF vars
      <4> QED
        BY <4>1, <4>2, <4>3, <4>4, <4>5, <4>6, <4>7 DEF Next
    <3>2. ~ SendBatch
      BY <3>1 DEF SendBatch, Getting, ControlInv, ReconnectionOK
    <3> QED
      BY <1>a, <1>k, <3>1, <3>2 DEF Known, AskedOK
  <2> QED
    BY <2>1, <2>2
<1> QED
  BY <1>1, <1>2 DEF AskedOK

-----------------------------------------------------------------------------
(* The two collections.                                                    *)

(* The elements of a concatenation. *)
LEMMA ConcatFacts ==
  ASSUME NEW X, NEW s \in Seq(X), NEW t \in Seq(X)
  PROVE  s \o t \in Seq(X) /\ Range(s \o t) = Range(s) \cup Range(t)
BY ConcatProperties, RangeConcatenation

(* States that leave the pending ones have resolved futures, or none. *)
LEMMA DropKept ==
  ASSUME TypeOK, KeptOK, UNCHANGED queue,
         NEW S, pending' = Without(pending, S),
         NEW R, R \subseteq S \cap Range(pending),
         NEW outcome \in {"done", "failed", "cancelled"}, Resolve(R, outcome)
  PROVE  KeptOK'
<1>1. IsInjective(pending') /\ Range(pending') = Range(pending) \ S
  BY WithoutFacts, WithoutInjective DEF TypeOK, KeptOK
<1>2. ASSUME NEW r \in Requests, r \in Kept' PROVE fut'[r] \in {"pending", "cancelled"}
  <2>1. r \in Kept /\ r \notin R
    BY <1>1, <1>2 DEF Kept, KeptOK
  <2>2. fut'[r] = fut[r]
    BY <2>1, ResolveFact DEF TypeOK, FutType
  <2> QED
    BY <2>1, <2>2 DEF KeptOK
<1> QED
  BY <1>1, <1>2 DEF KeptOK

(* When the pending states are dropped, their futures are resolved. *)
LEMMA NoneKept ==
  ASSUME TypeOK, KeptOK, UNCHANGED queue,
         NEW outcome \in {"failed", "cancelled"}, DropPending(outcome)
  PROVE  KeptOK'
<1>1. pending' = <<>> /\ Resolve(Range(pending), outcome)
  BY DEF DropPending
<1>2. IsInjective(<<>>) /\ Range(<<>>) = {}
  BY DEF IsInjective, Range
<1>3. ASSUME NEW r \in Requests, r \in Kept' PROVE fut'[r] \in {"pending", "cancelled"}
  <2>1. r \in Kept /\ r \notin Range(pending)
    BY <1>1, <1>2, <1>3 DEF Kept, KeptOK
  <2>2. fut'[r] = fut[r]
    BY <1>1, <2>1, ResolveFact DEF TypeOK, FutType
  <2> QED
    BY <2>1, <2>2 DEF KeptOK
<1> QED
  BY <1>1, <1>2, <1>3 DEF KeptOK

(* What was pending is queued, or a part of it is. *)
LEMMA RequeuedKept ==
  ASSUME TypeOK, KeptOK, UNCHANGED fut, NEW S, NEW T, Range(pending) \subseteq S \cup T,
         queue' = queue \o Without(pending, S), pending' = Without(pending, T)
  PROVE  KeptOK' /\ Kept' \subseteq Kept
<1> DEFINE a == Without(pending, S)
           b == Without(pending, T)
<1>0. queue \in Seq(Items) /\ pending \in Seq(Items)
  BY DEF TypeOK
<1>1. a \in Seq(Items) /\ b \in Seq(Items)
      /\ Range(a) = Range(pending) \ S /\ Range(b) = Range(pending) \ T
  BY <1>0, WithoutFacts
<1>2. IsInjective(a) /\ IsInjective(b)
  BY <1>0, WithoutInjective DEF KeptOK
<1> HIDE DEF a, b
<1>4. IsInjective(queue \o a)
  BY <1>0, <1>1, <1>2, ConcatInjective DEF KeptOK
<1>5. Range(queue \o a) = Range(queue) \cup Range(a)
  BY <1>0, <1>1, ConcatFacts
<1>6. queue' = queue \o a /\ pending' = b
  BY DEF a, b
<1>7. Range(queue') = Range(queue) \cup Range(a) /\ Range(pending') = Range(b)
  BY <1>5, <1>6
<1>8. Kept' \subseteq Kept
  BY <1>1, <1>7 DEF Kept
<1> QED
  BY <1>1, <1>2, <1>4, <1>6, <1>7, <1>8 DEF KeptOK, Kept

(* Every step keeps the two collections apart and their futures open. *)
LEMMA KeptStep ==
  ASSUME TypeOK, ControlInv, OnceInv, [Next]_vars
  PROVE  KeptOK'
<1> USE DEF flags, states, tasks, transport, world
<1>a. PlacesOK /\ KeptOK /\ AskedOK /\ PingOK
  BY DEF OnceInv
<1>t. queue \in Seq(Items) /\ pending \in Seq(Items) /\ fut \in FutType
  BY DEF TypeOK, FutType
<1>s. ASSUME UNCHANGED <<queue, pending, fut>> PROVE KeptOK'
  BY <1>a, <1>s DEF KeptOK, Kept
<1>1. ASSUME NEW call \in Calls, Send(call) PROVE KeptOK'
  <2>1. call \in Seq(Items) /\ Range(call) \subseteq Requests /\ IsInjective(call)
    BY ParameterFact, ItemsAssumption, RangeOfSeq
  <2>2. queue' = queue \o call /\ pending' = pending
    BY <1>1 DEF Send
  <2>3. Range(queue') = Range(queue) \cup Range(call)
    BY <1>t, <2>1, <2>2, ConcatFacts
  <2>4. Range(call) \cap Kept = {}
    BY <1>1, <1>a, <2>1 DEF Send, KeptOK
  <2>5. IsInjective(queue')
    BY <1>a, <1>t, <2>1, <2>2, <2>4, ConcatInjective DEF KeptOK, Kept
  <2>6. \A r \in Requests : fut'[r] = IF r \in Range(call) THEN "pending" ELSE fut[r]
    BY <1>1 DEF Send
  <2> QED
    BY <1>a, <2>2, <2>3, <2>4, <2>5, <2>6 DEF KeptOK, Kept
<1>2. CASE GiveUp
  <2>1. UNCHANGED <<queue, pending>>
    BY <1>2 DEF GiveUp
  <2>2. \A r \in Requests : fut'[r] \in {fut[r], "cancelled"}
    BY <1>2, <1>t DEF GiveUp, FutType
  <2> QED
    BY <1>a, <2>1, <2>2 DEF KeptOK, Kept
<1>3. CASE Keepalive
  <2>1. CASE UNCHANGED queue
    BY <1>3, <1>s, <2>1 DEF Keepalive
  <2>2. CASE ping = None /\ queue' = Append(queue, Ping)
    <3>0. PICK s : s = <<Ping>>
      OBVIOUS
    <3>1. queue' = queue \o s /\ s \in Seq(Items) /\ Range(s) = {Ping} /\ IsInjective(s)
      BY <1>t, <2>2, <3>0, ParameterFact, AppendIsConcat DEF Range, IsInjective
    <3>2. Ping \notin Kept
      BY <1>a, <2>2 DEF PingOK
    <3>3. Range(queue') = Range(queue) \cup {Ping}
      BY <1>t, <3>1, ConcatFacts
    <3>4. IsInjective(queue')
      BY <1>a, <1>t, <3>1, <3>2, ConcatInjective DEF KeptOK, Kept
    <3>5. UNCHANGED <<pending, fut>>
      BY <1>3 DEF Keepalive
    <3> QED
      BY <1>a, <3>2, <3>3, <3>4, <3>5, ParameterFact DEF KeptOK, Kept
  <2> QED
    BY <1>3, <2>1, <2>2 DEF Keepalive
<1>4. CASE Connect \/ CancelReconnect \/ CloseConnection \/ Disconnected \/ NotConnected
  BY <1>4, <1>s DEF Connect, CancelReconnect, CloseConnection, Disconnected, NotConnected
<1>5. CASE CancelPending
  BY <1>5, <1>a, NoneKept DEF CancelPending
<1>6. CASE ReconnectStart \/ ReconnectClosed
  BY <1>6, <1>s DEF ReconnectStart, ReconnectClosed
<1>7. CASE ReconnectStopped
  BY <1>7, <1>a, <1>s, NoneKept DEF ReconnectStopped
<1>8. CASE Reconnected
  <2>1. queue' = queue \o pending /\ pending' = <<>> /\ fut' = fut
    BY <1>8 DEF Reconnected, Requeue
  <2>2. Range(queue') = Range(queue) \cup Range(pending)
    BY <1>t, <2>1, ConcatFacts
  <2>3. IsInjective(queue')
    BY <1>a, <1>t, <2>1, ConcatInjective DEF KeptOK
  <2>4. IsInjective(pending') /\ Range(pending') = {}
    BY <2>1 DEF IsInjective, Range
  <2> QED
    BY <1>a, <2>1, <2>2, <2>3, <2>4 DEF KeptOK, Kept
<1>9. CASE ReconnectFailed
  BY <1>9, <1>a, NoneKept DEF ReconnectFailed
<1>10. CASE SendLoopEnds \/ SendLoopWaits \/ SendHeld
  BY <1>10, <1>s DEF SendLoopEnds, SendLoopWaits, SendHeld
<1>11. CASE SendBatch
  <2>1. PICK k \in 1..Len(queue) : /\ queue' = SubSeq(queue, k + 1, Len(queue))
                                   /\ AddPending(SubSeq(queue, 1, k))
    BY <1>11 DEF SendBatch
  <2>2. PICK b : b = SubSeq(queue, 1, k)
    OBVIOUS
  <2>3. /\ b \in Seq(Items) /\ Range(queue) = Range(b) \cup Range(queue')
        /\ IsInjective(b) /\ IsInjective(queue') /\ Range(b) \cap Range(queue') = {}
    BY <1>a, <1>t, <2>1, <2>2, Split, CutInjective DEF KeptOK
  <2>4. pending' = pending \o b /\ fut' = fut
    BY <1>11, <2>1, <2>2 DEF SendBatch, AddPending
  <2>5. Range(pending') = Range(pending) \cup Range(b)
    BY <1>t, <2>3, <2>4, ConcatFacts
  <2>6. IsInjective(pending')
    BY <1>a, <1>t, <2>3, <2>4, ConcatInjective DEF KeptOK
  <2> QED
    BY <1>a, <2>3, <2>4, <2>5, <2>6 DEF KeptOK, Kept
<1>12. CASE Network
  BY <1>12, <1>s DEF Network, Transmit, Answer, Pong, Refuse, Break, Notice, WriteFails,
                     Garbled, Incoming
<1>13. CASE RecvLoopEnds \/ RecvLoopWaits \/ RecvLoopFails \/ ConnectionLost \/ HandleOld
  BY <1>13, <1>s DEF RecvLoopEnds, RecvLoopWaits, RecvLoopFails, ConnectionLost, HandleOld
<1>14. CASE HandleResult
  <2>1. PICK S : /\ S = {r \in Requests : \E m \in inq[1].id : Has(r, m)}
                 /\ pending' = Without(pending, S)
                 /\ Resolve(S, IF inq[1].kind = "result" THEN "done" ELSE "failed")
    BY <1>14 DEF HandleResult
  <2>2. S \subseteq S \cap Range(pending) /\ queue' = queue
    BY <1>14, <2>1 DEF Has, HandleResult
  <2> QED
    BY <1>a, <2>1, <2>2, DropKept
<1>15. CASE HandlePong
  <2>1. UNCHANGED <<queue, fut>> /\ pending' \in {pending, Without(pending, {Ping})}
    BY <1>15 DEF HandlePong
  <2>2. CASE pending' = Without(pending, {Ping})
    <3>1. IsInjective(pending') /\ Range(pending') = Range(pending) \ {Ping}
      BY <1>a, <1>t, <2>2, WithoutFacts, WithoutInjective DEF KeptOK
    <3> QED
      BY <1>a, <2>1, <3>1 DEF KeptOK, Kept
  <2> QED
    BY <1>s, <2>1, <2>2
<1>16. CASE HandleAgain
  <2>1. PICK S : /\ pending' = Without(pending, S) /\ fut' = fut
                 /\ queue' = queue \o Without(pending, Items \ S)
    BY <1>16 DEF HandleAgain, Retry
  <2>2. Range(pending) \subseteq (Items \ S) \cup S
    BY <1>t, RangeOfSeq
  <2> QED
    BY <1>a, <2>1, <2>2, RequeuedKept
<1>17. CASE HandleBad
  <2>1. PICK S, R : /\ S = States(inq[1].id) /\ R \subseteq S
                    /\ pending' = Without(pending, S) /\ Resolve(R, "failed")
    BY <1>17 DEF HandleBad
  <2>2. R \subseteq S \cap Range(pending) /\ queue' = queue
    BY <1>17, <2>1 DEF States, HandleBad
  <2> QED
    BY <1>a, <2>1, <2>2, DropKept
<1>18. CASE UNCHANGED vars
  BY <1>18, <1>s DEF vars
<1> QED
  BY <1>1, <1>2, <1>3, <1>4, <1>5, <1>6, <1>7, <1>8, <1>9, <1>10, <1>11, <1>12, <1>13,
     <1>14, <1>15, <1>16, <1>17, <1>18
  DEF Next, Callers, Disconnecting, Reconnecting, Sending, Receiving

-----------------------------------------------------------------------------
(* The ping                                                                *)

(* The ping is only sent by the keepalive, which notes it. *)
LEMMA PingKept ==
  ASSUME TypeOK, ControlInv, OnceInv, [Next]_vars, Ping \in Kept'
  PROVE  Ping \in Kept \/ (Keepalive /\ ping' # None)
<1> USE DEF flags, states, tasks, transport, world
<1>t. queue \in Seq(Items) /\ pending \in Seq(Items)
  BY DEF TypeOK
<1>s. ASSUME UNCHANGED queue, pending' \in {pending, <<>>} PROVE Ping \in Kept
  <2>1. Range(<<>>) = {}
    BY DEF Range
  <2> QED
    BY <1>s, <2>1 DEF Kept
<1>w. ASSUME NEW S, UNCHANGED queue, pending' = Without(pending, S) PROVE Ping \in Kept
  <2>1. Range(pending') = Range(pending) \ S
    BY <1>t, <1>w, WithoutFacts
  <2> QED
    BY <1>w, <2>1 DEF Kept
<1>1. ASSUME NEW call \in Calls, Send(call) PROVE Ping \in Kept
  <2>1. call \in Seq(Items) /\ Range(call) \subseteq Requests
    BY ParameterFact, RangeOfSeq
  <2>2. Range(queue') = Range(queue) \cup Range(call) /\ pending' = pending
    BY <1>1, <1>t, <2>1, ConcatFacts DEF Send
  <2> QED
    BY <2>1, <2>2, ParameterFact DEF Kept
<1>2. CASE GiveUp \/ Connect \/ CancelReconnect
  BY <1>2, <1>s DEF GiveUp, Connect, CancelReconnect
<1>3. CASE Keepalive
  <2>1. CASE UNCHANGED queue
    BY <1>3, <1>s, <2>1 DEF Keepalive
  <2>2. CASE ping' = Ping
    BY <1>3, <2>2, ParameterFact
  <2> QED
    BY <1>3, <2>1, <2>2 DEF Keepalive
<1>4. CASE Disconnecting
  BY <1>4, <1>s DEF Disconnecting, CloseConnection, CancelPending, DropPending,
                    Disconnected, NotConnected
<1>5. CASE ReconnectStart \/ ReconnectClosed \/ ReconnectStopped \/ ReconnectFailed
  BY <1>5, <1>s DEF ReconnectStart, ReconnectClosed, ReconnectStopped, ReconnectFailed,
                    DropPending
<1>6. CASE Reconnected
  <2>1. queue' = queue \o pending /\ pending' = <<>>
    BY <1>6 DEF Reconnected, Requeue
  <2>2. Range(queue') = Range(queue) \cup Range(pending)
    BY <1>t, <2>1, ConcatFacts
  <2>3. Range(pending') = {}
    BY <2>1 DEF Range
  <2> QED
    BY <2>2, <2>3 DEF Kept
<1>7. CASE SendLoopEnds \/ SendLoopWaits \/ SendHeld
  BY <1>7, <1>s DEF SendLoopEnds, SendLoopWaits, SendHeld
<1>8. CASE SendBatch
  <2>1. PICK k \in 1..Len(queue) : /\ queue' = SubSeq(queue, k + 1, Len(queue))
                                   /\ AddPending(SubSeq(queue, 1, k))
    BY <1>8 DEF SendBatch
  <2>2. PICK b : b = SubSeq(queue, 1, k)
    OBVIOUS
  <2>3. b \in Seq(Items) /\ Range(queue) = Range(b) \cup Range(queue')
    BY <1>t, <2>1, <2>2, Split
  <2>4. pending' = pending \o b
    BY <2>1, <2>2 DEF AddPending
  <2>5. Range(pending') = Range(pending) \cup Range(b)
    BY <1>t, <2>3, <2>4, ConcatFacts
  <2> QED
    BY <2>3, <2>5 DEF Kept
<1>9. CASE Network
  BY <1>9, <1>s DEF Network, Transmit, Answer, Pong, Refuse, Break, Notice, WriteFails,
                    Garbled, Incoming
<1>10. CASE RecvLoopEnds \/ RecvLoopWaits \/ RecvLoopFails \/ ConnectionLost \/ HandleOld
  BY <1>10, <1>s DEF RecvLoopEnds, RecvLoopWaits, RecvLoopFails, ConnectionLost, HandleOld
<1>11. CASE HandleResult \/ HandleBad
  <2>1. UNCHANGED queue /\ \E S : pending' = Without(pending, S)
    BY <1>11 DEF HandleResult, HandleBad
  <2> QED
    BY <1>w, <2>1
<1>12. CASE HandlePong
  <2>1. UNCHANGED queue /\ pending' \in {pending, Without(pending, {Ping})}
    BY <1>12 DEF HandlePong
  <2> QED
    BY <1>s, <1>w, <2>1
<1>13. CASE HandleAgain
  <2>1. PICK S : /\ pending' = Without(pending, S) /\ fut' = fut
                 /\ queue' = queue \o Without(pending, Items \ S)
    BY <1>13 DEF HandleAgain, Retry
  <2>2. Range(pending) \subseteq (Items \ S) \cup S
    BY <1>t, RangeOfSeq
  <2>3. Kept' \subseteq Kept
    BY <2>1, <2>2, RequeuedKept DEF OnceInv
  <2> QED
    BY <2>3
<1>14. CASE UNCHANGED vars
  BY <1>14, <1>s DEF vars
<1> QED
  BY <1>1, <1>2, <1>3, <1>4, <1>5, <1>6, <1>7, <1>8, <1>9, <1>10, <1>11, <1>12, <1>13,
     <1>14
  DEF Next, Callers, Reconnecting, Sending, Receiving

(* A pong is for the last ping, and leaves nothing of it. *)
LEMMA PongTaken ==
  ASSUME TypeOK, OnceInv, HandlePong
  PROVE  Ping \notin Kept' /\ \A m \in Placed' : m[1] # Ping
<1> USE DEF flags, states, tasks, transport, world
<1>a. PlacesOK /\ PingOK
  BY DEF OnceInv
<1>1. /\ recvLoop = "recv" /\ inq # <<>> /\ inq[1].kind = "pong" /\ ~ inq[1].old
      /\ inq' = <<>> /\ UNCHANGED <<outq, held, refused, execs, queue>>
  BY DEF HandlePong, Handling
<1>2. Told = inq[1].id /\ Told' = {}
  BY <1>1 DEF Told
<1>3. PICK m \in Told : m[1] = Ping
  BY <1>1, <1>2, <1>a DEF PingOK
<1>4. m \in Placed /\ m[2] = 1
  BY <1>3, <1>a DEF Placed, PingOK
<1>5. Placed' \subseteq Placed /\ m \notin Placed'
  <2>1. Written' = Written /\ Waiting' = Waiting /\ Denied' = Denied /\ execs' = execs
    BY <1>1 DEF Written, Waiting, Denied
  <2> QED
    BY <1>2, <1>3, <1>a, <2>1 DEF Placed, PlacesOK, Apart
<1>6. \A n \in Placed' : n[1] # Ping
  BY <1>3, <1>4, <1>5, <1>a DEF PlacesOK
<1>7. Ping \notin Range(queue)
  BY <1>3, <1>4, <1>a DEF PlacesOK
<1>8. Ping \notin Range(pending')
  <2>1. CASE Ping \notin Range(pending)
    <3>1. Range(Without(pending, {Ping})) \subseteq Range(pending)
      BY WithoutFacts DEF TypeOK
    <3> QED
      BY <2>1, <3>1 DEF HandlePong
  <2>2. CASE Ping \in Range(pending)
    <3>1. mid[Ping] = 1
      BY <1>1, <1>a, <2>2 DEF PingOK
    <3>2. m = <<Ping, mid[Ping]>>
      <4>1. m \in Messages
        <5>1. inq[1] \in Answers
          BY <1>1 DEF TypeOK, AtMostOne
        <5>2. inq[1].id \subseteq Messages
          BY <5>1 DEF Answers
        <5> QED
          BY <1>2, <1>3, <5>2
      <4> QED
        BY <1>3, <1>4, <3>1, <4>1 DEF Messages
    <3>3. Has(Ping, m)
      BY <2>2, <3>2 DEF Has
    <3>4. pending' = Without(pending, {Ping})
      BY <1>2, <1>3, <3>3 DEF HandlePong
    <3> QED
      BY <3>4, WithoutFacts DEF TypeOK
  <2> QED
    BY <2>1, <2>2
<1> QED
  BY <1>1, <1>6, <1>7, <1>8 DEF Kept

(* While answers are read, the ping that is pending has its number. *)
LEMMA PingNumber ==
  ASSUME TypeOK, ControlInv, OnceInv, [Next]_vars
  PROVE  Ping \in Range(pending)' /\ recvLoop' # "off" => mid'[Ping] = 1
<1> USE DEF flags, states, tasks, transport, world
<1> DEFINE Goal == Ping \in Range(pending)' /\ recvLoop' # "off" => mid'[Ping] = 1
<1> SUFFICES Goal
  OBVIOUS
<1>a. /\ PingOK
      /\ Ping \in Items
  BY ParameterFact DEF OnceInv
<1>t. queue \in Seq(Items) /\ pending \in Seq(Items) /\ mid \in [Items -> Nat]
  BY DEF TypeOK
<1>e. Range(<<>>) = {}
  BY DEF Range
<1>s. ASSUME UNCHANGED mid, Range(pending') \subseteq Range(pending),
             recvLoop' # "off" => recvLoop # "off"
      PROVE  Goal
  BY <1>a, <1>s DEF PingOK
<1>p. ASSUME UNCHANGED mid, pending' \in {pending, <<>>},
             recvLoop' # "off" => recvLoop # "off"
      PROVE  Goal
  BY <1>e, <1>p, <1>s
<1>w. ASSUME NEW S, UNCHANGED mid, pending' = Without(pending, S), recvLoop # "off"
      PROVE  Goal
  <2>1. Range(pending') \subseteq Range(pending)
    BY <1>t, <1>w, WithoutFacts
  <2> QED
    BY <1>s, <1>w, <2>1
<1>z. ASSUME pending' = <<>> PROVE Goal
  BY <1>e, <1>z
<1> HIDE DEF Goal
<1>1. CASE (\E call \in Calls : Send(call)) \/ GiveUp \/ CancelReconnect \/ Keepalive
  <2>1. UNCHANGED <<mid, pending, recvLoop>>
    BY <1>1 DEF Send, GiveUp, CancelReconnect, Keepalive
  <2> QED
    BY <1>p, <2>1
<1>2. CASE Connect
  <2>1. pending' = <<>>
    BY <1>2 DEF Connect, ControlInv, LeftOK
  <2> QED
    BY <1>z, <2>1
<1>3. CASE Disconnecting
  <2>1. /\ UNCHANGED mid /\ pending' \in {pending, <<>>}
        /\ recvLoop' # "off" => recvLoop # "off"
    BY <1>3 DEF Disconnecting, CloseConnection, CancelPending, DropPending, Disconnected,
                NotConnected
  <2> QED
    BY <1>p, <2>1
<1>4. CASE ReconnectStopped
  BY <1>4 DEF ReconnectStopped, Goal
<1>5. CASE Reconnected
  <2>1. pending' = <<>>
    BY <1>5 DEF Reconnected, Requeue
  <2> QED
    BY <1>z, <2>1
<1>6. CASE ReconnectStart \/ ReconnectClosed \/ ReconnectFailed
  <2>1. UNCHANGED <<mid, recvLoop>> /\ pending' \in {pending, <<>>}
    BY <1>6 DEF ReconnectStart, ReconnectClosed, ReconnectFailed, DropPending
  <2> QED
    BY <1>p, <2>1
<1>7. CASE SendLoopEnds \/ SendLoopWaits \/ SendHeld \/ Network
  <2>1. UNCHANGED <<mid, recvLoop, pending>>
    BY <1>7 DEF SendLoopEnds, SendLoopWaits, SendHeld, Network, Transmit, Answer, Pong,
                Refuse, Break, Notice, WriteFails, Garbled, Incoming
  <2> QED
    BY <1>p, <2>1
<1>8. CASE SendBatch
  <2>1. PICK k \in 1..Len(queue) : AddPending(SubSeq(queue, 1, k))
    BY <1>8 DEF SendBatch
  <2>2. PICK b : b = SubSeq(queue, 1, k)
    OBVIOUS
  <2>3. b \in Seq(Items)
    BY <1>t, <2>1, <2>2, Split
  <2>4. pending' = pending \o b /\ recvLoop' = recvLoop
    BY <1>8, <2>1, <2>2 DEF AddPending, SendBatch
  <2>5. Range(pending') = Range(pending) \cup Range(b)
    BY <1>t, <2>3, <2>4, ConcatFacts
  <2>6. mid'[Ping] = IF Ping \in Range(b) THEN NextId(Ping) ELSE mid[Ping]
    BY <1>a, <2>1, <2>2 DEF AddPending
  <2>7. NextId(Ping) = 1
    BY DEF NextId
  <2> QED
    BY <1>a, <2>4, <2>5, <2>6, <2>7 DEF PingOK, Goal
<1>9. CASE RecvLoopEnds \/ RecvLoopWaits \/ RecvLoopFails \/ ConnectionLost \/ HandleOld
  <2>1. UNCHANGED <<mid, pending>> /\ (recvLoop' # "off" => recvLoop # "off")
    BY <1>9 DEF RecvLoopEnds, RecvLoopWaits, RecvLoopFails, ConnectionLost, HandleOld,
                Handling
  <2> QED
    BY <1>p, <2>1
<1>10. CASE HandleResult \/ HandlePong \/ HandleAgain \/ HandleBad
  <2>1. /\ UNCHANGED mid /\ recvLoop # "off"
        /\ pending' = pending \/ \E S : pending' = Without(pending, S)
    BY <1>10 DEF HandleResult, HandlePong, HandleAgain, HandleBad, Handling, Retry
  <2>2. CASE pending' = pending
    BY <1>p, <2>1, <2>2
  <2> QED
    BY <1>w, <2>1, <2>2
<1>11. CASE UNCHANGED vars
  <2>1. UNCHANGED <<mid, recvLoop, pending>>
    BY <1>11 DEF vars
  <2> QED
    BY <1>p, <2>1
<1> QED
  BY <1>1, <1>2, <1>3, <1>4, <1>5, <1>6, <1>7, <1>8, <1>9, <1>10, <1>11
  DEF Next, Callers, Reconnecting, Sending, Receiving

(* A pong names a ping. *)
LEMMA PongNames ==
  ASSUME TypeOK, OnceInv, [Next]_vars
  PROVE  inq' # <<>> /\ inq'[1].kind = "pong" => \E m \in inq'[1].id : m[1] = Ping
<1> USE DEF flags, states, tasks, transport, world
<1> DEFINE Goal == inq' # <<>> /\ inq'[1].kind = "pong" =>
                     \E m \in inq'[1].id : m[1] = Ping
<1> SUFFICES Goal
  OBVIOUS
<1>a. PingOK
  BY DEF OnceInv
<1>q. ASSUME inq' \in {inq, <<>>} PROVE Goal
  BY <1>a, <1>q DEF PingOK
<1>i. ASSUME NEW kind, NEW id, Incoming([kind |-> kind, id |-> id, old |-> FALSE]),
             kind = "pong" => \E m \in id : m[1] = Ping
      PROVE  Goal
  <2>1. inq' = <<[kind |-> kind, id |-> id, old |-> FALSE]>>
    BY <1>i DEF Incoming
  <2>2. inq'[1].kind = kind /\ inq'[1].id = id
    BY <2>1
  <2> QED
    BY <1>i, <2>2
<1> HIDE DEF Goal
<1>1. CASE Callers \/ Keepalive \/ Disconnecting
  BY <1>1, <1>q DEF Callers, Send, GiveUp, Connect, NewConnection, CancelReconnect,
       Keepalive, Disconnecting, CloseConnection, CancelPending, Disconnected, NotConnected
<1>2. CASE ReconnectStart \/ ReconnectClosed \/ Reconnected \/ ReconnectFailed
  BY <1>2, <1>q DEF ReconnectStart, ReconnectClosed, Reconnected, ReconnectFailed
<1>3. CASE ReconnectStopped
  <2>1. inq' = Aged(inq) /\ AtMostOne(inq, Answers)
    BY <1>3 DEF ReconnectStopped, ResetState, TypeOK
  <2> SUFFICES ASSUME inq' # <<>>, inq'[1].kind = "pong"
               PROVE  \E m \in inq'[1].id : m[1] = Ping
    BY DEF Goal
  <2>2. inq # <<>> /\ inq'[1] = [inq[1] EXCEPT !.old = TRUE] /\ inq[1] \in Answers
    BY <2>1, AgedFacts
  <2>3. inq'[1].kind = inq[1].kind /\ inq'[1].id = inq[1].id
    BY <2>2, AgedFields
  <2> QED
    BY <1>a, <2>2, <2>3 DEF PingOK
<1>4. CASE Sending
  BY <1>4, <1>q DEF Sending, SendLoopEnds, SendLoopWaits, SendBatch, SendHeld
<1>5. CASE Transmit \/ Break \/ WriteFails
  BY <1>5, <1>q DEF Transmit, Break, WriteFails
<1>6. CASE (\E r \in Requests : Answer(r)) \/ Refuse \/ Garbled
  <2>1. \E kind \in {"result", "error", "again", "bad", "lost"} : \E id :
          Incoming([kind |-> kind, id |-> id, old |-> FALSE])
    BY <1>6 DEF Answer, Refuse, Garbled
  <2> QED
    BY <1>i, <2>1
<1>7. CASE Pong
  <2>1. PICK m \in execs : /\ m[1] = Ping
                           /\ Incoming([kind |-> "pong", id |-> {m}, old |-> FALSE])
    BY <1>7 DEF Pong
  <2>2. \E n \in {m} : n[1] = Ping
    BY <2>1
  <2> QED
    BY <1>i, <2>1, <2>2
<1>8. CASE Notice
  <2>1. inq'[1].kind = "lost"
    BY <1>8 DEF Notice
  <2> QED
    BY <2>1 DEF Goal
<1>9. CASE Receiving
  BY <1>9, <1>q DEF Receiving, RecvLoopEnds, RecvLoopWaits, RecvLoopFails, ConnectionLost,
                    HandleOld, HandleResult, HandlePong, HandleAgain, HandleBad, Handling
<1>10. CASE UNCHANGED vars
  BY <1>10, <1>q DEF vars
<1> QED
  BY <1>1, <1>2, <1>3, <1>4, <1>5, <1>6, <1>7, <1>8, <1>9, <1>10
  DEF Next, Reconnecting, Network

(* Every step keeps what is known of the ping. *)
LEMMA PingStep ==
  ASSUME TypeOK, ControlInv, OnceInv, [Next]_vars
  PROVE  PingOK'
<1> USE DEF flags, states, tasks, transport, world
<1>a. PingOK
  BY DEF OnceInv
<1>k. \A m \in Placed' : Known(m)
  BY PlaceStep DEF PlaceGoal
<1>1. ASSUME ping' = None PROVE Ping \notin Kept' /\ \A m \in Placed' : m[1] # Ping
  <2>1. CASE HandlePong
    BY <2>1, PongTaken
  <2>2. CASE ~ HandlePong
    <3>1. ping = None
      <4>1. CASE Callers \/ Keepalive \/ Disconnecting \/ Sending
        BY <1>1, <4>1, ParameterFact
        DEF Callers, Send, GiveUp, Connect, CancelReconnect, Keepalive, Disconnecting,
            CloseConnection, CancelPending, Disconnected, NotConnected,
            Sending, SendLoopEnds, SendLoopWaits, SendBatch, SendHeld
      <4>2. CASE Reconnecting \/ Network
        BY <1>1, <4>2
        DEF Reconnecting, ReconnectStart, ReconnectClosed, ReconnectStopped, Reconnected,
            ReconnectFailed, Network, Transmit, Answer, Pong, Refuse, Break, Notice,
            WriteFails, Garbled, Incoming
      <4>3. CASE Receiving
        BY <1>1, <2>2, <4>3
        DEF Receiving, RecvLoopEnds, RecvLoopWaits, RecvLoopFails, ConnectionLost,
            HandleOld, HandleResult, HandleAgain, HandleBad, Handling
      <4>4. CASE UNCHANGED vars
        BY <1>1, <4>4 DEF vars
      <4> QED
        BY <4>1, <4>2, <4>3, <4>4 DEF Next
    <3>2. Ping \notin Kept /\ \A m \in Placed : m[1] # Ping
      BY <1>a, <3>1 DEF PingOK
    <3>3. Ping \notin Kept'
      BY <1>1, <3>2, PingKept
    <3>4. \A m \in Placed' : m[1] # Ping
      BY <1>k, <3>2 DEF Known, Kept
    <3> QED
      BY <3>3, <3>4
  <2> QED
    BY <2>1, <2>2
<1>2. ASSUME NEW m \in Placed', m[1] = Ping PROVE m[2] = 1
  BY <1>2, <1>a, <1>k DEF Known, PingOK, NextId
<1> QED
  BY <1>1, <1>2, PingNumber, PongNames DEF PingOK

-----------------------------------------------------------------------------
(* The theorems                                                            *)

(* Nothing is placed at first. *)
LEMMA OnceInit == Init => OnceInv
<1> SUFFICES ASSUME Init PROVE OnceInv
  OBVIOUS
<1>1. outq = <<>> /\ held = <<>> /\ inq = <<>> /\ execs = {} /\ refused = {}
  BY DEF Init
<1>2. Placed = {} /\ Written = {} /\ Waiting = {} /\ Told = {} /\ Denied = {}
  BY <1>1, LiveFacts DEF Placed, Written, Waiting, Told, Denied
<1>3. PlacesOK /\ RefusedOK
  BY <1>1, <1>2 DEF PlacesOK, Apart, RefusedOK
<1>4. ContOK
  BY <1>1 DEF Init, ContOK
<1>5. AskedOK
  BY <1>2 DEF AskedOK
<1>6. queue = <<>> /\ pending = <<>> /\ Range(<<>>) = {} /\ IsInjective(<<>>)
  BY DEF Init, Range, IsInjective
<1>7. Kept = {}
  BY <1>6 DEF Kept
<1>8. KeptOK
  BY <1>6, <1>7 DEF KeptOK
<1>9. PingOK
  BY <1>1, <1>2, <1>6, <1>7 DEF PingOK
<1> QED
  BY <1>3, <1>4, <1>5, <1>8, <1>9 DEF OnceInv

(* The invariant is inductive. *)
LEMMA OnceStep == TypeOK /\ ControlInv /\ OnceInv /\ [Next]_vars => OnceInv'
BY PlaceStep, RefusedStep, ContStep, AskedStep, KeptStep, PingStep DEF OnceInv, PlaceGoal

(* At first nothing runs. *)
LEMMA ControlInit == Init => ControlInv
BY DEF Init, ControlInv, ReconnectionOK, DisconnectionOK, LeftOK

(* A request is kept in one place, once, and no longer than it is          *)
(* unresolved, whatever is refused, retried, requeued or given up.         *)
THEOREM KeptInOnePlace == Spec => []KeptOnce
<1>1. TypeOK /\ OnceInv => KeptOnce
  <2> SUFFICES ASSUME TypeOK, OnceInv PROVE KeptOnce
    OBVIOUS
  <2>1. queue \in Seq(Items) /\ pending \in Seq(Items) /\ KeptOK
    BY DEF TypeOK, OnceInv
  <2>2. IsInjective(queue \o pending)
    BY <2>1, ConcatInjective DEF KeptOK
  <2> QED
    BY <2>1, <2>2 DEF KeptOK, KeptOnce
<1> QED
  BY <1>1, OnceInit, ControlInit, OnceStep, ControlStep, TypeCorrect, PTL DEF Spec

(* One session of the server executes no request twice, although refused   *)
(* ones and those of earlier sessions are written again.                   *)
THEOREM ExecutedOnce == Spec => []OncePerSession
<1>1. OnceInv => OncePerSession
  BY DEF OnceInv, PlacesOK, Placed, OncePerSession
<1> QED
  BY <1>1, OnceInit, ControlInit, OnceStep, ControlStep, TypeCorrect, PTL DEF Spec

-----------------------------------------------------------------------------
(* Nothing is forgotten.                                                   *)

(* Where nobody gives up, a future is only cancelled when its request goes. *)
CancelledOK ==
  GivenUp = {} => \A r \in Requests : fut[r] = "cancelled" => r \notin Kept

LEMMA CancelledStep ==
  ASSUME TypeOK, ControlInv, OnceInv, CancelledOK, [Next]_vars
  PROVE  CancelledOK'
<1> USE DEF flags, states, tasks, transport, world
<1>a. KeptOK /\ queue \in Seq(Items) /\ pending \in Seq(Items) /\ fut \in FutType
  BY DEF OnceInv, TypeOK, FutType
<1>k. ASSUME UNCHANGED fut, \A r \in Requests : r \in Kept' => r \in Kept PROVE CancelledOK'
  BY <1>k DEF CancelledOK
<1>s. ASSUME UNCHANGED <<fut, queue, pending>> PROVE CancelledOK'
  BY <1>s DEF CancelledOK, Kept
<1>r. ASSUME NEW S, NEW outcome \in {"done", "failed"}, Resolve(S, outcome), Kept' \subseteq Kept
      PROVE  CancelledOK'
  BY <1>a, <1>r, ResolveFact DEF CancelledOK
<1>w. ASSUME NEW S PROVE /\ Without(pending, S) \in Seq(Items)
                         /\ Range(Without(pending, S)) = Range(pending) \ S
  BY <1>a, WithoutFacts
<1>n. Range(<<>>) = {}
  BY DEF Range
<1>1. ASSUME NEW call \in Calls, Send(call) PROVE CancelledOK'
  <2>1. call \in Seq(Items)
    BY ParameterFact
  <2>2. Range(queue \o call) = Range(queue) \cup Range(call)
    BY <1>a, <2>1, ConcatFacts
  <2>3. Range(queue') = Range(queue) \cup Range(call) /\ UNCHANGED pending
    BY <1>1, <2>2 DEF Send
  <2>4. \A r \in Requests : fut'[r] = "cancelled" => r \notin Range(call) /\ fut[r] = "cancelled"
    BY <1>1 DEF Send
  <2> QED
    BY <2>3, <2>4 DEF CancelledOK, Kept
<1>2. CASE GiveUp
  BY <1>2 DEF GiveUp, CancelledOK
<1>3. CASE Keepalive
  <2>1. UNCHANGED <<fut, pending>> /\ queue' \in {queue, Append(queue, Ping)}
    BY <1>3 DEF Keepalive
  <2>2. Append(queue, Ping) = queue \o <<Ping>> /\ <<Ping>> \in Seq(Items)
    BY <1>a, ParameterFact, AppendIsConcat
  <2>3. Range(queue \o <<Ping>>) = Range(queue) \cup Range(<<Ping>>)
    BY <1>a, <2>2, ConcatFacts
  <2>4. Range(<<Ping>>) = {Ping}
    BY DEF Range
  <2>5. Range(queue') \subseteq Range(queue) \cup {Ping}
    <3>1. queue' = queue \/ queue' = queue \o <<Ping>>
      BY <2>1, <2>2, Zenon
    <3> QED
      BY <2>3, <2>4, <3>1, Zenon
  <2> QED
    BY <1>k, <2>1, <2>5, ParameterFact DEF Kept
<1>4. CASE Connect \/ CancelReconnect \/ CloseConnection \/ Disconnected \/ NotConnected
  BY <1>4, <1>s DEF Connect, CancelReconnect, CloseConnection, Disconnected, NotConnected
<1>5. CASE CancelPending
  <2>1. Resolve(Range(pending), "cancelled") /\ pending' = <<>> /\ queue' = queue
    BY <1>5 DEF CancelPending, DropPending
  <2>2. Kept' = Range(queue)
    BY <1>n, <2>1 DEF Kept
  <2>3. ASSUME NEW r \in Requests, GivenUp = {}, fut'[r] = "cancelled" PROVE r \notin Range(queue)
    <3>1. r \in Range(pending) \/ fut[r] = "cancelled"
      BY <1>a, <2>1, <2>3, ResolveFact
    <3> QED
      BY <1>a, <2>3, <3>1 DEF KeptOK, CancelledOK, Kept
  <2> QED
    BY <2>2, <2>3 DEF CancelledOK
<1>6. CASE ReconnectStart \/ ReconnectClosed
  BY <1>6, <1>s DEF ReconnectStart, ReconnectClosed
<1>7. ASSUME DropPending("failed"), UNCHANGED queue PROVE CancelledOK'
  <2>1. Kept' \subseteq Kept /\ Resolve(Range(pending), "failed")
    BY <1>7, <1>n DEF DropPending, Kept
  <2> QED
    BY <1>r, <2>1
<1>8. CASE ReconnectStopped \/ ReconnectFailed
  BY <1>7, <1>8, <1>s DEF ReconnectStopped, ReconnectFailed
<1>9. CASE Reconnected
  <2>1. queue' = queue \o pending /\ pending' = <<>> /\ UNCHANGED fut
    BY <1>9 DEF Reconnected, Requeue
  <2>2. Range(queue \o pending) = Range(queue) \cup Range(pending)
    BY <1>a, ConcatFacts
  <2> QED
    BY <1>k, <1>n, <2>1, <2>2 DEF Kept
<1>10. CASE SendLoopEnds \/ SendLoopWaits \/ SendHeld
  BY <1>10, <1>s DEF SendLoopEnds, SendLoopWaits, SendHeld
<1>11. CASE SendBatch
  <2>1. PICK k \in 1..Len(queue) : /\ queue' = SubSeq(queue, k + 1, Len(queue))
                                   /\ AddPending(SubSeq(queue, 1, k))
    BY <1>11 DEF SendBatch
  <2>2. fut' = fut
    BY <1>11 DEF SendBatch
  <2> DEFINE b == SubSeq(queue, 1, k)
  <2>3. b \in Seq(Items) /\ Range(queue) = Range(b) \cup Range(queue')
    BY <1>a, <2>1, Split
  <2>4. pending' = pending \o b
    BY <2>1 DEF AddPending
  <2> HIDE DEF b
  <2>5. Range(pending') = Range(pending) \cup Range(b)
    BY <1>a, <2>3, <2>4, ConcatFacts
  <2> QED
    BY <1>k, <2>2, <2>3, <2>5 DEF Kept
<1>12. CASE Network
  BY <1>12, <1>s DEF Network, Transmit, Answer, Pong, Refuse, Break, Notice, WriteFails,
                     Garbled, Incoming
<1>13. CASE RecvLoopEnds \/ RecvLoopWaits \/ RecvLoopFails \/ ConnectionLost \/ HandleOld
  BY <1>13, <1>s DEF RecvLoopEnds, RecvLoopWaits, RecvLoopFails, ConnectionLost, HandleOld
<1>14. ASSUME NEW S, NEW T, UNCHANGED queue, pending' = Without(pending, S),
              NEW outcome \in {"done", "failed"}, Resolve(T, outcome)
       PROVE  CancelledOK'
  <2>1. Kept' \subseteq Kept
    BY <1>14, <1>w DEF Kept
  <2> QED
    BY <1>14, <1>r, <2>1
<1>15. CASE HandleResult
  <2>1. PICK S : /\ pending' = Without(pending, S) /\ queue' = queue
                 /\ Resolve(S, IF inq[1].kind = "result" THEN "done" ELSE "failed")
    BY <1>15 DEF HandleResult
  <2> QED
    BY <1>14, <2>1
<1>16. CASE HandleBad
  <2>1. PICK S, T : /\ pending' = Without(pending, S) /\ queue' = queue
                    /\ Resolve(T, "failed")
    BY <1>16 DEF HandleBad
  <2> QED
    BY <1>14, <2>1
<1>17. CASE HandlePong
  <2>1. pending' \in {pending, Without(pending, {Ping})} /\ UNCHANGED <<queue, fut>>
    BY <1>17 DEF HandlePong
  <2>2. Range(pending') \subseteq Range(pending)
    BY <1>w, <2>1
  <2> QED
    BY <1>k, <2>1, <2>2 DEF Kept
<1>18. CASE HandleAgain
  <2>1. PICK S : /\ pending' = Without(pending, S) /\ fut' = fut
                 /\ queue' = queue \o Without(pending, Items \ S)
    BY <1>18 DEF HandleAgain, Retry
  <2>2. Range(queue \o Without(pending, Items \ S))
        = Range(queue) \cup Range(Without(pending, Items \ S))
    BY <1>a, <1>w, ConcatFacts
  <2> QED
    BY <1>k, <1>w, <2>1, <2>2 DEF Kept
<1>19. CASE UNCHANGED vars
  BY <1>19, <1>s DEF vars
<1> QED
  BY <1>1, <1>2, <1>3, <1>4, <1>5, <1>6, <1>8, <1>9, <1>10, <1>11, <1>12, <1>13,
     <1>15, <1>16, <1>17, <1>18, <1>19
  DEF Next, Callers, Disconnecting, Reconnecting, Sending, Receiving

(* Nobody is left untold by a refusal, where none is final or none gives up. *)
LEMMA NobodyUntold ==
  ASSUME TypeOK, KeptOK, CancelledOK, NothingBad, ~ Rejects \/ GivenUp = {},
         NEW r \in Requests
  PROVE  ~ Unheard(r)
<1> SUFFICES ASSUME Unheard(r) PROVE FALSE
  OBVIOUS
<1>1. inq # <<>> /\ inq[1].kind = "bad" /\ 1 \in DOMAIN inq
  BY DEF Unheard, TypeOK, AtMostOne
<1>2. GivenUp = {}
  BY <1>1 DEF NothingBad
<1>3. PICK j \in States(inq[1].id) \ {Ping} : fut[j] # "pending"
  BY DEF Unheard, Untold
<1>4. j \in Range(pending) /\ j \in Requests
  <2>1. Range(pending) \subseteq Items
    BY RangeOfSeq DEF TypeOK
  <2> QED
    BY <1>3, <2>1 DEF States, Items
<1>5. fut[j] = "cancelled" /\ j \in Kept
  BY <1>3, <1>4 DEF KeptOK, Kept
<1> QED
  BY <1>2, <1>4, <1>5 DEF CancelledOK

(* A request whose caller waits is in the queue or pending, whatever breaks *)
(* and is refused, where refusals are not final or nobody gives up (send).  *)
THEOREM NothingForgotten ==
  ASSUME ~ Rejects \/ GivenUp = {}
  PROVE  Spec => []Tracked
<1>1. Init => NothingBad /\ Tracked /\ CancelledOK
  BY DEF Init, NothingBad, Tracked, CancelledOK
<1>2. TypeOK /\ NothingBad /\ OnceInv /\ CancelledOK /\ Tracked /\ [Next]_vars => Tracked'
  <2> SUFFICES ASSUME TypeOK, NothingBad, OnceInv, CancelledOK, Tracked, [Next]_vars
               PROVE  Tracked'
    OBVIOUS
  <2>1. \A r \in Requests : ~ Unheard(r)
    BY NobodyUntold DEF OnceInv
  <2>2. StepForgets
    BY ForgottenStep
  <2>3. \A r \in Requests : ~ Forgotten(r)
    BY DEF Tracked, Forgotten
  <2>4. \A r \in Requests : ~ Forgotten(r)'
    BY <2>1, <2>2, <2>3 DEF StepForgets
  <2> QED
    BY <2>4 DEF Tracked, Forgotten
<1> QED
  BY <1>1, <1>2, OnceInit, ControlInit, OnceStep, ControlStep, CancelledStep, TypeCorrect,
     NothingBadStep, PTL DEF Spec

-----------------------------------------------------------------------------
(* The sender implements Rpc.                                              *)

(* An answer is about one executed message of the session. *)
AnswersOK ==
  inq # <<>> /\ inq[1].kind \in {"result", "error"} /\ ~ inq[1].old =>
    \E m \in execs : inq[1].id = {m}

(* What the server may still execute, nobody was told the outcome of. *)
OwedOK ==
  \A m \in Placed \ execs : m[1] \in Requests => fut[m[1]] \in {"pending", "cancelled"}

RpcInv == AnswersOK /\ OwedOK

(* What the connection reads. *)
LEMMA ReadFact ==
  ASSUME NEW a, Incoming(a)
  PROVE  inq' # <<>> /\ inq'[1] = a /\ UNCHANGED <<user, fut, outq, held, queue>>
BY DEF Incoming, flags, states

(* Answers stay about executed messages: a session forgets them only when  *)
(* it ends, and what was received of it is then old.                       *)
LEMMA AnswersStep ==
  ASSUME TypeOK, AnswersOK, [Next]_vars
  PROVE  AnswersOK'
<1> USE DEF flags, states, tasks, transport, world
<1>q. ASSUME execs \subseteq execs', inq' \in {inq, <<>>} PROVE AnswersOK'
  BY <1>q DEF AnswersOK
<1>1. CASE Callers \/ Keepalive \/ Disconnecting
  BY <1>1, <1>q DEF Callers, Send, GiveUp, Connect, NewConnection, CancelReconnect,
     Keepalive, Disconnecting, CloseConnection, CancelPending, Disconnected, NotConnected
<1>2. CASE ReconnectStart \/ ReconnectClosed \/ Reconnected \/ ReconnectFailed
  BY <1>2, <1>q DEF ReconnectStart, ReconnectClosed, Reconnected, ReconnectFailed
<1>3. CASE ReconnectStopped
  <2>1. inq' = Aged(inq)
    BY <1>3 DEF ReconnectStopped, ResetState
  <2>2. inq' = <<>> \/ inq'[1].old
    BY <2>1, AgedFacts DEF TypeOK, Aged
  <2> QED
    BY <2>2 DEF AnswersOK
<1>4. CASE Sending
  BY <1>4, <1>q DEF Sending, SendLoopEnds, SendLoopWaits, SendBatch, SendHeld
<1>5. CASE Transmit \/ Break \/ WriteFails
  <2>1. execs \subseteq execs' /\ inq' = inq
    BY <1>5 DEF Transmit, Break, WriteFails
  <2> QED
    BY <2>1, <1>q
<1>6. ASSUME NEW r \in Requests, Answer(r) PROVE AnswersOK'
  <2>1. PICK m \in execs, kind \in {"result", "error"} :
          Incoming([kind |-> kind, id |-> {m}, old |-> FALSE])
    BY <1>6 DEF Answer
  <2>2. inq'[1].id = {m} /\ execs' = execs
    BY <1>6, <2>1, ReadFact DEF Answer
  <2> QED
    BY <2>2 DEF AnswersOK
<1>7. ASSUME NEW a, Incoming(a), a.kind \notin {"result", "error"} PROVE AnswersOK'
  BY <1>7, ReadFact DEF AnswersOK
<1>8. CASE Pong
  <2>1. PICK m \in execs : Incoming([kind |-> "pong", id |-> {m}, old |-> FALSE])
    BY <1>8 DEF Pong
  <2> QED
    BY <2>1, <1>7
<1>9. CASE Refuse
  <2>1. PICK S \in refused, kind \in {"again", "bad"} :
          Incoming([kind |-> kind, id |-> S, old |-> FALSE])
    BY <1>9 DEF Refuse
  <2> QED
    BY <2>1, <1>7
<1>10. CASE Garbled
  BY <1>7, <1>10 DEF Garbled
<1>11. CASE Notice
  <2>1. inq'[1].kind = "lost"
    BY <1>11 DEF Notice
  <2> QED
    BY <2>1 DEF AnswersOK
<1>12. CASE Receiving
  BY <1>12, <1>q DEF Receiving, RecvLoopEnds, RecvLoopWaits, RecvLoopFails, ConnectionLost,
     HandleOld, HandleResult, HandlePong, HandleAgain, HandleBad, Handling
<1>13. CASE UNCHANGED vars
  BY <1>13, <1>q DEF vars
<1> QED
  BY <1>1, <1>2, <1>3, <1>4, <1>5, <1>6, <1>8, <1>9, <1>10, <1>11, <1>12, <1>13
  DEF Next, Reconnecting, Network

(* The request an answer resolves is the one that was executed. *)
LEMMA AnsweredFact ==
  ASSUME TypeOK, AnswersOK, HandleResult
  PROVE  \E m \in execs, S \in SUBSET Requests :
           /\ S \subseteq {m[1]}
           /\ Resolve(S, IF inq[1].kind = "result" THEN "done" ELSE "failed")
<1>1. PICK m \in execs : inq[1].id = {m}
  BY DEF HandleResult, Handling, AnswersOK
<1> DEFINE S == {r \in Requests : \E n \in inq[1].id : Has(r, n)}
<1>2. Resolve(S, IF inq[1].kind = "result" THEN "done" ELSE "failed")
  BY DEF HandleResult
<1>3. S \subseteq {m[1]}
  BY <1>1 DEF Has
<1> QED
  BY <1>2, <1>3

(* A final refusal resolves requests whose message the refusal names. *)
LEMMA RefusedFact ==
  ASSUME TypeOK, ContOK, RefusedOK, HandleBad
  PROVE  \E S : Resolve(S, "failed") /\ \A i \in S : \E m \in Told : m[1] = i
<1>1. Told = inq[1].id
  BY DEF HandleBad, Handling, Told
<1>2. PICK S : Resolve(S, "failed") /\ S \subseteq States(inq[1].id)
  BY DEF HandleBad
<1>3. ASSUME NEW i \in States(inq[1].id) PROVE \E m \in Told : m[1] = i
  <2>1. i \in Items /\ (Told = {<<i, mid[i]>>} \/ Told = cont[i])
    <3>1. Range(pending) \subseteq Items
      BY RangeOfSeq DEF TypeOK
    <3> QED
      BY <1>1, <1>3, <3>1 DEF States
  <2>2. CASE Told = {<<i, mid[i]>>}
    BY <2>2
  <2>3. CASE Told = cont[i]
    <3>1. Told # {}
      BY <1>1 DEF HandleBad, Handling, RefusedOK
    <3> QED
      BY <2>1, <2>3, <3>1 DEF ContOK
  <2> QED
    BY <2>1, <2>2, <2>3
<1> QED
  BY <1>2, <1>3

(* A future that is resolved leaves no message the server may execute.     *)
LEMMA OwedStep ==
  ASSUME TypeOK, ControlInv, OnceInv, RpcInv, [Next]_vars
  PROVE  OwedOK'
<1> USE DEF flags, states, tasks, transport, world
<1> DEFINE Owed == {"pending", "cancelled"}
<1>a. PlacesOK /\ RefusedOK /\ ContOK /\ AskedOK /\ KeptOK /\ AnswersOK /\ OwedOK
  BY DEF OnceInv, RpcInv
<1>f. fut \in FutType
  BY DEF TypeOK, FutType
<1> SUFFICES ASSUME NEW m \in Placed' \ execs', m[1] \in Requests PROVE fut'[m[1]] \in Owed
  BY DEF OwedOK
<1>p. m \in Placed \/ m[1] \in Range(queue)
  BY PlaceStep DEF PlaceGoal, Known
<1>u. ASSUME execs \subseteq execs' PROVE fut[m[1]] \in Owed
  BY <1>a, <1>p, <1>u DEF OwedOK, KeptOK, Kept
<1>s. ASSUME UNCHANGED fut, execs \subseteq execs' PROVE fut'[m[1]] \in Owed
  BY <1>s, <1>u
<1>r. ASSUME UNCHANGED execs, NEW S, NEW outcome \in {"done", "failed", "cancelled"},
             Resolve(S, outcome), m[1] \notin S \/ outcome = "cancelled"
      PROVE  fut'[m[1]] \in Owed
  BY <1>f, <1>r, <1>u, ResolveFact
<1>1. ASSUME NEW call \in Calls, Send(call) PROVE fut'[m[1]] \in Owed
  <2>1. fut[m[1]] \in Owed
    BY <1>1, <1>u DEF Send
  <2> QED
    BY <1>1, <2>1 DEF Send
<1>2. CASE GiveUp
  <2>1. fut[m[1]] \in Owed
    BY <1>2, <1>u DEF GiveUp
  <2> QED
    BY <1>2, <1>f, <2>1 DEF GiveUp, FutType
<1>3. CASE Connect \/ CancelReconnect \/ Keepalive
  BY <1>3, <1>s DEF Connect, CancelReconnect, Keepalive
<1>4. CASE CloseConnection \/ Disconnected \/ NotConnected
  BY <1>4, <1>s DEF CloseConnection, Disconnected, NotConnected
<1>5. CASE CancelPending
  BY <1>5, <1>r DEF CancelPending, DropPending
<1>6. CASE ReconnectStart \/ ReconnectClosed \/ Reconnected
  BY <1>6, <1>s DEF ReconnectStart, ReconnectClosed, Reconnected
<1>7. CASE ReconnectStopped
  <2>1. held = <<>> /\ UNCHANGED held /\ ResetState
    BY <1>7, <1>a DEF ReconnectStopped, ControlInv, ReconnectionOK, ContOK
  <2> QED
    BY <2>1, NothingPlaced
<1>8. CASE ReconnectFailed
  <2>1. Placed = {} /\ UNCHANGED <<queue, outq, held, inq, refused, execs>>
    BY <1>8, <1>a DEF ReconnectFailed, AskedOK
  <2>2. Placed' = {}
    BY <2>1 DEF Placed, Written, Waiting, Told, Denied
  <2> QED
    BY <2>2
<1>9. CASE Sending
  BY <1>9, <1>s DEF Sending, SendLoopEnds, SendLoopWaits, SendBatch, SendHeld
<1>10. CASE Transmit \/ Break \/ Notice \/ WriteFails
  BY <1>10, <1>s DEF Transmit, Break, Notice, WriteFails
<1>11. CASE (\E r \in Requests : Answer(r)) \/ Refuse \/ Garbled
  BY <1>11, <1>s DEF Answer, Refuse, Garbled, Incoming
<1>12. CASE Pong
  <2>1. PICK n \in execs : n[1] = Ping /\ execs' = execs \ {n} /\ UNCHANGED fut
    BY <1>12 DEF Pong, Incoming
  <2>2. m \notin execs
    BY <2>1, ParameterFact
  <2> QED
    BY <1>a, <1>p, <2>1, <2>2 DEF OwedOK, KeptOK, Kept
<1>13. CASE RecvLoopEnds \/ RecvLoopWaits \/ RecvLoopFails \/ ConnectionLost \/ HandleOld
  BY <1>13, <1>s DEF RecvLoopEnds, RecvLoopWaits, RecvLoopFails, ConnectionLost,
                     HandleOld, Handling
<1>14. CASE HandlePong \/ HandleAgain
  BY <1>14, <1>s DEF HandlePong, HandleAgain, Handling
<1>15. CASE HandleResult
  <2>1. PICK n \in execs, S \in SUBSET Requests :
          /\ S \subseteq {n[1]}
          /\ Resolve(S, IF inq[1].kind = "result" THEN "done" ELSE "failed")
    BY <1>15, <1>a, AnsweredFact
  <2>2. UNCHANGED execs
    BY <1>15 DEF HandleResult, Handling
  <2>3. m[1] # n[1]
    BY <1>a, <1>p, <2>2 DEF PlacesOK, Placed
  <2> QED
    BY <1>r, <2>1, <2>2, <2>3
<1>16. CASE HandleBad
  <2>1. PICK S : Resolve(S, "failed") /\ \A i \in S : \E n \in Told : n[1] = i
    BY <1>16, <1>a, RefusedFact
  <2>2. UNCHANGED <<outq, held, refused, execs>> /\ inq' = <<>>
    BY <1>16 DEF HandleBad, Handling
  <2>3. m \in Written \cup Waiting \cup Denied
    BY <2>2 DEF Placed, Written, Waiting, Denied, Told
  <2>4. ASSUME m[1] \in S PROVE FALSE
    <3>1. PICK n \in Told : n[1] = m[1]
      BY <2>1, <2>4
    <3>2. m = n
      BY <1>a, <2>3, <3>1 DEF PlacesOK, Placed
    <3> QED
      BY <1>a, <2>3, <3>2 DEF PlacesOK, Apart
  <2> QED
    BY <1>r, <2>1, <2>2, <2>4
<1>17. CASE UNCHANGED vars
  BY <1>17, <1>s DEF vars
<1> QED
  BY <1>1, <1>2, <1>3, <1>4, <1>5, <1>6, <1>7, <1>8, <1>9, <1>10, <1>11, <1>12, <1>13,
     <1>14, <1>15, <1>16, <1>17
  DEF Next, Callers, Disconnecting, Reconnecting, Network, Receiving

(* Messages that reach the server execute their requests.                  *)
LEMMA ExecuteMaps ==
  ASSUME TypeOK, PlacesOK, OwedOK, UNCHANGED <<user, fut>>,
         NEW M \in SUBSET Written, execs' = execs \cup M
  PROVE  \E S \in SUBSET Requests : Promise!Execute(S)
<1> DEFINE S == {r \in Requests : \E m \in M : m[1] = r}
<1>1. ASSUME NEW r \in S PROVE r \notin Ran /\ fut[r] \in {"pending", "cancelled"}
  <2>1. PICK m \in M : m[1] = r
    BY <1>1
  <2>2. m \in Written /\ m \in Placed /\ m \notin execs
    BY <2>1 DEF PlacesOK, Apart, Placed
  <2>3. r \notin Ran
    BY <2>1, <2>2 DEF Ran, PlacesOK, Placed
  <2> QED
    BY <2>1, <2>2, <2>3 DEF OwedOK
<1>2. Ran' = Ran \cup S
  BY DEF Ran
<1> QED
  BY <1>1, <1>2 DEF Promise!Execute

(* Where nothing is executed, the same requests have been. *)
LEMMA SameRan == execs' = execs => Ran' = Ran
BY DEF Ran

(* To resolve is to settle the requests among what is resolved. *)
LEMMA ResolveMaps ==
  ASSUME NEW S, NEW outcome, Resolve(S, outcome)
  PROVE  Promise!Settle(S \cap Requests, outcome)
BY DEF Resolve, Promise!Settle

(* Every step of the sender is one of Rpc, or none of its business. *)
LEMMA RpcStep ==
  ASSUME TypeOK, ControlInv, OnceInv, RpcInv, [Next]_vars
  PROVE  [Promise!Next]_(Promise!vars)
<1> USE DEF flags, states, tasks, transport, world
<1> DEFINE Goal == [Promise!Next]_(Promise!vars)
<1>a. PlacesOK /\ RefusedOK /\ ContOK /\ KeptOK /\ AnswersOK /\ OwedOK
  BY DEF OnceInv, RpcInv
<1>f. fut \in FutType
  BY DEF TypeOK, FutType
<1>s. ASSUME UNCHANGED <<user, fut, execs>> PROVE Goal
  BY <1>s, SameRan DEF Promise!vars
<1>c. ASSUME NEW S, NEW outcome \in {"cancelled", "failed"}, Resolve(S, outcome),
             user' = FALSE, Ran' \in {Ran, {}}
      PROVE  Goal
  <2>1. Promise!Close(S \cap Requests, outcome)
    BY <1>c, ResolveMaps DEF Promise!Close
  <2> QED
    BY <2>1 DEF Promise!Next
<1>1. ASSUME NEW call \in Calls, Send(call) PROVE Goal
  <2>1. Range(call) \in SUBSET Requests
    BY ParameterFact, RangeOfSeq
  <2>2. Promise!Ask(Range(call))
    BY <1>1, SameRan DEF Send, Promise!Ask
  <2> QED
    BY <2>1, <2>2 DEF Promise!Next
<1>2. CASE GiveUp
  <2>1. PICK r \in GivenUp : fut[r] = "pending" /\ fut' = [fut EXCEPT ![r] = "cancelled"]
    BY <1>2 DEF GiveUp
  <2>2. r \in Requests
    BY ItemsAssumption
  <2>3. Promise!Settle({r}, "cancelled")
    BY <1>f, <2>1, <2>2 DEF Promise!Settle, FutType
  <2>4. Promise!GiveUp(r)
    BY <1>2, <2>3, SameRan DEF GiveUp, Promise!GiveUp
  <2> QED
    BY <2>2, <2>4 DEF Promise!Next
<1>3. CASE Connect
  <2>1. Promise!Open
    BY <1>3, SameRan DEF Connect, Promise!Open
  <2> QED
    BY <2>1 DEF Promise!Next
<1>4. CASE CancelReconnect \/ Keepalive \/ Disconnected \/ NotConnected
  BY <1>4, <1>s DEF CancelReconnect, Keepalive, Disconnected, NotConnected
<1>5. CASE CloseConnection
  <2>1. Resolve({}, "cancelled") /\ Ran' = Ran /\ user' = FALSE
    BY <1>5, <1>f, SameRan DEF CloseConnection, Resolve, FutType
  <2> QED
    BY <1>c, <2>1
<1>6. CASE CancelPending \/ ReconnectFailed
  <2>1. Ran' = Ran /\ user' = FALSE
    BY <1>6, SameRan DEF CancelPending, ReconnectFailed
  <2>2. Resolve(Range(pending), "cancelled") \/ Resolve(Range(pending), "failed")
    BY <1>6 DEF CancelPending, ReconnectFailed, DropPending
  <2> QED
    BY <1>c, <2>1, <2>2
<1>7. CASE ReconnectStart \/ ReconnectClosed \/ Reconnected
  BY <1>7, <1>s DEF ReconnectStart, ReconnectClosed, Reconnected
<1>8. CASE ReconnectStopped
  <2>1. Ran' = {} /\ UNCHANGED user
    BY <1>8 DEF ReconnectStopped, ResetState, Ran
  <2>2. CASE user
    <3>1. Promise!Renew
      BY <1>8, <2>1, <2>2 DEF ReconnectStopped, Promise!Renew
    <3> QED
      BY <3>1 DEF Promise!Next
  <2>3. CASE ~ user
    <3>1. Resolve(Range(pending), "failed") /\ user' = FALSE
      BY <1>8, <2>1, <2>3 DEF ReconnectStopped, DropPending, TypeOK
    <3> QED
      BY <1>c, <2>1, <3>1
  <2> QED
    BY <2>2, <2>3
<1>9. CASE Sending
  BY <1>9, <1>s DEF Sending, SendLoopEnds, SendLoopWaits, SendBatch, SendHeld
<1>10. CASE Transmit
  <2>1. UNCHANGED <<user, fut>> /\ outq # <<>>
    BY <1>10 DEF Transmit
  <2>2. CASE UNCHANGED execs
    BY <1>s, <2>1, <2>2
  <2>3. CASE ~ UNCHANGED execs
    <3>1. ~ outq[1].old /\ \E M \in SUBSET outq[1].msgs : execs' = execs \cup M
      BY <1>10, <2>3 DEF Transmit
    <3>2. Written = outq[1].msgs
      BY <2>1, <3>1, LiveFacts DEF Written
    <3>3. \E S \in SUBSET Requests : Promise!Execute(S)
      BY <1>a, <2>1, <3>1, <3>2, ExecuteMaps
    <3> QED
      BY <3>3 DEF Promise!Next
  <2> QED
    BY <2>2, <2>3
<1>11. CASE (\E r \in Requests : Answer(r)) \/ Refuse \/ Garbled
  BY <1>11, <1>s DEF Answer, Refuse, Garbled, Incoming
<1>12. CASE Pong
  <2>1. PICK n \in execs : n[1] = Ping /\ execs' = execs \ {n} /\ UNCHANGED <<user, fut>>
    BY <1>12 DEF Pong, Incoming
  <2>2. Ran' = Ran
    BY <2>1, ParameterFact DEF Ran
  <2> QED
    BY <2>1, <2>2 DEF Promise!vars
<1>13. CASE Break \/ Notice \/ WriteFails
  BY <1>13, <1>s DEF Break, Notice, WriteFails
<1>14. CASE RecvLoopEnds \/ RecvLoopWaits \/ RecvLoopFails \/ ConnectionLost \/ HandleOld
  BY <1>14, <1>s DEF RecvLoopEnds, RecvLoopWaits, RecvLoopFails, ConnectionLost,
                     HandleOld, Handling
<1>15. CASE HandlePong \/ HandleAgain
  BY <1>15, <1>s DEF HandlePong, HandleAgain, Handling
<1>16. CASE HandleResult
  <2>1. PICK n \in execs, S \in SUBSET Requests :
          /\ S \subseteq {n[1]}
          /\ Resolve(S, IF inq[1].kind = "result" THEN "done" ELSE "failed")
    BY <1>16, <1>a, AnsweredFact
  <2>2. UNCHANGED <<user, execs>>
    BY <1>16 DEF HandleResult, Handling
  <2>3. CASE S = {}
    <3>1. UNCHANGED fut
      BY <1>f, <2>1, <2>3 DEF Resolve, FutType
    <3> QED
      BY <1>s, <2>2, <3>1
  <2>4. CASE S # {}
    <3>1. S = {n[1]} /\ n[1] \in Requests /\ n[1] \in Ran
      BY <2>1, <2>4 DEF Ran
    <3>2. PICK outcome \in {"done", "failed"} : Resolve({n[1]}, outcome)
      BY <2>1, <3>1
    <3>3. {n[1]} \cap Requests = {n[1]} /\ Ran' = Ran
      BY <2>2, <3>1, SameRan
    <3>4. Promise!Settle({n[1]}, outcome)
      BY <3>2, <3>3, ResolveMaps
    <3>5. Promise!Return(n[1], outcome)
      BY <2>2, <3>1, <3>3, <3>4 DEF Promise!Return
    <3> QED
      BY <3>1, <3>5 DEF Promise!Next
  <2> QED
    BY <2>3, <2>4
<1>17. CASE HandleBad
  <2>1. PICK S : Resolve(S, "failed") /\ \A i \in S : \E n \in Told : n[1] = i
    BY <1>17, <1>a, RefusedFact
  <2>2. UNCHANGED <<user, execs>> /\ Ran' = Ran
    BY <1>17, SameRan DEF HandleBad, Handling
  <2>3. S \cap Ran = {}
    BY <1>a, <2>1 DEF PlacesOK, Apart, Placed, Ran
  <2>4. Promise!Refuse(S \cap Requests)
    BY <2>1, <2>2, <2>3, ResolveMaps DEF Promise!Refuse
  <2> QED
    BY <2>4 DEF Promise!Next
<1>18. CASE UNCHANGED vars
  BY <1>18, <1>s DEF vars
<1> QED
  BY <1>1, <1>2, <1>3, <1>4, <1>5, <1>6, <1>7, <1>8, <1>9, <1>10, <1>11, <1>12, <1>13,
     <1>14, <1>15, <1>16, <1>17, <1>18
  DEF Next, Callers, Disconnecting, Reconnecting, Network, Receiving

(* At first nobody has asked and nothing was answered. *)
LEMMA RpcInit == Init => RpcInv /\ Promise!Init
<1> SUFFICES ASSUME Init PROVE RpcInv /\ Promise!Init
  OBVIOUS
<1>1. inq = <<>> /\ execs = {} /\ outq = <<>> /\ held = <<>> /\ refused = {}
  BY DEF Init
<1>2. Placed = {} /\ Ran = {}
  BY <1>1, LiveFacts DEF Placed, Written, Waiting, Told, Denied, Ran
<1> QED
  BY <1>1, <1>2 DEF Init, RpcInv, AnswersOK, OwedOK, Promise!Init

(* The sender implements Rpc: whatever breaks, is refused, retried or      *)
(* cancelled, a future is resolved once, by an answer to its own request,  *)
(* executed in this session, by a refusal of what was not executed, or by  *)
(* the end of the connection.                                              *)
THEOREM Refinement == Spec => ImplementsRpc
<1>1. TypeOK /\ ControlInv /\ OnceInv /\ RpcInv /\ [Next]_vars => RpcInv'
  BY AnswersStep, OwedStep DEF RpcInv
<1>2. TypeOK /\ ControlInv /\ OnceInv /\ RpcInv /\ [Next]_vars
      => [Promise!Next]_(Promise!vars)
  BY RpcStep
<1> QED
  BY <1>1, <1>2, RpcInit, OnceInit, ControlInit, OnceStep, ControlStep, TypeCorrect, PTL
  DEF Spec, ImplementsRpc, Promise!Spec

(* What Rpc says of a future: it never changes once it is resolved, and    *)
(* becomes done only in a session that has executed the request.           *)
ResolvedOnce ==
  \A r \in Requests :
    /\ fut[r] \notin {"none", "pending"} => fut'[r] = fut[r]
    /\ fut[r] = "pending" /\ fut'[r] = "done" => r \in Ran

LEMMA PromiseResolves ==
  ASSUME [Promise!Next]_(Promise!vars)
  PROVE  ResolvedOnce
<1>s. ASSUME NEW S, NEW outcome, Promise!Settle(S, outcome)
      PROVE  \A r \in Requests :
               fut'[r] = IF r \in S /\ fut[r] = "pending" THEN outcome ELSE fut[r]
  BY <1>s DEF Promise!Settle
<1>1. CASE Promise!Open \/ Promise!Renew
  BY <1>1 DEF Promise!Open, Promise!Renew, ResolvedOnce
<1>2. ASSUME NEW r \in Requests, Promise!GiveUp(r) PROVE ResolvedOnce
  BY <1>2, <1>s DEF Promise!GiveUp, ResolvedOnce
<1>3. ASSUME NEW r \in Requests, NEW outcome \in {"done", "failed"},
             Promise!Return(r, outcome)
      PROVE  ResolvedOnce
  BY <1>3, <1>s DEF Promise!Return, ResolvedOnce
<1>4. ASSUME NEW S, Promise!Ask(S) PROVE ResolvedOnce
  BY <1>4 DEF Promise!Ask, ResolvedOnce
<1>5. ASSUME NEW S, Promise!Execute(S) PROVE ResolvedOnce
  BY <1>5 DEF Promise!Execute, ResolvedOnce
<1>6. ASSUME NEW S, Promise!Refuse(S) PROVE ResolvedOnce
  BY <1>6, <1>s DEF Promise!Refuse, ResolvedOnce
<1>7. ASSUME NEW S, NEW outcome \in {"cancelled", "failed"}, Promise!Close(S, outcome)
      PROVE  ResolvedOnce
  BY <1>7, <1>s DEF Promise!Close, ResolvedOnce
<1>8. CASE UNCHANGED Promise!vars
  BY <1>8 DEF Promise!vars, ResolvedOnce
<1> QED
  BY <1>1, <1>2, <1>3, <1>4, <1>5, <1>6, <1>7, <1>8 DEF Promise!Next

(* No future changes once it is resolved, and none becomes done but by an   *)
(* answer to a request this session has executed.                           *)
THEOREM FuturesResolvedOnce == Spec => [][ResolvedOnce]_vars
<1>1. [Promise!Next]_(Promise!vars) => [ResolvedOnce]_vars
  BY PromiseResolves
<1> QED
  BY <1>1, Refinement, PTL DEF ImplementsRpc, Promise!Spec
=============================================================================
