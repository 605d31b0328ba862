------------------------- MODULE ConversationProofs -------------------------
(***************************************************************************)
(* The theorems about Conversation, for every number of conversations,      *)
(* waits, messages and updates.                                             *)
(***************************************************************************)
EXTENDS Conversation, FiniteSetTheorems, SequenceTheorems, WellFoundedInduction, TLAPS

(* The update that is on its way is a real one.                             *)
UpdatesOK ==
    \A u \in Updates : flight[u].update.kind = "message" => flight[u].update.id \in Messages

-----------------------------------------------------------------------------
(* Types.                                                                   *)

ConvTypes ==
    /\ open \subseteq Convs
    /\ cancelled \in [Convs -> BOOLEAN]
    /\ incoming \in [Convs -> Seq(Message)]
    /\ \A c \in Convs : Len(incoming[c]) <= MaxIncoming
    /\ index \in [Convs -> [{"response", "reply"} -> [Messages -> -1..MaxIncoming]]]
    /\ table \in [Convs -> [Tables -> [Messages -> Waits \cup {None}]]]
    /\ custom \in [Convs -> SUBSET Waits]
    /\ lastRead \in [Convs -> -1..MaxMessages]

ChatTypes ==
    /\ shared \in BOOLEAN
    /\ last \in Ids
    /\ sent \subseteq 1..last
    /\ disturbed \in BOOLEAN

WaitTypes == wait \in [Waits -> Wait]
FlightTypes == flight \in [Updates -> Flight]

LEMMA TypeParts == TypeOK <=> ConvTypes /\ ChatTypes /\ WaitTypes /\ FlightTypes
BY DEF TypeOK, ConvTypes, ChatTypes, WaitTypes, FlightTypes

LEMMA NotYetType ==
    /\ NotYet \in Flight /\ NotYet.at = "none" /\ NotYet.changed = FALSE
    /\ NotYet.todo = {} /\ NotYet.checks = {} /\ NotYet.update = NoUpdate
    /\ NoUpdate.kind = "none"
<1>1. 0 \in 0..Cardinality(Convs)
  BY ConvsAssumption, FS_CardinalityType
<1>2. NoUpdate \in Update
  BY DEF NoUpdate, Update, Ids
<1> QED
  BY <1>1, <1>2 DEF NotYet, Flight, NoUpdate

LEMMA OverFacts ==
    ASSUME FlightTypes, NEW u \in Updates, NEW end \in {"handled", "broken"}, Over(u, end)
    PROVE  /\ FlightTypes'
           /\ flight'[u].at = end /\ flight'[u].update = NoUpdate
           /\ flight'[u].todo = {} /\ flight'[u].changed = FALSE
           /\ \A v \in Updates : v # u => flight'[v] = flight[v]
<1> DEFINE r == [NotYet EXCEPT !.at = end]
<1>1. r \in Flight /\ r.at = end /\ r.update = NoUpdate /\ r.todo = {} /\ r.changed = FALSE
  BY NotYetType DEF Flight
<1>2. flight' = [flight EXCEPT ![u] = r]
  BY DEF Over
<1> HIDE DEF r
<1> QED
  BY <1>1, <1>2 DEF FlightTypes

LEMMA ContinuesFacts ==
    ASSUME FlightTypes, ConvTypes, NEW u \in Updates, NEW c \in Convs, Continues(u, c)
    PROVE  /\ FlightTypes'
           /\ flight'[u].at = IF custom[c] = {} THEN "running" ELSE "waiting"
           /\ flight'[u].update = flight[u].update
           /\ flight'[u].todo = flight[u].todo \ {c}
           /\ flight'[u].changed = flight[u].changed
           /\ flight'[u].size = flight[u].size
           /\ \A v \in Updates : v # u => flight'[v] = flight[v]
<1> DEFINE r == [flight[u] EXCEPT
                   !.todo = flight[u].todo \ {c}, !.conv = c, !.checks = custom[c],
                   !.at = IF custom[c] = {} THEN "running" ELSE "waiting"]
<1>1. flight[u] \in Flight /\ custom[c] \in SUBSET Waits
  BY DEF FlightTypes, ConvTypes
<1>2. /\ r \in Flight
      /\ r.at = IF custom[c] = {} THEN "running" ELSE "waiting"
      /\ r.update = flight[u].update /\ r.todo = flight[u].todo \ {c}
      /\ r.changed = flight[u].changed /\ r.size = flight[u].size
  BY <1>1 DEF Flight
<1>3. flight' = [flight EXCEPT ![u] = r]
  BY DEF Continues
<1> HIDE DEF r
<1> QED
  BY <1>2, <1>3 DEF FlightTypes

LEMMA ChecksOnFacts ==
    ASSUME FlightTypes, NEW u \in Updates, NEW w \in Waits, ChecksOn(u, w)
    PROVE  /\ FlightTypes'
           /\ flight'[u].at \in {"running", "waiting"}
           /\ flight'[u].update = flight[u].update
           /\ flight'[u].todo = flight[u].todo
           /\ flight'[u].changed = flight[u].changed
           /\ flight'[u].size = flight[u].size
           /\ \A v \in Updates : v # u => flight'[v] = flight[v]
<1> DEFINE r == [flight[u] EXCEPT
                   !.checks = flight[u].checks \ {w},
                   !.at = IF flight[u].checks = {w} THEN "running" ELSE "waiting"]
<1>1. flight[u] \in Flight
  BY DEF FlightTypes
<1>2. /\ r \in Flight /\ r.at \in {"running", "waiting"}
      /\ r.update = flight[u].update /\ r.todo = flight[u].todo
      /\ r.changed = flight[u].changed /\ r.size = flight[u].size
  BY <1>1 DEF Flight
<1>3. flight' = [flight EXCEPT ![u] = r]
  BY DEF ChecksOn
<1> HIDE DEF r
<1> QED
  BY <1>2, <1>3 DEF FlightTypes

LEMMA StirredFacts ==
    ASSUME FlightTypes, Stirred
    PROVE  /\ FlightTypes'
           /\ \A u \in Updates : /\ flight'[u].at = flight[u].at
                                 /\ flight'[u].update = flight[u].update
                                 /\ flight'[u].todo = flight[u].todo
                                 /\ flight[u].at # "waiting" =>
                                       flight'[u].changed = flight[u].changed
<1> DEFINE r(u) == [flight[u] EXCEPT
                      !.changed = flight[u].changed \/ flight[u].at = "waiting"]
<1>1. ASSUME NEW u \in Updates
      PROVE  /\ r(u) \in Flight /\ r(u).at = flight[u].at
             /\ r(u).update = flight[u].update /\ r(u).todo = flight[u].todo
             /\ flight[u].at # "waiting" => r(u).changed = flight[u].changed
  <2>1. flight[u] \in Flight
    BY DEF FlightTypes
  <2> DEFINE b == flight[u].changed \/ flight[u].at = "waiting"
  <2>2. b \in BOOLEAN /\ flight[u].changed \in BOOLEAN
    BY <2>1 DEF Flight
  <2>3. flight[u].at # "waiting" => b = flight[u].changed
    BY <2>2
  <2> HIDE DEF b
  <2>4. [flight[u] EXCEPT !.changed = b] \in Flight
    BY <2>1, <2>2 DEF Flight
  <2>5. /\ [flight[u] EXCEPT !.changed = b].at = flight[u].at
        /\ [flight[u] EXCEPT !.changed = b].update = flight[u].update
        /\ [flight[u] EXCEPT !.changed = b].todo = flight[u].todo
        /\ [flight[u] EXCEPT !.changed = b].changed = b
    BY <2>1 DEF Flight
  <2> QED
    BY <2>3, <2>4, <2>5 DEF b
<1>2. flight' = [u \in Updates |-> r(u)]
  BY DEF Stirred
<1> HIDE DEF r
<1> QED
  BY <1>1, <1>2 DEF FlightTypes

-----------------------------------------------------------------------------
(* The invariant.                                                           *)

(* What is in a dict belongs there.                                         *)
EntriesOK ==
    \A c \in Convs : \A k \in Tables : \A t \in Messages :
        table[c][k][t] # None =>
            /\ wait[table[c][k][t]].conv = c
            /\ wait[table[c][k][t]].kind = k
            /\ wait[table[c][k][t]].target = t

(* The custom events of a conversation, and the waits for them.             *)
EventsOK ==
    /\ \A c \in Convs : \A w \in custom[c] : wait[w].conv = c /\ wait[w].kind = "event"
    /\ \A w \in Waits : wait[w].kind = "event" /\ wait[w].at = "pending" =>
          w \in custom[wait[w].conv]

WaitsOK ==
    \A w \in Waits :
        /\ wait[w].at = "free" => wait[w].conv = None /\ wait[w].kind = "none"
        /\ wait[w].at # "free" => wait[w].conv \in Convs /\ wait[w].kind \in Tables \cup {"event"}
        /\ wait[w].kind \in Tables => wait[w].target \in Messages

(* NoneLeft, of every conversation that is not open.                        *)
LeftOK ==
    \A c \in Convs : c \notin open =>
        \A w \in Waits : wait[w].conv = c /\ wait[w].at = "pending" =>
            \/ wait[w].kind = "read"
            \/ wait[w].kind # "event" /\ table[c][wait[w].kind][wait[w].target] # w

(* A conversation that was not entered yet has no entries.                  *)
FreshOK ==
    \A c \in Convs : c \notin open /\ ~cancelled[c] =>
        \A k \in Tables : \A t \in Messages : table[c][k][t] = None

(* As long as nothing disturbs the conversations, the entries of those that *)
(* are open are alive and every iteration goes through.                     *)
Calm == ~disturbed /\ \A w \in Waits : wait[w].kind # "event"

Serene ==
    /\ \A c \in open : ~cancelled[c]
    /\ \A c \in open : \A k \in Tables : \A t \in Messages :
          table[c][k][t] # None => Live(table[c][k][t])
    /\ \A u \in Updates :
          /\ flight[u].at \notin {"waiting", "broken"}
          /\ ~flight[u].changed
          /\ flight[u].at = "running" => flight[u].todo \subseteq open

CalmOK == Calm => Serene

WaitPart == EntriesOK /\ EventsOK /\ WaitsOK
IInv == TypeOK /\ UpdatesOK /\ WaitPart /\ LeftOK /\ FreshOK /\ CalmOK

-----------------------------------------------------------------------------
(* Steps that end waits and take entries out.                               *)

Same ==
    /\ WaitTypes'
    /\ \A w \in Waits :
          /\ wait'[w].conv = wait[w].conv
          /\ wait'[w].kind = wait[w].kind
          /\ wait'[w].target = wait[w].target
          /\ wait'[w].at = wait[w].at \/ (Live(w) /\ wait'[w].at \in Ends)

Fewer ==
    \A c \in Convs : \A k \in Tables : \A t \in Messages :
        table'[c][k][t] = table[c][k][t] \/ table'[c][k][t] = None

FewerEvents ==
    \A c \in Convs : \A w \in Waits :
        /\ w \in custom'[c] => w \in custom[c]
        /\ w \in custom[c] /\ wait'[w].at = "pending" => w \in custom'[c]

LEMMA EndSame ==
    ASSUME WaitTypes, NEW S, NEW end \in Ends, NEW got \in Nat, wait' = End(S, end, got)
    PROVE  /\ Same
           /\ \A w \in Waits : w \in S /\ Live(w) => wait'[w].at = end
           /\ \A w \in Waits : w \notin S => wait'[w] = wait[w]
<1>1. ASSUME NEW r \in Wait
      PROVE  /\ [r EXCEPT !.at = end, !.got = got] \in Wait
             /\ [r EXCEPT !.at = end, !.got = got].at = end
             /\ [r EXCEPT !.at = end, !.got = got].conv = r.conv
             /\ [r EXCEPT !.at = end, !.got = got].kind = r.kind
             /\ [r EXCEPT !.at = end, !.got = got].target = r.target
  BY DEF Wait
<1>2. wait' = [w \in Waits |-> IF w \in S /\ Live(w)
                               THEN [wait[w] EXCEPT !.at = end, !.got = got] ELSE wait[w]]
  BY DEF End
<1>3. \A w \in Waits : wait[w] \in Wait
  BY DEF WaitTypes
<1>4. ASSUME NEW w \in Waits
      PROVE  /\ wait'[w] \in Wait
             /\ wait'[w].conv = wait[w].conv
             /\ wait'[w].kind = wait[w].kind
             /\ wait'[w].target = wait[w].target
             /\ wait'[w].at = wait[w].at \/ (Live(w) /\ wait'[w].at \in Ends)
             /\ w \in S /\ Live(w) => wait'[w].at = end
             /\ w \notin S => wait'[w] = wait[w]
  <2>1. CASE w \in S /\ Live(w)
    <3>1. wait'[w] = [wait[w] EXCEPT !.at = end, !.got = got]
      BY <1>2, <2>1
    <3> DEFINE e == [wait[w] EXCEPT !.at = end, !.got = got]
    <3>2. /\ e \in Wait /\ e.at = end /\ e.conv = wait[w].conv
          /\ e.kind = wait[w].kind /\ e.target = wait[w].target
      BY <1>1, <1>3
    <3>3. wait'[w] = e
      BY <3>1
    <3> HIDE DEF e
    <3> QED
      BY <2>1, <3>2, <3>3
  <2>2. CASE ~(w \in S /\ Live(w))
    <3>1. wait'[w] = wait[w]
      BY <1>2, <2>2
    <3> QED
      BY <1>3, <2>2, <3>1
  <2> QED
    BY <2>1, <2>2
<1>5. wait' \in [Waits -> Wait]
  BY <1>2, <1>4
<1> QED
  BY <1>4, <1>5 DEF Same, WaitTypes

LEMMA StillSame == ASSUME WaitTypes, UNCHANGED wait PROVE Same
BY DEF Same, WaitTypes

LEMMA SameWaits ==
    ASSUME ConvTypes, WaitTypes, WaitPart, ConvTypes', Same, Fewer, FewerEvents
    PROVE  WaitPart'
<1>1. EntriesOK'
  <2> SUFFICES ASSUME NEW c \in Convs, NEW k \in Tables, NEW t \in Messages,
                      table'[c][k][t] # None
               PROVE  /\ wait'[table'[c][k][t]].conv = c
                      /\ wait'[table'[c][k][t]].kind = k
                      /\ wait'[table'[c][k][t]].target = t
    BY DEF EntriesOK
  <2>1. table'[c][k][t] = table[c][k][t]
    BY DEF Fewer
  <2>2. table[c][k][t] \in Waits
    BY <2>1 DEF ConvTypes
  <2> QED
    BY <2>1, <2>2 DEF Same, WaitPart, EntriesOK
<1>2. EventsOK'
  <2>1. ASSUME NEW c \in Convs, NEW w \in custom'[c]
        PROVE  wait'[w].conv = c /\ wait'[w].kind = "event"
    <3>1. w \in Waits
      BY DEF ConvTypes
    <3> QED
      BY <3>1 DEF FewerEvents, Same, WaitPart, EventsOK
  <2>2. ASSUME NEW w \in Waits, wait'[w].kind = "event", wait'[w].at = "pending"
        PROVE  w \in custom'[wait'[w].conv]
    <3>1. wait[w].at = "pending" /\ wait[w].kind = "event" /\ wait'[w].conv = wait[w].conv
      BY <2>2 DEF Same, Ends
    <3>2. wait[w].conv \in Convs
      BY <3>1 DEF WaitPart, WaitsOK
    <3>3. w \in custom[wait[w].conv]
      BY <3>1 DEF WaitPart, EventsOK
    <3> QED
      BY <2>2, <3>1, <3>2, <3>3 DEF FewerEvents
  <2> QED
    BY <2>1, <2>2 DEF EventsOK
<1>3. WaitsOK'
  <2> SUFFICES ASSUME NEW w \in Waits
               PROVE  /\ wait'[w].at = "free" => wait'[w].conv = None /\ wait'[w].kind = "none"
                      /\ wait'[w].at # "free" =>
                            wait'[w].conv \in Convs /\ wait'[w].kind \in Tables \cup {"event"}
                      /\ wait'[w].kind \in Tables => wait'[w].target \in Messages
    BY DEF WaitsOK
  <2>1. wait'[w].at = "free" <=> wait[w].at = "free"
    BY DEF Same, Ends, Live
  <2> QED
    BY <2>1 DEF Same, WaitPart, WaitsOK
<1> QED
  BY <1>1, <1>2, <1>3 DEF WaitPart

LEMMA SameLeft ==
    ASSUME WaitPart, LeftOK, Same, Fewer, open \subseteq open', NoneAssumption
    PROVE  LeftOK'
<1> SUFFICES ASSUME NEW c \in Convs, c \notin open', NEW w \in Waits,
                    wait'[w].conv = c, wait'[w].at = "pending"
             PROVE  \/ wait'[w].kind = "read"
                    \/ /\ wait'[w].kind # "event"
                       /\ table'[c][wait'[w].kind][wait'[w].target] # w
  BY DEF LeftOK
<1>1. /\ wait[w].at = "pending" /\ wait[w].conv = c
      /\ wait'[w].kind = wait[w].kind /\ wait'[w].target = wait[w].target
  BY DEF Same, Ends
<1>2. \/ wait[w].kind = "read"
      \/ wait[w].kind # "event" /\ table[c][wait[w].kind][wait[w].target] # w
  BY <1>1 DEF LeftOK
<1>3. CASE wait[w].kind = "read"
  BY <1>1, <1>3
<1>4. CASE wait[w].kind # "event" /\ table[c][wait[w].kind][wait[w].target] # w
  <2>1. wait[w].kind \in Tables /\ wait[w].target \in Messages
    BY <1>1, <1>4 DEF WaitPart, WaitsOK
  <2>2. w # None
    BY NoneAssumption
  <2> QED
    BY <1>1, <1>4, <2>1, <2>2 DEF Fewer
<1> QED
  BY <1>2, <1>3, <1>4

LEMMA SameFresh ==
    ASSUME FreshOK, Fewer, open \subseteq open',
           \A c \in Convs : cancelled[c] => cancelled'[c]
    PROVE  FreshOK'
BY DEF FreshOK, Fewer

(* What was not calm does not become calm.                                  *)
LEMMA SameCalm ==
    ASSUME Same, disturbed \in BOOLEAN, disturbed => disturbed', Calm'
    PROVE  Calm
BY DEF Same, Calm

-----------------------------------------------------------------------------
(* The holder's steps.                                                      *)

LEMMA EnterStep == ASSUME IInv, NEW c \in Convs, Enter(c) PROVE IInv'
<1>1. ConvTypes /\ ChatTypes /\ WaitTypes /\ FlightTypes
  BY TypeParts DEF IInv
<1>2. ConvTypes' /\ ChatTypes' /\ WaitTypes'
  BY <1>1 DEF ConvTypes, ChatTypes, WaitTypes, Enter
<1>3. /\ FlightTypes'
      /\ \A u \in Updates : /\ flight'[u].at = flight[u].at
                            /\ flight'[u].update = flight[u].update
                            /\ flight'[u].todo = flight[u].todo
                            /\ flight[u].at # "waiting" =>
                                  flight'[u].changed = flight[u].changed
  BY <1>1, StirredFacts DEF Enter
<1>4. Same /\ Fewer /\ FewerEvents
  BY <1>1, StillSame DEF Enter, Fewer, FewerEvents
<1>5. WaitPart' /\ LeftOK'
  BY <1>1, <1>2, <1>4, SameWaits, SameLeft, NoneAssumption DEF IInv, Enter
<1>6. UpdatesOK' /\ FreshOK'
  BY <1>3, <1>4, SameFresh DEF IInv, UpdatesOK, Enter
<1>7. CalmOK'
  <2> SUFFICES ASSUME Calm' PROVE Serene'
    BY DEF CalmOK
  <2>1. Serene
    BY <1>1, <1>4, SameCalm DEF IInv, CalmOK, Enter, ChatTypes
  <2>2. \A k \in Tables : \A t \in Messages : table[c][k][t] # None => Live(table[c][k][t])
    BY DEF Enter, IInv, FreshOK
  <2> QED
    BY <1>3, <2>1, <2>2 DEF Serene, Enter, Quiet, Live
<1> QED
  BY <1>2, <1>3, <1>5, <1>6, <1>7, TypeParts DEF IInv, TypeOK, ConvTypes, ChatTypes, WaitTypes, FlightTypes
LEMMA CancelledWaits ==
    ASSUME ConvTypes, WaitTypes, WaitPart, NEW c \in Convs, wait' = End(Futures(c), "cancelled", 0)
    PROVE  /\ Same
           /\ \A w \in Waits : w \notin Futures(c) => wait'[w] = wait[w]
           /\ \A w \in Waits : wait[w].conv = c /\ wait'[w].at = "pending" =>
                 \/ wait[w].kind = "read"
                 \/ wait[w].kind # "event" /\ table[c][wait[w].kind][wait[w].target] # w
<1>1. /\ Same
      /\ \A w \in Waits : w \in Futures(c) /\ Live(w) => wait'[w].at = "cancelled"
      /\ \A w \in Waits : w \notin Futures(c) => wait'[w] = wait[w]
  BY EndSame DEF Ends
<1>2. ASSUME NEW w \in Waits, wait[w].conv = c, wait'[w].at = "pending"
      PROVE  \/ wait[w].kind = "read"
             \/ wait[w].kind # "event" /\ table[c][wait[w].kind][wait[w].target] # w
  <2>1. wait[w].at = "pending"
    BY <1>1, <1>2 DEF Same, Ends
  <2>2. w \notin Futures(c)
    BY <1>1, <1>2, <2>1 DEF Live
  <2>3. wait[w].kind \in Tables \cup {"event"}
    BY <2>1 DEF WaitPart, WaitsOK
  <2>4. wait[w].kind # "event"
    BY <1>2, <2>1, <2>2 DEF WaitPart, EventsOK, Futures
  <2>5. ASSUME wait[w].kind \in {"response", "reply"}
        PROVE  table[c][wait[w].kind][wait[w].target] # w
    <3>1. wait[w].target \in Messages
      BY <2>5 DEF WaitPart, WaitsOK, Tables
    <3>2. w # None
      BY NoneAssumption
    <3> QED
      BY <2>2, <2>5, <3>1, <3>2 DEF Futures, In
  <2> QED
    BY <2>3, <2>4, <2>5 DEF Tables
<1> QED
  BY <1>1, <1>2

LEMMA ExitStep == ASSUME IInv, NEW c \in Convs, Exit(c) PROVE IInv'
<1>1. ConvTypes /\ ChatTypes /\ WaitTypes /\ FlightTypes /\ WaitPart
  BY TypeParts DEF IInv
<1>2. /\ Same
      /\ \A w \in Waits : w \notin Futures(c) => wait'[w] = wait[w]
      /\ \A w \in Waits : wait[w].conv = c /\ wait'[w].at = "pending" =>
            \/ wait[w].kind = "read"
            \/ wait[w].kind # "event" /\ table[c][wait[w].kind][wait[w].target] # w
  BY <1>1, CancelledWaits DEF Exit, CancelAll
<1>3. ConvTypes' /\ ChatTypes'
  BY <1>1 DEF ConvTypes, ChatTypes, Exit, CancelAll
<1>4. /\ FlightTypes'
      /\ \A u \in Updates : /\ flight'[u].at = flight[u].at
                            /\ flight'[u].update = flight[u].update
                            /\ flight'[u].todo = flight[u].todo
                            /\ flight[u].at # "waiting" =>
                                  flight'[u].changed = flight[u].changed
  BY <1>1, StirredFacts DEF Exit
<1>5. Fewer /\ FewerEvents
  BY <1>1 DEF Exit, Fewer, FewerEvents
<1>6. WaitPart'
  BY <1>1, <1>2, <1>3, <1>5, SameWaits
<1>7. LeftOK'
  <2> SUFFICES ASSUME NEW d \in Convs, d \notin open', NEW w \in Waits,
                      wait'[w].conv = d, wait'[w].at = "pending"
               PROVE  \/ wait'[w].kind = "read"
                      \/ /\ wait'[w].kind # "event"
                         /\ table'[d][wait'[w].kind][wait'[w].target] # w
    BY DEF LeftOK
  <2>1. /\ wait[w].at = "pending" /\ wait[w].conv = d
        /\ wait'[w].kind = wait[w].kind /\ wait'[w].target = wait[w].target
    BY <1>2 DEF Same, Ends
  <2>2. table' = table
    BY DEF Exit
  <2>3. CASE d = c
    BY <1>2, <2>1, <2>2, <2>3
  <2>4. CASE d # c
    BY <2>1, <2>2, <2>4 DEF IInv, LeftOK, Exit
  <2> QED
    BY <2>3, <2>4
<1>8. UpdatesOK'
  BY <1>4 DEF IInv, UpdatesOK
<1>9. FreshOK'
  BY <1>1 DEF IInv, FreshOK, Exit, CancelAll, ConvTypes
<1>10. CalmOK'
  <2> SUFFICES ASSUME Calm' PROVE Serene'
    BY DEF CalmOK
  <2>1. Serene
    BY <1>1, <1>2, SameCalm DEF IInv, CalmOK, Exit, ChatTypes
  <2>2. \A d \in open' : ~cancelled'[d]
    BY <1>1, <2>1 DEF Serene, Exit, CancelAll, ConvTypes
  <2>3. ASSUME NEW d \in open', NEW k \in Tables, NEW t \in Messages, table'[d][k][t] # None
        PROVE  Live(table[d][k][t])'
    <3> DEFINE x == table[d][k][t]
    <3>1. d \in open /\ d # c /\ d \in Convs /\ table' = table
      BY <1>1 DEF Exit, ConvTypes
    <3>2. x \in Waits /\ wait[x].conv = d /\ wait[x].kind = k /\ Live(x)
      BY <1>1, <2>1, <2>3, <3>1 DEF ConvTypes, WaitPart, EntriesOK, Serene
    <3>3. x \notin Futures(c)
      <4>1. ASSUME NEW w \in Futures(c) PROVE w \in Waits /\ wait[w].conv = c
        BY <1>1 DEF Futures, In, ConvTypes, WaitPart, EntriesOK, EventsOK, Tables
      <4> QED
        BY <3>1, <3>2, <4>1
    <3>4. wait'[x] = wait[x]
      BY <1>2, <3>2, <3>3
    <3> QED
      BY <3>1, <3>2, <3>4 DEF Live
  <2> QED
    BY <1>4, <2>1, <2>2, <2>3 DEF Serene, Exit, Quiet
<1> QED
  BY <1>2, <1>3, <1>4, <1>6, <1>7, <1>8, <1>9, <1>10, TypeParts
  DEF IInv, Same, TypeOK, ConvTypes, ChatTypes, WaitTypes, FlightTypes

LEMMA CancelStep == ASSUME IInv, NEW c \in Convs, Cancel(c) PROVE IInv'
<1>1. ConvTypes /\ ChatTypes /\ WaitTypes /\ FlightTypes /\ WaitPart
  BY TypeParts DEF IInv
<1>2. Same
  BY <1>1, CancelledWaits DEF Cancel, CancelAll
<1>3. ConvTypes' /\ ChatTypes' /\ FlightTypes'
  BY <1>1 DEF ConvTypes, ChatTypes, FlightTypes, Cancel, CancelAll
<1>4. Fewer /\ FewerEvents /\ open \subseteq open'
  BY <1>1 DEF Cancel, Fewer, FewerEvents
<1>5. WaitPart' /\ LeftOK'
  BY <1>1, <1>2, <1>3, <1>4, SameWaits, SameLeft, NoneAssumption DEF IInv
<1>6. UpdatesOK'
  BY DEF IInv, UpdatesOK, Cancel
<1>7. FreshOK'
  BY <1>1, <1>4, SameFresh DEF IInv, Cancel, CancelAll, ConvTypes
<1>8. CalmOK'
  BY DEF CalmOK, Calm, Cancel
<1> QED
  BY <1>2, <1>3, <1>5, <1>6, <1>7, <1>8, TypeParts
  DEF IInv, Same, TypeOK, ConvTypes, ChatTypes, WaitTypes, FlightTypes
LEMMA SendMessageStep == ASSUME IInv, SendMessage PROVE IInv'
<1>1. ConvTypes /\ ChatTypes /\ WaitTypes /\ FlightTypes
  BY TypeParts DEF IInv
<1>2. ConvTypes' /\ WaitTypes' /\ FlightTypes'
  BY <1>1 DEF ConvTypes, WaitTypes, FlightTypes, SendMessage, convVars
<1>3. ChatTypes'
  BY <1>1, BoundsAssumption DEF ChatTypes, SendMessage, Ids, Messages
<1>4. Same /\ Fewer /\ FewerEvents /\ open \subseteq open'
  BY <1>1, StillSame DEF SendMessage, convVars, Fewer, FewerEvents
<1>5. WaitPart' /\ LeftOK'
  BY <1>1, <1>2, <1>4, SameWaits, SameLeft, NoneAssumption DEF IInv
<1>6. UpdatesOK' /\ FreshOK' /\ CalmOK'
  BY DEF IInv, UpdatesOK, FreshOK, CalmOK, Calm, Serene, Live, SendMessage, convVars
<1> QED
  BY <1>2, <1>3, <1>5, <1>6
  DEF IInv, TypeOK, ConvTypes, ChatTypes, WaitTypes, FlightTypes

LEMMA WaitEventStep ==
    ASSUME IInv, NEW w \in Waits, NEW c \in Convs, WaitEvent(w, c)
    PROVE  IInv'
<1> DEFINE r == [at |-> "pending", conv |-> c, kind |-> "event", target |-> 0, got |-> 0]
<1>1. ConvTypes /\ ChatTypes /\ WaitTypes /\ FlightTypes /\ WaitPart
  BY TypeParts DEF IInv
<1>2. r \in Wait
  BY DEF Wait, Ids
<1>3. /\ wait' = [wait EXCEPT ![w] = r]
      /\ custom' = [custom EXCEPT ![c] = custom[c] \cup {w}]
      /\ wait[w].at = "free"
  BY DEF WaitEvent
<1>4. r.at = "pending" /\ r.conv = c /\ r.kind = "event"
  OBVIOUS
<1> HIDE DEF r
<1>5. WaitTypes' /\ ConvTypes' /\ ChatTypes' /\ FlightTypes'
  BY <1>1, <1>2, <1>3 DEF WaitTypes, ConvTypes, ChatTypes, FlightTypes, WaitEvent
<1>6. wait'[w] = r /\ \A v \in Waits : v # w => wait'[v] = wait[v]
  BY <1>1, <1>3 DEF WaitTypes
<1>7. wait[w].conv = None /\ wait[w].kind = "none" /\ None \notin Convs /\ None \notin Waits
  BY <1>1, <1>3, NoneAssumption DEF WaitPart, WaitsOK
<1>8. EntriesOK'
  <2> SUFFICES ASSUME NEW d \in Convs, NEW k \in Tables, NEW t \in Messages,
                      table[d][k][t] # None
               PROVE  /\ wait'[table[d][k][t]].conv = d
                      /\ wait'[table[d][k][t]].kind = k
                      /\ wait'[table[d][k][t]].target = t
    BY DEF EntriesOK, WaitEvent
  <2>1. table[d][k][t] \in Waits
    BY <1>1 DEF ConvTypes
  <2>2. table[d][k][t] # w
    BY <1>1, <1>7 DEF WaitPart, EntriesOK
  <2> QED
    BY <1>1, <1>6, <2>1, <2>2 DEF WaitPart, EntriesOK
<1>9. EventsOK'
  <2>1. ASSUME NEW d \in Convs, NEW v \in custom'[d]
        PROVE  wait'[v].conv = d /\ wait'[v].kind = "event"
    <3>1. CASE v = w
      <4>1. d = c
        BY <1>1, <1>3, <1>7, <2>1, <3>1 DEF ConvTypes, WaitPart, EventsOK
      <4> QED
        BY <1>4, <1>6, <3>1, <4>1
    <3>2. CASE v # w
      <4>1. v \in custom[d] /\ v \in Waits
        BY <1>1, <1>3, <3>2 DEF ConvTypes
      <4> QED
        BY <1>1, <1>6, <3>2, <4>1 DEF WaitPart, EventsOK
    <3> QED
      BY <3>1, <3>2
  <2>2. ASSUME NEW v \in Waits, wait'[v].kind = "event", wait'[v].at = "pending"
        PROVE  v \in custom'[wait'[v].conv]
    <3>1. CASE v = w
      BY <1>1, <1>3, <1>4, <1>6, <3>1 DEF ConvTypes
    <3>2. CASE v # w
      <4>1. v \in custom[wait[v].conv] /\ wait[v].conv \in Convs
        BY <1>1, <1>6, <2>2, <3>2 DEF WaitPart, EventsOK, WaitsOK
      <4> QED
        BY <1>1, <1>3, <1>6, <3>2, <4>1 DEF ConvTypes
    <3> QED
      BY <3>1, <3>2
  <2> QED
    BY <2>1, <2>2 DEF EventsOK
<1>10. WaitsOK'
  <2> SUFFICES ASSUME NEW v \in Waits
               PROVE  /\ wait'[v].at = "free" => wait'[v].conv = None /\ wait'[v].kind = "none"
                      /\ wait'[v].at # "free" =>
                            wait'[v].conv \in Convs /\ wait'[v].kind \in Tables \cup {"event"}
                      /\ wait'[v].kind \in Tables => wait'[v].target \in Messages
    BY DEF WaitsOK
  <2>1. CASE v = w
    BY <1>4, <1>6, <2>1 DEF Tables
  <2>2. CASE v # w
    BY <1>1, <1>6, <2>2 DEF WaitPart, WaitsOK
  <2> QED
    BY <2>1, <2>2
<1>11. LeftOK'
  <2> SUFFICES ASSUME NEW d \in Convs, d \notin open, NEW v \in Waits,
                      wait'[v].conv = d, wait'[v].at = "pending"
               PROVE  \/ wait'[v].kind = "read"
                      \/ /\ wait'[v].kind # "event"
                         /\ table[d][wait'[v].kind][wait'[v].target] # v
    BY DEF LeftOK, WaitEvent
  <2>1. v # w
    BY <1>4, <1>6 DEF WaitEvent
  <2> QED
    BY <1>6, <2>1 DEF IInv, LeftOK
<1>12. UpdatesOK' /\ FreshOK'
  BY DEF IInv, UpdatesOK, FreshOK, WaitEvent
<1>13. CalmOK'
  BY <1>4, <1>6 DEF CalmOK, Calm
<1> QED
  BY <1>5, <1>8, <1>9, <1>10, <1>11, <1>12, <1>13
  DEF IInv, WaitPart, TypeOK, ConvTypes, ChatTypes, WaitTypes, FlightTypes
(* What get_response, get_reply and wait_read have in common.               *)
Asks(w, c, k, t, r) ==
    /\ c \in open
    /\ wait[w].at = "free"
    /\ wait' = [wait EXCEPT ![w] = r]
    /\ r.conv = c /\ r.kind = k /\ r.target = t
    /\ \/ r.at = "result" /\ table' = table
       \/ r.at \in {"pending", "unwatched"} /\ table' = [table EXCEPT ![c][k][t] = w]
    /\ UNCHANGED <<open, cancelled, custom, flight, disturbed>>

LEMMA AsksStep ==
    ASSUME IInv, NEW w \in Waits, NEW c \in Convs, NEW k \in Tables, NEW t \in Messages,
           NEW r \in Wait, Asks(w, c, k, t, r)
    PROVE  /\ WaitTypes' /\ FlightTypes'
           /\ table' \in [Convs -> [Tables -> [Messages -> Waits \cup {None}]]]
           /\ UpdatesOK' /\ WaitPart' /\ LeftOK' /\ FreshOK' /\ CalmOK'
<1>1. ConvTypes /\ ChatTypes /\ WaitTypes /\ FlightTypes /\ WaitPart
  BY TypeParts DEF IInv
<1>2. /\ r.conv = c /\ r.kind = k /\ r.target = t /\ c \in open
      /\ r.at \in {"result", "pending", "unwatched"}
      /\ wait[w].at = "free"
      /\ UNCHANGED <<open, cancelled, custom, flight, disturbed>>
  BY DEF Asks
<1>3. WaitTypes' /\ wait'[w] = r /\ \A v \in Waits : v # w => wait'[v] = wait[v]
  BY <1>1 DEF WaitTypes, Asks
<1>4. wait[w].conv = None /\ wait[w].kind = "none" /\ None \notin Convs /\ None \notin Waits
  BY <1>1, <1>2, NoneAssumption DEF WaitPart, WaitsOK
<1>5. /\ table' \in [Convs -> [Tables -> [Messages -> Waits \cup {None}]]]
      /\ \/ table'[c][k][t] = w /\ r.at \in {"pending", "unwatched"}
         \/ table'[c][k][t] = table[c][k][t]
      /\ \A d \in Convs : \A j \in Tables : \A s \in Messages :
            ~(d = c /\ j = k /\ s = t) => table'[d][j][s] = table[d][j][s]
  <2>1. CASE table' = table
    BY <1>1, <2>1 DEF ConvTypes
  <2>2. CASE r.at \in {"pending", "unwatched"} /\ table' = [table EXCEPT ![c][k][t] = w]
    <3>1. /\ table' \in [Convs -> [Tables -> [Messages -> Waits \cup {None}]]]
          /\ table'[c][k][t] = w
          /\ \A d \in Convs : \A j \in Tables : \A s \in Messages :
                ~(d = c /\ j = k /\ s = t) => table'[d][j][s] = table[d][j][s]
      BY <1>1, <2>2 DEF ConvTypes
    <3> QED
      BY <2>2, <3>1
  <2> QED
    BY <2>1, <2>2 DEF Asks
<1>6. ASSUME NEW d \in Convs, NEW j \in Tables, NEW s \in Messages, table'[d][j][s] # None
      PROVE  \/ /\ d = c /\ j = k /\ s = t /\ table'[d][j][s] = w
                /\ r.at \in {"pending", "unwatched"}
             \/ /\ table'[d][j][s] = table[d][j][s] /\ table[d][j][s] \in Waits
                /\ table[d][j][s] # w /\ wait'[table[d][j][s]] = wait[table[d][j][s]]
  <2>1. \/ /\ d = c /\ j = k /\ s = t /\ table'[d][j][s] = w
           /\ r.at \in {"pending", "unwatched"}
        \/ table'[d][j][s] = table[d][j][s]
    BY <1>5
  <2>2. CASE table'[d][j][s] = table[d][j][s]
    <3>1. table[d][j][s] \in Waits /\ table[d][j][s] # w
      BY <1>1, <1>4, <1>6, <2>2 DEF ConvTypes, WaitPart, EntriesOK
    <3> QED
      BY <1>3, <2>2, <3>1
  <2> QED
    BY <2>1, <2>2
<1>7. EntriesOK'
  <2> SUFFICES ASSUME NEW d \in Convs, NEW j \in Tables, NEW s \in Messages,
                      table'[d][j][s] # None
               PROVE  /\ wait'[table'[d][j][s]].conv = d
                      /\ wait'[table'[d][j][s]].kind = j
                      /\ wait'[table'[d][j][s]].target = s
    BY DEF EntriesOK
  <2>1. CASE d = c /\ j = k /\ s = t /\ table'[d][j][s] = w
    BY <1>2, <1>3, <2>1
  <2>2. CASE /\ table'[d][j][s] = table[d][j][s] /\ table[d][j][s] \in Waits
             /\ table[d][j][s] # w /\ wait'[table[d][j][s]] = wait[table[d][j][s]]
    BY <1>1, <2>2 DEF WaitPart, EntriesOK
  <2> QED
    BY <1>6, <2>1, <2>2
<1>8. EventsOK'
  <2>1. ASSUME NEW d \in Convs, NEW v \in custom[d]
        PROVE  wait'[v].conv = d /\ wait'[v].kind = "event"
    <3>1. v \in Waits /\ v # w
      BY <1>1, <1>4 DEF ConvTypes, WaitPart, EventsOK
    <3> QED
      BY <1>1, <1>3, <3>1 DEF WaitPart, EventsOK
  <2>2. ASSUME NEW v \in Waits, wait'[v].kind = "event", wait'[v].at = "pending"
        PROVE  v \in custom[wait'[v].conv]
    <3>1. v # w
      BY <1>2, <1>3, <2>2 DEF Tables
    <3> QED
      BY <1>1, <1>3, <2>2, <3>1 DEF WaitPart, EventsOK
  <2> QED
    BY <1>2, <2>1, <2>2 DEF EventsOK
<1>9. WaitsOK'
  <2> SUFFICES ASSUME NEW v \in Waits
               PROVE  /\ wait'[v].at = "free" => wait'[v].conv = None /\ wait'[v].kind = "none"
                      /\ wait'[v].at # "free" =>
                            wait'[v].conv \in Convs /\ wait'[v].kind \in Tables \cup {"event"}
                      /\ wait'[v].kind \in Tables => wait'[v].target \in Messages
    BY DEF WaitsOK
  <2>1. CASE v = w
    BY <1>2, <1>3, <2>1
  <2>2. CASE v # w
    BY <1>1, <1>3, <2>2 DEF WaitPart, WaitsOK
  <2> QED
    BY <2>1, <2>2
<1>10. LeftOK'
  <2> SUFFICES ASSUME NEW d \in Convs, d \notin open, NEW v \in Waits,
                      wait'[v].conv = d, wait'[v].at = "pending"
               PROVE  \/ wait'[v].kind = "read"
                      \/ /\ wait'[v].kind # "event"
                         /\ table'[d][wait'[v].kind][wait'[v].target] # v
    BY <1>2 DEF LeftOK
  <2>1. v # w /\ d # c
    BY <1>2, <1>3
  <2>2. \/ wait[v].kind = "read"
        \/ wait[v].kind # "event" /\ table[d][wait[v].kind][wait[v].target] # v
    BY <1>3, <2>1 DEF IInv, LeftOK
  <2>3. wait[v].kind = "event" \/ (wait[v].kind \in Tables /\ wait[v].target \in Messages)
    BY <1>1, <1>3, <2>1 DEF WaitPart, WaitsOK
  <2> QED
    BY <1>3, <1>5, <2>1, <2>2, <2>3
<1>11. UpdatesOK' /\ FlightTypes'
  BY <1>1, <1>2 DEF IInv, UpdatesOK, FlightTypes
<1>12. FreshOK'
  <2> SUFFICES ASSUME NEW d \in Convs, d \notin open, ~cancelled[d],
                      NEW j \in Tables, NEW s \in Messages
               PROVE  table'[d][j][s] = None
    BY <1>2 DEF FreshOK
  <2>1. d # c
    BY <1>2
  <2> QED
    <3>1. table[d][j][s] = None
      BY DEF IInv, FreshOK
    <3> QED
      BY <1>5, <2>1, <3>1
<1>13. CalmOK'
  <2> SUFFICES ASSUME Calm' PROVE Serene'
    BY DEF CalmOK
  <2>1. Calm
    <3>1. ASSUME NEW v \in Waits PROVE wait[v].kind # "event"
      BY <1>3, <1>4 DEF Calm
    <3> QED
      BY <1>2, <3>1 DEF Calm
  <2>2. Serene
    BY <2>1 DEF IInv, CalmOK
  <2>3. ASSUME NEW d \in open, NEW j \in Tables, NEW s \in Messages, table'[d][j][s] # None
        PROVE  wait'[table'[d][j][s]].at \in {"pending", "unwatched"}
    <3>1. d \in Convs
      BY <1>1 DEF ConvTypes
    <3>2. CASE d = c /\ j = k /\ s = t /\ table'[d][j][s] = w /\ r.at \in {"pending", "unwatched"}
      BY <1>3, <3>2
    <3>3. CASE /\ table'[d][j][s] = table[d][j][s] /\ table[d][j][s] \in Waits
               /\ table[d][j][s] # w /\ wait'[table[d][j][s]] = wait[table[d][j][s]]
      BY <2>2, <2>3, <3>3 DEF Serene, Live
    <3> QED
      BY <1>6, <2>3, <3>1, <3>2, <3>3
  <2> QED
    BY <1>2, <2>2, <2>3 DEF Serene, Live
<1> QED
  BY <1>3, <1>5, <1>7, <1>8, <1>9, <1>10, <1>11, <1>12, <1>13 DEF WaitPart
LEMMA SentMessages == ASSUME ChatTypes, NEW t \in sent PROVE t \in Messages
<1>1. last \in 0..MaxMessages
  BY BoundsAssumption DEF ChatTypes, Ids, Messages
<1>2. t \in 1..last
  BY DEF ChatTypes
<1> QED
  BY <1>1, <1>2, BoundsAssumption DEF Messages

LEMMA Smallest ==
    ASSUME NEW S \in SUBSET Nat, S # {}
    PROVE  \E n \in S : \A x \in S : n <= x
<1> DEFINE R == OpToRel(<, Nat)
<1>1. \A x, y \in Nat : x < y => <<x, y>> \in R
  BY DEF OpToRel
<1>2. IsWellFoundedOn(R, Nat)
  BY NatLessThanWellFounded
<1> HIDE DEF R
<1>3. PICK n \in S : \A x \in S : ~(<<x, n>> \in R)
  BY <1>2, WFMin
<1>4. \A x \in S : ~(x < n)
  BY <1>1, <1>3
<1> QED
  BY <1>4

LEMMA StartAtType ==
    ASSUME ConvTypes, NEW c \in Convs, NEW t \in Messages
    PROVE  StartAt(c, t) \in 0..Len(incoming[c])
<1> DEFINE later == {i \in 1..Len(incoming[c]) : incoming[c][i].id > t}
<1>1. Len(incoming[c]) \in Nat
  BY LenProperties DEF ConvTypes
<1>2. CASE later = {}
  BY <1>1, <1>2 DEF StartAt
<1>3. CASE later # {}
  <2>1. later \in SUBSET Nat /\ later \subseteq 1..Len(incoming[c])
    BY <1>1
  <2> HIDE DEF later
  <2>2. \E i \in later : \A j \in later : i <= j
    BY <1>3, <2>1, Smallest
  <2> DEFINE i == CHOOSE x \in later : \A j \in later : x <= j
  <2>3. i \in later
    BY <2>2
  <2>4. StartAt(c, t) = i - 1
    BY <1>3 DEF StartAt, later
  <2> HIDE DEF i
  <2> QED
    BY <1>1, <2>1, <2>3, <2>4
<1> QED
  BY <1>2, <1>3

LEMMA IndexAt ==
    ASSUME ConvTypes, NEW c \in Convs, NEW k \in {"response", "reply"}, NEW t \in Messages,
           NEW i \in -1..MaxIncoming, index' = [index EXCEPT ![c][k][t] = i]
    PROVE  index' \in [Convs -> [{"response", "reply"} -> [Messages -> -1..MaxIncoming]]]
BY DEF ConvTypes

LEMMA GetMessageStep ==
    ASSUME IInv, NEW w \in Waits, NEW c \in Convs, NEW k \in {"response", "reply"},
           NEW t \in sent, GetMessage(w, c, k, t)
    PROVE  IInv'
<1> DEFINE q == Indices(k)
           i == IF index[c][q][t] = -1 THEN StartAt(c, t) ELSE index[c][q][t]
           there == i < Len(incoming[c]) /\ Meets(k, incoming[c][i + 1], t)
           r == [at |-> IF there THEN "result" ELSE Awaited(c), conv |-> c, kind |-> k,
                 target |-> t, got |-> IF there THEN i + 1 ELSE 0]
<1>1. ConvTypes /\ ChatTypes /\ WaitTypes /\ FlightTypes /\ WaitPart
  BY TypeParts DEF IInv
<1>2. t \in Messages /\ k \in Tables /\ q \in {"response", "reply"}
  <2>1. t \in Messages
    BY <1>1, SentMessages
  <2> QED
    BY <2>1 DEF Tables, Indices
<1>3. Len(incoming[c]) \in Nat /\ Len(incoming[c]) <= MaxIncoming
  BY <1>1, LenProperties DEF ConvTypes
<1>4. StartAt(c, t) \in 0..Len(incoming[c])
  BY <1>1, <1>2, StartAtType
<1>5. i \in 0..MaxIncoming
  <2>1. index[c][q][t] \in -1..MaxIncoming
    BY <1>1, <1>2 DEF ConvTypes
  <2> QED
    BY <1>3, <1>4, <2>1, IncomingAssumption
<1>6. there => i + 1 \in 1..MaxIncoming
  BY <1>3, <1>5, IncomingAssumption
<1>7. /\ index' = [index EXCEPT ![c][q][t] = IF there THEN i + 1 ELSE i]
      /\ wait' = [wait EXCEPT ![w] = r]
      /\ table' = IF there THEN table ELSE [table EXCEPT ![c][k][t] = w]
      /\ c \in open /\ wait[w].at = "free"
      /\ UNCHANGED <<shared, last, sent, open, cancelled, incoming, custom, lastRead,
                     flight, disturbed>>
  BY DEF GetMessage
<1> HIDE DEF i, q
<1>8. (IF there THEN i + 1 ELSE i) \in -1..MaxIncoming
  BY <1>5, <1>6, IncomingAssumption
<1>9. index' \in [Convs -> [{"response", "reply"} -> [Messages -> -1..MaxIncoming]]]
  BY <1>1, <1>2, <1>7, <1>8, IndexAt
<1>10. (IF there THEN i + 1 ELSE 0) \in Nat
  BY <1>5
<1>11. (IF there THEN "result" ELSE Awaited(c)) \in {"result", "pending", "unwatched"}
  BY DEF Awaited
<1>12. there <=> (IF there THEN "result" ELSE Awaited(c)) = "result"
  BY DEF Awaited
<1> HIDE DEF there
<1>13. r \in Wait
  BY <1>2, <1>10, <1>11 DEF Wait, Ids, Ends, Tables
<1>14. Asks(w, c, k, t, r)
  BY <1>7, <1>11, <1>12 DEF Asks
<1> HIDE DEF r
<1>15. /\ WaitTypes' /\ FlightTypes'
       /\ table' \in [Convs -> [Tables -> [Messages -> Waits \cup {None}]]]
       /\ UpdatesOK' /\ WaitPart' /\ LeftOK' /\ FreshOK' /\ CalmOK'
  BY <1>2, <1>13, <1>14, AsksStep
<1>16. ConvTypes' /\ ChatTypes'
  BY <1>1, <1>7, <1>9, <1>15 DEF ConvTypes, ChatTypes
<1> QED
  BY <1>15, <1>16 DEF IInv, TypeOK, ConvTypes, ChatTypes, WaitTypes, FlightTypes

LEMMA WaitReadStep ==
    ASSUME IInv, NEW w \in Waits, NEW c \in Convs, NEW t \in sent, WaitRead(w, c, t)
    PROVE  IInv'
<1> DEFINE read == IF lastRead[c] = -1 THEN t - 1 ELSE lastRead[c]
           r == [at |-> Awaited(c), conv |-> c, kind |-> "read", target |-> t, got |-> 0]
<1>1. ConvTypes /\ ChatTypes /\ WaitTypes /\ FlightTypes /\ WaitPart
  BY TypeParts DEF IInv
<1>2. t \in Messages /\ "read" \in Tables
  BY <1>1, SentMessages DEF Tables
<1>3. read \in -1..MaxMessages
  <2>1. lastRead[c] \in -1..MaxMessages
    BY <1>1 DEF ConvTypes
  <2> QED
    BY <1>2, <2>1, BoundsAssumption DEF Messages
<1>4. /\ lastRead' = [lastRead EXCEPT ![c] = read]
      /\ wait' = [wait EXCEPT ![w] = r]
      /\ table' = [table EXCEPT ![c]["read"][t] = w]
      /\ c \in open /\ wait[w].at = "free"
      /\ UNCHANGED <<shared, last, sent, open, cancelled, incoming, index, custom,
                     flight, disturbed>>
  BY DEF WaitRead
<1>5. Awaited(c) \in {"pending", "unwatched"}
  BY DEF Awaited
<1>6. r \in Wait
  BY <1>2, <1>5 DEF Wait, Ids
<1>7. Asks(w, c, "read", t, r)
  BY <1>4, <1>5 DEF Asks
<1> HIDE DEF r, read
<1>8. /\ WaitTypes' /\ FlightTypes'
      /\ table' \in [Convs -> [Tables -> [Messages -> Waits \cup {None}]]]
      /\ UpdatesOK' /\ WaitPart' /\ LeftOK' /\ FreshOK' /\ CalmOK'
  BY <1>2, <1>6, <1>7, AsksStep
<1>9. ConvTypes' /\ ChatTypes'
  BY <1>1, <1>3, <1>4, <1>8 DEF ConvTypes, ChatTypes
<1> QED
  BY <1>8, <1>9 DEF IInv, TypeOK, ConvTypes, ChatTypes, WaitTypes, FlightTypes
LEMMA TimesOutStep == ASSUME IInv, NEW w \in Waits, TimesOut(w) PROVE IInv'
<1>1. ConvTypes /\ ChatTypes /\ WaitTypes /\ FlightTypes /\ WaitPart
  BY TypeParts DEF IInv
<1> DEFINE r == [wait[w] EXCEPT !.at = "cancelled"]
<1>2. wait[w] \in Wait /\ wait[w].at = "pending"
  BY <1>1 DEF WaitTypes, TimesOut
<1>3. /\ r \in Wait /\ r.at = "cancelled" /\ r.conv = wait[w].conv
      /\ r.kind = wait[w].kind /\ r.target = wait[w].target
  BY <1>2 DEF Wait, Ends
<1>4. wait' = [wait EXCEPT ![w] = r]
  BY DEF TimesOut
<1> HIDE DEF r
<1>5. wait'[w] = r /\ (\A v \in Waits : v # w => wait'[v] = wait[v]) /\ WaitTypes'
  BY <1>1, <1>3, <1>4 DEF WaitTypes
<1>6. Same
  BY <1>2, <1>3, <1>5 DEF Same, Live, Ends
<1>7. ConvTypes' /\ ChatTypes' /\ FlightTypes'
  BY <1>1 DEF ConvTypes, ChatTypes, FlightTypes, TimesOut
<1>8. Fewer /\ open \subseteq open'
  BY DEF Fewer, TimesOut
<1>9. FewerEvents
  BY <1>1, <1>3, <1>5 DEF FewerEvents, TimesOut
<1>10. WaitPart' /\ LeftOK'
  BY <1>1, <1>6, <1>7, <1>8, <1>9, SameWaits, SameLeft, NoneAssumption DEF IInv
<1>11. UpdatesOK' /\ FreshOK' /\ CalmOK'
  BY DEF IInv, UpdatesOK, FreshOK, CalmOK, Calm, TimesOut
<1> QED
  BY <1>5, <1>7, <1>10, <1>11
  DEF IInv, TypeOK, ConvTypes, ChatTypes, WaitTypes, FlightTypes

LEMMA EventAwaitedStep == ASSUME IInv, NEW w \in Waits, EventAwaited(w) PROVE IInv'
<1>1. ConvTypes /\ ChatTypes /\ WaitTypes /\ FlightTypes /\ WaitPart
  BY TypeParts DEF IInv
<1>2. Same
  BY <1>1, StillSame DEF EventAwaited
<1>3. ConvTypes' /\ ChatTypes' /\ WaitTypes' /\ FlightTypes'
  BY <1>1 DEF ConvTypes, ChatTypes, WaitTypes, FlightTypes, EventAwaited
<1>4. Fewer /\ open \subseteq open'
  BY DEF Fewer, EventAwaited
<1>5. FewerEvents
  <2>1. wait'[w].at # "pending"
    BY DEF EventAwaited, Ends
  <2> QED
    BY <1>1, <2>1 DEF FewerEvents, EventAwaited
<1>6. WaitPart' /\ LeftOK'
  BY <1>1, <1>2, <1>3, <1>4, <1>5, SameWaits, SameLeft, NoneAssumption DEF IInv
<1>7. UpdatesOK' /\ FreshOK'
  BY DEF IInv, UpdatesOK, FreshOK, EventAwaited
<1>8. CalmOK'
  BY DEF IInv, CalmOK, Calm, Serene, Live, EventAwaited
<1> QED
  BY <1>3, <1>6, <1>7, <1>8
  DEF IInv, TypeOK, ConvTypes, ChatTypes, WaitTypes, FlightTypes

-----------------------------------------------------------------------------
(* The steps of a dispatch that touch no conversation.                      *)

LEMMA Untouched ==
    ASSUME IInv, FlightTypes', UpdatesOK', ChatTypes', UNCHANGED <<convVars, wait, disturbed>>,
           Calm => Serene'
    PROVE  IInv'
<1>1. ConvTypes /\ WaitTypes /\ WaitPart
  BY TypeParts DEF IInv
<1>2. ConvTypes' /\ WaitTypes'
  BY <1>1 DEF ConvTypes, WaitTypes, convVars
<1>3. Same /\ Fewer /\ FewerEvents /\ open \subseteq open'
  BY <1>1, StillSame DEF convVars, Fewer, FewerEvents
<1>4. WaitPart' /\ LeftOK'
  BY <1>1, <1>2, <1>3, SameWaits, SameLeft, NoneAssumption DEF IInv
<1>5. FreshOK' /\ CalmOK'
  BY DEF IInv, FreshOK, CalmOK, Calm, convVars
<1> QED
  BY <1>2, <1>4, <1>5
  DEF IInv, TypeOK, ConvTypes, ChatTypes, WaitTypes, FlightTypes

LEMMA ArrivesStep ==
    ASSUME IInv, NEW u \in Updates, NEW what \in Update, Arrives(u, what)
    PROVE  IInv'
<1> DEFINE r == [NotYet EXCEPT !.at = "running", !.update = what, !.todo = open,
                               !.size = Cardinality(open)]
<1>1. ConvTypes /\ ChatTypes /\ WaitTypes /\ FlightTypes
  BY TypeParts DEF IInv
<1>2. open \subseteq Convs /\ Cardinality(open) \in 0..Cardinality(Convs)
  <2>1. open \subseteq Convs
    BY <1>1 DEF ConvTypes
  <2>2. IsFiniteSet(open) /\ Cardinality(open) <= Cardinality(Convs)
    BY <2>1, ConvsAssumption, FS_Subset
  <2>3. Cardinality(open) \in Nat /\ Cardinality(Convs) \in Nat
    BY <2>2, ConvsAssumption, FS_CardinalityType
  <2> QED
    BY <2>1, <2>2, <2>3
<1>3. r \in Flight /\ r.at = "running" /\ r.update = what /\ r.todo = open /\ r.changed = FALSE
  BY <1>2, NotYetType DEF Flight
<1>4. flight' = [flight EXCEPT ![u] = r]
  BY DEF Arrives
<1> HIDE DEF r
<1>5. /\ FlightTypes' /\ flight'[u] = r
      /\ \A v \in Updates : v # u => flight'[v] = flight[v]
  BY <1>1, <1>3, <1>4 DEF FlightTypes
<1>6. what.kind = "message" => what.id \in Messages
  BY <1>1, BoundsAssumption DEF Arrives, ChatTypes, Ids, Messages
<1>7. UpdatesOK'
  BY <1>3, <1>5, <1>6 DEF IInv, UpdatesOK
<1>8. ChatTypes'
  BY <1>1, BoundsAssumption DEF ChatTypes, Arrives, Ids, Messages
<1>9. UNCHANGED <<convVars, wait, disturbed>>
  BY DEF Arrives
<1>10. Calm => Serene'
  BY <1>3, <1>5, <1>9 DEF IInv, CalmOK, Serene, Live, convVars
<1> QED
  BY <1>5, <1>7, <1>8, <1>9, <1>10, Untouched

LEMMA NoticesStep == ASSUME IInv, NEW u \in Updates, Notices(u) PROVE IInv'
<1>1. ChatTypes /\ FlightTypes
  BY TypeParts DEF IInv
<1>2. /\ FlightTypes'
      /\ flight'[u].update = NoUpdate
      /\ \A v \in Updates : v # u => flight'[v] = flight[v]
  BY <1>1, OverFacts DEF Notices, Breaks
<1>3. UpdatesOK'
  BY <1>2, NotYetType DEF IInv, UpdatesOK
<1>4. ChatTypes' /\ UNCHANGED <<convVars, wait, disturbed>>
  BY <1>1 DEF ChatTypes, Notices
<1>5. Calm => Serene'
  BY DEF IInv, CalmOK, Serene, Notices
<1> QED
  BY <1>2, <1>3, <1>4, <1>5, Untouched

LEMMA HandleStep == ASSUME IInv, NEW u \in Updates, Handle(u) PROVE IInv'
<1>1. ChatTypes /\ FlightTypes
  BY TypeParts DEF IInv
<1>2. /\ FlightTypes'
      /\ flight'[u].at = "handled" /\ flight'[u].update = NoUpdate
      /\ flight'[u].changed = FALSE
      /\ \A v \in Updates : v # u => flight'[v] = flight[v]
  BY <1>1, OverFacts DEF Handle
<1>3. UpdatesOK'
  BY <1>2, NotYetType DEF IInv, UpdatesOK
<1>4. ChatTypes' /\ UNCHANGED <<convVars, wait, disturbed>>
  BY <1>1 DEF ChatTypes, Handle
<1>5. Calm => Serene'
  BY <1>2, <1>4 DEF IInv, CalmOK, Serene, Live, convVars
<1> QED
  BY <1>2, <1>3, <1>4, <1>5, Untouched

LEMMA FilteredStep == ASSUME IInv, NEW u \in Updates, NEW w \in Waits, Filtered(u, w) PROVE IInv'
<1>1. ConvTypes /\ ChatTypes /\ WaitTypes /\ FlightTypes /\ WaitPart
  BY TypeParts DEF IInv
<1>2. flight[u].at = "waiting"
  BY DEF Filtered
<1>3. UNCHANGED <<shared, last, sent, open, cancelled, incoming, index, table, lastRead,
                  disturbed>>
  BY DEF Filtered
<1>4. FlightTypes' /\ UpdatesOK'
  <2>1. CASE ChecksOn(u, w)
    BY <1>1, <2>1, ChecksOnFacts DEF IInv, UpdatesOK
  <2>2. CASE Breaks(u)
    BY <1>1, <2>2, OverFacts, NotYetType DEF Breaks, IInv, UpdatesOK
  <2> QED
    BY <2>1, <2>2 DEF Filtered
<1>5. Same /\ FewerEvents /\ custom' \in [Convs -> SUBSET Waits]
  <2>1. CASE UNCHANGED <<wait, custom>>
    BY <1>1, <2>1, StillSame DEF FewerEvents, ConvTypes
  <2>2. CASE /\ Live(w)
             /\ wait' = End({w}, "result", 0)
             /\ custom' = [custom EXCEPT ![flight[u].conv] = custom[flight[u].conv] \ {w}]
    <3>1. Same /\ wait'[w].at = "result"
      BY <1>1, <2>2, EndSame DEF Ends
    <3>2. FewerEvents
      BY <1>1, <2>2, <3>1 DEF FewerEvents, ConvTypes
    <3>3. custom' \in [Convs -> SUBSET Waits]
      BY <1>1, <2>2 DEF ConvTypes
    <3> QED
      BY <3>1, <3>2, <3>3
  <2> QED
    BY <2>1, <2>2 DEF Filtered
<1>6. ConvTypes' /\ ChatTypes'
  BY <1>1, <1>3, <1>5 DEF ConvTypes, ChatTypes
<1>7. Fewer /\ open \subseteq open'
  BY <1>3 DEF Fewer
<1>8. WaitPart' /\ LeftOK'
  BY <1>1, <1>5, <1>6, <1>7, SameWaits, SameLeft, NoneAssumption DEF IInv
<1>9. FreshOK'
  BY <1>3 DEF IInv, FreshOK
<1>10. CalmOK'
  <2>1. ~Calm
    BY <1>2 DEF IInv, CalmOK, Serene
  <2>2. ~Calm'
    BY <1>1, <1>3, <1>5, <2>1, SameCalm DEF ChatTypes
  <2> QED
    BY <2>2 DEF CalmOK
<1> QED
  BY <1>4, <1>5, <1>6, <1>8, <1>9, <1>10
  DEF IInv, Same, TypeOK, ConvTypes, ChatTypes, WaitTypes, FlightTypes
-----------------------------------------------------------------------------
(* The steps of a dispatch that give the update to a conversation.          *)

LEMMA ServedStep ==
    ASSUME IInv, NEW u \in Updates, NEW c \in flight[u].todo,
           Same, Fewer, ConvTypes',
           flight[u].at = "running",
           UNCHANGED <<shared, last, sent, open, custom>>,
           \A d \in Convs : cancelled[d] => cancelled'[d],
           disturbed' \in BOOLEAN, disturbed => disturbed',
           Continues(u, c) \/ Breaks(u),
           Calm /\ Calm' =>
              /\ Continues(u, c)
              /\ cancelled' = cancelled
              /\ \A d \in open : \A k \in Tables : \A t \in Messages :
                    table'[d][k][t] # None => Live(table[d][k][t])'
    PROVE  IInv'
<1>1. ConvTypes /\ ChatTypes /\ WaitTypes /\ FlightTypes /\ WaitPart
  BY TypeParts DEF IInv
<1>2. c \in Convs
  BY <1>1 DEF FlightTypes, Flight
<1>3. FlightTypes' /\ UpdatesOK'
  <2>1. CASE Continues(u, c)
    BY <1>1, <1>2, <2>1, ContinuesFacts DEF IInv, UpdatesOK
  <2>2. CASE Breaks(u)
    BY <1>1, <2>2, OverFacts, NotYetType DEF Breaks, IInv, UpdatesOK
  <2> QED
    BY <2>1, <2>2
<1>4. ChatTypes'
  BY <1>1 DEF ChatTypes
<1>5. FewerEvents
  BY DEF FewerEvents
<1>6. WaitPart' /\ LeftOK' /\ FreshOK'
  BY <1>1, <1>5, SameWaits, SameLeft, SameFresh, NoneAssumption DEF IInv
<1>7. CalmOK'
  <2> SUFFICES ASSUME Calm' PROVE Serene'
    BY DEF CalmOK
  <2>1. Calm
    BY <1>1, SameCalm DEF ChatTypes
  <2>2. /\ Continues(u, c)
        /\ cancelled' = cancelled
        /\ \A d \in open : \A k \in Tables : \A t \in Messages :
              table'[d][k][t] # None => Live(table[d][k][t])'
    BY <2>1
  <2>3. Serene
    BY <2>1 DEF IInv, CalmOK
  <2>4. custom[c] = {}
    <3>1. ASSUME NEW w \in custom[c] PROVE FALSE
      BY <1>1, <1>2, <2>1 DEF ConvTypes, WaitPart, EventsOK, Calm
    <3> QED
      BY <3>1
  <2>5. /\ flight'[u].at = "running" /\ flight'[u].changed = flight[u].changed
        /\ flight'[u].todo = flight[u].todo \ {c}
        /\ \A v \in Updates : v # u => flight'[v] = flight[v]
    BY <1>1, <1>2, <2>2, <2>4, ContinuesFacts
  <2>6. ASSUME NEW v \in Updates
        PROVE  /\ flight'[v].at \notin {"waiting", "broken"}
               /\ ~flight'[v].changed
               /\ flight'[v].at = "running" => flight'[v].todo \subseteq open
    <3>1. CASE v = u
      <4>1. flight[u].todo \subseteq open
        BY <2>3 DEF Serene
      <4>2. ~flight[u].changed
        BY <2>3 DEF Serene
      <4> QED
        BY <2>5, <3>1, <4>1, <4>2
    <3>2. CASE v # u
      BY <2>3, <2>5, <3>2 DEF Serene
    <3> QED
      BY <3>1, <3>2
  <2> QED
    BY <2>2, <2>3, <2>6 DEF Serene
<1> QED
  BY <1>3, <1>4, <1>6, <1>7
  DEF IInv, Same, TypeOK, ConvTypes, ChatTypes, WaitTypes, FlightTypes
LEMMA OverflowsStep ==
    ASSUME IInv, NEW u \in Updates, NEW c \in Convs, Serve(u, c), Overflows(u, c),
           UNCHANGED lastRead
    PROVE  IInv'
<1>1. ConvTypes /\ ChatTypes /\ WaitTypes /\ FlightTypes /\ WaitPart
  BY TypeParts DEF IInv
<1>2. /\ UNCHANGED <<shared, last, sent, open, custom, incoming, index, table>>
      /\ c \in flight[u].todo /\ flight[u].at = "running" /\ disturbed' = TRUE
      /\ cancelled' = [cancelled EXCEPT ![c] = TRUE]
  BY DEF Serve, Overflows
<1>3. PICK S \in Reached(c) : wait' = End(S, "error", 0)
  BY DEF Overflows
<1>4. Same
  BY <1>1, <1>3, EndSame DEF Ends
<1>5. ConvTypes' /\ Fewer
  BY <1>1, <1>2 DEF ConvTypes, Fewer
<1>6. \A d \in Convs : cancelled[d] => cancelled'[d]
  BY <1>1, <1>2 DEF ConvTypes
<1>7. Continues(u, c) \/ Breaks(u)
  BY DEF Overflows
<1>8. ~Calm'
  BY <1>2 DEF Calm
<1> QED
  BY <1>2, <1>4, <1>5, <1>6, <1>7, <1>8, ServedStep

(* The entries of c in T, the waits in E, are answered and taken out.       *)
Answers(c, T, E, got) ==
    /\ T \in [Tables -> SUBSET Messages]
    /\ \A k \in Tables : \A t \in T[k] : table[c][k][t] # None
    /\ \A d \in Convs : \A k \in Tables : \A t \in Messages :
          table'[d][k][t] = IF d = c /\ t \in T[k] THEN None ELSE table[d][k][t]
    /\ \A x \in E : \E k \in Tables : \E t \in T[k] : x = table[c][k][t]
    /\ wait' = End(E, "result", got)

LEMMA Answering ==
    ASSUME ConvTypes, WaitTypes, WaitPart, NEW c \in Convs, NEW T, NEW E, NEW got \in Nat,
           Answers(c, T, E, got)
    PROVE  /\ Same /\ Fewer
           /\ \A d \in Convs : \A k \in Tables : \A t \in Messages :
                 table'[d][k][t] # None =>
                    /\ table'[d][k][t] = table[d][k][t]
                    /\ wait'[table[d][k][t]] = wait[table[d][k][t]]
<1> USE DEF Answers
<1>0. EntriesOK
  BY DEF WaitPart
<1>1. Same /\ \A w \in Waits : w \notin E => wait'[w] = wait[w]
  BY EndSame DEF Ends
<1>2. Fewer
  BY DEF Fewer
<1>3. ASSUME NEW d \in Convs, NEW k \in Tables, NEW t \in Messages, table'[d][k][t] # None
      PROVE  table'[d][k][t] = table[d][k][t] /\ wait'[table[d][k][t]] = wait[table[d][k][t]]
  <2> DEFINE x == table[d][k][t]
  <2>1. table'[d][k][t] = x /\ ~(d = c /\ t \in T[k])
    BY <1>3
  <2>2. x \in Waits /\ wait[x].conv = d /\ wait[x].kind = k /\ wait[x].target = t
    BY <1>0, <1>3, <2>1 DEF ConvTypes, EntriesOK
  <2>3. x \notin E
    <3> SUFFICES ASSUME x \in E PROVE FALSE
      OBVIOUS
    <3>1. PICK j \in Tables : \E s \in T[j] : x = table[c][j][s]
      OBVIOUS
    <3>2. PICK s \in T[j] : x = table[c][j][s]
      BY <3>1
    <3>3. s \in Messages /\ table[c][j][s] # None
      OBVIOUS
    <3>4. wait[x].conv = c /\ wait[x].kind = j /\ wait[x].target = s
      BY <1>0, <3>2, <3>3 DEF EntriesOK
    <3> QED
      BY <2>1, <2>2, <3>2, <3>4
  <2> QED
    BY <1>1, <2>1, <2>2, <2>3
<1> QED
  BY <1>1, <1>2, <1>3

LEMMA ReadsStep ==
    ASSUME IInv, NEW u \in Updates, NEW c \in Convs, Serve(u, c),
           flight[u].update.kind = "read", Reads(u, c),
           UNCHANGED <<cancelled, incoming, index, disturbed>>
    PROVE  IInv'
<1> DEFINE upTo == flight[u].update.id
           due == {t \in Messages : table[c].read[t] # None /\ t >= upTo}
           dead == {t \in due : ~Live(table[c].read[t])}
<1>1. ConvTypes /\ ChatTypes /\ WaitTypes /\ FlightTypes /\ WaitPart
  BY TypeParts DEF IInv
<1>2. /\ UNCHANGED <<shared, last, sent, open, custom>>
      /\ c \in flight[u].todo /\ flight[u].at = "running"
      /\ lastRead' = [lastRead EXCEPT ![c] = upTo]
  BY DEF Serve, Reads
<1>3. upTo \in Ids /\ upTo \in Nat
  BY <1>1, BoundsAssumption DEF FlightTypes, Flight, Update, Ids, Messages
<1>4. PICK S \in SUBSET due : /\ wait' = End({table[c].read[t] : t \in S}, "result", upTo)
                              /\ table' = [table EXCEPT ![c].read = Removed(table[c].read, S)]
  BY DEF Reads
<1>5. Continues(u, c) \/ Breaks(u)
  BY DEF Reads
<1>6. dead = {} => Continues(u, c)
  BY DEF Reads
<1> DEFINE T == [k \in Tables |-> IF k = "read" THEN S ELSE {}]
           E == {table[c].read[t] : t \in S}
<1>7. due \subseteq Messages /\ (\A t \in due : table[c]["read"][t] # None) /\ "read" \in Tables
  BY DEF Tables
<1>8. T \in [Tables -> SUBSET Messages]
  BY <1>7
<1>9. /\ \A d \in Convs : \A k \in Tables : \A t \in Messages :
            table'[d][k][t] = IF d = c /\ t \in T[k] THEN None ELSE table[d][k][t]
      /\ table' \in [Convs -> [Tables -> [Messages -> Waits \cup {None}]]]
  <2> DEFINE R == [t \in Messages |-> IF t \in S THEN None ELSE table[c]["read"][t]]
  <2>1. table' = [table EXCEPT ![c]["read"] = R]
    BY <1>4 DEF Removed
  <2>2. \A t \in Messages : R[t] = IF t \in S THEN None ELSE table[c]["read"][t]
    OBVIOUS
  <2>3. R \in [Messages -> Waits \cup {None}]
    BY <1>1, <1>7 DEF ConvTypes
  <2> HIDE DEF R
  <2>4. /\ table'[c]["read"] = R
        /\ \A d \in Convs : \A k \in Tables : ~(d = c /\ k = "read") => table'[d][k] = table[d][k]
        /\ table' \in [Convs -> [Tables -> [Messages -> Waits \cup {None}]]]
    BY <1>1, <1>7, <2>1, <2>3 DEF ConvTypes
  <2>5. ASSUME NEW d \in Convs, NEW k \in Tables, NEW t \in Messages
        PROVE  table'[d][k][t] = IF d = c /\ t \in T[k] THEN None ELSE table[d][k][t]
    <3>1. CASE d = c /\ k = "read"
      BY <2>2, <2>4, <3>1
    <3>2. CASE ~(d = c /\ k = "read")
      BY <2>4, <3>2
    <3> QED
      BY <3>1, <3>2
  <2> QED
    BY <2>4, <2>5
<1>10. \A k \in Tables : \A t \in T[k] : table[c][k][t] # None
  BY <1>7
<1>11. \A x \in E : \E k \in Tables : \E t \in T[k] : x = table[c][k][t]
  <2> SUFFICES ASSUME NEW x \in E PROVE \E t \in T["read"] : x = table[c]["read"][t]
    BY <1>7
  <2>1. T["read"] = S
    BY <1>7
  <2> QED
    BY <2>1
<1>12. wait' = End(E, "result", upTo)
  BY <1>4
<1> HIDE DEF T, E, upTo, due, dead
<1>13. /\ Same /\ Fewer
       /\ \A d \in Convs : \A k \in Tables : \A t \in Messages :
             table'[d][k][t] # None =>
                /\ table'[d][k][t] = table[d][k][t]
                /\ wait'[table[d][k][t]] = wait[table[d][k][t]]
  <2>1. Answers(c, T, E, upTo)
    BY <1>8, <1>9, <1>10, <1>11, <1>12 DEF Answers
  <2> QED
    BY <1>1, <1>3, <2>1, Answering
<1>14. ConvTypes'
  <2>1. upTo \in -1..MaxMessages
    BY <1>3, BoundsAssumption DEF Ids, Messages
  <2>2. lastRead' \in [Convs -> -1..MaxMessages]
    BY <1>1, <1>2, <2>1 DEF ConvTypes
  <2> QED
    BY <1>1, <1>2, <1>9, <2>2 DEF ConvTypes
<1>15. ASSUME Calm
       PROVE  /\ Continues(u, c)
              /\ \A d \in open : \A k \in Tables : \A t \in Messages :
                    table'[d][k][t] # None => Live(table[d][k][t])'
  <2>1. Serene
    BY <1>15 DEF IInv, CalmOK
  <2>2. c \in open
    BY <1>2, <2>1 DEF Serene
  <2>3. dead = {}
    BY <1>7, <2>1, <2>2 DEF Serene, dead
  <2>4. open \subseteq Convs
    BY <1>1 DEF ConvTypes
  <2> QED
    BY <1>6, <1>13, <2>1, <2>3, <2>4 DEF Serene, Live
<1> QED
  BY <1>1, <1>2, <1>5, <1>13, <1>14, <1>15, ServedStep DEF ChatTypes
LEMMA TakenFacts ==
    ASSUME NEW c, NEW k, NEW m, NEW r \in Taken(c, k, m)
    PROVE  /\ r.set \subseteq Answered(c, k, m)
           /\ r.dead \subseteq DeadOf(c, k, m)
<1>1. CASE DeadOf(c, k, m) = {}
  <2>1. r = [set |-> Answered(c, k, m), dead |-> {}]
    BY <1>1 DEF Taken
  <2> QED
    BY <2>1
<1>2. CASE DeadOf(c, k, m) # {}
  <2>1. PICK S \in SUBSET (Answered(c, k, m) \ DeadOf(c, k, m)), t \in DeadOf(c, k, m) :
           r = [set |-> S, dead |-> {t}]
    BY <1>2 DEF Taken
  <2> QED
    BY <2>1
<1> QED
  BY <1>1, <1>2

LEMMA ReceivesStep ==
    ASSUME IInv, NEW u \in Updates, NEW c \in Convs, Serve(u, c),
           flight[u].update.kind = "message", Receives(u, c), UNCHANGED lastRead
    PROVE  IInv'
<1> DEFINE m == [id |-> flight[u].update.id, replies |-> flight[u].update.replies]
           n == Len(incoming[c]) + 1
<1>1. ConvTypes /\ ChatTypes /\ WaitTypes /\ FlightTypes /\ WaitPart
  BY TypeParts DEF IInv
<1>2. /\ UNCHANGED <<shared, last, sent, open, custom, cancelled, disturbed>>
      /\ c \in flight[u].todo /\ flight[u].at = "running"
      /\ incoming' = [incoming EXCEPT ![c] = Append(incoming[c], m)]
  BY DEF Serve, Receives
<1>3. m \in Message
  <2>1. flight[u].update \in Update /\ flight[u].update.id \in Messages
    BY <1>1 DEF FlightTypes, Flight, IInv, UpdatesOK
  <2> QED
    BY <2>1 DEF Update, Message
<1>4. n \in 1..MaxIncoming
  <2>1. Len(incoming[c]) \in Nat /\ Len(incoming[c]) < MaxIncoming
    BY <1>1, LenProperties DEF ConvTypes, Receives, HasRoom
  <2> QED
    BY <2>1, IncomingAssumption
<1>5. PICK r \in Taken(c, "response", m) :
         \E p \in IF r.dead = {} THEN Taken(c, "reply", m) ELSE {Nobody} :
           LET seen(k) == IF k = "response"
                          THEN r.set \cup r.dead \cup IF shared THEN p.set \cup p.dead ELSE {}
                          ELSE IF shared THEN {} ELSE p.set \cup p.dead
               set(k) == IF k = "response" THEN r.set ELSE IF k = "reply" THEN p.set ELSE {}
           IN  /\ index' = [index EXCEPT ![c] = [k \in {"response", "reply"} |->
                      [t \in Messages |-> IF t \in seen(k) THEN n ELSE index[c][k][t]]]]
               /\ wait' = End({table[c].response[t] : t \in r.set}
                              \cup {table[c].reply[t] : t \in p.set}, "result", n)
               /\ table' = [table EXCEPT ![c] = [k \in Tables |->
                      Removed(table[c][k], set(k))]]
               /\ IF r.dead \cup p.dead = {} THEN Continues(u, c) ELSE Breaks(u)
  BY DEF Receives
<1>6. PICK p \in IF r.dead = {} THEN Taken(c, "reply", m) ELSE {Nobody} :
           LET seen(k) == IF k = "response"
                          THEN r.set \cup r.dead \cup IF shared THEN p.set \cup p.dead ELSE {}
                          ELSE IF shared THEN {} ELSE p.set \cup p.dead
               set(k) == IF k = "response" THEN r.set ELSE IF k = "reply" THEN p.set ELSE {}
           IN  /\ index' = [index EXCEPT ![c] = [k \in {"response", "reply"} |->
                      [t \in Messages |-> IF t \in seen(k) THEN n ELSE index[c][k][t]]]]
               /\ wait' = End({table[c].response[t] : t \in r.set}
                              \cup {table[c].reply[t] : t \in p.set}, "result", n)
               /\ table' = [table EXCEPT ![c] = [k \in Tables |->
                      Removed(table[c][k], set(k))]]
               /\ IF r.dead \cup p.dead = {} THEN Continues(u, c) ELSE Breaks(u)
  BY <1>5
<1> DEFINE seen(k) == IF k = "response"
                      THEN r.set \cup r.dead \cup IF shared THEN p.set \cup p.dead ELSE {}
                      ELSE IF shared THEN {} ELSE p.set \cup p.dead
           set(k) == IF k = "response" THEN r.set ELSE IF k = "reply" THEN p.set ELSE {}
           I == [k \in {"response", "reply"} |->
                   [t \in Messages |-> IF t \in seen(k) THEN n ELSE index[c][k][t]]]
           B == [k \in Tables |-> [t \in Messages |->
                   IF t \in set(k) THEN None ELSE table[c][k][t]]]
           E == {table[c]["response"][t] : t \in r.set} \cup {table[c]["reply"][t] : t \in p.set}
           T == [k \in Tables |-> set(k)]
<1>7. /\ r.set \subseteq Answered(c, "response", m) /\ r.dead \subseteq DeadOf(c, "response", m)
      /\ p.set \subseteq Answered(c, "reply", m) /\ p.dead \subseteq DeadOf(c, "reply", m)
  <2>1. /\ r.set \subseteq Answered(c, "response", m)
        /\ r.dead \subseteq DeadOf(c, "response", m)
    BY TakenFacts
  <2>2. CASE r.dead = {}
    <3>1. p \in Taken(c, "reply", m)
      BY <1>6, <2>2
    <3> QED
      BY <2>1, <3>1, TakenFacts
  <2>3. CASE r.dead # {}
    <3>1. p = Nobody
      BY <1>6, <2>3
    <3> QED
      BY <2>1, <3>1 DEF Nobody
  <2> QED
    BY <2>2, <2>3
<1>8. /\ index' = [index EXCEPT ![c] = I]
      /\ wait' = End(E, "result", n)
      /\ table' = [table EXCEPT ![c] = B]
      /\ IF r.dead \cup p.dead = {} THEN Continues(u, c) ELSE Breaks(u)
  BY <1>6 DEF Removed
<1>9. \A k \in Tables : set(k) \subseteq Messages /\ \A t \in set(k) : table[c][k][t] # None
  BY <1>7 DEF Answered, Tables
<1>10. I \in [{"response", "reply"} -> [Messages -> -1..MaxIncoming]]
  <2>1. ASSUME NEW k \in {"response", "reply"}, NEW t \in Messages
        PROVE  (IF t \in seen(k) THEN n ELSE index[c][k][t]) \in -1..MaxIncoming
    <3>1. index[c][k][t] \in -1..MaxIncoming
      BY <1>1 DEF ConvTypes
    <3>2. n \in -1..MaxIncoming
      BY <1>4, IncomingAssumption
    <3> QED
      BY <3>1, <3>2
  <2> HIDE DEF seen, n
  <2> QED
    BY <2>1
<1>11. /\ B \in [Tables -> [Messages -> Waits \cup {None}]]
       /\ \A k \in Tables : \A t \in Messages :
             B[k][t] = IF t \in set(k) THEN None ELSE table[c][k][t]
  <2> HIDE DEF set
  <2> QED
    BY <1>1 DEF ConvTypes
<1>12. T \in [Tables -> SUBSET Messages] /\ \A k \in Tables : T[k] = set(k)
  <2> HIDE DEF set
  <2> QED
    BY <1>9
<1>13. \A x \in E : \E k \in Tables : \E t \in T[k] : x = table[c][k][t]
  <2>1. "response" \in Tables /\ "reply" \in Tables
    BY DEF Tables
  <2>2. T["response"] = r.set /\ T["reply"] = p.set
    BY <1>12, <2>1
  <2> HIDE DEF T
  <2>3. ASSUME NEW t \in r.set
        PROVE  \E k \in Tables : \E s \in T[k] : table[c]["response"][t] = table[c][k][s]
    BY <2>1, <2>2
  <2>4. ASSUME NEW t \in p.set
        PROVE  \E k \in Tables : \E s \in T[k] : table[c]["reply"][t] = table[c][k][s]
    BY <2>1, <2>2
  <2> QED
    BY <2>3, <2>4
<1> HIDE DEF I, B, E, T, set, seen, m, n
<1>14. /\ table' \in [Convs -> [Tables -> [Messages -> Waits \cup {None}]]]
       /\ table'[c] = B
       /\ \A d \in Convs : d # c => table'[d] = table[d]
  BY <1>1, <1>8, <1>11 DEF ConvTypes
<1>15. ASSUME NEW d \in Convs, NEW k \in Tables, NEW t \in Messages
       PROVE  table'[d][k][t] = IF d = c /\ t \in T[k] THEN None ELSE table[d][k][t]
  BY <1>11, <1>12, <1>14
<1>16. Answers(c, T, E, n)
  BY <1>8, <1>9, <1>12, <1>13, <1>15 DEF Answers
<1>17. /\ Same /\ Fewer
       /\ \A d \in Convs : \A k \in Tables : \A t \in Messages :
             table'[d][k][t] # None =>
                /\ table'[d][k][t] = table[d][k][t]
                /\ wait'[table[d][k][t]] = wait[table[d][k][t]]
  <2>1. n \in Nat
    BY <1>4
  <2> QED
    BY <1>1, <1>16, <2>1, Answering
<1>18. ConvTypes'
  <2>1. index' \in [Convs -> [{"response", "reply"} -> [Messages -> -1..MaxIncoming]]]
    BY <1>1, <1>8, <1>10 DEF ConvTypes
  <2>2. /\ incoming' \in [Convs -> Seq(Message)]
        /\ \A d \in Convs : Len(incoming'[d]) <= MaxIncoming
    <3>1. incoming[c] \in Seq(Message)
      BY <1>1 DEF ConvTypes
    <3>2. Append(incoming[c], m) \in Seq(Message) /\ Len(Append(incoming[c], m)) = n
      BY <1>3, <3>1, AppendProperties DEF n
    <3> DEFINE a == Append(incoming[c], m)
    <3>3. a \in Seq(Message) /\ Len(a) <= MaxIncoming
      BY <1>4, <3>2, IncomingAssumption
    <3>4. incoming' = [incoming EXCEPT ![c] = a]
      BY <1>2
    <3> HIDE DEF a
    <3> QED
      BY <1>1, <3>3, <3>4 DEF ConvTypes
  <2> QED
    BY <1>1, <1>2, <1>14, <2>1, <2>2 DEF ConvTypes
<1>19. ASSUME Calm
       PROVE  /\ Continues(u, c)
              /\ \A d \in open : \A k \in Tables : \A t \in Messages :
                    table'[d][k][t] # None => Live(table[d][k][t])'
  <2>1. Serene
    BY <1>19 DEF IInv, CalmOK
  <2>2. c \in open
    BY <1>2, <2>1 DEF Serene
  <2>3. DeadOf(c, "response", m) = {} /\ DeadOf(c, "reply", m) = {}
    BY <2>1, <2>2 DEF Serene, DeadOf, Answered, Tables
  <2>4. r.dead \cup p.dead = {}
    BY <1>7, <2>3
  <2>5. open \subseteq Convs
    BY <1>1 DEF ConvTypes
  <2> QED
    BY <1>8, <1>17, <2>1, <2>4, <2>5 DEF Serene, Live
<1>20. Continues(u, c) \/ Breaks(u)
  BY <1>8
<1> QED
  BY <1>1, <1>2, <1>17, <1>18, <1>19, <1>20, ServedStep DEF ChatTypes

-----------------------------------------------------------------------------
(* The theorems.                                                            *)

LEMMA Starts == Init => IInv
<1> SUFFICES ASSUME Init PROVE IInv
  OBVIOUS
<1>1. Unused \in Wait /\ Unused.at = "free" /\ Unused.conv = None /\ Unused.kind = "none"
  BY DEF Unused, Wait, Ids
<1>2. ConvTypes
  <2>1. NoIndex \in [{"response", "reply"} -> [Messages -> -1..MaxIncoming]]
    <3>1. -1 \in -1..MaxIncoming
      BY IncomingAssumption
    <3> QED
      BY <3>1 DEF NoIndex
  <2>2. [k \in Tables |-> NoTable] \in [Tables -> [Messages -> Waits \cup {None}]]
    BY DEF NoTable
  <2>3. << >> \in Seq(Message) /\ Len(<< >>) = 0
    BY EmptySeq
  <2>4. -1 \in -1..MaxMessages
    BY BoundsAssumption
  <2>5. /\ incoming \in [Convs -> Seq(Message)]
        /\ \A c \in Convs : Len(incoming[c]) <= MaxIncoming
    BY <2>3, IncomingAssumption DEF Init
  <2>6. table \in [Convs -> [Tables -> [Messages -> Waits \cup {None}]]]
    BY <2>2 DEF Init
  <2> QED
    BY <2>1, <2>4, <2>5, <2>6 DEF Init, ConvTypes
<1>3. ChatTypes
  BY DEF Init, ChatTypes, Ids
<1>4. WaitTypes /\ \A w \in Waits : wait[w] = Unused
  BY <1>1 DEF Init, WaitTypes
<1>5. FlightTypes /\ \A u \in Updates : flight[u] = NotYet
  BY NotYetType DEF Init, FlightTypes
<1>6. \A c \in Convs : \A k \in Tables : \A t \in Messages : table[c][k][t] = None
  BY DEF Init, NoTable
<1>7. custom = [c \in Convs |-> {}] /\ open = {}
  BY DEF Init
<1>8. WaitPart
  BY <1>1, <1>4, <1>6, <1>7 DEF WaitPart, EntriesOK, EventsOK, WaitsOK, Tables
<1>9. LeftOK /\ FreshOK
  BY <1>1, <1>4, <1>6 DEF LeftOK, FreshOK
<1>10. UpdatesOK /\ CalmOK
  BY <1>5, <1>7, NotYetType DEF UpdatesOK, CalmOK, Serene
<1> QED
  BY <1>2, <1>3, <1>4, <1>5, <1>8, <1>9, <1>10, TypeParts DEF IInv

LEMMA Steps == IInv /\ [Next]_vars => IInv'
<1> SUFFICES ASSUME IInv, [Next]_vars PROVE IInv'
  OBVIOUS
<1>1. CASE UNCHANGED vars
  <2>1. ChatTypes /\ FlightTypes
    BY TypeParts DEF IInv
  <2>2. FlightTypes' /\ ChatTypes' /\ UpdatesOK'
    BY <1>1, <2>1 DEF FlightTypes, ChatTypes, IInv, UpdatesOK, vars
  <2>3. UNCHANGED <<convVars, wait, disturbed>>
    BY <1>1 DEF vars
  <2>4. Calm => Serene'
    BY <1>1 DEF IInv, CalmOK, Serene, Live, vars, convVars
  <2> QED
    BY <2>2, <2>3, <2>4, Untouched
<1>2. ASSUME NEW c \in Convs, Enter(c) \/ Exit(c) \/ Cancel(c) PROVE IInv'
  BY <1>2, EnterStep, ExitStep, CancelStep
<1>3. ASSUME SendMessage PROVE IInv'
  BY <1>3, SendMessageStep
<1>4. ASSUME NEW w \in Waits, NEW c \in Convs, NEW t \in sent,
             \/ GetMessage(w, c, "response", t)
             \/ GetMessage(w, c, "reply", t)
             \/ WaitRead(w, c, t)
      PROVE  IInv'
  <2>1. CASE GetMessage(w, c, "response", t)
    BY <2>1, GetMessageStep
  <2>2. CASE GetMessage(w, c, "reply", t)
    BY <2>2, GetMessageStep
  <2>3. CASE WaitRead(w, c, t)
    BY <2>3, WaitReadStep
  <2> QED
    BY <1>4, <2>1, <2>2, <2>3
<1>5. ASSUME NEW w \in Waits, NEW c \in Convs, WaitEvent(w, c) PROVE IInv'
  BY <1>5, WaitEventStep
<1>6. ASSUME NEW w \in Waits, TimesOut(w) \/ EventAwaited(w) PROVE IInv'
  BY <1>6, TimesOutStep, EventAwaitedStep
<1>7. ASSUME NEW u \in Updates, NEW what \in Update, Arrives(u, what) PROVE IInv'
  BY <1>7, ArrivesStep
<1>8. ASSUME NEW u \in Updates, NEW c \in Convs, Serve(u, c) PROVE IInv'
  <2>1. CASE /\ flight[u].update.kind = "message"
             /\ Overflows(u, c) \/ Receives(u, c)
             /\ UNCHANGED lastRead
    BY <1>8, <2>1, OverflowsStep, ReceivesStep
  <2>2. CASE /\ flight[u].update.kind = "read"
             /\ Reads(u, c)
             /\ UNCHANGED <<cancelled, incoming, index, disturbed>>
    BY <1>8, <2>2, ReadsStep
  <2> QED
    BY <1>8, <2>1, <2>2 DEF Serve
<1>9. ASSUME NEW u \in Updates, Notices(u) \/ Handle(u) PROVE IInv'
  BY <1>9, NoticesStep, HandleStep
<1>10. ASSUME NEW u \in Updates, NEW w \in Waits, Filtered(u, w) PROVE IInv'
  BY <1>10, FilteredStep
<1> QED
  BY <1>1, <1>2, <1>3, <1>4, <1>5, <1>6, <1>7, <1>8, <1>9, <1>10 DEF Next

LEMMA Invariant == Spec => []IInv
BY Starts, Steps, PTL DEF Spec

(* Every variable has its type, whatever is sent, awaited and dispatched.   *)
THEOREM TypeCorrect == Spec => []TypeOK
<1>1. IInv => TypeOK
  BY DEF IInv
<1> QED
  BY Invariant, <1>1, PTL

(* _dispatch_update reaches the event handlers with every update as long as *)
(* no wait times out, no conversation is cancelled or full, and nobody uses *)
(* wait_event: with any number of conversations in the chat.                *)
THEOREM HandlersReached == Spec => []Dispatched
<1>1. IInv => Dispatched
  BY DEF IInv, CalmOK, Calm, Serene, Dispatched
<1> QED
  BY Invariant, <1>1, PTL

(* __aexit__ leaves nobody waiting, but for reads and for waits whose entry *)
(* in a dict a later wait has taken.                                        *)
THEOREM NobodyLeft == Spec => []NoneLeft
<1>1. IInv => NoneLeft
  BY DEF IInv, LeftOK, NoneLeft
<1> QED
  BY Invariant, <1>1, PTL

-----------------------------------------------------------------------------
(* The answers to get_response, in the order of the messages.               *)

(* What the filters of custom events are awaited for.                       *)
ChecksOK == \A u \in Updates : \A w \in flight[u].checks : wait[w].kind = "event"

(* The index of a message covers every answer to it.                        *)
UpToOK ==
    \A c \in Convs : \A t \in Messages :
        /\ index[c]["response"][t] <= Len(incoming[c])
        /\ \A w \in Got(c, "response", t) : wait[w].got \in 1..index[c]["response"][t]

OnceOK ==
    \A c \in Convs : \A t \in Messages : \A v, w \in Got(c, "response", t) :
        v # w => wait[v].got # wait[w].got

(* Nothing was asked of a conversation that was not entered yet.            *)
FirstOK ==
    \A c \in Convs : c \notin open /\ ~cancelled[c] =>
        \A t \in Messages : index[c]["response"][t] = -1

(* The entries of a conversation that was left are dead, those of an open   *)
(* one alive unless something disturbed it, with wait_event or without.     *)
DeadOK ==
    \A c \in Convs : c \notin open =>
        \A t \in Messages : table[c]["response"][t] # None => ~Live(table[c]["response"][t])

AliveOK ==
    ~disturbed => \A c \in open : \A t \in Messages :
        table[c]["response"][t] # None => Live(table[c]["response"][t])

(* The messages up to the n-th that follow t are answers.                   *)
Gapless(c, t, n) ==
    \A i \in 1..n : incoming[c][i].id > t =>
        \E v \in Got(c, "response", t) : wait[v].got = i

Alone(c, t) == ~disturbed /\ (shared => Asked(c, "reply", t) = {})

(* While it is open nothing up to the index is left out, and nothing that   *)
(* came is ahead of the index while somebody waits.                         *)
OpenOK ==
    \A c \in open : \A t \in Messages : Alone(c, t) =>
        /\ Gapless(c, t, index[c]["response"][t])
        /\ table[c]["response"][t] # None => index[c]["response"][t] = Len(incoming[c])

(* Later the index may run ahead of the answers.                            *)
ClosedOK ==
    \A c \in Convs \ open : \A t \in Messages : Alone(c, t) =>
        \A w \in Got(c, "response", t) : Gapless(c, t, wait[w].got - 1)

OrderInv ==
    ChecksOK /\ UpToOK /\ OnceOK /\ FirstOK /\ DeadOK /\ AliveOK /\ OpenOK /\ ClosedOK

(* What a step may do to the answers to message t: nothing, one more, or    *)
(* move the index over messages that are no answer.                         *)
Moves(c, t) ==
    /\ index[c]["response"][t] <= index'[c]["response"][t]
    /\ index'[c]["response"][t] <= Len(incoming'[c])
    /\ \/ Got(c, "response", t)' = Got(c, "response", t)
       \/ /\ c \in open'
          /\ index[c]["response"][t] < index'[c]["response"][t]
          /\ index'[c]["response"][t] >= 1
          /\ \E w \in Waits \ Got(c, "response", t) :
                /\ Got(c, "response", t)' = Got(c, "response", t) \cup {w}
                /\ wait'[w].got = index'[c]["response"][t]
    /\ c \in open' /\ Alone(c, t)' =>
          /\ \A i \in 1..index'[c]["response"][t] :
                \/ i <= index[c]["response"][t]
                \/ \E v \in Got(c, "response", t)' : wait'[v].got = i
                \/ incoming'[c][i].id <= t
          /\ table'[c]["response"][t] # None =>
                index'[c]["response"][t] = Len(incoming'[c])

Grows ==
    /\ disturbed => disturbed'
    /\ shared' = shared
    /\ \A w \in Waits : wait[w].at = "result" => wait'[w].got = wait[w].got
    /\ \A c \in Convs : /\ Len(incoming[c]) <= Len(incoming'[c])
                        /\ \A i \in 1..Len(incoming[c]) : incoming'[c][i] = incoming[c][i]
    /\ \A c \in Convs : \A t \in Messages :
          Asked(c, "reply", t) \subseteq Asked(c, "reply", t)'

(* What nobody left out or answered twice stays so.                         *)
LEMMA OrderKept ==
    ASSUME ConvTypes, ConvTypes', WaitTypes, UpToOK, OnceOK, FirstOK, OpenOK, ClosedOK, Grows,
           disturbed \in BOOLEAN, disturbed' \in BOOLEAN, shared \in BOOLEAN,
           \A c \in Convs : \A t \in Messages : Moves(c, t),
           \A c \in open' : c \notin open => ~cancelled[c]
    PROVE  UpToOK' /\ OnceOK' /\ OpenOK' /\ ClosedOK'
<1>1. ASSUME NEW c \in Convs, NEW t \in Messages
      PROVE  /\ index[c]["response"][t] \in Int /\ index[c]["response"][t] >= -1
             /\ index'[c]["response"][t] \in Int /\ index'[c]["response"][t] >= -1
             /\ Len(incoming[c]) \in Nat /\ Len(incoming'[c]) \in Nat
  <2>1. /\ index[c]["response"][t] \in -1..MaxIncoming
        /\ index'[c]["response"][t] \in -1..MaxIncoming
    BY DEF ConvTypes
  <2>2. Len(incoming[c]) \in Nat /\ Len(incoming'[c]) \in Nat
    BY LenProperties DEF ConvTypes
  <2> QED
    BY <2>1, <2>2, IncomingAssumption
<1>2. ASSUME NEW c \in Convs, NEW t \in Messages, NEW w \in Got(c, "response", t)
      PROVE  /\ w \in Waits /\ wait[w].got \in Nat /\ wait'[w].got = wait[w].got
             /\ wait[w].got \in 1..index[c]["response"][t]
             /\ w \in Got(c, "response", t)'
  <2>1. w \in Waits /\ wait[w].at = "result" /\ wait[w] \in Wait
    BY DEF Got, Asked, WaitTypes
  <2>2. w \in Got(c, "response", t)'
    BY DEF Moves
  <2> QED
    BY <2>1, <2>2 DEF Wait, Grows, UpToOK
<1>3. ASSUME NEW c \in Convs, NEW t \in Messages, Alone(c, t)' PROVE Alone(c, t)
  BY <1>3 DEF Alone, Grows
<1>4. ASSUME NEW c \in Convs, NEW t \in Messages, NEW n \in Int,
             n <= Len(incoming[c]), Gapless(c, t, n)
      PROVE  Gapless(c, t, n)'
  <2> SUFFICES ASSUME NEW i \in 1..n, incoming'[c][i].id > t
               PROVE  \E v \in Got(c, "response", t)' : wait'[v].got = i
    BY DEF Gapless
  <2>1. i \in 1..Len(incoming[c])
    BY <1>1, <1>4
  <2>2. incoming'[c][i] = incoming[c][i]
    BY <2>1 DEF Grows
  <2>3. PICK v \in Got(c, "response", t) : wait[v].got = i
    BY <1>4, <2>2 DEF Gapless
  <2> QED
    BY <1>2, <2>3
<1>5. UpToOK'
  <2> SUFFICES ASSUME NEW c \in Convs, NEW t \in Messages
               PROVE  /\ index'[c]["response"][t] <= Len(incoming'[c])
                      /\ \A w \in Got(c, "response", t)' :
                            wait'[w].got \in 1..index'[c]["response"][t]
    BY DEF UpToOK
  <2>1. Moves(c, t)
    OBVIOUS
  <2>2. ASSUME NEW w \in Got(c, "response", t)'
        PROVE  wait'[w].got \in 1..index'[c]["response"][t]
    <3>1. CASE w \in Got(c, "response", t)
      BY <1>1, <1>2, <2>1, <3>1 DEF Moves
    <3>2. CASE w \notin Got(c, "response", t)
      BY <1>1, <2>1, <3>2 DEF Moves
    <3> QED
      BY <3>1, <3>2
  <2> QED
    BY <2>1, <2>2 DEF Moves
<1>6. OnceOK'
  <2> SUFFICES ASSUME NEW c \in Convs, NEW t \in Messages,
                      NEW v \in Got(c, "response", t)', NEW w \in Got(c, "response", t)',
                      v # w
               PROVE  wait'[v].got # wait'[w].got
    BY DEF OnceOK
  <2>1. Moves(c, t)
    OBVIOUS
  <2>2. CASE v \in Got(c, "response", t) /\ w \in Got(c, "response", t)
    BY <1>2, <2>2 DEF OnceOK
  <2>3. CASE v \notin Got(c, "response", t)
    <3>1. /\ w \in Got(c, "response", t)
          /\ wait'[v].got = index'[c]["response"][t]
          /\ index[c]["response"][t] < index'[c]["response"][t]
      BY <2>1, <2>3 DEF Moves
    <3> QED
      BY <1>1, <1>2, <3>1
  <2>4. CASE w \notin Got(c, "response", t)
    <3>1. /\ v \in Got(c, "response", t)
          /\ wait'[w].got = index'[c]["response"][t]
          /\ index[c]["response"][t] < index'[c]["response"][t]
      BY <2>1, <2>4 DEF Moves
    <3> QED
      BY <1>1, <1>2, <3>1
  <2> QED
    BY <2>2, <2>3, <2>4
<1>7. ASSUME NEW c \in Convs, NEW t \in Messages, c \in open', Alone(c, t)'
      PROVE  /\ Gapless(c, t, index[c]["response"][t])
             /\ index[c]["response"][t] <= Len(incoming[c])
  <2>1. CASE c \in open
    BY <1>3, <1>7, <2>1 DEF OpenOK, UpToOK
  <2>2. CASE c \notin open
    <3>1. index[c]["response"][t] = -1
      BY <1>7, <2>2 DEF FirstOK
    <3>2. \A i \in 1..-1 : FALSE
      OBVIOUS
    <3> QED
      BY <3>1, <3>2 DEF Gapless, UpToOK
  <2> QED
    BY <2>1, <2>2
<1>8. OpenOK'
  <2> SUFFICES ASSUME NEW c \in open', NEW t \in Messages, Alone(c, t)'
               PROVE  /\ Gapless(c, t, index[c]["response"][t])'
                      /\ table'[c]["response"][t] # None =>
                            index'[c]["response"][t] = Len(incoming'[c])
    BY DEF OpenOK
  <2>1. c \in Convs
    BY DEF ConvTypes
  <2>2. Moves(c, t)
    BY <2>1
  <2> DEFINE x == index[c]["response"][t]
  <2>3. Gapless(c, t, x) /\ x <= Len(incoming[c]) /\ x \in Int
    BY <1>1, <1>7, <2>1
  <2>4. ASSUME NEW n \in Int, n = x PROVE Gapless(c, t, n)'
    BY <1>4, <2>1, <2>3, <2>4
  <2>5. ASSUME NEW i \in 1..index'[c]["response"][t], incoming'[c][i].id > t
        PROVE  \E v \in Got(c, "response", t)' : wait'[v].got = i
    <3>1. CASE i <= x
      <4>1. PICK n \in Int : n = x
        BY <2>3
      <4>2. i \in 1..n
        BY <1>1, <2>1, <3>1, <4>1
      <4> QED
        BY <2>4, <2>5, <4>1, <4>2 DEF Gapless
    <3>2. CASE \E v \in Got(c, "response", t)' : wait'[v].got = i
      BY <3>2
    <3>3. CASE incoming'[c][i].id <= t
      <4>1. i \in 1..Len(incoming'[c])
        BY <1>1, <2>1, <2>2 DEF Moves
      <4>2. incoming'[c] \in Seq(Message)
        BY <2>1 DEF ConvTypes
      <4>3. incoming'[c][i] \in Message
        BY <4>1, <4>2, ElementOfSeq
      <4>4. incoming'[c][i].id \in Int /\ t \in Int
        BY <4>3 DEF Message, Messages
      <4> QED
        BY <2>5, <3>3, <4>4
    <3> QED
      BY <2>2, <3>1, <3>2, <3>3 DEF Moves
  <2> QED
    BY <2>2, <2>5 DEF Moves, Gapless
<1>9. ClosedOK'
  <2> SUFFICES ASSUME NEW c \in Convs, c \notin open', NEW t \in Messages, Alone(c, t)',
                      NEW w \in Got(c, "response", t)'
               PROVE  Gapless(c, t, wait[w].got - 1)'
    BY DEF ClosedOK
  <2>1. w \in Got(c, "response", t)
    BY DEF Moves
  <2> DEFINE n == wait[w].got - 1
  <2>2. n \in Int /\ n < index[c]["response"][t] /\ wait'[w].got - 1 = n
    BY <1>1, <1>2, <2>1
  <2>3. Gapless(c, t, n)
    <3>1. CASE c \in open
      <4>1. Gapless(c, t, index[c]["response"][t])
        BY <1>3, <3>1 DEF OpenOK
      <4>2. 1..n \subseteq 1..index[c]["response"][t]
        BY <1>1, <2>2
      <4> HIDE DEF n
      <4> QED
        BY <4>1, <4>2 DEF Gapless
    <3>2. CASE c \notin open
      BY <1>3, <2>1, <3>2 DEF ClosedOK
    <3> QED
      BY <3>1, <3>2
  <2>4. n <= Len(incoming[c])
    BY <1>1, <2>2 DEF UpToOK
  <2>5. PICK k \in Int : k = n
    BY <2>2
  <2>6. Gapless(c, t, k)'
    BY <1>4, <2>3, <2>4, <2>5
  <2> QED
    BY <2>2, <2>5, <2>6 DEF Gapless
<1> QED
  BY <1>5, <1>6, <1>8, <1>9

(* Steps that give nobody an answer to get_response: waits end some other   *)
(* way or begin, and entries are taken out.                                 *)
Unanswered ==
    \A w \in Waits :
        \/ wait'[w] = wait[w]
        \/ wait[w].at = "free" /\ wait'[w].kind # "response"
        \/ /\ Live(w)
           /\ wait'[w].conv = wait[w].conv
           /\ wait'[w].kind = wait[w].kind
           /\ wait'[w].target = wait[w].target
           /\ wait[w].kind = "response" => wait'[w].at # "result"

FewerResponses ==
    \A c \in Convs : \A t \in Messages :
        table'[c]["response"][t] = table[c]["response"][t] \/ table'[c]["response"][t] = None

LEMMA Answerless ==
    ASSUME IInv, OrderInv, Unanswered, FewerResponses, UNCHANGED <<index, incoming, shared>>,
           disturbed => disturbed', \A c \in open' : c \notin open => ~cancelled[c]
    PROVE  Grows /\ \A c \in Convs : \A t \in Messages : Moves(c, t)
<1>1. ConvTypes /\ ChatTypes /\ WaitTypes /\ WaitsOK
  BY TypeParts DEF IInv, WaitPart
<1>2. ASSUME NEW c \in Convs, NEW t \in Messages
      PROVE  /\ Got(c, "response", t)' = Got(c, "response", t)
             /\ Asked(c, "reply", t) \subseteq Asked(c, "reply", t)'
  <2>1. ASSUME NEW w \in Waits
        PROVE  /\ w \in Got(c, "response", t)' <=> w \in Got(c, "response", t)
               /\ w \in Asked(c, "reply", t) => w \in Asked(c, "reply", t)'
    <3>1. wait[w].at = "free" => wait[w].kind = "none"
      BY <1>1 DEF WaitsOK
    <3>2. CASE wait'[w] = wait[w]
      BY <3>2 DEF Got, Asked
    <3>3. CASE wait[w].at = "free" /\ wait'[w].kind # "response"
      BY <3>1, <3>3 DEF Got, Asked
    <3>4. CASE /\ Live(w)
               /\ wait'[w].conv = wait[w].conv
               /\ wait'[w].kind = wait[w].kind
               /\ wait'[w].target = wait[w].target
               /\ wait[w].kind = "response" => wait'[w].at # "result"
      BY <3>4 DEF Got, Asked, Live
    <3> QED
      BY <3>2, <3>3, <3>4 DEF Unanswered
  <2> QED
    BY <2>1 DEF Got, Asked
<1>3. ASSUME NEW w \in Waits, wait[w].at = "result" PROVE wait'[w].got = wait[w].got
  BY <1>3 DEF Unanswered, Live
<1>4. ASSUME NEW c \in Convs
      PROVE  Len(incoming[c]) \in Nat
  BY <1>1, LenProperties DEF ConvTypes
<1>5. Grows
  BY <1>2, <1>3, <1>4 DEF Grows
<1>6. ASSUME NEW c \in Convs, NEW t \in Messages PROVE Moves(c, t)
  <2>1. index[c]["response"][t] \in -1..MaxIncoming
    BY <1>1 DEF ConvTypes
  <2>2. index'[c]["response"][t] = index[c]["response"][t] /\ incoming'[c] = incoming[c]
    OBVIOUS
  <2>3. index[c]["response"][t] <= Len(incoming[c])
    BY DEF OrderInv, UpToOK
  <2>4. ASSUME c \in open', Alone(c, t)', table'[c]["response"][t] # None
        PROVE  index[c]["response"][t] = Len(incoming[c])
    <3>1. table[c]["response"][t] # None
      BY <2>4 DEF FewerResponses
    <3>2. c \in open
      BY <2>4, <3>1 DEF IInv, FreshOK, Tables
    <3>3. Alone(c, t)
      BY <1>2, <2>4 DEF Alone
    <3> QED
      BY <3>1, <3>2, <3>3 DEF OrderInv, OpenOK
  <2>5. index[c]["response"][t] \in Int
    BY <2>1, IncomingAssumption
  <2> QED
    BY <1>2, <2>2, <2>3, <2>4, <2>5 DEF Moves
<1> QED
  BY <1>5, <1>6

(* Nor do they stir what is open, or end the waits for responses.           *)
LEMMA QuietOrder ==
    ASSUME IInv, IInv', OrderInv, Unanswered, FewerResponses,
           UNCHANGED <<index, incoming, shared>>,
           disturbed => disturbed', \A c \in open' : c \notin open => ~cancelled[c],
           open \subseteq open', \A c \in Convs : cancelled[c] => cancelled'[c],
           ~disturbed' => \A w \in Waits : Live(w) /\ wait[w].kind = "response" => Live(w)',
           ChecksOK'
    PROVE  OrderInv'
<1>1. ConvTypes /\ ChatTypes /\ WaitTypes /\ EntriesOK
  BY TypeParts DEF IInv, WaitPart
<1>2. ConvTypes' /\ ChatTypes'
  BY DEF IInv, TypeOK, ConvTypes, ChatTypes
<1>3. UpToOK' /\ OnceOK' /\ OpenOK' /\ ClosedOK'
  BY <1>1, <1>2, Answerless, OrderKept DEF OrderInv, ChatTypes
<1>4. FirstOK'
  BY DEF OrderInv, FirstOK
<1>5. ASSUME NEW c \in Convs, NEW t \in Messages, table'[c]["response"][t] # None
      PROVE  /\ table'[c]["response"][t] = table[c]["response"][t]
             /\ table[c]["response"][t] \in Waits
             /\ wait[table[c]["response"][t]].kind = "response"
  BY <1>1, <1>5 DEF FewerResponses, ConvTypes, EntriesOK, Tables
<1>6. DeadOK'
  <2> SUFFICES ASSUME NEW c \in Convs, c \notin open', NEW t \in Messages,
                      table'[c]["response"][t] # None
               PROVE  ~Live(table[c]["response"][t])'
    BY DEF DeadOK
  <2> DEFINE x == table[c]["response"][t]
  <2>1. x \in Waits /\ wait[x].kind = "response" /\ table'[c]["response"][t] = x
    BY <1>5
  <2>2. ~Live(x)
    BY <2>1 DEF OrderInv, DeadOK
  <2>3. wait[x].at # "free"
    BY <2>1 DEF IInv, WaitPart, WaitsOK
  <2>4. wait'[x] = wait[x]
    BY <2>1, <2>2, <2>3 DEF Unanswered
  <2> QED
    BY <2>1, <2>2, <2>4 DEF Live
<1>7. AliveOK'
  <2> SUFFICES ASSUME ~disturbed', NEW c \in open', NEW t \in Messages,
                      table'[c]["response"][t] # None
               PROVE  Live(table[c]["response"][t])'
    BY DEF AliveOK
  <2> DEFINE x == table[c]["response"][t]
  <2>1. c \in Convs
    BY <1>2 DEF ConvTypes
  <2>2. x \in Waits /\ wait[x].kind = "response" /\ table'[c]["response"][t] = x /\ x # None
    BY <1>5, <2>1
  <2>3. c \in open
    BY <2>1, <2>2 DEF IInv, FreshOK, Tables
  <2>4. Live(x)
    BY <2>2, <2>3 DEF OrderInv, AliveOK
  <2>5. Live(x)'
    BY <2>2, <2>4
  <2> QED
    BY <2>2, <2>5 DEF Live
<1> QED
  BY <1>3, <1>4, <1>6, <1>7 DEF OrderInv

(* The ends of waits.                                                       *)
LEMMA EndFacts ==
    ASSUME WaitTypes, NEW S, NEW end, NEW got, wait' = End(S, end, got)
    PROVE  \A w \in Waits :
              \/ wait'[w] = wait[w] /\ ~(w \in S /\ Live(w))
              \/ /\ w \in S /\ Live(w)
                 /\ wait'[w].at = end
                 /\ wait'[w].got = got
                 /\ wait'[w].conv = wait[w].conv
                 /\ wait'[w].kind = wait[w].kind
                 /\ wait'[w].target = wait[w].target
<1> SUFFICES ASSUME NEW w \in Waits
             PROVE  \/ wait'[w] = wait[w] /\ ~(w \in S /\ Live(w))
                    \/ /\ w \in S /\ Live(w)
                       /\ wait'[w].at = end
                       /\ wait'[w].got = got
                       /\ wait'[w].conv = wait[w].conv
                       /\ wait'[w].kind = wait[w].kind
                       /\ wait'[w].target = wait[w].target
  OBVIOUS
<1>1. wait'[w] = IF w \in S /\ Live(w) THEN [wait[w] EXCEPT !.at = end, !.got = got]
                                       ELSE wait[w]
  BY DEF End
<1>2. wait[w] \in Wait
  BY DEF WaitTypes
<1> DEFINE e == [wait[w] EXCEPT !.at = end, !.got = got]
<1>3. /\ e.at = end /\ e.got = got /\ e.conv = wait[w].conv
      /\ e.kind = wait[w].kind /\ e.target = wait[w].target
  BY <1>2 DEF Wait
<1> HIDE DEF e
<1>4. CASE w \in S /\ Live(w)
  BY <1>1, <1>3, <1>4 DEF e
<1>5. CASE ~(w \in S /\ Live(w))
  BY <1>1, <1>5
<1> QED
  BY <1>4, <1>5

LEMMA EndUnanswered ==
    ASSUME WaitTypes, NEW S, NEW end, NEW got, wait' = End(S, end, got),
           end # "result" \/ \A w \in S : w \in Waits => wait[w].kind # "response"
    PROVE  Unanswered
BY EndFacts DEF Unanswered

(* What is checked, after the steps of a dispatch.                          *)
LEMMA ChecksKept ==
    ASSUME IInv, ChecksOK,
           \A w \in Waits : wait[w].kind = "event" => wait'[w].kind = "event",
           \A u \in Updates : \A w \in flight'[u].checks :
              w \in flight[u].checks \/ \E c \in Convs : w \in custom[c]
    PROVE  ChecksOK'
<1>1. ConvTypes /\ FlightTypes /\ EventsOK
  BY TypeParts DEF IInv, WaitPart
<1> SUFFICES ASSUME NEW u \in Updates, NEW w \in flight'[u].checks
             PROVE  wait'[w].kind = "event"
  BY DEF ChecksOK
<1>2. CASE w \in flight[u].checks
  <2>1. w \in Waits
    BY <1>1, <1>2 DEF FlightTypes, Flight
  <2> QED
    BY <1>2, <2>1 DEF ChecksOK
<1>3. CASE \E c \in Convs : w \in custom[c]
  BY <1>1, <1>3 DEF EventsOK, ConvTypes
<1> QED
  BY <1>2, <1>3

LEMMA OverChecks ==
    ASSUME FlightTypes, NEW u \in Updates, NEW end \in {"handled", "broken"}, Over(u, end)
    PROVE  \A v \in Updates : \A w \in flight'[v].checks : w \in flight[v].checks
<1> DEFINE r == [NotYet EXCEPT !.at = end]
<1>1. r.checks = {}
  BY DEF NotYet
<1>2. flight' = [flight EXCEPT ![u] = r]
  BY DEF Over
<1> HIDE DEF r
<1> QED
  BY <1>1, <1>2 DEF FlightTypes

LEMMA ContinuesChecks ==
    ASSUME FlightTypes, NEW u \in Updates, NEW c \in Convs, Continues(u, c)
    PROVE  \A v \in Updates : \A w \in flight'[v].checks :
              w \in flight[v].checks \/ w \in custom[c]
<1> DEFINE r == [flight[u] EXCEPT
                   !.todo = flight[u].todo \ {c}, !.conv = c, !.checks = custom[c],
                   !.at = IF custom[c] = {} THEN "running" ELSE "waiting"]
<1>1. flight[u] \in Flight
  BY DEF FlightTypes
<1>2. r.checks = custom[c]
  BY <1>1 DEF Flight
<1>3. flight' = [flight EXCEPT ![u] = r]
  BY DEF Continues
<1> HIDE DEF r
<1> QED
  BY <1>2, <1>3 DEF FlightTypes

LEMMA ChecksOnChecks ==
    ASSUME FlightTypes, NEW u \in Updates, NEW w \in Waits, ChecksOn(u, w)
    PROVE  \A v \in Updates : \A x \in flight'[v].checks : x \in flight[v].checks
<1> DEFINE r == [flight[u] EXCEPT
                   !.checks = flight[u].checks \ {w},
                   !.at = IF flight[u].checks = {w} THEN "running" ELSE "waiting"]
<1>1. flight[u] \in Flight
  BY DEF FlightTypes
<1>2. r.checks = flight[u].checks \ {w}
  BY <1>1 DEF Flight
<1>3. flight' = [flight EXCEPT ![u] = r]
  BY DEF ChecksOn
<1> HIDE DEF r
<1> QED
  BY <1>2, <1>3 DEF FlightTypes

LEMMA StirredChecks ==
    ASSUME FlightTypes, Stirred
    PROVE  \A v \in Updates : \A x \in flight'[v].checks : x \in flight[v].checks
<1> SUFFICES ASSUME NEW v \in Updates PROVE flight'[v].checks = flight[v].checks
  OBVIOUS
<1> DEFINE b == flight[v].changed \/ flight[v].at = "waiting"
<1>1. flight'[v] = [flight[v] EXCEPT !.changed = b]
  BY DEF Stirred
<1>2. flight[v] \in Flight
  BY DEF FlightTypes
<1> HIDE DEF b
<1> QED
  BY <1>1, <1>2 DEF Flight

-----------------------------------------------------------------------------
(* The order through the steps of the holder.                               *)

LEMMA EnterOrder ==
    ASSUME IInv, IInv', OrderInv, NEW c \in Convs, Enter(c) PROVE OrderInv'
<1>1. ConvTypes /\ FlightTypes
  BY TypeParts DEF IInv
<1>2. Unanswered /\ FewerResponses
  BY DEF Unanswered, FewerResponses, Enter
<1>3. ChecksOK'
  BY <1>1, StirredChecks, ChecksKept DEF Enter, OrderInv
<1> QED
  BY <1>1, <1>2, <1>3, QuietOrder DEF Enter, Live

LEMMA ExitOrder ==
    ASSUME IInv, IInv', OrderInv, NEW c \in Convs, Exit(c) PROVE OrderInv'
<1>1. ConvTypes /\ ChatTypes /\ WaitTypes /\ FlightTypes /\ EntriesOK /\ EventsOK
  BY TypeParts DEF IInv, WaitPart
<1>2. ConvTypes' /\ ChatTypes'
  BY DEF IInv, TypeOK, ConvTypes, ChatTypes
<1>3. wait' = End(Futures(c), "cancelled", 0)
  BY DEF Exit, CancelAll
<1>4. Unanswered /\ FewerResponses
  <2>1. Unanswered
    BY <1>1, <1>3, EndUnanswered
  <2> QED
    BY <2>1 DEF FewerResponses, Exit
<1>5. \A w \in Waits :
         \/ wait'[w] = wait[w] /\ ~(w \in Futures(c) /\ Live(w))
         \/ w \in Futures(c) /\ Live(w) /\ wait'[w].at = "cancelled" /\ wait'[w].kind = wait[w].kind
  BY <1>1, <1>3, EndFacts
<1>6. open' = open \ {c} /\ table' = table /\ cancelled' = [cancelled EXCEPT ![c] = TRUE]
  BY DEF Exit, CancelAll
<1>7. UpToOK' /\ OnceOK' /\ OpenOK' /\ ClosedOK'
  BY <1>1, <1>2, <1>4, Answerless, OrderKept DEF OrderInv, ChatTypes, Exit
<1>8. ChecksOK'
  BY <1>1, <1>5, StirredChecks, ChecksKept DEF Exit, OrderInv
<1>9. FirstOK'
  <2>1. \A d \in Convs : d \notin open' /\ ~cancelled'[d] => d \notin open /\ ~cancelled[d]
    BY <1>1, <1>6 DEF ConvTypes
  <2> QED
    BY <2>1 DEF OrderInv, FirstOK, Exit
<1>10. DeadOK'
  <2> SUFFICES ASSUME NEW d \in Convs, d \notin open', NEW t \in Messages,
                      table[d]["response"][t] # None
               PROVE  ~Live(table[d]["response"][t])'
    BY <1>6 DEF DeadOK
  <2> DEFINE x == table[d]["response"][t]
  <2>1. x \in Waits /\ table'[d]["response"][t] = x
    BY <1>1, <1>6 DEF ConvTypes, Tables
  <2>2. wait'[x].at \notin {"pending", "unwatched"}
    <3>1. CASE d = c
      <4>1. x \in Futures(c)
        BY <3>1 DEF Futures, In
      <4> QED
        BY <1>5, <2>1, <4>1 DEF Live
    <3>2. CASE d # c
      <4>1. ~Live(x)
        BY <1>6, <3>2 DEF OrderInv, DeadOK
      <4> QED
        BY <1>5, <2>1, <4>1 DEF Live
    <3> QED
      BY <3>1, <3>2
  <2> QED
    BY <2>1, <2>2 DEF Live
<1>11. AliveOK'
  <2> SUFFICES ASSUME ~disturbed, NEW d \in open', NEW t \in Messages,
                      table[d]["response"][t] # None
               PROVE  Live(table[d]["response"][t])'
    BY <1>6 DEF AliveOK, Exit
  <2> DEFINE x == table[d]["response"][t]
  <2>1. d \in Convs /\ d \in open /\ d # c
    BY <1>1, <1>6 DEF ConvTypes
  <2>2. /\ x \in Waits /\ table'[d]["response"][t] = x /\ wait[x].conv = d
        /\ wait[x].kind = "response"
    BY <1>1, <1>6, <2>1 DEF ConvTypes, Tables, EntriesOK
  <2>3. Live(x)
    BY <2>1 DEF OrderInv, AliveOK
  <2>4. x \notin Futures(c)
    <3>1. ASSUME NEW w \in Futures(c) PROVE wait[w].conv = c
      BY <1>1 DEF Futures, In, ConvTypes, EntriesOK, EventsOK, Tables
    <3> QED
      BY <2>1, <2>2, <3>1
  <2>5. wait'[x] = wait[x]
    BY <1>5, <2>2, <2>4
  <2> QED
    BY <2>2, <2>3, <2>5 DEF Live
<1> QED
  BY <1>7, <1>8, <1>9, <1>10, <1>11 DEF OrderInv

LEMMA CancelOrder ==
    ASSUME IInv, IInv', OrderInv, NEW c \in Convs, Cancel(c) PROVE OrderInv'
<1>1. ConvTypes /\ WaitTypes
  BY TypeParts DEF IInv
<1>2. wait' = End(Futures(c), "cancelled", 0)
  BY DEF Cancel, CancelAll
<1>3. Unanswered /\ FewerResponses
  <2>1. Unanswered
    BY <1>1, <1>2, EndUnanswered
  <2> QED
    BY <2>1 DEF FewerResponses, Cancel
<1>4. \A w \in Waits : wait[w].kind = "event" => wait'[w].kind = "event"
  BY <1>1, <1>2, EndFacts
<1>5. ChecksOK'
  BY <1>4, ChecksKept DEF Cancel, OrderInv
<1>6. \A d \in Convs : cancelled[d] => cancelled'[d]
  BY <1>1 DEF Cancel, CancelAll, ConvTypes
<1> QED
  BY <1>3, <1>5, <1>6, QuietOrder DEF Cancel

LEMMA SendMessageOrder ==
    ASSUME IInv, IInv', OrderInv, SendMessage PROVE OrderInv'
<1>1. Unanswered /\ FewerResponses
  BY DEF Unanswered, FewerResponses, SendMessage, convVars
<1>2. ChecksOK'
  BY ChecksKept DEF SendMessage, OrderInv
<1> QED
  BY <1>1, <1>2, QuietOrder DEF SendMessage, convVars, Live

(* A wait for something else begins.                                        *)
LEMMA BeginsOrder ==
    ASSUME IInv, IInv', OrderInv, NEW w \in Waits, NEW r, wait[w].at = "free",
           wait' = [wait EXCEPT ![w] = r], r.kind # "response", FewerResponses,
           UNCHANGED <<shared, open, cancelled, incoming, index, flight, disturbed>>
    PROVE  OrderInv'
<1>1. WaitTypes /\ WaitsOK
  BY TypeParts DEF IInv, WaitPart
<1>2. wait'[w] = r /\ \A v \in Waits : v # w => wait'[v] = wait[v]
  BY <1>1 DEF WaitTypes
<1>3. wait[w].kind = "none"
  BY <1>1 DEF WaitsOK
<1>4. Unanswered
  BY <1>2 DEF Unanswered
<1>5. \A v \in Waits : wait[v].kind = "event" => wait'[v].kind = "event"
  BY <1>2, <1>3
<1>6. ChecksOK'
  BY <1>5, ChecksKept DEF OrderInv
<1>7. \A v \in Waits : Live(v) /\ wait[v].kind = "response" => Live(v)'
  BY <1>2, <1>3 DEF Live
<1> QED
  BY <1>4, <1>6, <1>7, QuietOrder

LEMMA WaitReadOrder ==
    ASSUME IInv, IInv', OrderInv, NEW w \in Waits, NEW c \in Convs, NEW t \in sent,
           WaitRead(w, c, t)
    PROVE  OrderInv'
<1> DEFINE r == [at |-> Awaited(c), conv |-> c, kind |-> "read", target |-> t, got |-> 0]
<1>1. ConvTypes /\ wait[w].at = "free" /\ wait' = [wait EXCEPT ![w] = r] /\ r.kind = "read"
  BY TypeParts DEF IInv, WaitRead
<1>2. table' = [table EXCEPT ![c]["read"][t] = w]
  BY DEF WaitRead
<1>3. FewerResponses
  BY <1>1, <1>2 DEF FewerResponses, ConvTypes, Tables
<1> HIDE DEF r
<1> QED
  BY <1>1, <1>3, BeginsOrder DEF WaitRead

LEMMA WaitEventOrder ==
    ASSUME IInv, IInv', OrderInv, NEW w \in Waits, NEW c \in Convs, WaitEvent(w, c)
    PROVE  OrderInv'
<1> DEFINE r == [at |-> "pending", conv |-> c, kind |-> "event", target |-> 0, got |-> 0]
<1>1. wait[w].at = "free" /\ wait' = [wait EXCEPT ![w] = r] /\ r.kind = "event"
  BY DEF WaitEvent
<1>2. FewerResponses
  BY DEF FewerResponses, WaitEvent
<1> HIDE DEF r
<1> QED
  BY <1>1, <1>2, BeginsOrder DEF WaitEvent

LEMMA TimesOutOrder ==
    ASSUME IInv, IInv', OrderInv, NEW w \in Waits, TimesOut(w) PROVE OrderInv'
<1>1. WaitTypes
  BY TypeParts DEF IInv
<1> DEFINE r == [wait[w] EXCEPT !.at = "cancelled"]
<1>2. wait[w] \in Wait /\ wait[w].at = "pending"
  BY <1>1 DEF WaitTypes, TimesOut
<1>3. /\ r.at = "cancelled" /\ r.conv = wait[w].conv
      /\ r.kind = wait[w].kind /\ r.target = wait[w].target
  BY <1>2 DEF Wait
<1>4. wait' = [wait EXCEPT ![w] = r]
  BY DEF TimesOut
<1> HIDE DEF r
<1>5. wait'[w] = r /\ \A v \in Waits : v # w => wait'[v] = wait[v]
  BY <1>1, <1>4 DEF WaitTypes
<1>6. Unanswered /\ FewerResponses
  BY <1>2, <1>3, <1>5 DEF Unanswered, Live, FewerResponses, TimesOut
<1>7. \A v \in Waits : wait[v].kind = "event" => wait'[v].kind = "event"
  BY <1>3, <1>5
<1>8. ChecksOK'
  BY <1>7, ChecksKept DEF OrderInv, TimesOut
<1> QED
  BY <1>6, <1>8, QuietOrder DEF TimesOut

LEMMA EventAwaitedOrder ==
    ASSUME IInv, IInv', OrderInv, NEW w \in Waits, EventAwaited(w) PROVE OrderInv'
<1>1. Unanswered /\ FewerResponses
  BY DEF Unanswered, FewerResponses, EventAwaited
<1>2. ChecksOK'
  BY ChecksKept DEF EventAwaited, OrderInv
<1> QED
  BY <1>1, <1>2, QuietOrder DEF EventAwaited, Live

(* The order through the steps of a dispatch that touch no conversation.    *)
LEMMA UntouchedOrder ==
    ASSUME IInv, IInv', OrderInv, UNCHANGED <<shared, convVars, wait, disturbed>>,
           \A v \in Updates : \A x \in flight'[v].checks : x \in flight[v].checks
    PROVE  OrderInv'
<1>1. Unanswered /\ FewerResponses
  BY DEF Unanswered, FewerResponses, convVars
<1>2. ChecksOK'
  BY ChecksKept DEF OrderInv
<1> QED
  BY <1>1, <1>2, QuietOrder DEF convVars, Live

LEMMA ArrivesOrder ==
    ASSUME IInv, IInv', OrderInv, NEW u \in Updates, NEW what \in Update, Arrives(u, what)
    PROVE  OrderInv'
<1> DEFINE r == [NotYet EXCEPT !.at = "running", !.update = what, !.todo = open,
                               !.size = Cardinality(open)]
<1>1. FlightTypes
  BY TypeParts DEF IInv
<1>2. r.checks = {}
  BY DEF NotYet
<1>3. flight' = [flight EXCEPT ![u] = r]
  BY DEF Arrives
<1> HIDE DEF r
<1>4. \A v \in Updates : \A x \in flight'[v].checks : x \in flight[v].checks
  BY <1>1, <1>2, <1>3 DEF FlightTypes
<1> QED
  BY <1>4, UntouchedOrder DEF Arrives

LEMMA EndedOrder ==
    ASSUME IInv, IInv', OrderInv, NEW u \in Updates, Notices(u) \/ Handle(u)
    PROVE  OrderInv'
<1>1. FlightTypes
  BY TypeParts DEF IInv
<1>2. \A v \in Updates : \A x \in flight'[v].checks : x \in flight[v].checks
  BY <1>1, OverChecks DEF Notices, Handle, Breaks
<1> QED
  BY <1>2, UntouchedOrder DEF Notices, Handle

LEMMA FilteredOrder ==
    ASSUME IInv, IInv', OrderInv, NEW u \in Updates, NEW w \in Waits, Filtered(u, w)
    PROVE  OrderInv'
<1>1. ConvTypes /\ WaitTypes /\ FlightTypes
  BY TypeParts DEF IInv
<1>2. wait[w].kind = "event"
  BY DEF Filtered, OrderInv, ChecksOK
<1>3. wait' = wait \/ wait' = End({w}, "result", 0)
  BY DEF Filtered
<1>4. ASSUME NEW v \in Waits
      PROVE  \/ wait'[v] = wait[v]
             \/ v = w /\ Live(v) /\ wait'[v].conv = wait[v].conv
                /\ wait'[v].kind = wait[v].kind /\ wait'[v].target = wait[v].target
  <2>1. CASE wait' = wait
    BY <2>1
  <2>2. CASE wait' = End({w}, "result", 0)
    BY <1>1, <2>2, EndFacts
  <2> QED
    BY <1>3, <2>1, <2>2
<1>5. Unanswered /\ FewerResponses
  BY <1>2, <1>4 DEF Unanswered, FewerResponses, Filtered
<1>6. \A v \in Updates : \A x \in flight'[v].checks : x \in flight[v].checks
  <2>1. CASE ChecksOn(u, w)
    BY <1>1, <2>1, ChecksOnChecks
  <2>2. CASE Breaks(u)
    BY <1>1, <2>2, OverChecks DEF Breaks
  <2> QED
    BY <2>1, <2>2 DEF Filtered
<1>7. ChecksOK'
  <2>1. \A v \in Waits : wait[v].kind = "event" => wait'[v].kind = "event"
    BY <1>4
  <2> QED
    BY <1>6, <2>1, ChecksKept DEF OrderInv
<1>8. \A v \in Waits : Live(v) /\ wait[v].kind = "response" => Live(v)'
  BY <1>2, <1>4 DEF Live
<1> QED
  BY <1>5, <1>7, <1>8, QuietOrder DEF Filtered

LEMMA GivenChecks ==
    ASSUME IInv, OrderInv, NEW u \in Updates, NEW c \in Convs, Continues(u, c) \/ Breaks(u),
           \A w \in Waits : wait[w].kind = "event" => wait'[w].kind = "event"
    PROVE  ChecksOK'
<1>1. FlightTypes
  BY TypeParts DEF IInv
<1>2. \A v \in Updates : \A w \in flight'[v].checks : w \in flight[v].checks \/ w \in custom[c]
  BY <1>1, OverChecks, ContinuesChecks DEF Breaks
<1> QED
  BY <1>2, ChecksKept DEF OrderInv

LEMMA OverflowsOrder ==
    ASSUME IInv, IInv', OrderInv, NEW u \in Updates, NEW c \in Convs, Serve(u, c),
           Overflows(u, c)
    PROVE  OrderInv'
<1>1. ConvTypes /\ WaitTypes
  BY TypeParts DEF IInv
<1>2. PICK S \in Reached(c) : wait' = End(S, "error", 0)
  BY DEF Overflows
<1>3. Unanswered /\ FewerResponses
  <2>1. Unanswered
    BY <1>1, <1>2, EndUnanswered
  <2> QED
    BY <2>1 DEF FewerResponses, Overflows
<1>4. \A w \in Waits : wait[w].kind = "event" => wait'[w].kind = "event"
  BY <1>1, <1>2, EndFacts
<1>5. ChecksOK'
  <2>1. Continues(u, c) \/ Breaks(u)
    BY DEF Overflows
  <2> QED
    BY <1>4, <2>1, GivenChecks
<1>6. \A d \in Convs : cancelled[d] => cancelled'[d]
  BY <1>1 DEF Overflows, ConvTypes
<1>7. UNCHANGED <<shared, open, incoming, index>> /\ disturbed' = TRUE
  BY DEF Serve, Overflows
<1> QED
  BY <1>3, <1>5, <1>6, <1>7, QuietOrder

LEMMA ReadsOrder ==
    ASSUME IInv, IInv', OrderInv, NEW u \in Updates, NEW c \in Convs, Serve(u, c),
           Reads(u, c), UNCHANGED <<cancelled, incoming, index, disturbed>>
    PROVE  OrderInv'
<1> DEFINE due == {t \in Messages : table[c]["read"][t] # None /\ t >= flight[u].update.id}
<1>1. ConvTypes /\ WaitTypes /\ EntriesOK /\ "read" \in Tables
  BY TypeParts DEF IInv, WaitPart, Tables
<1>2. PICK S \in SUBSET due :
         /\ wait' = End({table[c]["read"][t] : t \in S}, "result", flight[u].update.id)
         /\ table' = [table EXCEPT ![c]["read"] = Removed(table[c]["read"], S)]
  BY DEF Reads
<1> DEFINE E == {table[c]["read"][t] : t \in S}
<1>3. \A w \in E : wait[w].kind = "read"
  BY <1>1 DEF EntriesOK
<1>4. wait' = End(E, "result", flight[u].update.id)
  BY <1>2
<1> HIDE DEF E
<1>5. Unanswered
  BY <1>1, <1>3, <1>4, EndUnanswered
<1>6. FewerResponses
  BY <1>1, <1>2 DEF FewerResponses, ConvTypes, Tables
<1>7. /\ \A w \in Waits : wait[w].kind = "event" => wait'[w].kind = "event"
      /\ \A w \in Waits : Live(w) /\ wait[w].kind = "response" => Live(w)'
  <2>1. \A w \in Waits : wait'[w].kind = wait[w].kind /\ (w \notin E => wait'[w] = wait[w])
    BY <1>1, <1>4, EndFacts
  <2> QED
    BY <1>3, <2>1 DEF Live
<1>8. ChecksOK'
  <2>1. Continues(u, c) \/ Breaks(u)
    BY DEF Reads
  <2> QED
    BY <1>7, <2>1, GivenChecks
<1>9. UNCHANGED <<shared, open>>
  BY DEF Serve
<1> QED
  BY <1>5, <1>6, <1>7, <1>8, <1>9, QuietOrder

LEMMA TakenAlive ==
    ASSUME NEW c, NEW k, NEW m, NEW r \in Taken(c, k, m)
    PROVE  /\ r.set \subseteq Answered(c, k, m) \ DeadOf(c, k, m)
           /\ DeadOf(c, k, m) = {} => r.set = Answered(c, k, m) /\ r.dead = {}
<1>1. CASE DeadOf(c, k, m) = {}
  <2>1. r = [set |-> Answered(c, k, m), dead |-> {}]
    BY <1>1 DEF Taken
  <2> QED
    BY <1>1, <2>1
<1>2. CASE DeadOf(c, k, m) # {}
  <2>1. PICK S \in SUBSET (Answered(c, k, m) \ DeadOf(c, k, m)), t \in DeadOf(c, k, m) :
           r = [set |-> S, dead |-> {t}]
    BY <1>2 DEF Taken
  <2> QED
    BY <1>2, <2>1
<1> QED
  BY <1>1, <1>2

(* What Receives does to the answers: R are the messages whose future for a *)
(* response is set, D those whose index moves all the same.                 *)
ReceivedBy(c, m, R, D, P) ==
    LET n == Len(incoming[c]) + 1
    IN  /\ \A t \in R : table[c]["response"][t] # None /\ Live(table[c]["response"][t])
        /\ \A t \in D : \E k \in {"response", "reply"} : table[c][k][t] # None
        /\ AliveOK /\ ~disturbed /\ c \in open =>
              /\ \A t \in Messages : table[c]["response"][t] # None => t \in R
              /\ \A t \in D : t \in R \/ (shared /\ table[c]["reply"][t] # None)
        /\ \A t \in P : table[c]["reply"][t] # None
        /\ R \subseteq D /\ D \subseteq Messages /\ P \subseteq Messages
        /\ incoming' = [incoming EXCEPT ![c] = Append(incoming[c], m)]
        /\ \A d \in Convs : \A t \in Messages :
              /\ index'[d]["response"][t] = IF d = c /\ t \in D THEN n ELSE index[d]["response"][t]
              /\ table'[d]["response"][t] =
                    IF d = c /\ t \in R THEN None ELSE table[d]["response"][t]
        /\ wait' = End({table[c]["response"][t] : t \in R} \cup {table[c]["reply"][t] : t \in P},
                       "result", n)

LEMMA ReceivesFacts ==
    ASSUME IInv, NEW u \in Updates, NEW c \in Convs, Receives(u, c)
    PROVE  /\ Continues(u, c) \/ Breaks(u)
           /\ \E R, D, P : ReceivedBy(c, [id |-> flight[u].update.id,
                                          replies |-> flight[u].update.replies], R, D, P)
<1> DEFINE m == [id |-> flight[u].update.id, replies |-> flight[u].update.replies]
           n == Len(incoming[c]) + 1
<1>1. ConvTypes
  BY TypeParts DEF IInv
<1>2. incoming' = [incoming EXCEPT ![c] = Append(incoming[c], m)]
  BY DEF Receives
<1>3. PICK r \in Taken(c, "response", m) :
         \E p \in IF r.dead = {} THEN Taken(c, "reply", m) ELSE {Nobody} :
           LET seen(k) == IF k = "response"
                          THEN r.set \cup r.dead \cup IF shared THEN p.set \cup p.dead ELSE {}
                          ELSE IF shared THEN {} ELSE p.set \cup p.dead
               set(k) == IF k = "response" THEN r.set ELSE IF k = "reply" THEN p.set ELSE {}
           IN  /\ index' = [index EXCEPT ![c] = [k \in {"response", "reply"} |->
                      [t \in Messages |-> IF t \in seen(k) THEN n ELSE index[c][k][t]]]]
               /\ wait' = End({table[c].response[t] : t \in r.set}
                              \cup {table[c].reply[t] : t \in p.set}, "result", n)
               /\ table' = [table EXCEPT ![c] = [k \in Tables |->
                      Removed(table[c][k], set(k))]]
               /\ IF r.dead \cup p.dead = {} THEN Continues(u, c) ELSE Breaks(u)
  BY DEF Receives
<1>4. PICK p \in IF r.dead = {} THEN Taken(c, "reply", m) ELSE {Nobody} :
           LET seen(k) == IF k = "response"
                          THEN r.set \cup r.dead \cup IF shared THEN p.set \cup p.dead ELSE {}
                          ELSE IF shared THEN {} ELSE p.set \cup p.dead
               set(k) == IF k = "response" THEN r.set ELSE IF k = "reply" THEN p.set ELSE {}
           IN  /\ index' = [index EXCEPT ![c] = [k \in {"response", "reply"} |->
                      [t \in Messages |-> IF t \in seen(k) THEN n ELSE index[c][k][t]]]]
               /\ wait' = End({table[c].response[t] : t \in r.set}
                              \cup {table[c].reply[t] : t \in p.set}, "result", n)
               /\ table' = [table EXCEPT ![c] = [k \in Tables |->
                      Removed(table[c][k], set(k))]]
               /\ IF r.dead \cup p.dead = {} THEN Continues(u, c) ELSE Breaks(u)
  BY <1>3
<1> DEFINE D == r.set \cup r.dead \cup IF shared THEN p.set \cup p.dead ELSE {}
           I == [k \in {"response", "reply"} |->
                   [t \in Messages |->
                      IF t \in IF k = "response" THEN D
                               ELSE IF shared THEN {} ELSE p.set \cup p.dead
                      THEN n ELSE index[c][k][t]]]
           B == [k \in Tables |-> [t \in Messages |->
                   IF t \in IF k = "response" THEN r.set
                            ELSE IF k = "reply" THEN p.set ELSE {}
                   THEN None ELSE table[c][k][t]]]
<1>5. /\ index' = [index EXCEPT ![c] = I]
      /\ wait' = End({table[c]["response"][t] : t \in r.set}
                     \cup {table[c]["reply"][t] : t \in p.set}, "result", n)
      /\ table' = [table EXCEPT ![c] = B]
      /\ IF r.dead \cup p.dead = {} THEN Continues(u, c) ELSE Breaks(u)
  BY <1>4 DEF Removed
<1>6. /\ r.set \subseteq Answered(c, "response", m) \ DeadOf(c, "response", m)
      /\ r.dead \subseteq DeadOf(c, "response", m)
      /\ p.set \subseteq Answered(c, "reply", m) /\ p.dead \subseteq DeadOf(c, "reply", m)
      /\ DeadOf(c, "response", m) = {} => r.set = Answered(c, "response", m) /\ r.dead = {}
  <2>1. /\ r.set \subseteq Answered(c, "response", m) \ DeadOf(c, "response", m)
        /\ r.dead \subseteq DeadOf(c, "response", m)
        /\ DeadOf(c, "response", m) = {} => r.set = Answered(c, "response", m) /\ r.dead = {}
    BY TakenFacts, TakenAlive
  <2>2. CASE r.dead = {}
    <3>1. p \in Taken(c, "reply", m)
      BY <1>4, <2>2
    <3> QED
      BY <2>1, <3>1, TakenFacts
  <2>3. CASE r.dead # {}
    <3>1. p = Nobody
      BY <1>4, <2>3
    <3> QED
      BY <2>1, <3>1 DEF Nobody
  <2> QED
    BY <2>2, <2>3
<1> HIDE DEF m, n
<1>7. \A t \in r.set : table[c]["response"][t] # None /\ Live(table[c]["response"][t])
  BY <1>6 DEF Answered, DeadOf
<1>8. \A t \in D : \E k \in {"response", "reply"} : table[c][k][t] # None
  BY <1>6 DEF Answered, DeadOf
<1>9. ASSUME AliveOK, ~disturbed, c \in open
      PROVE  /\ \A t \in Messages : table[c]["response"][t] # None => t \in r.set
             /\ \A t \in D : t \in r.set \/ (shared /\ table[c]["reply"][t] # None)
  <2>1. DeadOf(c, "response", m) = {}
    BY <1>9 DEF AliveOK, DeadOf, Answered
  <2>2. r.set = Answered(c, "response", m) /\ r.dead = {}
    BY <1>6, <2>1
  <2> QED
    BY <1>6, <2>2 DEF Answered, DeadOf, Meets
<1>10. /\ \A t \in p.set : table[c]["reply"][t] # None
       /\ r.set \subseteq D /\ D \subseteq Messages /\ p.set \subseteq Messages
  BY <1>6 DEF Answered, DeadOf
<1> HIDE DEF D
<1>11. \A t \in Messages : /\ I["response"][t] = IF t \in D THEN n ELSE index[c]["response"][t]
                           /\ B["response"][t] = IF t \in r.set THEN None
                                                 ELSE table[c]["response"][t]
  BY DEF Tables
<1> HIDE DEF I, B
<1>12. \A d \in Convs : \A t \in Messages :
          /\ index'[d]["response"][t] = IF d = c /\ t \in D THEN n ELSE index[d]["response"][t]
          /\ table'[d]["response"][t] =
                IF d = c /\ t \in r.set THEN None ELSE table[d]["response"][t]
  <2>1. /\ index'[c] = I /\ table'[c] = B
        /\ \A d \in Convs : d # c => index'[d] = index[d] /\ table'[d] = table[d]
    BY <1>1, <1>5 DEF ConvTypes
  <2> QED
    BY <1>11, <2>1
<1>13. ReceivedBy(c, m, r.set, D, p.set)
  BY <1>2, <1>5, <1>7, <1>8, <1>9, <1>10, <1>12 DEF ReceivedBy, n
<1>14. Continues(u, c) \/ Breaks(u)
  BY <1>5
<1> QED
  BY <1>13, <1>14 DEF m

LEMMA ReceivedWaits ==
    ASSUME IInv, NEW c \in Convs, NEW m, NEW R, NEW D, NEW P, ReceivedBy(c, m, R, D, P)
    PROVE  \A w \in Waits :
              \/ /\ wait'[w] = wait[w]
                 /\ \A t \in R : w # table[c]["response"][t]
              \/ /\ Live(w) /\ wait[w].conv = c
                 /\ wait'[w].conv = wait[w].conv
                 /\ wait'[w].kind = wait[w].kind
                 /\ wait'[w].target = wait[w].target
                 /\ wait'[w].at = "result" /\ wait'[w].got = Len(incoming[c]) + 1
                 /\ wait[w].kind = "response" =>
                       wait[w].target \in R /\ w = table[c]["response"][wait[w].target]
                 /\ wait[w].kind \in {"response", "reply"}
<1>1. ConvTypes /\ WaitTypes /\ EntriesOK
  BY TypeParts DEF IInv, WaitPart
<1> DEFINE n == Len(incoming[c]) + 1
           E == {table[c]["response"][t] : t \in R} \cup {table[c]["reply"][t] : t \in P}
<1>2. /\ wait' = End(E, "result", n)
      /\ R \subseteq Messages /\ P \subseteq Messages
      /\ \A t \in R : table[c]["response"][t] # None /\ Live(table[c]["response"][t])
      /\ \A t \in P : table[c]["reply"][t] # None
  BY DEF ReceivedBy
<1>3. ASSUME NEW w \in E
      PROVE  /\ wait[w].conv = c /\ wait[w].kind \in {"response", "reply"}
             /\ wait[w].kind = "response" =>
                   wait[w].target \in R /\ w = table[c]["response"][wait[w].target]
  <2>1. ASSUME NEW t \in R, w = table[c]["response"][t]
        PROVE  wait[w].conv = c /\ wait[w].kind = "response" /\ wait[w].target = t
    BY <1>1, <1>2, <2>1 DEF EntriesOK, Tables
  <2>2. ASSUME NEW t \in P, w = table[c]["reply"][t]
        PROVE  wait[w].conv = c /\ wait[w].kind = "reply"
    BY <1>1, <1>2, <2>2 DEF EntriesOK, Tables
  <2>3. (\E t \in R : w = table[c]["response"][t]) \/ (\E t \in P : w = table[c]["reply"][t])
    OBVIOUS
  <2> HIDE DEF E
  <2> QED
    BY <2>1, <2>2, <2>3
<1>4. \A t \in R : table[c]["response"][t] \in E /\ Live(table[c]["response"][t])
  BY <1>2
<1> HIDE DEF E
<1>5. \A w \in Waits :
         \/ wait'[w] = wait[w] /\ ~(w \in E /\ Live(w))
         \/ /\ w \in E /\ Live(w)
            /\ wait'[w].at = "result"
            /\ wait'[w].got = n
            /\ wait'[w].conv = wait[w].conv
            /\ wait'[w].kind = wait[w].kind
            /\ wait'[w].target = wait[w].target
  BY <1>1, <1>2, EndFacts
<1> HIDE DEF n
<1> QED
  BY <1>3, <1>4, <1>5 DEF n

LEMMA ReceivesOrder ==
    ASSUME IInv, IInv', OrderInv, NEW u \in Updates, NEW c \in Convs, Serve(u, c),
           flight[u].update.kind = "message", Receives(u, c)
    PROVE  OrderInv'
<1> DEFINE m == [id |-> flight[u].update.id, replies |-> flight[u].update.replies]
           n == Len(incoming[c]) + 1
<1>1. ConvTypes /\ ChatTypes /\ WaitTypes /\ FlightTypes /\ EntriesOK
  BY TypeParts DEF IInv, WaitPart
<1>2. ConvTypes' /\ ChatTypes'
  BY DEF IInv, TypeOK, ConvTypes, ChatTypes
<1>3. m \in Message
  <2>1. flight[u].update \in Update /\ flight[u].update.id \in Messages
    BY <1>1 DEF FlightTypes, Flight, IInv, UpdatesOK
  <2> QED
    BY <2>1 DEF Update, Message
<1>4. UNCHANGED <<shared, open, cancelled, disturbed>>
  BY DEF Serve, Receives
<1>5. Continues(u, c) \/ Breaks(u)
  BY ReceivesFacts
<1>6. PICK R, D, P : ReceivedBy(c, m, R, D, P)
  BY ReceivesFacts
<1> HIDE DEF m
<1>7. \A w \in Waits :
         \/ /\ wait'[w] = wait[w]
            /\ \A t \in R : w # table[c]["response"][t]
         \/ /\ Live(w) /\ wait[w].conv = c
            /\ wait'[w].conv = wait[w].conv
            /\ wait'[w].kind = wait[w].kind
            /\ wait'[w].target = wait[w].target
            /\ wait'[w].at = "result" /\ wait'[w].got = n
            /\ wait[w].kind = "response" =>
                  wait[w].target \in R /\ w = table[c]["response"][wait[w].target]
            /\ wait[w].kind \in {"response", "reply"}
  BY <1>6, ReceivedWaits
<1>8. /\ \A t \in R : table[c]["response"][t] # None /\ Live(table[c]["response"][t])
      /\ \A t \in D : \E k \in {"response", "reply"} : table[c][k][t] # None
      /\ AliveOK /\ ~disturbed /\ c \in open =>
            /\ \A t \in Messages : table[c]["response"][t] # None => t \in R
            /\ \A t \in D : t \in R \/ (shared /\ table[c]["reply"][t] # None)
      /\ R \subseteq D /\ D \subseteq Messages
      /\ incoming' = [incoming EXCEPT ![c] = Append(incoming[c], m)]
      /\ \A d \in Convs : \A t \in Messages :
            /\ index'[d]["response"][t] = IF d = c /\ t \in D THEN n ELSE index[d]["response"][t]
            /\ table'[d]["response"][t] =
                  IF d = c /\ t \in R THEN None ELSE table[d]["response"][t]
  BY <1>6 DEF ReceivedBy
<1>9. /\ Len(incoming[c]) \in Nat /\ n \in Nat /\ Len(incoming'[c]) = n
      /\ \A i \in 1..Len(incoming[c]) : incoming'[c][i] = incoming[c][i]
      /\ \A d \in Convs : d # c => incoming'[d] = incoming[d]
  <2>1. incoming[c] \in Seq(Message)
    BY <1>1 DEF ConvTypes
  <2> DEFINE a == Append(incoming[c], m)
  <2>2. /\ Len(a) = n /\ Len(incoming[c]) \in Nat
        /\ \A i \in 1..Len(incoming[c]) : a[i] = incoming[c][i]
    BY <1>3, <2>1, AppendProperties, LenProperties
  <2>3. incoming' = [incoming EXCEPT ![c] = a]
    BY <1>8
  <2> HIDE DEF a
  <2>4. incoming'[c] = a /\ \A d \in Convs : d # c => incoming'[d] = incoming[d]
    BY <1>1, <2>3 DEF ConvTypes
  <2> QED
    BY <2>2, <2>4
<1>10. ASSUME NEW d \in Convs, NEW t \in Messages
       PROVE  /\ d # c \/ t \notin R => Got(d, "response", t)' = Got(d, "response", t)
              /\ Asked(d, "reply", t) \subseteq Asked(d, "reply", t)'
  <2>1. ASSUME NEW w \in Waits
        PROVE  /\ w \in Asked(d, "reply", t) => w \in Asked(d, "reply", t)'
               /\ d # c \/ t \notin R =>
                     (w \in Got(d, "response", t)' <=> w \in Got(d, "response", t))
    <3>1. CASE wait'[w] = wait[w]
      BY <3>1 DEF Got, Asked
    <3>2. CASE /\ Live(w) /\ wait[w].conv = c
               /\ wait'[w].conv = wait[w].conv
               /\ wait'[w].kind = wait[w].kind
               /\ wait'[w].target = wait[w].target
               /\ wait[w].kind = "response" => wait[w].target \in R
      BY <3>2 DEF Got, Asked, Live
    <3> QED
      BY <1>7, <3>1, <3>2
  <2> QED
    BY <2>1 DEF Got, Asked
<1>11. ASSUME NEW t \in R
       PROVE  LET w == table[c]["response"][t]
              IN  /\ w \in Waits \ Got(c, "response", t)
                  /\ Got(c, "response", t)' = Got(c, "response", t) \cup {w}
                  /\ wait'[w].got = n
                  /\ c \in open
  <2> DEFINE w == table[c]["response"][t]
  <2>1. t \in Messages /\ w # None /\ Live(w) /\ w \in Waits
    BY <1>1, <1>8 DEF ConvTypes, Tables
  <2>2. wait[w].conv = c /\ wait[w].kind = "response" /\ wait[w].target = t
    BY <1>1, <2>1 DEF EntriesOK, Tables
  <2>3. w \notin Got(c, "response", t)
    BY <2>1 DEF Got, Live
  <2>4. /\ wait'[w].conv = c /\ wait'[w].kind = "response" /\ wait'[w].target = t
        /\ wait'[w].at = "result" /\ wait'[w].got = n
    <3>1. \E s \in R : w = table[c]["response"][s]
      OBVIOUS
    <3> HIDE DEF w
    <3> QED
      BY <1>7, <2>1, <2>2, <3>1
  <2>5. c \in open
    BY <2>1 DEF OrderInv, DeadOK
  <2>6. ASSUME NEW v \in Waits
        PROVE  v \in Got(c, "response", t)' <=> v \in Got(c, "response", t) \cup {w}
    <3>1. CASE v = w
      BY <2>1, <2>4, <3>1 DEF Got, Asked
    <3>2. CASE v # w /\ wait'[v] = wait[v]
      BY <3>2 DEF Got, Asked
    <3>3. CASE /\ v # w
               /\ Live(v)
               /\ wait'[v].conv = wait[v].conv
               /\ wait'[v].kind = wait[v].kind
               /\ wait'[v].target = wait[v].target
               /\ wait[v].kind = "response" => v = table[c]["response"][wait[v].target]
      BY <3>3 DEF Got, Asked, Live
    <3> QED
      BY <1>7, <3>1, <3>2, <3>3
  <2>7. Got(c, "response", t)' = Got(c, "response", t) \cup {w}
    <3>1. /\ \A v \in Got(c, "response", t)' : v \in Waits
          /\ \A v \in Got(c, "response", t) : v \in Waits
      BY DEF Got, Asked
    <3> HIDE DEF w
    <3> QED
      BY <2>1, <2>6, <3>1
  <2> QED
    BY <2>1, <2>3, <2>4, <2>5, <2>7
<1>12. Grows
  <2>1. \A w \in Waits : wait[w].at = "result" => wait'[w].got = wait[w].got
    BY <1>7 DEF Live
  <2>2. ASSUME NEW d \in Convs
        PROVE  /\ Len(incoming[d]) <= Len(incoming'[d])
               /\ \A i \in 1..Len(incoming[d]) : incoming'[d][i] = incoming[d][i]
    <3>1. Len(incoming[d]) \in Nat
      BY <1>1, LenProperties DEF ConvTypes
    <3> QED
      BY <1>9, <3>1
  <2> QED
    BY <1>4, <1>10, <2>1, <2>2 DEF Grows
<1>13. ASSUME NEW d \in Convs, NEW t \in Messages
       PROVE  Moves(d, t)
  <2>1. /\ index[d]["response"][t] \in Int /\ index[d]["response"][t] <= Len(incoming[d])
        /\ Len(incoming[d]) \in Nat
    <3>1. index[d]["response"][t] \in -1..MaxIncoming
      BY <1>1 DEF ConvTypes
    <3>2. Len(incoming[d]) \in Nat
      BY <1>1, LenProperties DEF ConvTypes
    <3> QED
      BY <3>1, <3>2, IncomingAssumption DEF OrderInv, UpToOK
  <2>2. Alone(d, t)' => Alone(d, t)
    BY <1>4, <1>10 DEF Alone
  <2>3. CASE d # c
    <3>1. /\ index'[d]["response"][t] = index[d]["response"][t]
          /\ table'[d]["response"][t] = table[d]["response"][t]
          /\ incoming'[d] = incoming[d]
          /\ Got(d, "response", t)' = Got(d, "response", t)
      BY <1>8, <1>9, <1>10, <2>3
    <3>2. d \in open /\ Alone(d, t) /\ table[d]["response"][t] # None =>
             index[d]["response"][t] = Len(incoming[d])
      BY DEF OrderInv, OpenOK
    <3> QED
      BY <1>4, <2>1, <2>2, <3>1, <3>2 DEF Moves
  <2>4. CASE d = c /\ t \in R
    <3>1. index'[c]["response"][t] = n /\ table'[c]["response"][t] = None
      BY <1>8, <2>4
    <3>2. c \in open /\ table[c]["response"][t] # None
      BY <1>8, <1>11, <2>4
    <3>3. /\ \E w \in Waits \ Got(c, "response", t) :
                /\ Got(c, "response", t)' = Got(c, "response", t) \cup {w}
                /\ wait'[w].got = n
          /\ \E w \in Got(c, "response", t)' : wait'[w].got = n
      BY <1>11, <2>4
    <3>4. ASSUME Alone(c, t)' PROVE index[c]["response"][t] = n - 1
      BY <1>9, <2>2, <2>4, <3>2, <3>4 DEF OrderInv, OpenOK
    <3>5. ASSUME Alone(c, t)', NEW i \in 1..n
          PROVE  i <= index[c]["response"][t]
                 \/ \E w \in Got(c, "response", t)' : wait'[w].got = i
      BY <1>9, <3>3, <3>4, <3>5
    <3> HIDE DEF n
    <3>6. n >= 1 /\ index[c]["response"][t] < n
      BY <1>9, <2>1, <2>4 DEF n
    <3>7. /\ c \in open'
          /\ index[c]["response"][t] < index'[c]["response"][t]
          /\ index'[c]["response"][t] >= 1
          /\ index[c]["response"][t] <= index'[c]["response"][t]
          /\ index'[c]["response"][t] <= Len(incoming'[c])
          /\ table'[c]["response"][t] # None =>
                index'[c]["response"][t] = Len(incoming'[c])
      BY <1>4, <1>9, <2>1, <2>4, <3>1, <3>2, <3>6
    <3>8. \E w \in Waits \ Got(c, "response", t) :
             /\ Got(c, "response", t)' = Got(c, "response", t) \cup {w}
             /\ wait'[w].got = index'[c]["response"][t]
      BY <3>1, <3>3
    <3>9. Alone(c, t)' => \A i \in 1..index'[c]["response"][t] :
             \/ i <= index[c]["response"][t]
             \/ \E w \in Got(c, "response", t)' : wait'[w].got = i
      BY <3>1, <3>5
    <3> QED
      BY <2>4, <3>7, <3>8, <3>9 DEF Moves
  <2>5. CASE d = c /\ t \notin R
    <3>1. /\ Got(c, "response", t)' = Got(c, "response", t)
          /\ table'[c]["response"][t] = table[c]["response"][t]
          /\ index'[c]["response"][t] = index[c]["response"][t]
                \/ (t \in D /\ index'[c]["response"][t] = n)
      BY <1>8, <1>10, <2>5
    <3>2. ASSUME c \in open, Alone(c, t)'
          PROVE  /\ index'[c]["response"][t] = index[c]["response"][t]
                 /\ table'[c]["response"][t] = None
      <4>1. Alone(c, t)
        BY <2>2, <2>5, <3>2
      <4>2. shared => table[c]["reply"][t] = None
        <5> SUFFICES ASSUME shared, table[c]["reply"][t] # None PROVE FALSE
          OBVIOUS
        <5>1. table[c]["reply"][t] \in Waits
          BY <1>1 DEF ConvTypes, Tables
        <5>2. table[c]["reply"][t] \in Asked(c, "reply", t)
          BY <1>1, <5>1 DEF EntriesOK, Asked, Tables
        <5> QED
          BY <4>1, <5>2 DEF Alone
      <4> QED
        BY <1>8, <2>5, <3>1, <3>2, <4>1, <4>2 DEF Alone, OrderInv
    <3>3. index[c]["response"][t] <= n
      BY <2>1, <2>5
    <3>4. index'[c]["response"][t] \in Int /\ n \in Int
      BY <1>9, <2>1, <2>5, <3>1
    <3> HIDE DEF n
    <3> QED
      BY <1>4, <1>9, <2>1, <2>5, <3>1, <3>2, <3>3, <3>4 DEF Moves
  <2> QED
    BY <2>3, <2>4, <2>5
<1>14. UpToOK' /\ OnceOK' /\ OpenOK' /\ ClosedOK'
  BY <1>1, <1>2, <1>4, <1>12, <1>13, OrderKept DEF OrderInv, ChatTypes
<1>15. ChecksOK'
  <2>1. \A w \in Waits : wait[w].kind = "event" => wait'[w].kind = "event"
    BY <1>7
  <2> QED
    BY <1>5, <2>1, GivenChecks
<1>16. FirstOK'
  <2> SUFFICES ASSUME NEW d \in Convs, d \notin open, ~cancelled[d], NEW t \in Messages
               PROVE  index'[d]["response"][t] = -1
    BY <1>4 DEF FirstOK
  <2>1. ~(d = c /\ t \in D)
    BY <1>8 DEF IInv, FreshOK, Tables
  <2> QED
    BY <1>8, <2>1 DEF OrderInv, FirstOK
<1>17. ASSUME NEW d \in Convs, NEW t \in Messages, table'[d]["response"][t] # None
       PROVE  LET x == table[d]["response"][t]
              IN  x # None /\ x \in Waits /\ table'[d]["response"][t] = x /\ wait'[x] = wait[x]
  <2> DEFINE x == table[d]["response"][t]
  <2>1. x # None /\ x \in Waits /\ table'[d]["response"][t] = x /\ ~(d = c /\ t \in R)
    BY <1>1, <1>8, <1>17 DEF ConvTypes, Tables
  <2>2. wait[x].conv = d /\ wait[x].kind = "response" /\ wait[x].target = t
    BY <1>1, <2>1 DEF EntriesOK, Tables
  <2>3. wait'[x] = wait[x]
    <3> HIDE DEF x
    <3> QED
      BY <1>7, <2>1, <2>2
  <2> QED
    BY <2>1, <2>3
<1>18. DeadOK'
  <2> SUFFICES ASSUME NEW d \in Convs, d \notin open, NEW t \in Messages,
                      table'[d]["response"][t] # None
               PROVE  ~Live(table[d]["response"][t])'
    BY <1>4 DEF DeadOK
  <2> DEFINE x == table[d]["response"][t]
  <2>1. x # None /\ table'[d]["response"][t] = x /\ wait'[x] = wait[x]
    BY <1>17
  <2>2. ~Live(x)
    BY <2>1 DEF OrderInv, DeadOK
  <2> QED
    BY <2>1, <2>2 DEF Live
<1>19. AliveOK'
  <2> SUFFICES ASSUME ~disturbed, NEW d \in open, NEW t \in Messages,
                      table'[d]["response"][t] # None
               PROVE  Live(table[d]["response"][t])'
    BY <1>4 DEF AliveOK
  <2> DEFINE x == table[d]["response"][t]
  <2>1. d \in Convs
    BY <1>1 DEF ConvTypes
  <2>2. x # None /\ table'[d]["response"][t] = x /\ wait'[x] = wait[x]
    BY <1>17, <2>1
  <2>3. Live(x)
    BY <2>2 DEF OrderInv, AliveOK
  <2> QED
    BY <2>2, <2>3 DEF Live
<1> QED
  BY <1>14, <1>15, <1>16, <1>18, <1>19 DEF OrderInv

LEMMA StartAtOlder ==
    ASSUME ConvTypes, NEW c \in Convs, NEW t \in Messages
    PROVE  \A i \in 1..StartAt(c, t) : incoming[c][i].id <= t
<1> DEFINE later == {i \in 1..Len(incoming[c]) : incoming[c][i].id > t}
<1>1. Len(incoming[c]) \in Nat /\ incoming[c] \in Seq(Message)
  BY LenProperties DEF ConvTypes
<1>2. ASSUME NEW i \in 1..Len(incoming[c]), i \notin later PROVE incoming[c][i].id <= t
  <2>1. incoming[c][i] \in Message
    BY <1>1, ElementOfSeq
  <2>2. incoming[c][i].id \in Int /\ t \in Int
    BY <2>1 DEF Message, Messages
  <2> QED
    BY <1>2, <2>2
<1>3. CASE later = {}
  <2>1. StartAt(c, t) = Len(incoming[c])
    BY <1>3 DEF StartAt
  <2> HIDE DEF later
  <2> QED
    BY <1>2, <1>3, <2>1
<1>4. CASE later # {}
  <2>1. later \in SUBSET Nat /\ later \subseteq 1..Len(incoming[c])
    BY <1>1
  <2> HIDE DEF later
  <2>2. \E i \in later : \A j \in later : i <= j
    BY <1>4, <2>1, Smallest
  <2> DEFINE k == CHOOSE x \in later : \A j \in later : x <= j
  <2>3. k \in later /\ \A j \in later : k <= j
    BY <2>2
  <2>4. StartAt(c, t) = k - 1
    BY <1>4 DEF StartAt, later
  <2> HIDE DEF k
  <2>5. \A i \in 1..(k - 1) : i \in 1..Len(incoming[c]) /\ i \notin later
    BY <1>1, <2>1, <2>3
  <2> QED
    BY <1>2, <2>4, <2>5
<1> QED
  BY <1>3, <1>4

LEMMA GetMessageOrder ==
    ASSUME IInv, IInv', OrderInv, NEW w \in Waits, NEW c \in Convs,
           NEW k \in {"response", "reply"}, NEW t \in sent, GetMessage(w, c, k, t)
    PROVE  OrderInv'
<1> DEFINE q == Indices(k)
           i == IF index[c][q][t] = -1 THEN StartAt(c, t) ELSE index[c][q][t]
           there == i < Len(incoming[c]) /\ Meets(k, incoming[c][i + 1], t)
           y == IF there THEN i + 1 ELSE i
           r == [at |-> IF there THEN "result" ELSE Awaited(c), conv |-> c, kind |-> k,
                 target |-> t, got |-> IF there THEN i + 1 ELSE 0]
<1>1. ConvTypes /\ ChatTypes /\ WaitTypes /\ WaitsOK /\ EntriesOK
  BY TypeParts DEF IInv, WaitPart
<1>2. ConvTypes' /\ ChatTypes'
  BY DEF IInv, TypeOK, ConvTypes, ChatTypes
<1>3. t \in Messages /\ k \in Tables
  BY <1>1, SentMessages DEF Tables
<1>4. /\ index' = [index EXCEPT ![c][q][t] = y]
      /\ wait' = [wait EXCEPT ![w] = r]
      /\ table' = IF there THEN table ELSE [table EXCEPT ![c][k][t] = w]
      /\ c \in open /\ wait[w].at = "free"
      /\ UNCHANGED <<shared, last, sent, open, cancelled, incoming, custom, lastRead,
                     flight, disturbed>>
  BY DEF GetMessage
<1>5. /\ q \in {"response", "reply"}
      /\ q = "reply" => k = "reply" /\ ~shared
      /\ q = "response" /\ k = "reply" => shared
  BY <1>1 DEF Indices, ChatTypes
<1>6. \A d \in Convs : \A s \in Messages :
         /\ index[d]["response"][s] \in Int /\ Len(incoming[d]) \in Nat
         /\ index[d]["response"][s] >= -1
         /\ index[d]["response"][s] <= Len(incoming[d])
  <2> SUFFICES ASSUME NEW d \in Convs, NEW s \in Messages
               PROVE  /\ index[d]["response"][s] \in Int /\ Len(incoming[d]) \in Nat
                      /\ index[d]["response"][s] >= -1
                      /\ index[d]["response"][s] <= Len(incoming[d])
    OBVIOUS
  <2>1. index[d]["response"][s] \in -1..MaxIncoming
    BY <1>1 DEF ConvTypes
  <2> QED
    BY <1>1, <2>1, LenProperties, IncomingAssumption DEF ConvTypes, OrderInv, UpToOK
<1>7. StartAt(c, t) \in 0..Len(incoming[c]) /\ \A j \in 1..StartAt(c, t) : incoming[c][j].id <= t
  BY <1>1, <1>3, StartAtType, StartAtOlder
<1>8. /\ r.conv = c /\ r.kind = k /\ r.target = t
      /\ there => r.at = "result" /\ r.got = y
      /\ ~there => r.at \in {"pending", "unwatched"}
  BY DEF Awaited
<1>9. ASSUME q = "response"
      PROVE  /\ i \in 0..Len(incoming[c]) /\ y \in 0..Len(incoming[c])
             /\ index[c]["response"][t] <= i
             /\ index[c]["response"][t] # -1 => i = index[c]["response"][t]
             /\ index[c]["response"][t] = -1 => i = StartAt(c, t)
             /\ there => y = i + 1
             /\ ~there => y = i
             /\ k = "response" /\ ~there => i = Len(incoming[c])
             /\ there => i < Len(incoming[c])
  <2>1. /\ index[c]["response"][t] # -1 => i = index[c]["response"][t]
        /\ index[c]["response"][t] = -1 => i = StartAt(c, t)
    BY <1>9
  <2>2. i \in 0..Len(incoming[c]) /\ index[c]["response"][t] <= i
    BY <1>3, <1>6, <1>7, <2>1
  <2>3. k = "response" => (there <=> i < Len(incoming[c]))
    BY DEF Meets
  <2>4. there => i < Len(incoming[c])
    OBVIOUS
  <2> HIDE DEF i, there
  <2> QED
    BY <1>3, <1>6, <2>1, <2>2, <2>3, <2>4
<1> HIDE DEF i, there, y, r, q
<1>10. /\ wait'[w] = r /\ \A v \in Waits : v # w => wait'[v] = wait[v]
       /\ wait[w].kind = "none"
  BY <1>1, <1>4 DEF WaitTypes, WaitsOK
<1>11. \A d \in Convs : \A s \in Messages :
          index'[d]["response"][s] = IF d = c /\ s = t /\ q = "response" THEN y
                                     ELSE index[d]["response"][s]
  BY <1>1, <1>3, <1>4, <1>5 DEF ConvTypes
<1>12. \A d \in Convs : \A s \in Messages :
          table'[d]["response"][s] = IF d = c /\ s = t /\ k = "response" /\ ~there THEN w
                                     ELSE table[d]["response"][s]
  BY <1>1, <1>3, <1>4 DEF ConvTypes, Tables
<1>13. ASSUME NEW d \in Convs, NEW s \in Messages
       PROVE  /\ w \notin Got(d, "response", s)
              /\ Asked(d, "reply", s) \subseteq Asked(d, "reply", s)'
              /\ Got(d, "response", s)' =
                    IF d = c /\ s = t /\ k = "response" /\ there
                    THEN Got(d, "response", s) \cup {w} ELSE Got(d, "response", s)
  <2>1. ASSUME NEW v \in Waits, v # w
        PROVE  /\ v \in Got(d, "response", s)' <=> v \in Got(d, "response", s)
               /\ v \in Asked(d, "reply", s) => v \in Asked(d, "reply", s)'
    BY <1>10, <2>1 DEF Got, Asked
  <2>2. w \notin Got(d, "response", s) /\ w \notin Asked(d, "reply", s)
    BY <1>10 DEF Got, Asked
  <2>3. w \in Got(d, "response", s)' <=> d = c /\ s = t /\ k = "response" /\ there
    BY <1>8, <1>10 DEF Got, Asked
  <2>4. /\ \A v \in Got(d, "response", s)' : v \in Waits
        /\ \A v \in Got(d, "response", s) : v \in Waits
        /\ \A v \in Asked(d, "reply", s) : v \in Waits
    BY DEF Got, Asked
  <2> QED
    BY <2>1, <2>2, <2>3, <2>4
<1>14. Grows
  BY <1>4, <1>6, <1>10, <1>13 DEF Grows
<1>15. ASSUME NEW d \in Convs, NEW s \in Messages PROVE Moves(d, s)
  <2>1. Alone(d, s)' => Alone(d, s)
    BY <1>4, <1>13 DEF Alone
  <2>2. CASE ~(d = c /\ s = t /\ q = "response")
    <3>1. index'[d]["response"][s] = index[d]["response"][s] /\ incoming' = incoming
      BY <1>4, <1>11, <2>2
    <3>2. ~(d = c /\ s = t /\ k = "response")
      BY <1>5, <2>2
    <3>3. /\ table'[d]["response"][s] = table[d]["response"][s]
          /\ Got(d, "response", s)' = Got(d, "response", s)
      BY <1>12, <1>13, <3>2
    <3>4. d \in open /\ Alone(d, s) /\ table[d]["response"][s] # None =>
             index[d]["response"][s] = Len(incoming[d])
      BY DEF OrderInv, OpenOK
    <3> QED
      BY <1>4, <1>6, <2>1, <3>1, <3>3, <3>4 DEF Moves
  <2>3. CASE d = c /\ s = t /\ q = "response"
    <3>1. index'[c]["response"][t] = y /\ incoming' = incoming
      BY <1>3, <1>4, <1>11, <2>3
    <3>2. index[c]["response"][t] <= y /\ y <= Len(incoming[c]) /\ y \in Int
      BY <1>3, <1>6, <1>9, <2>3
    <3>3. ASSUME Alone(c, t)' PROVE k = "response"
      <4> SUFFICES ASSUME k = "reply" PROVE FALSE
        BY <1>5
      <4>1. w \in Asked(c, "reply", t)'
        BY <1>8, <1>10 DEF Asked
      <4> QED
        BY <1>4, <1>5, <2>3, <3>3, <4>1 DEF Alone
    <3>4. ASSUME NEW j \in 1..i
          PROVE  j <= index[c]["response"][t] \/ incoming'[c][j].id <= t
      BY <1>4, <1>6, <1>7, <1>9, <2>3
    <3>5. CASE there /\ k = "response"
      <4>1. Got(c, "response", t)' = Got(c, "response", t) \cup {w}
        BY <1>3, <1>13, <3>5
      <4>2. wait'[w].got = y /\ w \in Waits \ Got(c, "response", t) /\ y = i + 1 /\ i \in Nat
        BY <1>3, <1>8, <1>9, <1>10, <1>13, <2>3, <3>5
      <4>3. index[c]["response"][t] < y /\ y >= 1
        BY <1>3, <1>6, <1>9, <2>3, <3>5
      <4>4. ASSUME NEW j \in 1..y
            PROVE  \/ j <= index[c]["response"][t]
                   \/ \E v \in Got(c, "response", t)' : wait'[v].got = j
                   \/ incoming'[c][j].id <= t
        <5>1. CASE j = y
          BY <4>1, <4>2, <5>1
        <5>2. CASE j # y
          <6>1. j \in 1..i
            BY <4>2, <5>2
          <6> QED
            BY <3>4, <6>1
        <5> QED
          BY <5>1, <5>2
      <4>5. ASSUME Alone(c, t)' PROVE table'[c]["response"][t] = None
        <5>1. table'[c]["response"][t] = table[c]["response"][t]
          BY <1>3, <1>12, <3>5
        <5>2. table[c]["response"][t] # None => index[c]["response"][t] = Len(incoming[c])
          BY <1>3, <1>4, <2>1, <2>3, <4>5 DEF OrderInv, OpenOK
        <5> QED
          BY <1>3, <1>6, <1>9, <2>3, <3>5, <5>1, <5>2
      <4> QED
        BY <1>4, <2>3, <3>1, <3>2, <4>1, <4>2, <4>3, <4>4, <4>5 DEF Moves
    <3>6. CASE ~(there /\ k = "response")
      <4>1. Got(c, "response", t)' = Got(c, "response", t)
        BY <1>3, <1>13, <3>6
      <4>2. ASSUME Alone(c, t)' PROVE y = i /\ y = Len(incoming[c])
        BY <1>9, <2>3, <3>3, <3>6, <4>2
      <4>3. ASSUME Alone(c, t)', NEW j \in 1..y
            PROVE  j <= index[c]["response"][t] \/ incoming'[c][j].id <= t
        BY <3>4, <4>2, <4>3
      <4> QED
        BY <2>3, <3>1, <3>2, <4>1, <4>2, <4>3 DEF Moves
    <3> QED
      BY <3>5, <3>6
  <2> QED
    BY <2>2, <2>3
<1>16. UpToOK' /\ OnceOK' /\ OpenOK' /\ ClosedOK'
  BY <1>1, <1>2, <1>4, <1>14, <1>15, OrderKept DEF OrderInv, ChatTypes
<1>17. ChecksOK'
  <2>1. \A v \in Waits : wait[v].kind = "event" => wait'[v].kind = "event"
    BY <1>10
  <2> QED
    BY <1>4, <2>1, ChecksKept DEF OrderInv
<1>18. FirstOK'
  BY <1>4, <1>11 DEF OrderInv, FirstOK
<1>19. ASSUME NEW d \in Convs, NEW s \in Messages, table'[d]["response"][s] # None
       PROVE  \/ d = c /\ table'[d]["response"][s] = w /\ ~there
              \/ /\ table'[d]["response"][s] = table[d]["response"][s]
                 /\ wait'[table[d]["response"][s]] = wait[table[d]["response"][s]]
  <2>1. CASE d = c /\ table'[d]["response"][s] = w /\ ~there
    BY <2>1
  <2>2. CASE table'[d]["response"][s] = table[d]["response"][s]
    <3>1. table[d]["response"][s] \in Waits /\ wait[table[d]["response"][s]].kind = "response"
      BY <1>1, <1>19, <2>2 DEF ConvTypes, EntriesOK, Tables
    <3> QED
      BY <1>10, <2>2, <3>1
  <2> QED
    BY <1>12, <2>1, <2>2
<1>20. DeadOK'
  <2> SUFFICES ASSUME NEW d \in Convs, d \notin open, NEW s \in Messages,
                      table'[d]["response"][s] # None
               PROVE  ~Live(table[d]["response"][s])'
    BY <1>4 DEF DeadOK
  <2>1. /\ table'[d]["response"][s] = table[d]["response"][s]
        /\ wait'[table[d]["response"][s]] = wait[table[d]["response"][s]]
    BY <1>4, <1>19
  <2> QED
    BY <2>1 DEF OrderInv, DeadOK, Live
<1>21. AliveOK'
  <2> SUFFICES ASSUME ~disturbed, NEW d \in open, NEW s \in Messages,
                      table'[d]["response"][s] # None
               PROVE  Live(table[d]["response"][s])'
    BY <1>4 DEF AliveOK
  <2>1. d \in Convs
    BY <1>1 DEF ConvTypes
  <2>2. CASE table'[d]["response"][s] = w /\ ~there
    BY <1>8, <1>10, <2>2 DEF Live
  <2>3. CASE /\ table'[d]["response"][s] = table[d]["response"][s]
             /\ wait'[table[d]["response"][s]] = wait[table[d]["response"][s]]
    BY <2>3 DEF OrderInv, AliveOK, Live
  <2> QED
    BY <1>19, <2>1, <2>2, <2>3
<1> QED
  BY <1>16, <1>17, <1>18, <1>20, <1>21 DEF OrderInv

LEMMA OrderStarts == Init => OrderInv
<1> SUFFICES ASSUME Init PROVE OrderInv
  OBVIOUS
<1>1. \A w \in Waits : wait[w].at = "free" /\ wait[w].kind = "none"
  BY DEF Init, Unused
<1>2. \A c \in Convs : \A t \in Messages : Got(c, "response", t) = {}
  BY <1>1 DEF Got, Asked
<1>3. /\ \A c \in Convs : \A t \in Messages :
            index[c]["response"][t] = -1 /\ table[c]["response"][t] = None
      /\ \A c \in Convs : Len(incoming[c]) = 0
      /\ open = {}
      /\ \A u \in Updates : flight[u].checks = {}
  BY DEF Init, NoIndex, NoTable, Tables, NotYet
<1>4. -1 <= 0
  OBVIOUS
<1> QED
  BY <1>2, <1>3, <1>4
  DEF OrderInv, ChecksOK, UpToOK, OnceOK, FirstOK, DeadOK, AliveOK, OpenOK, ClosedOK

LEMMA OrderSteps == IInv /\ OrderInv /\ [Next]_vars => OrderInv'
<1> SUFFICES ASSUME IInv, OrderInv, [Next]_vars PROVE OrderInv'
  OBVIOUS
<1>0. IInv'
  BY Steps
<1>1. CASE UNCHANGED vars
  BY <1>0, <1>1, UntouchedOrder DEF vars
<1>2. ASSUME NEW c \in Convs, Enter(c) \/ Exit(c) \/ Cancel(c) PROVE OrderInv'
  BY <1>0, <1>2, EnterOrder, ExitOrder, CancelOrder
<1>3. ASSUME SendMessage PROVE OrderInv'
  BY <1>0, <1>3, SendMessageOrder
<1>4. ASSUME NEW w \in Waits, NEW c \in Convs, NEW t \in sent,
             \/ GetMessage(w, c, "response", t)
             \/ GetMessage(w, c, "reply", t)
             \/ WaitRead(w, c, t)
      PROVE  OrderInv'
  <2>1. CASE GetMessage(w, c, "response", t)
    BY <1>0, <2>1, GetMessageOrder
  <2>2. CASE GetMessage(w, c, "reply", t)
    BY <1>0, <2>2, GetMessageOrder
  <2>3. CASE WaitRead(w, c, t)
    BY <1>0, <2>3, WaitReadOrder
  <2> QED
    BY <1>4, <2>1, <2>2, <2>3
<1>5. ASSUME NEW w \in Waits, NEW c \in Convs, WaitEvent(w, c) PROVE OrderInv'
  BY <1>0, <1>5, WaitEventOrder
<1>6. ASSUME NEW w \in Waits, TimesOut(w) \/ EventAwaited(w) PROVE OrderInv'
  BY <1>0, <1>6, TimesOutOrder, EventAwaitedOrder
<1>7. ASSUME NEW u \in Updates, NEW what \in Update, Arrives(u, what) PROVE OrderInv'
  BY <1>0, <1>7, ArrivesOrder
<1>8. ASSUME NEW u \in Updates, NEW c \in Convs, Serve(u, c) PROVE OrderInv'
  <2>1. CASE /\ flight[u].update.kind = "message"
             /\ Overflows(u, c) \/ Receives(u, c)
    BY <1>0, <1>8, <2>1, OverflowsOrder, ReceivesOrder
  <2>2. CASE Reads(u, c) /\ UNCHANGED <<cancelled, incoming, index, disturbed>>
    BY <1>0, <1>8, <2>2, ReadsOrder
  <2> QED
    BY <1>8, <2>1, <2>2 DEF Serve
<1>9. ASSUME NEW u \in Updates, Notices(u) \/ Handle(u) PROVE OrderInv'
  BY <1>0, <1>9, EndedOrder
<1>10. ASSUME NEW u \in Updates, NEW w \in Waits, Filtered(u, w) PROVE OrderInv'
  BY <1>0, <1>10, FilteredOrder
<1> QED
  BY <1>1, <1>2, <1>3, <1>4, <1>5, <1>6, <1>7, <1>8, <1>9, <1>10 DEF Next

LEMMA OrderGives == ASSUME IInv, OrderInv PROVE InOrder
<1>1. ConvTypes /\ ChatTypes /\ WaitTypes
  BY TypeParts DEF IInv
<1> SUFFICES ASSUME NEW c \in Convs, NEW t \in sent
             PROVE  LET answers == Got(c, "response", t)
                    IN  /\ \A v, w \in answers : v # w => wait[v].got # wait[w].got
                        /\ ~disturbed /\ (shared => Asked(c, "reply", t) = {}) =>
                              \A w \in answers : \A i \in 1..(wait[w].got - 1) :
                                 incoming[c][i].id > t => \E v \in answers : wait[v].got = i
  BY DEF InOrder
<1>2. t \in Messages
  BY <1>1, SentMessages
<1>3. \A v, w \in Got(c, "response", t) : v # w => wait[v].got # wait[w].got
  BY <1>2 DEF OrderInv, OnceOK
<1>4. ASSUME Alone(c, t), NEW w \in Got(c, "response", t)
      PROVE  Gapless(c, t, wait[w].got - 1)
  <2>1. CASE c \in open
    <3>1. Gapless(c, t, index[c]["response"][t])
      BY <1>2, <1>4, <2>1 DEF OrderInv, OpenOK
    <3>2. wait[w].got \in 1..index[c]["response"][t] /\ index[c]["response"][t] \in -1..MaxIncoming
      BY <1>1, <1>2 DEF OrderInv, UpToOK, ConvTypes
    <3>3. 1..(wait[w].got - 1) \subseteq 1..index[c]["response"][t]
      BY <3>2, IncomingAssumption
    <3> QED
      BY <3>1, <3>3 DEF Gapless
  <2>2. CASE c \notin open
    BY <1>2, <1>4, <2>2 DEF OrderInv, ClosedOK
  <2> QED
    BY <2>1, <2>2
<1> QED
  BY <1>3, <1>4 DEF Alone, Gapless

(* The answers to get_response come in the order of the messages, each      *)
(* message once and none left out, as long as nothing disturbs the          *)
(* conversation and get_reply does not take its share: _get_message and     *)
(* _on_new_message, whatever else is awaited, sent and left meanwhile.      *)
THEOREM AnsweredInOrder == Spec => []InOrder
<1>1. Spec => [](IInv /\ OrderInv)
  BY Starts, Steps, OrderStarts, OrderSteps, PTL DEF Spec
<1>2. IInv /\ OrderInv => InOrder
  BY OrderGives
<1> QED
  BY <1>1, <1>2, PTL
=============================================================================
