---------------------------- MODULE Conversation ----------------------------
(***************************************************************************)
(* The conversations that tasks hold in one chat, and the dispatch of every *)
(* update through them before it reaches the event handlers.                *)
(* Translated from src/boka_tl/tl/custom/conversation.py and                *)
(* _dispatch_update of src/boka_tl/client/updates.py.                       *)
(*                                                                         *)
(* A wait is a future and whoever awaits it.  The messages of the chat,     *)
(* sent and received, are numbered.  get_edit is left out: it is to edits   *)
(* what get_response is to messages.                                        *)
(***************************************************************************)
EXTENDS Integers, Sequences, FiniteSets

CONSTANTS
    Convs,          \* conversations, none of them exclusive
    Waits,          \* identities of waits; bound of the model
    None,
    MaxIncoming,    \* max_messages
    MaxSent,        \* bound of the model: messages we send
    MaxMessages,    \* bound of the model: messages of the chat
    MaxUpdates      \* bound of the model: updates dispatched

ASSUME NoneAssumption == None \notin Waits \cup Convs
ASSUME ConvsAssumption == IsFiniteSet(Convs)
ASSUME IncomingAssumption == MaxIncoming \in Nat
ASSUME BoundsAssumption == MaxSent \in Nat /\ MaxMessages \in Nat /\ MaxUpdates \in Nat

Messages == 1..MaxMessages
Updates == 1..MaxUpdates
Tables == {"response", "reply", "read"}     \* the dicts of pending futures

VARIABLES
    shared,     \* replies_are_responses
    last,       \* the number of the last message
    sent,       \* messages sent by us
    open,       \* _conversations of the chat
    cancelled,  \* _cancelled of a conversation
    incoming,   \* its _incoming
    index,      \* its _response_indices and _reply_indices, -1 where there is none
    table,      \* its dicts of pending futures
    custom,     \* its _custom
    lastRead,   \* its _last_read, -1 for None
    wait,       \* the waits
    flight,     \* the updates and how far each has come
    disturbed   \* history: a wait has timed out, or a conversation was cancelled
                \* while open, or was full

convVars == <<open, cancelled, incoming, index, table, custom, lastRead>>
vars == <<shared, last, sent, convVars, wait, flight, disturbed>>

Ids == Messages \cup {0}
Message == [id : Messages, replies : Ids]
Ends == {"result", "error", "cancelled"}
Wait == [at : {"free", "pending", "unwatched"} \cup Ends,
         conv : Convs \cup {None}, kind : Tables \cup {"event", "none"},
         target : Ids, got : Nat]
Update == [kind : {"none", "message", "read"}, id : Ids, replies : Ids]
Flight == [at : {"none", "running", "waiting", "handled", "broken"}, update : Update,
           conv : Convs \cup {None}, todo : SUBSET Convs, checks : SUBSET Waits,
           size : 0..Cardinality(Convs), changed : BOOLEAN]

TypeOK ==
    /\ shared \in BOOLEAN
    /\ last \in Ids
    /\ sent \subseteq 1..last
    /\ open \subseteq Convs
    /\ cancelled \in [Convs -> BOOLEAN]
    /\ incoming \in [Convs -> Seq(Message)]
    /\ \A c \in Convs : Len(incoming[c]) <= MaxIncoming
    /\ index \in [Convs -> [{"response", "reply"} -> [Messages -> -1..MaxIncoming]]]
    /\ table \in [Convs -> [Tables -> [Messages -> Waits \cup {None}]]]
    /\ custom \in [Convs -> SUBSET Waits]
    /\ lastRead \in [Convs -> -1..MaxMessages]
    /\ wait \in [Waits -> Wait]
    /\ flight \in [Updates -> Flight]
    /\ disturbed \in BOOLEAN

Unused == [at |-> "free", conv |-> None, kind |-> "none", target |-> 0, got |-> 0]
NoIndex == [k \in {"response", "reply"} |-> [t \in Messages |-> -1]]
NoTable == [t \in Messages |-> None]
NoUpdate == [kind |-> "none", id |-> 0, replies |-> 0]
NotYet == [at |-> "none", update |-> NoUpdate, conv |-> None, todo |-> {},
           checks |-> {}, size |-> 0, changed |-> FALSE]

Init ==
    /\ shared \in BOOLEAN
    /\ last = 0
    /\ sent = {}
    /\ open = {}
    /\ cancelled = [c \in Convs |-> FALSE]
    /\ incoming = [c \in Convs |-> <<>>]
    /\ index = [c \in Convs |-> NoIndex]
    /\ table = [c \in Convs |-> [k \in Tables |-> NoTable]]
    /\ custom = [c \in Convs |-> {}]
    /\ lastRead = [c \in Convs |-> -1]
    /\ wait = [w \in Waits |-> Unused]
    /\ flight = [u \in Updates |-> NotYet]
    /\ disturbed = FALSE

\* No update is between two awaits.
Quiet == \A u \in Updates : flight[u].at # "running"

\* A future that is not done; its entry in a dict is dead when it is.
Live(w) == wait[w].at \in {"pending", "unwatched"}
In(c, k) == {table[c][k][t] : t \in Messages} \ {None}

End(S, end, got) ==
    [w \in Waits |-> IF w \in S /\ Live(w) THEN [wait[w] EXCEPT !.at = end, !.got = got]
                                           ELSE wait[w]]

-----------------------------------------------------------------------------
(* _cancel_all.  It goes through responses, replies and custom events, and  *)
(* leaves the pending reads.  Cancelling a done future is harmless, setting *)
(* an exception on one raises, and what comes after it stays as it is.      *)

\* Mutant: replies are left out.
FuturesWithoutReplies(c) == In(c, "response") \cup custom[c]

Futures(c) == In(c, "response") \cup In(c, "reply") \cup custom[c]

\* What it may have reached when it raises, or everything.
Reached(c) ==
    LET stages == <<In(c, "response"), In(c, "reply"), custom[c]>>
        done(i) == {w \in stages[i] : ~Live(w)}
        first == {i \in 1..3 : done(i) # {} /\ \A j \in 1..(i - 1) : done(j) = {}}
    IN  IF first = {} THEN {Futures(c)}
        ELSE UNION {{UNION {stages[j] : j \in 1..(i - 1)} \cup S :
                         S \in SUBSET (stages[i] \ done(i))} : i \in first}

CancelAll(c) ==
    /\ cancelled' = [cancelled EXCEPT ![c] = TRUE]
    /\ wait' = End(Futures(c), "cancelled", 0)

-----------------------------------------------------------------------------
(* What the holder of a conversation does.                                  *)

\* The iterations over the open conversations that are under way.
Stirred ==
    flight' = [u \in Updates |-> [flight[u] EXCEPT
                  !.changed = @ \/ flight[u].at = "waiting"]]

\* Each object once, as "async with client.conversation(...)" does.
Enter(c) ==
    /\ Quiet
    /\ c \notin open
    /\ ~cancelled[c]
    /\ open' = open \cup {c}
    /\ Stirred
    /\ UNCHANGED <<shared, last, sent, cancelled, incoming, index, table, custom,
                   lastRead, wait, disturbed>>

Exit(c) ==
    /\ Quiet
    /\ c \in open
    /\ open' = open \ {c}
    /\ CancelAll(c)
    /\ Stirred
    /\ UNCHANGED <<shared, last, sent, incoming, index, table, custom, lastRead,
                   disturbed>>

Cancel(c) ==
    /\ Quiet
    /\ c \in open
    /\ CancelAll(c)
    /\ disturbed' = TRUE
    /\ UNCHANGED <<shared, last, sent, open, incoming, index, table, custom, lastRead,
                   flight>>

SendMessage ==
    /\ Quiet
    /\ last < MaxMessages
    /\ Cardinality(sent) < MaxSent
    /\ last' = last + 1
    /\ sent' = sent \cup {last + 1}
    /\ UNCHANGED <<shared, convVars, wait, flight, disturbed>>

\* Which of the two dicts of indices get_reply uses.
Indices(k) == IF shared THEN "response" ELSE k

Replies(m, t) == m.replies = t
Meets(k, m, t) == k = "response" \/ Replies(m, t)

\* Mutant: only messages to come count.
StartAtEnd(c, t) == Len(incoming[c])

\* How many of the messages have been looked at for t: those older than t.
StartAt(c, t) ==
    LET later == {i \in 1..Len(incoming[c]) : incoming[c][i].id > t}
    IN  IF later = {} THEN Len(incoming[c])
        ELSE (CHOOSE i \in later : \A j \in later : i <= j) - 1

\* _get_result, which the conversation being cancelled makes raise; the future
\* is in its dict all the same.
Awaited(c) == IF cancelled[c] THEN "unwatched" ELSE "pending"

\* get_response and get_reply.
GetMessage(w, c, k, t) ==
    LET i == IF index[c][Indices(k)][t] = -1 THEN StartAt(c, t)
             ELSE index[c][Indices(k)][t]
        there == i < Len(incoming[c]) /\ Meets(k, incoming[c][i + 1], t)
    IN  /\ Quiet
        /\ wait[w].at = "free"
        /\ c \in open
        /\ index' = [index EXCEPT ![c][Indices(k)][t] = IF there THEN i + 1 ELSE i]
        /\ wait' = [wait EXCEPT ![w] =
              [at |-> IF there THEN "result" ELSE Awaited(c), conv |-> c, kind |-> k,
               target |-> t, got |-> IF there THEN i + 1 ELSE 0]]
        /\ table' = IF there THEN table ELSE [table EXCEPT ![c][k][t] = w]
        /\ UNCHANGED <<shared, last, sent, open, cancelled, incoming, custom, lastRead,
                       flight, disturbed>>

\* Nothing happens, not even a future, when the message counts as read.
WaitRead(w, c, t) ==
    LET read == IF lastRead[c] = -1 THEN t - 1 ELSE lastRead[c]
    IN  /\ Quiet
        /\ wait[w].at = "free"
        /\ c \in open
        /\ lastRead' = [lastRead EXCEPT ![c] = read]
        /\ read < t
        /\ wait' = [wait EXCEPT ![w] = [at |-> Awaited(c), conv |-> c, kind |-> "read",
                                        target |-> t, got |-> 0]]
        /\ table' = [table EXCEPT ![c].read[t] = w]
        /\ UNCHANGED <<shared, last, sent, open, cancelled, incoming, index, custom,
                       flight, disturbed>>

WaitEvent(w, c) ==
    /\ Quiet
    /\ wait[w].at = "free"
    /\ c \in open
    /\ ~cancelled[c]
    /\ wait' = [wait EXCEPT ![w] = [at |-> "pending", conv |-> c, kind |-> "event",
                                    target |-> 0, got |-> 0]]
    /\ custom' = [custom EXCEPT ![c] = @ \cup {w}]
    /\ UNCHANGED <<shared, last, sent, open, cancelled, incoming, index, table, lastRead,
                   flight, disturbed>>

\* The entries stay in their dicts; that of an event is taken out.
TimesOut(w) ==
    /\ Quiet
    /\ wait[w].at = "pending"
    /\ wait' = [wait EXCEPT ![w].at = "cancelled"]
    /\ custom' = [c \in Convs |-> custom[c] \ {w}]
    /\ disturbed' = TRUE
    /\ UNCHANGED <<shared, last, sent, open, cancelled, incoming, index, table, lastRead,
                   flight>>

\* Whoever awaited an event runs on: the finally of wait_event.
EventAwaited(w) ==
    /\ Quiet
    /\ wait[w].at \in Ends
    /\ \E c \in Convs : w \in custom[c]
    /\ custom' = [c \in Convs |-> custom[c] \ {w}]
    /\ UNCHANGED <<shared, last, sent, open, cancelled, incoming, index, table, lastRead,
                   wait, flight, disturbed>>

-----------------------------------------------------------------------------
(* _dispatch_update.                                                        *)

\* An update comes and its task begins: a message to us, or what they have read.
Arrives(u, what) ==
    /\ Quiet
    /\ flight[u].at = "none"
    /\ \A v \in Updates : v < u => flight[v].at # "none"
    /\ \/ /\ what.kind = "message"
          /\ last < MaxMessages
          /\ what.id = last + 1
          /\ what.replies \in sent \cup {0}
          /\ last' = last + 1
       \/ /\ what.kind = "read"
          /\ what.id \in sent
          /\ what.replies = 0
          /\ UNCHANGED last
    /\ flight' = [flight EXCEPT ![u] = [NotYet EXCEPT
          !.at = "running", !.update = what, !.todo = open, !.size = Cardinality(open)]]
    /\ UNCHANGED <<shared, sent, convVars, wait, disturbed>>

Over(u, end) == flight' = [flight EXCEPT ![u] = [NotYet EXCEPT !.at = end]]

\* An exception leaves the dispatch: no handler gets the update.
Breaks(u) == Over(u, "broken")

\* The custom events of c are checked next, if there are any.
Continues(u, c) ==
    flight' = [flight EXCEPT ![u] =
        [flight[u] EXCEPT !.todo = @ \ {c}, !.conv = c, !.checks = custom[c],
                  !.at = IF custom[c] = {} THEN "running" ELSE "waiting"]]

\* Mutant: one message more.
HasRoomForOne(c) == Len(incoming[c]) <= MaxIncoming

HasRoom(c) == Len(incoming[c]) < MaxIncoming

\* Mutant: the entries stay.
RemovedNone(futures, S) == futures

Removed(futures, S) == [t \in Messages |-> IF t \in S THEN None ELSE futures[t]]

\* _on_new_message of a full conversation: _cancel_all with a ValueError.
Overflows(u, c) ==
    /\ ~HasRoom(c)
    /\ disturbed' = TRUE
    /\ cancelled' = [cancelled EXCEPT ![c] = TRUE]
    /\ \E S \in Reached(c) : wait' = End(S, "error", 0)
    /\ IF \A w \in Futures(c) : Live(w) THEN Continues(u, c) ELSE Breaks(u)
    /\ UNCHANGED <<incoming, index, table>>

\* The futures of the dict k that message m answers: those before a dead entry,
\* or all.  The index of an entry moves before its future is set.
Answered(c, k, m) == {t \in Messages : table[c][k][t] # None /\ Meets(k, m, t)}
DeadOf(c, k, m) == {t \in Answered(c, k, m) : ~Live(table[c][k][t])}

Taken(c, k, m) ==
    IF DeadOf(c, k, m) = {} THEN {[set |-> Answered(c, k, m), dead |-> {}]}
    ELSE {[set |-> S, dead |-> {t}] : S \in SUBSET (Answered(c, k, m) \ DeadOf(c, k, m)),
                                      t \in DeadOf(c, k, m)}
Nobody == [set |-> {}, dead |-> {}]

\* _on_new_message otherwise: the responses first, then the replies.
Receives(u, c) ==
    LET m == [id |-> flight[u].update.id, replies |-> flight[u].update.replies]
        n == Len(incoming[c]) + 1
    IN  /\ HasRoom(c)
        /\ incoming' = [incoming EXCEPT ![c] = Append(@, m)]
        /\ \E r \in Taken(c, "response", m) :
           \E p \in IF r.dead = {} THEN Taken(c, "reply", m) ELSE {Nobody} :
             LET seen(k) == IF k = "response"
                            THEN r.set \cup r.dead \cup IF shared THEN p.set \cup p.dead ELSE {}
                            ELSE IF shared THEN {} ELSE p.set \cup p.dead
                 set(k) == IF k = "response" THEN r.set ELSE IF k = "reply" THEN p.set ELSE {}
             IN  /\ index' = [index EXCEPT ![c] = [k \in {"response", "reply"} |->
                        [t \in Messages |-> IF t \in seen(k) THEN n ELSE index[c][k][t]]]]
                 /\ wait' = End({table[c].response[t] : t \in r.set}
                                \cup {table[c].reply[t] : t \in p.set}, "result", n)
                 /\ table' = [table EXCEPT ![c] = [k \in Tables |->
                        Removed(table[c][k], set(k))]]
                 /\ IF r.dead \cup p.dead = {} THEN Continues(u, c) ELSE Breaks(u)
        /\ UNCHANGED <<cancelled, disturbed>>

\* _on_read.
Reads(u, c) ==
    LET upTo == flight[u].update.id
        due == {t \in Messages : table[c].read[t] # None /\ t >= upTo}
        dead == {t \in due : ~Live(table[c].read[t])}
    IN  /\ lastRead' = [lastRead EXCEPT ![c] = upTo]
        /\ \E S \in IF dead = {} THEN {due} ELSE SUBSET (due \ dead) :
              /\ wait' = End({table[c].read[t] : t \in S}, "result", upTo)
              /\ table' = [table EXCEPT ![c].read = Removed(table[c].read, S)]
        /\ IF dead = {} THEN Continues(u, c) ELSE Breaks(u)

\* Python looks at the size of what it iterates over; a change that leaves the
\* size as it was may go unnoticed.
Intact(u) == Cardinality(open) = flight[u].size

\* The next conversation gets it.
Serve(u, c) ==
    /\ flight[u].at = "running"
    /\ Intact(u)
    /\ c \in flight[u].todo
    /\ \/ /\ flight[u].update.kind = "message"
          /\ Overflows(u, c) \/ Receives(u, c)
          /\ UNCHANGED lastRead
       \/ /\ flight[u].update.kind = "read"
          /\ Reads(u, c)
          /\ UNCHANGED <<cancelled, incoming, index, disturbed>>
    /\ UNCHANGED <<shared, last, sent, open, custom>>

\* The iteration notices that a conversation was added or removed.
Notices(u) ==
    /\ flight[u].at = "running"
    /\ flight[u].changed
    /\ Breaks(u)
    /\ UNCHANGED <<shared, last, sent, convVars, wait, disturbed>>

\* The conversations have seen it: now the event handlers.
Handle(u) ==
    /\ flight[u].at = "running"
    /\ Intact(u)
    /\ flight[u].todo = {}
    /\ Over(u, "handled")
    /\ UNCHANGED <<shared, last, sent, convVars, wait, disturbed>>

-----------------------------------------------------------------------------
(* _check_custom, on the custom events there were; their filters are awaited. *)

\* The rest of the filters, or the next conversation.
ChecksOn(u, w) ==
    flight' = [flight EXCEPT ![u] =
        [flight[u] EXCEPT !.checks = @ \ {w},
                  !.at = IF flight[u].checks = {w} THEN "running" ELSE "waiting"]]

Filtered(u, w) ==
    LET c == flight[u].conv
    IN  /\ Quiet
        /\ flight[u].at = "waiting"
        /\ w \in flight[u].checks
        /\ \/ /\ ChecksOn(u, w)
              /\ UNCHANGED <<wait, custom>>
           \/ /\ Live(w)
              /\ wait' = End({w}, "result", 0)
              /\ custom' = [custom EXCEPT ![c] = @ \ {w}]
              /\ ChecksOn(u, w)
           \/ /\ ~Live(w)
              /\ Breaks(u)
              /\ UNCHANGED <<wait, custom>>
        /\ UNCHANGED <<shared, last, sent, open, cancelled, incoming, index, table,
                       lastRead, disturbed>>

-----------------------------------------------------------------------------
Next ==
    \/ \E c \in Convs : Enter(c) \/ Exit(c) \/ Cancel(c)
    \/ SendMessage
    \/ \E w \in Waits, c \in Convs, t \in sent :
          \/ GetMessage(w, c, "response", t)
          \/ GetMessage(w, c, "reply", t)
          \/ WaitRead(w, c, t)
    \/ \E w \in Waits, c \in Convs : WaitEvent(w, c)
    \/ \E w \in Waits : TimesOut(w) \/ EventAwaited(w)
    \/ \E u \in Updates, what \in Update : Arrives(u, what)
    \/ \E u \in Updates, c \in Convs : Serve(u, c)
    \/ \E u \in Updates : Notices(u) \/ Handle(u)
    \/ \E u \in Updates, w \in Waits : Filtered(u, w)

Spec == Init /\ [][Next]_vars

-----------------------------------------------------------------------------
(* Properties.                                                              *)

Asked(c, k, t) == {w \in Waits : wait[w].conv = c /\ wait[w].kind = k /\ wait[w].target = t}
Got(c, k, t) == {w \in Asked(c, k, t) : wait[w].at = "result"}

\* The event handlers get every update, whatever the conversations are waiting
\* for -- unless a wait has timed out, a conversation was cancelled or full, or
\* somebody used wait_event (_dispatch_update runs the conversations first).
Dispatched ==
    \A u \in Updates : flight[u].at = "broken" =>
        disturbed \/ \E w \in Waits : wait[w].kind = "event"

\* The answers to get_response for a message are the messages that follow it,
\* each once and none left out -- unless a wait has timed out, and when
\* get_reply does not take its share (_get_message, _on_new_message).
InOrder ==
    \A c \in Convs : \A t \in sent :
        LET answers == Got(c, "response", t)
        IN  /\ \A v, w \in answers : v # w => wait[v].got # wait[w].got
            /\ ~disturbed /\ (shared => Asked(c, "reply", t) = {}) =>
                  \A w \in answers : \A i \in 1..(wait[w].got - 1) :
                      incoming[c][i].id > t => \E v \in answers : wait[v].got = i

\* Nobody waits on in a conversation that was left, but for reads and for those
\* whose entry a later wait for the same message has taken (__aexit__).
NoneLeft ==
    \A c \in Convs : c \notin open /\ cancelled[c] =>
        \A w \in Waits : wait[w].conv = c /\ wait[w].at = "pending" =>
            \/ wait[w].kind = "read"
            \/ wait[w].kind # "event" /\ table[c][wait[w].kind][wait[w].target] # w
=============================================================================
